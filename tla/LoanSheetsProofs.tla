--------------------------- MODULE LoanSheetsProofs ---------------------------
(***************************************************************************)
(* What holds of the loan sheets for any number of advances, sheets,       *)
(* lines, records and calls.                                               *)
(***************************************************************************)
EXTENDS LoanSheets, FiniteSetTheorems, TLAPS

MaybeAdv == Advances \cup {None}
MaybeSheet == Sheets \cup {None}
MaybeRecord == Records \cup {None}

SheetRows == [state : {"none", "draft", "locked", "gone"}, sent : MaybeRecord]
LineRows == [sheet : MaybeSheet, adv : MaybeAdv, pick : BOOLEAN]
RecordRows == {r \in [sheet : MaybeSheet, pays : SUBSET Advances, posted : BOOLEAN] :
                 r.sheet = None => r.pays = {}}

Ats == {"idle", "attach", "batch", "newBatch", "line", "find", "lock", "load",
        "export", "create", "post", "persist", "note", "reopen", "cancel",
        "findLine", "dropLine", "strike", "dropSheet", "approve"}

CallRows == [at : Ats, closing : BOOLEAN, todo : SUBSET (Advances \cup Rows),
             adv : MaybeAdv, sheet : MaybeSheet, row : Rows \cup {None},
             record : MaybeRecord]

Types ==
  /\ adv \in [Advances -> {"none", "pending", "applied", "cancelled"}]
  /\ sheet \in [Sheets -> SheetRows]
  /\ row \in [Rows -> LineRows]
  /\ remote \in [Records -> RecordRows]
  /\ call \in [Calls -> CallRows]
  /\ waiting \in [Calls -> SUBSET Advances]

-----------------------------------------------------------------------------
(* Lines lie on sheets that exist and name advances that were granted; an  *)
(* uploaded sheet has advances only once it is approved.                   *)
LineFits(l) ==
  \/ row[l] = NoRow
  \/ /\ row[l].sheet \in Sheets /\ sheet[row[l].sheet].state # "none"
     /\ row[l].adv # None =>
          /\ adv[row[l].adv] # "none"
          /\ row[l].sheet \in Uploaded => sheet[row[l].sheet].state # "draft"

Lines == \A l \in Rows : LineFits(l)

(* What a call works on. *)
Joins(k) == k.at \in {"batch", "newBatch", "line"}
Sends(k) == k.at \in {"export", "create", "post", "persist", "note"}
Granted(a) == a \in Advances /\ adv[a] # "none"

CallFits(k) ==
  /\ k.at \in {"attach", "batch", "newBatch", "line"} => \A a \in k.todo : Granted(a)
  /\ Joins(k) => Granted(k.adv)
  /\ k.at = "line" => k.sheet \in Manual /\ sheet[k.sheet].state # "none"
  /\ k.at \in {"lock", "load", "reopen", "dropSheet", "approve"} \/ Sends(k) =>
       k.sheet \in Sheets
  /\ k.at = "lock" => k.sheet \in Manual
  /\ k.closing /\ (k.at = "load" \/ Sends(k)) => k.sheet \in Manual
  /\ k.at = "reopen" => k.sheet \in Manual
  /\ k.at \in {"lock", "load", "reopen"} \/ Sends(k) => sheet[k.sheet].state # "none"
  /\ k.at \in {"approve", "dropSheet"} => k.sheet \in Uploaded
  /\ k.at = "create" => k.todo \subseteq Advances
  /\ k.at \in {"post", "persist", "note"} =>
       k.record \in Records /\ remote[k.record].sheet = k.sheet
  /\ k.at = "cancel" => Granted(k.adv)
  /\ k.at = "findLine" => k.adv \in Advances /\ adv[k.adv] = "cancelled"
  /\ k.at = "strike" => Granted(k.adv)
  /\ k.at = "dropLine" /\ k.adv # None =>
       k.adv \in Advances /\ adv[k.adv] \in {"cancelled", "applied"}

(* Unless a late write touched it, an advance has one line, nobody joins   *)
(* it who was late, and who is about to drop its line knows which it is.   *)
OneLine(a) == a \in raced \/ \A l, m \in RowsFor(a) : l = m

KnowsLines(k) ==
  /\ Joins(k) => k.adv \in raced \/ RowsFor(k.adv) = {}
  /\ k.at \in {"strike", "dropLine"} /\ k.adv # None =>
       \/ k.adv \in raced
       \/ /\ RowsFor(k.adv) \subseteq {k.row}
          /\ RowsFor(k.adv) = {} => adv[k.adv] = "cancelled"

(* An advance is paid by records of one sheet, where its line is. *)
Claims(a) ==
  {remote[i].sheet : i \in {j \in Records : a \in remote[j].pays}}
  \cup {call[c].sheet : c \in {d \in Calls : call[d].at = "create" /\ a \in call[d].todo}}

Places(a) == Claims(a) \cup {row[l].sheet : l \in RowsFor(a)}

OneHome(a) ==
  a \in raced \/ /\ \A b, d \in Places(a) : b = d
                 /\ Claims(a) # {} /\ RowsFor(a) = {} => adv[a] = "cancelled"

(* The line of a cancelled advance is about to be dropped. *)
Leaves(a) ==
  adv[a] = "cancelled" /\ RowsFor(a) # {} => a \in raced \/ Dropping(a)

(* What a closing call waits for has its line or will get it. *)
Expects(k, w) ==
  /\ k.at = "attach" => \A a \in w : a \in k.todo \/ RowsFor(a) # {}
  /\ Joins(k) => \A a \in w : a \in k.todo \/ a = k.adv \/ RowsFor(a) # {}
  /\ k.at \in {"find", "lock"} => \A a \in w : RowsFor(a) # {}

(* Unless its sending is in doubt, a sheet is sent by one call, which      *)
(* found no record of it, and it has one record.                           *)
SentOnce(b) ==
  b \in doubt \/
    /\ \A c, d \in Sending(b) : c = d
    /\ \A i, j \in Records : remote[i].sheet = b /\ remote[j].sheet = b => i = j
    /\ \A i \in Records : remote[i].sheet = b =>
         /\ sheet[b].sent # None \/ \E c \in Sending(b) : call[c].at \in {"post", "persist", "note"}
         /\ \A c \in Sending(b) : call[c].at \notin {"export", "create"}

AllCalls == \A c \in Calls : CallFits(call[c]) /\ KnowsLines(call[c])
AllWait == \A c \in Calls : Expects(call[c], waiting[c])
AllLines == \A a \in Advances : OneLine(a) /\ OneHome(a) /\ Leaves(a)
AllSent == \A b \in Sheets : SentOnce(b)

IInv == Types /\ Lines /\ AllCalls /\ AllWait /\ AllLines /\ AllSent

-----------------------------------------------------------------------------
(* What any step does to advances, sheets, records and the lines of an     *)
(* advance.                                                                *)
Lasts ==
  /\ raced \subseteq raced' /\ doubt \subseteq doubt'
  /\ \A a \in Advances :
       /\ adv[a] # "none" => adv'[a] # "none"
       /\ adv[a] = "cancelled" => adv'[a] = "cancelled"
       /\ adv[a] = "applied" => adv'[a] \in {"applied", "cancelled"}
  /\ \A b \in Sheets : sheet[b].state # "none" => sheet'[b].state # "none"
  /\ \A b \in Uploaded : sheet'[b].state = "draft" => sheet[b].state \in {"none", "draft"}
  /\ \A i \in Records : remote[i].sheet # None => remote'[i].sheet = remote[i].sheet

Keeps(a) ==
  /\ RowsFor(a)' \subseteq RowsFor(a)
  /\ \A l \in RowsFor(a)' : row'[l].sheet = row[l].sheet
  /\ RowsFor(a)' # RowsFor(a) => adv'[a] = "cancelled"

Gains(a) ==
  /\ RowsFor(a) = {} /\ adv[a] # "cancelled"
  /\ \E l \in Rows : RowsFor(a)' = {l}
  /\ \A c \in Calls : Joins(call'[c]) => call'[c].adv # a

Fate == \A a \in Advances : a \in raced' \/ Keeps(a) \/ Gains(a)

LEMMA Apart == SheetAssumption => /\ Manual \cap Uploaded = {}
                                  /\ None \notin Sheets /\ None \notin Advances
                                  /\ None \notin Rows /\ None \notin Records
                                  /\ Manual \subseteq Sheets /\ Uploaded \subseteq Sheets
BY DEF SheetAssumption, Sheets

LEMMA SameRows ==
  ASSUME row' = row
  PROVE  (\A a : RowsFor(a)' = RowsFor(a)) /\ (\A a : Keeps(a))
BY DEF RowsFor, Keeps

LEMMA FitsKept ==
  ASSUME SheetAssumption, Types, Lasts, NEW k \in CallRows, CallFits(k)
  PROVE  CallFits(k)'
<1>1. \A a : Granted(a) => Granted(a)'
  BY DEF Granted, Lasts
<1>2. \A b \in Sheets : b # None
  BY Apart
<1>3. k.at \in {"post", "persist", "note"} => k.sheet \in Sheets /\ k.sheet # None
  BY <1>2 DEF CallFits, Sends
<1>4. \A b \in Manual : b \in Sheets
  BY Apart
<1>5. k.at = "line" => sheet'[k.sheet].state # "none"
  BY <1>4 DEF CallFits, Lasts
<1>6. k.at \in {"lock", "load", "reopen"} \/ Sends(k) => sheet'[k.sheet].state # "none"
  BY DEF CallFits, Lasts
<1>7. k.at \in {"post", "persist", "note"} => remote'[k.record].sheet = k.sheet
  BY <1>3 DEF CallFits, Lasts
<1>8. k.at = "findLine" => adv'[k.adv] = "cancelled"
  BY DEF CallFits, Lasts
<1>9. k.at = "dropLine" /\ k.adv # None => adv'[k.adv] \in {"cancelled", "applied"}
  BY DEF CallFits, Lasts
<1> QED
  BY <1>1, <1>5, <1>6, <1>7, <1>8, <1>9 DEF CallFits, Sends, Joins

LEMMA KnowsKept ==
  ASSUME SheetAssumption, Types, Lasts, Fate, NEW k \in CallRows, CallFits(k), KnowsLines(k),
         Joins(k) => \E c \in Calls : call'[c] = k
  PROVE  KnowsLines(k)'
<1>1. ASSUME Joins(k) PROVE k.adv \in raced' \/ RowsFor(k.adv)' = {}
  <2>1. k.adv \in Advances
    BY <1>1 DEF CallFits, Granted
  <2>2. ~Gains(k.adv)
    BY <1>1 DEF Gains
  <2>3. CASE k.adv \in raced
    BY <2>3 DEF Lasts
  <2>4. CASE RowsFor(k.adv) = {} /\ Keeps(k.adv)
    BY <2>4 DEF Keeps
  <2> QED
    BY <1>1, <2>1, <2>2, <2>3, <2>4 DEF KnowsLines, Fate
<1>2. ASSUME k.at \in {"strike", "dropLine"}, k.adv # None
      PROVE  \/ k.adv \in raced'
             \/ /\ RowsFor(k.adv)' \subseteq {k.row}
                /\ RowsFor(k.adv)' = {} => adv'[k.adv] = "cancelled"
  <2>1. k.adv \in Advances
    BY <1>2 DEF CallFits, Granted
  <2>2. CASE k.adv \in raced
    BY <2>2 DEF Lasts
  <2>3. CASE /\ RowsFor(k.adv) \subseteq {k.row}
             /\ RowsFor(k.adv) = {} => adv[k.adv] = "cancelled"
    <3>1. ~Gains(k.adv)
      BY <2>3 DEF Gains
    <3>2. CASE Keeps(k.adv)
      BY <2>1, <2>3, <3>2 DEF Keeps, Lasts
    <3> QED
      BY <2>1, <3>1, <3>2 DEF Fate
  <2> QED
    BY <1>2, <2>2, <2>3 DEF KnowsLines
<1> QED
  BY <1>1, <1>2 DEF KnowsLines, Joins

LEMMA OneLineKept ==
  ASSUME Lasts, Fate, NEW a \in Advances, OneLine(a)
  PROVE  OneLine(a)'
<1>1. CASE a \in raced'
  BY <1>1 DEF OneLine
<1>2. CASE Keeps(a)
  BY <1>2 DEF OneLine, Keeps, Lasts
<1>3. CASE Gains(a)
  BY <1>3 DEF OneLine, Gains
<1> QED
  BY <1>1, <1>2, <1>3 DEF Fate

LEMMA HomeKept ==
  ASSUME Lasts, Fate, NEW a \in Advances, OneHome(a), Claims(a)' \subseteq Places(a)
  PROVE  OneHome(a)'
<1>1. CASE a \in raced \/ a \in raced'
  BY <1>1 DEF OneHome, Lasts
<1>2. CASE a \notin raced /\ Keeps(a)
  <2>1. \A b, d \in Places(a) : b = d
    BY <1>2 DEF OneHome
  <2>2. Places(a)' \subseteq Places(a)
    BY <1>2 DEF Places, Keeps
  <2>3. ASSUME Claims(a)' # {}, RowsFor(a)' = {} PROVE adv'[a] = "cancelled"
    <3>1. CASE RowsFor(a) = {}
      <4>1. Claims(a) # {}
        BY <2>3, <3>1 DEF Places
      <4> QED
        BY <1>2, <3>1, <4>1 DEF OneHome, Lasts
    <3>2. CASE RowsFor(a) # {}
      BY <1>2, <2>3, <3>2 DEF Keeps
    <3> QED
      BY <3>1, <3>2
  <2> QED
    BY <2>1, <2>2, <2>3 DEF OneHome
<1>3. CASE a \notin raced /\ Gains(a)
  <2>1. Claims(a) = {}
    BY <1>3 DEF OneHome, Gains
  <2>2. Claims(a)' = {}
    BY <1>3, <2>1 DEF Places, Gains
  <2>3. PICK l : RowsFor(a)' = {l}
    BY <1>3 DEF Gains
  <2>4. Places(a)' = {row'[l].sheet}
    BY <2>2, <2>3 DEF Places
  <2> QED
    BY <2>2, <2>4 DEF OneHome
<1> QED
  BY <1>1, <1>2, <1>3 DEF Fate

LEMMA LeavesKept ==
  ASSUME Lasts, Fate, NEW a \in Advances, Leaves(a),
         adv'[a] = "cancelled" /\ adv[a] # "cancelled" => Dropping(a)',
         Dropping(a) => Dropping(a)' \/ a \in raced' \/ RowsFor(a)' = {}
  PROVE  Leaves(a)'
<1>1. CASE a \in raced'
  BY <1>1 DEF Leaves
<1>2. CASE Keeps(a)
  <2>1. RowsFor(a)' # {} => RowsFor(a) # {}
    BY <1>2 DEF Keeps
  <2> QED
    BY <2>1 DEF Leaves, Lasts
<1>3. CASE Gains(a)
  BY <1>3 DEF Leaves, Gains
<1> QED
  BY <1>1, <1>2, <1>3 DEF Fate

LEMMA LineKept ==
  ASSUME SheetAssumption, Types, Lasts, NEW l \in Rows, LineFits(l), row'[l] = row[l]
  PROVE  LineFits(l)'
<1>1. CASE row[l] = NoRow
  BY <1>1 DEF LineFits, NoRow
<1>2. CASE row[l] # NoRow
  <2>1. row[l].sheet \in Sheets /\ sheet'[row[l].sheet].state # "none"
    BY <1>2 DEF LineFits, Lasts
  <2>2. row[l].adv # None => row[l].adv \in Advances /\ adv'[row[l].adv] # "none"
    BY <1>2 DEF LineFits, Lasts, Types, LineRows, MaybeAdv
  <2>3. row[l].adv # None /\ row[l].sheet \in Uploaded => sheet'[row[l].sheet].state # "draft"
    BY <1>2 DEF LineFits, Lasts
  <2> QED
    BY <2>1, <2>2, <2>3 DEF LineFits
<1> QED
  BY <1>1, <1>2

-----------------------------------------------------------------------------
(* One call turns from call[c] into m. *)
Late(k) == k.at \in {"post", "persist", "note"}
Drops(k) == k.at \in {"findLine", "dropLine"}

Turn(c, m) == call' = [call EXCEPT ![c] = m]

(* It neither creates a record nor begins to send, and when it stops after *)
(* creating one the sheet is in doubt.                                     *)
SendsOn(c, m) ==
  /\ \A i \in Records : remote'[i].sheet = remote[i].sheet /\ remote'[i].pays = remote[i].pays
  /\ \A b \in Sheets : sheet'[b].sent = sheet[b].sent
  /\ Sends(m) => Sends(call[c]) /\ m.sheet = call[c].sheet /\ (Late(m) <=> Late(call[c]))
  /\ ~Sends(m) /\ Late(call[c]) => call[c].sheet \in doubt'

Quiet(c, m) == SendsOn(c, m) /\ (m.at = "create" => m = call[c])

(* It cancels what it drops, and drops what it was about to drop. *)
Tidy(c, m) ==
  /\ \A a \in Advances : adv'[a] = "cancelled" /\ adv[a] # "cancelled" =>
       Drops(m) /\ m.adv = a
  /\ \A a \in Advances : Drops(call[c]) /\ call[c].adv = a =>
       (Drops(m) /\ m.adv = a) \/ a \in raced' \/ RowsFor(a)' = {}

LEMMA Turned ==
  ASSUME Types, NEW c \in Calls, NEW m, Turn(c, m)
  PROVE  \A d \in Calls : call'[d] = IF d = c THEN m ELSE call[d]
BY DEF Types, Turn

LEMMA TurnTyped ==
  ASSUME Types, NEW c \in Calls, NEW m \in CallRows, Turn(c, m)
  PROVE  call' \in [Calls -> CallRows]
BY DEF Types, Turn

LEMMA TurnCalls ==
  ASSUME SheetAssumption, Types, AllCalls, Lasts, Fate, NEW c \in Calls, NEW m, Turn(c, m),
         CallFits(m)', KnowsLines(m)'
  PROVE  AllCalls'
<1> SUFFICES ASSUME NEW d \in Calls
             PROVE  CallFits(call[d])' /\ KnowsLines(call[d])'
  BY DEF AllCalls
<1>1. PICK k : k = call'[d]
  OBVIOUS
<1>2. CASE d = c
  <2>1. k = m
    BY <1>1, <1>2, Turned
  <2> QED
    BY <1>1, <2>1
<1>3. CASE d # c
  <2>1. k = call[d]
    BY <1>1, <1>3, Turned
  <2>2. k \in CallRows /\ CallFits(k) /\ KnowsLines(k)
    BY <2>1 DEF AllCalls, Types
  <2>3. CallFits(k)'
    BY <2>2, FitsKept
  <2>4. KnowsLines(k)'
    BY <1>1, <2>2, KnowsKept
  <2> QED
    BY <1>1, <2>3, <2>4
<1> QED
  BY <1>2, <1>3

LEMMA TurnClaims ==
  ASSUME Types, NEW c \in Calls, NEW m, Turn(c, m), Quiet(c, m), NEW a
  PROVE  Claims(a)' \subseteq Claims(a)
<1>1. \A d \in Calls : call'[d].at = "create" => call'[d] = call[d]
  BY Turned DEF Quiet
<1>2. \A i \in Records : remote'[i].sheet = remote[i].sheet /\ remote'[i].pays = remote[i].pays
  BY DEF Quiet, SendsOn
<1> QED
  BY <1>1, <1>2 DEF Claims

LEMMA TurnSent ==
  ASSUME Types, AllSent, doubt \subseteq doubt', NEW c \in Calls, NEW m, Turn(c, m), SendsOn(c, m)
  PROVE  AllSent'
<1> SUFFICES ASSUME NEW b \in Sheets, b \notin doubt'
             PROVE  SentOnce(b)'
  BY DEF AllSent, SentOnce
<1>1. b \notin doubt /\ SentOnce(b)
  BY DEF AllSent
<1>2. \A d \in Sending(b)' : d \in Sending(b) /\ (Late(call'[d]) <=> Late(call[d]))
  BY Turned DEF Sending, SendsOn, Sends
<1>3. \A d \in Sending(b) : Late(call[d]) => d \in Sending(b)'
  BY Turned DEF Sending, SendsOn, Sends, Late
<1>4. \A d, e \in Sending(b)' : d = e
  BY <1>1, <1>2 DEF SentOnce
<1>5. \A i, j \in Records : remote'[i].sheet = b /\ remote'[j].sheet = b => i = j
  BY <1>1 DEF SentOnce, SendsOn
<1>6. ASSUME NEW i \in Records, remote'[i].sheet = b
      PROVE  /\ sheet'[b].sent # None \/ \E d \in Sending(b)' : Late(call'[d])
             /\ \A d \in Sending(b)' : call'[d].at \notin {"export", "create"}
  <2>1. remote[i].sheet = b
    BY <1>6 DEF SendsOn
  <2>2. sheet[b].sent # None \/ \E d \in Sending(b) : Late(call[d])
    BY <1>1, <2>1 DEF SentOnce, Late
  <2>3. sheet'[b].sent # None \/ \E d \in Sending(b)' : Late(call'[d])
    BY <1>2, <1>3, <2>2 DEF SendsOn
  <2>4. \A d \in Sending(b) : Late(call[d])
    BY <1>1, <2>1 DEF SentOnce, Sending, Late
  <2> QED
    BY <1>2, <2>3, <2>4 DEF Late
<1> QED
  BY <1>4, <1>5, <1>6 DEF SentOnce, Late

LEMMA TurnLeaves ==
  ASSUME Types, Lasts, Fate, NEW c \in Calls, NEW m, Turn(c, m), Tidy(c, m),
         NEW a \in Advances, Leaves(a)
  PROVE  Leaves(a)'
<1>1. adv'[a] = "cancelled" /\ adv[a] # "cancelled" => Dropping(a)'
  BY Turned DEF Tidy, Dropping, Drops
<1>2. Dropping(a) => Dropping(a)' \/ a \in raced' \/ RowsFor(a)' = {}
  BY Turned DEF Tidy, Dropping, Drops
<1> QED
  BY <1>1, <1>2, LeavesKept

-----------------------------------------------------------------------------
(* What the calls wait for. *)
LEMMA WaitingTyped ==
  ASSUME Types, KeepsWaiting
  PROVE  waiting' \in [Calls -> SUBSET Advances]
BY DEF Types, KeepsWaiting

LEMMA Waiting ==
  ASSUME Types, KeepsWaiting, NEW c \in Calls
  PROVE  /\ ~call'[c].closing \/ call'[c].at = "idle" => waiting'[c] = {}
         /\ \A a \in waiting'[c] : /\ a \in waiting[c] /\ a \in Advances
                                   /\ adv'[a] = "pending" /\ a \notin raced'
BY DEF Types, KeepsWaiting

LEMMA ExpectsKept ==
  ASSUME Fate, NEW k, NEW w, NEW v, Expects(k, w),
         \A a \in v : /\ a \in w /\ a \in Advances
                      /\ adv'[a] = "pending" /\ a \notin raced'
  PROVE  Expects(k, v)'
<1>1. ASSUME NEW a \in v, RowsFor(a) # {}
      PROVE  RowsFor(a)' # {}
  <2>1. CASE Keeps(a)
    BY <1>1, <2>1 DEF Keeps
  <2>2. CASE Gains(a)
    BY <2>2 DEF Gains
  <2> QED
    BY <1>1, <2>1, <2>2 DEF Fate
<1> QED
  BY <1>1 DEF Expects, Joins

LEMMA TurnWaits ==
  ASSUME Types, AllWait, Fate, KeepsWaiting, NEW c \in Calls, NEW m, Turn(c, m),
         m.closing /\ m.at # "idle" =>
           \A w : w = waiting'[c] => Expects(m, w)'
  PROVE  AllWait'
<1> SUFFICES ASSUME NEW d \in Calls PROVE Expects(call[d], waiting[d])'
  BY DEF AllWait
<1>1. PICK w, k : w = waiting'[d] /\ k = call'[d]
  OBVIOUS
<1>2. CASE d # c
  <2>1. k = call[d]
    BY <1>1, <1>2, Turned
  <2>2. Expects(k, waiting[d])
    BY <2>1 DEF AllWait
  <2>3. \A a \in w : /\ a \in waiting[d] /\ a \in Advances
                     /\ adv'[a] = "pending" /\ a \notin raced'
    BY <1>1, Waiting
  <2>4. Expects(k, w)'
    BY <2>2, <2>3, ExpectsKept
  <2> QED
    BY <1>1, <2>4
<1>3. CASE d = c /\ m.closing /\ m.at # "idle"
  <2>1. k = m
    BY <1>1, <1>3, Turned
  <2>2. Expects(k, w)'
    BY <1>1, <1>3, <2>1
  <2> QED
    BY <1>1, <2>2
<1>4. CASE d = c /\ ~(m.closing /\ m.at # "idle")
  <2>1. k = m
    BY <1>1, <1>4, Turned
  <2>2. w = {} \/ k.at = "idle"
    BY <1>1, <1>4, <2>1, Waiting
  <2>3. Expects(k, w)'
    BY <2>2 DEF Expects, Joins
  <2> QED
    BY <1>1, <2>3
<1> QED
  BY <1>2, <1>3, <1>4

(* A step of one call. *)
LEMMA Pieces ==
  ASSUME SheetAssumption, IInv, Types', Lines', Lasts, Fate, NEW c \in Calls, NEW m,
         Turn(c, m), CallFits(m)', KnowsLines(m)', Tidy(c, m), AllWait', AllSent',
         \A a \in Advances : Claims(a)' \subseteq Places(a)
  PROVE  IInv'
<1>1. AllCalls'
  BY TurnCalls DEF IInv
<1>2. ASSUME NEW a \in Advances
      PROVE  OneLine(a)' /\ OneHome(a)' /\ Leaves(a)'
  <2>1. OneLine(a) /\ OneHome(a) /\ Leaves(a) /\ Types
    BY DEF IInv, AllLines
  <2> QED
    BY <2>1, OneLineKept, HomeKept, TurnLeaves
<1> QED
  BY <1>1, <1>2 DEF IInv, AllLines

LEMMA Steps ==
  ASSUME SheetAssumption, IInv, Types', Lines', Lasts, Fate, NEW c \in Calls, NEW m,
         Turn(c, m), CallFits(m)', KnowsLines(m)', Quiet(c, m), Tidy(c, m),
         KeepsWaiting,
         m.closing /\ m.at # "idle" =>
           \A w : w = waiting'[c] => Expects(m, w)'
  PROVE  IInv'
<1>1. AllWait'
  BY TurnWaits DEF IInv
<1>2. AllSent'
  BY TurnSent DEF IInv, Lasts, Quiet
<1>3. \A a \in Advances : Claims(a)' \subseteq Places(a)
  BY TurnClaims DEF IInv, Places
<1> QED
  BY <1>1, <1>2, <1>3, Pieces

-----------------------------------------------------------------------------
(* A step that only moves its call. *)
Still == UNCHANGED <<adv, sheet, row, remote>> /\ raced \subseteq raced' /\ doubt \subseteq doubt'

LEMMA Calm ==
  ASSUME Still
  PROVE  Lasts /\ Fate
<1>1. \A a \in Advances : Keeps(a)
  BY DEF Still, RowsFor, Keeps
<1> QED
  BY <1>1 DEF Still, Lasts, Fate

LEMMA CalmTypes ==
  ASSUME Types, Lines, Still, KeepsWaiting, NEW c \in Calls, NEW m \in CallRows, Turn(c, m)
  PROVE  Types' /\ Lines'
<1>1. call' \in [Calls -> CallRows]
  BY TurnTyped
<1>2. waiting' \in [Calls -> SUBSET Advances]
  BY WaitingTyped
<1> QED
  BY <1>1, <1>2 DEF Types, Lines, LineFits, Still

(* It goes on with what it knows. *)
Sound(c, m) ==
  /\ m \in CallRows /\ CallFits(m) /\ KnowsLines(m)
  /\ m.closing /\ m.at # "idle" => Expects(m, waiting[c]) /\ waiting'[c] \subseteq waiting[c]

Onward(c, m) ==
  /\ m.at = "create" => m = call[c]
  /\ Sends(m) => Sends(call[c]) /\ m.sheet = call[c].sheet /\ (Late(m) <=> Late(call[c]))
  /\ ~Sends(m) /\ Late(call[c]) => call[c].sheet \in doubt'
  /\ Drops(call[c]) /\ call[c].adv \in Advances =>
       \/ Drops(m) /\ m.adv = call[c].adv
       \/ call[c].adv \in raced'
       \/ RowsFor(call[c].adv) = {}

LEMMA CalmSound ==
  ASSUME Still, NEW c \in Calls, NEW m, Sound(c, m)
  PROVE  /\ CallFits(m)' /\ KnowsLines(m)'
         /\ m.closing /\ m.at # "idle" => \A w : w = waiting'[c] => Expects(m, w)'
<1>1. \A a : RowsFor(a)' = RowsFor(a)
  BY DEF Still, RowsFor
<1>2. CallFits(m)'
  BY DEF Still, Sound, CallFits, Granted, Sends, Joins
<1>3. KnowsLines(m)'
  BY <1>1 DEF Still, Sound, KnowsLines, Joins
<1>4. m.closing /\ m.at # "idle" => \A w : w = waiting'[c] => Expects(m, w)'
  BY <1>1 DEF Sound, Expects, Joins
<1> QED
  BY <1>2, <1>3, <1>4

LEMMA CalmOnward ==
  ASSUME Still, NEW c \in Calls, NEW m, Onward(c, m)
  PROVE  Quiet(c, m) /\ Tidy(c, m)
<1>1. \A a : RowsFor(a)' = RowsFor(a)
  BY DEF Still, RowsFor
<1>2. Quiet(c, m)
  BY DEF Still, Onward, Quiet, SendsOn
<1>3. Tidy(c, m)
  BY <1>1 DEF Still, Onward, Tidy
<1> QED
  BY <1>2, <1>3

LEMMA CalmStep ==
  ASSUME SheetAssumption, IInv, Still, KeepsWaiting, NEW c \in Calls, NEW m, Turn(c, m),
         Sound(c, m), Onward(c, m)
  PROVE  IInv'
<1>1. Types' /\ Lines'
  BY CalmTypes DEF IInv, Sound
<1> QED
  BY <1>1, Calm, CalmSound, CalmOnward, Steps

(* The end of a call. *)
LEMMA IdleRow == /\ Idle \in CallRows /\ Idle.at = "idle" /\ ~Idle.closing /\ Idle.todo = {}
                 /\ Idle.adv = None /\ Idle.sheet = None /\ Idle.row = None
                 /\ Idle.record = None
BY DEF Idle, CallRows, Ats, MaybeAdv, MaybeSheet, MaybeRecord

LEMMA Resting ==
  ASSUME NEW c \in Calls
  PROVE  Sound(c, Idle)
BY IdleRow DEF Sound, CallFits, KnowsLines, Joins, Sends

(* A call goes to another place and takes something along. *)
ToPlace(k, x) == [k EXCEPT !.at = x]
ToSheet(k, x, b) == [k EXCEPT !.at = x, !.sheet = b]
ToTodo(k, x, t) == [k EXCEPT !.at = x, !.todo = t]
ToAdv(k, x, a) == [k EXCEPT !.at = x, !.adv = a]
ToLine(k, x, l) == [k EXCEPT !.at = x, !.row = l]
ToRest(k, t) == [k EXCEPT !.todo = t]
ToJoin(k, x, a, t) == [k EXCEPT !.at = x, !.adv = a, !.todo = t]
ToAttach(k, x, z, t) == [k EXCEPT !.at = x, !.closing = z, !.todo = t]
ToDrop(k, l, a, x) == [k EXCEPT !.row = l, !.adv = a, !.at = x]
ToApprove(k, x, b, t) == [k EXCEPT !.at = x, !.sheet = b, !.todo = t]
ToNext(k, x, a, b) == [k EXCEPT !.at = x, !.adv = a, !.sheet = b]
ToPost(k, x, i, t) == [k EXCEPT !.at = x, !.record = i, !.todo = t]

LEMMA ToPlaceRow ==
  ASSUME NEW k \in CallRows, NEW x \in Ats,
         NEW m, m = ToPlace(k, x)
  PROVE  /\ m \in CallRows /\ m.at = x /\ m.closing = k.closing /\ m.todo = k.todo
         /\ m.adv = k.adv /\ m.sheet = k.sheet /\ m.row = k.row /\ m.record = k.record
BY DEF CallRows, ToPlace

LEMMA ToSheetRow ==
  ASSUME NEW k \in CallRows, NEW x \in Ats, NEW b \in MaybeSheet,
         NEW m, m = ToSheet(k, x, b)
  PROVE  /\ m \in CallRows /\ m.at = x /\ m.closing = k.closing /\ m.todo = k.todo
         /\ m.adv = k.adv /\ m.sheet = b /\ m.row = k.row /\ m.record = k.record
BY DEF CallRows, ToSheet

LEMMA ToTodoRow ==
  ASSUME NEW k \in CallRows, NEW x \in Ats, NEW t \in SUBSET (Advances \cup Rows),
         NEW m, m = ToTodo(k, x, t)
  PROVE  /\ m \in CallRows /\ m.at = x /\ m.closing = k.closing /\ m.todo = t
         /\ m.adv = k.adv /\ m.sheet = k.sheet /\ m.row = k.row /\ m.record = k.record
BY DEF CallRows, ToTodo

LEMMA ToAdvRow ==
  ASSUME NEW k \in CallRows, NEW x \in Ats, NEW a \in MaybeAdv,
         NEW m, m = ToAdv(k, x, a)
  PROVE  /\ m \in CallRows /\ m.at = x /\ m.closing = k.closing /\ m.todo = k.todo
         /\ m.adv = a /\ m.sheet = k.sheet /\ m.row = k.row /\ m.record = k.record
BY DEF CallRows, ToAdv

LEMMA ToLineRow ==
  ASSUME NEW k \in CallRows, NEW x \in Ats, NEW l \in Rows \cup {None},
         NEW m, m = ToLine(k, x, l)
  PROVE  /\ m \in CallRows /\ m.at = x /\ m.closing = k.closing /\ m.todo = k.todo
         /\ m.adv = k.adv /\ m.sheet = k.sheet /\ m.row = l /\ m.record = k.record
BY DEF CallRows, ToLine

LEMMA ToRestRow ==
  ASSUME NEW k \in CallRows, NEW t \in SUBSET (Advances \cup Rows),
         NEW m, m = ToRest(k, t)
  PROVE  /\ m \in CallRows /\ m.at = k.at /\ m.closing = k.closing /\ m.todo = t
         /\ m.adv = k.adv /\ m.sheet = k.sheet /\ m.row = k.row /\ m.record = k.record
BY DEF CallRows, ToRest

LEMMA ToJoinRow ==
  ASSUME NEW k \in CallRows, NEW x \in Ats, NEW a \in MaybeAdv,
         NEW t \in SUBSET (Advances \cup Rows), NEW m, m = ToJoin(k, x, a, t)
  PROVE  /\ m \in CallRows /\ m.at = x /\ m.closing = k.closing /\ m.todo = t
         /\ m.adv = a /\ m.sheet = k.sheet /\ m.row = k.row /\ m.record = k.record
BY DEF CallRows, ToJoin

LEMMA ToAttachRow ==
  ASSUME NEW k \in CallRows, NEW x \in Ats, NEW z \in BOOLEAN,
         NEW t \in SUBSET (Advances \cup Rows), NEW m, m = ToAttach(k, x, z, t)
  PROVE  /\ m \in CallRows /\ m.at = x /\ m.closing = z /\ m.todo = t
         /\ m.adv = k.adv /\ m.sheet = k.sheet /\ m.row = k.row /\ m.record = k.record
BY DEF CallRows, ToAttach

LEMMA ToDropRow ==
  ASSUME NEW k \in CallRows, NEW l \in Rows \cup {None}, NEW a \in MaybeAdv,
         NEW x \in Ats, NEW m, m = ToDrop(k, l, a, x)
  PROVE  /\ m \in CallRows /\ m.at = x /\ m.closing = k.closing /\ m.todo = k.todo
         /\ m.adv = a /\ m.sheet = k.sheet /\ m.row = l /\ m.record = k.record
BY DEF CallRows, ToDrop

LEMMA ToApproveRow ==
  ASSUME NEW k \in CallRows, NEW x \in Ats, NEW b \in MaybeSheet,
         NEW t \in SUBSET (Advances \cup Rows), NEW m, m = ToApprove(k, x, b, t)
  PROVE  /\ m \in CallRows /\ m.at = x /\ m.closing = k.closing /\ m.todo = t
         /\ m.adv = k.adv /\ m.sheet = b /\ m.row = k.row /\ m.record = k.record
BY DEF CallRows, ToApprove

LEMMA ToNextRow ==
  ASSUME NEW k \in CallRows, NEW x \in Ats, NEW a \in MaybeAdv, NEW b \in MaybeSheet,
         NEW m, m = ToNext(k, x, a, b)
  PROVE  /\ m \in CallRows /\ m.at = x /\ m.closing = k.closing /\ m.todo = k.todo
         /\ m.adv = a /\ m.sheet = b /\ m.row = k.row /\ m.record = k.record
BY DEF CallRows, ToNext

LEMMA ToPostRow ==
  ASSUME NEW k \in CallRows, NEW x \in Ats, NEW i \in MaybeRecord,
         NEW t \in SUBSET (Advances \cup Rows), NEW m, m = ToPost(k, x, i, t)
  PROVE  /\ m \in CallRows /\ m.at = x /\ m.closing = k.closing /\ m.todo = t
         /\ m.adv = k.adv /\ m.sheet = k.sheet /\ m.row = k.row /\ m.record = i
BY DEF CallRows, ToPost

-----------------------------------------------------------------------------
(* Each action preserves the invariant: those that only move their call. *)
LEMMA OfCall ==
  ASSUME IInv, NEW c \in Calls
  PROVE  /\ call[c] \in CallRows /\ CallFits(call[c]) /\ KnowsLines(call[c])
         /\ Expects(call[c], waiting[c]) /\ waiting[c] \subseteq Advances
BY DEF IInv, Types, AllCalls, AllWait

LEMMA Kept ==
  ASSUME KeepsWaiting, NEW c \in Calls
  PROVE  waiting'[c] \subseteq waiting[c]
BY DEF KeepsWaiting

LEMMA Begins ==
  ASSUME SheetAssumption, IInv, Still, KeepsWaiting, NEW c \in Calls, call[c] = Idle,
         NEW m \in CallRows, Turn(c, m), ~m.closing, CallFits(m), KnowsLines(m),
         ~Sends(m)
  PROVE  IInv'
<1>1. Sound(c, m)
  BY DEF Sound
<1>2. call[c].at = "idle"
  BY IdleRow
<1>3. Onward(c, m)
  BY <1>2 DEF Onward, Sends, Late, Drops
<1> QED
  BY <1>1, <1>3, CalmStep

LEMMA StartSendKeeps ==
  ASSUME SheetAssumption, IInv, NEW c \in Calls, NEW b \in Sheets, StartSend(c, b)
  PROVE  IInv'
<1>1. PICK k : k = Idle
  OBVIOUS
<1>2. PICK m : m = ToSheet(k, "load", b)
  OBVIOUS
<1>3. k \in CallRows /\ ~k.closing /\ b \in MaybeSheet /\ "load" \in Ats
  BY <1>1, IdleRow DEF MaybeSheet, Ats
<1>4. m \in CallRows /\ m.at = "load" /\ m.sheet = b /\ ~m.closing
  BY <1>2, <1>3, ToSheetRow
<1>5. Still /\ KeepsWaiting /\ Turn(c, m) /\ call[c] = Idle
  BY <1>1, <1>2 DEF StartSend, Still, Becomes, Turn, ToSheet
<1>6. CallFits(m) /\ KnowsLines(m) /\ ~Sends(m)
  BY <1>4 DEF StartSend, CallFits, KnowsLines, Sends, Joins
<1> QED
  BY <1>3, <1>4, <1>5, <1>6, Begins

LEMMA StartCancelKeeps ==
  ASSUME SheetAssumption, IInv, NEW c \in Calls, NEW a \in Advances, StartCancel(c, a)
  PROVE  IInv'
<1>1. PICK k : k = Idle
  OBVIOUS
<1>2. PICK m : m = ToAdv(k, "cancel", a)
  OBVIOUS
<1>3. k \in CallRows /\ ~k.closing /\ a \in MaybeAdv /\ "cancel" \in Ats
  BY <1>1, IdleRow DEF MaybeAdv, Ats
<1>4. m \in CallRows /\ m.at = "cancel" /\ m.adv = a /\ ~m.closing
  BY <1>2, <1>3, ToAdvRow
<1>5. Still /\ KeepsWaiting /\ Turn(c, m) /\ call[c] = Idle
  BY <1>1, <1>2 DEF StartCancel, Still, Becomes, Turn, ToAdv
<1>6. CallFits(m) /\ KnowsLines(m) /\ ~Sends(m)
  BY <1>4 DEF StartCancel, CallFits, KnowsLines, Sends, Joins, Granted
<1> QED
  BY <1>3, <1>4, <1>5, <1>6, Begins

LEMMA StartDropKeeps ==
  ASSUME SheetAssumption, IInv, NEW c \in Calls, NEW b \in Uploaded, StartDrop(c, b)
  PROVE  IInv'
<1>1. PICK k : k = Idle
  OBVIOUS
<1>2. PICK m : m = ToSheet(k, "dropSheet", b)
  OBVIOUS
<1>3. k \in CallRows /\ ~k.closing /\ b \in Sheets /\ b \in MaybeSheet /\ "dropSheet" \in Ats
  BY <1>1, IdleRow, Apart DEF MaybeSheet, Ats
<1>4. m \in CallRows /\ m.at = "dropSheet" /\ m.sheet = b /\ ~m.closing
  BY <1>2, <1>3, ToSheetRow
<1>5. Still /\ KeepsWaiting /\ Turn(c, m) /\ call[c] = Idle
  BY <1>1, <1>2 DEF StartDrop, Still, Becomes, Turn, ToSheet
<1>6. CallFits(m) /\ KnowsLines(m) /\ ~Sends(m)
  BY <1>3, <1>4 DEF CallFits, KnowsLines, Sends, Joins
<1> QED
  BY <1>3, <1>4, <1>5, <1>6, Begins

LEMMA StartApproveKeeps ==
  ASSUME SheetAssumption, IInv, NEW c \in Calls, NEW b \in Uploaded, StartApprove(c, b)
  PROVE  IInv'
<1>1. PICK k, t : k = Idle /\ t = Selected(b)
  OBVIOUS
<1>2. PICK m : m = ToApprove(k, "approve", b, t)
  OBVIOUS
<1>3. k \in CallRows /\ ~k.closing /\ b \in Sheets /\ b \in MaybeSheet /\ "approve" \in Ats
  BY <1>1, IdleRow, Apart DEF MaybeSheet, Ats
<1>4. t \in SUBSET (Advances \cup Rows)
  BY <1>1 DEF Selected, RowsOf
<1>5. m \in CallRows /\ m.at = "approve" /\ m.sheet = b /\ ~m.closing
  BY <1>2, <1>3, <1>4, ToApproveRow
<1>6. Still /\ KeepsWaiting /\ Turn(c, m) /\ call[c] = Idle
  BY <1>1, <1>2 DEF StartApprove, Still, Becomes, Turn, ToApprove
<1>7. CallFits(m) /\ KnowsLines(m) /\ ~Sends(m)
  BY <1>3, <1>5 DEF CallFits, KnowsLines, Sends, Joins
<1> QED
  BY <1>3, <1>5, <1>6, <1>7, Begins

LEMMA StartDeleteKeeps ==
  ASSUME SheetAssumption, IInv, NEW c \in Calls, NEW l \in Rows, StartDelete(c, l)
  PROVE  IInv'
<1>1. PICK k, a, x : /\ k = Idle /\ a = row[l].adv
                     /\ x = IF row[l].adv = None THEN "dropLine" ELSE "strike"
  OBVIOUS
<1>2. PICK m : m = ToDrop(k, l, a, x)
  OBVIOUS
<1>3. Types /\ Lines /\ AllLines
  BY DEF IInv
<1>4. k \in CallRows /\ ~k.closing /\ a \in MaybeAdv /\ x \in Ats /\ l \in Rows \cup {None}
  BY <1>1, <1>3, IdleRow DEF Types, LineRows, Ats
<1>5. m \in CallRows /\ m.at = x /\ m.adv = a /\ m.row = l /\ ~m.closing
  BY <1>2, <1>4, ToDropRow
<1>6. Still /\ KeepsWaiting /\ Turn(c, m) /\ call[c] = Idle
  BY <1>1, <1>2 DEF StartDelete, Still, Becomes, Turn, ToDrop
<1>7. (x = "dropLine" /\ a = None) \/ (x = "strike" /\ a # None)
  BY <1>1
<1>8. a # None => a \in Advances /\ adv[a] # "none"
  BY <1>1, <1>3, <1>4 DEF Lines, LineFits, NoRow, MaybeAdv
<1>9. CallFits(m) /\ ~Sends(m)
  BY <1>5, <1>7, <1>8 DEF CallFits, Sends, Joins, Granted
<1>10. a # None => l \in RowsFor(a) /\ (a \in raced \/ \A n \in RowsFor(a) : n = l)
  BY <1>1, <1>3, <1>8 DEF AllLines, OneLine, RowsFor
<1>11. KnowsLines(m)
  BY <1>5, <1>7, <1>10 DEF KnowsLines, Joins
<1> QED
  BY <1>4, <1>5, <1>6, <1>9, <1>11, Begins

(* A call under way that is not sending and drops nothing. *)
LEMMA GoesOn ==
  ASSUME SheetAssumption, IInv, Still, KeepsWaiting, NEW c \in Calls, ~Sends(call[c]),
         ~Drops(call[c]), NEW m \in CallRows, Turn(c, m), CallFits(m), KnowsLines(m),
         m.closing /\ m.at # "idle" => Expects(m, waiting[c]),
         ~Sends(m)
  PROVE  IInv'
<1>1. Sound(c, m)
  BY Kept DEF Sound
<1>2. Onward(c, m)
  BY DEF Onward, Sends, Late
<1> QED
  BY <1>1, <1>2, CalmStep

LEMMA Stops ==
  ASSUME SheetAssumption, IInv, Still, KeepsWaiting, NEW c \in Calls, Ends(c),
         Late(call[c]) => call[c].sheet \in doubt',
         Drops(call[c]) /\ call[c].adv \in Advances =>
           call[c].adv \in raced' \/ RowsFor(call[c].adv) = {}
  PROVE  IInv'
<1>1. PICK m : m = Idle
  OBVIOUS
<1>2. Turn(c, m)
  BY <1>1 DEF Ends, Becomes, Turn
<1>3. Onward(c, m)
  BY <1>1, IdleRow DEF Onward, Sends
<1> QED
  BY <1>1, <1>2, <1>3, Resting, CalmStep

LEMMA AttachKeeps ==
  ASSUME SheetAssumption, IInv, NEW c \in Calls, NEW a \in Advances, Attach(c, a)
  PROVE  IInv'
<1>1. PICK k, t : k = call[c] /\ t = k.todo \ {a}
  OBVIOUS
<1>2. k \in CallRows /\ CallFits(k) /\ KnowsLines(k) /\ Expects(k, waiting[c])
  BY <1>1, OfCall
<1>3. Still /\ KeepsWaiting /\ k.at = "attach" /\ a \in k.todo
  BY <1>1 DEF Attach, Still
<1>4. ~Sends(call[c]) /\ ~Drops(call[c])
  BY <1>1, <1>3 DEF Sends, Drops
<1>5. t \in SUBSET (Advances \cup Rows) /\ a \in MaybeAdv /\ "batch" \in Ats
  BY <1>1, <1>2 DEF CallRows, MaybeAdv, Ats
<1>6. \A e \in k.todo : Granted(e)
  BY <1>2, <1>3 DEF CallFits
<1>7. \A e \in waiting[c] : e \in k.todo \/ RowsFor(e) # {}
  BY <1>2, <1>3 DEF Expects
<1>8. CASE RowsFor(a) # {} /\ call' = [call EXCEPT ![c] = ToRest(k, t)]
  <2>1. PICK m : m = ToRest(k, t)
    OBVIOUS
  <2>2. m \in CallRows /\ m.at = "attach" /\ m.todo = t
    BY <1>2, <1>3, <1>5, <2>1, ToRestRow
  <2>3. CallFits(m) /\ KnowsLines(m) /\ ~Sends(m)
    BY <1>1, <1>6, <2>2 DEF CallFits, KnowsLines, Sends, Joins
  <2>4. Expects(m, waiting[c])
    BY <1>1, <1>7, <1>8, <2>2 DEF Expects, Joins
  <2>5. Turn(c, m)
    BY <1>8, <2>1 DEF Turn
  <2> QED
    BY <1>3, <1>4, <2>2, <2>3, <2>4, <2>5, GoesOn
<1>9. CASE RowsFor(a) = {} /\ call' = [call EXCEPT ![c] = ToJoin(k, "batch", a, t)]
  <2>1. PICK m : m = ToJoin(k, "batch", a, t)
    OBVIOUS
  <2>2. m \in CallRows /\ m.at = "batch" /\ m.todo = t /\ m.adv = a
    BY <1>2, <1>3, <1>5, <2>1, ToJoinRow
  <2>3. CallFits(m) /\ ~Sends(m)
    BY <1>1, <1>3, <1>6, <2>2 DEF CallFits, Sends, Joins
  <2>4. KnowsLines(m)
    BY <1>9, <2>2 DEF KnowsLines
  <2>5. Expects(m, waiting[c])
    BY <1>1, <1>7, <2>2 DEF Expects, Joins
  <2>6. Turn(c, m)
    BY <1>9, <2>1 DEF Turn
  <2> QED
    BY <1>3, <1>4, <2>2, <2>3, <2>4, <2>5, <2>6, GoesOn
<1>10. \/ RowsFor(a) # {} /\ call' = [call EXCEPT ![c] = ToRest(k, t)]
       \/ RowsFor(a) = {} /\ call' = [call EXCEPT ![c] = ToJoin(k, "batch", a, t)]
  BY <1>1 DEF Attach, Becomes, ToRest, ToJoin
<1> QED
  BY <1>8, <1>9, <1>10

LEMMA FindBatchKeeps ==
  ASSUME SheetAssumption, IInv, NEW c \in Calls, FindBatch(c)
  PROVE  IInv'
<1>1. PICK k : k = call[c]
  OBVIOUS
<1>2. k \in CallRows /\ CallFits(k) /\ KnowsLines(k) /\ Expects(k, waiting[c])
  BY <1>1, OfCall
<1>3. Still /\ KeepsWaiting /\ k.at = "batch"
  BY <1>1 DEF FindBatch, Still
<1>4. ~Sends(call[c]) /\ ~Drops(call[c])
  BY <1>1, <1>3 DEF Sends, Drops
<1>5. CASE \E b \in Manual : Open(b) /\ call' = [call EXCEPT ![c] = ToSheet(k, "line", b)]
  <2>1. PICK b \in Manual : Open(b) /\ call' = [call EXCEPT ![c] = ToSheet(k, "line", b)]
    BY <1>5
  <2>2. PICK m : m = ToSheet(k, "line", b)
    OBVIOUS
  <2>3. b \in MaybeSheet /\ "line" \in Ats
    BY Apart DEF MaybeSheet, Ats
  <2>4. m \in CallRows /\ m.at = "line" /\ m.sheet = b /\ m.adv = k.adv /\ m.todo = k.todo
    BY <1>2, <2>2, <2>3, ToSheetRow
  <2>5. CallFits(m) /\ ~Sends(m)
    BY <1>2, <1>3, <2>1, <2>4 DEF CallFits, Sends, Joins, Open
  <2>6. KnowsLines(m) /\ Expects(m, waiting[c])
    BY <1>2, <1>3, <2>4 DEF KnowsLines, Expects, Joins
  <2>7. Turn(c, m)
    BY <2>1, <2>2 DEF Turn
  <2> QED
    BY <1>3, <1>4, <2>4, <2>5, <2>6, <2>7, GoesOn
<1>6. CASE call' = [call EXCEPT ![c] = ToPlace(k, "newBatch")]
  <2>1. PICK m : m = ToPlace(k, "newBatch")
    OBVIOUS
  <2>2. m \in CallRows /\ m.at = "newBatch" /\ m.adv = k.adv /\ m.todo = k.todo
    BY <1>2, <2>1, ToPlaceRow DEF Ats
  <2>3. CallFits(m) /\ ~Sends(m)
    BY <1>2, <1>3, <2>2 DEF CallFits, Sends, Joins
  <2>4. KnowsLines(m) /\ Expects(m, waiting[c])
    BY <1>2, <1>3, <2>2 DEF KnowsLines, Expects, Joins
  <2>5. Turn(c, m)
    BY <1>6, <2>1 DEF Turn
  <2> QED
    BY <1>3, <1>4, <2>2, <2>3, <2>4, <2>5, GoesOn
<1> QED
  BY <1>1, <1>5, <1>6 DEF FindBatch, Becomes, Goes, ToSheet, ToPlace

LEMMA AttachedKeeps ==
  ASSUME SheetAssumption, IInv, NEW c \in Calls, Attached(c)
  PROVE  IInv'
<1>1. PICK k : k = call[c]
  OBVIOUS
<1>2. k \in CallRows /\ CallFits(k) /\ KnowsLines(k) /\ Expects(k, waiting[c])
  BY <1>1, OfCall
<1>3. Still /\ KeepsWaiting /\ k.at = "attach" /\ k.todo = {}
  BY <1>1 DEF Attached, Still
<1>4. ~Sends(call[c]) /\ ~Drops(call[c]) /\ ~Late(call[c])
  BY <1>1, <1>3 DEF Sends, Drops, Late
<1>5. CASE Ends(c)
  BY <1>3, <1>4, <1>5, Stops
<1>6. CASE call' = [call EXCEPT ![c] = ToPlace(k, "find")]
  <2>1. PICK m : m = ToPlace(k, "find")
    OBVIOUS
  <2>2. m \in CallRows /\ m.at = "find"
    BY <1>2, <2>1, ToPlaceRow DEF Ats
  <2>3. CallFits(m) /\ KnowsLines(m) /\ ~Sends(m)
    BY <2>2 DEF CallFits, KnowsLines, Sends, Joins
  <2>4. Expects(m, waiting[c])
    BY <1>2, <1>3, <2>2 DEF Expects, Joins
  <2>5. Turn(c, m)
    BY <1>6, <2>1 DEF Turn
  <2> QED
    BY <1>3, <1>4, <2>2, <2>3, <2>4, <2>5, GoesOn
<1> QED
  BY <1>1, <1>5, <1>6 DEF Attached, Becomes, Goes, ToPlace

LEMMA FindOpenKeeps ==
  ASSUME SheetAssumption, IInv, NEW c \in Calls, FindOpen(c)
  PROVE  IInv'
<1>1. PICK k : k = call[c]
  OBVIOUS
<1>2. k \in CallRows /\ CallFits(k) /\ KnowsLines(k) /\ Expects(k, waiting[c])
  BY <1>1, OfCall
<1>3. Still /\ KeepsWaiting /\ k.at = "find"
  BY <1>1 DEF FindOpen, Still
<1>4. ~Sends(call[c]) /\ ~Drops(call[c]) /\ ~Late(call[c])
  BY <1>1, <1>3 DEF Sends, Drops, Late
<1>5. CASE \E b \in Manual : Open(b) /\ call' = [call EXCEPT ![c] = ToSheet(k, "lock", b)]
  <2>1. PICK b \in Manual : Open(b) /\ call' = [call EXCEPT ![c] = ToSheet(k, "lock", b)]
    BY <1>5
  <2>2. PICK m : m = ToSheet(k, "lock", b)
    OBVIOUS
  <2>3. b \in Sheets /\ b \in MaybeSheet /\ "lock" \in Ats
    BY Apart DEF MaybeSheet, Ats
  <2>4. m \in CallRows /\ m.at = "lock" /\ m.sheet = b
    BY <1>2, <2>2, <2>3, ToSheetRow
  <2>5. CallFits(m) /\ KnowsLines(m) /\ ~Sends(m)
    BY <2>1, <2>3, <2>4 DEF CallFits, KnowsLines, Sends, Joins, Open
  <2>6. Expects(m, waiting[c])
    BY <1>2, <1>3, <2>4 DEF Expects, Joins
  <2>7. Turn(c, m)
    BY <2>1, <2>2 DEF Turn
  <2> QED
    BY <1>3, <1>4, <2>4, <2>5, <2>6, <2>7, GoesOn
<1>6. CASE Ends(c)
  BY <1>3, <1>4, <1>6, Stops
<1> QED
  BY <1>1, <1>5, <1>6 DEF FindOpen, Becomes, ToSheet

LEMMA FindLineKeeps ==
  ASSUME SheetAssumption, IInv, NEW c \in Calls, FindLine(c)
  PROVE  IInv'
<1>1. PICK k, a : k = call[c] /\ a = k.adv
  OBVIOUS
<1>2. k \in CallRows /\ CallFits(k) /\ KnowsLines(k)
  BY <1>1, OfCall
<1>3. KeepsWaiting /\ k.at = "findLine" /\ UNCHANGED <<adv, sheet, row, remote, doubt>>
  BY <1>1 DEF FindLine
<1>4. raced' = IF \E l \in RowsFor(a) : ~Open(row[l].sheet) THEN raced \cup {a} ELSE raced
  BY <1>1 DEF FindLine
<1>5. Still
  BY <1>3, <1>4 DEF Still
<1>6. a \in Advances /\ adv[a] = "cancelled" /\ ~Late(call[c])
  BY <1>1, <1>2, <1>3 DEF CallFits, Late
<1>7. ASSUME NEW l \in RowsFor(a), Open(row[l].sheet),
             call' = [call EXCEPT ![c] = ToLine(k, "dropLine", l)]
      PROVE  IInv'
  <2>1. PICK m : m = ToLine(k, "dropLine", l)
    OBVIOUS
  <2>2. l \in Rows /\ l \in Rows \cup {None} /\ "dropLine" \in Ats
    BY <1>7 DEF RowsFor, Ats
  <2>3. m \in CallRows /\ m.at = "dropLine" /\ m.adv = a /\ m.row = l
    BY <1>1, <1>2, <2>1, <2>2, ToLineRow
  <2>4. CallFits(m) /\ ~Sends(m)
    BY <1>6, <2>3 DEF CallFits, Sends, Joins
  <2>5. a \in raced \/ RowsFor(a) \subseteq {l}
    BY <1>6, <1>7 DEF IInv, AllLines, OneLine
  <2>6. KnowsLines(m)
    BY <1>6, <2>3, <2>5 DEF KnowsLines, Joins
  <2>7. Expects(m, waiting[c])
    BY <2>3 DEF Expects, Joins
  <2>8. Sound(c, m)
    BY <1>3, <2>3, <2>4, <2>6, <2>7, Kept DEF Sound
  <2>9. Onward(c, m)
    BY <1>1, <1>6, <2>3, <2>4 DEF Onward, Drops
  <2>10. Turn(c, m)
    BY <1>7, <2>1 DEF Turn
  <2> QED
    BY <1>3, <1>5, <2>8, <2>9, <2>10, CalmStep
<1>8. ASSUME Ends(c), RowsFor(a) = {} \/ a \in raced'
      PROVE  IInv'
  BY <1>1, <1>3, <1>5, <1>6, <1>8, Stops
<1>9. \/ \E l \in RowsFor(a) :
           \/ Open(row[l].sheet) /\ call' = [call EXCEPT ![c] = ToLine(k, "dropLine", l)]
           \/ ~Open(row[l].sheet) /\ Ends(c)
      \/ RowsFor(a) = {} /\ Ends(c)
  BY <1>1 DEF FindLine, Becomes, ToLine
<1> QED
  BY <1>4, <1>7, <1>8, <1>9

LEMMA GivesUp ==
  ASSUME SheetAssumption, IInv, Still, KeepsWaiting, NEW c \in Calls,
         call[c].at \in {"load", "export", "create"}, Error(c)
  PROVE  IInv'
<1>1. PICK k : k = call[c]
  OBVIOUS
<1>2. k \in CallRows /\ CallFits(k) /\ KnowsLines(k)
  BY <1>1, OfCall
<1>3. ~Late(call[c]) /\ ~Drops(call[c])
  BY DEF Late, Drops
<1>4. CASE ~k.closing
  <2>1. Ends(c)
    BY <1>1, <1>4 DEF Error
  <2> QED
    BY <1>3, <2>1, Stops
<1>5. CASE k.closing
  <2>1. PICK m : m = ToPlace(k, "reopen")
    OBVIOUS
  <2>2. m \in CallRows /\ m.at = "reopen" /\ m.sheet = k.sheet
    BY <1>2, <2>1, ToPlaceRow DEF Ats
  <2>3. k.sheet \in Manual /\ k.sheet \in Sheets /\ sheet[k.sheet].state # "none"
    BY <1>1, <1>2, <1>5 DEF CallFits, Sends
  <2>4. CallFits(m) /\ KnowsLines(m) /\ ~Sends(m)
    BY <2>2, <2>3 DEF CallFits, KnowsLines, Sends, Joins
  <2>5. Sound(c, m)
    BY <2>2, <2>4, Kept DEF Sound, Expects, Joins
  <2>6. Onward(c, m)
    BY <1>3, <2>2, <2>4 DEF Onward
  <2>7. Turn(c, m)
    BY <1>1, <1>5, <2>1 DEF Turn, Error, Goes, Becomes, ToPlace
  <2> QED
    BY <2>5, <2>6, <2>7, CalmStep
<1> QED
  BY <1>4, <1>5

LEMMA FailKeeps ==
  ASSUME SheetAssumption, IInv, NEW c \in Calls, Fail(c)
  PROVE  IInv'
<1>1. PICK k : k = call[c]
  OBVIOUS
<1>2. k \in CallRows /\ CallFits(k) /\ KnowsLines(k)
  BY <1>1, OfCall
<1>3. KeepsWaiting /\ UNCHANGED <<adv, sheet, row, remote>>
  BY DEF Fail
<1>4. doubt' = IF k.at \in {"post", "persist", "note"} /\ call'[c] = Idle
               THEN doubt \cup {k.sheet} ELSE doubt
  BY <1>1 DEF Fail
<1>5. raced' = IF k.at \in {"findLine", "dropLine"} /\ k.adv # None
               THEN raced \cup {k.adv} ELSE raced
  BY <1>1 DEF Fail
<1>6. Still
  BY <1>3, <1>4, <1>5 DEF Still
<1>7. CASE Ends(c)
  <2>1. call'[c] = Idle
    BY <1>7 DEF Ends, Becomes, IInv, Types
  <2>2. Late(call[c]) => call[c].sheet \in doubt'
    BY <1>1, <1>4, <2>1 DEF Late
  <2>3. Drops(call[c]) /\ call[c].adv \in Advances => call[c].adv \in raced'
    BY <1>1, <1>5, Apart DEF Drops
  <2> QED
    BY <1>3, <1>6, <1>7, <2>2, <2>3, Stops
<1>8. CASE k.at \in {"load", "export", "create"} /\ Error(c)
  BY <1>1, <1>3, <1>6, <1>8, GivesUp
<1>9. CASE k.at = "persist" /\ call' = [call EXCEPT ![c] = ToPlace(k, "note")]
  <2>1. PICK m : m = ToPlace(k, "note")
    OBVIOUS
  <2>2. /\ m \in CallRows /\ m.at = "note" /\ m.sheet = k.sheet /\ m.closing = k.closing
        /\ m.record = k.record
    BY <1>2, <2>1, ToPlaceRow DEF Ats
  <2>3. CallFits(m) /\ KnowsLines(m)
    BY <1>2, <1>9, <2>2 DEF CallFits, KnowsLines, Sends, Joins
  <2>4. Sound(c, m)
    BY <1>3, <2>2, <2>3, Kept DEF Sound, Expects, Joins
  <2>5. Onward(c, m)
    BY <1>1, <1>9, <2>2 DEF Onward, Sends, Late, Drops
  <2>6. Turn(c, m)
    BY <1>9, <2>1 DEF Turn
  <2> QED
    BY <1>3, <1>6, <2>4, <2>5, <2>6, CalmStep
<1> QED
  BY <1>1, <1>7, <1>8, <1>9 DEF Fail, Goes, Becomes, ToPlace

LEMMA ExportKeeps ==
  ASSUME SheetAssumption, IInv, NEW c \in Calls, Export(c)
  PROVE  IInv'
<1>1. PICK k, p : k = call[c] /\ p = {row[l].adv : l \in RowsOf(k.sheet)} \ {None}
  OBVIOUS
<1>2. k \in CallRows /\ CallFits(k) /\ KnowsLines(k)
  BY <1>1, OfCall
<1>3. Still /\ KeepsWaiting /\ k.at = "export"
  BY <1>1 DEF Export, Still
<1>4. CASE Error(c)
  BY <1>1, <1>3, <1>4, GivesUp
<1>5. CASE call' = [call EXCEPT ![c] = ToTodo(k, "create", p)]
  <2>1. PICK m : m = ToTodo(k, "create", p)
    OBVIOUS
  <2>2. Types
    BY DEF IInv
  <2>3. p \subseteq Advances
    BY <1>1, <2>2 DEF Types, LineRows, MaybeAdv, RowsOf
  <2>4. p \in SUBSET (Advances \cup Rows) /\ "create" \in Ats
    BY <2>3 DEF Ats
  <2>5. /\ m \in CallRows /\ m.at = "create" /\ m.sheet = k.sheet /\ m.closing = k.closing
        /\ m.todo = p
    BY <1>2, <2>1, <2>4, ToTodoRow
  <2>6. CallFits(m) /\ KnowsLines(m)
    BY <1>2, <1>3, <2>3, <2>5 DEF CallFits, KnowsLines, Sends, Joins
  <2>7. Sound(c, m)
    BY <1>3, <2>5, <2>6, Kept DEF Sound, Expects, Joins
  <2>8. Turn(c, m)
    BY <1>5, <2>1 DEF Turn
  <2>9. SendsOn(c, m)
    BY <1>1, <1>3, <2>5 DEF SendsOn, Sends, Late, Still
  <2>10. Tidy(c, m)
    BY <1>1, <1>3 DEF Tidy, Drops, Still
  <2>11. AllSent'
    BY <1>3, <2>2, <2>8, <2>9, TurnSent DEF IInv, Still
  <2>12. AllWait'
    BY <1>3, <2>2, <2>7, <2>8, Calm, CalmSound, TurnWaits DEF IInv
  <2>13. ASSUME NEW a \in Advances PROVE Claims(a)' \subseteq Places(a)
    <3>1. \A d \in Calls : call'[d].at = "create" /\ a \in call'[d].todo =>
            \/ call[d].at = "create" /\ a \in call[d].todo /\ call'[d].sheet = call[d].sheet
            \/ call'[d].sheet = k.sheet /\ a \in p
      BY <2>2, <2>5, <2>8, Turned
    <3>2. a \in p => k.sheet \in {row[l].sheet : l \in RowsFor(a)}
      BY <1>1 DEF RowsFor, RowsOf
    <3> QED
      BY <1>3, <3>1, <3>2 DEF Claims, Places, Still
  <2>14. Types' /\ Lines'
    BY <1>3, <2>5, <2>8, CalmTypes DEF IInv
  <2> QED
    BY <1>3, <2>7, <2>8, <2>10, <2>11, <2>12, <2>13, <2>14, Calm, CalmSound, Pieces
<1> QED
  BY <1>1, <1>4, <1>5 DEF Export, Becomes, ToTodo

LEMMA LoadSheetKeeps ==
  ASSUME SheetAssumption, IInv, NEW c \in Calls, LoadSheet(c)
  PROVE  IInv'
<1>1. PICK k : k = call[c]
  OBVIOUS
<1>2. k \in CallRows /\ CallFits(k) /\ KnowsLines(k)
  BY <1>1, OfCall
<1>3. KeepsWaiting /\ k.at = "load" /\ UNCHANGED <<adv, sheet, row, remote, raced>>
  BY <1>1 DEF LoadSheet
<1>4. CASE Error(c) /\ UNCHANGED doubt
  <2>1. Still
    BY <1>3, <1>4 DEF Still
  <2> QED
    BY <1>1, <1>3, <1>4, <2>1, GivesUp
<1>5. CASE /\ sheet[k.sheet] = [state |-> "locked", sent |-> None]
           /\ call' = [call EXCEPT ![c] = ToPlace(k, "export")] /\ Overlaps(k.sheet)
  <2>1. PICK m : m = ToPlace(k, "export")
    OBVIOUS
  <2>2. Still
    BY <1>3, <1>5 DEF Still, Overlaps
  <2>3. Types /\ k.sheet \in Sheets /\ sheet[k.sheet].sent = None
    BY <1>2, <1>3, <1>5 DEF IInv, CallFits
  <2>4. m \in CallRows /\ m.at = "export" /\ m.sheet = k.sheet /\ m.closing = k.closing
    BY <1>2, <2>1, ToPlaceRow DEF Ats
  <2>5. CallFits(m) /\ KnowsLines(m)
    BY <1>2, <1>3, <2>4 DEF CallFits, KnowsLines, Sends, Joins
  <2>6. Sound(c, m)
    BY <1>3, <2>4, <2>5, Kept DEF Sound, Expects, Joins
  <2>7. Turn(c, m)
    BY <1>5, <2>1 DEF Turn
  <2>8. Tidy(c, m)
    BY <1>1, <1>3 DEF Tidy, Drops
  <2>9. AllWait'
    BY <1>3, <2>2, <2>3, <2>6, <2>7, Calm, CalmSound, TurnWaits DEF IInv
  <2>10. ASSUME NEW a \in Advances PROVE Claims(a)' \subseteq Places(a)
    <3>1. \A d \in Calls : call'[d].at = "create" => call'[d] = call[d]
      BY <2>3, <2>4, <2>7, Turned
    <3> QED
      BY <1>3, <3>1 DEF Claims, Places
  <2>11. ASSUME NEW b \in Sheets, b \notin doubt' PROVE SentOnce(b)'
    <3>1. SentOnce(b) /\ b \notin doubt
      BY <2>2, <2>11 DEF IInv, AllSent, Still
    <3>2. \A d \in Calls \ {c} : call'[d] = call[d]
      BY <2>3, <2>7, Turned
    <3>3. call'[c] = m
      BY <2>3, <2>7, Turned
    <3>4. c \notin Sending(b) /\ ~Late(m)
      BY <1>1, <1>3, <2>4 DEF Sending, Late
    <3>5. CASE b # k.sheet
      <4>1. Sending(b)' = Sending(b)
        BY <2>4, <3>2, <3>3, <3>4, <3>5 DEF Sending
      <4>2. \A d \in Sending(b) : call'[d] = call[d]
        BY <3>2, <3>4 DEF Sending
      <4> QED
        BY <1>3, <3>1, <4>1, <4>2 DEF SentOnce
    <3>6. CASE b = k.sheet
      <4>1. Sending(b) = {}
        BY <1>5, <2>11, <3>1, <3>6 DEF Overlaps
      <4>2. Sending(b)' \subseteq {c}
        BY <3>2, <4>1 DEF Sending
      <4>3. \A i \in Records : remote[i].sheet # b
        BY <2>3, <3>1, <3>6, <4>1 DEF SentOnce
      <4> QED
        BY <1>3, <4>2, <4>3 DEF SentOnce
    <3> QED
      BY <3>5, <3>6
  <2>12. AllSent'
    BY <2>11 DEF AllSent, SentOnce
  <2>13. Types' /\ Lines'
    BY <1>3, <2>2, <2>4, <2>7, CalmTypes DEF IInv
  <2> QED
    BY <2>2, <2>6, <2>7, <2>8, <2>9, <2>10, <2>12, <2>13, Calm, CalmSound, Pieces
<1> QED
  BY <1>1, <1>4, <1>5 DEF LoadSheet, Goes, Becomes, ToPlace

LEMMA FindOrphansKeeps ==
  ASSUME SheetAssumption, IInv, NEW c \in Calls, NEW closing \in BOOLEAN,
         FindOrphans(c, closing)
  PROVE  IInv'
<1>1. PICK k, p : k = Idle /\ p = {a \in Advances : adv[a] = "pending" /\ RowsFor(a) = {}}
  OBVIOUS
<1>2. PICK m : m = ToAttach(k, "attach", closing, p)
  OBVIOUS
<1>3. /\ call[c] = k /\ Turn(c, m) /\ UNCHANGED <<adv, sheet, row, remote, raced, doubt>>
      /\ waiting' = [waiting EXCEPT ![c] = IF closing THEN p ELSE {}]
  BY <1>1, <1>2 DEF FindOrphans, Becomes, Turn, ToAttach
<1>4. Still
  BY <1>3 DEF Still
<1>5. k \in CallRows /\ p \in SUBSET (Advances \cup Rows) /\ p \in SUBSET Advances
  BY <1>1, IdleRow
<1>6. m \in CallRows /\ m.at = "attach" /\ m.todo = p
  BY <1>2, <1>5, ToAttachRow DEF Ats
<1>7. k.at = "idle"
  BY <1>1, IdleRow
<1>8. CallFits(m) /\ KnowsLines(m) /\ ~Sends(m)
  BY <1>1, <1>6 DEF CallFits, KnowsLines, Sends, Joins, Granted
<1>9. Types
  BY DEF IInv
<1>10. waiting' \in [Calls -> SUBSET Advances] /\ waiting'[c] \subseteq p
  BY <1>3, <1>5, <1>9 DEF Types
<1>11. Types' /\ Lines'
  <2>1. call' \in [Calls -> CallRows]
    BY <1>3, <1>6, <1>9, TurnTyped
  <2> QED
    BY <1>3, <1>10, <2>1 DEF IInv, Types, Lines, LineFits
<1>12. AllWait'
  <2> SUFFICES ASSUME NEW d \in Calls PROVE Expects(call[d], waiting[d])'
    BY DEF AllWait
  <2>1. \A a : RowsFor(a)' = RowsFor(a)
    BY <1>3, SameRows
  <2>2. CASE d = c
    <3>1. call'[d] = m
      BY <1>3, <1>9, <2>2, Turned
    <3> QED
      BY <1>6, <1>10, <2>2, <3>1 DEF Expects, Joins
  <2>3. CASE d # c
    <3>1. call'[d] = call[d]
      BY <1>3, <1>9, <2>3, Turned
    <3>2. waiting'[d] = waiting[d]
      BY <1>3, <1>9, <2>3 DEF Types
    <3>3. Expects(call[d], waiting[d])
      BY DEF IInv, AllWait
    <3> QED
      BY <2>1, <3>1, <3>2, <3>3 DEF Expects, Joins
  <2> QED
    BY <2>2, <2>3
<1>13. SendsOn(c, m) /\ Quiet(c, m)
  BY <1>3, <1>6, <1>7, <1>8 DEF SendsOn, Quiet, Late
<1>14. AllSent'
  BY <1>3, <1>9, <1>13, TurnSent DEF IInv
<1>15. \A a \in Advances : Claims(a)' \subseteq Places(a)
  BY <1>3, <1>9, <1>13, TurnClaims DEF Places
<1>16. Tidy(c, m)
  BY <1>3, <1>7 DEF Tidy, Drops
<1>17. CallFits(m)' /\ KnowsLines(m)'
  BY <1>3, <1>8 DEF CallFits, KnowsLines, Granted, Joins, Sends, RowsFor
<1> QED
  BY <1>3, <1>4, <1>11, <1>12, <1>14, <1>15, <1>16, <1>17, Calm, Pieces

-----------------------------------------------------------------------------
(* ... those that write a sheet, a record or an advance, and no line. *)
LEMMA Placed ==
  ASSUME UNCHANGED row, raced \subseteq raced', doubt \subseteq doubt',
         \A a \in Advances :
           /\ adv[a] # "none" => adv'[a] # "none"
           /\ adv[a] = "cancelled" => adv'[a] = "cancelled"
           /\ adv[a] = "applied" => adv'[a] \in {"applied", "cancelled"},
         \A b \in Sheets : sheet[b].state # "none" => sheet'[b].state # "none",
         \A b \in Uploaded : sheet'[b].state = "draft" => sheet[b].state \in {"none", "draft"},
         \A i \in Records : remote[i].sheet # None => remote'[i].sheet = remote[i].sheet
  PROVE  Lasts /\ Fate
BY SameRows DEF Lasts, Fate

LEMMA LinesKept ==
  ASSUME SheetAssumption, Types, Lines, Lasts, UNCHANGED row
  PROVE  Lines'
BY LineKept DEF Lines

(* The state of one sheet. *)
LEMMA StateSet ==
  ASSUME Types, NEW b \in Sheets, NEW s \in {"none", "draft", "locked", "gone"},
         sheet' = [sheet EXCEPT ![b].state = s]
  PROVE  /\ sheet' \in [Sheets -> SheetRows]
         /\ \A d \in Sheets : sheet'[d].state = IF d = b THEN s ELSE sheet[d].state
         /\ \A d \in Sheets : sheet'[d].sent = sheet[d].sent
BY DEF Types, SheetRows

LEMMA SheetStep ==
  ASSUME SheetAssumption, IInv, KeepsWaiting, NEW c \in Calls, NEW m \in CallRows,
         Turn(c, m), NEW b \in Sheets, NEW s \in {"draft", "locked", "gone"},
         sheet' = [sheet EXCEPT ![b].state = s], b \in Uploaded => s # "draft",
         UNCHANGED <<adv, row, remote, raced, doubt>>,
         CallFits(m)', KnowsLines(m), SendsOn(c, m), m.at # "create", ~Drops(call[c]),
         m.closing /\ m.at # "idle" => Expects(m, waiting[c])
  PROVE  IInv'
<1>1. Types /\ Lines
  BY DEF IInv
<1>2. /\ sheet' \in [Sheets -> SheetRows]
      /\ \A d \in Sheets : sheet'[d].state = IF d = b THEN s ELSE sheet[d].state
  BY <1>1, StateSet
<1>3. Lasts /\ Fate
  <2>1. \A d \in Uploaded : d \in Sheets
    BY Apart
  <2> QED
    BY <1>2, <2>1, Placed
<1>4. call' \in [Calls -> CallRows] /\ waiting' \in [Calls -> SUBSET Advances]
  BY <1>1, TurnTyped, WaitingTyped
<1>5. Types'
  BY <1>1, <1>2, <1>4 DEF Types
<1>6. Lines'
  BY <1>1, <1>3, LinesKept
<1>7. Quiet(c, m) /\ Tidy(c, m)
  BY DEF Quiet, Tidy
<1>8. \A a : RowsFor(a)' = RowsFor(a)
  BY SameRows
<1>9. KnowsLines(m)'
  BY <1>8 DEF KnowsLines, Joins
<1>10. m.closing /\ m.at # "idle" => \A w : w = waiting'[c] => Expects(m, w)'
  BY <1>8, Kept DEF Expects, Joins
<1> QED
  BY <1>3, <1>5, <1>6, <1>7, <1>9, <1>10, Steps

LEMMA NewBatchKeeps ==
  ASSUME SheetAssumption, IInv, NEW c \in Calls, NEW b \in Manual, NewBatch(c, b)
  PROVE  IInv'
<1>1. PICK k : k = call[c]
  OBVIOUS
<1>2. PICK m : m = ToSheet(k, "line", b)
  OBVIOUS
<1>3. k \in CallRows /\ CallFits(k) /\ KnowsLines(k) /\ Expects(k, waiting[c])
  BY <1>1, OfCall
<1>4. /\ KeepsWaiting /\ k.at = "newBatch" /\ Turn(c, m)
      /\ sheet' = [sheet EXCEPT ![b].state = "draft"]
      /\ UNCHANGED <<adv, row, remote, raced, doubt>>
  BY <1>1, <1>2 DEF NewBatch, Becomes, Turn, ToSheet
<1>5. b \in Sheets /\ b \in MaybeSheet /\ b \notin Uploaded /\ "line" \in Ats
  BY Apart DEF MaybeSheet, Ats
<1>6. m \in CallRows /\ m.at = "line" /\ m.sheet = b /\ m.adv = k.adv /\ m.todo = k.todo
  BY <1>2, <1>3, <1>5, ToSheetRow
<1>7. /\ sheet'[b].state = "draft"
      /\ \A d \in Sheets : sheet'[d].sent = sheet[d].sent
  BY <1>4, <1>5, StateSet DEF IInv
<1>8. CallFits(m)'
  BY <1>3, <1>4, <1>6, <1>7 DEF CallFits, Joins, Sends, Granted
<1>9. KnowsLines(m) /\ Expects(m, waiting[c])
  BY <1>3, <1>4, <1>6 DEF KnowsLines, Expects, Joins
<1>10. SendsOn(c, m) /\ ~Drops(call[c])
  BY <1>1, <1>4, <1>6, <1>7 DEF SendsOn, Sends, Late, Drops
<1> QED
  BY <1>4, <1>5, <1>6, <1>8, <1>9, <1>10, SheetStep

LEMMA LockBatchKeeps ==
  ASSUME SheetAssumption, IInv, NEW c \in Calls, LockBatch(c)
  PROVE  IInv'
<1>1. PICK k, b : k = call[c] /\ b = k.sheet
  OBVIOUS
<1>2. k \in CallRows /\ CallFits(k) /\ KnowsLines(k)
  BY <1>1, OfCall
<1>3. KeepsWaiting /\ k.at = "lock" /\ UNCHANGED <<adv, row, remote, raced, doubt>>
  BY <1>1 DEF LockBatch
<1>4. b \in Sheets /\ b \in Manual /\ b \notin Uploaded
  BY <1>1, <1>2, <1>3, Apart DEF CallFits
<1>5. CASE UNCHANGED sheet /\ Ends(c)
  <2>1. Still
    BY <1>3, <1>5 DEF Still
  <2>2. ~Late(call[c]) /\ ~Drops(call[c])
    BY <1>1, <1>3 DEF Late, Drops
  <2> QED
    BY <1>3, <1>5, <2>1, <2>2, Stops
<1>6. CASE /\ sheet' = [sheet EXCEPT ![b].state = "locked"]
           /\ call' = [call EXCEPT ![c] = ToPlace(k, "load")]
  <2>1. PICK m : m = ToPlace(k, "load")
    OBVIOUS
  <2>2. m \in CallRows /\ m.at = "load" /\ m.sheet = b
    BY <1>1, <1>2, <2>1, ToPlaceRow DEF Ats
  <2>3. /\ sheet'[b].state = "locked"
        /\ \A d \in Sheets : sheet'[d].sent = sheet[d].sent
    BY <1>4, <1>6, StateSet DEF IInv
  <2>4. CallFits(m)'
    BY <1>4, <2>2, <2>3 DEF CallFits, Joins, Sends
  <2>5. KnowsLines(m) /\ Expects(m, waiting[c])
    BY <2>2 DEF KnowsLines, Expects, Joins
  <2>6. SendsOn(c, m) /\ ~Drops(call[c]) /\ Turn(c, m)
    BY <1>1, <1>3, <1>6, <2>1, <2>2, <2>3 DEF SendsOn, Sends, Late, Drops, Turn
  <2> QED
    BY <1>3, <1>4, <1>6, <2>2, <2>4, <2>5, <2>6, SheetStep
<1> QED
  BY <1>1, <1>5, <1>6 DEF LockBatch, Goes, Becomes, ToPlace

LEMMA ReopenKeeps ==
  ASSUME SheetAssumption, IInv, NEW c \in Calls, Reopen(c)
  PROVE  IInv'
<1>1. PICK k, b, m : k = call[c] /\ b = k.sheet /\ m = Idle
  OBVIOUS
<1>2. CallFits(k)
  BY <1>1, OfCall
<1>3. /\ KeepsWaiting /\ k.at = "reopen" /\ UNCHANGED <<adv, row, remote, raced, doubt>>
      /\ sheet' = [sheet EXCEPT ![b].state = "draft"] /\ Turn(c, m)
  BY <1>1 DEF Reopen, Ends, Becomes, Turn
<1>4. b \in Sheets /\ b \notin Uploaded
  BY <1>1, <1>2, <1>3, Apart DEF CallFits
<1>5. m \in CallRows /\ m.at = "idle" /\ ~m.closing
  BY <1>1, IdleRow
<1>6. CallFits(m)' /\ KnowsLines(m)
  BY <1>1, IdleRow DEF CallFits, KnowsLines, Joins, Sends
<1>7. \A d \in Sheets : sheet'[d].sent = sheet[d].sent
  BY <1>3, <1>4, StateSet DEF IInv
<1>8. SendsOn(c, m) /\ ~Drops(call[c])
  BY <1>1, <1>3, <1>5, <1>7 DEF SendsOn, Sends, Late, Drops
<1> QED
  BY <1>3, <1>4, <1>5, <1>6, <1>8, SheetStep

(* The states of the advances. *)
LEMMA AdvStep ==
  ASSUME SheetAssumption, IInv, KeepsWaiting, NEW c \in Calls, NEW m \in CallRows, Turn(c, m),
         adv' \in [Advances -> {"none", "pending", "applied", "cancelled"}],
         \A a \in Advances :
           /\ adv[a] # "none" => adv'[a] # "none"
           /\ adv[a] = "cancelled" => adv'[a] = "cancelled"
           /\ adv[a] = "applied" => adv'[a] \in {"applied", "cancelled"}
           /\ adv'[a] = "cancelled" /\ adv[a] # "cancelled" => Drops(m) /\ m.adv = a,
         UNCHANGED <<sheet, row, remote, doubt>>, raced \subseteq raced',
         CallFits(m)', KnowsLines(m)', ~Sends(m), ~Late(call[c]), ~Drops(call[c]),
         m.closing /\ m.at # "idle" => Expects(m, waiting[c])
  PROVE  IInv'
<1>1. Types /\ Lines
  BY DEF IInv
<1>2. Lasts /\ Fate
  BY Placed
<1>3. call' \in [Calls -> CallRows] /\ waiting' \in [Calls -> SUBSET Advances]
  BY <1>1, TurnTyped, WaitingTyped
<1>4. Types'
  BY <1>1, <1>3 DEF Types
<1>5. Lines'
  BY <1>1, <1>2, LinesKept
<1>6. Quiet(c, m) /\ Tidy(c, m)
  BY DEF Quiet, SendsOn, Tidy, Sends
<1>7. \A a : RowsFor(a)' = RowsFor(a)
  BY SameRows
<1>8. m.closing /\ m.at # "idle" => \A w : w = waiting'[c] => Expects(m, w)'
  BY <1>7, Kept DEF Expects, Joins
<1> QED
  BY <1>2, <1>4, <1>5, <1>6, <1>8, Steps

(* One advance gets a state. *)
LEMMA AdvSet ==
  ASSUME Types, NEW a \in Advances, NEW s \in {"none", "pending", "applied", "cancelled"},
         adv' = [adv EXCEPT ![a] = s]
  PROVE  /\ adv' \in [Advances -> {"none", "pending", "applied", "cancelled"}]
         /\ \A e \in Advances : adv'[e] = IF e = a THEN s ELSE adv[e]
BY DEF Types

LEMMA GrantKeeps ==
  ASSUME SheetAssumption, IInv, NEW c \in Calls, NEW a \in Advances, Grant(c, a)
  PROVE  IInv'
<1>1. PICK k, t : k = Idle /\ t = {a}
  OBVIOUS
<1>2. PICK m : m = ToTodo(k, "attach", t)
  OBVIOUS
<1>3. /\ KeepsWaiting /\ call[c] = Idle /\ adv[a] = "none" /\ Turn(c, m)
      /\ adv' = [adv EXCEPT ![a] = "pending"]
      /\ UNCHANGED <<sheet, row, remote, raced, doubt>>
  BY <1>1, <1>2 DEF Grant, Becomes, Turn, ToTodo
<1>4. k \in CallRows /\ ~k.closing /\ k.at = "idle" /\ t \in SUBSET (Advances \cup Rows)
  BY <1>1, IdleRow
<1>5. m \in CallRows /\ m.at = "attach" /\ m.todo = t /\ ~m.closing
  BY <1>2, <1>4, ToTodoRow DEF Ats
<1>6. /\ adv' \in [Advances -> {"none", "pending", "applied", "cancelled"}]
      /\ \A e \in Advances : adv'[e] = IF e = a THEN "pending" ELSE adv[e]
  BY <1>3, AdvSet DEF IInv
<1>7. CallFits(m)' /\ KnowsLines(m)'
  BY <1>1, <1>5, <1>6 DEF CallFits, KnowsLines, Joins, Sends, Granted
<1>8. ~Sends(m) /\ ~Late(call[c]) /\ ~Drops(call[c])
  BY <1>1, <1>3, <1>4, <1>5 DEF Sends, Late, Drops
<1> QED
  BY <1>3, <1>5, <1>6, <1>7, <1>8, AdvStep

LEMMA CancelAdvanceKeeps ==
  ASSUME SheetAssumption, IInv, NEW c \in Calls, CancelAdvance(c)
  PROVE  IInv'
<1>1. PICK k, a : k = call[c] /\ a = k.adv
  OBVIOUS
<1>2. PICK m : m = ToPlace(k, "findLine")
  OBVIOUS
<1>3. k \in CallRows /\ CallFits(k)
  BY <1>1, OfCall
<1>4. /\ KeepsWaiting /\ k.at = "cancel" /\ Turn(c, m)
      /\ adv' = [adv EXCEPT ![a] = "cancelled"]
      /\ UNCHANGED <<sheet, row, remote, doubt>> /\ raced \subseteq raced'
  BY <1>1, <1>2 DEF CancelAdvance, Goes, Becomes, Turn, ToPlace
<1>5. a \in Advances /\ adv[a] # "none"
  BY <1>1, <1>3, <1>4 DEF CallFits, Granted
<1>6. m \in CallRows /\ m.at = "findLine" /\ m.adv = a
  BY <1>1, <1>2, <1>3, ToPlaceRow DEF Ats
<1>7. /\ adv' \in [Advances -> {"none", "pending", "applied", "cancelled"}]
      /\ \A e \in Advances : adv'[e] = IF e = a THEN "cancelled" ELSE adv[e]
  BY <1>4, <1>5, AdvSet DEF IInv
<1>8. CallFits(m)' /\ KnowsLines(m)'
  BY <1>5, <1>6, <1>7 DEF CallFits, KnowsLines, Joins, Sends
<1>9. ~Sends(m) /\ Drops(m) /\ ~Late(call[c]) /\ ~Drops(call[c])
  BY <1>1, <1>4, <1>6 DEF Sends, Late, Drops
<1>10. Expects(m, waiting[c])
  BY <1>6 DEF Expects, Joins
<1> QED
  BY <1>4, <1>5, <1>6, <1>7, <1>8, <1>9, <1>10, AdvStep

LEMMA StrikeAdvanceKeeps ==
  ASSUME SheetAssumption, IInv, NEW c \in Calls, StrikeAdvance(c)
  PROVE  IInv'
<1>1. PICK k, a : k = call[c] /\ a = k.adv
  OBVIOUS
<1>2. PICK m : m = ToPlace(k, "dropLine")
  OBVIOUS
<1>3. k \in CallRows /\ CallFits(k) /\ KnowsLines(k)
  BY <1>1, OfCall
<1>4. /\ KeepsWaiting /\ k.at = "strike" /\ Turn(c, m)
      /\ adv' = IF adv[a] = "applied" THEN adv ELSE [adv EXCEPT ![a] = "cancelled"]
      /\ UNCHANGED <<sheet, row, remote, raced, doubt>>
  BY <1>1, <1>2 DEF StrikeAdvance, Goes, Becomes, Turn, ToPlace
<1>5. a \in Advances /\ adv[a] # "none" /\ a # None
  BY <1>1, <1>3, <1>4, Apart DEF CallFits, Granted
<1>6. m \in CallRows /\ m.at = "dropLine" /\ m.adv = a /\ m.row = k.row
  BY <1>1, <1>2, <1>3, ToPlaceRow DEF Ats
<1>7. /\ adv' \in [Advances -> {"none", "pending", "applied", "cancelled"}]
      /\ \A e \in Advances \ {a} : adv'[e] = adv[e]
      /\ adv'[a] = IF adv[a] = "applied" THEN "applied" ELSE "cancelled"
  BY <1>4, <1>5 DEF IInv, Types
<1>8. CallFits(m)'
  BY <1>5, <1>6, <1>7 DEF CallFits, Joins, Sends
<1>9. \A e : RowsFor(e)' = RowsFor(e)
  BY <1>4, SameRows
<1>10. a \in raced \/ (RowsFor(a) \subseteq {k.row} /\ (RowsFor(a) = {} => adv[a] = "cancelled"))
  BY <1>1, <1>3, <1>4, <1>5 DEF KnowsLines
<1>11. KnowsLines(m)'
  BY <1>4, <1>6, <1>7, <1>9, <1>10 DEF KnowsLines, Joins
<1>12. ~Sends(m) /\ Drops(m) /\ ~Late(call[c]) /\ ~Drops(call[c])
  BY <1>1, <1>4, <1>6 DEF Sends, Late, Drops
<1>13. Expects(m, waiting[c])
  BY <1>6 DEF Expects, Joins
<1>14. \A e \in Advances :
         /\ adv[e] # "none" => adv'[e] # "none"
         /\ adv[e] = "cancelled" => adv'[e] = "cancelled"
         /\ adv[e] = "applied" => adv'[e] \in {"applied", "cancelled"}
         /\ adv'[e] = "cancelled" /\ adv[e] # "cancelled" => Drops(m) /\ m.adv = e
  BY <1>5, <1>6, <1>7, <1>12
<1> QED
  BY <1>4, <1>6, <1>7, <1>8, <1>11, <1>12, <1>13, <1>14, AdvStep

(* A record is posted. *)
LEMMA PostEntryKeeps ==
  ASSUME SheetAssumption, IInv, NEW c \in Calls, NEW done \in BOOLEAN, PostEntry(c, done)
  PROVE  IInv'
<1>1. PICK k, i : k = call[c] /\ i = k.record
  OBVIOUS
<1>2. k \in CallRows /\ CallFits(k)
  BY <1>1, OfCall
<1>3. /\ KeepsWaiting /\ k.at = "post" /\ UNCHANGED <<adv, sheet, row, raced, doubt>>
      /\ remote' = [remote EXCEPT ![i].posted = @ \/ done]
  BY <1>1 DEF PostEntry
<1>4. i \in Records /\ remote[i].sheet = k.sheet
  BY <1>1, <1>2, <1>3 DEF CallFits
<1>5. Types /\ Lines
  BY DEF IInv
<1>6. /\ remote' \in [Records -> RecordRows]
      /\ \A j \in Records : remote'[j].sheet = remote[j].sheet /\ remote'[j].pays = remote[j].pays
  <2>1. remote \in [Records -> RecordRows] /\ (remote[i].posted \/ done) \in BOOLEAN
    BY <1>4, <1>5 DEF Types
  <2> QED
    BY <1>3, <1>4, <2>1 DEF RecordRows
<1>7. ASSUME NEW x \in {"persist", "note"}, call' = [call EXCEPT ![c] = ToPlace(k, x)]
      PROVE  IInv'
  <2>1. PICK m : m = ToPlace(k, x)
    OBVIOUS
  <2>2. /\ m \in CallRows /\ m.at = x /\ m.sheet = k.sheet /\ m.closing = k.closing
        /\ m.record = i
    BY <1>1, <1>2, <2>1, ToPlaceRow DEF Ats
  <2>3. CallFits(m)'
    BY <1>2, <1>3, <1>4, <1>6, <2>2 DEF CallFits, Joins, Sends
  <2>4. KnowsLines(m)' /\ (\A w : Expects(m, w)')
    BY <2>2 DEF KnowsLines, Expects, Joins
  <2>5. Turn(c, m)
    BY <1>7, <2>1 DEF Turn
  <2>6. Quiet(c, m) /\ Tidy(c, m)
    BY <1>1, <1>3, <1>6, <2>2 DEF Quiet, SendsOn, Sends, Late, Tidy, Drops
  <2>7. Lasts /\ Fate
    BY <1>3, <1>6, Placed
  <2>8. Types'
    <3>1. call' \in [Calls -> CallRows] /\ waiting' \in [Calls -> SUBSET Advances]
      BY <1>3, <1>5, <2>2, <2>5, TurnTyped, WaitingTyped
    <3> QED
      BY <1>3, <1>5, <1>6, <3>1 DEF Types
  <2>9. Lines'
    BY <1>3, <1>5, <2>7, LinesKept
  <2> QED
    BY <1>3, <2>3, <2>4, <2>5, <2>6, <2>7, <2>8, <2>9, Steps
<1> QED
  BY <1>1, <1>7 DEF PostEntry, Goes, Becomes, ToPlace

(* An error: the call is over, or reopens its batch. *)
LEMMA Gave ==
  ASSUME SheetAssumption, IInv, NEW c \in Calls, call[c].at \in {"create", "note"}, Error(c)
  PROVE  \E m \in CallRows :
           /\ Turn(c, m) /\ m.at \in {"idle", "reopen"}
           /\ m.at = "idle" => m.adv = None /\ ~m.closing
           /\ m.at = "reopen" => /\ m.sheet = call[c].sheet /\ m.sheet \in Manual
                                 /\ sheet[m.sheet].state # "none" /\ m.sheet \in Sheets
<1>1. PICK k : k = call[c]
  OBVIOUS
<1>2. k \in CallRows /\ CallFits(k)
  BY <1>1, OfCall
<1>3. CASE ~k.closing
  <2>1. PICK m : m = Idle
    OBVIOUS
  <2>2. Turn(c, m)
    BY <1>1, <1>3, <2>1 DEF Error, Ends, Becomes, Turn
  <2> QED
    BY <2>1, <2>2, IdleRow
<1>4. CASE k.closing
  <2>1. PICK m : m = ToPlace(k, "reopen")
    OBVIOUS
  <2>2. Turn(c, m)
    BY <1>1, <1>4, <2>1 DEF Error, Goes, Becomes, Turn, ToPlace
  <2>3. m \in CallRows /\ m.at = "reopen" /\ m.sheet = k.sheet
    BY <1>2, <2>1, ToPlaceRow DEF Ats
  <2>4. k.sheet \in Manual /\ k.sheet \in Sheets /\ sheet[k.sheet].state # "none"
    BY <1>1, <1>2, <1>4 DEF CallFits, Sends
  <2> QED
    BY <1>1, <2>2, <2>3, <2>4
<1> QED
  BY <1>3, <1>4

LEMMA GaveFits ==
  ASSUME NEW m \in CallRows, m.at \in {"idle", "reopen"},
         m.at = "reopen" => /\ m.sheet \in Manual /\ m.sheet \in Sheets
                            /\ sheet'[m.sheet].state # "none"
  PROVE  CallFits(m)' /\ KnowsLines(m)' /\ ~Sends(m) /\ ~Drops(m) /\ (\A w : Expects(m, w)')
BY DEF CallFits, KnowsLines, Sends, Drops, Joins, Expects

(* The id of the record is stored. *)
LEMMA SentSet ==
  ASSUME Types, NEW b \in Sheets, NEW i \in MaybeRecord,
         sheet' = [sheet EXCEPT ![b].sent = i]
  PROVE  /\ sheet' \in [Sheets -> SheetRows]
         /\ \A d \in Sheets : sheet'[d].state = sheet[d].state
         /\ \A d \in Sheets : sheet'[d].sent = IF d = b THEN i ELSE sheet[d].sent
BY DEF Types, SheetRows

LEMMA PersistKeeps ==
  ASSUME SheetAssumption, IInv, NEW c \in Calls, Persist(c)
  PROVE  IInv'
<1>1. PICK k, b, i : k = call[c] /\ b = k.sheet /\ i = k.record
  OBVIOUS
<1>2. CallFits(k)
  BY <1>1, OfCall
<1>3. /\ KeepsWaiting /\ k.at \in {"persist", "note"}
      /\ UNCHANGED <<adv, row, remote, raced, doubt>>
      /\ sheet' = [sheet EXCEPT ![b].sent = i]
  BY <1>1 DEF Persist
<1>4. b \in Sheets /\ i \in Records /\ i \in MaybeRecord /\ i # None
  BY <1>1, <1>2, <1>3, Apart DEF CallFits, Sends, MaybeRecord
<1>5. Types /\ Lines
  BY DEF IInv
<1>6. /\ sheet' \in [Sheets -> SheetRows]
      /\ \A d \in Sheets : sheet'[d].state = sheet[d].state
      /\ \A d \in Sheets : sheet'[d].sent = IF d = b THEN i ELSE sheet[d].sent
  BY <1>3, <1>4, <1>5, SentSet
<1>7. Lasts /\ Fate
  <2>1. \A d \in Uploaded : d \in Sheets
    BY Apart
  <2> QED
    BY <1>3, <1>6, <2>1, Placed
<1>8. ASSUME NEW m \in CallRows, Turn(c, m), CallFits(m)', KnowsLines(m)', ~Sends(m),
             \A w : Expects(m, w)'
      PROVE  IInv'
  <2>1. Types'
    <3>1. call' \in [Calls -> CallRows] /\ waiting' \in [Calls -> SUBSET Advances]
      BY <1>3, <1>5, <1>8, TurnTyped, WaitingTyped
    <3> QED
      BY <1>3, <1>5, <1>6, <3>1 DEF Types
  <2>2. Lines'
    BY <1>3, <1>5, <1>7, LinesKept
  <2>3. Tidy(c, m)
    BY <1>1, <1>3 DEF Tidy, Drops
  <2>4. AllWait'
    BY <1>3, <1>5, <1>7, <1>8, TurnWaits DEF IInv
  <2>5. ASSUME NEW a \in Advances PROVE Claims(a)' \subseteq Places(a)
    <3>1. \A d \in Calls : call'[d].at = "create" => call'[d] = call[d]
      BY <1>5, <1>8, Turned DEF Sends
    <3> QED
      BY <1>3, <3>1 DEF Claims, Places
  <2>6. ASSUME NEW d \in Sheets, d \notin doubt PROVE SentOnce(d)'
    <3>1. SentOnce(d)
      BY DEF IInv, AllSent
    <3>2. Sending(d)' = Sending(d) \ {c} /\ \A e \in Sending(d) \ {c} : call'[e] = call[e]
      BY <1>5, <1>8, Turned DEF Sending, Sends
    <3>3. CASE d # b
      <4>1. c \notin Sending(d)
        BY <1>1, <3>3 DEF Sending
      <4>2. sheet'[d].sent = sheet[d].sent
        BY <1>6, <3>3
      <4> QED
        BY <1>3, <3>1, <3>2, <4>1, <4>2 DEF SentOnce
    <3>4. CASE d = b
      <4>1. c \in Sending(d)
        BY <1>1, <1>3, <3>4 DEF Sending
      <4>2. Sending(d)' = {}
        BY <2>6, <3>1, <3>2, <4>1 DEF SentOnce
      <4>3. sheet'[d].sent # None
        BY <1>4, <1>6, <3>4
      <4> QED
        BY <1>3, <2>6, <3>1, <4>2, <4>3 DEF SentOnce
    <3> QED
      BY <3>3, <3>4
  <2>7. AllSent'
    BY <1>3, <2>6 DEF AllSent, SentOnce
  <2> QED
    BY <1>7, <1>8, <2>1, <2>2, <2>3, <2>4, <2>5, <2>7, Pieces
<1>9. CASE k.at = "persist"
  <2>1. PICK m : m = Idle
    OBVIOUS
  <2>2. Turn(c, m)
    BY <1>1, <1>9, <2>1 DEF Persist, Ends, Becomes, Turn
  <2>3. m \in CallRows /\ m.at = "idle"
    BY <2>1, IdleRow
  <2> QED
    BY <1>8, <2>2, <2>3, GaveFits
<1>10. CASE k.at = "note"
  <2>1. Error(c)
    BY <1>1, <1>10 DEF Persist
  <2>2. PICK m \in CallRows : /\ Turn(c, m) /\ m.at \in {"idle", "reopen"}
                              /\ m.at = "reopen" =>
                                   /\ m.sheet = call[c].sheet /\ m.sheet \in Manual
                                   /\ sheet[m.sheet].state # "none" /\ m.sheet \in Sheets
    BY <1>1, <1>10, <2>1, Gave
  <2>3. CallFits(m)' /\ KnowsLines(m)' /\ ~Sends(m) /\ (\A w : Expects(m, w)')
    BY <1>6, <2>2, GaveFits
  <2> QED
    BY <1>8, <2>2, <2>3
<1> QED
  BY <1>3, <1>9, <1>10

(* Odoo makes the record. *)
LEMMA RecordSet ==
  ASSUME SheetAssumption, Types, NEW i \in Records, NEW b \in Sheets,
         NEW p \in SUBSET Advances,
         remote' = [remote EXCEPT ![i] = [sheet |-> b, pays |-> p, posted |-> FALSE]]
  PROVE  /\ remote' \in [Records -> RecordRows]
         /\ remote'[i].sheet = b /\ remote'[i].pays = p
         /\ \A j \in Records \ {i} : remote'[j] = remote[j]
<1>1. [sheet |-> b, pays |-> p, posted |-> FALSE] \in RecordRows
  BY Apart DEF RecordRows, MaybeSheet
<1>2. PICK r \in RecordRows : r = [sheet |-> b, pays |-> p, posted |-> FALSE]
  BY <1>1
<1>3. remote' = [remote EXCEPT ![i] = r]
  BY <1>2
<1>4. remote' \in [Records -> RecordRows] /\ remote'[i] = r
      /\ \A j \in Records \ {i} : remote'[j] = remote[j]
  BY <1>3 DEF Types
<1> QED
  BY <1>2, <1>4

LEMMA CreateRecordKeeps ==
  ASSUME SheetAssumption, IInv, NEW c \in Calls, NEW i \in Records, CreateRecord(c, i)
  PROVE  IInv'
<1>1. PICK k, b, p : k = call[c] /\ b = k.sheet /\ p = k.todo
  OBVIOUS
<1>2. k \in CallRows /\ CallFits(k)
  BY <1>1, OfCall
<1>3. /\ KeepsWaiting /\ k.at = "create" /\ UNCHANGED <<adv, sheet, row, raced>>
      /\ remote[i] = NoRecord
      /\ remote' = [remote EXCEPT ![i] = [sheet |-> b, pays |-> p, posted |-> FALSE]]
  BY <1>1 DEF CreateRecord
<1>4. b \in Sheets /\ b # None /\ p \in SUBSET Advances /\ sheet[b].state # "none"
  BY <1>1, <1>2, <1>3, Apart DEF CallFits, Sends
<1>5. Types /\ Lines
  BY DEF IInv
<1>6. /\ remote' \in [Records -> RecordRows]
      /\ remote'[i].sheet = b /\ remote'[i].pays = p
      /\ \A j \in Records \ {i} : remote'[j] = remote[j]
  BY <1>3, <1>4, <1>5, RecordSet
<1>7. remote[i].sheet = None /\ remote[i].pays = {}
  BY <1>3 DEF NoRecord
<1>8. ASSUME NEW m \in CallRows, Turn(c, m), CallFits(m)', KnowsLines(m)', m.at # "create",
             \A w : Expects(m, w)',
             \/ m.at = "post" /\ m.sheet = b /\ UNCHANGED doubt
             \/ ~Sends(m) /\ doubt' = doubt \cup {b}
      PROVE  IInv'
  <2>1. doubt \subseteq doubt'
    BY <1>8
  <2>2. Lasts /\ Fate
    <3>1. \A j \in Records : remote[j].sheet # None => remote'[j].sheet = remote[j].sheet
      BY <1>6, <1>7
    <3> QED
      BY <1>3, <2>1, <3>1, Placed
  <2>3. Types'
    <3>1. call' \in [Calls -> CallRows] /\ waiting' \in [Calls -> SUBSET Advances]
      BY <1>3, <1>5, <1>8, TurnTyped, WaitingTyped
    <3> QED
      BY <1>3, <1>5, <1>6, <3>1 DEF Types
  <2>4. Lines'
    BY <1>3, <1>5, <2>2, LinesKept
  <2>5. Tidy(c, m)
    BY <1>1, <1>3 DEF Tidy, Drops
  <2>6. AllWait'
    BY <1>3, <1>5, <1>8, <2>2, TurnWaits DEF IInv
  <2>7. \A d \in Calls : d # c => call'[d] = call[d]
    BY <1>5, <1>8, Turned
  <2>8. call'[c] = m
    BY <1>5, <1>8, Turned
  <2>9. ASSUME NEW a \in Advances PROVE Claims(a)' \subseteq Places(a)
    <3>1. \A j \in Records : a \in remote'[j].pays =>
            (a \in remote[j].pays /\ remote'[j].sheet = remote[j].sheet)
            \/ (a \in p /\ remote'[j].sheet = b)
      BY <1>6
    <3>2. a \in p => b \in Claims(a)
      BY <1>1, <1>3 DEF Claims
    <3>3. \A d \in Calls : call'[d].at = "create" => call'[d] = call[d]
      BY <1>8, <2>7, <2>8
    <3> QED
      BY <3>1, <3>2, <3>3 DEF Claims, Places
  <2>10. ASSUME NEW d \in Sheets, d \notin doubt' PROVE SentOnce(d)'
    <3>1. SentOnce(d) /\ d \notin doubt
      BY <2>1, <2>10 DEF IInv, AllSent
    <3>2. CASE d # b
      <4>1. c \notin Sending(d) /\ c \notin Sending(d)'
        BY <1>1, <1>8, <2>8, <3>2 DEF Sending, Sends
      <4>2. Sending(d)' = Sending(d)
        BY <2>7, <4>1 DEF Sending
      <4>3. \A e \in Sending(d) : call'[e] = call[e]
        BY <2>7, <4>1 DEF Sending
      <4>4. \A j \in Records : remote'[j].sheet = d => remote[j].sheet = d
        BY <1>6, <3>2
      <4> QED
        BY <1>3, <3>1, <4>2, <4>3, <4>4 DEF SentOnce
    <3>3. CASE d = b
      <4>1. m.at = "post" /\ m.sheet = b
        BY <1>8, <2>10, <3>3
      <4>2. c \in Sending(d) /\ c \in Sending(d)'
        BY <1>1, <1>3, <2>8, <3>3, <4>1 DEF Sending
      <4>3. Sending(d)' = {c}
        BY <2>7, <3>1, <4>2 DEF SentOnce, Sending
      <4>4. \A j \in Records : remote[j].sheet # d
        BY <1>1, <1>3, <3>1, <4>2 DEF SentOnce
      <4>5. \A j \in Records : remote'[j].sheet = d => j = i
        BY <1>6, <4>4
      <4> QED
        BY <2>8, <4>1, <4>3, <4>5 DEF SentOnce
    <3> QED
      BY <3>2, <3>3
  <2>11. AllSent'
    BY <2>10 DEF AllSent, SentOnce
  <2> QED
    BY <1>8, <2>2, <2>3, <2>4, <2>5, <2>6, <2>9, <2>11, Pieces
<1>9. CASE call' = [call EXCEPT ![c] = ToPost(k, "post", i, {})] /\ UNCHANGED doubt
  <2>1. PICK t : t = {}
    OBVIOUS
  <2>2. PICK m : m = ToPost(k, "post", i, t)
    OBVIOUS
  <2>3. t \in SUBSET (Advances \cup Rows) /\ i \in MaybeRecord /\ "post" \in Ats
    BY <2>1 DEF MaybeRecord, Ats
  <2>4. /\ m \in CallRows /\ m.at = "post" /\ m.sheet = b /\ m.record = i
        /\ m.closing = k.closing
    BY <1>1, <1>2, <2>2, <2>3, ToPostRow
  <2>5. CallFits(m)'
    BY <1>1, <1>2, <1>3, <1>4, <1>6, <2>4 DEF CallFits, Joins, Sends
  <2>6. KnowsLines(m)' /\ (\A w : Expects(m, w)')
    BY <2>4 DEF KnowsLines, Expects, Joins
  <2>7. Turn(c, m)
    BY <1>9, <2>1, <2>2 DEF Turn
  <2> QED
    BY <1>8, <1>9, <2>4, <2>5, <2>6, <2>7
<1>10. CASE Error(c) /\ doubt' = doubt \cup {b}
  <2>1. PICK m \in CallRows : /\ Turn(c, m) /\ m.at \in {"idle", "reopen"}
                              /\ m.at = "reopen" =>
                                   /\ m.sheet = call[c].sheet /\ m.sheet \in Manual
                                   /\ sheet[m.sheet].state # "none" /\ m.sheet \in Sheets
    BY <1>1, <1>3, <1>10, Gave
  <2>2. CallFits(m)' /\ KnowsLines(m)' /\ ~Sends(m) /\ (\A w : Expects(m, w)')
    BY <1>3, <2>1, GaveFits
  <2> QED
    BY <1>8, <1>10, <2>1, <2>2
<1> QED
  BY <1>1, <1>9, <1>10 DEF CreateRecord, Becomes, ToPost

-----------------------------------------------------------------------------
(* ... those that write lines. *)
LEMMA AddLineKeeps ==
  ASSUME SheetAssumption, IInv, NEW c \in Calls, NEW l \in Rows, AddLine(c, l)
  PROVE  IInv'
<1>1. PICK k, a, b : k = call[c] /\ a = k.adv /\ b = k.sheet
  OBVIOUS
<1>2. PICK m : m = ToNext(k, "attach", None, None)
  OBVIOUS
<1>3. k \in CallRows /\ CallFits(k) /\ KnowsLines(k) /\ Expects(k, waiting[c])
  BY <1>1, OfCall
<1>4. /\ KeepsWaiting /\ k.at = "line" /\ row[l] = NoRow /\ Turn(c, m)
      /\ row' = [row EXCEPT ![l] = [sheet |-> b, adv |-> a, pick |-> FALSE]]
      /\ UNCHANGED <<adv, sheet, remote, doubt>>
  BY <1>1, <1>2 DEF AddLine, NewId, Free, Becomes, Turn, ToNext
<1>5. raced' = raced
        \cup (IF Joining(a) # {c} \/ adv[a] = "cancelled" \/ ~Open(b) THEN {a} ELSE {})
  BY <1>1 DEF AddLine
<1>6. /\ a \in Advances /\ adv[a] # "none" /\ b \in Manual /\ sheet[b].state # "none"
      /\ \A e \in k.todo : Granted(e)
  BY <1>1, <1>3, <1>4 DEF CallFits, Joins, Granted
<1>7. b \in Sheets /\ b \notin Uploaded /\ a # None
  BY <1>6, Apart
<1>8. None \in MaybeAdv /\ None \in MaybeSheet /\ "attach" \in Ats
  BY DEF MaybeAdv, MaybeSheet, Ats
<1>9. m \in CallRows /\ m.at = "attach" /\ m.todo = k.todo
  BY <1>2, <1>3, <1>8, ToNextRow
<1>10. Types /\ Lines
  BY DEF IInv
<1>11. /\ row' \in [Rows -> LineRows]
       /\ row'[l].sheet = b /\ row'[l].adv = a
       /\ \A n \in Rows \ {l} : row'[n] = row[n]
  <2>1. PICK r : r = [sheet |-> b, adv |-> a, pick |-> FALSE]
    OBVIOUS
  <2>2. r \in LineRows /\ r.sheet = b /\ r.adv = a
    BY <1>6, <1>7, <2>1 DEF LineRows, MaybeSheet, MaybeAdv
  <2>3. row' = [row EXCEPT ![l] = r]
    BY <1>4, <2>1
  <2> QED
    BY <1>10, <2>2, <2>3 DEF Types
<1>12. row[l].adv = None
  BY <1>4 DEF NoRow
<1>13. Types'
  <2>1. call' \in [Calls -> CallRows] /\ waiting' \in [Calls -> SUBSET Advances]
    BY <1>4, <1>9, <1>10, TurnTyped, WaitingTyped
  <2> QED
    BY <1>4, <1>10, <1>11, <2>1 DEF Types
<1>14. Lasts
  BY <1>4, <1>5 DEF Lasts
<1>15. \A d \in Calls : call'[d] = IF d = c THEN m ELSE call[d]
  BY <1>4, <1>10, Turned
<1>16. \A e \in Advances \ {a} : RowsFor(e)' = RowsFor(e)
  BY <1>11, <1>12, Apart DEF RowsFor
<1>17. RowsFor(a)' = RowsFor(a) \cup {l}
  BY <1>7, <1>11, <1>12 DEF RowsFor
<1>18. Fate
  <2>1. ASSUME NEW e \in Advances, e # a PROVE Keeps(e)
    <3>1. l \notin RowsFor(e)
      BY <1>12, Apart DEF RowsFor
    <3>2. \A n \in RowsFor(e)' : n \in Rows \ {l}
      BY <1>16, <2>1, <3>1 DEF RowsFor
    <3> QED
      BY <1>11, <1>16, <2>1, <3>2 DEF Keeps
  <2>2. ASSUME a \notin raced' PROVE Gains(a)
    <3>1. a \notin raced /\ Joining(a) = {c} /\ adv[a] # "cancelled"
      BY <1>5, <2>2
    <3>2. RowsFor(a) = {}
      BY <1>1, <1>3, <1>4, <3>1 DEF KnowsLines, Joins
    <3>3. \A d \in Calls : Joins(call'[d]) => call'[d].adv # a
      BY <1>9, <1>15, <3>1 DEF Joining, Joins
    <3> QED
      BY <1>17, <3>1, <3>2, <3>3 DEF Gains
  <2> QED
    BY <2>1, <2>2 DEF Fate
<1>19. Lines'
  <2>1. LineFits(l)'
    BY <1>4, <1>6, <1>7, <1>11 DEF LineFits
  <2>2. ASSUME NEW n \in Rows, n # l PROVE LineFits(n)'
    BY <1>10, <1>11, <1>14, <2>2, LineKept DEF Lines
  <2> QED
    BY <2>1, <2>2 DEF Lines
<1>20. CallFits(m)' /\ KnowsLines(m)'
  BY <1>4, <1>6, <1>9 DEF CallFits, KnowsLines, Joins, Sends, Granted
<1>21. Quiet(c, m) /\ Tidy(c, m)
  BY <1>1, <1>4, <1>9 DEF Quiet, SendsOn, Sends, Late, Tidy, Drops
<1>22. ASSUME NEW w, w = waiting'[c] PROVE Expects(m, w)'
  <2>1. \A e \in w : e \in waiting[c] /\ e \in Advances
    BY <1>4, <1>10, <1>22, Waiting
  <2>2. \A e \in waiting[c] : e \in k.todo \/ e = a \/ RowsFor(e) # {}
    BY <1>1, <1>3, <1>4 DEF Expects, Joins
  <2>3. \A e \in w : e \in k.todo \/ RowsFor(e)' # {}
    BY <1>16, <1>17, <2>1, <2>2
  <2> QED
    BY <1>9, <2>3 DEF Expects, Joins
<1> QED
  BY <1>4, <1>13, <1>14, <1>18, <1>19, <1>20, <1>21, <1>22, Steps

(* The end of a call that wrote lines, and perhaps their sheet and advances. *)
LEMMA LastStep ==
  ASSUME SheetAssumption, IInv, KeepsWaiting, NEW c \in Calls, Ends(c), Lasts, Fate, Lines',
         adv' \in [Advances -> {"none", "pending", "applied", "cancelled"}],
         sheet' \in [Sheets -> SheetRows], row' \in [Rows -> LineRows], UNCHANGED remote,
         \A b \in Sheets : sheet'[b].sent = sheet[b].sent, ~Late(call[c]),
         \A a \in Advances : adv'[a] = "cancelled" => adv[a] = "cancelled",
         \A a \in Advances : Drops(call[c]) /\ call[c].adv = a =>
           a \in raced' \/ RowsFor(a)' = {}
  PROVE  IInv'
<1>1. PICK m : m = Idle
  OBVIOUS
<1>2. m \in CallRows /\ m.at = "idle" /\ ~m.closing
  BY <1>1, IdleRow
<1>3. Turn(c, m)
  BY <1>1 DEF Ends, Becomes, Turn
<1>4. Types'
  <2>1. Types
    BY DEF IInv
  <2>2. call' \in [Calls -> CallRows] /\ waiting' \in [Calls -> SUBSET Advances]
    BY <1>2, <1>3, <2>1, TurnTyped, WaitingTyped
  <2> QED
    BY <2>1, <2>2 DEF Types
<1>5. CallFits(m)' /\ KnowsLines(m)'
  BY <1>2, GaveFits
<1>6. Quiet(c, m) /\ Tidy(c, m)
  BY <1>2 DEF Quiet, SendsOn, Sends, Tidy
<1> QED
  BY <1>2, <1>3, <1>4, <1>5, <1>6, Steps

LEMMA NoRowTyped == NoRow \in LineRows /\ NoRow.adv = None
BY DEF NoRow, LineRows, MaybeSheet, MaybeAdv

LEMMA DropLineKeeps ==
  ASSUME SheetAssumption, IInv, NEW c \in Calls, DropLine(c)
  PROVE  IInv'
<1>1. PICK k, l, a : k = call[c] /\ l = k.row /\ a = row[l].adv
  OBVIOUS
<1>2. KnowsLines(k)
  BY <1>1, OfCall
<1>3. /\ KeepsWaiting /\ k.at = "dropLine" /\ Ends(c) /\ row' = [row EXCEPT ![l] = NoRow]
      /\ UNCHANGED <<adv, sheet, remote, doubt>>
      /\ raced' = IF a # None /\ adv[a] # "cancelled" THEN raced \cup {a} ELSE raced
  BY <1>1 DEF DropLine
<1>4. Types /\ Lines
  BY DEF IInv
<1>5. /\ row' \in [Rows -> LineRows]
      /\ \A n \in Rows : row'[n] = IF n = l THEN NoRow ELSE row[n]
  BY <1>3, <1>4, NoRowTyped DEF Types
<1>6. Lasts
  BY <1>3 DEF Lasts
<1>7. \A e \in Advances : RowsFor(e)' = RowsFor(e) \ {l}
  BY <1>5, NoRowTyped, Apart DEF RowsFor
<1>8. Fate
  <2> SUFFICES ASSUME NEW e \in Advances, e \notin raced' PROVE Keeps(e)
    BY DEF Fate
  <2>1. l \in RowsFor(e) => adv[e] = "cancelled"
    BY <1>1, <1>3, Apart DEF RowsFor
  <2>2. \A n \in RowsFor(e)' : row'[n].sheet = row[n].sheet
    BY <1>5, <1>7 DEF RowsFor
  <2> QED
    BY <1>3, <1>7, <2>1, <2>2 DEF Keeps
<1>9. Lines'
  <2> SUFFICES ASSUME NEW n \in Rows PROVE LineFits(n)'
    BY DEF Lines
  <2>1. CASE n = l
    BY <1>5, <2>1 DEF LineFits, NoRow
  <2>2. CASE n # l
    BY <1>4, <1>5, <1>6, <2>2, LineKept DEF Lines
  <2> QED
    BY <2>1, <2>2
<1>10. \A e \in Advances : Drops(call[c]) /\ call[c].adv = e => e \in raced' \/ RowsFor(e)' = {}
  <2> SUFFICES ASSUME NEW e \in Advances, k.adv = e, e \notin raced' PROVE RowsFor(e)' = {}
    BY <1>1
  <2>1. RowsFor(e) \subseteq {l}
    BY <1>1, <1>2, <1>3, Apart DEF KnowsLines
  <2> QED
    BY <1>7, <2>1
<1>11. ~Late(call[c])
  BY <1>1, <1>3 DEF Late
<1> QED
  BY <1>3, <1>4, <1>5, <1>6, <1>8, <1>9, <1>10, <1>11, LastStep DEF Types

LEMMA DropSheetKeeps ==
  ASSUME SheetAssumption, IInv, NEW c \in Calls, DropSheet(c)
  PROVE  IInv'
<1>1. PICK k, b : k = call[c] /\ b = k.sheet
  OBVIOUS
<1>2. CallFits(k)
  BY <1>1, OfCall
<1>3. /\ KeepsWaiting /\ k.at = "dropSheet" /\ Ends(c)
      /\ sheet' = [sheet EXCEPT ![b].state = "gone"]
      /\ row' = [l \in Rows |-> IF row[l].sheet = b THEN NoRow ELSE row[l]]
      /\ raced' = IF sheet[b].state = "draft" THEN raced
                  ELSE raced \cup ({row[l].adv : l \in RowsOf(b)} \ {None})
      /\ UNCHANGED <<adv, remote, doubt>>
  BY <1>1 DEF DropSheet
<1>4. b \in Sheets /\ b \in Uploaded
  BY <1>1, <1>2, <1>3, Apart DEF CallFits
<1>5. Types /\ Lines
  BY DEF IInv
<1>6. /\ sheet' \in [Sheets -> SheetRows]
      /\ \A d \in Sheets : sheet'[d].state = IF d = b THEN "gone" ELSE sheet[d].state
      /\ \A d \in Sheets : sheet'[d].sent = sheet[d].sent
  BY <1>3, <1>4, <1>5, StateSet
<1>7. /\ row' \in [Rows -> LineRows]
      /\ \A l \in Rows : row'[l] = IF row[l].sheet = b THEN NoRow ELSE row[l]
  BY <1>3, <1>5, NoRowTyped DEF Types
<1>8. Lasts
  <2>1. \A d \in Uploaded : d \in Sheets
    BY Apart
  <2> QED
    BY <1>3, <1>6, <2>1 DEF Lasts
<1>9. Fate
  <2> SUFFICES ASSUME NEW a \in Advances, a \notin raced' PROVE Keeps(a)
    BY DEF Fate
  <2>1. a # None
    BY Apart
  <2>2. ASSUME NEW l \in RowsFor(a) PROVE row[l].sheet # b
    <3>1. l \in Rows /\ row[l].adv = a
      BY <2>2 DEF RowsFor
    <3>2. sheet[b].state # "draft" \/ row[l].sheet # b
      BY <1>4, <1>5, <2>1, <3>1 DEF Lines, LineFits, NoRow
    <3> QED
      BY <1>3, <2>1, <3>1, <3>2 DEF RowsOf
  <2>3. RowsFor(a)' = RowsFor(a)
    BY <1>7, <2>1, <2>2, NoRowTyped DEF RowsFor
  <2>4. \A l \in RowsFor(a) : row'[l] = row[l]
    BY <1>7, <2>2 DEF RowsFor
  <2> QED
    BY <2>3, <2>4 DEF Keeps
<1>10. Lines'
  <2> SUFFICES ASSUME NEW l \in Rows PROVE LineFits(l)'
    BY DEF Lines
  <2>1. CASE row'[l] = NoRow
    BY <2>1 DEF LineFits, NoRow
  <2>2. CASE row'[l] = row[l]
    BY <1>5, <1>8, <2>2, LineKept DEF Lines
  <2> QED
    BY <1>7, <2>1, <2>2
<1>11. ~Late(call[c]) /\ ~Drops(call[c])
  BY <1>1, <1>3 DEF Late, Drops
<1> QED
  BY <1>3, <1>5, <1>6, <1>7, <1>8, <1>9, <1>10, <1>11, LastStep DEF Types

LEMMA ApproveKeeps ==
  ASSUME SheetAssumption, IInv, NEW c \in Calls, NEW new, Approve(c, new)
  PROVE  IInv'
<1>1. PICK k, b, p : k = call[c] /\ b = k.sheet /\ p = k.todo
  OBVIOUS
<1>2. CallFits(k)
  BY <1>1, OfCall
<1>3. /\ KeepsWaiting /\ k.at = "approve" /\ Ends(c)
      /\ sheet[b].state = "draft" /\ Selected(b) = p
      /\ new \in [p -> {a \in Advances : adv[a] = "none"}]
      /\ \A l, n \in p : new[l] = new[n] => l = n
      /\ adv' = [a \in Advances |-> IF \E l \in p : new[l] = a THEN "pending" ELSE adv[a]]
      /\ row' = [l \in Rows |-> IF l \in p THEN [sheet |-> b, adv |-> new[l], pick |-> FALSE]
                                ELSE row[l]]
      /\ sheet' = [sheet EXCEPT ![b].state = "locked"]
      /\ UNCHANGED <<remote, raced, doubt>>
  BY <1>1 DEF Approve
<1>4. b \in Sheets /\ b \in Uploaded
  BY <1>1, <1>2, <1>3, Apart DEF CallFits
<1>5. Types /\ Lines
  BY DEF IInv
<1>6. /\ sheet' \in [Sheets -> SheetRows]
      /\ \A d \in Sheets : sheet'[d].state = IF d = b THEN "locked" ELSE sheet[d].state
      /\ \A d \in Sheets : sheet'[d].sent = sheet[d].sent
  BY <1>3, <1>4, <1>5, StateSet
<1>7. \A l \in p : l \in Rows /\ row[l].sheet = b /\ row[l].adv = None
  BY <1>3 DEF Selected, RowsOf
<1>8. \A l \in p : new[l] \in Advances /\ adv[new[l]] = "none" /\ new[l] # None
  BY <1>3, Apart
<1>9. /\ adv' \in [Advances -> {"none", "pending", "applied", "cancelled"}]
      /\ \A a \in Advances : adv'[a] = IF \E l \in p : new[l] = a THEN "pending" ELSE adv[a]
  BY <1>3, <1>5 DEF Types
<1>10. /\ \A l \in p : row'[l].sheet = b /\ row'[l].adv = new[l]
       /\ \A l \in Rows : l \notin p => row'[l] = row[l]
  BY <1>3, <1>7
<1>11. row' \in [Rows -> LineRows]
  <2>1. ASSUME NEW l \in Rows
        PROVE  (IF l \in p THEN [sheet |-> b, adv |-> new[l], pick |-> FALSE]
                ELSE row[l]) \in LineRows
    BY <1>4, <1>5, <1>8 DEF Types, LineRows, MaybeSheet, MaybeAdv
  <2> QED
    BY <1>3, <2>1
<1>12. \A a \in Advances : /\ adv[a] # "none" => adv'[a] = adv[a]
                           /\ adv[a] = "none" => adv'[a] \in {"none", "pending"}
  BY <1>8, <1>9
<1>13. Lasts
  <2>1. \A d \in Uploaded : d \in Sheets
    BY Apart
  <2>2. \A a \in Advances : /\ adv[a] # "none" => adv'[a] # "none"
                            /\ adv[a] = "cancelled" => adv'[a] = "cancelled"
                            /\ adv[a] = "applied" => adv'[a] \in {"applied", "cancelled"}
    BY <1>12
  <2>3. /\ \A d \in Sheets : sheet[d].state # "none" => sheet'[d].state # "none"
        /\ \A d \in Uploaded : sheet'[d].state = "draft" => sheet[d].state \in {"none", "draft"}
    BY <1>6, <2>1
  <2> QED
    BY <1>3, <2>2, <2>3 DEF Lasts
<1>14. \A a \in Advances : RowsFor(a) # {} => adv[a] # "none"
  BY <1>5, Apart DEF Lines, LineFits, RowsFor, NoRow
<1>15. call'[c] = Idle /\ \A d \in Calls : d # c => call'[d] = call[d]
  BY <1>3, <1>5 DEF Ends, Becomes, Types
<1>16. Fate
  <2> SUFFICES ASSUME NEW a \in Advances PROVE Keeps(a) \/ Gains(a)
    BY DEF Fate
  <2>1. ASSUME NEW l \in p, new[l] = a PROVE Gains(a)
    <3>1. RowsFor(a) = {} /\ adv[a] # "cancelled"
      BY <1>8, <1>14, <2>1
    <3>2. RowsFor(a)' = {l}
      <4>1. \A n \in Rows : row'[n].adv = a => n = l
        BY <1>3, <1>10, <2>1, <3>1 DEF RowsFor
      <4>2. l \in Rows /\ row'[l].adv = a
        BY <1>7, <1>10, <2>1
      <4> QED
        BY <4>1, <4>2 DEF RowsFor
    <3>3. ASSUME NEW d \in Calls, Joins(call'[d]) PROVE call'[d].adv # a
      <4>1. d # c
        BY <1>15, <3>3, IdleRow DEF Joins
      <4>2. CallFits(call[d]) /\ Joins(call[d]) /\ call'[d] = call[d]
        BY <1>15, <3>3, <4>1, OfCall
      <4>3. adv[call[d].adv] # "none"
        BY <4>2 DEF CallFits, Granted
      <4> QED
        BY <1>8, <2>1, <4>2, <4>3
    <3> QED
      BY <1>7, <3>1, <3>2, <3>3 DEF Gains
  <2>2. ASSUME \A l \in p : new[l] # a PROVE Keeps(a)
    <3>1. a # None
      BY Apart
    <3>2. RowsFor(a)' = RowsFor(a)
      BY <1>7, <1>10, <2>2, <3>1 DEF RowsFor
    <3>3. \A l \in RowsFor(a) : row'[l] = row[l]
      BY <1>7, <1>10, <3>1 DEF RowsFor
    <3> QED
      BY <3>2, <3>3 DEF Keeps
  <2> QED
    BY <2>1, <2>2
<1>17. Lines'
  <2> SUFFICES ASSUME NEW l \in Rows PROVE LineFits(l)'
    BY DEF Lines
  <2>1. CASE l \in p
    <3>1. adv'[new[l]] = "pending"
      BY <1>8, <1>9, <2>1
    <3> QED
      BY <1>4, <1>6, <1>10, <2>1, <3>1 DEF LineFits
  <2>2. CASE l \notin p
    BY <1>5, <1>10, <1>13, <2>2, LineKept DEF Lines
  <2> QED
    BY <2>1, <2>2
<1>18. ~Late(call[c]) /\ ~Drops(call[c])
  BY <1>1, <1>3 DEF Late, Drops
<1>19. \A a \in Advances : adv'[a] = "cancelled" => adv[a] = "cancelled"
  BY <1>12
<1> QED
  BY <1>3, <1>6, <1>9, <1>11, <1>13, <1>16, <1>17, <1>18, <1>19, LastStep

-----------------------------------------------------------------------------
(* ... and those that no call makes. *)
LEMMA Aside ==
  ASSUME SheetAssumption, IInv, Types', Lines', Lasts, Fate, AllWait',
         UNCHANGED <<call, remote, doubt>>, \A b \in Sheets : sheet'[b].sent = sheet[b].sent,
         \A a \in Advances : adv'[a] = "cancelled" => adv[a] = "cancelled"
  PROVE  IInv'
<1>1. AllCalls'
  <2> SUFFICES ASSUME NEW d \in Calls PROVE CallFits(call[d])' /\ KnowsLines(call[d])'
    BY DEF AllCalls
  <2>1. PICK k : k = call[d] /\ k = call'[d]
    OBVIOUS
  <2>2. k \in CallRows /\ CallFits(k) /\ KnowsLines(k) /\ Types
    BY <2>1, OfCall DEF IInv
  <2>3. CallFits(k)'
    BY <2>2, FitsKept
  <2>4. KnowsLines(k)'
    BY <2>1, <2>2, KnowsKept
  <2> QED
    BY <2>1, <2>3, <2>4
<1>2. ASSUME NEW a \in Advances PROVE OneLine(a)' /\ OneHome(a)' /\ Leaves(a)'
  <2>1. OneLine(a) /\ OneHome(a) /\ Leaves(a)
    BY DEF IInv, AllLines
  <2>2. Claims(a)' = Claims(a) /\ (Dropping(a)' <=> Dropping(a))
    BY DEF Claims, Dropping
  <2>3. OneHome(a)'
    BY <2>1, <2>2, HomeKept DEF Places
  <2>4. Leaves(a)'
    BY <2>1, <2>2, LeavesKept
  <2> QED
    BY <2>1, <2>3, <2>4, OneLineKept
<1>3. AllSent'
  BY DEF IInv, AllSent, SentOnce, Sending
<1> QED
  BY <1>1, <1>2, <1>3 DEF IInv, AllLines

LEMMA SameLines ==
  ASSUME IInv, \A a \in Advances : RowsFor(a)' = RowsFor(a), UNCHANGED <<call, waiting>>
  PROVE  AllWait'
BY OfCall DEF AllWait, Expects, Joins

LEMMA NewSheetKeeps ==
  ASSUME SheetAssumption, IInv, NEW b \in Uploaded, NewSheet(b)
  PROVE  IInv'
<1>1. /\ sheet' = [sheet EXCEPT ![b].state = "draft"] /\ sheet[b] = NoSheet
      /\ UNCHANGED <<adv, row, remote, call, raced, doubt, waiting>>
  BY DEF NewSheet
<1>2. Types /\ Lines /\ b \in Sheets
  BY Apart DEF IInv
<1>3. /\ sheet' \in [Sheets -> SheetRows]
      /\ \A d \in Sheets : sheet'[d].state = IF d = b THEN "draft" ELSE sheet[d].state
      /\ \A d \in Sheets : sheet'[d].sent = sheet[d].sent
  BY <1>1, <1>2, StateSet
<1>4. Lasts /\ Fate
  <2>1. \A d \in Uploaded : d \in Sheets
    BY Apart
  <2>2. sheet[b].state = "none"
    BY <1>1 DEF NoSheet
  <2> QED
    BY <1>1, <1>3, <2>1, <2>2, Placed
<1>5. Types'
  BY <1>1, <1>2, <1>3 DEF Types
<1>6. Lines'
  BY <1>1, <1>2, <1>4, LinesKept
<1>7. AllWait'
  BY <1>1, SameRows, SameLines
<1> QED
  BY <1>1, <1>3, <1>4, <1>5, <1>6, <1>7, Aside

LEMMA AddRowKeeps ==
  ASSUME SheetAssumption, IInv, NEW b \in Uploaded, NEW l \in Rows, AddRow(b, l)
  PROVE  IInv'
<1>1. /\ row' = [row EXCEPT ![l] = [sheet |-> b, adv |-> None, pick |-> TRUE]]
      /\ row[l] = NoRow /\ sheet[b].state = "draft"
      /\ UNCHANGED <<adv, sheet, remote, call, raced, doubt, waiting>>
  BY DEF AddRow, NewId, Free
<1>2. Types /\ Lines /\ b \in Sheets
  BY Apart DEF IInv
<1>3. /\ row' \in [Rows -> LineRows]
      /\ row'[l].sheet = b /\ row'[l].adv = None
      /\ \A n \in Rows \ {l} : row'[n] = row[n]
  <2>1. PICK r : r = [sheet |-> b, adv |-> None, pick |-> TRUE]
    OBVIOUS
  <2>2. r \in LineRows /\ r.sheet = b /\ r.adv = None
    BY <1>2, <2>1 DEF LineRows, MaybeSheet, MaybeAdv
  <2>3. row' = [row EXCEPT ![l] = r]
    BY <1>1, <2>1
  <2> QED
    BY <1>2, <2>2, <2>3 DEF Types
<1>4. ASSUME NEW a \in Advances PROVE RowsFor(a)' = RowsFor(a) /\ Keeps(a)
  <2>1. l \notin RowsFor(a) /\ l \notin RowsFor(a)'
    BY <1>1, <1>3, Apart DEF RowsFor, NoRow
  <2>2. RowsFor(a)' = RowsFor(a)
    BY <1>3, <2>1 DEF RowsFor
  <2>3. \A n \in RowsFor(a) : row'[n] = row[n]
    BY <1>3, <2>1 DEF RowsFor
  <2> QED
    BY <2>2, <2>3 DEF Keeps
<1>5. Lasts /\ Fate
  BY <1>1, <1>4 DEF Lasts, Fate
<1>6. Types'
  BY <1>1, <1>2, <1>3 DEF Types
<1>7. Lines'
  <2>1. LineFits(l)'
    BY <1>1, <1>2, <1>3 DEF LineFits
  <2>2. ASSUME NEW n \in Rows, n # l PROVE LineFits(n)'
    BY <1>2, <1>3, <1>5, <2>2, LineKept DEF Lines
  <2> QED
    BY <2>1, <2>2 DEF Lines
<1>8. AllWait'
  BY <1>1, <1>4, SameLines
<1> QED
  BY <1>1, <1>5, <1>6, <1>7, <1>8, Aside

LEMMA ApplyKeeps ==
  ASSUME SheetAssumption, IInv, NEW a \in Advances, Apply(a)
  PROVE  IInv'
<1>1. /\ adv[a] = "pending" /\ adv' = [adv EXCEPT ![a] = "applied"]
      /\ UNCHANGED <<sheet, row, remote, call, raced, doubt>> /\ KeepsWaiting
  BY DEF Apply
<1>2. Types /\ Lines
  BY DEF IInv
<1>3. /\ adv' \in [Advances -> {"none", "pending", "applied", "cancelled"}]
      /\ \A e \in Advances : adv'[e] = IF e = a THEN "applied" ELSE adv[e]
  BY <1>1, <1>2, AdvSet
<1>4. Lasts /\ Fate
  BY <1>1, <1>3, Placed
<1>5. Types'
  BY <1>1, <1>2, <1>3, WaitingTyped DEF Types
<1>6. Lines'
  BY <1>1, <1>2, <1>4, LinesKept
<1>7. AllWait'
  <2> SUFFICES ASSUME NEW d \in Calls PROVE Expects(call[d], waiting[d])'
    BY DEF AllWait
  <2>1. PICK k, w : k = call[d] /\ k = call'[d] /\ w = waiting'[d]
    BY <1>1
  <2>2. Expects(k, waiting[d])
    BY <2>1, OfCall
  <2>3. \A e \in w : /\ e \in waiting[d] /\ e \in Advances
                     /\ adv'[e] = "pending" /\ e \notin raced'
    BY <1>1, <1>2, <2>1, Waiting
  <2>4. Expects(k, w)'
    BY <1>4, <2>2, <2>3, ExpectsKept
  <2> QED
    BY <2>1, <2>4
<1> QED
  BY <1>1, <1>3, <1>4, <1>5, <1>6, <1>7, Aside

-----------------------------------------------------------------------------
(* The invariant. *)
LEMMA Begun ==
  ASSUME SheetAssumption, Init
  PROVE  IInv
<1>1. /\ \A a \in Advances : adv[a] = "none"
      /\ \A l \in Rows : row[l] = NoRow
      /\ \A i \in Records : remote[i] = NoRecord
      /\ \A c \in Calls : call[c] = Idle /\ call[c].at = "idle"
  BY IdleRow DEF Init
<1>2. Types
  <2>1. NoRecord \in RecordRows
    BY DEF NoRecord, RecordRows, MaybeSheet
  <2>2. NoSheet \in SheetRows
    BY DEF NoSheet, SheetRows, MaybeRecord
  <2> QED
    BY <2>1, <2>2, NoRowTyped, IdleRow DEF Init, Types
<1>3. Lines
  BY <1>1 DEF Lines, LineFits
<1>4. AllCalls
  BY <1>1 DEF AllCalls, CallFits, KnowsLines, Joins, Sends
<1>5. AllWait
  BY <1>1 DEF AllWait, Expects, Joins
<1>6. ASSUME NEW a \in Advances PROVE OneLine(a) /\ OneHome(a) /\ Leaves(a)
  <2>1. RowsFor(a) = {}
    BY <1>1, Apart DEF RowsFor, NoRow
  <2>2. Claims(a) = {}
    BY <1>1 DEF Claims, NoRecord
  <2> QED
    BY <2>1, <2>2 DEF OneLine, OneHome, Places, Leaves
<1>7. ASSUME NEW b \in Sheets PROVE SentOnce(b)
  <2>1. Sending(b) = {}
    BY <1>1 DEF Sending
  <2>2. \A i \in Records : remote[i].sheet # b
    BY <1>1, Apart DEF NoRecord
  <2> QED
    BY <2>1, <2>2 DEF SentOnce
<1> QED
  BY <1>2, <1>3, <1>4, <1>5, <1>6, <1>7 DEF IInv, AllLines, AllSent

LEMMA StepKeeps ==
  ASSUME SheetAssumption, IInv, [Next]_vars
  PROVE  IInv'
<1>1. ASSUME NEW c \in Calls, BatchStep(c) PROVE IInv'
  <2>1. ASSUME NEW a \in Advances, Grant(c, a) \/ Attach(c, a) PROVE IInv'
    BY <2>1, GrantKeeps, AttachKeeps
  <2>2. ASSUME NEW closing \in BOOLEAN, FindOrphans(c, closing) PROVE IInv'
    BY <2>2, FindOrphansKeeps
  <2>3. ASSUME FindBatch(c) \/ Attached(c) \/ FindOpen(c) \/ LockBatch(c) PROVE IInv'
    BY <2>3, FindBatchKeeps, AttachedKeeps, FindOpenKeeps, LockBatchKeeps
  <2>4. ASSUME NEW b \in Manual, NewBatch(c, b) PROVE IInv'
    BY <2>4, NewBatchKeeps
  <2>5. ASSUME NEW l \in Rows, AddLine(c, l) PROVE IInv'
    BY <2>5, AddLineKeeps
  <2> QED
    BY <1>1, <2>1, <2>2, <2>3, <2>4, <2>5 DEF BatchStep
<1>2. ASSUME NEW c \in Calls, SendStep(c) PROVE IInv'
  <2>1. ASSUME NEW b \in Sheets, StartSend(c, b) PROVE IInv'
    BY <2>1, StartSendKeeps
  <2>2. ASSUME LoadSheet(c) \/ Export(c) \/ Persist(c) \/ Reopen(c) PROVE IInv'
    BY <2>2, LoadSheetKeeps, ExportKeeps, PersistKeeps, ReopenKeeps
  <2>3. ASSUME NEW i \in Records, CreateRecord(c, i) PROVE IInv'
    BY <2>3, CreateRecordKeeps
  <2>4. ASSUME NEW done \in BOOLEAN, PostEntry(c, done) PROVE IInv'
    BY <2>4, PostEntryKeeps
  <2> QED
    BY <1>2, <2>1, <2>2, <2>3, <2>4 DEF SendStep
<1>3. ASSUME NEW c \in Calls, EditStep(c) PROVE IInv'
  <2>1. ASSUME NEW a \in Advances, StartCancel(c, a) PROVE IInv'
    BY <2>1, StartCancelKeeps
  <2>2. ASSUME CancelAdvance(c) \/ FindLine(c) \/ StrikeAdvance(c) \/ DropLine(c) PROVE IInv'
    BY <2>2, CancelAdvanceKeeps, FindLineKeeps, StrikeAdvanceKeeps, DropLineKeeps
  <2>3. ASSUME NEW l \in Rows, StartDelete(c, l) PROVE IInv'
    BY <2>3, StartDeleteKeeps
  <2>4. ASSUME DropSheet(c) \/ Fail(c) PROVE IInv'
    BY <2>4, DropSheetKeeps, FailKeeps
  <2>5. ASSUME NEW b \in Uploaded, StartApprove(c, b) \/ StartDrop(c, b) PROVE IInv'
    BY <2>5, StartApproveKeeps, StartDropKeeps
  <2>6. ASSUME NEW new, Approve(c, new) PROVE IInv'
    BY <2>6, ApproveKeeps
  <2> QED
    BY <1>3, <2>1, <2>2, <2>3, <2>4, <2>5, <2>6 DEF EditStep
<1>4. ASSUME NEW b \in Uploaded, NewSheet(b) \/ \E l \in Rows : AddRow(b, l) PROVE IInv'
  BY <1>4, NewSheetKeeps, AddRowKeeps
<1>5. ASSUME NEW a \in Advances, Apply(a) PROVE IInv'
  BY <1>5, ApplyKeeps
<1>6. ASSUME UNCHANGED vars PROVE IInv'
  <2>1. Lasts /\ Fate
    BY <1>6, Calm DEF vars, Still
  <2>2. AllWait'
    BY <1>6, SameRows, SameLines DEF vars
  <2>3. Types' /\ Lines'
    BY <1>6 DEF vars, IInv, Types, Lines, LineFits
  <2> QED
    BY <1>6, <2>1, <2>2, <2>3, Aside DEF vars
<1> QED
  BY <1>1, <1>2, <1>3, <1>4, <1>5, <1>6 DEF Next

(* In every reachable state the model is well typed, lines lie on sheets   *)
(* that exist, an advance that no late write touched has one line and      *)
(* lies on one sheet, and a sheet that is not in doubt is sent by one call *)
(* and has one record.                                                     *)
THEOREM SheetsInvariant == Spec => []IInv
<1>1. Init => IInv
  BY SheetAssumption, Begun
<1>2. IInv /\ [Next]_vars => IInv'
  BY SheetAssumption, StepKeeps
<1> QED
  BY <1>1, <1>2, PTL DEF Spec

LEMMA TwoOf ==
  ASSUME NEW S, Cardinality(S) > 1
  PROVE  \E i, j \in S : i # j
<1> SUFFICES ASSUME \A i, j \in S : i = j PROVE FALSE
  OBVIOUS
<1>1. CASE S = {}
  BY <1>1, FS_EmptySet
<1>2. CASE S # {}
  <2>1. PICK i : S = {i}
    BY <1>2
  <2>2. Cardinality(S) = 1
    BY <2>1, FS_Singleton
  <2> QED
    BY <2>2
<1> QED
  BY <1>1, <1>2

(* Odoo pays an advance twice only after a late write on its line, a lost  *)
(* answer, a send that could not store the id, or two sends at once:       *)
(* reopening and repeating a send (odooLoanAccounts.service.ts:769, :818)  *)
(* does not pay twice by itself, whatever the number of calls and sheets.  *)
THEOREM PaidOnceHolds == Spec => []PaidOnce
<1>1. ASSUME SheetAssumption, IInv PROVE PaidOnce
  <2> SUFFICES ASSUME NEW a \in Advances,
                      Cardinality({i \in Records : a \in remote[i].pays}) > 1, a \notin raced
               PROVE  \E i \in {i \in Records : a \in remote[i].pays} : remote[i].sheet \in doubt
    BY DEF PaidOnce
  <2>1. PICK i, j \in Records : i # j /\ a \in remote[i].pays /\ a \in remote[j].pays
    <3>1. PICK S : S = {i \in Records : a \in remote[i].pays}
      OBVIOUS
    <3>2. \E i, j \in S : i # j
      BY <3>1, TwoOf
    <3> QED
      BY <3>1, <3>2
  <2>2. remote[i].sheet = remote[j].sheet
    <3>1. \A b, d \in Claims(a) : b = d
      BY <1>1 DEF IInv, AllLines, OneHome, Places
    <3> QED
      BY <2>1, <3>1 DEF Claims
  <2>3. remote[i].sheet \in Sheets
    BY <1>1, <2>1 DEF IInv, Types, RecordRows, MaybeSheet
  <2>4. remote[i].sheet \in doubt
    BY <1>1, <2>1, <2>2, <2>3 DEF IInv, AllSent, SentOnce
  <2> QED
    BY <2>1, <2>4
<1> QED
  BY <1>1, SheetAssumption, SheetsInvariant, PTL

(* A cancelled advance leaves the open batch: while its line is there, the *)
(* call that cancelled it is about to drop it (cancelShortAdvance and      *)
(* deleteAdvanceLoanImportLine).                                           *)
THEOREM CancelledLeaves == Spec => []CancelledLeavesBatch
<1>1. ASSUME SheetAssumption, IInv PROVE CancelledLeavesBatch
  <2> SUFFICES ASSUME NEW l \in Rows, row[l].adv # None, adv[row[l].adv] = "cancelled"
               PROVE  row[l].adv \in raced \/ Dropping(row[l].adv)
    BY DEF CancelledLeavesBatch
  <2>1. PICK a \in Advances : a = row[l].adv
    BY <1>1 DEF IInv, Types, LineRows, MaybeAdv
  <2>2. l \in RowsFor(a)
    BY <2>1 DEF RowsFor
  <2> QED
    BY <1>1, <2>1, <2>2 DEF IInv, AllLines, Leaves
<1> QED
  BY <1>1, SheetAssumption, SheetsInvariant, PTL

(* When a manual batch is about to be locked, every advance that waited    *)
(* without a line has one (lockAndSendOpenManualBatchToOdoo).              *)
THEOREM NoneLeftBehind == Spec => []NothingLeftBehind
<1>1. IInv => NothingLeftBehind
  BY DEF IInv, AllWait, Expects, NothingLeftBehind
<1> QED
  BY <1>1, SheetsInvariant, PTL

(* What a step makes of a line that has its advance. *)
LineStays(l) == row[l].adv # None => row'[l] = row[l] \/ row'[l] = NoRow

LEMMA LinesStay ==
  ASSUME SheetAssumption, IInv, [Next]_vars, NEW l \in Rows
  PROVE  LineStays(l)
<1>1. row \in [Rows -> LineRows]
  BY DEF IInv, Types
<1>2. ASSUME NEW c \in Calls, BatchStep(c) PROVE LineStays(l)
  <2>1. ASSUME NEW n \in Rows, AddLine(c, n) PROVE LineStays(l)
    <3>1. row[n].adv = None
      BY <2>1 DEF AddLine, NewId, Free, NoRow
    <3>2. l # n => row'[l] = row[l]
      BY <1>1, <2>1 DEF AddLine
    <3> QED
      BY <3>1, <3>2 DEF LineStays
  <2>2. ASSUME UNCHANGED row PROVE LineStays(l)
    BY <2>2 DEF LineStays
  <2> QED
    BY <1>2, <2>1, <2>2 DEF BatchStep, Grant, Attach, FindOrphans, FindBatch, Attached,
                            FindOpen, LockBatch, NewBatch
<1>3. ASSUME NEW c \in Calls, SendStep(c) PROVE LineStays(l)
  <2>1. UNCHANGED row
    BY <1>3 DEF SendStep, StartSend, LoadSheet, Export, Persist, Reopen, CreateRecord, PostEntry
  <2> QED
    BY <2>1 DEF LineStays
<1>4. ASSUME NEW c \in Calls, EditStep(c) PROVE LineStays(l)
  <2>1. ASSUME DropLine(c) PROVE LineStays(l)
    BY <1>1, <2>1 DEF DropLine, LineStays
  <2>2. ASSUME DropSheet(c) PROVE LineStays(l)
    BY <1>1, <2>2 DEF DropSheet, LineStays
  <2>3. ASSUME NEW new, Approve(c, new) PROVE LineStays(l)
    <3>1. l \in call[c].todo => row[l].adv = None
      BY <2>3 DEF Approve, Selected
    <3>2. l \notin call[c].todo => row'[l] = row[l]
      BY <2>3 DEF Approve
    <3> QED
      BY <3>1, <3>2 DEF LineStays
  <2>4. ASSUME UNCHANGED row PROVE LineStays(l)
    BY <2>4 DEF LineStays
  <2> QED
    BY <1>4, <2>1, <2>2, <2>3, <2>4 DEF EditStep, StartCancel, CancelAdvance, FindLine,
       StrikeAdvance, StartDelete, StartApprove, StartDrop, Fail
<1>5. ASSUME NEW b \in Uploaded, NewSheet(b) PROVE LineStays(l)
  BY <1>5 DEF NewSheet, LineStays
<1>6. ASSUME NEW b \in Uploaded, NEW n \in Rows, AddRow(b, n) PROVE LineStays(l)
  <2>1. row[n].adv = None
    BY <1>6 DEF AddRow, NewId, Free, NoRow
  <2>2. l # n => row'[l] = row[l]
    BY <1>1, <1>6 DEF AddRow
  <2> QED
    BY <2>1, <2>2 DEF LineStays
<1>7. ASSUME NEW a \in Advances, Apply(a) PROVE LineStays(l)
  BY <1>7 DEF Apply, LineStays
<1>8. ASSUME UNCHANGED vars PROVE LineStays(l)
  BY <1>8 DEF vars, LineStays
<1> QED
  BY <1>2, <1>3, <1>4, <1>5, <1>6, <1>7, <1>8 DEF Next

(* An approved sheet keeps the advance of each of its lines: approving it  *)
(* a second time grants nothing more (approveAdvanceLoanImport).           *)
THEOREM ApprovedStays == Spec => ApprovedOnce
<1>1. ASSUME SheetAssumption, IInv, [Next]_vars
      PROVE  [\A b \in Uploaded : sheet[b].state = "locked" =>
                \A l \in Rows : row[l].sheet = b /\ row[l].adv # None
                  => row'[l] = row[l] \/ row'[l] = NoRow]_vars
  BY <1>1, LinesStay DEF LineStays
<1> QED
  BY <1>1, SheetAssumption, SheetsInvariant, PTL DEF Spec, ApprovedOnce

=============================================================================
