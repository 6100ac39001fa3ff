-------------------------- MODULE PayrollRaceProofs --------------------------
(***************************************************************************)
(* What holds of overlapping payroll handlers for any number of sheets,    *)
(* employees, advances and calls.                                          *)
(***************************************************************************)
EXTENDS PayrollRace, FiniteSetTheorems, TLAPS

MaybeSheet == Payrolls \cup {None}
MaybeEmp == Employees \cup {None}

(* What a call works on at each place. *)
LineAts == {"takeShorts", "readLongs", "findPay", "pay", "mark", "writeLine"}
OffAts == {"dropLine", "readOff", "writeOff", "addLine"}
SheetAts == {"revert", "freeShorts", "zero", "freePays", "rerun", "dropLines",
             "makeLines", "check", "readLines", "nextLine"}
ConfirmAts == {"readOwed", "deduct", "setConfirmed"}
Ats == {"idle", "cancel"} \cup LineAts \cup OffAts \cup SheetAts \cup ConfirmAts

Doings == {"none", "calc", "calcLink", "link", "delete", "single", "confirm", "cancel"}

CallRows ==
  [at : Ats, does : Doings, sheet : MaybeSheet, emp : MaybeEmp,
   todo : SUBSET Employees, sees : SUBSET (Shorts \cup Longs),
   due : SUBSET Longs, left : [Longs -> Nat], count : Nat,
   lost : SUBSET Employees, late : BOOLEAN]

ShortRows == [state : {"pending", "applied", "cancelled"}, sheet : MaybeSheet,
              line : BOOLEAN, deducted : BOOLEAN]

CallTypes == call \in [Calls -> CallRows]

CallPlace(k) ==
  /\ k.at \notin {"idle", "cancel"} => k.sheet \in Payrolls
  /\ k.at \in LineAts \cup OffAts \cup {"cancel"} => k.emp \in Employees

Types ==
  /\ confirmed \subseteq Payrolls
  /\ on \in [Payrolls -> SUBSET Employees]
  /\ off \in [Payrolls -> SUBSET Employees]
  /\ removed \in [Payrolls -> SUBSET Employees]
  /\ short \in [Shorts -> ShortRows]
  /\ total \in [Payrolls -> [Employees -> [short : SUBSET Shorts, long : Nat]]]
  /\ CallTypes
  /\ \A c \in Calls : CallPlace(call[c])

-----------------------------------------------------------------------------
(* The exclusion list: what a call has read of it is still true, and who   *)
(* is about to be put on or taken off is not there.                        *)
KnowsOff(k) ==
  k.sheet \in Payrolls \ tangled =>
    /\ k.at = "writeOff" => k.todo = off[k.sheet]
    /\ k.at = "makeLines" => k.todo \cap removed[k.sheet] = {}
    /\ k.at \in {"readOff", "writeOff"} /\ k.does = "delete" =>
         k.emp \notin on[k.sheet]
    /\ k.at = "addLine" => k.emp \notin removed[k.sheet]

OffInv == RemovedStayAway /\ \A c \in Calls : KnowsOff(call[c])

-----------------------------------------------------------------------------
(* A call that no confirmation has overtaken works on a sheet that is not  *)
(* confirmed, and the advances it will write are not deducted.             *)
InTime(k) ==
  ~k.late =>
    /\ k.at \in SheetAts \cup LineAts \cup OffAts => k.sheet \notin confirmed
    /\ k.at \in {"takeShorts", "deduct", "cancel"} =>
         \A s \in k.sees \cap Shorts : ~short[s].deducted

PendingIsOwed == \A s \in Shorts : short[s].deducted => short[s].state # "pending"

TimeInv == PendingIsOwed /\ \A c \in Calls : InTime(call[c])

-----------------------------------------------------------------------------
(* What a line counts belongs to its employee, who is on the sheet. *)
Held(s, p) == short[s].sheet = p /\ short[s].state = "applied"
Zeroing(p) == \E c \in Calls : call[c].sheet = p /\ call[c].at = "zero"
Excused(e) == e \in mixed \cup cut

TotalsFit ==
  \A p \in Payrolls, e \in Employees : \A s \in total[p][e].short :
    e \in on[p] /\ Owner[s] = e

(* The rows a call has seen are those of its employee, who has his line    *)
(* unless the call will find it gone.                                      *)
SeesOwn(k) ==
  /\ k.at \in LineAts \cup {"cancel"} =>
       /\ k.at \notin {"pay", "mark"} => k.sees \subseteq Shorts
       /\ \A s \in k.sees \cap Shorts : Owner[s] = k.emp
  /\ k.at \in LineAts => k.emp \in on[k.sheet] \cup k.lost
  /\ k.at \in LineAts \cup {"nextLine"} => k.todo \subseteq on[k.sheet] \cup k.lost

(* What a call is about to take or to cancel is counted nowhere, and what  *)
(* it has taken is held by its sheet.                                      *)
SeesFree(k) ==
  /\ k.at \in {"takeShorts", "cancel"} =>
       \A s \in k.sees \cap Shorts : \A p \in Payrolls, e \in Employees :
         s \in total[p][e].short => Excused(e) \/ Zeroing(p)
  /\ k.at \in LineAts \ {"takeShorts"} =>
       \A s \in k.sees \cap Shorts : Held(s, k.sheet) \/ k.emp \in mixed

CountInv ==
  /\ TotalsFit
  /\ CountedIsHeld
  /\ \A c \in Calls : SeesOwn(call[c]) /\ SeesFree(call[c])

RaceInv == Types /\ OffInv /\ TimeInv /\ CountInv

-----------------------------------------------------------------------------
(* A call that is about to pay is right about the balance and about its    *)
(* own sheet, unless another call handled the rows of the employee.        *)
PayAts == {"findPay", "pay", "mark"}

RightPay(k, a) ==
  /\ a \notin k.sees \/ k.at = "pay" => k.left[a] = Left(a)
  /\ a \in k.sees /\ k.at = "pay" => k.left[a] > 0 /\ On(a, k.sheet) = {}
  /\ a \in k.sees /\ k.at = "mark" /\ k.left[a] = 1 => Paid(a) >= Instalments

KnowsPays(k) ==
  k.at \in PayAts => \A a \in k.due :
    Owner[a] = k.emp /\ (k.emp \in mixed \/ RightPay(k, a))

PaysFinite == \A a \in Longs : IsFiniteSet(pays[a])

PayInv ==
  /\ PaysFinite /\ PaidOnce /\ DoneIsPaid
  /\ \A c \in Calls : KnowsPays(call[c])

IInv == RaceInv /\ PayInv

(* What the invariant asks of one call. *)
Fits(k) ==
  /\ k \in CallRows /\ CallPlace(k) /\ KnowsOff(k) /\ InTime(k)
  /\ SeesOwn(k) /\ SeesFree(k)

-----------------------------------------------------------------------------
(* Steps of a call.  One moves only the call itself; Others says what any  *)
(* step leaves of the other calls.                                         *)
One(c, m) == call' = [call EXCEPT ![c] = m]

Others(c) ==
  \A d \in Calls \ {c} :
    /\ call'[d] \in CallRows
    /\ call'[d].at = call[d].at /\ call'[d].does = call[d].does
    /\ call'[d].sheet = call[d].sheet /\ call'[d].emp = call[d].emp
    /\ call'[d].todo = call[d].todo /\ call'[d].sees = call[d].sees
    /\ call'[d].due = call[d].due /\ call'[d].left = call[d].left
    /\ call[d].lost \subseteq call'[d].lost
    /\ call[d].late => call'[d].late

SameTask(m, k) ==
  /\ m.does = k.does /\ m.sheet = k.sheet /\ m.emp = k.emp
  /\ m.lost = k.lost /\ m.late = k.late

LEMMA OneMoves ==
  ASSUME CallTypes, NEW c \in Calls, NEW m, m \in CallRows, One(c, m)
  PROVE  /\ CallTypes' /\ Others(c) /\ call'[c] = m
         /\ \A d \in Calls \ {c} : call'[d] = call[d]
<1>1. call'[c] = m /\ \A d \in Calls \ {c} : call'[d] = call[d]
  BY DEF One, CallTypes
<1>2. call' = [d \in Calls |-> call'[d]]
  BY DEF One, CallTypes
<1>3. \A d \in Calls : call'[d] \in CallRows
  BY <1>1 DEF CallTypes
<1>4. CallTypes'
  BY <1>2, <1>3 DEF CallTypes
<1>5. Others(c)
  BY <1>1, <1>3 DEF Others
<1> QED BY <1>1, <1>4, <1>5

LEMMA IdleRow == Idle \in CallRows /\ Idle.at = "idle" /\ Fits(Idle)
<1>1. Idle \in CallRows
  BY DEF Idle, CallRows, Ats, Doings, MaybeSheet, MaybeEmp
<1>2. Idle \in CallRows
  BY <1>1
<1>3. Idle.at = "idle"
  BY DEF Idle
<1> QED BY <1>2, <1>3 DEF Fits, CallPlace, KnowsOff, InTime, SeesOwn, SeesFree,
             SheetAts, LineAts, OffAts

-----------------------------------------------------------------------------
(* Steps that write nothing but the call, and rows no invariant speaks of. *)
Quiet ==
  /\ UNCHANGED <<on, off, short, total, tangled, removed>>
  /\ confirmed' \subseteq confirmed /\ mixed \subseteq mixed' /\ cut \subseteq cut'

LEMMA QuietStep ==
  ASSUME RaceInv, NEW c \in Calls, Quiet, call[c].at # "zero",
         NEW m, One(c, m), Fits(m)
  PROVE  RaceInv' /\ Others(c)
<1>1. /\ CallTypes' /\ Others(c) /\ call'[c] = m
      /\ \A d \in Calls \ {c} : call'[d] = call[d]
  BY OneMoves DEF RaceInv, Types, Fits
<1>2. \A d \in Calls : Fits(call'[d])
  BY <1>1 DEF RaceInv, Types, CallTypes, OffInv, TimeInv, CountInv, Fits
<1>3. Types'
  <2>1. \A d \in Calls : CallPlace(call'[d])
    BY <1>2 DEF Fits
  <2> QED BY <1>1, <2>1 DEF RaceInv, Types, CallPlace, Quiet
<1>4. OffInv'
  <2>1. RemovedStayAway'
    BY DEF RaceInv, OffInv, RemovedStayAway, Quiet
  <2>2. \A d \in Calls : KnowsOff(call[d])'
    BY <1>2 DEF Fits, KnowsOff, Quiet
  <2> QED BY <2>1, <2>2 DEF OffInv
<1>5. TimeInv'
  <2>1. PendingIsOwed'
    BY DEF RaceInv, TimeInv, PendingIsOwed, Quiet
  <2>2. \A d \in Calls : InTime(call[d])'
    BY <1>2 DEF Fits, InTime, Quiet
  <2> QED BY <2>1, <2>2 DEF TimeInv
<1>6. CountInv'
  <2>1. TotalsFit'
    BY DEF RaceInv, CountInv, TotalsFit, Quiet
  <2>2. \A p \in Payrolls : Zeroing(p) => Zeroing(p)'
    BY <1>1 DEF Zeroing
  <2>3. CountedIsHeld'
    BY <2>2 DEF RaceInv, CountInv, CountedIsHeld, Quiet, Zeroing
  <2>4. \A d \in Calls : SeesOwn(call[d])'
    BY <1>2 DEF Fits, SeesOwn, Quiet
  <2>5. \A d \in Calls : SeesFree(call[d])'
    BY <1>2, <2>2 DEF Fits, SeesFree, Held, Excused, Quiet
  <2> QED BY <2>1, <2>3, <2>4, <2>5 DEF CountInv
<1> QED BY <1>1, <1>3, <1>4, <1>5, <1>6 DEF RaceInv

LEMMA FitsNow ==
  ASSUME RaceInv, NEW c \in Calls
  PROVE  Fits(call[c])
<1> QED BY DEF RaceInv, Types, CallTypes, OffInv, TimeInv, CountInv, Fits

LEMMA PlainFits ==
  ASSUME NEW m, m \in CallRows, m.sheet \in Payrolls, ~m.late => m.sheet \notin confirmed,
         m.at \in SheetAts \ {"makeLines", "nextLine"}
  PROVE  Fits(m)
<1>1. m.at \notin LineAts \cup OffAts \cup {"nextLine", "cancel", "deduct", "makeLines"}
  BY DEF SheetAts, LineAts, OffAts
<1> QED BY <1>1 DEF Fits, CallPlace, KnowsOff, InTime, SeesOwn, SeesFree, LineAts, OffAts

LEMMA GoesMoves ==
  ASSUME CallTypes, NEW c \in Calls, NEW a \in Ats, Goes(c, a)
  PROVE  \E m : /\ One(c, m) /\ m \in CallRows /\ m.at = a /\ SameTask(m, call[c])
                /\ m.todo = call[c].todo /\ m.sees = call[c].sees /\ m.due = call[c].due
<1> DEFINE k == call[c]
           m == [k EXCEPT !.at = a]
<1>0. k \in CallRows
  BY DEF CallTypes
<1>1. m \in CallRows
  BY <1>0 DEF CallRows
<1>2. m \in CallRows
  BY <1>1
<1>3. /\ m.at = a /\ SameTask(m, k) /\ m.todo = k.todo /\ m.sees = k.sees /\ m.due = k.due
  BY <1>0 DEF CallRows, SameTask
<1>4. One(c, m)
  BY DEF Goes, One
<1> HIDE DEF m
<1> QED BY <1>2, <1>3, <1>4

LEMMA EndsMoves ==
  ASSUME NEW c \in Calls, Ends(c)
  PROVE  One(c, Idle) /\ Fits(Idle)
<1> QED BY IdleRow DEF Ends, One

-----------------------------------------------------------------------------
LEMMA StartStep ==
  ASSUME RaceInv, NEW c \in Calls, NEW p \in Payrolls, NEW does \in {"link", "calc"},
         Start(c, p, does)
  PROVE  RaceInv' /\ Others(c)
<1> DEFINE m == [Idle EXCEPT !.at = "revert", !.does = does, !.sheet = p]
<1>1. m \in CallRows
  BY DEF Idle, CallRows, Ats, SheetAts, Doings, MaybeSheet, MaybeEmp
<1>2. /\ m.sheet = p /\ m.at = "revert" /\ ~m.late
  BY DEF Idle
<1>3. One(c, m) /\ Quiet /\ call[c].at # "zero" /\ p \notin confirmed
  BY IdleRow DEF Start, One, Quiet, rows
<1> HIDE DEF m
<1>4. Fits(m)
  <2>1. m.at \in SheetAts \ {"makeLines", "nextLine"}
    BY <1>2 DEF SheetAts
  <2> QED BY <1>1, <1>2, <1>3, <2>1, PlainFits
<1> QED BY <1>3, <1>4, QuietStep

LEMMA AfterRevertAt ==
  ASSUME NEW c \in Calls
  PROVE  AfterRevert(c) \in {"dropLines", "readLines"}
<1> QED BY DEF AfterRevert

(* A call goes on with its sheet, and nothing else changes. *)
LEMMA PlainStep ==
  ASSUME RaceInv, NEW c \in Calls, Quiet, call[c].at \in SheetAts \ {"zero"},
         NEW m, One(c, m), m \in CallRows, SameTask(m, call[c]),
         m.at \in SheetAts \ {"makeLines", "nextLine"}
  PROVE  RaceInv' /\ Others(c)
<1>1. Fits(call[c])
  BY FitsNow
<1>2. m.sheet \in Payrolls /\ (~m.late => m.sheet \notin confirmed)
  BY <1>1 DEF Fits, CallPlace, InTime, SameTask, SheetAts
<1>3. Fits(m)
  BY <1>2, PlainFits
<1> QED BY <1>3, QuietStep

LEMMA RevertStep ==
  ASSUME RaceInv, NEW c \in Calls, Revert(c)
  PROVE  RaceInv' /\ Others(c)
<1>1. PICK a \in {"freeShorts", "dropLines", "readLines"} : Goes(c, a)
  BY AfterRevertAt DEF Revert
<1>2. a \in Ats /\ a \in SheetAts \ {"makeLines", "nextLine"}
  BY DEF Ats, SheetAts
<1>3. Quiet /\ call[c].at \in SheetAts \ {"zero"}
  BY DEF Revert, Quiet, rows, SheetAts
<1>4. PICK m : One(c, m) /\ m \in CallRows /\ m.at = a /\ SameTask(m, call[c])
  BY <1>1, <1>2, GoesMoves DEF RaceInv, Types
<1> QED BY <1>2, <1>3, <1>4, PlainStep

LEMMA FreePaysStep ==
  ASSUME RaceInv, NEW c \in Calls, FreePays(c)
  PROVE  RaceInv' /\ Others(c)
<1> DEFINE k == call[c]
           D == {a \in Longs : On(a, k.sheet) # {}}
           m == [k EXCEPT !.at = "rerun", !.due = D]
<1>0. k \in CallRows
  BY DEF RaceInv, Types, CallTypes
<1>a. "rerun" \in Ats
  BY DEF Ats, SheetAts
<1>1. m \in CallRows
  BY <1>0, <1>a DEF CallRows
<1>2. m.at = "rerun" /\ SameTask(m, k)
  BY <1>0 DEF CallRows, SameTask
<1>3. One(c, m)
  BY DEF FreePays, One, RaceInv, Types, CallTypes
<1>4. Quiet /\ k.at \in SheetAts \ {"zero"}
  BY DEF FreePays, Quiet, Writes, SheetAts
<1>5. m.at \in SheetAts \ {"makeLines", "nextLine"}
  BY <1>2 DEF SheetAts
<1> HIDE DEF m
<1> QED BY <1>1, <1>2, <1>3, <1>4, <1>5, PlainStep

LEMMA RerunStep ==
  ASSUME RaceInv, NEW c \in Calls, Rerun(c)
  PROVE  RaceInv' /\ Others(c)
<1> DEFINE k == call[c]
           to == AfterRevert(c)
           m == [k EXCEPT !.at = to, !.due = {}]
<1>0. k \in CallRows
  BY DEF RaceInv, Types, CallTypes
<1>a. to \in Ats /\ to \in SheetAts \ {"makeLines", "nextLine"}
  BY AfterRevertAt DEF Ats, SheetAts
<1>3. One(c, m)
  BY DEF Rerun, One, RaceInv, Types, CallTypes
<1> HIDE DEF to
<1>1. m \in CallRows
  BY <1>0, <1>a DEF CallRows
<1>2. m.at = to /\ SameTask(m, k)
  BY <1>0 DEF CallRows, SameTask
<1>4. Quiet /\ k.at \in SheetAts \ {"zero"}
  BY DEF Rerun, Quiet, Writes, SheetAts
<1> HIDE DEF m
<1> QED BY <1>1, <1>2, <1>3, <1>4, <1>a, PlainStep

LEMMA CheckStep ==
  ASSUME RaceInv, NEW c \in Calls, Check(c)
  PROVE  RaceInv' /\ Others(c)
<1>1. Quiet /\ call[c].at \in SheetAts \ {"zero"}
  BY DEF Check, Quiet, rows, SheetAts
<1>2. CASE Ends(c)
  BY <1>1, <1>2, EndsMoves, QuietStep
<1>3. CASE Goes(c, "revert")
  <2>1. "revert" \in Ats /\ "revert" \in SheetAts \ {"makeLines", "nextLine"}
    BY DEF Ats, SheetAts
  <2>2. PICK m : One(c, m) /\ m \in CallRows /\ m.at = "revert" /\ SameTask(m, call[c])
    BY <1>3, <2>1, GoesMoves DEF RaceInv, Types
  <2> QED BY <1>1, <2>1, <2>2, PlainStep
<1> QED BY <1>2, <1>3 DEF Check

-----------------------------------------------------------------------------
(* applyAdvancesForLine. *)
LEMMA ReadLinesStep ==
  ASSUME RaceInv, NEW c \in Calls, ReadLines(c)
  PROVE  RaceInv' /\ Others(c)
<1> DEFINE k == call[c]
           T == {e \in on[k.sheet] : HasRows(e)}
           m == [k EXCEPT !.at = "nextLine", !.todo = T, !.lost = {}]
<1>0. k \in CallRows /\ Fits(k) /\ k.at = "readLines"
  BY FitsNow DEF Fits, ReadLines
<1>a. k.sheet \in Payrolls /\ (~k.late => k.sheet \notin confirmed)
  BY <1>0 DEF Fits, CallPlace, InTime, SheetAts
<1>b. "nextLine" \in Ats /\ T \subseteq Employees
  BY <1>a DEF Ats, SheetAts, RaceInv, Types
<1>3. One(c, m)
  BY DEF ReadLines, One, RaceInv, Types, CallTypes
<1>c. T \subseteq on[k.sheet]
  OBVIOUS
<1> HIDE DEF T
<1>1. m \in CallRows
  BY <1>0, <1>b DEF CallRows
<1>2. /\ m.at = "nextLine" /\ m.todo = T /\ m.sheet = k.sheet /\ m.late = k.late
  BY <1>0 DEF CallRows
<1> HIDE DEF m
<1>4. Quiet /\ k.at # "zero"
  BY <1>0 DEF ReadLines, Quiet, rows
<1>5. Fits(m)
  <2>1. m.at \notin LineAts \cup OffAts \cup {"cancel", "deduct", "makeLines"}
    BY <1>2 DEF LineAts, OffAts
  <2>2. m \in CallRows /\ CallPlace(m) /\ KnowsOff(m) /\ InTime(m)
    BY <1>1, <1>2, <1>a, <2>1 DEF CallPlace, KnowsOff, InTime, OffAts, LineAts
  <2>3. SeesOwn(m) /\ SeesFree(m)
    BY <1>2, <1>c, <2>1 DEF SeesOwn, SeesFree
  <2> QED BY <2>2, <2>3 DEF Fits
<1> QED BY <1>3, <1>4, <1>5, QuietStep

LEMMA ReadShortsStep ==
  ASSUME RaceInv, NEW c \in Calls, NEW e \in Employees, ReadShorts(c, e)
  PROVE  RaceInv' /\ Others(c)
<1> DEFINE k == call[c]
           S == Takes(k.sheet, e)
           m == [k EXCEPT !.at = "takeShorts", !.emp = e, !.todo = k.todo \ {e}, !.sees = S]
<1>0. k \in CallRows /\ Fits(k) /\ k.at = "nextLine" /\ e \in k.todo
  BY FitsNow DEF Fits, ReadShorts
<1>a. k.sheet \in Payrolls /\ (~k.late => k.sheet \notin confirmed)
  BY <1>0 DEF Fits, CallPlace, InTime, SheetAts
<1>b. "takeShorts" \in Ats /\ S \subseteq Shorts \cup Longs
  BY DEF Ats, LineAts, Takes
<1>c. \A s \in S : s \in Shorts /\ Owner[s] = e /\ short[s].state = "pending" /\ ~short[s].deducted
  BY DEF Takes
<1>3. One(c, m)
  BY DEF ReadShorts, One, RaceInv, Types, CallTypes
<1> HIDE DEF S
<1>1. m \in CallRows
  BY <1>0, <1>b DEF CallRows, MaybeEmp
<1>2. /\ m.at = "takeShorts" /\ m.todo = k.todo \ {e} /\ m.sheet = k.sheet
      /\ m.late = k.late /\ m.emp = e /\ m.sees = S /\ m.lost = k.lost
  BY <1>0 DEF CallRows
<1> HIDE DEF m
<1>4. Quiet /\ k.at # "zero"
  BY <1>0 DEF ReadShorts, Quiet, rows
<1>5. Fits(m)
  <2>2. m \in CallRows /\ CallPlace(m) /\ KnowsOff(m) /\ InTime(m)
    BY <1>1, <1>2, <1>a, <1>c DEF CallPlace, KnowsOff, InTime, OffAts, LineAts
  <2>3. SeesOwn(m)
    <3>1. k.todo \subseteq on[k.sheet] \cup k.lost
      BY <1>0 DEF Fits, SeesOwn
    <3> QED BY <1>0, <1>2, <1>c, <3>1 DEF SeesOwn
  <2>4. SeesFree(m)
    <3>1. \A s \in S : ~\E p \in Payrolls : Held(s, p)
      BY <1>c DEF Held
    <3>2. \A s \in S, p \in Payrolls, f \in Employees :
            s \in total[p][f].short => Excused(f) \/ Zeroing(p)
      BY <3>1 DEF RaceInv, CountInv, CountedIsHeld, Held, Excused, Zeroing
    <3> QED BY <1>2, <3>2 DEF SeesFree
  <2> QED BY <2>2, <2>3, <2>4 DEF Fits
<1> QED BY <1>3, <1>4, <1>5, QuietStep

(* A call goes on with the line it is at, and has not seen other rows. *)
LEMMA SameLine ==
  ASSUME RaceInv, NEW c \in Calls, call[c].at \in LineAts \ {"takeShorts"},
         NEW m, m \in CallRows, SameTask(m, call[c]), m.at \in LineAts \ {"takeShorts"},
         m.todo = call[c].todo, m.sees \cap Shorts \subseteq call[c].sees,
         m.at \notin {"pay", "mark"} => m.sees \subseteq Shorts
  PROVE  Fits(m)
<1> DEFINE k == call[c]
<1>1. Fits(k) /\ m.at \notin {"cancel", "takeShorts"} \cup OffAts /\ k.at # "takeShorts"
  BY FitsNow DEF LineAts, OffAts
<1>2. CallPlace(m) /\ KnowsOff(m) /\ InTime(m)
  BY <1>1 DEF Fits, CallPlace, KnowsOff, InTime, SameTask, LineAts, OffAts
<1>3. SeesOwn(m)
  <2>1. k.emp \in on[k.sheet] \cup k.lost /\ k.todo \subseteq on[k.sheet] \cup k.lost
    BY <1>1 DEF Fits, SeesOwn
  <2>2. \A s \in k.sees \cap Shorts : Owner[s] = k.emp
    BY <1>1 DEF Fits, SeesOwn
  <2> QED BY <2>1, <2>2 DEF SeesOwn, SameTask
<1>4. SeesFree(m)
  BY <1>1 DEF Fits, SeesFree, SameTask
<1> QED BY <1>2, <1>3, <1>4 DEF Fits

LEMMA LeftType ==
  ASSUME PaysFinite, NEW a \in Longs
  PROVE  Paid(a) \in Nat /\ Left(a) \in Nat
<1>1. Paid(a) \in Nat
  BY FS_CardinalityType DEF PaysFinite, Paid
<1> QED BY <1>1, RaceAssumption DEF Left

LEMMA ReadLongsStep ==
  ASSUME RaceInv, PaysFinite, NEW c \in Calls, ReadLongs(c)
  PROVE  RaceInv' /\ Others(c)
<1> DEFINE k == call[c]
           D == {a \in Mine(k.emp) : long[a] = "running"}
           m == [k EXCEPT !.at = "findPay", !.count = 0, !.due = D, !.left = Lefts]
<1>0. k \in CallRows /\ Fits(k) /\ k.at = "readLongs" /\ k.at \in LineAts
  BY FitsNow DEF Fits, ReadLongs, LineAts, Mine
<1>b. /\ "findPay" \in Ats /\ "findPay" \in LineAts /\ D \subseteq Longs
      /\ Lefts \in [Longs -> Nat]
  BY LeftType DEF Ats, LineAts, Mine, Lefts
<1>3. One(c, m)
  BY DEF ReadLongs, Mine, One, RaceInv, Types, CallTypes
<1> HIDE DEF D
<1>1. m \in CallRows
  BY <1>0, <1>b DEF CallRows
<1>2. /\ m.at = "findPay" /\ m.todo = k.todo /\ m.sees = k.sees /\ SameTask(m, k)
  BY <1>0 DEF CallRows, SameTask
<1>c. k.sees \subseteq Shorts
  BY <1>0 DEF Fits, SeesOwn
<1> HIDE DEF m
<1>4. Quiet
  BY DEF ReadLongs, Mine, Quiet, rows
<1>5. m \in CallRows
  BY <1>1
<1>6. Fits(m)
  BY <1>0, <1>b, <1>2, <1>c, <1>5, SameLine
<1> QED BY <1>0, <1>3, <1>4, <1>6, QuietStep

LEMMA FindPayStep ==
  ASSUME RaceInv, NEW c \in Calls, NEW a \in Longs, FindPay(c, a)
  PROVE  RaceInv' /\ Others(c)
<1> DEFINE k == call[c]
<1>0. k \in CallRows /\ Fits(k) /\ k.at = "findPay" /\ k.at \in LineAts
  BY FitsNow DEF Fits, FindPay, LineAts
<1>c. k.sees \subseteq Shorts
  BY <1>0 DEF Fits, SeesOwn
<1>4. Quiet
  BY DEF FindPay, Quiet, rows
<1>t. CallTypes
  BY DEF RaceInv, Types
<1> DEFINE m1 == [k EXCEPT !.due = k.due \ {a}, !.count = k.count + 1]
           m2 == [k EXCEPT !.due = k.due \ {a}]
           m3 == [k EXCEPT !.at = "pay", !.sees = k.sees \cup {a}]
<1>1. One(c, m1) \/ One(c, m2) \/ One(c, m3)
  BY <1>t DEF FindPay, One, CallTypes
<1>2. CASE One(c, m1)
  <2>0. k.count + 1 \in Nat
    BY <1>0 DEF CallRows
  <2>1. m1 \in CallRows
    BY <1>0, <2>0 DEF CallRows
  <2>2. m1.at = k.at /\ m1.todo = k.todo /\ m1.sees = k.sees /\ SameTask(m1, k)
    BY <1>0 DEF CallRows, SameTask
  <2> HIDE DEF m1
  <2>3. m1 \in CallRows
    BY <2>1
  <2>4. Fits(m1)
    BY <1>0, <1>c, <2>2, <2>3, SameLine
  <2> QED BY <1>0, <1>2, <1>4, <2>4, QuietStep
<1>3. CASE One(c, m2)
  <2>1. m2 \in CallRows
    BY <1>0 DEF CallRows
  <2>2. m2.at = k.at /\ m2.todo = k.todo /\ m2.sees = k.sees /\ SameTask(m2, k)
    BY <1>0 DEF CallRows, SameTask
  <2> HIDE DEF m2
  <2>3. m2 \in CallRows
    BY <2>1
  <2>4. Fits(m2)
    BY <1>0, <1>c, <2>2, <2>3, SameLine
  <2> QED BY <1>0, <1>3, <1>4, <2>4, QuietStep
<1>5. CASE One(c, m3)
  <2>0. "pay" \in Ats /\ "pay" \in LineAts
    BY DEF Ats, LineAts
  <2>1. m3 \in CallRows
    BY <1>0, <2>0 DEF CallRows
  <2>2. m3.at = "pay" /\ m3.todo = k.todo /\ m3.sees = k.sees \cup {a} /\ SameTask(m3, k)
    BY <1>0 DEF CallRows, SameTask
  <2> HIDE DEF m3
  <2>3. m3 \in CallRows
    BY <2>1
  <2>4. m3.sees \cap Shorts \subseteq k.sees
    BY <2>2, RaceAssumption
  <2>5. Fits(m3)
    BY <1>0, <2>0, <2>2, <2>3, <2>4, SameLine
  <2> QED BY <1>0, <1>5, <1>4, <2>5, QuietStep
<1> QED BY <1>1, <1>2, <1>3, <1>5

LEMMA PayStep ==
  ASSUME RaceInv, NEW c \in Calls, Pay(c)
  PROVE  RaceInv' /\ Others(c)
<1> DEFINE k == call[c]
           m == [k EXCEPT !.at = "mark", !.count = k.count + 1]
<1>0. k \in CallRows /\ Fits(k) /\ k.at = "pay" /\ k.at \in LineAts
  BY FitsNow DEF Fits, Pay, LineAts
<1>4. Quiet
  BY DEF Pay, Quiet, Writes
<1>t. CallTypes
  BY DEF RaceInv, Types
<1>1. Ends(c) \/ One(c, m)
  BY <1>t DEF Pay, One, CallTypes
<1>2. CASE Ends(c)
  BY <1>0, <1>2, <1>4, EndsMoves, QuietStep
<1>3. CASE One(c, m)
  <2>0. "mark" \in Ats /\ "mark" \in LineAts /\ k.count + 1 \in Nat
    BY <1>0 DEF Ats, LineAts, CallRows
  <2>1. m \in CallRows
    BY <1>0, <2>0 DEF CallRows
  <2>2. m.at = "mark" /\ m.todo = k.todo /\ m.sees = k.sees /\ SameTask(m, k)
    BY <1>0 DEF CallRows, SameTask
  <2> HIDE DEF m
  <2>3. m \in CallRows
    BY <2>1
  <2>5. Fits(m)
    BY <1>0, <2>0, <2>2, <2>3, SameLine
  <2> QED BY <1>0, <1>3, <1>4, <2>5, QuietStep
<1> QED BY <1>1, <1>2, <1>3

LEMMA MarkStep ==
  ASSUME RaceInv, NEW c \in Calls, Mark(c)
  PROVE  RaceInv' /\ Others(c)
<1> DEFINE k == call[c]
           P == Paying(c)
           m == [k EXCEPT !.at = "findPay", !.due = k.due \ P, !.sees = k.sees \cap Shorts]
<1>0. k \in CallRows /\ Fits(k) /\ k.at = "mark" /\ k.at \in LineAts
  BY FitsNow DEF Fits, Mark, LineAts
<1>4. Quiet
  BY DEF Mark, Quiet, Writes
<1>3. One(c, m)
  BY DEF Mark, One, RaceInv, Types, CallTypes
<1> HIDE DEF P
<1>a. "findPay" \in Ats /\ "findPay" \in LineAts
  BY DEF Ats, LineAts
<1>1. m \in CallRows
  BY <1>0, <1>a DEF CallRows
<1>2. m.at = "findPay" /\ m.todo = k.todo /\ m.sees = k.sees \cap Shorts /\ SameTask(m, k)
  BY <1>0 DEF CallRows, SameTask
<1> HIDE DEF m
<1>5. m \in CallRows
  BY <1>1
<1>6. Fits(m)
  BY <1>0, <1>a, <1>2, <1>5, SameLine
<1> QED BY <1>0, <1>3, <1>4, <1>6, QuietStep

LEMMA AllFoundStep ==
  ASSUME RaceInv, NEW c \in Calls, AllFound(c)
  PROVE  RaceInv' /\ Others(c)
<1> DEFINE k == call[c]
<1>0. k \in CallRows /\ Fits(k) /\ k.at = "findPay" /\ k.at \in LineAts
  BY FitsNow DEF Fits, AllFound, LineAts
<1>4. Quiet /\ Goes(c, "writeLine")
  BY DEF AllFound, Quiet, rows
<1>a. "writeLine" \in Ats /\ "writeLine" \in LineAts
  BY DEF Ats, LineAts
<1>3. PICK m : /\ One(c, m) /\ m \in CallRows /\ m.at = "writeLine" /\ SameTask(m, k)
               /\ m.todo = k.todo /\ m.sees = k.sees
  BY <1>4, <1>a, GoesMoves DEF RaceInv, Types
<1>5. k.sees \subseteq Shorts
  BY <1>0 DEF Fits, SeesOwn
<1>6. Fits(m)
  BY <1>0, <1>a, <1>3, <1>5, SameLine
<1> QED BY <1>0, <1>3, <1>4, <1>6, QuietStep

-----------------------------------------------------------------------------
(* The exclusion list is read. *)
LEMMA StartDeleteStep ==
  ASSUME RaceInv, NEW c \in Calls, NEW p \in Payrolls, NEW e \in Employees,
         StartDelete(c, p, e) \/ StartPutBack(c, p, e)
  PROVE  RaceInv' /\ Others(c)
<1>1. PICK a \in {"dropLine", "readOff"}, does \in {"delete", "single"} :
        /\ One(c, [Idle EXCEPT !.at = a, !.does = does, !.sheet = p, !.emp = e])
        /\ a = "readOff" => does = "single"
  <2>1. CASE StartDelete(c, p, e)
    BY <2>1 DEF StartDelete, One
  <2>2. CASE StartPutBack(c, p, e)
    BY <2>2 DEF StartPutBack, One
  <2> QED BY <2>1, <2>2
<1> DEFINE m == [Idle EXCEPT !.at = a, !.does = does, !.sheet = p, !.emp = e]
<1>2. m \in CallRows
  BY DEF Idle, CallRows, Ats, OffAts, Doings, MaybeSheet, MaybeEmp
<1>3. m.sheet = p /\ m.at = a /\ ~m.late /\ m.does = does /\ m.emp = e
  BY DEF Idle
<1>4. Quiet /\ call[c].at # "zero" /\ p \notin confirmed
  BY IdleRow DEF StartDelete, StartPutBack, Quiet, rows
<1>5. One(c, m)
  BY <1>1
<1> HIDE DEF m
<1>6. m.at \notin LineAts \cup {"nextLine", "cancel", "deduct", "makeLines", "writeOff", "addLine"}
  BY <1>3 DEF LineAts
<1>7. m \in CallRows /\ CallPlace(m) /\ InTime(m)
  BY <1>2, <1>3, <1>4, <1>6 DEF CallPlace, InTime, LineAts
<1>8. KnowsOff(m)
  BY <1>1, <1>3 DEF KnowsOff
<1>9. SeesOwn(m) /\ SeesFree(m)
  BY <1>6 DEF SeesOwn, SeesFree, LineAts
<1>10. Fits(m)
  BY <1>7, <1>8, <1>9 DEF Fits
<1> QED BY <1>4, <1>5, <1>10, QuietStep

LEMMA ReadOffStep ==
  ASSUME RaceInv, NEW c \in Calls, ReadOff(c)
  PROVE  RaceInv' /\ Others(c)
<1> DEFINE k == call[c]
           m == [k EXCEPT !.at = "writeOff", !.todo = off[k.sheet]]
<1>0. k \in CallRows /\ Fits(k) /\ k.at = "readOff" /\ k.at \in OffAts
  BY FitsNow DEF Fits, ReadOff, OffAts
<1>a. k.sheet \in Payrolls /\ (~k.late => k.sheet \notin confirmed) /\ k.emp \in Employees
  BY <1>0 DEF Fits, CallPlace, InTime
<1>b. "writeOff" \in Ats /\ off[k.sheet] \subseteq Employees
  BY <1>a DEF Ats, OffAts, RaceInv, Types
<1>3. One(c, m)
  BY DEF ReadOff, One, RaceInv, Types, CallTypes
<1>1. m \in CallRows
  BY <1>0, <1>b DEF CallRows
<1>2. m.at = "writeOff" /\ m.todo = off[k.sheet] /\ SameTask(m, k)
  BY <1>0 DEF CallRows, SameTask
<1> HIDE DEF m
<1>4. Quiet /\ k.at # "zero"
  BY <1>0 DEF ReadOff, Quiet, rows
<1>5. m.at \notin LineAts \cup {"nextLine", "cancel", "deduct", "makeLines", "addLine"}
  BY <1>2 DEF LineAts
<1>6. m \in CallRows /\ CallPlace(m) /\ InTime(m)
  BY <1>1, <1>2, <1>5, <1>a DEF CallPlace, InTime, SameTask
<1>7. KnowsOff(m)
  BY <1>0, <1>2 DEF Fits, KnowsOff, SameTask
<1>8. SeesOwn(m) /\ SeesFree(m)
  BY <1>5 DEF SeesOwn, SeesFree, LineAts
<1>9. Fits(m)
  BY <1>6, <1>7, <1>8 DEF Fits
<1> QED BY <1>3, <1>4, <1>9, QuietStep

-----------------------------------------------------------------------------
(* A confirmation reads what it will deduct; a cancellation checks. *)
LEMMA StartConfirmStep ==
  ASSUME RaceInv, NEW c \in Calls, NEW p \in Payrolls, StartConfirm(c, p)
  PROVE  RaceInv' /\ Others(c)
<1> DEFINE T == {e \in on[p] : total[p][e].short # {}}
           m == [Idle EXCEPT !.at = "readOwed", !.does = "confirm", !.sheet = p, !.todo = T]
<1>0. T \subseteq Employees
  BY DEF RaceInv, Types
<1>5. One(c, m)
  BY DEF StartConfirm, One
<1> HIDE DEF T
<1>2. m \in CallRows
  BY <1>0 DEF Idle, CallRows, Ats, ConfirmAts, Doings, MaybeSheet, MaybeEmp
<1>3. m.sheet = p /\ m.at = "readOwed"
  BY DEF Idle
<1>4. Quiet /\ call[c].at # "zero"
  BY IdleRow DEF StartConfirm, Quiet, rows
<1> HIDE DEF m
<1>6. Fits(m)
  BY <1>2, <1>3 DEF Fits, CallPlace, KnowsOff, InTime, SeesOwn, SeesFree,
       LineAts, OffAts, SheetAts
<1> QED BY <1>4, <1>5, <1>6, QuietStep

LEMMA ReadOwedStep ==
  ASSUME RaceInv, NEW c \in Calls, ReadOwed(c)
  PROVE  RaceInv' /\ Others(c)
<1> DEFINE k == call[c]
           S == {s \in HeldBy(k.sheet) : short[s].line /\ Owner[s] \in k.todo \ k.lost}
           m == [k EXCEPT !.at = "deduct", !.todo = {}, !.sees = S]
<1>0. k \in CallRows /\ Fits(k) /\ k.at = "readOwed"
  BY FitsNow DEF Fits, ReadOwed
<1>a. k.sheet \in Payrolls
  BY <1>0 DEF Fits, CallPlace
<1>b. "deduct" \in Ats /\ S \subseteq Shorts /\ \A s \in S : ~short[s].deducted
  BY DEF Ats, ConfirmAts, HeldBy
<1>3. One(c, m)
  BY DEF ReadOwed, One, RaceInv, Types, CallTypes
<1> HIDE DEF S
<1>1. m \in CallRows
  BY <1>0, <1>b DEF CallRows
<1>2. m.at = "deduct" /\ m.sees = S /\ m.sheet = k.sheet
  BY <1>0 DEF CallRows
<1> HIDE DEF m
<1>4. Quiet /\ k.at # "zero"
  BY <1>0 DEF ReadOwed, Quiet, rows
<1>6. Fits(m)
  BY <1>1, <1>2, <1>a, <1>b DEF Fits, CallPlace, KnowsOff, InTime, SeesOwn,
       SeesFree, LineAts, OffAts, SheetAts
<1> QED BY <1>3, <1>4, <1>6, QuietStep

LEMMA StartCancelStep ==
  ASSUME RaceInv, NEW c \in Calls, NEW s \in Shorts, StartCancel(c, s)
  PROVE  RaceInv' /\ Others(c)
<1> DEFINE m == [Idle EXCEPT !.at = "cancel", !.does = "cancel", !.emp = Owner[s], !.sees = {s}]
<1>0. Owner[s] \in Employees
  BY RaceAssumption
<1>2. m \in CallRows
  BY <1>0 DEF Idle, CallRows, Ats, Doings, MaybeSheet, MaybeEmp
<1>3. m.at = "cancel" /\ m.emp = Owner[s] /\ m.sees = {s} /\ m.sheet = None
  BY DEF Idle
<1>4. Quiet /\ call[c].at # "zero" /\ One(c, m)
  BY IdleRow DEF StartCancel, Quiet, rows, One
<1> HIDE DEF m
<1>5. short[s].state = "pending" /\ ~short[s].deducted
  BY DEF StartCancel, RaceInv, TimeInv, PendingIsOwed
<1>6. m \in CallRows /\ CallPlace(m) /\ KnowsOff(m) /\ InTime(m)
  BY <1>0, <1>2, <1>3, <1>5 DEF CallPlace, KnowsOff, InTime, SheetAts, LineAts, OffAts
<1>7. SeesOwn(m)
  BY <1>3 DEF SeesOwn, LineAts
<1>8. SeesFree(m)
  <2>1. \A p \in Payrolls, e \in Employees :
          s \in total[p][e].short => Excused(e) \/ Zeroing(p)
    BY <1>5 DEF RaceInv, CountInv, CountedIsHeld, Excused, Zeroing
  <2> QED BY <1>3, <2>1 DEF SeesFree, LineAts
<1>9. Fits(m)
  BY <1>6, <1>7, <1>8 DEF Fits
<1> QED BY <1>4, <1>9, QuietStep

-----------------------------------------------------------------------------
(* Steps that write rows, lines or sheets: what they leave of each part of *)
(* the invariant.                                                          *)
LEMMA CallsStay ==
  ASSUME RaceInv, NEW c \in Calls, Others(c), CallTypes', CallPlace(call'[c])
  PROVE  \A d \in Calls : CallPlace(call[d])'
<1>1. \A d \in Calls \ {c} : CallPlace(call'[d])
  BY DEF RaceInv, Types, Others, CallPlace
<1> QED BY <1>1 DEF CallPlace

LEMMA OffStays ==
  ASSUME RaceInv, NEW c \in Calls, Others(c), UNCHANGED <<off, removed, tangled>>,
         \A p \in Payrolls : on'[p] \subseteq on[p],
         KnowsOff(call[c])'
  PROVE  OffInv'
<1>1. RemovedStayAway'
  BY DEF RaceInv, OffInv, RemovedStayAway
<1>2. \A d \in Calls \ {c} : KnowsOff(call[d])'
  BY DEF RaceInv, OffInv, KnowsOff, Others
<1> QED BY <1>1, <1>2 DEF OffInv

LEMMA TimeStays ==
  ASSUME RaceInv, NEW c \in Calls, Others(c), confirmed' \subseteq confirmed,
         \A s \in Shorts : short'[s].deducted => short[s].deducted,
         PendingIsOwed', InTime(call[c])'
  PROVE  TimeInv'
<1>1. \A d \in Calls \ {c} : InTime(call[d])'
  BY DEF RaceInv, TimeInv, InTime, Others
<1> QED BY <1>1 DEF TimeInv

LEMMA ZeroStays ==
  ASSUME NEW c \in Calls, Others(c), call[c].at # "zero"
  PROVE  \A p : Zeroing(p) => Zeroing(p)'
<1> QED BY DEF Zeroing, Others

(* Totals only shrink, and a sheet that is being zeroed still is, or was,  *)
(* unless the call stopped there.                                          *)
Shrinks ==
  \A p \in Payrolls, e \in Employees : \A s \in total'[p][e].short :
    /\ s \in total[p][e].short /\ e \in on'[p]
    /\ Zeroing(p) => Zeroing(p)' \/ Excused(e)'

LosesLines(c) ==
  \A d \in Calls \ {c} : call[d].at \in LineAts \cup {"nextLine"} =>
    on[call[d].sheet] \subseteq on'[call[d].sheet] \cup call'[d].lost

LEMMA OwnStays ==
  ASSUME RaceInv, NEW c \in Calls, Others(c), LosesLines(c)
  PROVE  \A d \in Calls \ {c} : SeesOwn(call[d])'
<1> SUFFICES ASSUME NEW d \in Calls \ {c}
             PROVE  SeesOwn(call[d])'
  OBVIOUS
<1>1. SeesOwn(call[d]) /\ call[d].lost \subseteq call'[d].lost
  BY DEF RaceInv, CountInv, Others
<1>2. /\ call'[d].at = call[d].at /\ call'[d].sees = call[d].sees
      /\ call'[d].emp = call[d].emp /\ call'[d].sheet = call[d].sheet
      /\ call'[d].todo = call[d].todo
  BY DEF Others
<1>3. call[d].at \in LineAts \cup {"nextLine"} =>
        on[call[d].sheet] \subseteq on'[call[d].sheet] \cup call'[d].lost
  BY DEF LosesLines
<1> QED BY <1>1, <1>2, <1>3 DEF SeesOwn

(* Totals of the employees E may have been written anew. *)
Rewrites(E) ==
  \A p \in Payrolls, e \in Employees : \A s \in total'[p][e].short :
    \/ s \in total[p][e].short /\ (Zeroing(p) => Zeroing(p)' \/ Excused(e)')
    \/ e \in E /\ Owner[s] = e

LEMMA FreeStays ==
  ASSUME RaceInv, NEW c \in Calls, Others(c), cut \subseteq cut',
         NEW E, Rewrites(E), Writes(c, E),
         \A s \in Shorts, p \in Payrolls : Held(s, p) /\ Owner[s] \notin E => Held(s, p)'
  PROVE  \A d \in Calls \ {c} : SeesFree(call[d])'
<1> SUFFICES ASSUME NEW d \in Calls \ {c}
             PROVE  SeesFree(call[d])'
  OBVIOUS
<1> DEFINE k == call[d]
<1>1. SeesFree(k) /\ SeesOwn(k) /\ CallPlace(k)
  BY DEF RaceInv, CountInv, Types
<1>2. /\ call'[d].at = k.at /\ call'[d].sees = k.sees
      /\ call'[d].emp = k.emp /\ call'[d].sheet = k.sheet
  BY DEF Others
<1>3. mixed \subseteq mixed'
  BY DEF Writes
<1>4. ASSUME k.at \in {"takeShorts", "cancel"}, NEW s \in k.sees \cap Shorts,
             NEW p \in Payrolls, NEW e \in Employees, s \in total'[p][e].short
      PROVE  Excused(e)' \/ Zeroing(p)'
  <2>1. CASE s \in total[p][e].short /\ (Zeroing(p) => Zeroing(p)' \/ Excused(e)')
    <3>1. Excused(e) \/ Zeroing(p)
      BY <1>1, <1>4, <2>1 DEF SeesFree
    <3> QED BY <1>3, <2>1, <3>1 DEF Excused
  <2>2. CASE e \in E /\ Owner[s] = e
    <3>1. k.emp = e
      BY <1>1, <1>4, <2>2 DEF SeesOwn, LineAts
    <3>2. Holds(d, e)
      BY <1>4, <3>1 DEF Holds
    <3> QED BY <2>2, <3>2 DEF Writes, Excused
  <2> QED BY <1>4, <2>1, <2>2 DEF Rewrites
<1>5. ASSUME k.at \in LineAts \ {"takeShorts"}, NEW s \in k.sees \cap Shorts
      PROVE  \/ short'[s].sheet = k.sheet /\ short'[s].state = "applied"
             \/ k.emp \in mixed'
  <2>1. Owner[s] = k.emp /\ k.sheet \in Payrolls
    BY <1>1, <1>5 DEF SeesOwn, CallPlace, LineAts
  <2>2. Held(s, k.sheet) \/ k.emp \in mixed
    BY <1>1, <1>5 DEF SeesFree
  <2>3. CASE k.emp \in E
    BY <1>5, <2>3 DEF Writes, Holds, LineAts
  <2>4. \A p \in Payrolls : Held(s, p) /\ Owner[s] \notin E => Held(s, p)'
    BY <1>5
  <2> QED BY <1>3, <2>1, <2>2, <2>3, <2>4 DEF Held
<1> QED BY <1>2, <1>4, <1>5 DEF SeesFree, Held

LEMMA CountStays ==
  ASSUME RaceInv, NEW c \in Calls, Others(c), Shrinks, cut \subseteq cut', LosesLines(c),
         NEW E, Writes(c, E),
         \A s \in Shorts, p \in Payrolls : Held(s, p) /\ Owner[s] \notin E => Held(s, p)',
         CountedIsHeld', SeesOwn(call[c])', SeesFree(call[c])'
  PROVE  CountInv'
<1>1. TotalsFit'
  <2>1. \A p \in Payrolls, e \in Employees : \A s \in total[p][e].short : Owner[s] = e
    BY DEF RaceInv, CountInv, TotalsFit
  <2> QED BY <2>1 DEF Shrinks, TotalsFit
<1>2. Rewrites(E)
  BY DEF Shrinks, Rewrites
<1> QED BY <1>1, <1>2, OwnStays, FreeStays DEF CountInv

(* Away from the lines and from a cancellation a call sees nothing. *)
LEMMA SeesNothing ==
  ASSUME NEW c \in Calls, call'[c].at \notin LineAts \cup {"nextLine", "cancel"}
  PROVE  SeesOwn(call[c])' /\ SeesFree(call[c])'
<1> QED BY DEF SeesOwn, SeesFree, LineAts

LEMMA CountedStays ==
  ASSUME RaceInv, Shrinks, cut \subseteq cut', mixed \subseteq mixed',
         \A s \in Shorts, p \in Payrolls : Held(s, p) => Held(s, p)'
  PROVE  CountedIsHeld'
<1> SUFFICES ASSUME NEW p \in Payrolls, NEW e \in Employees, NEW s \in total'[p][e].short
             PROVE  Held(s, p)' \/ Excused(e)' \/ Zeroing(p)'
  BY DEF CountedIsHeld, Held, Excused, Zeroing
<1>1. s \in total[p][e].short /\ (Zeroing(p) => Zeroing(p)' \/ Excused(e)')
  BY DEF Shrinks
<1>2. s \in Shorts
  BY <1>1 DEF RaceInv, Types
<1>3. Held(s, p) \/ Excused(e) \/ Zeroing(p)
  BY <1>1 DEF RaceInv, CountInv, CountedIsHeld, Held, Excused, Zeroing
<1> QED BY <1>1, <1>2, <1>3 DEF Excused

LEMMA Unlost ==
  ASSUME NEW c \in Calls, on' = on
  PROVE  LosesLines(c)
<1> QED BY DEF LosesLines

LEMMA OffNothing ==
  ASSUME NEW c \in Calls, call'[c].at \notin {"readOff", "writeOff", "makeLines", "addLine"}
  PROVE  KnowsOff(call[c])'
<1> QED BY DEF KnowsOff

-----------------------------------------------------------------------------
(* revertAdvancesOnPayroll. *)
LEMMA FreeShortsStep ==
  ASSUME RaceInv, NEW c \in Calls, FreeShorts(c)
  PROVE  RaceInv' /\ Others(c)
<1> DEFINE k == call[c]
           E == {Owner[s] : s \in HeldBy(k.sheet)}
<1>0. Fits(k) /\ k.at = "freeShorts" /\ k.sheet \in Payrolls
  BY FitsNow DEF FreeShorts, Fits, CallPlace
<1>a. "zero" \in Ats
  BY DEF Ats, SheetAts
<1>1. PICK m : One(c, m) /\ m \in CallRows /\ m.at = "zero" /\ SameTask(m, k)
  BY <1>a, GoesMoves DEF FreeShorts, RaceInv, Types
<1>2. /\ CallTypes' /\ Others(c) /\ call'[c] = m
  BY <1>1, OneMoves DEF RaceInv, Types
<1>3. UNCHANGED <<confirmed, on, off, total, tangled, cut, removed>> /\ Writes(c, E)
  BY DEF FreeShorts
<1>4. \A s \in Shorts : short'[s] = IF s \in HeldBy(k.sheet)
         THEN [state |-> "pending", sheet |-> None, line |-> FALSE, deducted |-> FALSE]
         ELSE short[s]
  BY DEF FreeShorts
<1>5. Types'
  <2>1. short' \in [Shorts -> ShortRows]
    BY DEF FreeShorts, RaceInv, Types, ShortRows, MaybeSheet
  <2>2. CallPlace(m)
    BY <1>0, <1>1 DEF CallPlace, SameTask, LineAts, OffAts
  <2>3. \A d \in Calls : CallPlace(call[d])'
    BY <1>2, <2>2, CallsStay
  <2> QED BY <1>2, <1>3, <2>1, <2>3 DEF RaceInv, Types
<1>6. OffInv'
  BY <1>1, <1>2, <1>3, OffNothing, OffStays
<1>7. TimeInv'
  <2>1. PendingIsOwed'
    BY <1>4 DEF RaceInv, TimeInv, PendingIsOwed
  <2>2. \A s \in Shorts : short'[s].deducted => short[s].deducted
    BY <1>4
  <2>3. InTime(call[c])'
    BY <1>0, <1>1, <1>2, <1>3 DEF Fits, InTime, SameTask, SheetAts, LineAts
  <2> QED BY <1>2, <1>3, <2>1, <2>2, <2>3, TimeStays
<1>8. CountInv'
  <2>1. Shrinks
    BY <1>0, <1>2, <1>3, ZeroStays DEF Shrinks, RaceInv, CountInv, TotalsFit
  <2>2. LosesLines(c)
    BY <1>3, Unlost
  <2>3. \A s \in Shorts, p \in Payrolls : Held(s, p) /\ Owner[s] \notin E => Held(s, p)'
    BY <1>4 DEF Held
  <2>4. SeesOwn(call[c])' /\ SeesFree(call[c])'
    BY <1>1, <1>2, SeesNothing DEF LineAts
  <2>5. CountedIsHeld'
    <3> SUFFICES ASSUME NEW p \in Payrolls, NEW e \in Employees, NEW s \in total'[p][e].short
                 PROVE  Held(s, p)' \/ Excused(e)' \/ Zeroing(p)'
      BY DEF CountedIsHeld, Held, Excused, Zeroing
    <3>1. s \in Shorts /\ (Held(s, p) \/ Excused(e) \/ Zeroing(p))
      BY <1>3 DEF RaceInv, Types, CountInv, CountedIsHeld, Held, Excused, Zeroing
    <3>3. Held(s, p) /\ p # k.sheet => Held(s, p)'
      BY <1>4, <3>1 DEF Held, HeldBy
    <3>4. (Excused(e) => Excused(e)') /\ (Zeroing(p) => Zeroing(p)')
      BY <1>0, <1>2, <1>3, ZeroStays DEF Excused, Writes
    <3>5. p = k.sheet => Zeroing(p)'
      BY <1>1, <1>2 DEF Zeroing, SameTask
    <3> QED BY <3>1, <3>3, <3>4, <3>5
  <2> QED BY <1>2, <1>3, <2>1, <2>2, <2>3, <2>4, <2>5, CountStays
<1> QED BY <1>2, <1>5, <1>6, <1>7, <1>8 DEF RaceInv

LEMMA NoTotalRow == NoTotal \in [short : SUBSET Shorts, long : Nat] /\ NoTotal.short = {}
<1> QED BY DEF NoTotal

LEMMA ZeroStep ==
  ASSUME RaceInv, NEW c \in Calls, Zero(c)
  PROVE  RaceInv' /\ Others(c)
<1> DEFINE k == call[c]
<1>0. Fits(k) /\ k.at = "zero" /\ k.sheet \in Payrolls
  BY FitsNow DEF Zero, Fits, CallPlace
<1>a. "freePays" \in Ats
  BY DEF Ats, SheetAts
<1>1. PICK m : One(c, m) /\ m \in CallRows /\ m.at = "freePays" /\ SameTask(m, k)
  BY <1>a, GoesMoves DEF Zero, RaceInv, Types
<1>2. /\ CallTypes' /\ Others(c) /\ call'[c] = m
  BY <1>1, OneMoves DEF RaceInv, Types
<1>3. UNCHANGED <<confirmed, on, off, short, tangled, cut, removed>> /\ Writes(c, on[k.sheet])
  BY DEF Zero, rows
<1>4. \A p \in Payrolls : total'[p] = IF p = k.sheet THEN [e \in Employees |-> NoTotal]
                                      ELSE total[p]
  BY DEF Zero, RaceInv, Types
<1>5. Types'
  <2>1. total' \in [Payrolls -> [Employees -> [short : SUBSET Shorts, long : Nat]]]
    BY NoTotalRow DEF Zero, RaceInv, Types
  <2>2. CallPlace(m)
    BY <1>0, <1>1 DEF CallPlace, SameTask, LineAts, OffAts
  <2>3. \A d \in Calls : CallPlace(call[d])'
    BY <1>2, <2>2, CallsStay
  <2> QED BY <1>2, <1>3, <2>1, <2>3 DEF RaceInv, Types
<1>6. OffInv'
  BY <1>1, <1>2, <1>3, OffNothing, OffStays
<1>7. TimeInv'
  <2>1. PendingIsOwed'
    BY <1>3 DEF RaceInv, TimeInv, PendingIsOwed
  <2>3. InTime(call[c])'
    BY <1>0, <1>1, <1>2, <1>3 DEF Fits, InTime, SameTask, SheetAts, LineAts
  <2> QED BY <1>2, <1>3, <2>1, <2>3, TimeStays
<1>8. CountInv'
  <2>1. Shrinks
    <3> SUFFICES ASSUME NEW p \in Payrolls, NEW e \in Employees, NEW s \in total'[p][e].short
                 PROVE  /\ s \in total[p][e].short /\ e \in on'[p]
                        /\ Zeroing(p) => Zeroing(p)'
      BY DEF Shrinks
    <3>1. p # k.sheet /\ s \in total[p][e].short
      BY <1>4, NoTotalRow
    <3>2. e \in on'[p]
      BY <1>3, <3>1 DEF RaceInv, CountInv, TotalsFit
    <3>3. Zeroing(p) => Zeroing(p)'
      BY <1>2, <3>1 DEF Zeroing, Others
    <3> QED BY <3>1, <3>2, <3>3
  <2>2. LosesLines(c)
    BY <1>3, Unlost
  <2>3. \A s \in Shorts, p \in Payrolls : Held(s, p) => Held(s, p)'
    BY <1>3 DEF Held
  <2>4. SeesOwn(call[c])' /\ SeesFree(call[c])'
    BY <1>1, <1>2, SeesNothing DEF LineAts
  <2>5. CountedIsHeld'
    BY <1>3, <2>1, <2>3, CountedStays DEF Writes
  <2> QED BY <1>2, <1>3, <2>1, <2>2, <2>3, <2>4, <2>5, CountStays
<1> QED BY <1>2, <1>5, <1>6, <1>7, <1>8 DEF RaceInv

-----------------------------------------------------------------------------
(* Lines are deleted and made. *)
LEMMA LostMoves ==
  ASSUME CallTypes, NEW c \in Calls, NEW p, NEW D \in SUBSET Employees,
         NEW m, m \in CallRows, call' = [Lost(c, p, D) EXCEPT ![c] = m]
  PROVE  /\ CallTypes' /\ Others(c) /\ call'[c] = m
         /\ \A d \in Calls \ {c} :
              call[d].sheet = p /\ call[d].at \in LineAts \cup {"nextLine"}
                => D \subseteq call'[d].lost
<1> DEFINE L == Lost(c, p, D)
           Hit(d) == d # c /\ call[d].sheet = p /\ call[d].at \in
                     {"nextLine", "takeShorts", "readLongs", "findPay", "pay", "mark",
                      "writeLine", "readOwed", "dropLine"}
           More(d) == [call[d] EXCEPT !.lost = call[d].lost \cup D]
<1>1. L = [d \in Calls |-> IF Hit(d) THEN More(d) ELSE call[d]]
  BY DEF Lost
<1>2. ASSUME NEW d \in Calls
      PROVE  /\ More(d) \in CallRows /\ More(d).lost = call[d].lost \cup D
             /\ More(d).at = call[d].at /\ More(d).does = call[d].does
             /\ More(d).sheet = call[d].sheet /\ More(d).emp = call[d].emp
             /\ More(d).todo = call[d].todo /\ More(d).sees = call[d].sees
             /\ More(d).due = call[d].due /\ More(d).left = call[d].left
             /\ More(d).late = call[d].late
  <2>1. call[d] \in CallRows
    BY DEF CallTypes
  <2>2. More(d) \in CallRows
    BY <2>1 DEF CallRows
  <2>3. /\ More(d).lost = call[d].lost \cup D
        /\ More(d).at = call[d].at /\ More(d).does = call[d].does
        /\ More(d).sheet = call[d].sheet /\ More(d).emp = call[d].emp
        /\ More(d).todo = call[d].todo /\ More(d).sees = call[d].sees
        /\ More(d).due = call[d].due /\ More(d).left = call[d].left
        /\ More(d).late = call[d].late
    BY <2>1 DEF CallRows
  <2> HIDE DEF More
  <2> QED BY <2>2, <2>3
<1> HIDE DEF More, L
<1>3. /\ call' = [d \in Calls |-> call'[d]] /\ call'[c] = m
      /\ \A d \in Calls \ {c} : call'[d] = IF Hit(d) THEN More(d) ELSE call[d]
  <2>1. call' = [L EXCEPT ![c] = m]
    BY DEF L
  <2> QED BY <1>1, <2>1
<1>4. \A d \in Calls : call[d] \in CallRows
  BY DEF CallTypes
<1>5. Others(c)
  <2> SUFFICES ASSUME NEW d \in Calls \ {c}
               PROVE  /\ call'[d] \in CallRows
                      /\ call'[d].at = call[d].at /\ call'[d].does = call[d].does
                      /\ call'[d].sheet = call[d].sheet /\ call'[d].emp = call[d].emp
                      /\ call'[d].todo = call[d].todo /\ call'[d].sees = call[d].sees
                      /\ call'[d].due = call[d].due /\ call'[d].left = call[d].left
                      /\ call[d].lost \subseteq call'[d].lost
                      /\ call[d].late => call'[d].late
    BY DEF Others
  <2>1. CASE call'[d] = More(d)
    BY <1>2, <2>1
  <2>2. CASE call'[d] = call[d]
    BY <1>4, <2>2
  <2> QED BY <1>3, <2>1, <2>2
<1>6. CallTypes'
  BY <1>3, <1>5 DEF CallTypes, Others
<1>7. \A d \in Calls \ {c} :
        call[d].sheet = p /\ call[d].at \in LineAts \cup {"nextLine"}
          => D \subseteq call'[d].lost
  BY <1>2, <1>3 DEF LineAts
<1> QED BY <1>3, <1>5, <1>6, <1>7

LEMMA DropLinesStep ==
  ASSUME RaceInv, NEW c \in Calls, DropLines(c)
  PROVE  RaceInv' /\ Others(c)
<1> DEFINE k == call[c]
           p == k.sheet
           D == on[p]
           T == Employees \ off[p]
           m == [k EXCEPT !.at = "makeLines", !.todo = T]
<1>0. Fits(k) /\ k.at = "dropLines" /\ p \in Payrolls /\ D \in SUBSET Employees
  BY FitsNow DEF DropLines, Fits, CallPlace, RaceInv, Types
<1>a. "makeLines" \in Ats /\ T \subseteq Employees /\ k \in CallRows
  BY <1>0 DEF Ats, SheetAts, Fits
<1>b. call' = [Lost(c, p, D) EXCEPT ![c] = m]
  BY DEF DropLines, Lost
<1> HIDE DEF T
<1>1. m \in CallRows
  BY <1>a DEF CallRows
<1>2. m.at = "makeLines" /\ m.todo = T /\ SameTask(m, k)
  BY <1>a DEF CallRows, SameTask
<1> HIDE DEF m, D
<1>3. /\ CallTypes' /\ Others(c) /\ call'[c] = m
      /\ \A d \in Calls \ {c} :
           call[d].sheet = p /\ call[d].at \in LineAts \cup {"nextLine"}
             => D \subseteq call'[d].lost
  <2>1. m \in CallRows
    BY <1>1
  <2>2. CallTypes /\ p \in Payrolls /\ D \in SUBSET Employees
    BY <1>0 DEF RaceInv, Types
  <2> QED BY <1>b, <2>1, <2>2, LostMoves
<1>4. UNCHANGED <<confirmed, off, tangled, cut, removed>> /\ Writes(c, D)
  BY DEF DropLines, D
<1>5. \A q \in Payrolls : /\ total'[q] = IF q = p THEN [e \in Employees |-> NoTotal] ELSE total[q]
                          /\ on'[q] = IF q = p THEN {} ELSE on[q]
  BY DEF DropLines, RaceInv, Types
<1>6. short' \in [Shorts -> ShortRows] /\ \A s \in Shorts :
         /\ short'[s].state = short[s].state /\ short'[s].sheet = short[s].sheet
         /\ short'[s].deducted = short[s].deducted
  <2>1. short' = Unpointed(p, D) /\ short \in [Shorts -> ShortRows]
    BY DEF DropLines, D, RaceInv, Types
  <2> QED BY <2>1 DEF Unpointed, ShortRows
<1>7. Types'
  <2>1. total' \in [Payrolls -> [Employees -> [short : SUBSET Shorts, long : Nat]]]
    BY NoTotalRow DEF DropLines, RaceInv, Types
  <2>2. CallPlace(m)
    BY <1>0, <1>2 DEF CallPlace, SameTask, LineAts, OffAts
  <2>3. \A d \in Calls : CallPlace(call[d])'
    BY <1>3, <2>2, CallsStay
  <2>4. on' \in [Payrolls -> SUBSET Employees]
    BY DEF DropLines, RaceInv, Types
  <2> QED BY <1>3, <1>4, <1>6, <2>1, <2>3, <2>4 DEF RaceInv, Types
<1>8. OffInv'
  <2>1. KnowsOff(call[c])'
    <3>1. p \notin tangled => T \cap removed[p] = {}
      BY <1>0 DEF RaceInv, OffInv, RemovedStayAway, T
    <3> QED BY <1>2, <1>3, <1>4, <3>1 DEF KnowsOff, SameTask
  <2> QED BY <1>3, <1>4, <1>5, <2>1, OffStays
<1>9. TimeInv'
  <2>1. PendingIsOwed'
    BY <1>6 DEF RaceInv, TimeInv, PendingIsOwed
  <2>2. \A s \in Shorts : short'[s].deducted => short[s].deducted
    BY <1>6
  <2>3. InTime(call[c])'
    BY <1>0, <1>2, <1>3, <1>4 DEF Fits, InTime, SameTask, SheetAts, LineAts
  <2> QED BY <1>3, <1>4, <2>1, <2>2, <2>3, TimeStays
<1>10. CountInv'
  <2>1. Shrinks
    <3> SUFFICES ASSUME NEW q \in Payrolls, NEW e \in Employees, NEW s \in total'[q][e].short
                 PROVE  /\ s \in total[q][e].short /\ e \in on'[q]
                        /\ Zeroing(q) => Zeroing(q)'
      BY DEF Shrinks
    <3>1. q # p /\ s \in total[q][e].short
      BY <1>5, NoTotalRow
    <3>2. e \in on'[q]
      BY <1>5, <3>1 DEF RaceInv, CountInv, TotalsFit
    <3>3. Zeroing(q) => Zeroing(q)'
      BY <1>0, <1>3, ZeroStays
    <3> QED BY <3>1, <3>2, <3>3
  <2>2. LosesLines(c)
    <3> SUFFICES ASSUME NEW d \in Calls \ {c}, call[d].at \in LineAts \cup {"nextLine"}
                 PROVE  on[call[d].sheet] \subseteq on'[call[d].sheet] \cup call'[d].lost
      BY DEF LosesLines
    <3>1. call[d].sheet \in Payrolls
      BY DEF RaceInv, Types, CallPlace, LineAts
    <3>2. CASE call[d].sheet = p
      BY <1>3, <3>2 DEF D
    <3>3. CASE call[d].sheet # p
      BY <1>5, <3>1, <3>3
    <3> QED BY <3>2, <3>3
  <2>3. \A s \in Shorts, q \in Payrolls : Held(s, q) => Held(s, q)'
    BY <1>6 DEF Held
  <2>4. SeesOwn(call[c])' /\ SeesFree(call[c])'
    BY <1>2, <1>3, SeesNothing DEF LineAts
  <2>5. CountedIsHeld'
    BY <1>4, <2>1, <2>3, CountedStays DEF Writes
  <2> QED BY <1>3, <1>4, <2>1, <2>2, <2>3, <2>4, <2>5, CountStays
<1> QED BY <1>3, <1>7, <1>8, <1>9, <1>10 DEF RaceInv

(* Another call works with the exclusion list of the sheet, or none does. *)
LEMMA OffTangles ==
  ASSUME RaceInv, NEW c \in Calls, NEW p \in Payrolls, Others(c), Tangles(c, p),
         \A q \in Payrolls \ {p} :
           on'[q] = on[q] /\ off'[q] = off[q] /\ removed'[q] = removed[q],
         p \notin tangled' => removed'[p] \subseteq off'[p] /\ removed'[p] \cap on'[p] = {},
         KnowsOff(call[c])'
  PROVE  OffInv'
<1>1. tangled \subseteq tangled'
  BY DEF Tangles
<1>2. RemovedStayAway'
  BY <1>1 DEF RaceInv, OffInv, RemovedStayAway
<1>3. ASSUME NEW d \in Calls \ {c}
      PROVE  KnowsOff(call[d])'
  <2>1. /\ KnowsOff(call[d]) /\ call'[d].at = call[d].at /\ call'[d].sheet = call[d].sheet
        /\ call'[d].does = call[d].does /\ call'[d].todo = call[d].todo
        /\ call'[d].emp = call[d].emp
    BY DEF RaceInv, OffInv, Others
  <2>2. CASE call[d].sheet = p
    BY <2>1, <2>2 DEF Tangles, KnowsOff
  <2>3. CASE call[d].sheet # p
    BY <1>1, <2>1, <2>3 DEF KnowsOff
  <2> QED BY <2>2, <2>3
<1> QED BY <1>2, <1>3 DEF OffInv

LEMMA MakeLinesStep ==
  ASSUME RaceInv, NEW c \in Calls, MakeLines(c)
  PROVE  RaceInv' /\ Others(c)
<1> DEFINE k == call[c]
           p == k.sheet
           m == [k EXCEPT !.at = "check", !.does = "calcLink", !.todo = {}]
<1>0. Fits(k) /\ k.at = "makeLines" /\ p \in Payrolls /\ k \in CallRows
  BY FitsNow DEF MakeLines, Fits, CallPlace
<1>1. CASE Ends(c) /\ UNCHANGED <<on, tangled>>
  <2>1. Quiet
    BY <1>1 DEF MakeLines, Quiet, rows
  <2> QED BY <1>0, <1>1, <2>1, EndsMoves, QuietStep
<1>2. CASE on[p] \cap k.todo = {}
  <2>0. "check" \in Ats /\ "calcLink" \in Doings
    BY DEF Ats, SheetAts, Doings
  <2>1. m \in CallRows
    BY <1>0, <2>0 DEF CallRows
  <2>2. m.at = "check" /\ m.sheet = p /\ m.late = k.late
    BY <1>0 DEF CallRows
  <2>3. One(c, m)
    BY <1>2 DEF MakeLines, One, RaceInv, Types, CallTypes
  <2>4. Tangles(c, p) /\ on' = [on EXCEPT ![p] = on[p] \cup k.todo]
    BY <1>2 DEF MakeLines
  <2>5. UNCHANGED <<confirmed, off, short, total, mixed, cut, removed>>
    BY DEF MakeLines, rows
  <2> HIDE DEF m
  <2>6. CallTypes' /\ Others(c) /\ call'[c] = m
    BY <2>1, <2>3, OneMoves DEF RaceInv, Types
  <2>7. \A q \in Payrolls : on'[q] = IF q = p THEN on[p] \cup k.todo ELSE on[q]
    BY <2>4 DEF RaceInv, Types
  <2>8. Types'
    <3>1. CallPlace(m)
      BY <1>0, <2>2 DEF CallPlace, LineAts, OffAts
    <3>2. \A d \in Calls : CallPlace(call[d])'
      BY <2>6, <3>1, CallsStay
    <3>3. k.todo \subseteq Employees
      BY <1>0 DEF CallRows
    <3>4. on' \in [Payrolls -> SUBSET Employees]
      BY <1>0, <2>4, <3>3 DEF RaceInv, Types
    <3> QED BY <2>5, <2>6, <3>2, <3>4 DEF RaceInv, Types
  <2>9. OffInv'
    <3>1. tangled \subseteq tangled'
      BY <2>4 DEF Tangles
    <3>2. p \notin tangled => k.todo \cap removed[p] = {}
      BY <1>0 DEF Fits, KnowsOff
    <3>3. p \notin tangled' => removed'[p] \subseteq off'[p] /\ removed'[p] \cap on'[p] = {}
      BY <1>0, <2>5, <2>7, <3>1, <3>2 DEF RaceInv, OffInv, RemovedStayAway
    <3>4. KnowsOff(call[c])'
      BY <2>2, <2>6, OffNothing
    <3> QED BY <1>0, <2>4, <2>5, <2>6, <2>7, <3>3, <3>4, OffTangles
  <2>10. TimeInv'
    <3>1. PendingIsOwed'
      BY <2>5 DEF RaceInv, TimeInv, PendingIsOwed
    <3>2. InTime(call[c])'
      BY <1>0, <2>2, <2>5, <2>6 DEF Fits, InTime, SheetAts, LineAts
    <3> QED BY <2>5, <2>6, <3>1, <3>2, TimeStays
  <2>11. CountInv'
    <3>1. Shrinks
      BY <1>0, <2>5, <2>6, <2>7, ZeroStays DEF Shrinks, RaceInv, CountInv, TotalsFit
    <3>2. LosesLines(c)
      <4>1. \A d \in Calls : call[d].at \in LineAts \cup {"nextLine"} => call[d].sheet \in Payrolls
        BY DEF RaceInv, Types, CallPlace, LineAts
      <4> QED BY <2>7, <4>1 DEF LosesLines
    <3>3. \A s \in Shorts, q \in Payrolls : Held(s, q) => Held(s, q)'
      BY <2>5 DEF Held
    <3>4. SeesOwn(call[c])' /\ SeesFree(call[c])'
      BY <2>2, <2>6, SeesNothing DEF LineAts
    <3>5. CountedIsHeld'
      BY <2>5, <3>1, <3>3, CountedStays
    <3>6. Writes(c, {})
      BY <2>5 DEF Writes
    <3> QED BY <2>5, <2>6, <3>1, <3>2, <3>3, <3>4, <3>5, <3>6, CountStays
  <2> QED BY <2>6, <2>8, <2>9, <2>10, <2>11 DEF RaceInv
<1> QED BY <1>1, <1>2 DEF MakeLines

-----------------------------------------------------------------------------
LEMMA TakeShortsStep ==
  ASSUME RaceInv, NEW c \in Calls, TakeShorts(c)
  PROVE  RaceInv' /\ Others(c)
<1> DEFINE k == call[c]
           E == {Owner[s] : s \in k.sees}
<1>0. Fits(k) /\ k.at = "takeShorts" /\ k.sheet \in Payrolls /\ k.emp \in Employees
  BY FitsNow DEF TakeShorts, Fits, CallPlace, LineAts
<1>1. CASE Ends(c) /\ UNCHANGED <<short, mixed>>
  <2>1. Quiet
    BY <1>1 DEF TakeShorts, Quiet
  <2> QED BY <1>0, <1>1, <2>1, EndsMoves, QuietStep
<1>2. CASE ~(k.emp \in k.lost /\ k.sees # {})
  <2>0. "readLongs" \in Ats /\ "readLongs" \in LineAts /\ Goes(c, "readLongs")
    BY <1>2 DEF Ats, LineAts, TakeShorts
  <2>1. PICK m : /\ One(c, m) /\ m \in CallRows /\ m.at = "readLongs" /\ SameTask(m, k)
                 /\ m.todo = k.todo /\ m.sees = k.sees
    BY <2>0, GoesMoves DEF RaceInv, Types
  <2>2. CallTypes' /\ Others(c) /\ call'[c] = m
    BY <2>1, OneMoves DEF RaceInv, Types
  <2>3. UNCHANGED <<confirmed, on, off, total, tangled, cut, removed>> /\ Writes(c, E)
    BY <1>2 DEF TakeShorts
  <2>4. short' = [s \in Shorts |->
               IF s \in k.sees
               THEN [short[s] EXCEPT !.state = "applied", !.sheet = k.sheet, !.line = TRUE]
               ELSE short[s]]
    BY <1>2 DEF TakeShorts
  <2>5. short' \in [Shorts -> ShortRows] /\ \A s \in Shorts :
          /\ short'[s].deducted = short[s].deducted
          /\ s \in k.sees => Held(s, k.sheet)'
          /\ s \notin k.sees => short'[s] = short[s]
    <3>1. ASSUME NEW s \in Shorts, s \in k.sees
          PROVE  /\ short'[s] \in ShortRows /\ short'[s].deducted = short[s].deducted
                 /\ short'[s].sheet = k.sheet /\ short'[s].state = "applied"
      BY <1>0, <2>4, <3>1 DEF RaceInv, Types, ShortRows, MaybeSheet
    <3>2. ASSUME NEW s \in Shorts, s \notin k.sees
          PROVE  short'[s] \in ShortRows /\ short'[s] = short[s]
      BY <2>4, <3>2 DEF RaceInv, Types
    <3>3. k.sheet = call'[c].sheet
      BY <2>1, <2>2 DEF SameTask
    <3>4. short' = [s \in Shorts |-> short'[s]]
      BY <2>4
    <3>5. \A s \in Shorts : short'[s] \in ShortRows
      BY <3>1, <3>2
    <3>6. short' \in [Shorts -> ShortRows]
      BY <3>4, <3>5
    <3> QED BY <3>1, <3>2, <3>3, <3>6 DEF Held
  <2>6. Types'
    <3>1. CallPlace(m)
      BY <1>0, <2>1 DEF CallPlace, SameTask
    <3>2. \A d \in Calls : CallPlace(call[d])'
      BY <2>2, <3>1, CallsStay
    <3> QED BY <2>2, <2>3, <2>5, <3>2 DEF RaceInv, Types
  <2>7. OffInv'
    BY <2>1, <2>2, <2>3, OffNothing, OffStays
  <2>8. TimeInv'
    <3>1. PendingIsOwed'
      BY <2>5 DEF RaceInv, TimeInv, PendingIsOwed, Held
    <3>2. InTime(call[c])'
      BY <1>0, <2>0, <2>1, <2>2, <2>3 DEF Fits, InTime, SameTask, LineAts
    <3> QED BY <2>2, <2>3, <2>5, <3>1, <3>2, TimeStays
  <2>9. CountInv'
    <3>0. SeesOwn(k) /\ SeesFree(k) /\ k.at \in LineAts /\ k.sees \subseteq Shorts
      BY <1>0 DEF Fits, SeesOwn, LineAts
    <3>1. Shrinks
      BY <1>0, <2>2, <2>3, ZeroStays DEF Shrinks, RaceInv, CountInv, TotalsFit
    <3>2. LosesLines(c)
      BY <2>3, Unlost
    <3>3. \A s \in Shorts, p \in Payrolls : Held(s, p) /\ Owner[s] \notin E => Held(s, p)'
      BY <2>5 DEF Held
    <3>4. SeesOwn(call[c])'
      BY <2>1, <2>2, <2>3, <3>0 DEF SeesOwn, SameTask
    <3>5. SeesFree(call[c])'
      BY <2>1, <2>2, <2>5 DEF SeesFree, SameTask
    <3>6. CountedIsHeld'
      <4> SUFFICES ASSUME NEW p \in Payrolls, NEW e \in Employees, NEW s \in total'[p][e].short
                   PROVE  Held(s, p)' \/ Excused(e)' \/ Zeroing(p)'
        BY DEF CountedIsHeld, Held, Excused, Zeroing
      <4>1. s \in Shorts /\ s \in total[p][e].short /\ (Held(s, p) \/ Excused(e) \/ Zeroing(p))
        BY <2>3 DEF RaceInv, Types, CountInv, CountedIsHeld, Held, Excused, Zeroing
      <4>2. s \in k.sees => Excused(e) \/ Zeroing(p)
        BY <1>0, <3>0, <4>1 DEF SeesFree
      <4>3. s \notin k.sees => (Held(s, p) => Held(s, p)')
        BY <2>5, <4>1 DEF Held
      <4>4. (Excused(e) => Excused(e)') /\ (Zeroing(p) => Zeroing(p)')
        BY <1>0, <2>2, <2>3, ZeroStays DEF Excused, Writes
      <4>5. CASE s \in k.sees
        BY <4>2, <4>4, <4>5
      <4>6. CASE s \notin k.sees
        BY <4>1, <4>3, <4>4, <4>6
      <4> QED BY <4>5, <4>6
    <3> QED BY <2>2, <2>3, <3>1, <3>2, <3>3, <3>4, <3>5, <3>6, CountStays
  <2> QED BY <2>2, <2>6, <2>7, <2>8, <2>9 DEF RaceInv
<1> QED BY <1>1, <1>2 DEF TakeShorts

LEMMA WriteLineStep ==
  ASSUME RaceInv, NEW c \in Calls, WriteLine(c)
  PROVE  RaceInv' /\ Others(c)
<1> DEFINE k == call[c]
           p == k.sheet
           f == k.emp
           L == [a \in Longs |-> 0]
           m == [k EXCEPT !.at = "nextLine", !.emp = None, !.sees = {}, !.count = 0, !.left = L]
           r == [short |-> k.sees, long |-> k.count]
<1>0. /\ Fits(k) /\ k.at = "writeLine" /\ k.at \in LineAts /\ p \in Payrolls
      /\ f \in Employees /\ k \in CallRows /\ k.sees \subseteq Shorts
  BY FitsNow DEF WriteLine, Fits, CallPlace, LineAts, SeesOwn
<1>1. CASE Ends(c) /\ UNCHANGED <<total, mixed>>
  <2>1. Quiet
    BY <1>1 DEF WriteLine, Quiet, rows
  <2> QED BY <1>0, <1>1, <2>1, EndsMoves, QuietStep
<1>2. CASE f \notin k.lost
  <2>0. "nextLine" \in Ats /\ "nextLine" \in SheetAts
    BY DEF Ats, SheetAts
  <2>a. One(c, m)
    BY <1>2 DEF WriteLine, One, RaceInv, Types, CallTypes
  <2>b. total' = [total EXCEPT ![p][f] = r] /\ Writes(c, {f})
    BY <1>2 DEF WriteLine
  <2>c. UNCHANGED <<confirmed, on, off, short, tangled, cut, removed>>
    BY DEF WriteLine, rows
  <2>e. L \in [Longs -> Nat]
    OBVIOUS
  <2> HIDE DEF L
  <2>1. m \in CallRows
    BY <1>0, <2>0, <2>e DEF CallRows, MaybeEmp
  <2>2. /\ m.at = "nextLine" /\ m.sheet = p /\ m.late = k.late /\ m.sees = {}
        /\ m.todo = k.todo /\ m.lost = k.lost
    BY <1>0 DEF CallRows
  <2> HIDE DEF m
  <2>3. CallTypes' /\ Others(c) /\ call'[c] = m
    BY <2>1, <2>a, OneMoves DEF RaceInv, Types
  <2>4. r \in [short : SUBSET Shorts, long : Nat] /\ r.short = k.sees
    BY <1>0 DEF CallRows
  <2> HIDE DEF r
  <2>5. \A q \in Payrolls, e \in Employees :
          total'[q][e] = IF q = p /\ e = f THEN r ELSE total[q][e]
    BY <1>0, <2>b DEF RaceInv, Types
  <2>6. Types'
    <3>1. total' \in [Payrolls -> [Employees -> [short : SUBSET Shorts, long : Nat]]]
      BY <1>0, <2>4, <2>b DEF RaceInv, Types
    <3>2. CallPlace(m)
      BY <1>0, <2>2 DEF CallPlace, LineAts, OffAts
    <3>3. \A d \in Calls : CallPlace(call[d])'
      BY <2>3, <3>2, CallsStay
    <3> QED BY <2>3, <2>c, <3>1, <3>3 DEF RaceInv, Types
  <2>7. OffInv'
    BY <2>2, <2>3, <2>c, OffNothing, OffStays
  <2>8. TimeInv'
    <3>1. PendingIsOwed'
      BY <2>c DEF RaceInv, TimeInv, PendingIsOwed
    <3>2. InTime(call[c])'
      BY <1>0, <2>2, <2>3, <2>c DEF Fits, InTime, SheetAts, LineAts
    <3> QED BY <2>3, <2>c, <3>1, <3>2, TimeStays
  <2>9. CountInv'
    <3>0. /\ \A s \in k.sees : Owner[s] = f /\ (Held(s, p) \/ f \in mixed)
          /\ f \in on[p] /\ k.todo \subseteq on[p] \cup k.lost
      BY <1>0, <1>2 DEF Fits, SeesOwn, SeesFree
    <3>1. \A q : Zeroing(q) => Zeroing(q)'
      BY <1>0, <2>3, ZeroStays
    <3>2. Rewrites({f})
      <4> SUFFICES ASSUME NEW q \in Payrolls, NEW e \in Employees, NEW s \in total'[q][e].short
                   PROVE  s \in total[q][e].short \/ (e = f /\ Owner[s] = e)
        BY <3>1 DEF Rewrites
      <4> QED BY <2>4, <2>5, <3>0
    <3>3. \A s \in Shorts, q \in Payrolls : Held(s, q) => Held(s, q)'
      BY <2>c DEF Held
    <3>4. \A d \in Calls \ {c} : SeesOwn(call[d])' /\ SeesFree(call[d])'
      BY <2>3, <2>b, <2>c, <3>2, <3>3, Unlost, OwnStays, FreeStays
    <3>5. SeesOwn(call[c])' /\ SeesFree(call[c])'
      BY <2>2, <2>3, <2>c, <3>0 DEF SeesOwn, SeesFree, LineAts
    <3>6. TotalsFit' /\ CountedIsHeld'
      <4> SUFFICES ASSUME NEW q \in Payrolls, NEW e \in Employees, NEW s \in total'[q][e].short
                   PROVE  /\ e \in on'[q] /\ Owner[s] = e
                          /\ Held(s, q)' \/ Excused(e)' \/ Zeroing(q)'
        BY DEF TotalsFit, CountedIsHeld, Held, Excused, Zeroing
      <4>1. CASE q = p /\ e = f
        <5>1. s \in k.sees
          BY <2>4, <2>5, <4>1
        <5>2. s \in Shorts /\ Owner[s] = f /\ (Held(s, p) \/ f \in mixed)
          BY <1>0, <3>0, <5>1
        <5>3. Held(s, p) => Held(s, q)'
          BY <3>3, <4>1, <5>2
        <5> QED BY <2>b, <2>c, <3>0, <4>1, <5>2, <5>3 DEF Excused, Writes
      <4>2. CASE ~(q = p /\ e = f)
        <5>1. s \in total[q][e].short
          BY <2>5, <4>2
        <5>2. s \in Shorts /\ e \in on[q] /\ Owner[s] = e
          BY <5>1 DEF RaceInv, Types, CountInv, TotalsFit
        <5>3. Held(s, q) \/ Excused(e) \/ Zeroing(q)
          BY <5>1 DEF RaceInv, CountInv, CountedIsHeld, Held, Excused, Zeroing
        <5>4. (Excused(e) => Excused(e)') /\ (Held(s, q) => Held(s, q)')
          BY <2>b, <2>c, <3>3, <5>2 DEF Excused, Writes
        <5> QED BY <2>c, <3>1, <5>2, <5>3, <5>4
      <4> QED BY <4>1, <4>2
    <3> QED BY <3>4, <3>5, <3>6 DEF CountInv
  <2> QED BY <2>3, <2>6, <2>7, <2>8, <2>9 DEF RaceInv
<1> QED BY <1>1, <1>2 DEF WriteLine

LEMMA DoneStep ==
  ASSUME RaceInv, NEW c \in Calls, Done(c)
  PROVE  RaceInv' /\ Others(c)
<1>1. Quiet /\ Ends(c) /\ call[c].at # "zero"
  BY DEF Done, Quiet, rows
<1> QED BY <1>1, EndsMoves, QuietStep

-----------------------------------------------------------------------------
LEMMA DropLineStep ==
  ASSUME RaceInv, NEW c \in Calls, DropLine(c)
  PROVE  RaceInv' /\ Others(c)
<1> DEFINE k == call[c]
           p == k.sheet
           f == k.emp
           m == [k EXCEPT !.at = "readOff"]
<1>0. /\ Fits(k) /\ k.at = "dropLine" /\ p \in Payrolls /\ k.at \in OffAts
      /\ f \in Employees /\ k \in CallRows /\ {f} \in SUBSET Employees
  BY FitsNow DEF DropLine, Fits, CallPlace, OffAts
<1>1. CASE Ends(c) /\ UNCHANGED <<on, short, total, mixed>>
  <2>1. Quiet
    BY <1>1 DEF DropLine, Quiet
  <2> QED BY <1>0, <1>1, <2>1, EndsMoves, QuietStep
<1>2. CASE ~(f \in k.lost \/ f \notin on[p])
  <2>0. "readOff" \in Ats
    BY DEF Ats, OffAts
  <2>a. call' = [Lost(c, p, {f}) EXCEPT ![c] = m]
    BY <1>2 DEF DropLine, Lost
  <2>b. /\ UNCHANGED <<confirmed, off, tangled, cut, removed>> /\ Writes(c, {f})
        /\ on' = [on EXCEPT ![p] = on[p] \ {f}] /\ short' = Unpointed(p, {f})
        /\ total' = [total EXCEPT ![p][f] = NoTotal]
    BY <1>2 DEF DropLine
  <2>1. m \in CallRows
    BY <1>0, <2>0 DEF CallRows
  <2>2. m.at = "readOff" /\ SameTask(m, k)
    BY <1>0 DEF CallRows, SameTask
  <2> HIDE DEF m
  <2>3. /\ CallTypes' /\ Others(c) /\ call'[c] = m
        /\ \A d \in Calls \ {c} :
             call[d].sheet = p /\ call[d].at \in LineAts \cup {"nextLine"}
               => {f} \subseteq call'[d].lost
    <3>1. m \in CallRows
      BY <2>1
    <3> QED BY <1>0, <2>a, <3>1, LostMoves DEF RaceInv, Types
  <2>4. \A q \in Payrolls : on'[q] = IF q = p THEN on[p] \ {f} ELSE on[q]
    BY <2>b DEF RaceInv, Types
  <2>5. \A q \in Payrolls, e \in Employees :
          total'[q][e] = IF q = p /\ e = f THEN NoTotal ELSE total[q][e]
    BY <1>0, <2>b DEF RaceInv, Types
  <2>6. short' \in [Shorts -> ShortRows] /\ \A s \in Shorts :
         /\ short'[s].state = short[s].state /\ short'[s].sheet = short[s].sheet
         /\ short'[s].deducted = short[s].deducted
    <3>1. short' = Unpointed(p, {f}) /\ short \in [Shorts -> ShortRows]
      BY <2>b DEF RaceInv, Types
    <3> QED BY <3>1 DEF Unpointed, ShortRows
  <2>7. Types'
    <3>1. total' \in [Payrolls -> [Employees -> [short : SUBSET Shorts, long : Nat]]]
      BY <1>0, <2>b, NoTotalRow DEF RaceInv, Types
    <3>2. CallPlace(m)
      BY <1>0, <2>2 DEF CallPlace, SameTask
    <3>3. \A d \in Calls : CallPlace(call[d])'
      BY <2>3, <3>2, CallsStay
    <3>4. on' \in [Payrolls -> SUBSET Employees]
      BY <2>b DEF RaceInv, Types
    <3> QED BY <2>3, <2>b, <2>6, <3>1, <3>3, <3>4 DEF RaceInv, Types
  <2>8. OffInv'
    <3>1. KnowsOff(call[c])'
      BY <1>0, <2>2, <2>3, <2>4 DEF KnowsOff, SameTask
    <3> QED BY <2>3, <2>b, <2>4, <3>1, OffStays
  <2>9. TimeInv'
    <3>1. PendingIsOwed'
      BY <2>6 DEF RaceInv, TimeInv, PendingIsOwed
    <3>2. \A s \in Shorts : short'[s].deducted => short[s].deducted
      BY <2>6
    <3>3. InTime(call[c])'
      BY <1>0, <2>2, <2>3, <2>b DEF Fits, InTime, SameTask, OffAts
    <3> QED BY <2>3, <2>b, <3>1, <3>2, <3>3, TimeStays
  <2>10. CountInv'
    <3>1. Shrinks
      <4> SUFFICES ASSUME NEW q \in Payrolls, NEW e \in Employees, NEW s \in total'[q][e].short
                   PROVE  /\ s \in total[q][e].short /\ e \in on'[q]
                          /\ Zeroing(q) => Zeroing(q)'
        BY DEF Shrinks
      <4>1. ~(q = p /\ e = f) /\ s \in total[q][e].short
        BY <2>5, NoTotalRow
      <4>2. e \in on'[q]
        BY <2>4, <4>1 DEF RaceInv, CountInv, TotalsFit
      <4>3. Zeroing(q) => Zeroing(q)'
        BY <1>0, <2>3, ZeroStays
      <4> QED BY <4>1, <4>2, <4>3
    <3>2. LosesLines(c)
      <4> SUFFICES ASSUME NEW d \in Calls \ {c}, call[d].at \in LineAts \cup {"nextLine"}
                   PROVE  on[call[d].sheet] \subseteq on'[call[d].sheet] \cup call'[d].lost
        BY DEF LosesLines
      <4>1. call[d].sheet \in Payrolls
        BY DEF RaceInv, Types, CallPlace, LineAts
      <4>2. CASE call[d].sheet = p
        BY <1>0, <2>3, <2>4, <4>2
      <4>3. CASE call[d].sheet # p
        BY <2>4, <4>1, <4>3
      <4> QED BY <4>2, <4>3
    <3>3. \A s \in Shorts, q \in Payrolls : Held(s, q) => Held(s, q)'
      BY <2>6 DEF Held
    <3>4. SeesOwn(call[c])' /\ SeesFree(call[c])'
      BY <2>2, <2>3, SeesNothing DEF LineAts
    <3>5. CountedIsHeld'
      BY <2>b, <3>1, <3>3, CountedStays DEF Writes
    <3> QED BY <2>3, <2>b, <3>1, <3>2, <3>3, <3>4, <3>5, CountStays
  <2> QED BY <2>3, <2>7, <2>8, <2>9, <2>10 DEF RaceInv
<1> QED BY <1>1, <1>2 DEF DropLine

LEMMA WriteOffStep ==
  ASSUME RaceInv, NEW c \in Calls, WriteOff(c)
  PROVE  RaceInv' /\ Others(c)
<1> DEFINE k == call[c]
           p == k.sheet
           f == k.emp
           m == [k EXCEPT !.at = "addLine", !.todo = {}]
<1>0. /\ Fits(k) /\ k.at = "writeOff" /\ p \in Payrolls /\ k.at \in OffAts
      /\ f \in Employees /\ k \in CallRows /\ k.todo \subseteq Employees
  BY FitsNow DEF WriteOff, Fits, CallPlace, CallRows, OffAts
<1>a. "addLine" \in Ats
  BY DEF Ats, OffAts
<1>b. IF k.does = "delete" THEN One(c, Idle) ELSE One(c, m)
  BY DEF WriteOff, One, Ends, RaceInv, Types, CallTypes
<1>1. m \in CallRows
  BY <1>0, <1>a DEF CallRows
<1>2. m.at = "addLine" /\ SameTask(m, k)
  BY <1>0 DEF CallRows, SameTask
<1> HIDE DEF m
<1>3. PICK n : /\ One(c, n) /\ n \in CallRows /\ CallPlace(n)
               /\ n.at \in {"idle", "addLine"}
               /\ n.at = "addLine" => k.does # "delete" /\ SameTask(n, k)
  <2>1. CASE k.does = "delete"
    BY <1>b, <2>1, IdleRow DEF Fits
  <2>2. CASE k.does # "delete"
    <3>1. m \in CallRows
      BY <1>1
    <3>2. CallPlace(m)
      BY <1>0, <1>2 DEF CallPlace, SameTask
    <3> QED BY <1>b, <1>2, <2>2, <3>1, <3>2
  <2> QED BY <2>1, <2>2
<1>4. CallTypes' /\ Others(c) /\ call'[c] = n
  BY <1>3, OneMoves DEF RaceInv, Types
<1>5. UNCHANGED <<confirmed, on, short, total, mixed, cut>> /\ Tangles(c, p)
  BY DEF WriteOff, rows
<1>6. \A q \in Payrolls :
        /\ off'[q] = IF q = p THEN IF k.does = "delete" THEN k.todo \cup {f} ELSE k.todo \ {f}
                     ELSE off[q]
        /\ removed'[q] = IF q = p THEN IF k.does = "delete" THEN removed[p] \cup {f}
                                       ELSE removed[p] \ {f}
                         ELSE removed[q]
  BY DEF WriteOff, RaceInv, Types
<1>7. Types'
  <2>1. off' \in [Payrolls -> SUBSET Employees] /\ removed' \in [Payrolls -> SUBSET Employees]
    BY <1>0 DEF WriteOff, RaceInv, Types
  <2>2. \A d \in Calls : CallPlace(call[d])'
    BY <1>3, <1>4, CallsStay
  <2> QED BY <1>4, <1>5, <2>1, <2>2 DEF RaceInv, Types
<1>8. OffInv'
  <2>1. p \notin tangled' => p \in Payrolls \ tangled
    BY <1>0, <1>5 DEF Tangles
  <2>2. p \in Payrolls \ tangled =>
          /\ k.todo = off[p] /\ removed[p] \subseteq off[p] /\ removed[p] \cap on[p] = {}
          /\ k.does = "delete" => f \notin on[p]
    BY <1>0 DEF Fits, KnowsOff, RaceInv, OffInv, RemovedStayAway
  <2>3. p \notin tangled' => removed'[p] \subseteq off'[p] /\ removed'[p] \cap on'[p] = {}
    BY <1>0, <1>5, <1>6, <2>1, <2>2
  <2>4. KnowsOff(call[c])'
    BY <1>0, <1>3, <1>4, <1>6 DEF KnowsOff, SameTask
  <2> QED BY <1>0, <1>4, <1>5, <1>6, <2>3, <2>4, OffTangles
<1>9. TimeInv'
  <2>1. PendingIsOwed'
    BY <1>5 DEF RaceInv, TimeInv, PendingIsOwed
  <2>2. InTime(call[c])'
    BY <1>0, <1>3, <1>4, <1>5 DEF Fits, InTime, SameTask, SheetAts, LineAts, OffAts
  <2> QED BY <1>4, <1>5, <2>1, <2>2, TimeStays
<1>10. CountInv'
  <2>1. Shrinks
    BY <1>0, <1>4, <1>5, ZeroStays DEF Shrinks, RaceInv, CountInv, TotalsFit
  <2>2. LosesLines(c)
    BY <1>5, Unlost
  <2>3. \A s \in Shorts, q \in Payrolls : Held(s, q) => Held(s, q)'
    BY <1>5 DEF Held
  <2>4. SeesOwn(call[c])' /\ SeesFree(call[c])'
    BY <1>3, <1>4, SeesNothing DEF LineAts
  <2>5. CountedIsHeld'
    BY <1>5, <2>1, <2>3, CountedStays
  <2>6. Writes(c, {})
    BY <1>5 DEF Writes
  <2> QED BY <1>4, <1>5, <2>1, <2>2, <2>3, <2>4, <2>5, <2>6, CountStays
<1> QED BY <1>4, <1>7, <1>8, <1>9, <1>10 DEF RaceInv

LEMMA AddLineStep ==
  ASSUME RaceInv, NEW c \in Calls, AddLine(c)
  PROVE  RaceInv' /\ Others(c)
<1> DEFINE k == call[c]
           p == k.sheet
           f == k.emp
           m == [k EXCEPT !.at = "check", !.emp = None]
<1>0. /\ Fits(k) /\ k.at = "addLine" /\ p \in Payrolls /\ k.at \in OffAts
      /\ f \in Employees /\ k \in CallRows
  BY FitsNow DEF AddLine, Fits, CallPlace, OffAts
<1>1. CASE Ends(c) /\ UNCHANGED <<on, tangled>>
  <2>1. Quiet
    BY <1>1 DEF AddLine, Quiet, rows
  <2> QED BY <1>0, <1>1, <2>1, EndsMoves, QuietStep
<1>2. CASE /\ on' = [on EXCEPT ![p] = on[p] \cup {f}] /\ Tangles(c, p)
           /\ call' = [call EXCEPT ![c].at = "check", ![c].emp = None]
  <2>0. "check" \in Ats
    BY DEF Ats, SheetAts
  <2>1. m \in CallRows
    BY <1>0, <2>0 DEF CallRows, MaybeEmp
  <2>2. m.at = "check" /\ m.sheet = p /\ m.late = k.late
    BY <1>0 DEF CallRows
  <2>3. One(c, m)
    BY <1>2 DEF One, RaceInv, Types, CallTypes
  <2>5. UNCHANGED <<confirmed, off, short, total, mixed, cut, removed>>
    BY DEF AddLine, rows
  <2> HIDE DEF m
  <2>6. CallTypes' /\ Others(c) /\ call'[c] = m
    BY <2>1, <2>3, OneMoves DEF RaceInv, Types
  <2>7. \A q \in Payrolls : on'[q] = IF q = p THEN on[p] \cup {f} ELSE on[q]
    BY <1>2 DEF RaceInv, Types
  <2>8. Types'
    <3>1. CallPlace(m)
      BY <1>0, <2>2 DEF CallPlace, LineAts, OffAts
    <3>2. \A d \in Calls : CallPlace(call[d])'
      BY <2>6, <3>1, CallsStay
    <3>4. on' \in [Payrolls -> SUBSET Employees]
      BY <1>0, <1>2 DEF RaceInv, Types
    <3> QED BY <2>5, <2>6, <3>2, <3>4 DEF RaceInv, Types
  <2>9. OffInv'
    <3>1. tangled \subseteq tangled'
      BY <1>2 DEF Tangles
    <3>2. p \notin tangled => f \notin removed[p]
      BY <1>0 DEF Fits, KnowsOff
    <3>3. p \notin tangled' => removed'[p] \subseteq off'[p] /\ removed'[p] \cap on'[p] = {}
      BY <1>0, <2>5, <2>7, <3>1, <3>2 DEF RaceInv, OffInv, RemovedStayAway
    <3>4. KnowsOff(call[c])'
      BY <2>2, <2>6, OffNothing
    <3> QED BY <1>0, <1>2, <2>5, <2>6, <2>7, <3>3, <3>4, OffTangles
  <2>10. TimeInv'
    <3>1. PendingIsOwed'
      BY <2>5 DEF RaceInv, TimeInv, PendingIsOwed
    <3>2. InTime(call[c])'
      BY <1>0, <2>2, <2>5, <2>6 DEF Fits, InTime, SheetAts, LineAts
    <3> QED BY <2>5, <2>6, <3>1, <3>2, TimeStays
  <2>11. CountInv'
    <3>1. Shrinks
      BY <1>0, <2>5, <2>6, <2>7, ZeroStays DEF Shrinks, RaceInv, CountInv, TotalsFit
    <3>2. LosesLines(c)
      <4>1. \A d \in Calls : call[d].at \in LineAts \cup {"nextLine"} => call[d].sheet \in Payrolls
        BY DEF RaceInv, Types, CallPlace, LineAts
      <4> QED BY <2>7, <4>1 DEF LosesLines
    <3>3. \A s \in Shorts, q \in Payrolls : Held(s, q) => Held(s, q)'
      BY <2>5 DEF Held
    <3>4. SeesOwn(call[c])' /\ SeesFree(call[c])'
      BY <2>2, <2>6, SeesNothing DEF LineAts
    <3>5. CountedIsHeld'
      BY <2>5, <3>1, <3>3, CountedStays
    <3>6. Writes(c, {})
      BY <2>5 DEF Writes
    <3> QED BY <2>5, <2>6, <3>1, <3>2, <3>3, <3>4, <3>5, <3>6, CountStays
  <2> QED BY <2>6, <2>8, <2>9, <2>10, <2>11 DEF RaceInv
<1> QED BY <1>1, <1>2 DEF AddLine

-----------------------------------------------------------------------------
(* A confirmation overtakes the other calls. *)
LEMMA Overtaken ==
  ASSUME CallTypes, NEW c \in Calls, NEW m, m \in CallRows, Overtakes(c, m)
  PROVE  /\ CallTypes' /\ Others(c) /\ call'[c] = m
         /\ \A d \in Calls \ {c} : call'[d].late \/ call'[d].at = "idle"
<1> DEFINE Late(d) == [call[d] EXCEPT !.late = TRUE]
<1>1. /\ call' = [d \in Calls |-> call'[d]] /\ call'[c] = m
      /\ \A d \in Calls \ {c} : call'[d] = IF call[d] = Idle THEN call[d] ELSE Late(d)
  BY DEF Overtakes
<1>3. \A d \in Calls : call[d] \in CallRows
  BY DEF CallTypes
<1>2. ASSUME NEW d \in Calls
      PROVE  /\ Late(d) \in CallRows
             /\ Late(d).at = call[d].at /\ Late(d).does = call[d].does
             /\ Late(d).sheet = call[d].sheet /\ Late(d).emp = call[d].emp
             /\ Late(d).todo = call[d].todo /\ Late(d).sees = call[d].sees
             /\ Late(d).due = call[d].due /\ Late(d).left = call[d].left
             /\ Late(d).lost = call[d].lost
  <2>1. call[d] \in CallRows
    BY <1>3
  <2>2. Late(d) \in CallRows
    BY <2>1 DEF CallRows
  <2>3. /\ Late(d).at = call[d].at /\ Late(d).does = call[d].does
        /\ Late(d).sheet = call[d].sheet /\ Late(d).emp = call[d].emp
        /\ Late(d).todo = call[d].todo /\ Late(d).sees = call[d].sees
        /\ Late(d).due = call[d].due /\ Late(d).left = call[d].left
        /\ Late(d).lost = call[d].lost
    BY <2>1 DEF CallRows
  <2> HIDE DEF Late
  <2> QED BY <2>2, <2>3
<1>7. \A d \in Calls : Late(d).late
  BY <1>3 DEF CallRows
<1> HIDE DEF Late
<1>4. Others(c)
  <2>1. ASSUME NEW d \in Calls \ {c}
        PROVE  /\ call'[d] \in CallRows
               /\ call'[d].at = call[d].at /\ call'[d].does = call[d].does
               /\ call'[d].sheet = call[d].sheet /\ call'[d].emp = call[d].emp
               /\ call'[d].todo = call[d].todo /\ call'[d].sees = call[d].sees
               /\ call'[d].due = call[d].due /\ call'[d].left = call[d].left
               /\ call[d].lost \subseteq call'[d].lost
    <3>1. CASE call'[d] = Late(d)
      <4>1. /\ call'[d] \in CallRows
            /\ call'[d].at = call[d].at /\ call'[d].does = call[d].does
            /\ call'[d].sheet = call[d].sheet /\ call'[d].emp = call[d].emp
        BY <1>2, <3>1
      <4>2. /\ call'[d].todo = call[d].todo /\ call'[d].sees = call[d].sees
            /\ call'[d].due = call[d].due /\ call'[d].left = call[d].left
            /\ call[d].lost = call'[d].lost
        BY <1>2, <3>1
      <4> QED BY <4>1, <4>2
    <3>2. CASE call'[d] = call[d]
      BY <1>3, <3>2
    <3> QED BY <1>1, <3>1, <3>2
  <2>2. ASSUME NEW d \in Calls \ {c}, call[d].late PROVE call'[d].late
    <3>1. CASE call'[d] = Late(d)
      BY <1>7, <3>1, Zenon
    <3>2. CASE call'[d] = call[d]
      BY <2>2, <3>2
    <3> QED BY <1>1, <3>1, <3>2
  <2> QED BY <2>1, <2>2 DEF Others
<1>5. CallTypes'
  BY <1>1, <1>4 DEF CallTypes, Others
<1>6. \A d \in Calls \ {c} : call'[d].late \/ call'[d].at = "idle"
  BY <1>1, <1>7, IdleRow
<1> QED BY <1>1, <1>4, <1>5, <1>6

LEMMA TimeOvertaken ==
  ASSUME NEW c \in Calls, PendingIsOwed', InTime(call[c])',
         \A d \in Calls \ {c} : call'[d].late \/ call'[d].at = "idle"
  PROVE  TimeInv'
<1>1. \A d \in Calls \ {c} : InTime(call[d])'
  BY DEF InTime, SheetAts, LineAts, OffAts
<1> QED BY <1>1 DEF TimeInv

LEMMA DeductStep ==
  ASSUME RaceInv, NEW c \in Calls, Deduct(c)
  PROVE  RaceInv' /\ Others(c)
<1> DEFINE k == call[c]
           E == {Owner[s] : s \in k.sees}
           m == [k EXCEPT !.at = "setConfirmed", !.sees = {}]
<1>0. Fits(k) /\ k.at = "deduct" /\ k.sheet \in Payrolls /\ k \in CallRows
  BY FitsNow DEF Deduct, Fits, CallPlace
<1>a. "setConfirmed" \in Ats
  BY DEF Ats, ConfirmAts
<1>1. m \in CallRows
  BY <1>0, <1>a DEF CallRows
<1>2. m.at = "setConfirmed" /\ m.sheet = k.sheet
  BY <1>0 DEF CallRows
<1>b. Overtakes(c, m) /\ Writes(c, E)
  BY DEF Deduct
<1> HIDE DEF m
<1>3. /\ CallTypes' /\ Others(c) /\ call'[c] = m
      /\ \A d \in Calls \ {c} : call'[d].late \/ call'[d].at = "idle"
  BY <1>1, <1>b, Overtaken DEF RaceInv, Types
<1>4. UNCHANGED <<confirmed, on, off, total, tangled, cut, removed>>
  BY DEF Deduct
<1>5. short' \in [Shorts -> ShortRows] /\ \A s \in Shorts :
         /\ short'[s].sheet = short[s].sheet
         /\ short'[s].state = "applied" \/ short'[s] = short[s]
  <2>1. short' = [s \in Shorts |-> IF s \in k.sees
                     THEN [short[s] EXCEPT !.deducted = TRUE, !.state = "applied"]
                     ELSE short[s]]
        /\ short \in [Shorts -> ShortRows]
    BY DEF Deduct, RaceInv, Types
  <2> QED BY <2>1 DEF ShortRows
<1>6. Types'
  <2>1. CallPlace(m)
    BY <1>0, <1>2 DEF CallPlace, LineAts, OffAts
  <2>2. \A d \in Calls : CallPlace(call[d])'
    BY <1>3, <2>1, CallsStay
  <2> QED BY <1>3, <1>4, <1>5, <2>2 DEF RaceInv, Types
<1>7. OffInv'
  BY <1>2, <1>3, <1>4, OffNothing, OffStays
<1>8. TimeInv'
  <2>1. PendingIsOwed'
    BY <1>5 DEF RaceInv, TimeInv, PendingIsOwed
  <2>2. InTime(call[c])'
    BY <1>2, <1>3 DEF InTime, SheetAts, LineAts, OffAts
  <2> QED BY <1>3, <2>1, <2>2, TimeOvertaken
<1>9. CountInv'
  <2>1. Shrinks
    BY <1>0, <1>3, <1>4, ZeroStays DEF Shrinks, RaceInv, CountInv, TotalsFit
  <2>2. LosesLines(c)
    BY <1>4, Unlost
  <2>3. \A s \in Shorts, p \in Payrolls : Held(s, p) => Held(s, p)'
    BY <1>5 DEF Held
  <2>4. SeesOwn(call[c])' /\ SeesFree(call[c])'
    BY <1>2, <1>3, SeesNothing DEF LineAts
  <2>5. CountedIsHeld'
    BY <1>4, <1>b, <2>1, <2>3, CountedStays DEF Writes
  <2> QED BY <1>3, <1>4, <1>b, <2>1, <2>2, <2>3, <2>4, <2>5, CountStays
<1> QED BY <1>3, <1>6, <1>7, <1>8, <1>9 DEF RaceInv

LEMMA SetConfirmedStep ==
  ASSUME RaceInv, NEW c \in Calls, SetConfirmed(c)
  PROVE  RaceInv' /\ Others(c)
<1>0. call[c].at = "setConfirmed" /\ call[c].sheet \in Payrolls
  BY FitsNow DEF SetConfirmed, Fits, CallPlace
<1>1. /\ UNCHANGED <<on, off, short, total, mixed, tangled, cut, removed>>
      /\ Overtakes(c, Idle) /\ confirmed' = confirmed \cup {call[c].sheet}
  BY DEF SetConfirmed, rows
<1>2. /\ CallTypes' /\ Others(c) /\ call'[c] = Idle /\ Idle.at = "idle" /\ Fits(Idle)
      /\ \A d \in Calls \ {c} : call'[d].late \/ call'[d].at = "idle"
  BY <1>1, IdleRow, Overtaken DEF RaceInv, Types
<1>3. Types'
  <2>1. \A d \in Calls : CallPlace(call[d])'
    BY <1>2, CallsStay DEF Fits
  <2> QED BY <1>0, <1>1, <1>2, <2>1 DEF RaceInv, Types
<1>4. OffInv'
  BY <1>1, <1>2, OffNothing, OffStays
<1>5. TimeInv'
  <2>1. PendingIsOwed'
    BY <1>1 DEF RaceInv, TimeInv, PendingIsOwed
  <2>2. InTime(call[c])'
    BY <1>2 DEF InTime, SheetAts, LineAts, OffAts
  <2> QED BY <1>2, <2>1, <2>2, TimeOvertaken
<1>6. CountInv'
  <2>1. Shrinks
    BY <1>0, <1>1, <1>2, ZeroStays DEF Shrinks, RaceInv, CountInv, TotalsFit
  <2>2. LosesLines(c)
    BY <1>1, Unlost
  <2>3. \A s \in Shorts, p \in Payrolls : Held(s, p) => Held(s, p)'
    BY <1>1 DEF Held
  <2>4. SeesOwn(call[c])' /\ SeesFree(call[c])'
    BY <1>2, SeesNothing DEF LineAts
  <2>5. CountedIsHeld'
    BY <1>1, <2>1, <2>3, CountedStays
  <2>6. Writes(c, {})
    BY <1>1 DEF Writes
  <2> QED BY <1>1, <1>2, <2>1, <2>2, <2>3, <2>4, <2>5, <2>6, CountStays
<1> QED BY <1>2, <1>3, <1>4, <1>5, <1>6 DEF RaceInv

-----------------------------------------------------------------------------
LEMMA CancelStep ==
  ASSUME RaceInv, NEW c \in Calls, Cancel(c)
  PROVE  RaceInv' /\ Others(c)
<1> DEFINE k == call[c]
<1>0. Fits(k) /\ k.at = "cancel" /\ k.sees \subseteq Shorts
  BY FitsNow DEF Cancel, Fits, SeesOwn, LineAts
<1>1. One(c, Idle) /\ Writes(c, {k.emp})
  BY EndsMoves DEF Cancel
<1>2. CallTypes' /\ Others(c) /\ call'[c] = Idle /\ Idle.at = "idle" /\ Fits(Idle)
  BY <1>1, IdleRow, OneMoves DEF RaceInv, Types
<1>3. UNCHANGED <<confirmed, on, off, total, tangled, cut, removed>>
  BY DEF Cancel
<1>4. short' \in [Shorts -> ShortRows] /\ \A s \in Shorts :
         /\ short'[s].deducted = short[s].deducted
         /\ short'[s].state = "cancelled" \/ short'[s] = short[s]
         /\ s \notin k.sees => short'[s] = short[s]
  <2>1. short' = [s \in Shorts |-> IF s \in k.sees
                     THEN [short[s] EXCEPT !.state = "cancelled"] ELSE short[s]]
        /\ short \in [Shorts -> ShortRows]
    BY DEF Cancel, RaceInv, Types
  <2> QED BY <2>1 DEF ShortRows
<1>5. Types'
  <2>1. \A d \in Calls : CallPlace(call[d])'
    BY <1>2, CallsStay DEF Fits
  <2> QED BY <1>2, <1>3, <1>4, <2>1 DEF RaceInv, Types
<1>6. OffInv'
  BY <1>2, <1>3, OffNothing, OffStays
<1>7. TimeInv'
  <2>1. PendingIsOwed'
    BY <1>4 DEF RaceInv, TimeInv, PendingIsOwed
  <2>2. InTime(call[c])'
    BY <1>2 DEF InTime, SheetAts, LineAts, OffAts
  <2> QED BY <1>2, <1>3, <1>4, <2>1, <2>2, TimeStays
<1>8. CountInv'
  <2>0. (\A s \in k.sees : Owner[s] = k.emp) /\ SeesFree(k)
    BY <1>0 DEF Fits, SeesOwn, LineAts
  <2>1. Shrinks
    BY <1>0, <1>2, <1>3, ZeroStays DEF Shrinks, RaceInv, CountInv, TotalsFit
  <2>2. LosesLines(c)
    BY <1>3, Unlost
  <2>3. \A s \in Shorts, p \in Payrolls : Held(s, p) /\ Owner[s] \notin {k.emp} => Held(s, p)'
    BY <1>4, <2>0 DEF Held
  <2>4. SeesOwn(call[c])' /\ SeesFree(call[c])'
    BY <1>2, SeesNothing DEF LineAts
  <2>5. CountedIsHeld'
    <3> SUFFICES ASSUME NEW p \in Payrolls, NEW e \in Employees, NEW s \in total'[p][e].short
                 PROVE  Held(s, p)' \/ Excused(e)' \/ Zeroing(p)'
      BY DEF CountedIsHeld, Held, Excused, Zeroing
    <3>1. s \in Shorts /\ s \in total[p][e].short /\ (Held(s, p) \/ Excused(e) \/ Zeroing(p))
      BY <1>3 DEF RaceInv, Types, CountInv, CountedIsHeld, Held, Excused, Zeroing
    <3>2. (Excused(e) => Excused(e)') /\ (Zeroing(p) => Zeroing(p)')
      BY <1>0, <1>1, <1>2, <1>3, ZeroStays DEF Excused, Writes
    <3>3. CASE s \in k.sees
      <4>1. Excused(e) \/ Zeroing(p)
        BY <1>0, <2>0, <3>1, <3>3 DEF SeesFree
      <4> QED BY <3>2, <4>1
    <3>4. CASE s \notin k.sees
      <4>1. Held(s, p) => Held(s, p)'
        BY <1>4, <3>1, <3>4 DEF Held
      <4> QED BY <3>1, <3>2, <4>1
    <3> QED BY <3>3, <3>4
  <2> QED BY <1>1, <1>2, <1>3, <2>1, <2>2, <2>3, <2>4, <2>5, CountStays
<1> QED BY <1>2, <1>5, <1>6, <1>7, <1>8 DEF RaceInv

LEMMA FailStep ==
  ASSUME RaceInv, NEW c \in Calls, Fail(c)
  PROVE  RaceInv' /\ Others(c)
<1> DEFINE k == call[c]
<1>1. /\ UNCHANGED <<confirmed, on, off, short, total, mixed, tangled, removed>>
      /\ cut \subseteq cut' /\ Ends(c)
      /\ k.at = "zero" => on[k.sheet] \subseteq cut'
  BY DEF Fail, rows
<1>2. CASE k.at # "zero"
  BY <1>1, <1>2, EndsMoves, QuietStep DEF Quiet
<1>3. CASE k.at = "zero"
  <2>0. One(c, Idle)
    BY <1>1, EndsMoves
  <2>1. CallTypes' /\ Others(c) /\ call'[c] = Idle /\ Idle.at = "idle" /\ Fits(Idle)
    BY <2>0, IdleRow, OneMoves DEF RaceInv, Types
  <2>2. Types'
    <3>1. \A d \in Calls : CallPlace(call[d])'
      BY <2>1, CallsStay DEF Fits
    <3> QED BY <1>1, <2>1, <3>1 DEF RaceInv, Types
  <2>3. OffInv'
    BY <1>1, <2>1, OffNothing, OffStays
  <2>4. TimeInv'
    <3>1. PendingIsOwed'
      BY <1>1 DEF RaceInv, TimeInv, PendingIsOwed
    <3>2. InTime(call[c])'
      BY <2>1 DEF InTime, SheetAts, LineAts, OffAts
    <3> QED BY <1>1, <2>1, <3>1, <3>2, TimeStays
  <2>5. CountInv'
    <3>1. Shrinks
      <4> SUFFICES ASSUME NEW p \in Payrolls, NEW e \in Employees, NEW s \in total'[p][e].short
                   PROVE  /\ s \in total[p][e].short /\ e \in on'[p]
                          /\ Zeroing(p) => Zeroing(p)' \/ Excused(e)'
        BY DEF Shrinks
      <4>1. s \in total[p][e].short /\ e \in on[p]
        BY <1>1 DEF RaceInv, CountInv, TotalsFit
      <4>2. CASE p = k.sheet
        BY <1>1, <1>3, <4>1, <4>2 DEF Excused
      <4>3. CASE p # k.sheet
        <5>1. Zeroing(p) => Zeroing(p)'
          BY <2>1, <4>3 DEF Zeroing, Others
        <5> QED BY <1>1, <4>1, <5>1
      <4> QED BY <4>2, <4>3
    <3>2. LosesLines(c)
      BY <1>1, Unlost
    <3>3. \A s \in Shorts, p \in Payrolls : Held(s, p) => Held(s, p)'
      BY <1>1 DEF Held
    <3>4. SeesOwn(call[c])' /\ SeesFree(call[c])'
      BY <2>1, SeesNothing DEF LineAts
    <3>5. CountedIsHeld'
      BY <1>1, <3>1, <3>3, CountedStays
    <3>6. Writes(c, {})
      BY <1>1 DEF Writes
    <3> QED BY <1>1, <2>1, <3>1, <3>2, <3>3, <3>4, <3>5, <3>6, CountStays
  <2> QED BY <2>1, <2>2, <2>3, <2>4, <2>5 DEF RaceInv
<1> QED BY <1>2, <1>3

-----------------------------------------------------------------------------
LEMMA InitHolds ==
  ASSUME Init
  PROVE  RaceInv
<1>1. \A c \in Calls : call[c] = Idle /\ Idle.at = "idle" /\ Fits(Idle)
  BY IdleRow DEF Init
<1>2. Types
  <2>1. short \in [Shorts -> ShortRows]
    BY DEF Init, ShortRows, MaybeSheet
  <2>2. total \in [Payrolls -> [Employees -> [short : SUBSET Shorts, long : Nat]]]
    BY NoTotalRow DEF Init
  <2>3. CallTypes
    BY <1>1 DEF Init, CallTypes, Fits
  <2> QED BY <1>1, <2>1, <2>2, <2>3 DEF Init, Types, Fits
<1>3. OffInv
  BY <1>1 DEF Init, OffInv, RemovedStayAway, Fits
<1>4. TimeInv
  BY <1>1 DEF Init, TimeInv, PendingIsOwed, Fits
<1>5. CountInv
  <2>1. \A p \in Payrolls, e \in Employees : total[p][e].short = {}
    BY NoTotalRow DEF Init
  <2> QED BY <1>1, <2>1 DEF CountInv, TotalsFit, CountedIsHeld, Fits
<1> QED BY <1>2, <1>3, <1>4, <1>5 DEF RaceInv

LEMMA BeginStep ==
  ASSUME RaceInv, NEW c \in Calls, Begin(c)
  PROVE  RaceInv'
<1> USE RaceAssumption
<1>1. CASE \E p \in Payrolls : Start(c, p, "link")
  BY <1>1, StartStep
<1>2. CASE \E p \in Payrolls : StartConfirm(c, p)
  BY <1>2, StartConfirmStep
<1>3. CASE \E p \in Edited : Start(c, p, "calc")
  BY <1>3, StartStep
<1>4. CASE \E p \in Edited, e \in Employees : StartDelete(c, p, e) \/ StartPutBack(c, p, e)
  BY <1>4, StartDeleteStep
<1>5. CASE \E s \in Shorts : StartCancel(c, s)
  BY <1>5, StartCancelStep
<1> QED BY <1>1, <1>2, <1>3, <1>4, <1>5 DEF Begin

LEMMA NextStep ==
  ASSUME RaceInv, PaysFinite, Next
  PROVE  RaceInv'
<1> SUFFICES ASSUME NEW c \in Calls, Work(c)
             PROVE  RaceInv'
  BY BeginStep DEF Next
<1>1. CASE Revert(c) \/ FreeShorts(c) \/ Zero(c) \/ FreePays(c) \/ Rerun(c)
  BY <1>1, RevertStep, FreeShortsStep, ZeroStep, FreePaysStep, RerunStep
<1>2. CASE DropLines(c) \/ MakeLines(c) \/ Check(c) \/ ReadLines(c)
  BY <1>2, DropLinesStep, MakeLinesStep, CheckStep, ReadLinesStep
<1>3. CASE (\E e \in Employees : ReadShorts(c, e)) \/ TakeShorts(c) \/ ReadLongs(c)
  BY <1>3, ReadShortsStep, TakeShortsStep, ReadLongsStep
<1>4. CASE (\E a \in Longs : FindPay(c, a)) \/ Pay(c) \/ Mark(c) \/ AllFound(c)
  BY <1>4, FindPayStep, PayStep, MarkStep, AllFoundStep
<1>5. CASE WriteLine(c) \/ Done(c)
  BY <1>5, WriteLineStep, DoneStep
<1>6. CASE DropLine(c) \/ ReadOff(c) \/ WriteOff(c) \/ AddLine(c)
  BY <1>6, DropLineStep, ReadOffStep, WriteOffStep, AddLineStep
<1>7. CASE ReadOwed(c) \/ Deduct(c) \/ SetConfirmed(c) \/ Cancel(c) \/ Fail(c)
  BY <1>7, ReadOwedStep, DeductStep, SetConfirmedStep, CancelStep, FailStep
<1> QED BY <1>1, <1>2, <1>3, <1>4, <1>5, <1>6, <1>7 DEF Work

LEMMA StutterStep ==
  ASSUME RaceInv, UNCHANGED vars
  PROVE  RaceInv'
<1>1. Types' /\ (\A c \in Calls : call'[c] = call[c])
  BY DEF vars, RaceInv, Types, CallTypes, CallPlace
<1>2. OffInv'
  BY DEF vars, RaceInv, OffInv, RemovedStayAway, KnowsOff
<1>3. TimeInv'
  BY DEF vars, RaceInv, TimeInv, PendingIsOwed, InTime
<1>4. CountInv'
  BY DEF vars, RaceInv, CountInv, TotalsFit, CountedIsHeld, SeesOwn, SeesFree, Held,
         Excused, Zeroing
<1> QED BY <1>1, <1>2, <1>3, <1>4 DEF RaceInv

-----------------------------------------------------------------------------
(* A confirmed sheet. *)
Keeps(p) ==
  /\ p \in confirmed' /\ on'[p] = on[p]
  /\ \A s \in Shorts : short[s].sheet = p /\ short[s].deducted => short'[s] = short[s]

LEMMA GoesOn ==
  ASSUME CallTypes, NEW c \in Calls, NEW a, Goes(c, a), call[c].at # a
  PROVE  call'[c] # call[c]
<1>1. call[c] \in CallRows
  BY DEF CallTypes
<1>2. call'[c] = [call[c] EXCEPT !.at = a]
  BY DEF Goes, CallTypes
<1>3. call'[c].at = a
  BY <1>1, <1>2 DEF CallRows
<1> QED BY <1>3

LEMMA EndsOn ==
  ASSUME CallTypes, NEW c \in Calls, Ends(c), call[c].at # "idle"
  PROVE  call'[c] # call[c]
<1> QED BY IdleRow DEF Ends, CallTypes

(* No step leaves the call as it was. *)
LEMMA WorkMoves ==
  ASSUME CallTypes, NEW c \in Calls, Work(c)
  PROVE  call'[c] # call[c]
<1> DEFINE k == call[c]
<1>0. k \in CallRows
  BY DEF CallTypes
<1>1. CASE \/ Revert(c) \/ FreeShorts(c) \/ Zero(c) \/ Check(c) \/ AllFound(c)
           \/ TakeShorts(c)
  BY <1>1, GoesOn, EndsOn DEF Revert, FreeShorts, Zero, Check, AllFound, TakeShorts, AfterRevert
<1>2. CASE FreePays(c)
  BY <1>0, <1>2 DEF FreePays, CallTypes, CallRows
<1>3. CASE Rerun(c)
  <2>1. call'[c].at = AfterRevert(c)
    BY <1>0, <1>3 DEF Rerun, CallTypes, CallRows
  <2> QED BY <1>3, <2>1, AfterRevertAt DEF Rerun
<1>4. CASE DropLines(c)
  <2>1. call'[c].at = "makeLines"
    BY <1>0, <1>4 DEF DropLines, Lost, CallTypes, CallRows
  <2> QED BY <1>4, <2>1 DEF DropLines
<1>5. CASE MakeLines(c)
  BY <1>0, <1>5, EndsOn DEF MakeLines, CallTypes, CallRows
<1>6. CASE ReadLines(c)
  <2>1. call'[c].at = "nextLine"
    BY <1>0, <1>6 DEF ReadLines, CallTypes, CallRows
  <2> QED BY <1>6, <2>1 DEF ReadLines
<1>18. CASE ReadOff(c)
  <2>1. call'[c].at = "writeOff"
    BY <1>0, <1>18 DEF ReadOff, CallTypes, CallRows
  <2> QED BY <1>18, <2>1 DEF ReadOff
<1>17. CASE ReadOwed(c)
  <2>1. call'[c].at = "deduct"
    BY <1>0, <1>17 DEF ReadOwed, CallTypes, CallRows
  <2> QED BY <1>17, <2>1 DEF ReadOwed
<1>16. CASE Mark(c)
  BY <1>0, <1>16 DEF Mark, CallTypes, CallRows
<1>15. CASE ReadLongs(c)
  <2>1. call'[c].at = "findPay"
    BY <1>0, <1>15 DEF ReadLongs, CallTypes, CallRows
  <2> QED BY <1>15, <2>1 DEF ReadLongs
<1>7. CASE \E e \in Employees : ReadShorts(c, e)
  BY <1>0, <1>7 DEF ReadShorts, CallTypes, CallRows
<1>8. CASE \E a \in Longs : FindPay(c, a)
  <2>1. PICK a \in Longs : FindPay(c, a)
    BY <1>8
  <2>2. call'[c].at = "pay" \/ call'[c].due = k.due \ {a}
    BY <1>0, <2>1 DEF FindPay, CallTypes, CallRows
  <2> QED BY <2>1, <2>2 DEF FindPay
<1>9. CASE Pay(c) \/ WriteLine(c) \/ WriteOff(c) \/ AddLine(c)
  BY <1>0, <1>9, EndsOn DEF Pay, WriteLine, WriteOff, AddLine, CallTypes, CallRows
<1>10. CASE Done(c) \/ Cancel(c)
  BY <1>10, EndsOn DEF Done, Cancel
<1>11. CASE DropLine(c)
  <2>1. Ends(c) \/ call'[c].at = "readOff"
    BY <1>0, <1>11 DEF DropLine, Lost, CallTypes, CallRows
  <2> QED BY <1>11, <2>1, EndsOn DEF DropLine
<1>12. CASE Deduct(c)
  <2>1. call'[c] = [k EXCEPT !.at = "setConfirmed", !.sees = {}]
    BY <1>12 DEF Deduct, Overtakes
  <2>2. call'[c].at = "setConfirmed"
    BY <1>0, <2>1 DEF CallRows
  <2> QED BY <1>12, <2>2 DEF Deduct
<1>13. CASE SetConfirmed(c)
  BY <1>13, IdleRow DEF SetConfirmed, Overtakes
<1>14. CASE Fail(c)
  BY <1>14 DEF Fail, Ends, CallTypes
<1> QED BY <1>1, <1>2, <1>3, <1>4, <1>5, <1>6, <1>7, <1>8, <1>9, <1>10, <1>11, <1>12,
          <1>13, <1>14, <1>15, <1>16, <1>17, <1>18 DEF Work

(* A call that was not overtaken leaves every confirmed sheet as it is. *)
LEMMA InTimeKeeps ==
  ASSUME RaceInv, NEW c \in Calls, Work(c), ~call[c].late, NEW p \in confirmed
  PROVE  Keeps(p)
<1> DEFINE k == call[c]
           Else == k.at \in SheetAts \cup LineAts \cup OffAts => k.sheet # p
           Owed == k.at \in {"takeShorts", "deduct", "cancel"} =>
                     \A s \in k.sees \cap Shorts : ~short[s].deducted
<1>0. Else /\ Owed /\ p \in Payrolls /\ on \in [Payrolls -> SUBSET Employees]
  BY DEF RaceInv, Types, TimeInv, InTime
<1>1. CASE UNCHANGED <<on, short>> /\ confirmed \subseteq confirmed'
  BY <1>1 DEF Keeps
<1>2. CASE Done(c)
  BY <1>0, <1>2 DEF Done, Keeps, rows, SheetAts
<1>3. CASE FreeShorts(c)
  BY <1>0, <1>3 DEF FreeShorts, HeldBy, Keeps
<1>4. CASE DropLines(c)
  <2>1. k.sheet # p
    BY <1>0, <1>4 DEF DropLines, SheetAts
  <2> QED BY <1>0, <1>4, <2>1 DEF DropLines, Unpointed, Keeps
<1>5. CASE MakeLines(c)
  <2>1. k.sheet # p
    BY <1>0, <1>5 DEF MakeLines, SheetAts
  <2>2. on' = on \/ on' = [on EXCEPT ![k.sheet] = on[k.sheet] \cup k.todo]
    BY <1>5 DEF MakeLines
  <2> QED BY <1>0, <1>5, <2>1, <2>2 DEF MakeLines, Keeps, rows
<1>6. CASE TakeShorts(c)
  BY <1>0, <1>6 DEF TakeShorts, Keeps
<1>7. CASE DropLine(c)
  <2>1. k.sheet # p
    BY <1>0, <1>7 DEF DropLine, OffAts
  <2>2. on' = on \/ on' = [on EXCEPT ![k.sheet] = on[k.sheet] \ {k.emp}]
    BY <1>7 DEF DropLine
  <2>3. short' = short \/ short' = Unpointed(k.sheet, {k.emp})
    BY <1>7 DEF DropLine
  <2> QED BY <1>0, <1>7, <2>1, <2>2, <2>3 DEF DropLine, Unpointed, Keeps
<1>8. CASE AddLine(c)
  <2>1. k.sheet # p
    BY <1>0, <1>8 DEF AddLine, OffAts
  <2>2. on' = on \/ on' = [on EXCEPT ![k.sheet] = on[k.sheet] \cup {k.emp}]
    BY <1>8 DEF AddLine
  <2> QED BY <1>0, <1>8, <2>1, <2>2 DEF AddLine, Keeps, rows
<1>9. CASE Deduct(c)
  BY <1>0, <1>9 DEF Deduct, Keeps
<1>10. CASE Cancel(c)
  BY <1>0, <1>10 DEF Cancel, Keeps
<1>11. CASE \/ Revert(c) \/ Zero(c) \/ FreePays(c) \/ Rerun(c) \/ Check(c) \/ ReadLines(c)
            \/ (\E e \in Employees : ReadShorts(c, e)) \/ ReadLongs(c)
            \/ (\E a \in Longs : FindPay(c, a)) \/ Pay(c) \/ Mark(c) \/ AllFound(c)
            \/ WriteLine(c) \/ ReadOff(c) \/ WriteOff(c) \/ ReadOwed(c)
            \/ SetConfirmed(c) \/ Fail(c)
  BY <1>1, <1>11 DEF Revert, Zero, FreePays, Rerun, Check, ReadLines, ReadShorts, ReadLongs,
       FindPay, Pay, Mark, AllFound, WriteLine, ReadOff, WriteOff, ReadOwed, SetConfirmed,
       Fail, rows
<1> QED BY <1>2, <1>3, <1>4, <1>5, <1>6, <1>7, <1>8, <1>9, <1>10, <1>11 DEF Work

LEMMA BeginKeeps ==
  ASSUME NEW c \in Calls, Begin(c), NEW p \in confirmed
  PROVE  Keeps(p)
<1>1. UNCHANGED <<confirmed, on, short>>
  BY DEF Begin, Start, StartConfirm, StartDelete, StartPutBack, StartCancel, rows
<1> QED BY <1>1 DEF Keeps

-----------------------------------------------------------------------------
(* Payments.  Most steps write none, and leave the call elsewhere. *)
Away(c) ==
  /\ Others(c) /\ UNCHANGED <<long, pays>>
  /\ mixed \subseteq mixed' /\ cut \subseteq cut'
  /\ call[c].at # "rerun" /\ call'[c].at \notin PayAts

LEMMA GoesAway ==
  ASSUME CallTypes, NEW c \in Calls, NEW a, Goes(c, a)
  PROVE  call'[c].at = a
<1>1. call[c] \in CallRows
  BY DEF CallTypes
<1>2. call'[c] = [call[c] EXCEPT !.at = a]
  BY DEF Goes, CallTypes
<1> QED BY <1>1, <1>2 DEF CallRows

LEMMA EndsAway ==
  ASSUME CallTypes, NEW c \in Calls, Ends(c)
  PROVE  call'[c].at = "idle"
<1> QED BY IdleRow DEF Ends, CallTypes

LEMMA BeginAway ==
  ASSUME RaceInv, NEW c \in Calls, Begin(c)
  PROVE  Away(c)
<1>0. CallTypes /\ \A x : x = Idle => x.at = "idle"
  BY IdleRow DEF RaceInv, Types
<1>1. ASSUME NEW p \in Payrolls, NEW does \in {"link", "calc"}, Start(c, p, does)
      PROVE  Away(c)
  <2>1. call'[c].at = "revert"
    BY <1>0, <1>1 DEF Start, CallTypes, Idle
  <2> QED BY <1>0, <1>1, <2>1, StartStep DEF Start, Away, PayAts, rows
<1>2. ASSUME NEW p \in Payrolls, StartConfirm(c, p)
      PROVE  Away(c)
  <2>1. call'[c].at = "readOwed"
    BY <1>0, <1>2 DEF StartConfirm, CallTypes, Idle
  <2> QED BY <1>0, <1>2, <2>1, StartConfirmStep DEF StartConfirm, Away, PayAts, rows
<1>3. ASSUME NEW p \in Payrolls, NEW e \in Employees, StartDelete(c, p, e)
      PROVE  Away(c)
  <2>1. call'[c].at = "dropLine"
    BY <1>0, <1>3 DEF StartDelete, CallTypes, Idle
  <2> QED BY <1>0, <1>3, <2>1, StartDeleteStep DEF StartDelete, Away, PayAts, rows
<1>4. ASSUME NEW p \in Payrolls, NEW e \in Employees, StartPutBack(c, p, e)
      PROVE  Away(c)
  <2>1. call'[c].at = "readOff"
    BY <1>0, <1>4 DEF StartPutBack, CallTypes, Idle
  <2> QED BY <1>0, <1>4, <2>1, StartDeleteStep DEF StartPutBack, Away, PayAts, rows
<1>5. ASSUME NEW s \in Shorts, StartCancel(c, s)
      PROVE  Away(c)
  <2>1. call'[c].at = "cancel"
    BY <1>0, <1>5 DEF StartCancel, CallTypes, Idle
  <2> QED BY <1>0, <1>5, <2>1, StartCancelStep DEF StartCancel, Away, PayAts, rows
<1> QED BY <1>1, <1>2, <1>3, <1>4, <1>5, RaceAssumption DEF Begin

LEMMA WorkAway ==
  ASSUME RaceInv, NEW c \in Calls,
         Work(c), ~FreePays(c), ~Rerun(c), ~ReadLongs(c),
         ~(\E a \in Longs : FindPay(c, a)), ~Pay(c), ~Mark(c), ~Fail(c)
  PROVE  Away(c)
<1>0. CallTypes /\ call[c] \in CallRows
  BY DEF RaceInv, Types, CallTypes
<1>1. CASE Revert(c)
  <2>1. call'[c].at \in {"freeShorts", "dropLines", "readLines"}
    BY <1>0, <1>1, GoesAway, AfterRevertAt DEF Revert
  <2> QED BY <1>1, <2>1, RevertStep DEF Revert, Away, PayAts, rows
<1>2. CASE FreeShorts(c)
  <2>1. call'[c].at = "zero"
    BY <1>0, <1>2, GoesAway DEF FreeShorts
  <2> QED BY <1>2, <2>1, FreeShortsStep DEF FreeShorts, Away, PayAts, Writes
<1>3. CASE Zero(c)
  <2>1. call'[c].at = "freePays"
    BY <1>0, <1>3, GoesAway DEF Zero
  <2> QED BY <1>3, <2>1, ZeroStep DEF Zero, Away, PayAts, Writes, rows
<1>4. CASE DropLines(c)
  <2>1. call'[c].at = "makeLines"
    BY <1>0, <1>4 DEF DropLines, Lost, CallTypes, CallRows
  <2> QED BY <1>4, <2>1, DropLinesStep DEF DropLines, Away, PayAts, Writes
<1>5. CASE MakeLines(c)
  <2>1. call'[c].at \in {"idle", "check"}
    BY <1>0, <1>5, EndsAway DEF MakeLines, CallTypes, CallRows
  <2> QED BY <1>5, <2>1, MakeLinesStep DEF MakeLines, Away, PayAts, rows
<1>6. CASE Check(c)
  <2>1. call'[c].at \in {"idle", "revert"}
    BY <1>0, <1>6, EndsAway, GoesAway DEF Check
  <2> QED BY <1>6, <2>1, CheckStep DEF Check, Away, PayAts, rows
<1>7. CASE ReadLines(c)
  <2>1. call'[c].at = "nextLine"
    BY <1>0, <1>7 DEF ReadLines, CallTypes, CallRows
  <2> QED BY <1>7, <2>1, ReadLinesStep DEF ReadLines, Away, PayAts, rows
<1>8. CASE \E e \in Employees : ReadShorts(c, e)
  <2>0. PICK e \in Employees : ReadShorts(c, e)
    BY <1>8
  <2>1. call'[c].at = "takeShorts"
    BY <1>0, <2>0 DEF ReadShorts, CallTypes, CallRows
  <2> QED BY <2>0, <2>1, ReadShortsStep DEF ReadShorts, Away, PayAts, rows
<1>9. CASE TakeShorts(c)
  <2>1. call'[c].at \in {"idle", "readLongs"}
    BY <1>0, <1>9, EndsAway, GoesAway DEF TakeShorts
  <2> QED BY <1>9, <2>1, TakeShortsStep DEF TakeShorts, Away, PayAts, Writes
<1>10. CASE AllFound(c)
  <2>1. call'[c].at = "writeLine"
    BY <1>0, <1>10, GoesAway DEF AllFound
  <2> QED BY <1>10, <2>1, AllFoundStep DEF AllFound, Away, PayAts, rows
<1>11. CASE WriteLine(c)
  <2>1. call'[c].at \in {"idle", "nextLine"}
    BY <1>0, <1>11, EndsAway DEF WriteLine, CallTypes, CallRows
  <2> QED BY <1>11, <2>1, WriteLineStep DEF WriteLine, Away, PayAts, Writes, rows
<1>12. CASE Done(c)
  <2>1. call'[c].at = "idle"
    BY <1>0, <1>12, EndsAway DEF Done
  <2> QED BY <1>12, <2>1, DoneStep DEF Done, Away, PayAts, rows
<1>13. CASE DropLine(c)
  <2>1. call'[c].at \in {"idle", "readOff"}
    BY <1>0, <1>13, EndsAway DEF DropLine, Lost, CallTypes, CallRows
  <2> QED BY <1>13, <2>1, DropLineStep DEF DropLine, Away, PayAts, Writes
<1>14. CASE ReadOff(c)
  <2>1. call'[c].at = "writeOff"
    BY <1>0, <1>14 DEF ReadOff, CallTypes, CallRows
  <2> QED BY <1>14, <2>1, ReadOffStep DEF ReadOff, Away, PayAts, rows
<1>15. CASE WriteOff(c)
  <2>1. call'[c].at \in {"idle", "addLine"}
    BY <1>0, <1>15, EndsAway DEF WriteOff, CallTypes, CallRows
  <2> QED BY <1>15, <2>1, WriteOffStep DEF WriteOff, Away, PayAts, rows
<1>16. CASE AddLine(c)
  <2>1. call'[c].at \in {"idle", "check"}
    BY <1>0, <1>16, EndsAway DEF AddLine, CallTypes, CallRows
  <2> QED BY <1>16, <2>1, AddLineStep DEF AddLine, Away, PayAts, rows
<1>17. CASE ReadOwed(c)
  <2>1. call'[c].at = "deduct"
    BY <1>0, <1>17 DEF ReadOwed, CallTypes, CallRows
  <2> QED BY <1>17, <2>1, ReadOwedStep DEF ReadOwed, Away, PayAts, rows
<1>18. CASE Deduct(c)
  <2>1. call'[c] = [call[c] EXCEPT !.at = "setConfirmed", !.sees = {}]
    BY <1>18 DEF Deduct, Overtakes
  <2>2. call'[c].at = "setConfirmed"
    BY <1>0, <2>1 DEF CallRows
  <2> QED BY <1>18, <2>2, DeductStep DEF Deduct, Away, PayAts, Writes
<1>19. CASE SetConfirmed(c)
  <2>1. call'[c].at = "idle"
    BY <1>19, IdleRow DEF SetConfirmed, Overtakes
  <2> QED BY <1>19, <2>1, SetConfirmedStep DEF SetConfirmed, Away, PayAts, rows
<1>20. CASE Cancel(c)
  <2>1. call'[c].at = "idle"
    BY <1>0, <1>20, EndsAway DEF Cancel
  <2> QED BY <1>20, <2>1, CancelStep DEF Cancel, Away, PayAts, Writes
<1> QED BY <1>1, <1>2, <1>3, <1>4, <1>5, <1>6, <1>7, <1>8, <1>9, <1>10, <1>11, <1>12,
          <1>13, <1>14, <1>15, <1>16, <1>17, <1>18, <1>19, <1>20 DEF Work

(* What a step does to the payments, another call knows of. *)
Told(c) ==
  /\ mixed \subseteq mixed'
  /\ \A a \in Longs : \/ pays'[a] = pays[a]
                      \/ \A d \in Calls \ {c} : Holds(d, Owner[a]) => Owner[a] \in mixed'

LEMMA WritesTold ==
  ASSUME NEW c \in Calls, NEW E, Writes(c, E),
         \A a \in Longs : pays'[a] = pays[a] \/ Owner[a] \in E
  PROVE  Told(c)
<1> QED BY DEF Writes, Told

LEMMA SamePays ==
  ASSUME NEW a, pays'[a] = pays[a]
  PROVE  /\ Paid(a)' = Paid(a) /\ Left(a)' = Left(a)
         /\ \A p : On(a, p)' = On(a, p)
<1> QED BY DEF Paid, Left, On

LEMMA OthersKnow ==
  ASSUME IInv, NEW c \in Calls, Others(c), Told(c), NEW d \in Calls \ {c}
  PROVE  KnowsPays(call[d])'
<1> DEFINE k == call[d]
           m == call'[d]
<1>1. /\ m.at = k.at /\ m.sheet = k.sheet /\ m.emp = k.emp
      /\ m.sees = k.sees /\ m.due = k.due /\ m.left = k.left
  BY DEF Others
<1>2. k \in CallRows /\ KnowsPays(k)
  BY DEF IInv, RaceInv, Types, CallTypes, PayInv
<1>3. SUFFICES ASSUME NEW a \in Longs, k.at \in PayAts, a \in k.due, k.emp \notin mixed'
      PROVE  RightPay(call[d], a)'
  <2>1. \A a \in k.due : a \in Longs /\ (k.at \in PayAts => Owner[a] = k.emp)
    BY <1>2 DEF CallRows, KnowsPays
  <2> QED BY <1>1, <2>1 DEF KnowsPays
<1>4. Holds(d, k.emp) /\ k.emp \notin mixed /\ Owner[a] = k.emp
  BY <1>2, <1>3 DEF Holds, PayAts, Told, KnowsPays
<1>5. pays'[a] = pays[a]
  BY <1>3, <1>4 DEF Told
<1>6. RightPay(k, a)
  BY <1>2, <1>3, <1>4 DEF KnowsPays
<1>7. Paid(a)' = Paid(a) /\ Left(a)' = Left(a) /\ On(a, call[d].sheet)' = On(a, k.sheet)
  BY <1>1, <1>5 DEF Paid, Left, On
<1> QED BY <1>1, <1>6, <1>7 DEF RightPay

LEMMA RerunsStay ==
  ASSUME NEW c \in Calls, Others(c), NEW a,
         \E d \in Calls : call[d].at = "rerun" /\ a \in call[d].due
  PROVE  \/ \E d \in Calls : call'[d].at = "rerun" /\ a \in call'[d].due
         \/ call[c].at = "rerun" /\ a \in call[c].due
<1> QED BY DEF Others

(* A step that writes no payment and marks no advance. *)
LEMMA PaysStay ==
  ASSUME IInv, NEW c \in Calls, Others(c), UNCHANGED pays,
         mixed \subseteq mixed', cut \subseteq cut'
  PROVE  /\ PaysFinite' /\ PaidOnce' /\ \A d \in Calls \ {c} : KnowsPays(call[d])'
         /\ UNCHANGED long /\ call[c].at # "rerun" => DoneIsPaid'
<1>1. \A a \in Longs : Paid(a)' = Paid(a) /\ Left(a)' = Left(a) /\ \A p : On(a, p)' = On(a, p)
  BY SamePays
<1>2. PaysFinite' /\ PaidOnce'
  BY <1>1 DEF IInv, PayInv, PaysFinite, PaidOnce
<1>3. \A d \in Calls \ {c} : KnowsPays(call[d])'
  BY OthersKnow DEF Told
<1>4. ASSUME UNCHANGED long, call[c].at # "rerun" PROVE DoneIsPaid'
  BY <1>1, <1>4, RerunsStay DEF IInv, PayInv, DoneIsPaid
<1> QED BY <1>2, <1>3, <1>4

LEMMA AwayPays ==
  ASSUME IInv, NEW c \in Calls, Away(c)
  PROVE  PayInv'
<1>1. KnowsPays(call[c])'
  BY DEF Away, KnowsPays
<1> QED BY <1>1, PaysStay DEF Away, PayInv

LEMMA ReadLongsPays ==
  ASSUME IInv, NEW c \in Calls, ReadLongs(c)
  PROVE  PayInv'
<1> DEFINE k == call[c]
           D == {a \in Mine(k.emp) : long[a] = "running"}
           m == [k EXCEPT !.at = "findPay", !.count = 0, !.due = D, !.left = Lefts]
<1>a. k.at = "readLongs"
  BY DEF ReadLongs, Mine
<1>0. k \in CallRows /\ k.sees \subseteq Shorts
  BY <1>a DEF IInv, RaceInv, Types, CallTypes, CountInv, SeesOwn, LineAts
<1>1. Others(c)
  BY ReadLongsStep DEF IInv, PayInv
<1>b. UNCHANGED <<confirmed, on, off, rows, total, mixed, tangled, cut, removed>>
  BY DEF ReadLongs, Mine
<1>2. UNCHANGED <<long, pays, mixed, cut>>
  BY <1>b DEF rows
<1>3. One(c, m)
  BY DEF ReadLongs, Mine, One
<1> HIDE DEF D
<1>4. /\ call'[c].at = "findPay" /\ call'[c].due = D /\ call'[c].sees = k.sees
      /\ call'[c].emp = k.emp /\ call'[c].left = Lefts
  <2>1. call'[c] = m
    BY <1>3 DEF One, IInv, RaceInv, Types, CallTypes
  <2> QED BY <1>0, <2>1 DEF CallRows
<1>5. KnowsPays(call[c])'
  <2>1. ASSUME NEW a \in D
        PROVE  Owner[a] = k.emp /\ RightPay(call[c], a)'
    <3>1. a \in Longs /\ Owner[a] = k.emp /\ a \notin k.sees
      BY <1>0, <2>1, RaceAssumption DEF D, Mine
    <3>2. Left(a)' = Left(a) /\ Lefts[a] = Left(a)
      BY <1>2, <3>1, SamePays DEF Lefts
    <3> QED BY <1>4, <3>1, <3>2 DEF RightPay
  <2> QED BY <1>4, <2>1 DEF KnowsPays
<1> QED BY <1>a, <1>1, <1>2, <1>5, PaysStay DEF PayInv

LEMMA FindPayPays ==
  ASSUME IInv, NEW c \in Calls, NEW a \in Longs, FindPay(c, a)
  PROVE  PayInv'
<1> DEFINE k == call[c]
<1>0. /\ k \in CallRows /\ k.at = "findPay" /\ k.sees \subseteq Shorts /\ KnowsPays(k)
      /\ a \in k.due
  BY DEF IInv, RaceInv, Types, CallTypes, CountInv, SeesOwn, FindPay, LineAts, PayInv
<1>1. Others(c)
  BY FindPayStep DEF IInv
<1>2. UNCHANGED <<long, pays, mixed, cut>>
  BY DEF FindPay, rows
<1>3. \A b \in k.due : b \in Longs /\ b \notin k.sees /\ Left(b)' = Left(b)
                       /\ Owner[b] = k.emp /\ (k.emp \in mixed \/ k.left[b] = Left(b))
  <2>1. \A b \in k.due : b \in Longs /\ b \notin k.sees
    BY <1>0, RaceAssumption DEF CallRows
  <2>2. \A b \in k.due : Owner[b] = k.emp /\ (k.emp \in mixed \/ k.left[b] = Left(b))
    BY <1>0, <2>1 DEF KnowsPays, RightPay, PayAts
  <2> QED BY <1>2, <2>1, <2>2, SamePays
<1>4. ASSUME call'[c].at = "findPay", call'[c].due = k.due \ {a},
             call'[c].sees = k.sees, call'[c].emp = k.emp, call'[c].left = k.left
      PROVE  KnowsPays(call[c])'
  <2>1. ASSUME NEW b \in call'[c].due, k.emp \notin mixed
        PROVE  RightPay(call[c], b)'
    BY <1>3, <1>4, <2>1 DEF RightPay
  <2> QED BY <1>2, <1>3, <1>4, <2>1 DEF KnowsPays
<1>5. ASSUME call'[c].at = "pay", call'[c].due = k.due, call'[c].sees = k.sees \cup {a},
             call'[c].emp = k.emp, call'[c].left = k.left, call'[c].sheet = k.sheet,
             On(a, k.sheet) = {}, k.left[a] # 0
      PROVE  KnowsPays(call[c])'
  <2>1. ASSUME NEW b \in call'[c].due, k.emp \notin mixed
        PROVE  RightPay(call[c], b)'
    <3>1. b \in call'[c].sees => b = a
      BY <1>3, <1>5, <2>1
    <3>2. k.left[b] = Left(b)'
      BY <1>3, <1>5, <2>1
    <3>3. On(a, call[c].sheet)' = {}
      BY <1>2, <1>5 DEF On
    <3>4. k.left[a] > 0
      BY <1>0, <1>5 DEF CallRows
    <3> QED BY <1>5, <3>1, <3>2, <3>3, <3>4 DEF RightPay
  <2> QED BY <1>2, <1>3, <1>5, <2>1 DEF KnowsPays
<1>6. KnowsPays(call[c])'
  <2> DEFINE m == [k EXCEPT !.due = k.due \ {a}, !.count = k.count + 1]
             n == [k EXCEPT !.due = k.due \ {a}]
             q == [k EXCEPT !.at = "pay", !.sees = k.sees \cup {a}]
  <2>1. \/ call'[c] = m
        \/ call'[c] = n
        \/ call'[c] = q /\ On(a, k.sheet) = {} /\ k.left[a] # 0
    BY DEF FindPay, IInv, RaceInv, Types, CallTypes
  <2>2. /\ m.at = "findPay" /\ m.due = k.due \ {a} /\ m.sees = k.sees /\ m.emp = k.emp
        /\ m.left = k.left
    BY <1>0 DEF CallRows
  <2>3. /\ n.at = "findPay" /\ n.due = k.due \ {a} /\ n.sees = k.sees /\ n.emp = k.emp
        /\ n.left = k.left
    BY <1>0 DEF CallRows
  <2>4. /\ q.at = "pay" /\ q.due = k.due /\ q.sees = k.sees \cup {a} /\ q.emp = k.emp
        /\ q.left = k.left /\ q.sheet = k.sheet
    BY <1>0 DEF CallRows
  <2> HIDE DEF m, n, q
  <2> QED BY <1>4, <1>5, <2>1, <2>2, <2>3, <2>4
<1> QED BY <1>0, <1>1, <1>2, <1>6, PaysStay DEF PayInv

LEMMA PayPays ==
  ASSUME IInv, NEW c \in Calls, Pay(c)
  PROVE  PayInv'
<1> DEFINE k == call[c]
           q == [k EXCEPT !.at = "mark", !.count = k.count + 1]
<1>0. k \in CallRows /\ k.at = "pay" /\ KnowsPays(k)
  BY DEF IInv, RaceInv, Types, CallTypes, Pay, PayInv
<1>1. Others(c)
  BY PayStep DEF IInv
<1>2. UNCHANGED <<long, cut>> /\ mixed \subseteq mixed'
  BY DEF Pay, Writes
<1>3. CASE k.emp \in k.lost
  <2>1. UNCHANGED pays /\ call'[c].at = "idle"
    BY <1>3, EndsAway DEF Pay, IInv, RaceInv, Types
  <2>2. KnowsPays(call[c])'
    BY <2>1 DEF KnowsPays, PayAts
  <2> QED BY <1>0, <1>1, <1>2, <2>1, <2>2, PaysStay DEF PayInv
<1>4. CASE k.emp \notin k.lost
  <2> DEFINE n(a) == Cardinality(On(a, k.sheet)) + 1
  <2>1. /\ pays' = [a \in Longs |-> pays[a] \cup
                     IF a \in Paying(c) THEN {<<k.sheet, n(a)>>} ELSE {}]
        /\ Writes(c, {k.emp})
    BY <1>4 DEF Pay
  <2>2. call'[c] = q
    BY <1>4 DEF Pay, IInv, RaceInv, Types, CallTypes
  <2>3. /\ q.at = "mark" /\ q.due = k.due /\ q.sees = k.sees /\ q.emp = k.emp
        /\ q.left = k.left
    BY <1>0 DEF CallRows
  <2> HIDE DEF q
  <2>4. \A a \in Longs : a \notin Paying(c) => pays'[a] = pays[a]
    BY <2>1
  <2>5. \A a \in Paying(c) : a \in Longs /\ Owner[a] = k.emp
                             /\ (k.emp \in mixed \/ RightPay(k, a))
    BY <1>0 DEF Paying, KnowsPays, PayAts, CallRows
  <2>6. Told(c)
    BY <2>1, <2>4, <2>5, WritesTold
  <2>7. \A a \in Longs : pays[a] \subseteq pays'[a] /\ IsFiniteSet(pays'[a])
    <3>1. \A a \in Longs : IsFiniteSet(pays[a])
      BY DEF IInv, PayInv, PaysFinite
    <3>2. ASSUME NEW a \in Longs PROVE IsFiniteSet(pays[a] \cup {<<k.sheet, n(a)>>})
      BY <3>1, FS_AddElement
    <3> HIDE DEF n
    <3> QED BY <2>1, <3>1, <3>2
  <2>8. \A a \in Longs : Paid(a) \in Nat /\ Paid(a)' \in Nat /\ Paid(a) <= Paid(a)'
    <3>1. ASSUME NEW a \in Longs
          PROVE  Cardinality(pays[a]) \in Nat /\ Cardinality(pays'[a]) \in Nat
                 /\ Cardinality(pays[a]) <= Cardinality(pays'[a])
      BY <2>7, FS_Subset, FS_CardinalityType
    <3> QED BY <3>1 DEF Paid
  (* The advance that is paid gets its first payment on this sheet. *)
  <2>9. ASSUME NEW a \in Paying(c), k.emp \notin mixed
        PROVE  /\ pays'[a] = pays[a] \cup {<<k.sheet, 1>>}
               /\ Paid(a)' = Paid(a) + 1 /\ Paid(a)' <= Instalments
               /\ k.left[a] = 1 => Paid(a)' >= Instalments
    <3>0. a \in Longs /\ RightPay(k, a) /\ a \in k.sees
      BY <2>5, <2>9 DEF Paying
    <3>1. k.left[a] = Left(a) /\ k.left[a] > 0 /\ On(a, k.sheet) = {}
      BY <1>0, <3>0 DEF RightPay
    <3>2. pays'[a] = pays[a] \cup {<<k.sheet, 1>>}
      <4>1. n(a) = 1
        BY <3>1, FS_EmptySet
      <4> QED BY <2>1, <2>9, <3>0, <4>1
    <3>3. <<k.sheet, 1>> \notin pays[a]
      BY <3>1 DEF On
    <3>4. IsFiniteSet(pays[a])
      BY <3>0 DEF IInv, PayInv, PaysFinite
    <3>5. Cardinality(pays'[a]) = Cardinality(pays[a]) + 1
      BY <3>2, <3>3, <3>4, FS_AddElement
    <3>6. Paid(a)' = Paid(a) + 1 /\ Paid(a) \in Nat
      BY <2>8, <3>0, <3>5 DEF Paid
    <3> QED BY <3>1, <3>2, <3>6, RaceAssumption DEF Left
  <2>10. PaysFinite'
    BY <2>7 DEF PaysFinite
  <2>11. PaidOnce'
    <3>1. SUFFICES ASSUME NEW a \in Longs, Owner[a] \notin mixed'
          PROVE  Paid(a)' <= Instalments
                 /\ \A p \in Payrolls : Cardinality(On(a, p)') <= 1
      BY DEF PaidOnce
    <3>2. Paid(a) <= Instalments /\ \A p \in Payrolls : Cardinality(On(a, p)) <= 1
      BY <1>2, <3>1 DEF IInv, PayInv, PaidOnce
    <3>3. CASE a \notin Paying(c)
      BY <2>4, <3>2, <3>3, SamePays
    <3>4. CASE a \in Paying(c)
      <4>1. k.emp \notin mixed /\ Owner[a] = k.emp
        BY <1>2, <2>5, <3>1, <3>4
      <4>2. On(a, k.sheet) = {}
        BY <1>0, <2>5, <3>4, <4>1 DEF RightPay, Paying
      <4>3. pays'[a] = pays[a] \cup {<<k.sheet, 1>>} /\ Paid(a)' <= Instalments
        BY <2>9, <3>4, <4>1
      <4>4. ASSUME NEW p \in Payrolls PROVE Cardinality(On(a, p)') <= 1
        <5>1. CASE p = k.sheet
          <6>1. On(a, p)' = {<<k.sheet, 1>>}
            BY <4>2, <4>3, <5>1 DEF On
          <6>2. Cardinality({<<k.sheet, 1>>}) = 1
            BY FS_Singleton
          <6> QED BY <6>1, <6>2
        <5>2. CASE p # k.sheet
          <6>1. On(a, p)' = On(a, p)
            BY <4>3, <5>2 DEF On
          <6> QED BY <3>2, <6>1
        <5> QED BY <5>1, <5>2
      <4> QED BY <4>3, <4>4
    <3> QED BY <3>3, <3>4
  <2>12. DoneIsPaid'
    <3>1. SUFFICES ASSUME NEW a \in Longs, long[a] = "done", Owner[a] \notin mixed' \cup cut'
          PROVE  \/ Paid(a)' >= Instalments
                 \/ \E d \in Calls : call'[d].at = "rerun" /\ a \in call'[d].due
      BY <1>2 DEF DoneIsPaid
    <3>2. \/ Paid(a) >= Instalments
          \/ \E d \in Calls : call[d].at = "rerun" /\ a \in call[d].due
      BY <1>2, <3>1 DEF IInv, PayInv, DoneIsPaid
    <3>3. CASE Paid(a) >= Instalments
      BY <2>8, <3>3, RaceAssumption
    <3>4. CASE \E d \in Calls : call[d].at = "rerun" /\ a \in call[d].due
      BY <1>0, <1>1, <3>4, RerunsStay
    <3> QED BY <3>2, <3>3, <3>4
  <2>13. KnowsPays(call[c])'
    <3>1. ASSUME NEW a \in k.due
          PROVE  Owner[a] = k.emp /\ (k.emp \in mixed' \/ RightPay(call[c], a)')
      <4>1. a \in Longs /\ Owner[a] = k.emp /\ (k.emp \in mixed \/ RightPay(k, a))
        BY <1>0, <3>1 DEF KnowsPays, PayAts, CallRows
      <4>2. CASE k.emp \in mixed
        BY <1>2, <4>1, <4>2
      <4>3. CASE k.emp \notin mixed /\ a \in k.sees
        <5>1. k.left[a] = 1 => Paid(a)' >= Instalments
          BY <2>9, <3>1, <4>3 DEF Paying
        <5> QED BY <2>2, <2>3, <4>1, <4>3, <5>1 DEF RightPay
      <4>4. CASE k.emp \notin mixed /\ a \notin k.sees
        <5>1. Left(a)' = Left(a)
          BY <2>4, <4>1, <4>4, SamePays DEF Paying
        <5>2. k.left[a] = Left(a)
          BY <4>1, <4>4 DEF RightPay
        <5> QED BY <2>2, <2>3, <4>1, <4>4, <5>1, <5>2 DEF RightPay
      <4> QED BY <4>2, <4>3, <4>4
    <3> QED BY <2>2, <2>3, <3>1 DEF KnowsPays
  <2> QED BY <1>1, <2>6, <2>10, <2>11, <2>12, <2>13, OthersKnow DEF PayInv
<1> QED BY <1>3, <1>4

LEMMA MarkPays ==
  ASSUME IInv, NEW c \in Calls, Mark(c)
  PROVE  PayInv'
<1> DEFINE k == call[c]
           q == [k EXCEPT !.at = "findPay", !.due = k.due \ Paying(c), !.sees = k.sees \cap Shorts]
<1>0. k \in CallRows /\ k.at = "mark" /\ KnowsPays(k)
  BY DEF IInv, RaceInv, Types, CallTypes, Mark, PayInv
<1>1. Others(c)
  BY MarkStep DEF IInv
<1>2. UNCHANGED <<pays, cut>> /\ mixed \subseteq mixed'
  BY DEF Mark, Writes
<1>3. call'[c] = q
  BY DEF Mark, IInv, RaceInv, Types, CallTypes
<1>4. /\ q.at = "findPay" /\ q.due = k.due \ Paying(c) /\ q.sees = k.sees \cap Shorts
      /\ q.emp = k.emp /\ q.left = k.left
  BY <1>0 DEF CallRows
<1> HIDE DEF q
<1>5. DoneIsPaid'
  <2>1. SUFFICES ASSUME NEW a \in Longs, long'[a] = "done", Owner[a] \notin mixed' \cup cut'
        PROVE  \/ Paid(a)' >= Instalments
               \/ \E d \in Calls : call'[d].at = "rerun" /\ a \in call'[d].due
    BY DEF DoneIsPaid
  <2>2. Paid(a)' = Paid(a)
    BY <1>2, SamePays
  <2>3. CASE a \in Paying(c) /\ k.left[a] = 1
    <3>1. Owner[a] = k.emp /\ (k.emp \in mixed \/ RightPay(k, a)) /\ a \in k.sees
      BY <1>0, <2>3 DEF Paying, KnowsPays, PayAts
    <3> QED BY <1>0, <1>2, <2>1, <2>2, <2>3, <3>1 DEF RightPay
  <2>4. CASE ~(a \in Paying(c) /\ k.left[a] = 1)
    <3>1. long[a] = "done"
      BY <2>1, <2>4 DEF Mark
    <3>2. \/ Paid(a) >= Instalments
          \/ \E d \in Calls : call[d].at = "rerun" /\ a \in call[d].due
      BY <1>2, <2>1, <3>1 DEF IInv, PayInv, DoneIsPaid
    <3> QED BY <1>0, <1>1, <2>2, <3>2, RerunsStay
  <2> QED BY <2>3, <2>4
<1>6. KnowsPays(call[c])'
  <2>1. ASSUME NEW a \in k.due \ Paying(c)
        PROVE  Owner[a] = k.emp /\ (k.emp \in mixed' \/ RightPay(call[c], a)')
    <3>1. Owner[a] = k.emp /\ (k.emp \in mixed \/ RightPay(k, a)) /\ a \notin k.sees
      BY <1>0, <2>1 DEF KnowsPays, PayAts, Paying
    <3>2. Left(a)' = Left(a)
      BY <1>2, SamePays
    <3> QED BY <1>2, <1>3, <1>4, <3>1, <3>2 DEF RightPay
  <2> QED BY <1>3, <1>4, <2>1 DEF KnowsPays
<1> QED BY <1>1, <1>2, <1>5, <1>6, PaysStay DEF PayInv

LEMMA FreePaysPays ==
  ASSUME IInv, NEW c \in Calls, FreePays(c)
  PROVE  PayInv'
<1> DEFINE k == call[c]
           D == {a \in Longs : On(a, k.sheet) # {}}
           q == [k EXCEPT !.at = "rerun", !.due = D]
<1>0. k \in CallRows /\ k.at = "freePays"
  BY DEF IInv, RaceInv, Types, CallTypes, FreePays
<1>1. Others(c)
  BY FreePaysStep DEF IInv
<1>2. UNCHANGED <<long, cut>> /\ mixed \subseteq mixed'
  BY DEF FreePays, Writes
<1>3. /\ pays' = [a \in Longs |-> pays[a] \ On(a, k.sheet)]
      /\ Writes(c, {Owner[a] : a \in D})
  BY DEF FreePays
<1>4. call'[c] = q
  BY DEF FreePays, IInv, RaceInv, Types, CallTypes
<1>5. q.at = "rerun" /\ q.due = D
  BY <1>0 DEF CallRows
<1> HIDE DEF q
<1>6. \A a \in Longs : a \notin D => pays'[a] = pays[a]
  BY <1>3
<1>7. Told(c)
  BY <1>3, <1>6, WritesTold
<1>8. \A a \in Longs : pays'[a] \subseteq pays[a] /\ IsFiniteSet(pays[a]) /\ IsFiniteSet(pays'[a])
  <2>1. \A a \in Longs : pays'[a] \subseteq pays[a] /\ IsFiniteSet(pays[a])
    BY <1>3 DEF IInv, PayInv, PaysFinite
  <2> QED BY <2>1, FS_Subset
<1>9. PaidOnce'
  <2>1. SUFFICES ASSUME NEW a \in Longs, Owner[a] \notin mixed'
        PROVE  Paid(a)' <= Instalments
               /\ \A p \in Payrolls : Cardinality(On(a, p)') <= 1
    BY DEF PaidOnce
  <2>2. Paid(a) <= Instalments /\ \A p \in Payrolls : Cardinality(On(a, p)) <= 1
    BY <1>2, <2>1 DEF IInv, PayInv, PaidOnce
  <2>3. ASSUME NEW S, IsFiniteSet(S), NEW T, T \subseteq S, NEW N \in Nat, Cardinality(S) <= N
        PROVE  Cardinality(T) <= N
    <3>1. Cardinality(T) <= Cardinality(S) /\ Cardinality(S) \in Nat /\ Cardinality(T) \in Nat
      BY <2>3, FS_Subset, FS_CardinalityType
    <3> QED BY <2>3, <3>1
  <2>4. Cardinality(pays'[a]) <= Instalments
    BY <1>8, <2>2, <2>3, RaceAssumption DEF Paid
  <2>5. ASSUME NEW p \in Payrolls PROVE Cardinality(On(a, p)') <= 1
    <3>1. On(a, p)' \subseteq On(a, p) /\ On(a, p) \subseteq pays[a]
      BY <1>8 DEF On
    <3>2. IsFiniteSet(On(a, p))
      BY <1>8, <3>1, FS_Subset
    <3> QED BY <2>2, <2>3, <3>1, <3>2
  <2> QED BY <2>4, <2>5 DEF Paid
<1>10. DoneIsPaid'
  <2>1. SUFFICES ASSUME NEW a \in Longs, long[a] = "done", a \notin D,
                        Owner[a] \notin mixed' \cup cut'
        PROVE  \/ Paid(a)' >= Instalments
               \/ \E d \in Calls : call'[d].at = "rerun" /\ a \in call'[d].due
    BY <1>2, <1>4, <1>5 DEF DoneIsPaid
  <2>2. Paid(a)' = Paid(a)
    BY <1>6, <2>1, SamePays
  <2>3. \/ Paid(a) >= Instalments
        \/ \E d \in Calls : call[d].at = "rerun" /\ a \in call[d].due
    BY <1>2, <2>1 DEF IInv, PayInv, DoneIsPaid
  <2> QED BY <1>0, <1>1, <2>2, <2>3, RerunsStay
<1>11. PaysFinite' /\ KnowsPays(call[c])'
  BY <1>4, <1>5, <1>8 DEF PaysFinite, KnowsPays, PayAts
<1> QED BY <1>1, <1>7, <1>9, <1>10, <1>11, OthersKnow DEF PayInv

LEMMA RerunPays ==
  ASSUME IInv, NEW c \in Calls, Rerun(c)
  PROVE  PayInv'
<1> DEFINE k == call[c]
           again == {a \in k.due : long[a] = "done" /\ Left(a) > 0}
<1>0. k \in CallRows
  BY DEF IInv, RaceInv, Types, CallTypes
<1>1. Others(c)
  BY RerunStep DEF IInv
<1>2. UNCHANGED <<pays, cut>> /\ mixed \subseteq mixed'
  BY DEF Rerun, Writes
<1>3. long' = [a \in Longs |-> IF a \in again THEN "running" ELSE long[a]]
  BY DEF Rerun
<1>4. call'[c].at \notin PayAts
  <2>1. call'[c].at = AfterRevert(c)
    BY <1>0 DEF Rerun, IInv, RaceInv, Types, CallTypes, CallRows
  <2> QED BY <2>1, AfterRevertAt DEF PayAts
<1>5. DoneIsPaid'
  <2>1. SUFFICES ASSUME NEW a \in Longs, long'[a] = "done", Owner[a] \notin mixed' \cup cut'
        PROVE  \/ Paid(a)' >= Instalments
               \/ \E d \in Calls : call'[d].at = "rerun" /\ a \in call'[d].due
    BY DEF DoneIsPaid
  <2>2. long[a] = "done" /\ a \notin again
    BY <1>3, <2>1
  <2>3. Paid(a)' = Paid(a) /\ Paid(a) \in Nat /\ Left(a) \in Nat
    BY <1>2, SamePays, LeftType DEF IInv, PayInv
  <2>4. a \in k.due => Paid(a) >= Instalments
    <3>1. a \in k.due => ~(Left(a) > 0)
      BY <2>2
    <3> QED BY <2>3, <3>1, RaceAssumption DEF Left
  <2>5. \/ Paid(a) >= Instalments
        \/ \E d \in Calls : call[d].at = "rerun" /\ a \in call[d].due
    BY <1>2, <2>1, <2>2 DEF IInv, PayInv, DoneIsPaid
  <2> QED BY <1>1, <2>3, <2>4, <2>5, RerunsStay
<1> QED BY <1>1, <1>2, <1>4, <1>5, PaysStay DEF PayInv, KnowsPays

LEMMA FailPays ==
  ASSUME IInv, NEW c \in Calls, Fail(c)
  PROVE  PayInv'
<1> DEFINE k == call[c]
<1>1. Others(c)
  BY FailStep DEF IInv
<1>2. UNCHANGED <<long, pays, mixed>> /\ cut \subseteq cut'
  BY DEF Fail, rows
<1>3. k.at = "rerun" => {Owner[a] : a \in k.due} \subseteq cut'
  BY DEF Fail
<1>4. call'[c].at \notin PayAts
  BY EndsAway DEF Fail, IInv, RaceInv, Types, PayAts
<1>5. DoneIsPaid'
  <2>1. SUFFICES ASSUME NEW a \in Longs, long[a] = "done", Owner[a] \notin mixed' \cup cut'
        PROVE  \/ Paid(a)' >= Instalments
               \/ \E d \in Calls : call'[d].at = "rerun" /\ a \in call'[d].due
    BY <1>2 DEF DoneIsPaid
  <2>2. Paid(a)' = Paid(a)
    BY <1>2, SamePays
  <2>3. \/ Paid(a) >= Instalments
        \/ \E d \in Calls : call[d].at = "rerun" /\ a \in call[d].due
    BY <1>2, <2>1 DEF IInv, PayInv, DoneIsPaid
  <2> QED BY <1>1, <1>3, <2>1, <2>2, <2>3, RerunsStay
<1> QED BY <1>1, <1>2, <1>4, <1>5, PaysStay DEF PayInv, KnowsPays

LEMMA NextPays ==
  ASSUME IInv, Next
  PROVE  PayInv'
<1>1. SUFFICES ASSUME NEW c \in Calls, Begin(c) \/ Work(c)
      PROVE  PayInv'
  BY DEF Next
<1>2. CASE FreePays(c) \/ Rerun(c) \/ ReadLongs(c)
  BY <1>2, FreePaysPays, RerunPays, ReadLongsPays
<1>3. CASE (\E a \in Longs : FindPay(c, a)) \/ Pay(c) \/ Mark(c) \/ Fail(c)
  BY <1>3, FindPayPays, PayPays, MarkPays, FailPays
<1>4. CASE /\ ~FreePays(c) /\ ~Rerun(c) /\ ~ReadLongs(c)
           /\ ~(\E a \in Longs : FindPay(c, a)) /\ ~Pay(c) /\ ~Mark(c) /\ ~Fail(c)
  BY <1>1, <1>4, BeginAway, WorkAway, AwayPays DEF IInv
<1> QED BY <1>2, <1>3, <1>4

LEMMA StutterPays ==
  ASSUME PayInv, UNCHANGED vars
  PROVE  PayInv'
<1>1. /\ call' = call /\ mixed' = mixed /\ cut' = cut /\ long' = long
      /\ \A a \in Longs : pays'[a] = pays[a] /\ Paid(a)' = Paid(a) /\ Left(a)' = Left(a)
                          /\ \A p : On(a, p)' = On(a, p)
  BY SamePays DEF vars
<1>2. PaysFinite' /\ PaidOnce' /\ DoneIsPaid'
  BY <1>1 DEF PayInv, PaysFinite, PaidOnce, DoneIsPaid
<1>3. \A c \in Calls : KnowsPays(call[c])'
  BY DEF PayInv, KnowsPays, RightPay, Paid, Left, On, vars
<1> QED BY <1>2, <1>3 DEF PayInv

LEMMA InitPays ==
  ASSUME Init
  PROVE  PayInv
<1>1. \A a \in Longs : pays[a] = {} /\ long[a] # "done"
  BY DEF Init
<1>2. \A a \in Longs : Paid(a) = 0 /\ \A p : Cardinality(On(a, p)) = 0
  BY <1>1, FS_EmptySet DEF Paid, On
<1>3. PaysFinite /\ PaidOnce /\ DoneIsPaid
  BY <1>1, <1>2, FS_EmptySet, RaceAssumption DEF PaysFinite, PaidOnce, DoneIsPaid
<1>4. \A c \in Calls : KnowsPays(call[c])
  BY IdleRow DEF Init, KnowsPays, PayAts
<1> QED BY <1>3, <1>4 DEF PayInv

-----------------------------------------------------------------------------
(* However the handlers of the payroll overlap and wherever they end, what *)
(* each call has read of the exclusion list, of the state of its sheet, of *)
(* the short advances and of the balances is as IInv says, and so is what  *)
(* the sheets count.                                                       *)
THEOREM RaceInvariant == Spec => []IInv
<1>1. Init => IInv
  BY InitHolds, InitPays DEF IInv
<1>2. IInv /\ [Next]_vars => IInv'
  <2>1. IInv /\ Next => IInv'
    BY NextStep, NextPays DEF IInv, PayInv
  <2>2. IInv /\ UNCHANGED vars => IInv'
    BY StutterStep, StutterPays DEF IInv
  <2> QED BY <2>1, <2>2
<1> QED BY <1>1, <1>2, PTL DEF Spec

(* What a line counts is reserved by its sheet and by no other and is not  *)
(* cancelled, unless two calls handled the rows of the employee at once or *)
(* one ended between giving the rows back and resetting the totals         *)
(* (advances.service.ts:370 and :709): for any number of sheets,           *)
(* employees, advances and calls.                                          *)
THEOREM CountedIsHeldAlways == Spec => []CountedIsHeld
<1>1. IInv => CountedIsHeld
  BY DEF IInv, RaceInv, CountInv
<1> QED BY <1>1, RaceInvariant, PTL

(* A long advance is never paid twice on one sheet, nor more often than it *)
(* has instalments, unless two calls handled the rows of the employee at   *)
(* once (advances.service.ts:413): ending early is no such accident, and   *)
(* neither is the balance a call reads long before it pays.                *)
THEOREM PaidOnceAlways == Spec => []PaidOnce
<1>1. IInv => PaidOnce
  BY DEF IInv, PayInv
<1> QED BY <1>1, RaceInvariant, PTL

(* A long advance that is done has all its payments, unless two calls      *)
(* handled the employee's rows at once or one ended between taking the     *)
(* payments back and making the advance run again                          *)
(* (advances.service.ts:346).                                              *)
THEOREM DoneIsPaidAlways == Spec => []DoneIsPaid
<1>1. IInv => DoneIsPaid
  BY DEF IInv, PayInv
<1> QED BY <1>1, RaceInvariant, PTL

(* Who was deleted from a sheet stays away from it until somebody puts him *)
(* back, unless two calls worked with its exclusion list at once           *)
(* (payrollLine.service.ts:347), calculations included.                    *)
THEOREM RemovedStayAwayAlways == Spec => []RemovedStayAway
<1>1. IInv => RemovedStayAway
  BY DEF IInv, RaceInv, OffInv
<1> QED BY <1>1, RaceInvariant, PTL

(* A confirmed sheet keeps its state, its lines and its deducted advances: *)
(* whoever changes them was under way when it was confirmed                *)
(* (payroll.service.ts:407).                                               *)
THEOREM ConfirmedKeptAlways == Spec => ConfirmedKept
<1> DEFINE Kept == \A p \in confirmed :
             Keeps(p) \/ \E c \in Calls : call[c].late /\ call'[c] # call[c]
<1>1. ASSUME IInv, Next PROVE Kept
  <2> SUFFICES ASSUME NEW c \in Calls, Begin(c) \/ Work(c), NEW p \in confirmed
               PROVE  Keeps(p) \/ (call[c].late /\ call'[c] # call[c])
    BY <1>1 DEF Next
  <2>1. CASE Begin(c)
    BY <2>1, BeginKeeps
  <2>2. CASE Work(c)
    BY <1>1, <2>2, InTimeKeeps, WorkMoves DEF IInv, RaceInv, Types
  <2> QED BY <2>1, <2>2
<1>2. IInv /\ [Next]_vars => [Kept]_vars
  BY <1>1
<1>3. Spec => [][Kept]_vars
  BY <1>2, RaceInvariant, PTL DEF Spec
<1>4. [Kept]_vars <=> [\A p \in confirmed :
       \/ /\ p \in confirmed' /\ on'[p] = on[p]
          /\ \A s \in Shorts : short[s].sheet = p /\ short[s].deducted
                             => short'[s] = short[s]
       \/ \E c \in Calls : call[c].late /\ call'[c] # call[c]]_vars
  BY DEF Keeps
<1> QED BY <1>3, <1>4, PTL DEF ConfirmedKept

=============================================================================
