------------------------ MODULE AdvanceRequestProofs ------------------------
(***************************************************************************)
(* For any requests, advances, employees, calls and limits: an approval    *)
(* names the advance it granted, nothing is granted before the branch, a   *)
(* second grant has one of the causes GrantedOnce lists, and no claim is   *)
(* missed by a call that counts.                                           *)
(***************************************************************************)
EXTENDS AdvanceRequest, FiniteSetTheorems, TLAPS

(* The strengthening.  Rows, calls and claims, each with what its writers  *)
(* and readers rely on.                                                    *)

States == {"none", "approved", "closed"} \cup Pending
Counting == {"readFirst", "readSecond", "decide"}

ReqRows == [state : States, emp : Employees \cup {None},
            amount : Amounts \cup {0}, advance : Advances \cup {None}]
AdvRows == [state : {"none", "pending", "closed"}, emp : Employees \cup {None},
            amount : Amounts \cup {0}, for : Requests \cup {None}]
SeenRows == ((Requests \cup Advances) \X (Amounts \cup {0})) \cup Advances
CallRows == [at : {"idle", "write", "record"} \cup Counting,
             does : {"none", "file", "pending_hr", "closed", "approve", "grant"},
             req : Requests \cup {None}, was : {"none"} \cup Pending,
             emp : Employees \cup {None}, amount : Amounts \cup {0},
             over : BOOLEAN, seen : SUBSET SeenRows]

Typed == /\ req \in [Requests -> ReqRows]
         /\ adv \in [Advances -> AdvRows]
         /\ call \in [Calls -> CallRows]
         /\ stale \subseteq Requests /\ cut \subseteq Requests
         /\ held \in [Calls -> SUBSET Requests]

(* An advance that does not exist is for nothing; one that pays a request  *)
(* belongs to the employee of a request the branch has cleared.            *)
GrantRow(a) ==
  /\ adv[a].state = "none" => adv[a].for = None
  /\ adv[a].for # None => /\ adv[a].emp = req[adv[a].for].emp
                          /\ req[adv[a].for].state \notin {"none", "pending_branch"}

(* What a call has read of its own request. *)
CallRow(c) ==
  LET l == call[c] IN
  /\ l.at \in Counting \cup {"record"} => l.does \in {"file", "approve", "grant"}
  /\ l.does = "file" => l.was \in Pending
  /\ l.does = "approve" => /\ l.req \in Requests /\ l.was = "pending_hr"
                           /\ l.emp = req[l.req].emp
                           /\ req[l.req].state \notin {"none", "pending_branch"}
  /\ l.does \in {"file", "grant"} => l.req = None
  /\ l.at = "write" => /\ l.does \in {"pending_hr", "closed"}
                       /\ l.req \in Requests /\ l.was \in Pending
                       /\ req[l.req].state # "none"
                       /\ l.does = "pending_hr" => l.was = "pending_branch"
  /\ l.at = "record" => /\ l.does = "approve"
                        /\ \E a \in Advances : l.seen = {a} /\ adv[a].for = l.req

(* A claim held against a counting call is one of its employee, not its    *)
(* own; between the queries it is among what the call has read or is an    *)
(* advance by now.                                                         *)
HeldRow(c) ==
  LET l == call[c] IN
  /\ l.at \notin {"readSecond", "decide"} => held[c] = {}
  /\ \A r \in held[c] : req[r].emp = l.emp /\ Committed(r) /\ r \notin stale
  /\ l.at = "readSecond" =>
       \A r \in held[c] :
         (\E row \in l.seen : row[1] = r) \/ req[r].state \notin Pending

(* Every grant is under way, recorded, or excused. *)
GrantAccounted(a) ==
  LET r == adv[a].for IN
  r # None => \/ r \in stale \cup cut
              \/ \E c \in Calls : call[c].at = "record" /\ call[c].req = r
                                  /\ call[c].seen = {a}
              \/ req[r].state = "approved" /\ req[r].advance = a

RequestInv ==
  /\ Typed
  /\ \A a \in Advances : GrantRow(a) /\ GrantAccounted(a)
  /\ \A c \in Calls : CallRow(c) /\ HeldRow(c)
  /\ ApprovedNamesItsGrant
  /\ NothingMissed
-----------------------------------------------------------------------------
LEMMA InitInv == Init => RequestInv
  BY RequestAssumption
  DEF Init, RequestInv, Typed, NoRequest, NoAdvance, Idle, CallAt, ReqRows, AdvRows,
      CallRows, States, Pending, Counting, GrantRow, GrantAccounted, CallRow,
      HeldRow, Committed, GrantsOf, ApprovedNamesItsGrant, NothingMissed

(* A call begins: nothing but its own row changes. *)
LEMMA Begins ==
  ASSUME RequestInv, NEW c \in Calls, NEW l \in CallRows,
         call[c] = Idle, call' = [call EXCEPT ![c] = l],
         UNCHANGED <<req, adv, stale, cut, held>>,
         l.at \in {"readFirst", "write"}, CallRow(c)'
  PROVE  RequestInv'
<1> USE DEF RequestInv
<1>1. Typed'
  BY DEF Typed
<1>2. call'[c] = l /\ \A d \in Calls \ {c} : call'[d] = call[d]
  BY DEF Typed
<1>3. call[c].at = "idle"
  BY DEF Idle, CallAt
<1>4. \A a \in Advances : GrantRow(a)'
  BY DEF GrantRow
<1>5. \A a \in Advances : GrantAccounted(a)'
  BY <1>2, <1>3 DEF GrantAccounted
<1>6. \A d \in Calls : CallRow(d)'
  <2>1. ASSUME NEW d \in Calls \ {c} PROVE CallRow(d)'
    BY <2>1, <1>2 DEF CallRow
  <2> QED BY <2>1
<1>7. \A d \in Calls : HeldRow(d)'
  <2>1. HeldRow(c)'
    BY <1>2, <1>3 DEF HeldRow
  <2>2. ASSUME NEW d \in Calls \ {c} PROVE HeldRow(d)'
    BY <2>2, <1>2 DEF HeldRow, Committed, GrantsOf, Live
  <2> QED BY <2>1, <2>2
<1>8. ApprovedNamesItsGrant' /\ NothingMissed'
  BY <1>2 DEF ApprovedNamesItsGrant, NothingMissed, GrantsOf
<1> QED BY <1>1, <1>4, <1>5, <1>6, <1>7, <1>8

LEMMA CallAtType ==
  ASSUME NEW at \in {"readFirst", "write"}, NEW over \in BOOLEAN,
         NEW does \in {"file", "pending_hr", "closed", "approve", "grant"},
         NEW r \in Requests \cup {None}, NEW was \in {"none"} \cup Pending,
         NEW e \in Employees \cup {None}, NEW n \in Amounts \cup {0}
  PROVE  CallAt(at, does, r, was, e, n, over) \in CallRows
<1>1. was \in {"none"} \cup Pending /\ at \in {"idle", "write", "record"} \cup Counting
  BY DEF Counting
<1> HIDE DEF Pending, Counting
<1> QED BY <1>1 DEF CallAt, CallRows

LEMMA StartStep ==
  ASSUME RequestInv, NEW c \in Calls, Start(c)
  PROVE  RequestInv'
<1> USE DEF Counting, Pending
<1>0. Typed /\ call \in [Calls -> CallRows]
  BY DEF RequestInv, Typed
<1>1. ASSUME NEW e \in Employees, NEW n \in Amounts, NEW first \in Pending,
             StartFile(c, e, n, first)
      PROVE  RequestInv'
  <2> DEFINE l == CallAt("readFirst", "file", None, first, e, n, FALSE)
  <2>1. l = [at |-> "readFirst", does |-> "file", req |-> None, was |-> first,
             emp |-> e, amount |-> n, over |-> FALSE, seen |-> {}]
    BY DEF CallAt
  <2>2. l \in CallRows
    BY <2>1, CallAtType
  <2>3. call' = [call EXCEPT ![c] = l] /\ call'[c] = l
    BY <1>0, <1>1 DEF StartFile
  <2> HIDE DEF l
  <2>4. CallRow(c)'
    BY <2>1, <2>3 DEF CallRow
  <2> QED BY <1>1, <2>1, <2>2, <2>3, <2>4, Begins DEF StartFile
<1>2. ASSUME NEW r \in Requests, NEW does, NEW states, Load(c, r, does, states),
             does \in {"pending_hr", "closed"}, states \subseteq Pending,
             does = "pending_hr" => states = {"pending_branch"}
      PROVE  RequestInv'
  <2> DEFINE l == CallAt("write", does, r, req[r].state, None, 0, FALSE)
  <2>1. l = [at |-> "write", does |-> does, req |-> r, was |-> req[r].state,
             emp |-> None, amount |-> 0, over |-> FALSE, seen |-> {}]
    BY DEF CallAt
  <2>2. l \in CallRows
    BY <1>0, <1>2, CallAtType DEF Load, Typed
  <2>3. call' = [call EXCEPT ![c] = l] /\ call'[c] = l
    BY <1>0, <1>2 DEF Load
  <2> HIDE DEF l
  <2>4. CallRow(c)'
    <3>1. does \in {"pending_hr", "closed"} /\ req[r].state \in Pending
      BY <1>2 DEF Load
    <3>2. does = "pending_hr" => req[r].state = "pending_branch"
      BY <1>2 DEF Load
    <3>3. UNCHANGED <<req, adv>>
      BY <1>2 DEF Load
    <3> QED BY <2>1, <2>3, <3>1, <3>2, <3>3 DEF CallRow
  <2> QED BY <1>2, <2>1, <2>2, <2>3, <2>4, Begins DEF Load
<1>3. ASSUME NEW r \in Requests, NEW n \in Amounts, NEW over \in BOOLEAN,
             StartHrApprove(c, r, n, over)
      PROVE  RequestInv'
  <2> DEFINE l == CallAt("readFirst", "approve", r, "pending_hr", req[r].emp, n, over)
  <2>1. req[r] \in ReqRows
    BY <1>0 DEF Typed
  <2>2. l \in CallRows
    BY <2>1, CallAtType DEF ReqRows
  <2>3. call' = [call EXCEPT ![c] = l] /\ call'[c] = l
    BY <1>0, <1>3 DEF StartHrApprove
  <2>4. CallRow(c)'
    BY <1>3, <2>3 DEF CallRow, StartHrApprove, CallAt
  <2>5. l.at = "readFirst"
    BY DEF CallAt
  <2> HIDE DEF l
  <2> QED BY <1>3, <2>2, <2>3, <2>4, <2>5, Begins DEF StartHrApprove
<1>4. ASSUME NEW e \in Employees, NEW n \in Amounts, NEW over \in BOOLEAN,
             StartGrant(c, e, n, over)
      PROVE  RequestInv'
  <2> DEFINE l == CallAt("readFirst", "grant", None, "none", e, n, over)
  <2>1. l = [at |-> "readFirst", does |-> "grant", req |-> None, was |-> "none",
             emp |-> e, amount |-> n, over |-> over, seen |-> {}]
    BY DEF CallAt
  <2>2. l \in CallRows
    BY <2>1, CallAtType
  <2>3. call' = [call EXCEPT ![c] = l] /\ call'[c] = l
    BY <1>0, <1>4 DEF StartGrant
  <2> HIDE DEF l
  <2>4. CallRow(c)'
    BY <2>1, <2>3 DEF CallRow
  <2> QED BY <1>4, <2>1, <2>2, <2>3, <2>4, Begins DEF StartGrant
<1> QED BY <1>1, <1>2, <1>3, <1>4 DEF Start, StartBranchApprove, StartClose
-----------------------------------------------------------------------------
(* The claims kept by a step that keeps them. *)

LEMMA HeldKept ==
  ASSUME RequestInv, KeepsHeld, NEW d \in Calls
  PROVE  /\ held'[d] \subseteq held[d]
         /\ \A r \in held'[d] : Committed(r)' /\ r \notin stale'
         /\ call'[d].at \notin {"readSecond", "decide"} => held'[d] = {}
  BY DEF RequestInv, Typed, KeepsHeld

LEMMA HeldTyped ==
  ASSUME RequestInv, KeepsHeld
  PROVE  held' \in [Calls -> SUBSET Requests]
  BY DEF RequestInv, Typed, KeepsHeld

(* A call ends and neither table changes. *)
LEMMA EndsInv ==
  ASSUME RequestInv, NEW c \in Calls, Ends(c), KeepsHeld,
         UNCHANGED <<req, adv>>, stale \subseteq stale', stale' \subseteq Requests,
         cut \subseteq cut', cut' \subseteq Requests,
         call[c].at = "record" => call[c].req \in cut'
  PROVE  RequestInv'
<1> USE DEF RequestInv
<1>1. call'[c] = Idle /\ \A d \in Calls \ {c} : call'[d] = call[d]
  BY DEF Ends, Typed
<1>2. Idle \in CallRows /\ Idle.at = "idle" /\ Idle.does = "none"
  BY DEF Idle, CallAt, CallRows
<1>3. Typed'
  BY <1>2, HeldTyped DEF Typed, Ends
<1>4. \A a \in Advances : GrantRow(a)'
  BY DEF GrantRow
<1>5. \A a \in Advances : GrantAccounted(a)'
  BY <1>1 DEF GrantAccounted
<1>6. \A d \in Calls : CallRow(d)'
  <2>1. ASSUME NEW d \in Calls \ {c} PROVE CallRow(d)'
    BY <2>1, <1>1 DEF CallRow
  <2>2. CallRow(c)'
    BY <1>1, <1>2 DEF CallRow, Counting
  <2> QED BY <2>1, <2>2
<1>7. \A d \in Calls : HeldRow(d)'
  <2>1. ASSUME NEW d \in Calls \ {c} PROVE HeldRow(d)'
    BY <2>1, <1>1, HeldKept DEF HeldRow
  <2>2. HeldRow(c)'
    BY <1>1, <1>2, HeldKept DEF HeldRow
  <2> QED BY <2>1, <2>2
<1>8. NothingMissed'
  BY <1>1, <1>2, HeldKept DEF NothingMissed, GrantsOf
<1>9. ApprovedNamesItsGrant'
  BY DEF ApprovedNamesItsGrant
<1> QED BY <1>3, <1>4, <1>5, <1>6, <1>7, <1>8, <1>9

LEMMA RefuseStep ==
  ASSUME RequestInv, NEW c \in Calls, Refuse(c) PROVE RequestInv'
  BY EndsInv DEF Refuse, RequestInv, Typed

LEMMA FailStep ==
  ASSUME RequestInv, NEW c \in Calls, Fail(c) PROVE RequestInv'
<1>1. call[c].at = "record" => call[c].req \in Requests
  BY DEF RequestInv, CallRow
<1> QED BY <1>1, EndsInv DEF Fail, RequestInv, Typed

(* An advance that stops counting changes nobody's claim but its own. *)
LEMMA SettleStep ==
  ASSUME RequestInv, NEW a \in Advances, Settle(a) PROVE RequestInv'
<1> USE DEF RequestInv
<1>1. adv' \in [Advances -> AdvRows]
      /\ \A b \in Advances : /\ adv'[b].for = adv[b].for /\ adv'[b].emp = adv[b].emp
                             /\ adv'[b].state = "none" => adv[b].state = "none"
  BY DEF Settle, Typed, AdvRows
<1>2. UNCHANGED <<req, call, stale, cut>> /\ KeepsHeld
  BY DEF Settle
<1>3. Typed'
  BY <1>1, <1>2, HeldTyped DEF Typed
<1>4. \A b \in Advances : GrantRow(b)' /\ GrantAccounted(b)'
  BY <1>1, <1>2 DEF GrantRow, GrantAccounted
<1>5. \A d \in Calls : CallRow(d)'
  BY <1>1, <1>2 DEF CallRow
<1>6. \A d \in Calls : HeldRow(d)'
  BY <1>2, HeldKept DEF HeldRow
<1>7. NothingMissed'
  BY <1>1, <1>2, HeldKept DEF NothingMissed, GrantsOf
<1>8. ApprovedNamesItsGrant'
  BY <1>1, <1>2 DEF ApprovedNamesItsGrant, Typed, ReqRows
<1> QED BY <1>3, <1>4, <1>5, <1>6, <1>7, <1>8
-----------------------------------------------------------------------------
(* The two queries. *)

LEMMA FoundType ==
  ASSUME Typed, NEW l, NEW query \in {"requests", "advances"}
  PROVE  Found(l, query) \in SUBSET SeenRows
<1>1. \A r \in Requests : req[r].amount \in Amounts \cup {0}
  BY DEF Typed, ReqRows
<1>2. \A a \in Advances : adv[a].amount \in Amounts \cup {0}
  BY DEF Typed, AdvRows
<1> QED BY <1>1, <1>2 DEF Found, SeenRows

LEMMA ReadFirstStep ==
  ASSUME RequestInv, NEW c \in Calls, ReadFirst(c) PROVE RequestInv'
<1> DEFINE l == call[c]
           found == Found(l, Queries[1])
<1> USE DEF RequestInv
<1>0. l \in CallRows /\ l.at = "readFirst" /\ found = Found(l, "requests")
  BY DEF Typed, ReadFirst, Queries
<1>1. found \in SUBSET SeenRows
  BY <1>0, FoundType
<1>2. /\ call'[c].at = "readSecond" /\ call'[c].seen = found
      /\ call'[c].does = l.does /\ call'[c].req = l.req /\ call'[c].was = l.was
      /\ call'[c].emp = l.emp
      /\ \A d \in Calls \ {c} : call'[d] = call[d] /\ held'[d] = held[d]
      /\ held'[c] = {r \in Requests \ (stale \cup {l.req}) :
                       req[r].emp = l.emp /\ Committed(r)}
      /\ UNCHANGED <<req, adv, stale, cut>>
  BY DEF ReadFirst, Typed, CallRows
<1>3. Typed'
  <2>1. [l EXCEPT !.at = "readSecond", !.seen = found] \in CallRows
    BY <1>0, <1>1 DEF CallRows, Counting
  <2>2. call' = [call EXCEPT ![c] = [l EXCEPT !.at = "readSecond", !.seen = found]]
    BY DEF ReadFirst
  <2>3. held' \in [Calls -> SUBSET Requests]
    BY DEF ReadFirst, Typed
  <2> HIDE DEF found, l
  <2> QED BY <1>2, <2>1, <2>2, <2>3 DEF Typed
<1> HIDE DEF found, l
<1>4. \A a \in Advances : GrantRow(a)' /\ GrantAccounted(a)'
  BY <1>0, <1>2 DEF GrantRow, GrantAccounted, l
<1>5. \A d \in Calls : CallRow(d)'
  <2>1. CallRow(c)'
    BY <1>0, <1>2 DEF CallRow, Counting, l
  <2>2. ASSUME NEW d \in Calls \ {c} PROVE CallRow(d)'
    BY <2>2, <1>2 DEF CallRow
  <2> QED BY <2>1, <2>2
<1>6. \A d \in Calls : HeldRow(d)'
  <2>1. HeldRow(c)'
    <3>1. \A r \in held'[c] : req[r].emp = l.emp /\ Committed(r) /\ r \notin stale
      BY <1>2
    <3>2. ASSUME NEW r \in held'[c], req[r].state \in Pending
          PROVE  \E row \in found : row[1] = r
      <4>1. <<r, req[r].amount>> \in found
        BY <1>0, <1>2, <3>2 DEF Found
      <4> QED BY <4>1
    <3>3. \A r \in held'[c] : Committed(r)'
      BY <1>2, <3>1 DEF Committed, GrantsOf, Live
    <3> QED BY <1>2, <3>1, <3>2, <3>3 DEF HeldRow
  <2>2. ASSUME NEW d \in Calls \ {c} PROVE HeldRow(d)'
    BY <2>2, <1>2 DEF HeldRow, Committed, GrantsOf, Live
  <2> QED BY <2>1, <2>2
<1>7. NothingMissed'
  BY <1>2 DEF NothingMissed, GrantsOf
<1>8. ApprovedNamesItsGrant'
  BY <1>2 DEF ApprovedNamesItsGrant
<1> QED BY <1>3, <1>4, <1>5, <1>6, <1>7, <1>8

(* A claim that is not pending any more is a live advance of the employee, *)
(* and the second query is the one over the advances.                      *)
LEMMA ReadSecondStep ==
  ASSUME RequestInv, NEW c \in Calls, ReadSecond(c) PROVE RequestInv'
<1> DEFINE l == call[c]
           found == Found(l, Queries[2])
<1> USE DEF RequestInv
<1>0. l \in CallRows /\ l.at = "readSecond" /\ found = Found(l, "advances")
  BY DEF Typed, ReadSecond, Queries
<1>1. found \in SUBSET SeenRows /\ l.seen \in SUBSET SeenRows
  BY <1>0, FoundType DEF CallRows
<1>2. /\ call'[c].at = "decide" /\ call'[c].seen = l.seen \cup found
      /\ call'[c].does = l.does /\ call'[c].req = l.req /\ call'[c].was = l.was
      /\ call'[c].emp = l.emp
      /\ \A d \in Calls \ {c} : call'[d] = call[d]
      /\ UNCHANGED <<req, adv, stale, cut, held>>
  BY DEF ReadSecond, Typed, CallRows
<1>3. Typed'
  <2>1. [l EXCEPT !.at = "decide", !.seen = l.seen \cup found] \in CallRows
    BY <1>0, <1>1 DEF CallRows, Counting
  <2>2. call' = [call EXCEPT ![c] = [l EXCEPT !.at = "decide",
                                              !.seen = l.seen \cup found]]
    BY DEF ReadSecond
  <2> HIDE DEF found, l
  <2> QED BY <1>2, <2>1, <2>2 DEF Typed
<1> HIDE DEF found, l
<1>4. \A a \in Advances : GrantRow(a)' /\ GrantAccounted(a)'
  BY <1>0, <1>2 DEF GrantRow, GrantAccounted, l
<1>5. \A d \in Calls : CallRow(d)'
  <2>1. CallRow(c)'
    BY <1>0, <1>2 DEF CallRow, Counting, l
  <2>2. ASSUME NEW d \in Calls \ {c} PROVE CallRow(d)'
    BY <2>2, <1>2 DEF CallRow
  <2> QED BY <2>1, <2>2
<1>6. \A d \in Calls : HeldRow(d)'
  BY <1>0, <1>2 DEF HeldRow, Committed, GrantsOf, Live, l
<1>7. NothingMissed'
  <2>1. ASSUME NEW r \in held[c]
        PROVE  \E row \in l.seen \cup found : row[1] = r \/ row[1] \in GrantsOf(r)
    <3>1. CASE \E row \in l.seen : row[1] = r
      BY <3>1
    <3>2. CASE req[r].state \notin Pending
      <4>1. HeldRow(c) /\ r \in Requests
        BY DEF Typed
      <4>2. req[r].emp = l.emp /\ Committed(r)
        BY <4>1 DEF HeldRow, l
      <4>3. PICK a \in GrantsOf(r) : Live(a)
        BY <4>2, <3>2 DEF Committed
      <4>4. a \in Advances /\ adv[a].for = r /\ r # None
        BY <4>1, <4>3, RequestAssumption DEF GrantsOf
      <4>5. adv[a].emp = l.emp
        BY <4>2, <4>4 DEF GrantRow
      <4>6. <<a, adv[a].amount>> \in found
        BY <1>0, <4>3, <4>4, <4>5 DEF Found
      <4> QED BY <4>3, <4>6
    <3>3. HeldRow(c) /\ l.at = "readSecond"
      BY <1>0
    <3> QED BY <3>1, <3>2, <3>3 DEF HeldRow, l
  <2>2. \A r \in held[c] : \E row \in call'[c].seen :
          row[1] = r \/ row[1] \in GrantsOf(r)
    BY <1>2, <2>1
  <2> QED BY <1>2, <2>2 DEF NothingMissed, GrantsOf
<1>8. ApprovedNamesItsGrant'
  BY <1>2 DEF ApprovedNamesItsGrant
<1> QED BY <1>3, <1>4, <1>5, <1>6, <1>7, <1>8
-----------------------------------------------------------------------------
(* The writes. *)

(* A request that is filed was no row, so no advance and no claim is of it. *)
LEMMA FileStep ==
  ASSUME RequestInv, NEW c \in Calls, NEW r \in Requests, File(c, r)
  PROVE  RequestInv'
<1> DEFINE l == call[c]
           row == [state |-> l.was, emp |-> l.emp, amount |-> l.amount,
                   advance |-> None]
<1> USE DEF RequestInv
<1>0. l \in CallRows /\ CallRow(c) /\ l.at = "decide" /\ l.does = "file"
      /\ l.was \in Pending /\ req[r].state = "none"
  BY DEF File, Typed, CallRow
<1>1. /\ call'[c] = Idle /\ \A d \in Calls \ {c} : call'[d] = call[d]
      /\ req'[r] = row /\ \A q \in Requests \ {r} : req'[q] = req[q]
      /\ UNCHANGED <<adv, stale, cut>> /\ KeepsHeld
  BY DEF File, Typed, Ends
<1>2. Idle \in CallRows /\ Idle.at = "idle" /\ Idle.does = "none"
  BY DEF Idle, CallAt, CallRows
<1>3. row \in ReqRows
  BY <1>0 DEF CallRows, ReqRows, States, Pending
<1>4. \A a \in Advances : adv[a].for # r
  BY <1>0, RequestAssumption DEF GrantRow
<1>5. Typed'
  BY <1>1, <1>2, <1>3, HeldTyped DEF Typed, Ends, File
<1>6. row.state # "none" /\ row.state # "approved"
  BY <1>0 DEF Pending
<1> HIDE DEF row, l
<1>7. \A a \in Advances : GrantRow(a)' /\ GrantAccounted(a)'
  <2> SUFFICES ASSUME NEW a \in Advances PROVE GrantRow(a)' /\ GrantAccounted(a)'
    OBVIOUS
  <2>1. adv[a].for # None => adv[a].for \in Requests \ {r}
    BY <1>4 DEF Typed, AdvRows
  <2>2. GrantRow(a)'
    BY <1>1, <2>1 DEF GrantRow
  <2>3. GrantAccounted(a)'
    BY <1>0, <1>1, <2>1 DEF GrantAccounted, l
  <2> QED BY <2>2, <2>3
<1>8. \A d \in Calls : CallRow(d)'
  <2>1. CallRow(c)'
    BY <1>1, <1>2 DEF CallRow, Counting
  <2>2. ASSUME NEW d \in Calls \ {c} PROVE CallRow(d)'
    <3>1. CallRow(d) /\ call'[d] = call[d]
      BY <2>2, <1>1
    <3>2. call[d].does = "approve" \/ call[d].at = "write" => call[d].req \in Requests \ {r}
      BY <1>0, <3>1 DEF CallRow
    <3> QED BY <1>1, <3>1, <3>2 DEF CallRow
  <2> QED BY <2>1, <2>2
<1>9. \A d \in Calls : r \notin held[d] /\ held[d] \subseteq Requests
  BY <1>0, <1>4 DEF HeldRow, Committed, GrantsOf, Pending, Typed
<1>10. \A d \in Calls : HeldRow(d)'
  <2>1. HeldRow(c)'
    BY <1>1, <1>2, HeldKept DEF HeldRow
  <2>2. ASSUME NEW d \in Calls \ {c} PROVE HeldRow(d)'
    <3>1. HeldRow(d) /\ call'[d] = call[d] /\ r \notin held'[d]
          /\ \A q \in held'[d] : q \in held[d] /\ req'[q] = req[q]
      BY <2>2, <1>1, <1>9, HeldKept
    <3> QED BY <3>1, <1>1, <2>2, HeldKept DEF HeldRow
  <2> QED BY <2>1, <2>2
<1>11. NothingMissed'
  BY <1>1, <1>2, HeldKept DEF NothingMissed, GrantsOf
<1>12. ApprovedNamesItsGrant'
  BY <1>1, <1>6 DEF ApprovedNamesItsGrant
<1> QED BY <1>5, <1>7, <1>8, <1>10, <1>11, <1>12

(* The update of a state by id, stale or not. *)
LEMMA WriteStateStep ==
  ASSUME RequestInv, NEW c \in Calls, WriteState(c) PROVE RequestInv'
<1> DEFINE l == call[c]
           r == call[c].req
<1> USE DEF RequestInv
<1>0. /\ l \in CallRows /\ r \in Requests /\ l.at = "write"
      /\ l.does \in {"pending_hr", "closed"} /\ req[r].state # "none"
      /\ l.does = "pending_hr" => l.was = "pending_branch"
      /\ l.was \in Pending
  BY DEF WriteState, Typed, CallRow
<1>1. /\ call'[c] = Idle /\ \A d \in Calls \ {c} : call'[d] = call[d]
      /\ req'[r].state = l.does /\ req'[r].emp = req[r].emp
      /\ \A q \in Requests \ {r} : req'[q] = req[q]
      /\ UNCHANGED <<adv, cut>> /\ KeepsHeld
      /\ stale' = IF req[r].state # l.was THEN stale \cup {r} ELSE stale
  BY <1>0 DEF WriteState, WritesOn, Typed, Ends, ReqRows
<1>2. Idle \in CallRows /\ Idle.at = "idle" /\ Idle.does = "none"
  BY DEF Idle, CallAt, CallRows
<1>3. Typed'
  <2>1. req' \in [Requests -> ReqRows]
    BY <1>0 DEF WriteState, Typed, ReqRows, States, Pending
  <2>2. stale' \subseteq Requests
    BY <1>0, <1>1 DEF Typed
  <2>3. call' \in [Calls -> CallRows]
    BY <1>2 DEF WriteState, Typed, Ends
  <2> HIDE DEF l, r
  <2> QED BY <1>1, <2>1, <2>2, <2>3, HeldTyped DEF Typed
<1> HIDE DEF l, r
<1>4. \A a \in Advances : GrantRow(a)' /\ GrantAccounted(a)'
  <2> SUFFICES ASSUME NEW a \in Advances PROVE GrantRow(a)' /\ GrantAccounted(a)'
    OBVIOUS
  <2>1. adv[a].for # None => adv[a].for \in Requests
    BY DEF Typed, AdvRows
  <2>2. GrantRow(a)'
    BY <1>0, <1>1, <2>1 DEF GrantRow
  <2>3. GrantAccounted(a)'
    <3>1. CASE adv[a].for = r /\ req[r].state = "approved"
      <4>1. r \in stale'
        BY <1>0, <1>1, <3>1 DEF Pending
      <4> QED BY <1>1, <3>1, <4>1 DEF GrantAccounted
    <3>2. CASE adv[a].for # r \/ req[r].state # "approved"
      BY <1>0, <1>1, <2>1, <3>2 DEF GrantAccounted, l
    <3> QED BY <3>1, <3>2
  <2> QED BY <2>2, <2>3
<1>5. \A d \in Calls : CallRow(d)'
  <2>1. CallRow(c)'
    BY <1>1, <1>2 DEF CallRow, Counting
  <2>2. ASSUME NEW d \in Calls \ {c} PROVE CallRow(d)'
    <3>1. CallRow(d) /\ call'[d] = call[d]
      BY <2>2, <1>1
    <3>2. \A q \in Requests :
            /\ req'[q].emp = req[q].emp
            /\ req[q].state # "none" => req'[q].state # "none"
            /\ req[q].state \notin {"none", "pending_branch"}
                 => req'[q].state \notin {"none", "pending_branch"}
      BY <1>0, <1>1
    <3> QED BY <1>1, <3>1, <3>2 DEF CallRow
  <2> QED BY <2>1, <2>2
<1>6. \A d \in Calls : HeldRow(d)'
  <2>1. HeldRow(c)'
    BY <1>1, <1>2, HeldKept DEF HeldRow
  <2>2. ASSUME NEW d \in Calls \ {c} PROVE HeldRow(d)'
    <3>1. HeldRow(d) /\ call'[d] = call[d] /\ held[d] \subseteq Requests
      BY <2>2, <1>1 DEF Typed
    <3>2. ASSUME NEW q \in held'[d]
          PROVE  /\ q \in held[d] /\ q \in Requests /\ req'[q].emp = req[q].emp
                 /\ req'[q].state \in Pending => req[q].state \in Pending
      <4>1. q \in held[d] /\ q \in Requests /\ q \notin stale'
        BY <2>2, <1>1, <3>1, HeldKept
      <4>2. CASE q = r
        BY <1>0, <1>1, <4>1, <4>2 DEF Pending
      <4>3. CASE q # r
        BY <1>1, <4>1, <4>3
      <4> QED BY <4>1, <4>2, <4>3
    <3> QED BY <3>1, <3>2, <1>1, <2>2, HeldKept DEF HeldRow
  <2> QED BY <2>1, <2>2
<1>7. NothingMissed'
  BY <1>1, <1>2, HeldKept DEF NothingMissed, GrantsOf
<1>8. ApprovedNamesItsGrant'
  BY <1>0, <1>1 DEF ApprovedNamesItsGrant
<1> QED BY <1>3, <1>4, <1>5, <1>6, <1>7, <1>8

(* A new advance is a live grant for the request of an approval, or for    *)
(* none.                                                                   *)
LEMMA GrantStep ==
  ASSUME RequestInv, NEW c \in Calls, NEW a \in Advances, Grant(c, a)
  PROVE  RequestInv'
<1> DEFINE l == call[c]
           row == [state |-> "pending", emp |-> l.emp, amount |-> l.amount,
                   for |-> l.req]
<1> USE DEF RequestInv
<1>0. /\ l \in CallRows /\ CallRow(c) /\ l.at = "decide"
      /\ l.does \in {"approve", "grant"}
      /\ adv[a].state = "none" /\ adv[a].for = None
  BY DEF Grant, Typed, GrantRow
<1>1. /\ \A d \in Calls \ {c} : call'[d] = call[d]
      /\ adv'[a] = row /\ \A b \in Advances \ {a} : adv'[b] = adv[b]
      /\ UNCHANGED <<req, stale, cut>> /\ KeepsHeld
  BY DEF Grant, Typed, Ends
<1>2. /\ call'[c] \in CallRows /\ CallRow(c)'
      /\ call'[c].at \in {"idle", "record"}
      /\ l.req # None => /\ l.does = "approve" /\ call'[c].at = "record"
                         /\ call'[c].req = l.req /\ call'[c].seen = {a}
  <2>1. CASE l.does = "grant"
    <3>1. call'[c] = Idle /\ Idle.at = "idle" /\ Idle \in CallRows
          /\ Idle.does = "none"
      BY <2>1 DEF Grant, Ends, Typed, Idle, CallAt, CallRows
    <3>2. l.req = None
      BY <1>0, <2>1 DEF CallRow
    <3> QED BY <3>1, <3>2 DEF CallRow, Counting
  <2>2. CASE l.does = "approve"
    <3>1. /\ call'[c].at = "record" /\ call'[c].seen = {a}
          /\ call'[c].does = l.does /\ call'[c].req = l.req
          /\ call'[c].was = l.was /\ call'[c].emp = l.emp
      BY <2>2 DEF Grant, Typed, CallRows
    <3>2. {a} \in SUBSET SeenRows
      BY DEF SeenRows
    <3>3. [l EXCEPT !.at = "record", !.seen = {a}] \in CallRows
      BY <1>0, <3>2 DEF CallRows
    <3>4. call'[c] = [l EXCEPT !.at = "record", !.seen = {a}]
      BY <2>2 DEF Grant, Typed
    <3>5. adv'[a].for = l.req
      BY <1>1
    <3> HIDE DEF row, l
    <3> QED BY <1>0, <1>1, <2>2, <3>1, <3>3, <3>4, <3>5
            DEF CallRow, Counting, l
  <2> QED BY <1>0, <2>1, <2>2
<1>3. row \in AdvRows
  BY <1>0 DEF CallRows, AdvRows
<1>4. row.state = "pending" /\ row.for = l.req /\ row.emp = l.emp
  OBVIOUS
<1>5. Typed'
  <2>1. adv' \in [Advances -> AdvRows]
    BY <1>3 DEF Grant, Typed
  <2>2. call' = [call EXCEPT ![c] = call'[c]]
    BY <1>0 DEF Grant, Ends, Typed
  <2>3. call' \in [Calls -> CallRows]
    BY <2>2, <1>2 DEF Typed
  <2> HIDE DEF row, l
  <2> QED BY <1>1, <2>1, <2>3, HeldTyped DEF Typed
<1> HIDE DEF row, l
<1>6. \A b \in Advances : GrantRow(b)' /\ GrantAccounted(b)'
  <2>1. ASSUME NEW b \in Advances \ {a} PROVE GrantRow(b)' /\ GrantAccounted(b)'
    BY <2>1, <1>0, <1>1 DEF GrantRow, GrantAccounted, l
  <2>2. GrantRow(a)'
    BY <1>0, <1>1, <1>2, <1>4 DEF GrantRow, CallRow, l
  <2>3. GrantAccounted(a)'
    BY <1>1, <1>2, <1>4 DEF GrantAccounted
  <2> QED BY <2>1, <2>2, <2>3
<1>7. \A d \in Calls : CallRow(d)'
  <2>1. ASSUME NEW d \in Calls \ {c} PROVE CallRow(d)'
    <3>1. CallRow(d) /\ call'[d] = call[d]
      BY <2>1, <1>1
    <3>2. \A b \in Advances : adv[b].for \in Requests => adv'[b].for = adv[b].for
      BY <1>0, <1>1, RequestAssumption
    <3> QED BY <1>1, <3>1, <3>2 DEF CallRow
  <2> QED BY <1>2, <2>1
<1>8. \A d \in Calls : HeldRow(d)'
  <2>1. HeldRow(c)'
    BY <1>2, <1>1, HeldKept DEF HeldRow
  <2>2. ASSUME NEW d \in Calls \ {c} PROVE HeldRow(d)'
    BY <2>2, <1>1, HeldKept DEF HeldRow
  <2> QED BY <2>1, <2>2
<1>9. NothingMissed'
  <2>1. \A r \in Requests : GrantsOf(r) \subseteq GrantsOf(r)'
    BY <1>0, <1>1, RequestAssumption DEF GrantsOf
  <2>2. \A d \in Calls : held[d] \subseteq Requests
    BY DEF Typed
  <2> QED BY <1>1, <1>2, <2>1, <2>2, HeldKept DEF NothingMissed
<1>10. ApprovedNamesItsGrant'
  <2> SUFFICES ASSUME NEW r \in Requests, req[r].state = "approved"
               PROVE  /\ req[r].advance # None
                      /\ adv'[req[r].advance].for = r
                      /\ adv'[req[r].advance].emp = req[r].emp
    BY <1>1 DEF ApprovedNamesItsGrant
  <2>1. req[r].advance \in Advances /\ adv[req[r].advance].for = r
        /\ adv[req[r].advance].emp = req[r].emp
    BY DEF ApprovedNamesItsGrant, Typed, ReqRows
  <2>2. req[r].advance # a
    BY <2>1, <1>0, RequestAssumption
  <2> QED BY <1>1, <2>1, <2>2, RequestAssumption
<1> QED BY <1>5, <1>6, <1>7, <1>8, <1>9, <1>10

(* The record names the advance the same call has granted. *)
LEMMA RecordStep ==
  ASSUME RequestInv, NEW c \in Calls, Record(c) PROVE RequestInv'
<1> DEFINE l == call[c]
           r == call[c].req
<1> USE DEF RequestInv
<1>0. l \in CallRows /\ l.at = "record" /\ CallRow(c)
  BY DEF Record, Typed
<1>1. PICK a \in Advances : l.seen = {a} /\ adv[a].for = r
  BY <1>0 DEF CallRow
<1>2. /\ r \in Requests /\ l.was = "pending_hr" /\ l.emp = req[r].emp
      /\ req[r].state \notin {"none", "pending_branch"}
  BY <1>0 DEF CallRow
<1>3. req' = [req EXCEPT ![r].state = "approved", ![r].amount = l.amount,
                         ![r].advance = a]
  BY <1>1 DEF Record
<1>4. /\ call'[c] = Idle /\ \A d \in Calls \ {c} : call'[d] = call[d]
      /\ req'[r].state = "approved" /\ req'[r].emp = req[r].emp
      /\ req'[r].advance = a
      /\ \A q \in Requests \ {r} : req'[q] = req[q]
      /\ UNCHANGED <<adv, cut>> /\ KeepsHeld
      /\ stale' = IF req[r].state # l.was THEN stale \cup {r} ELSE stale
  BY <1>2, <1>3 DEF Record, WritesOn, Typed, Ends, ReqRows
<1>5. Idle \in CallRows /\ Idle.at = "idle" /\ Idle.does = "none"
  BY DEF Idle, CallAt, CallRows
<1>6. Typed'
  <2>1. req[r] \in ReqRows /\ l.amount \in Amounts \cup {0}
    BY <1>0, <1>2 DEF Typed, CallRows
  <2>2. [req[r] EXCEPT !.state = "approved", !.amount = l.amount, !.advance = a]
          \in ReqRows
    BY <2>1 DEF ReqRows, States
  <2>3. req' \in [Requests -> ReqRows]
    BY <1>2, <1>3, <2>2 DEF Typed
  <2>4. stale' \subseteq Requests
    BY <1>2, <1>4 DEF Typed
  <2>5. call' \in [Calls -> CallRows]
    BY <1>5 DEF Record, Typed, Ends
  <2> HIDE DEF l, r
  <2> QED BY <1>4, <2>3, <2>4, <2>5, HeldTyped DEF Typed
<1> HIDE DEF l, r
<1>7. \A b \in Advances : GrantRow(b)' /\ GrantAccounted(b)'
  <2> SUFFICES ASSUME NEW b \in Advances PROVE GrantRow(b)' /\ GrantAccounted(b)'
    OBVIOUS
  <2>1. adv[b].for # None => adv[b].for \in Requests
    BY DEF Typed, AdvRows
  <2>2. GrantRow(b)'
    BY <1>4, <2>1 DEF GrantRow
  <2>3. GrantAccounted(b)'
    <3>1. CASE b = a
      BY <1>1, <1>4, <3>1 DEF GrantAccounted
    <3>2. CASE b # a /\ adv[b].for = r /\ req[r].state = "approved"
      <4>1. r \in stale'
        BY <1>2, <1>4, <3>2
      <4> QED BY <1>4, <3>2, <4>1 DEF GrantAccounted
    <3>3. CASE b # a /\ (adv[b].for # r \/ req[r].state # "approved")
      <4>1. ASSUME NEW d \in Calls, call[d].at = "record", call[d].seen = {b}
            PROVE  d # c
        BY <1>1, <3>3, <4>1 DEF l
      <4> QED BY <1>4, <2>1, <3>3, <4>1 DEF GrantAccounted
    <3> QED BY <3>1, <3>2, <3>3
  <2> QED BY <2>2, <2>3
<1>8. \A d \in Calls : CallRow(d)'
  <2>1. CallRow(c)'
    BY <1>4, <1>5 DEF CallRow, Counting
  <2>2. ASSUME NEW d \in Calls \ {c} PROVE CallRow(d)'
    <3>1. CallRow(d) /\ call'[d] = call[d]
      BY <2>2, <1>4
    <3>2. \A q \in Requests :
            /\ req'[q].emp = req[q].emp
            /\ req[q].state # "none" => req'[q].state # "none"
            /\ req[q].state \notin {"none", "pending_branch"}
                 => req'[q].state \notin {"none", "pending_branch"}
      BY <1>4
    <3> QED BY <1>4, <3>1, <3>2 DEF CallRow
  <2> QED BY <2>1, <2>2
<1>9. \A d \in Calls : HeldRow(d)'
  <2>1. HeldRow(c)'
    BY <1>4, <1>5, HeldKept DEF HeldRow
  <2>2. ASSUME NEW d \in Calls \ {c} PROVE HeldRow(d)'
    <3>1. HeldRow(d) /\ call'[d] = call[d] /\ held[d] \subseteq Requests
      BY <2>2, <1>4 DEF Typed
    <3>2. ASSUME NEW q \in held'[d]
          PROVE  /\ q \in held[d] /\ req'[q].emp = req[q].emp
                 /\ req'[q].state \in Pending => req[q].state \in Pending
      <4>1. q \in held[d] /\ q \in Requests
        BY <2>2, <3>1, <1>4, HeldKept
      <4> QED BY <1>4, <4>1 DEF Pending
    <3> QED BY <3>1, <3>2, <1>4, <2>2, HeldKept DEF HeldRow
  <2> QED BY <2>1, <2>2
<1>10. NothingMissed'
  BY <1>4, <1>5, HeldKept DEF NothingMissed, GrantsOf
<1>11. ApprovedNamesItsGrant'
  <2>1. a # None
    BY RequestAssumption
  <2>2. adv[a].emp = req[r].emp
    BY <1>1, <1>2, RequestAssumption DEF GrantRow
  <2> QED BY <1>1, <1>4, <2>1, <2>2 DEF ApprovedNamesItsGrant
<1> QED BY <1>6, <1>7, <1>8, <1>9, <1>10, <1>11
-----------------------------------------------------------------------------
LEMMA StepInv == RequestInv /\ [Next]_vars => RequestInv'
<1> SUFFICES ASSUME RequestInv, [Next]_vars PROVE RequestInv'
  OBVIOUS
<1>1. ASSUME NEW c \in Calls, Continue(c) PROVE RequestInv'
  BY <1>1, ReadFirstStep, ReadSecondStep, RefuseStep, FileStep, GrantStep,
     WriteStateStep, RecordStep, FailStep DEF Continue
<1>2. CASE UNCHANGED vars
  <2> USE <1>2 DEF vars, RequestInv
  <2>1. Typed' /\ ApprovedNamesItsGrant'
    BY DEF Typed, ApprovedNamesItsGrant
  <2>2. \A a \in Advances : GrantRow(a)' /\ GrantAccounted(a)'
    BY DEF GrantRow, GrantAccounted
  <2>3. \A c \in Calls : CallRow(c)'
    BY DEF CallRow
  <2>4. \A c \in Calls : HeldRow(c)'
    BY DEF HeldRow, Committed, GrantsOf, Live
  <2>5. NothingMissed'
    BY DEF NothingMissed, GrantsOf
  <2> QED BY <2>1, <2>2, <2>3, <2>4, <2>5
<1> QED BY <1>1, <1>2, StartStep, SettleStep DEF Next

LEMMA InvAlways == Spec => []RequestInv
  BY InitInv, StepInv, PTL DEF Spec

LEMMA InvTypes == RequestInv => TypeOK
<1> SUFFICES ASSUME RequestInv PROVE TypeOK
  OBVIOUS
<1>1. Typed
  BY DEF RequestInv
<1>2. \A c \in Calls : call[c] \in CallRows
  BY <1>1 DEF Typed
<1> QED BY <1>1, <1>2 DEF Typed, TypeOK, ReqRows, AdvRows, CallRows, States, Counting

LEMMA InvBranch == RequestInv => NoGrantBeforeBranch
<1> SUFFICES ASSUME RequestInv, NEW r \in Requests, NEW a \in Advances,
                    req[r].state = "pending_branch", adv[a].for = r
             PROVE  FALSE
  BY DEF NoGrantBeforeBranch, GrantsOf
<1> QED BY RequestAssumption DEF RequestInv, GrantRow

LEMMA OneOrTwo ==
  ASSUME NEW S, NEW a, S \subseteq {a}
  PROVE  ~ Cardinality(S) > 1
<1>1. IsFiniteSet({a}) /\ Cardinality({a}) = 1
  BY FS_Singleton
<1> QED BY <1>1, FS_Subset, FS_CardinalityType

LEMMA InvOnce == RequestInv => GrantedOnce
<1> SUFFICES ASSUME RequestInv, NEW r \in Requests, r \notin stale \cup cut,
                    ~ UnderWay(r)
             PROVE  ~ Cardinality(GrantsOf(r)) > 1
  BY DEF GrantedOnce
<1>1. ASSUME NEW a \in GrantsOf(r) PROVE a = req[r].advance
  <2>1. a \in Advances /\ adv[a].for = r /\ r # None
    BY <1>1, RequestAssumption DEF GrantsOf
  <2>2. GrantAccounted(a)
    BY <2>1 DEF RequestInv
  <2> QED BY <2>1, <2>2 DEF GrantAccounted, UnderWay
<1>2. GrantsOf(r) \subseteq {req[r].advance}
  BY <1>1
<1> QED BY <1>2, OneOrTwo

(* The rows of the requests, of the advances and of the calls keep their   *)
(* types.                                                                  *)
THEOREM RequestTypes == Spec => []TypeOK
  BY InvAlways, InvTypes, PTL

(* An approved request names an advance granted for it and its employee.   *)
THEOREM ApprovalIsNamed == Spec => []ApprovedNamesItsGrant
<1>1. RequestInv => ApprovedNamesItsGrant
  BY DEF RequestInv
<1> QED BY <1>1, InvAlways, PTL

(* Nothing is granted for a request that waits for its branch. *)
THEOREM BranchFirst == Spec => []NoGrantBeforeBranch
  BY InvAlways, InvBranch, PTL

(* A second grant of a request has a cut call, a stale write or a call     *)
(* under way behind it.                                                    *)
THEOREM OneGrant == Spec => []GrantedOnce
  BY InvAlways, InvOnce, PTL

(* No claim that stood all the while is missed by a call that counts.      *)
THEOREM CountsEveryClaim == Spec => []NothingMissed
<1>1. RequestInv => NothingMissed
  BY DEF RequestInv
<1> QED BY <1>1, InvAlways, PTL
=============================================================================
