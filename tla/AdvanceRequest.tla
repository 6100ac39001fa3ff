--------------------------- MODULE AdvanceRequest ---------------------------
(***************************************************************************)
(* Requests for a short advance, from filing to the advance that pays them *)
(* (advanceRequest.service.ts, advanceEligibility.service.ts and           *)
(* createShortAdvance of advances.service.ts).                             *)
(*                                                                         *)
(* Every Prisma call commits by itself, so a handler is cut at its calls:  *)
(* a call reads the state of its request, the pending requests and the     *)
(* advances of the employee one after the other, and writes what it        *)
(* decided from them later.  A call may end anywhere (a query fails, the   *)
(* process stops), and nothing it wrote is undone.                         *)
(***************************************************************************)
EXTENDS Integers, FiniteSets, FiniteSetsExt

CONSTANTS
  Requests,    \* ids of advance requests
  Advances,    \* ids of short advances
  Employees,
  Calls,       \* handler calls that may be under way at once
  None,
  Amounts,     \* bound: the amounts asked for and granted
  Entitled,    \* maxEligibleAmount of each employee
  Enforce      \* the setting advanceEnforceLimit

ASSUME RequestAssumption ==
  /\ None \notin Requests \cup Advances \cup Employees
  /\ Requests \cap Advances = {}
  /\ Amounts \subseteq Nat \ {0}
  /\ Entitled \in [Employees -> Nat]
  /\ Enforce \in BOOLEAN

VARIABLES
  req,     \* the AdvanceRequest rows
  adv,     \* the AdvanceShort rows; for: the request it was granted for
  call,    \* the calls under way
  stale,   \* history: requests written by a call that had read an older state
  cut,     \* history: requests whose approval ended between grant and record
  held     \* history: what an employee has claimed since a call began to count

vars == <<req, adv, call, stale, cut, held>>

NoRequest == [state |-> "none", emp |-> None, amount |-> 0, advance |-> None]
NoAdvance == [state |-> "none", emp |-> None, amount |-> 0, for |-> None]
CallAt(at, does, r, was, e, amount, over) ==
  [at |-> at, does |-> does, req |-> r, was |-> was, emp |-> e,
   amount |-> amount, over |-> over, seen |-> {}]
Idle == CallAt("idle", "none", None, "none", None, 0, FALSE)

Pending == {"pending_branch", "pending_hr"}

(* A short advance counts against the limit until payroll takes it. *)
Live(a) == adv[a].state = "pending"

GrantsOf(r) == {a \in Advances : adv[a].for = r}

(* The claim of a request stands while it is pending or its grant is live. *)
Committed(r) == req[r].state \in Pending \/ \E a \in GrantsOf(r) : Live(a)

(* History of a step: a write by c on its request r is stale when the row  *)
(* is no longer in the state c read.                                       *)
WritesOn(c, r) == stale' = IF req[r].state # call[c].was THEN stale \cup {r}
                           ELSE stale

KeepsHeld ==
  held' = [c \in Calls |->
             IF call'[c].at \in {"readSecond", "decide"}
             THEN {r \in held[c] : Committed(r)' /\ r \notin stale'} ELSE {}]

Goes(c, to) == call' = [call EXCEPT ![c].at = to]
Ends(c) == call' = [call EXCEPT ![c] = Idle]

-----------------------------------------------------------------------------
(* Counting what is outstanding: getOutstandingAdvanceTotals reads the     *)
(* pending requests first and the advances second.                         *)

(* Mutant: the two queries are sent in the other order. *)
QueriesSwapped == <<"advances", "requests">>

Queries == <<"requests", "advances">>

Found(l, query) ==
  IF query = "requests"
  THEN {<<r, req[r].amount>> : r \in {r \in Requests \ {l.req} :
          req[r].emp = l.emp /\ req[r].state \in Pending}}
  ELSE {<<a, adv[a].amount>> : a \in {a \in Advances :
          adv[a].emp = l.emp /\ Live(a)}}

ReadFirst(c) ==
  LET l == call[c] IN
  /\ l.at = "readFirst"
  /\ call' = [call EXCEPT ![c].at = "readSecond", ![c].seen = Found(l, Queries[1])]
  /\ held' = [held EXCEPT ![c] = {r \in Requests \ (stale \cup {l.req}) :
                                    req[r].emp = l.emp /\ Committed(r)}]
  /\ UNCHANGED <<req, adv, stale, cut>>

ReadSecond(c) ==
  LET l == call[c] IN
  /\ l.at = "readSecond"
  /\ call' = [call EXCEPT ![c].at = "decide",
                          ![c].seen = @ \cup Found(l, Queries[2])]
  /\ UNCHANGED <<req, adv, stale, cut, held>>

(* computeAdvanceEligibility: what is left of the entitlement. *)
Available(l) ==
  Max({0, Entitled[l.emp] - MapThenSumSet(LAMBDA row : row[2], l.seen)})

(* Requests are always held to the limit; a grant may exceed it when HR    *)
(* overrides it with a reason or the setting does not enforce it.          *)
Allowed(l) ==
  \/ l.amount <= Available(l)
  \/ l.does # "file" /\ (l.over \/ ~Enforce)

-----------------------------------------------------------------------------
(* createAdvanceRequest *)
StartFile(c, e, amount, first) ==
  /\ call[c] = Idle
  /\ call' = [call EXCEPT ![c] =
       CallAt("readFirst", "file", None, first, e, amount, FALSE)]
  /\ UNCHANGED <<req, adv, stale, cut, held>>

File(c, r) ==
  LET l == call[c] IN
  /\ l.at = "decide" /\ l.does = "file" /\ Allowed(l)
  /\ req[r].state = "none"
  /\ req' = [req EXCEPT ![r] = [state |-> l.was, emp |-> l.emp,
                                amount |-> l.amount, advance |-> None]]
  /\ Ends(c)
  /\ UNCHANGED <<adv, stale, cut>>
  /\ KeepsHeld

(* The limit is exceeded: the call answers with an error. *)
Refuse(c) ==
  /\ call[c].at = "decide" /\ ~Allowed(call[c])
  /\ Ends(c)
  /\ UNCHANGED <<req, adv, stale, cut>>
  /\ KeepsHeld

-----------------------------------------------------------------------------
(* loadForAction and the check of the state, then the write. *)
Load(c, r, does, states) ==
  /\ call[c] = Idle
  /\ req[r].state \in states
  /\ call' = [call EXCEPT ![c] =
       CallAt("write", does, r, req[r].state, None, 0, FALSE)]
  /\ UNCHANGED <<req, adv, stale, cut, held>>

StartBranchApprove(c, r) == Load(c, r, "pending_hr", {"pending_branch"})

(* rejectAdvanceRequest and cancelAdvanceRequest; rejected and cancelled   *)
(* are one state here, closed: nothing reads which of them it is.          *)
StartClose(c, r) == Load(c, r, "closed", Pending)

(* All three end in an update by id, whatever the row holds by then.       *)
WriteState(c) ==
  LET l == call[c] IN
  /\ l.at = "write"
  /\ req' = [req EXCEPT ![l.req].state = l.does]
  /\ WritesOn(c, l.req)
  /\ Ends(c)
  /\ UNCHANGED <<adv, cut>>
  /\ KeepsHeld

(* Mutant: HR approves what the branch has not cleared. *)
StartHrApproveEarly(c, r, amount, over) ==
  /\ call[c] = Idle
  /\ req[r].state \in Pending
  /\ call' = [call EXCEPT ![c] =
       CallAt("readFirst", "approve", r, req[r].state, req[r].emp, amount, over)]
  /\ UNCHANGED <<req, adv, stale, cut, held>>

(* Mutant: the state of the request is not checked. *)
StartHrApproveAny(c, r, amount, over) ==
  /\ call[c] = Idle
  /\ req[r].state \in {"pending_hr", "approved"}
  /\ call' = [call EXCEPT ![c] =
       CallAt("readFirst", "approve", r, req[r].state, req[r].emp, amount, over)]
  /\ UNCHANGED <<req, adv, stale, cut, held>>

(* hrApproveAdvanceRequest: HR may change the amount and override the      *)
(* limit; the request under review does not count against itself.          *)
StartHrApprove(c, r, amount, over) ==
  /\ call[c] = Idle
  /\ req[r].state = "pending_hr"
  /\ call' = [call EXCEPT ![c] =
       CallAt("readFirst", "approve", r, "pending_hr", req[r].emp, amount, over)]
  /\ UNCHANGED <<req, adv, stale, cut, held>>

(* createShortAdvance called by HR without a request. *)
StartGrant(c, e, amount, over) ==
  /\ call[c] = Idle
  /\ call' = [call EXCEPT ![c] =
       CallAt("readFirst", "grant", None, "none", e, amount, over)]
  /\ UNCHANGED <<req, adv, stale, cut, held>>

Grant(c, a) ==
  LET l == call[c] IN
  /\ l.at = "decide" /\ l.does \in {"approve", "grant"} /\ Allowed(l)
  /\ adv[a].state = "none"
  /\ adv' = [adv EXCEPT ![a] = [state |-> "pending", emp |-> l.emp,
                                amount |-> l.amount, for |-> l.req]]
  /\ IF l.does = "grant" THEN Ends(c)
     ELSE call' = [call EXCEPT ![c].at = "record", ![c].seen = {a}]
  /\ UNCHANGED <<req, stale, cut>>
  /\ KeepsHeld

(* Mutant: the granted advance is not named. *)
RecordState(c) ==
  LET l == call[c] IN
  /\ l.at = "record"
  /\ req' = [req EXCEPT ![l.req].state = "approved"]
  /\ WritesOn(c, l.req)
  /\ Ends(c)
  /\ UNCHANGED <<adv, cut>>
  /\ KeepsHeld

(* The last write of hrApproveAdvanceRequest. *)
Record(c) ==
  LET l == call[c] IN
  /\ l.at = "record"
  /\ \E a \in l.seen :
       req' = [req EXCEPT ![l.req].state = "approved",
                          ![l.req].amount = l.amount, ![l.req].advance = a]
  /\ WritesOn(c, l.req)
  /\ Ends(c)
  /\ UNCHANGED <<adv, cut>>
  /\ KeepsHeld

(* A call ends before its next statement. *)
Fail(c) ==
  /\ call[c] # Idle
  /\ cut' = IF call[c].at = "record" THEN cut \cup {call[c].req} ELSE cut
  /\ Ends(c)
  /\ UNCHANGED <<req, adv, stale>>
  /\ KeepsHeld

-----------------------------------------------------------------------------
(* An advance stops counting: cancelShortAdvance cancels it, or a payroll  *)
(* takes it (PayrollLedger).                                               *)
Settle(a) ==
  /\ Live(a)
  /\ adv' = [adv EXCEPT ![a].state = "closed"]
  /\ UNCHANGED <<req, call, stale, cut>>
  /\ KeepsHeld

-----------------------------------------------------------------------------
Init ==
  /\ req = [r \in Requests |-> NoRequest]
  /\ adv = [a \in Advances |-> NoAdvance]
  /\ call = [c \in Calls |-> Idle]
  /\ stale = {} /\ cut = {}
  /\ held = [c \in Calls |-> {}]

Start(c) ==
  \/ \E e \in Employees, n \in Amounts, first \in Pending : StartFile(c, e, n, first)
  \/ \E r \in Requests : \/ StartBranchApprove(c, r)
                         \/ StartClose(c, r)
  \/ \E r \in Requests, n \in Amounts, over \in BOOLEAN :
       StartHrApprove(c, r, n, over)
  \/ \E e \in Employees, n \in Amounts, over \in BOOLEAN : StartGrant(c, e, n, over)

Continue(c) ==
  \/ ReadFirst(c) \/ ReadSecond(c) \/ Refuse(c)
  \/ \E r \in Requests : File(c, r)
  \/ \E a \in Advances : Grant(c, a)
  \/ WriteState(c) \/ Record(c) \/ Fail(c)

Next == \/ \E c \in Calls : Start(c) \/ Continue(c)
        \/ \E a \in Advances : Settle(a)

Spec == Init /\ [][Next]_vars

-----------------------------------------------------------------------------
(* Properties *)

TypeOK ==
  /\ req \in [Requests -> [state : {"none", "approved", "closed"}
                                     \cup Pending,
                           emp : Employees \cup {None}, amount : Amounts \cup {0},
                           advance : Advances \cup {None}]]
  /\ adv \in [Advances -> [state : {"none", "pending", "closed"},
                           emp : Employees \cup {None}, amount : Amounts \cup {0},
                           for : Requests \cup {None}]]
  /\ \A c \in Calls :
       /\ call[c].at \in {"idle", "readFirst", "readSecond", "decide",
                          "write", "record"}
       /\ call[c].req \in Requests \cup {None}
       /\ call[c].emp \in Employees \cup {None}
       /\ call[c].amount \in Amounts \cup {0}
  /\ stale \subseteq Requests /\ cut \subseteq Requests
  /\ held \in [Calls -> SUBSET Requests]

(* An approved request names an advance that was granted for it and for    *)
(* its employee, whichever approvals, rejections and failures met on it;   *)
(* so no two requests ever name the same advance (advanceRequest.service.ts *)
(* line 386 against the unique key of advanceShortId).                     *)
ApprovedNamesItsGrant ==
  \A r \in Requests : req[r].state = "approved" =>
    /\ req[r].advance # None
    /\ adv[req[r].advance].for = r
    /\ adv[req[r].advance].emp = req[r].emp

(* Money moves only for a request the branch step let through: a request   *)
(* that still waits for its branch has no advance (hrApproveAdvanceRequest *)
(* checks the state at line 362 and grants at line 377; no write of another *)
(* call brings the request back in between).                               *)
NoGrantBeforeBranch ==
  \A r \in Requests : req[r].state = "pending_branch" => GrantsOf(r) = {}

UnderWay(r) == \E c \in Calls : call[c].at = "record" /\ call[c].req = r

(* A request is paid twice only if an approval ended between the grant and *)
(* the record, or if a call overwrote a state it had not read; otherwise   *)
(* at most the grants of approvals still under way are extra.              *)
GrantedOnce ==
  \A r \in Requests :
    Cardinality(GrantsOf(r)) > 1 => r \in stale \cup cut \/ UnderWay(r)

(* A claim that stood all the while a call counted is among what it        *)
(* counted: an approval that turns a pending request into an advance in    *)
(* between never makes the entitlement look larger than it is              *)
(* (advanceEligibility.service.ts:195, the order of its two queries).      *)
NothingMissed ==
  \A c \in Calls : call[c].at = "decide" =>
    \A r \in held[c] : \E row \in call[c].seen :
      row[1] = r \/ row[1] \in GrantsOf(r)

=============================================================================
