----------------------------- MODULE SeatQuota -----------------------------
(***************************************************************************)
(* Employee seats of a company (licenseQuota.service.ts,                   *)
(* companyGroupQuota.service.ts and the trigger                            *)
(* enforce_company_employee_quota).                                        *)
(*                                                                         *)
(* A request that takes a seat (a new employee, or one restored from the   *)
(* archive) is a process.  It first checks the seats of the company and of *)
(* its group without any lock, then runs one transaction: the row is       *)
(* locked, the trigger reads the cap, waits for the advisory lock of the   *)
(* company, counts, and the lock is given back when the transaction ends.  *)
(* The database runs READ COMMITTED: a count sees what was committed       *)
(* before it, and a row is written for others only by the commit.          *)
(***************************************************************************)
EXTENDS Integers, FiniteSets, FiniteSetsExt

CONSTANTS
  Companies,
  Employees,     \* ids of employee rows
  Requests,      \* requests that run at once
  None,          \* null: no parent, no cap, no lock holder
  Home,          \* the company of each employee
  Parent,        \* the parent of each company, None for a root
  Root,          \* the topmost ancestor of each company
  StartCaps,     \* bound: the cap functions companies may start with
  NewCaps        \* bound: caps an administrator sets

Caps == Nat \cup {None}

ASSUME SeatAssumption ==
  /\ None \notin Requests /\ None \notin Companies /\ None \notin Int
  /\ None \notin Employees
  /\ IsFiniteSet(Employees)
  /\ Home \in [Employees -> Companies]
  /\ Parent \in [Companies -> Companies \cup {None}]
  /\ Root \in [Companies -> Companies]
  /\ \A c \in Companies :
       Root[c] = IF Parent[c] = None THEN c ELSE Root[Parent[c]]
  /\ StartCaps \subseteq [Companies -> Caps]
  /\ NewCaps \subseteq Caps

VARIABLES
  status,    \* each row: "none", "active" or "archived"
  cap,       \* Company.maxEmployees
  lock,      \* holder of the advisory lock of each company
  pc,        \* how far each request is
  job,       \* the row each request wants to seat
  fresh,     \* the requests that insert their row
  seen,      \* the cap its trigger read
  plan,      \* cap updates that passed their checks and are not written yet
  ceiling    \* history: the largest cap of each company so far

requestVars == <<pc, job, fresh, seen>>
capVars == <<cap, plan, ceiling>>
vars == <<status, lock, requestVars, capVars>>

Active(S) == {e \in Employees : status[e] = "active" /\ Home[e] \in S}
Group(c) == {d \in Companies : Root[d] = Root[c]}
Company(t) == Home[job[t]]

(* A transaction that updates a row keeps it locked until it ends. *)
InTransaction == {"trigger", "waiting", "locked", "written"}
RowLocked(e) == \E t \in Requests : pc[t] \in InTransaction /\ job[t] = e

-----------------------------------------------------------------------------
(* A request *)

Goto(t, step) == pc' = [pc EXCEPT ![t] = step]

(* A new row has a fresh id, which no other request can name. *)
AskCreate(t, e) ==
  /\ pc[t] = "idle" /\ status[e] = "none"
  /\ \A u \in Requests : job[u] # e
  /\ job' = [job EXCEPT ![t] = e]
  /\ fresh' = fresh \cup {t}
  /\ Goto(t, "own")
  /\ UNCHANGED <<status, lock, seen, capVars>>

(* restoreEmployee checks the seats only if it found the row archived. *)
AskRestore(t, e) ==
  /\ pc[t] = "idle" /\ status[e] # "none"
  /\ job' = [job EXCEPT ![t] = e]
  /\ fresh' = fresh \ {t}
  /\ Goto(t, IF status[e] = "active" THEN "update" ELSE "own")
  /\ UNCHANGED <<status, lock, seen, capVars>>

Finish(t) ==
  /\ Goto(t, "idle")
  /\ job' = [job EXCEPT ![t] = None]

(* assertCanCreateEmployees: the company, then the group, no lock held. *)
Fits(S, n) == n = None \/ Cardinality(Active(S)) + 1 <= n

CheckOwn(t) ==
  /\ pc[t] = "own"
  /\ IF Fits({Company(t)}, cap[Company(t)])
     THEN Goto(t, "group") /\ UNCHANGED job
     ELSE Finish(t)
  /\ UNCHANGED <<status, lock, fresh, seen, capVars>>

CheckGroup(t) ==
  /\ pc[t] = "group"
  /\ IF Fits(Group(Company(t)), cap[Root[Company(t)]])
     THEN Goto(t, "update") /\ UNCHANGED job
     ELSE Finish(t)
  /\ UNCHANGED <<status, lock, fresh, seen, capVars>>

(* INSERT, or UPDATE SET active = true, takes the row.  On a row deleted   *)
(* meanwhile the request fails; one that is active already takes no seat.  *)
TakesSeat(t) == status[job[t]] = IF t \in fresh THEN "none" ELSE "archived"

Begin(t) ==
  /\ pc[t] = "update" /\ ~RowLocked(job[t])
  /\ IF TakesSeat(t) THEN Goto(t, "trigger") /\ UNCHANGED job ELSE Finish(t)
  /\ UNCHANGED <<status, lock, fresh, seen, capVars>>

(* The trigger: the cap is read before the lock is asked for. *)
ReadCap(t) ==
  /\ pc[t] = "trigger"
  /\ seen' = [seen EXCEPT ![t] = cap[Company(t)]]
  /\ Goto(t, IF cap[Company(t)] = None THEN "written" ELSE "waiting")
  /\ UNCHANGED <<status, lock, job, fresh, capVars>>

(* Mutant: no advisory lock. *)
NoLock(c) == TRUE

LockFree(c) == lock[c] = None

Lock(t) ==
  /\ pc[t] = "waiting" /\ LockFree(Company(t))
  /\ lock' = [lock EXCEPT ![Company(t)] = t]
  /\ Goto(t, "locked")
  /\ UNCHANGED <<status, job, fresh, seen, capVars>>

(* Mutant: a session lock, which the end of the transaction keeps. *)
KeepLock(t) == lock

Release(t) == [c \in Companies |-> IF lock[c] = t THEN None ELSE lock[c]]

(* Mutant: the last seat is given twice. *)
FullOffByOne(c, e, n) == Cardinality(Active({c}) \ {e}) > n

Full(c, e, n) == Cardinality(Active({c}) \ {e}) >= n

(* RAISE EXCEPTION ends the transaction. *)
Count(t) ==
  /\ pc[t] = "locked"
  /\ IF Full(Company(t), job[t], seen[t])
     THEN Finish(t) /\ lock' = Release(t)
     ELSE Goto(t, "written") /\ UNCHANGED <<job, lock>>
  /\ UNCHANGED <<status, fresh, seen, capVars>>

Commit(t) ==
  /\ pc[t] = "written"
  /\ status' = [status EXCEPT ![job[t]] = "active"]
  /\ lock' = Release(t)
  /\ Finish(t)
  /\ UNCHANGED <<fresh, seen, capVars>>

(* Another statement of the transaction fails, the connection is lost, or  *)
(* the process stops: the database rolls back.                             *)
Abort(t) ==
  /\ pc[t] \in InTransaction
  /\ lock' = Release(t)
  /\ Finish(t)
  /\ UNCHANGED <<status, fresh, seen, capVars>>

-----------------------------------------------------------------------------
(* Rows that take no seat *)

(* A row written as inactive (an import), an archiving (archiveEmployee)   *)
(* and a deletion (employeeDelete.service.ts): the trigger returns early.  *)
CreateArchived(e) ==
  /\ status[e] = "none" /\ \A t \in Requests : job[t] # e
  /\ status' = [status EXCEPT ![e] = "archived"]
  /\ UNCHANGED <<lock, requestVars, capVars>>

Archive(e) ==
  /\ status[e] # "none" /\ ~RowLocked(e)
  /\ status' = [status EXCEPT ![e] = "archived"]
  /\ UNCHANGED <<lock, requestVars, capVars>>

Delete(e) ==
  /\ status[e] # "none" /\ ~RowLocked(e)
  /\ status' = [status EXCEPT ![e] = "none"]
  /\ UNCHANGED <<lock, requestVars, capVars>>

-----------------------------------------------------------------------------
(* Caps.  updateCompany checks a new cap against the parent and its other  *)
(* children, and against the children of the company, then writes it; the  *)
(* seats in use are not looked at.                                         *)
Children(c) == {d \in Companies : Parent[d] = c}

Allocated(S) == MapThenSumSet(LAMBDA d : IF cap[d] = None THEN 0 ELSE cap[d], S)

FitsParent(c, n) ==
  LET p == Parent[c] IN
  (p # None /\ cap[p] # None) =>
     n # None /\ Allocated(Children(p) \ {c}) + n <= cap[p]

CoversChildren(c, n) ==
  (n # None /\ Children(c) # {}) =>
     /\ \A d \in Children(c) : cap[d] # None
     /\ Allocated(Children(c)) <= n

NoPlan == -1

PlanCap(c, n) ==
  /\ plan[c] = NoPlan
  /\ FitsParent(c, n) /\ CoversChildren(c, n)
  /\ plan' = [plan EXCEPT ![c] = n]
  /\ UNCHANGED <<status, lock, requestVars, cap, ceiling>>

Larger(m, n) == IF m = None \/ n = None THEN None ELSE IF m > n THEN m ELSE n

WriteCap(c) ==
  /\ plan[c] # NoPlan
  /\ cap' = [cap EXCEPT ![c] = plan[c]]
  /\ ceiling' = [ceiling EXCEPT ![c] = Larger(@, plan[c])]
  /\ plan' = [plan EXCEPT ![c] = NoPlan]
  /\ UNCHANGED <<status, lock, requestVars>>

-----------------------------------------------------------------------------
Init ==
  /\ status = [e \in Employees |-> "none"]
  /\ cap \in StartCaps
  /\ ceiling = cap
  /\ plan = [c \in Companies |-> NoPlan]
  /\ lock = [c \in Companies |-> None]
  /\ pc = [t \in Requests |-> "idle"]
  /\ job = [t \in Requests |-> None]
  /\ fresh = {}
  /\ seen = [t \in Requests |-> None]

Ask(t) == \E e \in Employees : AskCreate(t, e) \/ AskRestore(t, e)

Proceed(t) == \/ CheckOwn(t) \/ CheckGroup(t) \/ Begin(t) \/ ReadCap(t)
              \/ Lock(t) \/ Count(t) \/ Commit(t)

RowStep == \E e \in Employees : CreateArchived(e) \/ Archive(e) \/ Delete(e)

CapStep == \E c \in Companies : WriteCap(c) \/ \E n \in NewCaps : PlanCap(c, n)

Next == (\E t \in Requests : Ask(t) \/ Proceed(t) \/ Abort(t)) \/ RowStep \/ CapStep

Spec == Init /\ [][Next]_vars

(* The server runs every request on, and the database hands a row lock and *)
(* the advisory lock out in the order they were asked for.                 *)
Fairness ==
  \A t \in Requests : WF_vars(Proceed(t)) /\ SF_vars(Begin(t)) /\ SF_vars(Lock(t))

FairSpec == Spec /\ Fairness

-----------------------------------------------------------------------------
(* Properties *)

(* Every variable has its type. *)
TypeOK ==
  /\ status \in [Employees -> {"none", "active", "archived"}]
  /\ cap \in [Companies -> Caps] /\ ceiling \in [Companies -> Caps]
  /\ plan \in [Companies -> Caps \cup {NoPlan}]
  /\ lock \in [Companies -> Requests \cup {None}]
  /\ pc \in [Requests -> {"idle", "own", "group", "update"} \cup InTransaction]
  /\ job \in [Requests -> Employees \cup {None}]
  /\ \A t \in Requests : job[t] = None <=> pc[t] = "idle"
  /\ fresh \subseteq Requests
  /\ seen \in [Requests -> Caps]

Seats(c) == Cardinality(Active({c}))

(* No interleaving of creates, restores, archivings and cap updates takes  *)
(* a company over the largest cap it was ever given: the trigger counts    *)
(* under the advisory lock of the company, the unlocked checks before it   *)
(* decide nothing.                                                         *)
SeatsWithinCap ==
  \A c \in Companies : ceiling[c] # None => Seats(c) <= ceiling[c]

(* Why that holds.  Caps only move below their ceiling, and so do the caps *)
(* the triggers read; a request that counted holds the lock of its company *)
(* until it ends; so what it counted is still an upper bound, and its row, *)
(* which it locked first and no one else seats, is not among the seats.    *)
AtMost(n, m) == m = None \/ (n # None /\ n <= m)

CapsBelowCeiling == \A c \in Companies : AtMost(cap[c], ceiling[c])

SeenBelowCeiling ==
  \A t \in Requests :
    /\ pc[t] \in {"waiting", "locked", "written"}
         => AtMost(seen[t], ceiling[Company(t)])
    /\ pc[t] \in {"waiting", "locked"} => seen[t] # None

HoldsLock ==
  \A t \in Requests :
    (pc[t] = "locked" \/ (pc[t] = "written" /\ seen[t] # None))
    => lock[Company(t)] = t

RoomLeft ==
  \A t \in Requests :
    (pc[t] = "written" /\ ceiling[Company(t)] # None)
    => Cardinality(Active({Company(t)})) < seen[t]

OwnsRow ==
  \A t \in Requests : pc[t] \in InTransaction =>
    /\ status[job[t]] # "active"
    /\ \A u \in Requests :
         (pc[u] \in InTransaction /\ job[u] = job[t]) => u = t

QuotaInv ==
  /\ CapsBelowCeiling /\ SeenBelowCeiling /\ HoldsLock /\ RoomLeft
  /\ OwnsRow /\ SeatsWithinCap

(* Every request ends: none waits for ever on a row or on the advisory     *)
(* lock, since every transaction gives both back however it ends.          *)
EveryRequestEnds ==
  \A t \in Requests : pc[t] # "idle" ~> pc[t] = "idle"

Pool == INSTANCE SeatPool WITH
          used <- [c \in Companies |-> Seats(c)],
          limit <- ceiling

(* The requests implement the seat pool. *)
ImplementsSeatPool == Pool!Spec
=============================================================================
