-------------------------- MODULE SeatQuotaProofs --------------------------
(***************************************************************************)
(* For any companies, employees and number of requests: the advisory lock  *)
(* of a company is what keeps its seats within the largest cap it was ever *)
(* given, and the requests implement the seat pool.                        *)
(***************************************************************************)
EXTENDS SeatQuota, FiniteSetTheorems, TLAPS

(* The types are preserved by every step. *)
LEMMA TypeStep == TypeOK /\ [Next]_vars => TypeOK'
<1> SUFFICES ASSUME TypeOK, [Next]_vars PROVE TypeOK'
  OBVIOUS
<1> USE SeatAssumption DEF TypeOK, InTransaction, Caps, NoPlan
<1>1. ASSUME NEW t \in Requests, Ask(t) PROVE TypeOK'
  <2>1. ASSUME NEW e \in Employees, AskCreate(t, e) PROVE TypeOK'
    BY <2>1 DEF AskCreate, Goto, capVars
  <2>2. ASSUME NEW e \in Employees, AskRestore(t, e) PROVE TypeOK'
    BY <2>2 DEF AskRestore, Goto, capVars
  <2> QED BY <1>1, <2>1, <2>2 DEF Ask
<1>2. ASSUME NEW t \in Requests, Proceed(t) PROVE TypeOK'
  <2>0. pc[t] # "idle" => job[t] \in Employees /\ Company(t) \in Companies
    BY DEF Company
  <2>1. CASE CheckOwn(t)
    BY <2>1, <2>0 DEF CheckOwn, Goto, Finish, capVars
  <2>2. CASE CheckGroup(t)
    BY <2>2, <2>0 DEF CheckGroup, Goto, Finish, capVars
  <2>3. CASE Begin(t)
    BY <2>3, <2>0 DEF Begin, Goto, Finish, capVars
  <2>4. CASE ReadCap(t)
    BY <2>4, <2>0 DEF ReadCap, Goto, capVars
  <2>5. CASE Lock(t)
    BY <2>5, <2>0 DEF Lock, Goto, capVars
  <2>6. CASE Count(t)
    BY <2>6, <2>0 DEF Count, Goto, Finish, Release, capVars
  <2>7. CASE Commit(t)
    BY <2>7, <2>0 DEF Commit, Goto, Finish, Release, capVars
  <2> QED BY <1>2, <2>1, <2>2, <2>3, <2>4, <2>5, <2>6, <2>7 DEF Proceed
<1>3. ASSUME NEW t \in Requests, Abort(t) PROVE TypeOK'
  BY <1>3 DEF Abort, Goto, Finish, Release, capVars
<1>4. CASE RowStep
  BY <1>4 DEF RowStep, CreateArchived, Archive, Delete, requestVars, capVars
<1>5. CASE CapStep
  <2>1. ASSUME NEW c \in Companies, WriteCap(c) PROVE TypeOK'
    BY <2>1 DEF WriteCap, Larger, requestVars
  <2>2. ASSUME NEW c \in Companies, NEW n \in NewCaps, PlanCap(c, n)
        PROVE TypeOK'
    BY <2>2 DEF PlanCap, requestVars
  <2> QED BY <1>5, <2>1, <2>2 DEF CapStep
<1>6. CASE UNCHANGED vars
  BY <1>6 DEF vars, requestVars, capVars
<1> QED BY <1>1, <1>2, <1>3, <1>4, <1>5, <1>6 DEF Next

LEMMA TypeInit == Init => TypeOK
  BY SeatAssumption DEF Init, TypeOK, Caps, NoPlan, InTransaction

(* Type correctness of the requests, the caps and the locks. *)
THEOREM TypeCorrect == Spec => []TypeOK
<1> QED BY TypeInit, TypeStep, PTL DEF Spec
-----------------------------------------------------------------------------
(* Counting active rows. *)

LEMMA CountNat ==
  ASSUME NEW S \in SUBSET Employees
  PROVE  IsFiniteSet(S) /\ Cardinality(S) \in Nat
  BY FS_Subset, FS_CardinalityType, SeatAssumption

LEMMA CountMonotone ==
  ASSUME NEW S \in SUBSET Employees, NEW T \in SUBSET S
  PROVE  Cardinality(T) <= Cardinality(S)
  BY CountNat, FS_Subset

(* A row that stops being active is no reason for more seats. *)
LEMMA SeatsShrink ==
  ASSUME NEW c \in Companies,
         \A e \in Employees : status'[e] = "active" => status[e] = "active"
  PROVE  /\ Seats(c) \in Nat /\ Seats(c)' \in Nat
         /\ Seats(c)' <= Seats(c)
<1>1. Active({c})' \subseteq Active({c}) /\ Active({c}) \in SUBSET Employees
  BY DEF Active
<1> QED BY <1>1, CountNat, CountMonotone DEF Seats

(* A commit takes one seat, in the company of its row. *)
LEMMA CommitSeats ==
  ASSUME TypeOK, NEW t \in Requests, Commit(t), OwnsRow, NEW c \in Companies
  PROVE  /\ Seats(c) \in Nat
         /\ Seats(c)' = IF c = Company(t) THEN Seats(c) + 1 ELSE Seats(c)
<1> DEFINE e == job[t]
<1>1. e \in Employees /\ status[e] # "active" /\ Company(t) = Home[e]
  BY DEF TypeOK, Commit, OwnsRow, InTransaction, Company
<1>2. status' = [status EXCEPT ![e] = "active"] /\ e \in DOMAIN status
  BY <1>1 DEF Commit, TypeOK
<1>3. Active({c}) \in SUBSET Employees /\ e \notin Active({c})
  BY <1>1 DEF Active
<1>4. IsFiniteSet(Active({c})) /\ Seats(c) \in Nat
  BY <1>3, CountNat DEF Seats
<1>5. CASE c = Company(t)
  <2>1. Active({c})' = Active({c}) \cup {e}
    BY <1>1, <1>2, <1>5 DEF Active, TypeOK
  <2> HIDE DEF e
  <2>2. Cardinality(Active({c}) \cup {e}) = Cardinality(Active({c})) + 1
    BY <1>3, <1>4, FS_AddElement
  <2> QED BY <1>4, <1>5, <2>1, <2>2 DEF Seats
<1>6. CASE c # Company(t)
  <2>1. Active({c})' = Active({c})
    BY <1>1, <1>2, <1>6 DEF Active, TypeOK
  <2> QED BY <1>4, <1>6, <2>1 DEF Seats
<1> QED BY <1>5, <1>6
-----------------------------------------------------------------------------
(* The inductive invariant. *)

LEMMA QuotaInit == Init => QuotaInv
<1> SUFFICES ASSUME Init PROVE QuotaInv
  OBVIOUS
<1>1. ASSUME NEW c \in Companies PROVE Seats(c) = 0
  <2>1. Active({c}) = {}
    BY DEF Init, Active
  <2> QED BY <2>1, FS_EmptySet DEF Seats
<1>2. \A c \in Companies : cap[c] \in Nat \cup {None}
  BY SeatAssumption DEF Init, Caps
<1>3. SeatsWithinCap
  BY <1>1, <1>2 DEF SeatsWithinCap, Init
<1>4. CapsBelowCeiling
  BY <1>2, SeatAssumption DEF CapsBelowCeiling, AtMost, Init
<1>5. SeenBelowCeiling /\ HoldsLock /\ RoomLeft /\ OwnsRow
  BY DEF SeenBelowCeiling, HoldsLock, RoomLeft, OwnsRow, Init, InTransaction
<1> QED BY <1>3, <1>4, <1>5 DEF QuotaInv

(* A step that changes only how far the request t is, and seats no one. *)
LEMMA OwnStep ==
  ASSUME TypeOK, TypeOK', QuotaInv, NEW t \in Requests,
         \/ CheckOwn(t) \/ CheckGroup(t) \/ Begin(t) \/ ReadCap(t)
         \/ Lock(t) \/ Count(t) \/ Abort(t) \/ Ask(t)
  PROVE  QuotaInv'
<1> USE DEF QuotaInv
<1>0. /\ UNCHANGED <<status, capVars>>
      /\ pc' = [pc EXCEPT ![t] = pc'[t]]
      /\ \A u \in Requests \ {t} : /\ pc'[u] = pc[u] /\ job'[u] = job[u]
                                   /\ seen'[u] = seen[u]
                                   /\ \A c \in Companies : lock[c] = u => lock'[c] = u
  BY SeatAssumption DEF TypeOK, CheckOwn, CheckGroup, Begin, ReadCap, Lock, LockFree,
       Count, Abort, Ask, AskCreate, AskRestore, Goto, Finish, Release
<1>1. SeatsWithinCap' /\ CapsBelowCeiling'
  BY <1>0 DEF capVars, SeatsWithinCap, Seats, Active, CapsBelowCeiling, AtMost
<1>2. ASSUME NEW u \in Requests \ {t}, pc[u] # "idle"
      PROVE  Company(u) \in Companies /\ Company(u)' = Company(u)
  BY <1>0, <1>2, SeatAssumption DEF Company, TypeOK
<1>3. ASSUME NEW c \in Companies
      PROVE  Active({c})' = Active({c}) /\ ceiling'[c] = ceiling[c]
  BY <1>0 DEF Active, capVars
<1>4. pc[t] # "idle" => /\ Company(t) \in Companies
                        /\ job'[t] # None => Company(t)' = Company(t)
  BY SeatAssumption DEF Company, TypeOK, CheckOwn, CheckGroup, Begin, ReadCap, Lock,
       Count, Abort, Ask, AskCreate, AskRestore, Goto, Finish, InTransaction
<1>5. SeenBelowCeiling'
  <2>1. ASSUME NEW u \in Requests, u # t
        PROVE  /\ pc'[u] \in {"waiting", "locked", "written"}
                    => AtMost(seen'[u], ceiling'[Company(u)'])
               /\ pc'[u] \in {"waiting", "locked"} => seen'[u] # None
    <3>1. CASE pc[u] = "idle"
      BY <1>0, <2>1, <3>1
    <3>2. CASE pc[u] # "idle"
      <4>1. pc'[u] = pc[u] /\ seen'[u] = seen[u]
        BY <1>0, <2>1
      <4>2. Company(u) \in Companies /\ Company(u)' = Company(u)
        BY <1>2, <2>1, <3>2
      <4>3. ceiling'[Company(u)'] = ceiling[Company(u)]
        BY <1>3, <4>2
      <4>4. /\ pc[u] \in {"waiting", "locked", "written"}
                 => AtMost(seen[u], ceiling[Company(u)])
            /\ pc[u] \in {"waiting", "locked"} => seen[u] # None
        BY DEF SeenBelowCeiling
      <4> QED BY <4>1, <4>3, <4>4 DEF AtMost
    <3> QED BY <3>1, <3>2
  <2>2. /\ pc'[t] \in {"waiting", "locked", "written"}
             => AtMost(seen'[t], ceiling'[Company(t)'])
        /\ pc'[t] \in {"waiting", "locked"} => seen'[t] # None
    <3>1. CASE ReadCap(t)
      <4>1. /\ pc[t] = "trigger" /\ job'[t] = job[t] /\ job[t] # None
            /\ seen'[t] = cap[Company(t)]
            /\ pc'[t] # "written" => seen'[t] # None
        BY <3>1 DEF ReadCap, Goto, TypeOK
      <4> QED BY <1>3, <1>4, <4>1 DEF CapsBelowCeiling, AtMost
    <3>2. CASE Lock(t) \/ Count(t)
      <4>1. /\ pc[t] \in {"waiting", "locked"} /\ seen' = seen
            /\ pc'[t] # "idle" => job'[t] = job[t]
        BY <3>2 DEF Lock, Count, Goto, Finish, TypeOK
      <4>2. pc'[t] # "idle" => job'[t] # None
        BY DEF TypeOK
      <4> QED BY <1>3, <1>4, <4>1, <4>2 DEF SeenBelowCeiling, AtMost
    <3>3. CASE ~(ReadCap(t) \/ Lock(t) \/ Count(t))
      BY <1>0, <3>3 DEF CheckOwn, CheckGroup, Begin, Abort, Ask, AskCreate,
           AskRestore, Goto, Finish, TypeOK
    <3> QED BY <3>1, <3>2, <3>3
  <2> QED BY <2>1, <2>2 DEF SeenBelowCeiling
<1>6. HoldsLock'
  <2>1. ASSUME NEW u \in Requests, u # t, pc'[u] = "locked" \/
                 (pc'[u] = "written" /\ seen'[u] # None)
        PROVE  lock'[Company(u)'] = u
    BY <1>0, <1>2, <2>1 DEF HoldsLock
  <2>2. ASSUME pc'[t] = "locked" \/ (pc'[t] = "written" /\ seen'[t] # None)
        PROVE  lock'[Company(t)'] = t
    <3>1. Lock(t) \/ Count(t)
      BY <2>2, <1>0 DEF CheckOwn, CheckGroup, Begin, Abort, Ask, AskCreate, ReadCap,
           AskRestore, Goto, Finish, TypeOK
    <3>2. CASE Lock(t)
      BY <3>2, <1>4 DEF Lock, TypeOK, Company
    <3>3. CASE Count(t)
      BY <3>3, <2>2, <1>4 DEF Count, Finish, Goto, TypeOK, Company, HoldsLock
    <3> QED BY <3>1, <3>2, <3>3
  <2> QED BY <2>1, <2>2 DEF HoldsLock
<1>7. RoomLeft'
  <2>1. ASSUME NEW u \in Requests, u # t, pc'[u] = "written",
               ceiling'[Company(u)'] # None
        PROVE  Cardinality(Active({Company(u)}))' < seen'[u]
    BY <1>0, <1>2, <1>3, <2>1 DEF RoomLeft
  <2>2. ASSUME pc'[t] = "written", ceiling'[Company(t)'] # None
        PROVE  Cardinality(Active({Company(t)}))' < seen'[t]
    <3>1. ReadCap(t) \/ Count(t)
      BY <2>2, <1>0 DEF CheckOwn, CheckGroup, Begin, Abort, Ask, AskCreate, Lock,
           AskRestore, Goto, Finish, TypeOK
    <3>2. CASE ReadCap(t)
      BY <3>2, <2>2, <1>3, <1>4 DEF ReadCap, Goto, TypeOK, CapsBelowCeiling, AtMost,
           Company
    <3>3. CASE Count(t)
      <4>1. /\ ~Full(Company(t), job[t], seen[t]) /\ pc[t] = "locked"
            /\ seen'[t] = seen[t] /\ job' = job
        BY <3>3, <2>2 DEF Count, Finish, Goto, TypeOK
      <4>2. Active({Company(t)}) \ {job[t]} = Active({Company(t)})
        BY <4>1 DEF OwnsRow, Active, InTransaction
      <4>3. seen[t] \in Nat
        BY <4>1 DEF SeenBelowCeiling, TypeOK, Caps
      <4>4. Active({Company(t)}) \in SUBSET Employees
        BY DEF Active
      <4>5. Cardinality(Active({Company(t)})) < seen[t]
        BY <4>1, <4>2, <4>3, <4>4, CountNat DEF Full
      <4> QED BY <4>1, <4>5, <1>3, <1>4 DEF Company
    <3> QED BY <3>1, <3>2, <3>3
  <2> QED BY <2>1, <2>2 DEF RoomLeft
<1>8. OwnsRow'
  <2>1. ASSUME NEW u \in Requests, NEW v \in Requests,
               pc'[u] \in InTransaction, pc'[v] \in InTransaction, job'[v] = job'[u]
        PROVE  v = u
    <3>1. CASE Begin(t)
      BY <3>1, <2>1, <1>0 DEF Begin, RowLocked, OwnsRow, Goto, Finish, TypeOK, InTransaction
    <3>2. CASE ~Begin(t)
      <4>1. pc'[t] \in InTransaction => pc[t] \in InTransaction /\ job'[t] = job[t]
        BY <3>2 DEF CheckOwn, CheckGroup, ReadCap, Lock, Count, Abort, Ask,
             AskCreate, AskRestore, Goto, Finish, TypeOK, InTransaction
      <4> QED BY <4>1, <2>1, <1>0 DEF OwnsRow
    <3> QED BY <3>1, <3>2
  <2>2. ASSUME NEW u \in Requests, pc'[u] \in InTransaction
        PROVE  status'[job'[u]] # "active"
    <3>1. CASE Begin(t) /\ u = t
      BY <3>1, <2>2, <1>0 DEF Begin, TakesSeat, Goto, Finish, TypeOK, InTransaction
    <3>2. CASE ~(Begin(t) /\ u = t)
      <4>1. pc[u] \in InTransaction /\ job'[u] = job[u]
        BY <3>2, <2>2, <1>0 DEF CheckOwn, CheckGroup, ReadCap, Lock, Count, Abort, Ask,
             AskCreate, AskRestore, Goto, Finish, TypeOK, InTransaction
      <4> QED BY <4>1, <1>0 DEF OwnsRow
    <3> QED BY <3>1, <3>2
  <2> QED BY <2>1, <2>2 DEF OwnsRow
<1> QED BY <1>1, <1>5, <1>6, <1>7, <1>8

(* The commit of a seat: the seats are below what the request counted, and *)
(* no other request that counted is left in its company.                   *)
LEMMA CommitStep ==
  ASSUME TypeOK, TypeOK', QuotaInv, NEW t \in Requests, Commit(t)
  PROVE  QuotaInv'
<1> USE DEF QuotaInv
<1>0. /\ UNCHANGED <<seen, cap, ceiling>> /\ pc[t] = "written" /\ pc'[t] = "idle"
      /\ Company(t) \in Companies
      /\ \A u \in Requests : u # t => pc'[u] = pc[u] /\ job'[u] = job[u]
      /\ \A u \in Requests, c \in Companies :
           u # t /\ lock[c] = u => lock'[c] = u
  <2>1. /\ UNCHANGED <<seen, cap, ceiling>> /\ pc[t] = "written"
        /\ pc' = [pc EXCEPT ![t] = "idle"] /\ job' = [job EXCEPT ![t] = None]
        /\ lock' = [c \in Companies |-> IF lock[c] = t THEN None ELSE lock[c]]
    BY DEF Commit, Goto, Finish, Release, capVars
  <2>2. Company(t) \in Companies
    BY <2>1, SeatAssumption DEF TypeOK, Company
  <2> QED BY <2>1, <2>2 DEF TypeOK
<1>1. ASSUME NEW u \in Requests, pc'[u] # "idle"
      PROVE  /\ u # t /\ pc[u] # "idle" /\ pc'[u] = pc[u] /\ job'[u] = job[u]
             /\ seen'[u] = seen[u]
             /\ Company(u)' = Company(u) /\ Company(u) \in Companies
             /\ ceiling'[Company(u)'] = ceiling[Company(u)]
  BY <1>0, <1>1, SeatAssumption DEF Company, TypeOK
<1>2. ASSUME NEW u \in Requests, pc[u] = "written", ceiling[Company(u)] # None
      PROVE  /\ lock[Company(u)] = u
             /\ Seats(Company(u)) < seen[u]
             /\ seen[u] \in Nat /\ seen[u] <= ceiling[Company(u)]
  BY <1>2 DEF SeenBelowCeiling, AtMost, HoldsLock, RoomLeft, Seats, TypeOK, Caps
<1>3. CapsBelowCeiling'
  BY <1>0 DEF CapsBelowCeiling, AtMost
<1>4. SeatsWithinCap'
  <2> SUFFICES ASSUME NEW c \in Companies, ceiling'[c] # None
               PROVE  Seats(c)' <= ceiling'[c]
    BY DEF SeatsWithinCap
  <2>1. /\ Seats(c) \in Nat /\ ceiling'[c] = ceiling[c] /\ ceiling[c] \in Nat
        /\ Seats(c)' = IF c = Company(t) THEN Seats(c) + 1 ELSE Seats(c)
    BY <1>0, CommitSeats DEF TypeOK, Caps
  <2>2. CASE c = Company(t)
    BY <1>0, <1>2, <2>1, <2>2
  <2>3. CASE c # Company(t)
    BY <2>1, <2>3 DEF SeatsWithinCap
  <2> QED BY <2>2, <2>3
<1>5. SeenBelowCeiling'
  <2> SUFFICES ASSUME NEW u \in Requests
               PROVE  /\ pc'[u] \in {"waiting", "locked", "written"}
                           => AtMost(seen'[u], ceiling'[Company(u)'])
                      /\ pc'[u] \in {"waiting", "locked"} => seen'[u] # None
    BY DEF SeenBelowCeiling
  <2>1. CASE pc'[u] = "idle"
    BY <2>1
  <2>2. CASE pc'[u] # "idle"
    BY <1>1, <2>2 DEF SeenBelowCeiling, AtMost
  <2> QED BY <2>1, <2>2
<1>6. HoldsLock'
  <2> SUFFICES ASSUME NEW u \in Requests,
                      pc'[u] = "locked" \/ (pc'[u] = "written" /\ seen'[u] # None)
               PROVE  lock'[Company(u)'] = u
    BY DEF HoldsLock
  <2> QED BY <1>0, <1>1 DEF HoldsLock
<1>7. RoomLeft'
  <2> SUFFICES ASSUME NEW u \in Requests, pc'[u] = "written",
                      ceiling'[Company(u)'] # None
               PROVE  Cardinality(Active({Company(u)}))' < seen'[u]
    BY DEF RoomLeft
  <2>1. /\ u # t /\ pc[u] = "written" /\ ceiling[Company(u)] # None
        /\ seen'[u] = seen[u] /\ Company(u) \in Companies
        /\ Company(u)' = Company(u)
    BY <1>1
  <2>2. Company(u) # Company(t)
    BY <1>0, <1>2, <2>1
  <2>3. ASSUME NEW c \in Companies, c # Company(t) PROVE Seats(c)' = Seats(c)
    BY <2>3, CommitSeats
  <2>4. Seats(Company(u)) < seen[u]
    BY <1>2, <2>1
  <2>5. Cardinality(Active({Company(u)}))' = Cardinality(Active({Company(u)}))
    BY <2>1, <2>2, <2>3 DEF Seats
  <2> QED BY <2>1, <2>4, <2>5 DEF Seats
<1>8. OwnsRow'
  <2> SUFFICES ASSUME NEW u \in Requests, pc'[u] \in InTransaction
               PROVE  /\ status'[job'[u]] # "active"
                      /\ \A v \in Requests :
                           pc'[v] \in InTransaction /\ job'[v] = job'[u] => v = u
    BY DEF OwnsRow
  <2>1. \A v \in Requests : pc'[v] \in InTransaction =>
          v # t /\ pc[v] \in InTransaction /\ job'[v] = job[v]
    BY <1>0 DEF InTransaction
  <2>2. pc[t] \in InTransaction /\ job[u] # job[t] /\ job[u] \in Employees
    BY <1>0, <2>1 DEF OwnsRow, InTransaction, TypeOK
  <2>3. status'[job[u]] = status[job[u]]
    BY <2>2 DEF Commit, TypeOK
  <2> QED BY <2>1, <2>3 DEF OwnsRow
<1> QED BY <1>3, <1>4, <1>5, <1>6, <1>7, <1>8

(* Archiving and deleting rows takes no seat. *)
LEMMA RowKeeps ==
  ASSUME TypeOK, QuotaInv, RowStep
  PROVE  QuotaInv'
<1> USE DEF QuotaInv
<1>0. UNCHANGED <<lock, pc, job, seen, cap, ceiling>>
  BY DEF RowStep, CreateArchived, Archive, Delete, requestVars, capVars
<1>1. \A e \in Employees : status'[e] = "active" => status[e] = "active"
  BY DEF RowStep, CreateArchived, Archive, Delete, TypeOK
<1>2. \A c \in Companies :
        Seats(c) \in Nat /\ Seats(c)' \in Nat /\ Seats(c)' <= Seats(c)
  BY <1>1, SeatsShrink
<1>3. SeatsWithinCap'
  BY <1>0, <1>2 DEF SeatsWithinCap, TypeOK, Caps
<1>4. CapsBelowCeiling' /\ SeenBelowCeiling' /\ HoldsLock'
  BY <1>0 DEF CapsBelowCeiling, SeenBelowCeiling, HoldsLock, AtMost, Company
<1>5. RoomLeft'
  <2> SUFFICES ASSUME NEW u \in Requests, pc[u] = "written",
                      ceiling[Company(u)] # None
               PROVE  Cardinality(Active({Company(u)}))' < seen[u]
    BY <1>0 DEF RoomLeft, Company
  <2>1. Company(u) \in Companies /\ Company(u)' = Company(u)
    BY <1>0, SeatAssumption DEF Company, TypeOK
  <2>2. seen[u] \in Nat /\ Seats(Company(u)) < seen[u]
    BY DEF RoomLeft, SeenBelowCeiling, AtMost, TypeOK, Caps, Seats
  <2>3. \A c \in Companies : Cardinality(Active({c}))' <= Seats(c)
    BY <1>2 DEF Seats
  <2>4. Cardinality(Active({Company(u)}))' <= Seats(Company(u))
    BY <2>1, <2>3
  <2> QED BY <1>2, <2>1, <2>2, <2>4 DEF Seats
<1>6. OwnsRow'
  BY <1>0, <1>1 DEF OwnsRow, TypeOK, InTransaction
<1> QED BY <1>3, <1>4, <1>5, <1>6

(* A cap update moves a cap below its ceiling, and ceilings only up. *)
LEMMA CapKeeps ==
  ASSUME TypeOK, TypeOK', QuotaInv, CapStep
  PROVE  QuotaInv'
<1> USE DEF QuotaInv
<1>0. UNCHANGED <<status, lock, pc, job, seen>>
  BY DEF CapStep, WriteCap, PlanCap, requestVars
<1>1. \A c \in Companies : cap'[c] \in Caps /\ ceiling'[c] \in Caps
                           /\ cap[c] \in Caps /\ ceiling[c] \in Caps
  BY DEF TypeOK
<1>2. \A c \in Companies :
        AtMost(ceiling[c], ceiling'[c]) /\ AtMost(cap'[c], ceiling'[c])
  <2>1. ASSUME NEW d \in Companies, WriteCap(d), NEW c \in Companies
        PROVE  AtMost(ceiling[c], ceiling'[c]) /\ AtMost(cap'[c], ceiling'[c])
    <3>1. CASE c = d
      <4>1. cap'[c] = plan[c] /\ ceiling'[c] = Larger(ceiling[c], plan[c])
        BY <2>1, <3>1 DEF WriteCap, TypeOK
      <4> QED BY <4>1, <1>1, SeatAssumption DEF Larger, AtMost, Caps
    <3>2. CASE c # d
      <4>1. cap'[c] = cap[c] /\ ceiling'[c] = ceiling[c]
        BY <2>1, <3>2 DEF WriteCap, TypeOK
      <4> QED BY <4>1, <1>1, SeatAssumption DEF CapsBelowCeiling, AtMost, Caps
    <3> QED BY <3>1, <3>2
  <2>2. ASSUME NEW d \in Companies, NEW n \in NewCaps, PlanCap(d, n),
               NEW c \in Companies
        PROVE  AtMost(ceiling[c], ceiling'[c]) /\ AtMost(cap'[c], ceiling'[c])
    BY <2>2, <1>1, SeatAssumption DEF PlanCap, CapsBelowCeiling, AtMost, Caps
  <2> QED BY <2>1, <2>2 DEF CapStep
<1>3. CapsBelowCeiling'
  BY <1>2 DEF CapsBelowCeiling, AtMost
<1>4. \A c \in Companies :
        ceiling'[c] # None => ceiling[c] # None /\ ceiling[c] <= ceiling'[c]
  BY <1>2 DEF AtMost
<1>5. \A S : Active(S)' = Active(S)
  BY <1>0 DEF Active
<1>6. \A c \in Companies : Seats(c) \in Nat /\ Seats(c)' = Seats(c)
  BY <1>5, CountNat DEF Seats, Active
<1>7. SeatsWithinCap'
  BY <1>1, <1>4, <1>6 DEF SeatsWithinCap, Caps
<1>8. \A u \in Requests : Company(u)' = Company(u)
                          /\ (pc[u] # "idle" => Company(u) \in Companies)
  BY <1>0, SeatAssumption DEF Company, TypeOK
<1>9. SeenBelowCeiling'
  <2> SUFFICES ASSUME NEW u \in Requests, pc[u] \in {"waiting", "locked", "written"},
                      ceiling'[Company(u)] # None
               PROVE  seen[u] # None /\ seen[u] <= ceiling'[Company(u)]
    BY <1>0, <1>8 DEF SeenBelowCeiling, AtMost
  <2>1. /\ ceiling[Company(u)] # None /\ ceiling[Company(u)] <= ceiling'[Company(u)]
        /\ ceiling[Company(u)] \in Caps /\ ceiling'[Company(u)] \in Caps
    BY <1>1, <1>4, <1>8
  <2>2. seen[u] # None /\ seen[u] <= ceiling[Company(u)] /\ seen[u] \in Caps
    BY <2>1 DEF SeenBelowCeiling, AtMost, TypeOK
  <2> QED BY <2>1, <2>2 DEF Caps
<1>10. HoldsLock'
  BY <1>0, <1>8 DEF HoldsLock
<1>11. RoomLeft'
  <2> SUFFICES ASSUME NEW u \in Requests, pc[u] = "written",
                      ceiling'[Company(u)] # None
               PROVE  Cardinality(Active({Company(u)}))' < seen[u]
    BY <1>0, <1>8 DEF RoomLeft
  <2>1. Cardinality(Active({Company(u)}))' = Cardinality(Active({Company(u)}))
    BY <1>0, <1>8 DEF Active, Company
  <2> QED BY <1>4, <1>8, <2>1 DEF RoomLeft
<1>12. OwnsRow'
  BY <1>0 DEF OwnsRow
<1> QED BY <1>3, <1>7, <1>9, <1>10, <1>11, <1>12

LEMMA QuotaStep == TypeOK /\ TypeOK' /\ QuotaInv /\ [Next]_vars => QuotaInv'
<1> SUFFICES ASSUME TypeOK, TypeOK', QuotaInv, [Next]_vars PROVE QuotaInv'
  OBVIOUS
<1>1. ASSUME NEW t \in Requests, Ask(t) \/ Proceed(t) \/ Abort(t)
      PROVE  QuotaInv'
  BY <1>1, OwnStep, CommitStep DEF Proceed
<1>2. CASE RowStep
  BY <1>2, RowKeeps
<1>3. CASE CapStep
  BY <1>3, CapKeeps
<1>4. CASE UNCHANGED vars
  <2>1. UNCHANGED <<status, lock, pc, job, seen, cap, ceiling>>
    BY <1>4 DEF vars, requestVars, capVars
  <2> QED BY <2>1 DEF QuotaInv, CapsBelowCeiling, SeenBelowCeiling, HoldsLock,
            RoomLeft, OwnsRow, SeatsWithinCap, AtMost, Company, Seats, Active,
            InTransaction
<1> QED BY <1>1, <1>2, <1>3, <1>4 DEF Next

(* In every reachable state a request that counted holds the lock of its   *)
(* company, and what it counted still leaves room for its row.             *)
THEOREM QuotaHolds == Spec => []QuotaInv
<1> QED BY TypeInit, TypeStep, QuotaInit, QuotaStep, PTL DEF Spec

(* A company never holds more active employees than the largest cap it was *)
(* ever given, however creates, restores and cap updates interleave.       *)
THEOREM SeatsSafe == Spec => []SeatsWithinCap
<1>1. QuotaInv => SeatsWithinCap
  BY DEF QuotaInv
<1> QED BY <1>1, QuotaHolds, PTL
-----------------------------------------------------------------------------
(* The refinement: a commit takes a seat, an archiving or a deletion frees *)
(* one, a cap update raises the limit, and nothing else is seen outside.   *)

LEMMA PoolInit == Init => Pool!Init
<1> SUFFICES ASSUME Init PROVE Pool!Init
  OBVIOUS
<1>1. ASSUME NEW c \in Companies PROVE Seats(c) = 0
  <2>1. Active({c}) = {}
    BY DEF Init, Active
  <2> QED BY <2>1, FS_EmptySet DEF Seats
<1>2. ceiling \in [Companies -> Nat \cup {None}]
  BY SeatAssumption DEF Init, Caps
<1> QED BY <1>1, <1>2 DEF Pool!Init

(* The row e stops being active, or it was not and nothing changes. *)
LEMMA RowSeats ==
  ASSUME TypeOK, NEW e \in Employees, NEW s \in {"none", "archived"},
         status' = [status EXCEPT ![e] = s], NEW c \in Companies
  PROVE  /\ Seats(c) \in Nat
         /\ IF status[e] = "active" /\ c = Home[e]
            THEN Seats(c) > 0 /\ Seats(c)' = Seats(c) - 1
            ELSE Seats(c)' = Seats(c)
<1>1. /\ Active({c}) \in SUBSET Employees
      /\ IsFiniteSet(Active({c})) /\ Seats(c) \in Nat
  BY CountNat DEF Active, Seats
<1>2. Active({c})' = Active({c}) \ {e}
  BY DEF Active, TypeOK
<1>3. CASE status[e] = "active" /\ c = Home[e]
  <2>1. e \in Active({c})
    BY <1>3 DEF Active
  <2>2. Cardinality(Active({c}) \ {e}) = Cardinality(Active({c})) - 1
    BY <1>1, <2>1, FS_RemoveElement
  <2>3. Seats(c) # 0
    BY <1>1, <2>1, FS_EmptySet DEF Seats
  <2>4. Seats(c)' = Cardinality(Active({c}) \ {e})
    BY <1>2 DEF Seats
  <2>5. Seats(c) > 0 /\ Seats(c)' = Seats(c) - 1
    BY <1>1, <2>2, <2>3, <2>4 DEF Seats
  <2> QED BY <1>1, <1>3, <2>5
<1>4. CASE ~(status[e] = "active" /\ c = Home[e])
  <2>1. e \notin Active({c})
    BY <1>4 DEF Active
  <2>2. Active({c})' = Active({c})
    BY <1>2, <2>1
  <2> QED BY <1>1, <1>4, <2>2 DEF Seats
<1> QED BY <1>3, <1>4

LEMMA PoolStep ==
  ASSUME TypeOK, TypeOK', QuotaInv, [Next]_vars
  PROVE  [Pool!Next]_<<[c \in Companies |-> Seats(c)], ceiling>>
<1> DEFINE used == [c \in Companies |-> Seats(c)]
<1>1. ASSUME UNCHANGED <<status, ceiling>> PROVE UNCHANGED <<used, ceiling>>
  BY <1>1 DEF Seats, Active
<1>2. ASSUME NEW t \in Requests, Commit(t) PROVE Pool!Next
  <2>1. Company(t) \in Companies
    <3>1. pc[t] # "idle"
      BY <1>2 DEF Commit
    <3> QED BY <3>1, SeatAssumption DEF TypeOK, Company
  <2>2. ceiling[Company(t)] # None => used[Company(t)] < ceiling[Company(t)]
    <3> SUFFICES ASSUME ceiling[Company(t)] # None
                 PROVE  Seats(Company(t)) < ceiling[Company(t)]
      BY <2>1
    <3>1. Seats(Company(t)) < seen[t] /\ seen[t] <= ceiling[Company(t)]
          /\ seen[t] \in Nat
      BY <1>2 DEF Commit, QuotaInv, RoomLeft, SeenBelowCeiling, AtMost, Seats,
           TypeOK, Caps
    <3> QED BY <1>2, <2>1, <3>1, CommitSeats DEF QuotaInv, TypeOK, Caps
  <2>3. used' = [used EXCEPT ![Company(t)] = @ + 1]
    <3>1. \A c \in Companies :
            Seats(c)' = IF c = Company(t) THEN Seats(c) + 1 ELSE Seats(c)
      BY <1>2, CommitSeats DEF QuotaInv
    <3> HIDE DEF QuotaInv
    <3>2. used' = [c \in Companies |-> IF c = Company(t) THEN Seats(c) + 1 ELSE Seats(c)]
      BY <3>1
    <3> QED BY <2>1, <3>2
  <2>4. UNCHANGED ceiling
    BY <1>2 DEF Commit, capVars
  <2> QED BY <2>1, <2>2, <2>3, <2>4 DEF Pool!Next, Pool!Take
<1>3. ASSUME NEW e \in Employees, NEW s \in {"none", "archived"},
             status' = [status EXCEPT ![e] = s], UNCHANGED ceiling
      PROVE  Pool!Next \/ UNCHANGED <<used, ceiling>>
  <2>1. Home[e] \in Companies
    BY SeatAssumption
  <2>2. \A c \in Companies :
          IF status[e] = "active" /\ c = Home[e]
          THEN Seats(c) > 0 /\ Seats(c)' = Seats(c) - 1
          ELSE Seats(c)' = Seats(c)
    BY <1>3, RowSeats
  <2>3. CASE status[e] = "active"
    <3>1. used[Home[e]] > 0
      BY <2>1, <2>2, <2>3
    <3>2. used' = [used EXCEPT ![Home[e]] = @ - 1]
      BY <2>1, <2>2, <2>3
    <3> QED BY <1>3, <2>1, <3>1, <3>2 DEF Pool!Next, Pool!Free
  <2>4. CASE status[e] # "active"
    BY <1>3, <2>2, <2>4
  <2> QED BY <2>3, <2>4
<1>4. ASSUME NEW c \in Companies, WriteCap(c)
      PROVE  Pool!Next \/ UNCHANGED <<used, ceiling>>
  <2>1. ceiling' = [ceiling EXCEPT ![c] = Larger(ceiling[c], plan[c])]
    BY <1>4 DEF WriteCap
  <2>2. UNCHANGED used
    BY <1>4 DEF WriteCap, Seats, Active
  <2>3. ceiling[c] \in Caps /\ plan[c] \in Caps
    BY <1>4 DEF WriteCap, TypeOK
  <2>4. CASE Larger(ceiling[c], plan[c]) = ceiling[c]
    BY <2>1, <2>2, <2>4 DEF TypeOK
  <2>5. CASE Larger(ceiling[c], plan[c]) # ceiling[c]
    <3>1. /\ ceiling[c] # None
          /\ ceiling'[c] = None \/ (ceiling'[c] \in Nat /\ ceiling'[c] > ceiling[c])
          /\ ceiling'[c] = Larger(ceiling[c], plan[c])
      <4>1. ceiling'[c] = Larger(ceiling[c], plan[c])
        BY <2>1 DEF TypeOK
      <4> QED BY <2>3, <2>5, <4>1, SeatAssumption DEF Larger, Caps
    <3> QED BY <2>1, <2>2, <3>1 DEF Pool!Next, Pool!Raise
  <2> QED BY <2>4, <2>5
<1>5. ASSUME NEW t \in Requests, Ask(t) \/ Proceed(t) \/ Abort(t), ~Commit(t)
      PROVE  UNCHANGED <<status, ceiling>>
  BY <1>5 DEF Ask, AskCreate, AskRestore, Proceed, CheckOwn, CheckGroup, Begin,
       ReadCap, Lock, Count, Abort, capVars
<1>6. CASE RowStep
  <2>1. PICK e \in Employees : CreateArchived(e) \/ Archive(e) \/ Delete(e)
    BY <1>6 DEF RowStep
  <2>2. UNCHANGED ceiling
    BY <2>1 DEF CreateArchived, Archive, Delete, capVars
  <2>3. \E s \in {"none", "archived"} : status' = [status EXCEPT ![e] = s]
    BY <2>1 DEF CreateArchived, Archive, Delete
  <2> QED BY <1>3, <2>2, <2>3
<1>7. CASE CapStep
  <2>1. ASSUME NEW c \in Companies, NEW n \in NewCaps, PlanCap(c, n)
        PROVE  UNCHANGED <<status, ceiling>>
    BY <2>1 DEF PlanCap
  <2> QED BY <1>1, <1>4, <1>7, <2>1 DEF CapStep
<1>8. CASE UNCHANGED vars
  BY <1>1, <1>8 DEF vars, capVars
<1> QED BY <1>1, <1>2, <1>5, <1>6, <1>7, <1>8 DEF Next

(* The requests of any number of clients implement the seat pool: what the *)
(* rest of the system sees is seats taken one at a time below the limit.   *)
THEOREM Refines == Spec => ImplementsSeatPool
<1>1. TypeOK /\ TypeOK' /\ QuotaInv /\ [Next]_vars
        => [Pool!Next]_<<[c \in Companies |-> Seats(c)], ceiling>>
  BY PoolStep
<1>2. Spec => []TypeOK /\ []QuotaInv
  BY TypeCorrect, QuotaHolds, PTL
<1> QED BY <1>1, <1>2, PoolInit, PTL DEF Spec, ImplementsSeatPool, Pool!Spec
=============================================================================
