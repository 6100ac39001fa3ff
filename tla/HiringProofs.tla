---------------------------- MODULE HiringProofs ----------------------------
(***************************************************************************)
(* What holds of employee codes, exclusions and appointments for any       *)
(* number of employees, codes, BioTime persons, appointments and calls.    *)
(***************************************************************************)
EXTENDS Hiring, TLAPS

MaybeCode == Codes \cup {None}
MaybeBid == Bids \cup {None}
MaybeEmp == Employees \cup {None}

EmpRows == [st : {"unused", "active", "archived", "deleted"}, stamped : BOOLEAN,
            code : MaybeCode, ident : MaybeCode, bar : MaybeCode,
            bid : MaybeBid, mcode : MaybeCode]

ApptRows == [st : {"none", "pending", "approved", "closed"}, code : MaybeCode,
             nid : Nids \cup {None}, emp : MaybeEmp]

Jobs == [appt : Appts, was : {"none", "pending", "approved", "closed"},
         to : {"pending", "approved", "closed", "keep"}, row : ApptRows,
         seen : SUBSET Employees]

Ats == {"idle", "archived", "erase", "write", "insert", "update", "find",
        "exclude", "create", "refresh", "map", "file", "decide", "linked",
        "nid", "join", "code", "hire"}
Hows == {"none", "form", "code", "sheet", "grid", "push", "pull", "hire"}

CallRows == [at : Ats, how : Hows, code : MaybeCode, on : MaybeEmp,
             bid : MaybeBid, rows : SUBSET Employees, known : SUBSET Employees,
             gone : SUBSET Bids, job : Jobs \cup {None}]

Types ==
  /\ emp \in [Employees -> EmpRows]
  /\ call \in [Calls -> CallRows]
  /\ appt \in [Appts -> ApptRows]
  /\ bio \in [Bids -> MaybeCode]
  /\ excl \subseteq [bid : MaybeBid, code : MaybeCode]
  /\ removed \subseteq Bids
  /\ nid \in [Employees -> Nids \cup {None}]

-----------------------------------------------------------------------------
LEMMA CallRecord ==
  ASSUME Types, NEW at \in Ats, NEW how \in Hows, NEW c \in MaybeCode,
         NEW x \in MaybeEmp, NEW b \in MaybeBid
  PROVE  CallAt(at, how, c, x, b) \in CallRows
BY DEF Types, CallAt, CallRows, Holders, Exists, MaybeCode, EmpRows

LEMMA IdleRecord == Idle \in CallRows
<1>1. None \in Jobs \cup {None}
  OBVIOUS
<1> QED
  BY <1>1 DEF Idle, CallRows, MaybeCode, MaybeEmp, MaybeBid, Ats, Hows

LEMMA GoesTyped ==
  ASSUME Types, NEW k \in Calls, NEW to \in Ats, Goes(k, to)
  PROVE  call' \in [Calls -> CallRows]
BY DEF Types, Goes, CallRows

LEMMA EndsTyped ==
  ASSUME Types, NEW k \in Calls, Ends(k)
  PROVE  call' \in [Calls -> CallRows]
BY IdleRecord DEF Types, Ends

LEMMA BeginsTyped ==
  ASSUME Types, NEW k \in Calls, NEW l \in CallRows, NEW n, Begins(k, l, n)
  PROVE  call' \in [Calls -> CallRows]
BY DEF Types, Begins

LEMMA WritesTyped ==
  ASSUME Types, NEW k \in Calls, NEW e, NEW c, Writes(k, e, c)
  PROVE  call' \in [Calls -> CallRows]
BY IdleRecord DEF Types, Writes, CallRows

LEMMA EraseTyped ==
  ASSUME Types, NEW e \in Employees, NEW k, Erase(e, k)
  PROVE  /\ emp' \in [Employees -> EmpRows]
         /\ call' \in [Calls -> CallRows]
         /\ excl' \subseteq [bid : MaybeBid, code : MaybeCode]
         /\ removed' \subseteq Bids
<1>1. Deleted \in EmpRows
  BY DEF Deleted, Row, EmpRows, MaybeCode, MaybeBid
<1>2. emp' \in [Employees -> EmpRows]
  BY <1>1 DEF Types, Erase
<1>3. call' \in [Calls -> CallRows]
  <2>1. ASSUME NEW j \in Calls
        PROVE  call'[j] \in CallRows
    <3>1. call[j] \in CallRows
      BY DEF Types
    <3>2. CASE j = k
      BY <3>1, <3>2 DEF Erase, CallRows
    <3>3. CASE j # k
      BY <3>1, <3>3 DEF Erase, CallRows
    <3> QED
      BY <3>2, <3>3
  <2> QED
    BY <2>1 DEF Erase
<1>4. removed' \subseteq Bids
  BY DEF Types, Erase, EmpRows, MaybeBid
<1>5. emp[e].bid \in MaybeBid /\ emp[e].code \in MaybeCode /\ emp[e].mcode \in MaybeCode
  BY DEF Types, EmpRows
<1>6. excl' \subseteq [bid : MaybeBid, code : MaybeCode]
  <2>1. Notes(e)
    BY DEF Erase
  <2> DEFINE c == IF emp[e].mcode # None THEN emp[e].mcode ELSE emp[e].code
             b == emp[e].bid
             note(x) == [bid |-> IF b = None THEN x.bid ELSE b, code |-> c]
  <2>2. c \in MaybeCode
    BY <1>5
  <2>3. \/ excl' = excl \cup {[bid |-> b, code |-> c]}
        \/ \E x \in excl : excl' = (excl \ {x}) \cup {note(x)}
    BY <2>1 DEF Notes
  <2>4. ASSUME NEW x \in excl PROVE note(x) \in [bid : MaybeBid, code : MaybeCode]
    BY <1>5, <2>2 DEF Types
  <2> QED
    BY <1>5, <2>2, <2>3, <2>4 DEF Types
<1> QED
  BY <1>2, <1>3, <1>4, <1>6

LEMMA NewRowTyped ==
  ASSUME NEW st \in {"unused", "active", "archived", "deleted"},
         NEW c \in MaybeCode, NEW i \in MaybeCode, NEW r \in MaybeCode,
         NEW b \in MaybeBid, NEW m \in MaybeCode
  PROVE  [Row(st, c, i, r) EXCEPT !.bid = b, !.mcode = m] \in EmpRows
BY DEF Row, EmpRows, MaybeCode, MaybeBid

LEMMA EmpChanges ==
  ASSUME NEW x \in EmpRows, NEW c \in MaybeCode, NEW b \in MaybeBid,
         NEW m \in MaybeCode
  PROVE  /\ [x EXCEPT !.bid = b, !.mcode = m] \in EmpRows
         /\ [x EXCEPT !.code = c, !.bid = b, !.mcode = m] \in EmpRows
         /\ [x EXCEPT !.code = c, !.bar = c, !.ident = m] \in EmpRows
<1>1. [x EXCEPT !.bid = b] \in EmpRows
  BY DEF EmpRows
<1>2. [x EXCEPT !.bid = b, !.mcode = m] \in EmpRows
  BY <1>1 DEF EmpRows
<1>3. [x EXCEPT !.code = c] \in EmpRows
  BY DEF EmpRows
<1>4. [x EXCEPT !.code = c, !.bid = b] \in EmpRows
  BY <1>3 DEF EmpRows
<1>5. [x EXCEPT !.code = c, !.bid = b, !.mcode = m] \in EmpRows
  BY <1>4 DEF EmpRows
<1>6. [x EXCEPT !.code = c, !.bar = c] \in EmpRows
  BY <1>3 DEF EmpRows
<1>7. [x EXCEPT !.code = c, !.bar = c, !.ident = m] \in EmpRows
  BY <1>6 DEF EmpRows
<1> QED
  BY <1>2, <1>5, <1>7

LEMMA RowsChange ==
  ASSUME NEW l \in CallRows, NEW at \in Ats, NEW R, R \subseteq Employees
  PROVE  [l EXCEPT !.at = at, !.rows = R] \in CallRows
<1>1. [l EXCEPT !.at = at] \in CallRows
  BY DEF CallRows
<1> QED
  BY <1>1 DEF CallRows

LEMMA CallChanges ==
  ASSUME NEW l \in CallRows, NEW at \in Ats, NEW x \in MaybeEmp,
         NEW R \in SUBSET Employees
  PROVE  /\ [l EXCEPT !.at = at, !.rows = R] \in CallRows
         /\ [l EXCEPT !.at = at, !.on = x] \in CallRows
         /\ [l EXCEPT !.at = at, !.on = x, !.rows = R] \in CallRows
<1>1. [l EXCEPT !.at = at] \in CallRows
  BY DEF CallRows
<1>2. [l EXCEPT !.at = at, !.rows = R] \in CallRows
  BY <1>1 DEF CallRows
<1>3. [l EXCEPT !.at = at, !.on = x] \in CallRows
  BY <1>1 DEF CallRows
<1>4. [l EXCEPT !.at = at, !.on = x, !.rows = R] \in CallRows
  BY <1>3 DEF CallRows
<1> QED
  BY <1>2, <1>3, <1>4

(* The steps of the codes alone. *)
LEMMA CodesTypes ==
  ASSUME Types, CodesNext
  PROVE  /\ emp' \in [Employees -> EmpRows]
         /\ call' \in [Calls -> CallRows]
         /\ bio' \in [Bids -> MaybeCode]
         /\ excl' \subseteq [bid : MaybeBid, code : MaybeCode]
         /\ removed' \subseteq Bids
<1> DEFINE Goal == /\ emp' \in [Employees -> EmpRows]
                   /\ call' \in [Calls -> CallRows]
                   /\ bio' \in [Bids -> MaybeCode]
                   /\ excl' \subseteq [bid : MaybeBid, code : MaybeCode]
                   /\ removed' \subseteq Bids
<1>1. ASSUME NEW k \in Calls, NEW c \in Codes, NEW x \in MaybeEmp,
             NEW how \in {"form", "code"}, StartForm(k, c, x, how)
      PROVE  Goal
  <2> DEFINE R == {e \in Employees : Active(e)}
             l == CallAt("archived", how, c, x, None)
  <2>1. l \in CallRows
    BY CallRecord DEF MaybeCode, MaybeBid, Ats, Hows
  <2>2. [l EXCEPT !.rows = R] \in CallRows
    <3> HIDE DEF l
    <3> QED BY <2>1 DEF CallRows
  <2>3. Begins(k, [l EXCEPT !.rows = R], Renames(x))
    BY <1>1 DEF StartForm
  <2>4. call' \in [Calls -> CallRows]
    <3> HIDE DEF l, R
    <3> QED BY <2>2, <2>3, BeginsTyped
  <2> QED
    BY <1>1, <2>4 DEF StartForm, Types
<1>2. ASSUME NEW k \in Calls, NEW c \in Codes, NEW x \in MaybeEmp,
             StartSheet(k, c, x)
      PROVE  Goal
  <2>1. CallAt("write", "sheet", c, x, None) \in CallRows
    BY CallRecord DEF MaybeCode, MaybeBid, Ats, Hows
  <2>2. call' \in [Calls -> CallRows]
    BY <1>2, <2>1, BeginsTyped DEF StartSheet
  <2> QED
    BY <1>2, <2>2 DEF StartSheet, Types
<1>3. ASSUME NEW k \in Calls, NEW c \in Codes, StartShiftSheet(k, c)
      PROVE  Goal
  <2>1. CallAt("write", "grid", c, None, None) \in CallRows
    BY CallRecord DEF MaybeCode, MaybeEmp, MaybeBid, Ats, Hows
  <2>2. call' \in [Calls -> CallRows]
    BY <1>3, <2>1, BeginsTyped DEF StartShiftSheet
  <2> QED
    BY <1>3, <2>2 DEF StartShiftSheet, Types
<1>4. ASSUME NEW k \in Calls, FindArchived(k) PROVE Goal
  <2> DEFINE R == InArchive(call[k].code, call[k].on)
  <2>1. R \subseteq Employees
    BY DEF InArchive
  <2>2. call[k] \in CallRows /\ "erase" \in Ats
    BY DEF Types, Ats
  <2>5. call' = [call EXCEPT ![k] = [call[k] EXCEPT !.at = "erase", !.rows = R]]
    BY <1>4 DEF FindArchived, Types
  <2> HIDE DEF R
  <2>3. [call[k] EXCEPT !.at = "erase", !.rows = R] \in CallRows
    BY <2>1, <2>2, RowsChange
  <2>4. call' \in [Calls -> CallRows]
    BY <2>3, <2>5 DEF Types
  <2> QED
    BY <1>4, <2>4 DEF FindArchived, Types
<1>5. ASSUME NEW k \in Calls, EraseNext(k) PROVE Goal
  <2>1. PICK e \in call[k].rows : Erase(e, k)
    BY <1>5 DEF EraseNext
  <2>2. e \in Employees
    BY <2>1 DEF Types, CallRows
  <2> QED
    BY <1>5, <2>1, <2>2, EraseTyped DEF EraseNext, Types
<1>6. ASSUME NEW k \in Calls, NEW e \in Employees, WriteNew(k, e) PROVE Goal
  <2>1. call[k].code \in MaybeCode
    BY DEF Types, CallRows
  <2>2. emp'[e] \in EmpRows
    BY <1>6, <2>1 DEF WriteNew, NewRow, Row, EmpRows, MaybeCode, MaybeBid, Types
  <2>3. emp' \in [Employees -> EmpRows]
    BY <1>6, <2>2 DEF WriteNew, Types
  <2> QED
    BY <1>6, <2>3, EndsTyped DEF WriteNew, Types
<1>7. ASSUME NEW k \in Calls, WriteCode(k) PROVE Goal
  <2>1. call[k].code \in MaybeCode
    BY DEF Types, CallRows
  <2> DEFINE x == call[k].on
             c == call[k].code
             i == IF call[k].how = "code" THEN emp[x].ident ELSE c
  <2>8. ASSUME x \in Employees
        PROVE  [emp[x] EXCEPT !.code = c, !.bar = c, !.ident = i] \in EmpRows
    <3>1. emp[x] \in EmpRows /\ i \in MaybeCode
      BY <2>1, <2>8 DEF Types, EmpRows
    <3> HIDE DEF i
    <3>2. ASSUME NEW y \in EmpRows
          PROVE  [y EXCEPT !.code = c, !.bar = c, !.ident = i] \in EmpRows
      <4> HIDE DEF c
      <4>1. c \in MaybeCode
        BY <2>1 DEF c
      <4>2. [y EXCEPT !.code = c] \in EmpRows
        BY <4>1 DEF EmpRows
      <4>3. [y EXCEPT !.code = c, !.bar = c] \in EmpRows
        BY <4>1, <4>2 DEF EmpRows
      <4> QED
        BY <3>1, <4>3 DEF EmpRows
    <3> QED BY <3>1, <3>2
  <2>9. /\ x \in Employees
        /\ emp' = [emp EXCEPT ![x] = [emp[x] EXCEPT !.code = c, !.bar = c, !.ident = i]]
    BY <1>7 DEF WriteCode, Exists, Types, CallRows, MaybeEmp
  <2>2. emp' \in [Employees -> EmpRows]
    <3> HIDE DEF x, c, i
    <3> QED BY <2>8, <2>9 DEF Types
  <2>3. call' \in [Calls -> CallRows]
    BY <1>7, WritesTyped DEF WriteCode
  <2> QED
    BY <1>7, <2>2, <2>3 DEF WriteCode, Types
<1>8. ASSUME NEW k \in Calls, NEW e \in Employees, NEW b \in Bids,
             StartPush(k, e, b)
      PROVE  Goal
  <2>1. emp[e].code \in MaybeCode
    BY DEF Types, EmpRows
  <2>2. CallAt(IF Mapped(e) THEN "update" ELSE "insert", "push", emp[e].code,
               e, b) \in CallRows
    BY <2>1, CallRecord DEF MaybeEmp, MaybeBid, Ats, Hows
  <2>3. call' \in [Calls -> CallRows]
    BY <1>8, <2>2, BeginsTyped DEF StartPush
  <2> QED
    BY <1>8, <2>1, <2>3 DEF StartPush, Types
<1>9. ASSUME NEW k \in Calls, NEW e \in Employees, StartPatch(k, e) PROVE Goal
  <2>1. emp[e].code \in MaybeCode /\ emp[e].bid \in MaybeBid
    BY DEF Types, EmpRows
  <2>2. CallAt("update", "push", emp[e].code, e, emp[e].bid) \in CallRows
    BY <2>1, CallRecord DEF MaybeEmp, Ats, Hows
  <2>3. call' \in [Calls -> CallRows]
    BY <1>9, <2>2, BeginsTyped DEF StartPatch
  <2> QED
    BY <1>9, <2>3 DEF StartPatch, Types
<1>10. ASSUME NEW k \in Calls, Persist(k) PROVE Goal
  <2>1. call[k].code \in MaybeCode /\ call[k].bid \in MaybeBid
    BY DEF Types, CallRows
  <2> DEFINE x == call[k].on
  <2>8. ASSUME x \in Employees
        PROVE  [emp[x] EXCEPT !.bid = call[k].bid, !.mcode = call[k].code] \in EmpRows
    BY <2>1, <2>8, EmpChanges DEF Types
  <2>2. emp' \in [Employees -> EmpRows]
    BY <1>10, <2>8 DEF Persist, Types
  <2> QED
    BY <1>10, <2>2, EndsTyped DEF Persist, Types
<1>11. ASSUME NEW k \in Calls, NEW b \in Bids, StartPull(k, b) PROVE Goal
  <2>1. bio[b] \in MaybeCode
    BY DEF Types
  <2>2. CallAt("find", "pull", bio[b], None, b) \in CallRows
    BY <2>1, CallRecord DEF MaybeEmp, MaybeBid, Ats, Hows
  <2>3. call' \in [Calls -> CallRows]
    BY <1>11, <2>2, BeginsTyped DEF StartPull
  <2> QED
    BY <1>11, <2>3 DEF StartPull, Types
<1>12. ASSUME NEW k \in Calls, Find(k) PROVE Goal
  <2>1. CASE Goes(k, "exclude")
    BY <1>12, <2>1, GoesTyped DEF Find, Types, Ats
  <2>2. CASE ~Goes(k, "exclude")
    <3>1. PICK e \in Employees :
            call' = [call EXCEPT ![k] =
              [call[k] EXCEPT !.at = IF Mapped(e) THEN "refresh" ELSE "map",
                              !.on = e, !.rows = Owners(call[k].bid)]]
      BY <1>12, <2>2 DEF Find, Matches, Owners
    <3>2. Owners(call[k].bid) \subseteq Employees
      BY DEF Owners
    <3>4. /\ call[k] \in CallRows /\ e \in MaybeEmp
          /\ (IF Mapped(e) THEN "refresh" ELSE "map") \in Ats
      BY DEF Types, Ats, MaybeEmp
    <3>5. [call[k] EXCEPT !.at = IF Mapped(e) THEN "refresh" ELSE "map",
                          !.on = e, !.rows = Owners(call[k].bid)] \in CallRows
      BY <3>2, <3>4, CallChanges
    <3>3. call' \in [Calls -> CallRows]
      BY <3>1, <3>5 DEF Types
    <3> QED
      BY <1>12, <3>3 DEF Find, Types
  <2> QED
    BY <2>1, <2>2
<1>13. ASSUME NEW k \in Calls, CheckExcluded(k) PROVE Goal
  BY <1>13, GoesTyped DEF CheckExcluded, Types, Ats
<1>14. ASSUME NEW k \in Calls, NEW e \in Employees, PullNew(k, e) PROVE Goal
  <2>1. call[k].code \in MaybeCode /\ call[k].bid \in MaybeBid
    BY DEF Types, CallRows
  <2>2. [Row("active", call[k].code, None, call[k].code)
           EXCEPT !.bid = call[k].bid, !.mcode = call[k].code] \in EmpRows
    BY <2>1, NewRowTyped DEF MaybeCode
  <2>3. emp' \in [Employees -> EmpRows]
    BY <1>14, <2>2 DEF PullNew, Types
  <2> QED
    BY <1>14, <2>3, EndsTyped DEF PullNew, Types
<1>15. ASSUME NEW k \in Calls, Refresh(k) PROVE Goal
  <2>1. call[k].code \in MaybeCode /\ call[k].bid \in MaybeBid
    BY DEF Types, CallRows
  <2> DEFINE x == call[k].on
  <2>8. ASSUME x \in Employees
        PROVE  [emp[x] EXCEPT !.code = call[k].code, !.bid = call[k].bid,
                              !.mcode = call[k].code] \in EmpRows
    BY <2>1, <2>8, EmpChanges DEF Types
  <2>2. emp' \in [Employees -> EmpRows]
    BY <1>15, <2>8 DEF Refresh, Types
  <2>3. call' \in [Calls -> CallRows]
    BY <1>15, WritesTyped DEF Refresh
  <2> QED
    BY <1>15, <2>2, <2>3 DEF Refresh, Types
<1>16. ASSUME NEW k \in Calls, Stop(k) PROVE Goal
  BY <1>16, EndsTyped DEF Stop, Types
<1>17. ASSUME NEW e \in Employees, DeleteEmployee(e) PROVE Goal
  BY <1>17, EraseTyped DEF DeleteEmployee, Types
<1>18. ASSUME NEW e \in Employees, Archive(e) \/ Restore(e) PROVE Goal
  BY <1>18 DEF Archive, Restore, Types, EmpRows
<1>19. ASSUME NEW b \in Bids, NEW c \in Codes, Enroll(b, c) PROVE Goal
  BY <1>19 DEF Enroll, Types, MaybeCode
<1> HIDE DEF Goal
<1>20. ASSUME NEW k \in Calls, Claims(k) PROVE Goal
  BY <1>1, <1>2, <1>3, <1>4, <1>5, <1>6, <1>7, <1>20 DEF Claims, MaybeEmp
<1>21. ASSUME NEW k \in Calls, Exchange(k) PROVE Goal
  BY <1>8, <1>9, <1>10, <1>11, <1>12, <1>13, <1>14, <1>15, <1>21 DEF Exchange
<1>22. Goal
  BY <1>16, <1>17, <1>18, <1>19, <1>20, <1>21 DEF CodesNext
<1> QED
  BY <1>22 DEF Goal

-----------------------------------------------------------------------------
(* The calls of the hiring, and what the codes do to them. *)
HireAts == {"file", "decide", "linked", "nid", "join", "code", "hire"}

HasJobs == \A k \in Calls : call[k].at \in HireAts => call[k].job \in Jobs

(* A step of the codes leaves the calls of the hiring alone or ends them. *)
LEMMA CodesCalls ==
  ASSUME Types, CodesNext, NEW j \in Calls, call'[j].at \in HireAts
  PROVE  call'[j].at = call[j].at /\ call'[j].job = call[j].job
<1> DEFINE Goal == call'[j].at = call[j].at /\ call'[j].job = call[j].job
<1> USE DEF HireAts
<1>1. ASSUME NEW k \in Calls, NEW l, NEW n, Begins(k, l, n), l.at \notin HireAts
      PROVE  Goal
  BY <1>1 DEF Begins, Types
<1>2. ASSUME NEW k \in Calls, Ends(k) PROVE Goal
  BY <1>2 DEF Ends, Idle, Types
<1>3. ASSUME NEW k \in Calls, NEW to \in {"exclude", "create"}, Goes(k, to) PROVE Goal
  BY <1>3 DEF Goes, Types, CallRows
<1>4. ASSUME NEW k \in Calls, NEW e, NEW c, Writes(k, e, c) PROVE Goal
  BY <1>4 DEF Writes, Idle, Types, CallRows
<1>5. ASSUME NEW e, NEW k, Erase(e, k) PROVE Goal
  BY <1>5 DEF Erase, Types, CallRows
<1>6. ASSUME NEW k \in Calls, FindArchived(k) PROVE Goal
  BY <1>6 DEF FindArchived, Types, CallRows
<1>7. ASSUME NEW k \in Calls, Find(k) PROVE Goal
  BY <1>3, <1>7 DEF Find, Types, CallRows
<1>8. ASSUME call' = call PROVE Goal
  BY <1>8
<1>9. ASSUME NEW k \in Calls, Claims(k) PROVE Goal
  <2>1. ASSUME NEW c, NEW x, NEW how, StartForm(k, c, x, how) PROVE Goal
    BY <1>1, <2>1 DEF StartForm, CallAt
  <2>2. ASSUME NEW c, NEW x, StartSheet(k, c, x) PROVE Goal
    BY <1>1, <2>2 DEF StartSheet, CallAt
  <2>3. ASSUME NEW c, StartShiftSheet(k, c) PROVE Goal
    BY <1>1, <2>3 DEF StartShiftSheet, CallAt
  <2>4. ASSUME NEW e, WriteNew(k, e) PROVE Goal
    BY <1>2, <2>4 DEF WriteNew
  <2>5. ASSUME WriteCode(k) PROVE Goal
    BY <1>4, <2>5 DEF WriteCode
  <2>6. ASSUME EraseNext(k) PROVE Goal
    BY <1>5, <2>6 DEF EraseNext
  <2> HIDE DEF Goal
  <2> QED
    BY <1>6, <1>9, <2>1, <2>2, <2>3, <2>4, <2>5, <2>6 DEF Claims
<1>10. ASSUME NEW k \in Calls, Exchange(k) PROVE Goal
  <2>1. ASSUME NEW e, NEW b, StartPush(k, e, b) PROVE Goal
    BY <1>1, <2>1 DEF StartPush, CallAt
  <2>2. ASSUME NEW e, StartPatch(k, e) PROVE Goal
    BY <1>1, <2>2 DEF StartPatch, CallAt
  <2>3. ASSUME NEW b, StartPull(k, b) PROVE Goal
    BY <1>1, <2>3 DEF StartPull, CallAt
  <2>4. ASSUME Persist(k) PROVE Goal
    BY <1>2, <2>4 DEF Persist
  <2>5. ASSUME NEW e, PullNew(k, e) PROVE Goal
    BY <1>2, <2>5 DEF PullNew
  <2>6. ASSUME Refresh(k) PROVE Goal
    BY <1>4, <2>6 DEF Refresh
  <2>7. ASSUME CheckExcluded(k) PROVE Goal
    BY <1>3, <2>7 DEF CheckExcluded
  <2> HIDE DEF Goal
  <2> QED
    BY <1>7, <1>10, <2>1, <2>2, <2>3, <2>4, <2>5, <2>6, <2>7 DEF Exchange
<1>11. ASSUME NEW k \in Calls, Stop(k) PROVE Goal
  BY <1>2, <1>11 DEF Stop
<1>12. ASSUME NEW e, DeleteEmployee(e) \/ Archive(e) \/ Restore(e) PROVE Goal
  BY <1>5, <1>8, <1>12 DEF DeleteEmployee, Archive, Restore
<1>13. ASSUME NEW b, NEW c, Enroll(b, c) PROVE Goal
  BY <1>8, <1>13 DEF Enroll
<1> HIDE DEF Goal
<1>14. Goal
  BY <1>9, <1>10, <1>11, <1>12, <1>13 DEF CodesNext
<1> QED
  BY <1>14 DEF Goal

LEMMA JobRecord ==
  ASSUME Types, NEW a \in Appts, NEW to \in {"pending", "approved", "closed", "keep"},
         NEW x \in ApptRows, NEW S \in SUBSET Employees
  PROVE  [appt |-> a, was |-> appt[a].st, to |-> to, row |-> x, seen |-> S] \in Jobs
<1>1. appt[a].st \in {"none", "pending", "approved", "closed"}
  BY DEF Types, ApptRows
<1> QED
  BY <1>1 DEF Jobs

LEMMA HireRecord ==
  ASSUME Types, NEW a \in Appts, NEW to \in {"pending", "approved", "closed", "keep"},
         NEW at \in Ats, NEW c \in MaybeCode
  PROVE  /\ HireCall(at, a, to, c) \in CallRows
         /\ HireCall(at, a, to, c).job \in Jobs
         /\ HireCall(at, a, to, c).at = at
<1> DEFINE l == CallAt(at, "hire", c, None, None)
           j == [appt |-> a, was |-> appt[a].st, to |-> to, row |-> appt[a], seen |-> {}]
<1>1. l \in CallRows
  BY CallRecord DEF MaybeEmp, MaybeBid, Hows
<1>2. j \in Jobs
  BY JobRecord DEF Types
<1>3. l.at = at
  BY DEF CallAt
<1>4. HireCall(at, a, to, c) = [l EXCEPT !.job = j]
  BY DEF HireCall
<1> HIDE DEF l, j
<1> QED
  BY <1>1, <1>2, <1>3, <1>4 DEF CallRows

(* A call that begins with a job, goes on with it, or ends. *)
LEMMA JobsKept ==
  ASSUME Types, HasJobs, NEW k \in Calls, NEW l \in CallRows,
         call' = [call EXCEPT ![k] = l], l.at \in HireAts => l.job \in Jobs
  PROVE  call' \in [Calls -> CallRows] /\ HasJobs'
BY DEF Types, HasJobs

LEMMA JobsGo ==
  ASSUME Types, HasJobs, NEW k \in Calls, NEW to \in HireAts, Goes(k, to),
         call[k].at \in HireAts
  PROVE  call' \in [Calls -> CallRows] /\ HasJobs'
<1>1. to \in Ats
  BY DEF HireAts, Ats
<1>2. call' \in [Calls -> CallRows]
  BY <1>1, GoesTyped
<1>3. HasJobs'
  BY DEF Goes, Types, HasJobs, CallRows
<1> QED
  BY <1>2, <1>3

LEMMA JobsEnd ==
  ASSUME Types, HasJobs, NEW k \in Calls, Ends(k)
  PROVE  call' \in [Calls -> CallRows] /\ HasJobs'
<1>1. Idle \in CallRows /\ Idle.at \notin HireAts
  BY IdleRecord DEF Idle, HireAts
<1> HIDE DEF Idle
<1> QED
  BY <1>1, JobsKept DEF Ends

LEMMA HiresTypes ==
  ASSUME Types, HasJobs, NEW k \in Calls, Hires(k)
  PROVE  Types' /\ HasJobs'
<1> DEFINE Goal == Types' /\ HasJobs'
<1>1. ASSUME NEW a \in Appts, NEW c \in Codes, NEW n \in Nids \cup {None},
             StartFile(k, a, c, n)
      PROVE  Goal
  <2> DEFINE h == HireCall("file", a, "pending", c)
             j == [h.job EXCEPT !.row = [h.job.row EXCEPT !.nid = n]]
  <2>1. h \in CallRows /\ h.job \in Jobs
    BY HireRecord DEF MaybeCode, Ats
  <2>2. call' = [call EXCEPT ![k] = [h EXCEPT !.job = j]]
    BY <1>1 DEF StartFile, Begins
  <2> HIDE DEF h
  <2>3. j \in Jobs
    <3>1. h.job.row \in ApptRows
      BY <2>1 DEF Jobs
    <3>2. [h.job.row EXCEPT !.nid = n] \in ApptRows
      BY <3>1 DEF ApptRows
    <3> QED
      BY <2>1, <3>2 DEF Jobs
  <2> HIDE DEF j
  <2>4. [h EXCEPT !.job = j] \in CallRows /\ [h EXCEPT !.job = j].job = j
    BY <2>1, <2>3 DEF CallRows
  <2>5. call' \in [Calls -> CallRows] /\ HasJobs'
    BY <2>2, <2>3, <2>4, JobsKept
  <2> QED
    BY <1>1, <2>5 DEF StartFile, hireVars, Types
<1>2. ASSUME NEW a \in Appts, NEW c \in Codes, StartEdit(k, a, c) PROVE Goal
  <2>1. /\ HireCall("decide", a, "keep", c) \in CallRows
        /\ HireCall("decide", a, "keep", c).job \in Jobs
    BY HireRecord DEF MaybeCode, Ats
  <2>2. call' \in [Calls -> CallRows] /\ HasJobs'
    BY <1>2, <2>1, JobsKept DEF StartEdit, Begins
  <2> QED
    BY <1>2, <2>2 DEF StartEdit, hireVars, Types
<1>3. ASSUME NEW a \in Appts, NEW to \in {"pending", "approved", "closed"},
             StartDecide(k, a, to)
      PROVE  Goal
  <2>1. appt[a].code \in MaybeCode
    BY DEF Types, ApptRows
  <2>2. /\ HireCall("decide", a, to, appt[a].code) \in CallRows
        /\ HireCall("decide", a, to, appt[a].code).job \in Jobs
    BY <2>1, HireRecord DEF Ats
  <2>3. call' \in [Calls -> CallRows] /\ HasJobs'
    BY <1>3, <2>2, JobsKept DEF StartDecide, Begins
  <2> QED
    BY <1>3, <2>3 DEF StartDecide, hireVars, Types
<1>4. ASSUME File(k) PROVE Goal
  <2>1. call[k].job \in Jobs /\ call[k].code \in MaybeCode
    BY <1>4 DEF File, HasJobs, HireAts, Types, CallRows
  <2>2. call[k].job.appt \in Appts /\ call[k].job.row.nid \in Nids \cup {None}
    BY <2>1 DEF Jobs, ApptRows
  <2>3. [st |-> "pending", code |-> call[k].code, nid |-> call[k].job.row.nid,
         emp |-> None] \in ApptRows
    BY <2>1, <2>2 DEF ApptRows, MaybeEmp
  <2>4. appt' \in [Appts -> ApptRows]
    BY <1>4, <2>2, <2>3 DEF File, Types
  <2>5. call' \in [Calls -> CallRows] /\ HasJobs'
    BY <1>4, JobsEnd DEF File
  <2> QED
    BY <1>4, <2>4, <2>5 DEF File, Types
<1>5. ASSUME Decide(k) PROVE Goal
  <2> DEFINE j == call[k].job
             a == j.appt
             st == IF j.to = "keep" THEN appt[a].st ELSE j.to
             c == IF j.to = "keep" THEN call[k].code ELSE appt[a].code
             row == [appt[a] EXCEPT !.st = st, !.code = c]
  <2>1. j \in Jobs /\ call[k].code \in MaybeCode
    BY <1>5 DEF Decide, HasJobs, HireAts, Types, CallRows
  <2>2. a \in Appts /\ j.to \in {"pending", "approved", "closed", "keep"}
    BY <2>1 DEF Jobs
  <2>3. appt[a] \in ApptRows
    BY <2>2 DEF Types
  <2>4. st \in {"none", "pending", "approved", "closed"} /\ c \in MaybeCode
    BY <2>1, <2>2, <2>3 DEF ApptRows
  <2>5. appt' = [appt EXCEPT ![a] = row]
    BY <1>5 DEF Decide
  <2>6. \/ Ends(k)
        \/ call' = [call EXCEPT ![k] =
             [call[k] EXCEPT !.at = "linked", !.code = row.code,
                             !.known = Holders(row.code),
                             !.job = [j EXCEPT !.row = row, !.seen = HiresOf(a)]]]
    BY <1>5 DEF Decide
  <2>7. row \in ApptRows
    <3> HIDE DEF st, c, a
    <3>1. [appt[a] EXCEPT !.st = st] \in ApptRows
      BY <2>3, <2>4 DEF ApptRows
    <3> QED
      BY <2>4, <3>1 DEF ApptRows
  <2> HIDE DEF row
  <2>8. [j EXCEPT !.row = row, !.seen = HiresOf(a)] \in Jobs
    <3> DEFINE S == HiresOf(a)
    <3>1. S \in SUBSET Employees
      BY DEF HiresOf
    <3> HIDE DEF S, j
    <3>2. [j EXCEPT !.row = row] \in Jobs
      BY <2>1, <2>7 DEF Jobs
    <3>3. [j EXCEPT !.row = row, !.seen = S] \in Jobs
      BY <3>1, <3>2 DEF Jobs
    <3> QED
      BY <3>3 DEF S
  <2>9. ASSUME NEW J \in Jobs, NEW R \in SUBSET Employees, NEW x \in MaybeCode
        PROVE  /\ [call[k] EXCEPT !.at = "linked", !.code = x, !.known = R,
                                  !.job = J] \in CallRows
               /\ [call[k] EXCEPT !.at = "linked", !.code = x, !.known = R,
                                  !.job = J].job = J
    <3> DEFINE l == call[k]
    <3>1. l \in CallRows /\ "linked" \in Ats
      BY DEF Types, Ats
    <3> HIDE DEF l
    <3>2. [l EXCEPT !.at = "linked"] \in CallRows
      BY <3>1 DEF CallRows
    <3>3. [l EXCEPT !.at = "linked", !.code = x] \in CallRows
      BY <3>2 DEF CallRows
    <3>4. [l EXCEPT !.at = "linked", !.code = x, !.known = R] \in CallRows
      BY <3>3 DEF CallRows
    <3>5. /\ [l EXCEPT !.at = "linked", !.code = x, !.known = R, !.job = J] \in CallRows
          /\ [l EXCEPT !.at = "linked", !.code = x, !.known = R, !.job = J].job = J
      BY <3>4 DEF CallRows
    <3> QED
      BY <3>5 DEF l
  <2>10. row.code \in MaybeCode /\ Holders(row.code) \in SUBSET Employees
    BY <2>7 DEF ApptRows, Holders
  <2>11. call' \in [Calls -> CallRows] /\ HasJobs'
    <3>1. CASE Ends(k)
      BY <3>1, JobsEnd
    <3>2. CASE ~Ends(k)
      <4> DEFINE J == [j EXCEPT !.row = row, !.seen = HiresOf(a)]
                 R == Holders(row.code)
                 l == [call[k] EXCEPT !.at = "linked", !.code = row.code, !.known = R,
                                      !.job = J]
      <4>1. l \in CallRows /\ l.job = J /\ J \in Jobs
        BY <2>8, <2>9, <2>10
      <4>2. call' = [call EXCEPT ![k] = l]
        BY <2>6, <3>2
      <4> HIDE DEF l, J
      <4> QED
        BY <4>1, <4>2, JobsKept
    <3> QED
      BY <3>1, <3>2
  <2>12. appt' \in [Appts -> ApptRows]
    BY <2>5, <2>7 DEF Types
  <2> QED
    BY <1>5, <2>11, <2>12 DEF Decide, Types
<1>6. ASSUME CheckLink(k) PROVE Goal
  <2>1. call' \in [Calls -> CallRows] /\ HasJobs'
    BY <1>6, JobsEnd, JobsGo DEF CheckLink, HireAts
  <2> QED
    BY <1>6, <2>1 DEF CheckLink, hireVars, Types
<1>7. ASSUME FindNid(k) PROVE Goal
  <2>1. CASE Goes(k, "code")
    <3>1. call' \in [Calls -> CallRows] /\ HasJobs'
      BY <1>7, <2>1, JobsGo DEF FindNid, HireAts
    <3> QED
      BY <1>7, <3>1 DEF FindNid, hireVars, Types
  <2>2. CASE ~Goes(k, "code")
    <3>1. PICK e \in Employees :
            call' = [call EXCEPT ![k] = [call[k] EXCEPT !.at = "join", !.on = e]]
      BY <1>7, <2>2 DEF FindNid, Types
    <3>2. call[k] \in CallRows /\ call[k].job \in Jobs /\ "join" \in Ats
      BY <1>7 DEF FindNid, HasJobs, HireAts, Types, Ats
    <3>3. [call[k] EXCEPT !.at = "join", !.on = e] \in CallRows
      BY <3>2, CallChanges DEF MaybeEmp
    <3>4. [call[k] EXCEPT !.at = "join", !.on = e].job \in Jobs
      BY <3>2 DEF CallRows
    <3>5. call' \in [Calls -> CallRows] /\ HasJobs'
      BY <3>1, <3>3, <3>4, JobsKept
    <3> QED
      BY <1>7, <3>5 DEF FindNid, hireVars, Types
  <2> QED
    BY <2>1, <2>2
<1>8. ASSUME Join(k) PROVE Goal
  <2>1. call[k].on \in MaybeEmp /\ call[k].job.appt \in Appts
    BY <1>8 DEF Join, HasJobs, HireAts, Types, CallRows, Jobs
  <2>2. appt' \in [Appts -> ApptRows]
    BY <1>8, <2>1 DEF Join, Types, ApptRows
  <2>3. call' \in [Calls -> CallRows] /\ HasJobs'
    BY <1>8, JobsEnd DEF Join
  <2> QED
    BY <1>8, <2>2, <2>3 DEF Join, Types
<1>9. ASSUME CheckCode(k) PROVE Goal
  <2>1. call' \in [Calls -> CallRows] /\ HasJobs'
    BY <1>9, JobsGo DEF CheckCode, HireAts
  <2> QED
    BY <1>9, <2>1 DEF CheckCode, hireVars, Types
<1>10. ASSUME NEW e \in Employees, Hire(k, e) PROVE Goal
  <2>1. /\ call[k].code \in MaybeCode /\ call[k].job.appt \in Appts
        /\ call[k].job.row.nid \in Nids \cup {None}
    BY <1>10 DEF Hire, HasJobs, HireAts, Types, CallRows, Jobs, ApptRows
  <2>2. emp' \in [Employees -> EmpRows]
    BY <1>10, <2>1 DEF Hire, NewRow, Row, EmpRows, MaybeCode, MaybeBid, Types
  <2>3. appt' \in [Appts -> ApptRows]
    BY <1>10, <2>1 DEF Hire, Link, Types, ApptRows, MaybeEmp
  <2>4. nid' \in [Employees -> Nids \cup {None}]
    BY <1>10, <2>1 DEF Hire, Types
  <2>5. call' \in [Calls -> CallRows] /\ HasJobs'
    BY <1>10, JobsEnd DEF Hire
  <2> QED
    BY <1>10, <2>2, <2>3, <2>4, <2>5 DEF Hire, Types
<1> HIDE DEF Goal
<1>11. Goal
  BY <1>1, <1>2, <1>3, <1>4, <1>5, <1>6, <1>7, <1>8, <1>9, <1>10 DEF Hires
<1> QED
  BY <1>11 DEF Goal

(* The types hold in every reachable state. *)
LEMMA NextTypes ==
  ASSUME Types, HasJobs, [Next]_vars
  PROVE  Types' /\ HasJobs'
<1>1. CASE CodesNext /\ Unlinks
  <2>1. appt' \in [Appts -> ApptRows]
    BY <1>1 DEF Unlinks, Types, ApptRows, MaybeEmp
  <2>2. nid' \in [Employees -> Nids \cup {None}]
    BY <1>1 DEF Unlinks, Types
  <2>3. HasJobs'
    BY <1>1, CodesCalls DEF HasJobs
  <2> QED
    BY <1>1, <2>1, <2>2, <2>3, CodesTypes DEF Types
<1>2. ASSUME NEW k \in Calls, Hires(k) PROVE Types' /\ HasJobs'
  BY <1>2, HiresTypes
<1>3. CASE UNCHANGED vars
  BY <1>3 DEF vars, codeVars, hireVars, Types, HasJobs
<1> QED
  BY <1>1, <1>2, <1>3 DEF Next

-----------------------------------------------------------------------------
(* Codes.  A call knows the employees that hold its code; what it has      *)
(* checked so far says how far they are out of the way.                    *)
KnowsHolders(l) ==
  \A e \in l.known : emp[e].st # "unused" /\ (Exists(e) => emp[e].code = l.code)

Checked(l) ==
  /\ l.at = "archived" => \A e \in l.known \ {l.on} : Exists(e) => emp[e].stamped
  /\ l.at = "erase" => \A e \in l.known \ {l.on} : Exists(e) => e \in l.rows
  /\ l.at = "write" => \A e \in l.known \ {l.on} : ~Exists(e)
  /\ l.at = "hire" => \A e \in l.known : ~Exists(e)

(* Who is in the archive bears the stamp. *)
Stamped == \A e \in Employees : emp[e].st = "archived" => emp[e].stamped

CodeInv ==
  /\ Stamped
  /\ \A k \in Calls : KnowsHolders(call[k]) /\ Checked(call[k])
  /\ CodeHeldOnce

(* What a step may do to a row, and to a call that is not its own. *)
RowStep(e) ==
  /\ emp[e].st # "unused" => emp'[e].st # "unused"
  /\ Exists(e)' => Exists(e) \/ emp[e].st = "unused"
  /\ emp[e].stamped /\ Exists(e) /\ Exists(e)' => emp'[e].stamped

CallStep(j) ==
  LET l == call[j]
      m == call'[j]
  IN
  /\ m.at = l.at /\ m.on = l.on /\ m.code = l.code /\ m.known \subseteq l.known
  /\ \A e \in m.known : Exists(e)' => emp'[e].code \in {emp[e].code, l.code}
  /\ \A e \in l.rows : e \in m.rows \/ ~Exists(e)'

LEMMA CallKept ==
  ASSUME Types, NEW j \in Calls, KnowsHolders(call[j]), Checked(call[j]), CallStep(j),
         \A e \in Employees : RowStep(e)
  PROVE  KnowsHolders(call[j])' /\ Checked(call[j])'
<1>1. call[j].known \subseteq Employees
  BY DEF Types, CallRows
<1>2. ASSUME NEW e \in call'[j].known
      PROVE  /\ emp'[e].st # "unused"
             /\ Exists(e)' => Exists(e) /\ emp'[e].code = call'[j].code
             /\ Exists(e)' /\ emp[e].stamped => emp'[e].stamped
  BY <1>1, <1>2 DEF CallStep, RowStep, KnowsHolders
<1>3. KnowsHolders(call[j])'
  BY <1>2 DEF KnowsHolders
<1>4. Checked(call[j])'
  BY <1>2 DEF Checked, CallStep
<1> QED
  BY <1>3, <1>4

LEMMA IdleChecked == KnowsHolders(Idle)' /\ Checked(Idle)' /\ KnowsHolders(Idle) /\ Checked(Idle)
BY DEF KnowsHolders, Checked, Idle

(* A step of call k that leaves the employees alone. *)
LEMMA CallMoves ==
  ASSUME Types, CodeInv, emp' = emp, clash' = clash, NEW k \in Calls, NEW m,
         call' = [call EXCEPT ![k] = m], KnowsHolders(m), Checked(m)
  PROVE  CodeInv'
<1>1. Stamped' /\ CodeHeldOnce'
  BY DEF CodeInv, Stamped, CodeHeldOnce, Exists
<1>2. ASSUME NEW j \in Calls PROVE KnowsHolders(call[j])' /\ Checked(call[j])'
  <2>1. CASE j = k
    <3>1. call'[j] = m
      BY <2>1 DEF Types
    <3> QED
      BY <3>1 DEF KnowsHolders, Checked, Exists
  <2>2. CASE j # k
    <3>1. call'[j] = call[j]
      BY <2>2 DEF Types
    <3> QED
      BY <3>1 DEF CodeInv, KnowsHolders, Checked, Exists
  <2> QED
    BY <2>1, <2>2
<1> QED
  BY <1>1, <1>2 DEF CodeInv

LEMMA CallEnds ==
  ASSUME Types, CodeInv, emp' = emp, clash' = clash, NEW k \in Calls, Ends(k)
  PROVE  CodeInv'
BY CallMoves, IdleChecked DEF Ends

(* A call that goes on with what it knows, to a place where nothing is     *)
(* claimed of it.                                                          *)
LEMMA CallGoes ==
  ASSUME Types, CodeInv, emp' = emp, clash' = clash, NEW k \in Calls, NEW to,
         Goes(k, to), to \notin {"archived", "erase", "write", "hire"}
  PROVE  CodeInv'
<1>1. KnowsHolders([call[k] EXCEPT !.at = to]) /\ Checked([call[k] EXCEPT !.at = to])
  BY DEF CodeInv, KnowsHolders, Checked, Types, CallRows
<1> QED
  BY <1>1, CallMoves DEF Goes

LEMMA CallBegins ==
  ASSUME Types, CodeInv, emp' = emp, clash' = clash, NEW k \in Calls, NEW l, NEW n,
         Begins(k, l, n), l.known \subseteq Holders(l.code), Checked(l)
  PROVE  CodeInv'
<1>1. KnowsHolders(l)
  BY DEF KnowsHolders, Holders, Exists
<1> QED
  BY <1>1, CallMoves DEF Begins

(* Code c is written to e by a call that has nobody it knows left.         *)
LEMMA WrittenOnce ==
  ASSUME Types, CodeHeldOnce, NEW e \in Employees, NEW c, NEW K,
         \A f \in Employees \ {e} : emp'[f] = emp[f],
         emp'[e].code = c, Clashes(e, c, K),
         \A f \in K \ {e} : ~Exists(f)
  PROVE  CodeHeldOnce'
<1>1. \A f \in Employees \ {e} : Exists(f)' <=> Exists(f)
  BY DEF Exists
<1>2. \A f \in Holders(c) : f \in Employees /\ Exists(f)
  BY DEF Holders
<1>3. (Holders(c) \ {e}) \cap K = {}
  BY <1>2
<1>4. IF Holders(c) \ {e} # {} THEN clash' = clash \cup {e} ELSE clash' = clash \ {e}
  BY <1>3 DEF Clashes
<1>5. ASSUME NEW f \in Employees, f # e, Exists(f)', emp'[f].code = c
      PROVE  e \in clash'
  BY <1>1, <1>4, <1>5 DEF Holders
<1>6. ASSUME NEW f \in Employees, NEW g \in Employees, f # e, g # e, f # g,
             Exists(f)', Exists(g)', emp'[f].code = emp'[g].code
      PROVE  f \in clash' \/ g \in clash'
  BY <1>1, <1>4, <1>6 DEF CodeHeldOnce
<1> QED
  BY <1>5, <1>6 DEF CodeHeldOnce

(* An unused row becomes an employee at work; the call ends.               *)
LEMMA RowMade ==
  ASSUME Types, CodeInv, NEW k \in Calls, NEW e \in Employees, NEW r,
         emp[e].st = "unused", emp' = [emp EXCEPT ![e] = r],
         r.st = "active", Ends(k), CodeHeldOnce'
  PROVE  CodeInv'
<1>1. Stamped'
  BY DEF CodeInv, Stamped, Types
<1>2. \A f \in Employees : RowStep(f)
  BY DEF RowStep, Exists, Types
<1>3. ASSUME NEW j \in Calls PROVE KnowsHolders(call[j])' /\ Checked(call[j])'
  <2>1. CASE j = k
    <3>1. call'[j] = Idle
      BY <2>1 DEF Ends, Types
    <3> QED
      BY <3>1, IdleChecked DEF KnowsHolders, Checked
  <2>2. CASE j # k
    <3>1. call'[j] = call[j]
      BY <2>2 DEF Ends, Types
    <3>2. call[j].known \subseteq Employees \ {e}
      BY DEF CodeInv, KnowsHolders, Types, CallRows
    <3>3. CallStep(j)
      BY <3>1, <3>2 DEF CallStep, Types
    <3> QED
      BY <1>2, <3>3, CallKept DEF CodeInv
  <2> QED
    BY <2>1, <2>2
<1> QED
  BY <1>1, <1>3 DEF CodeInv

(* The code of an employee is written; the others forget who it was.       *)
LEMMA RowWritten ==
  ASSUME Types, CodeInv, NEW k \in Calls, NEW e \in Employees, NEW r, NEW c,
         Exists(e), emp' = [emp EXCEPT ![e] = r], r.st = emp[e].st,
         r.stamped = emp[e].stamped, r.code = c, Writes(k, e, c), CodeHeldOnce'
  PROVE  CodeInv'
<1>1. Stamped'
  BY DEF CodeInv, Stamped, Types
<1>2. \A f \in Employees : RowStep(f)
  BY DEF RowStep, Exists, Types
<1>3. ASSUME NEW j \in Calls PROVE KnowsHolders(call[j])' /\ Checked(call[j])'
  <2>1. CASE j = k
    <3>1. call'[j] = Idle
      BY <2>1 DEF Writes
    <3> QED
      BY <3>1, IdleChecked DEF KnowsHolders, Checked
  <2>2. CASE j # k
    <3> DEFINE K == IF c = call[j].code THEN call[j].known ELSE call[j].known \ {e}
    <3>1. call'[j] = [call[j] EXCEPT !.known = K]
      BY <2>2 DEF Writes
    <3>2. call[j] \in CallRows
      BY DEF Types
    <3>3. /\ call'[j].at = call[j].at /\ call'[j].on = call[j].on
          /\ call'[j].code = call[j].code /\ call'[j].rows = call[j].rows
          /\ call'[j].known = K
      BY <3>1, <3>2 DEF CallRows
    <3>4. K \subseteq Employees /\ K \subseteq call[j].known
      BY <3>2 DEF CallRows
    <3>5. \A f \in K : emp'[f].code \in {emp[f].code, call[j].code}
      BY <3>4 DEF Types
    <3>6. CallStep(j)
      BY <3>3, <3>4, <3>5 DEF CallStep
    <3> QED
      BY <1>2, <3>6, CallKept DEF CodeInv
  <2> QED
    BY <2>1, <2>2
<1> QED
  BY <1>1, <1>3 DEF CodeInv

(* An employee is deleted for good. *)
LEMMA RowErased ==
  ASSUME Types, CodeInv, NEW e \in Employees, NEW k, Erase(e, k), clash' = clash
  PROVE  CodeInv'
<1>1. emp' = [emp EXCEPT ![e] = Deleted] /\ Deleted.st = "deleted"
  BY DEF Erase, Deleted, Row
<1>2. Stamped' /\ CodeHeldOnce'
  BY <1>1 DEF CodeInv, Stamped, CodeHeldOnce, Exists, Types
<1>3. \A f \in Employees : RowStep(f)
  BY <1>1 DEF RowStep, Exists, Types
<1>4. ASSUME NEW j \in Calls PROVE CallStep(j)
  <2>1. call[j] \in CallRows
    BY DEF Types
  <2>2. /\ call'[j].at = call[j].at /\ call'[j].on = call[j].on
        /\ call'[j].code = call[j].code /\ call'[j].known = call[j].known
        /\ \A f \in call[j].rows : f \in call'[j].rows \/ f = e
    BY <2>1 DEF Erase, CallRows
  <2>3. \A f \in call[j].known : Exists(f)' => emp'[f].code = emp[f].code
    BY <1>1, <2>1 DEF Exists, Types, CallRows
  <2>4. ~Exists(e)'
    BY <1>1 DEF Exists, Types
  <2> QED
    BY <2>2, <2>3, <2>4 DEF CallStep
<1>5. \A j \in Calls : KnowsHolders(call[j])' /\ Checked(call[j])'
  BY <1>3, <1>4, CallKept DEF CodeInv
<1> QED
  BY <1>2, <1>5 DEF CodeInv

(* Rows change, but no code and nobody appears; calls stay or end.         *)
LEMMA RowsShift ==
  ASSUME Types, CodeInv, clash' = clash, Stamped',
         \A e \in Employees : RowStep(e) /\ emp'[e].code = emp[e].code
                              /\ (Exists(e)' => Exists(e)),
         \A j \in Calls : call'[j] = call[j] \/ call'[j] = Idle
  PROVE  CodeInv'
<1>1. CodeHeldOnce'
  BY DEF CodeInv, CodeHeldOnce
<1>2. ASSUME NEW j \in Calls PROVE KnowsHolders(call[j])' /\ Checked(call[j])'
  <2>1. CASE call'[j] = Idle
    BY <2>1, IdleChecked DEF KnowsHolders, Checked
  <2>2. CASE call'[j] = call[j]
    <3>1. call[j].known \subseteq Employees
      BY DEF Types, CallRows
    <3>2. CallStep(j)
      BY <2>2, <3>1 DEF CallStep
    <3> QED
      BY <3>2, CallKept DEF CodeInv
  <2> QED
    BY <2>1, <2>2
<1> QED
  BY <1>1, <1>2 DEF CodeInv

(* What a call that begins knows. *)
LEMMA BeginsKnowing ==
  ASSUME NEW at, NEW how, NEW c, NEW x, NEW b, NEW R
  PROVE  /\ CallAt(at, how, c, x, b).at = at
         /\ CallAt(at, how, c, x, b).on = x
         /\ CallAt(at, how, c, x, b).code = c
         /\ CallAt(at, how, c, x, b).known \subseteq Holders(c)
         /\ [CallAt(at, how, c, x, b) EXCEPT !.rows = R].at = at
         /\ [CallAt(at, how, c, x, b) EXCEPT !.rows = R].on = x
         /\ [CallAt(at, how, c, x, b) EXCEPT !.rows = R].code = c
         /\ [CallAt(at, how, c, x, b) EXCEPT !.rows = R].known \subseteq Holders(c)
         /\ [CallAt(at, how, c, x, b) EXCEPT !.job = R].at = at
         /\ [CallAt(at, how, c, x, b) EXCEPT !.job = R].code = c
         /\ [CallAt(at, how, c, x, b) EXCEPT !.job = R].known \subseteq Holders(c)
BY DEF CallAt

LEMMA ClaimsCodes ==
  ASSUME Types, CodeInv, NEW k \in Calls, Claims(k)
  PROVE  CodeInv'
<1> DEFINE Goal == CodeInv'
           l == call[k]
<1>0. l \in CallRows /\ KnowsHolders(l) /\ Checked(l) /\ l.known \subseteq Employees
  BY DEF Types, CodeInv, CallRows
<1>1. ASSUME NEW c \in Codes, NEW x \in MaybeEmp, NEW how, StartForm(k, c, x, how)
      PROVE  Goal
  <2> DEFINE R == {e \in Employees : Active(e)}
             m == [CallAt("archived", how, c, x, None) EXCEPT !.rows = R]
  <2>1. /\ m.at = "archived" /\ m.on = x /\ m.code = c
        /\ m.known \subseteq Holders(c)
    BY BeginsKnowing
  <2>2. Begins(k, m, Renames(x)) /\ emp' = emp /\ clash' = clash /\ AtWork(c, x) = {}
    BY <1>1 DEF StartForm
  <2> HIDE DEF m
  <2>3. \A e \in Holders(c) \ {x} : emp[e].stamped
    BY <2>2 DEF AtWork, Holders, Exists, Active, ByAll, ByPull, CodeInv, Stamped
  <2>4. Checked(m)
    BY <2>1, <2>3 DEF Checked
  <2> QED
    BY <2>1, <2>2, <2>4, CallBegins
<1>2. ASSUME NEW c \in Codes, NEW x \in MaybeEmp, StartSheet(k, c, x) PROVE Goal
  <2> DEFINE m == CallAt("write", "sheet", c, x, None)
  <2>1. m.at = "write" /\ m.on = x /\ m.code = c /\ m.known \subseteq Holders(c)
    BY BeginsKnowing
  <2>2. Begins(k, m, Renames(x)) /\ emp' = emp /\ clash' = clash
    BY <1>2 DEF StartSheet
  <2>3. Holders(c) \ {x} = {}
    BY <1>2 DEF StartSheet, Holders, ByCode
  <2> HIDE DEF m
  <2>4. Checked(m)
    BY <2>1, <2>3 DEF Checked
  <2> QED
    BY <2>1, <2>2, <2>4, CallBegins
<1>3. ASSUME NEW c \in Codes, StartShiftSheet(k, c) PROVE Goal
  <2> DEFINE m == CallAt("write", "grid", c, None, None)
  <2>1. m.at = "write" /\ m.on = None /\ m.code = c /\ m.known \subseteq Holders(c)
    BY BeginsKnowing
  <2>2. Begins(k, m, 0) /\ emp' = emp /\ clash' = clash
    BY <1>3 DEF StartShiftSheet
  <2>3. Holders(c) = {}
    BY <1>3 DEF StartShiftSheet, Holders, ByAll, ByPull
  <2> HIDE DEF m
  <2>4. Checked(m)
    BY <2>1, <2>3 DEF Checked
  <2> QED
    BY <2>1, <2>2, <2>4, CallBegins
<1>4. ASSUME FindArchived(k) PROVE Goal
  <2> DEFINE R == InArchive(l.code, l.on)
             m == [l EXCEPT !.at = "erase", !.rows = R]
  <2>1. /\ m.at = "erase" /\ m.on = l.on /\ m.code = l.code /\ m.known = l.known
        /\ m.rows = R
    BY <1>0 DEF CallRows
  <2>2. call' = [call EXCEPT ![k] = m] /\ emp' = emp /\ clash' = clash /\ l.at = "archived"
    BY <1>4 DEF FindArchived, Types
  <2> HIDE DEF m
  <2>3. \A e \in l.known \ {l.on} : Exists(e) => e \in R
    BY <1>0, <2>2 DEF InArchive, KnowsHolders, Checked, ByAll, ByPull
  <2>4. KnowsHolders(m) /\ Checked(m)
    BY <1>0, <2>1, <2>3 DEF KnowsHolders, Checked
  <2> QED
    BY <2>2, <2>4, CallMoves
<1>5. ASSUME EraseNext(k) PROVE Goal
  <2>1. PICK e \in call[k].rows : Erase(e, k)
    BY <1>5 DEF EraseNext
  <2>2. e \in Employees /\ clash' = clash
    BY <1>5, <2>1 DEF EraseNext, Types, CallRows
  <2> QED
    BY <2>1, <2>2, RowErased
<1>6. ReadyToWrite(l) => \A f \in l.known \ {l.on} : ~Exists(f)
  BY <1>0 DEF ReadyToWrite, Checked
<1>7. ASSUME NEW e \in Employees, WriteNew(k, e) PROVE Goal
  <2> DEFINE r == [NewRow(l.code) EXCEPT !.mcode = IF l.how = "grid" THEN l.code ELSE None]
  <2>1. r.st = "active" /\ r.code = l.code
    BY DEF NewRow, Row
  <2>2. /\ emp' = [emp EXCEPT ![e] = r] /\ emp[e].st = "unused"
        /\ Clashes(e, l.code, l.known) /\ Ends(k) /\ ReadyToWrite(l) /\ l.on = None
    BY <1>7 DEF WriteNew
  <2> HIDE DEF r
  <2>3. \A f \in l.known \ {e} : ~Exists(f)
    BY <1>0, <1>6, <2>2, CodesAssumption
  <2>4. emp'[e].code = l.code /\ \A f \in Employees \ {e} : emp'[f] = emp[f]
    BY <2>1, <2>2 DEF Types
  <2>5. CodeHeldOnce'
    BY <2>2, <2>3, <2>4, WrittenOnce DEF CodeInv
  <2> QED
    BY <2>1, <2>2, <2>5, RowMade
<1>8. ASSUME WriteCode(k) PROVE Goal
  <2> DEFINE e == l.on
             i == IF l.how = "code" THEN emp[e].ident ELSE l.code
             r == [emp[e] EXCEPT !.code = l.code, !.bar = l.code, !.ident = i]
  <2>1. /\ e \in Employees /\ Exists(e) /\ emp' = [emp EXCEPT ![e] = r]
        /\ Clashes(e, l.code, l.known) /\ Writes(k, e, l.code) /\ ReadyToWrite(l)
    BY <1>0, <1>8 DEF WriteCode, CallRows, MaybeEmp
  <2>2. emp[e] \in EmpRows
    BY <2>1 DEF Types
  <2>3. r.st = emp[e].st /\ r.stamped = emp[e].stamped /\ r.code = l.code
    BY <2>2 DEF EmpRows
  <2> HIDE DEF r, e
  <2>4. \A f \in l.known \ {e} : ~Exists(f)
    BY <1>6, <2>1 DEF e
  <2>5. emp'[e].code = l.code /\ \A f \in Employees \ {e} : emp'[f] = emp[f]
    BY <2>1, <2>3 DEF Types
  <2>6. CodeHeldOnce'
    BY <2>1, <2>4, <2>5, WrittenOnce DEF CodeInv
  <2> QED
    BY <2>1, <2>3, <2>6, RowWritten
<1> HIDE DEF Goal
<1>9. Goal
  BY <1>1, <1>2, <1>3, <1>4, <1>5, <1>7, <1>8 DEF Claims, MaybeEmp
<1> QED
  BY <1>9 DEF Goal

(* How the calls that find something go on. *)
LEMMA FindStep ==
  ASSUME Types, NEW k \in Calls, Find(k)
  PROVE  \/ Goes(k, "exclude")
         \/ \E e \in Employees :
              call' = [call EXCEPT ![k] =
                [call[k] EXCEPT !.at = IF Mapped(e) THEN "refresh" ELSE "map",
                                !.on = e, !.rows = Owners(call[k].bid)]]
BY DEF Find, Matches, Owners

LEMMA DecideStep ==
  ASSUME Types, NEW k \in Calls, Decide(k)
  PROVE  \/ Ends(k)
         \/ \E c, j :
              call' = [call EXCEPT ![k] = [call[k] EXCEPT !.at = "linked", !.code = c,
                                             !.known = Holders(c), !.job = j]]
<1> DEFINE j == call[k].job
           a == j.appt
           st == IF j.to = "keep" THEN appt[a].st ELSE j.to
           c == IF j.to = "keep" THEN call[k].code ELSE appt[a].code
           row == [appt[a] EXCEPT !.st = st, !.code = c]
           J == [j EXCEPT !.row = row, !.seen = HiresOf(a)]
<1>1. \/ Ends(k)
      \/ call' = [call EXCEPT ![k] =
           [call[k] EXCEPT !.at = "linked", !.code = row.code,
                           !.known = Holders(row.code), !.job = J]]
  BY DEF Decide
<1> HIDE DEF row, J
<1> QED
  BY <1>1

LEMMA NidStep ==
  ASSUME Types, NEW k \in Calls, FindNid(k)
  PROVE  \/ Goes(k, "code")
         \/ \E e \in Employees :
              call' = [call EXCEPT ![k] = [call[k] EXCEPT !.at = "join", !.on = e]]
BY DEF FindNid, Types

(* A write to a row that is not there. *)
LEMMA WrittenNowhere ==
  ASSUME Types, CodeInv, emp' = emp, NEW k \in Calls, NEW e, e \notin Employees,
         NEW c, Clashes(e, c, {}), Writes(k, e, c)
  PROVE  CodeInv'
<1>1. \A f \in Employees : f \in clash' <=> f \in clash
  BY DEF Clashes
<1>2. Stamped' /\ CodeHeldOnce'
  BY <1>1 DEF CodeInv, Stamped, CodeHeldOnce, Exists
<1>3. ASSUME NEW j \in Calls PROVE KnowsHolders(call[j])' /\ Checked(call[j])'
  <2>1. call[j] \in CallRows
    BY DEF Types
  <2>2. CASE j = k
    <3>1. call'[j] = Idle
      BY <2>2 DEF Writes
    <3> QED
      BY <3>1, IdleChecked DEF KnowsHolders, Checked
  <2>3. CASE j # k
    <3> DEFINE K == IF c = call[j].code THEN call[j].known ELSE call[j].known \ {e}
    <3>2. call'[j] = [call[j] EXCEPT !.known = K]
      BY <2>3 DEF Writes
    <3>3. /\ call'[j].at = call[j].at /\ call'[j].on = call[j].on
          /\ call'[j].code = call[j].code /\ call'[j].rows = call[j].rows
          /\ call'[j].known \subseteq call[j].known
      BY <2>1, <3>2 DEF CallRows
    <3>4. CallStep(j)
      BY <3>3 DEF CallStep
    <3> QED
      BY <3>4, CallKept DEF CodeInv, RowStep, Exists
  <2> QED
    BY <2>2, <2>3
<1> QED
  BY <1>2, <1>3 DEF CodeInv

LEMMA ExchangeCodes ==
  ASSUME Types, CodeInv, NEW k \in Calls, Exchange(k)
  PROVE  CodeInv'
<1> DEFINE Goal == CodeInv'
           l == call[k]
<1>0. l \in CallRows /\ KnowsHolders(l) /\ Checked(l)
  BY DEF Types, CodeInv
<1>1. ASSUME NEW at \in {"insert", "update", "find"}, NEW how, NEW c, NEW x, NEW b,
             Begins(k, CallAt(at, how, c, x, b), 0), emp' = emp, clash' = clash
      PROVE  Goal
  <2> DEFINE m == CallAt(at, how, c, x, b)
  <2>1. m.at = at /\ m.code = c /\ m.known \subseteq Holders(c)
    BY BeginsKnowing
  <2>2. Begins(k, m, 0)
    BY <1>1
  <2> HIDE DEF m
  <2>3. Checked(m)
    BY <2>1 DEF Checked
  <2> QED
    BY <1>1, <2>1, <2>2, <2>3, CallBegins
<1>2. ASSUME NEW e, NEW b, StartPush(k, e, b) PROVE Goal
  BY <1>1, <1>2 DEF StartPush
<1>3. ASSUME NEW e, StartPatch(k, e) PROVE Goal
  BY <1>1, <1>3 DEF StartPatch
<1>4. ASSUME NEW b, StartPull(k, b) PROVE Goal
  BY <1>1, <1>4 DEF StartPull
<1>5. ASSUME Persist(k) PROVE Goal
  <2> DEFINE x == l.on
             r == [emp[x] EXCEPT !.bid = l.bid, !.mcode = l.code]
  <2>0. CASE x \notin Employees
    <3>1. emp' = emp /\ clash' = clash /\ Ends(k)
      BY <1>5, <2>0 DEF Persist, Types
    <3> QED
      BY <3>1, CallEnds
  <2> SUFFICES ASSUME x \in Employees PROVE Goal
    BY <2>0
  <2>2. emp[x] \in EmpRows
    BY DEF Types
  <2>1. emp' = [emp EXCEPT ![x] = r] /\ clash' = clash /\ Ends(k)
    BY <1>5 DEF Persist, Types
  <2>3. r.st = emp[x].st /\ r.stamped = emp[x].stamped /\ r.code = emp[x].code
    BY <2>2 DEF EmpRows
  <2> HIDE DEF r, x
  <2>4. \A e \in Employees : RowStep(e) /\ emp'[e].code = emp[e].code
                             /\ (Exists(e)' => Exists(e))
    BY <2>1, <2>3 DEF RowStep, Exists, Types
  <2>5. Stamped'
    BY <2>1, <2>3 DEF CodeInv, Stamped, Types
  <2>6. \A j \in Calls : call'[j] = call[j] \/ call'[j] = Idle
    BY <2>1 DEF Ends, Types
  <2> QED
    BY <2>1, <2>4, <2>5, <2>6, RowsShift
<1>6. ASSUME Find(k) PROVE Goal
  <2>1. emp' = emp /\ clash' = clash
    BY <1>6, Zenon DEF Find
  <2>2. CASE Goes(k, "exclude")
    BY <2>1, <2>2, CallGoes
  <2>3. CASE ~Goes(k, "exclude")
    <3>1. PICK e \in Employees :
            call' = [call EXCEPT ![k] =
              [call[k] EXCEPT !.at = IF Mapped(e) THEN "refresh" ELSE "map",
                              !.on = e, !.rows = Owners(call[k].bid)]]
      BY <1>6, <2>3, FindStep
    <3> DEFINE at == IF Mapped(e) THEN "refresh" ELSE "map"
               m == [l EXCEPT !.at = at, !.on = e, !.rows = Owners(l.bid)]
    <3>2. m.at \in {"refresh", "map"} /\ m.known = l.known /\ m.code = l.code
      BY <1>0 DEF CallRows
    <3>3. call' = [call EXCEPT ![k] = m]
      BY <3>1
    <3> HIDE DEF m
    <3>4. KnowsHolders(m) /\ Checked(m)
      BY <1>0, <3>2 DEF KnowsHolders, Checked
    <3> QED
      BY <2>1, <3>3, <3>4, CallMoves
  <2> QED
    BY <2>2, <2>3
<1>7. ASSUME CheckExcluded(k) PROVE Goal
  BY <1>7, CallGoes DEF CheckExcluded
<1>8. ASSUME Refresh(k) PROVE Goal
  <2> DEFINE e == l.on
             r == [emp[e] EXCEPT !.code = l.code, !.bid = l.bid, !.mcode = l.code]
  <2>1. /\ Exists(e) /\ emp' = [emp EXCEPT ![e] = r]
        /\ Clashes(e, l.code, {}) /\ Writes(k, e, l.code)
    BY <1>8 DEF Refresh
  <2>0. CASE e \notin Employees
    <3> HIDE DEF r, e
    <3>1. emp' = emp
      BY <2>0, <2>1 DEF Types
    <3> QED
      BY <2>0, <2>1, <3>1, WrittenNowhere
  <2> SUFFICES ASSUME e \in Employees PROVE Goal
    BY <2>0
  <2>2. emp[e] \in EmpRows
    BY DEF Types
  <2>3. r.st = emp[e].st /\ r.stamped = emp[e].stamped /\ r.code = l.code
    BY <2>2 DEF EmpRows
  <2> HIDE DEF r, e
  <2>4. emp'[e].code = l.code /\ \A f \in Employees \ {e} : emp'[f] = emp[f]
    BY <2>1, <2>3 DEF Types
  <2>5. CodeHeldOnce'
    BY <2>1, <2>4, WrittenOnce DEF CodeInv
  <2> QED
    BY <2>1, <2>3, <2>5, RowWritten
<1>9. ASSUME NEW e \in Employees, PullNew(k, e) PROVE Goal
  <2> DEFINE r == [Row("active", l.code, None, l.code) EXCEPT !.bid = l.bid,
                                                              !.mcode = l.code]
  <2>1. r.st = "active" /\ r.code = l.code
    BY DEF Row
  <2>2. /\ emp' = [emp EXCEPT ![e] = r] /\ emp[e].st = "unused"
        /\ Clashes(e, l.code, {}) /\ Ends(k)
    BY <1>9 DEF PullNew
  <2> HIDE DEF r
  <2>3. emp'[e].code = l.code /\ \A f \in Employees \ {e} : emp'[f] = emp[f]
    BY <2>1, <2>2 DEF Types
  <2>4. CodeHeldOnce'
    BY <2>2, <2>3, WrittenOnce DEF CodeInv
  <2> QED
    BY <2>1, <2>2, <2>4, RowMade
<1> HIDE DEF Goal
<1>10. Goal
  BY <1>2, <1>3, <1>4, <1>5, <1>6, <1>7, <1>8, <1>9 DEF Exchange
<1> QED
  BY <1>10 DEF Goal

LEMMA CodesCodes ==
  ASSUME Types, CodeInv, CodesNext
  PROVE  CodeInv'
<1>1. ASSUME NEW k \in Calls, Stop(k) PROVE CodeInv'
  BY <1>1, CallEnds DEF Stop
<1>2. ASSUME NEW e \in Employees, DeleteEmployee(e) PROVE CodeInv'
  BY <1>2, RowErased DEF DeleteEmployee
<1>3. ASSUME NEW e \in Employees, Archive(e) \/ Restore(e) PROVE CodeInv'
  <2>1. call' = call /\ clash' = clash
    BY <1>3 DEF Archive, Restore
  <2>2. \A f \in Employees : RowStep(f) /\ emp'[f].code = emp[f].code
                             /\ (Exists(f)' => Exists(f))
    BY <1>3 DEF Archive, Restore, Active, RowStep, Exists, Types, EmpRows
  <2>3. Stamped'
    BY <1>3 DEF Archive, Restore, CodeInv, Stamped, Types, EmpRows
  <2> QED
    BY <2>1, <2>2, <2>3, RowsShift
<1>4. ASSUME NEW b, NEW c, Enroll(b, c) PROVE CodeInv'
  <2>1. emp' = emp /\ call' = call /\ clash' = clash
    BY <1>4 DEF Enroll
  <2> QED
    BY <2>1, RowsShift DEF CodeInv, Stamped, RowStep, Exists
<1> QED
  BY <1>1, <1>2, <1>3, <1>4, ClaimsCodes, ExchangeCodes DEF CodesNext

LEMMA HiresCodes ==
  ASSUME Types, HasJobs, CodeInv, NEW k \in Calls, Hires(k)
  PROVE  CodeInv'
<1> DEFINE Goal == CodeInv'
           l == call[k]
<1>0. l \in CallRows /\ KnowsHolders(l) /\ Checked(l)
  BY DEF Types, CodeInv
<1>1. ASSUME NEW at \in {"file", "decide"}, NEW c, NEW j, NEW n,
             Begins(k, [CallAt(at, "hire", c, None, None) EXCEPT !.job = j], n),
             emp' = emp, clash' = clash
      PROVE  Goal
  <2> DEFINE m == [CallAt(at, "hire", c, None, None) EXCEPT !.job = j]
  <2>1. m.at = at /\ m.code = c /\ m.known \subseteq Holders(c)
    BY BeginsKnowing
  <2>2. Begins(k, m, n)
    BY <1>1
  <2> HIDE DEF m
  <2>3. Checked(m)
    BY <2>1 DEF Checked
  <2> QED
    BY <1>1, <2>1, <2>2, <2>3, CallBegins
<1>2. ASSUME NEW a, NEW c, NEW n, StartFile(k, a, c, n) PROVE Goal
  <2> DEFINE i == [appt |-> a, was |-> appt[a].st, to |-> "pending", row |-> appt[a],
                   seen |-> {}]
             j == [i EXCEPT !.row.nid = n]
             h == CallAt("file", "hire", c, None, None)
  <2>1. /\ Begins(k, [[h EXCEPT !.job = i] EXCEPT !.job.row.nid = n], 0)
        /\ emp' = emp /\ clash' = clash
    BY <1>2 DEF StartFile, HireCall
  <2>2. [[h EXCEPT !.job = i] EXCEPT !.job.row.nid = n] = [h EXCEPT !.job = j]
    BY DEF CallAt
  <2> HIDE DEF j
  <2> QED
    BY <1>1, <2>1, <2>2
<1>3. ASSUME NEW a, NEW c, StartEdit(k, a, c) PROVE Goal
  BY <1>1, <1>3 DEF StartEdit, HireCall
<1>4. ASSUME NEW a, NEW to, StartDecide(k, a, to) PROVE Goal
  BY <1>1, <1>4 DEF StartDecide, HireCall
<1>5. ASSUME File(k) \/ Join(k) PROVE Goal
  BY <1>5, CallEnds DEF File, Join
<1>6. ASSUME Decide(k) PROVE Goal
  <2>1. emp' = emp /\ clash' = clash
    BY <1>6 DEF Decide
  <2>2. CASE Ends(k)
    BY <2>1, <2>2, CallEnds
  <2>3. CASE ~Ends(k)
    <3>1. PICK c, j :
            call' = [call EXCEPT ![k] = [call[k] EXCEPT !.at = "linked", !.code = c,
                                           !.known = Holders(c), !.job = j]]
      BY <1>6, <2>3, DecideStep
    <3> DEFINE m == [l EXCEPT !.at = "linked", !.code = c, !.known = Holders(c),
                              !.job = j]
    <3>2. m.at = "linked" /\ m.code = c /\ m.known = Holders(c)
      BY <1>0 DEF CallRows
    <3>3. call' = [call EXCEPT ![k] = m]
      BY <3>1
    <3> HIDE DEF m
    <3>4. KnowsHolders(m) /\ Checked(m)
      BY <3>2 DEF KnowsHolders, Checked, Holders, Exists
    <3> QED
      BY <2>1, <3>3, <3>4, CallMoves
  <2> QED
    BY <2>2, <2>3
<1>7. ASSUME CheckLink(k) PROVE Goal
  <2>1. emp' = emp /\ clash' = clash
    BY <1>7 DEF CheckLink
  <2>2. Ends(k) \/ Goes(k, "code") \/ Goes(k, "nid")
    BY <1>7 DEF CheckLink
  <2> QED
    BY <2>1, <2>2, CallEnds, CallGoes
<1>8. ASSUME FindNid(k) PROVE Goal
  <2>1. emp' = emp /\ clash' = clash
    BY <1>8 DEF FindNid
  <2>2. CASE Goes(k, "code")
    BY <2>1, <2>2, CallGoes
  <2>3. CASE ~Goes(k, "code")
    <3>1. PICK e \in Employees :
            call' = [call EXCEPT ![k] = [call[k] EXCEPT !.at = "join", !.on = e]]
      BY <1>8, <2>3, NidStep
    <3> DEFINE m == [l EXCEPT !.at = "join", !.on = e]
    <3>2. m.at = "join" /\ m.code = l.code /\ m.known = l.known
      BY <1>0 DEF CallRows
    <3>3. call' = [call EXCEPT ![k] = m]
      BY <3>1
    <3> HIDE DEF m
    <3>4. KnowsHolders(m) /\ Checked(m)
      BY <1>0, <3>2 DEF KnowsHolders, Checked
    <3> QED
      BY <2>1, <3>3, <3>4, CallMoves
  <2> QED
    BY <2>2, <2>3
<1>9. ASSUME CheckCode(k) PROVE Goal
  <2> DEFINE m == [l EXCEPT !.at = "hire"]
  <2>1. m.at = "hire" /\ m.code = l.code /\ m.known = l.known
    BY <1>0 DEF CallRows
  <2>2. call' = [call EXCEPT ![k] = m] /\ emp' = emp /\ clash' = clash
    BY <1>9 DEF CheckCode, Goes
  <2>3. \A e \in l.known : ~Exists(e)
    <3>1. \A e \in l.known : e \in Employees /\ (Exists(e) => emp[e].code = l.code)
      BY <1>0 DEF KnowsHolders, CallRows
    <3> HIDE DEF l
    <3>2. ~ \E e \in Employees : Exists(e) /\ l.code \in ByCode(e)
      BY <1>9 DEF CheckCode, l
    <3> QED
      BY <3>1, <3>2 DEF ByCode
  <2> HIDE DEF m
  <2>4. KnowsHolders(m) /\ Checked(m)
    BY <1>0, <2>1, <2>3 DEF KnowsHolders, Checked
  <2> QED
    BY <2>2, <2>4, CallMoves
<1>10. ASSUME NEW e \in Employees, Hire(k, e) PROVE Goal
  <2> DEFINE r == NewRow(l.code)
  <2>1. r.st = "active" /\ r.code = l.code
    BY DEF NewRow, Row
  <2>2. /\ emp' = [emp EXCEPT ![e] = r] /\ emp[e].st = "unused" /\ l.at = "hire"
        /\ Clashes(e, l.code, l.known) /\ Ends(k)
    BY <1>10 DEF Hire
  <2> HIDE DEF r
  <2>3. \A f \in l.known \ {e} : ~Exists(f)
    BY <1>0, <2>2 DEF Checked
  <2>4. emp'[e].code = l.code /\ \A f \in Employees \ {e} : emp'[f] = emp[f]
    BY <2>1, <2>2 DEF Types
  <2>5. CodeHeldOnce'
    BY <2>2, <2>3, <2>4, WrittenOnce DEF CodeInv
  <2> QED
    BY <2>1, <2>2, <2>5, RowMade
<1> HIDE DEF Goal
<1>11. Goal
  BY <1>2, <1>3, <1>4, <1>5, <1>6, <1>7, <1>8, <1>9, <1>10 DEF Hires
<1> QED
  BY <1>11 DEF Goal

-----------------------------------------------------------------------------
(* Exclusions.  Who was deleted for good has an exclusion until a later    *)
(* deletion overwrites it; a pull that passed the check keeps away from    *)
(* those who were gone when it began.                                      *)
StaysOut(l) == l.gone \subseteq removed /\ (l.at = "create" => l.bid \notin l.gone)

ExclInv ==
  /\ \A b \in removed : \E x \in excl : x.bid = b
  /\ \A k \in Calls : StaysOut(call[k])

(* A step that is neither a deletion nor the check of the exclusions. *)
GoneStep(j) ==
  /\ call'[j].gone \in {call[j].gone, removed, {}}
  /\ call'[j].at = "create" =>
       call'[j].at = call[j].at /\ call'[j].bid = call[j].bid
         /\ call'[j].gone = call[j].gone

LEMMA GoneKept ==
  ASSUME ExclInv, excl' = excl, removed' = removed, \A j \in Calls : GoneStep(j)
  PROVE  ExclInv'
<1>1. \A j \in Calls : StaysOut(call[j])'
  BY DEF ExclInv, StaysOut, GoneStep
<1> QED
  BY <1>1 DEF ExclInv

LEMMA GoneSteps ==
  ASSUME Types, NEW k \in Calls
  PROVE  /\ call' = call => \A j \in Calls : GoneStep(j)
         /\ Ends(k) => \A j \in Calls : GoneStep(j)
         /\ \A to : Goes(k, to) /\ to # "create" => \A j \in Calls : GoneStep(j)
         /\ \A e, c : Writes(k, e, c) => \A j \in Calls : GoneStep(j)
         /\ \A l, n : Begins(k, l, n) /\ l.gone = removed /\ l.at # "create"
              => \A j \in Calls : GoneStep(j)
<1>1. ASSUME call' = call PROVE \A j \in Calls : GoneStep(j)
  BY <1>1 DEF GoneStep
<1>2. ASSUME Ends(k) PROVE \A j \in Calls : GoneStep(j)
  BY <1>2 DEF GoneStep, Ends, Idle, Types
<1>3. ASSUME NEW to, Goes(k, to), to # "create" PROVE \A j \in Calls : GoneStep(j)
  BY <1>3 DEF GoneStep, Goes, Types, CallRows
<1>4. ASSUME NEW e, NEW c, Writes(k, e, c) PROVE \A j \in Calls : GoneStep(j)
  BY <1>4 DEF GoneStep, Writes, Idle, Types, CallRows
<1>5. ASSUME NEW l, NEW n, Begins(k, l, n), l.gone = removed, l.at # "create"
      PROVE  \A j \in Calls : GoneStep(j)
  BY <1>5 DEF GoneStep, Begins, Types
<1> QED
  BY <1>1, <1>2, <1>3, <1>4, <1>5

LEMMA BeginsGone ==
  ASSUME NEW at, NEW how, NEW c, NEW x, NEW b, NEW R
  PROVE  /\ CallAt(at, how, c, x, b).gone = removed
         /\ [CallAt(at, how, c, x, b) EXCEPT !.rows = R].gone = removed
         /\ [CallAt(at, how, c, x, b) EXCEPT !.job = R].gone = removed
BY DEF CallAt

LEMMA NotesPerson ==
  ASSUME NEW e, Notes(e), emp[e].bid # None
  PROVE  \E x \in excl' : x.bid = emp[e].bid
<1> DEFINE b == emp[e].bid
           c == IF emp[e].mcode # None THEN emp[e].mcode ELSE emp[e].code
<1>1. \/ excl' = excl \cup {[bid |-> b, code |-> c]}
      \/ \E x \in excl : excl' = (excl \ {x}) \cup {[bid |-> IF b = None THEN x.bid ELSE b,
                                                    code |-> c]}
  BY DEF Notes
<1>2. [bid |-> b, code |-> c] \in excl'
  BY <1>1
<1> HIDE DEF b, c
<1>3. [bid |-> b, code |-> c].bid = b
  OBVIOUS
<1> QED
  BY <1>2, <1>3 DEF b

LEMMA ErasedStaysOut ==
  ASSUME Types, ExclInv, NEW e, NEW k, Erase(e, k)
  PROVE  ExclInv'
<1>1. ASSUME NEW b \in removed' PROVE \E x \in excl' : x.bid = b
  <2>1. b \in removed \/ (b = emp[e].bid /\ b # None)
    BY <1>1 DEF Erase
  <2>2. b \notin Forgotten
    BY <1>1 DEF Erase
  <2>3. CASE b = emp[e].bid /\ b # None
    BY <2>3, NotesPerson DEF Erase
  <2>4. CASE b \in removed
    <3>1. b \in {x.bid : x \in excl}
      BY <2>4 DEF ExclInv
    <3>2. b \in {x.bid : x \in excl'}
      BY <2>2, <3>1 DEF Forgotten
    <3> QED
      BY <3>2
  <2> QED
    BY <2>1, <2>3, <2>4
<1>2. ASSUME NEW j \in Calls PROVE StaysOut(call[j])'
  <2>1. call[j] \in CallRows
    BY DEF Types
  <2>2. /\ call'[j].gone = call[j].gone \ Forgotten /\ call'[j].at = call[j].at
        /\ call'[j].bid = call[j].bid
    BY <2>1 DEF Erase, CallRows
  <2>3. removed \ Forgotten \subseteq removed'
    BY DEF Erase
  <2> QED
    BY <2>2, <2>3 DEF ExclInv, StaysOut
<1> QED
  BY <1>1, <1>2 DEF ExclInv

LEMMA CodesExcl ==
  ASSUME Types, ExclInv, CodesNext
  PROVE  ExclInv'
<1> DEFINE Goal == ExclInv'
           Kept == \A j \in Calls : GoneStep(j)
<1>0. ASSUME NEW at \in {"archived", "write", "insert", "update", "find"}, NEW how, NEW c,
             NEW x, NEW b, NEW k \in Calls, NEW n, Begins(k, CallAt(at, how, c, x, b), n)
      PROVE  Kept
  <2> DEFINE l == CallAt(at, how, c, x, b)
  <2>1. l.gone = removed /\ l.at # "create" /\ Begins(k, l, n)
    BY <1>0, BeginsGone, BeginsKnowing
  <2> HIDE DEF l
  <2> QED
    BY <2>1, GoneSteps
<1>1. ASSUME NEW k \in Calls, Claims(k) PROVE Goal
  <2>1. ASSUME NEW c, NEW x, NEW how, StartForm(k, c, x, how) PROVE Goal
    <3> DEFINE l == [CallAt("archived", how, c, x, None)
                       EXCEPT !.rows = {e \in Employees : Active(e)}]
    <3>1. l.gone = removed /\ l.at # "create"
      BY BeginsGone, BeginsKnowing
    <3>2. Begins(k, l, Renames(x)) /\ excl' = excl /\ removed' = removed
      BY <2>1 DEF StartForm
    <3> HIDE DEF l
    <3>3. Kept
      BY <3>1, <3>2, GoneSteps
    <3> QED
      BY <3>2, <3>3, GoneKept
  <2>2. ASSUME NEW c, NEW x, StartSheet(k, c, x) PROVE Goal
    BY <1>0, <2>2, GoneKept DEF StartSheet
  <2>3. ASSUME NEW c, StartShiftSheet(k, c) PROVE Goal
    BY <1>0, <2>3, GoneKept DEF StartShiftSheet
  <2>4. ASSUME FindArchived(k) PROVE Goal
    <3>1. call[k] \in CallRows
      BY DEF Types
    <3>2. Kept /\ excl' = excl /\ removed' = removed
      BY <2>4, <3>1 DEF FindArchived, GoneStep, Types, CallRows
    <3> QED
      BY <3>2, GoneKept
  <2>5. ASSUME EraseNext(k) PROVE Goal
    BY <2>5, ErasedStaysOut DEF EraseNext
  <2>6. ASSUME NEW e, WriteNew(k, e) PROVE Goal
    BY <2>6, GoneSteps, GoneKept DEF WriteNew
  <2>7. ASSUME WriteCode(k) PROVE Goal
    BY <2>7, GoneSteps, GoneKept DEF WriteCode
  <2> HIDE DEF Goal
  <2> QED
    BY <1>1, <2>1, <2>2, <2>3, <2>4, <2>5, <2>6, <2>7 DEF Claims
<1>2. ASSUME NEW k \in Calls, Exchange(k) PROVE Goal
  <2>1. ASSUME NEW e, NEW b, StartPush(k, e, b) PROVE Goal
    BY <1>0, <2>1, GoneKept DEF StartPush
  <2>2. ASSUME NEW e, StartPatch(k, e) PROVE Goal
    BY <1>0, <2>2, GoneKept DEF StartPatch
  <2>3. ASSUME Persist(k) PROVE Goal
    BY <2>3, GoneSteps, GoneKept DEF Persist
  <2>4. ASSUME NEW b, StartPull(k, b) PROVE Goal
    BY <1>0, <2>4, GoneKept DEF StartPull
  <2>5. ASSUME Find(k) PROVE Goal
    <3>1. excl' = excl /\ removed' = removed
      BY <2>5, Zenon DEF Find
    <3>2. CASE Goes(k, "exclude")
      BY <3>1, <3>2, GoneSteps, GoneKept
    <3>3. CASE ~Goes(k, "exclude")
      <4>1. PICK e \in Employees :
              call' = [call EXCEPT ![k] =
                [call[k] EXCEPT !.at = IF Mapped(e) THEN "refresh" ELSE "map",
                                !.on = e, !.rows = Owners(call[k].bid)]]
        BY <2>5, <3>3, FindStep
      <4>2. Kept
        BY <4>1 DEF GoneStep, Types, CallRows
      <4> QED
        BY <3>1, <4>2, GoneKept
    <3> QED
      BY <3>2, <3>3
  <2>6. ASSUME CheckExcluded(k) PROVE Goal
    <3>1. ~\E x \in excl : x.bid = call[k].bid
      BY <2>6 DEF CheckExcluded, Excluded
    <3>2. call[k].bid \notin call[k].gone
      BY <3>1 DEF ExclInv, StaysOut
    <3>3. excl' = excl /\ removed' = removed /\ Goes(k, "create")
      BY <2>6 DEF CheckExcluded
    <3>4. \A j \in Calls : call'[j].gone = call[j].gone /\ call'[j].bid = call[j].bid
                           /\ (j # k => call'[j].at = call[j].at)
      BY <3>3 DEF Goes, Types, CallRows
    <3> QED
      BY <3>2, <3>3, <3>4 DEF ExclInv, StaysOut
  <2>7. ASSUME Refresh(k) PROVE Goal
    BY <2>7, GoneSteps, GoneKept DEF Refresh
  <2>8. ASSUME NEW e, PullNew(k, e) PROVE Goal
    BY <2>8, GoneSteps, GoneKept DEF PullNew
  <2> HIDE DEF Goal
  <2> QED
    BY <1>2, <2>1, <2>2, <2>3, <2>4, <2>5, <2>6, <2>7, <2>8 DEF Exchange
<1>3. ASSUME NEW k \in Calls, Stop(k) PROVE Goal
  BY <1>3, GoneSteps, GoneKept DEF Stop
<1>4. ASSUME NEW e \in Employees, DeleteEmployee(e) PROVE Goal
  BY <1>4, ErasedStaysOut DEF DeleteEmployee
<1>5. ASSUME call' = call, excl' = excl, removed' = removed PROVE Goal
  BY <1>5 DEF ExclInv, StaysOut
<1>6. ASSUME NEW e, Archive(e) \/ Restore(e) PROVE Goal
  BY <1>5, <1>6 DEF Archive, Restore
<1>7. ASSUME NEW b, NEW c, Enroll(b, c) PROVE Goal
  BY <1>5, <1>7 DEF Enroll
<1> HIDE DEF Goal
<1>8. Goal
  BY <1>1, <1>2, <1>3, <1>4, <1>6, <1>7 DEF CodesNext
<1> QED
  BY <1>8 DEF Goal

LEMMA HiresExcl ==
  ASSUME Types, ExclInv, NEW k \in Calls, Hires(k)
  PROVE  ExclInv'
<1> DEFINE Goal == ExclInv'
           Kept == \A j \in Calls : GoneStep(j)
<1>0. ASSUME NEW at \in {"file", "decide"}, NEW c, NEW j, NEW n,
             Begins(k, [CallAt(at, "hire", c, None, None) EXCEPT !.job = j], n)
      PROVE  Kept
  <2> DEFINE l == [CallAt(at, "hire", c, None, None) EXCEPT !.job = j]
  <2>1. l.gone = removed /\ l.at # "create" /\ Begins(k, l, n)
    BY <1>0, BeginsGone, BeginsKnowing
  <2> HIDE DEF l
  <2> QED
    BY <2>1, GoneSteps
<1>1. ASSUME NEW a, NEW c, NEW n, StartFile(k, a, c, n) PROVE Goal
  <2> DEFINE i == [appt |-> a, was |-> appt[a].st, to |-> "pending", row |-> appt[a],
                   seen |-> {}]
             j == [i EXCEPT !.row.nid = n]
             h == CallAt("file", "hire", c, None, None)
  <2>1. /\ Begins(k, [[h EXCEPT !.job = i] EXCEPT !.job.row.nid = n], 0)
        /\ excl' = excl /\ removed' = removed
    BY <1>1 DEF StartFile, HireCall
  <2>2. [[h EXCEPT !.job = i] EXCEPT !.job.row.nid = n] = [h EXCEPT !.job = j]
    BY DEF CallAt
  <2> HIDE DEF j
  <2> QED
    BY <1>0, <2>1, <2>2, GoneKept
<1>2. ASSUME NEW a, NEW c, StartEdit(k, a, c) PROVE Goal
  BY <1>0, <1>2, GoneKept DEF StartEdit, HireCall
<1>3. ASSUME NEW a, NEW to, StartDecide(k, a, to) PROVE Goal
  BY <1>0, <1>3, GoneKept DEF StartDecide, HireCall
<1>4. ASSUME File(k) \/ Join(k) PROVE Goal
  BY <1>4, GoneSteps, GoneKept DEF File, Join
<1>5. ASSUME Decide(k) PROVE Goal
  <2>1. excl' = excl /\ removed' = removed
    BY <1>5 DEF Decide
  <2>2. Kept
    <3>1. CASE Ends(k)
      BY <3>1, GoneSteps
    <3>2. CASE ~Ends(k)
      <4>1. PICK c, j :
              call' = [call EXCEPT ![k] = [call[k] EXCEPT !.at = "linked", !.code = c,
                                             !.known = Holders(c), !.job = j]]
        BY <1>5, <3>2, DecideStep
      <4> QED
        BY <4>1 DEF GoneStep, Types, CallRows
    <3> QED
      BY <3>1, <3>2
  <2> QED
    BY <2>1, <2>2, GoneKept
<1>6. ASSUME CheckLink(k) PROVE Goal
  BY <1>6, GoneSteps, GoneKept DEF CheckLink
<1>7. ASSUME FindNid(k) PROVE Goal
  <2>1. excl' = excl /\ removed' = removed
    BY <1>7 DEF FindNid
  <2>2. Kept
    <3>1. CASE Goes(k, "code")
      BY <3>1, GoneSteps
    <3>2. CASE ~Goes(k, "code")
      <4>1. PICK e \in Employees :
              call' = [call EXCEPT ![k] = [call[k] EXCEPT !.at = "join", !.on = e]]
        BY <1>7, <3>2, NidStep
      <4> QED
        BY <4>1 DEF GoneStep, Types, CallRows
    <3> QED
      BY <3>1, <3>2
  <2> QED
    BY <2>1, <2>2, GoneKept
<1>8. ASSUME CheckCode(k) PROVE Goal
  BY <1>8, GoneSteps, GoneKept DEF CheckCode
<1>9. ASSUME NEW e, Hire(k, e) PROVE Goal
  BY <1>9, GoneSteps, GoneKept DEF Hire
<1> HIDE DEF Goal
<1>10. Goal
  BY <1>1, <1>2, <1>3, <1>4, <1>5, <1>6, <1>7, <1>8, <1>9 DEF Hires
<1> QED
  BY <1>10 DEF Goal

-----------------------------------------------------------------------------
(* Appointments.  A provision works for an approved appointment, or for    *)
(* one that a late decision touched; a decision under way read a status    *)
(* that is open to it.                                                     *)
Provisions == {"linked", "nid", "join", "code", "hire"}

Approved(a) == appt[a].st = "approved" \/ a \in stale

Decided(l) ==
  /\ l.at \in Provisions => Approved(l.job.appt)
  /\ l.at = "decide" /\ l.job.to # "keep" => MayBecome(l.job.was, l.job.to)

ApprovedInv ==
  /\ \A k \in Calls : Decided(call[k])
  /\ HiredIsApproved

(* A step that decides nothing: calls keep their jobs or end.              *)
LEMMA NothingDecided ==
  ASSUME Types, HasJobs, ApprovedInv, stale' = stale,
         \A a \in Appts : appt'[a].st = appt[a].st
                          /\ (appt'[a].emp # None => appt[a].emp # None \/ Approved(a)),
         \A j \in Calls : call'[j].at \in HireAts =>
              /\ call'[j].job = call[j].job
              /\ call[j].at \in HireAts
              /\ call'[j].at \in Provisions => call[j].at \in Provisions
              /\ call'[j].at = "decide" => call[j].at = "decide"
  PROVE  ApprovedInv'
<1>1. HiredIsApproved'
  BY DEF ApprovedInv, HiredIsApproved, Approved
<1>2. ASSUME NEW j \in Calls PROVE Decided(call[j])'
  <2>1. CASE call'[j].at \in HireAts
    <3>1. call[j].job.appt \in Appts
      BY <2>1 DEF HasJobs, Jobs
    <3> QED
      BY <2>1, <3>1 DEF ApprovedInv, Decided, Approved
  <2>2. CASE call'[j].at \notin HireAts
    BY <2>2 DEF Decided, Provisions, HireAts
  <2> QED
    BY <2>1, <2>2
<1> QED
  BY <1>1, <1>2 DEF ApprovedInv

LEMMA CodesApproved ==
  ASSUME Types, HasJobs, ApprovedInv, CodesNext, Unlinks
  PROVE  ApprovedInv'
<1>1. \A a \in Appts : appt'[a].st = appt[a].st /\ (appt'[a].emp # None => appt[a].emp # None)
  BY DEF Unlinks, Types, ApptRows
<1>2. stale' = stale
  BY DEF Unlinks
<1>3. ASSUME NEW j \in Calls, call'[j].at \in HireAts
      PROVE  call'[j].at = call[j].at /\ call'[j].job = call[j].job
  BY <1>3, CodesCalls
<1> QED
  BY <1>1, <1>2, <1>3, NothingDecided

(* Jobs of the calls when call k moves. *)
LEMMA HireMoves ==
  ASSUME Types, NEW k \in Calls
  PROVE  /\ Ends(k) => \A j \in Calls :
              call'[j].at \in HireAts => j # k /\ call'[j] = call[j]
         /\ \A to : Goes(k, to) => \A j \in Calls :
              /\ call'[j].job = call[j].job
              /\ j # k => call'[j] = call[j]
              /\ call'[k].at = to
         /\ \A m : call' = [call EXCEPT ![k] = m] =>
              call'[k] = m /\ \A j \in Calls \ {k} : call'[j] = call[j]
<1>1. ASSUME Ends(k), NEW j \in Calls, call'[j].at \in HireAts
      PROVE  j # k /\ call'[j] = call[j]
  BY <1>1 DEF Ends, Idle, Types, HireAts
<1>2. ASSUME NEW to, Goes(k, to), NEW j \in Calls
      PROVE  /\ call'[j].job = call[j].job
             /\ j # k => call'[j] = call[j]
             /\ call'[k].at = to
  BY <1>2 DEF Goes, Types, CallRows
<1>3. ASSUME NEW m, call' = [call EXCEPT ![k] = m]
      PROVE  call'[k] = m /\ \A j \in Calls \ {k} : call'[j] = call[j]
  BY <1>3 DEF Types
<1> QED
  BY <1>1, <1>2, <1>3

LEMMA HiresApproved ==
  ASSUME Types, HasJobs, ApprovedInv, NEW k \in Calls, Hires(k)
  PROVE  ApprovedInv'
<1> DEFINE Goal == ApprovedInv'
           l == call[k]
<1> USE DEF HireAts, Provisions
<1>0. l.at \in HireAts => l.job \in Jobs /\ l.job.appt \in Appts
  BY DEF HasJobs, Jobs
<1>1. ASSUME NEW m, call' = [call EXCEPT ![k] = m], appt' = appt, stale' = stale,
             Decided(m)
      PROVE  Goal
  <2>1. call'[k] = m /\ \A j \in Calls \ {k} : call'[j] = call[j]
    BY <1>1, HireMoves
  <2> QED
    BY <1>1, <2>1 DEF ApprovedInv, Decided, Approved, HiredIsApproved
<1>2. ASSUME NEW a, NEW c, NEW n, StartFile(k, a, c, n) PROVE Goal
  <2> DEFINE m == [HireCall("file", a, "pending", c) EXCEPT !.job.row.nid = n]
  <2>1. call' = [call EXCEPT ![k] = m] /\ appt' = appt /\ stale' = stale
    BY <1>2 DEF StartFile, Begins, hireVars
  <2>2. m.at = "file"
    BY DEF HireCall, CallAt
  <2> HIDE DEF m
  <2> QED
    BY <1>1, <2>1, <2>2 DEF Decided
<1>3. ASSUME NEW a, NEW c, StartEdit(k, a, c) PROVE Goal
  <2> DEFINE m == HireCall("decide", a, "keep", c)
  <2>1. call' = [call EXCEPT ![k] = m] /\ appt' = appt /\ stale' = stale
    BY <1>3 DEF StartEdit, Begins, hireVars
  <2>2. m.at = "decide" /\ m.job.to = "keep"
    BY DEF HireCall, CallAt
  <2> HIDE DEF m
  <2> QED
    BY <1>1, <2>1, <2>2 DEF Decided
<1>4. ASSUME NEW a, NEW to, StartDecide(k, a, to) PROVE Goal
  <2> DEFINE m == HireCall("decide", a, to, appt[a].code)
  <2>1. /\ call' = [call EXCEPT ![k] = m] /\ appt' = appt /\ stale' = stale
        /\ MayBecome(appt[a].st, to)
    BY <1>4 DEF StartDecide, Begins, hireVars
  <2>2. m.at = "decide" /\ m.job.to = to /\ m.job.was = appt[a].st
    BY DEF HireCall, CallAt
  <2> HIDE DEF m
  <2> QED
    BY <1>1, <2>1, <2>2 DEF Decided
<1>5. ASSUME File(k) PROVE Goal
  <2> DEFINE a == l.job.appt
  <2>1. /\ a \in Appts /\ appt[a].st = "none" /\ stale' = stale /\ Ends(k)
        /\ appt'[a].emp = None /\ \A b \in Appts \ {a} : appt'[b] = appt[b]
    BY <1>0, <1>5 DEF File, Types
  <2> HIDE DEF a
  <2>2. HiredIsApproved'
    BY <2>1 DEF ApprovedInv, HiredIsApproved
  <2>4. ASSUME NEW b \in Appts, Approved(b) PROVE Approved(b)'
    BY <2>1, <2>4 DEF Approved
  <2>3. ASSUME NEW j \in Calls PROVE Decided(call[j])'
    <3>1. CASE call'[j].at \in HireAts
      <4>1. call'[j] = call[j]
        BY <2>1, <3>1, HireMoves
      <4>2. call[j].job.appt \in Appts
        BY <3>1, <4>1 DEF HasJobs, Jobs
      <4> QED
        BY <2>4, <4>1, <4>2 DEF ApprovedInv, Decided, Approved
    <3>2. CASE call'[j].at \notin HireAts
      BY <3>2 DEF Decided
    <3> QED
      BY <3>1, <3>2
  <2> QED
    BY <2>2, <2>3 DEF ApprovedInv
<1>6. ASSUME Decide(k) PROVE Goal
  <2> DEFINE j == l.job
             a == j.appt
             st == IF j.to = "keep" THEN appt[a].st ELSE j.to
             c == IF j.to = "keep" THEN call[k].code ELSE appt[a].code
             row == [appt[a] EXCEPT !.st = st, !.code = c]
             J == [j EXCEPT !.row = row, !.seen = HiresOf(a)]
             m == [l EXCEPT !.at = "linked", !.code = row.code,
                            !.known = Holders(row.code), !.job = J]
  <2>1. /\ l.at = "decide" /\ appt' = [appt EXCEPT ![a] = row]
        /\ stale' = IF j.to # "keep" /\ appt[a].st # j.was THEN stale \cup {a} ELSE stale
        /\ IF st # "approved" THEN Ends(k) ELSE call' = [call EXCEPT ![k] = m]
    BY <1>6 DEF Decide
  <2>2. j \in Jobs /\ a \in Appts /\ l \in CallRows
    BY <1>0, <2>1 DEF Types
  <2>3. appt[a] \in ApptRows
    BY <2>2 DEF Types
  <2>4. row.st = st /\ row.emp = appt[a].emp
    BY <2>3 DEF ApptRows
  <2>5. j.to # "keep" => MayBecome(j.was, j.to)
    BY <2>1 DEF ApprovedInv, Decided
  <2>6. m.at = "linked" /\ m.job = J
    BY <2>2 DEF CallRows
  <2>7. J.appt = a
    BY <2>2 DEF Jobs
  <2> HIDE DEF row, J, m, st
  <2>8. appt'[a].st = st /\ appt'[a].emp = appt[a].emp
        /\ \A b \in Appts \ {a} : appt'[b] = appt[b]
    BY <2>1, <2>2, <2>4 DEF Types
  <2>9. stale \subseteq stale'
    BY <2>1
  <2>10. appt[a].st # "approved" \/ a \in stale' \/ st = "approved"
    BY <2>1, <2>5 DEF MayBecome, st
  <2>11. ASSUME NEW b \in Appts, Approved(b) PROVE Approved(b)'
    <3> HIDE DEF a
    <3> QED
      BY <2>8, <2>9, <2>10, <2>11 DEF Approved
  <2>12. HiredIsApproved'
    <3>1. ASSUME NEW b \in Appts, appt'[b].emp # None PROVE Approved(b)'
      BY <2>8, <2>11, <3>1 DEF ApprovedInv, HiredIsApproved, Approved
    <3> QED
      BY <3>1 DEF HiredIsApproved, Approved
  <2>13. ASSUME NEW i \in Calls, call'[i] = call[i] PROVE Decided(call[i])'
    <3>1. call[i].at \in Provisions => call[i].job.appt \in Appts
      BY DEF HasJobs, Jobs
    <3> QED
      BY <2>11, <2>13, <3>1 DEF ApprovedInv, Decided
  <2>14. ASSUME NEW i \in Calls PROVE Decided(call[i])'
    <3>1. CASE st # "approved"
      <4>1. call'[i].at \in HireAts => call'[i] = call[i]
        BY <2>1, <3>1, HireMoves
      <4> QED
        BY <2>13, <4>1 DEF Decided
    <3>2. CASE st = "approved"
      <4>1. call'[k] = m /\ \A h \in Calls \ {k} : call'[h] = call[h]
        BY <2>1, <3>2, HireMoves
      <4>2. appt'[a].st = "approved"
        BY <2>8, <3>2
      <4>3. Decided(call[k])'
        <5> HIDE DEF a
        <5> QED
          BY <2>6, <2>7, <4>1, <4>2 DEF Decided, Approved
      <4> QED
        BY <2>13, <4>1, <4>3
    <3> QED
      BY <3>1, <3>2
  <2> QED
    BY <2>12, <2>14 DEF ApprovedInv
<1>7. ASSUME appt' = appt, stale' = stale, Ends(k) PROVE Goal
  <2>1. \A j \in Calls : call'[j].at \in HireAts => call'[j] = call[j]
    BY <1>7, HireMoves
  <2> QED
    BY <1>7, <2>1, NothingDecided
<1>8. ASSUME appt' = appt, stale' = stale, NEW to \in Provisions, Goes(k, to),
             l.at \in Provisions
      PROVE  Goal
  <2>1. \A j \in Calls : call'[j].job = call[j].job /\ (j # k => call'[j] = call[j])
                         /\ call'[k].at = to
    BY <1>8, HireMoves
  <2> QED
    BY <1>8, <2>1, NothingDecided
<1>9. ASSUME CheckLink(k) PROVE Goal
  BY <1>7, <1>8, <1>9 DEF CheckLink, hireVars
<1>10. ASSUME FindNid(k) PROVE Goal
  <2>1. appt' = appt /\ stale' = stale /\ l.at = "nid"
    BY <1>10 DEF FindNid, hireVars
  <2>2. CASE Goes(k, "code")
    BY <1>8, <2>1, <2>2
  <2>3. CASE ~Goes(k, "code")
    <3>1. PICK e \in Employees :
            call' = [call EXCEPT ![k] = [call[k] EXCEPT !.at = "join", !.on = e]]
      BY <1>10, <2>3, NidStep
    <3> DEFINE m == [l EXCEPT !.at = "join", !.on = e]
    <3>2. m.at = "join" /\ m.job = l.job
      BY DEF Types, CallRows
    <3>3. call' = [call EXCEPT ![k] = m]
      BY <3>1
    <3> HIDE DEF m
    <3>4. Decided(m)
      BY <2>1, <3>2 DEF ApprovedInv, Decided
    <3> QED
      BY <1>1, <2>1, <3>3, <3>4
  <2> QED
    BY <2>2, <2>3
<1>11. ASSUME l.at \in Provisions, stale' = stale, Ends(k), NEW e,
              \/ appt' = appt
              \/ appt' = [appt EXCEPT ![l.job.appt] = [appt[l.job.appt] EXCEPT !.emp = e]]
       PROVE  Goal
  <2>1. Approved(l.job.appt) /\ l.job.appt \in Appts
    BY <1>0, <1>11 DEF ApprovedInv, Decided
  <2>2. \A b \in Appts : appt'[b].st = appt[b].st
                         /\ (appt'[b].emp # None => appt[b].emp # None \/ Approved(b))
    BY <1>11, <2>1 DEF Types, ApptRows
  <2>3. \A j \in Calls : call'[j].at \in HireAts => call'[j] = call[j]
    BY <1>11, HireMoves
  <2> QED
    BY <1>11, <2>2, <2>3, NothingDecided
<1>12. ASSUME Join(k) PROVE Goal
  BY <1>11, <1>12 DEF Join
<1>13. ASSUME CheckCode(k) PROVE Goal
  BY <1>8, <1>13 DEF CheckCode, hireVars
<1>14. ASSUME NEW e, Hire(k, e) PROVE Goal
  <2>1. l.at = "hire"
    BY <1>14 DEF Hire
  <2>2. stale' = stale
    BY <1>14 DEF Hire
  <2>3. Ends(k)
    BY <1>14 DEF Hire
  <2>4. appt' = [appt EXCEPT ![l.job.appt] = [appt[l.job.appt] EXCEPT !.emp = e]]
    BY <1>14 DEF Hire, Link
  <2>5. l.at \in Provisions
    BY <2>1
  <2> HIDE DEF Goal, Provisions
  <2> QED
    BY <1>11, <2>2, <2>3, <2>4, <2>5
<1> HIDE DEF Goal
<1>15. Goal
  BY <1>2, <1>3, <1>4, <1>5, <1>6, <1>9, <1>10, <1>12, <1>13, <1>14 DEF Hires
<1> QED
  BY <1>15 DEF Goal

-----------------------------------------------------------------------------
(* BioTime persons.  A pull that found an employee remembers the owners    *)
(* its person had then; of two of them one had been taken meanwhile.       *)
Refreshes == {"refresh", "map"}

Found(l) ==
  l.at \in Refreshes /\ l.bid # None =>
    /\ l.rows = {} \/ l.on \in l.rows
    /\ \A f, g \in l.rows : f # g => f \in twice \/ g \in twice

OwnerInv == (\A k \in Calls : Found(call[k])) /\ OneOwner

FoundStep(j) ==
  call'[j].at \in Refreshes =>
    /\ call[j].at \in Refreshes
    /\ call'[j].on = call[j].on /\ call'[j].rows = call[j].rows
    /\ call'[j].bid = call[j].bid

(* What a step does to a row it gives no BioTime person. *)
BidStep(e) ==
  Exists(e)' => \/ Exists(e) /\ emp'[e].bid = emp[e].bid
                \/ emp'[e].bid = None

LEMMA FoundKept ==
  ASSUME OwnerInv, OneOwner', twice \subseteq twice', \A j \in Calls : FoundStep(j)
  PROVE  OwnerInv'
<1>1. \A j \in Calls : Found(call[j])'
  BY DEF OwnerInv, Found, FoundStep
<1> QED
  BY <1>1 DEF OwnerInv

LEMMA OwnersStay ==
  ASSUME OwnerInv, twice' = twice, \A e \in Employees : BidStep(e),
         \A j \in Calls : FoundStep(j)
  PROVE  OwnerInv'
<1>1. OneOwner'
  BY DEF OwnerInv, OneOwner, BidStep
<1> QED
  BY <1>1, FoundKept

LEMMA OwnerWritten ==
  ASSUME OwnerInv, NEW e \in Employees, NEW b, NEW S,
         \A f \in Employees \ {e} : emp'[f] = emp[f],
         emp'[e].bid = b, Doubles(e, b, S),
         b = None \/ S = {}
           \/ (e \in S /\ \A f, g \in S : f # g => f \in twice \/ g \in twice),
         \A j \in Calls : FoundStep(j)
  PROVE  OwnerInv'
<1>1. twice \subseteq twice'
  BY DEF Doubles
<1>2. ASSUME NEW f \in Employees, f # e, Exists(f), emp[f].bid = b, b # None
      PROVE  e \in twice' \/ f \in twice'
  <2>1. f \in Owners(b) \ {e}
    BY <1>2 DEF Owners
  <2>2. CASE Owners(b) \ {e} \subseteq S
    BY <1>1, <1>2, <2>1, <2>2
  <2>3. CASE ~(Owners(b) \ {e} \subseteq S)
    BY <2>3 DEF Doubles
  <2> QED
    BY <2>2, <2>3
<1>3. OneOwner'
  <2>1. ASSUME NEW f \in Employees, NEW g \in Employees, f # g, Exists(f)', Exists(g)',
               emp'[f].bid = emp'[g].bid, emp'[f].bid # None
        PROVE  f \in twice' \/ g \in twice'
    <3>1. \A h \in Employees \ {e} : Exists(h)' <=> Exists(h)
      BY DEF Exists
    <3>2. CASE f # e /\ g # e
      BY <1>1, <2>1, <3>1, <3>2 DEF OwnerInv, OneOwner
    <3>3. CASE f = e \/ g = e
      BY <1>2, <2>1, <3>1, <3>3
    <3> QED
      BY <3>2, <3>3
  <2> QED
    BY <2>1 DEF OneOwner
<1> QED
  BY <1>1, <1>3, FoundKept

LEMMA FoundSteps ==
  ASSUME Types, NEW k \in Calls
  PROVE  /\ call' = call => \A j \in Calls : FoundStep(j)
         /\ Ends(k) => \A j \in Calls : FoundStep(j)
         /\ \A to : Goes(k, to) /\ to \notin Refreshes => \A j \in Calls : FoundStep(j)
         /\ \A e, c : Writes(k, e, c) => \A j \in Calls : FoundStep(j)
         /\ \A m : call' = [call EXCEPT ![k] = m] /\ m.at \notin Refreshes
              => \A j \in Calls : FoundStep(j)
<1> USE DEF Refreshes
<1>1. ASSUME call' = call PROVE \A j \in Calls : FoundStep(j)
  BY <1>1 DEF FoundStep
<1>2. ASSUME Ends(k) PROVE \A j \in Calls : FoundStep(j)
  BY <1>2 DEF FoundStep, Ends, Idle, Types
<1>3. ASSUME NEW to, Goes(k, to), to \notin Refreshes PROVE \A j \in Calls : FoundStep(j)
  BY <1>3 DEF FoundStep, Goes, Types, CallRows
<1>4. ASSUME NEW e, NEW c, Writes(k, e, c) PROVE \A j \in Calls : FoundStep(j)
  BY <1>4 DEF FoundStep, Writes, Idle, Types, CallRows
<1>5. ASSUME NEW m, call' = [call EXCEPT ![k] = m], m.at \notin Refreshes
      PROVE  \A j \in Calls : FoundStep(j)
  BY <1>5 DEF FoundStep, Types
<1> QED
  BY <1>1, <1>2, <1>3, <1>4, <1>5

LEMMA ErasedOwner ==
  ASSUME Types, OwnerInv, NEW e \in Employees, NEW k, k \notin Calls \/ call[k].at = "erase",
         Erase(e, k), twice' = twice
  PROVE  OwnerInv'
<1>1. \A f \in Employees : BidStep(f)
  BY DEF Erase, Deleted, Row, BidStep, Exists, Types
<1>2. ASSUME NEW j \in Calls PROVE FoundStep(j)
  <2>1. call[j] \in CallRows
    BY DEF Types
  <2>2. /\ call'[j].at = call[j].at /\ call'[j].on = call[j].on
        /\ call'[j].bid = call[j].bid /\ (j # k => call'[j].rows = call[j].rows)
    BY <2>1 DEF Erase, CallRows
  <2> QED
    BY <2>2 DEF FoundStep, Refreshes
<1> QED
  BY <1>1, <1>2, OwnersStay

LEMMA CodesOwner ==
  ASSUME Types, OwnerInv, CodesNext
  PROVE  OwnerInv'
<1> DEFINE Goal == OwnerInv'
           Kept == \A j \in Calls : FoundStep(j)
<1>0. ASSUME emp' = emp, twice' = twice, Kept PROVE Goal
  BY <1>0, OwnersStay DEF BidStep, Exists
<1>1. ASSUME NEW at \in {"archived", "write", "insert", "update", "find"}, NEW how, NEW c,
             NEW x, NEW b, NEW k \in Calls, NEW n, Begins(k, CallAt(at, how, c, x, b), n)
      PROVE  Kept
  <2> DEFINE l == CallAt(at, how, c, x, b)
  <2>1. l.at \notin Refreshes /\ call' = [call EXCEPT ![k] = l]
    BY <1>1, BeginsKnowing DEF Refreshes, Begins
  <2> HIDE DEF l
  <2> QED
    BY <2>1, FoundSteps
<1>2. ASSUME NEW k \in Calls, Claims(k) PROVE Goal
  <2>1. ASSUME NEW c, NEW x, NEW how, StartForm(k, c, x, how) PROVE Goal
    <3> DEFINE l == [CallAt("archived", how, c, x, None)
                       EXCEPT !.rows = {e \in Employees : Active(e)}]
    <3>1. l.at \notin Refreshes
      BY BeginsKnowing DEF Refreshes
    <3>2. call' = [call EXCEPT ![k] = l] /\ emp' = emp /\ twice' = twice
      BY <2>1 DEF StartForm, Begins
    <3> HIDE DEF l
    <3>3. Kept
      BY <3>1, <3>2, FoundSteps
    <3> QED
      BY <1>0, <3>2, <3>3
  <2>2. ASSUME NEW c, NEW x, StartSheet(k, c, x) PROVE Goal
    BY <1>0, <1>1, <2>2 DEF StartSheet
  <2>3. ASSUME NEW c, StartShiftSheet(k, c) PROVE Goal
    BY <1>0, <1>1, <2>3 DEF StartShiftSheet
  <2>4. ASSUME FindArchived(k) PROVE Goal
    <3>1. call[k] \in CallRows
      BY DEF Types
    <3>2. Kept /\ emp' = emp /\ twice' = twice
      BY <2>4, <3>1 DEF FindArchived, FoundStep, Refreshes, Types, CallRows
    <3> QED
      BY <1>0, <3>2
  <2>5. ASSUME EraseNext(k) PROVE Goal
    BY <2>5, ErasedOwner DEF EraseNext, Types, CallRows
  <2>6. ASSUME NEW e \in Employees, WriteNew(k, e) PROVE Goal
    <3>1. \A f \in Employees : BidStep(f)
      BY <2>6 DEF WriteNew, NewRow, Row, BidStep, Exists, Types
    <3>2. Kept /\ twice' = twice
      BY <2>6, FoundSteps DEF WriteNew
    <3> QED
      BY <3>1, <3>2, OwnersStay
  <2>7. ASSUME WriteCode(k) PROVE Goal
    <3>1. ASSUME NEW f \in Employees PROVE emp'[f].bid = emp[f].bid /\ emp'[f].st = emp[f].st
      <4>1. emp[f] \in EmpRows
        BY DEF Types
      <4> QED
        BY <2>7, <4>1 DEF WriteCode, Types, EmpRows
    <3>2. Kept /\ twice' = twice
      BY <2>7, FoundSteps DEF WriteCode
    <3> QED
      BY <3>1, <3>2, OwnersStay DEF BidStep, Exists
  <2> HIDE DEF Goal
  <2> QED
    BY <1>2, <2>1, <2>2, <2>3, <2>4, <2>5, <2>6, <2>7 DEF Claims
<1>3. ASSUME NEW k \in Calls, Exchange(k) PROVE Goal
  <2> DEFINE l == call[k]
  <2>0. l \in CallRows
    BY DEF Types
  <2>1. ASSUME NEW e, NEW b, StartPush(k, e, b) PROVE Goal
    BY <1>0, <1>1, <2>1 DEF StartPush
  <2>2. ASSUME NEW e, StartPatch(k, e) PROVE Goal
    BY <1>0, <1>1, <2>2 DEF StartPatch
  <2>3. ASSUME Persist(k) PROVE Goal
    <3> DEFINE x == l.on
               r == [emp[x] EXCEPT !.bid = l.bid, !.mcode = l.code]
    <3>1. emp' = [emp EXCEPT ![x] = r] /\ Doubles(x, l.bid, {}) /\ Ends(k)
      BY <2>3 DEF Persist
    <3>2. Kept
      BY <3>1, FoundSteps
    <3>3. CASE x \notin Employees
      <4> HIDE DEF r
      <4>1. emp' = emp /\ twice \subseteq twice'
        BY <3>1, <3>3 DEF Doubles, Types
      <4>2. OneOwner'
        BY <4>1 DEF OwnerInv, OneOwner, Exists
      <4> QED
        BY <3>2, <4>1, <4>2, FoundKept
    <3>4. CASE x \in Employees
      <4>1. emp[x] \in EmpRows
        BY <3>4 DEF Types
      <4>2. r.bid = l.bid
        BY <4>1 DEF EmpRows
      <4> HIDE DEF r, x
      <4>3. emp'[x].bid = l.bid /\ \A f \in Employees \ {x} : emp'[f] = emp[f]
        BY <3>1, <3>4, <4>2 DEF Types
      <4> QED
        BY <3>1, <3>2, <3>4, <4>3, OwnerWritten
    <3> QED
      BY <3>3, <3>4
  <2>4. ASSUME NEW b, StartPull(k, b) PROVE Goal
    BY <1>0, <1>1, <2>4 DEF StartPull
  <2>5. ASSUME Find(k) PROVE Goal
    <3>1. emp' = emp /\ twice' = twice
      BY <2>5, Zenon DEF Find
    <3>2. CASE Goes(k, "exclude")
      BY <1>0, <3>1, <3>2, FoundSteps DEF Refreshes
    <3>3. CASE ~Goes(k, "exclude")
      <4>1. PICK e \in Employees :
              /\ Owners(l.bid) # {} => e \in Owners(l.bid)
              /\ call' = [call EXCEPT ![k] =
                   [l EXCEPT !.at = IF Mapped(e) THEN "refresh" ELSE "map",
                             !.on = e, !.rows = Owners(l.bid)]]
        BY <2>5, <3>3 DEF Find, Matches, Owners
      <4> DEFINE S == Owners(l.bid)
                 m == [l EXCEPT !.at = IF Mapped(e) THEN "refresh" ELSE "map",
                                !.on = e, !.rows = S]
      <4>2. m.on = e /\ m.rows = S /\ m.bid = l.bid
        BY <2>0 DEF CallRows
      <4>3. call'[k] = m /\ \A j \in Calls \ {k} : call'[j] = call[j]
        BY <4>1 DEF Types
      <4>4. l.bid # None =>
              (S = {} \/ e \in S) /\ \A f, g \in S : f # g => f \in twice \/ g \in twice
        BY <4>1 DEF Owners, OwnerInv, OneOwner
      <4> HIDE DEF m, S
      <4>5. \A j \in Calls : Found(call[j])'
        BY <3>1, <4>2, <4>3, <4>4 DEF Found, OwnerInv
      <4>6. OneOwner'
        BY <3>1 DEF OwnerInv, OneOwner, Exists
      <4> QED
        BY <4>5, <4>6 DEF OwnerInv
    <3> QED
      BY <3>2, <3>3
  <2>6. ASSUME CheckExcluded(k) PROVE Goal
    BY <1>0, <2>6, FoundSteps DEF CheckExcluded, Refreshes
  <2>7. ASSUME Refresh(k) PROVE Goal
    <3> DEFINE x == l.on
               r == [emp[x] EXCEPT !.code = l.code, !.bid = l.bid, !.mcode = l.code]
    <3>1. emp' = [emp EXCEPT ![x] = r] /\ Doubles(x, l.bid, l.rows) /\ Writes(k, x, l.code)
          /\ l.at \in Refreshes
      BY <2>7 DEF Refresh, Refreshes
    <3>2. Kept
      BY <3>1, FoundSteps
    <3>3. CASE x \notin Employees
      <4> HIDE DEF r
      <4>1. emp' = emp /\ twice \subseteq twice'
        BY <3>1, <3>3 DEF Doubles, Types
      <4>2. OneOwner'
        BY <4>1 DEF OwnerInv, OneOwner, Exists
      <4> QED
        BY <3>2, <4>1, <4>2, FoundKept
    <3>4. CASE x \in Employees
      <4>1. emp[x] \in EmpRows
        BY <3>4 DEF Types
      <4>2. r.bid = l.bid
        BY <4>1 DEF EmpRows
      <4>4. l.bid = None \/ l.rows = {} \/ (x \in l.rows /\ \A f, g \in l.rows :
                              f # g => f \in twice \/ g \in twice)
        BY <3>1 DEF OwnerInv, Found
      <4> HIDE DEF r, x
      <4>3. emp'[x].bid = l.bid /\ \A f \in Employees \ {x} : emp'[f] = emp[f]
        BY <3>1, <3>4, <4>2 DEF Types
      <4> QED
        BY <3>1, <3>2, <3>4, <4>3, <4>4, OwnerWritten
    <3> QED
      BY <3>3, <3>4
  <2>8. ASSUME NEW e \in Employees, PullNew(k, e) PROVE Goal
    <3> DEFINE r == [Row("active", l.code, None, l.code) EXCEPT !.bid = l.bid,
                                                                !.mcode = l.code]
    <3>1. emp' = [emp EXCEPT ![e] = r] /\ Doubles(e, l.bid, {}) /\ Ends(k)
      BY <2>8 DEF PullNew
    <3>2. Kept
      BY <3>1, FoundSteps
    <3>3. r.bid = l.bid
      BY DEF Row
    <3> HIDE DEF r
    <3>4. emp'[e].bid = l.bid /\ \A f \in Employees \ {e} : emp'[f] = emp[f]
      BY <3>1, <3>3 DEF Types
    <3> QED
      BY <3>1, <3>2, <3>4, OwnerWritten
  <2> HIDE DEF Goal
  <2> QED
    BY <1>3, <2>1, <2>2, <2>3, <2>4, <2>5, <2>6, <2>7, <2>8 DEF Exchange
<1>4. ASSUME NEW k \in Calls, Stop(k) PROVE Goal
  BY <1>0, <1>4, FoundSteps DEF Stop
<1>5. ASSUME NEW e \in Employees, DeleteEmployee(e) PROVE Goal
  BY <1>5, ErasedOwner, CodesAssumption DEF DeleteEmployee
<1>6. ASSUME NEW e \in Employees, Archive(e) \/ Restore(e) PROVE Goal
  <2>1. \A f \in Employees : BidStep(f)
    BY <1>6 DEF Archive, Restore, Active, BidStep, Exists, Types, EmpRows
  <2>2. Kept /\ twice' = twice
    BY <1>6 DEF Archive, Restore, FoundStep
  <2> QED
    BY <2>1, <2>2, OwnersStay
<1>7. ASSUME NEW b, NEW c, Enroll(b, c) PROVE Goal
  BY <1>0, <1>7 DEF Enroll, FoundStep
<1> HIDE DEF Goal
<1>8. Goal
  BY <1>2, <1>3, <1>4, <1>5, <1>6, <1>7 DEF CodesNext
<1> QED
  BY <1>8 DEF Goal

(* A step of the hiring moves one call, to a place of the hiring or out.   *)
LEMMA HiresCalls ==
  ASSUME Types, NEW k \in Calls, Hires(k)
  PROVE  /\ call'[k].at \in HireAts \cup {"idle"}
         /\ \A j \in Calls \ {k} : call'[j] = call[j]
<1> DEFINE Goal == /\ call'[k].at \in HireAts \cup {"idle"}
                   /\ \A j \in Calls \ {k} : call'[j] = call[j]
<1> USE DEF HireAts
<1>0. ASSUME NEW m, call' = [call EXCEPT ![k] = m], m.at \in HireAts \cup {"idle"}
      PROVE  Goal
  BY <1>0 DEF Types
<1>1. ASSUME Ends(k) PROVE Goal
  BY <1>0, <1>1 DEF Ends, Idle
<1>2. ASSUME NEW to \in HireAts, Goes(k, to) PROVE Goal
  BY <1>2 DEF Goes, Types, CallRows
<1>3. ASSUME NEW a, NEW c, NEW n, StartFile(k, a, c, n) PROVE Goal
  <2> DEFINE m == [HireCall("file", a, "pending", c) EXCEPT !.job.row.nid = n]
  <2>1. call' = [call EXCEPT ![k] = m]
    BY <1>3 DEF StartFile, Begins
  <2>2. m.at = "file"
    BY DEF HireCall, CallAt
  <2> HIDE DEF m
  <2> QED
    BY <1>0, <2>1, <2>2
<1>4. ASSUME NEW a, NEW to, NEW c, NEW n, Begins(k, HireCall("decide", a, to, c), n)
      PROVE  Goal
  <2> DEFINE m == HireCall("decide", a, to, c)
  <2>1. call' = [call EXCEPT ![k] = m]
    BY <1>4 DEF Begins
  <2>2. m.at = "decide"
    BY DEF HireCall, CallAt
  <2> HIDE DEF m
  <2> QED
    BY <1>0, <2>1, <2>2
<1>5. ASSUME Decide(k) PROVE Goal
  <2>1. CASE Ends(k)
    BY <1>1, <2>1
  <2>2. CASE ~Ends(k)
    <3>1. PICK c, j :
            call' = [call EXCEPT ![k] = [call[k] EXCEPT !.at = "linked", !.code = c,
                                           !.known = Holders(c), !.job = j]]
      BY <1>5, <2>2, DecideStep
    <3> QED
      BY <3>1 DEF Types, CallRows
  <2> QED
    BY <2>1, <2>2
<1>6. ASSUME FindNid(k) PROVE Goal
  <2>1. CASE Goes(k, "code")
    BY <1>2, <2>1
  <2>2. CASE ~Goes(k, "code")
    <3>1. PICK e \in Employees :
            call' = [call EXCEPT ![k] = [call[k] EXCEPT !.at = "join", !.on = e]]
      BY <1>6, <2>2, NidStep
    <3> QED
      BY <3>1 DEF Types, CallRows
  <2> QED
    BY <2>1, <2>2
<1>7. ASSUME File(k) \/ Join(k) PROVE Goal
  BY <1>1, <1>7 DEF File, Join
<1>8. ASSUME CheckLink(k) PROVE Goal
  BY <1>1, <1>2, <1>8 DEF CheckLink
<1>9. ASSUME CheckCode(k) PROVE Goal
  BY <1>2, <1>9 DEF CheckCode
<1>10. ASSUME NEW e, Hire(k, e) PROVE Goal
  BY <1>1, <1>10 DEF Hire
<1> HIDE DEF Goal
<1>11. ASSUME NEW a, NEW c, StartEdit(k, a, c) PROVE Goal
  BY <1>4, <1>11 DEF StartEdit
<1>12. ASSUME NEW a, NEW to, StartDecide(k, a, to) PROVE Goal
  BY <1>4, <1>12 DEF StartDecide
<1>13. Goal
  BY <1>3, <1>5, <1>6, <1>7, <1>8, <1>9, <1>10, <1>11, <1>12 DEF Hires
<1> QED
  BY <1>13 DEF Goal

(* Of the rows, only the creation of an employee changes one.              *)
LEMMA HiresRows ==
  ASSUME NEW k \in Calls, Hires(k)
  PROVE  /\ twice' = twice
         /\ \/ emp' = emp
            \/ \E e \in Employees :
                 emp[e].st = "unused" /\ emp' = [emp EXCEPT ![e] = NewRow(call[k].code)]
<1> DEFINE Same == twice' = twice /\ emp' = emp
<1>1. ASSUME NEW a, NEW c, NEW n, StartFile(k, a, c, n) PROVE Same
  BY <1>1 DEF StartFile
<1>2. ASSUME NEW a, NEW c, StartEdit(k, a, c) PROVE Same
  BY <1>2 DEF StartEdit
<1>3. ASSUME NEW a, NEW to, StartDecide(k, a, to) PROVE Same
  BY <1>3 DEF StartDecide
<1>4. ASSUME File(k) PROVE Same
  BY <1>4 DEF File
<1>5. ASSUME Decide(k) PROVE Same
  BY <1>5 DEF Decide
<1>6. ASSUME CheckLink(k) PROVE Same
  BY <1>6 DEF CheckLink
<1>7. ASSUME FindNid(k) PROVE Same
  BY <1>7 DEF FindNid
<1>8. ASSUME Join(k) PROVE Same
  BY <1>8 DEF Join
<1>9. ASSUME CheckCode(k) PROVE Same
  BY <1>9 DEF CheckCode
<1>10. ASSUME NEW e \in Employees, Hire(k, e)
       PROVE  /\ twice' = twice /\ emp[e].st = "unused"
              /\ emp' = [emp EXCEPT ![e] = NewRow(call[k].code)]
  BY <1>10 DEF Hire
<1> QED
  BY <1>1, <1>2, <1>3, <1>4, <1>5, <1>6, <1>7, <1>8, <1>9, <1>10 DEF Hires

LEMMA HiresOwner ==
  ASSUME Types, OwnerInv, NEW k \in Calls, Hires(k)
  PROVE  OwnerInv'
<1>1. \A j \in Calls : FoundStep(j)
  BY HiresCalls DEF FoundStep, Refreshes, HireAts
<1>2. twice' = twice
  BY HiresRows
<1>3. \A e \in Employees : BidStep(e)
  <2>1. CASE emp' = emp
    BY <2>1 DEF BidStep, Exists
  <2>2. ASSUME NEW e \in Employees, emp' = [emp EXCEPT ![e] = NewRow(call[k].code)]
        PROVE  \A f \in Employees : BidStep(f)
    BY <2>2 DEF BidStep, Exists, NewRow, Row, Types
  <2> QED
    BY <2>1, <2>2, HiresRows
<1> QED
  BY <1>1, <1>2, <1>3, OwnersStay

(* Rows are used once: no step of the codes brings one back. *)
RowOnce(e) ==
  /\ emp'[e].st = "unused" => emp[e].st = "unused"
  /\ Exists(e)' => Exists(e) \/ emp[e].st = "unused"

LEMMA CodesRows ==
  ASSUME Types, CodesNext
  PROVE  \A e \in Employees : RowOnce(e)
<1> DEFINE Goal == \A e \in Employees : RowOnce(e)
<1>1. ASSUME emp' = emp PROVE Goal
  BY <1>1 DEF RowOnce, Exists
<1>2. ASSUME NEW x, NEW r, emp' = [emp EXCEPT ![x] = r], r.st # "unused",
             Exists(x) \/ emp[x].st = "unused"
      PROVE  Goal
  BY <1>2 DEF RowOnce, Exists, Types
<1>3. ASSUME NEW e \in Employees, NEW k, Erase(e, k) PROVE Goal
  BY <1>3 DEF Erase, Deleted, Row, RowOnce, Exists, Types
<1>4. ASSUME NEW k \in Calls, Claims(k) PROVE Goal
  <2>1. ASSUME NEW c, NEW x, NEW how, StartForm(k, c, x, how) PROVE Goal
    BY <1>1, <2>1 DEF StartForm
  <2>2. ASSUME NEW c, NEW x, StartSheet(k, c, x) PROVE Goal
    BY <1>1, <2>2 DEF StartSheet
  <2>3. ASSUME NEW c, StartShiftSheet(k, c) PROVE Goal
    BY <1>1, <2>3 DEF StartShiftSheet
  <2>4. ASSUME FindArchived(k) PROVE Goal
    BY <1>1, <2>4 DEF FindArchived
  <2>5. ASSUME EraseNext(k) PROVE Goal
    BY <1>3, <2>5 DEF EraseNext, Types, CallRows
  <2>6. ASSUME NEW e \in Employees, WriteNew(k, e) PROVE Goal
    BY <2>6 DEF WriteNew, NewRow, Row, RowOnce, Exists, Types
  <2>7. ASSUME WriteCode(k) PROVE Goal
    <3>1. ASSUME NEW f \in Employees PROVE emp'[f].st = emp[f].st
      <4>1. emp[f] \in EmpRows
        BY DEF Types
      <4> QED
        BY <2>7, <4>1 DEF WriteCode, Types, EmpRows
    <3> QED
      BY <3>1 DEF RowOnce, Exists
  <2> HIDE DEF Goal
  <2> QED
    BY <1>4, <2>1, <2>2, <2>3, <2>4, <2>5, <2>6, <2>7 DEF Claims
<1>5. ASSUME NEW k \in Calls, Exchange(k) PROVE Goal
  <2> DEFINE l == call[k]
             x == l.on
  <2>1. ASSUME NEW e, NEW b, StartPush(k, e, b) PROVE Goal
    BY <1>1, <2>1 DEF StartPush
  <2>2. ASSUME NEW e, StartPatch(k, e) PROVE Goal
    BY <1>1, <2>2 DEF StartPatch
  <2>3. ASSUME Persist(k) PROVE Goal
    <3> DEFINE r == [emp[x] EXCEPT !.bid = l.bid, !.mcode = l.code]
    <3>1. emp' = [emp EXCEPT ![x] = r]
      BY <2>3 DEF Persist
    <3>2. x \in Employees => r.st = emp[x].st
      BY DEF Types, EmpRows
    <3> HIDE DEF r
    <3> QED
      BY <3>1, <3>2 DEF RowOnce, Exists, Types
  <2>4. ASSUME NEW b, StartPull(k, b) PROVE Goal
    BY <1>1, <2>4 DEF StartPull
  <2>5. ASSUME Find(k) PROVE Goal
    <3>1. emp' = emp
      BY <2>5, Zenon DEF Find
    <3> QED
      BY <1>1, <3>1
  <2>6. ASSUME CheckExcluded(k) PROVE Goal
    BY <1>1, <2>6 DEF CheckExcluded
  <2>7. ASSUME Refresh(k) PROVE Goal
    <3> DEFINE r == [emp[x] EXCEPT !.code = l.code, !.bid = l.bid, !.mcode = l.code]
    <3>1. emp' = [emp EXCEPT ![x] = r]
      BY <2>7 DEF Refresh
    <3>2. x \in Employees => r.st = emp[x].st
      BY DEF Types, EmpRows
    <3> HIDE DEF r
    <3> QED
      BY <3>1, <3>2 DEF RowOnce, Exists, Types
  <2>8. ASSUME NEW e \in Employees, PullNew(k, e) PROVE Goal
    <3> DEFINE r == [Row("active", l.code, None, l.code) EXCEPT !.bid = l.bid,
                                                                !.mcode = l.code]
    <3>1. emp' = [emp EXCEPT ![e] = r] /\ emp[e].st = "unused"
      BY <2>8 DEF PullNew
    <3>2. r.st = "active"
      BY DEF Row
    <3> HIDE DEF r
    <3> QED
      BY <1>2, <3>1, <3>2
  <2> HIDE DEF Goal
  <2> QED
    BY <1>5, <2>1, <2>2, <2>3, <2>4, <2>5, <2>6, <2>7, <2>8 DEF Exchange
<1>6. ASSUME NEW k, Stop(k) PROVE Goal
  BY <1>1, <1>6 DEF Stop
<1>7. ASSUME NEW e \in Employees, DeleteEmployee(e) PROVE Goal
  BY <1>3, <1>7 DEF DeleteEmployee
<1>8. ASSUME NEW e \in Employees, Archive(e) \/ Restore(e) PROVE Goal
  BY <1>8 DEF Archive, Restore, Active, RowOnce, Exists, Types, EmpRows
<1>9. ASSUME NEW b, NEW c, Enroll(b, c) PROVE Goal
  BY <1>1, <1>9 DEF Enroll
<1> HIDE DEF Goal
<1>10. Goal
  BY <1>4, <1>5, <1>6, <1>7, <1>8, <1>9 DEF CodesNext
<1> QED
  BY <1>10 DEF Goal

-----------------------------------------------------------------------------
(* Hires.  What a provision found out keeps it from hiring a second        *)
(* employee: the link when the appointment has no national id, and the     *)
(* national id of the first employee otherwise.                            *)
HiredRight(a, e) ==
  /\ appt[a].st # "none" /\ nid[e] = appt[a].nid
  /\ appt[a].nid = None /\ a \notin double => appt[a].emp = e

Provides(l) ==
  LET j == l.job
      a == j.appt
  IN
  /\ l.at \in Provisions \cup {"decide"} => appt[a].st # "none"
  /\ l.at \in Provisions =>
       /\ j.row.nid = appt[a].nid
       /\ \A e \in j.seen : emp[e].st # "unused"
  /\ l.at \in {"nid", "join"} => j.row.nid # None
  /\ l.at \in {"code", "hire"} /\ a \notin double => j.seen \cap HiresOf(a) = {}
  /\ l.at = "linked" /\ j.row.nid = None /\ a \notin double =>
       \A e \in j.seen \cap HiresOf(a) : j.row.emp = e

HiredInv ==
  /\ hiredFor \in [Employees -> Appts \cup {None}]
  /\ \A e \in Employees : emp[e].st = "unused" => hiredFor[e] = None
  /\ \A a \in Appts : \A e \in HiresOf(a) : HiredRight(a, e)
  /\ HiredOnce
  /\ \A k \in Calls : Provides(call[k])

(* A step that hires nobody. *)
LEMMA NobodyHired ==
  ASSUME Types, HasJobs, HiredInv, hiredFor' = hiredFor, double' = double,
         \A e \in Employees : RowOnce(e),
         \A e \in Employees : Exists(e)' => nid'[e] = nid[e],
         \A a \in Appts :
           /\ appt[a].st # "none" => appt'[a].st # "none" /\ appt'[a].nid = appt[a].nid
           /\ \A e \in HiresOf(a) : Exists(e)' /\ appt[a].nid = None /\ appt[a].emp = e
                => appt'[a].emp = e,
         \A j \in Calls : call'[j].at \in Provisions \cup {"decide"} =>
           call'[j].at = call[j].at /\ call'[j].job = call[j].job
  PROVE  HiredInv'
<1>1. \A e \in Employees : Exists(e)' /\ hiredFor[e] # None => Exists(e)
  BY DEF RowOnce, HiredInv
<1>2. \A e \in Employees : emp'[e].st = "unused" => hiredFor'[e] = None
  BY DEF RowOnce, HiredInv
<1>3. HiredOnce'
  BY <1>1 DEF HiredInv, HiredOnce
<1>4. ASSUME NEW a \in Appts PROVE HiresOf(a)' \subseteq HiresOf(a)
  BY <1>1, HiringAssumption DEF HiresOf
<1>5. ASSUME NEW a \in Appts, NEW e \in HiresOf(a)' PROVE HiredRight(a, e)'
  <2>1. e \in HiresOf(a) /\ Exists(e)' /\ e \in Employees
    BY <1>4, <1>5 DEF HiresOf
  <2>2. HiredRight(a, e)
    BY <2>1 DEF HiredInv
  <2> QED
    BY <2>1, <2>2 DEF HiredRight
<1>6. ASSUME NEW j \in Calls PROVE Provides(call[j])'
  <2>1. CASE call'[j].at \notin Provisions \cup {"decide"}
    BY <2>1 DEF Provides, Provisions
  <2>2. CASE call'[j].at \in Provisions \cup {"decide"}
    <3>1. call'[j].at = call[j].at /\ call'[j].job = call[j].job
      BY <2>2
    <3>2. call[j].job.appt \in Appts /\ call[j].job.seen \subseteq Employees
      BY <2>2, <3>1 DEF HasJobs, HireAts, Provisions, Jobs
    <3>3. Provides(call[j])
      BY DEF HiredInv
    <3> DEFINE a == call[j].job.appt
    <3>4. appt[a].st # "none"
      BY <2>2, <3>1, <3>3 DEF Provides
    <3>5. \A e \in call[j].job.seen : emp[e].st # "unused" => emp'[e].st # "unused"
      BY <3>2 DEF RowOnce
    <3>6. HiresOf(a)' \subseteq HiresOf(a)
      BY <1>1, <3>1, <3>2, HiringAssumption DEF HiresOf
    <3> QED
      BY <3>1, <3>2, <3>3, <3>4, <3>5, <3>6 DEF Provides
  <2> QED
    BY <2>1, <2>2
<1> QED
  BY <1>2, <1>3, <1>5, <1>6 DEF HiredInv

LEMMA CodesHired ==
  ASSUME Types, HasJobs, HiredInv, CodesNext, Unlinks
  PROVE  HiredInv'
<1>1. \A e \in Employees : RowOnce(e)
  BY CodesRows
<1>2. hiredFor' = hiredFor /\ double' = double
  BY DEF Unlinks
<1>3. \A e \in Employees : Exists(e)' => nid'[e] = nid[e]
  BY DEF Unlinks
<1>4. \A a \in Appts :
        /\ appt'[a].st = appt[a].st /\ appt'[a].nid = appt[a].nid
        /\ \A e \in Employees : Exists(e)' /\ appt[a].emp = e => appt'[a].emp = e
  BY DEF Unlinks, Types, ApptRows
<1>5. \A j \in Calls : call'[j].at \in Provisions \cup {"decide"} =>
        call'[j].at = call[j].at /\ call'[j].job = call[j].job
  BY CodesCalls DEF Provisions, HireAts
<1>6. \A a \in Appts : HiresOf(a) \subseteq Employees
  BY DEF HiresOf
<1> QED
  BY <1>1, <1>2, <1>3, <1>4, <1>5, <1>6, NobodyHired

(* A call moves, and the rows it relies on stay. *)
LEMMA CallProvides ==
  ASSUME Types, HasJobs, HiredInv, emp' = emp, nid' = nid, hiredFor' = hiredFor,
         double' = double, NEW k \in Calls, NEW m, call' = [call EXCEPT ![k] = m],
         \A a \in Appts :
           /\ appt[a].st # "none" => appt'[a].st # "none"
           /\ appt'[a].nid = appt[a].nid /\ appt'[a].emp = appt[a].emp,
         m.at \in Provisions \cup {"decide"} => m.job.appt \in Appts,
         Provides(m)
  PROVE  HiredInv'
<1>1. call'[k] = m /\ \A j \in Calls \ {k} : call'[j] = call[j]
  BY DEF Types
<1>2. HiredOnce' /\ \A e \in Employees : emp'[e].st = "unused" => hiredFor'[e] = None
  BY DEF HiredInv, HiredOnce, Exists
<1>3. \A a \in Appts : HiresOf(a)' = HiresOf(a)
  BY DEF HiresOf, Exists
<1>4. \A a \in Appts : \A e \in HiresOf(a)' : HiredRight(a, e)'
  BY <1>3 DEF HiredInv, HiredRight
<1>5. ASSUME NEW l, Provides(l), l.at \in Provisions \cup {"decide"} => l.job.appt \in Appts
      PROVE  Provides(l)'
  <2>1. CASE l.at \notin Provisions \cup {"decide"}
    BY <2>1 DEF Provides, Provisions
  <2>2. CASE l.at \in Provisions \cup {"decide"}
    BY <1>3, <1>5, <2>2 DEF Provides
  <2> QED
    BY <2>1, <2>2
<1>6. ASSUME NEW j \in Calls PROVE Provides(call[j])'
  <2>1. CASE j = k
    <3>1. Provides(m)'
      BY <1>5
    <3> QED
      BY <1>1, <2>1, <3>1 DEF Provides
  <2>2. CASE j # k
    <3>1. Provides(call[j])
      BY DEF HiredInv
    <3>2. call[j].at \in Provisions \cup {"decide"} => call[j].job.appt \in Appts
      BY DEF HasJobs, HireAts, Provisions, Jobs
    <3>3. \A l : l = call[j] => Provides(l)'
      BY <1>5, <3>1, <3>2
    <3>4. call'[j] = call[j]
      BY <1>1, <2>2
    <3> QED
      BY <3>3, <3>4 DEF Provides
  <2> QED
    BY <2>1, <2>2
<1> QED
  BY <1>2, <1>4, <1>6 DEF HiredInv

LEMMA SomebodyHired ==
  ASSUME Types, HasJobs, HiredInv, NEW k \in Calls, NEW e \in Employees, Hire(k, e)
  PROVE  HiredInv'
<1> DEFINE l == call[k]
           a == l.job.appt
           n == l.job.row.nid
           seen == l.job.seen
<1>1. a \in Appts /\ n \in Nids \cup {None} /\ l.at = "hire"
  BY DEF Hire, HasJobs, HireAts, Jobs, ApptRows
<1>2. n = appt[a].nid /\ appt[a].st # "none" /\ (a \in double \/ seen \cap HiresOf(a) = {})
  BY <1>1 DEF HiredInv, Provides, Provisions
<1>3. emp[e].st = "unused" /\ emp' = [emp EXCEPT ![e] = NewRow(l.code)]
  BY DEF Hire
<1>4. nid' = [nid EXCEPT ![e] = n]
  BY DEF Hire
<1>5. hiredFor' = [hiredFor EXCEPT ![e] = a]
  BY DEF Hire
<1>6. double' = IF HiresOf(a) # {} /\ HiresOf(a) \cap seen = {} THEN double \cup {a} ELSE double
  BY DEF Hire
<1>7. appt' = [appt EXCEPT ![a] = [appt[a] EXCEPT !.emp = e]]
  BY DEF Hire, Link
<1>8. Ends(k)
  BY DEF Hire
<1>9. NewRow(l.code).st = "active"
  BY DEF NewRow, Row
<1> HIDE DEF a, n, seen
<1>10. /\ Exists(e)' /\ ~Exists(e)
       /\ \A f \in Employees \ {e} : emp'[f] = emp[f] /\ nid'[f] = nid[f]
                                     /\ hiredFor'[f] = hiredFor[f]
       /\ emp'[e].st # "unused" /\ nid'[e] = n /\ hiredFor'[e] = a
  BY <1>3, <1>4, <1>5, <1>9 DEF Exists, Types, HiredInv
<1>11. /\ appt'[a].emp = e /\ appt'[a].nid = appt[a].nid /\ appt'[a].st = appt[a].st
       /\ \A b \in Appts \ {a} : appt'[b] = appt[b]
  BY <1>1, <1>7 DEF Types, ApptRows
<1>12. ASSUME NEW b \in Appts
       PROVE  HiresOf(b)' = IF b = a THEN HiresOf(b) \cup {e} ELSE HiresOf(b)
  <2>1. ASSUME NEW f \in Employees
        PROVE  f \in HiresOf(b)' <=> f \in HiresOf(b) \/ (f = e /\ b = a)
    <3>1. f # e => (Exists(f)' <=> Exists(f))
      BY <1>10 DEF Exists
    <3> QED
      BY <1>10, <3>1 DEF HiresOf
  <2> QED
    BY <2>1 DEF HiresOf
<1>13. double \subseteq double' /\ (a \notin double' => HiresOf(a) = {})
  BY <1>2, <1>6
<1>14. hiredFor' \in [Employees -> Appts \cup {None}]
  BY <1>1, <1>5 DEF HiredInv
<1>15. \A f \in Employees : emp'[f].st = "unused" => hiredFor'[f] = None
  BY <1>10 DEF HiredInv
<1>16. ASSUME NEW b \in Appts, NEW f \in HiresOf(b)' PROVE HiredRight(b, f)'
  <2>1. CASE b = a /\ f = e
    BY <1>2, <1>10, <1>11, <2>1 DEF HiredRight
  <2>2. CASE b = a /\ f # e
    <3>1. f \in HiresOf(a) /\ f \in Employees
      BY <1>12, <1>16, <2>2 DEF HiresOf
    <3>2. HiredRight(a, f)
      BY <1>1, <3>1 DEF HiredInv
    <3>3. b \in double'
      BY <1>13, <2>2, <3>1
    <3> QED
      BY <1>10, <1>11, <2>2, <3>1, <3>2, <3>3 DEF HiredRight
  <2>3. CASE b # a
    <3>1. f \in HiresOf(b) /\ f \in Employees /\ f # e
      BY <1>10, <1>12, <1>16, <2>3 DEF HiresOf
    <3>2. HiredRight(b, f)
      BY <3>1 DEF HiredInv
    <3> QED
      BY <1>10, <1>11, <1>13, <2>3, <3>1, <3>2 DEF HiredRight
  <2> QED
    BY <2>1, <2>2, <2>3
<1>17. HiredOnce'
  <2>1. ASSUME NEW f \in Employees, NEW g \in Employees, f # g, Exists(f)', Exists(g)',
               hiredFor'[f] = hiredFor'[g], hiredFor'[f] # None
        PROVE  hiredFor'[f] \in double'
    <3>1. \A h \in Employees \ {e} : Exists(h)' <=> Exists(h)
      BY <1>10 DEF Exists
    <3>2. CASE f # e /\ g # e
      BY <1>10, <1>13, <2>1, <3>1, <3>2 DEF HiredInv, HiredOnce
    <3>3. CASE f = e \/ g = e
      <4>1. PICK h \in Employees \ {e} : Exists(h) /\ hiredFor[h] = a
        BY <1>10, <2>1, <3>1, <3>3
      <4> QED
        BY <1>10, <1>13, <2>1, <3>3, <4>1 DEF HiresOf
    <3> QED
      BY <3>2, <3>3
  <2> QED
    BY <2>1 DEF HiredOnce
<1>18. ASSUME NEW j \in Calls PROVE Provides(call[j])'
  <2>1. CASE call'[j].at \notin HireAts
    BY <2>1 DEF Provides, Provisions, HireAts
  <2>2. CASE call'[j].at \in HireAts
    <3>1. call'[j] = call[j]
      BY <1>8, <2>2, HireMoves
    <3>2. call[j].job.appt \in Appts /\ call[j].job.seen \subseteq Employees
      BY <2>2, <3>1 DEF HasJobs, Jobs
    <3>3. Provides(call[j])
      BY DEF HiredInv
    <3> DEFINE b == call[j].job.appt
               S == call[j].job.seen
    <3>7. \A c \in Appts : HiresOf(c)' \subseteq HiresOf(c) \cup {e}
      BY <1>12
    <3>4. (\A f \in S : emp[f].st # "unused") => S \cap HiresOf(b)' \subseteq HiresOf(b)
      BY <1>3, <3>1, <3>2, <3>7
    <3>5. (\A f \in S : emp[f].st # "unused") => \A f \in S : emp'[f].st # "unused"
      BY <1>10, <3>2
    <3>6. appt'[b].st = appt[b].st /\ appt'[b].nid = appt[b].nid
      BY <1>11, <3>2
    <3> QED
      BY <1>13, <3>1, <3>2, <3>3, <3>4, <3>5, <3>6 DEF Provides, Provisions
  <2> QED
    BY <2>1, <2>2
<1> QED
  BY <1>14, <1>15, <1>16, <1>17, <1>18 DEF HiredInv

LEMMA HiresHired ==
  ASSUME Types, HasJobs, HiredInv, NEW k \in Calls, Hires(k)
  PROVE  HiredInv'
<1> DEFINE Goal == HiredInv'
           l == call[k]
<1>0. /\ Provides(l) /\ l \in CallRows
      /\ l.at \in HireAts => l.job \in Jobs /\ l.job.appt \in Appts
  BY DEF HiredInv, HasJobs, Jobs, Types
<1>1. ASSUME NEW m, call' = [call EXCEPT ![k] = m], emp' = emp, hireVars' = hireVars,
             m.at \in Provisions \cup {"decide"} => m.job.appt \in Appts, Provides(m)
      PROVE  Goal
  BY <1>1, CallProvides DEF hireVars
<1>2. ASSUME emp' = emp, nid' = nid, hiredFor' = hiredFor, double' = double, Ends(k),
             \A a \in Appts :
               /\ appt[a].st # "none" =>
                    appt'[a].st # "none" /\ appt'[a].nid = appt[a].nid
               /\ \A e \in HiresOf(a) : appt[a].nid = None /\ appt[a].emp = e
                    => appt'[a].emp = e
      PROVE  Goal
  <2>1. \A e \in Employees : RowOnce(e)
    BY <1>2 DEF RowOnce, Exists
  <2>2. \A j \in Calls : call'[j].at \in Provisions \cup {"decide"} =>
          call'[j].at = call[j].at /\ call'[j].job = call[j].job
    BY <1>2, HireMoves DEF Provisions, HireAts
  <2> QED
    BY <1>2, <2>1, <2>2, NobodyHired
<1>3. ASSUME NEW a \in Appts, NEW c, NEW n, StartFile(k, a, c, n) PROVE Goal
  <2> DEFINE m == [HireCall("file", a, "pending", c) EXCEPT !.job.row.nid = n]
  <2>1. call' = [call EXCEPT ![k] = m] /\ emp' = emp /\ hireVars' = hireVars
    BY <1>3 DEF StartFile, Begins
  <2>2. m.at = "file"
    BY DEF HireCall, CallAt
  <2> HIDE DEF m
  <2>3. Provides(m)
    BY <2>2 DEF Provides, Provisions
  <2> QED
    BY <1>1, <2>1, <2>2, <2>3 DEF Provisions
<1>4. ASSUME NEW a \in Appts, NEW to, NEW c, NEW n, appt[a].st # "none",
             Begins(k, HireCall("decide", a, to, c), n), emp' = emp, hireVars' = hireVars
      PROVE  Goal
  <2> DEFINE m == HireCall("decide", a, to, c)
  <2>1. call' = [call EXCEPT ![k] = m]
    BY <1>4 DEF Begins
  <2>2. m.at = "decide" /\ m.job.appt = a
    BY DEF HireCall, CallAt
  <2> HIDE DEF m
  <2>3. Provides(m)
    BY <1>4, <2>2 DEF Provides, Provisions
  <2> QED
    BY <1>1, <1>4, <2>1, <2>2, <2>3
<1>5. ASSUME NEW a \in Appts, NEW c, StartEdit(k, a, c) PROVE Goal
  BY <1>4, <1>5 DEF StartEdit
<1>6. ASSUME NEW a \in Appts, NEW to, StartDecide(k, a, to) PROVE Goal
  BY <1>4, <1>6 DEF StartDecide, MayBecome
<1>7. ASSUME File(k) PROVE Goal
  <2> DEFINE a == l.job.appt
  <2>1. a \in Appts /\ appt[a].st = "none" /\ \A b \in Appts \ {a} : appt'[b] = appt[b]
    BY <1>0, <1>7 DEF File, HireAts, Types
  <2>2. emp' = emp /\ nid' = nid /\ hiredFor' = hiredFor /\ double' = double /\ Ends(k)
    BY <1>7 DEF File
  <2>3. HiresOf(a) = {}
    BY <2>1 DEF HiredInv, HiredRight
  <2> HIDE DEF a
  <2> QED
    BY <1>2, <2>1, <2>2, <2>3
<1>8. ASSUME Decide(k) PROVE Goal
  <2> DEFINE j == l.job
             a == j.appt
             st == IF j.to = "keep" THEN appt[a].st ELSE j.to
             c == IF j.to = "keep" THEN call[k].code ELSE appt[a].code
             row == [appt[a] EXCEPT !.st = st, !.code = c]
             J == [j EXCEPT !.row = row, !.seen = HiresOf(a)]
             m == [l EXCEPT !.at = "linked", !.code = row.code,
                            !.known = Holders(row.code), !.job = J]
  <2>1. /\ l.at = "decide" /\ appt' = [appt EXCEPT ![a] = row]
        /\ IF st # "approved" THEN Ends(k) ELSE call' = [call EXCEPT ![k] = m]
        /\ nid' = nid /\ hiredFor' = hiredFor /\ double' = double /\ emp' = emp
    BY <1>8 DEF Decide
  <2>2. j \in Jobs /\ a \in Appts
    BY <1>0, <2>1 DEF HireAts
  <2>3. appt[a] \in ApptRows
    BY <2>2 DEF Types
  <2>4. row.st = st /\ row.emp = appt[a].emp /\ row.nid = appt[a].nid
    BY <2>3 DEF ApptRows
  <2>5. m.at = "linked" /\ m.job = J
    BY <1>0 DEF CallRows
  <2>6. J.appt = a /\ J.row = row /\ J.seen = HiresOf(a)
    BY <2>2 DEF Jobs
  <2>7. appt[a].st # "none" /\ j.to \in {"pending", "approved", "closed", "keep"}
    BY <1>0, <2>1, <2>2 DEF Provides, Jobs
  <2>8. st # "none"
    BY <2>7
  <2> HIDE DEF row, J, m, st, a
  <2>9. \A b \in Appts :
          /\ appt[b].st # "none" => appt'[b].st # "none"
          /\ appt'[b].nid = appt[b].nid /\ appt'[b].emp = appt[b].emp
    BY <2>1, <2>2, <2>4, <2>8 DEF Types
  <2>10. CASE st # "approved"
    BY <1>2, <2>1, <2>9, <2>10
  <2>11. CASE st = "approved"
    <3>1. ASSUME NEW e \in HiresOf(a)
          PROVE  emp[e].st # "unused" /\ (appt[a].nid = None /\ a \notin double
                                           => appt[a].emp = e)
      BY <2>2 DEF HiredInv, HiredRight, HiresOf, Exists
    <3>2. Provides(m)
      BY <2>4, <2>5, <2>6, <2>7, <3>1 DEF Provides, Provisions
    <3> QED
      BY <2>1, <2>2, <2>5, <2>6, <2>9, <2>11, <3>2, CallProvides
  <2> QED
    BY <2>10, <2>11
<1>9. ASSUME NEW to \in {"nid", "code", "hire"}, Goes(k, to), emp' = emp,
             hireVars' = hireVars, l.at \in Provisions,
             to = "nid" => l.job.row.nid # None,
             to \in {"code", "hire"} /\ l.job.appt \notin double
               => l.job.seen \cap HiresOf(l.job.appt) = {}
      PROVE  Goal
  <2> DEFINE m == [l EXCEPT !.at = to]
  <2>1. m.at = to /\ m.job = l.job
    BY <1>0 DEF CallRows
  <2>2. call' = [call EXCEPT ![k] = m]
    BY <1>9 DEF Goes
  <2> HIDE DEF m
  <2>3. Provides(m)
    BY <1>0, <1>9, <2>1 DEF Provides, Provisions
  <2>4. m.job.appt \in Appts
    BY <1>0, <1>9, <2>1 DEF Provisions, HireAts
  <2> QED
    BY <1>1, <1>9, <2>2, <2>3, <2>4
<1>10. ASSUME CheckLink(k) PROVE Goal
  <2>1. /\ l.at = "linked" /\ emp' = emp /\ hireVars' = hireVars
        /\ \/ Ends(k)
           \/ /\ ~(l.job.row.emp # None /\ Exists(l.job.row.emp))
              /\ \/ l.job.row.nid = None /\ Goes(k, "code")
                 \/ l.job.row.nid # None /\ Goes(k, "nid")
    BY <1>10 DEF CheckLink
  <2>2. CASE Ends(k)
    BY <1>2, <2>1, <2>2 DEF hireVars
  <2>3. CASE l.job.row.nid # None /\ Goes(k, "nid")
    BY <1>9, <2>1, <2>3 DEF Provisions
  <2>4. CASE /\ ~(l.job.row.emp # None /\ Exists(l.job.row.emp))
             /\ l.job.row.nid = None /\ Goes(k, "code")
    <3>1. ASSUME l.job.appt \notin double, NEW e \in l.job.seen \cap HiresOf(l.job.appt)
          PROVE  FALSE
      <4>1. l.job.row.emp = e
        BY <1>0, <2>1, <2>4, <3>1 DEF Provides
      <4>2. Exists(e) /\ e # None
        BY CodesAssumption DEF HiresOf
      <4> QED
        BY <2>4, <4>1, <4>2
    <3> QED
      BY <1>9, <2>1, <2>4, <3>1 DEF Provisions
  <2> QED
    BY <2>1, <2>2, <2>3, <2>4
<1>11. ASSUME FindNid(k) PROVE Goal
  <2>1. l.at = "nid" /\ emp' = emp /\ hireVars' = hireVars
    BY <1>11 DEF FindNid
  <2>2. CASE Goes(k, "code")
    <3>1. "code" # "join"
      OBVIOUS
    <3>2. \A e \in Employees : ~(Exists(e) /\ nid[e] = l.job.row.nid)
      <4>1. CASE {e \in Employees : Exists(e) /\ nid[e] = l.job.row.nid} = {}
        BY <4>1
      <4>2. CASE {e \in Employees : Exists(e) /\ nid[e] = l.job.row.nid} # {}
        <5>1. PICK e \in Employees :
                call' = [call EXCEPT ![k] = [call[k] EXCEPT !.at = "join", !.on = e]]
          BY <1>11, <4>2 DEF FindNid, Types
        <5>2. call'[k].at = "join"
          BY <5>1 DEF Types, CallRows
        <5>3. call'[k].at = "code"
          BY <2>2, HireMoves
        <5> QED
          BY <5>2, <5>3
      <4> QED
        BY <4>1, <4>2
    <3>3. l.job.seen \cap HiresOf(l.job.appt) = {}
      <4>1. l.job.row.nid = appt[l.job.appt].nid /\ l.job.appt \in Appts
        BY <1>0, <2>1 DEF Provides, Provisions, HireAts
      <4>2. \A e \in HiresOf(l.job.appt) : e \in Employees /\ Exists(e)
                                           /\ nid[e] = appt[l.job.appt].nid
        BY <4>1 DEF HiredInv, HiredRight, HiresOf
      <4> QED
        BY <3>2, <4>1, <4>2
    <3> QED
      BY <1>9, <2>1, <2>2, <3>3 DEF Provisions
  <2>3. CASE ~Goes(k, "code")
    <3>1. PICK e \in Employees :
            call' = [call EXCEPT ![k] = [call[k] EXCEPT !.at = "join", !.on = e]]
      BY <1>11, <2>3, NidStep
    <3> DEFINE m == [l EXCEPT !.at = "join", !.on = e]
    <3>2. m.at = "join" /\ m.job = l.job
      BY <1>0 DEF CallRows
    <3>3. call' = [call EXCEPT ![k] = m]
      BY <3>1
    <3> HIDE DEF m
    <3>4. Provides(m) /\ m.job.appt \in Appts
      BY <1>0, <2>1, <3>2 DEF Provides, Provisions, HireAts
    <3> QED
      BY <1>1, <2>1, <3>3, <3>4
  <2> QED
    BY <2>2, <2>3
<1>12. ASSUME Join(k) PROVE Goal
  <2> DEFINE a == l.job.appt
  <2>1. l.at = "join" /\ emp' = emp /\ nid' = nid /\ hiredFor' = hiredFor
        /\ double' = double /\ Ends(k)
    BY <1>12 DEF Join
  <2>2. appt' = appt \/ appt' = [appt EXCEPT ![a] = [appt[a] EXCEPT !.emp = l.on]]
    BY <1>12 DEF Join
  <2>3. a \in Appts /\ appt[a].nid # None
    BY <1>0, <2>1 DEF Provides, Provisions, HireAts
  <2>4. appt[a] \in ApptRows
    BY <2>3 DEF Types
  <2> HIDE DEF a
  <2>5. \A b \in Appts : appt'[b].st = appt[b].st /\ appt'[b].nid = appt[b].nid
                         /\ (b # a => appt'[b].emp = appt[b].emp)
    BY <2>2, <2>3, <2>4 DEF Types, ApptRows
  <2> QED
    BY <1>2, <2>1, <2>3, <2>5
<1>13. ASSUME CheckCode(k) PROVE Goal
  <2>1. l.at = "code" /\ emp' = emp /\ hireVars' = hireVars /\ Goes(k, "hire")
    BY <1>13 DEF CheckCode
  <2> QED
    BY <1>0, <1>9, <2>1 DEF Provides, Provisions
<1>14. ASSUME NEW e \in Employees, Hire(k, e) PROVE Goal
  BY <1>14, SomebodyHired
<1> HIDE DEF Goal
<1>15. Goal
  BY <1>3, <1>5, <1>6, <1>7, <1>8, <1>10, <1>11, <1>12, <1>13, <1>14 DEF Hires
<1> QED
  BY <1>15 DEF Goal

-----------------------------------------------------------------------------
(* The inductive invariant. *)
HiringInv ==
  Types /\ HasJobs /\ CodeInv /\ ExclInv /\ ApprovedInv /\ OwnerInv /\ HiredInv

LEMMA InitHiring == Init => HiringInv
<1> SUFFICES ASSUME Init PROVE HiringInv
  OBVIOUS
<1>1. /\ emp = [e \in Employees |-> Unused] /\ bio = [b \in Bids |-> None] /\ excl = {}
      /\ call = [k \in Calls |-> Idle] /\ clash = {} /\ twice = {} /\ removed = {}
      /\ appt = [a \in Appts |-> NoAppt] /\ nid = [e \in Employees |-> None]
      /\ hiredFor = [e \in Employees |-> None] /\ stale = {} /\ double = {}
  BY DEF Init, CodesInit
<1>2. Unused \in EmpRows /\ Unused.st = "unused"
  BY DEF Unused, Row, EmpRows, MaybeCode, MaybeBid
<1>3. NoAppt \in ApptRows /\ NoAppt.st = "none" /\ NoAppt.emp = None
  BY DEF NoAppt, ApptRows, MaybeCode, MaybeEmp
<1>4. Idle \in CallRows /\ Idle.at = "idle" /\ Idle.known = {} /\ Idle.gone = {}
  BY IdleRecord DEF Idle
<1> HIDE DEF Unused, NoAppt, Idle
<1>5. \A e \in Employees : ~Exists(e)
  BY <1>1, <1>2 DEF Exists
<1>6. \A k \in Calls : call[k] = Idle
  BY <1>1
<1>7. Types
  BY <1>1, <1>2, <1>3, <1>4 DEF Types, MaybeCode
<1>8. HasJobs
  BY <1>4, <1>6 DEF HasJobs, HireAts
<1>9. CodeInv
  BY <1>1, <1>2, <1>4, <1>5, <1>6 DEF CodeInv, Stamped, CodeHeldOnce, KnowsHolders, Checked
<1>10. ExclInv
  BY <1>1, <1>4, <1>6 DEF ExclInv, StaysOut
<1>11. ApprovedInv
  BY <1>1, <1>3, <1>4, <1>6 DEF ApprovedInv, Decided, Provisions, HiredIsApproved
<1>12. OwnerInv
  BY <1>4, <1>5, <1>6 DEF OwnerInv, Found, Refreshes, OneOwner
<1>13. HiredInv
  BY <1>1, <1>4, <1>5, <1>6 DEF HiredInv, HiredOnce, HiresOf, Provides, Provisions
<1> QED
  BY <1>7, <1>8, <1>9, <1>10, <1>11, <1>12, <1>13 DEF HiringInv

LEMMA NextHiring ==
  ASSUME HiringInv, [Next]_vars
  PROVE  HiringInv'
<1> USE DEF HiringInv
<1>1. Types' /\ HasJobs'
  BY NextTypes
<1>2. CASE CodesNext /\ Unlinks
  BY <1>1, <1>2, CodesCodes, CodesExcl, CodesApproved, CodesOwner, CodesHired
<1>3. ASSUME NEW k \in Calls, Hires(k) PROVE HiringInv'
  BY <1>1, <1>3, HiresCodes, HiresExcl, HiresApproved, HiresOwner, HiresHired
<1>4. CASE UNCHANGED vars
  <2>1. /\ emp' = emp /\ excl' = excl /\ call' = call /\ clash' = clash /\ twice' = twice
        /\ removed' = removed /\ appt' = appt /\ nid' = nid /\ hiredFor' = hiredFor
        /\ stale' = stale /\ double' = double
    BY <1>4 DEF vars, codeVars, hireVars
  <2>2. CodeInv'
    BY <2>1 DEF CodeInv, Stamped, KnowsHolders, Checked, CodeHeldOnce, Exists
  <2>3. ExclInv'
    BY <2>1 DEF ExclInv, StaysOut
  <2>4. ApprovedInv'
    BY <2>1 DEF ApprovedInv, Decided, Approved, HiredIsApproved
  <2>5. OwnerInv'
    BY <2>1 DEF OwnerInv, Found, OneOwner, Exists
  <2>6. HiredInv'
    BY <2>1 DEF HiredInv, HiredOnce, HiredRight, Provides, HiresOf, Exists
  <2> QED
    BY <1>1, <2>2, <2>3, <2>4, <2>5, <2>6
<1> QED
  BY <1>2, <1>3, <1>4 DEF Next

(* Every reachable state of the codes and the hiring satisfies the         *)
(* inductive invariant.                                                    *)
THEOREM HiringInvariant == HiringSpec => []HiringInv
BY InitHiring, NextHiring, PTL DEF HiringSpec

(* Two employees share a code only when the later of the two was written   *)
(* by a call that could not see the first, or by the pull                  *)
(* (employeeCode.service.ts, the imports, the hiring).                     *)
THEOREM CodesHeldOnce == HiringSpec => []CodeHeldOnce
<1>1. HiringInv => CodeHeldOnce
  BY DEF HiringInv, CodeInv
<1> QED
  BY <1>1, HiringInvariant, PTL

(* A BioTime person has two employees only when one of them took it while  *)
(* the other's call was under way (biotime/sync.service.ts).               *)
THEOREM PersonsHaveOneOwner == HiringSpec => []OneOwner
<1>1. HiringInv => OneOwner
  BY DEF HiringInv, OwnerInv
<1> QED
  BY <1>1, HiringInvariant, PTL

(* A pull never brings back a person whose employee was deleted for good   *)
(* before it began, unless a later deletion overwrote the exclusion        *)
(* (biotimePullExclusion.service.ts).                                      *)
THEOREM DeletedPersonsStayOut == HiringSpec => []DeletedStaysOut
<1>1. HiringInv => DeletedStaysOut
  BY DEF HiringInv, ExclInv, StaysOut, DeletedStaysOut
<1> QED
  BY <1>1, HiringInvariant, PTL

(* An appointment has two living employees only when two provisions of it  *)
(* overlapped (hiringAppointmentProvision.service.ts).                     *)
THEOREM AppointmentsHireOnce == HiringSpec => []HiredOnce
<1>1. HiringInv => HiredOnce
  BY DEF HiringInv, HiredInv
<1> QED
  BY <1>1, HiringInvariant, PTL

(* An appointment with an employee is approved, or a decision on it was    *)
(* taken on an older status (hiringAppointment.service.ts).                *)
THEOREM HiredAreApproved == HiringSpec => []HiredIsApproved
<1>1. HiringInv => HiredIsApproved
  BY DEF HiringInv, ApprovedInv
<1> QED
  BY <1>1, HiringInvariant, PTL
=============================================================================
