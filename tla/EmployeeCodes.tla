---------------------------- MODULE EmployeeCodes ----------------------------
(***************************************************************************)
(* Who holds an employee code, and which BioTime person an employee is     *)
(* (routes employees-4, -5 and -6, employeeCode.service.ts,                *)
(* employeeArchive.service.ts, employeeDelete.service.ts,                  *)
(* biotimePullExclusion.service.ts, the imports, employeePush.service.ts   *)
(* and syncEmployees of biotime/sync.service.ts).                          *)
(*                                                                         *)
(* The tables have no unique index on a code or on a BioTime id: every     *)
(* handler looks for holders first and writes later, and each looks at     *)
(* other columns.  A call is cut between its queries and may end at any of *)
(* them.  BioTime is external: it gives ids and refuses a code in use.     *)
(***************************************************************************)
EXTENDS Naturals

CONSTANTS
  Employees,   \* ids of EmployeeProfile rows, each used once
  Codes,
  Bids,        \* ids BioTime gives to its persons
  Calls,       \* calls that may be under way at once
  None,
  MaxEdits     \* bound: archivings, restorations, renamings, enrolments
               \* and calls that begin while another is under way

ASSUME CodesAssumption ==
  /\ None \notin Employees \cup Codes \cup Bids \cup Calls
  /\ MaxEdits \in Nat

VARIABLES
  emp,       \* the EmployeeProfile rows with their EmployeeMapping
  bio,       \* the code of each BioTime person (external)
  excl,      \* the BioTimePullExclusion rows
  call,      \* the calls under way
  edits,     \* how many of the MaxEdits are used
  clash,     \* history: employees whose code was written over another holder
             \* by a call that could not see it, or by the pull
  twice,     \* history: employees whose BioTime id another one took meanwhile
  removed,   \* history: BioTime persons whose employee was deleted for good
  mistaken   \* history: employees whom a call took for archived though they
             \* were at work since it began

codeVars == <<emp, bio, excl, call, edits, clash, twice, removed, mistaken>>

Row(st, code, ident, bar) ==
  [st |-> st, stamped |-> FALSE, code |-> code, ident |-> ident, bar |-> bar,
   bid |-> None, mcode |-> None]
Unused == Row("unused", None, None, None)
Deleted == Row("deleted", None, None, None)
NewRow(c) == Row("active", c, c, c)

Exists(e) == emp[e].st \in {"active", "archived"}
Active(e) == emp[e].st = "active"

(* What the checks compare a code with. *)
ByCode(e) == {emp[e].code, emp[e].ident}
ByPull(e) == {emp[e].code, emp[e].bar, emp[e].ident}
ByAll(e) == ByPull(e) \cup {emp[e].mcode}

Holders(c) == {e \in Employees : Exists(e) /\ emp[e].code = c}
Owners(b) == {e \in Employees : Exists(e) /\ emp[e].bid = b}

CallAt(at, how, code, on, bid) ==
  [at |-> at, how |-> how, code |-> code, on |-> on, bid |-> bid,
   rows |-> {}, known |-> IF code = None THEN {} ELSE Holders(code),
   gone |-> removed, job |-> None]
Idle == [at |-> "idle", how |-> "none", code |-> None, on |-> None,
         bid |-> None, rows |-> {}, known |-> {}, gone |-> {},
         job |-> None]

Goes(k, to) == call' = [call EXCEPT ![k].at = to]
Ends(k) == call' = [call EXCEPT ![k] = Idle]

Spend(n) == edits + n <= MaxEdits /\ edits' = edits + n

(* A call begins; renaming an employee and meeting another call count. *)
Begins(k, l, renames) ==
  /\ call[k] = Idle
  /\ call' = [call EXCEPT ![k] = l]
  /\ Spend(renames + IF \E j \in Calls : call[j] # Idle THEN 1 ELSE 0)

(* The call ends having written code c to e: who was seen holding another  *)
(* code no longer counts as seen by the calls under way.                   *)
Writes(k, e, c) ==
  call' = [j \in Calls |->
             IF j = k THEN Idle
             ELSE [call[j] EXCEPT !.known =
                     IF c = call[j].code THEN @ ELSE @ \ {e}]]

(* History of a code that is written: e clashes when others hold the code  *)
(* and none of them did when the call looked.                              *)
Clashes(e, c, known) ==
  clash' = IF /\ Holders(c) \ {e} # {}
              /\ (Holders(c) \ {e}) \cap known = {}
           THEN clash \cup {e} ELSE clash \ {e}

(* History of a BioTime id that is written: seen are the owners it had     *)
(* when the call looked.                                                   *)
Doubles(e, b, seen) ==
  twice' = IF Owners(b) \ {e} \subseteq seen THEN twice ELSE twice \cup {e}

-----------------------------------------------------------------------------
(* Deleting an employee for good: the exclusion that keeps the pull from   *)
(* bringing the person back, and the row with its mapping.                 *)

(* Mutant: the exclusion names the code alone. *)
NotesCodeOnly(e) ==
  LET c == IF emp[e].mcode # None THEN emp[e].mcode ELSE emp[e].code
  IN excl' = excl \cup {[bid |-> None, code |-> c]}

(* recordBioTimePullExclusion: a row that names the person or the code is  *)
(* overwritten, which forgets the other person it stood for.               *)
Notes(e) ==
  LET b == emp[e].bid
      c == IF emp[e].mcode # None THEN emp[e].mcode ELSE emp[e].code
      hits == {x \in excl : (b # None /\ x.bid = b) \/ x.code = c}
      note(x) == [bid |-> IF b = None THEN x.bid ELSE b, code |-> c]
  IN IF hits = {} THEN excl' = excl \cup {[bid |-> b, code |-> c]}
     ELSE \E x \in hits : excl' = (excl \ {x}) \cup {note(x)}

Forgotten == {x.bid : x \in excl} \ {x.bid : x \in excl'}

Erase(e, k) ==
  /\ Notes(e)
  /\ emp' = [emp EXCEPT ![e] = Deleted]
  /\ removed' = (removed \cup ({emp[e].bid} \ {None})) \ Forgotten
  /\ call' = [j \in Calls |->
                [call[j] EXCEPT !.rows = IF j = k THEN @ \ {e} ELSE @,
                                !.gone = @ \ Forgotten]]

DeleteEmployee(e) ==
  /\ Exists(e)
  /\ Erase(e, None)
  /\ UNCHANGED <<bio, edits, clash, twice, mistaken>>

(* archiveEmployee stamps archivedAt, and restoreEmployee keeps the stamp. *)
Archive(e) ==
  /\ Active(e)
  /\ emp' = [emp EXCEPT ![e].st = "archived", ![e].stamped = TRUE]
  /\ Spend(1)
  /\ UNCHANGED <<bio, excl, call, clash, twice, removed, mistaken>>

Restore(e) ==
  /\ emp[e].st = "archived"
  /\ emp' = [emp EXCEPT ![e].st = "active"]
  /\ Spend(1)
  /\ UNCHANGED <<bio, excl, call, clash, twice, removed, mistaken>>

-----------------------------------------------------------------------------
(* Taking a code for a new employee (x = None) or for employee x.          *)

(* The form: findActiveEmployeeCodeConflict, then                          *)
(* findArchivedEmployeeCodeConflict, then, once HR confirmed,              *)
(* deleteArchivedEmployeesHoldingCode and the write.                       *)
AtWork(c, x) == {e \in Employees \ {x} :
                   Active(e) /\ ~emp[e].stamped /\ c \in ByAll(e)}

(* Mutant: a restored employee is neither at work nor in the archive. *)
InArchiveOnly(c, x) == {e \in Employees \ {x} :
                          emp[e].st = "archived" /\ c \in ByAll(e)}

InArchive(c, x) == {e \in Employees \ {x} :
                      /\ Exists(e) /\ c \in ByAll(e)
                      /\ emp[e].st = "archived" \/ emp[e].stamped}

Renames(x) == IF x = None THEN 0 ELSE 1

(* "form" sets every column, "code" (an update of the code alone) leaves   *)
(* the identification id.                                                  *)
StartForm(k, c, x, how) ==
  /\ x # None => Exists(x) /\ emp[x].code # c
  /\ x = None => how = "form"
  /\ AtWork(c, x) = {}
  /\ Begins(k, [CallAt("archived", how, c, x, None)
                  EXCEPT !.rows = {e \in Employees : Active(e)}], Renames(x))
  /\ UNCHANGED <<emp, bio, excl, clash, twice, removed, mistaken>>

FindArchived(k) ==
  LET l == call[k]
      rows == InArchive(l.code, l.on)
  IN
  /\ l.at = "archived"
  /\ call' = [call EXCEPT ![k].at = "erase", ![k].rows = rows]
  /\ mistaken' = mistaken \cup {e \in rows \cap l.rows : Active(e)}
  /\ UNCHANGED <<emp, bio, excl, clash, twice, removed, edits>>

EraseNext(k) ==
  /\ call[k].at = "erase" /\ call[k].rows # {}
  /\ \E e \in call[k].rows :
       /\ Exists(e)
       /\ Erase(e, k)
  /\ UNCHANGED <<bio, clash, twice, mistaken, edits>>

(* The employee sheet: codeTakenByOther, or the duplicate check of a row   *)
(* that creates.                                                           *)
StartSheet(k, c, x) ==
  /\ x # None => Exists(x) /\ emp[x].code # c
  /\ ~ \E e \in Employees \ {x} : Exists(e) /\ c \in ByCode(e)
  /\ Begins(k, CallAt("write", "sheet", c, x, None), Renames(x))
  /\ UNCHANGED <<emp, bio, excl, clash, twice, removed, mistaken>>

(* The shift sheet creates an employee nobody holds the code of, with a    *)
(* mapping that has a code and no BioTime id.                              *)
StartShiftSheet(k, c) ==
  /\ ~ \E e \in Employees : Exists(e) /\ c \in ByAll(e)
  /\ Begins(k, CallAt("write", "grid", c, None, None), 0)
  /\ UNCHANGED <<emp, bio, excl, clash, twice, removed, mistaken>>

ReadyToWrite(l) == l.at = "write" \/ (l.at = "erase" /\ l.rows = {})

WriteNew(k, e) ==
  LET l == call[k] IN
  /\ ReadyToWrite(l) /\ l.on = None
  /\ emp[e].st = "unused"
  /\ emp' = [emp EXCEPT ![e] = [NewRow(l.code) EXCEPT
               !.mcode = IF l.how = "grid" THEN l.code ELSE None]]
  /\ Clashes(e, l.code, l.known)
  /\ Ends(k)
  /\ UNCHANGED <<bio, excl, twice, removed, mistaken, edits>>

WriteCode(k) ==
  LET l == call[k] IN
  /\ ReadyToWrite(l) /\ l.on # None
  /\ Exists(l.on)
  /\ emp' = [emp EXCEPT ![l.on] =
       [@ EXCEPT !.code = l.code, !.bar = l.code,
                 !.ident = IF l.how = "code" THEN emp[l.on].ident
                           ELSE l.code]]
  /\ Clashes(l.on, l.code, l.known)
  /\ Writes(k, l.on, l.code)
  /\ UNCHANGED <<bio, excl, twice, removed, mistaken, edits>>

-----------------------------------------------------------------------------
(* pushEmployeeToBioTime: without a BioTime id the person is created under *)
(* the code of the employee; with one, the PATCH never carries the code,   *)
(* and the mapping then claims that BioTime has it.                        *)
Mapped(e) == emp[e].bid # None \/ emp[e].mcode # None

StartPush(k, e, b) ==
  /\ Exists(e) /\ emp[e].bid = None
  /\ bio[b] = None /\ \A p \in Bids : bio[p] # emp[e].code
  /\ Begins(k, CallAt(IF Mapped(e) THEN "update" ELSE "insert",
                      "push", emp[e].code, e, b), 0)
  /\ bio' = [bio EXCEPT ![b] = emp[e].code]
  /\ UNCHANGED <<emp, excl, clash, twice, removed, mistaken>>

StartPatch(k, e) ==
  /\ Exists(e) /\ emp[e].bid # None /\ emp[e].code # emp[e].mcode
  /\ Begins(k, CallAt("update", "push", emp[e].code, e, emp[e].bid), 0)
  /\ UNCHANGED <<emp, bio, excl, clash, twice, removed, mistaken>>

(* persistPushSuccess: a mapping that came in between makes the insert     *)
(* fail (employeeId is unique).                                            *)
Persist(k) ==
  LET l == call[k] IN
  /\ l.at \in {"insert", "update"}
  /\ Exists(l.on)
  /\ (l.at = "update") = Mapped(l.on)
  /\ emp' = [emp EXCEPT ![l.on].bid = l.bid, ![l.on].mcode = l.code]
  /\ Doubles(l.on, l.bid, {})
  /\ Ends(k)
  /\ UNCHANGED <<bio, excl, clash, removed, mistaken, edits>>

-----------------------------------------------------------------------------
(* syncEmployees, for one row of a page: findEmployeeForBioTimeRow, the    *)
(* exclusions, and the write.                                              *)
StartPull(k, b) ==
  /\ bio[b] # None
  /\ Begins(k, CallAt("find", "pull", bio[b], None, b), 0)
  /\ UNCHANGED <<emp, bio, excl, clash, twice, removed, mistaken>>

(* Mutant: the code is looked for before the BioTime id. *)
MatchesByCode(c, b) ==
  LET coded == {e \in Employees : Exists(e) /\ c \in ByPull(e)}
  IN IF coded # {} THEN coded ELSE Owners(b)

Matches(c, b) ==
  IF Owners(b) # {} THEN Owners(b)
  ELSE {e \in Employees : Exists(e) /\ c \in ByPull(e)}

Find(k) ==
  LET l == call[k]
      found(e) == [l EXCEPT !.at = IF Mapped(e) THEN "refresh" ELSE "map",
                            !.on = e, !.rows = Owners(l.bid)]
  IN
  /\ l.at = "find"
  /\ \/ /\ Matches(l.code, l.bid) = {}
        /\ Goes(k, "exclude")
     \/ \E e \in Matches(l.code, l.bid) :
          call' = [call EXCEPT ![k] = found(e)]
  /\ UNCHANGED <<emp, bio, excl, clash, twice, removed, mistaken, edits>>

(* isBioTimePullExcluded *)
Excluded(c, b) == \E x \in excl : x.bid = b \/ x.code = c

CheckExcluded(k) ==
  LET l == call[k] IN
  /\ l.at = "exclude"
  /\ ~Excluded(l.code, l.bid)
  /\ Goes(k, "create")
  /\ UNCHANGED <<emp, bio, excl, clash, twice, removed, mistaken, edits>>

PullNew(k, e) ==
  LET l == call[k] IN
  /\ l.at = "create"
  /\ emp[e].st = "unused"
  /\ emp' = [emp EXCEPT ![e] = [Row("active", l.code, None, l.code)
                                 EXCEPT !.bid = l.bid, !.mcode = l.code]]
  /\ Clashes(e, l.code, {})
  /\ Doubles(e, l.bid, {})
  /\ Ends(k)
  /\ UNCHANGED <<bio, excl, removed, mistaken, edits>>

(* The row found takes the code BioTime has, whoever else holds it here. *)
Refresh(k) ==
  LET l == call[k] IN
  /\ l.at \in {"refresh", "map"}
  /\ Exists(l.on)
  /\ (l.at = "refresh") = Mapped(l.on)
  /\ emp' = [emp EXCEPT ![l.on] =
       [@ EXCEPT !.code = l.code, !.bid = l.bid, !.mcode = l.code]]
  /\ Clashes(l.on, l.code, {})
  /\ Doubles(l.on, l.bid, l.rows)
  /\ Writes(k, l.on, l.code)
  /\ UNCHANGED <<bio, excl, removed, mistaken, edits>>

-----------------------------------------------------------------------------
(* BioTime by itself: a person is enrolled, or gets another code. *)
Enroll(b, c) ==
  /\ bio[b] # c /\ \A p \in Bids : bio[p] # c
  /\ bio' = [bio EXCEPT ![b] = c]
  /\ Spend(1)
  /\ UNCHANGED <<emp, excl, call, clash, twice, removed, mistaken>>

(* A check refuses, a query fails or the process stops. *)
Stop(k) ==
  /\ call[k] # Idle
  /\ Ends(k)
  /\ UNCHANGED <<emp, bio, excl, clash, twice, removed, mistaken, edits>>

CodesInit ==
  /\ emp = [e \in Employees |-> Unused]
  /\ bio = [b \in Bids |-> None]
  /\ excl = {}
  /\ call = [k \in Calls |-> Idle]
  /\ edits = 0
  /\ clash = {} /\ twice = {} /\ removed = {} /\ mistaken = {}

Claims(k) ==
  \/ \E c \in Codes, x \in Employees \cup {None} :
       \/ \E how \in {"form", "code"} : StartForm(k, c, x, how)
       \/ StartSheet(k, c, x)
  \/ \E c \in Codes : StartShiftSheet(k, c)
  \/ FindArchived(k) \/ EraseNext(k)
  \/ \E e \in Employees : WriteNew(k, e)
  \/ WriteCode(k)

Exchange(k) ==
  \/ \E e \in Employees :
       StartPatch(k, e) \/ \E b \in Bids : StartPush(k, e, b)
  \/ Persist(k)
  \/ \E b \in Bids : StartPull(k, b)
  \/ Find(k) \/ CheckExcluded(k) \/ Refresh(k)
  \/ \E e \in Employees : PullNew(k, e)

CodesNext ==
  \/ \E k \in Calls : Claims(k) \/ Exchange(k) \/ Stop(k)
  \/ \E e \in Employees : DeleteEmployee(e) \/ Archive(e) \/ Restore(e)
  \/ \E b \in Bids, c \in Codes : Enroll(b, c)

Spec == CodesInit /\ [][CodesNext]_codeVars

-----------------------------------------------------------------------------
(* Two employees hold one code only when the later of them was written by  *)
(* a call that could not see the first, or by the pull: the checks of the  *)
(* form, the sheets and the hiring hold for any mix of archived, renamed   *)
(* and mapped employees.                                                   *)
CodeHeldOnce ==
  \A e, f \in Employees :
    e # f /\ Exists(e) /\ Exists(f) /\ emp[e].code = emp[f].code
      => e \in clash \/ f \in clash

(* A BioTime person belongs to one employee, unless a second call took the *)
(* person while the first was under way.                                   *)
OneOwner ==
  \A e, f \in Employees :
    e # f /\ Exists(e) /\ Exists(f) /\ emp[e].bid = emp[f].bid
      /\ emp[e].bid # None
      => e \in twice \/ f \in twice

(* A pull that began after the employee of a person was deleted for good   *)
(* never brings the person back, unless a later deletion overwrote the     *)
(* exclusion.                                                              *)
DeletedStaysOut ==
  \A k \in Calls :
    call[k].at = "create" => call[k].bid \notin call[k].gone \cap removed

(* What a comment says of deleteArchivedEmployeesHoldingCode: it removes   *)
(* archived profiles that still hold the code; so nobody it removes was at *)
(* work all the time (employeeCode.service.ts line 72).                    *)
TakesArchived == mistaken = {}

==============================================================================
