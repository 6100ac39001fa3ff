----------------------------- MODULE PayrollRace -----------------------------
(***************************************************************************)
(* Payroll handlers that overlap.  PayrollLedger runs each handler from    *)
(* its first guard to its last write; here a handler is cut at its Prisma  *)
(* calls, each of which commits by itself, so that several of them meet on *)
(* one sheet or on one employee, and a handler may end after any call      *)
(* (payroll.service.ts, advances.service.ts, payrollLine.service.ts,       *)
(* payrollDuplicate.service.ts).                                           *)
(*                                                                         *)
(* Amounts are abstracted: a line counts the short advances in its short   *)
(* total and the instalments in its long total, and a long advance is paid *)
(* up by Instalments payments of one instalment.                           *)
(***************************************************************************)
EXTENDS Integers, FiniteSets

CONSTANTS
  Payrolls,
  Employees,
  Shorts,        \* short advances
  Longs,         \* long advances
  Owner,         \* the employee of each of them
  Calls,         \* handler calls that may be under way at once
  None,
  Instalments,   \* payments that settle a long advance
  Edited         \* bound: sheets whose lines are made anew, deleted and put back

ASSUME RaceAssumption ==
  /\ Owner \in [Shorts \cup Longs -> Employees]
  /\ Shorts \cap Longs = {}
  /\ Instalments \in Nat \ {0}
  /\ None \notin Payrolls \cup Employees
  /\ Edited \subseteq Payrolls

VARIABLES
  confirmed, \* sheets whose Payroll.state is confirmed (nothing here reads
             \* whether another one is a draft or calculated)
  on,       \* the employees with a line on each sheet
  off,      \* Payroll.excludedEmployeeIds
  short,    \* the AdvanceShort rows; line: payrollLineId names a line
  long,     \* AdvanceLong.state
  pays,     \* the AdvanceLongPayment rows of each advance: a sheet and a number
  total,    \* advanceShortTotal and advanceLongTotal of each line
  call,     \* the calls under way
  tangled,  \* history: sheets whose exclusion list two calls handled at once
  mixed,    \* history: employees whose rows two calls handled at once
  cut,      \* history: employees whose rows a call left half done
  removed   \* history: lines a person deleted and nobody put back since

vars == <<confirmed, on, off, short, long, pays, total, call, mixed, tangled, cut, removed>>
rows == <<short, long, pays>>

NoTotal == [short |-> {}, long |-> 0]
Idle == [at |-> "idle", does |-> "none", sheet |-> None, emp |-> None,
         todo |-> {}, sees |-> {}, due |-> {}, left |-> [a \in Longs |-> 0],
         count |-> 0, lost |-> {}, late |-> FALSE]

Mine(e) == {a \in Longs : Owner[a] = e}
HasRows(e) == \E r \in Shorts \cup Longs : Owner[r] = e

On(a, p) == {r \in pays[a] : r[1] = p}
Paid(a) == Cardinality(pays[a])
Left(a) == IF Paid(a) < Instalments THEN Instalments - Paid(a) ELSE 0
Lefts == [a \in Longs |-> Left(a)]

Goes(c, to) == call' = [call EXCEPT ![c].at = to]
Ends(c) == call' = [call EXCEPT ![c] = Idle]

(* What a call has read of an employee's rows and will still act upon. *)
Holds(d, e) ==
  LET k == call[d] IN
  \/ k.at \in {"takeShorts", "readLongs", "findPay", "pay", "mark", "writeLine"}
     /\ k.emp = e
  \/ k.at \in {"freeShorts", "zero", "freePays", "rerun", "dropLines"}
     /\ e \in on[k.sheet] \cup {Owner[r] : r \in k.due}
  \/ k.at \in {"readOwed", "deduct"} /\ e \in on[k.sheet]
  \/ k.at = "cancel" /\ k.emp = e

(* History of a write of c to the rows of the employees E. *)
Writes(c, E) ==
  mixed' = mixed \cup {e \in E : \E d \in Calls \ {c} : Holds(d, e)}

(* History: who else works with the exclusion list of p. *)
Tangles(c, p) ==
  tangled' = IF \E d \in Calls \ {c} : call[d].sheet = p
                  /\ call[d].at \in {"dropLine", "readOff", "writeOff", "makeLines", "addLine"}
             THEN tangled \cup {p} ELSE tangled

-----------------------------------------------------------------------------
(* calculatePayroll, linkAdvancesToPayroll and calculateSingleEmployee     *)
(* begin with the check of the state.                                      *)

(* Mutant: the state of the sheet is not checked. *)
StartAny(c, p, does) ==
  /\ call[c] = Idle
  /\ call' = [call EXCEPT ![c] = [Idle EXCEPT !.at = "revert", !.does = does,
                                              !.sheet = p]]
  /\ UNCHANGED <<confirmed, on, off, rows, total, mixed, tangled, cut, removed>>

Start(c, p, does) ==
  /\ call[c] = Idle /\ p \notin confirmed
  /\ call' = [call EXCEPT ![c] = [Idle EXCEPT !.at = "revert", !.does = does,
                                              !.sheet = p]]
  /\ UNCHANGED <<confirmed, on, off, rows, total, mixed, tangled, cut, removed>>

(* revertAdvancesOnPayroll looks at the state once more and gives up       *)
(* silently on a confirmed sheet.                                          *)
AfterRevert(c) == IF call[c].does = "calc" THEN "dropLines" ELSE "readLines"

Revert(c) ==
  /\ call[c].at = "revert"
  /\ Goes(c, IF call[c].sheet \in confirmed THEN AfterRevert(c)
             ELSE "freeShorts")
  /\ UNCHANGED <<confirmed, on, off, rows, total, mixed, tangled, cut, removed>>

HeldBy(p) == {s \in Shorts : short[s].sheet = p /\ ~short[s].deducted}

FreeShorts(c) ==
  LET p == call[c].sheet IN
  /\ call[c].at = "freeShorts"
  /\ short' = [s \in Shorts |->
       IF s \in HeldBy(p)
       THEN [state |-> "pending", sheet |-> None, line |-> FALSE,
             deducted |-> FALSE]
       ELSE short[s]]
  /\ Goes(c, "zero")
  /\ Writes(c, {Owner[s] : s \in HeldBy(p)})
  /\ UNCHANGED <<confirmed, on, off, long, pays, total, tangled, cut, removed>>

Zero(c) ==
  LET p == call[c].sheet IN
  /\ call[c].at = "zero"
  /\ total' = [total EXCEPT ![p] = [e \in Employees |-> NoTotal]]
  /\ Goes(c, "freePays")
  /\ Writes(c, on[p])
  /\ UNCHANGED <<confirmed, on, off, rows, tangled, cut, removed>>

FreePays(c) ==
  LET p == call[c].sheet
      freed == {a \in Longs : On(a, p) # {}}
  IN /\ call[c].at = "freePays"
     /\ pays' = [a \in Longs |-> pays[a] \ On(a, p)]
     /\ call' = [call EXCEPT ![c].at = "rerun", ![c].due = freed]
     /\ Writes(c, {Owner[a] : a \in freed})
     /\ UNCHANGED <<confirmed, on, off, short, long, total, tangled, cut, removed>>

(* Mutant: an advance whose payment was taken back stays done. *)
RerunNone(c) ==
  /\ call[c].at = "rerun"
  /\ call' = [call EXCEPT ![c].at = AfterRevert(c), ![c].due = {}]
  /\ UNCHANGED <<confirmed, on, off, rows, total, mixed, tangled, cut, removed>>

Rerun(c) ==
  LET again == {a \in call[c].due : long[a] = "done" /\ Left(a) > 0} IN
  /\ call[c].at = "rerun"
  /\ long' = [a \in Longs |-> IF a \in again THEN "running" ELSE long[a]]
  /\ call' = [call EXCEPT ![c].at = AfterRevert(c), ![c].due = {}]
  /\ Writes(c, {Owner[a] : a \in again})
  /\ UNCHANGED <<confirmed, on, off, short, pays, total, tangled, cut, removed>>

(* The lines D of p are deleted: the rows lose their payrollLineId, and a  *)
(* call that works on such a line will find it gone.                       *)
Unpointed(p, D) ==
  [s \in Shorts |-> IF short[s].sheet = p /\ Owner[s] \in D
                    THEN [short[s] EXCEPT !.line = FALSE] ELSE short[s]]

Lost(c, p, D) ==
  [d \in Calls |->
     IF d # c /\ call[d].sheet = p /\ call[d].at \in
          {"nextLine", "takeShorts", "readLongs", "findPay", "pay", "mark",
           "writeLine", "readOwed", "dropLine"}
     THEN [call[d] EXCEPT !.lost = @ \cup D] ELSE call[d]]

(* Mutant: the exclusion list is not consulted. *)
DropLinesAll(c) ==
  LET p == call[c].sheet IN
  /\ call[c].at = "dropLines"
  /\ on' = [on EXCEPT ![p] = {}]
  /\ short' = Unpointed(p, on[p])
  /\ total' = [total EXCEPT ![p] = [e \in Employees |-> NoTotal]]
  /\ call' = [Lost(c, p, on[p]) EXCEPT ![c].at = "makeLines",
                                       ![c].todo = Employees]
  /\ Writes(c, on[p])
  /\ UNCHANGED <<confirmed, off, long, pays, tangled, cut, removed>>

(* calculatePayroll reads the exclusion list, deletes the lines and makes  *)
(* them again for the others (every employee has punches; lines typed in   *)
(* by hand are left out here).                                             *)
DropLines(c) ==
  LET p == call[c].sheet IN
  /\ call[c].at = "dropLines"
  /\ on' = [on EXCEPT ![p] = {}]
  /\ short' = Unpointed(p, on[p])
  /\ total' = [total EXCEPT ![p] = [e \in Employees |-> NoTotal]]
  /\ call' = [Lost(c, p, on[p]) EXCEPT ![c].at = "makeLines",
                                       ![c].todo = Employees \ off[p]]
  /\ Writes(c, on[p])
  /\ UNCHANGED <<confirmed, off, long, pays, tangled, cut, removed>>

(* The unique key of a line refuses a second one of the same employee.     *)
MakeLines(c) ==
  LET k == call[c] IN
  /\ k.at = "makeLines"
  /\ IF on[k.sheet] \cap k.todo # {}
     THEN Ends(c) /\ UNCHANGED <<on, tangled>>
     ELSE /\ on' = [on EXCEPT ![k.sheet] = @ \cup k.todo]
          /\ call' = [call EXCEPT ![c].at = "check", ![c].does = "calcLink",
                                  ![c].todo = {}]
          /\ Tangles(c, k.sheet)
  /\ UNCHANGED <<confirmed, off, rows, total, mixed, cut, removed>>

(* linkAdvancesToPayroll inside calculatePayroll, with its own check. *)
Check(c) ==
  /\ call[c].at = "check"
  /\ IF call[c].sheet \in confirmed THEN Ends(c) ELSE Goes(c, "revert")
  /\ UNCHANGED <<confirmed, on, off, rows, total, mixed, tangled, cut, removed>>

(* A line of an employee without rows gets the totals it has. *)
ReadLines(c) ==
  /\ call[c].at = "readLines"
  /\ call' = [call EXCEPT ![c].at = "nextLine",
                          ![c].todo = {e \in on[call[c].sheet] : HasRows(e)},
                          ![c].lost = {}]
  /\ UNCHANGED <<confirmed, on, off, rows, total, mixed, tangled, cut, removed>>

-----------------------------------------------------------------------------
(* applyAdvancesForLine, line by line. *)

(* shortAdvancesForEmployee *)
Takes(p, e) == {s \in Shorts : /\ Owner[s] = e
                               /\ short[s].state = "pending"
                               /\ ~short[s].deducted
                               /\ short[s].sheet \in {None, p}}

(* Mutant: rows another sheet holds are taken too. *)
ReadShortsHeld(c, e) ==
  LET k == call[c]
      found == {s \in Shorts : Owner[s] = e /\ ~short[s].deducted
                               /\ short[s].state # "cancelled"}
  IN /\ k.at = "nextLine" /\ e \in k.todo
     /\ call' = [call EXCEPT ![c].at = "takeShorts", ![c].emp = e,
                             ![c].todo = @ \ {e}, ![c].sees = found]
     /\ UNCHANGED <<confirmed, on, off, rows, total, mixed, tangled, cut, removed>>

ReadShorts(c, e) ==
  LET k == call[c] IN
  /\ k.at = "nextLine" /\ e \in k.todo
  /\ call' = [call EXCEPT ![c].at = "takeShorts", ![c].emp = e,
                          ![c].todo = @ \ {e}, ![c].sees = Takes(k.sheet, e)]
  /\ UNCHANGED <<confirmed, on, off, rows, total, mixed, tangled, cut, removed>>

(* The update is by id, whatever became of the rows; the foreign key       *)
(* refuses a line that is gone.                                            *)
TakeShorts(c) ==
  LET k == call[c] IN
  /\ k.at = "takeShorts"
  /\ IF k.emp \in k.lost /\ k.sees # {}
     THEN Ends(c) /\ UNCHANGED <<short, mixed>>
     ELSE /\ short' = [s \in Shorts |->
               IF s \in k.sees
               THEN [short[s] EXCEPT !.state = "applied", !.sheet = k.sheet,
                                     !.line = TRUE]
               ELSE short[s]]
          /\ Goes(c, "readLongs")
          /\ Writes(c, {Owner[s] : s \in k.sees})
  /\ UNCHANGED <<confirmed, on, off, long, pays, total, tangled, cut, removed>>

(* One findMany reads the running advances with all their payments. *)
ReadLongs(c) ==
  LET k == call[c] IN
  /\ k.at = "readLongs"
  /\ call' = [call EXCEPT ![c].at = "findPay", ![c].count = 0,
                ![c].due = {a \in Mine(k.emp) : long[a] = "running"},
                ![c].left = Lefts]
  /\ UNCHANGED <<confirmed, on, off, rows, total, mixed, tangled, cut, removed>>

(* Mutant: the balance is not consulted. *)
FindPayBlind(c, a) ==
  LET k == call[c] IN
  /\ k.at = "findPay" /\ a \in k.due
  /\ call' =
       IF On(a, k.sheet) # {}
       THEN [call EXCEPT ![c].due = @ \ {a}, ![c].count = @ + 1]
       ELSE [call EXCEPT ![c].at = "pay", ![c].sees = @ \cup {a}]
  /\ UNCHANGED <<confirmed, on, off, rows, total, mixed, tangled, cut, removed>>

FindPay(c, a) ==
  LET k == call[c] IN
  /\ k.at = "findPay" /\ a \in k.due
  /\ call' =
       IF On(a, k.sheet) # {}
       THEN [call EXCEPT ![c].due = @ \ {a}, ![c].count = @ + 1]
       ELSE IF k.left[a] = 0 THEN [call EXCEPT ![c].due = @ \ {a}]
       ELSE [call EXCEPT ![c].at = "pay", ![c].sees = @ \cup {a}]
  /\ UNCHANGED <<confirmed, on, off, rows, total, mixed, tangled, cut, removed>>

(* The advance the call has found to pay is among what it sees. *)
Paying(c) == call[c].sees \cap call[c].due

Pay(c) ==
  LET k == call[c] IN
  /\ k.at = "pay"
  /\ IF k.emp \in k.lost
     THEN Ends(c) /\ UNCHANGED <<pays, mixed>>
     ELSE /\ pays' = [a \in Longs |-> pays[a] \cup
               IF a \in Paying(c)
               THEN {<<k.sheet, Cardinality(On(a, k.sheet)) + 1>>} ELSE {}]
          /\ call' = [call EXCEPT ![c].at = "mark", ![c].count = @ + 1]
          /\ Writes(c, {k.emp})
  /\ UNCHANGED <<confirmed, on, off, short, long, total, tangled, cut, removed>>

(* Mark decides by the balance that ReadLongs read. *)
Mark(c) ==
  LET k == call[c] IN
  /\ k.at = "mark"
  /\ long' = [a \in Longs |-> IF a \in Paying(c) /\ k.left[a] = 1
                              THEN "done" ELSE long[a]]
  /\ call' = [call EXCEPT ![c].at = "findPay", ![c].due = @ \ Paying(c),
                          ![c].sees = @ \cap Shorts]
  /\ Writes(c, {k.emp})
  /\ UNCHANGED <<confirmed, on, off, short, pays, total, tangled, cut, removed>>

AllFound(c) ==
  /\ call[c].at = "findPay" /\ call[c].due = {}
  /\ Goes(c, "writeLine")
  /\ UNCHANGED <<confirmed, on, off, rows, total, mixed, tangled, cut, removed>>

(* The update of a line that is gone throws. *)
WriteLine(c) ==
  LET k == call[c] IN
  /\ k.at = "writeLine"
  /\ IF k.emp \in k.lost THEN Ends(c) /\ UNCHANGED <<total, mixed>>
     ELSE /\ total' = [total EXCEPT ![k.sheet][k.emp] =
                         [short |-> k.sees, long |-> k.count]]
          /\ call' = [call EXCEPT ![c].at = "nextLine", ![c].emp = None,
                       ![c].sees = {}, ![c].count = 0,
                       ![c].left = [a \in Longs |-> 0]]
          /\ Writes(c, {k.emp})
  /\ UNCHANGED <<confirmed, on, off, rows, tangled, cut, removed>>

(* A link ends with the lines; a calculation then writes the state of the  *)
(* sheet, whatever it is by then.  (The deductions, linked in between, are *)
(* in PayrollLedger.)                                                      *)
Done(c) ==
  LET k == call[c] IN
  /\ k.at = "nextLine" /\ k.todo = {}
  /\ confirmed' = IF k.does = "link" THEN confirmed ELSE confirmed \ {k.sheet}
  /\ Ends(c)
  /\ UNCHANGED <<on, off, rows, total, mixed, tangled, cut, removed>>

-----------------------------------------------------------------------------
(* Deleting a line and putting an employee back: the exclusion list is     *)
(* read, merged and written (movePayrollLine, calculateSingleEmployee).    *)
StartDelete(c, p, e) ==
  /\ call[c] = Idle /\ p \notin confirmed /\ e \in on[p]
  /\ call' = [call EXCEPT ![c] = [Idle EXCEPT !.at = "dropLine", !.does = "delete",
                                              !.sheet = p, !.emp = e]]
  /\ UNCHANGED <<confirmed, on, off, rows, total, mixed, tangled, cut, removed>>

DropLine(c) ==
  LET k == call[c] IN
  /\ k.at = "dropLine"
  /\ IF k.emp \in k.lost \/ k.emp \notin on[k.sheet]
     THEN Ends(c) /\ UNCHANGED <<on, short, total, mixed>>
     ELSE /\ on' = [on EXCEPT ![k.sheet] = @ \ {k.emp}]
          /\ short' = Unpointed(k.sheet, {k.emp})
          /\ total' = [total EXCEPT ![k.sheet][k.emp] = NoTotal]
          /\ call' = [Lost(c, k.sheet, {k.emp}) EXCEPT ![c].at = "readOff"]
          /\ Writes(c, {k.emp})
  /\ UNCHANGED <<confirmed, off, long, pays, tangled, cut, removed>>

StartPutBack(c, p, e) ==
  /\ call[c] = Idle /\ p \notin confirmed /\ e \notin on[p]
  /\ call' = [call EXCEPT ![c] = [Idle EXCEPT !.at = "readOff", !.does = "single",
                                              !.sheet = p, !.emp = e]]
  /\ UNCHANGED <<confirmed, on, off, rows, total, mixed, tangled, cut, removed>>

ReadOff(c) ==
  /\ call[c].at = "readOff"
  /\ call' = [call EXCEPT ![c].at = "writeOff", ![c].todo = off[call[c].sheet]]
  /\ UNCHANGED <<confirmed, on, off, rows, total, mixed, tangled, cut, removed>>

WriteOff(c) ==
  LET k == call[c] IN
  /\ k.at = "writeOff"
  /\ off' = [off EXCEPT ![k.sheet] = IF k.does = "delete" THEN k.todo \cup {k.emp}
                                     ELSE k.todo \ {k.emp}]
  /\ removed' = [removed EXCEPT ![k.sheet] = IF k.does = "delete"
                                             THEN @ \cup {k.emp} ELSE @ \ {k.emp}]
  /\ IF k.does = "delete" THEN Ends(c)
     ELSE call' = [call EXCEPT ![c].at = "addLine", ![c].todo = {}]
  /\ Tangles(c, k.sheet)
  /\ UNCHANGED <<confirmed, on, rows, total, mixed, cut>>

(* The rest of calculateSingleEmployee: it ends without a line when the    *)
(* employee has no punches, though the exclusion is gone by then.          *)
AddLine(c) ==
  LET k == call[c] IN
  /\ k.at = "addLine"
  /\ \/ Ends(c) /\ UNCHANGED <<on, tangled>>
     \/ /\ k.emp \notin on[k.sheet]
        /\ on' = [on EXCEPT ![k.sheet] = @ \cup {k.emp}]
        /\ call' = [call EXCEPT ![c].at = "check", ![c].emp = None]
        /\ Tangles(c, k.sheet)
  /\ UNCHANGED <<confirmed, off, rows, total, mixed, cut, removed>>

-----------------------------------------------------------------------------
(* confirmPayroll: confirmAdvancesOnPayroll and then the state, which it   *)
(* never looks at.                                                         *)
StartConfirm(c, p) ==
  /\ call[c] = Idle
  /\ call' = [call EXCEPT ![c] = [Idle EXCEPT !.at = "readOwed", !.does = "confirm",
                  !.sheet = p, !.todo = {e \in on[p] : total[p][e].short # {}}]]
  /\ UNCHANGED <<confirmed, on, off, rows, total, mixed, tangled, cut, removed>>

(* History: every other call under way is late from now on. *)
Overtakes(c, next) ==
  call' = [d \in Calls |-> IF d = c THEN next
                           ELSE IF call[d] = Idle THEN Idle
                           ELSE [call[d] EXCEPT !.late = TRUE]]

(* The advances reserved on the lines that count some. *)
ReadOwed(c) ==
  LET k == call[c] IN
  /\ k.at = "readOwed"
  /\ call' = [call EXCEPT ![c].at = "deduct", ![c].todo = {},
       ![c].sees = {s \in HeldBy(k.sheet) : short[s].line
                                            /\ Owner[s] \in k.todo \ k.lost}]
  /\ UNCHANGED <<confirmed, on, off, rows, total, mixed, tangled, cut, removed>>

Deduct(c) ==
  LET k == call[c] IN
  /\ k.at = "deduct"
  /\ short' = [s \in Shorts |-> IF s \in k.sees
                                 THEN [short[s] EXCEPT !.deducted = TRUE,
                                                       !.state = "applied"]
                                 ELSE short[s]]
  /\ Overtakes(c, [k EXCEPT !.at = "setConfirmed", !.sees = {}])
  /\ Writes(c, {Owner[s] : s \in k.sees})
  /\ UNCHANGED <<confirmed, on, off, long, pays, total, tangled, cut, removed>>

SetConfirmed(c) ==
  /\ call[c].at = "setConfirmed"
  /\ confirmed' = confirmed \cup {call[c].sheet}
  /\ Overtakes(c, Idle)
  /\ UNCHANGED <<on, off, rows, total, mixed, tangled, cut, removed>>

-----------------------------------------------------------------------------
(* cancelShortAdvance: the checks, then an update by id. *)
StartCancel(c, s) ==
  /\ call[c] = Idle /\ short[s].state = "pending" /\ short[s].sheet = None
  /\ call' = [call EXCEPT ![c] = [Idle EXCEPT !.at = "cancel", !.does = "cancel",
                                              !.emp = Owner[s], !.sees = {s}]]
  /\ UNCHANGED <<confirmed, on, off, rows, total, mixed, tangled, cut, removed>>

Cancel(c) ==
  LET k == call[c] IN
  /\ k.at = "cancel"
  /\ short' = [s \in Shorts |-> IF s \in k.sees
                                 THEN [short[s] EXCEPT !.state = "cancelled"]
                                 ELSE short[s]]
  /\ Ends(c)
  /\ Writes(c, {k.emp})
  /\ UNCHANGED <<confirmed, on, off, long, pays, total, tangled, cut, removed>>

(* A call ends before its next statement. *)
Fail(c) ==
  LET k == call[c] IN
  /\ k # Idle
  /\ Ends(c)
  /\ cut' = cut \cup (CASE k.at = "zero" -> on[k.sheet]
                        [] k.at = "rerun" -> {Owner[a] : a \in k.due}
                        [] OTHER -> {})
  /\ UNCHANGED <<confirmed, on, off, rows, total, mixed, tangled, removed>>

-----------------------------------------------------------------------------
Init ==
  /\ confirmed = {}
  /\ on = [p \in Payrolls |-> Employees]
  /\ off = [p \in Payrolls |-> {}]
  /\ short \in [Shorts -> [state : {"pending", "cancelled"}, sheet : {None},
                           line : {FALSE}, deducted : {FALSE}]]
  /\ long \in [Longs -> {"running", "stopped"}]
  /\ pays = [a \in Longs |-> {}]
  /\ total = [p \in Payrolls |-> [e \in Employees |-> NoTotal]]
  /\ call = [c \in Calls |-> Idle]
  /\ mixed = {} /\ tangled = {} /\ cut = {}
  /\ removed = [p \in Payrolls |-> {}]

Begin(c) ==
  \/ \E p \in Payrolls : Start(c, p, "link") \/ StartConfirm(c, p)
  \/ \E p \in Edited : Start(c, p, "calc")
  \/ \E p \in Edited, e \in Employees : StartDelete(c, p, e) \/ StartPutBack(c, p, e)
  \/ \E s \in Shorts : StartCancel(c, s)

Work(c) ==
  \/ Revert(c) \/ FreeShorts(c) \/ Zero(c) \/ FreePays(c) \/ Rerun(c)
  \/ DropLines(c) \/ MakeLines(c) \/ Check(c) \/ ReadLines(c)
  \/ \E e \in Employees : ReadShorts(c, e)
  \/ TakeShorts(c) \/ ReadLongs(c) \/ \E a \in Longs : FindPay(c, a)
  \/ Pay(c) \/ Mark(c) \/ AllFound(c) \/ WriteLine(c) \/ Done(c)
  \/ DropLine(c) \/ ReadOff(c) \/ WriteOff(c) \/ AddLine(c)
  \/ ReadOwed(c) \/ Deduct(c) \/ SetConfirmed(c)
  \/ Cancel(c) \/ Fail(c)

Next == \E c \in Calls : Begin(c) \/ Work(c)

Spec == Init /\ [][Next]_vars

-----------------------------------------------------------------------------
(* Properties.  None asks for the absence of overlaps: each says which     *)
(* accident to an employee is the only one that breaks it.                 *)

(* What a line counts is reserved by its sheet and by no other, and it is  *)
(* not cancelled, unless two calls handled the employee's rows at once or  *)
(* one ended between giving the rows back and resetting the totals         *)
(* (advances.service.ts:370 and :709).                                     *)
CountedIsHeld ==
  \A p \in Payrolls, e \in Employees : \A s \in total[p][e].short :
    \/ short[s].sheet = p /\ short[s].state = "applied"
    \/ e \in mixed \cup cut
    \/ \E c \in Calls : call[c].sheet = p /\ call[c].at = "zero"

(* A long advance is never paid twice on a sheet nor beyond its total,     *)
(* unless two calls handled the employee's rows at once; a call that ends  *)
(* early never makes it so (advances.service.ts:413).                      *)
PaidOnce ==
  \A a \in Longs :
    \/ Paid(a) <= Instalments /\ \A p \in Payrolls : Cardinality(On(a, p)) <= 1
    \/ Owner[a] \in mixed

(* A long advance that is done has been paid in full, or its payments are  *)
(* just being taken back; a stop there leaves it done and unpaid           *)
(* (advances.service.ts:346).                                              *)
DoneIsPaid ==
  \A a \in Longs : long[a] = "done" =>
    \/ Paid(a) >= Instalments
    \/ Owner[a] \in mixed \cup cut
    \/ \E c \in Calls : call[c].at = "rerun" /\ a \in call[c].due

(* A confirmed sheet keeps its state, its lines and its deducted advances: *)
(* only a call that was under way when it was confirmed can change them    *)
(* (payroll.service.ts:407).                                               *)
ConfirmedKept ==
  [][\A p \in confirmed :
       \/ /\ p \in confirmed' /\ on'[p] = on[p]
          /\ \A s \in Shorts : short[s].sheet = p /\ short[s].deducted
                             => short'[s] = short[s]
       \/ \E c \in Calls : call[c].late /\ call'[c] # call[c]]_vars

(* Who was deleted from a sheet stays away from it until somebody puts him *)
(* back, unless two calls worked with the exclusion list at once           *)
(* (payrollLine.service.ts:347).                                           *)
RemovedStayAway ==
  \A p \in Payrolls \ tangled :
    removed[p] \subseteq off[p] /\ removed[p] \cap on[p] = {}

=============================================================================
