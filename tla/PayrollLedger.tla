--------------------------- MODULE PayrollLedger ---------------------------
(***************************************************************************)
(* The payroll ledger: payroll sheets, their lines, and the three kinds of *)
(* row a sheet reserves for an employee.                                   *)
(*                                                                         *)
(*   - a short advance, taken in one piece (advances.service.ts);          *)
(*   - a long advance, taken in instalments (advances.service.ts);         *)
(*   - a deduction (payrollDeductions.service.ts).                         *)
(*                                                                         *)
(* One action is one request handler, run from its first guard to its last *)
(* write with no other request in between.                                 *)
(*                                                                         *)
(* A sheet holds at most one line per employee (the unique key of          *)
(* PayrollLine) and every row belongs to one employee, so the foreign key  *)
(* payrollLineId of a row is represented by the sheet that line is on now: *)
(* line = q says "the line of the row's employee on sheet q".  Moving a    *)
(* line carries the references along, deleting it sets them to None (the   *)
(* SetNull of the schema).                                                 *)
(***************************************************************************)
EXTENDS Integers, FiniteSets, FiniteSetsExt, Functions

CONSTANTS
  Payrolls,        \* payroll sheets that may be created
  Employees,
  Shorts,          \* ids of short advances
  Longs,           \* ids of long advances
  Deds,            \* ids of deductions
  None,            \* a null foreign key
  Owner,           \* the employee each row belongs to
  Amount,          \* the amount of each short advance, in cents
  ShortDue,        \* <<s, p>>: the date of s falls in the month of p
  LongDue,         \* <<a, p>>: p is not before the start month of a
  DedDue,          \* <<d, p>>: the date (and device) of d fall in p
  Totals,          \* bound: totals HR gives a long advance
  Counts,          \* bound: instalment counts HR gives it
  MaxTotal,        \* bound: the largest total an adjustment gives it
  HandTotals,      \* bound: figures HR types into a line by hand
  HandKinds,       \* bound: the advance totals HR types ("short", "long")
  Leavers,         \* bound: employees who may leave and return
  Edited           \* bound: sheets whose lines HR moves, deletes or imports

Rows  == Shorts \cup Longs \cup Deds
Lines == Payrolls \X Employees

ASSUME LedgerAssumption ==
  /\ None \notin Payrolls
  /\ IsFiniteSet(Payrolls) /\ IsFiniteSet(Shorts) /\ IsFiniteSet(Longs)
  /\ Owner \in [Rows -> Employees]
  /\ Amount \in [Shorts -> Nat \ {0}]
  /\ ShortDue \subseteq Shorts \X Payrolls
  /\ LongDue  \subseteq Longs \X Payrolls
  /\ DedDue   \subseteq Deds \X Payrolls
  /\ Totals \subseteq Nat \ {0}
  /\ Counts \subseteq Nat \ {0}
  /\ MaxTotal \in Nat
  /\ HandTotals \subseteq Nat
  /\ HandKinds \subseteq {"short", "long"}
  /\ Leavers \subseteq Employees
  /\ Edited \subseteq Payrolls

VARIABLES
  sheet,       \* Payroll.state, "none" before creation
  excel,       \* sheets whose excelImportedAt is set
  excluded,    \* Payroll.excludedEmployeeIds
  lines,       \* the payroll lines that exist
  manual,      \* lines with isManual
  shortTotal,  \* PayrollLine.advanceShortTotal
  longTotal,   \* PayrollLine.advanceLongTotal
  shorts,      \* the AdvanceShort rows
  longs,       \* the AdvanceLong rows; given is history: the balance HR last
               \* gave the advance
  paid,        \* the AdvanceLongPayment row of an advance on a sheet
  deds,        \* the Deduction rows
  departed,    \* employees archived or with a departure date
  byHand,      \* history: line totals last written by a person
  moved        \* history: lines that reached their sheet by a move

sheetVars == <<sheet, excel>>
lineVars  == <<excluded, lines, manual, moved>>
totalVars == <<shortTotal, longTotal, byHand>>
longVars  == <<longs, paid>>
vars == <<sheetVars, lineVars, totalVars, longVars, shorts, deds, departed>>

NoPayment == [amount |-> 0, line |-> None]

(* A residue of one cent counts as settled (the 0.01 of the code). *)
Tolerance == 1

On(p) == {e \in Employees : <<p, e>> \in lines}

-----------------------------------------------------------------------------
(* Instalment arithmetic, in cents. *)

(* round2(total / n): Math.round rounds halves up. *)
Instalment(total, n) == (2 * total + n) \div (2 * n)

PaidSum(pays) ==
  SumFunctionOnSet([p \in Payrolls |-> pays[p].amount], Payrolls)

Remaining(total, pays) == Max({total - PaidSum(pays), 0})

(* Mutant: a leaver settles the whole total. *)
DrawWhole(long, pays, settle) ==
  IF Remaining(long.total, pays) <= Tolerance THEN 0
  ELSE IF settle THEN long.total ELSE long.inst

(* longAdvanceDeductionAmount: all of it for a leaver, else one instalment. *)
Draw(long, pays, settle) ==
  LET rem == Remaining(long.total, pays) IN
  IF rem <= Tolerance THEN 0
  ELSE IF settle \/ long.inst > rem THEN rem ELSE long.inst

-----------------------------------------------------------------------------
(* revertAdvancesOnPayroll: free what sheet p holds. *)

(* Mutant: the state is not reset. *)
RevertShortsLinks(p) ==
  [s \in Shorts |->
     IF shorts[s].payroll = p /\ ~shorts[s].deducted
     THEN [shorts[s] EXCEPT !.payroll = None, !.line = None] ELSE shorts[s]]

RevertShorts(p) ==
  [s \in Shorts |->
     IF shorts[s].payroll = p /\ ~shorts[s].deducted
     THEN [state |-> "pending", payroll |-> None, line |-> None,
           deducted |-> FALSE]
     ELSE shorts[s]]

(* Mutant: the payments of the sheet are not deleted. *)
RevertPaidKept(p) == paid

RevertPaid(p) == [a \in Longs |-> [paid[a] EXCEPT ![p] = NoPayment]]

RevertLongs(p) ==
  [a \in Longs |->
     IF /\ paid[a][p] # NoPayment
        /\ longs[a].state = "done"
        /\ Remaining(longs[a].total, RevertPaid(p)[a]) > Tolerance
     THEN [longs[a] EXCEPT !.state = "running"]
     ELSE longs[a]]

(* Mutant: the state is reset, the reservation is not. *)
RevertDedsState(p) ==
  [d \in Deds |->
     IF deds[d].payroll = p THEN [deds[d] EXCEPT !.state = "draft"] ELSE deds[d]]

(* revertDeductionsOnPayroll *)
RevertDeds(p) ==
  [d \in Deds |->
     IF deds[d].payroll = p
     THEN [state |-> "draft", payroll |-> None, line |-> None]
     ELSE deds[d]]

-----------------------------------------------------------------------------
(* Linking: what the lines of sheet p, those of the employees L, take from *)
(* the rows ss, lg, pd and dd.                                             *)

Unapplied == {"pending", "confirmed"}

(* Mutant: rows another sheet holds are taken too. *)
TakesShortHeld(p, L, ss, s) ==
  /\ Owner[s] \in L
  /\ ss[s].state # "cancelled" /\ ss[s].state # "none"
  /\ ~ss[s].deducted
  /\ <<s, p>> \in ShortDue

TakesShort(p, L, ss, s) ==
  /\ Owner[s] \in L
  /\ ss[s].state \in Unapplied
  /\ ~ss[s].deducted
  /\ <<s, p>> \in ShortDue
  /\ ss[s].payroll \in {None, p}

LinkShorts(p, L, ss) ==
  [s \in Shorts |->
     IF TakesShort(p, L, ss, s)
     THEN [ss[s] EXCEPT !.state = "applied", !.payroll = p, !.line = p]
     ELSE ss[s]]

ShortSum(p, L, ss, e) ==
  SumFunctionOnSet(Amount, {s \in Shorts : Owner[s] = e /\ TakesShort(p, L, ss, s)})

(* The instalment an advance would give now. *)
DrawOf(lg, pd, a) == Draw(lg[a], pd[a], Owner[a] \in departed)

TakesLong(p, L, lg, pd, a) ==
  /\ Owner[a] \in L
  /\ lg[a].state = "running" /\ ~lg[a].locked
  /\ <<a, p>> \in LongDue
  /\ DrawOf(lg, pd, a) > 0

LinkPaid(p, taken, lg, pd) ==
  [a \in Longs |->
     IF a \in taken
     THEN [pd[a] EXCEPT ![p] = [amount |-> DrawOf(lg, pd, a), line |-> p]]
     ELSE pd[a]]

(* Mutant: done is decided by one instalment.                              *)
LinkLongsByInst(taken, lg, pd) ==
  [a \in Longs |->
     IF a \in taken
     THEN [lg[a] EXCEPT !.state =
             IF Remaining(lg[a].total, pd[a]) - lg[a].inst <= Tolerance
             THEN "done" ELSE "running"]
     ELSE lg[a]]

(* An advance whose balance is used up is done. *)
LinkLongs(taken, lg, pd) ==
  [a \in Longs |->
     IF a \in taken
     THEN [lg[a] EXCEPT !.state =
             IF Remaining(lg[a].total, pd[a]) - DrawOf(lg, pd, a) <= Tolerance
             THEN "done" ELSE "running"]
     ELSE lg[a]]

(* Sum of the payments booked on the line of e on p, whatever their sheet. *)
OnLine(pd, a, p) ==
  [q \in Payrolls |-> IF pd[a][q].line = p THEN pd[a][q].amount ELSE 0]

BookedOnLine(pd, p, e) ==
  SumFunctionOnSet([a \in Longs |-> SumFunctionOnSet(OnLine(pd, a, p), Payrolls)],
                   {a \in Longs : Owner[a] = e})

(* The same, the payments of sheet p only. *)
BookedOnSheet(pd, p, e) ==
  SumFunctionOnSet([a \in Longs |-> OnLine(pd, a, p)[p]],
                   {a \in Longs : Owner[a] = e})

(* Deleting the lines that the employees D have on p nulls every reference *)
(* to them, of rows of any sheet.                                          *)
Unpoint(rows, p, D) ==
  [r \in DOMAIN rows |->
     IF Owner[r] \in D /\ rows[r].line = p
     THEN [rows[r] EXCEPT !.line = None] ELSE rows[r]]

UnpointPaid(pd, p, D) ==
  [a \in Longs |-> [q \in Payrolls |->
     IF Owner[a] \in D /\ pd[a][q].line = p
     THEN [pd[a][q] EXCEPT !.line = None] ELSE pd[a][q]]]

(* linkAdvancesToPayroll: revert, then take what is due onto the lines of  *)
(* L; D are the employees whose lines the handler deleted before.          *)
ApplyAdvances(p, L, D) ==
  LET ss == Unpoint(RevertShorts(p), p, D)
      lg == RevertLongs(p)
      pd == UnpointPaid(RevertPaid(p), p, D)
      taken == {a \in Longs : TakesLong(p, L, lg, pd, a)}
  IN /\ shorts' = LinkShorts(p, L, ss)
     /\ longs'  = LinkLongs(taken, lg, pd)
     /\ paid'   = LinkPaid(p, taken, lg, pd)
     /\ shortTotal' = [l \in Lines |->
          IF l[1] # p THEN shortTotal[l]
          ELSE IF l[2] \in L THEN ShortSum(p, L, ss, l[2]) ELSE 0]
     /\ longTotal' = [l \in Lines |->
          IF l[1] # p THEN longTotal[l]
          ELSE SumFunctionOnSet([a \in Longs |-> DrawOf(lg, pd, a)],
                                {a \in taken : Owner[a] = l[2]})]
     /\ byHand' = {h \in byHand : h[1] # p}

(* linkDeductionsToPayroll: drafts and orphans that fall due, and the rows *)
(* already linked to p, which it points at the present line.               *)
LinkDeds(p, L, dd) ==
  [d \in Deds |->
     IF /\ Owner[d] \in L
        /\ \/ dd[d].state = "linked" /\ dd[d].payroll = p
           \/ /\ <<d, p>> \in DedDue
              /\ dd[d].payroll = None
              /\ dd[d].state \in {"draft", "linked"}
     THEN [state |-> "linked", payroll |-> p, line |-> p]
     ELSE dd[d]]

-----------------------------------------------------------------------------
(* Sheets *)

(* Mutant: a confirmed sheet may be worked on. *)
OpenAlways(p) == sheet[p] # "none"

Open(p) == sheet[p] \in {"draft", "calculated"}

(* createPayroll *)
CreatePayroll(p) ==
  /\ sheet[p] = "none"
  /\ sheet' = [sheet EXCEPT ![p] = "draft"]
  /\ UNCHANGED <<excel, lineVars, totalVars, longVars, shorts, deds, departed>>

Kept(p) == {e \in On(p) : <<p, e>> \in manual}

(* Mutant: the exclusion list is not consulted. *)
SkipsManual(p, e) == e \in Kept(p)

(* shouldSkipPunchRebuild *)
SkipsRebuild(p, e) == e \in Kept(p) \/ e \in excluded[p]

(* The rebuild of calculatePayroll and of rebuildPayrollFromPunchImport:   *)
(* revert, delete the lines that are not manual, make a line for each      *)
(* employee with punches, link.  Linking deductions throws on a sheet      *)
(* without lines, so such a sheet keeps its state.                         *)
Rebuild(p, punched) ==
  LET deleted == On(p) \ Kept(p)
      L       == Kept(p) \cup {e \in punched : ~SkipsRebuild(p, e)}
  IN /\ lines' = {l \in lines : l[1] # p} \cup ({p} \X L)
     /\ moved' = moved \ ({p} \X deleted)
     /\ ApplyAdvances(p, L, deleted)
     /\ deds' = LinkDeds(p, L, Unpoint(RevertDeds(p), p, deleted))
     /\ sheet' = IF L = {} THEN sheet ELSE [sheet EXCEPT ![p] = "calculated"]
     /\ UNCHANGED <<excluded, manual, departed>>

(* linkDeductionsAndAdvances on the lines as they are. *)
LinkAll(p) ==
  /\ ApplyAdvances(p, On(p), {})
  /\ deds' = LinkDeds(p, On(p), deds)
  /\ UNCHANGED <<lineVars, departed>>

(* calculatePayroll: after a payroll Excel import it only links. *)
Calculate(p, punched) ==
  /\ Open(p)
  /\ \/ /\ p \in excel
        /\ LinkAll(p)
        /\ sheet' = IF On(p) = {} THEN sheet
                    ELSE [sheet EXCEPT ![p] = "calculated"]
     \/ p \notin excel /\ punched # {} /\ Rebuild(p, punched)
  /\ UNCHANGED excel

(* reimportPunchReportForPayroll and createPayrollFromPunchImport; only    *)
(* the first clears excelImportedAt, and only when it succeeds.            *)
RebuildFromImport(p, punched, clears) ==
  /\ Open(p)
  /\ punched # {}
  /\ Rebuild(p, punched)
  /\ excel' = IF clears /\ On(p)' # {} THEN excel \ {p} ELSE excel

(* The process stops, or a query fails, between the deletion of the lines  *)
(* and the first new one: nothing rolls back.                              *)
CalculateFails(p) ==
  LET deleted == On(p) \ Kept(p) IN
  /\ Open(p)
  /\ lines' = lines \ ({p} \X deleted)
  /\ moved' = moved \ ({p} \X deleted)
  /\ shorts' = Unpoint(RevertShorts(p), p, deleted)
  /\ longs' = RevertLongs(p)
  /\ paid' = UnpointPaid(RevertPaid(p), p, deleted)
  /\ deds' = Unpoint(RevertDeds(p), p, deleted)
  /\ shortTotal' = [l \in Lines |-> IF l[1] = p THEN 0 ELSE shortTotal[l]]
  /\ longTotal' = [l \in Lines |-> IF l[1] = p THEN 0 ELSE longTotal[l]]
  /\ byHand' = {h \in byHand : h[1] # p}
  /\ UNCHANGED <<sheetVars, excluded, manual, departed>>

(* calculateSingleEmployee: the exclusion is cleared before the punches    *)
(* are looked at; without punches the call fails there.                    *)
CalculateSingle(p, e, punched) ==
  /\ Open(p)
  /\ <<p, e>> \notin lines
  /\ excluded' = [excluded EXCEPT ![p] = @ \ {e}]
  /\ IF punched
     THEN /\ lines' = lines \cup {<<p, e>>}
          /\ ApplyAdvances(p, On(p) \cup {e}, {})
          /\ deds' = LinkDeds(p, On(p) \cup {e}, deds)
          /\ sheet' = [sheet EXCEPT ![p] = "calculated"]
     ELSE UNCHANGED <<lines, totalVars, longVars, shorts, deds, sheet>>
  /\ UNCHANGED <<excel, manual, moved, departed>>

(* linkAdvancesToPayroll, alone (link-advances, recalculateAdvancesOnly)   *)
(* or as the end of recalculateBasicSalary.                                *)
LinkAdvances(p) ==
  /\ Open(p)
  /\ ApplyAdvances(p, On(p), {})
  /\ UNCHANGED <<sheetVars, lineVars, deds, departed>>

(* linkDeductionsAndAdvances as a request of its own. *)
LinkDeductionsAndAdvances(p) ==
  /\ Open(p)
  /\ LinkAll(p)
  /\ UNCHANGED sheetVars

(* linkDeductionsOnly; link-deductions-confirmed allows a confirmed sheet. *)
LinkDeductionsOnly(p) ==
  /\ sheet[p] # "none"
  /\ On(p) # {}
  /\ deds' = LinkDeds(p, On(p), deds)
  /\ UNCHANGED <<sheetVars, lineVars, totalVars, longVars, shorts, departed>>

(* linkLongAdvancesOnly: every advance with a balance that is not          *)
(* cancelled or locked and has no payment on p yet.  Neither the state nor *)
(* the start month is looked at.                                           *)
TakesLongOnly(p, a) ==
  /\ Owner[a] \in On(p)
  /\ longs[a].state \notin {"none", "cancelled"} /\ ~longs[a].locked
  /\ paid[a][p] = NoPayment
  /\ DrawOf(longs, paid, a) > 0

LinkLongOnly(p) ==
  LET taken == {a \in Longs : TakesLongOnly(p, a)} IN
  /\ Open(p)
  /\ paid' = LinkPaid(p, taken, longs, paid)
  /\ longs' = LinkLongs(taken, longs, paid)
  /\ longTotal' = [l \in Lines |->
       IF l[1] = p THEN BookedOnSheet(paid', p, l[2]) ELSE longTotal[l]]
  /\ byHand' = byHand \ {<<p, e, "long">> : e \in Employees}
  /\ UNCHANGED <<sheetVars, lineVars, shortTotal, shorts, deds, departed>>

(* backToDraft: only the state changes, every link stays. *)
BackToDraft(p) ==
  /\ sheet[p] = "calculated"
  /\ sheet' = [sheet EXCEPT ![p] = "draft"]
  /\ UNCHANGED <<excel, lineVars, totalVars, longVars, shorts, deds, departed>>

(* Mutant: whatever line the advance is on. *)
SettlesAnyLine(p, s) ==
  shorts[s].payroll = p /\ ~shorts[s].deducted

(* confirmPayroll and finalizePayroll: no guard on the state.  A short     *)
(* advance of the sheet is deducted if its line is on the sheet and shows  *)
(* a short total.                                                          *)
Settles(p, s) ==
  /\ shorts[s].payroll = p /\ ~shorts[s].deducted
  /\ shorts[s].line = p /\ shortTotal[<<p, Owner[s]>>] > 0

ConfirmPayroll(p) ==
  /\ sheet[p] # "none"
  /\ shorts' = [s \in Shorts |->
       IF Settles(p, s)
       THEN [shorts[s] EXCEPT !.deducted = TRUE, !.state = "applied"]
       ELSE shorts[s]]
  /\ sheet' = [sheet EXCEPT ![p] = "confirmed"]
  /\ UNCHANGED <<excel, lineVars, totalVars, longVars, deds, departed>>

-----------------------------------------------------------------------------
(* Lines *)

(* movePayrollLine, action delete *)
DeleteLine(p, e) ==
  /\ <<p, e>> \in lines /\ sheet[p] # "confirmed"
  /\ lines' = lines \ {<<p, e>>}
  /\ manual' = manual \ {<<p, e>>}
  /\ moved' = moved \ {<<p, e>>}
  /\ byHand' = {h \in byHand : <<h[1], h[2]>> # <<p, e>>}
  /\ shortTotal' = [shortTotal EXCEPT ![<<p, e>>] = 0]
  /\ longTotal' = [longTotal EXCEPT ![<<p, e>>] = 0]
  /\ shorts' = Unpoint(shorts, p, {e})
  /\ deds' = Unpoint(deds, p, {e})
  /\ paid' = UnpointPaid(paid, p, {e})
  /\ excluded' = [excluded EXCEPT ![p] = @ \cup {e}]
  /\ UNCHANGED <<sheetVars, longs, departed>>

(* movePayrollLine, action move: the line keeps its figures, the rows keep *)
(* the sheet they were reserved for.                                       *)
Follow(rows, p, q, e) ==
  [r \in DOMAIN rows |->
     IF Owner[r] = e /\ rows[r].line = p
     THEN [rows[r] EXCEPT !.line = q] ELSE rows[r]]

MoveKey(S, l, m) == IF l \in S THEN (S \ {l}) \cup {m} ELSE S

MoveLine(p, q, e) ==
  LET l == <<p, e>>
      m == <<q, e>>
  IN /\ l \in lines /\ m \notin lines
     /\ Open(p) /\ Open(q)
     /\ lines' = MoveKey(lines, l, m)
     /\ manual' = MoveKey(manual, l, m)
     /\ moved' = (moved \ {l}) \cup {m}
     /\ byHand' = {h \in byHand : <<h[1], h[2]>> # l}
                  \cup {<<q, e, k>> : k \in {x \in {"short", "long"} :
                                               <<p, e, x>> \in byHand}}
     /\ shortTotal' = [shortTotal EXCEPT ![l] = 0, ![m] = shortTotal[l]]
     /\ longTotal' = [longTotal EXCEPT ![l] = 0, ![m] = longTotal[l]]
     /\ shorts' = Follow(shorts, p, q, e)
     /\ deds' = Follow(deds, p, q, e)
     /\ paid' = [a \in Longs |-> [x \in Payrolls |->
           IF Owner[a] = e /\ paid[a][x].line = p
           THEN [paid[a][x] EXCEPT !.line = q] ELSE paid[a][x]]]
     /\ UNCHANGED <<sheetVars, excluded, longs, departed>>

(* updatePayrollLine: HR types an advance total, on any sheet. *)
UpdateLine(p, e, kind, n) ==
  /\ <<p, e>> \in lines
  /\ IF kind = "short"
     THEN shortTotal' = [shortTotal EXCEPT ![<<p, e>>] = n] /\ UNCHANGED longTotal
     ELSE longTotal' = [longTotal EXCEPT ![<<p, e>>] = n] /\ UNCHANGED shortTotal
  /\ byHand' = byHand \cup {<<p, e, kind>>}
  /\ UNCHANGED <<sheetVars, lineVars, longVars, shorts, deds, departed>>

(* importPayrollXlsx with the rows of the employees F: lines are added for *)
(* those without one, lines of the others deleted.  fig gives the figures  *)
(* of the file (None: an empty cell), M the lines it marks manual besides  *)
(* those it must, touched the deductions its columns link or unlink.       *)
Figure(cell, old) == IF cell = None THEN old ELSE cell

SyncDeds(p, F, dd, touched) ==
  [d \in Deds |->
     IF d \notin touched \/ Owner[d] \notin F THEN dd[d]
     ELSE IF dd[d].state = "linked" /\ dd[d].payroll = p /\ dd[d].line = p
     THEN [state |-> "draft", payroll |-> None, line |-> None]
     ELSE IF dd[d].state = "draft" /\ dd[d].payroll = None /\ <<d, p>> \in DedDue
     THEN [state |-> "linked", payroll |-> p, line |-> p]
     ELSE dd[d]]

ImportPayroll(p, F, fig, M, touched) ==
  LET dropped == On(p) \ F
      short(e) == Figure(fig[e].short, shortTotal[<<p, e>>])
      long(e)  == Figure(fig[e].long, longTotal[<<p, e>>])
      changed == {e \in F : \/ short(e) # shortTotal[<<p, e>>]
                            \/ long(e) # longTotal[<<p, e>>]}
  IN /\ Open(p)
     /\ lines' = {l \in lines : l[1] # p} \cup ({p} \X F)
     /\ manual' = (manual \ ({p} \X dropped))
                  \cup ({p} \X (M \cup changed \cup (F \ On(p))))
     /\ moved' = moved \ ({p} \X dropped)
     /\ shortTotal' = [l \in Lines |-> IF l[1] # p THEN shortTotal[l]
                         ELSE IF l[2] \in F THEN short(l[2]) ELSE 0]
     /\ longTotal' = [l \in Lines |-> IF l[1] # p THEN longTotal[l]
                        ELSE IF l[2] \in F THEN long(l[2]) ELSE 0]
     /\ byHand' = {h \in byHand : h[1] # p \/ h[2] \in F} \cup
           {<<p, e, "short">> : e \in {f \in F : fig[f].short # None}} \cup
           {<<p, e, "long">> : e \in {f \in F : fig[f].long # None}}
     /\ shorts' = [s \in Shorts |->
           IF Owner[s] \in dropped /\ shorts[s].line = p
           THEN [shorts[s] EXCEPT !.state = "pending", !.payroll = None,
                                  !.line = None]
           ELSE shorts[s]]
     /\ paid' = [a \in Longs |-> [q \in Payrolls |->
           IF Owner[a] \in dropped /\ paid[a][q].line = p
           THEN NoPayment ELSE paid[a][q]]]
     /\ deds' = SyncDeds(p, F,
           [d \in Deds |-> IF Owner[d] \in dropped /\ deds[d].line = p
                           THEN [deds[d] EXCEPT !.payroll = None, !.line = None]
                           ELSE deds[d]], touched)
     /\ excluded' = [excluded EXCEPT ![p] = (@ \cup dropped) \ F]
     /\ excel' = excel \cup {p}
     /\ UNCHANGED <<sheet, longs, departed>>

(* A file without one employee code deletes nothing, but it counts as an   *)
(* import and the deductions are still compared with the columns.          *)
ImportBlank(p, touched) ==
  /\ Open(p)
  /\ deds' = SyncDeds(p, On(p), deds, touched)
  /\ excel' = excel \cup {p}
  /\ UNCHANGED <<sheet, lineVars, totalVars, longVars, shorts, departed>>

-----------------------------------------------------------------------------
(* Short advances and deductions outside the sheets *)

(* createShortAdvance, once the eligibility check has passed *)
CreateShort(s) ==
  /\ shorts[s].state = "none"
  /\ shorts' = [shorts EXCEPT ![s].state = "pending"]
  /\ UNCHANGED <<sheetVars, lineVars, totalVars, longVars, deds, departed>>

CancelShort(s) ==
  /\ shorts[s].state \in Unapplied
  /\ ~shorts[s].deducted /\ shorts[s].payroll = None
  /\ shorts' = [shorts EXCEPT ![s].state = "cancelled"]
  /\ UNCHANGED <<sheetVars, lineVars, totalVars, longVars, deds, departed>>

(* /deductions/create, /deductions/cancel and /deductions/delete-bulk *)
CreateDed(d) ==
  /\ deds[d].state = "none"
  /\ deds' = [deds EXCEPT ![d].state = "draft"]
  /\ UNCHANGED <<sheetVars, lineVars, totalVars, longVars, shorts, departed>>

CancelDed(d) ==
  /\ deds[d].state \in {"draft", "cancelled"}
  /\ deds' = [deds EXCEPT ![d].state = "cancelled"]
  /\ UNCHANGED <<sheetVars, lineVars, totalVars, longVars, shorts, departed>>

DeleteDed(d) ==
  /\ deds[d].state = "draft"
  /\ deds' = [deds EXCEPT ![d] = [state |-> "none", payroll |-> None,
                                  line |-> None]]
  /\ UNCHANGED <<sheetVars, lineVars, totalVars, longVars, shorts, departed>>

-----------------------------------------------------------------------------
(* Long advances *)

SetLong(a, long) ==
  /\ longs' = [longs EXCEPT ![a] = long]
  /\ UNCHANGED <<sheetVars, lineVars, totalVars, paid, shorts, deds, departed>>

CreateLong(a, total, n) ==
  /\ longs[a].state = "none"
  /\ SetLong(a, [state |-> "draft", total |-> total,
                 inst |-> Instalment(total, n), locked |-> FALSE,
                 given |-> total])

ConfirmLong(a) ==
  /\ longs[a].state = "draft"
  /\ SetLong(a, [longs[a] EXCEPT !.state = "running"])

(* cancelLongAdvance: any state, as long as no instalment is booked. *)
CancelLong(a) ==
  /\ longs[a].state # "none"
  /\ \A p \in Payrolls : paid[a][p] = NoPayment
  /\ SetLong(a, [longs[a] EXCEPT !.state = "cancelled"])

StopLong(a) ==
  /\ longs[a].state = "running" /\ ~longs[a].locked
  /\ Remaining(longs[a].total, paid[a]) > Tolerance
  /\ SetLong(a, [longs[a] EXCEPT !.state = "stopped"])

(* lockLongAdvanceAccounting *)
LockLong(a) ==
  /\ longs[a].state # "none"
  /\ SetLong(a, [longs[a] EXCEPT !.locked = TRUE])

Unconfirmed(a) == {p \in Payrolls : paid[a][p] # NoPayment
                                    /\ sheet[p] # "confirmed"}

(* detachLongAdvanceFromUnconfirmedPayrolls: drop the payments that are    *)
(* not on a confirmed sheet, and rewrite the long total of every line of   *)
(* the sheets they were on from the payments booked on that line.          *)
Detach(a) ==
  /\ paid' = [paid EXCEPT ![a] = [p \in Payrolls |->
                IF p \in Unconfirmed(a) THEN NoPayment ELSE paid[a][p]]]
  /\ longTotal' = [l \in Lines |->
       IF l \in lines /\ l[1] \in Unconfirmed(a)
       THEN BookedOnLine(paid', l[1], l[2]) ELSE longTotal[l]]
  /\ byHand' = {h \in byHand : ~(h[1] \in Unconfirmed(a) /\ h[3] = "long")}
  /\ UNCHANGED <<sheetVars, lineVars, shortTotal, shorts, deds, departed>>

(* updateLongAdvance: closed once an instalment sits on a confirmed sheet. *)
UpdateLong(a, total, n) ==
  /\ longs[a].state \in {"draft", "running"} /\ ~longs[a].locked
  /\ \A p \in Payrolls : paid[a][p] # NoPayment => p \in Unconfirmed(a)
  /\ Detach(a)
  /\ longs' = [longs EXCEPT ![a].total = total, ![a].inst = Instalment(total, n),
                            ![a].given = total]

(* adjustLongAdvanceRemaining: the new total is what all payments add up   *)
(* to plus the remaining amount HR asks for; the unconfirmed payments are  *)
(* dropped only after that sum was taken.                                  *)
AdjustRemaining(a, remaining, n) ==
  /\ longs[a].state = "running" /\ ~longs[a].locked
  /\ \E p \in Payrolls : paid[a][p] # NoPayment
  /\ Remaining(longs[a].total, paid[a]) > Tolerance
  /\ PaidSum(paid[a]) + remaining <= MaxTotal
  /\ Detach(a)
  /\ longs' = [longs EXCEPT ![a].total = PaidSum(paid[a]) + remaining,
                            ![a].inst = Instalment(remaining, n),
                            ![a].given = remaining]

-----------------------------------------------------------------------------
(* An employee leaves or returns (employeeArchive.service.ts). *)
Leave(e) ==
  /\ e \notin departed
  /\ departed' = departed \cup {e}
  /\ UNCHANGED <<sheetVars, lineVars, totalVars, longVars, shorts, deds>>

Return(e) ==
  /\ e \in departed
  /\ departed' = departed \ {e}
  /\ UNCHANGED <<sheetVars, lineVars, totalVars, longVars, shorts, deds>>

-----------------------------------------------------------------------------
(* The specification.  Short advances may be rows of the system this one   *)
(* replaced, which are in state confirmed.                                 *)
Init ==
  /\ sheet = [p \in Payrolls |-> "none"]
  /\ excel = {} /\ lines = {} /\ manual = {} /\ moved = {} /\ byHand = {}
  /\ excluded = [p \in Payrolls |-> {}]
  /\ shortTotal = [l \in Lines |-> 0]
  /\ longTotal = [l \in Lines |-> 0]
  /\ shorts \in [Shorts -> [state : {"none", "confirmed"}, payroll : {None},
                            line : {None}, deducted : {FALSE}]]
  /\ longs = [a \in Longs |-> [state |-> "none", total |-> 0, inst |-> 0,
                               locked |-> FALSE, given |-> 0]]
  /\ paid = [a \in Longs |-> [p \in Payrolls |-> NoPayment]]
  /\ deds = [d \in Deds |-> [state |-> "none", payroll |-> None, line |-> None]]
  /\ departed = {}

Typed(kind) == (IF kind \in HandKinds THEN HandTotals ELSE {}) \cup {None}
Cells == [short : Typed("short"), long : Typed("long")]

SheetStep(p) ==
  \/ CreatePayroll(p)
  \/ \E punched \in SUBSET Employees : Calculate(p, punched)
  \/ \E punched \in SUBSET Employees, clears \in BOOLEAN :
       RebuildFromImport(p, punched, clears)
  \/ CalculateFails(p)
  \/ \E e \in Employees, punched \in BOOLEAN : CalculateSingle(p, e, punched)
  \/ LinkAdvances(p)
  \/ LinkDeductionsAndAdvances(p)
  \/ LinkDeductionsOnly(p)
  \/ LinkLongOnly(p)
  \/ BackToDraft(p)
  \/ ConfirmPayroll(p)

LineStep(p) ==
  \/ \E e \in Employees : DeleteLine(p, e)
  \/ \E e \in Employees, q \in Payrolls : MoveLine(p, q, e)
  \/ \E e \in Employees, kind \in HandKinds, n \in HandTotals :
       UpdateLine(p, e, kind, n)
  \/ \E F \in SUBSET Employees : \E fig \in [F -> Cells], M \in SUBSET F,
       touched \in SUBSET Deds : ImportPayroll(p, F, fig, M, touched)
  \/ \E touched \in SUBSET Deds : ImportBlank(p, touched)

RowStep ==
  \/ \E s \in Shorts : CreateShort(s) \/ CancelShort(s)
  \/ \E d \in Deds : CreateDed(d) \/ CancelDed(d) \/ DeleteDed(d)
  \/ \E a \in Longs : ConfirmLong(a) \/ CancelLong(a) \/ StopLong(a) \/ LockLong(a)
  \/ \E a \in Longs, total \in Totals, n \in Counts :
       CreateLong(a, total, n) \/ UpdateLong(a, total, n)
  \/ \E a \in Longs, remaining \in Totals, n \in Counts :
       AdjustRemaining(a, remaining, n)

EmployeeStep == \E e \in Leavers : Leave(e) \/ Return(e)

Next == \/ \E p \in Payrolls : SheetStep(p)
        \/ \E p \in Edited : LineStep(p)
        \/ RowStep
        \/ EmployeeStep

Spec == Init /\ [][Next]_vars

-----------------------------------------------------------------------------
(* Properties *)

(* Every variable without an amount has its type.                          *)
SheetStates == {"none", "draft", "calculated", "confirmed"}
Keys == Payrolls \cup {None}

LinksTypeOK ==
  /\ sheet \in [Payrolls -> SheetStates]
  /\ excel \subseteq Payrolls
  /\ excluded \in [Payrolls -> SUBSET Employees]
  /\ lines \subseteq Lines /\ manual \subseteq lines /\ moved \subseteq lines
  /\ byHand \subseteq Payrolls \X Employees \X {"short", "long"}
  /\ shorts \in [Shorts -> [state : {"none", "pending", "confirmed", "applied",
                                     "cancelled"},
                            payroll : Keys, line : Keys, deducted : BOOLEAN]]
  /\ deds \in [Deds -> [state : {"none", "draft", "linked", "cancelled"},
                        payroll : Keys, line : Keys]]
  /\ departed \subseteq Employees

(* A short advance is reserved exactly while it names a sheet, and a       *)
(* reservation is always for an existing line of the employee or for none: *)
(* no sequence of links, reverts, moves, deletions and imports leaves a    *)
(* pending row on a sheet, an applied one without a sheet, or a reference  *)
(* to a line that is gone.                                                 *)
ReservedIffOnSheet ==
  \A s \in Shorts :
    /\ shorts[s].state = "applied" <=> shorts[s].payroll # None
    /\ shorts[s].line # None => /\ shorts[s].payroll # None
                                /\ <<shorts[s].line, Owner[s]>> \in lines

(* Money is only written off against a sheet that is final: a deducted     *)
(* short advance sits on a confirmed sheet, through a line of that very    *)
(* sheet, and no later call undoes either half.                            *)
DeductedOnFinalSheet ==
  \A s \in Shorts : shorts[s].deducted =>
    /\ shorts[s].payroll # None
    /\ sheet[shorts[s].payroll] = "confirmed"
    /\ shorts[s].line = shorts[s].payroll
    /\ shorts[s].state = "applied"

(* A deduction that names a sheet is linked; one that is not linked names  *)
(* none.  (A payroll import may leave a linked one without a sheet, which  *)
(* the next link picks up.)                                                *)
DeductionsConsistent ==
  \A d \in Deds :
    /\ deds[d].payroll # None => deds[d].state = "linked"
    /\ deds[d].line # None => /\ deds[d].payroll # None
                              /\ <<deds[d].line, Owner[d]>> \in lines

(* The payments of a long advance never exceed its amount, a cancelled one *)
(* has none, and one whose balance is used up is done: none stays running  *)
(* with nothing left to collect, whatever was linked again, given back or  *)
(* rewritten, unless HR left it no more than the tolerance to begin with.  *)
BalanceKept ==
  \A a \in Longs :
    /\ PaidSum(paid[a]) <= longs[a].total
    /\ longs[a].state = "cancelled" => PaidSum(paid[a]) = 0
    /\ longs[a].state \in {"running", "stopped"}
       => Remaining(longs[a].total, paid[a]) > Tolerance \/ longs[a].given <= Tolerance

(* Unless a person wrote the figure or the line came from another sheet, a *)
(* line charges exactly the short advances and instalments its sheet       *)
(* reserved on it, whatever was re-linked, adjusted, detached or imported  *)
(* since.                                                                  *)
LinesAgree ==
  \A p \in Payrolls, e \in Employees : <<p, e>> \in lines \ moved =>
    /\ <<p, e, "short">> \notin byHand =>
         shortTotal[<<p, e>>] =
           SumFunctionOnSet(Amount,
             {s \in Shorts : /\ Owner[s] = e
                             /\ shorts[s].payroll = p /\ shorts[s].line = p})
    /\ <<p, e, "long">> \notin byHand =>
         longTotal[<<p, e>>] = BookedOnSheet(paid, p, e)

(* A confirmed sheet stays confirmed with its lines, and the advances and  *)
(* deductions it charged through them are never released, changed or       *)
(* moved; it never takes another advance either.                           *)
KeepsShorts(p) ==
  \A s \in Shorts :
    /\ (shorts[s].payroll = p /\ shorts[s].line = p) =>
         /\ shorts'[s].payroll = p /\ shorts'[s].line = p
         /\ shorts[s].deducted => shorts'[s].deducted
    /\ shorts'[s].payroll = p => shorts[s].payroll = p

KeepsLongs(p) ==
  \A a \in Longs :
    /\ paid[a][p].line = p => paid'[a][p] = paid[a][p]
    /\ paid'[a][p] # NoPayment => paid[a][p] # NoPayment

KeepsDeds(p) ==
  \A d \in Deds : (deds[d].payroll = p /\ deds[d].line = p) => deds'[d] = deds[d]

Frozen(p) ==
  /\ sheet'[p] = "confirmed" /\ On(p)' = On(p)
  /\ KeepsShorts(p) /\ KeepsLongs(p) /\ KeepsDeds(p)

ConfirmedRowsFrozen ==
  [][\A p \in Payrolls : sheet[p] = "confirmed" => Frozen(p)]_vars

(* An employee HR took off a sheet comes back only by a call that lifts    *)
(* the exclusion, or by moving a line there: recalculation never re-adds.  *)
StaysOff(p, e) ==
  (e \in excluded[p] /\ e \in excluded'[p] /\ e \in On(p)' \ On(p)) =>
     \E q \in Payrolls : e \in On(q) \ On(q)'

ExcludedStayOff ==
  [][\A p \in Payrolls, e \in Employees : StaysOff(p, e)]_vars

(* What an employee's confirmed sheets charge as short advances, the       *)
(* figures of HR left aside, is never more than the advances are worth: a  *)
(* line moved to another sheet keeps its charge while the next calculation *)
(* of the first sheet charges the advance again.                           *)
ShortChargedOnce ==
  \A e \in Employees :
    SumFunctionOnSet([p \in Payrolls |-> IF <<p, e, "short">> \in byHand THEN 0
                                         ELSE shortTotal[<<p, e>>]],
                     {p \in Payrolls : sheet[p] = "confirmed"})
    <= SumFunctionOnSet(Amount, {s \in Shorts : Owner[s] = e})

(* What confirmed sheets collected of an advance, through their lines. *)
Settled(a) ==
  SumFunctionOnSet([p \in Payrolls |-> IF sheet[p] = "confirmed"
                                       THEN OnLine(paid, a, p)[p] ELSE 0], Payrolls)

Book == INSTANCE LoanBook WITH
          Loans <- Longs,
          owed <- [a \in Longs |-> longs[a].total],
          settled <- [a \in Longs |-> Settled(a)]

(* The ledger implements the loan book. *)
ImplementsLoanBook == Book!Spec

=============================================================================
