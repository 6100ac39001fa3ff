# Verification of the Hudoori multi-tenant HR backend

TLA+ models of the backend in `src/` (TypeScript, Express, Prisma, PostgreSQL),
checked with TLC on small instances, with theorems proved by TLAPS. The code is
the reference: every definition is translated from the lines `PROJECT.json`
names for it.

1. [The system](#1-the-system)
2. [Modules and what they stand for](#2-modules-and-what-they-stand-for)
3. [Properties](#3-properties)
4. [Runs, bounds, fairness](#4-runs-bounds-fairness)
5. [Divergences](#5-divergences)
6. [What is proved](#6-what-is-proved)
7. [Not modelled](#7-not-modelled)
8. [Plan](#8-plan)

## 1. The system

One Node process serves many companies from one PostgreSQL database. Nearly every
write is a Prisma call that commits by itself; `$transaction` is rare. So what one
handler reads may be stale when it writes, and a failure between two statements
rolls nothing back. Background jobs run in the same process on timers. Two remote
systems, Odoo (accounting) and BioTime (punch clocks), are called over HTTP.

| Component | State | Operations | What makes it correct | Module |
|---|---|---|---|---|
| Payroll ledger (`payroll*.service.ts`) | sheets (draft, calculated, confirmed), one line per employee and sheet, exclusion list | create, calculate, rebuild from a punch report, link, back to draft, confirm, move/delete/edit lines, Excel import | a line charges what its sheet reserved; a confirmed sheet keeps what it charged; who was taken off stays off | `PayrollLedger`, `PayrollRace` |
| Advances (`advances.service.ts`) | short advances (state, sheet, line, deducted), long advances (state, total, instalment, locked), payments | grant, confirm, cancel, stop, lock, edit, adjust, link, revert | reserved at most once, deducted once, never more collected than owed | `PayrollLedger`, `PayrollRace` |
| Deductions (`payrollDeductions.service.ts`) | deductions (state, sheet, line) | create, cancel, delete, link, revert, resynchronise | a deduction that names a sheet is linked to it | `PayrollLedger` |
| Advance requests (`advanceRequest`, `advanceEligibility`) | request state, the advance granted | file, approve (branch, HR), reject, cancel | one grant per request, no claim missed by the limit check | `AdvanceRequest` |
| Loan sheets, Odoo (`manualAdvanceBatch`, `advanceLoanImport`, `odoo/`) | batches, uploaded sheets, their lines, ids of Odoo records | attach, lock, send, reopen, approve, drop | an advance is paid out once | `LoanSheets` |
| Seat quota (`licenseQuota`, the trigger of migration `20261020120000`), company tree | active employees, caps, advisory lock | create, restore, archive, delete, set caps | no more active employees than the cap allows | `SeatQuota` |
| Shift grid and self-service requests (`shiftGrid*`, `requests`, `fieldMissionRequest`) | weekly and monthly grids, their days, leave, shift change and mission requests | merge, append, edit, clear, approve, cancel | what was approved stands in the grid that counts | `ShiftGrids` |
| Attendance (`punchReportLine`, `shiftTime`, `attendance`, `overtime`) | punches, cells, stored attendance and overtime rows | generate, analyse, approve | a punch counts for one day, and a stored row says what the punches say | `PunchDays` |
| BioTime synchronisation (`biotime/`) | cursor, coverage, jobs, punches, mappings, exclusions | pull, push | no punch is lost; a person is one employee; the deleted stay out | `BioTimeSync`, `EmployeeCodes` |
| Employee codes (`employeeCode`, routes `employees-4` to `-6`) | employees, their codes, archived or not | create, update, import, archive, restore, delete | a code has one employee | `EmployeeCodes` |
| Hiring (`hiringAppointment*`) | appointments, their status and employee | file, decide, edit, provision | an appointment becomes one employee | `Hiring` |
| Sales requests, tenants, accounts, reports and the rest | | | | section 7 |

The interactions that matter here:

* Calculating, linking and confirming a sheet all write the rows of the advances and
  deductions; moving, deleting and importing lines change the foreign keys those rows
  hold, sometimes through the schema (`onDelete: SetNull`) and without any code.
* An HR approval grants an advance, which a later payroll reserves and confirms; a
  manual batch carries the same advance to Odoo.
* Archiving an employee (`employeeArchive.service.ts`) frees a seat, and makes the
  next payroll settle the whole balance of a long advance. The stamp it leaves
  outlives the restoration, and four other places read it.
* A leave, a mission and a merge write the same days of the same grids, and the punch
  report reads them to decide which day a punch belongs to.
* The form, the sheets, the pull and the hiring give codes to employees, each after a
  check of its own; deleting an employee leaves the exclusion the pull reads.

The hard behaviours are long sequences of legal calls (the five handlers that rewrite
line totals each use another selection of rows), copies that go stale, failures
between autocommitted statements, handlers that meet between a read and a write, and
lost answers of the remote systems. `PROJECT.json` lists them under `hazards`, each at
the line where it bites, with the property that covers it or why none does.

## 2. Modules and what they stand for

| Module | Stands for |
|---|---|
| `PayrollLedger` | sheets, lines, advances, deductions; one action per request handler |
| `LoanBook` | abstract: an amount is owed, what final sheets collected only grows and never exceeds it |
| `PayrollRace` | the handlers of the ledger that overlap most, cut at their Prisma calls |
| `AdvanceRequest` | requests for short advances and the limit check, cut at their calls |
| `LoanSheets` | manual batches, uploaded sheets and Odoo |
| `SeatQuota` | seats of employees: unlocked checks, row locks, trigger, advisory lock, commit and rollback; cap updates |
| `SeatPool` | abstract: seats are taken one at a time, below the largest quota so far |
| `ShiftGrids` | the days of one employee in weekly and monthly grids, and the requests written into them |
| `PunchDays` | from punches and cells to the stored rows of attendance and overtime |
| `BioTimeSync` | pulls of punches: lock, window, cursor, pages, coverage |
| `EmployeeCodes` | who holds a code and which BioTime person an employee is |
| `Hiring` | appointments, composed with `EmployeeCodes` (it extends it) |
| `*Proofs` | theorems, for all values of the constants (section 6) |
| `MC*` | instances for TLC |

How a module is cut is the main choice in each. `PayrollLedger` runs a handler from its
first guard to its last write: its hazards are sequences of calls, and one call is
long. The others follow a call from one Prisma call to the next: the variable `call`
(`run` in `BioTimeSync`, `pc` and `job` in `SeatQuota`) holds how far each call is
(`at`) and what it read. Between two queries anything else may happen, and a call may
end after any of them (`Fail`, `Stop`): a query fails, a guard further on refuses, or
the process stops. What it wrote stays, except in the few real transactions
(`Hire`, `Approve`, `CreateMonth`, `Append`, `Erase`), which are one step each.

*History variables.* No guard reads them, except for a bound (`MayEdit`). They record accidents, so that a
property can say which accident is the only thing that breaks it: two calls on the
rows of one employee (`mixed`), a write based on an older state (`stale`, `raced`,
`crossed`), a call that ended half way (`cut`, `half`), a lost answer (`doubt`), a
person's own edit (`byHand`, `edited`), a late upload (`late`). A property with such
an exception still excludes every other way: the mutants break each of them without
any accident.

### PayrollLedger

* *State.* `sheet` is `Payroll.state`; `excel` the sheets with `excelImportedAt`;
  `excluded` is `Payroll.excludedEmployeeIds`; `lines` and `manual` the payroll lines
  and their `isManual`; `shortTotal` and `longTotal` their advance columns; `shorts`,
  `longs`, `paid`, `deds` the rows of `AdvanceShort`, `AdvanceLong`,
  `AdvanceLongPayment`, `Deduction`; `departed` who is archived or has a departure
  date. `byHand` and `moved` are history: figures a person typed or imported, and
  lines that came from another sheet; so is `given` of a long advance, the balance HR
  last gave it.
* *References.* A line is unique per sheet and employee and a row belongs to one
  employee, so `payrollLineId` is represented by the sheet its line is on now. A moved
  line takes its references along, a deleted one sets them to `None`.
* *Actions.* `Calculate`, `RebuildFromImport`, `CalculateSingle`, `LinkAdvances`,
  `LinkDeductionsAndAdvances`, `LinkDeductionsOnly`, `LinkLongOnly`, `BackToDraft`,
  `ConfirmPayroll`, `DeleteLine`, `MoveLine`, `UpdateLine`, `ImportPayroll` and the
  rest are whole handlers, with the revert, the deletion and re-creation of lines, the
  linking and the totals that belong to each. The inputs HR chooses (who has punches,
  what a file holds, which deductions its columns touch) are nondeterministic.
  `CalculateFails` is the failure between deleting the lines and creating them again.
* *Amounts* are integers in cents. `Instalment` is `round2(total / count)` with halves
  rounded up; `Tolerance` is the `0.01` the code treats as settled. Salary, overtime
  and attendance figures are left out: no property reads them. Date comparisons are
  the relations `ShortDue`, `LongDue`, `DedDue`, which say what is due on which sheet.
* *Details that are easy to miss.* Linking takes advances first and deductions
  second, and the second throws on a sheet without lines, so such a sheet keeps its
  state. `confirmPayroll` has no guard on the state. `linkLongAdvancesOnly` looks
  neither at the state (apart from cancelled) nor at the start month. An Excel import
  without any employee code still counts as an import.

### PayrollRace

* *State.* `confirmed`, `on` (lines), `off` (exclusion list), `short`, `long`, `pays`
  (the payment rows of an advance: sheet and number on it), `total` (what the columns of a line
  count: the set of short advances, the number of instalments).
* *Actions.* One per Prisma call of `calculatePayroll`, `linkAdvancesToPayroll`,
  `calculateSingleEmployee` (`Start`, `Revert`, `FreeShorts`, `Zero`, `FreePays`,
  `Rerun`, `DropLines`, `MakeLines`, `ReadLines`, `ReadShorts`, `TakeShorts`,
  `ReadLongs`, `FindPay`, `Pay`, `Mark`, `WriteLine`, `Done`), of deleting a line and
  putting an employee back (`DropLine`, `ReadOff`, `WriteOff`, `AddLine`), of
  confirming (`ReadOwed`, `Deduct`, `SetConfirmed`) and of cancelling a short advance.
* *Abstractions.* Amounts become sets and counts; a long advance is paid up by
  `Instalments` payments. Deductions have the statements of short advances and are
  left out. A sheet is confirmed or not: nothing here reads the difference between a
  draft and a calculated sheet.

### AdvanceRequest

* *State.* `req` and `adv` are the rows; an advance records the request it was granted
  for (the code stores the link on the request only: that is what `Record` writes).
* *Actions.* `StartFile`, `StartHrApprove` and `StartGrant` begin a limit check
  (`ReadFirst`, `ReadSecond`, in the order of `Queries`), then `File`, `Grant` or
  `Refuse`; `Record` is the update of an approved request after its grant. Branch
  approval, rejection and cancellation are `Load` and `WriteState`. `Settle` is what
  payroll does to an advance. `over` is HR's override, `Enforce` the company's setting.
* *Abstractions.* The entitlement is a constant per employee (`Entitled`); who may act
  on which branch is left out.

### LoanSheets

* *State.* `adv`, `sheet` (state and `odooAccountsSendId`), `row` (lines), `remote`
  (the records in Odoo, external, with what they pay and whether the entry is posted).
* *Actions.* `Grant`, `FindOrphans`, `Attach`, `FindBatch`, `NewBatch`, `AddLine` build
  a batch; `FindOpen`, `LockBatch`, `StartSend`, `LoadSheet`, `Export`, `CreateRecord`,
  `PostEntry`, `Persist`, `Reopen` send it; `CancelAdvance`, `FindLine`,
  `StrikeAdvance`, `DropLine` take an advance off; `NewSheet`, `AddRow`, `DropSheet`,
  `Approve` are uploaded sheets; `Apply` is a payroll that takes an advance.
  `CreateRecord` may succeed and its answer be lost, in which case the batch is reopened
  and sent again.

### SeatQuota

* *State.* `status` of each employee row, `cap` (`Company.maxEmployees`), `lock` (who
  holds `pg_advisory_xact_lock` of a company), and for each request how far it is
  (`pc`), its row (`job`), whether it inserts or restores (`fresh`) and the cap its
  trigger read (`seen`). `plan` holds cap updates that were checked and not written.
  `ceiling` is history: the largest cap so far, which is what a seat count can be
  held to, since lowering a cap does not look at the seats in use.
* *Actions.* `CheckOwn` and `CheckGroup` are the checks without a lock; `Begin` takes
  the row lock, `ReadCap`, `Lock` and `Count` are the trigger up to its count,
  `Commit` and `Abort` end the transaction and release the locks. `Archive`,
  `Delete` and `CreateArchived` write rows for which the trigger returns at once.
  `PlanCap` and `WriteCap` are the two halves of `updateCompany`.
* *Isolation.* READ COMMITTED: a count sees what is committed before it, and what a
  request writes is visible to others only after its commit. PostgreSQL's locks are
  external to the code and modelled from how the trigger uses them.
* *Abstractions.* Each unlocked check is one step although it reads cap and count in
  two statements. One request seats one row (`createMany` fires the same trigger per
  row). The trigger on user seats has the same shape and is not instantiated.

### ShiftGrids

* *State.* Every row concerned belongs to one employee, so the module follows one:
  `span` (the days of each grid), `line` (what a day is, and the mission that marked
  it), `into` and `from` (`mergedIntoGridId`, `mergedFromGridIds`), `state` of requests.
* *Actions.* `StartApprove`, `ReadCell`, `WriteCell`, `Approve` fulfil a leave or a
  change of shift day by day; `AutoMission`, `StartMark`, `MarkDay`, `StartCancel`,
  `Clear`, `Drop` are missions; `StartMerge`, `StartAppend`, `CreateMonth`, `Append` merge
  weeks; `EditCell`, `ClearGrid`, `DeleteGrid` are a person at the grid. `GridFor` is
  `findGridForEmployeeDay`: of the grids that cover a day, the one that ends last.
* *Bounds that are assumptions.* No day of the employee is in two weekly grids, and weeks
  are not months. The code does not forbid it: of a day that two merged grids have, a
  merge keeps the row of the later or of the earlier one, or refuses
  (`resolveChosenLines`, `shiftGridMerge.service.ts:146`). That choice is left out.
* An append with a period first deletes every row of its month, whatever days the month
  had when the call read it; `Append` therefore counts as moved the days it takes from
  the month as well as those it brings.

### PunchDays

* *State.* `roster` (the grid cell of each day), `punches`, `att` and `ot` (the stored
  rows). Assignments are constants, the cells and punches change.
* *Operators.* `Info` is the shift of a day (cell before assignment, kinds of
  assignment in order of precedence, leave and presence marks); `CountsBack` is
  `resolveOvernightMorningAttribution`: early check-ins, the morning gate, the window of
  the shift before, the nearer of two expected times; `Paired` is
  `resolveDayPunches`; `LineOf` a line of the punch report, `Status`, `Stored` and
  `Overtime` what is stored of it. Times are minutes of the day.
* *Actions.* `Generate` (attendance over a period, with the options to pass over
  existing rows and to store absences), `Analyse` (overtime), `Decide` (approve or
  reject), `SetCell`, `Arrive`. `fresh` is history: whether the row of a day was written
  by a report in which the day was the last one, and whether cells or punches of the
  days around it changed since.

### BioTimeSync

* *State.* `held` and `log` (what terminals keep and what BioTime lists, external),
  `stored`, `cursor` (`lastTransactionSync`), `coverage` (covered periods younger than
  `Fresh`), `stuck` (job rows a stopped server left running), `run` (pulls).
* *Actions.* `AskIncremental` goes through `CheckLock`, `CreateRow` and `TakeTurn`;
  `AskPeriod` and `AskReport` take no lock. `Begin` chooses the window, `Fetch` and
  `FetchFails` are a page each, `Cover` and `MoveCursor` the end of a pull, `CoverAll`
  the end of a pull in slices. `Tick` and `Upload` are the world; `Stop` ends the server.

### EmployeeCodes and Hiring

* *State.* `emp` are the rows of `EmployeeProfile` with their `EmployeeMapping`: `st`
  (active, archived, deleted), `stamped` (`archivedAt` is set; a restoration keeps it),
  `code`, `ident` (`identificationId`), `bar` (`barcode`), `bid` and `mcode` (BioTime's
  id and code). `bio` is the code of each person in BioTime, `excl` the rows of
  `BioTimePullExclusion`. `appt` are the appointments, `nid` the national ids.
* *Actions.* `StartForm`, `FindArchived`, `EraseNext`, then `WriteNew` or `WriteCode`: the
  form and the update of an employee, with the deletion of archived holders once HR
  confirmed. `StartSheet` and `StartShiftSheet` are the imports with their own checks.
  `StartPush`, `StartPatch`, `Persist` push; `StartPull`, `Find`, `CheckExcluded`,
  `PullNew`, `Refresh` pull one person. `StartFile`, `File`, `StartDecide`, `StartEdit`,
  `Decide` are an appointment; `CheckLink`, `FindNid`, `Join`, `CheckCode`, `Hire` its
  provisioning, which every update of an approved appointment runs again on the row it
  got back. `Unlinks` is `onDelete: SetNull`, part of every step of the codes.
* *Details that are easy to miss.* Each check compares a code with other columns
  (`ByCode`, `ByPull`, `ByAll`). A PATCH to BioTime never carries the code, and the
  mapping then claims that BioTime has it. An exclusion that names the person or the
  code is overwritten by the next one.

## 3. Properties

| Property | Says |
|---|---|
| `ReservedIffOnSheet` | a short advance is `applied` exactly while it names a sheet, and a line it names exists |
| `DeductedOnFinalSheet` | what is written off sits on a confirmed sheet, through a line of that sheet |
| `DeductionsConsistent` | a deduction that names a sheet is linked, and a line it names exists |
| `BalanceKept` | the payments of an advance never exceed its total, a cancelled one has none, and none stays running with nothing left to collect, unless HR itself left it no more than a cent |
| `LinesAgree` | a line charges exactly what its sheet reserved on it, unless a person wrote the figure or the line was moved |
| `ConfirmedRowsFrozen` | a confirmed sheet keeps its state, its lines and every row it charged, and takes no new one |
| `ExcludedStayOff` | recalculation never brings back an employee HR took off |
| `ImplementsLoanBook` | what confirmed sheets collected never shrinks and never exceeds what is owed |
| `CountedIsHeld` | what a line counts is reserved by its sheet alone, unless two calls were on the employee's rows or one ended half way |
| `PaidOnce` (`PayrollRace`) | no advance is paid twice on a sheet or beyond its total, unless two calls were on the employee's rows; ending early never does it |
| `DoneIsPaid` | an advance that is done is paid in full, but for a call that is just taking the payments back, or ended there |
| `ConfirmedKept` | only a call that was under way when a sheet was confirmed changes it afterwards |
| `RemovedStayAway` | who was deleted from a sheet stays away, unless two calls handled its exclusion list at once |
| `ApprovedNamesItsGrant` | an approved request names an advance granted for it and for its employee |
| `NoGrantBeforeBranch` | a request that waits for its branch has no advance |
| `GrantedOnce` | a second grant needs an overwritten state, or an approval that ended (or stands) between grant and record |
| `NothingMissed` | a claim that stood while a limit check counted is among what it counted |
| `PaidOnce` (`LoanSheets`) | Odoo pays an advance twice only after a lost answer or a late write |
| `CancelledLeavesBatch` | a cancelled advance is not in an open batch, but for the call about to drop it |
| `NothingLeftBehind` | when a batch is about to be locked, no orphan found for it is without a line |
| `ApprovedOnce` | an approved sheet's lines keep their advances: a second approval grants nothing |
| `SeatsWithinCap` | a company never has more active employees than the largest cap it was given |
| `ImplementsSeatPool` | seen through its seats, `SeatQuota` is `SeatPool` |
| `EveryRequestEnds` | no request waits for ever for a row or for the lock |
| `MissionMarked`, `NoMarkLeft` | an approved mission marks its days in the grid that counts, a closed one marks none |
| `RequestOnGrid` | an approved leave or shift change stands in the grid that counts |
| `WeekMergedOnce` | a week is in one month at most, and names it |
| `RowsAgree` | a stored row says what a report over all days would say, unless something near it changed or its day was the last of the period |
| `CheckInOnItsDay` | a check-in before the day shift of its day is not the exit of the day before |
| `NoStrayExit` | no morning punch sits alone on a day off after a shift |
| `CoverageHolds` | a period marked as pulled holds its punches, but for failed pages |
| `NothingLost` | what no incremental pull will look at again is stored, but for the accidents named |
| `OneSyncAtATime` | two full synchronisations at once began between each other's check and row, or outlived the age of the lock |
| `CodeHeldOnce` | two employees hold one code only if the later write came from a call that could not see the first holder, or from the pull |
| `OneOwner` | a BioTime person is one employee, unless a second call took it during the first |
| `DeletedStaysOut` | a pull that began after a deletion does not bring the person back, unless a later deletion overwrote the exclusion |
| `HiredOnce` | an appointment has two employees only if two provisions of it overlapped |
| `HiredIsApproved` | an appointment with an employee is approved, unless it was decided on an older status |

Operators with the comment "Mutant" are plausible bugs: each property is broken by
exchanging one mapped definition for one of them (`mutants` in `PROJECT.json`), so
none holds by the shape of the model alone.

## 4. Runs, bounds, fairness

| Run | Instance | Distinct states |
|---|---|---|
| `LedgerRows` | 1 employee, 2 sheets, a short advance, a deduction, typed figures | 145 000 |
| `LedgerLong` | 1 employee who may leave and return, 2 sheets, a long advance of 5 in 2 instalments (3 and 2) or of 1 | 165 000 |
| `Races` | 2 calls, 2 sheets, 1 employee with a short or a long advance | 1.3 million |
| `Requests` | 2 calls, 2 requests, 2 advances, 1 employee entitled to one | 1.5 million |
| `Sheets` | 2 calls, 2 advances, 2 manual batches, an uploaded sheet, 2 lines, 2 Odoo records | 1.2 million |
| `Sync` | 2 pulls, 4 ticks, a punch per tick, pages of one punch | 776 000 |
| `Grid` | 2 calls, 3 days in 3 weeks, 2 months, a leave of one day, a mission of two | 424 000 |
| `Seats` | 1 company, 2 employees, 2 requests, caps 1 and unlimited, under `FairSpec` | 43 000 |
| `Days` | days 1 and 2 with a day of context on each side, a night and a day shift, two of five punches | 15 000 |
| `Hiring` | 2 calls, 2 employees, 2 codes, 1 person, 1 appointment, 1 national id | 928 000 |
| `FoundTwice`, `FoundRestored` | as small as the counterexample needs (section 5) | |

Each takes from half a minute to two minutes. Deadlock is checked where the system can
always take another step. `Sync`, `Grid`, `Hiring` and `FoundRestored` say
`CHECK_DEADLOCK FALSE`: there the clock, the grids and the rows of the instance are used
up at some point, and a day has nothing left to do.

*Why two of each.* Every race in these handlers is between two of them, on two rows at
most: a sheet and the sheet a line moved to, a grant and the batch it joins, a week and
the month it went into. Two calls are enough for each to find the other in every state
between two of its queries; a third would only repeat one of them. A second employee
would add little to `Races`: the exclusion list is all that employees of a sheet share,
and two calls on one list are the accident `RemovedStayAway` names.
The theorems cover any number where they reach (section 6).

*Values.* 5 in 2 instalments gives a rounded instalment (3) and a smaller remainder (2),
the case in which the cap by the balance matters. `HandTotals` is `{0}`: a typed figure
differs from a reserved one, and zero is the figure the code treats specially when it
confirms. An advance of 1 is one whose balance counts as settled from the start
(section 5). `MaxTotal` bounds the total an adjustment may lead to, which could otherwise
grow for ever; in `LedgerLong` it is 5, so the run has every adjustment down and
those back up to it, and the theorems have the rest. `Edited` are the sheets whose lines HR moves, deletes, imports or puts
back: both in `LedgerRows`, one of two in `LedgerLong` and `Races`, since lines of the
other still come and go with every calculation. In `Days` the night shift runs from
16:00 to 01:00 and the day shift from 10:00 to 19:00; the punches lie before the morning
gate, after the late window, before the early window, and around the expected times.
`Sync` has `Overlap`, `Slice` and `Stale` of one tick and a month as long as the run, so
each window is crossed. `MaxEdits` (2 in `Hiring`) counts archivings, restorations,
renamings, enrolments and calls that begin while another is under way.

*Constraints* cut what follows an accident, so that what leads to one is explored in
full: `NoAccident` (`Races`) stops after an overlap on the same rows; `FewAccidents` of
`MCLoanSheets` after a late write, and lets a payroll take one advance, none after a
doubtful send; that of `MCBioTimeSync` stops after a second lost punch or stop, and
leaves out an accident while two pulls are at work together; that of `MCShiftGrids`
after a second accident or edit; `OneDueSpec` (`Races`) starts with either the short or
the long advance due; `Few` (`Days`) allows two punches and one edited cell, and rows of
one kind. Violations are reported in every state that is reached, so a constraint hides
only what comes after.

*Fairness* (`FairSpec` of `SeatQuota`). `WF(Proceed(t))`: the server runs every request
it has begun, and a promise that can continue does. `SF(Begin(t))` and `SF(Lock(t))`: a
row lock and the advisory lock may be free and taken again many times while a request
waits, and PostgreSQL serves the waiters of a lock in the order they queued, so one
that waits gets it in the end. Nothing is assumed of new requests, administrators,
archivings, or of failures: `Abort` is never forced and never excluded. The other modules
state no liveness: their calls may end anywhere, nothing in the code retries what ended,
and what a person never asks for again never happens.

## 5. Divergences

Two runs check a documented claim that TLC finds violated; the quoted text and the
trace are in `PROJECT.json`.

| Run | The documentation says | The code does |
|---|---|---|
| `FoundTwice` | a short advance is one-off (`README.md:89`) | a moved line keeps its charge while the advance stays with the first sheet, which charges it again |
| `FoundRestored` | archived profiles that hold a code are removed (`employeeCode.service.ts:72`) | a restored employee keeps `archivedAt` and is removed as well, while at work |

`LinesAgree` holds in spite of `FoundTwice`: a moved line is left out (its figure stems
from another sheet).

Other places where the code does less than a comment or a document says. Each was met
while modelling; the models do what the code does, so no property above rests on the
claim.

* A stopped advance is not picked up by the next payroll (`advances.service.ts:890`):
  `linkLongAdvancesOnly` (line 496) takes every advance that is not cancelled or locked.
* An adjustment rewrites the unpaid part around the confirmed payments
  (`advances.service.ts:917`): payments of unconfirmed sheets count as paid (line 950),
  and are dropped afterwards, so the remaining amount is not the one HR asked for.
* A balance of at most 0.01 counts as settled (`advances.service.ts:122`), yet creating
  an advance, editing it and adjusting its balance (line 942) accept any positive amount.
  An advance HR leaves one cent runs on, and no payroll ever collects it. `BalanceKept`
  leaves such advances out by `given`. The attempt to prove it without the exception
  failed at the adjustment; the run had shown nothing, because its only total was 5.
* Confirmed payrolls are immutable (`docs/CHANGES.md:93`): `updatePayrollLine`
  (`payrollLine.service.ts:163`) edits the lines of any sheet.
* Confirming marks reserved short advances as applied (`advances.service.ts:591`): one
  whose line is gone or shows no total stays reserved for good (line 607).
* The seats of a tree stay within the caps of its root (`companyGroupQuota.service.ts:261`)
  and the caps of siblings within the parent's (line 222): both are checked without a
  lock and written later (line 291, `company.service.ts:339`). `SeatQuota` has both
  checks as they are.
* A merged day "behaves exactly like its source" (`shiftGridMerge.service.ts:90`): the
  mission mark is not among the copied flags. `MissionMarked` leaves out copied days.
* The coverage of a long period is recorded "only after every slice succeeded"
  (`biotime/sync.service.ts:724-725`): a slice does not fail when its pages do.
  `CoverageHolds` leaves out the punches of failed pages.
* An early check-in on the day of a day shift counts for that day (`shiftTime.service.ts:224`):
  on the day after the end of a report the grid cells are not loaded
  (`punchReportLine.service.ts:952`), so such a check-in may become the exit of the last
  day. `RowsAgree` and `CheckInOnItsDay` leave out the last day of a period.
* After a permanent delete the pull must not recreate the employee (`schema.prisma:789`):
  an exclusion that shares the person or the code of a later deletion is overwritten,
  and the person it stood for comes back. `DeletedStaysOut` leaves that out.
* Of two deletions from one sheet at once one exclusion is lost
  (`payrollLine.service.ts:347`); `RemovedStayAway` leaves overlaps out.
* A pull gives an employee the code BioTime has, also when HR renamed the code here (a
  PATCH never sends it) and when another employee holds it: `CodeHeldOnce` counts the
  pull as one of its exceptions.
* A day with nothing but an exit punch is stored as absent; an absence stays stored when
  a later report finds nothing to store for the day; analysing overtime again rewrites
  the minutes of a row that was approved and leaves its decision. `RowsAgree` compares
  rows that were written, and `Decide` looks at no state, as in the code.

## 6. What is proved

Every theorem is about the specification of its module, for any sets of ids and any
values of the other constants that its assumptions allow.

**`SeatQuotaProofs`**, from `SeatAssumption` (the employees are finite, each has a home,
roots are the topmost parents, `None` is not a member of the other sets):

| Theorem | Statement |
|---|---|
| `TypeCorrect` | `Spec => []TypeOK` |
| `QuotaHolds` | `Spec => []QuotaInv` |
| `SeatsSafe` | `Spec => []SeatsWithinCap` |
| `Refines` | `Spec => ImplementsSeatPool` |

`SeatsWithinCap` is not inductive: the commit of a request adds a seat without
looking. `QuotaInv` says why it may:

* `CapsBelowCeiling`: the cap is never above the ceiling;
* `SeenBelowCeiling`: neither is the cap a trigger read earlier, even if the cap was
  lowered since, and a request that went for the lock saw a number;
* `HoldsLock`: from its count to its end a request holds the lock of its company;
* `RoomLeft`: so no one else seats anybody in that company in between, and what it
  counted is still an upper bound; archivings only make room;
* `OwnsRow`: its row is locked by it alone and is not active, so it is not among the
  seats it counted and no other request seats it meanwhile.

The case a trigger reads "no cap" and takes no lock is covered by the ceiling, which
is unlimited from then on. The proof has one lemma per kind of step (`OwnStep`,
`CommitStep`, `RowKeeps`, `CapKeeps`), combined in `QuotaStep`; `CommitSeats` and
`SeatsShrink` are the facts about cardinalities they share. `PoolStep` maps each step
to one of `SeatPool` or to a stutter: `Commit` to `Take`, `Archive` and `Delete` of an
active row to `Free`, `WriteCap` to `Raise`, the rest to stutters.

**`PayrollLedgerProofs`**, from `LedgerAssumption`:

| Theorem | Statement |
|---|---|
| `LinksTyped` | `Spec => []LinksTypeOK`, the types of states and references |
| `ShortsConsistent` | `Spec => []ReservedIffOnSheet` |
| `DeductionsFinal` | `Spec => []DeductedOnFinalSheet` |
| `DedsConsistent` | `Spec => []DeductionsConsistent` |
| `ConfirmedStays` | `Spec => ConfirmedRowsFrozen` |
| `ExclusionHolds` | `Spec => ExcludedStayOff` |
| `BalancesHold` | `Spec => []BalanceInv` |
| `LedgerBalances` | `Spec => []BalanceKept` |
| `FiguresHold` | `Spec => []AgreeInv` |
| `LinesCharge` | `Spec => []LinesAgree` |
| `LedgerImplements` | `Spec => ImplementsLoanBook` |

The proof has four parts.

*Links* (the first six theorems). The invariant `LedgerInv` is the conjunction of the first four and of `PaidShape`
(there is a payment entry for each advance and sheet). They need each other: a handler
that works on an open sheet resets only rows that are not deducted because
`DeductedOnFinalSheet` places the others on a confirmed sheet; a row it leaves alone
keeps a line that exists because `ReservedIffOnSheet` says whose line that is; and
`linkDeductionsOnly`, which may run on a confirmed sheet, rewrites a row to what it
was because `DeductionsConsistent` says the row is linked. `Good` is what a step must
establish: the invariant again, the frozen rows of confirmed sheets, and exclusions,
split into `ShortsGood`, `DedsGood`, `PaymentsGood` and `LinesGood`. Lemmas about the
shared helpers come first (`ShortsLinked`, `DedsLinked`, `PaymentsLinked` for
reverting and linking, `ShortsRepointed` and `DedsRepointed` for a line that goes,
`LinesRebuilt` for the lines of a sheet); each handler then has one lemma, and
`LedgerStep` combines them.

*Sums.* The payments of an advance and the columns of a line are sums over finite sets.
`SumFunctionOnSet` is a choice among the functions that satisfy a recursive equation over
the subsets of a set, so nothing is known of it before such a function exists
(`AdderExists`). What holds of all sums is then proved without induction: if it failed
for some subset, it would fail for one all of whose smaller subsets satisfy it
(`SmallestSet`, from the well-foundedness of strict inclusion), and taking one element
out of that contradicts it. So follow that a sum is a natural number, that equal terms
give equal sums and larger ones larger sums, what a sum over part of a set is, and what
one changed term does to it (`SumSame`, `SumLeq`, `SumOver`, `SumOfChanged`).

*Balances.* `BalanceInv`: the amounts are amounts, the payments stay within the total,
nothing is paid of a draft or a cancelled advance, and one that runs has a balance above
the tolerance or was given none. It rests on the cap of an instalment by the balance
when a sheet links, and on reverting before linking again.

*Figures.* `LinesAgree` compares the columns of a line with what its sheet reserved.
`AgreeInv` adds that a row points at a line of its own sheet or at a moved one
(`PointsWell`), and that there is no total without a line (`NoLineNoTotal`). `PointsWell`
is needed because taking an advance off a line sums by the line, and everything else
by the sheet; the two agree only while no row of another sheet points there. Each handler
has one lemma (`ApplyAgrees`, `LongOnlyAgrees`, `MoveAgrees`, `DetachAgrees`, ...).

*Refinement.* What confirmed sheets collected grows only by confirming (`SettledGrows`,
from the frozen rows), and is otherwise unchanged (`SettledStays`); `BookStep` maps each
step to `Collect`, `Rewrite` or a stutter of `LoanBook`.

**`AdvanceRequestProofs`**, from `RequestAssumption`:

| Theorem | Statement |
|---|---|
| `RequestTypes` | `Spec => []TypeOK` |
| `ApprovalIsNamed` | `Spec => []ApprovedNamesItsGrant` |
| `BranchFirst` | `Spec => []NoGrantBeforeBranch` |
| `OneGrant` | `Spec => []GrantedOnce` |
| `CountsEveryClaim` | `Spec => []NothingMissed` |

`RequestInv` says of every call what it still knows of its request (`CallRow`), of every
advance that it is under way, recorded or excused (`GrantAccounted`), and that a request
with an advance left the branch (`GrantRow`; nothing ever goes back there). `GrantedOnce`
follows from `GrantAccounted`: of two grants that are neither excused nor under way both
are the one the request names. For `NothingMissed`, `HeldRow` says what holds between
the two queries: a claim that stood from the start is among the requests read, or it is
no longer pending, and then its advance will be found by the second query.


**`HiringProofs`**, from `CodesAssumption` and `HiringAssumption`:

| Theorem | Statement |
|---|---|
| `HiringInvariant` | `HiringSpec => []HiringInv` |
| `CodesHeldOnce` | `HiringSpec => []CodeHeldOnce` |
| `PersonsHaveOneOwner` | `HiringSpec => []OneOwner` |
| `DeletedPersonsStayOut` | `HiringSpec => []DeletedStaysOut` |
| `AppointmentsHireOnce` | `HiringSpec => []HiredOnce` |
| `HiredAreApproved` | `HiringSpec => []HiredIsApproved` |

`HiringInv` has a part for each of the five, which says what a call may still rely on
between its look and its write:

* `CodeInv`: the employees a call saw holding its code hold it still or are gone
  (`KnowsHolders`); at "archived" those in its way bear the stamp of the archive, at
  "erase" they are among the rows it will delete, at "write" and "hire" none is left
  (`Checked`). `Stamped`, that who is in the archive bears the stamp, makes the two
  looks of the form complete;
* `ExclInv`: who was deleted for good has an exclusion until one is overwritten, and a
  pull past the check keeps away from those gone when it began;
* `OwnerInv`: a pull that found an employee found all owners of its person, and of two
  of them one had been taken unseen;
* `ApprovedInv`: a provision works for an approved appointment, and a decision under way
  read a status that is open to it;
* `HiredInv`: an appointment without a national id is linked to whom it hired, one with
  a national id hired someone who has it (`HiredRight`), so that a provision past its
  checks saw nobody hired (`Provides`).

`RowStep`, `CallStep`, `GoneStep`, `FoundStep` and `RowOnce` sum up what any step does to
a row or to another's call; the lemmas per action establish them, and each part of the
invariant has one lemma that concludes from them.

**`BioTimeSyncProofs`**, from `SyncAssumption`:

| Theorem | Statement |
|---|---|
| `SyncInvariant` | `Spec => []IInv` |
| `CoverageIsTrue` | `Spec => []CoverageHolds` |
| `NoPunchIsLost` | `Spec => []NothingLost` |
| `OneFullSync` | `Spec => []OneSyncAtATime` |

`NothingLost` says nothing of pulls under way and is not inductive. `IInv` adds:

* `Pays`: what a pull owes is stored, was passed over, or lies on a page it has yet to
  read. Pages are sets of places in the log, ranked by how many places of the period lie
  before them, so that a punch that arrives during the pull comes after all others
  (`RestGrows`) and what is not on a page is left for the next one (`NextPage`);
* `Sees`: of its period a pull has stored or owes every punch older than the overlap when
  it began. A younger one may arrive while it reads, which is what the overlap is for;
* `Continues`: a pull that began at the cursor ends at the time it began, and every
  punch from before its window was accounted for then;
* `Ahead`: the cursor is ahead of the clock only over times a pull of a period that ends
  in the future made it jump. Without it a punch made later could lie behind the cursor.

`MovedOver` then splits the times a pull moves the cursor over. The proof corrected the
model twice: `saw` was set although the pull went back a month instead of to the cursor,
and a period was counted as seen one tick too far.

**`LoanSheetsProofs`**, from `SheetAssumption`:

| Theorem | Statement |
|---|---|
| `SheetsInvariant` | `Spec => []IInv` |
| `PaidOnceHolds` | `Spec => []PaidOnce` |
| `CancelledLeaves` | `Spec => []CancelledLeavesBatch` |
| `NoneLeftBehind` | `Spec => []NothingLeftBehind` |
| `ApprovedStays` | `Spec => ApprovedOnce` |

`PaidOnce` looks at two records; why there are not two goes through lines, batches and
the calls under way. `IInv` says, for what no late write touched and no send left in
doubt:

* `OneLine`, `OneHome`: an advance has one line, and every record that pays it and every
  send that is about to is of the sheet where its line lies. An advance whose line is
  gone and that is paid nevertheless is cancelled, so nobody gives it a second line;
* `KnowsLines`: a call that joins an advance to a batch is right that it has no line, and
  one that will drop a line knows the only one there is;
* `SentOnce`: a sheet is sent by one call at a time and has at most one record, which
  has its id stored here or the call that made it under way, and then nobody else is
  before the creation. This is what the repetition of a send rests on;
* `Leaves`, `Expects`: who cancelled an advance is about to drop its line, and what a
  closing call waits for has a line or is among those it will still join.

What a step does to the lines of an advance is one of three things (`Fate`): it keeps
them or drops that of a cancelled one (`Keeps`), it gives the first (`Gains`), or it is a
late write. From this, `Lasts` (what no step takes back) and what the step makes of its own
call (`Turn`, `Quiet`, `Tidy`), `Pieces` concludes the invariant for every action.

**`PayrollRaceProofs`**, from `RaceAssumption` (every advance has its employee, short and
long advances are different rows, an advance has at least one instalment):

| Theorem | Statement |
|---|---|
| `RaceInvariant` | `Spec => []IInv` |
| `CountedIsHeldAlways` | `Spec => []CountedIsHeld` |
| `PaidOnceAlways` | `Spec => []PaidOnce` |
| `DoneIsPaidAlways` | `Spec => []DoneIsPaid` |
| `RemovedStayAwayAlways` | `Spec => []RemovedStayAway` |
| `ConfirmedKeptAlways` | `Spec => ConfirmedKept` |

The properties speak of rows; a call writes them from what it read statements ago.
`IInv` says, place by place in a handler, what of that is still true:

* `KnowsOff`: unless two calls worked with the exclusion list of a sheet, who is about to
  write it has read what it holds, and who is about to make lines makes none for a person
  that was deleted;
* `InTime`: a call no confirmation has overtaken works on a sheet that is not confirmed,
  and what it is about to take, deduct or cancel is not deducted. The only state a handler
  checks is that of its first statement; the overtaken calls are what `ConfirmedKept`
  excepts;
* `SeesOwn`, `SeesFree`: the short advances a call has seen are its employee's; what it is
  about to take or cancel is counted on no line, what it has taken its sheet holds. A line
  whose rows were given back and whose totals are not reset yet is a sheet at `zero`;
* `KnowsPays`: the balance a call read before its first payment is the balance when it
  pays, and the sheet it pays on has no payment of that advance.

All but the first two hold unless the employee is in `mixed`, and `mixed` is filled from
`Holds`, what a call has read and will still act upon. So the proof has one question for each step:
what does it write, and who holds that? `QuietStep` is the answer for steps that write
no row the first three parts speak of, `CountStays`, `OffTangles` and `TimeOvertaken` for
those that do, `Away` and `Told` for the payments. `ConfirmedKept` follows from `InTime`
and from `WorkMoves`: no step leaves its call where it was. The model counts
payments as the cardinality of a set of rows, so no sums are needed here.

**`ShiftGridsProofs`**, from `GridAssumption` (days are numbers, every week and request
has a day, no day is in two weeks, weeks and months are finite and different, `None` is no
member of the other sets):

| Theorem | Statement |
|---|---|
| `GridsAreTyped` | `Spec => []Base` |
| `WeeksMergeOnce` | `Spec => []WeekMergedOnce` |
| `MissionsAreMarked` | `Spec => []MissionMarked` |
| `NoMarksLeft` | `Spec => []NoMarkLeft` |
| `RequestsOnGrid` | `Spec => []RequestOnGrid` |

A call writes a row it has read, or copied, or only knows to be its request's; meanwhile
other calls write the same row, or another grid comes to cover the day. The properties
except what the history names, and the proof shows that there is nothing else. Three
things come first:

* `GridForCovers`: a day that is covered has a latest grid. `GreatestExists` gives a
  finite, total order its greatest element without induction: among the elements none of
  which is greatest, take one with the fewest above it (the strict inclusion of finite
  sets is well-founded);
* one lemma per handler (`Reading`, `Writes`, `MarksDay`, `Clearing`, `Creating`,
  `AppendingTo`, `Editing`, `Deleting`): what becomes of its own call, of the rows, and of
  the other calls, which are `Kept` but for what they now know to be outdated;
* `RowOfDay`: a step leaves a day alone (`Undisturbed`), or a person changed it, or it is
  the day a fulfilment or a mission is at, a clearing, or a day a merge moves.

Each property then has the part of the invariant it needs, and no more:

* weeks: `WeekFree`, `WeekTaken`, `Adding` say of a merge under way that its weeks are in
  no month and with no other merge, and that the weeks it read of its month are still
  there, unless they raced;
* missions: `CellRead`, what a fulfilment has read of a mark is there still, or the row
  is gone or known to be outdated; `Marking`, what a call has marked so far stands;
  `Orderly`, `Standing` and `Cleared`, which call may be at work on an approved or a
  closed mission;
* leaves and shifts: `GridRead`, a fulfilment writes to the grid of the day; `CopyRead`,
  what a merge copies is in a week; `Writing`, what a call has written so far stands. In
  `CopiedDay` they meet: the month a merge makes may cover the day from now on, and has
  what the week has, because no other week has that day.

The proof made two of the properties stronger than they had been checked: `RequestOnGrid`
held only for requests no two calls handled at once, which it does not need, and
`MissionMarked` only for missions no call handled, where a call that marks or drops it
is enough. It also found two places where the model had left out something the code
does: the rows an append with a period deletes, and a day that leaves its month because
another append came first.

What is only model-checked: `EveryRequestEnds` (liveness is out of the prover's reach)
and the properties of `PunchDays`. These compare what reports of different periods
compute from the same punches; a proof would have to follow the rules that assign a punch
to a day through every combination of neighbouring shifts, and has not been attempted.

## 7. Not modelled

Components with status `not_modelled` in `PROJECT.json` carry the reason; the notes of
the others say what is left out of them.

* *No protocol between actors*: reports, exports and documents, notifications and mail,
  the assistant, the dashboard and the audit log, master data apart from employee codes,
  operator scripts. One row is written by one call, or nothing is.
* *Data rather than control*: the parsing, validation and layout of Excel files
  (most of `advanceLoanImport`, `shiftGridExcel`, `deductionExcel`, `employeesExcel`
  and `payrollExport`), salary and overtime pay, insurance. What an import
  writes is modelled where it meets other handlers (`ImportPayroll`, `Approve`,
  `StartSheet`, `StartShiftSheet`).
* *Sales requests*: approving one creates a company, its manager and its features in
  several statements, listed as a hazard and not modelled yet.
* *Tenant isolation*: the query extension adds a company to each query. What could go
  wrong is a query it does not reach, which a model of it would assume away.
* *Accounts, roles and sessions; mobile punches*: checks on one request at a time.
* *The pull from Odoo* (`odooPull.service.ts`) overwrites ledger rows wholesale; it is a
  migration tool an operator runs, and no part of the ledger's protocol.
* *Generate jobs and alerts*: a row per export that nothing else reads.
* In `PunchDays`: several grid lines of one day and their priorities, manual overtime,
  devices and duplicate punches, a company's minimum and rounding options, rest days
  worked. In `ShiftGrids`: confirmation and assignments, weekly grids with a day in
  common and the choice between them, merges across locations, leave balances. In
  `EmployeeCodes`: bulk restoration, BioTime's own archived status, a push that finds its
  person gone. In `Hiring`: deleting an appointment, the user account.

## 8. Plan

Done: `PayrollLedger` with `LoanBook`, `SeatQuota` with `SeatPool`, `AdvanceRequest`,
`PayrollRace`, `EmployeeCodes` with `Hiring`, `BioTimeSync` and `LoanSheets`, all with
their proofs, `ShiftGrids` with its proofs; `PunchDays`.

Next, in this order:

1. Proofs about `PunchDays` (`CheckInOnItsDay` first, then `NoStrayExit`, `RowsAgree`).
2. `SalesRequest`: the creation of a company in steps, and what a repetition finds.
3. Deductions in `PayrollRace`, and what an atomic ledger promises as its abstract
   specification.
4. The payroll journal in Odoo beside the loan sheets.
