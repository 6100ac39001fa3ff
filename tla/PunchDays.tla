------------------------------ MODULE PunchDays ------------------------------
(***************************************************************************)
(* From punches to days: which day a punch counts for, what the punch      *)
(* report says of a day, and the attendance and overtime rows that are     *)
(* stored from it (punchReportLine.service.ts, shiftTime.service.ts,       *)
(* shiftGridAssignment.service.ts, attendance.service.ts,                  *)
(* overtime.service.ts), for one employee.                                 *)
(*                                                                         *)
(* A report reads the cells and punches of its period and of a day around  *)
(* it, so a day may look different to two reports; its rows stay while     *)
(* cells are edited and punches arrive late.  Times are minutes of a day.  *)
(***************************************************************************)
EXTENDS Integers, FiniteSets, FiniteSetsExt

CONSTANTS
  LastDay,      \* bound: reports are about the days 1 .. LastDay
  Shifts,       \* [start, end, night, late, early, graceIn, graceOut, break]
  Assignments,  \* [kind, from, to, shift, week]: the active ShiftAssignment rows
  Cells,        \* bound: the contents a grid cell may get, [shift, mark]
  Punches,      \* bound: the punches that may arrive, [day, min, in]
  Hired,        \* the day of hiring
  None

Reported == 1 .. LastDay
Days == 0 .. LastDay + 1
FullDay == 1440

ASSUME DayAssumption ==
  /\ LastDay \in Nat
  /\ \A s \in Shifts :
       /\ {s.start, s.end} \subseteq 0 .. FullDay - 1
       /\ {s.late, s.early, s.graceIn, s.graceOut, s.break} \subseteq Nat
       /\ s.night = (s.end < s.start)
  /\ \A p \in Punches : p.day \in 1 .. LastDay + 1 /\ p.min \in 0 .. FullDay - 1
  /\ None \notin Shifts \cup Cells

VARIABLES
  roster,    \* the grid cell of each day
  punches,   \* the transactions of the employee
  att,       \* the Attendance row of each day
  ot,        \* the OvertimeAnalysis row of each day
  fresh      \* history: how a report wrote the row of a day that still stands

vars == <<roster, punches, att, ot, fresh>>

Marks == {"none", "bus", "present", "marriage", "off", "sick", "annual",
          "excluded", "injury"}
Resting == {"off", "sick", "annual", "excluded", "injury"}

NoInfo == [shift |-> None, mark |-> "none"]

-----------------------------------------------------------------------------
(* The schedule of a day *)

(* getEmployeeShiftForDate: kinds in order of precedence, the latest row   *)
(* first; the kinds without a period hold on every day.                    *)
Precedence == <<"weekly_period", "date_range", "weekly", "permanent">>

OnDay(kind, d) ==
  {a \in Assignments : a.kind = kind
     /\ kind \in {"weekly_period", "date_range"} => a.from <= d /\ d <= a.to}

Governing(d) ==
  LET k == Min({i \in 1 .. 4 : OnDay(Precedence[i], d) # {}}) IN
  CHOOSE a \in OnDay(Precedence[k], d) :
    \A b \in OnDay(Precedence[k], d) : b.from <= a.from

(* A weekly pattern may name another shift or a day off for a weekday.     *)
AssignedInfo(d) ==
  IF \A i \in 1 .. 4 : OnDay(Precedence[i], d) = {} THEN NoInfo
  ELSE LET a == Governing(d) IN
       IF a.kind \in {"date_range", "permanent"} \/ a.week[d] = NoInfo
       THEN [shift |-> a.shift, mark |-> "none"]
       ELSE a.week[d]

(* getCachedShift and gridLineToShiftInfo: a cell the report has loaded    *)
(* comes before the assignments; a leave hides the shift of its cell, and  *)
(* a presence without a shift takes the assigned one.                      *)
Info(d, loaded) ==
  IF d \notin loaded \/ roster[d] = None THEN AssignedInfo(d)
  ELSE LET cell == roster[d] IN
       CASE cell.mark \in Resting -> [shift |-> None, mark |-> cell.mark]
         [] cell.mark = "marriage" -> [shift |-> None, mark |-> "present"]
         [] cell.mark = "present" /\ cell.shift = None ->
              [shift |-> AssignedInfo(d).shift, mark |-> "present"]
         [] OTHER -> cell

-----------------------------------------------------------------------------
(* The work day of a punch: resolveOvernightMorningAttribution *)

DayShift(info) == info.shift # None /\ ~info.shift.night

(* Mutant: no such rule. *)
EarlyInNever(p, today) == FALSE

(* A check-in before the day shift of its own day counts for that day.     *)
EarlyIn(p, today) == p.in /\ DayShift(today) /\ p.min < today.shift.start

(* How long after midnight a shift may still be left: its late window and  *)
(* a quarter of an hour.                                                   *)
Spill(s) == s.end + s.late + 15 - (IF s.night THEN 0 ELSE FullDay)

(* Mornings are looked at until six, or as long as the shift before spills *)
(* over; until noon on a day off; until its shift starts for an exit.      *)
Gate(prev) == Max({360, IF prev.shift = None THEN 360 ELSE Spill(prev.shift)})

Morning(p, prev, today) ==
  \/ p.min < Gate(prev)
  \/ today.shift = None /\ p.min < 720
  \/ ~p.in /\ DayShift(today) /\ p.min < today.shift.start

(* Capped a minute before the early window of the shift that follows.      *)
InWindow(p, prev, today) ==
  LET s == prev.shift IN
  /\ s.night \/ (s.end >= 720 /\ Spill(s) > 0)
  /\ p.min <= Spill(s)
  /\ DayShift(today) => p.min <= today.shift.start - today.shift.early - 1

Distance(a, b) == IF a < b THEN b - a ELSE a - b

(* Where the exit of the previous shift is expected, in minutes of today.  *)
ExpectedExit(s) ==
  IF s.night \/ s.end < 720 THEN s.end ELSE s.end + s.late - FullDay

Nearer(p, prev, today) ==
  Distance(p.min, ExpectedExit(prev.shift)) <= Distance(p.min, today.shift.start)

(* Mutant: a morning exit on a day off is judged by its window alone.      *)
CountsBackWindow(p, prev, today) ==
  /\ ~EarlyIn(p, today)
  /\ prev.shift # None /\ Morning(p, prev, today)
  /\ \/ InWindow(p, prev, today)
     \/ today.shift # None /\ today.shift.night
     \/ DayShift(today) /\ Nearer(p, prev, today)

CountsBack(p, prev, today) ==
  /\ ~EarlyIn(p, today)
  /\ IF prev.shift = None THEN today.shift = None /\ p.min < Gate(prev)
     ELSE /\ Morning(p, prev, today)
          /\ \/ InWindow(p, prev, today)
             \/ ~DayShift(today)
             \/ Nearer(p, prev, today)

WorkDay(p, loaded) ==
  IF CountsBack(p, Info(p.day - 1, loaded), Info(p.day, loaded))
  THEN p.day - 1 ELSE p.day

-----------------------------------------------------------------------------
(* The line of a day *)

At(p) == p.day * FullDay + p.min

ExpectedIn(s, d) == d * FullDay + s.start

ExpectedOut(s, d) == (IF s.night THEN d + 1 ELSE d) * FullDay + s.end

(* resolveDayPunches: what lies before the early window counts only if     *)
(* nothing else does; a punch nearer to the start is an entry, any other   *)
(* an exit; the first entry and the last exit count, and of one side alone *)
(* the punch nearest to what is expected.                                  *)
Nearest(S, t) ==
  CHOOSE x \in S : \A y \in S : \/ Distance(x, t) < Distance(y, t)
                                \/ Distance(x, t) = Distance(y, t) /\ x <= y

Paired(T, s, d) ==
  LET in == ExpectedIn(s, d)
      out == ExpectedOut(s, d)
      late == {t \in T : t >= in - s.early}
      usable == IF late # {} THEN late ELSE T
      entries == {t \in usable : Distance(t, in) < Distance(t, out)}
      exits == usable \ entries
  IN CASE entries = {} -> [first |-> None, last |-> Nearest(exits, out)]
       [] exits = {}   -> [first |-> Nearest(entries, in), last |-> None]
       [] OTHER        -> [first |-> Min(entries), last |-> Max(exits)]

Unpaired(T) ==
  [first |-> Min(T), last |-> IF Cardinality(T) > 1 THEN Max(T) ELSE None]

NoTimes == [first |-> None, last |-> None]

Line(what, shift, times) ==
  [what |-> what, shift |-> shift, first |-> times.first, last |-> times.last]

(* Phase 2: a day with punches shows them, unless it is not to be counted. *)
PunchedLine(d, info, T) ==
  CASE info.mark = "excluded" -> Line("excluded", None, NoTimes)
    [] info.mark = "annual"   -> Line("annual", None, Unpaired(T))
    [] info.shift # None      -> Line(IF info.mark = "bus" THEN "bus" ELSE "worked",
                                      info.shift, Paired(T, info.shift, d))
    [] OTHER                  -> Line("worked", None, Unpaired(T))

OnLeave(d, loaded) ==
  d \in loaded /\ roster[d] # None /\ roster[d].mark \in Resting

(* Phases 3 and 4: the leave of a loaded cell, nothing before the hiring,  *)
(* the expected times of a presence, no line at all for an assigned day    *)
(* off, and an absence else.                                               *)
WorkingLine(d, info) ==
  LET s == info.shift IN
  CASE info.mark = "present" /\ s # None ->
         Line("present", s, [first |-> ExpectedIn(s, d), last |-> ExpectedOut(s, d)])
    [] info.mark = "present" /\ s = None -> Line("present", None, NoTimes)
    [] info.mark = "off"                 -> Line("nothing", None, NoTimes)
    [] OTHER                             -> Line("absent", s, NoTimes)

EmptyLine(d, info, loaded) ==
  CASE OnLeave(d, loaded)                -> Line(roster[d].mark, roster[d].shift, NoTimes)
    [] ~OnLeave(d, loaded) /\ d < Hired  -> Line("before", None, NoTimes)
    [] ~OnLeave(d, loaded) /\ d >= Hired -> WorkingLine(d, info)

LineOf(d, seen, loaded) ==
  LET T == {At(p) : p \in {q \in seen : WorkDay(q, loaded) = d}}
      info == Info(d, loaded)
  IN IF T = {} THEN EmptyLine(d, info, loaded) ELSE PunchedLine(d, info, T)

(* generatePunchReportLines: the cells from a day before the period to its *)
(* end, the punches from its start to a day after it.                      *)

(* Mutant: no day of context before the period. *)
LoadedExactly(f, t) == f .. t

Loaded(f, t) == f - 1 .. t

ReportLine(d, f, t) ==
  LineOf(d, {p \in punches : p.day \in f .. t + 1}, Loaded(f, t))

(* What a report over every day there is would say. *)
TrueLine(d) == LineOf(d, punches, Days)

-----------------------------------------------------------------------------
(* The stored rows *)

IsLate(l, d) ==
  /\ l.what = "worked" /\ l.shift # None /\ l.first # None
  /\ l.first - ExpectedIn(l.shift, d) > l.shift.graceIn

IsEarly(l, d) ==
  /\ l.what \in {"worked", "bus"} /\ l.shift # None /\ l.last # None
  /\ ExpectedOut(l.shift, d) - l.last > l.shift.graceOut

(* statusFromPunchLine and calculateAttendanceStatus. *)
Status(l, d) ==
  CASE l.what = "annual"               -> "leave"
    [] l.what \in {"off", "injury"}    -> "off"
    [] l.what \in {"sick", "excluded"} -> l.what
    [] l.what \notin Resting /\ l.first = None -> "absent"
    [] l.what \notin Resting /\ l.first # None ->
         CASE IsLate(l, d) /\ IsEarly(l, d)   -> "late_early"
           [] IsLate(l, d) /\ ~IsEarly(l, d)  -> "late"
           [] ~IsLate(l, d) /\ IsEarly(l, d)  -> "early_leave"
           [] ~IsLate(l, d) /\ ~IsEarly(l, d) -> "present"

Counted(l) == l.first # None \/ l.last # None

(* shouldIncludeLine *)
Stored(l, absences) ==
  Counted(l) \/ (absences /\ l.what \in Resting \cup {"absent"})

Row(l, d) == [status |-> Status(l, d), first |-> l.first, last |-> l.last]

(* Net minutes of a line beyond those its shift expects, from a quarter of *)
(* an hour on.                                                             *)
Expected(s) == Max({0, ExpectedOut(s, 0) - ExpectedIn(s, 0) - s.break})

Overtime(l) ==
  IF l.shift = None \/ l.first = None \/ l.last = None THEN 0
  ELSE LET over == Max({0, l.last - l.first - l.shift.break}) - Expected(l.shift)
       IN IF Expected(l.shift) > 0 /\ over >= 15 THEN over ELSE 0

WrittenFrom(d, f, t) == IF d = t THEN "last" ELSE "inner"

(* assertAssignmentsExist *)
Scheduled(f, t) ==
  \/ \E a \in Assignments : a.from <= t /\ f <= a.to
  \/ \E d \in f .. t : roster[d] # None

(* generateAttendance; a run may pass over the days that have a row.       *)
Generate(f, t, skip, absences) ==
  LET Writes(d) == /\ d \in f .. t /\ Stored(ReportLine(d, f, t), absences)
                   /\ ~(skip /\ att[d] # None)
  IN /\ Scheduled(f, t)
     /\ att' = [d \in Days |-> IF Writes(d) THEN Row(ReportLine(d, f, t), d)
                               ELSE att[d]]
     /\ fresh' = [fresh EXCEPT !.att = [d \in Days |->
                    IF Writes(d) THEN WrittenFrom(d, f, t) ELSE @[d]]]
     /\ UNCHANGED <<roster, punches, ot>>

(* generateOvertimeAnalysis: a row that was decided is analysed again and  *)
(* keeps its decision.                                                     *)
Analyse(f, t) ==
  LET Writes(d) == /\ d \in f .. t
                   /\ ReportLine(d, f, t).what \notin {"off", "sick", "injury", "nothing"}
  IN /\ ot' = [d \in Days |->
                 IF Writes(d)
                 THEN [over |-> Overtime(ReportLine(d, f, t)),
                       state |-> IF ot[d] = None THEN "pending" ELSE ot[d].state]
                 ELSE ot[d]]
     /\ fresh' = [fresh EXCEPT !.ot = [d \in Days |->
                    IF Writes(d) THEN WrittenFrom(d, f, t) ELSE @[d]]]
     /\ UNCHANGED <<roster, punches, att>>

(* approveOvertime and rejectOvertime look at no state. *)
Decide(d, state) ==
  /\ ot[d] # None
  /\ ot' = [ot EXCEPT ![d].state = state]
  /\ UNCHANGED <<roster, punches, att, fresh>>

-----------------------------------------------------------------------------
(* What the rows are made from changes. *)

Outdates(d) ==
  fresh' = [table \in DOMAIN fresh |->
              [e \in Days |-> IF e \in d - 1 .. d + 1 THEN "no" ELSE fresh[table][e]]]

SetCell(d, cell) ==
  /\ roster[d] # cell
  /\ roster' = [roster EXCEPT ![d] = cell]
  /\ Outdates(d)
  /\ UNCHANGED <<punches, att, ot>>

Arrive(p) ==
  /\ p \notin punches
  /\ punches' = punches \cup {p}
  /\ Outdates(p.day)
  /\ UNCHANGED <<roster, att, ot>>

-----------------------------------------------------------------------------
Init ==
  /\ roster = [d \in Days |-> None]
  /\ punches = {}
  /\ att = [d \in Days |-> None] /\ ot = [d \in Days |-> None]
  /\ fresh = [table \in {"att", "ot"} |-> [d \in Days |-> "no"]]

Edit == \/ \E d \in Days, cell \in Cells \cup {None} : SetCell(d, cell)
        \/ \E p \in Punches : Arrive(p)

Report(f, t) == \/ \E skip, absences \in BOOLEAN : Generate(f, t, skip, absences)
                \/ Analyse(f, t)

Next == \/ Edit
        \/ \E f \in Reported, t \in Reported : f <= t /\ Report(f, t)
        \/ \E d \in Days, state \in {"approved", "rejected"} : Decide(d, state)

Spec == Init /\ [][Next]_vars

-----------------------------------------------------------------------------
(* Properties *)

(* A stored row says what a report over all days would say, whichever      *)
(* period it was made for, as long as nothing it was made from changed and *)
(* its day was not the last of the period: the day of context before the   *)
(* period and the punches of the day after it are enough                   *)
(* (punchReportLine.service.ts lines 831-836).                             *)
RowsAgree ==
  \A d \in Days :
    /\ fresh.att[d] = "inner" => att[d] = Row(TrueLine(d), d)
    /\ fresh.ot[d] = "inner" => ot[d].over = Overtime(TrueLine(d))

CheckInMoved(d) ==
  \E p \in punches :
    /\ p.day = d + 1 /\ p.in /\ DayShift(Info(d + 1, Days))
    /\ p.min < Info(d + 1, Days).shift.start
    /\ att[d].last = At(p)

(* A check-in before the day shift of its own day is never taken for the   *)
(* exit of the day before (shiftTime.service.ts line 228).                 *)
CheckInOnItsDay ==
  \A d \in Days : fresh.att[d] = "inner" => ~CheckInMoved(d)

(* A morning exit that follows a shift does not sit alone on a day off:    *)
(* no punch before noon is on a day without a shift after a day with one   *)
(* (shiftTime.service.ts lines 206-210).                                   *)
NoStrayExit ==
  \A d \in Days :
    fresh.att[d] # "no" /\ d - 1 \in Days =>
      ~ /\ Info(d, Days).shift = None /\ Info(d - 1, Days).shift # None
        /\ att[d].first # None /\ att[d].first - d * FullDay < 720

=============================================================================
