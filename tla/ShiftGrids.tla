------------------------------ MODULE ShiftGrids ------------------------------
(***************************************************************************)
(* Shift grids and the requests that are written into them:                *)
(* requests.service.ts, requestFulfillment.service.ts,                     *)
(* fieldMissionRequest.service.ts, shiftGridMerge.service.ts,              *)
(* shiftGridClear.service.ts and the cell editor of shift-grid-3.routes.   *)
(*                                                                         *)
(* Every row concerned belongs to one employee, so the module follows one. *)
(* A branch fills in weekly grids, payroll reads a monthly one into which  *)
(* weeks are merged, and a request goes to whichever grid covers the day.  *)
(* The handlers are cut at their Prisma calls; a call may end after any.   *)
(***************************************************************************)
EXTENDS Integers, FiniteSets, FiniteSetsExt

CONSTANTS
  Weeks,      \* weekly grids
  Months,     \* grids a merge may create
  Days,
  WeekDays,   \* the days of each week
  Period,     \* bound: the payroll period a merge may ask for
  Rank,       \* createdAt of the grids
  Requests,
  Wants,      \* leave, shift or mission
  DaysOf,     \* the days of a request
  Calls,
  None

ASSUME GridAssumption ==
  /\ Days \subseteq Nat /\ Period \subseteq Days
  /\ WeekDays \in [Weeks -> (SUBSET Days) \ {{}}]
  /\ Rank \in [Weeks \cup Months -> Nat]
  /\ Wants \in [Requests -> {"leave", "shift", "mission"}]
  /\ DaysOf \in [Requests -> (SUBSET Days) \ {{}}]
  /\ IsFiniteSet(Weeks) /\ IsFiniteSet(Months) /\ IsFiniteSet(Days)
  /\ Weeks \cap Months = {}
  /\ \A v \in Weeks, w \in Weeks : v # w => WeekDays[v] \cap WeekDays[w] = {}
  /\ None \notin Weeks \cup Months \cup Requests \cup Calls

VARIABLES
  span,     \* the days of each grid, none when it does not exist
  line,     \* ShiftGridLine: what the day is, and fieldMissionRequestId
  into,     \* mergedIntoGridId
  from,     \* mergedFromGridIds
  state,    \* of the requests
  call,     \* the calls under way
  edited,   \* history: days a person changed by hand
  copied,   \* history: days a merge copied, and nobody marked since
  remade,   \* history: days a merge replaced in a month, took from it, or
            \* covered without a row
  crossed,  \* history: days that changed between a call's read and its write
  raced,    \* history: requests and grids two calls handled at once
  half      \* history: missions whose days were marked or cleared by a call
            \* that ended early

grids == <<span, line, into, from>>
history == <<edited, copied, remade, crossed, raced, half>>
vars == <<grids, state, call, history>>

Grids == Weeks \cup Months
Fulfilled == {r \in Requests : Wants[r] # "mission"}
Missions == Requests \ Fulfilled
NoLine == [does |-> "absent", mission |-> None]
Idle == [at |-> "idle", does |-> "none", req |-> None, todo |-> {}, grid |-> None,
         cell |-> NoLine, gone |-> FALSE, stale |-> {}, weeks |-> {},
         copy |-> [d \in Days |-> NoLine], seen |-> {}]

(* findGridForEmployeeDay *)
Covering(d) == {g \in Grids : d \in span[g]}
Later(g, h) == \/ Max(span[g]) > Max(span[h])
               \/ Max(span[g]) = Max(span[h]) /\ Rank[g] >= Rank[h]
Latest(d) == {g \in Covering(d) : \A h \in Covering(d) : Later(g, h)}
GridFor(d) == CHOOSE g \in Latest(d) : TRUE

(* assertEmployeeGridCoverage *)
Covered(D) == \A d \in D : Covering(d) # {}

Goes(c, to) == call' = [call EXCEPT ![c].at = to]
Ends(c) == call' = [call EXCEPT ![c] = Idle]

(* History: who else has read the row of day d in grid g. *)
Touched(calls, c, g, d) ==
  [e \in Calls |->
     IF e # c /\ \/ calls[e].at = "write" /\ calls[e].grid = g /\ d \in calls[e].todo
                 \/ calls[e].at \in {"merge", "append"}
     THEN [calls[e] EXCEPT !.stale = @ \cup {d}] ELSE calls[e]]

(* History: whose cell of one of the days D may be in another grid now. *)
Moved(calls, c, D) ==
  [e \in Calls |-> IF e # c /\ calls[e].at = "write"
                   THEN [calls[e] EXCEPT !.stale = @ \cup ({Min(calls[e].todo)} \cap D)]
                   ELSE calls[e]]

(* History: who else handles one of these requests or grids. *)
Meets(c, things) ==
  raced' = raced \cup
    {x \in things : \E e \in Calls \ {c} :
        x \in {call[e].req, call[e].grid} \cup call[e].weeks}

-----------------------------------------------------------------------------
Ask(r) ==
  /\ state[r] = "none"
  /\ state' = [state EXCEPT ![r] = "pending"]
  /\ UNCHANGED <<grids, call, history>>

(* approveLeaveRequest, approveShiftChangeRequest: the checks, then one    *)
(* day after the other, then the state.  That a confirmed sheet over the   *)
(* days forbids it (assertDatesNotPeriodLocked) is a call that ends.       *)
StartApprove(c, r) ==
  /\ call[c] = Idle /\ state[r] = "pending" /\ Covered(DaysOf[r])
  /\ call' = [call EXCEPT ![c] = [Idle EXCEPT !.at = "read", !.req = r,
                                              !.todo = DaysOf[r]]]
  /\ Meets(c, {r})
  /\ UNCHANGED <<grids, state, edited, copied, remade, crossed, half>>

(* Mutant: of the grids that cover the day the first one is taken. *)
ReadCellFirst(c) ==
  LET d == Min(call[c].todo)
      g == CHOOSE g \in Covering(d) : \A h \in Covering(d) : Later(h, g)
  IN /\ call[c].at = "read"
     /\ Covering(d) # {}
     /\ call' = [call EXCEPT ![c].at = "write", ![c].grid = g,
                             ![c].cell = line[g][d], ![c].stale = {}]
     /\ UNCHANGED <<grids, state, history>>

ReadCell(c) ==
  LET d == Min(call[c].todo) IN
  /\ call[c].at = "read"
  /\ IF Covering(d) = {} THEN Ends(c)
     ELSE call' = [call EXCEPT ![c].at = "write", ![c].grid = GridFor(d),
                     ![c].cell = line[GridFor(d)][d], ![c].stale = {}]
  /\ UNCHANGED <<grids, state, history>>

AfterDay(todo, then) == IF todo = {} THEN then ELSE "read"

(* upsertGridLineForDay writes the mission it has read; it fails when the  *)
(* row is gone, or is there by now.                                        *)

(* Mutant: the mission is not kept. *)
WriteCellPlain(c) ==
  LET k == call[c]
      d == Min(k.todo)
  IN /\ k.at = "write"
     /\ ~k.gone /\ (k.cell = NoLine <=> line[k.grid][d] = NoLine)
     /\ line' = [line EXCEPT ![k.grid][d] = [does |-> Wants[k.req], mission |-> None]]
     /\ call' = Touched([call EXCEPT ![c].at = AfterDay(k.todo \ {d}, "approve"),
                           ![c].todo = @ \ {d}, ![c].cell = NoLine,
                           ![c].stale = {}, ![c].grid = None], c, k.grid, d)
     /\ crossed' = IF d \in k.stale THEN crossed \cup {d} ELSE crossed
     /\ UNCHANGED <<span, into, from, state, edited, copied, remade, raced, half>>

WriteCell(c) ==
  LET k == call[c]
      d == Min(k.todo)
  IN /\ k.at = "write"
     /\ IF k.gone \/ ~(k.cell = NoLine <=> line[k.grid][d] = NoLine)
        THEN Ends(c) /\ UNCHANGED <<line, crossed>>
        ELSE /\ line' = [line EXCEPT ![k.grid][d] =
                           [does |-> Wants[k.req], mission |-> k.cell.mission]]
             /\ call' = Touched([call EXCEPT ![c].at = AfterDay(k.todo \ {d}, "approve"),
                                   ![c].todo = @ \ {d}, ![c].cell = NoLine,
                                   ![c].stale = {}, ![c].grid = None], c, k.grid, d)
             /\ crossed' = IF d \in k.stale THEN crossed \cup {d} ELSE crossed
     /\ UNCHANGED <<span, into, from, state, edited, copied, remade, raced, half>>

Approve(c) ==
  /\ call[c].at = "approve"
  /\ state' = [state EXCEPT ![call[c].req] = "approved"]
  /\ Ends(c)
  /\ UNCHANGED <<grids, history>>

(* rejectLeaveRequest, rejectShiftChangeRequest: no check at all. *)
Reject(r) ==
  /\ state[r] # "none"
  /\ state' = [state EXCEPT ![r] = "rejected"]
  /\ UNCHANGED <<grids, call, history>>

-----------------------------------------------------------------------------
(* Field missions.  A branch manager's own is approved when it is created, *)
(* before its days are marked.                                             *)
AutoMission(c, r) ==
  /\ call[c] = Idle /\ state[r] = "none"
  /\ state' = [state EXCEPT ![r] = "approved"]
  /\ call' = [call EXCEPT ![c] = [Idle EXCEPT !.at = "mark", !.does = "auto",
                                              !.req = r, !.todo = DaysOf[r]]]
  /\ UNCHANGED <<grids, history>>

StartMark(c, r) ==
  /\ call[c] = Idle /\ state[r] = "pending" /\ Covered(DaysOf[r])
  /\ call' = [call EXCEPT ![c] = [Idle EXCEPT !.at = "mark", !.req = r,
                                              !.todo = DaysOf[r]]]
  /\ Meets(c, {r})
  /\ UNCHANGED <<grids, state, edited, copied, remade, crossed, half>>

(* markMissionDays writes nothing back that it has read of the row. *)
MarkDay(c) ==
  LET k == call[c]
      d == Min(k.todo)
      g == GridFor(d)
      as == IF line[g][d] = NoLine THEN "none" ELSE line[g][d].does
  IN /\ k.at = "mark"
     /\ IF Covering(d) = {}
        THEN Ends(c) /\ half' = half \cup {k.req} /\ UNCHANGED <<line, copied>>
        ELSE /\ line' = [line EXCEPT ![g][d] = [does |-> as, mission |-> k.req]]
             /\ call' = Touched(
                  IF k.todo # {d} THEN [call EXCEPT ![c].todo = @ \ {d}]
                  ELSE IF k.does = "auto" THEN [call EXCEPT ![c] = Idle]
                  ELSE [call EXCEPT ![c].todo = {}, ![c].at = "approve"], c, g, d)
             /\ copied' = copied \ {d}
             /\ UNCHANGED half
     /\ UNCHANGED <<span, into, from, state, edited, remade, crossed, raced>>

(* rejectFieldMissionRequest, and the cancellation of a pending one: both  *)
(* close it.                                                               *)
StartDrop(c, r) ==
  /\ call[c] = Idle /\ state[r] = "pending"
  /\ call' = [call EXCEPT ![c] = [Idle EXCEPT !.at = "drop", !.req = r]]
  /\ Meets(c, {r})
  /\ UNCHANGED <<grids, state, edited, copied, remade, crossed, half>>

(* Mutant: the days of an approved mission are left as they are. *)
StartCancelBlind(c, r) ==
  /\ call[c] = Idle /\ state[r] = "approved"
  /\ call' = [call EXCEPT ![c] = [Idle EXCEPT !.at = "drop", !.req = r]]
  /\ Meets(c, {r})
  /\ UNCHANGED <<grids, state, edited, copied, remade, crossed, half>>

StartCancel(c, r) ==
  /\ call[c] = Idle /\ state[r] = "approved"
  /\ call' = [call EXCEPT ![c] = [Idle EXCEPT !.at = "clear", !.req = r]]
  /\ Meets(c, {r})
  /\ UNCHANGED <<grids, state, edited, copied, remade, crossed, half>>

(* clearMissionDays; that it refuses days with GPS punches is a call that  *)
(* ends.                                                                   *)
Clear(c) ==
  LET r == call[c].req
      marked == {x \in Grids \X Days : line[x[1]][x[2]].mission = r}
  IN /\ call[c].at = "clear"
     /\ line' = [g \in Grids |-> [d \in Days |->
                   IF <<g, d>> \in marked THEN [line[g][d] EXCEPT !.mission = None]
                   ELSE line[g][d]]]
     /\ call' = [e \in Calls |->
                   IF e = c THEN [call[c] EXCEPT !.at = "drop"]
                   ELSE IF call[e].at \in {"write", "merge", "append"}
                   THEN [call[e] EXCEPT !.stale = @ \cup {x[2] : x \in marked}]
                   ELSE call[e]]
     /\ UNCHANGED <<span, into, from, state, history>>

Drop(c) ==
  /\ call[c].at = "drop"
  /\ state' = [state EXCEPT ![call[c].req] = "closed"]
  /\ Ends(c)
  /\ UNCHANGED <<grids, history>>

-----------------------------------------------------------------------------
(* Merging.  With a payroll period the lines come from every weekly grid   *)
(* that lies in it (loadOptionAMergeLines), otherwise from the chosen      *)
(* ones.  Weeks do not overlap here.                                       *)
WeekOf(d) == {w \in Weeks : d \in span[w]}
Hull(D) == {d \in Days : Min(D) <= d /\ d <= Max(D)}
Chosen(S, period) ==
  [d \in Days |-> LET W == WeekOf(d) \cap IF period = {} THEN S ELSE Weeks
                  IN IF W # {} /\ (period = {} \/ d \in period)
                     THEN line[CHOOSE w \in W : TRUE][d] ELSE NoLine]

(* loadSourceWeeks *)
(* Mutant: a week that is used already is taken again. *)
UsableAny(S) == \A w \in S : span[w] # {}
Usable(S) == \A w \in S : span[w] # {} /\ into[w] = None

StartMerge(c, S, period) ==
  LET D == IF period = {} THEN Hull(UNION {span[w] : w \in S}) ELSE period
      copy == Chosen(S, period)
  IN /\ call[c] = Idle /\ Usable(S) /\ Cardinality(S) >= 2
     /\ \E d \in D : copy[d] # NoLine
     /\ call' = [call EXCEPT ![c] = [Idle EXCEPT !.at = "merge", !.weeks = S,
                                                 !.todo = D, !.copy = copy]]
     /\ Meets(c, S)
     /\ UNCHANGED <<grids, state, edited, copied, remade, crossed, half>>

(* appendIntoExistingTarget: without a period the days of the target stay  *)
(* what they are, and a week outside them adds nothing but its name.       *)
StartAppend(c, S, m, period) ==
  LET D == IF period = {} THEN span[m] ELSE period
      copy == Chosen(S, period)
  IN /\ call[c] = Idle /\ Usable(S) /\ S # {} /\ span[m] # {}
     /\ \E d \in D : copy[d] # NoLine \/ (period = {} /\ line[m][d] # NoLine)
     /\ call' = [call EXCEPT ![c] = [Idle EXCEPT !.at = "append", !.weeks = S,
          !.grid = m, !.does = IF period = {} THEN "add" ELSE "replace",
          !.todo = D, !.seen = from[m], !.copy = copy]]
     /\ Meets(c, S \cup {m})
     /\ UNCHANGED <<grids, state, edited, copied, remade, crossed, half>>

(* History of a merge that makes the rows of the days D in its month. *)
Copies(c, D) ==
  /\ copied' = copied \cup D
  /\ remade' = remade \cup
       {d \in D : Covering(d) \cap Months # {} \/ call[c].copy[d] = NoLine}
  /\ crossed' = crossed \cup (D \cap call[c].stale)
  /\ UNCHANGED <<edited, raced, half>>

(* One transaction. *)
CreateMonth(c, m) ==
  LET k == call[c] IN
  /\ k.at = "merge"
  /\ from[m] = {} /\ \A n \in Months : Rank[n] < Rank[m] => from[n] # {}
  /\ span' = [span EXCEPT ![m] = k.todo]
  /\ line' = [line EXCEPT ![m] = [d \in Days |->
       IF d \in k.todo /\ k.copy[d] # NoLine
       THEN [does |-> k.copy[d].does, mission |-> None] ELSE NoLine]]
  /\ into' = [w \in Weeks |-> IF w \in k.weeks THEN m ELSE into[w]]
  /\ from' = [from EXCEPT ![m] = k.weeks]
  /\ call' = Moved([call EXCEPT ![c] = Idle], c, k.todo)
  /\ Copies(c, k.todo)
  /\ UNCHANGED <<state>>

(* With a period every row of the month is deleted first, otherwise those  *)
(* of the new days.  Another call that appended meanwhile may have given   *)
(* the month other days than this one read.                                *)
Append(c) ==
  LET k == call[c]
      m == k.grid
      new == {d \in k.todo : k.copy[d] # NoLine}
      deleted == IF k.does = "replace" THEN Days ELSE new
      moved == IF span[m] = k.todo /\ k.does = "add" THEN new ELSE span[m] \cup k.todo
  IN /\ k.at = "append" /\ span[m] # {}
     /\ span' = [span EXCEPT ![m] = k.todo]
     /\ line' = [line EXCEPT ![m] = [d \in Days |->
          IF d \in new THEN [does |-> k.copy[d].does, mission |-> None]
          ELSE IF d \in deleted THEN NoLine ELSE line[m][d]]]
     /\ into' = [w \in Weeks |-> IF w \in k.weeks THEN m ELSE into[w]]
     /\ from' = [from EXCEPT ![m] = k.seen \cup k.weeks]
     /\ call' = Moved([e \in Calls |->
          IF e = c THEN Idle
          ELSE IF call[e].at = "write" /\ call[e].grid = m /\ call[e].cell # NoLine
                  /\ Min(call[e].todo) \in deleted
          THEN [call[e] EXCEPT !.gone = TRUE] ELSE call[e]], c, moved)
     /\ Copies(c, moved)
     /\ UNCHANGED <<state>>

-----------------------------------------------------------------------------
(* HR works on the grids.  Bound: while there is a request, on one day. *)
MayEdit(D) == \/ Cardinality(edited \cup D) <= 1
              \/ \A r \in Requests : state[r] = "none"

(* The cell editor writes a whole cell. *)
EditCell(g, d) ==
  /\ d \in span[g] /\ MayEdit({d})
  /\ line' = [line EXCEPT ![g][d] = [does |-> "work", mission |-> None]]
  /\ call' = Touched(call, None, g, d)
  /\ edited' = edited \cup {d}
  /\ UNCHANGED <<span, into, from, state, copied, remade, crossed, raced, half>>

(* clearShiftGridAssignments leaves the missions. *)
ClearGrid(g) ==
  /\ span[g] # {} /\ MayEdit(span[g])
  /\ line' = [line EXCEPT ![g] = [d \in Days |->
       IF line[g][d] = NoLine THEN NoLine ELSE [line[g][d] EXCEPT !.does = "none"]]]
  /\ edited' = edited \cup span[g]
  /\ UNCHANGED <<span, into, from, state, call, copied, remade, crossed,
                 raced, half>>

(* deleteShiftGrid *)
DeleteGrid(g) ==
  /\ span[g] # {} /\ MayEdit(span[g])
  /\ span' = [span EXCEPT ![g] = {}]
  /\ line' = [line EXCEPT ![g] = [d \in Days |-> NoLine]]
  /\ into' = [w \in Weeks |-> IF into[w] = g THEN None ELSE into[w]]
  /\ call' = [e \in Calls |-> IF call[e].grid = g THEN [call[e] EXCEPT !.gone = TRUE]
                              ELSE call[e]]
  /\ edited' = edited \cup span[g]
  /\ UNCHANGED <<from, state, copied, remade, crossed, raced, half>>

(* A call ends before its next statement. *)
Fail(c) ==
  LET k == call[c] IN
  /\ k # Idle
  /\ Ends(c)
  /\ half' = IF k.req \in Missions /\ k.at \in {"mark", "approve", "drop"}
             THEN half \cup {k.req} ELSE half
  /\ UNCHANGED <<grids, state, edited, copied, remade, crossed, raced>>

-----------------------------------------------------------------------------
Init ==
  /\ span = [g \in Grids |-> IF g \in Weeks THEN WeekDays[g] ELSE {}]
  /\ line = [g \in Grids |-> [d \in Days |->
       IF d \in span[g] THEN [does |-> "work", mission |-> None] ELSE NoLine]]
  /\ into = [w \in Weeks |-> None]
  /\ from = [m \in Months |-> {}]
  /\ state = [r \in Requests |-> "none"]
  /\ call = [c \in Calls |-> Idle]
  /\ edited = {} /\ copied = {} /\ remade = {} /\ crossed = {} /\ raced = {}
  /\ half = {}

Periods == {{}, Period}

Merging(c) ==
  \/ \E S \in SUBSET Weeks, p \in Periods :
       \/ StartMerge(c, S, p)
       \/ \E m \in Months : StartAppend(c, S, m, p)
  \/ \E m \in Months : CreateMonth(c, m)
  \/ Append(c)

Fulfilling(c) ==
  \/ \E r \in Fulfilled : StartApprove(c, r)
  \/ ReadCell(c) \/ WriteCell(c) \/ Approve(c)

OnMission(c) ==
  \/ \E r \in Missions :
       AutoMission(c, r) \/ StartMark(c, r) \/ StartDrop(c, r) \/ StartCancel(c, r)
  \/ MarkDay(c) \/ Clear(c) \/ Drop(c)

ByHand ==
  \/ \E g \in Grids : ClearGrid(g) \/ DeleteGrid(g) \/ \E d \in Days : EditCell(g, d)
  \/ \E r \in Requests : Ask(r)
  \/ \E r \in Fulfilled : Reject(r)

Next ==
  \/ ByHand
  \/ \E c \in Calls : Merging(c) \/ Fulfilling(c) \/ OnMission(c) \/ Fail(c)

Spec == Init /\ [][Next]_vars

-----------------------------------------------------------------------------
(* Properties. *)

(* A day of an approved mission bears its mark in the grid that covers it, *)
(* unless a call still marks or drops it, its days were marked half way, a *)
(* person changed it, a merge copied it, or a fulfilment wrote back what   *)
(* it had read before (requestFulfillment.service.ts:84).                  *)
MissionMarked ==
  \A r \in Missions : state[r] = "approved" => \A d \in DaysOf[r] :
    \/ Covering(d) # {} /\ line[GridFor(d)][d].mission = r
    \/ d \in edited \cup copied \cup crossed
    \/ r \in half \cup raced
    \/ \E c \in Calls : call[c].req = r /\ call[c].at \in {"mark", "drop"}
    \/ \E q \in Missions \ {r} : d \in DaysOf[q] /\ state[q] # "none"

(* A mission that was rejected or cancelled marks no day, unless its days  *)
(* were marked half way, two calls handled it at once, or a fulfilment     *)
(* wrote a mark back (fieldMissionRequest.service.ts:160).                 *)
NoMarkLeft ==
  \A r \in Missions : state[r] = "closed" =>
    \A g \in Grids, d \in Days :
      line[g][d].mission = r => d \in crossed \/ r \in half \cup raced

(* An approved leave or change of shift stands in the grid that covers the *)
(* day, unless a person changed the day, a merge made it anew, or two      *)
(* calls crossed on it (requests.service.ts:416).                          *)
RequestOnGrid ==
  \A r \in Fulfilled : state[r] = "approved" => \A d \in DaysOf[r] :
    \/ Covering(d) # {} /\ line[GridFor(d)][d].does = Wants[r]
    \/ d \in edited \cup remade \cup crossed
    \/ \E q \in Fulfilled \ {r} : d \in DaysOf[q] /\ state[q] # "none"

(* A week is merged into one month at most and knows which, unless two     *)
(* merges handled it at once (shiftGridMerge.service.ts:233).              *)
WeekMergedOnce ==
  \A w \in Weeks \ raced :
    LET used == {m \in Months \ raced : w \in from[m] /\ span[m] # {}}
    IN Cardinality(used) <= 1 /\ (used # {} => used = {into[w]})

=============================================================================
