----------------------------- MODULE BioTimeSync -----------------------------
(***************************************************************************)
(* Pulling punches from the BioTime server into the Transaction table      *)
(* (services/biotime/sync.service.ts, generateJob.service.ts).             *)
(*                                                                         *)
(* A punch is its time; a terminal uploads it to BioTime at once or later. *)
(* BioTime lists the punches of a period page by page in the order they    *)
(* arrived.  A pull reads those pages one call after another, each may     *)
(* fail, and at the end the pull marks its period as covered and moves     *)
(* bioTimeConfig.lastTransactionSync, where the next incremental pull      *)
(* begins.  Several pulls run at once: only the full synchronisations      *)
(* look for another one before they start.                                 *)
(***************************************************************************)
EXTENDS Integers, Sequences, FiniteSetsExt

CONSTANTS
  Runs,        \* pulls that may be under way at once
  MaxTime,     \* bound: the clock stops there
  Overlap,     \* an incremental pull begins that much before the cursor
  Day,         \* ... or goes back a day when there is no cursor
  Month,       \* ... or a month when hardly anything is stored
  Few,         \* the number of stored punches below which it does
  PageSize,
  MaxPages,
  MaxErrors,   \* failed pages in a row that end a pull
  Slice,       \* length of a slice of a long period
  Stale,       \* age at which the row of a synchronisation stops locking
  Fresh,       \* age at which a covered period must be pulled again
  Periods      \* bound: the periods people ask for, <<from, to>>

ASSUME SyncAssumption ==
  /\ {MaxTime, Overlap, Day, Month, Few, Stale, Fresh} \subseteq Nat
  /\ {PageSize, MaxPages, MaxErrors, Slice} \subseteq Nat \ {0}
  /\ Periods \subseteq Nat \X Nat

VARIABLES
  clock,
  held,      \* punches a terminal has not uploaded yet
  log,       \* what BioTime lists, in the order of arrival
  stored,    \* the Transaction rows
  cursor,    \* lastTransactionSync, 0 when unset
  coverage,  \* transaction_range rows younger than Fresh, as the asked periods
             \* they cover
  stuck,     \* startedAt of the rows younger than Stale that a stopped server
             \* left running
  run,       \* the pulls under way
  late,      \* history: punches uploaded more than Overlap after their time
  skipped,   \* history: punches a pull passed over without storing them
  jumped,    \* history: times the cursor passed over without a pull
  missing,   \* history: punches BioTime held in a period when a pull of it
             \* began, and that were not stored when it was marked as covered
  excused    \* history: synchronisations the lock could not keep apart

world == <<clock, held, log>>
marks == <<cursor, coverage, stuck>>
history == <<late, skipped, jumped, missing>>
vars == <<world, marks, stored, run, history, excused>>

Idle == [at |-> "idle", kind |-> "none", from |-> 0, to |-> 0, first |-> 0,
         last |-> 0, page |-> 1, errors |-> 0, began |-> 0, saw |-> FALSE,
         started |-> 0, owed |-> {}, named |-> FALSE]

(* The punches of a period as BioTime lists them: their places in the log. *)
Listed(from, to) == {i \in DOMAIN log : from <= log[i] /\ log[i] <= to}
Punches(places) == {log[i] : i \in places}

Before(k, i) == Cardinality({j \in Listed(k.from, k.to) : j < i})
Rest(k) == {i \in Listed(k.from, k.to) : Before(k, i) >= (k.page - 1) * PageSize}
Page(k) == {i \in Rest(k) : Before(k, i) < k.page * PageSize}

Goes(r, to) == run' = [run EXCEPT ![r] = [run[r] EXCEPT !.at = to]]
Ends(r) == /\ run' = [run EXCEPT ![r] = Idle]
           /\ excused' = excused \ {r}

-----------------------------------------------------------------------------
(* Time passes; a punch is made and uploaded, or kept by the terminal. *)
Tick ==
  /\ clock < MaxTime
  /\ clock' = clock + 1
  /\ \/ log' = Append(log, clock') /\ held' = held
     \/ held' = held \cup {clock'} /\ log' = log
  /\ coverage' = {c \in coverage : c.at + Fresh >= clock'}
  /\ stuck' = {t \in stuck : t + Stale >= clock'}
  /\ UNCHANGED <<cursor, stored, run, history, excused>>

Upload(t) ==
  /\ t \in held
  /\ held' = held \ {t}
  /\ log' = Append(log, t)
  /\ late' = IF clock > t + Overlap THEN late \cup {t} ELSE late
  /\ UNCHANGED <<clock, marks, stored, run, skipped, jumped, missing, excused>>

-----------------------------------------------------------------------------
(* The full synchronisation: the lock, then the SyncJob row.               *)
Holding(r) == run[r].started > 0
Young(t) == t + Stale >= clock

(* Mutant: the comparison of the age is turned round. *)
LockedOld ==
  \/ \E t \in stuck : Young(t)
  \/ \E d \in Runs : Holding(d) /\ ~Young(run[d].started)

(* isSyncLocked *)
Locked ==
  \/ \E t \in stuck : Young(t)
  \/ \E d \in Runs : Holding(d) /\ Young(run[d].started)

(* Accident: another one is between its check and its row, or has grown    *)
(* too old to lock.                                                        *)
Unseen(r) == {d \in Runs \ {r} : \/ run[d].at = "create"
                                 \/ Holding(d) /\ ~Young(run[d].started)}

CheckLock(r, how) ==
  /\ run[r] = Idle /\ ~Locked
  /\ run' = [run EXCEPT ![r] = [Idle EXCEPT !.at = "create", !.kind = how]]
  /\ excused' = IF Unseen(r) = {} THEN excused
                ELSE excused \cup Unseen(r) \cup {r}
  /\ UNCHANGED <<world, marks, stored, history>>

(* createSyncJob; a queued run writes startedAt again when it gets its     *)
(* turn.                                                                   *)
CreateRow(r) ==
  /\ run[r].at = "create"
  /\ run' = [run EXCEPT ![r] = [run[r] EXCEPT
       !.started = clock, !.kind = "incremental",
       !.at = IF run[r].kind = "queued" THEN "queued" ELSE "begin"]]
  /\ UNCHANGED <<world, marks, stored, history, excused>>

TakeTurn(r) ==
  /\ run[r].at = "queued"
  /\ run' = [run EXCEPT ![r] = [run[r] EXCEPT !.started = clock, !.at = "begin"]]
  /\ UNCHANGED <<world, marks, stored, history, excused>>

-----------------------------------------------------------------------------
(* The other pulls start at once. *)
AskIncremental(r) ==
  /\ run[r] = Idle
  /\ run' = [run EXCEPT ![r] = [Idle EXCEPT !.at = "begin",
                                           !.kind = "incremental"]]
  /\ UNCHANGED <<world, marks, stored, history, excused>>

Pulls(k, from, to) ==
  [k EXCEPT !.at = "fetch", !.from = from, !.to = to, !.page = 1, !.errors = 0,
            !.began = clock,
            !.owed = k.owed \cup (Punches(Listed(from, to)) \ stored)]

(* queueCompanyPeriodPunchSync cuts the period into slices; the shift-grid *)
(* pull, the no-punch job and the pull of a period do not.                 *)
AskPeriod(r, period, sliced) ==
  LET from == period[1]
      to == period[2]
      end == IF sliced THEN Min({from + Slice - 1, to}) ELSE to
      k == [Idle EXCEPT !.kind = IF sliced THEN "slices" ELSE "range",
                        !.first = from, !.last = to]
  IN /\ run[r] = Idle
     /\ run' = [run EXCEPT ![r] = Pulls(k, from, end)]
     /\ UNCHANGED <<world, marks, stored, history, excused>>

(* queuePunchReportSync: nothing is pulled for a period that was covered   *)
(* recently, and a run whose message still names the branch is reused.     *)
CoveredRecently(period) == \E c \in coverage : c.period = period

AskReport(r, period) ==
  LET k == [Idle EXCEPT !.kind = "report", !.named = TRUE,
                        !.first = period[1], !.last = period[2]]
  IN /\ run[r] = Idle /\ ~CoveredRecently(period)
     /\ ~\E d \in Runs : run[d].kind = "report" /\ run[d].named
     /\ run' = [run EXCEPT ![r] = Pulls(k, period[1], period[2])]
     /\ UNCHANGED <<world, marks, stored, history, excused>>

-----------------------------------------------------------------------------
(* syncTransactionsIncremental *)

Begin(r) ==
  LET saw == cursor > 0 /\ Cardinality(stored) >= Few
      from == IF saw THEN cursor - Overlap
              ELSE IF Cardinality(stored) < Few THEN clock - Month
              ELSE clock - Day
  IN /\ run[r].at = "begin"
     /\ run' = [run EXCEPT ![r] = Pulls([run[r] EXCEPT !.last = clock, !.saw = saw],
                                        from, clock)]
     /\ UNCHANGED <<world, marks, stored, history, excused>>

(* One page of syncTransactions. *)

(* Mutant: the pull ends one page too early. *)
FetchShort(r) ==
  LET k == run[r]
      next == [k EXCEPT !.page = @ + 1]
      rows == Punches(Page(k))
  IN /\ k.at = "fetch"
     /\ stored' = stored \cup rows
     /\ run' = [run EXCEPT ![r] = [next EXCEPT
          !.errors = 0, !.named = FALSE, !.owed = k.owed \ rows,
          !.at = IF Rest(next) \subseteq Page(next) THEN "cover" ELSE "fetch"]]
     /\ UNCHANGED <<world, marks, history, excused>>

(* A row that cannot be written is passed over, and so is what lies beyond *)
(* the last page a pull reads.  The progress message takes the place of    *)
(* the one that names the branch.                                          *)
Fetch(r) ==
  LET k == run[r]
      rows == Punches(Page(k))
      isLast == Rest(k) \subseteq Page(k)
      cut == ~isLast /\ k.page = MaxPages
      beyond == IF cut THEN Punches(Rest(k)) \ rows ELSE {}
  IN /\ k.at = "fetch"
     /\ \E bad \in SUBSET rows :
          /\ stored' = stored \cup (rows \ bad)
          /\ skipped' = skipped \cup ((bad \cup beyond) \ stored)
          /\ run' = [run EXCEPT ![r] = [k EXCEPT
               !.at = IF isLast \/ cut THEN "cover" ELSE "fetch",
               !.page = IF isLast \/ cut THEN 1 ELSE k.page + 1,
               !.errors = 0, !.named = FALSE, !.owed = k.owed \ (rows \ bad)]]
     /\ UNCHANGED <<world, marks, late, jumped, missing, excused>>

(* A page that fails, with its retries, is passed over; the pull gives up  *)
(* after MaxErrors of them in a row and goes on as if it had all.          *)
FetchFails(r) ==
  LET k == run[r]
      over == k.errors + 1 = MaxErrors \/ k.page = MaxPages
      unread == Punches(IF over THEN Rest(k) ELSE Page(k))
  IN /\ k.at = "fetch"
     /\ skipped' = skipped \cup (unread \ stored)
     /\ run' = [run EXCEPT ![r] = [k EXCEPT
          !.at = IF over THEN "cover" ELSE "fetch",
          !.page = IF over THEN 1 ELSE k.page + 1,
          !.errors = IF over THEN 0 ELSE k.errors + 1]]
     /\ UNCHANGED <<world, marks, stored, late, jumped, missing, excused>>

(* recordTransactionRangeCoverage *)
Covers(k, from, to) ==
  /\ coverage' = coverage \cup
       {[period |-> p, at |-> clock] : p \in {q \in Periods : from <= q[1] /\ q[2] <= to}}
  /\ missing' = missing \cup (k.owed \ stored)

Cover(r) ==
  /\ run[r].at = "cover"
  /\ Covers(run[r], run[r].from, run[r].to)
  /\ Goes(r, "move")
  /\ UNCHANGED <<world, cursor, stuck, stored, late, skipped, jumped, excused>>

(* What the cursor passes over: times after it that the pull did not ask   *)
(* for, and those a pull of a period that ends in the future has not seen. *)
(* Only a pull that began at the cursor looked back over the overlap.      *)
Passed(k) ==
  LET back == IF k.saw THEN 0 ELSE Overlap
      seen == k.from .. Min({k.to, k.began - Overlap - 1})
  IN {t \in 2..MaxTime : cursor - back <= t /\ t < k.to - Overlap} \ seen

(* Mutant: the cursor goes to the time at which the pull ends. *)
MoveToNow(r) ==
  LET k == run[r] IN
  /\ k.at = "move"
  /\ cursor' = clock
  /\ jumped' = jumped \cup Passed(k)
  /\ IF k.to < k.last
     THEN /\ run' = [run EXCEPT ![r] = Pulls(k, k.to + 1, Min({k.to + Slice, k.last}))]
          /\ UNCHANGED excused
     ELSE IF k.kind \in {"slices", "report"}
          THEN Goes(r, "coverAll") /\ UNCHANGED excused
          ELSE Ends(r)
  /\ UNCHANGED <<world, coverage, stuck, stored, late, skipped, missing>>

(* The cursor goes to the end of the period; then the next slice, or the   *)
(* end of the pull.                                                        *)
MoveCursor(r) ==
  LET k == run[r] IN
  /\ k.at = "move"
  /\ cursor' = k.to
  /\ jumped' = jumped \cup Passed(k)
  /\ IF k.to < k.last
     THEN /\ run' = [run EXCEPT ![r] = Pulls(k, k.to + 1, Min({k.to + Slice, k.last}))]
          /\ UNCHANGED excused
     ELSE IF k.kind \in {"slices", "report"}
          THEN Goes(r, "coverAll") /\ UNCHANGED excused
          ELSE Ends(r)
  /\ UNCHANGED <<world, coverage, stuck, stored, late, skipped, missing>>

CoverAll(r) ==
  /\ run[r].at = "coverAll"
  /\ Covers(run[r], run[r].first, run[r].last)
  /\ Ends(r)
  /\ UNCHANGED <<world, cursor, stuck, stored, late, skipped, jumped>>

(* A call throws, and the row becomes failed; or the server stops, and it  *)
(* stays as it is.                                                         *)
Throw(r) ==
  /\ run[r] # Idle
  /\ Ends(r)
  /\ UNCHANGED <<world, marks, stored, history>>

Stop ==
  /\ stuck' = stuck \cup {run[r].started : r \in {d \in Runs : Holding(d)}}
  /\ run' = [r \in Runs |-> Idle]
  /\ excused' = {}
  /\ UNCHANGED <<world, cursor, coverage, stored, history>>

-----------------------------------------------------------------------------
Init ==
  /\ clock = 1 /\ cursor = 0
  /\ held = {} /\ stored = {} /\ coverage = {} /\ stuck = {}
  /\ log = <<>>
  /\ run = [r \in Runs |-> Idle]
  /\ late = {} /\ skipped = {} /\ jumped = {} /\ missing = {} /\ excused = {}

Ask(r) ==
  \/ \E how \in {"cron", "queued"} : CheckLock(r, how)
  \/ AskIncremental(r)
  \/ \E period \in Periods : \/ AskReport(r, period)
                             \/ \E sliced \in BOOLEAN : AskPeriod(r, period, sliced)

Work(r) ==
  \/ CreateRow(r) \/ TakeTurn(r) \/ Begin(r)
  \/ Fetch(r) \/ FetchFails(r)
  \/ Cover(r) \/ MoveCursor(r) \/ CoverAll(r) \/ Throw(r)

Next ==
  \/ Tick \/ Stop
  \/ \E t \in held : Upload(t)
  \/ \E r \in Runs : Ask(r) \/ Work(r)

Spec == Init /\ [][Next]_vars

-----------------------------------------------------------------------------
(* Properties. *)

(* When a period is marked as pulled, every punch BioTime held in it when  *)
(* the pull began is stored, but for those of failed pages                 *)
(* (sync.service.ts:705).                                                  *)
CoverageHolds == missing \subseteq skipped

(* A punch from before the window of the next incremental pull is stored:  *)
(* no incremental pull will look for it again.  The exceptions are those   *)
(* uploaded late, passed over with a failed page, or jumped by a pull of a *)
(* period that moved the cursor past them (sync.service.ts:709).           *)
NothingLost ==
  \A t \in Punches(DOMAIN log) : t < cursor - Overlap =>
    t \in stored \cup late \cup skipped \cup jumped

(* Of two full synchronisations at once, each started while the other was  *)
(* between its check and its row, or one had outlived the age at which     *)
(* its row stops locking (sync.service.ts:167).                            *)
OneSyncAtATime ==
  \A r, d \in Runs : r # d /\ Holding(r) /\ Holding(d) =>
    r \in excused \/ d \in excused

=============================================================================
