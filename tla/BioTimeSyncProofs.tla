-------------------------- MODULE BioTimeSyncProofs --------------------------
(***************************************************************************)
(* What the pulls keep for any number of them, any page size, any bounds   *)
(* on pages, errors, slices and ages, and any periods people ask for.      *)
(***************************************************************************)
EXTENDS BioTimeSync, FiniteSetTheorems, SequenceTheorems, TLAPS

Times == 2..MaxTime

Ats == {"idle", "create", "queued", "begin", "fetch", "cover", "move", "coverAll"}
Kinds == {"none", "cron", "queued", "incremental", "slices", "range", "report"}

RunRows == [at : Ats, kind : Kinds, from : Int, to : Int, first : Int, last : Int,
            page : Int, errors : Int, began : Int, saw : BOOLEAN, started : Int,
            owed : SUBSET Times, named : BOOLEAN]

Types ==
  /\ clock \in Nat \ {0}
  /\ cursor \in Int
  /\ held \subseteq Times
  /\ log \in Seq(Times)
  /\ run \in [Runs -> RunRows]

(* A full synchronisation from its check of the lock to its end. *)
Busy(k) == k.at = "create" \/ k.started > 0

Apart ==
  \A r, d \in Runs : r # d /\ Busy(run[r]) /\ Busy(run[d]) =>
    r \in excused \/ d \in excused

(* What a pull owes is stored, was passed over, or is still to be read. *)
Pays(k) ==
  IF k.at = "fetch" THEN k.owed \subseteq stored \cup skipped \cup Punches(Rest(k))
  ELSE k.owed \subseteq stored \cup skipped

(* What a pull has seen of its period, and what a pull that began at the   *)
(* cursor knows of the times before its window.                            *)
Sees(k) ==
  \A i \in DOMAIN log : k.from <= log[i] /\ log[i] <= k.to /\ log[i] < k.began - Overlap =>
    log[i] \in stored \cup late \cup k.owed

Continues(k) ==
  /\ k.to = k.began /\ k.last = k.began
  /\ \A i \in DOMAIN log : log[i] < k.from /\ log[i] < k.began - Overlap =>
       log[i] \in stored \cup late \cup skipped \cup jumped

Pull(k) ==
  /\ Pays(k)
  /\ k.at = "queued" => k.started > 0
  /\ k.at \in {"fetch", "cover", "move"} =>
       /\ k.began <= clock
       /\ Sees(k)
       /\ k.saw => Continues(k)

(* The cursor is ahead of the clock only over times it has jumped. *)
Ahead == \A t \in Times : t < cursor - Overlap => t \in jumped \/ t < clock - Overlap

Kept ==
  \A i \in DOMAIN log : log[i] < cursor - Overlap =>
    log[i] \in stored \cup late \cup skipped \cup jumped

AllPull == \A r \in Runs : Pull(run[r])

IInv == Types /\ Apart /\ AllPull /\ Ahead /\ Kept /\ CoverageHolds

-----------------------------------------------------------------------------
LEMMA MinOfTwo ==
  ASSUME NEW a \in Int, NEW b \in Int
  PROVE  /\ Min({a, b}) \in {a, b}
         /\ Min({a, b}) <= a /\ Min({a, b}) <= b
<1>1. \E x \in {a, b} : \A y \in {a, b} : x <= y
  <2>1. CASE a <= b
    BY <2>1
  <2>2. CASE ~(a <= b)
    BY <2>2
  <2> QED
    BY <2>1, <2>2
<1>2. /\ Min({a, b}) \in {a, b}
      /\ \A y \in {a, b} : Min({a, b}) <= y
  BY <1>1 DEF Min
<1> QED
  BY <1>2

LEMMA IdleRow == Idle \in RunRows
BY DEF Idle, RunRows, Ats, Kinds

LEMMA IdlePull == Pull(Idle) /\ ~Busy(Idle)
BY DEF Idle, Pull, Pays, Busy

(* Places and their ranks. *)
LEMMA Places ==
  ASSUME Types, NEW from, NEW to
  PROVE  /\ Listed(from, to) \subseteq DOMAIN log
         /\ DOMAIN log = 1..Len(log) /\ Len(log) \in Nat
         /\ \A i \in DOMAIN log : log[i] \in Times
         /\ Punches(Listed(from, to)) \subseteq Times
BY DEF Types, Listed, Punches

LEMMA Ranks ==
  ASSUME Types, NEW k, NEW i
  PROVE  Before(k, i) \in Nat
<1> DEFINE S == {j \in Listed(k.from, k.to) : j < i}
<1>1. IsFiniteSet(1..Len(log))
  BY FS_Interval, Places
<1>2. S \subseteq 1..Len(log)
  BY Places
<1>3. IsFiniteSet(S)
  BY <1>1, <1>2, FS_Subset
<1> QED
  BY <1>3, FS_CardinalityType DEF Before

(* The first page begins at the first place. *)
LEMMA FirstPage ==
  ASSUME SyncAssumption, Types, NEW k, k.page = 1
  PROVE  Rest(k) = Listed(k.from, k.to)
<1>1. (k.page - 1) * PageSize = 0
  BY DEF SyncAssumption
<1> QED
  BY <1>1, Ranks DEF Rest

(* What is not on a page is left for the following ones. *)
LEMMA NextPage ==
  ASSUME SyncAssumption, Types, NEW k, NEW m, k.page \in Int,
         m.from = k.from, m.to = k.to, m.page = k.page + 1
  PROVE  Rest(k) \subseteq Page(k) \cup Rest(m)
<1>1. m.page - 1 = k.page
  OBVIOUS
<1>2. \A i : Before(m, i) = Before(k, i)
  BY DEF Before
<1>3. PageSize \in Int /\ k.page * PageSize \in Int
  BY DEF SyncAssumption
<1> SUFFICES ASSUME NEW i \in Rest(k), i \notin Page(k)
             PROVE  i \in Rest(m)
  OBVIOUS
<1>4. i \in Listed(m.from, m.to) /\ Before(k, i) >= k.page * PageSize
  BY <1>3, Ranks DEF Rest, Page
<1> QED
  BY <1>1, <1>2, <1>4 DEF Rest

LEMMA PagesTyped ==
  ASSUME Types, NEW k
  PROVE  /\ Page(k) \subseteq Rest(k) /\ Rest(k) \subseteq DOMAIN log
         /\ Punches(Rest(k)) \subseteq Times /\ Punches(Page(k)) \subseteq Punches(Rest(k))
BY Places DEF Rest, Page, Listed, Punches

-----------------------------------------------------------------------------
(* What time and the other pulls do to a pull. *)
Arrives ==
  \/ log' = log
  \/ \E t \in Times : log' = Append(log, t) /\ (t \in late' \/ t >= clock - Overlap)

Grows ==
  /\ clock <= clock' /\ Arrives
  /\ stored \subseteq stored' /\ late \subseteq late'
  /\ skipped \subseteq skipped' /\ jumped \subseteq jumped'

LEMMA LogGrows ==
  ASSUME Types, Types', Arrives
  PROVE  /\ DOMAIN log \subseteq DOMAIN log'
         /\ \A i \in DOMAIN log : log'[i] = log[i]
         /\ \A i \in DOMAIN log' \ DOMAIN log :
              /\ i = Len(log) + 1
              /\ log'[i] \in late' \/ log'[i] >= clock - Overlap
<1>1. CASE log' = log
  BY <1>1
<1>2. ASSUME NEW t \in Times, log' = Append(log, t),
             t \in late' \/ t >= clock - Overlap
      PROVE  /\ DOMAIN log \subseteq DOMAIN log'
             /\ \A i \in DOMAIN log : log'[i] = log[i]
             /\ \A i \in DOMAIN log' \ DOMAIN log :
                  /\ i = Len(log) + 1
                  /\ log'[i] \in late' \/ log'[i] >= clock - Overlap
  <2>1. /\ Len(log') = Len(log) + 1
        /\ \A i \in 1..Len(log) : log'[i] = log[i]
        /\ log'[Len(log) + 1] = t
    BY <1>2, AppendProperties DEF Types
  <2>2. /\ DOMAIN log = 1..Len(log) /\ DOMAIN log' = 1..Len(log')
        /\ Len(log) \in Nat
    BY DEF Types
  <2> QED
    BY <1>2, <2>1, <2>2
<1> QED
  BY <1>1, <1>2 DEF Arrives

LEMMA RestGrows ==
  ASSUME SyncAssumption, Types, Types', Arrives, NEW k
  PROVE  Punches(Rest(k)) \subseteq Punches(Rest(k))'
<1>1. ASSUME NEW i \in DOMAIN log
      PROVE  /\ Before(k, i)' = Before(k, i)
             /\ i \in Listed(k.from, k.to) => i \in Listed(k.from, k.to)'
  <2>1. {j \in Listed(k.from, k.to)' : j < i} = {j \in Listed(k.from, k.to) : j < i}
    <3>1. DOMAIN log = 1..Len(log) /\ Len(log) \in Nat
      BY DEF Types
    <3>2. DOMAIN log' = 1..Len(log') /\ Len(log') \in Nat
      BY DEF Types
    <3>3. \A j \in DOMAIN log' : j < i => j \in DOMAIN log
      BY <3>1, <3>2
    <3> QED
      BY <3>3, LogGrows DEF Listed
  <2>2. i \in Listed(k.from, k.to) => i \in Listed(k.from, k.to)'
    BY LogGrows DEF Listed
  <2> QED
    BY <2>1, <2>2 DEF Before
<1>2. Rest(k) \subseteq DOMAIN log
  BY PagesTyped
<1>3. Rest(k) \subseteq Rest(k)'
  BY <1>1, <1>2 DEF Rest
<1> QED
  BY <1>2, <1>3, LogGrows DEF Punches

LEMMA PullKept ==
  ASSUME SyncAssumption, Types, Types', Grows, NEW k \in RunRows, Pull(k)
  PROVE  Pull(k)'
<1>1. Pays(k)'
  BY RestGrows DEF Pull, Pays, Grows
<1>2. ASSUME k.at \in {"fetch", "cover", "move"}
      PROVE  /\ k.began <= clock'
             /\ Sees(k)'
             /\ k.saw => Continues(k)'
  <2>1. k.began <= clock /\ Sees(k) /\ (k.saw => Continues(k))
    BY <1>2 DEF Pull
  <2>2. k.began \in Int /\ Overlap \in Int /\ clock \in Int /\ clock' \in Int
    BY DEF RunRows, SyncAssumption, Types
  <2>3. \A i \in DOMAIN log' : log'[i] \in Int
    BY Places DEF Types, Times
  <2>4. ASSUME NEW i \in DOMAIN log' \ DOMAIN log, log'[i] < k.began - Overlap
        PROVE  log'[i] \in late'
    <3>1. log'[i] \in late' \/ log'[i] >= clock - Overlap
      BY LogGrows DEF Grows
    <3> QED
      BY <2>1, <2>2, <2>3, <2>4, <3>1
  <2>5. Sees(k)'
    BY <2>1, <2>4, LogGrows DEF Sees, Grows
  <2>6. k.saw => Continues(k)'
    BY <2>1, <2>4, LogGrows DEF Continues, Grows
  <2> QED
    BY <2>1, <2>2, <2>5, <2>6 DEF Grows
<1> QED
  BY <1>1, <1>2 DEF Pull

-----------------------------------------------------------------------------
(* One pull changes its row. *)
Quiet == UNCHANGED <<clock, cursor, held, log>>

LEMMA Changes ==
  ASSUME SyncAssumption, Types, AllPull, Grows, clock' = clock, held' = held,
         log' = log, cursor' \in Int,
         NEW r \in Runs, NEW m \in RunRows, run' = [run EXCEPT ![r] = m], Pull(m)'
  PROVE  Types' /\ AllPull'
<1>1. Types'
  <2>1. run' \in [Runs -> RunRows]
    BY DEF Types
  <2>2. clock' \in Nat \ {0} /\ held' \subseteq Times /\ log' \in Seq(Times)
    BY DEF Types
  <2> QED
    BY <2>1, <2>2 DEF Types
<1>2. ASSUME NEW d \in Runs
      PROVE  Pull(run[d])'
  <2>1. CASE d = r
    <3>1. run'[d] = m
      BY <2>1 DEF Types
    <3> QED
      BY <3>1
  <2>2. CASE d # r
    <3>1. PICK k \in RunRows : k = run[d]
      BY DEF Types
    <3>2. Pull(k)
      BY <3>1 DEF AllPull
    <3>3. Pull(k)'
      BY <1>1, <3>2, PullKept
    <3>4. run'[d] = k
      BY <2>2, <3>1 DEF Types
    <3> QED
      BY <3>3, <3>4
  <2> QED
    BY <2>1, <2>2
<1> QED
  BY <1>1, <1>2 DEF AllPull

(* A pull of a period begins. *)
LEMMA PullsRow ==
  ASSUME SyncAssumption, Types, NEW k \in RunRows, NEW from \in Int, NEW to \in Int
  PROVE  LET m == Pulls(k, from, to)
         IN /\ m \in RunRows
            /\ m.at = "fetch" /\ m.from = from /\ m.to = to /\ m.page = 1
            /\ m.began = clock /\ m.saw = k.saw /\ m.last = k.last
            /\ m.started = k.started
            /\ m.owed = k.owed \cup (Punches(Listed(from, to)) \ stored)
<1> DEFINE new == k.owed \cup (Punches(Listed(from, to)) \ stored)
<1>1. new \in SUBSET Times
  BY Places DEF RunRows
<1>2. clock \in Int
  BY DEF Types
<1>3. "fetch" \in Ats
  BY DEF Ats
<1> HIDE DEF new
<1> DEFINE m1 == [k EXCEPT !.at = "fetch"]
           m2 == [m1 EXCEPT !.from = from]
           m3 == [m2 EXCEPT !.to = to]
           m4 == [m3 EXCEPT !.page = 1]
           m5 == [m4 EXCEPT !.errors = 0]
           m6 == [m5 EXCEPT !.began = clock]
           m7 == [m6 EXCEPT !.owed = new]
<1>4. Pulls(k, from, to) = m7
  BY DEF Pulls, new, RunRows
<1>5. m1 \in RunRows /\ m2 \in RunRows /\ m3 \in RunRows
  BY <1>3 DEF RunRows
<1> HIDE DEF m3
<1>7. m4 \in RunRows
  BY <1>5 DEF RunRows
<1> HIDE DEF m4
<1>8. m5 \in RunRows
  BY <1>7 DEF RunRows
<1> HIDE DEF m5
<1>9. m6 \in RunRows /\ m7 \in RunRows
  BY <1>1, <1>2, <1>8 DEF RunRows
<1> USE DEF m3, m4, m5
<1>6. /\ m7.at = "fetch" /\ m7.from = from /\ m7.to = to /\ m7.page = 1
      /\ m7.began = clock /\ m7.saw = k.saw /\ m7.last = k.last
      /\ m7.started = k.started /\ m7.owed = new
  BY DEF RunRows
<1> QED
  BY <1>4, <1>6, <1>9 DEF new

LEMMA PullsPull ==
  ASSUME SyncAssumption, Types, NEW k \in RunRows, NEW from \in Int, NEW to \in Int,
         k.owed \subseteq stored \cup skipped,
         k.saw => /\ to = clock /\ k.last = clock
                  /\ \A i \in DOMAIN log : log[i] < from /\ log[i] < clock - Overlap =>
                       log[i] \in stored \cup late \cup skipped \cup jumped
  PROVE  Pull(Pulls(k, from, to))
<1>1. PICK m : m = Pulls(k, from, to)
  OBVIOUS
<1>2. /\ m \in RunRows
      /\ m.at = "fetch" /\ m.from = from /\ m.to = to /\ m.page = 1
      /\ m.began = clock /\ m.saw = k.saw /\ m.last = k.last
      /\ m.owed = k.owed \cup (Punches(Listed(from, to)) \ stored)
  BY <1>1, PullsRow
<1>3. Rest(m) = Listed(from, to)
  BY <1>2, FirstPage
<1>4. Pays(m)
  BY <1>2, <1>3 DEF Pays
<1>5. Sees(m)
  BY <1>2 DEF Sees, Punches, Listed
<1>6. m.saw => Continues(m)
  BY <1>2 DEF Continues
<1>7. m.began <= clock
  BY <1>2 DEF Types
<1> QED
  BY <1>1, <1>2, <1>4, <1>5, <1>6, <1>7 DEF Pull

LEMMA ApartKept ==
  ASSUME Types, Apart, NEW r \in Runs, NEW m, run' = [run EXCEPT ![r] = m],
         \/ (Busy(m) => Busy(run[r])) /\ excused' = excused
         \/ ~Busy(m) /\ excused' = excused \ {r}
  PROVE  Apart'
<1> SUFFICES ASSUME NEW a \in Runs, NEW d \in Runs, a # d,
                    Busy(run'[a]), Busy(run'[d])
             PROVE  a \in excused' \/ d \in excused'
  BY DEF Apart, Busy
<1>1. \A x \in Runs : run'[x] = IF x = r THEN m ELSE run[x]
  BY DEF Types
<1>2. CASE (Busy(m) => Busy(run[r])) /\ excused' = excused
  <2>1. Busy(run[a]) /\ Busy(run[d])
    BY <1>1, <1>2
  <2> QED
    BY <1>2, <2>1 DEF Apart
<1>3. CASE ~Busy(m) /\ excused' = excused \ {r}
  <2>1. a # r /\ d # r
    BY <1>1, <1>3
  <2>2. Busy(run[a]) /\ Busy(run[d])
    BY <1>1, <2>1
  <2> QED
    BY <1>3, <2>1, <2>2 DEF Apart
<1> QED
  BY <1>2, <1>3

LEMMA CursorStays ==
  ASSUME SyncAssumption, IInv, Grows, cursor' = cursor, log' = log, clock' = clock
  PROVE  Ahead' /\ Kept'
BY DEF IInv, Grows, Ahead, Kept

(* A step of one pull that leaves the cursor where it is. *)
RunStep(r, m) ==
  /\ run' = [run EXCEPT ![r] = m]
  /\ UNCHANGED <<clock, held, log>>
  /\ stored \subseteq stored' /\ late \subseteq late'
  /\ skipped \subseteq skipped' /\ jumped \subseteq jumped'

LEMMA RunSteps ==
  ASSUME SyncAssumption, IInv, NEW r \in Runs, NEW m \in RunRows, RunStep(r, m), Pull(m)',
         cursor' \in Int, cursor' = cursor \/ (Ahead' /\ Kept'),
         missing' \subseteq skipped',
         \/ (Busy(m) => Busy(run[r])) /\ excused' = excused
         \/ ~Busy(m) /\ excused' = excused \ {r}
  PROVE  IInv'
<1>1. Grows
  BY DEF RunStep, Grows, Arrives, IInv, Types
<1>2. Types' /\ AllPull'
  BY <1>1, Changes DEF RunStep, IInv
<1>3. Apart'
  BY ApartKept DEF RunStep, IInv
<1>4. Ahead' /\ Kept'
  BY <1>1, CursorStays DEF RunStep
<1>5. CoverageHolds'
  BY DEF CoverageHolds
<1> QED
  BY <1>2, <1>3, <1>4, <1>5 DEF IInv

(* A row is the pull's own if nothing else has moved. *)
LEMMA StillPull ==
  ASSUME SyncAssumption, IInv, NEW m \in RunRows, Pull(m),
         UNCHANGED <<clock, held, log, stored, late, skipped>>, jumped \subseteq jumped',
         cursor' \in Int, run' \in [Runs -> RunRows]
  PROVE  Pull(m)'
<1>1. Types'
  BY DEF IInv, Types
<1>2. Grows
  BY DEF Grows, Arrives, IInv, Types
<1> QED
  BY <1>1, <1>2, PullKept DEF IInv

LEMMA OwnRow ==
  ASSUME IInv, NEW r \in Runs
  PROVE  run[r] \in RunRows /\ Pull(run[r])
BY DEF IInv, Types, AllPull

LEMMA RowChanged ==
  ASSUME Types, NEW r \in Runs, NEW m \in RunRows, run' = [run EXCEPT ![r] = m]
  PROVE  run' \in [Runs -> RunRows]
BY DEF Types

-----------------------------------------------------------------------------
(* A pull that does nothing yet owes nothing. *)
LEMMA RestPull ==
  ASSUME NEW m, m.at \notin {"fetch", "cover", "move", "queued"},
         m.owed \subseteq stored \cup skipped
  PROVE  Pull(m)
BY DEF Pull, Pays

(* The rows of pulls that were asked for. *)
LEMMA AskedRow ==
  ASSUME NEW at \in Ats, NEW kind \in Kinds
  PROVE  LET m == [Idle EXCEPT !.at = at, !.kind = kind]
         IN m \in RunRows /\ m.at = at /\ m.owed = {}
<1>1. PICK i \in RunRows : i = Idle
  BY IdleRow
<1>2. i.owed = {}
  BY <1>1 DEF Idle
<1> DEFINE a1 == [i EXCEPT !.at = at]
           a2 == [a1 EXCEPT !.kind = kind]
<1>3. a2 = [Idle EXCEPT !.at = at, !.kind = kind]
  BY <1>1 DEF RunRows
<1>4. a2 \in RunRows /\ a2.at = at /\ a2.owed = i.owed
  BY DEF RunRows
<1> HIDE DEF a2
<1> QED
  BY <1>2, <1>3, <1>4

LEMMA PeriodRow ==
  ASSUME NEW kind \in Kinds, NEW first \in Int, NEW last \in Int
  PROVE  LET m == [Idle EXCEPT !.kind = kind, !.first = first, !.last = last]
         IN m \in RunRows /\ m.owed = {} /\ ~m.saw /\ m.started = 0
<1>1. PICK i \in RunRows : i = Idle
  BY IdleRow
<1>2. i.owed = {} /\ i.saw = FALSE /\ i.started = 0
  BY <1>1 DEF Idle
<1> DEFINE b1 == [i EXCEPT !.kind = kind]
           b2 == [b1 EXCEPT !.first = first]
           b3 == [b2 EXCEPT !.last = last]
<1>3. b3 = [Idle EXCEPT !.kind = kind, !.first = first, !.last = last]
  BY <1>1 DEF RunRows
<1>4. b1 \in RunRows
  BY DEF RunRows
<1>5. b3.owed = i.owed /\ b3.saw = i.saw /\ b3.started = i.started
  BY DEF RunRows
<1> HIDE DEF b1
<1>6. b2 \in RunRows
  BY <1>4 DEF RunRows
<1> HIDE DEF b2
<1>7. b3 \in RunRows
  BY <1>6 DEF RunRows
<1> HIDE DEF b3
<1> QED
  BY <1>2, <1>3, <1>5, <1>7

LEMMA ReportRow ==
  ASSUME NEW kind \in Kinds, NEW first \in Int, NEW last \in Int
  PROVE  LET m == [Idle EXCEPT !.kind = kind, !.named = TRUE, !.first = first, !.last = last]
         IN m \in RunRows /\ m.owed = {} /\ ~m.saw /\ m.started = 0
<1>1. PICK i \in RunRows : i = [Idle EXCEPT !.kind = kind, !.first = first, !.last = last]
  BY PeriodRow
<1>2. i.owed = {} /\ i.saw = FALSE /\ i.started = 0
  BY <1>1 DEF Idle
<1> DEFINE m == [i EXCEPT !.named = TRUE]
<1>3. m = [Idle EXCEPT !.kind = kind, !.named = TRUE, !.first = first, !.last = last]
  BY <1>1 DEF Idle
<1>4. m \in RunRows
  BY DEF RunRows
<1>5. m.owed = i.owed /\ m.saw = i.saw /\ m.started = i.started
  BY DEF RunRows
<1> HIDE DEF m
<1> QED
  BY <1>2, <1>3, <1>4, <1>5

LEMMA CheckLockStep ==
  ASSUME SyncAssumption, IInv, NEW r \in Runs, NEW how \in {"cron", "queued"},
         CheckLock(r, how)
  PROVE  IInv'
<1>1. PICK m : m = [Idle EXCEPT !.at = "create", !.kind = how]
  OBVIOUS
<1>2. m \in RunRows /\ m.at = "create" /\ m.owed = {}
  <2>1. how \in Kinds /\ "create" \in Ats
    BY DEF Ats, Kinds
  <2> QED
    BY <1>1, <2>1, AskedRow
<1>3. run' = [run EXCEPT ![r] = m]
  BY <1>1 DEF CheckLock
<1>4. UNCHANGED <<clock, cursor, held, log, stored, late, skipped, jumped, missing>>
  BY DEF CheckLock, world, marks, history
<1>5. Types
  BY DEF IInv
<1>6. Pull(m)'
  <2>1. Pull(m)
    BY <1>2, RestPull
  <2>2. cursor' \in Int
    BY <1>4, <1>5 DEF Types
  <2> QED
    BY <1>2, <1>3, <1>4, <1>5, <2>1, <2>2, StillPull, RowChanged
<1>7. Grows
  BY <1>4, <1>5 DEF Grows, Arrives, Types
<1>8. Types' /\ AllPull'
  BY <1>2, <1>3, <1>4, <1>5, <1>6, <1>7, Changes DEF IInv, Types
<1>9. Apart'
  <2> SUFFICES ASSUME NEW a \in Runs, NEW d \in Runs, a # d,
                      Busy(run'[a]), Busy(run'[d])
               PROVE  a \in excused' \/ d \in excused'
    BY DEF Apart, Busy
  <2>1. excused \subseteq excused'
    BY DEF CheckLock
  <2>2. \A x \in Runs : x # r => run'[x] = run[x]
    BY <1>3, <1>5 DEF Types
  <2>3. \A x \in Runs : x # r /\ Busy(run[x]) => x \in Unseen(r)
    BY DEF CheckLock, Locked, Unseen, Busy, Holding
  <2>4. \A x \in Runs : x # r /\ Busy(run[x]) => x \in excused'
    BY <2>3 DEF CheckLock
  <2>5. CASE a # r
    BY <2>2, <2>4, <2>5
  <2>6. CASE d # r
    BY <2>2, <2>4, <2>6
  <2> QED
    BY <2>5, <2>6
<1>10. Ahead' /\ Kept'
  BY <1>4, <1>7, CursorStays
<1>11. CoverageHolds'
  BY <1>4 DEF IInv, CoverageHolds
<1> QED
  BY <1>8, <1>9, <1>10, <1>11 DEF IInv

LEMMA CreateRowStep ==
  ASSUME SyncAssumption, IInv, NEW r \in Runs, CreateRow(r)
  PROVE  IInv'
<1>1. PICK m : m = [run[r] EXCEPT !.started = clock, !.kind = "incremental",
                      !.at = IF run[r].kind = "queued" THEN "queued" ELSE "begin"]
  OBVIOUS
<1>2. run[r] \in RunRows /\ Pull(run[r])
  BY OwnRow
<1>3. clock \in Int /\ clock > 0
  BY DEF IInv, Types
<1>4. m \in RunRows
  <2>1. \A st \in Int, at \in {"queued", "begin"} :
          [run[r] EXCEPT !.started = st, !.kind = "incremental", !.at = at] \in RunRows
    BY <1>2 DEF RunRows, Ats, Kinds
  <2> QED
    BY <1>1, <1>3, <2>1
<1>5. /\ m.at \in {"queued", "begin"} /\ m.owed = run[r].owed /\ m.started = clock
  BY <1>1, <1>2 DEF RunRows
<1>6. run' = [run EXCEPT ![r] = m]
  BY <1>1 DEF CreateRow
<1>7. UNCHANGED <<clock, cursor, held, log, stored, late, skipped, jumped, missing, excused>>
  BY DEF CreateRow, world, marks, history
<1>8. cursor' \in Int /\ Types
  BY <1>7 DEF IInv, Types
<1>9. Pull(m)
  BY <1>2, <1>3, <1>5 DEF Pull, Pays, CreateRow
<1>10. Pull(m)'
  BY <1>4, <1>6, <1>7, <1>8, <1>9, StillPull, RowChanged
<1>11. Busy(run[r])
  BY DEF CreateRow, Busy
<1> QED
  BY <1>4, <1>6, <1>7, <1>8, <1>10, <1>11, RunSteps DEF RunStep, IInv, CoverageHolds

LEMMA TakeTurnStep ==
  ASSUME SyncAssumption, IInv, NEW r \in Runs, TakeTurn(r)
  PROVE  IInv'
<1>1. PICK m : m = [run[r] EXCEPT !.started = clock, !.at = "begin"]
  OBVIOUS
<1>2. run[r] \in RunRows /\ Pull(run[r])
  BY OwnRow
<1>3. clock \in Int
  BY DEF IInv, Types
<1>4. m \in RunRows /\ m.at = "begin" /\ m.owed = run[r].owed
  BY <1>1, <1>2, <1>3 DEF RunRows, Ats
<1>5. run' = [run EXCEPT ![r] = m]
  BY <1>1 DEF TakeTurn
<1>6. UNCHANGED <<clock, cursor, held, log, stored, late, skipped, jumped, missing, excused>>
  BY DEF TakeTurn, world, marks, history
<1>7. cursor' \in Int /\ Types
  BY <1>6 DEF IInv, Types
<1>8. Pull(m)
  BY <1>2, <1>4 DEF Pull, Pays, TakeTurn
<1>9. Pull(m)'
  BY <1>4, <1>5, <1>6, <1>7, <1>8, StillPull, RowChanged
<1>10. Busy(run[r])
  BY <1>2 DEF TakeTurn, Busy, Pull
<1> QED
  BY <1>4, <1>5, <1>6, <1>7, <1>9, <1>10, RunSteps DEF RunStep, IInv, CoverageHolds

-----------------------------------------------------------------------------
LEMMA PullsStep ==
  ASSUME SyncAssumption, IInv, NEW r \in Runs, NEW k \in RunRows, NEW from \in Int,
         NEW to \in Int, run' = [run EXCEPT ![r] = Pulls(k, from, to)],
         k.started > 0 => run[r].started > 0,
         k.owed \subseteq stored \cup skipped,
         k.saw => /\ to = clock /\ k.last = clock
                  /\ \A i \in DOMAIN log : log[i] < from /\ log[i] < clock - Overlap =>
                       log[i] \in stored \cup late \cup skipped \cup jumped,
         cursor' \in Int, cursor' = cursor \/ (Ahead' /\ Kept'),
         UNCHANGED <<clock, held, log, stored, late, skipped, missing, excused>>,
         jumped \subseteq jumped'
  PROVE  IInv'
<1>1. PICK m : m = Pulls(k, from, to)
  OBVIOUS
<1>2. Types
  BY DEF IInv
<1>3. m \in RunRows /\ m.at = "fetch" /\ m.started = k.started
  BY <1>1, <1>2, PullsRow
<1>4. Pull(m)
  BY <1>1, <1>2, PullsPull
<1>5. run' = [run EXCEPT ![r] = m]
  BY <1>1
<1>6. Pull(m)'
  BY <1>2, <1>3, <1>4, <1>5, StillPull, RowChanged
<1>7. Busy(m) => Busy(run[r])
  BY <1>3 DEF Busy
<1>8. RunStep(r, m)
  BY <1>5 DEF RunStep
<1>9. missing' \subseteq skipped'
  BY DEF IInv, CoverageHolds
<1> QED
  BY <1>3, <1>6, <1>7, <1>8, <1>9, RunSteps

LEMMA AskIncrementalStep ==
  ASSUME SyncAssumption, IInv, NEW r \in Runs, AskIncremental(r)
  PROVE  IInv'
<1>1. PICK m : m = [Idle EXCEPT !.at = "begin", !.kind = "incremental"]
  OBVIOUS
<1>2. m \in RunRows /\ m.at = "begin" /\ m.owed = {}
  <2>1. "incremental" \in Kinds /\ "begin" \in Ats
    BY DEF Ats, Kinds
  <2> QED
    BY <1>1, <2>1, AskedRow
<1>3. m.started = 0
  BY <1>1 DEF Idle
<1>4. run' = [run EXCEPT ![r] = m]
  BY <1>1 DEF AskIncremental
<1>5. UNCHANGED <<clock, cursor, held, log, stored, late, skipped, jumped, missing, excused>>
  BY DEF AskIncremental, world, marks, history
<1>6. cursor' \in Int /\ Types
  BY <1>5 DEF IInv, Types
<1>7. Pull(m)
  BY <1>2, RestPull
<1>8. Pull(m)'
  BY <1>2, <1>4, <1>5, <1>6, <1>7, StillPull, RowChanged
<1>9. ~Busy(m)
  BY <1>2, <1>3 DEF Busy
<1> QED
  BY <1>2, <1>4, <1>5, <1>6, <1>8, <1>9, RunSteps DEF RunStep, IInv, CoverageHolds

LEMMA AskPeriodStep ==
  ASSUME SyncAssumption, IInv, NEW r \in Runs, NEW period \in Periods,
         NEW sliced \in BOOLEAN, AskPeriod(r, period, sliced)
  PROVE  IInv'
<1> DEFINE from == period[1]
           to == period[2]
           end == IF sliced THEN Min({from + Slice - 1, to}) ELSE to
<1>1. from \in Int /\ to \in Int /\ Slice \in Int
  BY DEF SyncAssumption
<1>2. end \in Int
  <2>1. from + Slice - 1 \in Int
    BY <1>1
  <2> QED
    BY <1>1, <2>1, MinOfTwo
<1> HIDE DEF from, to
<1>10. PICK kind \in Kinds : kind = IF sliced THEN "slices" ELSE "range"
  BY DEF Kinds
<1>3. PICK k : k = [Idle EXCEPT !.kind = kind, !.first = from, !.last = to]
  OBVIOUS
<1>4. k \in RunRows /\ k.owed = {} /\ ~k.saw /\ k.started = 0
  BY <1>1, <1>3, PeriodRow
<1>5. run' = [run EXCEPT ![r] = Pulls(k, from, end)]
  BY <1>3, <1>10 DEF AskPeriod, from, to
<1>6. UNCHANGED <<clock, cursor, held, log, stored, late, skipped, jumped, missing, excused>>
  BY DEF AskPeriod, world, marks, history
<1>7. cursor' \in Int
  BY <1>6 DEF IInv, Types
<1> HIDE DEF end
<1>8. k.started > 0 => run[r].started > 0
  BY <1>4
<1>9. k.owed \subseteq stored \cup skipped
  BY <1>4
<1> QED
  BY <1>1, <1>2, <1>4, <1>5, <1>6, <1>7, <1>8, <1>9, PullsStep

LEMMA AskReportStep ==
  ASSUME SyncAssumption, IInv, NEW r \in Runs, NEW period \in Periods,
         AskReport(r, period)
  PROVE  IInv'
<1> DEFINE from == period[1]
           to == period[2]
<1>1. from \in Int /\ to \in Int
  BY DEF SyncAssumption
<1> HIDE DEF from, to
<1>2. PICK k : k = [Idle EXCEPT !.kind = "report", !.named = TRUE,
                                !.first = from, !.last = to]
  OBVIOUS
<1>3. k \in RunRows /\ k.owed = {} /\ ~k.saw /\ k.started = 0
  <2>1. "report" \in Kinds
    BY DEF Kinds
  <2> QED
    BY <1>1, <1>2, <2>1, ReportRow
<1>4. run' = [run EXCEPT ![r] = Pulls(k, from, to)]
  BY <1>2 DEF AskReport, from, to
<1>5. UNCHANGED <<clock, cursor, held, log, stored, late, skipped, jumped, missing, excused>>
  BY DEF AskReport, world, marks, history
<1>6. cursor' \in Int
  BY <1>5 DEF IInv, Types
<1>7. k.started > 0 => run[r].started > 0
  BY <1>3
<1>8. k.owed \subseteq stored \cup skipped
  BY <1>3
<1> QED
  BY <1>1, <1>3, <1>4, <1>5, <1>6, <1>7, <1>8, PullsStep

LEMMA BeginStep ==
  ASSUME SyncAssumption, IInv, NEW r \in Runs, Begin(r)
  PROVE  IInv'
<1> DEFINE saw == cursor > 0 /\ Cardinality(stored) >= Few
           from == IF saw THEN cursor - Overlap
                   ELSE IF Cardinality(stored) < Few THEN clock - Month
                   ELSE clock - Day
           k == [run[r] EXCEPT !.last = clock, !.saw = saw]
<1>1. run[r] \in RunRows /\ Pull(run[r])
  BY OwnRow
<1>2. clock \in Int /\ cursor \in Int /\ Types
  BY DEF IInv, Types
<1>3. {Overlap, Month, Day} \subseteq Int
  BY DEF SyncAssumption
<1>4. from \in Int
  BY <1>2, <1>3
<1>5. saw \in BOOLEAN
  OBVIOUS
<1> HIDE DEF saw
<1>6. k \in RunRows /\ k.owed = run[r].owed /\ k.started = run[r].started
  BY <1>1, <1>2, <1>5 DEF RunRows
<1>7. k.last = clock /\ k.saw = saw
  BY <1>1 DEF RunRows
<1>8. run' = [run EXCEPT ![r] = Pulls(k, from, clock)]
  BY DEF Begin, saw
<1>9. UNCHANGED <<clock, cursor, held, log, stored, late, skipped, jumped, missing, excused>>
  BY DEF Begin, world, marks, history
<1>10. run[r].owed \subseteq stored \cup skipped
  BY <1>1 DEF Begin, Pull, Pays
<1>11. saw => \A i \in DOMAIN log : log[i] < from /\ log[i] < clock - Overlap =>
                log[i] \in stored \cup late \cup skipped \cup jumped
  BY DEF IInv, Kept
<1>12. cursor' \in Int
  BY <1>2, <1>9
<1> HIDE DEF k, from
<1> QED
  BY <1>2, <1>4, <1>6, <1>7, <1>8, <1>9, <1>10, <1>11, <1>12, PullsStep

-----------------------------------------------------------------------------
(* What is left of a pull after a page. *)
LEMMA PageRead ==
  ASSUME SyncAssumption, IInv, NEW k \in RunRows, Pull(k), k.at = "fetch",
         NEW m \in RunRows, m.from = k.from, m.to = k.to, m.began = k.began,
         m.saw = k.saw, m.last = k.last, m.at \in {"fetch", "cover"},
         m.at = "fetch" => m.page = k.page + 1,
         UNCHANGED <<clock, log, late, jumped>>,
         stored \subseteq stored', skipped \subseteq skipped',
         k.owed \ m.owed \subseteq stored', m.owed \subseteq k.owed,
         Punches(IF m.at = "cover" THEN Rest(k) ELSE Page(k)) \subseteq
           stored' \cup skipped'
  PROVE  Pull(m)'
<1>1. Types
  BY DEF IInv
<1>2. Rest(m)' = Rest(m) /\ Punches(Rest(m))' = Punches(Rest(m))
  BY DEF Rest, Before, Listed, Punches
<1>3. ASSUME m.at = "cover" PROVE Pays(m)'
  <2>1. m.owed \subseteq stored' \cup skipped'
    BY <1>3 DEF Pull, Pays
  <2> QED
    BY <1>3, <2>1 DEF Pays
<1>4. ASSUME m.at = "fetch" PROVE Pays(m)'
  <2>1. k.page \in Int
    BY DEF RunRows
  <2>2. Rest(k) \subseteq Page(k) \cup Rest(m)
    BY <1>1, <1>4, <2>1, NextPage
  <2>3. Punches(Rest(k)) \subseteq Punches(Page(k)) \cup Punches(Rest(m))
    BY <2>2 DEF Punches
  <2>4. m.owed \subseteq stored' \cup skipped' \cup Punches(Rest(m))
    BY <1>4, <2>3 DEF Pull, Pays
  <2> QED
    BY <1>2, <1>4, <2>4 DEF Pays
<1>5. Pays(m)'
  BY <1>3, <1>4 DEF Pays
<1>6. k.began <= clock /\ Sees(k) /\ (k.saw => Continues(k))
  BY DEF Pull
<1>7. Sees(m)'
  BY <1>6 DEF Sees
<1>8. m.saw => Continues(m)'
  BY <1>6 DEF Continues
<1> QED
  BY <1>5, <1>6, <1>7, <1>8 DEF Pull

(* The row of a pull after a page, and after a page that failed. *)
Read(k, at, page, owed) ==
  [k EXCEPT !.at = at, !.page = page, !.errors = 0, !.named = FALSE, !.owed = owed]

Failed(k, at, page, errors) ==
  [k EXCEPT !.at = at, !.page = page, !.errors = errors]

LEMMA FetchRow ==
  ASSUME NEW k \in RunRows, NEW at \in Ats, NEW page \in Int, NEW owed \in SUBSET Times,
         NEW m, m = Read(k, at, page, owed)
  PROVE  /\ m \in RunRows /\ m.at = at /\ m.page = page /\ m.owed = owed
         /\ m.from = k.from /\ m.to = k.to /\ m.began = k.began /\ m.saw = k.saw
         /\ m.last = k.last /\ m.started = k.started
<1> DEFINE m1 == [k EXCEPT !.at = at]
           m2 == [m1 EXCEPT !.page = page]
           m3 == [m2 EXCEPT !.errors = 0]
           m4 == [m3 EXCEPT !.named = FALSE]
           m5 == [m4 EXCEPT !.owed = owed]
<1>1. m5 = m
  BY DEF RunRows, Read
<1>2. /\ m5.at = at /\ m5.page = page /\ m5.owed = owed
      /\ m5.from = k.from /\ m5.to = k.to /\ m5.began = k.began /\ m5.saw = k.saw
      /\ m5.last = k.last /\ m5.started = k.started
  BY DEF RunRows
<1>3. m1 \in RunRows
  BY DEF RunRows
<1> HIDE DEF m1
<1>4. m2 \in RunRows
  BY <1>3 DEF RunRows
<1> HIDE DEF m2
<1>5. m3 \in RunRows
  BY <1>4 DEF RunRows
<1> HIDE DEF m3
<1>6. m4 \in RunRows
  BY <1>5 DEF RunRows
<1> HIDE DEF m4
<1>7. m5 \in RunRows
  BY <1>6 DEF RunRows
<1> HIDE DEF m5
<1> QED
  BY <1>1, <1>2, <1>7

LEMMA FetchStep ==
  ASSUME SyncAssumption, IInv, NEW r \in Runs, Fetch(r)
  PROVE  IInv'
<1>1. PICK k \in RunRows : k = run[r] /\ Pull(k)
  BY OwnRow
<1> DEFINE rows == Punches(Page(k))
           isLast == Rest(k) \subseteq Page(k)
           cut == ~isLast /\ k.page = MaxPages
           beyond == IF cut THEN Punches(Rest(k)) \ rows ELSE {}
<1>2. k.at = "fetch" /\ UNCHANGED <<world, marks, late, jumped, missing, excused>>
  BY <1>1 DEF Fetch
<1>3. PICK bad \in SUBSET rows :
        /\ stored' = stored \cup (rows \ bad)
        /\ skipped' = skipped \cup ((bad \cup beyond) \ stored)
        /\ run' = [run EXCEPT ![r] = [k EXCEPT
             !.at = IF isLast \/ cut THEN "cover" ELSE "fetch",
             !.page = IF isLast \/ cut THEN 1 ELSE k.page + 1,
             !.errors = 0, !.named = FALSE, !.owed = k.owed \ (rows \ bad)]]
  BY <1>1 DEF Fetch
<1>4. PICK at \in Ats : at = IF isLast \/ cut THEN "cover" ELSE "fetch"
  BY DEF Ats
<1>5. k.page \in Int /\ k.owed \in SUBSET Times
  BY DEF RunRows
<1>6. PICK page \in Int : page = IF isLast \/ cut THEN 1 ELSE k.page + 1
  BY <1>5
<1>7. PICK owed \in SUBSET Times : owed = k.owed \ (rows \ bad)
  BY <1>5
<1>8. PICK m : m = Read(k, at, page, owed)
  OBVIOUS
<1>9. /\ m \in RunRows /\ m.at = at /\ m.page = page /\ m.owed = owed
      /\ m.from = k.from /\ m.to = k.to /\ m.began = k.began /\ m.saw = k.saw
      /\ m.last = k.last /\ m.started = k.started
  BY <1>8, FetchRow
<1>10. run' = [run EXCEPT ![r] = m]
  BY <1>3, <1>4, <1>6, <1>7, <1>8 DEF Read
<1>11. rows \subseteq stored' \cup skipped'
  BY <1>3
<1>12. at = "cover" => Punches(Rest(k)) \subseteq stored' \cup skipped'
  <2>1. CASE isLast
    <3>1. Punches(Rest(k)) \subseteq rows
      BY <2>1 DEF Punches
    <3> QED
      BY <1>11, <3>1
  <2>2. CASE cut
    BY <1>3, <1>11, <2>2
  <2> QED
    BY <1>4, <2>1, <2>2
<1>13. at \in {"fetch", "cover"} /\ (at = "fetch" => page = k.page + 1)
  BY <1>4, <1>6
<1>14. owed \subseteq k.owed /\ k.owed \ owed \subseteq stored'
  BY <1>3, <1>7
<1>15. UNCHANGED <<clock, cursor, held, log, late, jumped, missing, excused>>
  BY <1>2 DEF world, marks
<1>16. stored \subseteq stored' /\ skipped \subseteq skipped'
  BY <1>3
<1>17. Punches(IF m.at = "cover" THEN Rest(k) ELSE Page(k)) \subseteq stored' \cup skipped'
  BY <1>9, <1>11, <1>12
<1> HIDE DEF rows, isLast, cut, beyond
<1>18. Pull(m)'
  BY <1>1, <1>2, <1>9, <1>13, <1>14, <1>15, <1>16, <1>17, PageRead
<1>19. Busy(m) => Busy(run[r])
  BY <1>1, <1>9, <1>13 DEF Busy
<1>20. RunStep(r, m)
  BY <1>10, <1>15, <1>16 DEF RunStep
<1>21. missing' \subseteq skipped' /\ cursor' \in Int
  BY <1>15, <1>16 DEF IInv, CoverageHolds, Types
<1> QED
  BY <1>9, <1>15, <1>18, <1>19, <1>20, <1>21, RunSteps

LEMMA FailsRow ==
  ASSUME NEW k \in RunRows, NEW at \in Ats, NEW page \in Int, NEW errors \in Int,
         NEW m, m = Failed(k, at, page, errors)
  PROVE  /\ m \in RunRows /\ m.at = at /\ m.page = page /\ m.owed = k.owed
         /\ m.from = k.from /\ m.to = k.to /\ m.began = k.began /\ m.saw = k.saw
         /\ m.last = k.last /\ m.started = k.started
<1> DEFINE m1 == [k EXCEPT !.at = at]
           m2 == [m1 EXCEPT !.page = page]
           m3 == [m2 EXCEPT !.errors = errors]
<1>1. m3 = m
  BY DEF RunRows, Failed
<1>2. /\ m3.at = at /\ m3.page = page /\ m3.owed = k.owed
      /\ m3.from = k.from /\ m3.to = k.to /\ m3.began = k.began /\ m3.saw = k.saw
      /\ m3.last = k.last /\ m3.started = k.started
  BY DEF RunRows
<1>3. m1 \in RunRows
  BY DEF RunRows
<1> HIDE DEF m1
<1>4. m2 \in RunRows
  BY <1>3 DEF RunRows
<1> HIDE DEF m2
<1>5. m3 \in RunRows
  BY <1>4 DEF RunRows
<1> HIDE DEF m3
<1> QED
  BY <1>1, <1>2, <1>5

LEMMA FetchFailsStep ==
  ASSUME SyncAssumption, IInv, NEW r \in Runs, FetchFails(r)
  PROVE  IInv'
<1>1. PICK k \in RunRows : k = run[r] /\ Pull(k)
  BY OwnRow
<1> DEFINE over == k.errors + 1 = MaxErrors \/ k.page = MaxPages
           unread == Punches(IF over THEN Rest(k) ELSE Page(k))
<1>2. k.at = "fetch" /\ UNCHANGED <<world, marks, stored, late, jumped, missing, excused>>
  BY <1>1 DEF FetchFails
<1>3. /\ skipped' = skipped \cup (unread \ stored)
      /\ run' = [run EXCEPT ![r] = [k EXCEPT
           !.at = IF over THEN "cover" ELSE "fetch",
           !.page = IF over THEN 1 ELSE k.page + 1,
           !.errors = IF over THEN 0 ELSE k.errors + 1]]
  BY <1>1 DEF FetchFails
<1>4. PICK at \in Ats : at = IF over THEN "cover" ELSE "fetch"
  BY DEF Ats
<1>5. k.page \in Int /\ k.errors \in Int
  BY DEF RunRows
<1>6. PICK page \in Int : page = IF over THEN 1 ELSE k.page + 1
  BY <1>5
<1>7. PICK errors \in Int : errors = IF over THEN 0 ELSE k.errors + 1
  BY <1>5
<1>8. PICK m : m = Failed(k, at, page, errors)
  OBVIOUS
<1>9. /\ m \in RunRows /\ m.at = at /\ m.page = page /\ m.owed = k.owed
      /\ m.from = k.from /\ m.to = k.to /\ m.began = k.began /\ m.saw = k.saw
      /\ m.last = k.last /\ m.started = k.started
  <2>1. k \in RunRows /\ at \in Ats /\ page \in Int /\ errors \in Int
    OBVIOUS
  <2> HIDE DEF over, unread
  <2> QED
    BY <1>8, <2>1, FailsRow
<1>10. run' = [run EXCEPT ![r] = m]
  BY <1>3, <1>4, <1>6, <1>7, <1>8 DEF Failed
<1>11. at \in {"fetch", "cover"} /\ (at = "fetch" => page = k.page + 1)
  BY <1>4, <1>6
<1>12. UNCHANGED <<clock, cursor, held, log, stored, late, jumped, missing, excused>>
  BY <1>2 DEF world, marks
<1>13. stored \subseteq stored' /\ skipped \subseteq skipped'
  BY <1>3, <1>12
<1>14. Punches(IF m.at = "cover" THEN Rest(k) ELSE Page(k)) \subseteq stored' \cup skipped'
  BY <1>3, <1>4, <1>9, <1>12
<1> HIDE DEF over, unread
<1>15. Pull(m)'
  BY <1>1, <1>2, <1>9, <1>11, <1>12, <1>13, <1>14, PageRead
<1>16. Busy(m) => Busy(run[r])
  BY <1>1, <1>9, <1>11 DEF Busy
<1>17. RunStep(r, m)
  BY <1>10, <1>12, <1>13 DEF RunStep
<1>18. missing' \subseteq skipped' /\ cursor' \in Int
  BY <1>12, <1>13 DEF IInv, CoverageHolds, Types
<1> QED
  BY <1>9, <1>12, <1>15, <1>16, <1>17, <1>18, RunSteps

-----------------------------------------------------------------------------
LEMMA CoverStep ==
  ASSUME SyncAssumption, IInv, NEW r \in Runs, Cover(r)
  PROVE  IInv'
<1>1. PICK k \in RunRows : k = run[r] /\ Pull(k)
  BY OwnRow
<1>2. PICK m : m = [k EXCEPT !.at = "move"]
  OBVIOUS
<1>3. /\ m \in RunRows /\ m.at = "move" /\ m.owed = k.owed /\ m.from = k.from
      /\ m.to = k.to /\ m.began = k.began /\ m.saw = k.saw /\ m.last = k.last
      /\ m.started = k.started
  BY <1>2 DEF RunRows, Ats
<1>4. k.at = "cover" /\ run' = [run EXCEPT ![r] = m]
  BY <1>1, <1>2 DEF Cover, Goes
<1>5. UNCHANGED <<clock, cursor, held, log, stored, late, skipped, jumped, excused>>
  BY DEF Cover, world
<1>6. missing' = missing \cup (k.owed \ stored)
  BY <1>1 DEF Cover, Covers
<1>7. Pull(m)
  BY <1>1, <1>3, <1>4 DEF Pull, Pays, Sees, Continues
<1>8. cursor' \in Int /\ Types
  BY <1>5 DEF IInv, Types
<1>9. Pull(m)'
  BY <1>3, <1>4, <1>5, <1>7, <1>8, StillPull, RowChanged
<1>10. missing' \subseteq skipped'
  BY <1>1, <1>4, <1>5, <1>6 DEF Pull, Pays, IInv, CoverageHolds
<1>11. Busy(m) => Busy(run[r])
  BY <1>1, <1>3 DEF Busy
<1>12. RunStep(r, m)
  BY <1>4, <1>5 DEF RunStep
<1> QED
  BY <1>3, <1>5, <1>8, <1>9, <1>10, <1>11, <1>12, RunSteps

LEMMA EndStep ==
  ASSUME SyncAssumption, IInv, NEW r \in Runs, run' = [run EXCEPT ![r] = Idle],
         excused' = excused \ {r}, cursor' \in Int, cursor' = cursor \/ (Ahead' /\ Kept'),
         UNCHANGED <<clock, held, log, stored, late, skipped>>,
         jumped \subseteq jumped', missing' \subseteq skipped'
  PROVE  IInv'
<1>1. PICK m \in RunRows : m = Idle
  BY IdleRow
<1>2. Pull(m) /\ ~Busy(m)
  BY <1>1, IdlePull
<1>3. run' = [run EXCEPT ![r] = m]
  BY <1>1
<1>4. Types
  BY DEF IInv
<1>5. Pull(m)'
  BY <1>2, <1>3, <1>4, StillPull, RowChanged
<1>6. RunStep(r, m)
  BY <1>3 DEF RunStep
<1> QED
  BY <1>2, <1>5, <1>6, RunSteps

LEMMA CoverAllStep ==
  ASSUME SyncAssumption, IInv, NEW r \in Runs, CoverAll(r)
  PROVE  IInv'
<1>1. UNCHANGED <<clock, cursor, held, log, stored, late, skipped, jumped>>
  BY DEF CoverAll, world
<1>2. missing' \subseteq skipped'
  <2>1. run[r].owed \subseteq stored \cup skipped
    BY OwnRow DEF CoverAll, Pull, Pays
  <2> QED
    BY <1>1, <2>1 DEF CoverAll, Covers, IInv, CoverageHolds
<1>3. run' = [run EXCEPT ![r] = Idle] /\ excused' = excused \ {r}
  BY DEF CoverAll, Ends
<1>4. cursor' \in Int
  BY <1>1 DEF IInv, Types
<1> QED
  BY <1>1, <1>2, <1>3, <1>4, EndStep

LEMMA ThrowStep ==
  ASSUME SyncAssumption, IInv, NEW r \in Runs, Throw(r)
  PROVE  IInv'
<1>1. UNCHANGED <<clock, cursor, held, log, stored, late, skipped, jumped, missing>>
  BY DEF Throw, world, marks, history
<1>2. run' = [run EXCEPT ![r] = Idle] /\ excused' = excused \ {r}
  BY DEF Throw, Ends
<1>3. missing' \subseteq skipped' /\ cursor' \in Int
  BY <1>1 DEF IInv, CoverageHolds, Types
<1> QED
  BY <1>1, <1>2, <1>3, EndStep

-----------------------------------------------------------------------------
(* A time the cursor moves over was below it, was in the pull's own period *)
(* and old enough when the pull began, or is before the window of a pull   *)
(* that began at the cursor.                                               *)
LEMMA MovedOver ==
  ASSUME SyncAssumption, IInv, NEW k \in RunRows, Pull(k), k.at = "move",
         NEW t \in Times, t < k.to - Overlap, t \notin Passed(k)
  PROVE  \/ t < cursor - Overlap
         \/ k.from <= t /\ t <= k.to /\ t < k.began - Overlap
         \/ k.saw /\ t < k.from /\ t < k.began - Overlap
<1> DEFINE bound == Min({k.to, k.began - Overlap - 1})
<1>1. /\ t \in Int /\ k.to \in Int /\ k.from \in Int /\ k.began \in Int
      /\ Overlap \in Nat /\ cursor \in Int /\ t \in 2..MaxTime
  BY DEF Times, RunRows, SyncAssumption, IInv, Types
<1>2. k.began - Overlap - 1 \in Int
  BY <1>1
<1>3. /\ bound \in Int /\ bound <= k.to /\ bound <= k.began - Overlap - 1
      /\ bound = k.to \/ bound = k.began - Overlap - 1
  BY <1>1, <1>2, MinOfTwo
<1>4. Passed(k) = {x \in 2..MaxTime :
                     cursor - (IF k.saw THEN 0 ELSE Overlap) <= x /\ x < k.to - Overlap}
                  \ (k.from .. bound)
  BY DEF Passed
<1>5. k.saw => k.to = k.began
  BY DEF Pull, Continues
<1> HIDE DEF bound
<1>6. CASE t \in k.from .. bound
  BY <1>1, <1>3, <1>6
<1>7. CASE t \notin k.from .. bound
  <2>1. t < cursor - (IF k.saw THEN 0 ELSE Overlap)
    BY <1>1, <1>4, <1>7
  <2>2. CASE ~k.saw
    BY <2>1, <2>2
  <2>3. CASE k.saw
    <3>1. t < k.began - Overlap /\ t <= k.to
      BY <1>1, <1>5, <2>3
    <3> QED
      BY <1>1, <2>3, <3>1
  <2> QED
    BY <2>2, <2>3
<1> QED
  BY <1>6, <1>7

LEMMA CursorMoves ==
  ASSUME SyncAssumption, IInv, NEW k \in RunRows, Pull(k), k.at = "move",
         cursor' = k.to, jumped' = jumped \cup Passed(k),
         UNCHANGED <<clock, log, stored, late, skipped>>
  PROVE  cursor' \in Int /\ Ahead' /\ Kept'
<1>1. cursor' \in Int
  BY DEF RunRows
<1>2. k.began <= clock /\ Sees(k) /\ (k.saw => Continues(k))
  BY DEF Pull
<1>3. k.began \in Int /\ clock \in Int /\ Overlap \in Int
  BY DEF RunRows, IInv, Types, SyncAssumption
<1>4. Ahead'
  <2> SUFFICES ASSUME NEW t \in Times, t < k.to - Overlap, t \notin jumped'
               PROVE  t < clock - Overlap
    BY DEF Ahead
  <2>1. CASE t < cursor - Overlap
    BY <2>1 DEF IInv, Ahead
  <2>2. CASE t < k.began - Overlap
    BY <1>2, <1>3, <2>2 DEF Times
  <2> QED
    BY <2>1, <2>2, MovedOver
<1>5. Kept'
  <2> SUFFICES ASSUME NEW i \in DOMAIN log, log[i] < k.to - Overlap, log[i] \notin jumped'
               PROVE  log[i] \in stored \cup late \cup skipped \cup jumped
    BY DEF Kept
  <2>1. log[i] \in Times /\ log[i] \notin Passed(k)
    BY Places DEF IInv
  <2>2. CASE log[i] < cursor - Overlap
    BY <2>2 DEF IInv, Kept
  <2>3. CASE k.from <= log[i] /\ log[i] <= k.to /\ log[i] < k.began - Overlap
    <3>1. log[i] \in stored \cup late \cup k.owed
      BY <1>2, <2>3 DEF Sees
    <3> QED
      BY <3>1 DEF Pull, Pays
  <2>4. CASE k.saw /\ log[i] < k.from /\ log[i] < k.began - Overlap
    BY <1>2, <2>4 DEF Continues
  <2> QED
    BY <2>1, <2>2, <2>3, <2>4, MovedOver
<1> QED
  BY <1>1, <1>4, <1>5

LEMMA MoveCursorStep ==
  ASSUME SyncAssumption, IInv, NEW r \in Runs, MoveCursor(r)
  PROVE  IInv'
<1>1. PICK k \in RunRows : k = run[r] /\ Pull(k)
  BY OwnRow
<1>2. k.at = "move" /\ cursor' = k.to /\ jumped' = jumped \cup Passed(k)
  BY <1>1 DEF MoveCursor
<1>3. UNCHANGED <<clock, held, log, stored, late, skipped, missing>>
  BY DEF MoveCursor, world
<1>4. cursor' \in Int /\ Ahead' /\ Kept'
  BY <1>1, <1>2, <1>3, CursorMoves
<1>5. missing' \subseteq skipped'
  BY <1>3 DEF IInv, CoverageHolds
<1>6. jumped \subseteq jumped'
  BY <1>2
<1>7. CASE k.to < k.last
  <2>1. /\ run' = [run EXCEPT ![r] = Pulls(k, k.to + 1, Min({k.to + Slice, k.last}))]
        /\ excused' = excused
    BY <1>1, <1>7 DEF MoveCursor
  <2>2. k.to \in Int /\ k.last \in Int /\ Slice \in Int
    BY DEF RunRows, SyncAssumption
  <2>3. k.to + 1 \in Int /\ k.to + Slice \in Int
    BY <2>2
  <2>4. Min({k.to + Slice, k.last}) \in Int
    BY <2>2, <2>3, MinOfTwo
  <2>5. ~k.saw
    BY <1>1, <1>2, <1>7, <2>2 DEF Pull, Continues
  <2>6. k.owed \subseteq stored \cup skipped
    BY <1>1, <1>2 DEF Pull, Pays
  <2>7. k.started > 0 => run[r].started > 0
    BY <1>1
  <2> QED
    BY <1>3, <1>4, <1>5, <1>6, <2>1, <2>3, <2>4, <2>5, <2>6, <2>7, PullsStep
<1>8. CASE ~(k.to < k.last) /\ k.kind \in {"slices", "report"}
  <2>1. PICK m : m = [k EXCEPT !.at = "coverAll"]
    OBVIOUS
  <2>2. m \in RunRows /\ m.at = "coverAll" /\ m.owed = k.owed /\ m.started = k.started
    BY <2>1 DEF RunRows, Ats
  <2>3. run' = [run EXCEPT ![r] = m] /\ excused' = excused
    BY <1>1, <1>8, <2>1 DEF MoveCursor, Goes
  <2>4. Pull(m)
    BY <1>1, <1>2, <2>2, RestPull DEF Pull, Pays
  <2>5. Types
    BY DEF IInv
  <2>6. Pull(m)'
    BY <1>3, <1>4, <1>6, <2>2, <2>3, <2>4, <2>5, StillPull, RowChanged
  <2>7. Busy(m) => Busy(run[r])
    BY <1>1, <2>2 DEF Busy
  <2>8. RunStep(r, m)
    BY <1>3, <1>6, <2>3 DEF RunStep
  <2> QED
    BY <1>4, <1>5, <2>2, <2>3, <2>6, <2>7, <2>8, RunSteps
<1>9. CASE ~(k.to < k.last) /\ k.kind \notin {"slices", "report"}
  <2>1. run' = [run EXCEPT ![r] = Idle] /\ excused' = excused \ {r}
    BY <1>1, <1>9 DEF MoveCursor, Ends
  <2> QED
    BY <1>3, <1>4, <1>5, <1>6, <2>1, EndStep
<1> QED
  BY <1>7, <1>8, <1>9

-----------------------------------------------------------------------------
(* Steps of the world. *)
LEMMA WorldStep ==
  ASSUME SyncAssumption, IInv, Types', Grows, Ahead', Kept',
         UNCHANGED <<run, skipped, missing, excused>>
  PROVE  IInv'
<1>1. ASSUME NEW r \in Runs PROVE Pull(run[r])'
  <2>1. PICK k \in RunRows : k = run[r] /\ Pull(k)
    BY OwnRow
  <2>2. Pull(k)'
    BY <2>1, PullKept DEF IInv
  <2> QED
    BY <2>1, <2>2
<1>2. Apart' /\ CoverageHolds'
  BY DEF IInv, Apart, CoverageHolds
<1> QED
  BY <1>1, <1>2 DEF IInv, AllPull

LEMMA TickStep ==
  ASSUME SyncAssumption, IInv, Tick
  PROVE  IInv'
<1>1. /\ clock \in Nat \ {0} /\ clock < MaxTime /\ clock' = clock + 1
      /\ MaxTime \in Nat /\ Overlap \in Nat /\ cursor \in Int
  BY DEF Tick, IInv, Types, SyncAssumption
<1>2. clock' \in Times
  BY <1>1 DEF Times
<1>3. UNCHANGED <<cursor, stored, run, late, skipped, jumped, missing, excused>>
  BY DEF Tick, history
<1>4. held' \subseteq Times
  BY <1>2 DEF Tick, IInv, Types
<1>5. log' = log \/ log' = Append(log, clock')
  BY DEF Tick
<1>6. log' \in Seq(Times)
  <2>1. log \in Seq(Times)
    BY DEF IInv, Types
  <2>2. \A t \in Times : Append(log, t) \in Seq(Times)
    BY <2>1, AppendProperties
  <2> QED
    BY <1>2, <1>5, <2>1, <2>2
<1>7. Types'
  BY <1>1, <1>3, <1>4, <1>6 DEF IInv, Types
<1>8. clock' >= clock - Overlap
  BY <1>1
<1>9. Arrives
  BY <1>2, <1>5, <1>8 DEF Arrives
<1>10. Grows
  BY <1>1, <1>3, <1>9 DEF Grows
<1>11. Ahead'
  BY <1>1, <1>3 DEF IInv, Ahead, Times
<1>12. Kept'
  <2> SUFFICES ASSUME NEW i \in DOMAIN log', log'[i] < cursor - Overlap
               PROVE  log'[i] \in stored \cup late \cup skipped \cup jumped
    BY <1>3 DEF Kept
  <2>1. CASE i \in DOMAIN log
    <3>1. log'[i] = log[i]
      BY <1>7, <1>9, <2>1, LogGrows DEF IInv
    <3> QED
      BY <2>1, <3>1 DEF IInv, Kept
  <2>2. CASE i \notin DOMAIN log
    <3>1. log' = Append(log, clock')
      BY <1>5, <2>2
    <3>2. i = Len(log) + 1
      BY <1>7, <1>9, <2>2, LogGrows DEF IInv
    <3>3. log'[i] = clock'
      BY <1>2, <3>1, <3>2, AppendProperties DEF IInv, Types
    <3>4. clock' \in jumped \/ clock' < clock - Overlap
      BY <1>2, <3>3 DEF IInv, Ahead
    <3> QED
      BY <1>1, <3>3, <3>4
  <2> QED
    BY <2>1, <2>2
<1> QED
  BY <1>3, <1>7, <1>10, <1>11, <1>12, WorldStep

LEMMA UploadStep ==
  ASSUME SyncAssumption, IInv, NEW t \in held, Upload(t)
  PROVE  IInv'
<1>1. t \in Times /\ clock \in Nat /\ Overlap \in Nat /\ t \in Int
  BY DEF IInv, Types, SyncAssumption, Times
<1>2. /\ log' = Append(log, t) /\ held' = held \ {t}
      /\ late' = IF clock > t + Overlap THEN late \cup {t} ELSE late
      /\ UNCHANGED <<clock, cursor, stored, run, skipped, jumped, missing, excused>>
  BY DEF Upload, marks
<1>3. log' \in Seq(Times)
  BY <1>1, <1>2, AppendProperties DEF IInv, Types
<1>4. Types'
  BY <1>2, <1>3 DEF IInv, Types
<1>5. t \in late' \/ t >= clock - Overlap
  BY <1>1, <1>2
<1>6. Arrives
  BY <1>1, <1>2, <1>5 DEF Arrives
<1>7. Grows
  BY <1>1, <1>2, <1>6 DEF Grows
<1>8. Ahead'
  BY <1>2 DEF IInv, Ahead
<1>9. Kept'
  <2> SUFFICES ASSUME NEW i \in DOMAIN log', log'[i] < cursor - Overlap
               PROVE  log'[i] \in stored \cup late' \cup skipped \cup jumped
    BY <1>2 DEF Kept
  <2>1. CASE i \in DOMAIN log
    <3>1. log'[i] = log[i]
      BY <1>4, <1>6, <2>1, LogGrows DEF IInv
    <3>2. late \subseteq late'
      BY <1>2
    <3> QED
      BY <2>1, <3>1, <3>2 DEF IInv, Kept
  <2>2. CASE i \notin DOMAIN log
    <3>1. i = Len(log) + 1
      BY <1>4, <1>6, <2>2, LogGrows DEF IInv
    <3>2. log'[i] = t
      BY <1>1, <1>2, <3>1, AppendProperties DEF IInv, Types
    <3>3. t \in jumped \/ t < clock - Overlap
      BY <1>1, <3>2 DEF IInv, Ahead
    <3> QED
      BY <1>1, <1>5, <3>2, <3>3
  <2> QED
    BY <2>1, <2>2
<1> QED
  BY <1>2, <1>4, <1>7, <1>8, <1>9, WorldStep

LEMMA StopStep ==
  ASSUME SyncAssumption, IInv, Stop
  PROVE  IInv'
<1>1. UNCHANGED <<clock, held, log, cursor, stored, late, skipped, jumped, missing>>
  BY DEF Stop, world, history
<1>2. run' = [d \in Runs |-> Idle]
  BY DEF Stop
<1>3. Types'
  BY <1>1, <1>2, IdleRow DEF IInv, Types
<1>4. \A d \in Runs : run'[d] = Idle
  BY <1>2
<1>5. PICK i \in RunRows : i = Idle
  BY IdleRow
<1>6. Grows
  BY <1>1 DEF Grows, Arrives, IInv, Types
<1>7. Pull(i)'
  BY <1>3, <1>5, <1>6, IdlePull, PullKept DEF IInv
<1>8. AllPull'
  BY <1>4, <1>5, <1>7 DEF AllPull
<1>9. Apart'
  BY <1>4, IdlePull DEF Apart, Busy
<1>10. Ahead' /\ Kept'
  BY <1>1, <1>6, CursorStays
<1> QED
  BY <1>1, <1>3, <1>8, <1>9, <1>10 DEF IInv, CoverageHolds

-----------------------------------------------------------------------------
(* The invariant holds at the start and every step keeps it. *)
LEMMA InitIInv ==
  ASSUME SyncAssumption, Init
  PROVE  IInv
<1>1. run \in [Runs -> RunRows] /\ \A r \in Runs : run[r] = Idle
  BY IdleRow DEF Init
<1>2. Types
  BY <1>1, EmptySeq DEF Init, Types
<1>3. DOMAIN log = {}
  BY DEF Init
<1>4. AllPull
  BY <1>1, IdlePull DEF AllPull
<1>5. Apart
  BY <1>1, IdlePull DEF Apart
<1>6. Ahead
  BY DEF Init, Ahead, Times, SyncAssumption
<1>7. Kept /\ CoverageHolds
  BY <1>3 DEF Init, Kept, CoverageHolds
<1> QED
  BY <1>2, <1>4, <1>5, <1>6, <1>7 DEF IInv

LEMMA NextIInv ==
  ASSUME SyncAssumption, IInv, [Next]_vars
  PROVE  IInv'
<1>1. CASE Tick
  BY <1>1, TickStep
<1>2. CASE Stop
  BY <1>2, StopStep
<1>3. CASE \E t \in held : Upload(t)
  BY <1>3, UploadStep
<1>4. ASSUME NEW r \in Runs, Ask(r) PROVE IInv'
  BY <1>4, CheckLockStep, AskIncrementalStep, AskPeriodStep, AskReportStep DEF Ask
<1>5. ASSUME NEW r \in Runs, Work(r) PROVE IInv'
  BY <1>5, CreateRowStep, TakeTurnStep, BeginStep, FetchStep, FetchFailsStep,
     CoverStep, MoveCursorStep, CoverAllStep, ThrowStep DEF Work
<1>6. CASE UNCHANGED vars
  <2>1. UNCHANGED <<clock, held, log, cursor, stored, run, late, skipped, jumped,
                    missing, excused>>
    BY <1>6 DEF vars, world, marks, history
  <2>2. Types'
    BY <2>1 DEF IInv, Types
  <2>3. Grows
    BY <2>1 DEF Grows, Arrives, IInv, Types
  <2>4. Ahead' /\ Kept'
    BY <2>1, <2>3, CursorStays
  <2> QED
    BY <2>1, <2>2, <2>3, <2>4, WorldStep
<1> QED
  BY <1>1, <1>2, <1>3, <1>4, <1>5, <1>6 DEF Next

(* In every reachable state a pull owes only punches that are stored, were *)
(* passed over or are still to be read, has seen the old punches of its    *)
(* period, and the cursor is ahead of the clock only over times a pull of  *)
(* a period that ends later made it jump (sync.service.ts:523-709).        *)
THEOREM SyncInvariant == Spec => []IInv
<1>1. Init => IInv
  BY InitIInv, SyncAssumption
<1>2. IInv /\ [Next]_vars => IInv'
  BY NextIInv, SyncAssumption
<1> QED
  BY <1>1, <1>2, PTL DEF Spec

(* However many pulls are under way and whatever pages fail, when a period *)
(* is marked as covered every punch BioTime held in it when the pull began *)
(* is stored or was passed over with a failed page (sync.service.ts:705).  *)
THEOREM CoverageIsTrue == Spec => []CoverageHolds
<1>1. IInv => CoverageHolds
  BY DEF IInv
<1> QED
  BY <1>1, SyncInvariant, PTL

(* A punch older than the window of the next incremental pull is stored,   *)
(* whatever pulls moved the cursor and in whatever order they ended, but   *)
(* for the three exceptions NothingLost names (sync.service.ts:709).       *)
THEOREM NoPunchIsLost == Spec => []NothingLost
<1>1. IInv => NothingLost
  BY DEF IInv, Kept, NothingLost, Punches
<1> QED
  BY <1>1, SyncInvariant, PTL

(* Two full synchronisations run at once only by the two accidents the     *)
(* lock cannot see, for any number of them (sync.service.ts:167).          *)
THEOREM OneFullSync == Spec => []OneSyncAtATime
<1>1. IInv => OneSyncAtATime
  BY DEF IInv, Apart, OneSyncAtATime, Busy, Holding
<1> QED
  BY <1>1, SyncInvariant, PTL

=============================================================================
