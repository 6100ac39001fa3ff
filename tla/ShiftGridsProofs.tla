--------------------------- MODULE ShiftGridsProofs ---------------------------
(***************************************************************************)
(* Proofs about ShiftGrids.                                                *)
(***************************************************************************)
EXTENDS ShiftGrids, FiniteSetTheorems, TLAPS

-----------------------------------------------------------------------------
(* The grid of a day *)

(* A finite set that R compares totally and transitively has a greatest    *)
(* element: the elements above it would be fewer and fewer.                *)
LEMMA GreatestExists ==
  ASSUME NEW S, IsFiniteSet(S), S # {}, NEW R,
         \A x \in S : <<x, x>> \in R,
         \A x \in S, y \in S, z \in S : <<x, y>> \in R /\ <<y, z>> \in R => <<x, z>> \in R,
         \A x \in S, y \in S : <<x, y>> \in R \/ <<y, x>> \in R
  PROVE  \E x \in S : \A y \in S : <<x, y>> \in R
<1> DEFINE Above(x) == {y \in S : <<x, y>> \notin R}
           Fam == {Above(x) : x \in S}
<1>1. IsWellFoundedOn(StrictSubsetOrdering(S), FiniteSubsetsOf(S))
  BY FS_StrictSubsetOrderingWellFounded
<1>2. FiniteSubsetsOf(S) = SUBSET S
  BY FS_FiniteSubsetsOfFinite
<1>3. Fam \subseteq FiniteSubsetsOf(S) /\ Fam # {}
  <2>1. \A x \in S : Above(x) \in SUBSET S
    OBVIOUS
  <2>2. Fam \subseteq SUBSET S
    <3> HIDE DEF Above
    <3> QED BY <2>1
  <2>3. PICK x \in S : TRUE
    OBVIOUS
  <2>4. Above(x) \in Fam
    BY <2>3
  <2> HIDE DEF Fam
  <2> QED BY <1>2, <2>2, <2>4
<1>4. \E A \in Fam : \A B \in Fam : <<B, A>> \notin StrictSubsetOrdering(S)
  <2> HIDE DEF Fam
  <2> QED BY <1>1, <1>3, WFMin
<1>5. PICK x \in S : \A y \in S : <<Above(y), Above(x)>> \notin StrictSubsetOrdering(S)
  <2>1. PICK A \in Fam : \A B \in Fam : <<B, A>> \notin StrictSubsetOrdering(S)
    BY <1>4
  <2>2. PICK x \in S : A = Above(x)
    BY <2>1
  <2>3. \A y \in S : Above(y) \in Fam
    OBVIOUS
  <2> HIDE DEF Fam, Above
  <2> QED BY <2>1, <2>2, <2>3
<1>6. \A y \in S : <<x, y>> \in R
  <2> SUFFICES ASSUME NEW y \in S, <<x, y>> \notin R PROVE FALSE
    OBVIOUS
  <2>1. Above(y) \subseteq Above(x)
    OBVIOUS
  <2>2. y \in Above(x) /\ y \notin Above(y)
    OBVIOUS
  <2>3. <<Above(y), Above(x)>> \in StrictSubsetOrdering(S)
    BY <2>1, <2>2 DEF StrictSubsetOrdering
  <2> QED BY <2>3, <1>5
<1> QED BY <1>6

LEMMA MaxOfDays ==
  ASSUME NEW D, D \subseteq Days, D # {}, GridAssumption
  PROVE  Max(D) \in D /\ Max(D) \in Nat /\ \A x \in D : x <= Max(D)
<1>1. IsFiniteSet(D) /\ D \subseteq Nat
  BY FS_Subset DEF GridAssumption
<1> DEFINE R == {x \in D \X D : x[1] >= x[2]}
<1>2. \E x \in D : \A y \in D : <<x, y>> \in R
  <2>1. \A x \in D : <<x, x>> \in R
    BY <1>1
  <2>2. \A x \in D, y \in D, z \in D : <<x, y>> \in R /\ <<y, z>> \in R => <<x, z>> \in R
    BY <1>1
  <2>3. \A x \in D, y \in D : <<x, y>> \in R \/ <<y, x>> \in R
    BY <1>1
  <2> HIDE DEF R
  <2> QED BY <1>1, <2>1, <2>2, <2>3, GreatestExists
<1>3. \E x \in D : \A y \in D : x >= y
  BY <1>2
<1> QED BY <1>1, <1>3 DEF Max

LEMMA MinOfDays ==
  ASSUME NEW D, D \subseteq Days, D # {}, GridAssumption
  PROVE  Min(D) \in D
<1>1. IsFiniteSet(D) /\ D \subseteq Nat
  BY FS_Subset DEF GridAssumption
<1> DEFINE R == {x \in D \X D : x[1] <= x[2]}
<1>2. \E x \in D : \A y \in D : <<x, y>> \in R
  <2>1. \A x \in D : <<x, x>> \in R
    BY <1>1
  <2>2. \A x \in D, y \in D, z \in D : <<x, y>> \in R /\ <<y, z>> \in R => <<x, z>> \in R
    BY <1>1
  <2>3. \A x \in D, y \in D : <<x, y>> \in R \/ <<y, x>> \in R
    BY <1>1
  <2> HIDE DEF R
  <2> QED BY <1>1, <2>1, <2>2, <2>3, GreatestExists
<1>3. \E x \in D : \A y \in D : x <= y
  BY <1>2
<1> QED BY <1>3 DEF Min

(* A day some grid covers is read and written in one of its grids.         *)
LEMMA GridForCovers ==
  ASSUME GridAssumption, span \in [Grids -> SUBSET Days], NEW d, Covering(d) # {}
  PROVE  GridFor(d) \in Covering(d) /\ GridFor(d) \in Grids
<1> DEFINE S == Covering(d)
           top(g) == Max(span[g])
           R == {x \in S \X S : Later(x[1], x[2])}
<1>1. IsFiniteSet(S) /\ S \subseteq Grids
  BY FS_Union, FS_Subset DEF GridAssumption, Grids, Covering
<1>2. \A g \in S : top(g) \in Nat /\ Rank[g] \in Nat
  <2> SUFFICES ASSUME NEW g \in S PROVE top(g) \in Nat /\ Rank[g] \in Nat
    OBVIOUS
  <2>1. span[g] \subseteq Days /\ span[g] # {}
    BY <1>1 DEF Covering
  <2> QED BY <2>1, <1>1, MaxOfDays DEF GridAssumption, Grids
<1>3. \A g \in S, h \in S : Later(g, h) <=>
         top(g) > top(h) \/ (top(g) = top(h) /\ Rank[g] >= Rank[h])
  BY DEF Later
<1>4. \A g \in S, h \in S : <<g, h>> \in R <=>
         top(g) > top(h) \/ (top(g) = top(h) /\ Rank[g] >= Rank[h])
  BY <1>3
<1> HIDE DEF top
<1>5. \E x \in S : \A y \in S : <<x, y>> \in R
  <2>1. \A x \in S : <<x, x>> \in R
    BY <1>2, <1>4
  <2>2. \A x \in S, y \in S, z \in S : <<x, y>> \in R /\ <<y, z>> \in R => <<x, z>> \in R
    <3> HIDE DEF R, S
    <3> QED BY <1>2, <1>4
  <2>3. \A x \in S, y \in S : <<x, y>> \in R \/ <<y, x>> \in R
    <3> HIDE DEF R, S
    <3>1. \A x \in S, y \in S :
            \/ top(x) > top(y) \/ (top(x) = top(y) /\ Rank[x] >= Rank[y])
            \/ top(y) > top(x) \/ (top(y) = top(x) /\ Rank[y] >= Rank[x])
      BY <1>2
    <3> QED BY <3>1, <1>4
  <2> HIDE DEF R
  <2> QED BY <1>1, <2>1, <2>2, <2>3, GreatestExists
<1>6. Latest(d) # {}
  BY <1>5 DEF Latest
<1> QED BY <1>1, <1>6 DEF GridFor, Latest

(* It stays the same as long as the same grids cover the day, and they     *)
(* the same days.                                                          *)
LEMMA GridForKept ==
  ASSUME NEW d, Covering(d)' = Covering(d),
         \A g \in Covering(d) : span'[g] = span[g]
  PROVE  GridFor(d)' = GridFor(d)
<1>1. \A g \in Covering(d), h \in Covering(d) : Later(g, h)' <=> Later(g, h)
  BY DEF Later
<1>2. Latest(d)' = Latest(d)
  BY <1>1 DEF Latest
<1> QED BY <1>2 DEF GridFor

-----------------------------------------------------------------------------
(* Types *)

Does == {"absent", "none", "work", "leave", "shift", "mission"}
Lines == [does : Does, mission : Requests \cup {None}]
Ats == {"idle", "read", "write", "approve", "mark", "clear", "drop", "merge", "append"}
Tasks == {"none", "auto", "add", "replace"}
States == {"none", "pending", "approved", "rejected", "closed"}

CallRecords ==
  [at : Ats, does : Tasks, req : Requests \cup {None}, todo : SUBSET Days,
   grid : Grids \cup {None}, cell : Lines, gone : BOOLEAN, stale : SUBSET Days,
   weeks : SUBSET Weeks, copy : [Days -> Lines], seen : SUBSET Weeks]

GridsTyped ==
  /\ span \in [Grids -> SUBSET Days]
  /\ line \in [Grids -> [Days -> Lines]]
  /\ into \in [Weeks -> Months \cup {None}]
  /\ from \in [Months -> SUBSET Weeks]

Typed ==
  /\ GridsTyped
  /\ state \in [Requests -> States]
  /\ call \in [Calls -> CallRecords]

(* What each kind of call has in hand: the days it still has to write are  *)
(* days of its request, a merge has weeks, and a month that is written to  *)
(* was made by a merge.                                                    *)
Shape(k, made) ==
  /\ k.at \in {"idle", "merge", "append"} <=> k.req = None
  /\ k.at \in {"read", "write"} => k.req \in Fulfilled
  /\ k.at \in {"mark", "clear", "drop"} => k.req \in Missions
  /\ k.at \in {"read", "write", "mark"} => k.todo # {} /\ k.todo \subseteq DaysOf[k.req]
  /\ k.at = "approve" => k.todo = {}
  /\ k.at \in {"merge", "append"} => k.todo # {} /\ k.weeks # {}
  /\ k.at \notin {"merge", "append"} => k.weeks = {}
  /\ k.at = "write" => k.grid \in Grids
  /\ k.at = "append" => k.grid \in Months /\ k.does \in {"add", "replace"}
  /\ k.at \in {"write", "append"} /\ k.grid \in Months => made[k.grid] # {}

Shapes == \A c \in Calls : Shape(call[c], from)

(* A week has its own days or none, and a month that exists came from      *)
(* weeks.                                                                  *)
Spans ==
  /\ \A w \in Weeks : span[w] \subseteq WeekDays[w]
  /\ \A m \in Months : span[m] # {} => from[m] # {}

Base == Typed /\ Shapes /\ Spans

-----------------------------------------------------------------------------
(* What a step leaves of the other calls *)

(* The call k became j: no more than outdated.                             *)
Kept(j, k) ==
  /\ j.at = k.at /\ j.does = k.does /\ j.req = k.req /\ j.todo = k.todo
  /\ j.grid = k.grid /\ j.cell = k.cell /\ j.weeks = k.weeks /\ j.copy = k.copy
  /\ j.seen = k.seen /\ k.stale \subseteq j.stale /\ (k.gone => j.gone)

LEMMA NoLineTyped ==
  NoLine \in Lines /\ NoLine.mission = None /\ NoLine.does = "absent"
BY DEF NoLine, Lines, Does

LEMMA IdleTyped ==
  /\ Idle \in CallRecords
  /\ Idle.at = "idle" /\ Idle.req = None /\ Idle.todo = {} /\ Idle.weeks = {}
  /\ Idle.grid = None /\ Idle.seen = {}
<1>1. [d \in Days |-> NoLine] \in [Days -> Lines]
  BY NoLineTyped
<1>2. "idle" \in Ats /\ "none" \in Tasks
  BY DEF Ats, Tasks
<1> HIDE DEF NoLine
<1> QED BY <1>1, <1>2, NoLineTyped DEF Idle, CallRecords

LEMMA TouchedEffect ==
  ASSUME NEW calls \in [Calls -> CallRecords], NEW c, NEW g, NEW d \in Days
  PROVE  /\ Touched(calls, c, g, d) \in [Calls -> CallRecords]
         /\ \A e \in Calls :
              LET k == calls[e]
                  j == Touched(calls, c, g, d)[e]
              IN /\ Kept(j, k)
                 /\ e = c => j = k
                 /\ e # c /\ k.at = "write" /\ k.grid = g /\ d \in k.todo => d \in j.stale
                 /\ e # c /\ k.at \in {"merge", "append"} => d \in j.stale
<1> DEFINE After(e) == Touched(calls, c, g, d)[e]
<1> SUFFICES ASSUME NEW e \in Calls
             PROVE  /\ After(e) \in CallRecords
                    /\ Kept(After(e), calls[e])
                    /\ e = c => After(e) = calls[e]
                    /\ e # c /\ calls[e].at = "write" /\ calls[e].grid = g
                         /\ d \in calls[e].todo => d \in After(e).stale
                    /\ e # c /\ calls[e].at \in {"merge", "append"} => d \in After(e).stale
  BY DEF Touched
<1> DEFINE k == calls[e]
           hit == e # c /\ \/ k.at = "write" /\ k.grid = g /\ d \in k.todo
                           \/ k.at \in {"merge", "append"}
<1>1. k \in CallRecords
  OBVIOUS
<1>2. After(e) = IF hit THEN [k EXCEPT !.stale = @ \cup {d}] ELSE k
  BY DEF Touched
<1> HIDE DEF After
<1>3. CASE hit
  <2>1. After(e) = [k EXCEPT !.stale = k.stale \cup {d}]
    BY <1>2, <1>3
  <2> HIDE DEF k
  <2> DEFINE j == After(e)
  <2>2. After(e) \in CallRecords
    BY <2>1, <1>1 DEF CallRecords
  <2>3. /\ j.at = k.at /\ j.does = k.does /\ j.req = k.req /\ j.todo = k.todo
        /\ j.grid = k.grid /\ j.cell = k.cell /\ j.weeks = k.weeks /\ j.copy = k.copy
        /\ j.seen = k.seen /\ j.stale = k.stale \cup {d} /\ j.gone = k.gone
    BY <2>1, <1>1 DEF CallRecords
  <2>4. Kept(j, k)
    BY <2>3 DEF Kept
  <2> QED BY <2>2, <2>3, <2>4, <1>3 DEF k
<1>4. CASE ~hit
  <2>1. After(e) = k
    BY <1>2, <1>4
  <2> QED BY <2>1, <1>1, <1>4 DEF Kept
<1> QED BY <1>3, <1>4

LEMMA MovedEffect ==
  ASSUME NEW calls \in [Calls -> CallRecords], NEW c, NEW D \in SUBSET Days
  PROVE  /\ Moved(calls, c, D) \in [Calls -> CallRecords]
         /\ \A e \in Calls :
              LET k == calls[e]
                  j == Moved(calls, c, D)[e]
              IN /\ Kept(j, k)
                 /\ e = c => j = k
                 /\ e # c /\ k.at = "write" /\ Min(k.todo) \in D => Min(k.todo) \in j.stale
<1> DEFINE After(e) == Moved(calls, c, D)[e]
<1> SUFFICES ASSUME NEW e \in Calls
             PROVE  /\ After(e) \in CallRecords
                    /\ Kept(After(e), calls[e])
                    /\ e = c => After(e) = calls[e]
                    /\ e # c /\ calls[e].at = "write" /\ Min(calls[e].todo) \in D
                         => Min(calls[e].todo) \in After(e).stale
  BY DEF Moved
<1> DEFINE k == calls[e]
           hit == e # c /\ k.at = "write"
           extra == {Min(k.todo)} \cap D
<1>1. k \in CallRecords
  OBVIOUS
<1>2. After(e) = IF hit THEN [k EXCEPT !.stale = @ \cup extra] ELSE k
  BY DEF Moved
<1>3. extra \in SUBSET Days
  OBVIOUS
<1> HIDE DEF After
<1>4. CASE hit
  <2>1. After(e) = [k EXCEPT !.stale = k.stale \cup extra]
    BY <1>2, <1>4
  <2>5. Min(k.todo) \in D => Min(k.todo) \in extra
    OBVIOUS
  <2> HIDE DEF k, extra
  <2> DEFINE j == After(e)
  <2>2. After(e) \in CallRecords
    BY <2>1, <1>1, <1>3 DEF CallRecords
  <2>3. /\ j.at = k.at /\ j.does = k.does /\ j.req = k.req /\ j.todo = k.todo
        /\ j.grid = k.grid /\ j.cell = k.cell /\ j.weeks = k.weeks /\ j.copy = k.copy
        /\ j.seen = k.seen /\ j.stale = k.stale \cup extra /\ j.gone = k.gone
    BY <2>1, <1>1 DEF CallRecords
  <2>4. Kept(j, k)
    BY <2>3 DEF Kept
  <2>6. Min(k.todo) \in D => Min(k.todo) \in j.stale
    BY <2>5, <2>3
  <2> QED BY <2>2, <2>6, <2>4, <1>4 DEF k
<1>5. CASE ~hit
  <2>1. After(e) = k
    BY <1>2, <1>5
  <2> QED BY <2>1, <1>1, <1>5 DEF Kept
<1> QED BY <1>4, <1>5

OthersKept(c) == \A e \in Calls \ {c} : Kept(call'[e], call[e])

LEMMA KeptSame == ASSUME NEW k PROVE Kept(k, k)
BY DEF Kept

LEMMA OneChanged ==
  ASSUME Typed, NEW c \in Calls, NEW k \in CallRecords, call' = [call EXCEPT ![c] = k]
  PROVE  /\ call' \in [Calls -> CallRecords]
         /\ \A e \in Calls \ {c} : call'[e] = call[e]
         /\ OthersKept(c) /\ call'[c] = k
<1>1. /\ call' \in [Calls -> CallRecords]
      /\ \A e \in Calls \ {c} : call'[e] = call[e]
      /\ call'[c] = k
  BY DEF Typed
<1> QED BY <1>1, KeptSame DEF OthersKept

LEMMA RequestDays ==
  ASSUME GridAssumption, NEW r \in Requests
  PROVE  /\ DaysOf[r] \in SUBSET Days /\ DaysOf[r] # {} /\ r # None
         /\ (r \in Fulfilled <=> r \notin Missions)
BY DEF GridAssumption, Fulfilled, Missions

(* A call that starts on a request. *)
LEMMA Starting ==
  ASSUME GridAssumption, Typed, NEW c \in Calls, NEW r \in Requests,
         \/ StartApprove(c, r) \/ AutoMission(c, r) \/ StartMark(c, r)
         \/ StartDrop(c, r) \/ StartCancel(c, r)
  PROVE  /\ call' \in [Calls -> CallRecords] /\ OthersKept(c)
         /\ \A e \in Calls \ {c} : call'[e] = call[e]
         /\ call[c] = Idle /\ call'[c].req = r /\ call'[c].weeks = {}
         /\ StartApprove(c, r) => call'[c].at = "read" /\ call'[c].todo = DaysOf[r]
         /\ StartMark(c, r) => call'[c].at = "mark" /\ call'[c].todo = DaysOf[r]
                                 /\ call'[c].does = "none"
         /\ AutoMission(c, r) => call'[c].at = "mark" /\ call'[c].todo = DaysOf[r]
         /\ StartDrop(c, r) => call'[c].at = "drop"
         /\ StartCancel(c, r) => call'[c].at = "clear"
         /\ call'[c].at \in {"read", "mark", "drop", "clear"}
<1> USE IdleTyped, RequestDays
<1>0. Idle.does = "none"
  BY DEF Idle
<1>1. ASSUME StartApprove(c, r) PROVE
        /\ call[c] = Idle
        /\ \E k \in CallRecords : /\ call' = [call EXCEPT ![c] = k]
             /\ k.at = "read" /\ k.todo = DaysOf[r] /\ k.req = r /\ k.weeks = {}
  <2> DEFINE k == [Idle EXCEPT !.at = "read", !.req = r, !.todo = DaysOf[r]]
  <2>1. call[c] = Idle /\ call' = [call EXCEPT ![c] = k]
    BY <1>1 DEF StartApprove
  <2>2. k \in CallRecords /\ k.at = "read" /\ k.todo = DaysOf[r] /\ k.req = r /\ k.weeks = {}
    BY DEF CallRecords, Ats
  <2> QED BY <2>1, <2>2
<1>2. ASSUME StartMark(c, r) PROVE
        /\ call[c] = Idle
        /\ \E k \in CallRecords : /\ call' = [call EXCEPT ![c] = k]
             /\ k.at = "mark" /\ k.todo = DaysOf[r] /\ k.req = r /\ k.weeks = {}
             /\ k.does = "none"
  <2> DEFINE k == [Idle EXCEPT !.at = "mark", !.req = r, !.todo = DaysOf[r]]
  <2>1. call[c] = Idle /\ call' = [call EXCEPT ![c] = k]
    BY <1>2 DEF StartMark
  <2>2. k \in CallRecords /\ k.at = "mark" /\ k.todo = DaysOf[r] /\ k.req = r /\ k.weeks = {}
        /\ k.does = "none"
    BY <1>0 DEF CallRecords, Ats
  <2> QED BY <2>1, <2>2
<1>3. ASSUME AutoMission(c, r) PROVE
        /\ call[c] = Idle
        /\ \E k \in CallRecords : /\ call' = [call EXCEPT ![c] = k]
             /\ k.at = "mark" /\ k.todo = DaysOf[r] /\ k.req = r /\ k.weeks = {}
  <2> DEFINE k == [Idle EXCEPT !.at = "mark", !.does = "auto", !.req = r, !.todo = DaysOf[r]]
  <2>1. call[c] = Idle /\ call' = [call EXCEPT ![c] = k]
    BY <1>3 DEF AutoMission
  <2>2. k \in CallRecords /\ k.at = "mark" /\ k.todo = DaysOf[r] /\ k.req = r /\ k.weeks = {}
    BY DEF CallRecords, Ats, Tasks
  <2> QED BY <2>1, <2>2
<1>4. ASSUME StartDrop(c, r) PROVE
        /\ call[c] = Idle
        /\ \E k \in CallRecords : /\ call' = [call EXCEPT ![c] = k]
             /\ k.at = "drop" /\ k.req = r /\ k.weeks = {}
  <2> DEFINE k == [Idle EXCEPT !.at = "drop", !.req = r]
  <2>1. call[c] = Idle /\ call' = [call EXCEPT ![c] = k]
    BY <1>4 DEF StartDrop
  <2>2. k \in CallRecords /\ k.at = "drop" /\ k.req = r /\ k.weeks = {}
    BY DEF CallRecords, Ats
  <2> QED BY <2>1, <2>2
<1>5. ASSUME StartCancel(c, r) PROVE
        /\ call[c] = Idle
        /\ \E k \in CallRecords : /\ call' = [call EXCEPT ![c] = k]
             /\ k.at = "clear" /\ k.req = r /\ k.weeks = {}
  <2> DEFINE k == [Idle EXCEPT !.at = "clear", !.req = r]
  <2>1. call[c] = Idle /\ call' = [call EXCEPT ![c] = k]
    BY <1>5 DEF StartCancel
  <2>2. k \in CallRecords /\ k.at = "clear" /\ k.req = r /\ k.weeks = {}
    BY DEF CallRecords, Ats
  <2> QED BY <2>1, <2>2
<1>6. PICK k \in CallRecords : call' = [call EXCEPT ![c] = k]
  BY <1>1, <1>2, <1>3, <1>4, <1>5
<1>7. /\ call' \in [Calls -> CallRecords]
      /\ \A e \in Calls \ {c} : call'[e] = call[e]
      /\ OthersKept(c) /\ call'[c] = k
  BY <1>6, OneChanged
<1>8. \A j : call' = [call EXCEPT ![c] = j] => call'[c] = j
  BY DEF Typed
<1> QED BY <1>1, <1>2, <1>3, <1>4, <1>5, <1>7, <1>8

(* A merge starts on its weeks. *)
MergeStarted(c, S, p, m) ==
  /\ call' \in [Calls -> CallRecords] /\ OthersKept(c)
  /\ \A e \in Calls \ {c} : call'[e] = call[e]
  /\ call[c] = Idle /\ call'[c].req = None /\ call'[c].weeks = S /\ S # {}
  /\ call'[c].todo # {} /\ call'[c].copy = Chosen(S, p)
  /\ call'[c].at \in {"merge", "append"}
  /\ call'[c].at = "append" =>
       /\ call'[c].grid = m /\ span[m] # {} /\ call'[c].does \in {"add", "replace"}
       /\ call'[c].seen = from[m] /\ m \in Months /\ StartAppend(c, S, m, p)

LEMMA StartingMerge ==
  ASSUME GridAssumption, Typed, NEW c \in Calls, NEW S \in SUBSET Weeks,
         NEW p \in Periods, NEW m,
         StartMerge(c, S, p) \/ (m \in Months /\ StartAppend(c, S, m, p))
  PROVE  MergeStarted(c, S, p, m)
<1> USE IdleTyped
<1>0. Chosen(S, p) \in [Days -> Lines]
  <2>1. ASSUME NEW d \in Days PROVE Chosen(S, p)[d] \in Lines
    <3> DEFINE W == WeekOf(d) \cap IF p = {} THEN S ELSE Weeks
               w == CHOOSE w \in W : TRUE
    <3>1. Chosen(S, p)[d] \in {line[w][d], NoLine} /\ (Chosen(S, p)[d] # NoLine => W # {})
      BY DEF Chosen
    <3>2. W # {} => w \in Weeks
      BY DEF WeekOf
    <3> HIDE DEF W, w
    <3>3. W # {} => line[w][d] \in Lines
      BY <3>2 DEF Typed, GridsTyped, Grids
    <3> QED BY <3>1, <3>3, NoLineTyped
  <2>2. DOMAIN Chosen(S, p) = Days /\ Chosen(S, p) = [d \in Days |-> Chosen(S, p)[d]]
    BY DEF Chosen
  <2> HIDE DEF Chosen
  <2> QED BY <2>1, <2>2
<1>1. CASE StartMerge(c, S, p)
  <2> DEFINE D == IF p = {} THEN Hull(UNION {span[w] : w \in S}) ELSE p
             k == [Idle EXCEPT !.at = "merge", !.weeks = S, !.todo = D, !.copy = Chosen(S, p)]
  <2>1. /\ call[c] = Idle /\ Cardinality(S) >= 2 /\ call' = [call EXCEPT ![c] = k]
        /\ D # {}
    BY <1>1 DEF StartMerge
  <2>2. D \in SUBSET Days
    BY DEF Hull, Periods, GridAssumption
  <2>3. S # {}
    <3>1. Cardinality({}) = 0
      BY FS_EmptySet
    <3>2. Cardinality(S) >= 2
      BY <2>1
    <3> HIDE DEF D, k
    <3>3. ~(0 >= 2)
      OBVIOUS
    <3> QED BY <3>1, <3>2, <3>3
  <2> HIDE DEF D, Chosen
  <2>4. /\ k \in CallRecords /\ k.at = "merge" /\ k.req = None /\ k.weeks = S
        /\ k.todo = D /\ k.copy = Chosen(S, p)
    BY <1>0, <2>2 DEF CallRecords, Ats
  <2> HIDE DEF k
  <2>5. /\ call' \in [Calls -> CallRecords]
        /\ \A e \in Calls \ {c} : call'[e] = call[e]
        /\ OthersKept(c) /\ call'[c] = k
    BY <2>1, <2>4, OneChanged
  <2> QED BY <2>1, <2>3, <2>4, <2>5 DEF MergeStarted
<1>2. CASE m \in Months /\ StartAppend(c, S, m, p)
  <2> DEFINE D == IF p = {} THEN span[m] ELSE p
             t == IF p = {} THEN "add" ELSE "replace"
             k == [Idle EXCEPT !.at = "append", !.weeks = S, !.grid = m, !.does = t,
                     !.todo = D, !.seen = from[m], !.copy = Chosen(S, p)]
  <2>1. /\ call[c] = Idle /\ S # {} /\ span[m] # {} /\ call' = [call EXCEPT ![c] = k]
        /\ D # {}
    BY <1>2 DEF StartAppend
  <2>2. /\ D \in SUBSET Days /\ from[m] \in SUBSET Weeks /\ m \in Grids
        /\ t \in {"add", "replace"} /\ t \in Tasks
    BY <1>2 DEF Periods, GridAssumption, Typed, GridsTyped, Grids, Tasks
  <2> HIDE DEF D, t, Chosen
  <2>4. /\ k \in CallRecords /\ k.at = "append" /\ k.req = None /\ k.weeks = S
        /\ k.todo = D /\ k.copy = Chosen(S, p) /\ k.grid = m /\ k.does = t
        /\ k.seen = from[m]
    BY <1>0, <2>2 DEF CallRecords, Ats
  <2> HIDE DEF k
  <2>5. /\ call' \in [Calls -> CallRecords]
        /\ \A e \in Calls \ {c} : call'[e] = call[e]
        /\ OthersKept(c) /\ call'[c] = k
    BY <2>1, <2>4, OneChanged
  <2> QED BY <1>2, <2>1, <2>2, <2>4, <2>5 DEF MergeStarted
<1> QED BY <1>1, <1>2

(* A call ends. *)
LEMMA Ending ==
  ASSUME Typed, NEW c \in Calls, Ends(c)
  PROVE  /\ call' \in [Calls -> CallRecords] /\ OthersKept(c) /\ call'[c] = Idle
         /\ \A e \in Calls \ {c} : call'[e] = call[e]
BY IdleTyped, OneChanged DEF Ends

(* A fulfilment reads the cell of its next day. *)
LEMMA Reading ==
  ASSUME GridAssumption, Typed, Shapes, NEW c \in Calls, ReadCell(c)
  PROVE  LET d == Min(call[c].todo) IN
         /\ call' \in [Calls -> CallRecords] /\ OthersKept(c)
         /\ \A e \in Calls \ {c} : call'[e] = call[e]
         /\ \/ call'[c] = Idle
            \/ /\ Covering(d) # {} /\ call'[c].at = "write" /\ call'[c].grid = GridFor(d)
               /\ call'[c].req = call[c].req /\ call'[c].todo = call[c].todo
               /\ call'[c].weeks = call[c].weeks /\ call'[c].gone = call[c].gone
               /\ call'[c].cell = line[GridFor(d)][d]
         /\ d \in call[c].todo /\ call[c].at = "read"
<1> DEFINE d == Min(call[c].todo)
           g == GridFor(d)
           r == call[c]
<1>1. /\ r \in CallRecords /\ r.at = "read" /\ r.todo # {} /\ r.todo \in SUBSET Days
  BY DEF Typed, Shapes, Shape, ReadCell, CallRecords
<1>2. d \in r.todo /\ d \in Days
  BY <1>1, MinOfDays
<1>3. CASE Covering(d) = {}
  BY <1>1, <1>2, <1>3, Ending DEF ReadCell
<1>4. CASE Covering(d) # {}
  <2> DEFINE k == [r EXCEPT !.at = "write", !.grid = g, !.cell = line[g][d], !.stale = {}]
  <2>1. call' = [call EXCEPT ![c].at = "write", ![c].grid = g, ![c].cell = line[g][d],
                             ![c].stale = {}]
    BY <1>4 DEF ReadCell
  <2>2. g \in Grids /\ line[g][d] \in Lines
    <3>1. span \in [Grids -> SUBSET Days] /\ line \in [Grids -> [Days -> Lines]]
      BY DEF Typed, GridsTyped
    <3>2. g \in Grids
      BY <3>1, <1>4, GridForCovers
    <3> HIDE DEF g, d
    <3>3. line[g] \in [Days -> Lines]
      BY <3>1, <3>2
    <3> QED BY <3>2, <3>3, <1>2
  <2> HIDE DEF g, d
  <2>3. call' = [call EXCEPT ![c] = k]
    BY <2>1 DEF Typed
  <2>4. /\ k \in CallRecords /\ k.at = "write" /\ k.grid = g /\ k.req = r.req
        /\ k.todo = r.todo /\ k.weeks = r.weeks /\ k.cell = line[g][d]
    BY <1>1, <2>2 DEF CallRecords, Ats
  <2>6. k.gone = r.gone
    BY <1>1 DEF CallRecords
  <2> HIDE DEF k
  <2>5. /\ call' \in [Calls -> CallRecords]
        /\ \A e \in Calls \ {c} : call'[e] = call[e]
        /\ OthersKept(c) /\ call'[c] = k
    BY <2>3, <2>4, OneChanged
  <2> QED BY <1>1, <1>2, <1>4, <2>4, <2>5, <2>6 DEF g, d
<1> QED BY <1>3, <1>4

Written(c) ==
  LET d == Min(call[c].todo) IN
  /\ ~call[c].gone /\ (call[c].cell = NoLine <=> line[call[c].grid][d] = NoLine)
  /\ line' = [line EXCEPT ![call[c].grid][d] =
                [does |-> Wants[call[c].req], mission |-> call[c].cell.mission]]
  /\ call'[c].at = AfterDay(call[c].todo \ {d}, "approve")
  /\ call'[c].todo = call[c].todo \ {d} /\ call'[c].req = call[c].req
  /\ call'[c].weeks = call[c].weeks
  /\ crossed' = IF d \in call[c].stale THEN crossed \cup {d} ELSE crossed
  /\ \A e \in Calls \ {c} :
       /\ call[e].at = "write" /\ call[e].grid = call[c].grid /\ d \in call[e].todo
            => d \in call'[e].stale
       /\ call[e].at \in {"merge", "append"} => d \in call'[e].stale

LEMMA Writes ==
  ASSUME GridAssumption, Typed, Shapes, NEW c \in Calls, WriteCell(c)
  PROVE  LET d == Min(call[c].todo) IN
         /\ call' \in [Calls -> CallRecords] /\ OthersKept(c)
         /\ \/ call'[c] = Idle /\ line' = line /\ crossed' = crossed
            \/ Written(c)
         /\ d \in call[c].todo /\ call[c].at = "write"
<1> DEFINE d == Min(call[c].todo)
           r == call[c]
<1>1. /\ r \in CallRecords /\ r.at = "write" /\ r.todo # {} /\ r.todo \in SUBSET Days
  BY DEF Typed, Shapes, Shape, WriteCell, CallRecords
<1>2. d \in r.todo /\ d \in Days
  BY <1>1, MinOfDays
<1>3. CASE r.gone \/ ~(r.cell = NoLine <=> line[r.grid][d] = NoLine)
  <2>1. Ends(c) /\ line' = line /\ crossed' = crossed
    BY <1>3 DEF WriteCell
  <2> QED BY <1>1, <1>2, <2>1, Ending
<1>4. CASE ~r.gone /\ (r.cell = NoLine <=> line[r.grid][d] = NoLine)
  <2> DEFINE next == AfterDay(r.todo \ {d}, "approve")
             left == r.todo \ {d}
             k == [r EXCEPT !.at = next, !.todo = left, !.cell = NoLine, !.stale = {},
                            !.grid = None]
             calls == [call EXCEPT ![c].at = next, ![c].todo = @ \ {d}, ![c].cell = NoLine,
                                   ![c].stale = {}, ![c].grid = None]
  <2>1. /\ call' = Touched(calls, c, r.grid, d)
        /\ line' = [line EXCEPT ![r.grid][d] =
                      [does |-> Wants[r.req], mission |-> r.cell.mission]]
        /\ crossed' = IF d \in r.stale THEN crossed \cup {d} ELSE crossed
    BY <1>4 DEF WriteCell
  <2>2. next \in Ats /\ left \in SUBSET Days
    BY <1>1 DEF AfterDay, Ats
  <2> HIDE DEF d, next
  <2>3. calls = [call EXCEPT ![c] = k]
    BY DEF Typed
  <2> HIDE DEF left
  <2>4. /\ k \in CallRecords /\ k.at = next /\ k.req = r.req
        /\ k.todo = left /\ k.weeks = r.weeks
    BY <1>1, <2>2, NoLineTyped DEF CallRecords
  <2> HIDE DEF k, calls
  <2>5. calls \in [Calls -> CallRecords] /\ calls[c] = k
        /\ \A e \in Calls \ {c} : calls[e] = call[e]
    BY <2>3, <2>4 DEF Typed
  <2>6. /\ Touched(calls, c, r.grid, d) \in [Calls -> CallRecords]
        /\ \A e \in Calls :
              LET i == calls[e]
                  j == Touched(calls, c, r.grid, d)[e]
              IN /\ Kept(j, i)
                 /\ e = c => j = i
                 /\ e # c /\ i.at = "write" /\ i.grid = r.grid /\ d \in i.todo => d \in j.stale
                 /\ e # c /\ i.at \in {"merge", "append"} => d \in j.stale
    BY <1>2, <2>5, TouchedEffect
  <2>7. call' \in [Calls -> CallRecords] /\ call'[c] = k
    BY <2>1, <2>5, <2>6
  <2>8. ASSUME NEW e \in Calls \ {c}
        PROVE  /\ Kept(call'[e], call[e])
               /\ call[e].at = "write" /\ call[e].grid = r.grid /\ d \in call[e].todo
                    => d \in call'[e].stale
               /\ call[e].at \in {"merge", "append"} => d \in call'[e].stale
    BY <2>1, <2>5, <2>6
  <2>9. OthersKept(c)
    BY <2>8 DEF OthersKept
  <2>10. Written(c)
    BY <1>4, <2>1, <2>4, <2>7, <2>8 DEF Written, d, next, left
  <2> QED BY <1>1, <1>2, <2>7, <2>9, <2>10 DEF d
<1> QED BY <1>3, <1>4

Done(c) ==
  /\ call[c].todo = {Min(call[c].todo)} /\ call[c].does = "auto" => call'[c] = Idle
  /\ call[c].todo = {Min(call[c].todo)} /\ call[c].does # "auto" =>
       call'[c].at = "approve" /\ call'[c].todo = {} /\ call'[c].req = call[c].req
         /\ call'[c].weeks = call[c].weeks
  /\ call[c].todo # {Min(call[c].todo)} =>
       /\ call'[c].at = "mark" /\ call'[c].req = call[c].req
       /\ call'[c].does = call[c].does /\ call'[c].weeks = call[c].weeks
       /\ call'[c].todo = call[c].todo \ {Min(call[c].todo)}

MarkedNow(c) ==
  LET d == Min(call[c].todo)
      g == GridFor(d)
      as == IF line[g][d] = NoLine THEN "none" ELSE line[g][d].does
  IN /\ Covering(d) # {} /\ g \in Grids
     /\ line' = [line EXCEPT ![g][d] = [does |-> as, mission |-> call[c].req]]
     /\ copied' = copied \ {d} /\ half' = half
     /\ Done(c)
     /\ \A e \in Calls \ {c} :
          /\ call[e].at = "write" /\ call[e].grid = g /\ d \in call[e].todo
               => d \in call'[e].stale
          /\ call[e].at \in {"merge", "append"} => d \in call'[e].stale

(* A mission is marked on its next day. *)
LEMMA MarksDay ==
  ASSUME GridAssumption, Typed, Shapes, NEW c \in Calls, MarkDay(c)
  PROVE  LET d == Min(call[c].todo) IN
         /\ call' \in [Calls -> CallRecords] /\ OthersKept(c)
         /\ \/ /\ call'[c] = Idle /\ line' = line /\ copied' = copied
               /\ half' = half \cup {call[c].req}
            \/ MarkedNow(c)
         /\ d \in call[c].todo /\ call[c].at = "mark"
<1> DEFINE d == Min(call[c].todo)
           r == call[c]
           g == GridFor(d)
           as == IF line[g][d] = NoLine THEN "none" ELSE line[g][d].does
<1>1. /\ r \in CallRecords /\ r.at = "mark" /\ r.todo # {} /\ r.todo \in SUBSET Days
  BY DEF Typed, Shapes, Shape, MarkDay, CallRecords
<1>2. d \in r.todo /\ d \in Days
  BY <1>1, MinOfDays
<1>3. CASE Covering(d) = {}
  <2>1. Ends(c) /\ line' = line /\ copied' = copied /\ half' = half \cup {r.req}
    BY <1>3 DEF MarkDay
  <2> QED BY <1>1, <1>2, <2>1, Ending
<1>4. CASE Covering(d) # {}
  <2> DEFINE calls == IF r.todo # {d} THEN [call EXCEPT ![c].todo = @ \ {d}]
                      ELSE IF r.does = "auto" THEN [call EXCEPT ![c] = Idle]
                      ELSE [call EXCEPT ![c].todo = {}, ![c].at = "approve"]
  <2>1. /\ call' = Touched(calls, c, g, d)
        /\ line' = [line EXCEPT ![g][d] = [does |-> as, mission |-> r.req]]
        /\ copied' = copied \ {d} /\ half' = half
    BY <1>4 DEF MarkDay
  <2>2. g \in Grids
    BY <1>4, GridForCovers DEF Typed, GridsTyped
  <2> HIDE DEF d, g
  <2>3. PICK k \in CallRecords :
          /\ calls = [call EXCEPT ![c] = k]
          /\ r.todo = {d} /\ r.does = "auto" => k = Idle
          /\ r.todo = {d} /\ r.does # "auto" => k.at = "approve" /\ k.todo = {}
                               /\ k.req = r.req /\ k.weeks = r.weeks
          /\ r.todo # {d} => k.at = "mark" /\ k.req = r.req /\ k.does = r.does
                               /\ k.weeks = r.weeks /\ k.todo = r.todo \ {d}
    <3>1. CASE r.todo # {d}
      <4> DEFINE k == [r EXCEPT !.todo = r.todo \ {d}]
      <4>1. calls = [call EXCEPT ![c] = k]
        BY <3>1 DEF Typed
      <4>2. r.todo \ {d} \in SUBSET Days
        BY <1>1
      <4>3. k \in CallRecords /\ k.at = "mark" /\ k.req = r.req /\ k.does = r.does
                               /\ k.weeks = r.weeks /\ k.todo = r.todo \ {d}
        BY <1>1, <4>2 DEF CallRecords
      <4> QED BY <3>1, <4>1, <4>3
    <3>2. CASE r.todo = {d} /\ r.does = "auto"
      BY <3>2, IdleTyped
    <3>3. CASE r.todo = {d} /\ r.does # "auto"
      <4> DEFINE k == [r EXCEPT !.todo = {}, !.at = "approve"]
      <4>1. calls = [call EXCEPT ![c] = k]
        BY <3>3 DEF Typed
      <4>3. k \in CallRecords /\ k.at = "approve" /\ k.req = r.req
                               /\ k.weeks = r.weeks /\ k.todo = {}
        BY <1>1 DEF CallRecords, Ats
      <4> QED BY <3>3, <4>1, <4>3
    <3> QED BY <3>1, <3>2, <3>3
  <2> HIDE DEF calls
  <2>5. calls \in [Calls -> CallRecords] /\ calls[c] = k
        /\ \A e \in Calls \ {c} : calls[e] = call[e]
    BY <2>3 DEF Typed
  <2>6. /\ Touched(calls, c, g, d) \in [Calls -> CallRecords]
        /\ \A e \in Calls :
              LET i == calls[e]
                  j == Touched(calls, c, g, d)[e]
              IN /\ Kept(j, i)
                 /\ e = c => j = i
                 /\ e # c /\ i.at = "write" /\ i.grid = g /\ d \in i.todo => d \in j.stale
                 /\ e # c /\ i.at \in {"merge", "append"} => d \in j.stale
    BY <1>2, <2>5, TouchedEffect
  <2>7. call' \in [Calls -> CallRecords] /\ call'[c] = k
    BY <2>1, <2>5, <2>6
  <2>8. ASSUME NEW e \in Calls \ {c}
        PROVE  /\ Kept(call'[e], call[e])
               /\ call[e].at = "write" /\ call[e].grid = g /\ d \in call[e].todo
                    => d \in call'[e].stale
               /\ call[e].at \in {"merge", "append"} => d \in call'[e].stale
    BY <2>1, <2>5, <2>6
  <2>9. OthersKept(c)
    BY <2>8 DEF OthersKept
  <2>11. Done(c)
    BY <2>3, <2>7 DEF Done, d
  <2>10. MarkedNow(c)
    BY <1>4, <2>1, <2>2, <2>7, <2>8, <2>11 DEF MarkedNow, d, g
  <2> QED BY <1>1, <1>2, <2>7, <2>9, <2>10 DEF d
<1> QED BY <1>3, <1>4

MarksOf(r) == {x \in Grids \X Days : line[x[1]][x[2]].mission = r}

(* The days of a mission are cleared. *)
LEMMA Clearing ==
  ASSUME GridAssumption, Typed, Shapes, NEW c \in Calls, Clear(c)
  PROVE  /\ call' \in [Calls -> CallRecords] /\ OthersKept(c)
         /\ call[c].at = "clear" /\ call'[c].at = "drop" /\ call'[c].req = call[c].req
         /\ call'[c].weeks = call[c].weeks
         /\ \A g \in Grids, d \in Days :
              /\ line'[g][d].does = line[g][d].does
              /\ line[g][d].mission = call[c].req => line'[g][d].mission = None
              /\ line[g][d].mission # call[c].req => line'[g][d] = line[g][d]
         /\ line' \in [Grids -> [Days -> Lines]]
         /\ \A e \in Calls \ {c} : call[e].at \in {"write", "merge", "append"} =>
              \A g \in Grids, d \in Days : line'[g][d] # line[g][d] => d \in call'[e].stale
<1> DEFINE r == call[c].req
           marked == MarksOf(r)
           days == {x[2] : x \in marked}
<1>1. /\ call[c].at = "clear"
      /\ line' = [g \in Grids |-> [d \in Days |->
                   IF <<g, d>> \in marked THEN [line[g][d] EXCEPT !.mission = None]
                   ELSE line[g][d]]]
      /\ call' = [e \in Calls |->
                   IF e = c THEN [call[c] EXCEPT !.at = "drop"]
                   ELSE IF call[e].at \in {"write", "merge", "append"}
                   THEN [call[e] EXCEPT !.stale = @ \cup days]
                   ELSE call[e]]
  BY DEF Clear, MarksOf
<1>2. days \in SUBSET Days
  BY DEF MarksOf
<1>3. \A g \in Grids, d \in Days : <<g, d>> \in marked <=> line[g][d].mission = r
  BY DEF MarksOf
<1>8. \A g \in Grids, d \in Days : <<g, d>> \in marked => d \in days
  OBVIOUS
<1> HIDE DEF marked, days
<1>4. ASSUME NEW g \in Grids, NEW d \in Days
      PROVE  /\ line'[g][d] \in Lines
             /\ line'[g][d].does = line[g][d].does
             /\ line[g][d].mission = r => line'[g][d].mission = None
             /\ line[g][d].mission # r => line'[g][d] = line[g][d]
  <2>1. line[g][d] \in Lines
    BY DEF Typed, GridsTyped
  <2>2. line'[g][d] = IF <<g, d>> \in marked THEN [line[g][d] EXCEPT !.mission = None]
                      ELSE line[g][d]
    BY <1>1
  <2> QED BY <1>3, <2>1, <2>2 DEF Lines
<1>5. line' \in [Grids -> [Days -> Lines]]
  <2>1. line' = [g \in Grids |-> [d \in Days |-> line'[g][d]]]
    BY <1>1
  <2> QED BY <1>4, <2>1
<1>6. /\ call'[c] \in CallRecords /\ call'[c].at = "drop" /\ call'[c].req = r
      /\ call'[c].weeks = call[c].weeks
  <2>1. call'[c] = [call[c] EXCEPT !.at = "drop"] /\ call[c] \in CallRecords
    BY <1>1 DEF Typed
  <2> QED BY <2>1 DEF CallRecords, Ats
<1>7. ASSUME NEW e \in Calls \ {c}
      PROVE  /\ call'[e] \in CallRecords /\ Kept(call'[e], call[e])
             /\ call[e].at \in {"write", "merge", "append"} => days \subseteq call'[e].stale
  <2> DEFINE k == call[e]
             j == call'[e]
  <2>1. k \in CallRecords
    BY DEF Typed
  <2>2. CASE k.at \in {"write", "merge", "append"}
    <3>1. j = [k EXCEPT !.stale = k.stale \cup days]
      BY <1>1, <2>2
    <3> HIDE DEF k
    <3>2. j \in CallRecords
      BY <3>1, <2>1, <1>2 DEF CallRecords
    <3>3. /\ j.at = k.at /\ j.does = k.does /\ j.req = k.req /\ j.todo = k.todo
          /\ j.grid = k.grid /\ j.cell = k.cell /\ j.weeks = k.weeks /\ j.copy = k.copy
          /\ j.seen = k.seen /\ j.stale = k.stale \cup days /\ j.gone = k.gone
      BY <3>1, <2>1 DEF CallRecords
    <3>4. Kept(j, k)
      BY <3>3 DEF Kept
    <3> QED BY <3>2, <3>3, <3>4 DEF k
  <2>3. CASE k.at \notin {"write", "merge", "append"}
    <3>1. j = k
      BY <1>1, <2>3
    <3> QED BY <3>1, <2>1, <2>3, KeptSame
  <2> QED BY <2>2, <2>3
<1>9. call' \in [Calls -> CallRecords]
  <2>1. call' = [e \in Calls |-> call'[e]]
    BY <1>1
  <2>2. \A e \in Calls : call'[e] \in CallRecords
    BY <1>6, <1>7
  <2> QED BY <2>1, <2>2
<1>10. OthersKept(c)
  BY <1>7 DEF OthersKept
<1>11. ASSUME NEW e \in Calls \ {c}, call[e].at \in {"write", "merge", "append"},
              NEW g \in Grids, NEW d \in Days, line'[g][d] # line[g][d]
       PROVE  d \in call'[e].stale
  BY <1>11, <1>7, <1>8, <1>3, <1>4
<1>12. \A e \in Calls \ {c} : call[e].at \in {"write", "merge", "append"} =>
         \A g \in Grids, d \in Days : line'[g][d] # line[g][d] => d \in call'[e].stale
  BY <1>11
<1>13. \A g \in Grids, d \in Days :
         /\ line'[g][d].does = line[g][d].does
         /\ line[g][d].mission = r => line'[g][d].mission = None
         /\ line[g][d].mission # r => line'[g][d] = line[g][d]
  BY <1>4
<1>14. call[c].at = "clear"
  BY <1>1
<1> QED BY <1>5, <1>6, <1>9, <1>10, <1>12, <1>13, <1>14

LEMMA ClearedRows ==
  ASSUME GridAssumption, Typed, Shapes, NEW c \in Calls, Clear(c)
  PROVE  \A g \in Grids, d \in Days :
           /\ line'[g][d].does = line[g][d].does
           /\ line[g][d].mission = call[c].req => line'[g][d].mission = None
           /\ line[g][d].mission # call[c].req => line'[g][d] = line[g][d]
BY Clearing

(* A merge makes its month. *)
LEMMA Creating ==
  ASSUME GridAssumption, Typed, Shapes, NEW c \in Calls, NEW m \in Months, CreateMonth(c, m)
  PROVE  LET k == call[c] IN
         /\ call' \in [Calls -> CallRecords] /\ OthersKept(c) /\ call'[c] = Idle
         /\ k.at = "merge" /\ k.todo # {} /\ k.todo \in SUBSET Days /\ m \in Grids
         /\ k.weeks \in SUBSET Weeks
         /\ k.weeks # {} /\ from[m] = {} /\ Copies(c, k.todo) /\ state' = state
         /\ span' = [span EXCEPT ![m] = k.todo]
         /\ into' = [w \in Weeks |-> IF w \in k.weeks THEN m ELSE into[w]]
         /\ from' = [from EXCEPT ![m] = k.weeks]
         /\ line' \in [Grids -> [Days -> Lines]]
         /\ \A g \in Grids \ {m} : line'[g] = line[g]
         /\ \A d \in Days :
              line'[m][d] = IF d \in k.todo /\ k.copy[d] # NoLine
                            THEN [does |-> k.copy[d].does, mission |-> None] ELSE NoLine
         /\ \A e \in Calls \ {c} : call[e].at = "write" /\ Min(call[e].todo) \in k.todo
              => Min(call[e].todo) \in call'[e].stale
<1> DEFINE k == call[c]
           calls == [call EXCEPT ![c] = Idle]
           rows == [d \in Days |->
             IF d \in k.todo /\ k.copy[d] # NoLine
             THEN [does |-> k.copy[d].does, mission |-> None] ELSE NoLine]
<1>1. /\ k \in CallRecords /\ k.at = "merge" /\ k.todo # {} /\ k.todo \in SUBSET Days
      /\ k.weeks # {} /\ k.weeks \in SUBSET Weeks
  BY DEF Typed, Shapes, Shape, CreateMonth, CallRecords
<1>2. /\ from[m] = {} /\ span' = [span EXCEPT ![m] = k.todo]
      /\ line' = [line EXCEPT ![m] = rows]
      /\ into' = [w \in Weeks |-> IF w \in k.weeks THEN m ELSE into[w]]
      /\ from' = [from EXCEPT ![m] = k.weeks]
      /\ call' = Moved(calls, c, k.todo)
      /\ Copies(c, k.todo) /\ state' = state
  BY DEF CreateMonth
<1>3. ASSUME NEW d \in Days PROVE rows[d] \in Lines
  <2>1. k.copy[d] \in Lines
    BY <1>1 DEF CallRecords
  <2> QED BY <2>1, NoLineTyped DEF Lines
<1>4. rows \in [Days -> Lines]
  BY <1>3
<1>5. m \in Grids
  BY DEF Grids
<1>6. /\ calls \in [Calls -> CallRecords] /\ calls[c] = Idle
      /\ \A e \in Calls \ {c} : calls[e] = call[e]
  BY IdleTyped DEF Typed
<1>7. /\ Moved(calls, c, k.todo) \in [Calls -> CallRecords]
      /\ \A e \in Calls :
           LET i == calls[e]
               j == Moved(calls, c, k.todo)[e]
           IN /\ Kept(j, i)
              /\ e = c => j = i
              /\ e # c /\ i.at = "write" /\ Min(i.todo) \in k.todo => Min(i.todo) \in j.stale
  <2> HIDE DEF calls, k
  <2> QED BY <1>1, <1>6, MovedEffect
<1>8. \A d \in Days : rows[d] = IF d \in k.todo /\ k.copy[d] # NoLine
                            THEN [does |-> k.copy[d].does, mission |-> None] ELSE NoLine
  OBVIOUS
<1> HIDE DEF calls, rows
<1>9. /\ line' \in [Grids -> [Days -> Lines]] /\ line'[m] = rows
      /\ \A g \in Grids \ {m} : line'[g] = line[g]
  BY <1>2, <1>4, <1>5 DEF Typed, GridsTyped
<1>10. call' \in [Calls -> CallRecords] /\ call'[c] = Idle
  BY <1>2, <1>6, <1>7
<1>11. OthersKept(c)
  BY <1>2, <1>6, <1>7 DEF OthersKept
<1>12. \A e \in Calls \ {c} : call[e].at = "write" /\ Min(call[e].todo) \in k.todo
              => Min(call[e].todo) \in call'[e].stale
  BY <1>2, <1>6, <1>7
<1>13. \A d \in Days :
              line'[m][d] = IF d \in k.todo /\ k.copy[d] # NoLine
                            THEN [does |-> k.copy[d].does, mission |-> None] ELSE NoLine
  BY <1>8, <1>9
<1> QED BY <1>1, <1>2, <1>5, <1>9, <1>10, <1>11, <1>12, <1>13

NewDays(k) == {d \in k.todo : k.copy[d] # NoLine}
DeletedDays(k) == IF k.does = "replace" THEN Days ELSE NewDays(k)
MovedDays(k) == IF span[k.grid] = k.todo /\ k.does = "add" THEN NewDays(k)
                ELSE span[k.grid] \cup k.todo

(* A merge adds to a month. *)
LEMMA AppendingTo ==
  ASSUME GridAssumption, Typed, Shapes, NEW c \in Calls, Append(c)
  PROVE  LET k == call[c]
             m == k.grid
         IN
         /\ call' \in [Calls -> CallRecords] /\ OthersKept(c) /\ call'[c] = Idle
         /\ k.at = "append" /\ k.todo # {} /\ k.todo \in SUBSET Days /\ m \in Grids
         /\ k.weeks \in SUBSET Weeks
         /\ m \in Months /\ span[m] # {} /\ k.does \in {"add", "replace"}
         /\ k.weeks # {} /\ from[m] # {} /\ Copies(c, MovedDays(k)) /\ state' = state
         /\ span' = [span EXCEPT ![m] = k.todo]
         /\ into' = [w \in Weeks |-> IF w \in k.weeks THEN m ELSE into[w]]
         /\ from' = [from EXCEPT ![m] = k.seen \cup k.weeks]
         /\ line' \in [Grids -> [Days -> Lines]]
         /\ \A g \in Grids \ {m} : line'[g] = line[g]
         /\ \A d \in Days :
              line'[m][d] = IF d \in NewDays(k)
                            THEN [does |-> k.copy[d].does, mission |-> None]
                            ELSE IF d \in DeletedDays(k) THEN NoLine ELSE line[m][d]
         /\ \A e \in Calls \ {c} : call[e].at = "write" =>
              /\ Min(call[e].todo) \in MovedDays(k) => Min(call[e].todo) \in call'[e].stale
              /\ call[e].grid = m /\ call[e].cell # NoLine
                   /\ Min(call[e].todo) \in DeletedDays(k) => call'[e].gone
<1> DEFINE k == call[c]
           m == k.grid
           hit(e) == call[e].at = "write" /\ call[e].grid = m /\ call[e].cell # NoLine
                       /\ Min(call[e].todo) \in DeletedDays(k)
           calls == [e \in Calls |-> IF e = c THEN Idle
                      ELSE IF hit(e) THEN [call[e] EXCEPT !.gone = TRUE] ELSE call[e]]
           rows == [d \in Days |->
             IF d \in NewDays(k) THEN [does |-> k.copy[d].does, mission |-> None]
             ELSE IF d \in DeletedDays(k) THEN NoLine ELSE line[m][d]]
<1>1. /\ k \in CallRecords /\ k.at = "append" /\ k.todo # {} /\ k.todo \in SUBSET Days
      /\ k.weeks # {} /\ k.weeks \in SUBSET Weeks /\ m \in Months
      /\ k.does \in {"add", "replace"} /\ from[m] # {}
  BY DEF Typed, Shapes, Shape, Append, CallRecords
<1>2. /\ span[m] # {} /\ span' = [span EXCEPT ![m] = k.todo]
      /\ line' = [line EXCEPT ![m] = rows]
      /\ into' = [w \in Weeks |-> IF w \in k.weeks THEN m ELSE into[w]]
      /\ from' = [from EXCEPT ![m] = k.seen \cup k.weeks]
      /\ call' = Moved(calls, c, MovedDays(k))
      /\ Copies(c, MovedDays(k)) /\ state' = state
  BY DEF Append, NewDays, DeletedDays, MovedDays
<1>5. m \in Grids
  BY <1>1 DEF Grids
<1>3. ASSUME NEW d \in Days PROVE rows[d] \in Lines
  <2>1. k.copy[d] \in Lines /\ line[m][d] \in Lines
    BY <1>1, <1>5 DEF CallRecords, Typed, GridsTyped
  <2> QED BY <2>1, NoLineTyped DEF Lines
<1>4. rows \in [Days -> Lines]
  BY <1>3
<1>6. ASSUME NEW e \in Calls \ {c}
      PROVE  /\ calls[e] \in CallRecords /\ Kept(calls[e], call[e])
             /\ calls[e].stale = call[e].stale
             /\ hit(e) => calls[e].gone
  <2> DEFINE i == call[e]
             j == calls[e]
  <2>1. i \in CallRecords
    BY DEF Typed
  <2>2. j = IF hit(e) THEN [i EXCEPT !.gone = TRUE] ELSE i
    OBVIOUS
  <2> HIDE DEF i, calls
  <2>3. CASE hit(e)
    <3> HIDE DEF hit
    <3>1. j = [i EXCEPT !.gone = TRUE]
      BY <2>2, <2>3
    <3>2. j \in CallRecords
      BY <3>1, <2>1 DEF CallRecords
    <3>3. /\ j.at = i.at /\ j.does = i.does /\ j.req = i.req /\ j.todo = i.todo
          /\ j.grid = i.grid /\ j.cell = i.cell /\ j.weeks = i.weeks /\ j.copy = i.copy
          /\ j.seen = i.seen /\ j.stale = i.stale
      BY <3>1, <2>1 DEF CallRecords
    <3>4. j.gone
      BY <3>1, <2>1 DEF CallRecords
    <3> HIDE DEF j
    <3>5. Kept(j, i)
      BY <3>3, <3>4 DEF Kept
    <3> QED BY <3>2, <3>3, <3>4, <3>5 DEF i, j
  <2>4. CASE ~hit(e)
    <3> HIDE DEF hit
    <3>1. j = i
      BY <2>2, <2>4
    <3> QED BY <3>1, <2>1, <2>4, KeptSame DEF i
  <2> QED BY <2>3, <2>4
<1>7. calls \in [Calls -> CallRecords] /\ calls[c] = Idle
  <2>1. calls[c] = Idle
    OBVIOUS
  <2>2. calls = [e \in Calls |-> calls[e]]
    OBVIOUS
  <2> HIDE DEF calls
  <2> QED BY <1>6, <2>1, <2>2, IdleTyped
<1>8. MovedDays(k) \in SUBSET Days
  BY <1>1, <1>5 DEF MovedDays, NewDays, Typed, GridsTyped
<1>9. \A d \in Days : rows[d] = IF d \in NewDays(k)
                            THEN [does |-> k.copy[d].does, mission |-> None]
                            ELSE IF d \in DeletedDays(k) THEN NoLine ELSE line[m][d]
  OBVIOUS
<1> HIDE DEF calls, rows, m
<1>10. /\ Moved(calls, c, MovedDays(k)) \in [Calls -> CallRecords]
       /\ \A e \in Calls :
           LET i == calls[e]
               j == Moved(calls, c, MovedDays(k))[e]
           IN /\ Kept(j, i)
              /\ e = c => j = i
              /\ e # c /\ i.at = "write" /\ Min(i.todo) \in MovedDays(k)
                   => Min(i.todo) \in j.stale
  BY <1>7, <1>8, MovedEffect
<1>11. call' \in [Calls -> CallRecords] /\ call'[c] = Idle
  BY <1>2, <1>7, <1>10
<1>12. ASSUME NEW e \in Calls \ {c}
       PROVE  /\ Kept(call'[e], call[e])
              /\ call[e].at = "write" /\ Min(call[e].todo) \in MovedDays(k)
                   => Min(call[e].todo) \in call'[e].stale
              /\ hit(e) => call'[e].gone
  <2>1. Kept(calls[e], call[e]) /\ (hit(e) => calls[e].gone)
    BY <1>6
  <2>2. /\ Kept(call'[e], calls[e])
        /\ calls[e].at = "write" /\ Min(calls[e].todo) \in MovedDays(k)
             => Min(calls[e].todo) \in call'[e].stale
    BY <1>2, <1>10
  <2>3. Kept(call'[e], call[e])
    BY <2>1, <2>2 DEF Kept
  <2>4. hit(e) => call'[e].gone
    <3> HIDE DEF hit
    <3> QED BY <2>1, <2>2 DEF Kept
  <2>5. calls[e].at = call[e].at /\ calls[e].todo = call[e].todo
    BY <2>1 DEF Kept
  <2> QED BY <2>2, <2>3, <2>4, <2>5
<1>13. OthersKept(c)
  BY <1>12 DEF OthersKept
<1>14. /\ line' \in [Grids -> [Days -> Lines]] /\ line'[m] = rows
       /\ \A g \in Grids \ {m} : line'[g] = line[g]
  BY <1>2, <1>4, <1>5 DEF Typed, GridsTyped
<1>15. \A d \in Days :
              line'[m][d] = IF d \in NewDays(k)
                            THEN [does |-> k.copy[d].does, mission |-> None]
                            ELSE IF d \in DeletedDays(k) THEN NoLine ELSE line[m][d]
  BY <1>9, <1>14
<1>16. \A e \in Calls \ {c} : call[e].at = "write" =>
              /\ Min(call[e].todo) \in MovedDays(k) => Min(call[e].todo) \in call'[e].stale
              /\ call[e].grid = m /\ call[e].cell # NoLine
                   /\ Min(call[e].todo) \in DeletedDays(k) => call'[e].gone
  BY <1>12
<1> QED BY <1>1, <1>2, <1>5, <1>11, <1>13, <1>14, <1>15, <1>16 DEF m

AllKept == \A e \in Calls : Kept(call'[e], call[e])

(* A person writes a cell. *)
LEMMA Editing ==
  ASSUME GridAssumption, Typed, NEW g \in Grids, NEW d \in Days, EditCell(g, d)
  PROVE  /\ call' \in [Calls -> CallRecords] /\ AllKept
         /\ line' \in [Grids -> [Days -> Lines]]
         /\ \A h \in Grids, x \in Days : <<h, x>> # <<g, d>> => line'[h][x] = line[h][x]
         /\ \A e \in Calls :
              /\ call[e].at = "write" /\ call[e].grid = g /\ d \in call[e].todo
                   => d \in call'[e].stale
              /\ call[e].at \in {"merge", "append"} => d \in call'[e].stale
<1> DEFINE cell == [does |-> "work", mission |-> None]
<1>1. /\ line' = [line EXCEPT ![g][d] = cell] /\ call' = Touched(call, None, g, d)
  BY DEF EditCell
<1>2. cell \in Lines
  BY DEF Lines, Does
<1> HIDE DEF cell
<1>3. /\ line' \in [Grids -> [Days -> Lines]]
      /\ \A h \in Grids, x \in Days : <<h, x>> # <<g, d>> => line'[h][x] = line[h][x]
  BY <1>1, <1>2 DEF Typed, GridsTyped
<1>4. \A e \in Calls : e # None
  BY DEF GridAssumption
<1>5. call \in [Calls -> CallRecords]
  BY DEF Typed
<1> QED BY <1>1, <1>3, <1>4, <1>5, TouchedEffect DEF AllKept

(* Somebody clears a grid. *)
LEMMA ClearingGrid ==
  ASSUME GridAssumption, Typed, NEW g \in Grids, ClearGrid(g)
  PROVE  /\ call' = call /\ AllKept
         /\ line' \in [Grids -> [Days -> Lines]]
         /\ \A h \in Grids \ {g} : line'[h] = line[h]
         /\ \A d \in Days : line'[g][d].mission = line[g][d].mission
<1>0. \A d \in Days : line[g][d] \in Lines
  <2>1. line[g] \in [Days -> Lines]
    BY DEF Typed, GridsTyped
  <2> QED BY <2>1
<1> DEFINE rows == [d \in Days |->
       IF line[g][d] = NoLine THEN NoLine ELSE [line[g][d] EXCEPT !.does = "none"]]
<1>1. line' = [line EXCEPT ![g] = rows] /\ call' = call
  BY DEF ClearGrid
<1>2. ASSUME NEW d \in Days
      PROVE  rows[d] \in Lines /\ rows[d].mission = line[g][d].mission
  <2> QED BY <1>0, NoLineTyped DEF Lines, Does
<1>3. rows \in [Days -> Lines]
  BY <1>2
<1> HIDE DEF rows
<1>4. /\ line' \in [Grids -> [Days -> Lines]] /\ line'[g] = rows
      /\ \A h \in Grids \ {g} : line'[h] = line[h]
  BY <1>1, <1>3 DEF Typed, GridsTyped
<1>5. AllKept
  BY <1>1, KeptSame DEF AllKept
<1> QED BY <1>1, <1>2, <1>4, <1>5

(* Somebody deletes a grid. *)
LEMMA Deleting ==
  ASSUME GridAssumption, Typed, NEW g \in Grids, DeleteGrid(g)
  PROVE  /\ call' \in [Calls -> CallRecords] /\ AllKept
         /\ span' = [span EXCEPT ![g] = {}] /\ span' \in [Grids -> SUBSET Days]
         /\ line' \in [Grids -> [Days -> Lines]]
         /\ \A h \in Grids \ {g} : line'[h] = line[h] /\ span'[h] = span[h]
         /\ \A d \in Days : line'[g][d] = NoLine
         /\ into' = [w \in Weeks |-> IF into[w] = g THEN None ELSE into[w]]
         /\ edited' = edited \cup span[g]
         /\ \A e \in Calls : call[e].grid = g => call'[e].gone
<1>1. /\ span' = [span EXCEPT ![g] = {}]
      /\ line' = [line EXCEPT ![g] = [d \in Days |-> NoLine]]
      /\ into' = [w \in Weeks |-> IF into[w] = g THEN None ELSE into[w]]
      /\ edited' = edited \cup span[g]
      /\ call' = [e \in Calls |-> IF call[e].grid = g THEN [call[e] EXCEPT !.gone = TRUE]
                                  ELSE call[e]]
  BY DEF DeleteGrid
<1>2. [d \in Days |-> NoLine] \in [Days -> Lines]
  BY NoLineTyped
<1>3. /\ span' \in [Grids -> SUBSET Days] /\ line' \in [Grids -> [Days -> Lines]]
      /\ \A h \in Grids \ {g} : line'[h] = line[h] /\ span'[h] = span[h]
      /\ line'[g] = [d \in Days |-> NoLine]
  <2> DEFINE none == [d \in Days |-> NoLine]
  <2>1. none \in [Days -> Lines] /\ line' = [line EXCEPT ![g] = none]
    BY <1>1, <1>2
  <2> HIDE DEF none
  <2>2. /\ line' \in [Grids -> [Days -> Lines]] /\ line'[g] = none
        /\ \A h \in Grids \ {g} : line'[h] = line[h]
    BY <2>1 DEF Typed, GridsTyped
  <2>3. /\ span' \in [Grids -> SUBSET Days]
        /\ \A h \in Grids \ {g} : span'[h] = span[h]
    BY <1>1 DEF Typed, GridsTyped
  <2> QED BY <2>2, <2>3 DEF none
<1>4. \A d \in Days : line'[g][d] = NoLine
  BY <1>3
<1>5. ASSUME NEW e \in Calls
      PROVE  /\ call'[e] \in CallRecords /\ Kept(call'[e], call[e])
             /\ call[e].grid = g => call'[e].gone
  <2> DEFINE i == call[e]
             j == call'[e]
  <2>1. i \in CallRecords
    BY DEF Typed
  <2>2. j = IF i.grid = g THEN [i EXCEPT !.gone = TRUE] ELSE i
    BY <1>1
  <2> HIDE DEF i
  <2>3. CASE i.grid = g
    <3>1. j = [i EXCEPT !.gone = TRUE]
      BY <2>2, <2>3
    <3>2. j \in CallRecords
      BY <3>1, <2>1 DEF CallRecords
    <3>3. /\ j.at = i.at /\ j.does = i.does /\ j.req = i.req /\ j.todo = i.todo
          /\ j.grid = i.grid /\ j.cell = i.cell /\ j.weeks = i.weeks /\ j.copy = i.copy
          /\ j.seen = i.seen /\ j.stale = i.stale
      BY <3>1, <2>1 DEF CallRecords
    <3>4. j.gone
      BY <3>1, <2>1 DEF CallRecords
    <3> HIDE DEF j
    <3>5. Kept(j, i)
      BY <3>3, <3>4 DEF Kept
    <3> QED BY <3>2, <3>4, <3>5 DEF i, j
  <2>4. CASE i.grid # g
    <3>1. j = i
      BY <2>2, <2>4
    <3> QED BY <3>1, <2>1, <2>4, KeptSame DEF i
  <2> QED BY <2>3, <2>4
<1>6. call' \in [Calls -> CallRecords]
  <2>1. call' = [e \in Calls |-> call'[e]]
    BY <1>1
  <2> QED BY <2>1, <1>5
<1>7. AllKept
  BY <1>5 DEF AllKept
<1>8. \A e \in Calls : call[e].grid = g => call'[e].gone
  BY <1>5
<1> QED BY <1>1, <1>3, <1>4, <1>6, <1>7, <1>8

-----------------------------------------------------------------------------
(* The base of the invariants is kept. *)

LEMMA ShapeKept ==
  ASSUME NEW j, NEW k, NEW f, NEW h, Kept(j, k), Shape(k, f),
         \A m \in Months : f[m] # {} => h[m] # {}
  PROVE  Shape(j, h)
BY DEF Kept, Shape

LEMMA IdleShape == ASSUME NEW f PROVE Shape(Idle, f)
BY IdleTyped DEF Shape

(* Of a step of the call c: its own shape is enough. *)
LEMMA ShapesOfStep ==
  ASSUME Shapes, NEW c \in Calls, OthersKept(c), Shape(call'[c], from'),
         \A m \in Months : from[m] # {} => from'[m] # {}
  PROVE  Shapes'
<1> SUFFICES ASSUME NEW e \in Calls PROVE Shape(call'[e], from')
  BY DEF Shapes
<1>1. CASE e = c
  BY <1>1
<1>2. CASE e # c
  <2>1. Kept(call'[e], call[e]) /\ Shape(call[e], from)
    BY <1>2 DEF OthersKept, Shapes
  <2> QED BY <2>1, ShapeKept
<1> QED BY <1>1, <1>2

LEMMA ShapesByHand ==
  ASSUME Shapes, AllKept, from' = from
  PROVE  Shapes'
<1> SUFFICES ASSUME NEW e \in Calls PROVE Shape(call'[e], from')
  BY DEF Shapes
<1>1. Kept(call'[e], call[e]) /\ Shape(call[e], from)
  BY DEF AllKept, Shapes
<1> QED BY <1>1, ShapeKept

(* Requests and calls change, the grids do not. *)
LEMMA BaseOfCalls ==
  ASSUME GridAssumption, Base, NEW c \in Calls, UNCHANGED grids,
         state' \in [Requests -> States],
         call' \in [Calls -> CallRecords], OthersKept(c), Shape(call'[c], from)
  PROVE  Base'
<1>1. Typed'
  BY DEF Base, Typed, GridsTyped, grids
<1>2. Shapes'
  <2>1. from' = from /\ Shapes
    BY DEF grids, Base
  <2>2. Shape(call'[c], from')
    BY <2>1
  <2> QED BY <2>1, <2>2, ShapesOfStep
<1>3. Spans'
  BY DEF Base, Spans, grids
<1> QED BY <1>1, <1>2, <1>3 DEF Base

LEMMA StartKeepsBase ==
  ASSUME GridAssumption, Base, NEW c \in Calls, NEW r \in Requests,
         \/ r \in Fulfilled /\ StartApprove(c, r)
         \/ r \in Missions /\ (AutoMission(c, r) \/ StartMark(c, r)
                                \/ StartDrop(c, r) \/ StartCancel(c, r))
  PROVE  Base'
<1>1. Typed
  BY DEF Base
<1>2. /\ call' \in [Calls -> CallRecords] /\ OthersKept(c)
      /\ call'[c].req = r /\ call'[c].weeks = {}
      /\ StartApprove(c, r) => call'[c].at = "read" /\ call'[c].todo = DaysOf[r]
      /\ StartMark(c, r) => call'[c].at = "mark" /\ call'[c].todo = DaysOf[r]
      /\ AutoMission(c, r) => call'[c].at = "mark" /\ call'[c].todo = DaysOf[r]
      /\ StartDrop(c, r) => call'[c].at = "drop"
      /\ StartCancel(c, r) => call'[c].at = "clear"
  BY <1>1, Starting
<1>3. Shape(call'[c], from)
  BY <1>2, RequestDays DEF Shape
<1>4. UNCHANGED grids
  BY DEF StartApprove, AutoMission, StartMark, StartDrop, StartCancel
<1>5. state' \in [Requests -> States]
  BY <1>1 DEF Typed, States, StartApprove, AutoMission, StartMark, StartDrop, StartCancel
<1> QED BY <1>2, <1>3, <1>4, <1>5, BaseOfCalls

LEMMA MergeStartKeepsBase ==
  ASSUME GridAssumption, Base, NEW c \in Calls, NEW S \in SUBSET Weeks,
         NEW p \in Periods, NEW m,
         StartMerge(c, S, p) \/ (m \in Months /\ StartAppend(c, S, m, p))
  PROVE  Base'
<1>1. Typed /\ Spans
  BY DEF Base
<1>2. /\ call' \in [Calls -> CallRecords] /\ OthersKept(c)
      /\ call'[c].req = None /\ call'[c].weeks = S /\ S # {} /\ call'[c].todo # {}
      /\ call'[c].at \in {"merge", "append"}
      /\ call'[c].at = "append" => call'[c].grid = m /\ m \in Months /\ span[m] # {}
               /\ call'[c].does \in {"add", "replace"}
  <2>1. MergeStarted(c, S, p, m)
    BY <1>1, StartingMerge
  <2> QED BY <2>1 DEF MergeStarted
<1>3. Shape(call'[c], from)
  BY <1>1, <1>2 DEF Shape, Spans
<1>4. UNCHANGED grids /\ state' \in [Requests -> States]
  BY <1>1 DEF Typed, StartMerge, StartAppend
<1> QED BY <1>2, <1>3, <1>4, BaseOfCalls

LEMMA EndKeepsBase ==
  ASSUME GridAssumption, Base, NEW c \in Calls, Ends(c), UNCHANGED grids,
         state' \in [Requests -> States]
  PROVE  Base'
<1>1. Typed
  BY DEF Base
<1>2. call' \in [Calls -> CallRecords] /\ OthersKept(c) /\ call'[c] = Idle
  BY <1>1, Ending
<1>3. Shape(call'[c], from)
  BY <1>2, IdleShape
<1> QED BY <1>2, <1>3, BaseOfCalls

LEMMA ReadKeepsBase ==
  ASSUME GridAssumption, Base, NEW c \in Calls, ReadCell(c)
  PROVE  Base'
<1>1. Typed /\ Spans /\ Shapes /\ Shape(call[c], from)
  BY DEF Base, Shapes
<1> DEFINE d == Min(call[c].todo)
<1>2. /\ call' \in [Calls -> CallRecords] /\ OthersKept(c)
      /\ \/ call'[c] = Idle
         \/ /\ Covering(d) # {} /\ call'[c].at = "write" /\ call'[c].grid = GridFor(d)
            /\ call'[c].req = call[c].req /\ call'[c].todo = call[c].todo
            /\ call'[c].weeks = call[c].weeks
      /\ call[c].at = "read"
  BY <1>1, Reading
<1>3. Shape(call'[c], from)
  <2>1. CASE call'[c] = Idle
    BY <2>1, IdleShape
  <2>2. CASE call'[c] # Idle
    <3>1. GridFor(d) \in Covering(d) /\ GridFor(d) \in Grids
      BY <1>1, <1>2, <2>2, GridForCovers DEF Typed, GridsTyped
    <3>2. GridFor(d) \in Months => from[GridFor(d)] # {}
      BY <1>1, <3>1 DEF Spans, Covering
    <3> HIDE DEF d
    <3> QED BY <1>1, <1>2, <2>2, <3>1, <3>2 DEF Shape
  <2> QED BY <2>1, <2>2
<1>4. UNCHANGED grids /\ state' \in [Requests -> States]
  BY <1>1 DEF Typed, ReadCell
<1> QED BY <1>2, <1>3, <1>4, BaseOfCalls

(* Rows and calls change. *)
LEMMA BaseOfRows ==
  ASSUME GridAssumption, Base, NEW c \in Calls, UNCHANGED <<span, into, from, state>>,
         line' \in [Grids -> [Days -> Lines]],
         call' \in [Calls -> CallRecords], OthersKept(c), Shape(call'[c], from)
  PROVE  Base'
<1>1. Typed'
  BY DEF Base, Typed, GridsTyped
<1>2. Shapes'
  <2>1. from' = from /\ Shapes
    BY DEF Base
  <2>2. Shape(call'[c], from')
    BY <2>1
  <2> QED BY <2>1, <2>2, ShapesOfStep
<1>3. Spans'
  BY DEF Base, Spans
<1> QED BY <1>1, <1>2, <1>3 DEF Base

LEMMA WriteKeepsBase ==
  ASSUME GridAssumption, Base, NEW c \in Calls, WriteCell(c)
  PROVE  Base'
<1>1. Typed /\ Shapes /\ Shape(call[c], from)
  BY DEF Base, Shapes
<1> DEFINE d == Min(call[c].todo)
<1>2. /\ call' \in [Calls -> CallRecords] /\ OthersKept(c)
      /\ \/ call'[c] = Idle /\ line' = line
         \/ Written(c)
      /\ d \in call[c].todo /\ call[c].at = "write"
  BY <1>1, Writes
<1>3. UNCHANGED <<span, into, from, state>>
  BY DEF WriteCell
<1>4. CASE call'[c] = Idle /\ line' = line
  <2>1. Shape(call'[c], from)
    BY <1>4, IdleShape
  <2>2. line' \in [Grids -> [Days -> Lines]]
    BY <1>1, <1>4 DEF Typed, GridsTyped
  <2> QED BY <1>2, <1>3, <2>1, <2>2, BaseOfRows
<1>5. CASE Written(c)
  <2>1. /\ call[c].req \in Fulfilled /\ call[c].grid \in Grids /\ call[c] \in CallRecords
        /\ call[c].todo \subseteq DaysOf[call[c].req] /\ call[c].weeks = {}
        /\ call[c].req # None
    BY <1>1, <1>2 DEF Shape, Typed
  <2>2. /\ call'[c].todo = call[c].todo \ {d} /\ call'[c].req = call[c].req
        /\ call'[c].weeks = {}
        /\ call'[c].at = IF call'[c].todo = {} THEN "approve" ELSE "read"
    BY <1>5, <2>1 DEF Written, AfterDay
  <2>3. Shape(call'[c], from)
    <3> HIDE DEF d
    <3>1. call'[c].todo \subseteq DaysOf[call'[c].req]
      BY <2>1, <2>2
    <3> QED BY <2>1, <2>2, <3>1 DEF Shape
  <2>4. line' \in [Grids -> [Days -> Lines]]
    <3> DEFINE cell == [does |-> Wants[call[c].req], mission |-> call[c].cell.mission]
    <3>1. line' = [line EXCEPT ![call[c].grid][d] = cell]
      BY <1>5 DEF Written
    <3>2. cell \in Lines
      BY <2>1 DEF CallRecords, Lines, Does, GridAssumption, Fulfilled
    <3> HIDE DEF cell, d
    <3> QED BY <1>1, <2>1, <3>1, <3>2 DEF Typed, GridsTyped
  <2> QED BY <1>2, <1>3, <2>3, <2>4, BaseOfRows
<1> QED BY <1>2, <1>4, <1>5

LEMMA MarkKeepsBase ==
  ASSUME GridAssumption, Base, NEW c \in Calls, MarkDay(c)
  PROVE  Base'
<1>1. Typed /\ Shapes /\ Shape(call[c], from)
  BY DEF Base, Shapes
<1> DEFINE d == Min(call[c].todo)
           g == GridFor(d)
<1>2. /\ call' \in [Calls -> CallRecords] /\ OthersKept(c)
      /\ \/ call'[c] = Idle /\ line' = line
         \/ MarkedNow(c)
      /\ d \in call[c].todo /\ call[c].at = "mark"
  BY <1>1, MarksDay
<1>3. UNCHANGED <<span, into, from, state>>
  BY DEF MarkDay
<1>4. CASE call'[c] = Idle /\ line' = line
  <2>1. Shape(call'[c], from)
    BY <1>4, IdleShape
  <2>2. line' \in [Grids -> [Days -> Lines]]
    BY <1>1, <1>4 DEF Typed, GridsTyped
  <2> QED BY <1>2, <1>3, <2>1, <2>2, BaseOfRows
<1>5. CASE MarkedNow(c)
  <2>1. /\ call[c].req \in Missions /\ call[c] \in CallRecords
        /\ call[c].todo \subseteq DaysOf[call[c].req] /\ call[c].weeks = {}
        /\ call[c].todo \in SUBSET Days /\ call[c].req # None
    BY <1>1, <1>2 DEF Shape, Typed, CallRecords
  <2>2. Done(c)
    BY <1>5 DEF MarkedNow
  <2>3. Shape(call'[c], from)
    <3>1. CASE call[c].todo = {d} /\ call[c].does = "auto"
      BY <2>2, <3>1, IdleShape DEF Done
    <3>2. CASE call[c].todo = {d} /\ call[c].does # "auto"
      BY <2>1, <2>2, <3>2 DEF Done, Shape
    <3>3. CASE call[c].todo # {d}
      <4>1. call'[c].at = "mark" /\ call'[c].req = call[c].req
            /\ call'[c].weeks = {} /\ call'[c].todo = call[c].todo \ {d}
        BY <2>1, <2>2, <3>3 DEF Done
      <4> HIDE DEF d
      <4>2. call'[c].todo # {} /\ call'[c].todo \subseteq DaysOf[call'[c].req]
        BY <1>2, <2>1, <3>3, <4>1
      <4> QED BY <2>1, <4>1, <4>2 DEF Shape
    <3> QED BY <3>1, <3>2, <3>3
  <2>4. line' \in [Grids -> [Days -> Lines]]
    <3> DEFINE as == IF line[g][d] = NoLine THEN "none" ELSE line[g][d].does
               cell == [does |-> as, mission |-> call[c].req]
    <3>1. line' = [line EXCEPT ![g][d] = cell] /\ g \in Grids /\ d \in Days
      BY <1>2, <1>5, <2>1 DEF MarkedNow
    <3>3. line[g][d] \in Lines
      <4> HIDE DEF cell, as, g, d
      <4> QED BY <1>1, <3>1 DEF Typed, GridsTyped
    <3>2. cell \in Lines
      <4> HIDE DEF g, d
      <4>1. as \in Does
        BY <3>3 DEF Lines, Does
      <4> HIDE DEF as
      <4> QED BY <2>1, <4>1 DEF Lines, Missions
    <3> HIDE DEF cell, d, g
    <3> QED BY <1>1, <3>1, <3>2 DEF Typed, GridsTyped
  <2> QED BY <1>2, <1>3, <2>3, <2>4, BaseOfRows
<1> QED BY <1>2, <1>4, <1>5

LEMMA ClearKeepsBase ==
  ASSUME GridAssumption, Base, NEW c \in Calls, Clear(c)
  PROVE  Base'
<1>1. Typed /\ Shapes /\ Shape(call[c], from)
  BY DEF Base, Shapes
<1>2. /\ call' \in [Calls -> CallRecords] /\ OthersKept(c)
      /\ call[c].at = "clear" /\ call'[c].at = "drop" /\ call'[c].req = call[c].req
      /\ call'[c].weeks = call[c].weeks
      /\ line' \in [Grids -> [Days -> Lines]]
  BY <1>1, Clearing
<1>3. UNCHANGED <<span, into, from, state>>
  BY DEF Clear
<1>4. Shape(call'[c], from)
  BY <1>1, <1>2 DEF Shape
<1> QED BY <1>2, <1>3, <1>4, BaseOfRows

LEMMA CreateKeepsBase ==
  ASSUME GridAssumption, Base, NEW c \in Calls, NEW m \in Months, CreateMonth(c, m)
  PROVE  Base'
<1> DEFINE k == call[c]
<1>1. Typed /\ Shapes /\ Spans
  BY DEF Base
<1>2. /\ call' \in [Calls -> CallRecords] /\ OthersKept(c) /\ call'[c] = Idle
      /\ k.todo \in SUBSET Days /\ m \in Grids /\ k.weeks \in SUBSET Weeks
      /\ k.weeks # {} /\ state' = state
      /\ span' = [span EXCEPT ![m] = k.todo]
      /\ into' = [w \in Weeks |-> IF w \in k.weeks THEN m ELSE into[w]]
      /\ from' = [from EXCEPT ![m] = k.weeks]
      /\ line' \in [Grids -> [Days -> Lines]]
  BY <1>1, Creating
<1> HIDE DEF k
<1>3. Typed'
  BY <1>1, <1>2 DEF Typed, GridsTyped
<1>4. \A n \in Months : from[n] # {} => from'[n] # {}
  BY <1>1, <1>2 DEF Typed, GridsTyped
<1>5. Shapes'
  BY <1>1, <1>2, <1>4, IdleShape, ShapesOfStep
<1>6. Spans'
  <2>1. m \notin Weeks
    BY DEF GridAssumption
  <2>2. \A w \in Weeks : span'[w] = span[w]
    BY <1>1, <1>2, <2>1 DEF Typed, GridsTyped, Grids
  <2>3. ASSUME NEW n \in Months, span'[n] # {} PROVE from'[n] # {}
    <3>1. CASE n = m
      BY <1>1, <1>2, <3>1 DEF Typed, GridsTyped
    <3>2. CASE n # m
      <4>1. span'[n] = span[n] /\ from'[n] = from[n]
        BY <1>1, <1>2, <3>2 DEF Typed, GridsTyped, Grids
      <4> QED BY <1>1, <2>3, <4>1 DEF Spans
    <3> QED BY <3>1, <3>2
  <2> QED BY <1>1, <2>2, <2>3 DEF Spans
<1> QED BY <1>3, <1>5, <1>6 DEF Base

LEMMA AppendKeepsBase ==
  ASSUME GridAssumption, Base, NEW c \in Calls, Append(c)
  PROVE  Base'
<1> DEFINE k == call[c]
           m == k.grid
<1>1. Typed /\ Shapes /\ Spans /\ k \in CallRecords
  BY DEF Base, Typed
<1>2. /\ call' \in [Calls -> CallRecords] /\ OthersKept(c) /\ call'[c] = Idle
      /\ k.todo \in SUBSET Days /\ m \in Grids /\ m \in Months /\ k.weeks \in SUBSET Weeks
      /\ k.weeks # {} /\ state' = state
      /\ span' = [span EXCEPT ![m] = k.todo]
      /\ into' = [w \in Weeks |-> IF w \in k.weeks THEN m ELSE into[w]]
      /\ from' = [from EXCEPT ![m] = k.seen \cup k.weeks]
      /\ line' \in [Grids -> [Days -> Lines]]
  BY <1>1, AppendingTo
<1>7. k.seen \in SUBSET Weeks
  BY <1>1 DEF CallRecords
<1> HIDE DEF k, m
<1>3. Typed'
  BY <1>1, <1>2, <1>7 DEF Typed, GridsTyped
<1>4. \A n \in Months : from[n] # {} => from'[n] # {}
  BY <1>1, <1>2 DEF Typed, GridsTyped
<1>5. Shapes'
  BY <1>1, <1>2, <1>4, IdleShape, ShapesOfStep
<1>6. Spans'
  <2>1. m \notin Weeks
    BY <1>2 DEF GridAssumption
  <2>2. \A w \in Weeks : span'[w] = span[w]
    BY <1>1, <1>2, <2>1 DEF Typed, GridsTyped, Grids
  <2>3. ASSUME NEW n \in Months, span'[n] # {} PROVE from'[n] # {}
    <3>1. CASE n = m
      BY <1>1, <1>2, <3>1 DEF Typed, GridsTyped
    <3>2. CASE n # m
      <4>1. span'[n] = span[n] /\ from'[n] = from[n]
        BY <1>1, <1>2, <3>2 DEF Typed, GridsTyped, Grids
      <4> QED BY <1>1, <2>3, <4>1 DEF Spans
    <3> QED BY <3>1, <3>2
  <2> QED BY <1>1, <2>2, <2>3 DEF Spans
<1> QED BY <1>3, <1>5, <1>6 DEF Base

LEMMA HandsKeepBase ==
  ASSUME GridAssumption, Base, ByHand
  PROVE  Base'
<1>1. Typed /\ Shapes /\ Spans
  BY DEF Base
<1>2. ASSUME NEW r \in Requests, Ask(r) \/ (r \in Fulfilled /\ Reject(r)) PROVE Base'
  <2>1. UNCHANGED grids /\ call' = call /\ state' \in [Requests -> States]
    BY <1>1, <1>2 DEF Ask, Reject, Typed, States
  <2>2. AllKept
    BY <2>1, KeptSame DEF AllKept
  <2>3. Shapes'
    BY <1>1, <2>1, <2>2, ShapesByHand DEF grids
  <2>4. Typed' /\ Spans'
    BY <1>1, <2>1 DEF Typed, GridsTyped, Spans, grids
  <2> QED BY <2>3, <2>4 DEF Base
<1>3. ASSUME NEW g \in Grids, NEW d \in Days, EditCell(g, d) PROVE Base'
  <2>1. /\ call' \in [Calls -> CallRecords] /\ AllKept
        /\ line' \in [Grids -> [Days -> Lines]]
    BY <1>1, <1>3, Editing
  <2>2. UNCHANGED <<span, into, from, state>>
    BY <1>3 DEF EditCell
  <2>3. Shapes'
    BY <1>1, <2>1, <2>2, ShapesByHand
  <2>4. Typed' /\ Spans'
    BY <1>1, <2>1, <2>2 DEF Typed, GridsTyped, Spans
  <2> QED BY <2>3, <2>4 DEF Base
<1>4. ASSUME NEW g \in Grids, ClearGrid(g) PROVE Base'
  <2>1. /\ call' = call /\ AllKept
        /\ line' \in [Grids -> [Days -> Lines]]
    BY <1>1, <1>4, ClearingGrid
  <2>2. UNCHANGED <<span, into, from, state>>
    BY <1>4 DEF ClearGrid
  <2>3. Shapes'
    BY <1>1, <2>1, <2>2, ShapesByHand
  <2>4. Typed' /\ Spans'
    BY <1>1, <2>1, <2>2 DEF Typed, GridsTyped, Spans
  <2> QED BY <2>3, <2>4 DEF Base
<1>5. ASSUME NEW g \in Grids, DeleteGrid(g) PROVE Base'
  <2>1. /\ call' \in [Calls -> CallRecords] /\ AllKept
        /\ line' \in [Grids -> [Days -> Lines]]
        /\ span' = [span EXCEPT ![g] = {}] /\ span' \in [Grids -> SUBSET Days]
        /\ into' = [w \in Weeks |-> IF into[w] = g THEN None ELSE into[w]]
    BY <1>1, <1>5, Deleting
  <2>2. UNCHANGED <<from, state>>
    BY <1>5 DEF DeleteGrid
  <2>3. Shapes'
    BY <1>1, <2>1, <2>2, ShapesByHand
  <2>4. into' \in [Weeks -> Months \cup {None}]
    BY <1>1, <2>1 DEF Typed, GridsTyped
  <2>5. Typed'
    BY <1>1, <2>1, <2>2, <2>4 DEF Typed, GridsTyped
  <2>6. Spans'
    BY <1>1, <2>1, <2>2 DEF Spans, Typed, GridsTyped
  <2> QED BY <2>3, <2>5, <2>6 DEF Base
<1> QED BY <1>2, <1>3, <1>4, <1>5 DEF ByHand, Fulfilled

LEMMA NextKeepsBase ==
  ASSUME GridAssumption, Base, [Next]_vars
  PROVE  Base'
<1>1. ASSUME NEW c \in Calls, Merging(c) PROVE Base'
  <2>1. ASSUME NEW S \in SUBSET Weeks, NEW p \in Periods, StartMerge(c, S, p) PROVE Base'
    BY <2>1, MergeStartKeepsBase
  <2>2. ASSUME NEW S \in SUBSET Weeks, NEW p \in Periods, NEW m \in Months,
               StartAppend(c, S, m, p)
        PROVE Base'
    BY <2>2, MergeStartKeepsBase
  <2> QED BY <1>1, <2>1, <2>2, CreateKeepsBase, AppendKeepsBase DEF Merging
<1>2. ASSUME NEW c \in Calls, Fulfilling(c) PROVE Base'
  <2>1. ASSUME NEW r \in Fulfilled, StartApprove(c, r) PROVE Base'
    BY <2>1, StartKeepsBase DEF Fulfilled
  <2>2. ASSUME Approve(c) PROVE Base'
    <3>1. Ends(c) /\ UNCHANGED grids /\ state' \in [Requests -> States]
      BY <2>2 DEF Approve, Base, Typed, States
    <3> QED BY <3>1, EndKeepsBase
  <2> QED BY <1>2, <2>1, <2>2, ReadKeepsBase, WriteKeepsBase DEF Fulfilling
<1>3. ASSUME NEW c \in Calls, OnMission(c) PROVE Base'
  <2>1. ASSUME NEW r \in Missions, AutoMission(c, r) \/ StartMark(c, r)
                 \/ StartDrop(c, r) \/ StartCancel(c, r)
        PROVE Base'
    BY <2>1, StartKeepsBase DEF Missions
  <2>2. ASSUME Drop(c) PROVE Base'
    <3>1. Ends(c) /\ UNCHANGED grids /\ state' \in [Requests -> States]
      BY <2>2 DEF Drop, Base, Typed, States
    <3> QED BY <3>1, EndKeepsBase
  <2> QED BY <1>3, <2>1, <2>2, MarkKeepsBase, ClearKeepsBase DEF OnMission
<1>4. ASSUME NEW c \in Calls, Fail(c) PROVE Base'
  <2>1. Ends(c) /\ UNCHANGED grids /\ state' \in [Requests -> States]
    BY <1>4 DEF Fail, Base, Typed
  <2> QED BY <2>1, EndKeepsBase
<1>5. CASE UNCHANGED vars
  BY <1>5 DEF vars, grids, history, Base, Typed, GridsTyped, Shapes, Spans
<1> QED BY <1>1, <1>2, <1>3, <1>4, <1>5, HandsKeepBase DEF Next

LEMMA InitBase == GridAssumption /\ Init => Base
<1> SUFFICES ASSUME GridAssumption, Init PROVE Base
  OBVIOUS
<1>1. span \in [Grids -> SUBSET Days]
  BY DEF Init, GridAssumption, Grids
<1>2. ASSUME NEW g \in Grids, NEW d \in Days PROVE line[g][d] \in Lines
  <2>1. line[g][d] = IF d \in span[g] THEN [does |-> "work", mission |-> None] ELSE NoLine
    BY DEF Init
  <2>2. [does |-> "work", mission |-> None] \in Lines
    BY DEF Lines, Does
  <2> QED BY <2>1, <2>2, NoLineTyped
<1>3. line \in [Grids -> [Days -> Lines]]
  <2>1. line = [g \in Grids |-> [d \in Days |-> line[g][d]]]
    BY DEF Init
  <2> QED BY <1>2, <2>1
<1>4. Typed
  BY <1>1, <1>3, IdleTyped DEF Init, Typed, GridsTyped, States
<1>5. Shapes
  BY IdleShape DEF Init, Shapes
<1>6. Spans
  BY DEF Init, Spans, Grids, GridAssumption
<1> QED BY <1>4, <1>5, <1>6 DEF Base

(* The types, and what each call has in hand, hold in every state.         *)
THEOREM GridsAreTyped == GridAssumption => (Spec => []Base)
<1> SUFFICES ASSUME GridAssumption PROVE Spec => []Base
  OBVIOUS
<1>1. Init => Base
  BY InitBase
<1>2. Base /\ [Next]_vars => Base'
  BY NextKeepsBase
<1> QED BY <1>1, <1>2, PTL DEF Spec

-----------------------------------------------------------------------------
(* Who handles what *)

(* A call has a request somebody made. *)
Asked == \A c \in Calls : call[c].req # None => state[call[c].req] # "none"

(* Two calls on one request are known to race. *)
Alone ==
  \A c \in Calls, e \in Calls :
    c # e /\ call[c].req = call[e].req /\ call[c].req # None => call[c].req \in raced

(* No call takes up anything new. *)
Carried(j, k) ==
  /\ j.req \in {k.req, None} /\ j.weeks \in {k.weeks, {}}
  /\ j.at = "append" => k.at = "append" /\ j.grid = k.grid /\ j.seen = k.seen

Carry == \A e \in Calls : Carried(call'[e], call[e])

Opened(c, r) ==
  /\ call[c] = Idle /\ \A e \in Calls \ {c} : call'[e] = call[e]
  /\ call'[c].req = r /\ call'[c].weeks = {} /\ call'[c].at # "append"
  /\ state'[r] # "none"
  /\ r \in raced' \/ \A e \in Calls \ {c} : call[e].req # r

MergeOpened(c, S, p, m) ==
  /\ MergeStarted(c, S, p, m) /\ Usable(S)
  /\ \A w \in S \ raced' : \A e \in Calls \ {c} : w \notin call[e].weeks
  /\ call'[c].at = "append" /\ m \notin raced' => \A e \in Calls \ {c} : call[e].grid # m

LEMMA KeptCarried == ASSUME NEW j, NEW k, Kept(j, k) PROVE Carried(j, k)
BY DEF Kept, Carried

LEMMA CarryOfStep ==
  ASSUME NEW c \in Calls, OthersKept(c), Carried(call'[c], call[c])
  PROVE  Carry
<1> SUFFICES ASSUME NEW e \in Calls PROVE Carried(call'[e], call[e])
  BY DEF Carry
<1>1. CASE e = c
  BY <1>1
<1>2. CASE e # c
  BY <1>2, KeptCarried DEF OthersKept
<1> QED BY <1>1, <1>2

LEMMA IdleCarried == ASSUME NEW k PROVE Carried(Idle, k)
BY IdleTyped DEF Carried

LEMMA StartOpens ==
  ASSUME GridAssumption, Base, Asked, NEW c \in Calls, NEW r \in Requests,
         \/ r \in Fulfilled /\ StartApprove(c, r)
         \/ r \in Missions /\ (AutoMission(c, r) \/ StartMark(c, r)
                                \/ StartDrop(c, r) \/ StartCancel(c, r))
  PROVE  Opened(c, r) /\ raced \subseteq raced'
<1>1. Typed
  BY DEF Base
<1>2. /\ \A e \in Calls \ {c} : call'[e] = call[e]
      /\ call[c] = Idle /\ call'[c].req = r /\ call'[c].weeks = {}
      /\ call'[c].at \in {"read", "mark", "drop", "clear"}
  BY <1>1, Starting
<1>3. /\ state'[r] # "none" /\ raced \subseteq raced'
      /\ r \in raced' \/ \A e \in Calls \ {c} : call[e].req # r
  <2>1. CASE AutoMission(c, r)
    <3>1. state[r] = "none" /\ state' = [state EXCEPT ![r] = "approved"] /\ raced' = raced
      BY <2>1 DEF AutoMission, history
    <3>2. r # None
      BY RequestDays
    <3> QED BY <1>1, <3>1, <3>2 DEF Asked, Typed
  <2>2. CASE ~AutoMission(c, r)
    <3>1. Meets(c, {r}) /\ state' = state /\ state[r] \in {"pending", "approved"}
      BY <2>2 DEF StartApprove, StartMark, StartDrop, StartCancel
    <3> QED BY <3>1 DEF Meets
  <2> QED BY <2>1, <2>2
<1> QED BY <1>2, <1>3 DEF Opened

LEMMA MergeOpens ==
  ASSUME GridAssumption, Base, NEW c \in Calls, NEW S \in SUBSET Weeks,
         NEW p \in Periods, NEW m,
         StartMerge(c, S, p) \/ (m \in Months /\ StartAppend(c, S, m, p))
  PROVE  MergeOpened(c, S, p, m) /\ state' = state /\ UNCHANGED grids
           /\ raced \subseteq raced'
<1>1. MergeStarted(c, S, p, m)
  BY StartingMerge DEF Base
<1>2. call'[c].at = "append" => StartAppend(c, S, m, p)
  BY <1>1 DEF MergeStarted
<1>3. /\ state' = state /\ UNCHANGED grids /\ Usable(S) /\ raced \subseteq raced'
      /\ \A w \in S \ raced' : \A e \in Calls \ {c} : w \notin call[e].weeks
  <2>1. CASE StartMerge(c, S, p)
    <3>1. Meets(c, S) /\ Usable(S) /\ state' = state /\ UNCHANGED grids
      BY <2>1 DEF StartMerge
    <3> QED BY <3>1 DEF Meets
  <2>2. CASE StartAppend(c, S, m, p)
    <3>1. Meets(c, S \cup {m}) /\ Usable(S) /\ state' = state /\ UNCHANGED grids
      BY <2>2 DEF StartAppend
    <3> QED BY <3>1 DEF Meets
  <2> QED BY <2>1, <2>2
<1>4. StartAppend(c, S, m, p) /\ m \notin raced' => \A e \in Calls \ {c} : call[e].grid # m
  BY DEF StartAppend, Meets
<1> QED BY <1>1, <1>2, <1>3, <1>4 DEF MergeOpened

(* Every other step of a call takes up nothing new, and hides no race.     *)
Works(c) ==
  \/ ReadCell(c) \/ WriteCell(c) \/ Approve(c) \/ MarkDay(c) \/ Clear(c) \/ Drop(c)
  \/ Fail(c) \/ (\E m \in Months : CreateMonth(c, m)) \/ Append(c)

LEMMA WorkCarries ==
  ASSUME GridAssumption, Base, NEW c \in Calls, Works(c)
  PROVE  /\ OthersKept(c) /\ Carry /\ raced' = raced
         /\ \A r \in Requests : state[r] # "none" => state'[r] # "none"
<1>1. Typed /\ Shapes /\ Shape(call[c], from)
  BY DEF Base, Shapes
<1>2. OthersKept(c) /\ Carried(call'[c], call[c])
  <2> DEFINE d == Min(call[c].todo)
  <2>1. CASE ReadCell(c)
    <3>1. /\ OthersKept(c)
          /\ \/ call'[c] = Idle
             \/ /\ call'[c].at = "write" /\ call'[c].req = call[c].req
                /\ call'[c].weeks = call[c].weeks
      BY <1>1, <2>1, Reading
    <3> QED BY <3>1, IdleCarried DEF Carried
  <2>2. CASE WriteCell(c)
    <3>1. OthersKept(c) /\ (call'[c] = Idle \/ Written(c))
      BY <1>1, <2>2, Writes
    <3>2. Written(c) => Carried(call'[c], call[c])
      BY DEF Written, Carried, AfterDay
    <3> QED BY <3>1, <3>2, IdleCarried
  <2>3. CASE Approve(c) \/ Drop(c) \/ Fail(c)
    <3>1. Ends(c)
      BY <2>3 DEF Approve, Drop, Fail
    <3>2. OthersKept(c) /\ call'[c] = Idle
      BY <1>1, <3>1, Ending
    <3> QED BY <3>2, IdleCarried
  <2>4. CASE MarkDay(c)
    <3>1. OthersKept(c) /\ (call'[c] = Idle \/ MarkedNow(c))
      BY <1>1, <2>4, MarksDay
    <3>2. MarkedNow(c) => Done(c)
      BY DEF MarkedNow
    <3>3. Done(c) => call'[c] = Idle \/ Carried(call'[c], call[c])
      BY DEF Done, Carried
    <3> QED BY <3>1, <3>2, <3>3, IdleCarried
  <2>5. CASE Clear(c)
    <3>1. /\ OthersKept(c) /\ call'[c].at = "drop" /\ call'[c].req = call[c].req
          /\ call'[c].weeks = call[c].weeks
      BY <1>1, <2>5, Clearing
    <3> QED BY <3>1 DEF Carried
  <2>6. ASSUME NEW m \in Months, CreateMonth(c, m) PROVE OthersKept(c) /\ call'[c] = Idle
    BY <1>1, <2>6, Creating
  <2>7. ASSUME Append(c) PROVE OthersKept(c) /\ call'[c] = Idle
    BY <1>1, <2>7, AppendingTo
  <2> QED BY <2>1, <2>2, <2>3, <2>4, <2>5, <2>6, <2>7, IdleCarried DEF Works
<1>3. Carry
  BY <1>2, CarryOfStep
<1>4. raced' = raced
  BY DEF Works, ReadCell, WriteCell, Approve, MarkDay, Clear, Drop, Fail, CreateMonth,
         Append, Copies, history
<1>5. ASSUME NEW r \in Requests, state[r] # "none" PROVE state'[r] # "none"
  <2>1. CASE Approve(c) \/ Drop(c)
    BY <1>1, <1>5, <2>1 DEF Approve, Drop, Typed
  <2>2. CASE ~(Approve(c) \/ Drop(c))
    <3>1. state' = state
      BY <2>2 DEF Works, ReadCell, WriteCell, MarkDay, Clear, Fail, CreateMonth, Append
    <3> QED BY <1>5, <3>1
  <2> QED BY <2>1, <2>2
<1> QED BY <1>2, <1>3, <1>4, <1>5

LEMMA HandsCarry ==
  ASSUME GridAssumption, Base, ByHand
  PROVE  /\ AllKept /\ Carry /\ raced' = raced
         /\ \A r \in Requests : state[r] # "none" => state'[r] # "none"
<1>1. Typed
  BY DEF Base
<1>2. AllKept
  <2>1. ASSUME NEW r \in Requests, Ask(r) \/ Reject(r) PROVE AllKept
    <3>1. call' = call
      BY <2>1 DEF Ask, Reject
    <3> QED BY <3>1, KeptSame DEF AllKept
  <2>2. ASSUME NEW g \in Grids, ClearGrid(g) PROVE AllKept
    BY <1>1, <2>2, ClearingGrid
  <2>3. ASSUME NEW g \in Grids, DeleteGrid(g) PROVE AllKept
    BY <1>1, <2>3, Deleting
  <2>4. ASSUME NEW g \in Grids, NEW d \in Days, EditCell(g, d) PROVE AllKept
    BY <1>1, <2>4, Editing
  <2> QED BY <2>1, <2>2, <2>3, <2>4 DEF ByHand, Fulfilled
<1>3. Carry
  BY <1>2, KeptCarried DEF AllKept, Carry
<1>4. raced' = raced
  BY DEF ByHand, Ask, Reject, ClearGrid, DeleteGrid, EditCell, history
<1>5. ASSUME NEW r \in Requests, state[r] # "none" PROVE state'[r] # "none"
  <2>1. ASSUME NEW q \in Requests, Ask(q) \/ Reject(q) PROVE state'[r] # "none"
    BY <1>1, <1>5, <2>1 DEF Ask, Reject, Typed
  <2>2. ASSUME NEW g \in Grids, NEW d \in Days, EditCell(g, d) PROVE state'[r] # "none"
    BY <1>5, <2>2 DEF EditCell
  <2>3. ASSUME NEW g \in Grids, ClearGrid(g) \/ DeleteGrid(g) PROVE state'[r] # "none"
    BY <1>5, <2>3 DEF ClearGrid, DeleteGrid
  <2> QED BY <2>1, <2>2, <2>3 DEF ByHand, Fulfilled
<1> QED BY <1>2, <1>3, <1>4, <1>5

(* The kinds of steps. *)
LEMMA StepsOfNext ==
  ASSUME Next
  PROVE  \/ ByHand
         \/ \E c \in Calls : Works(c)
         \/ \E c \in Calls, r \in Requests :
              \/ r \in Fulfilled /\ StartApprove(c, r)
              \/ r \in Missions /\ (AutoMission(c, r) \/ StartMark(c, r)
                                     \/ StartDrop(c, r) \/ StartCancel(c, r))
         \/ \E c \in Calls, S \in SUBSET Weeks, p \in Periods : \E m :
              StartMerge(c, S, p) \/ (m \in Months /\ StartAppend(c, S, m, p))
BY DEF Next, Merging, Fulfilling, OnMission, Works, Fulfilled, Missions

LEMMA HandlersKept ==
  ASSUME GridAssumption, Base, Asked, Alone, [Next]_vars
  PROVE  Asked' /\ Alone'
<1> SUFFICES ASSUME NEW d \in Calls, NEW e \in Calls
             PROVE  /\ call'[e].req # None => state'[call'[e].req] # "none"
                    /\ d # e /\ call'[d].req = call'[e].req /\ call'[d].req # None
                         => call'[d].req \in raced'
  BY DEF Asked, Alone
<1>1. \A k \in Calls : call[k].req # None => call[k].req \in Requests
  BY DEF Base, Typed, CallRecords
<1>2. ASSUME Carry, raced \subseteq raced',
             \A r \in Requests : state[r] # "none" => state'[r] # "none"
      PROVE  /\ call'[e].req # None => state'[call'[e].req] # "none"
             /\ d # e /\ call'[d].req = call'[e].req /\ call'[d].req # None
                  => call'[d].req \in raced'
  <2>1. call'[e].req \in {call[e].req, None} /\ call'[d].req \in {call[d].req, None}
    BY <1>2 DEF Carry, Carried
  <2> QED BY <1>1, <1>2, <2>1 DEF Asked, Alone
<1>3. CASE ByHand
  BY <1>2, <1>3, HandsCarry
<1>4. ASSUME NEW c \in Calls, Works(c)
      PROVE  /\ call'[e].req # None => state'[call'[e].req] # "none"
             /\ d # e /\ call'[d].req = call'[e].req /\ call'[d].req # None
                  => call'[d].req \in raced'
  BY <1>2, <1>4, WorkCarries
<1>5. ASSUME NEW c \in Calls, NEW r \in Requests,
              \/ r \in Fulfilled /\ StartApprove(c, r)
              \/ r \in Missions /\ (AutoMission(c, r) \/ StartMark(c, r)
                                     \/ StartDrop(c, r) \/ StartCancel(c, r))
      PROVE  /\ call'[e].req # None => state'[call'[e].req] # "none"
             /\ d # e /\ call'[d].req = call'[e].req /\ call'[d].req # None
                  => call'[d].req \in raced'
  <2>1. Opened(c, r) /\ raced \subseteq raced'
    BY <1>5, StartOpens
  <2>2. state[r] # "none" => state'[r] # "none"
    BY <2>1 DEF Opened
  <2>3. \A q \in Requests : state[q] # "none" => state'[q] # "none"
    BY <1>5 DEF Base, Typed, StartApprove, AutoMission, StartMark, StartDrop, StartCancel
  <2> QED BY <1>1, <2>1, <2>3 DEF Opened, Asked, Alone
<1>6. ASSUME NEW c \in Calls, NEW S \in SUBSET Weeks, NEW p \in Periods, NEW m,
             StartMerge(c, S, p) \/ (m \in Months /\ StartAppend(c, S, m, p))
      PROVE  /\ call'[e].req # None => state'[call'[e].req] # "none"
             /\ d # e /\ call'[d].req = call'[e].req /\ call'[d].req # None
                  => call'[d].req \in raced'
  <2>1. MergeOpened(c, S, p, m) /\ state' = state /\ raced \subseteq raced'
    BY <1>6, MergeOpens
  <2>2. call'[c].req = None /\ \A k \in Calls \ {c} : call'[k] = call[k]
    BY <2>1 DEF MergeOpened, MergeStarted
  <2> QED BY <1>1, <2>1, <2>2 DEF Asked, Alone
<1>7. CASE UNCHANGED vars
  BY <1>7 DEF vars, history, Asked, Alone
<1> QED BY <1>3, <1>4, <1>5, <1>6, <1>7, StepsOfNext

-----------------------------------------------------------------------------
(* Weeks and the month they were merged into *)

(* A month that exists is the one its weeks know. *)
WeekKnows ==
  \A w \in Weeks \ raced, m \in Months \ raced :
    w \in from[m] /\ span[m] # {} => into[w] = m

(* The weeks of a merge under way are free, and no other merge has them.   *)
WeekFree == \A c \in Calls : \A w \in call[c].weeks \ raced : into[w] = None

WeekTaken ==
  \A c \in Calls, e \in Calls : c # e => call[c].weeks \cap call[e].weeks \subseteq raced

(* A merge that adds to a month knows the weeks in it, and does so alone.  *)
Adding ==
  \A c \in Calls : call[c].at = "append" /\ call[c].grid \notin raced =>
    /\ call[c].seen \subseteq from[call[c].grid]
    /\ \A e \in Calls \ {c} : call[e].at = "append" => call[e].grid # call[c].grid

WeekInv == WeekKnows /\ WeekFree /\ WeekTaken /\ Adding

(* What a step that takes up nothing new leaves of it. *)
LEMMA TakenCarried ==
  ASSUME WeekTaken, Carry, raced' = raced
  PROVE  WeekTaken'
<1> SUFFICES ASSUME NEW c \in Calls, NEW e \in Calls, c # e
             PROVE call'[c].weeks \cap call'[e].weeks \subseteq raced'
  BY DEF WeekTaken
<1>1. call'[c].weeks \in {call[c].weeks, {}} /\ call'[e].weeks \in {call[e].weeks, {}}
  BY DEF Carry, Carried
<1> QED BY <1>1 DEF WeekTaken

LEMMA AddingCarried ==
  ASSUME Adding, Carry, raced' = raced,
         \A c \in Calls : call'[c].at = "append" /\ call[c].grid \notin raced =>
            from[call[c].grid] \subseteq from'[call[c].grid]
  PROVE  Adding'
<1> SUFFICES ASSUME NEW c \in Calls, call'[c].at = "append", call'[c].grid \notin raced'
             PROVE /\ call'[c].seen \subseteq from'[call'[c].grid]
                   /\ \A e \in Calls \ {c} : call'[e].at = "append" => call'[e].grid # call'[c].grid
  BY DEF Adding
<1>1. \A e \in Calls : call'[e].at = "append" =>
        call[e].at = "append" /\ call'[e].grid = call[e].grid /\ call'[e].seen = call[e].seen
  BY DEF Carry, Carried
<1>2. call[c].grid \notin raced /\ call[c].at = "append"
  BY <1>1
<1>3. /\ call[c].seen \subseteq from[call[c].grid]
      /\ \A e \in Calls \ {c} : call[e].at = "append" => call[e].grid # call[c].grid
  BY <1>2 DEF Adding
<1> QED BY <1>1, <1>2, <1>3

LEMMA WeeksCarried ==
  ASSUME Base, WeekInv, Carry, raced' = raced, UNCHANGED <<span, into, from>>
  PROVE  WeekInv'
<1>1. WeekKnows'
  BY DEF WeekInv, WeekKnows
<1>2. WeekFree'
  <2> SUFFICES ASSUME NEW c \in Calls, NEW w \in call'[c].weeks \ raced PROVE into[w] = None
    BY DEF WeekFree
  <2>1. w \in call[c].weeks
    BY DEF Carry, Carried
  <2> QED BY <2>1 DEF WeekInv, WeekFree
<1> QED BY <1>1, <1>2, TakenCarried, AddingCarried DEF WeekInv

LEMMA MergeStartKeepsWeeks ==
  ASSUME GridAssumption, Base, WeekInv, NEW c \in Calls, NEW S \in SUBSET Weeks,
         NEW p \in Periods, NEW m,
         MergeOpened(c, S, p, m), raced \subseteq raced', UNCHANGED grids
  PROVE  WeekInv'
<1>1. UNCHANGED <<span, into, from>>
  BY DEF grids
<1>2. /\ \A e \in Calls \ {c} : call'[e] = call[e]
      /\ call'[c].weeks = S
      /\ call'[c].at = "append" => call'[c].grid = m /\ call'[c].seen = from[m]
      /\ \A w \in S : into[w] = None
      /\ \A w \in S \ raced' : \A e \in Calls \ {c} : w \notin call[e].weeks
      /\ call'[c].at = "append" /\ m \notin raced' => \A e \in Calls \ {c} : call[e].grid # m
  BY DEF MergeOpened, MergeStarted, Usable
<1>3. WeekKnows'
  BY <1>1 DEF WeekInv, WeekKnows
<1>4. WeekFree'
  <2> SUFFICES ASSUME NEW e \in Calls, NEW w \in call'[e].weeks \ raced' PROVE into[w] = None
    BY <1>1 DEF WeekFree
  <2> QED BY <1>2 DEF WeekInv, WeekFree
<1>5. WeekTaken'
  <2> SUFFICES ASSUME NEW d \in Calls, NEW e \in Calls, d # e,
                      NEW w \in call'[d].weeks \cap call'[e].weeks, w \notin raced'
               PROVE FALSE
    BY DEF WeekTaken
  <2>1. CASE d = c \/ e = c
    BY <1>2, <2>1
  <2>2. CASE d # c /\ e # c
    BY <1>2, <2>2 DEF WeekInv, WeekTaken
  <2> QED BY <2>1, <2>2
<1>6. Adding'
  <2> SUFFICES ASSUME NEW d \in Calls, call'[d].at = "append", call'[d].grid \notin raced'
               PROVE /\ call'[d].seen \subseteq from[call'[d].grid]
                     /\ \A e \in Calls \ {d} : call'[e].at = "append"
                           => call'[e].grid # call'[d].grid
    BY <1>1 DEF Adding
  <2>1. CASE d = c
    BY <1>2, <2>1
  <2>2. CASE d # c
    <3>1. call'[d] = call[d] /\ call[d].grid \notin raced
      BY <1>2, <2>2
    <3>2. /\ call[d].seen \subseteq from[call[d].grid]
          /\ \A e \in Calls \ {d} : call[e].at = "append" => call[e].grid # call[d].grid
      BY <3>1 DEF WeekInv, Adding
    <3>3. call'[c].at = "append" => call'[c].grid # call[d].grid
      BY <1>2, <2>2, <3>1
    <3> QED BY <1>2, <3>1, <3>2, <3>3
  <2> QED BY <2>1, <2>2
<1> QED BY <1>3, <1>4, <1>5, <1>6 DEF WeekInv

(* A merge that writes its weeks W, and W and more into the month m. *)
LEMMA MergeKeepsWeeks ==
  ASSUME GridAssumption, Base, WeekInv, NEW c \in Calls, NEW m \in Months, NEW F,
         Carry, raced' = raced, call'[c] = Idle,
         into' = [w \in Weeks |-> IF w \in call[c].weeks THEN m ELSE into[w]],
         from' = [from EXCEPT ![m] = F],
         \A n \in Months \ {m} : span'[n] = span[n],
         call[c].weeks \subseteq F,
         m \notin raced => \A w \in F \ call[c].weeks : w \in from[m] /\ span[m] # {},
         m \notin raced => \A e \in Calls \ {c} :
                             ~(call[e].at = "append" /\ call[e].grid = m)
  PROVE  WeekInv'
<1>1. Typed /\ call[c] \in CallRecords
  BY DEF Base, Typed
<1>2. call[c].weeks \in SUBSET Weeks
  BY <1>1 DEF CallRecords
<1>3. from'[m] = F /\ \A n \in Months \ {m} : from'[n] = from[n]
  BY <1>1 DEF Typed, GridsTyped
<1>4. \A w \in Weeks : into'[w] = IF w \in call[c].weeks THEN m ELSE into[w]
  OBVIOUS
<1>5. None \notin Months
  BY DEF GridAssumption
<1>6. WeekKnows'
  <2> SUFFICES ASSUME NEW w \in Weeks \ raced, NEW n \in Months \ raced,
                      w \in from'[n], span'[n] # {}
               PROVE  into'[w] = n
    BY DEF WeekKnows
  <2>1. CASE n = m
    <3>1. CASE w \in call[c].weeks
      BY <1>4, <2>1, <3>1
    <3>2. CASE w \notin call[c].weeks
      <4>1. w \in from[m] /\ span[m] # {}
        BY <1>3, <2>1, <3>2
      <4> QED BY <1>4, <2>1, <3>2, <4>1 DEF WeekInv, WeekKnows
    <3> QED BY <3>1, <3>2
  <2>2. CASE n # m
    <3>1. w \in from[n] /\ span[n] # {}
      BY <1>3, <2>2
    <3>2. into[w] = n
      BY <3>1 DEF WeekInv, WeekKnows
    <3>3. w \notin call[c].weeks
      BY <3>2, <1>5 DEF WeekInv, WeekFree
    <3> QED BY <1>4, <3>2, <3>3
  <2> QED BY <2>1, <2>2
<1>7. WeekFree'
  <2> SUFFICES ASSUME NEW e \in Calls, NEW w \in call'[e].weeks \ raced PROVE into'[w] = None
    BY DEF WeekFree
  <2>1. e # c
    BY IdleTyped
  <2>2. w \in call[e].weeks /\ call[e] \in CallRecords
    BY <1>1 DEF Carry, Carried, Typed
  <2>3. w \in Weeks /\ into[w] = None
    BY <2>2 DEF CallRecords, WeekInv, WeekFree
  <2>4. w \notin call[c].weeks
    BY <2>1, <2>2 DEF WeekInv, WeekTaken
  <2> QED BY <1>4, <2>3, <2>4
<1>8. Adding'
  <2>1. ASSUME NEW e \in Calls, call'[e].at = "append", call[e].grid \notin raced
        PROVE  from[call[e].grid] \subseteq from'[call[e].grid]
    <3>1. e # c /\ call[e].at = "append" /\ call[e] \in CallRecords
      BY <1>1, <2>1, IdleTyped DEF Carry, Carried, Typed
    <3>2. call[e].grid # m
      BY <2>1, <3>1
    <3>3. call[e].grid \in Months
      BY <3>1 DEF Base, Shapes, Shape
    <3> QED BY <1>3, <3>2, <3>3
  <2> QED BY <2>1, AddingCarried DEF WeekInv
<1> QED BY <1>6, <1>7, <1>8, TakenCarried DEF WeekInv

LEMMA CreateKeepsWeeks ==
  ASSUME GridAssumption, Base, WeekInv, NEW c \in Calls, NEW m \in Months, CreateMonth(c, m)
  PROVE  WeekInv'
<1>1. Typed /\ Shapes /\ Works(c)
  BY DEF Base, Works
<1>2. Carry /\ raced' = raced
  BY <1>1, WorkCarries
<1>3. /\ call'[c] = Idle
      /\ into' = [w \in Weeks |-> IF w \in call[c].weeks THEN m ELSE into[w]]
      /\ from' = [from EXCEPT ![m] = call[c].weeks]
      /\ span' = [span EXCEPT ![m] = call[c].todo]
      /\ from[m] = {}
  BY <1>1, Creating
<1>4. \A n \in Months \ {m} : span'[n] = span[n]
  BY <1>1, <1>3 DEF Typed, GridsTyped, Grids
<1>5. \A e \in Calls \ {c} : ~(call[e].at = "append" /\ call[e].grid = m)
  BY <1>1, <1>3 DEF Shapes, Shape
<1> QED BY <1>2, <1>3, <1>4, <1>5, MergeKeepsWeeks

LEMMA AppendKeepsWeeks ==
  ASSUME GridAssumption, Base, WeekInv, NEW c \in Calls, Append(c)
  PROVE  WeekInv'
<1> DEFINE m == call[c].grid
<1>1. Typed /\ Shapes /\ Works(c)
  BY DEF Base, Works
<1>2. Carry /\ raced' = raced
  BY <1>1, WorkCarries
<1>3. /\ call'[c] = Idle
      /\ into' = [w \in Weeks |-> IF w \in call[c].weeks THEN m ELSE into[w]]
      /\ from' = [from EXCEPT ![m] = call[c].seen \cup call[c].weeks]
      /\ span' = [span EXCEPT ![m] = call[c].todo]
      /\ m \in Months /\ span[m] # {} /\ call[c].at = "append"
  BY <1>1, AppendingTo
<1>4. \A n \in Months \ {m} : span'[n] = span[n]
  BY <1>1, <1>3 DEF Typed, GridsTyped, Grids
<1>5. m \notin raced => /\ call[c].seen \subseteq from[m]
                        /\ \A e \in Calls \ {c} : ~(call[e].at = "append" /\ call[e].grid = m)
  BY <1>3 DEF WeekInv, Adding
<1> HIDE DEF m
<1>6. m \notin raced => \A w \in (call[c].seen \cup call[c].weeks) \ call[c].weeks :
                          w \in from[m] /\ span[m] # {}
  BY <1>3, <1>5
<1> QED BY <1>2, <1>3, <1>4, <1>5, <1>6, MergeKeepsWeeks

LEMMA DeleteKeepsWeeks ==
  ASSUME GridAssumption, Base, WeekInv, NEW g \in Grids, DeleteGrid(g)
  PROVE  WeekInv'
<1>1. Typed /\ ByHand
  BY DEF Base, ByHand
<1>2. Carry /\ raced' = raced
  BY <1>1, HandsCarry
<1>3. /\ span' = [span EXCEPT ![g] = {}]
      /\ \A h \in Grids \ {g} : span'[h] = span[h]
      /\ into' = [w \in Weeks |-> IF into[w] = g THEN None ELSE into[w]]
      /\ from' = from
  BY <1>1, Deleting DEF DeleteGrid
<1>4. span'[g] = {}
  BY <1>1, <1>3 DEF Typed, GridsTyped
<1>5. WeekKnows'
  <2> SUFFICES ASSUME NEW w \in Weeks \ raced, NEW n \in Months \ raced,
                      w \in from[n], span'[n] # {}
               PROVE  into'[w] = n
    BY <1>2, <1>3 DEF WeekKnows
  <2>1. n # g /\ n \in Grids
    BY <1>4 DEF Grids
  <2>2. into[w] = n
    BY <1>3, <2>1 DEF WeekInv, WeekKnows
  <2> QED BY <1>3, <2>1, <2>2
<1>6. WeekFree'
  <2> SUFFICES ASSUME NEW e \in Calls, NEW w \in call'[e].weeks \ raced PROVE into'[w] = None
    BY <1>2 DEF WeekFree
  <2>1. w \in call[e].weeks /\ call[e] \in CallRecords
    BY <1>1, <1>2 DEF Carry, Carried, Typed
  <2>2. w \in Weeks /\ into[w] = None
    BY <2>1 DEF CallRecords, WeekInv, WeekFree
  <2> QED BY <1>3, <2>2
<1>7. Adding'
  BY <1>2, <1>3, AddingCarried DEF WeekInv
<1> QED BY <1>2, <1>5, <1>6, <1>7, TakenCarried DEF WeekInv

LEMMA NextKeepsWeeks ==
  ASSUME GridAssumption, Base, Asked, WeekInv, [Next]_vars
  PROVE  WeekInv'
<1>1. CASE ByHand
  <2>1. Carry /\ raced' = raced
    BY <1>1, HandsCarry
  <2>2. CASE \E g \in Grids : DeleteGrid(g)
    BY <2>2, DeleteKeepsWeeks
  <2>3. CASE ~\E g \in Grids : DeleteGrid(g)
    <3>1. UNCHANGED <<span, into, from>>
      BY <1>1, <2>3 DEF ByHand, Ask, Reject, ClearGrid, EditCell, grids
    <3> QED BY <2>1, <3>1, WeeksCarried
  <2> QED BY <2>2, <2>3
<1>2. ASSUME NEW c \in Calls, Works(c) PROVE WeekInv'
  <2>1. Carry /\ raced' = raced
    BY <1>2, WorkCarries
  <2>2. CASE Append(c) \/ \E m \in Months : CreateMonth(c, m)
    BY <2>2, AppendKeepsWeeks, CreateKeepsWeeks
  <2>3. CASE ~(Append(c) \/ \E m \in Months : CreateMonth(c, m))
    <3>1. UNCHANGED <<span, into, from>>
      BY <1>2, <2>3 DEF Works, ReadCell, WriteCell, Approve, MarkDay, Clear, Drop, Fail, grids
    <3> QED BY <2>1, <3>1, WeeksCarried
  <2> QED BY <2>2, <2>3
<1>3. ASSUME NEW c \in Calls, NEW r \in Requests,
              \/ r \in Fulfilled /\ StartApprove(c, r)
              \/ r \in Missions /\ (AutoMission(c, r) \/ StartMark(c, r)
                                     \/ StartDrop(c, r) \/ StartCancel(c, r))
      PROVE  WeekInv'
  <2>1. Opened(c, r) /\ raced \subseteq raced'
    BY <1>3, StartOpens
  <2>2. UNCHANGED <<span, into, from>>
    BY <1>3 DEF StartApprove, AutoMission, StartMark, StartDrop, StartCancel, grids
  <2>3. /\ \A e \in Calls \ {c} : call'[e] = call[e]
        /\ call'[c].weeks = {} /\ call'[c].at # "append"
    BY <2>1 DEF Opened
  <2>4. WeekKnows' /\ WeekFree' /\ WeekTaken'
    BY <2>1, <2>2, <2>3 DEF WeekInv, WeekKnows, WeekFree, WeekTaken
  <2>5. Adding'
    <3> SUFFICES ASSUME NEW d \in Calls, call'[d].at = "append", call'[d].grid \notin raced'
                 PROVE /\ call'[d].seen \subseteq from[call'[d].grid]
                       /\ \A e \in Calls \ {d} : call'[e].at = "append"
                             => call'[e].grid # call'[d].grid
      BY <2>2 DEF Adding
    <3>1. d # c /\ call'[d] = call[d] /\ call[d].grid \notin raced
      BY <2>1, <2>3
    <3>2. /\ call[d].seen \subseteq from[call[d].grid]
          /\ \A e \in Calls \ {d} : call[e].at = "append" => call[e].grid # call[d].grid
      BY <3>1 DEF WeekInv, Adding
    <3> QED BY <2>3, <3>1, <3>2
  <2> QED BY <2>4, <2>5 DEF WeekInv
<1>4. ASSUME NEW c \in Calls, NEW S \in SUBSET Weeks, NEW p \in Periods, NEW m,
             StartMerge(c, S, p) \/ (m \in Months /\ StartAppend(c, S, m, p))
      PROVE  WeekInv'
  <2>1. MergeOpened(c, S, p, m) /\ raced \subseteq raced' /\ UNCHANGED grids
    BY <1>4, MergeOpens
  <2> QED BY <2>1, MergeStartKeepsWeeks
<1>5. CASE UNCHANGED vars
  BY <1>5 DEF vars, grids, history, WeekInv, WeekKnows, WeekFree, WeekTaken, Adding
<1> QED BY <1>1, <1>2, <1>3, <1>4, <1>5, StepsOfNext

LEMMA InitHandlers == GridAssumption /\ Init => Asked /\ Alone /\ WeekInv
BY IdleTyped DEF Init, Asked, Alone, WeekInv, WeekKnows, WeekFree, WeekTaken, Adding

(* A week is merged into one month at most and knows which, unless two     *)
(* merges handled it at once: with into alone the months that exist could  *)
(* be two, so the argument keeps what each merge under way has read.       *)
THEOREM WeeksMergeOnce == GridAssumption => (Spec => []WeekMergedOnce)
<1> SUFFICES ASSUME GridAssumption PROVE Spec => []WeekMergedOnce
  OBVIOUS
<1> DEFINE Inv == Base /\ Asked /\ Alone /\ WeekInv
<1>1. Init => Inv
  BY InitBase, InitHandlers
<1>2. Inv /\ [Next]_vars => Inv'
  BY NextKeepsBase, HandlersKept, NextKeepsWeeks
<1>3. Inv => WeekMergedOnce
  <2> SUFFICES ASSUME Inv, NEW w \in Weeks \ raced
               PROVE  LET used == {m \in Months \ raced : w \in from[m] /\ span[m] # {}}
                      IN Cardinality(used) <= 1 /\ (used # {} => used = {into[w]})
    BY DEF WeekMergedOnce
  <2> DEFINE used == {m \in Months \ raced : w \in from[m] /\ span[m] # {}}
  <2>1. \A m \in used : m = into[w]
    BY DEF WeekInv, WeekKnows
  <2> HIDE DEF used
  <2>2. used = {} \/ used = {into[w]}
    BY <2>1
  <2>3. Cardinality({}) = 0 /\ Cardinality({into[w]}) = 1
    BY FS_EmptySet, FS_Singleton
  <2>4. Cardinality(used) <= 1
    <3>1. Cardinality(used) = 0 \/ Cardinality(used) = 1
      BY <2>2, <2>3
    <3> QED BY <3>1
  <2> QED BY <2>2, <2>4 DEF used
<1> QED BY <1>1, <1>2, <1>3, PTL DEF Spec

-----------------------------------------------------------------------------
(* What a step does to a day *)

LEMMA HistoryGrows ==
  ASSUME [Next]_vars
  PROVE  /\ edited \subseteq edited' /\ crossed \subseteq crossed'
         /\ remade \subseteq remade' /\ half \subseteq half' /\ raced \subseteq raced'
         /\ \/ copied \subseteq copied'
            \/ \E c \in Calls : MarkDay(c)
<1>1. ASSUME Next
      PROVE  /\ edited \subseteq edited' /\ crossed \subseteq crossed'
             /\ remade \subseteq remade' /\ half \subseteq half' /\ raced \subseteq raced'
             /\ \/ copied \subseteq copied'
                \/ \E c \in Calls : MarkDay(c)
  <2>1. CASE ByHand
    BY <2>1 DEF ByHand, Ask, Reject, ClearGrid, DeleteGrid, EditCell, history
  <2>2. ASSUME NEW c \in Calls, Works(c)
        PROVE  /\ edited \subseteq edited' /\ crossed \subseteq crossed'
               /\ remade \subseteq remade' /\ half \subseteq half' /\ raced \subseteq raced'
               /\ copied \subseteq copied' \/ MarkDay(c)
    <3>1. CASE ReadCell(c) \/ Approve(c) \/ Clear(c) \/ Drop(c) \/ Fail(c)
      BY <3>1 DEF ReadCell, Approve, Clear, Drop, Fail, history
    <3>2. CASE WriteCell(c)
      BY <3>2 DEF WriteCell
    <3>3. CASE MarkDay(c)
      BY <3>3 DEF MarkDay
    <3>4. CASE Append(c) \/ \E m \in Months : CreateMonth(c, m)
      BY <3>4 DEF Append, CreateMonth, Copies
    <3> QED BY <2>2, <3>1, <3>2, <3>3, <3>4 DEF Works
  <2>3. ASSUME NEW c \in Calls, NEW r,
                StartApprove(c, r) \/ AutoMission(c, r) \/ StartMark(c, r)
                  \/ StartDrop(c, r) \/ StartCancel(c, r)
        PROVE  /\ edited \subseteq edited' /\ crossed \subseteq crossed'
               /\ remade \subseteq remade' /\ half \subseteq half' /\ raced \subseteq raced'
               /\ copied \subseteq copied'
    BY <2>3 DEF StartApprove, AutoMission, StartMark, StartDrop, StartCancel, Meets, history
  <2>4. ASSUME NEW c \in Calls, NEW S, NEW p, NEW m,
               StartMerge(c, S, p) \/ StartAppend(c, S, m, p)
        PROVE  /\ edited \subseteq edited' /\ crossed \subseteq crossed'
               /\ remade \subseteq remade' /\ half \subseteq half' /\ raced \subseteq raced'
               /\ copied \subseteq copied'
    BY <2>4 DEF StartMerge, StartAppend, Meets
  <2> QED BY <1>1, <2>1, <2>2, <2>3, <2>4, StepsOfNext
<1>2. CASE UNCHANGED vars
  BY <1>2 DEF vars, history
<1> QED BY <1>1, <1>2

SameGrid(d) == Covering(d)' = Covering(d) /\ GridFor(d)' = GridFor(d)

LEMMA SameSpans == ASSUME span' = span, NEW d PROVE SameGrid(d)
<1>1. Covering(d)' = Covering(d)
  BY DEF Covering
<1> QED BY <1>1, GridForKept DEF SameGrid

(* Only the days of one grid change hands. *)
LEMMA OneSpan ==
  ASSUME Base, NEW g \in Grids, NEW D, span' = [span EXCEPT ![g] = D],
         NEW d \in Days, d \notin span[g], d \notin D
  PROVE  SameGrid(d) /\ (Covering(d) # {} => g \notin Covering(d))
<1>1. \A h \in Grids \ {g} : span'[h] = span[h]
  BY DEF Base, Typed, GridsTyped
<1>2. span'[g] = D
  BY DEF Base, Typed, GridsTyped
<1>3. Covering(d)' = Covering(d) /\ g \notin Covering(d)
  BY <1>1, <1>2 DEF Covering
<1>4. \A h \in Covering(d) : span'[h] = span[h]
  BY <1>1, <1>3 DEF Covering
<1> QED BY <1>3, <1>4, GridForKept DEF SameGrid

Undisturbed(d) ==
  SameGrid(d) /\ (Covering(d) # {} => line'[GridFor(d)][d] = line[GridFor(d)][d])

LEMMA GridForDay ==
  ASSUME GridAssumption, Base, NEW d, Covering(d) # {}
  PROVE  GridFor(d) \in Grids /\ d \in span[GridFor(d)]
<1>1. GridFor(d) \in Covering(d) /\ GridFor(d) \in Grids
  BY GridForCovers DEF Base, Typed, GridsTyped
<1> QED BY <1>1 DEF Covering

LEMMA Untouched == ASSUME span' = span, line' = line, NEW d PROVE Undisturbed(d)
BY SameSpans DEF Undisturbed

(* A step leaves a day alone, or a person changes it, or it is the day a   *)
(* fulfilment or a mission writes, or a cancellation clears a mission, or  *)
(* a merge moves the day.                                                  *)
LEMMA RowOfDay ==
  ASSUME GridAssumption, Base, [Next]_vars, NEW d \in Days
  PROVE  \/ Undisturbed(d)
         \/ d \in edited'
         \/ \E c \in Calls : WriteCell(c) /\ Written(c) /\ d = Min(call[c].todo)
         \/ \E c \in Calls : MarkDay(c) /\ MarkedNow(c) /\ d = Min(call[c].todo)
         \/ \E c \in Calls : Clear(c)
         \/ \E c \in Calls, m \in Months : CreateMonth(c, m) /\ d \in call[c].todo
         \/ \E c \in Calls : Append(c) /\ d \in MovedDays(call[c])
<1>1. Typed /\ Shapes /\ Spans
  BY DEF Base
<1>2. CASE ByHand
  <2>1. ASSUME NEW r \in Requests, Ask(r) \/ Reject(r) PROVE Undisturbed(d)
    BY <2>1, Untouched DEF Ask, Reject, grids
  <2>2. ASSUME NEW g \in Grids, NEW e \in Days, EditCell(g, e)
        PROVE  Undisturbed(d) \/ d \in edited'
    <3>1. CASE d = e
      BY <2>2, <3>1 DEF EditCell
    <3>2. CASE d # e
      <4>1. \A h \in Grids : line'[h][d] = line[h][d]
        BY <1>1, <2>2, <3>2, Editing
      <4>2. span' = span
        BY <2>2 DEF EditCell
      <4> QED BY <4>1, <4>2, SameSpans, GridForDay DEF Undisturbed
    <3> QED BY <3>1, <3>2
  <2>3. ASSUME NEW g \in Grids, ClearGrid(g) PROVE Undisturbed(d) \/ d \in edited'
    <3>1. span' = span /\ edited' = edited \cup span[g]
      BY <2>3 DEF ClearGrid
    <3>2. \A h \in Grids \ {g} : line'[h] = line[h]
      BY <1>1, <2>3, ClearingGrid
    <3> QED BY <3>1, <3>2, SameSpans, GridForDay DEF Undisturbed
  <2>4. ASSUME NEW g \in Grids, DeleteGrid(g) PROVE Undisturbed(d) \/ d \in edited'
    <3>1. /\ span' = [span EXCEPT ![g] = {}] /\ edited' = edited \cup span[g]
          /\ \A h \in Grids \ {g} : line'[h] = line[h]
      BY <1>1, <2>4, Deleting
    <3>2. CASE d \notin span[g]
      <4>1. SameGrid(d)
        BY <3>1, <3>2, OneSpan
      <4>2. Covering(d) # {} => line'[GridFor(d)] = line[GridFor(d)]
        BY <3>1, <3>2, GridForDay
      <4> QED BY <4>1, <4>2 DEF Undisturbed
    <3> QED BY <3>1, <3>2
  <2> QED BY <1>2, <2>1, <2>2, <2>3, <2>4 DEF ByHand, Fulfilled
<1>3. ASSUME NEW c \in Calls, Works(c)
      PROVE  \/ Undisturbed(d)
             \/ WriteCell(c) /\ Written(c) /\ d = Min(call[c].todo)
             \/ MarkDay(c) /\ MarkedNow(c) /\ d = Min(call[c].todo)
             \/ Clear(c)
             \/ \E m \in Months : CreateMonth(c, m) /\ d \in call[c].todo
             \/ Append(c) /\ d \in MovedDays(call[c])
  <2>1. CASE ReadCell(c) \/ Approve(c) \/ Drop(c) \/ Fail(c)
    <3>1. span' = span /\ line' = line
      BY <2>1 DEF ReadCell, Approve, Drop, Fail, grids
    <3> QED BY <3>1, Untouched
  <2>2. CASE WriteCell(c)
    <3>1. span' = span /\ (line' = line \/ Written(c))
      BY <1>1, <2>2, Writes DEF WriteCell
    <3>2. ASSUME Written(c), d # Min(call[c].todo) PROVE Undisturbed(d)
      <4>1. PICK cell : line' = [line EXCEPT ![call[c].grid][Min(call[c].todo)] = cell]
        BY <3>2 DEF Written
      <4>2. \A h \in Grids : line'[h][d] = line[h][d]
        BY <1>1, <3>2, <4>1 DEF Typed, GridsTyped
      <4> QED BY <3>1, <4>2, SameSpans, GridForDay DEF Undisturbed
    <3> QED BY <2>2, <3>1, <3>2, Untouched
  <2>3. CASE MarkDay(c)
    <3>1. span' = span
      BY <2>3 DEF MarkDay
    <3>3. line' = line \/ MarkedNow(c)
      BY <1>1, <2>3, MarksDay
    <3>2. ASSUME MarkedNow(c), d # Min(call[c].todo) PROVE Undisturbed(d)
      <4>1. PICK g \in Grids : \E cell : line' = [line EXCEPT ![g][Min(call[c].todo)] = cell]
        BY <3>2 DEF MarkedNow
      <4>2. \A h \in Grids : line'[h][d] = line[h][d]
        BY <1>1, <3>2, <4>1 DEF Typed, GridsTyped
      <4> QED BY <3>1, <4>2, SameSpans, GridForDay DEF Undisturbed
    <3> QED BY <2>3, <3>1, <3>2, <3>3, Untouched
  <2>4. ASSUME NEW m \in Months, CreateMonth(c, m), d \notin call[c].todo
        PROVE  Undisturbed(d)
    <3>1. /\ span' = [span EXCEPT ![m] = call[c].todo] /\ m \in Grids /\ from[m] = {}
          /\ \A g \in Grids \ {m} : line'[g] = line[g]
      BY <1>1, <2>4, Creating
    <3>2. d \notin span[m]
      BY <1>1, <3>1 DEF Spans
    <3>3. SameGrid(d)
      BY <2>4, <3>1, <3>2, OneSpan
    <3>4. Covering(d) # {} => line'[GridFor(d)] = line[GridFor(d)]
      BY <3>1, <3>2, GridForDay
    <3> QED BY <3>3, <3>4 DEF Undisturbed
  <2>5. ASSUME Append(c), d \notin MovedDays(call[c]) PROVE Undisturbed(d)
    <3> DEFINE k == call[c]
               m == k.grid
    <3>1. /\ span' = [span EXCEPT ![m] = k.todo] /\ m \in Grids
          /\ \A g \in Grids \ {m} : line'[g] = line[g]
          /\ \A x \in Days :
              line'[m][x] = IF x \in NewDays(k)
                            THEN [does |-> k.copy[x].does, mission |-> None]
                            ELSE IF x \in DeletedDays(k) THEN NoLine ELSE line[m][x]
      BY <1>1, <2>5, AppendingTo
    <3>2. CASE span[m] = k.todo /\ k.does = "add"
      <4>1. span' = span
        BY <1>1, <3>1, <3>2 DEF Typed, GridsTyped
      <4>2. d \notin NewDays(k) /\ d \notin DeletedDays(k)
        BY <2>5, <3>2 DEF MovedDays, DeletedDays
      <4>3. line'[m][d] = line[m][d]
        BY <3>1, <4>2
      <4>4. Covering(d) # {} => line'[GridFor(d)][d] = line[GridFor(d)][d]
        BY <3>1, <4>3, GridForDay
      <4> QED BY <4>1, <4>4, SameSpans DEF Undisturbed
    <3>3. CASE ~(span[m] = k.todo /\ k.does = "add")
      <4>1. d \notin span[m] /\ d \notin k.todo
        BY <2>5, <3>3 DEF MovedDays
      <4>2. SameGrid(d)
        BY <3>1, <4>1, OneSpan
      <4>3. Covering(d) # {} => line'[GridFor(d)] = line[GridFor(d)]
        BY <3>1, <4>1, GridForDay
      <4> QED BY <4>2, <4>3 DEF Undisturbed
    <3> QED BY <3>2, <3>3
  <2> QED BY <1>3, <2>1, <2>2, <2>3, <2>4, <2>5 DEF Works
<1>4. ASSUME NEW c \in Calls, NEW r,
              StartApprove(c, r) \/ AutoMission(c, r) \/ StartMark(c, r)
                \/ StartDrop(c, r) \/ StartCancel(c, r)
      PROVE  Undisturbed(d)
  <2>1. span' = span /\ line' = line
    BY <1>4 DEF StartApprove, AutoMission, StartMark, StartDrop, StartCancel, grids
  <2> QED BY <2>1, Untouched
<1>5. ASSUME NEW c \in Calls, NEW S, NEW p, NEW m,
             StartMerge(c, S, p) \/ StartAppend(c, S, m, p)
      PROVE  Undisturbed(d)
  <2>1. span' = span /\ line' = line
    BY <1>5 DEF StartMerge, StartAppend, grids
  <2> QED BY <2>1, Untouched
<1>6. CASE UNCHANGED vars
  BY <1>6, Untouched DEF vars, grids
<1> QED BY <1>2, <1>3, <1>4, <1>5, <1>6, StepsOfNext

-----------------------------------------------------------------------------
(* What a fulfilment has read of the row it writes *)

(* Unless it is known to be outdated, the mission it read is there still.  *)
CellAgrees(c) ==
  call[c].at = "write" =>
    LET k == call[c]
        d == Min(k.todo)
    IN k.gone \/ d \in k.stale \/ k.cell.mission = line[k.grid][d].mission

CellRead == \A c \in Calls : CellAgrees(c)

LEMMA InHand ==
  ASSUME GridAssumption, Base, NEW c \in Calls, call[c].at = "write"
  PROVE  LET k == call[c]
             d == Min(k.todo)
         IN /\ k.grid \in Grids /\ d \in k.todo /\ d \in Days /\ d \in DaysOf[k.req]
            /\ k.req \in Fulfilled /\ k.req # None
            /\ k.grid \in Months => from[k.grid] # {}
<1>1. call[c] \in CallRecords /\ Shape(call[c], from)
  BY DEF Base, Typed, Shapes
<1>2. call[c].todo \in SUBSET Days /\ call[c].todo # {}
  BY <1>1 DEF CallRecords, Shape
<1>3. Min(call[c].todo) \in call[c].todo
  BY <1>2, MinOfDays
<1>4. call[c].req \in Fulfilled /\ call[c].todo \subseteq DaysOf[call[c].req]
  BY <1>1 DEF Shape
<1>5. call[c].grid \in Grids /\ (call[c].grid \in Months => from[call[c].grid] # {})
  BY <1>1 DEF Shape
<1>6. call[c].req # None
  BY <1>4 DEF GridAssumption, Fulfilled
<1> QED BY <1>2, <1>3, <1>4, <1>5, <1>6

LEMMA CellKept ==
  ASSUME NEW e \in Calls, CellAgrees(e), Kept(call'[e], call[e]),
         call[e].at = "write" =>
           LET k == call[e]
               d == Min(k.todo)
           IN \/ line'[k.grid][d].mission = line[k.grid][d].mission
              \/ d \in call'[e].stale \/ call'[e].gone
  PROVE  CellAgrees(e)'
BY DEF CellAgrees, Kept

LEMMA CellUntouched ==
  ASSUME NEW e \in Calls, CellAgrees(e), Kept(call'[e], call[e]), line' = line
  PROVE  CellAgrees(e)'
BY CellKept

LEMMA HandsKeepCells ==
  ASSUME GridAssumption, Base, CellRead, ByHand
  PROVE  CellRead'
<1>1. Typed
  BY DEF Base
<1>2. AllKept
  BY HandsCarry
<1>3. SUFFICES ASSUME NEW e \in Calls PROVE CellAgrees(e)'
  BY DEF CellRead
<1>4. CellAgrees(e) /\ Kept(call'[e], call[e])
  BY <1>2, <1>3 DEF CellRead, AllKept
<1> DEFINE k == call[e]
           d == Min(k.todo)
<1>5. k.at = "write" => k.grid \in Grids /\ d \in k.todo /\ d \in Days
  BY <1>3, InHand
<1>6. ASSUME NEW r \in Requests, Ask(r) \/ Reject(r) PROVE CellAgrees(e)'
  <2>1. line' = line
    BY <1>6 DEF Ask, Reject, grids
  <2> QED BY <1>3, <1>4, <2>1, CellUntouched
<1>7. ASSUME NEW g \in Grids, NEW x \in Days, EditCell(g, x) PROVE CellAgrees(e)'
  <2>1. k.at = "write" /\ k.grid = g /\ x \in k.todo => x \in call'[e].stale
    BY <1>1, <1>3, <1>7, Editing
  <2>2. PICK cell : line' = [line EXCEPT ![g][x] = cell]
    BY <1>7 DEF EditCell
  <2>3. k.at = "write" => line'[k.grid][d].mission = line[k.grid][d].mission
                            \/ d \in call'[e].stale
    <3> HIDE DEF d, k
    <3> QED BY <1>1, <1>5, <2>1, <2>2 DEF Typed, GridsTyped
  <2> QED BY <1>3, <1>4, <2>3, CellKept
<1>8. ASSUME NEW g \in Grids, ClearGrid(g) PROVE CellAgrees(e)'
  <2>1. /\ \A h \in Grids \ {g} : line'[h] = line[h]
        /\ \A y \in Days : line'[g][y].mission = line[g][y].mission
    BY <1>1, <1>8, ClearingGrid
  <2>2. k.at = "write" => line'[k.grid][d].mission = line[k.grid][d].mission
    BY <1>5, <2>1
  <2> QED BY <1>3, <1>4, <2>2, CellKept
<1>9. ASSUME NEW g \in Grids, DeleteGrid(g) PROVE CellAgrees(e)'
  <2>1. /\ \A h \in Grids \ {g} : line'[h] = line[h]
        /\ k.grid = g => call'[e].gone
    BY <1>1, <1>3, <1>9, Deleting
  <2>2. k.at = "write" => line'[k.grid][d].mission = line[k.grid][d].mission
                            \/ call'[e].gone
    BY <1>5, <2>1
  <2> QED BY <1>3, <1>4, <2>2, CellKept
<1> QED BY <1>6, <1>7, <1>8, <1>9 DEF ByHand, Fulfilled

LEMMA WorkKeepsCells ==
  ASSUME GridAssumption, Base, CellRead, NEW c \in Calls, Works(c)
  PROVE  CellRead'
<1>1. Typed /\ Shapes /\ OthersKept(c)
  BY WorkCarries DEF Base
<1>2. ASSUME NEW e \in Calls \ {c} PROVE CellAgrees(e)'
  <2> DEFINE k == call[e]
             d == Min(k.todo)
  <2>1. CellAgrees(e) /\ Kept(call'[e], call[e])
    BY <1>1, <1>2 DEF CellRead, OthersKept
  <2>2. k.at = "write" => /\ k.grid \in Grids /\ d \in k.todo /\ d \in Days
                          /\ k.grid \in Months => from[k.grid] # {}
    BY <1>2, InHand
  <2>3. CASE ReadCell(c) \/ Approve(c) \/ Drop(c) \/ Fail(c)
    <3>1. line' = line
      BY <2>3 DEF ReadCell, Approve, Drop, Fail, grids
    <3> QED BY <1>2, <2>1, <3>1, CellUntouched
  <2>4. CASE WriteCell(c)
    <3>1. line' = line \/ Written(c)
      BY <1>1, <2>4, Writes
    <3>2. ASSUME Written(c)
          PROVE  k.at = "write" => line'[k.grid][d].mission = line[k.grid][d].mission
                                     \/ d \in call'[e].stale
      <4>1. PICK cell : line' = [line EXCEPT ![call[c].grid][Min(call[c].todo)] = cell]
        BY <3>2 DEF Written
      <4>2. k.at = "write" /\ k.grid = call[c].grid /\ Min(call[c].todo) \in k.todo
              => Min(call[c].todo) \in call'[e].stale
        BY <1>2, <3>2 DEF Written
      <4> QED BY <1>1, <2>2, <4>1, <4>2 DEF Typed, GridsTyped
    <3> QED BY <1>2, <2>1, <3>1, <3>2, CellKept, CellUntouched
  <2>5. CASE MarkDay(c)
    <3>1. line' = line \/ MarkedNow(c)
      BY <1>1, <2>5, MarksDay
    <3>2. ASSUME MarkedNow(c)
          PROVE  k.at = "write" => line'[k.grid][d].mission = line[k.grid][d].mission
                                     \/ d \in call'[e].stale
      <4> DEFINE x == Min(call[c].todo)
                 g == GridFor(x)
      <4>1. PICK cell : line' = [line EXCEPT ![g][x] = cell]
        BY <3>2 DEF MarkedNow
      <4>2. k.at = "write" /\ k.grid = g /\ x \in k.todo => x \in call'[e].stale
        BY <1>2, <3>2 DEF MarkedNow
      <4> QED BY <1>1, <2>2, <4>1, <4>2 DEF Typed, GridsTyped
    <3> QED BY <1>2, <2>1, <3>1, <3>2, CellKept, CellUntouched
  <2>6. CASE Clear(c)
    <3>1. k.at = "write" =>
            \A g \in Grids, x \in Days : line'[g][x] # line[g][x] => x \in call'[e].stale
      BY <1>1, <1>2, <2>6, Clearing
    <3>2. k.at = "write" => line'[k.grid][d] = line[k.grid][d] \/ d \in call'[e].stale
      BY <2>2, <3>1
    <3> QED BY <1>2, <2>1, <3>2, CellKept
  <2>7. ASSUME NEW m \in Months, CreateMonth(c, m) PROVE CellAgrees(e)'
    <3>1. from[m] = {} /\ \A g \in Grids \ {m} : line'[g] = line[g]
      BY <1>1, <2>7, Creating
    <3>2. k.at = "write" => line'[k.grid] = line[k.grid]
      BY <2>2, <2>7, <3>1
    <3> QED BY <1>2, <2>1, <3>2, CellKept
  <2>8. CASE Append(c)
    <3> DEFINE j == call[c]
               m == j.grid
    <3>1. /\ \A g \in Grids \ {m} : line'[g] = line[g]
          /\ \A x \in Days :
               line'[m][x] = IF x \in NewDays(j)
                             THEN [does |-> j.copy[x].does, mission |-> None]
                             ELSE IF x \in DeletedDays(j) THEN NoLine ELSE line[m][x]
          /\ k.at = "write" =>
               /\ d \in MovedDays(j) => d \in call'[e].stale
               /\ k.grid = m /\ k.cell # NoLine /\ d \in DeletedDays(j) => call'[e].gone
      BY <1>1, <1>2, <2>8, AppendingTo
    <3>2. d \in NewDays(j) => d \in MovedDays(j)
      BY DEF NewDays, MovedDays
    <3>3. k.at = "write" /\ k.grid # m => line'[k.grid] = line[k.grid]
      BY <2>2, <3>1
    <3>4. CASE ~(k.at = "write" /\ k.grid = m /\ d \in DeletedDays(j) /\ d \notin NewDays(j)
                   /\ k.cell = NoLine)
      <4>1. k.at = "write" => \/ line'[k.grid][d] = line[k.grid][d]
                              \/ d \in call'[e].stale \/ call'[e].gone
        BY <2>2, <3>1, <3>2, <3>3, <3>4
      <4> QED BY <1>2, <2>1, <4>1, CellKept
    <3>5. CASE k.at = "write" /\ k.grid = m /\ d \in DeletedDays(j) /\ d \notin NewDays(j)
                 /\ k.cell = NoLine
      <4>0. d \in Days
        BY <2>2, <3>5
      <4>1. line'[m][d] = NoLine
        <5> HIDE DEF m, j, d
        <5> QED BY <3>1, <3>5, <4>0
      <4>2. k.cell.mission = None /\ line'[k.grid][d].mission = None
        BY <3>5, <4>1, NoLineTyped
      <4> QED BY <2>1, <4>2 DEF CellAgrees, Kept
    <3> QED BY <3>4, <3>5
  <2> QED BY <2>3, <2>4, <2>5, <2>6, <2>7, <2>8 DEF Works
<1>3. CellAgrees(c)'
  <2>1. CASE ReadCell(c)
    <3> DEFINE d == Min(call[c].todo)
    <3>1. \/ call'[c] = Idle
          \/ /\ call'[c].grid = GridFor(d) /\ call'[c].todo = call[c].todo
             /\ call'[c].cell = line[GridFor(d)][d]
      BY <1>1, <2>1, Reading
    <3>2. line' = line
      BY <2>1 DEF ReadCell, grids
    <3> QED BY <3>1, <3>2, IdleTyped DEF CellAgrees
  <2>2. CASE WriteCell(c)
    <3>1. call'[c] = Idle \/ call'[c].at = AfterDay(call[c].todo \ {Min(call[c].todo)}, "approve")
      BY <1>1, <2>2, Writes DEF Written
    <3>2. call'[c].at # "write"
      BY <3>1, IdleTyped DEF AfterDay
    <3> QED BY <3>2 DEF CellAgrees
  <2>3. CASE Approve(c) \/ Drop(c) \/ Fail(c)
    <3>1. Ends(c)
      BY <2>3 DEF Approve, Drop, Fail
    <3>2. call'[c] = Idle
      BY <1>1, <3>1, Ending
    <3> QED BY <3>2, IdleTyped DEF CellAgrees
  <2>4. CASE MarkDay(c)
    <3>1. call'[c] = Idle \/ Done(c)
      BY <1>1, <2>4, MarksDay DEF MarkedNow
    <3>2. call'[c].at # "write"
      BY <3>1, IdleTyped DEF Done
    <3> QED BY <3>2 DEF CellAgrees
  <2>5. CASE Clear(c)
    <3>1. call'[c].at = "drop"
      BY <1>1, <2>5, Clearing
    <3> QED BY <3>1 DEF CellAgrees
  <2>6. ASSUME Append(c) \/ \E m \in Months : CreateMonth(c, m) PROVE CellAgrees(c)'
    <3>1. call'[c] = Idle
      BY <1>1, <2>6, Creating, AppendingTo
    <3> QED BY <3>1, IdleTyped DEF CellAgrees
  <2> QED BY <2>1, <2>2, <2>3, <2>4, <2>5, <2>6 DEF Works
<1> QED BY <1>2, <1>3 DEF CellRead

LEMMA NextKeepsCells ==
  ASSUME GridAssumption, Base, Asked, CellRead, [Next]_vars
  PROVE  CellRead'
<1>1. ASSUME NEW c \in Calls, call'[c].at # "write", \A e \in Calls \ {c} : call'[e] = call[e],
             line' = line
      PROVE  CellRead'
  BY <1>1 DEF CellRead, CellAgrees
<1>2. CASE ByHand
  BY <1>2, HandsKeepCells
<1>3. ASSUME NEW c \in Calls, Works(c) PROVE CellRead'
  BY <1>3, WorkKeepsCells
<1>4. ASSUME NEW c \in Calls, NEW r \in Requests,
             StartApprove(c, r) \/ AutoMission(c, r) \/ StartMark(c, r)
               \/ StartDrop(c, r) \/ StartCancel(c, r)
      PROVE  CellRead'
  <2>1. call'[c].at # "write" /\ \A e \in Calls \ {c} : call'[e] = call[e]
    BY <1>4, Starting DEF Base
  <2>2. line' = line
    BY <1>4 DEF StartApprove, AutoMission, StartMark, StartDrop, StartCancel, grids
  <2> QED BY <1>1, <2>1, <2>2
<1>5. ASSUME NEW c \in Calls, NEW S \in SUBSET Weeks, NEW p \in Periods, NEW m,
             StartMerge(c, S, p) \/ (m \in Months /\ StartAppend(c, S, m, p))
      PROVE  CellRead'
  <2>1. MergeStarted(c, S, p, m)
    BY <1>5, StartingMerge DEF Base
  <2>2. call'[c].at # "write" /\ \A e \in Calls \ {c} : call'[e] = call[e]
    BY <2>1 DEF MergeStarted
  <2>3. line' = line
    BY <1>5 DEF StartMerge, StartAppend, grids
  <2> QED BY <1>1, <2>2, <2>3
<1>6. CASE UNCHANGED vars
  BY <1>6 DEF vars, grids, CellRead, CellAgrees
<1> QED BY <1>2, <1>3, <1>4, <1>5, <1>6, StepsOfNext

-----------------------------------------------------------------------------
(* What a step does to a call and to a mission *)

StartsOn(c, r) ==
  \/ r \in Fulfilled /\ StartApprove(c, r)
  \/ r \in Missions /\ (AutoMission(c, r) \/ StartMark(c, r)
                          \/ StartDrop(c, r) \/ StartCancel(c, r))

StartsMerge(c) ==
  \E S \in SUBSET Weeks, p \in Periods : \E m :
    /\ StartMerge(c, S, p) \/ (m \in Months /\ StartAppend(c, S, m, p))
    /\ MergeStarted(c, S, p, m)

LEMMA KindsOfStep ==
  ASSUME GridAssumption, Base, [Next]_vars
  PROVE  \/ ByHand
         \/ \E c \in Calls : Works(c)
         \/ \E c \in Calls : \E r \in Requests : StartsOn(c, r)
         \/ \E c \in Calls : StartsMerge(c)
         \/ UNCHANGED vars
<1>1. ASSUME NEW c \in Calls, NEW r \in Requests,
             \/ r \in Fulfilled /\ StartApprove(c, r)
             \/ r \in Missions /\ (AutoMission(c, r) \/ StartMark(c, r)
                                    \/ StartDrop(c, r) \/ StartCancel(c, r))
      PROVE  StartsOn(c, r)
  BY <1>1 DEF StartsOn
<1>2. ASSUME NEW c \in Calls, NEW S \in SUBSET Weeks, NEW p \in Periods, NEW m,
             StartMerge(c, S, p) \/ (m \in Months /\ StartAppend(c, S, m, p))
      PROVE  StartsMerge(c)
  <2>1. MergeStarted(c, S, p, m)
    BY <1>2, StartingMerge DEF Base
  <2> QED BY <1>2, <2>1 DEF StartsMerge
<1>3. Next => \/ ByHand
              \/ \E c \in Calls : Works(c)
              \/ \E c \in Calls : \E r \in Requests : StartsOn(c, r)
              \/ \E c \in Calls : StartsMerge(c)
  BY <1>1, <1>2, StepsOfNext
<1> QED BY <1>3

(* A call is left as it is, works, or is a new one. *)
LEMMA OwnStep ==
  ASSUME GridAssumption, Base, [Next]_vars, NEW e \in Calls
  PROVE  \/ Kept(call'[e], call[e])
         \/ Works(e)
         \/ \E r \in Requests : StartsOn(e, r)
         \/ StartsMerge(e)
<1>1. CASE ByHand
  BY <1>1, HandsCarry DEF AllKept
<1>2. ASSUME NEW c \in Calls, Works(c) PROVE Kept(call'[e], call[e]) \/ Works(e)
  BY <1>2, WorkCarries DEF OthersKept
<1>3. ASSUME NEW c \in Calls, NEW r \in Requests, StartsOn(c, r)
      PROVE  Kept(call'[e], call[e]) \/ StartsOn(e, r)
  <2>1. OthersKept(c)
    BY <1>3, Starting DEF Base, StartsOn
  <2> QED BY <1>3, <2>1 DEF OthersKept
<1>4. ASSUME NEW c \in Calls, StartsMerge(c)
      PROVE  Kept(call'[e], call[e]) \/ StartsMerge(e)
  BY <1>4 DEF MergeStarted, OthersKept, StartsMerge
<1>5. CASE UNCHANGED vars
  BY <1>5, KeptSame DEF vars
<1> QED BY <1>1, <1>2, <1>3, <1>4, <1>5, KindsOfStep

(* The state of a mission changes when it is made, approved or dropped.    *)
LEMMA StateChanges ==
  ASSUME GridAssumption, Base, [Next]_vars, NEW r \in Missions, state'[r] # state[r]
  PROVE  \/ state[r] = "none" /\ state'[r] = "pending"
         \/ state[r] = "none" /\ state'[r] = "approved" /\ \E c \in Calls : AutoMission(c, r)
         \/ \E c \in Calls : Approve(c) /\ call[c].req = r /\ state'[r] = "approved"
         \/ \E c \in Calls : Drop(c) /\ call[c].req = r /\ state'[r] = "closed"
<1>1. Typed /\ r \in Requests /\ r \notin Fulfilled
  BY DEF Base, Missions
<1>2. CASE ByHand
  <2>1. ASSUME NEW q \in Requests, Ask(q) PROVE state[r] = "none" /\ state'[r] = "pending"
    BY <1>1, <2>1 DEF Ask, Typed
  <2>2. ASSUME NEW q \in Fulfilled, Reject(q) PROVE FALSE
    BY <1>1, <2>2 DEF Reject, Typed, Fulfilled
  <2> QED BY <1>2, <2>1, <2>2 DEF ByHand, ClearGrid, DeleteGrid, EditCell
<1>3. ASSUME NEW c \in Calls, Works(c)
      PROVE  call[c].req = r /\ \/ Approve(c) /\ state'[r] = "approved"
                                \/ Drop(c) /\ state'[r] = "closed"
  <2>1. CASE Approve(c)
    BY <1>1, <2>1 DEF Approve, Typed
  <2>2. CASE Drop(c)
    BY <1>1, <2>2 DEF Drop, Typed
  <2> QED BY <1>3, <2>1, <2>2 DEF Works, ReadCell, WriteCell, MarkDay, Clear, Fail,
                                  CreateMonth, Append
<1>4. ASSUME NEW c \in Calls, NEW q \in Requests, AutoMission(c, q)
      PROVE  state[r] = "none" /\ state'[r] = "approved" /\ AutoMission(c, r)
  BY <1>1, <1>4 DEF AutoMission, Typed
<1>5. ASSUME NEW c \in Calls, NEW q \in Requests,
             StartApprove(c, q) \/ StartMark(c, q) \/ StartDrop(c, q) \/ StartCancel(c, q)
      PROVE  FALSE
  BY <1>5 DEF StartApprove, StartMark, StartDrop, StartCancel
<1>6. ASSUME NEW c, NEW S, NEW p, NEW m, StartMerge(c, S, p) \/ StartAppend(c, S, m, p)
      PROVE  FALSE
  BY <1>6 DEF StartMerge, StartAppend
<1>7. CASE UNCHANGED vars
  BY <1>7 DEF vars
<1> QED BY <1>2, <1>3, <1>4, <1>5, <1>6, <1>7, StepsOfNext

(* Only its own call changes the state of a mission nobody races for.      *)
LEMMA StateStays ==
  ASSUME GridAssumption, Base, Asked, Alone, [Next]_vars, NEW e \in Calls,
         call[e].req \in Missions, call[e].req \notin raced, ~Approve(e), ~Drop(e)
  PROVE  state'[call[e].req] = state[call[e].req]
<1> DEFINE r == call[e].req
<1>1. state[r] # "none" /\ r # None
  BY DEF Asked, GridAssumption, Missions
<1>2. \A c \in Calls \ {e} : call[c].req # r
  BY <1>1 DEF Alone
<1>3. ~\E c \in Calls : (Approve(c) \/ Drop(c)) /\ call[c].req = r
  BY <1>2
<1> QED BY <1>1, <1>3, StateChanges

LEMMA RequestsStay ==
  ASSUME GridAssumption, Base, Asked, [Next]_vars, NEW r \in Requests, state[r] # "none"
  PROVE  state'[r] # "none"
<1>1. ASSUME NEW c \in Calls, NEW q \in Requests,
             \/ q \in Fulfilled /\ StartApprove(c, q)
             \/ q \in Missions /\ (AutoMission(c, q) \/ StartMark(c, q)
                                    \/ StartDrop(c, q) \/ StartCancel(c, q))
      PROVE  state'[r] # "none"
  BY <1>1 DEF StartApprove, AutoMission, StartMark, StartDrop, StartCancel, Base, Typed
<1>2. ASSUME NEW c, NEW S, NEW p, NEW m, StartMerge(c, S, p) \/ StartAppend(c, S, m, p)
      PROVE  state'[r] # "none"
  BY <1>2 DEF StartMerge, StartAppend
<1>3. CASE UNCHANGED vars
  BY <1>3 DEF vars
<1>4. CASE ByHand
  BY <1>4, HandsCarry
<1>5. ASSUME NEW c \in Calls, Works(c) PROVE state'[r] # "none"
  BY <1>5, WorkCarries
<1> QED BY <1>1, <1>2, <1>3, <1>4, <1>5, StepsOfNext

-----------------------------------------------------------------------------
(* The mark of a mission on its day *)

Blurred(r, d) ==
  \/ d \in edited \cup copied \cup crossed
  \/ r \in half \cup raced
  \/ \E q \in Missions \ {r} : d \in DaysOf[q] /\ state[q] # "none"

Marked(r, d) == Covering(d) # {} /\ line[GridFor(d)][d].mission = r

Stands(r, d) == Marked(r, d) \/ Blurred(r, d)

(* A mission's day that is marked stays marked, unless this is lost by a   *)
(* step the history knows.                                                 *)
LEMMA StandsMarkedNow ==
  ASSUME GridAssumption, Base, Asked, [Next]_vars, NEW c \in Calls,
         MarkDay(c), MarkedNow(c), NEW r \in Missions, NEW d, d = Min(call[c].todo)
  PROVE  Stands(r, d)'
<1>0. PICK q : q = call[c].req
  OBVIOUS
<1>1. Typed /\ Shape(call[c], from) /\ d \in call[c].todo /\ call[c].at = "mark"
  BY MarksDay DEF Base, Shapes
<1>2. q \in Missions /\ d \in DaysOf[q] /\ d \in Days
  BY <1>0, <1>1 DEF Shape, Typed, CallRecords
<1>3. SameGrid(d)
  BY SameSpans DEF MarkDay
<1>4. Covering(d) # {} /\ line'[GridFor(d)][d].mission = q
  <2>1. /\ Covering(d) # {} /\ GridFor(d) \in Grids
        /\ line' = [line EXCEPT ![GridFor(d)][d] =
             [does |-> IF line[GridFor(d)][d] = NoLine THEN "none" ELSE line[GridFor(d)][d].does,
              mission |-> q]]
    BY <1>0 DEF MarkedNow
  <2> QED BY <1>1, <1>2, <2>1 DEF Typed, GridsTyped
<1>5. CASE r = q
  BY <1>3, <1>4, <1>5 DEF Stands, Marked, SameGrid
<1>6. CASE r # q
  <2>1. state[q] # "none" /\ q \in Requests
    BY <1>0, <1>2 DEF Asked, GridAssumption, Missions
  <2>2. state'[q] # "none"
    BY <2>1, RequestsStay
  <2>3. Blurred(r, d)'
    BY <1>2, <1>6, <2>2 DEF Blurred
  <2> QED BY <2>3 DEF Stands
<1> QED BY <1>5, <1>6

LEMMA BlurredKept ==
  ASSUME GridAssumption, Base, Asked, [Next]_vars, NEW r \in Missions, NEW d \in DaysOf[r],
         Blurred(r, d),
         \A c \in Calls : MarkDay(c) /\ MarkedNow(c) => d # Min(call[c].todo)
  PROVE  Blurred(r, d)'
<1>1. Typed /\ Shapes
  BY DEF Base
<1>2. /\ edited \subseteq edited' /\ crossed \subseteq crossed'
      /\ half \subseteq half' /\ raced \subseteq raced'
      /\ copied \subseteq copied' \/ \E c \in Calls : MarkDay(c)
  BY HistoryGrows
<1>3. d \in copied => d \in copied'
  <2>1. ASSUME NEW c \in Calls, MarkDay(c), d \in copied PROVE d \in copied'
    <3>1. copied' = copied \/ MarkedNow(c)
      BY <1>1, <2>1, MarksDay
    <3>2. MarkedNow(c) => d # Min(call[c].todo) /\ copied' = copied \ {Min(call[c].todo)}
      BY <2>1 DEF MarkedNow
    <3> QED BY <2>1, <3>1, <3>2
  <2> QED BY <1>2, <2>1
<1>4. \A q \in Requests : state[q] # "none" => state'[q] # "none"
  BY RequestsStay
<1> QED BY <1>2, <1>3, <1>4 DEF Blurred, Missions

LEMMA StandsKept ==
  ASSUME GridAssumption, Base, Asked, CellRead, [Next]_vars,
         NEW r \in Missions, NEW d \in DaysOf[r], Stands(r, d),
         \A c \in Calls : Clear(c) => call[c].req # r
  PROVE  Stands(r, d)'
<1>1. Typed /\ Shapes /\ d \in Days /\ r \in Requests /\ r # None
  BY DEF Base, GridAssumption, Missions
<1>2. CASE \E c \in Calls : MarkDay(c) /\ MarkedNow(c) /\ d = Min(call[c].todo)
  BY <1>2, StandsMarkedNow
<1>3. CASE /\ \A c \in Calls : ~(MarkDay(c) /\ MarkedNow(c) /\ d = Min(call[c].todo))
           /\ Blurred(r, d)
  BY <1>3, BlurredKept DEF Stands
<1>4. CASE /\ \A c \in Calls : ~(MarkDay(c) /\ MarkedNow(c) /\ d = Min(call[c].todo))
           /\ Marked(r, d)
  <2> DEFINE g == GridFor(d)
  <2>0. Covering(d) # {} /\ line[g][d].mission = r /\ g \in Grids
    BY <1>1, <1>4, GridForDay DEF Marked
  <2>1. CASE Undisturbed(d)
    BY <2>0, <2>1 DEF Undisturbed, SameGrid, Stands, Marked
  <2>2. CASE d \in edited'
    BY <2>2 DEF Stands, Blurred
  <2>3. ASSUME NEW c \in Calls, WriteCell(c), Written(c), d = Min(call[c].todo)
        PROVE  Stands(r, d)'
    <3>1. SameGrid(d)
      BY <2>3, SameSpans DEF WriteCell
    <3> DEFINE k == call[c]
    <3>2. /\ line' = [line EXCEPT ![k.grid][d] =
                        [does |-> Wants[k.req], mission |-> k.cell.mission]]
          /\ ~k.gone /\ (d \in k.stale => d \in crossed')
      BY <2>3 DEF Written
    <3>3. CASE d \in k.stale
      BY <3>2, <3>3 DEF Stands, Blurred
    <3>4. CASE d \notin k.stale
      <4>1. k.at = "write"
        BY <2>3 DEF WriteCell
      <4>2. k.cell.mission = line[k.grid][d].mission
        BY <2>3, <3>2, <3>4, <4>1 DEF CellRead, CellAgrees
      <4>3. line'[g][d].mission = r
        <5>1. CASE k.grid = g
          <6> HIDE DEF g, k
          <6> QED BY <1>1, <2>0, <3>2, <4>2, <5>1 DEF Typed, GridsTyped
        <5>2. CASE k.grid # g
          <6> HIDE DEF g, k
          <6> QED BY <1>1, <2>0, <3>2, <5>2 DEF Typed, GridsTyped
        <5> QED BY <5>1, <5>2
      <4> QED BY <2>0, <3>1, <4>3 DEF SameGrid, Stands, Marked
    <3> QED BY <3>3, <3>4
  <2>4. ASSUME NEW c \in Calls, Clear(c) PROVE Stands(r, d)'
    <3>1. SameGrid(d)
      BY <2>4, SameSpans DEF Clear
    <3>2. line[g][d].mission # call[c].req
      BY <2>0, <2>4
    <3>3. line'[g][d] = line[g][d]
      <4> HIDE DEF g
      <4>1. \A h \in Grids, x \in Days :
              line[h][x].mission # call[c].req => line'[h][x] = line[h][x]
        BY <1>1, <2>4, ClearedRows
      <4> QED BY <1>1, <2>0, <3>2, <4>1
    <3> QED BY <2>0, <3>1, <3>3 DEF SameGrid, Stands, Marked
  <2>5. ASSUME NEW c \in Calls, NEW m \in Months, CreateMonth(c, m), d \in call[c].todo
        PROVE  Stands(r, d)'
    <3>1. d \in copied'
      BY <2>5 DEF CreateMonth, Copies
    <3> QED BY <3>1 DEF Stands, Blurred
  <2>6. ASSUME NEW c \in Calls, Append(c), d \in MovedDays(call[c]) PROVE Stands(r, d)'
    <3>1. d \in copied'
      BY <1>1, <2>6, AppendingTo DEF Copies
    <3> QED BY <3>1 DEF Stands, Blurred
  <2> QED BY <1>1, <1>4, <2>1, <2>2, <2>3, <2>4, <2>5, <2>6, RowOfDay
<1> QED BY <1>2, <1>3, <1>4 DEF Stands

(* A step that clears a mission under another call's hands is a race.      *)
LEMMA StandsUnderCall ==
  ASSUME GridAssumption, Base, Asked, Alone, CellRead, [Next]_vars, NEW e \in Calls,
         NEW r \in Missions, call[e].req = r, call[e].at # "clear",
         NEW d \in DaysOf[r], Stands(r, d)
  PROVE  Stands(r, d)'
<1>1. CASE r \in raced
  <2>1. r \in raced'
    BY <1>1, HistoryGrows
  <2> QED BY <2>1 DEF Stands, Blurred
<1>2. CASE r \notin raced
  <2>1. ASSUME NEW c \in Calls, Clear(c) PROVE call[c].req # r
    <3>1. call[c].at = "clear" /\ r # None
      BY <2>1 DEF Clear, GridAssumption, Missions
    <3> QED BY <1>2, <3>1 DEF Alone
  <2> QED BY <2>1, StandsKept
<1> QED BY <1>1, <1>2

(* A mission that was dropped leaves no mark: none of its own appears, but *)
(* by its own call or by a fulfilment that wrote an old one.               *)
Clean(r) ==
  \/ r \in half \cup raced
  \/ \A g \in Grids, d \in Days : line[g][d].mission = r => d \in crossed

LEMMA MarksGrow ==
  ASSUME GridAssumption, Base, CellRead, [Next]_vars,
         NEW r \in Missions, NEW g \in Grids, NEW d \in Days, line'[g][d].mission = r
  PROVE  \/ line[g][d].mission = r
         \/ d \in crossed'
         \/ \E c \in Calls : MarkDay(c) /\ call[c].req = r
<1>1. Typed /\ Shapes /\ r \in Requests /\ r # None
  BY DEF Base, GridAssumption, Missions
<1>2. CASE line' = line
  BY <1>2
<1>3. ASSUME NEW h \in Grids, NEW x \in Days, EditCell(h, x) PROVE line[g][d].mission = r
  <2>1. line' = [line EXCEPT ![h][x] = [does |-> "work", mission |-> None]]
    BY <1>3 DEF EditCell
  <2> QED BY <1>1, <2>1 DEF Typed, GridsTyped
<1>4. ASSUME NEW h \in Grids, ClearGrid(h) PROVE line[g][d].mission = r
  BY <1>1, <1>4, ClearingGrid
<1>5. ASSUME NEW h \in Grids, DeleteGrid(h) PROVE line[g][d].mission = r
  <2>1. /\ \A f \in Grids \ {h} : line'[f] = line[f]
        /\ \A x \in Days : line'[h][x] = NoLine
    BY <1>1, <1>5, Deleting
  <2> QED BY <1>1, <2>1, NoLineTyped
<1>6. ASSUME NEW c \in Calls, WriteCell(c), Written(c)
      PROVE  line[g][d].mission = r \/ d \in crossed'
  <2> DEFINE k == call[c]
             x == Min(k.todo)
  <2>1. /\ line' = [line EXCEPT ![k.grid][x] =
                      [does |-> Wants[k.req], mission |-> k.cell.mission]]
        /\ ~k.gone /\ (x \in k.stale => x \in crossed')
    BY <1>6 DEF Written
  <2>2. k.at = "write" /\ k.grid \in Grids /\ x \in Days
    BY <1>6, InHand DEF WriteCell
  <2>3. x \in k.stale \/ k.cell.mission = line[k.grid][x].mission
    BY <2>1, <2>2 DEF CellRead, CellAgrees
  <2> HIDE DEF k, x
  <2> QED BY <1>1, <2>1, <2>2, <2>3 DEF Typed, GridsTyped
<1>7. ASSUME NEW c \in Calls, MarkDay(c), MarkedNow(c), call[c].req # r
      PROVE  line[g][d].mission = r
  <2>1. PICK h \in Grids : \E as :
          line' = [line EXCEPT ![h][Min(call[c].todo)] = [does |-> as, mission |-> call[c].req]]
    BY <1>7 DEF MarkedNow
  <2> QED BY <1>1, <1>7, <2>1 DEF Typed, GridsTyped
<1>8. ASSUME NEW c \in Calls, Clear(c) PROVE line[g][d].mission = r
  <2>1. \/ line'[g][d].mission = None
        \/ line'[g][d] = line[g][d]
    <3>1. \A h \in Grids, x \in Days :
            /\ line[h][x].mission = call[c].req => line'[h][x].mission = None
            /\ line[h][x].mission # call[c].req => line'[h][x] = line[h][x]
      <4>1. Typed /\ Shapes
        BY <1>1
      <4> QED BY <1>8, <4>1, ClearedRows
    <3> QED BY <3>1
  <2> QED BY <1>1, <2>1
<1>9. ASSUME NEW c \in Calls, NEW m \in Months, CreateMonth(c, m) PROVE line[g][d].mission = r
  <2>1. /\ \A h \in Grids \ {m} : line'[h] = line[h]
        /\ g = m => \/ line'[m][d] = NoLine
                    \/ line'[m][d].mission = None
    <3>1. /\ \A h \in Grids \ {m} : line'[h] = line[h]
          /\ \A x \in Days :
               line'[m][x] = IF x \in call[c].todo /\ call[c].copy[x] # NoLine
                             THEN [does |-> call[c].copy[x].does, mission |-> None] ELSE NoLine
      BY <1>1, <1>9, Creating
    <3>2. line'[m][d] = NoLine \/ line'[m][d] = [does |-> call[c].copy[d].does, mission |-> None]
      BY <3>1
    <3> QED BY <3>1, <3>2
  <2> QED BY <1>1, <2>1, NoLineTyped
<1>10. ASSUME NEW c \in Calls, Append(c) PROVE line[g][d].mission = r
  <2>1. /\ \A h \in Grids \ {call[c].grid} : line'[h] = line[h]
        /\ g = call[c].grid => \/ line'[g][d] = NoLine
                               \/ line'[g][d].mission = None
                               \/ line'[g][d] = line[g][d]
    <3> DEFINE k == call[c]
               m == k.grid
    <3>1. /\ \A h \in Grids \ {m} : line'[h] = line[h]
          /\ \A x \in Days :
               line'[m][x] = IF x \in NewDays(k)
                             THEN [does |-> k.copy[x].does, mission |-> None]
                             ELSE IF x \in DeletedDays(k) THEN NoLine ELSE line[m][x]
      BY <1>1, <1>10, AppendingTo
    <3>2. \/ line'[m][d] = NoLine \/ line'[m][d] = line[m][d]
          \/ line'[m][d] = [does |-> k.copy[d].does, mission |-> None]
      <4> HIDE DEF m, k
      <4> QED BY <3>1
    <3> QED BY <3>1, <3>2
  <2> QED BY <1>1, <2>1, NoLineTyped
<1>11. ASSUME ByHand PROVE line[g][d].mission = r
  <2>1. ASSUME NEW q \in Requests, Ask(q) \/ Reject(q) PROVE line' = line
    BY <2>1 DEF Ask, Reject, grids
  <2> QED BY <1>2, <1>3, <1>4, <1>5, <1>11, <2>1 DEF ByHand, Fulfilled
<1>12. ASSUME NEW c \in Calls, Works(c)
       PROVE  \/ line[g][d].mission = r \/ d \in crossed'
              \/ MarkDay(c) /\ call[c].req = r
  <2>1. CASE ReadCell(c) \/ Approve(c) \/ Drop(c) \/ Fail(c)
    BY <1>2, <2>1 DEF ReadCell, Approve, Drop, Fail, grids
  <2>2. CASE WriteCell(c)
    <3>1. line' = line \/ Written(c)
      BY <1>1, <2>2, Writes
    <3> QED BY <1>2, <1>6, <2>2, <3>1
  <2>3. CASE MarkDay(c)
    <3>1. line' = line \/ MarkedNow(c)
      BY <1>1, <2>3, MarksDay
    <3> QED BY <1>2, <1>7, <2>3, <3>1
  <2> QED BY <1>8, <1>9, <1>10, <1>12, <2>1, <2>2, <2>3 DEF Works
<1>13. ASSUME NEW c \in Calls, NEW q \in Requests, StartsOn(c, q) PROVE line' = line
  BY <1>13 DEF StartsOn, StartApprove, AutoMission, StartMark, StartDrop, StartCancel, grids
<1>14. ASSUME NEW c \in Calls, StartsMerge(c) PROVE line' = line
  BY <1>14 DEF StartsMerge, StartMerge, StartAppend, grids
<1>15. UNCHANGED vars => line' = line
  BY DEF vars, grids
<1> QED BY <1>2, <1>11, <1>12, <1>13, <1>14, <1>15, KindsOfStep

LEMMA CleanKept ==
  ASSUME GridAssumption, Base, CellRead, [Next]_vars, NEW r \in Missions, Clean(r),
         \A c \in Calls : ~(MarkDay(c) /\ call[c].req = r)
  PROVE  Clean(r)'
<1>1. half \subseteq half' /\ raced \subseteq raced' /\ crossed \subseteq crossed'
  BY HistoryGrows
<1>2. CASE r \in half \cup raced
  BY <1>1, <1>2 DEF Clean
<1>3. CASE \A g \in Grids, d \in Days : line[g][d].mission = r => d \in crossed
  <2>1. ASSUME NEW g \in Grids, NEW d \in Days, line'[g][d].mission = r
        PROVE  d \in crossed'
    BY <1>1, <1>3, <2>1, MarksGrow
  <2> QED BY <2>1 DEF Clean
<1> QED BY <1>2, <1>3 DEF Clean

-----------------------------------------------------------------------------
(* The missions' invariant *)

(* A call works on a mission that is in the state it found it in.          *)
Orderly ==
  \A c \in Calls :
    call[c].req \in Missions /\ call[c].req \notin raced =>
      /\ call[c].at = "clear" => state[call[c].req] = "approved"
      /\ call[c].at = "mark" /\ call[c].does = "auto" => state[call[c].req] = "approved"
      /\ call[c].at \in {"mark", "approve"} => state[call[c].req] # "closed"

(* The days a call has marked so far stand. *)
Marking ==
  \A c \in Calls : \A r \in Missions :
    call[c].req = r /\ call[c].at \in {"mark", "approve"} =>
      \A d \in DaysOf[r] \ call[c].todo : Stands(r, d)

(* An approved mission stands, is still being marked, or is about to be    *)
(* dropped.                                                                *)
Standing ==
  \A r \in Missions : state[r] = "approved" =>
    \/ \A d \in DaysOf[r] : Stands(r, d)
    \/ \E c \in Calls : call[c].req = r /\ call[c].at \in {"mark", "drop"}

(* A mission has left no mark, or is approved and not about to be dropped, *)
(* or is being marked.                                                     *)
Cleared ==
  \A r \in Missions :
    \/ Clean(r)
    \/ state[r] = "approved" /\ \A c \in Calls : call[c].req = r => call[c].at # "drop"
    \/ \E c \in Calls : call[c].req = r /\ call[c].at \in {"mark", "approve"}

MissionInv == CellRead /\ Orderly /\ Marking /\ Standing /\ Cleared

(* What a call becomes that has a mission: it stays, goes on, or ends.     *)
LEMMA MissionStep ==
  ASSUME GridAssumption, Base, [Next]_vars, NEW c \in Calls, NEW r \in Missions,
         call[c].req = r, call[c].at \in {"mark", "approve", "clear", "drop"}
  PROVE  \/ Kept(call'[c], call[c])
         \/ MarkDay(c) /\ call[c].at = "mark" /\ MarkedNow(c)
         \/ MarkDay(c) /\ call[c].at = "mark" /\ r \in half' /\ call'[c] = Idle
         \/ Approve(c) /\ call[c].at = "approve" /\ call'[c] = Idle
         \/ Clear(c) /\ call[c].at = "clear" /\ call'[c].at = "drop" /\ call'[c].req = r
         \/ Drop(c) /\ call[c].at = "drop" /\ call'[c] = Idle
         \/ Fail(c) /\ (call[c].at \in {"mark", "approve", "drop"} => r \in half')
              /\ call'[c] = Idle
<1>1. Typed /\ Shapes /\ r # None /\ call[c] # Idle
  BY IdleTyped DEF Base, GridAssumption, Missions
<1>2. CASE Works(c)
  <2>1. CASE MarkDay(c)
    BY <1>1, <2>1, MarksDay
  <2>2. CASE Clear(c)
    BY <1>1, <2>2, Clearing
  <2>3. CASE Approve(c) \/ Drop(c) \/ Fail(c)
    <3>1. Ends(c)
      BY <2>3 DEF Approve, Drop, Fail
    <3>2. call'[c] = Idle
      BY <1>1, <3>1, Ending
    <3> QED BY <2>3, <3>2 DEF Approve, Drop, Fail
  <2>4. CASE ReadCell(c) \/ WriteCell(c) \/ Append(c) \/ \E m \in Months : CreateMonth(c, m)
    BY <2>4 DEF ReadCell, WriteCell, Append, CreateMonth
  <2> QED BY <1>2, <2>1, <2>2, <2>3, <2>4 DEF Works
<1>3. ASSUME NEW q \in Requests, StartsOn(c, q) PROVE FALSE
  BY <1>1, <1>3 DEF StartsOn, StartApprove, AutoMission, StartMark, StartDrop, StartCancel
<1>4. CASE StartsMerge(c)
  BY <1>1, <1>4 DEF StartsMerge, MergeStarted
<1> QED BY <1>2, <1>3, <1>4, OwnStep

(* Where a call on a mission comes from. *)
LEMMA MissionCall ==
  ASSUME GridAssumption, Base, [Next]_vars, NEW c \in Calls, NEW r \in Missions,
         call'[c].req = r, call'[c].at \in {"mark", "approve", "clear", "drop"}
  PROVE  \/ Kept(call'[c], call[c])
         \/ MarkDay(c) /\ call[c].at = "mark" /\ MarkedNow(c) /\ call[c].req = r
              /\ call'[c].at \in {"mark", "approve"}
         \/ Clear(c) /\ call[c].req = r /\ call'[c].at = "drop"
         \/ AutoMission(c, r) /\ call'[c].at = "mark" /\ call'[c].todo = DaysOf[r]
         \/ StartMark(c, r) /\ call'[c].at = "mark" /\ call'[c].todo = DaysOf[r]
              /\ call'[c].does = "none"
         \/ StartDrop(c, r) /\ call'[c].at = "drop"
         \/ StartCancel(c, r) /\ call'[c].at = "clear"
<1>1. Typed /\ Shapes /\ r # None /\ r \notin Fulfilled /\ call'[c] # Idle
  BY IdleTyped DEF Base, GridAssumption, Missions
<1>2. CASE Works(c)
  <2>1. CASE MarkDay(c)
    <3>1. MarkedNow(c) /\ call[c].at = "mark"
      BY <1>1, <2>1, MarksDay
    <3>2. call'[c].req = call[c].req /\ call'[c].at \in {"mark", "approve"}
      BY <1>1, <3>1 DEF MarkedNow, Done
    <3> QED BY <2>1, <3>1, <3>2
  <2>2. CASE Clear(c)
    BY <1>1, <2>2, Clearing
  <2>3. CASE Approve(c) \/ Drop(c) \/ Fail(c)
    <3>1. Ends(c)
      BY <2>3 DEF Approve, Drop, Fail
    <3> QED BY <1>1, <3>1, Ending
  <2>4. CASE Append(c) \/ \E m \in Months : CreateMonth(c, m)
    BY <1>1, <2>4, AppendingTo, Creating
  <2>5. CASE ReadCell(c)
    <3>1. call'[c].at = "write"
      BY <1>1, <2>5, Reading
    <3> QED BY <3>1
  <2>6. CASE WriteCell(c)
    <3>1. call'[c].req = call[c].req /\ call[c].at = "write"
      BY <1>1, <2>6, Writes DEF Written
    <3>2. call[c].req \in Fulfilled
      BY <1>1, <3>1 DEF Shapes, Shape
    <3> QED BY <1>1, <3>1, <3>2
  <2> QED BY <1>2, <2>1, <2>2, <2>3, <2>4, <2>5, <2>6 DEF Works
<1>3. ASSUME NEW q \in Requests, StartsOn(c, q)
      PROVE  \/ AutoMission(c, r) /\ call'[c].at = "mark" /\ call'[c].todo = DaysOf[r]
             \/ StartMark(c, r) /\ call'[c].at = "mark" /\ call'[c].todo = DaysOf[r]
                  /\ call'[c].does = "none"
             \/ StartDrop(c, r) /\ call'[c].at = "drop"
             \/ StartCancel(c, r) /\ call'[c].at = "clear"
  <2>1. \/ StartApprove(c, q) \/ AutoMission(c, q) \/ StartMark(c, q)
        \/ StartDrop(c, q) \/ StartCancel(c, q)
    BY <1>3 DEF StartsOn
  <2>2. /\ call'[c].req = q
        /\ StartApprove(c, q) => call'[c].at = "read"
        /\ StartMark(c, q) => call'[c].at = "mark" /\ call'[c].todo = DaysOf[q]
                                /\ call'[c].does = "none"
        /\ AutoMission(c, q) => call'[c].at = "mark" /\ call'[c].todo = DaysOf[q]
        /\ StartDrop(c, q) => call'[c].at = "drop"
        /\ StartCancel(c, q) => call'[c].at = "clear"
    BY <1>1, <2>1, Starting
  <2> QED BY <2>1, <2>2
<1>4. CASE StartsMerge(c)
  BY <1>1, <1>4 DEF StartsMerge, MergeStarted
<1> QED BY <1>2, <1>3, <1>4, OwnStep

(* Two calls on one mission. *)
LEMMA NotAlone ==
  ASSUME GridAssumption, Alone, NEW r \in Missions, NEW c \in Calls, NEW e \in Calls,
         c # e, call[c].req = r, call[e].req = r
  PROVE  r \in raced
BY DEF Alone, GridAssumption, Missions

LEMMA OrderlyKept ==
  ASSUME GridAssumption, Base, Asked, Alone, Orderly, [Next]_vars
  PROVE  Orderly'
<1>1. SUFFICES ASSUME NEW c \in Calls, NEW r \in Missions, call'[c].req = r, r \notin raced'
      PROVE  /\ call'[c].at = "clear" => state'[r] = "approved"
             /\ call'[c].at = "mark" /\ call'[c].does = "auto" => state'[r] = "approved"
             /\ call'[c].at \in {"mark", "approve"} => state'[r] # "closed"
  BY DEF Orderly, Missions, Fulfilled
<1>2. r \notin raced /\ Typed /\ r \in Requests
  BY <1>1, HistoryGrows DEF Base, Missions
<1>3. CASE call'[c].at \notin {"mark", "approve", "clear"}
  BY <1>3
<1>4. ASSUME call[c].req = r, ~Approve(c), ~Drop(c)
      PROVE  /\ state'[r] = state[r]
             /\ call[c].at = "clear" => state[r] = "approved"
             /\ call[c].at = "mark" /\ call[c].does = "auto" => state[r] = "approved"
             /\ call[c].at \in {"mark", "approve"} => state[r] # "closed"
  BY <1>1, <1>2, <1>4, StateStays DEF Orderly
<1>5. CASE Kept(call'[c], call[c]) /\ call'[c].at \in {"mark", "approve", "clear"}
  <2>1. call[c].req = r /\ call[c].at = call'[c].at /\ call[c].does = call'[c].does
    BY <1>1, <1>5 DEF Kept
  <2>2. ~Approve(c) /\ ~Drop(c)
    <3>1. Ends(c) => call'[c] = Idle
      BY <1>2, Ending
    <3> QED BY <1>5, <3>1, IdleTyped DEF Approve, Drop
  <2> QED BY <1>4, <2>1, <2>2
<1>6. CASE MarkDay(c) /\ call[c].at = "mark" /\ MarkedNow(c) /\ call[c].req = r
             /\ call'[c].at \in {"mark", "approve"}
  <2>1. call'[c].at = "mark" => call'[c].does = call[c].does
    BY <1>6, IdleTyped DEF MarkedNow, Done
  <2>2. ~Approve(c) /\ ~Drop(c)
    BY <1>6 DEF Approve, Drop
  <2> QED BY <1>4, <1>6, <2>1, <2>2
<1>7. CASE AutoMission(c, r)
  BY <1>2, <1>7 DEF AutoMission, Typed
<1>8. CASE StartMark(c, r) /\ call'[c].at = "mark" /\ call'[c].does = "none"
  BY <1>8 DEF StartMark
<1>9. CASE StartCancel(c, r) /\ call'[c].at = "clear"
  BY <1>9 DEF StartCancel
<1> QED BY <1>1, <1>3, <1>5, <1>6, <1>7, <1>8, <1>9, MissionCall

LEMMA MarkingKept ==
  ASSUME GridAssumption, Base, Asked, Alone, CellRead, Marking, [Next]_vars
  PROVE  Marking'
<1>1. SUFFICES ASSUME NEW c \in Calls, NEW r \in Missions, call'[c].req = r,
                      call'[c].at \in {"mark", "approve"},
                      NEW d \in DaysOf[r], d \notin call'[c].todo
               PROVE  Stands(r, d)'
  BY DEF Marking
<1>2. ASSUME call[c].req = r, call[c].at \in {"mark", "approve"}, d \notin call[c].todo
      PROVE  Stands(r, d)'
  <2>1. Stands(r, d)
    BY <1>1, <1>2 DEF Marking
  <2> QED BY <1>1, <1>2, <2>1, StandsUnderCall
<1>3. CASE Kept(call'[c], call[c])
  BY <1>1, <1>2, <1>3 DEF Kept
<1>4. CASE MarkDay(c) /\ call[c].at = "mark" /\ MarkedNow(c) /\ call[c].req = r
  <2>1. CASE d = Min(call[c].todo)
    BY <1>4, <2>1, StandsMarkedNow
  <2>2. CASE d # Min(call[c].todo)
    <3>1. d \notin call[c].todo
      BY <1>1, <1>4, <2>2, IdleTyped DEF MarkedNow, Done
    <3> QED BY <1>2, <1>4, <3>1
  <2> QED BY <2>1, <2>2
<1>5. CASE call'[c].todo = DaysOf[r]
  BY <1>1, <1>5
<1> QED BY <1>1, <1>3, <1>4, <1>5, MissionCall

(* What is left of a mission when its last day is marked. *)
LEMMA AllStand ==
  ASSUME GridAssumption, Base, Asked, Alone, CellRead, Marking, [Next]_vars,
         NEW c \in Calls, NEW r \in Missions, call[c].req = r,
         call[c].at \in {"mark", "approve"},
         \/ MarkDay(c) /\ MarkedNow(c) /\ call[c].todo = {Min(call[c].todo)}
         \/ call[c].todo = {}
  PROVE  \A d \in DaysOf[r] : Stands(r, d)'
<1>1. SUFFICES ASSUME NEW d \in DaysOf[r] PROVE Stands(r, d)'
  OBVIOUS
<1>2. CASE d \notin call[c].todo
  <2>1. Stands(r, d)
    BY <1>1, <1>2 DEF Marking
  <2> QED BY <1>1, <2>1, StandsUnderCall
<1>3. CASE MarkDay(c) /\ MarkedNow(c) /\ d = Min(call[c].todo)
  BY <1>3, StandsMarkedNow
<1> QED BY <1>2, <1>3

LEMMA StandingKept ==
  ASSUME GridAssumption, Base, Asked, Alone, CellRead, Marking, Standing, [Next]_vars
  PROVE  Standing'
<1>1. SUFFICES ASSUME NEW r \in Missions, state'[r] = "approved"
               PROVE  \/ \A d \in DaysOf[r] : Stands(r, d)'
                      \/ \E c \in Calls : call'[c].req = r /\ call'[c].at \in {"mark", "drop"}
  BY DEF Standing
<1>2. Typed /\ Shapes /\ r \in Requests /\ r # None
  BY DEF Base, GridAssumption, Missions
<1>3. ASSUME r \in half' PROVE \A d \in DaysOf[r] : Stands(r, d)'
  BY <1>3 DEF Stands, Blurred
<1>4. CASE state[r] = "approved" /\ \A d \in DaysOf[r] : Stands(r, d)
  <2>1. ASSUME NEW c \in Calls, Clear(c), call[c].req = r
        PROVE  call'[c].req = r /\ call'[c].at = "drop"
    BY <1>2, <2>1, Clearing
  <2>2. CASE \A c \in Calls : Clear(c) => call[c].req # r
    BY <1>1, <1>4, <2>2, StandsKept
  <2> QED BY <2>1, <2>2
<1>5. ASSUME NEW c \in Calls, call[c].req = r, call[c].at \in {"mark", "drop"}
      PROVE  \/ \A d \in DaysOf[r] : Stands(r, d)'
             \/ call'[c].req = r /\ call'[c].at \in {"mark", "drop"}
  <2>1. CASE Kept(call'[c], call[c])
    BY <1>5, <2>1 DEF Kept
  <2>2. CASE MarkDay(c) /\ call[c].at = "mark" /\ MarkedNow(c)
    <3>1. CASE call[c].todo = {Min(call[c].todo)}
      BY <1>1, <1>5, <2>2, <3>1, AllStand
    <3>2. CASE call[c].todo # {Min(call[c].todo)}
      BY <1>5, <2>2, <3>2 DEF MarkedNow, Done
    <3> QED BY <3>1, <3>2
  <2>3. CASE r \in half'
    BY <1>3, <2>3
  <2>4. CASE Drop(c)
    <3>1. state'[r] = "closed"
      BY <1>2, <1>5, <2>4 DEF Drop, Typed
    <3> QED BY <1>1, <3>1
  <2> QED BY <1>5, <2>1, <2>2, <2>3, <2>4, MissionStep
<1>6. CASE state[r] # "approved"
  <2>1. ASSUME NEW c \in Calls, AutoMission(c, r)
        PROVE  call'[c].req = r /\ call'[c].at = "mark"
    BY <1>2, <2>1 DEF AutoMission, Typed
  <2>2. ASSUME NEW c \in Calls, Approve(c), call[c].req = r
        PROVE  \A d \in DaysOf[r] : Stands(r, d)'
    <3>1. call[c].at = "approve"
      BY <2>2 DEF Approve
    <3>2. call[c].todo = {}
      BY <1>2, <3>1 DEF Shapes, Shape
    <3> QED BY <1>1, <2>2, <3>1, <3>2, AllStand
  <2> QED BY <1>1, <1>6, <2>1, <2>2, StateChanges
<1> QED BY <1>1, <1>4, <1>5, <1>6 DEF Standing

LEMMA ClearedKept ==
  ASSUME GridAssumption, Base, Asked, Alone, CellRead, Orderly, Cleared, [Next]_vars
  PROVE  Cleared'
<1> DEFINE Held(r) == /\ state'[r] = "approved"
                      /\ \A c \in Calls : call'[c].req = r => call'[c].at # "drop"
           Busy(r) == \E c \in Calls : call'[c].req = r /\ call'[c].at \in {"mark", "approve"}
<1>1. SUFFICES ASSUME NEW r \in Missions PROVE Clean(r)' \/ Held(r) \/ Busy(r)
  BY DEF Cleared
<1>2. Typed /\ Shapes /\ r \in Requests /\ r # None
  BY DEF Base, GridAssumption, Missions
<1>3. ASSUME r \in half' \cup raced' PROVE Clean(r)'
  BY <1>3 DEF Clean
<1>4. raced \subseteq raced'
  BY HistoryGrows
<1>5. ASSUME NEW c \in Calls, OthersKept(c), call[c].req = r, call'[c] = Idle
      PROVE  Clean(r)' \/ \A e \in Calls : call'[e].req # r
  <2>1. ASSUME NEW e \in Calls, call'[e].req = r PROVE Clean(r)'
    <3>1. e # c
      BY <1>2, <1>5, <2>1, IdleTyped
    <3>2. call[e].req = r
      BY <1>5, <2>1, <3>1 DEF OthersKept, Kept
    <3>3. r \in raced
      BY <1>5, <3>1, <3>2, NotAlone
    <3> QED BY <1>3, <1>4, <3>3
  <2> QED BY <2>1
<1>6. ASSUME NEW c \in Calls, MarkDay(c), call[c].req = r, MarkedNow(c)
      PROVE  Clean(r)' \/ Held(r) \/ Busy(r)
  <2>1. OthersKept(c) /\ call[c].at = "mark" /\ state' = state
    BY <1>2, <1>6, MarksDay DEF MarkDay
  <2>2. CASE call[c].todo = {Min(call[c].todo)} /\ call[c].does = "auto"
    <3>1. call'[c] = Idle
      BY <1>6, <2>2 DEF MarkedNow, Done
    <3>2. r \in raced \/ state'[r] = "approved"
      BY <1>6, <2>1, <2>2 DEF Orderly
    <3>3. Clean(r)' \/ \A e \in Calls : call'[e].req # r
      BY <1>5, <1>6, <2>1, <3>1
    <3> QED BY <1>3, <1>4, <3>2, <3>3
  <2>3. CASE ~(call[c].todo = {Min(call[c].todo)} /\ call[c].does = "auto")
    <3>1. call'[c].req = r /\ call'[c].at \in {"mark", "approve"}
      BY <1>6, <2>3 DEF MarkedNow, Done
    <3> QED BY <3>1
  <2> QED BY <2>2, <2>3
<1>7. CASE Clean(r)
  <2>1. CASE \A c \in Calls : ~(MarkDay(c) /\ call[c].req = r)
    BY <1>1, <1>7, <2>1, CleanKept
  <2>2. ASSUME NEW c \in Calls, MarkDay(c), call[c].req = r
        PROVE  Clean(r)' \/ Held(r) \/ Busy(r)
    <3>1. r \in half' \/ MarkedNow(c)
      BY <1>2, <2>2, MarksDay
    <3> QED BY <1>3, <1>6, <2>2, <3>1
  <2> QED BY <2>1, <2>2
<1>8. CASE state[r] = "approved" /\ \A c \in Calls : call[c].req = r => call[c].at # "drop"
  <2>1. state'[r] = "approved"
    <3>1. ASSUME NEW c \in Calls, Drop(c), call[c].req = r PROVE FALSE
      BY <1>8, <3>1 DEF Drop
    <3> QED BY <1>1, <1>8, <3>1, StateChanges
  <2>2. ASSUME NEW e \in Calls, call'[e].req = r, call'[e].at = "drop" PROVE Clean(r)'
    <3>1. CASE Kept(call'[e], call[e])
      BY <1>8, <2>2, <3>1 DEF Kept
    <3>2. CASE Clear(e) /\ call[e].req = r
      <4>1. \A g \in Grids, d \in Days :
              /\ line[g][d].mission = call[e].req => line'[g][d].mission = None
              /\ line[g][d].mission # call[e].req => line'[g][d] = line[g][d]
        BY <1>2, <3>2, ClearedRows
      <4>2. \A g \in Grids, d \in Days : line'[g][d].mission # r
        BY <1>2, <3>2, <4>1
      <4> QED BY <4>2 DEF Clean
    <3>3. CASE StartDrop(e, r)
      BY <1>8, <3>3 DEF StartDrop
    <3> QED BY <1>1, <2>2, <3>1, <3>2, <3>3, MissionCall
  <2> QED BY <2>1, <2>2
<1>9. ASSUME NEW c \in Calls, call[c].req = r, call[c].at \in {"mark", "approve"}
      PROVE  Clean(r)' \/ Held(r) \/ Busy(r)
  <2>1. CASE Kept(call'[c], call[c])
    BY <1>9, <2>1 DEF Kept
  <2>2. CASE MarkDay(c) /\ MarkedNow(c)
    BY <1>6, <1>9, <2>2
  <2>3. CASE r \in half'
    BY <1>3, <2>3
  <2>4. CASE Approve(c) /\ call'[c] = Idle
    <3>1. OthersKept(c) /\ state'[r] = "approved"
      <4>1. Ends(c) /\ state' = [state EXCEPT ![r] = "approved"]
        BY <1>9, <2>4 DEF Approve
      <4> QED BY <1>2, <4>1, Ending DEF Typed
    <3> QED BY <1>5, <1>9, <2>4, <3>1
  <2> QED BY <1>1, <1>9, <2>1, <2>2, <2>3, <2>4, MissionStep
<1> QED BY <1>1, <1>7, <1>8, <1>9 DEF Cleared

LEMMA NextKeepsMissions ==
  ASSUME GridAssumption, Base, Asked, Alone, MissionInv, [Next]_vars
  PROVE  MissionInv'
<1>1. CellRead'
  BY NextKeepsCells DEF MissionInv
<1>2. Orderly'
  BY OrderlyKept DEF MissionInv
<1>3. Marking'
  BY MarkingKept DEF MissionInv
<1>4. Standing'
  BY StandingKept DEF MissionInv
<1>5. Cleared'
  BY ClearedKept DEF MissionInv
<1> QED BY <1>1, <1>2, <1>3, <1>4, <1>5 DEF MissionInv

LEMMA InitMissions == GridAssumption /\ Init => MissionInv
<1>1. SUFFICES ASSUME GridAssumption, Init PROVE MissionInv
  OBVIOUS
<1>2. \A c \in Calls : call[c].at = "idle" /\ call[c].req = None
  BY <1>1, IdleTyped DEF Init
<1>3. \A r \in Missions : state[r] = "none" /\ r # None
  BY <1>1 DEF Init, Missions, GridAssumption
<1>4. \A g \in Grids, d \in Days : line[g][d].mission = None
  BY <1>1, NoLineTyped DEF Init
<1>5. \A r \in Missions : Clean(r)
  BY <1>3, <1>4 DEF Clean
<1>6. CellRead /\ Orderly
  BY <1>2 DEF CellRead, CellAgrees, Orderly
<1>7. Marking /\ Standing /\ Cleared
  BY <1>2, <1>3, <1>5 DEF Marking, Standing, Cleared
<1> QED BY <1>6, <1>7 DEF MissionInv

(* A day of an approved mission bears its mark in the grid that covers it, *)
(* but for the days the history names: for every number of calls on the    *)
(* same grids, cut at every statement (fieldMissionRequest.service.ts:160, *)
(* requestFulfillment.service.ts:84).                                      *)
THEOREM MissionsAreMarked == GridAssumption => (Spec => []MissionMarked)
<1> SUFFICES ASSUME GridAssumption PROVE Spec => []MissionMarked
  OBVIOUS
<1> DEFINE Inv == Base /\ Asked /\ Alone /\ MissionInv
<1>1. Inv => MissionMarked
  <2>1. ASSUME Standing, NEW r \in Missions, state[r] = "approved", NEW d \in DaysOf[r]
        PROVE  \/ Stands(r, d)
               \/ \E c \in Calls : call[c].req = r /\ call[c].at \in {"mark", "drop"}
    BY <2>1 DEF Standing
  <2> QED BY <2>1 DEF MissionInv, MissionMarked, Stands, Marked, Blurred
<1>2. Init => Inv
  BY InitBase, InitHandlers, InitMissions
<1>3. Inv /\ [Next]_vars => Inv'
  BY NextKeepsBase, HandlersKept, NextKeepsMissions
<1> QED BY <1>1, <1>2, <1>3, PTL DEF Spec

(* A mission that was rejected or cancelled marks no day, unless its days  *)
(* were marked half way, two calls handled it at once, or a fulfilment     *)
(* wrote an old mark back: what a call still has to mark, and what a       *)
(* fulfilment has read of a row, belong to the argument.                   *)
THEOREM NoMarksLeft == GridAssumption => (Spec => []NoMarkLeft)
<1> SUFFICES ASSUME GridAssumption PROVE Spec => []NoMarkLeft
  OBVIOUS
<1> DEFINE Inv == Base /\ Asked /\ Alone /\ MissionInv
<1>1. Inv => NoMarkLeft
  <2>1. SUFFICES ASSUME MissionInv, NEW r \in Missions, state[r] = "closed",
                        NEW g \in Grids, NEW d \in Days, line[g][d].mission = r
                 PROVE  d \in crossed \/ r \in half \cup raced
    BY DEF NoMarkLeft
  <2>2. CASE Clean(r)
    BY <2>1, <2>2 DEF Clean
  <2>3. ASSUME NEW c \in Calls, call[c].req = r, call[c].at \in {"mark", "approve"}
        PROVE  r \in raced
    BY <2>1, <2>3 DEF MissionInv, Orderly
  <2> QED BY <2>1, <2>2, <2>3 DEF MissionInv, Cleared
<1>2. Init => Inv
  BY InitBase, InitHandlers, InitMissions
<1>3. Inv /\ [Next]_vars => Inv'
  BY NextKeepsBase, HandlersKept, NextKeepsMissions
<1> QED BY <1>1, <1>2, <1>3, PTL DEF Spec

-----------------------------------------------------------------------------
(* What a fulfilment writes, and what a merge copies *)

GridOf(c) ==
  call[c].at = "write" =>
    LET k == call[c]
        d == Min(k.todo)
    IN \/ k.gone \/ d \in k.stale \cup edited
       \/ Covering(d) # {} /\ k.grid = GridFor(d)

(* A fulfilment writes into the grid of the day, unless it is known to be  *)
(* outdated.                                                               *)
GridRead == \A c \in Calls : GridOf(c)

(* A merge copies what is in a week, unless it is known to be outdated.    *)
CopyOf(c, d) ==
  \/ call[c].copy[d] = NoLine
  \/ d \in call[c].stale \cup edited
  \/ \E w \in Weeks : d \in span[w] /\ line[w][d].does = call[c].copy[d].does

CopyRead ==
  \A c \in Calls : call[c].at \in {"merge", "append"} =>
    \A d \in call[c].todo : CopyOf(c, d)

(* The grids of a day change by hand or by a merge. *)
LEMMA GridOfDay ==
  ASSUME GridAssumption, Base, [Next]_vars, NEW d \in Days
  PROVE  \/ SameGrid(d)
         \/ d \in edited'
         \/ \E c \in Calls, m \in Months : CreateMonth(c, m) /\ d \in call[c].todo
         \/ \E c \in Calls : Append(c) /\ d \in MovedDays(call[c])
<1>1. ASSUME NEW c \in Calls, WriteCell(c) \/ MarkDay(c) \/ Clear(c) PROVE SameGrid(d)
  <2>1. span' = span
    BY <1>1 DEF WriteCell, MarkDay, Clear
  <2> QED BY <2>1, SameSpans
<1> QED BY <1>1, RowOfDay DEF Undisturbed

(* No working call is about to write but the one that has just read. *)
LEMMA NewToWrite ==
  ASSUME GridAssumption, Base, [Next]_vars, NEW c \in Calls, call'[c].at = "write"
  PROVE  Kept(call'[c], call[c]) \/ ReadCell(c)
<1>1. Typed /\ Shapes
  BY DEF Base
<1>2. CASE Works(c)
  <2>1. CASE WriteCell(c)
    <3>1. call'[c].at # "write"
      BY <1>1, <2>1, Writes, IdleTyped DEF Written, AfterDay
    <3> QED BY <3>1
  <2>2. CASE MarkDay(c)
    <3>1. call'[c].at # "write"
      BY <1>1, <2>2, MarksDay, IdleTyped DEF MarkedNow, Done
    <3> QED BY <3>1
  <2>3. CASE Clear(c)
    <3>1. call'[c].at = "drop"
      BY <1>1, <2>3, Clearing
    <3> QED BY <3>1
  <2>4. CASE Approve(c) \/ Drop(c) \/ Fail(c)
    <3>1. Ends(c)
      BY <2>4 DEF Approve, Drop, Fail
    <3> QED BY <1>1, <3>1, Ending, IdleTyped
  <2>5. CASE Append(c) \/ \E m \in Months : CreateMonth(c, m)
    BY <1>1, <2>5, AppendingTo, Creating, IdleTyped
  <2> QED BY <1>2, <2>1, <2>2, <2>3, <2>4, <2>5 DEF Works
<1>3. ASSUME NEW q \in Requests, StartsOn(c, q) PROVE FALSE
  BY <1>1, <1>3, Starting DEF StartsOn
<1>4. CASE StartsMerge(c)
  BY <1>4 DEF StartsMerge, MergeStarted
<1> QED BY <1>2, <1>3, <1>4, OwnStep

LEMMA GridReadKept ==
  ASSUME GridAssumption, Base, GridRead, [Next]_vars
  PROVE  GridRead'
<1>1. SUFFICES ASSUME NEW e \in Calls, call'[e].at = "write" PROVE GridOf(e)'
  BY DEF GridRead, GridOf
<1>2. Typed /\ Shapes
  BY DEF Base
<1>3. CASE ReadCell(e)
  <2>1. PICK d : d = Min(call[e].todo)
    OBVIOUS
  <2>2. /\ Covering(d) # {} /\ call'[e].grid = GridFor(d) /\ call'[e].todo = call[e].todo
    BY <1>1, <1>2, <1>3, <2>1, Reading, IdleTyped
  <2>3. SameGrid(d)
    BY <1>3, SameSpans DEF ReadCell, grids
  <2>4. d = Min(call'[e].todo)
    BY <2>1, <2>2
  <2> QED BY <2>2, <2>3, <2>4 DEF GridOf, SameGrid
<1>4. CASE Kept(call'[e], call[e])
  <2>1. PICK d : d = Min(call[e].todo)
    OBVIOUS
  <2>2. call[e].at = "write" /\ d = Min(call'[e].todo)
    BY <1>1, <1>4, <2>1 DEF Kept
  <2>3. d \in Days
    BY <2>1, <2>2, InHand
  <2>4. edited \subseteq edited'
    BY HistoryGrows
  <2>5. CASE d \in call'[e].stale \cup edited' \/ call'[e].gone
    BY <2>2, <2>5 DEF GridOf
  <2>6. CASE SameGrid(d)
    <3>1. \/ call[e].gone \/ d \in call[e].stale \cup edited
          \/ Covering(d) # {} /\ call[e].grid = GridFor(d)
      BY <2>1, <2>2 DEF GridRead, GridOf
    <3> QED BY <1>4, <2>2, <2>4, <2>6, <3>1 DEF GridOf, SameGrid, Kept
  <2>7. ASSUME NEW c \in Calls, NEW m \in Months, CreateMonth(c, m), d \in call[c].todo
        PROVE  d \in call'[e].stale
    <3>1. call[c].at = "merge"
      BY <2>7 DEF CreateMonth
    <3>2. \A f \in Calls \ {c} : call[f].at = "write" /\ Min(call[f].todo) \in call[c].todo
            => Min(call[f].todo) \in call'[f].stale
      BY <1>2, <2>7, Creating
    <3>3. e \in Calls \ {c}
      BY <1>1, <2>2, <3>1
    <3> QED BY <2>1, <2>2, <2>7, <3>2, <3>3
  <2>8. ASSUME NEW c \in Calls, Append(c), d \in MovedDays(call[c])
        PROVE  d \in call'[e].stale
    <3>1. call[c].at = "append"
      BY <2>8 DEF Append
    <3>2. \A f \in Calls \ {c} : call[f].at = "write" /\ Min(call[f].todo) \in MovedDays(call[c])
            => Min(call[f].todo) \in call'[f].stale
      BY <1>2, <2>8, AppendingTo
    <3>3. e \in Calls \ {c}
      BY <1>1, <2>2, <3>1
    <3> QED BY <2>1, <2>2, <2>8, <3>2, <3>3
  <2> QED BY <2>3, <2>5, <2>6, <2>7, <2>8, GridOfDay
<1> QED BY <1>1, <1>3, <1>4, NewToWrite

(* The row of a week a merge has read is changed by hand, or the merge is  *)
(* outdated.                                                               *)
LEMMA WeekRow ==
  ASSUME GridAssumption, Base, [Next]_vars, NEW e \in Calls, Kept(call'[e], call[e]),
         call[e].at \in {"merge", "append"}, NEW w \in Weeks, NEW d \in Days, d \in span[w]
  PROVE  \/ d \in span'[w] /\ line'[w][d].does = line[w][d].does
         \/ d \in call'[e].stale
         \/ d \in edited'
<1>1. Typed /\ Shapes /\ w \in Grids /\ w \notin Months
  BY DEF Base, GridAssumption, Grids
<1>2. ASSUME span' = span, line' = line
      PROVE  d \in span'[w] /\ line'[w][d].does = line[w][d].does
  BY <1>2
<1>3. ASSUME NEW g \in Grids, NEW x \in Days, EditCell(g, x)
      PROVE  \/ d \in span'[w] /\ line'[w][d].does = line[w][d].does
             \/ d \in edited'
  <2>1. span' = span /\ edited' = edited \cup {x}
    BY <1>3 DEF EditCell
  <2>2. line' = [line EXCEPT ![g][x] = [does |-> "work", mission |-> None]]
    BY <1>3 DEF EditCell
  <2>3. d # x => line'[w][d] = line[w][d]
    BY <1>1, <2>2 DEF Typed, GridsTyped
  <2> QED BY <2>1, <2>3
<1>4. ASSUME NEW g \in Grids, ClearGrid(g)
      PROVE  \/ d \in span'[w] /\ line'[w][d].does = line[w][d].does
             \/ d \in edited'
  <2>1. span' = span /\ edited' = edited \cup span[g]
    BY <1>4 DEF ClearGrid
  <2>2. \A h \in Grids \ {g} : line'[h] = line[h]
    BY <1>1, <1>4, ClearingGrid
  <2> QED BY <1>1, <2>1, <2>2
<1>5. ASSUME NEW g \in Grids, DeleteGrid(g)
      PROVE  \/ d \in span'[w] /\ line'[w][d].does = line[w][d].does
             \/ d \in edited'
  <2>1. /\ edited' = edited \cup span[g]
        /\ \A h \in Grids \ {g} : line'[h] = line[h] /\ span'[h] = span[h]
    BY <1>1, <1>5, Deleting
  <2> QED BY <1>1, <2>1
<1>6. ASSUME ByHand
      PROVE  \/ d \in span'[w] /\ line'[w][d].does = line[w][d].does
             \/ d \in edited'
  <2>1. ASSUME NEW q \in Requests, Ask(q) \/ Reject(q) PROVE span' = span /\ line' = line
    BY <2>1 DEF Ask, Reject, grids
  <2> QED BY <1>2, <1>3, <1>4, <1>5, <1>6, <2>1 DEF ByHand, Fulfilled
<1>7. ASSUME NEW c \in Calls, WriteCell(c), Written(c)
      PROVE  line'[w][d] = line[w][d] \/ d \in call'[e].stale
  <2>1. c # e
    BY <1>7 DEF WriteCell
  <2> DEFINE x == Min(call[c].todo)
  <2>2. x \in call'[e].stale
    BY <1>7, <2>1 DEF Written
  <2>3. PICK cell : line' = [line EXCEPT ![call[c].grid][x] = cell]
    BY <1>7 DEF Written
  <2> HIDE DEF x
  <2> QED BY <1>1, <2>2, <2>3 DEF Typed, GridsTyped
<1>8. ASSUME NEW c \in Calls, MarkDay(c), MarkedNow(c)
      PROVE  line'[w][d] = line[w][d] \/ d \in call'[e].stale
  <2>1. c # e
    BY <1>8 DEF MarkDay
  <2> DEFINE x == Min(call[c].todo)
  <2>2. x \in call'[e].stale
    BY <1>8, <2>1 DEF MarkedNow
  <2>3. PICK g \in Grids : \E cell : line' = [line EXCEPT ![g][x] = cell]
    BY <1>8 DEF MarkedNow
  <2> HIDE DEF x
  <2> QED BY <1>1, <2>2, <2>3 DEF Typed, GridsTyped
<1>9. ASSUME NEW c \in Calls, Clear(c) PROVE line'[w][d].does = line[w][d].does
  <2>0. Typed /\ Shapes
    BY <1>1
  <2>1. \A g \in Grids, x \in Days : line'[g][x].does = line[g][x].does
    BY <2>0, <1>9, ClearedRows
  <2> QED BY <1>1, <2>1
<1>10. ASSUME NEW c \in Calls, NEW m \in Months, CreateMonth(c, m)
       PROVE  span'[w] = span[w] /\ line'[w] = line[w]
  <2>1. \A g \in Grids \ {m} : line'[g] = line[g]
    BY <1>1, <1>10, Creating
  <2>2. span' = [span EXCEPT ![m] = call[c].todo]
    BY <1>10 DEF CreateMonth
  <2> QED BY <1>1, <2>1, <2>2 DEF Typed, GridsTyped
<1>11. ASSUME NEW c \in Calls, Append(c) PROVE span'[w] = span[w] /\ line'[w] = line[w]
  <2>1. /\ \A g \in Grids \ {call[c].grid} : line'[g] = line[g]
        /\ call[c].grid \in Months
    BY <1>1, <1>11, AppendingTo
  <2>2. span' = [span EXCEPT ![call[c].grid] = call[c].todo]
    BY <1>11 DEF Append
  <2> QED BY <1>1, <2>1, <2>2 DEF Typed, GridsTyped
<1>12. ASSUME NEW c \in Calls, Works(c)
       PROVE  \/ d \in span'[w] /\ line'[w][d].does = line[w][d].does
              \/ d \in call'[e].stale
  <2>1. CASE ReadCell(c) \/ Approve(c) \/ Drop(c) \/ Fail(c)
    BY <1>2, <2>1 DEF ReadCell, Approve, Drop, Fail, grids
  <2>2. CASE WriteCell(c)
    <3>1. line' = line \/ Written(c)
      BY <1>1, <2>2, Writes
    <3>2. span' = span
      BY <2>2 DEF WriteCell
    <3> QED BY <1>7, <2>2, <3>1, <3>2
  <2>3. CASE MarkDay(c)
    <3>1. line' = line \/ MarkedNow(c)
      BY <1>1, <2>3, MarksDay
    <3>2. span' = span
      BY <2>3 DEF MarkDay
    <3> QED BY <1>8, <2>3, <3>1, <3>2
  <2>4. CASE Clear(c)
    <3>1. span' = span
      BY <2>4 DEF Clear
    <3> QED BY <1>9, <2>4, <3>1
  <2> QED BY <1>10, <1>11, <1>12, <2>1, <2>2, <2>3, <2>4 DEF Works
<1>13. ASSUME NEW c \in Calls, NEW q \in Requests, StartsOn(c, q)
       PROVE  span' = span /\ line' = line
  BY <1>13 DEF StartsOn, StartApprove, AutoMission, StartMark, StartDrop, StartCancel, grids
<1>14. ASSUME NEW c \in Calls, StartsMerge(c) PROVE span' = span /\ line' = line
  BY <1>14 DEF StartsMerge, StartMerge, StartAppend, grids
<1>15. UNCHANGED vars => span' = span /\ line' = line
  BY DEF vars, grids
<1> QED BY <1>2, <1>6, <1>12, <1>13, <1>14, <1>15, KindsOfStep

(* What a merge takes from the weeks is in one of them. *)
LEMMA ChosenRow ==
  ASSUME NEW S \in SUBSET Weeks, NEW p, NEW d \in Days, Chosen(S, p)[d] # NoLine
  PROVE  \E w \in Weeks : d \in span[w] /\ line[w][d] = Chosen(S, p)[d]
<1> DEFINE W == WeekOf(d) \cap IF p = {} THEN S ELSE Weeks
<1>1. /\ W # {}
      /\ Chosen(S, p)[d] = line[CHOOSE w \in W : TRUE][d]
  BY DEF Chosen
<1>2. (CHOOSE w \in W : TRUE) \in W
  <2> HIDE DEF W
  <2> QED BY <1>1
<1>3. W \subseteq WeekOf(d)
  OBVIOUS
<1>4. \A w \in WeekOf(d) : w \in Weeks /\ d \in span[w]
  BY DEF WeekOf
<1> HIDE DEF W
<1> QED BY <1>1, <1>2, <1>3, <1>4

(* No working call is a merge afterwards. *)
LEMMA NewToMerge ==
  ASSUME GridAssumption, Base, [Next]_vars, NEW c \in Calls,
         call'[c].at \in {"merge", "append"}
  PROVE  Kept(call'[c], call[c]) \/ StartsMerge(c)
<1>1. Typed /\ Shapes
  BY DEF Base
<1>2. ASSUME Works(c) PROVE FALSE
  <2>1. CASE WriteCell(c)
    <3>1. call'[c].at \notin {"merge", "append"}
      BY <1>1, <2>1, Writes, IdleTyped DEF Written, AfterDay
    <3> QED BY <3>1
  <2>2. CASE MarkDay(c)
    <3>1. call'[c].at \notin {"merge", "append"}
      BY <1>1, <2>2, MarksDay, IdleTyped DEF MarkedNow, Done
    <3> QED BY <3>1
  <2>3. CASE Clear(c)
    <3>1. call'[c].at = "drop"
      BY <1>1, <2>3, Clearing
    <3> QED BY <3>1
  <2>4. CASE Approve(c) \/ Drop(c) \/ Fail(c)
    <3>1. Ends(c)
      BY <2>4 DEF Approve, Drop, Fail
    <3> QED BY <1>1, <3>1, Ending, IdleTyped
  <2>5. CASE ReadCell(c)
    <3>1. call'[c].at \notin {"merge", "append"}
      BY <1>1, <2>5, Reading, IdleTyped
    <3> QED BY <3>1
  <2>6. CASE Append(c) \/ \E m \in Months : CreateMonth(c, m)
    BY <1>1, <2>6, AppendingTo, Creating, IdleTyped
  <2> QED BY <1>2, <2>1, <2>2, <2>3, <2>4, <2>5, <2>6 DEF Works
<1>3. ASSUME NEW q \in Requests, StartsOn(c, q) PROVE FALSE
  BY <1>1, <1>3, Starting DEF StartsOn
<1> QED BY <1>2, <1>3, OwnStep

LEMMA CopyReadKept ==
  ASSUME GridAssumption, Base, CopyRead, [Next]_vars
  PROVE  CopyRead'
<1>1. \A e \in Calls : call'[e].todo \subseteq Days
  <2>1. Base'
    BY NextKeepsBase
  <2> QED BY <2>1 DEF Base, Typed, CallRecords
<1>2. SUFFICES ASSUME NEW e \in Calls, call'[e].at \in {"merge", "append"},
                      NEW d \in Days, d \in call'[e].todo
               PROVE  CopyOf(e, d)'
  BY <1>1 DEF CopyRead
<1>3. CASE Kept(call'[e], call[e])
  <2>1. /\ call[e].at \in {"merge", "append"} /\ d \in call[e].todo
        /\ call'[e].copy = call[e].copy /\ call[e].stale \subseteq call'[e].stale
    BY <1>2, <1>3 DEF Kept
  <2>2. CopyOf(e, d)
    BY <2>1 DEF CopyRead
  <2>3. edited \subseteq edited'
    BY HistoryGrows
  <2>4. ASSUME NEW w \in Weeks, d \in span[w], line[w][d].does = call[e].copy[d].does
        PROVE  CopyOf(e, d)'
    <3>1. \/ d \in span'[w] /\ line'[w][d].does = line[w][d].does
          \/ d \in call'[e].stale
          \/ d \in edited'
      BY <1>2, <1>3, <2>1, <2>4, WeekRow
    <3> QED BY <2>1, <2>4, <3>1 DEF CopyOf
  <2> QED BY <2>1, <2>2, <2>3, <2>4 DEF CopyOf
<1>4. CASE StartsMerge(e)
  <2>1. PICK S, p : S \in SUBSET Weeks /\ call'[e].copy = Chosen(S, p)
    BY <1>4 DEF StartsMerge, MergeStarted
  <2>2. span' = span /\ line' = line
    BY <1>4 DEF StartsMerge, StartMerge, StartAppend, grids
  <2>3. Chosen(S, p)[d] # NoLine =>
          \E w \in Weeks : d \in span[w] /\ line[w][d] = Chosen(S, p)[d]
    BY <2>1, ChosenRow
  <2> QED BY <2>1, <2>2, <2>3 DEF CopyOf
<1> QED BY <1>2, <1>3, <1>4, NewToMerge

-----------------------------------------------------------------------------
(* A fulfilled request on its day *)

OnGrid(r, d) ==
  \/ Covering(d) # {} /\ line[GridFor(d)][d].does = Wants[r]
  \/ d \in edited \cup remade \cup crossed
  \/ \E q \in Fulfilled \ {r} : d \in DaysOf[q] /\ state[q] # "none"

LEMMA GridForNext ==
  (GridAssumption /\ span \in [Grids -> SUBSET Days] =>
     \A d \in Days : Covering(d) # {} => GridFor(d) \in Covering(d))'
<1>1. GridAssumption /\ span \in [Grids -> SUBSET Days] =>
        \A d \in Days : Covering(d) # {} => GridFor(d) \in Covering(d)
  BY GridForCovers
<1> QED BY <1>1, PTL

(* A merge copies into a month m what the grid of the day has, or the      *)
(* history knows better.                                                   *)
LEMMA CopiedDay ==
  ASSUME GridAssumption, Base, CopyRead, [Next]_vars, NEW c \in Calls, NEW m \in Months,
         NEW r \in Fulfilled, NEW d \in Days, call[c].at \in {"merge", "append"},
         d \in call[c].todo, NEW D, Copies(c, D), d \in D,
         Covering(d) # {}, line[GridFor(d)][d].does = Wants[r],
         span' = [span EXCEPT ![m] = call[c].todo],
         \A g \in Grids \ {m} : line'[g] = line[g],
         call[c].copy[d] # NoLine => line'[m][d].does = call[c].copy[d].does
  PROVE  OnGrid(r, d)'
<1>1. Typed /\ Spans /\ Typed'
  <2>1. Base'
    BY NextKeepsBase
  <2> QED BY <2>1 DEF Base
<1>2. /\ remade' = remade \cup
           {x \in D : Covering(x) \cap Months # {} \/ call[c].copy[x] = NoLine}
      /\ crossed' = crossed \cup (D \cap call[c].stale)
      /\ edited' = edited
  BY DEF Copies
<1>3. CASE Covering(d) \cap Months # {} \/ call[c].copy[d] = NoLine
           \/ d \in call[c].stale \cup edited
  BY <1>2, <1>3 DEF OnGrid
<1>4. CASE /\ Covering(d) \cap Months = {} /\ call[c].copy[d] # NoLine
           /\ d \notin call[c].stale \cup edited
  <2>1. PICK w \in Weeks : d \in span[w] /\ line[w][d].does = call[c].copy[d].does
    BY <1>4 DEF CopyRead, CopyOf
  <2>2. \A g \in Covering(d) : g = w
    <3>1. SUFFICES ASSUME NEW g \in Covering(d), g # w PROVE FALSE
      OBVIOUS
    <3>2. g \in Weeks /\ d \in span[g]
      BY <1>4, <3>1 DEF Covering, Grids
    <3>3. d \in WeekDays[g] /\ d \in WeekDays[w]
      BY <1>1, <2>1, <3>2 DEF Spans
    <3> QED BY <3>1, <3>2, <3>3 DEF GridAssumption
  <2>3. GridFor(d) \in Covering(d)
    BY <1>1, GridForCovers DEF Typed, GridsTyped
  <2>4. line[w][d].does = Wants[r]
    BY <2>2, <2>3
  <2>5. m \in Grids /\ w \in Grids /\ m # w
    BY DEF GridAssumption, Grids
  <2>6. \A g \in Covering(d)' : g = w \/ g = m
    <3>1. \A g \in Grids \ {m} : span'[g] = span[g]
      BY <1>1 DEF Typed, GridsTyped
    <3> QED BY <2>2, <3>1 DEF Covering
  <2>7. m \in Covering(d)'
    <3>1. span'[m] = call[c].todo
      BY <1>1, <2>5 DEF Typed, GridsTyped
    <3> QED BY <2>5, <3>1 DEF Covering
  <2>8. GridFor(d)' \in Covering(d)'
    <3>2. span' \in [Grids -> SUBSET Days] /\ Covering(d)' # {}
      BY <1>1, <2>7 DEF Typed, GridsTyped
    <3> QED BY <3>2, GridForNext
  <2>9. line'[w][d].does = Wants[r] /\ line'[m][d].does = Wants[r]
    BY <1>4, <2>1, <2>4, <2>5
  <2>10. line'[GridFor(d)'][d].does = Wants[r]
    BY <2>6, <2>8, <2>9
  <2> QED BY <2>7, <2>10 DEF OnGrid
<1> QED BY <1>3, <1>4

LEMMA OnGridKept ==
  ASSUME GridAssumption, Base, Asked, CopyRead, [Next]_vars,
         NEW r \in Fulfilled, NEW d \in DaysOf[r], OnGrid(r, d)
  PROVE  OnGrid(r, d)'
<1>1. /\ Typed /\ Shapes /\ d \in Days /\ r \in Requests
      /\ Wants[r] \in {"leave", "shift"}
  BY DEF Base, GridAssumption, Fulfilled
<1>2. /\ edited \subseteq edited' /\ crossed \subseteq crossed' /\ remade \subseteq remade'
      /\ \A q \in Requests : state[q] # "none" => state'[q] # "none"
  BY HistoryGrows, RequestsStay
<1>3. CASE ~(Covering(d) # {} /\ line[GridFor(d)][d].does = Wants[r])
  BY <1>2, <1>3 DEF OnGrid, Fulfilled
<1>4. CASE Covering(d) # {} /\ line[GridFor(d)][d].does = Wants[r]
  <2> DEFINE g == GridFor(d)
  <2>0. Covering(d) # {} /\ line[g][d].does = Wants[r] /\ g \in Grids /\ d \in span[g]
    BY <1>1, <1>4, GridForDay
  <2>1. CASE Undisturbed(d)
    BY <2>0, <2>1 DEF Undisturbed, SameGrid, OnGrid
  <2>2. CASE d \in edited'
    BY <2>2 DEF OnGrid
  <2>3. ASSUME NEW c \in Calls, WriteCell(c), Written(c), d = Min(call[c].todo)
        PROVE  OnGrid(r, d)'
    <3>1. SameGrid(d) /\ call[c].at = "write"
      BY <2>3, SameSpans DEF WriteCell
    <3>2. PICK q : q = call[c].req
      OBVIOUS
    <3>3. q \in Fulfilled /\ d \in DaysOf[q] /\ q # None /\ q \in Requests
      BY <2>3, <3>1, <3>2, InHand DEF Fulfilled
    <3>4. CASE q # r
      <4>1. state'[q] # "none"
        BY <1>2, <3>2, <3>3 DEF Asked
      <4> QED BY <3>3, <3>4, <4>1 DEF OnGrid
    <3>5. CASE q = r
      <4>1. PICK h, mi : line' = [line EXCEPT ![h][d] = [does |-> Wants[r], mission |-> mi]]
        BY <2>3, <3>2, <3>5 DEF Written
      <4>2. line'[g][d].does = Wants[r]
        <5> HIDE DEF g
        <5> QED BY <1>1, <2>0, <4>1 DEF Typed, GridsTyped
      <4> QED BY <2>0, <3>1, <4>2 DEF SameGrid, OnGrid
    <3> QED BY <3>4, <3>5
  <2>4. ASSUME NEW c \in Calls, MarkDay(c), MarkedNow(c), d = Min(call[c].todo)
        PROVE  OnGrid(r, d)'
    <3>1. SameGrid(d)
      BY <2>4, SameSpans DEF MarkDay
    <3>2. line' = [line EXCEPT ![g][d] =
            [does |-> IF line[g][d] = NoLine THEN "none" ELSE line[g][d].does,
             mission |-> call[c].req]]
      BY <2>4 DEF MarkedNow
    <3>3. line[g][d] # NoLine
      BY <1>1, <2>0, NoLineTyped
    <3>4. line'[g][d].does = Wants[r]
      <4> HIDE DEF g
      <4> QED BY <1>1, <2>0, <3>2, <3>3 DEF Typed, GridsTyped
    <3> QED BY <2>0, <3>1, <3>4 DEF SameGrid, OnGrid
  <2>5. ASSUME NEW c \in Calls, Clear(c) PROVE OnGrid(r, d)'
    <3>0. Typed /\ Shapes
      BY <1>1
    <3>1. SameGrid(d)
      BY <2>5, SameSpans DEF Clear
    <3>2. \A h \in Grids, x \in Days : line'[h][x].does = line[h][x].does
      BY <2>5, <3>0, ClearedRows
    <3> QED BY <1>1, <2>0, <3>1, <3>2 DEF SameGrid, OnGrid
  <2>6. ASSUME NEW c \in Calls, NEW m \in Months, CreateMonth(c, m), d \in call[c].todo
        PROVE  OnGrid(r, d)'
    <3>1. /\ Copies(c, call[c].todo) /\ span' = [span EXCEPT ![m] = call[c].todo]
          /\ \A h \in Grids \ {m} : line'[h] = line[h]
          /\ call[c].at = "merge"
      BY <1>1, <2>6, Creating
    <3>2. \A x \in Days :
            line'[m][x] = IF x \in call[c].todo /\ call[c].copy[x] # NoLine
                          THEN [does |-> call[c].copy[x].does, mission |-> None] ELSE NoLine
      BY <1>1, <2>6, Creating
    <3>3. call[c].copy[d] # NoLine => line'[m][d].does = call[c].copy[d].does
      <4>1. call[c].copy[d] # NoLine =>
              line'[m][d] = [does |-> call[c].copy[d].does, mission |-> None]
        BY <1>1, <2>6, <3>2
      <4> QED BY <4>1
    <3> QED BY <1>1, <1>4, <2>6, <3>1, <3>3, CopiedDay
  <2>7. ASSUME NEW c \in Calls, Append(c), d \in MovedDays(call[c]) PROVE OnGrid(r, d)'
    <3>1. PICK m : m = call[c].grid
      OBVIOUS
    <3>2. /\ Copies(c, MovedDays(call[c])) /\ span' = [span EXCEPT ![m] = call[c].todo]
          /\ \A h \in Grids \ {m} : line'[h] = line[h]
          /\ call[c].at = "append" /\ m \in Months
      BY <1>1, <2>7, <3>1, AppendingTo
    <3>3. \A x \in Days :
            line'[m][x] = IF x \in NewDays(call[c])
                          THEN [does |-> call[c].copy[x].does, mission |-> None]
                          ELSE IF x \in DeletedDays(call[c]) THEN NoLine ELSE line[m][x]
      BY <1>1, <2>7, <3>1, AppendingTo
    <3>4. CASE d \in span[m]
      <4>1. m \in Covering(d) \cap Months
        BY <3>2, <3>4 DEF Covering, Grids
      <4>2. d \in remade'
        BY <2>7, <3>2, <4>1 DEF Copies
      <4> QED BY <4>2 DEF OnGrid
    <3>5. CASE d \notin span[m]
      <4>1. d \in call[c].todo
        BY <2>7, <3>1, <3>5 DEF MovedDays, NewDays
      <4>2. call[c].copy[d] # NoLine => line'[m][d].does = call[c].copy[d].does
        <5>1. call[c].copy[d] # NoLine =>
                line'[m][d] = [does |-> call[c].copy[d].does, mission |-> None]
          BY <1>1, <3>3, <4>1 DEF NewDays
        <5> QED BY <5>1
      <4> QED BY <1>1, <1>4, <2>7, <3>2, <4>1, <4>2, CopiedDay
    <3> QED BY <3>4, <3>5
  <2> QED BY <1>1, <2>1, <2>2, <2>3, <2>4, <2>5, <2>6, <2>7, RowOfDay
<1> QED BY <1>3, <1>4

-----------------------------------------------------------------------------
(* The fulfilments' invariant *)

(* The days a fulfilment has written so far stand. *)
Writing ==
  \A c \in Calls : \A r \in Fulfilled :
    call[c].req = r /\ call[c].at \in {"read", "write", "approve"} =>
      \A d \in DaysOf[r] \ call[c].todo : OnGrid(r, d)

Stood == \A r \in Fulfilled : state[r] = "approved" => \A d \in DaysOf[r] : OnGrid(r, d)

LeaveInv == GridRead /\ CopyRead /\ Writing /\ Stood

(* Where a fulfilment comes from. *)
LEMMA FulfilmentCall ==
  ASSUME GridAssumption, Base, [Next]_vars, NEW c \in Calls, NEW r \in Fulfilled,
         call'[c].req = r, call'[c].at \in {"read", "write", "approve"}
  PROVE  \/ Kept(call'[c], call[c])
         \/ ReadCell(c) /\ call[c].req = r /\ call'[c].todo = call[c].todo
         \/ WriteCell(c) /\ Written(c) /\ call[c].req = r
         \/ call'[c].todo = DaysOf[r]
<1>1. Typed /\ Shapes /\ r # None /\ r \notin Missions /\ call'[c] # Idle
  BY IdleTyped DEF Base, GridAssumption, Fulfilled, Missions
<1>2. CASE Works(c)
  <2>1. CASE ReadCell(c)
    BY <1>1, <2>1, Reading
  <2>2. CASE WriteCell(c)
    <3>1. Written(c)
      BY <1>1, <2>2, Writes
    <3>2. call'[c].req = call[c].req
      BY <3>1 DEF Written
    <3> QED BY <2>2, <3>1, <3>2
  <2>3. CASE Approve(c) \/ Drop(c) \/ Fail(c)
    <3>1. Ends(c)
      BY <2>3 DEF Approve, Drop, Fail
    <3> QED BY <1>1, <3>1, Ending
  <2>4. CASE Append(c) \/ \E m \in Months : CreateMonth(c, m)
    BY <1>1, <2>4, AppendingTo, Creating
  <2>5. CASE MarkDay(c)
    <3>1. MarkedNow(c) /\ call[c].at = "mark"
      BY <1>1, <2>5, MarksDay
    <3>2. call'[c].req = call[c].req
      BY <1>1, <3>1 DEF MarkedNow, Done
    <3>3. call[c].req \in Missions
      BY <1>1, <3>1 DEF Shapes, Shape
    <3> QED BY <1>1, <3>2, <3>3
  <2>6. CASE Clear(c)
    <3>1. call'[c].at = "drop"
      BY <1>1, <2>6, Clearing
    <3> QED BY <3>1
  <2> QED BY <1>2, <2>1, <2>2, <2>3, <2>4, <2>5, <2>6 DEF Works
<1>3. ASSUME NEW q \in Requests, StartsOn(c, q) PROVE call'[c].todo = DaysOf[r]
  <2>1. \/ q \in Fulfilled /\ StartApprove(c, q)
        \/ q \in Missions /\ (AutoMission(c, q) \/ StartMark(c, q)
                               \/ StartDrop(c, q) \/ StartCancel(c, q))
    BY <1>3 DEF StartsOn
  <2>2. call'[c].req = q
    BY <1>1, <2>1, Starting
  <2>3. StartApprove(c, q)
    BY <1>1, <2>1, <2>2
  <2> QED BY <1>1, <2>2, <2>3, Starting
<1>4. CASE StartsMerge(c)
  BY <1>1, <1>4 DEF StartsMerge, MergeStarted
<1> QED BY <1>2, <1>3, <1>4, OwnStep

LEMMA WritingKept ==
  ASSUME GridAssumption, Base, Asked, GridRead, CopyRead, Writing, [Next]_vars
  PROVE  Writing'
<1>1. SUFFICES ASSUME NEW c \in Calls, NEW r \in Fulfilled, call'[c].req = r,
                      call'[c].at \in {"read", "write", "approve"},
                      NEW d \in DaysOf[r], d \notin call'[c].todo
               PROVE  OnGrid(r, d)'
  BY DEF Writing
<1>2. ASSUME call[c].req = r, call[c].at \in {"read", "write", "approve"},
             d \notin call[c].todo
      PROVE  OnGrid(r, d)'
  <2>1. OnGrid(r, d)
    BY <1>1, <1>2 DEF Writing
  <2> QED BY <1>1, <2>1, OnGridKept
<1>3. CASE Kept(call'[c], call[c])
  BY <1>1, <1>2, <1>3 DEF Kept
<1>4. CASE ReadCell(c) /\ call[c].req = r /\ call'[c].todo = call[c].todo
  BY <1>1, <1>2, <1>4 DEF ReadCell
<1>5. CASE WriteCell(c) /\ Written(c) /\ call[c].req = r
  <2>1. call[c].at = "write" /\ edited' = edited
    BY <1>5 DEF WriteCell
  <2>2. CASE d # Min(call[c].todo)
    <3>1. d \notin call[c].todo
      BY <1>1, <1>5, <2>2 DEF Written
    <3> QED BY <1>2, <1>5, <2>1, <3>1
  <2>3. CASE d = Min(call[c].todo)
    <3> DEFINE k == call[c]
    <3>1. /\ ~k.gone /\ (d \in k.stale => d \in crossed')
          /\ line' = [line EXCEPT ![k.grid][d] =
                        [does |-> Wants[r], mission |-> k.cell.mission]]
      BY <1>5, <2>3 DEF Written
    <3>2. \/ d \in k.stale \cup edited
          \/ Covering(d) # {} /\ k.grid = GridFor(d)
      BY <2>1, <2>3, <3>1 DEF GridRead, GridOf
    <3>3. CASE d \in k.stale \cup edited
      BY <2>1, <3>1, <3>3 DEF OnGrid
    <3>4. CASE Covering(d) # {} /\ k.grid = GridFor(d)
      <4>1. PICK g, mi : /\ g \in Grids /\ g = GridFor(d)
                         /\ line' = [line EXCEPT ![g][d] =
                                        [does |-> Wants[r], mission |-> mi]]
        BY <2>1, <3>1, <3>4, InHand
      <4>2. d \in Days /\ Typed
        BY <2>1, <2>3, InHand DEF Base
      <4>3. line'[g][d].does = Wants[r]
        <5> HIDE DEF k
        <5> QED BY <4>1, <4>2 DEF Typed, GridsTyped
      <4>4. SameGrid(d)
        BY <1>5, SameSpans DEF WriteCell
      <4> QED BY <3>4, <4>1, <4>3, <4>4 DEF OnGrid, SameGrid
    <3> QED BY <3>2, <3>3, <3>4
  <2> QED BY <2>2, <2>3
<1>6. CASE call'[c].todo = DaysOf[r]
  BY <1>1, <1>6
<1> QED BY <1>1, <1>3, <1>4, <1>5, <1>6, FulfilmentCall

(* A fulfilment is approved by the call that has written its days. *)
LEMMA Approving ==
  ASSUME GridAssumption, Base, [Next]_vars, NEW r \in Fulfilled,
         state[r] # "approved", state'[r] = "approved"
  PROVE  \E c \in Calls : Approve(c) /\ call[c].req = r
<1>1. Typed /\ Shapes /\ r \in Requests /\ r \notin Missions
  BY DEF Base, Fulfilled, Missions
<1>2. CASE ByHand
  <2>1. ASSUME NEW q \in Requests, Ask(q) \/ Reject(q) PROVE FALSE
    BY <1>1, <2>1 DEF Ask, Reject, Typed
  <2> QED BY <1>2, <2>1 DEF ByHand, ClearGrid, DeleteGrid, EditCell, Fulfilled
<1>3. ASSUME NEW c \in Calls, Works(c) PROVE Approve(c) /\ call[c].req = r
  <2>1. CASE Approve(c)
    BY <1>1, <2>1 DEF Approve, Typed
  <2>2. CASE Drop(c)
    BY <1>1, <2>2 DEF Drop, Typed
  <2> QED BY <1>3, <2>1, <2>2 DEF Works, ReadCell, WriteCell, MarkDay, Clear, Fail,
                                  CreateMonth, Append
<1>4. ASSUME NEW c \in Calls, NEW q \in Requests, StartsOn(c, q) PROVE FALSE
  BY <1>1, <1>4 DEF StartsOn, StartApprove, AutoMission, StartMark, StartDrop, StartCancel, Typed
<1>5. ASSUME NEW c \in Calls, StartsMerge(c) PROVE FALSE
  BY <1>5 DEF StartsMerge, StartMerge, StartAppend
<1>6. CASE UNCHANGED vars
  BY <1>6 DEF vars
<1> QED BY <1>2, <1>3, <1>4, <1>5, <1>6, KindsOfStep

LEMMA StoodKept ==
  ASSUME GridAssumption, Base, Asked, CopyRead, Writing, Stood, [Next]_vars
  PROVE  Stood'
<1>1. SUFFICES ASSUME NEW r \in Fulfilled, state'[r] = "approved", NEW d \in DaysOf[r]
               PROVE  OnGrid(r, d)'
  BY DEF Stood
<1>2. CASE state[r] = "approved"
  <2>1. OnGrid(r, d)
    BY <1>1, <1>2 DEF Stood
  <2> QED BY <1>1, <2>1, OnGridKept
<1>3. CASE state[r] # "approved"
  <2>1. PICK c \in Calls : Approve(c) /\ call[c].req = r
    BY <1>1, <1>3, Approving
  <2>2. call[c].at = "approve" /\ call[c].todo = {}
    BY <2>1 DEF Approve, Base, Shapes, Shape
  <2>3. OnGrid(r, d)
    BY <1>1, <2>1, <2>2 DEF Writing
  <2> QED BY <1>1, <2>3, OnGridKept
<1> QED BY <1>2, <1>3

LEMMA InitLeaves == GridAssumption /\ Init => LeaveInv
<1>1. SUFFICES ASSUME GridAssumption, Init PROVE LeaveInv
  OBVIOUS
<1>2. \A c \in Calls : call[c].at = "idle"
  BY <1>1, IdleTyped DEF Init
<1>3. \A r \in Fulfilled : state[r] = "none"
  BY <1>1 DEF Init, Fulfilled
<1> QED BY <1>2, <1>3 DEF LeaveInv, GridRead, GridOf, CopyRead, Writing, Stood

(* An approved leave or change of shift stands in the grid that covers the *)
(* day, unless a person changed the day, a merge made it anew, or two      *)
(* calls crossed on it: whatever grids there are, and however many calls   *)
(* fulfil, merge and append at once (requests.service.ts:416,              *)
(* shiftGridMerge.service.ts:233).                                         *)
THEOREM RequestsOnGrid == GridAssumption => (Spec => []RequestOnGrid)
<1> SUFFICES ASSUME GridAssumption PROVE Spec => []RequestOnGrid
  OBVIOUS
<1> DEFINE Inv == Base /\ Asked /\ Alone /\ LeaveInv
<1>1. Inv => RequestOnGrid
  BY DEF LeaveInv, Stood, RequestOnGrid, OnGrid
<1>2. Init => Inv
  BY InitBase, InitHandlers, InitLeaves
<1>3. Inv /\ [Next]_vars => Inv'
  <2>1. SUFFICES ASSUME Inv, [Next]_vars PROVE Inv'
    OBVIOUS
  <2>2. Base' /\ Asked' /\ Alone'
    BY <2>1, NextKeepsBase, HandlersKept
  <2>3. GridRead' /\ CopyRead' /\ Writing' /\ Stood'
    BY <2>1, GridReadKept, CopyReadKept, WritingKept, StoodKept DEF LeaveInv
  <2> QED BY <2>2, <2>3 DEF LeaveInv
<1> QED BY <1>1, <1>2, <1>3, PTL DEF Spec

=============================================================================
