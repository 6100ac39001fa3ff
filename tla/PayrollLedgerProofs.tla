------------------------ MODULE PayrollLedgerProofs ------------------------
(***************************************************************************)
(* For any sheets, employees, rows and amounts: the reservations of short  *)
(* advances and deductions stay consistent, what is deducted sits on a     *)
(* final sheet, a confirmed sheet keeps every row it charged (part 1);     *)
(* the payments of a long advance stay within it (part 2), the figure of a *)
(* line is the sum of the rows reserved on it (part 3), and the ledger     *)
(* implements the loan book (part 4).                                      *)
(***************************************************************************)
EXTENDS PayrollLedger, TLAPS, FiniteSetTheorems, WellFoundedInduction

(* A payment row exists for every advance and sheet; NoPayment is no row.  *)
PaidShape == paid = [a \in Longs |-> [p \in Payrolls |-> paid[a][p]]]

LedgerInv ==
  /\ LinksTypeOK /\ PaidShape
  /\ ReservedIffOnSheet /\ DeductedOnFinalSheet /\ DeductionsConsistent

ShortStates == {"none", "pending", "confirmed", "applied", "cancelled"}
ShortRows == [state : ShortStates, payroll : Keys, line : Keys, deducted : BOOLEAN]
DedRows == [state : {"none", "draft", "linked", "cancelled"},
            payroll : Keys, line : Keys]

(* What every step of the ledger guarantees, by the rows it is about. *)
ShortsGood ==
  /\ shorts' \in [Shorts -> ShortRows]
  /\ ReservedIffOnSheet' /\ DeductedOnFinalSheet'
  /\ \A q \in Payrolls : sheet[q] = "confirmed" => KeepsShorts(q)

DedsGood ==
  /\ deds' \in [Deds -> DedRows]
  /\ DeductionsConsistent'
  /\ \A q \in Payrolls : sheet[q] = "confirmed" => KeepsDeds(q)

PaymentsGood ==
  /\ PaidShape'
  /\ \A q \in Payrolls : sheet[q] = "confirmed" => KeepsLongs(q)

LinesTypeOK ==
  /\ sheet \in [Payrolls -> SheetStates]
  /\ excel \subseteq Payrolls
  /\ excluded \in [Payrolls -> SUBSET Employees]
  /\ lines \subseteq Lines /\ manual \subseteq lines /\ moved \subseteq lines
  /\ byHand \subseteq Payrolls \X Employees \X {"short", "long"}
  /\ departed \subseteq Employees

LinesGood ==
  /\ LinesTypeOK'
  /\ \A q \in Payrolls : sheet[q] = "confirmed" =>
                         sheet'[q] = "confirmed" /\ On(q)' = On(q)
  /\ \A q \in Payrolls, e \in Employees : StaysOff(q, e)

Good ==
  /\ LedgerInv'
  /\ \A q \in Payrolls : sheet[q] = "confirmed" => Frozen(q)
  /\ \A q \in Payrolls, e \in Employees : StaysOff(q, e)

LEMMA Parts == ShortsGood /\ DedsGood /\ PaymentsGood /\ LinesGood => Good
  BY DEF ShortsGood, DedsGood, PaymentsGood, LinesGood, LinesTypeOK, Good, LedgerInv,
         LinksTypeOK, ShortRows, ShortStates, DedRows, Frozen

LEMMA TypeParts ==
  LinksTypeOK <=> /\ LinesTypeOK
                  /\ shorts \in [Shorts -> ShortRows] /\ deds \in [Deds -> DedRows]
  BY DEF LinksTypeOK, LinesTypeOK, ShortRows, ShortStates, DedRows

LEMMA LedgerInit == Init => LedgerInv
<1> SUFFICES ASSUME Init PROVE LedgerInv
  OBVIOUS
<1>1. /\ sheet \in [Payrolls -> SheetStates]
      /\ excluded \in [Payrolls -> SUBSET Employees]
      /\ excel = {} /\ lines = {} /\ manual = {} /\ moved = {} /\ byHand = {}
      /\ departed = {}
  BY DEF Init, SheetStates
<1>2. shorts \in [Shorts -> ShortRows]
  BY DEF Init, ShortRows, ShortStates, Keys
<1>3. deds \in [Deds -> DedRows]
  BY DEF Init, DedRows, Keys
<1>4. LinksTypeOK
  BY <1>1, <1>2, <1>3 DEF LinksTypeOK, ShortRows, ShortStates, DedRows
<1>5. ReservedIffOnSheet /\ DeductedOnFinalSheet
  BY DEF Init, ReservedIffOnSheet, DeductedOnFinalSheet
<1>6. DeductionsConsistent
  BY DEF Init, DeductionsConsistent
<1>7. PaidShape
  BY DEF Init, PaidShape
<1> QED BY <1>4, <1>5, <1>6, <1>7 DEF LedgerInv
-----------------------------------------------------------------------------
(* What the updates of single rows do. *)

LEMMA PointShort ==
  ASSUME NEW r \in ShortRows, NEW k \in Keys
  PROVE  /\ [r EXCEPT !.line = k] \in ShortRows
         /\ [r EXCEPT !.line = k].state = r.state
         /\ [r EXCEPT !.line = k].payroll = r.payroll
         /\ [r EXCEPT !.line = k].line = k
         /\ [r EXCEPT !.line = k].deducted = r.deducted
  BY DEF ShortRows

LEMMA ReserveShort ==
  ASSUME NEW r \in ShortRows, NEW p \in Payrolls
  PROVE  LET n == [r EXCEPT !.state = "applied", !.payroll = p, !.line = p]
         IN  /\ n \in ShortRows
             /\ n.state = "applied" /\ n.payroll = p /\ n.line = p
             /\ n.deducted = r.deducted
  BY DEF ShortRows, ShortStates, Keys

LEMMA PointDed ==
  ASSUME NEW r \in DedRows, NEW k \in Keys
  PROVE  /\ [r EXCEPT !.line = k] \in DedRows
         /\ [r EXCEPT !.line = k].state = r.state
         /\ [r EXCEPT !.line = k].payroll = r.payroll
         /\ [r EXCEPT !.line = k].line = k
  BY DEF DedRows
-----------------------------------------------------------------------------
(* Linking a sheet. *)

LEMMA LinkRows ==
  ASSUME NEW p \in Payrolls, NEW L \in SUBSET Employees, NEW D \in SUBSET Employees,
         ApplyAdvances(p, L, D)
  PROVE  /\ shorts' = LinkShorts(p, L, Unpoint(RevertShorts(p), p, D))
         /\ \E taken \in SUBSET Longs :
              paid' = LinkPaid(p, taken, RevertLongs(p), UnpointPaid(RevertPaid(p), p, D))
         /\ byHand' \subseteq byHand
  BY DEF ApplyAdvances

(* The lines of p become those of the employees L, other sheets keep       *)
(* theirs, and no sheet leaves the state confirmed.                        *)
LinesBecome(p, L) ==
  /\ \A q \in Payrolls, e \in Employees :
       <<q, e>> \in lines' <=> IF q = p THEN e \in L ELSE <<q, e>> \in lines
  /\ \A q \in Payrolls : sheet[q] = "confirmed" => sheet'[q] = "confirmed"

LEMMA ShortsLinked ==
  ASSUME LedgerInv, NEW p \in Payrolls, Open(p),
         NEW L \in SUBSET Employees, NEW D \in SUBSET Employees,
         NEW T \in SUBSET L, On(p) \subseteq L \cup D, LinesBecome(p, L),
         shorts' = LinkShorts(p, T, Unpoint(RevertShorts(p), p, D))
  PROVE  ShortsGood
<1> DEFINE ss == Unpoint(RevertShorts(p), p, D)
<1>0. shorts \in [Shorts -> ShortRows] /\ Owner \in [Rows -> Employees]
  BY LedgerAssumption DEF LedgerInv, LinksTypeOK, ShortRows, ShortStates
<1>1. ASSUME NEW s \in Shorts
      PROVE  /\ Owner[s] \in Employees
             /\ ss[s] \in ShortRows
             /\ ss[s].state = "applied" <=> ss[s].payroll # None
             /\ ss[s].line # None => /\ ss[s].payroll # None
                                     /\ ss[s].line # p => <<ss[s].line, Owner[s]>> \in lines
                                     /\ ss[s].line = p => Owner[s] \in L
             /\ ss[s].deducted => ss[s] = shorts[s]
             /\ ss[s].payroll # None => ss[s].payroll = shorts[s].payroll
             /\ \A q \in Payrolls : (q # p /\ shorts[s].payroll = q /\ shorts[s].line = q)
                                     => ss[s] = shorts[s]
  <2>1. shorts[s] \in ShortRows /\ Owner[s] \in Employees
    BY <1>0 DEF Rows
  <2>2. /\ shorts[s].state = "applied" <=> shorts[s].payroll # None
        /\ shorts[s].line # None => /\ shorts[s].payroll # None
                                    /\ <<shorts[s].line, Owner[s]>> \in lines
    BY DEF LedgerInv, ReservedIffOnSheet
  <2>3. shorts[s].deducted => shorts[s].line # p
    BY DEF LedgerInv, DeductedOnFinalSheet, Open
  <2>4. shorts[s].line = p => Owner[s] \in L \cup D
    BY <2>1, <2>2, LedgerAssumption DEF On
  <2>5. CASE shorts[s].payroll = p /\ ~shorts[s].deducted
    <3>1. ss[s] = [state |-> "pending", payroll |-> None, line |-> None,
                   deducted |-> FALSE]
      BY <2>5, LedgerAssumption DEF Unpoint, RevertShorts
    <3> HIDE DEF ss
    <3> QED BY <2>1, <2>5, <3>1 DEF ShortRows, ShortStates, Keys
  <2>6. CASE ~(shorts[s].payroll = p /\ ~shorts[s].deducted)
             /\ Owner[s] \in D /\ shorts[s].line = p
    <3>1. ss[s] = [shorts[s] EXCEPT !.line = None]
      BY <2>6 DEF Unpoint, RevertShorts
    <3>2. None \in Keys
      BY DEF Keys
    <3> HIDE DEF ss
    <3> QED BY <2>1, <2>2, <2>3, <2>6, <3>1, <3>2, PointShort
  <2>7. CASE /\ ~(shorts[s].payroll = p /\ ~shorts[s].deducted)
             /\ ~(Owner[s] \in D /\ shorts[s].line = p)
    <3>1. ss[s] = shorts[s]
      BY <2>7 DEF Unpoint, RevertShorts
    <3> HIDE DEF ss
    <3> QED BY <2>1, <2>2, <2>4, <2>7, <3>1
  <2> QED BY <2>5, <2>6, <2>7
<1> HIDE DEF ss
<1>2. ASSUME NEW s \in Shorts, TakesShort(p, T, ss, s)
      PROVE  /\ shorts'[s] \in ShortRows
             /\ shorts'[s].state = "applied"
             /\ shorts'[s].payroll = p /\ shorts'[s].line = p
             /\ Owner[s] \in L
             /\ ~shorts'[s].deducted
             /\ shorts[s].line = shorts[s].payroll => shorts[s].payroll \in {None, p}
  <2>1. shorts'[s] = [ss[s] EXCEPT !.state = "applied", !.payroll = p, !.line = p]
    BY <1>2 DEF LinkShorts, ss
  <2>2. ss[s] \in ShortRows /\ ~ss[s].deducted /\ ss[s].payroll \in {None, p}
    BY <1>1, <1>2 DEF TakesShort
  <2>3. shorts[s].line = shorts[s].payroll => shorts[s].payroll \in {None, p}
    <3>1. shorts[s].payroll \in Keys
      BY <1>0 DEF ShortRows
    <3> QED BY <1>1, <2>2, <3>1 DEF Keys
  <2>4. /\ shorts'[s] \in ShortRows /\ shorts'[s].state = "applied"
        /\ shorts'[s].payroll = p /\ shorts'[s].line = p
        /\ shorts'[s].deducted = ss[s].deducted
    <3> DEFINE r == ss[s]
               n == [r EXCEPT !.state = "applied", !.payroll = p, !.line = p]
    <3>1. r \in ShortRows
      BY <2>2
    <3>2. shorts'[s] = n
      BY <2>1
    <3> HIDE DEF r
    <3>3. /\ n \in ShortRows /\ n.state = "applied"
          /\ n.payroll = p /\ n.line = p /\ n.deducted = r.deducted
      BY <3>1, ReserveShort
    <3> HIDE DEF n
    <3>4. /\ shorts'[s] \in ShortRows /\ shorts'[s].state = "applied"
          /\ shorts'[s].payroll = p /\ shorts'[s].line = p
          /\ shorts'[s].deducted = r.deducted
      BY <3>2, <3>3
    <3> QED BY <3>4 DEF r
  <2> QED BY <1>2, <2>2, <2>3, <2>4 DEF TakesShort
<1>3. ASSUME NEW s \in Shorts, ~TakesShort(p, T, ss, s)
      PROVE  shorts'[s] = ss[s]
  BY <1>3 DEF LinkShorts, ss
<1>4. shorts' \in [Shorts -> ShortRows]
  <2>1. shorts' = [s \in Shorts |-> shorts'[s]]
    BY DEF LinkShorts
  <2>2. \A s \in Shorts : shorts'[s] \in ShortRows
    BY <1>1, <1>2, <1>3
  <2> QED BY <2>1, <2>2
<1>5. ReservedIffOnSheet'
  BY <1>1, <1>2, <1>3, <1>4, LedgerAssumption
  DEF ReservedIffOnSheet, ShortRows, Keys, LinesBecome
<1>6. DeductedOnFinalSheet'
  <2> SUFFICES ASSUME NEW s \in Shorts, shorts'[s].deducted
               PROVE  /\ shorts'[s].payroll # None
                      /\ sheet'[shorts'[s].payroll] = "confirmed"
                      /\ shorts'[s].line = shorts'[s].payroll
                      /\ shorts'[s].state = "applied"
    BY DEF DeductedOnFinalSheet
  <2>1. ss[s].deducted /\ shorts'[s] = ss[s]
    BY <1>2, <1>3
  <2>2. shorts'[s] = shorts[s]
    BY <1>1, <2>1
  <2> QED BY <1>0, <2>2, LedgerAssumption
          DEF LedgerInv, DeductedOnFinalSheet, LinesBecome, ShortRows, Keys
<1>7. ASSUME NEW q \in Payrolls, sheet[q] = "confirmed" PROVE KeepsShorts(q)
  <2>1. q # p /\ q # None
    BY <1>7, LedgerAssumption DEF Open
  <2>2. ASSUME NEW s \in Shorts, shorts[s].payroll = q, shorts[s].line = q
        PROVE  shorts'[s] = shorts[s]
    BY <1>1, <1>2, <1>3, <2>1, <2>2
  <2>3. ASSUME NEW s \in Shorts, shorts'[s].payroll = q
        PROVE  shorts[s].payroll = q
    BY <1>1, <1>2, <1>3, <2>1, <2>3
  <2> QED BY <2>2, <2>3 DEF KeepsShorts
<1> QED BY <1>4, <1>5, <1>6, <1>7 DEF ShortsGood

(* The same for deductions.  Linking deductions alone is allowed on a      *)
(* confirmed sheet.                                                        *)
LEMMA DedsLinked ==
  ASSUME LedgerInv, NEW p \in Payrolls,
         NEW L \in SUBSET Employees, NEW D \in SUBSET Employees, NEW dd,
         \/ dd = deds /\ D = {}
         \/ dd = Unpoint(RevertDeds(p), p, D) /\ Open(p),
         NEW T \in SUBSET L, On(p) \subseteq L \cup D, LinesBecome(p, L),
         deds' = LinkDeds(p, T, dd)
  PROVE  DedsGood
<1>0. deds \in [Deds -> DedRows] /\ Owner \in [Rows -> Employees]
  BY LedgerAssumption DEF LedgerInv, LinksTypeOK, DedRows
<1>1. ASSUME NEW d \in Deds
      PROVE  /\ Owner[d] \in Employees
             /\ dd[d] \in DedRows
             /\ dd[d].payroll # None => dd[d].state = "linked"
             /\ dd[d].line # None => /\ dd[d].payroll # None
                                     /\ dd[d].line # p => <<dd[d].line, Owner[d]>> \in lines
                                     /\ dd[d].line = p => Owner[d] \in L
             /\ \A q \in Payrolls :
                  (sheet[q] = "confirmed" /\ deds[d].payroll = q /\ deds[d].line = q)
                  => dd[d] = deds[d]
  <2>1. deds[d] \in DedRows /\ Owner[d] \in Employees
    BY <1>0 DEF Rows
  <2>2. /\ deds[d].payroll # None => deds[d].state = "linked"
        /\ deds[d].line # None => /\ deds[d].payroll # None
                                  /\ <<deds[d].line, Owner[d]>> \in lines
    BY DEF LedgerInv, DeductionsConsistent
  <2>3. deds[d].line = p => Owner[d] \in L \cup D
    BY <2>1, <2>2, LedgerAssumption DEF On
  <2>4. CASE dd = deds /\ D = {}
    BY <2>1, <2>2, <2>3, <2>4
  <2>5. CASE dd = Unpoint(RevertDeds(p), p, D) /\ Open(p)
    <3>1. CASE deds[d].payroll = p
      <4>1. dd[d] = [state |-> "draft", payroll |-> None, line |-> None]
        BY <2>5, <3>1, LedgerAssumption DEF Unpoint, RevertDeds
      <4> QED BY <2>1, <2>5, <3>1, <4>1 DEF DedRows, Keys, Open
    <3>2. CASE deds[d].payroll # p /\ Owner[d] \in D /\ deds[d].line = p
      <4>1. dd[d] = [deds[d] EXCEPT !.line = None]
        BY <2>5, <3>2 DEF Unpoint, RevertDeds
      <4>2. None \in Keys
        BY DEF Keys
      <4> QED BY <2>1, <2>2, <3>2, <4>1, <4>2, PointDed
    <3>3. CASE deds[d].payroll # p /\ ~(Owner[d] \in D /\ deds[d].line = p)
      <4>1. dd[d] = deds[d]
        BY <2>5, <3>3 DEF Unpoint, RevertDeds
      <4> QED BY <2>1, <2>2, <2>3, <3>3, <4>1
    <3> QED BY <3>1, <3>2, <3>3
  <2> QED BY <2>4, <2>5
<1>2. ASSUME NEW d \in Deds
      PROVE  \/ deds'[d] = dd[d] /\ ~(Owner[d] \in T /\ dd[d].state = "linked" /\ dd[d].payroll = p)
             \/ /\ Owner[d] \in T
                /\ deds'[d] = [state |-> "linked", payroll |-> p, line |-> p]
                /\ dd[d].payroll \in {None, p}
  BY DEF LinkDeds
<1>3. deds' \in [Deds -> DedRows]
  <2>1. deds' = [d \in Deds |-> deds'[d]]
    BY DEF LinkDeds
  <2>2. [state |-> "linked", payroll |-> p, line |-> p] \in DedRows
    BY DEF DedRows, Keys
  <2>3. \A d \in Deds : deds'[d] \in DedRows
    BY <1>1, <1>2, <2>2
  <2> QED BY <2>1, <2>3
<1>4. DeductionsConsistent'
  BY <1>1, <1>2, <1>3, LedgerAssumption
  DEF DeductionsConsistent, DedRows, Keys, LinesBecome
<1>5. ASSUME NEW q \in Payrolls, sheet[q] = "confirmed" PROVE KeepsDeds(q)
  <2> SUFFICES ASSUME NEW d \in Deds, deds[d].payroll = q, deds[d].line = q
               PROVE  deds'[d] = deds[d]
    BY DEF KeepsDeds
  <2>1. dd[d] = deds[d] /\ dd[d].state = "linked"
    BY <1>1, <1>5, LedgerAssumption
  <2>2. deds[d] = [state |-> "linked", payroll |-> q, line |-> q]
    BY <1>0, <2>1 DEF DedRows
  <2> QED BY <1>2, <2>1, <2>2, LedgerAssumption
<1> QED BY <1>3, <1>4, <1>5 DEF DedsGood

LEMMA PaymentsLinked ==
  ASSUME LedgerInv, NEW p \in Payrolls, Open(p), NEW taken \in SUBSET Longs,
         NEW lg, NEW pd, NEW D \in SUBSET Employees,
         pd \in {paid, UnpointPaid(RevertPaid(p), p, D)},
         paid' = LinkPaid(p, taken, lg, pd)
  PROVE  PaymentsGood
<1>1. paid = [a \in Longs |-> [x \in Payrolls |-> paid[a][x]]]
  BY DEF LedgerInv, PaidShape
<1>2. /\ pd = [a \in Longs |-> [x \in Payrolls |-> pd[a][x]]]
      /\ \A a \in Longs, q \in Payrolls :
           q # p => /\ paid[a][q].line # p => pd[a][q] = paid[a][q]
                    /\ paid[a][q] = NoPayment => pd[a][q] = NoPayment
  <2>1. CASE pd = paid
    BY <1>1, <2>1
  <2>2. CASE pd = UnpointPaid(RevertPaid(p), p, D)
    <3>1. pd = [a \in Longs |-> [x \in Payrolls |-> pd[a][x]]]
      BY <2>2 DEF UnpointPaid
    <3>2. ASSUME NEW a \in Longs, NEW q \in Payrolls, q # p
          PROVE  RevertPaid(p)[a][q] = paid[a][q]
      BY <1>1, <3>2 DEF RevertPaid
    <3>3. ASSUME NEW a \in Longs, NEW q \in Payrolls, q # p, paid[a][q].line # p
          PROVE  pd[a][q] = paid[a][q]
      BY <2>2, <3>2, <3>3 DEF UnpointPaid
    <3>4. NoPayment.line # p
      BY LedgerAssumption DEF NoPayment
    <3> QED BY <3>1, <3>3, <3>4
  <2> QED BY <2>1, <2>2
<1>3. PaidShape'
  BY <1>2 DEF PaidShape, LinkPaid
<1>4. ASSUME NEW q \in Payrolls, sheet[q] = "confirmed" PROVE KeepsLongs(q)
  <2>1. q # p
    BY <1>4 DEF Open
  <2>2. ASSUME NEW a \in Longs PROVE paid'[a][q] = pd[a][q]
    BY <1>2, <2>1 DEF LinkPaid
  <2> QED BY <1>2, <2>1, <2>2 DEF KeepsLongs
<1> QED BY <1>3, <1>4 DEF PaymentsGood

(* The sheet p takes the lines of L; only p may change its state. *)
LEMMA LinesRebuilt ==
  ASSUME LedgerInv, NEW p \in Payrolls, Open(p), NEW L \in SUBSET Employees,
         lines' = {l \in lines : l[1] # p} \cup ({p} \X L),
         manual' \subseteq lines', moved' \subseteq lines',
         byHand' \subseteq Payrolls \X Employees \X {"short", "long"},
         NEW st \in SheetStates, sheet' = [sheet EXCEPT ![p] = st],
         excel' \subseteq Payrolls, UNCHANGED departed,
         NEW x \in SUBSET Employees, excluded' = [excluded EXCEPT ![p] = x],
         \A e \in L : e \in On(p) \/ e \notin excluded[p] \/ e \notin x
  PROVE  LinesGood /\ LinesBecome(p, L)
<1>0. LinesTypeOK
  BY TypeParts DEF LedgerInv
<1>1. \A q \in Payrolls, e \in Employees :
        <<q, e>> \in lines' <=> IF q = p THEN e \in L ELSE <<q, e>> \in lines
  OBVIOUS
<1>2. /\ \A q \in Payrolls : sheet[q] = "confirmed" => q # p
      /\ \A q \in Payrolls : q # p => sheet'[q] = sheet[q]
  BY <1>0 DEF Open, LinesTypeOK
<1>3. LinesTypeOK'
  BY <1>0 DEF LinesTypeOK, Lines
<1>4. \A q \in Payrolls : q # p => On(q)' = On(q)
  BY <1>1 DEF On
<1>5. ASSUME NEW q \in Payrolls, NEW e \in Employees PROVE StaysOff(q, e)
  BY <1>0, <1>1, <1>4 DEF StaysOff, On, LinesTypeOK
<1> QED BY <1>1, <1>2, <1>3, <1>4, <1>5 DEF LinesGood, LinesBecome
(* The lines stay as they are. *)
LEMMA LinesKept ==
  ASSUME LedgerInv, NEW p \in Payrolls, UNCHANGED <<lineVars, departed>>,
         byHand' \subseteq Payrolls \X Employees \X {"short", "long"},
         NEW st \in SheetStates, sheet' = [sheet EXCEPT ![p] = st],
         sheet[p] = "confirmed" => st = "confirmed", excel' \subseteq Payrolls
  PROVE  LinesGood /\ LinesBecome(p, On(p))
<1>0. LinesTypeOK
  BY TypeParts DEF LedgerInv
<1>1. \A q \in Payrolls : sheet[q] = "confirmed" => sheet'[q] = "confirmed"
  BY <1>0 DEF LinesTypeOK
<1>2. LinesTypeOK'
  BY <1>0 DEF LinesTypeOK, lineVars
<1>3. \A q \in Payrolls : On(q)' = On(q)
  BY DEF On, lineVars
<1>4. \A q \in Payrolls, e \in Employees : StaysOff(q, e)
  BY <1>3 DEF StaysOff
<1> QED BY <1>1, <1>2, <1>3, <1>4 DEF LinesGood, LinesBecome, On, lineVars

(* Rows that stay as they are, while no line goes. *)
LEMMA ShortsKept ==
  ASSUME LedgerInv, LinesGood, UNCHANGED shorts, lines \subseteq lines'
  PROVE  ShortsGood
<1>1. shorts \in [Shorts -> ShortRows]
  BY TypeParts DEF LedgerInv
<1>2. ReservedIffOnSheet'
  BY DEF LedgerInv, ReservedIffOnSheet
<1>3. DeductedOnFinalSheet'
  BY <1>1 DEF LedgerInv, DeductedOnFinalSheet, LinesGood, ShortRows, Keys
<1>4. \A q \in Payrolls : KeepsShorts(q)
  BY DEF KeepsShorts
<1> QED BY <1>1, <1>2, <1>3, <1>4 DEF ShortsGood

LEMMA DedsKept ==
  ASSUME LedgerInv, UNCHANGED deds, lines \subseteq lines'
  PROVE  DedsGood
  BY TypeParts DEF LedgerInv, DedsGood, DeductionsConsistent, KeepsDeds

LEMMA PaymentsKept ==
  ASSUME LedgerInv, UNCHANGED paid
  PROVE  PaymentsGood
  BY DEF LedgerInv, PaymentsGood, PaidShape, KeepsLongs

(* A sheet whose state does not change, in the form the lemmas above take. *)
LEMMA SameSheet ==
  ASSUME LedgerInv, NEW p \in Payrolls, sheet' = sheet
  PROVE  sheet[p] \in SheetStates /\ sheet' = [sheet EXCEPT ![p] = sheet[p]]
  BY TypeParts DEF LedgerInv, LinesTypeOK
-----------------------------------------------------------------------------
(* The handlers that link. *)

(* linkAdvancesToPayroll, onto lines that may just have been made. *)
LEMMA AdvancesGood ==
  ASSUME LedgerInv, NEW p \in Payrolls, Open(p), NEW L \in SUBSET Employees,
         NEW D \in SUBSET Employees, On(p) \subseteq L \cup D,
         LinesBecome(p, L), ApplyAdvances(p, L, D)
  PROVE  ShortsGood /\ PaymentsGood
<1>1. ShortsGood
  <2>1. shorts' = LinkShorts(p, L, Unpoint(RevertShorts(p), p, D))
    BY LinkRows
  <2> QED BY <2>1, ShortsLinked
<1>2. PaymentsGood
  <2>1. PICK taken \in SUBSET Longs :
          paid' = LinkPaid(p, taken, RevertLongs(p), UnpointPaid(RevertPaid(p), p, D))
    BY LinkRows
  <2> QED BY <2>1, PaymentsLinked
<1> QED BY <1>1, <1>2

LEMMA RebuildGood ==
  ASSUME LedgerInv, NEW p \in Payrolls, Open(p), NEW punched \in SUBSET Employees,
         Rebuild(p, punched), excel' \subseteq Payrolls
  PROVE  Good
<1> DEFINE D == On(p) \ Kept(p)
           L == Kept(p) \cup {e \in punched : ~SkipsRebuild(p, e)}
<1>0. LinesTypeOK
  BY TypeParts DEF LedgerInv
<1>1. /\ lines' = {l \in lines : l[1] # p} \cup ({p} \X L)
      /\ moved' = moved \ ({p} \X D)
      /\ ApplyAdvances(p, L, D)
      /\ deds' = LinkDeds(p, L, Unpoint(RevertDeds(p), p, D))
      /\ sheet' = IF L = {} THEN sheet ELSE [sheet EXCEPT ![p] = "calculated"]
      /\ UNCHANGED <<excluded, manual, departed>>
  BY DEF Rebuild
<1>2. /\ Kept(p) \subseteq On(p) /\ L \in SUBSET Employees /\ D \in SUBSET Employees
      /\ On(p) \subseteq L \cup D
  BY DEF Kept, On
<1>3. \A e \in L : e \in On(p) \/ e \notin excluded[p]
  BY DEF Kept, SkipsRebuild
<1>4. manual' \subseteq lines' /\ moved' \subseteq lines'
  <2>1. \A e \in Employees : <<p, e>> \in manual => e \in L
    BY <1>0 DEF Kept, On, LinesTypeOK
  <2>2. \A e \in Employees : <<p, e>> \in lines /\ e \notin D => e \in L
    BY DEF On
  <2> HIDE DEF L, D
  <2> QED BY <1>0, <1>1, <2>1, <2>2 DEF LinesTypeOK, Lines
<1> HIDE DEF L, D
<1>5. LinesGood /\ LinesBecome(p, L)
  <2>1. byHand' \subseteq Payrolls \X Employees \X {"short", "long"}
    BY <1>0, <1>1, <1>2, LinkRows DEF LinesTypeOK
  <2>2. excluded' = [excluded EXCEPT ![p] = excluded[p]] /\ excluded[p] \in SUBSET Employees
    BY <1>0, <1>1 DEF LinesTypeOK
  <2>3. \E st \in SheetStates : sheet' = [sheet EXCEPT ![p] = st]
    BY <1>0, <1>1 DEF LinesTypeOK, SheetStates
  <2> QED BY <1>1, <1>2, <1>3, <1>4, <2>1, <2>2, <2>3, LinesRebuilt
<1>6. ShortsGood /\ PaymentsGood
  BY <1>1, <1>2, <1>5, AdvancesGood
<1>7. DedsGood
  BY <1>1, <1>2, <1>5, DedsLinked
<1> QED BY <1>5, <1>6, <1>7, Parts

LEMMA LinkAllGood ==
  ASSUME LedgerInv, NEW p \in Payrolls, Open(p), LinkAll(p), excel' \subseteq Payrolls,
         NEW st \in SheetStates, sheet' = [sheet EXCEPT ![p] = st]
  PROVE  Good
<1>1. /\ ApplyAdvances(p, On(p), {}) /\ deds' = LinkDeds(p, On(p), deds)
      /\ UNCHANGED <<lineVars, departed>>
  BY DEF LinkAll
<1>2. On(p) \in SUBSET Employees /\ {} \in SUBSET Employees
  BY DEF On
<1>3. LinesGood /\ LinesBecome(p, On(p))
  <2>1. byHand' \subseteq Payrolls \X Employees \X {"short", "long"}
    BY <1>1, <1>2, LinkRows, TypeParts DEF LedgerInv, LinesTypeOK
  <2>2. sheet[p] # "confirmed"
    BY DEF Open
  <2> QED BY <1>1, <2>1, <2>2, LinesKept
<1>4. ShortsGood /\ PaymentsGood
  BY <1>1, <1>2, <1>3, AdvancesGood
<1>5. DedsGood
  BY <1>1, <1>2, <1>3, DedsLinked
<1> QED BY <1>3, <1>4, <1>5, Parts

LEMMA CalculateGood ==
  ASSUME LedgerInv, NEW p \in Payrolls, NEW punched \in SUBSET Employees,
         Calculate(p, punched)
  PROVE  Good
<1>1. Open(p) /\ excel' \subseteq Payrolls
  BY TypeParts DEF Calculate, LedgerInv, LinesTypeOK
<1>2. CASE /\ LinkAll(p)
           /\ sheet' = IF On(p) = {} THEN sheet ELSE [sheet EXCEPT ![p] = "calculated"]
  <2>1. \E st \in SheetStates : sheet' = [sheet EXCEPT ![p] = st]
    BY <1>2, SameSheet DEF SheetStates
  <2> QED BY <1>1, <1>2, <2>1, LinkAllGood
<1>3. CASE Rebuild(p, punched)
  BY <1>1, <1>3, RebuildGood
<1> QED BY <1>2, <1>3 DEF Calculate

LEMMA ImportRebuildGood ==
  ASSUME LedgerInv, NEW p \in Payrolls, NEW punched \in SUBSET Employees,
         NEW clears \in BOOLEAN, RebuildFromImport(p, punched, clears)
  PROVE  Good
<1>1. Open(p) /\ Rebuild(p, punched) /\ excel' \subseteq Payrolls
  BY TypeParts DEF RebuildFromImport, LedgerInv, LinesTypeOK
<1> QED BY <1>1, RebuildGood

LEMMA LinkHandlersGood ==
  ASSUME LedgerInv, NEW p \in Payrolls,
         LinkAdvances(p) \/ LinkDeductionsAndAdvances(p)
  PROVE  Good
<1>0. excel' \subseteq Payrolls /\ Open(p) /\ sheet' = sheet
  BY TypeParts DEF LinkAdvances, LinkDeductionsAndAdvances, LedgerInv, LinesTypeOK, sheetVars
<1>1. CASE LinkAdvances(p)
  <2>1. /\ ApplyAdvances(p, On(p), {})
        /\ UNCHANGED <<lineVars, departed>> /\ UNCHANGED <<lines, deds>>
    BY <1>1 DEF LinkAdvances, lineVars
  <2>2. On(p) \in SUBSET Employees /\ {} \in SUBSET Employees
    BY DEF On
  <2>3. byHand' \subseteq Payrolls \X Employees \X {"short", "long"}
    BY <2>1, <2>2, LinkRows, TypeParts DEF LedgerInv, LinesTypeOK
  <2>4. LinesGood /\ LinesBecome(p, On(p))
    BY <1>0, <2>1, <2>3, SameSheet, LinesKept
  <2>5. ShortsGood /\ PaymentsGood
    BY <1>0, <2>1, <2>2, <2>4, AdvancesGood
  <2> QED BY <2>1, <2>4, <2>5, DedsKept, Parts
<1>2. CASE LinkDeductionsAndAdvances(p)
  BY <1>0, <1>2, SameSheet, LinkAllGood DEF LinkDeductionsAndAdvances
<1> QED BY <1>1, <1>2

LEMMA CalculateSingleGood ==
  ASSUME LedgerInv, NEW p \in Payrolls, NEW e \in Employees, NEW punched \in BOOLEAN,
         CalculateSingle(p, e, punched)
  PROVE  Good
<1>0. LinesTypeOK
  BY TypeParts DEF LedgerInv
<1>1. /\ Open(p) /\ excel' = excel /\ UNCHANGED <<manual, moved, departed>>
      /\ excluded' = [excluded EXCEPT ![p] = excluded[p] \ {e}]
      /\ excluded[p] \ {e} \in SUBSET Employees
  BY <1>0 DEF CalculateSingle, LinesTypeOK
<1>2. CASE punched
  <2> DEFINE L == On(p) \cup {e}
  <2>1. /\ lines' = lines \cup {<<p, e>>}
        /\ ApplyAdvances(p, L, {}) /\ deds' = LinkDeds(p, L, deds)
        /\ sheet' = [sheet EXCEPT ![p] = "calculated"]
    BY <1>2 DEF CalculateSingle
  <2>2. L \in SUBSET Employees /\ {} \in SUBSET Employees /\ On(p) \subseteq L
    BY DEF On
  <2>3. lines' = {l \in lines : l[1] # p} \cup ({p} \X L)
    BY <1>0, <2>1 DEF LinesTypeOK, Lines, On
  <2>4. \A x \in L : x \in On(p) \/ x \notin excluded[p] \ {e}
    OBVIOUS
  <2> HIDE DEF L
  <2>5. byHand' \subseteq Payrolls \X Employees \X {"short", "long"}
    BY <1>0, <2>1, <2>2, LinkRows DEF LinesTypeOK
  <2>6. manual' \subseteq lines' /\ moved' \subseteq lines' /\ excel' \subseteq Payrolls
    BY <1>0, <1>1, <2>1 DEF LinesTypeOK
  <2>7. LinesGood /\ LinesBecome(p, L)
    BY <1>1, <2>1, <2>2, <2>3, <2>4, <2>5, <2>6, LinesRebuilt DEF SheetStates
  <2>8. ShortsGood /\ PaymentsGood
    BY <1>1, <2>1, <2>2, <2>7, AdvancesGood
  <2>9. DedsGood
    BY <2>1, <2>2, <2>7, DedsLinked
  <2> QED BY <2>7, <2>8, <2>9, Parts
<1>3. CASE ~punched
  <2>1. UNCHANGED <<lines, byHand, longs, paid, shorts, deds, sheet>>
    BY <1>3 DEF CalculateSingle, totalVars, longVars
  <2>2. LinesTypeOK'
    BY <1>0, <1>1, <2>1 DEF LinesTypeOK
  <2>3. \A q \in Payrolls : On(q)' = On(q)
    BY <2>1 DEF On
  <2>4. LinesGood
    BY <2>1, <2>2, <2>3 DEF LinesGood, StaysOff
  <2> QED BY <2>1, <2>4, ShortsKept, DedsKept, PaymentsKept, Parts
<1> QED BY <1>2, <1>3

(* A calculation that fails half-way: linking that takes nothing. *)
LEMMA CalculateFailsGood ==
  ASSUME LedgerInv, NEW p \in Payrolls, CalculateFails(p)
  PROVE  Good
<1> DEFINE D == On(p) \ Kept(p)
           L == Kept(p)
           ss == Unpoint(RevertShorts(p), p, D)
           dd == Unpoint(RevertDeds(p), p, D)
<1>0. LinesTypeOK
  BY TypeParts DEF LedgerInv
<1>1. /\ Open(p) /\ sheet' = sheet /\ excel' = excel
      /\ lines' = lines \ ({p} \X D) /\ moved' = moved \ ({p} \X D)
      /\ shorts' = ss /\ deds' = dd
      /\ paid' = UnpointPaid(RevertPaid(p), p, D)
      /\ byHand' \subseteq byHand /\ UNCHANGED <<excluded, manual, departed>>
  BY DEF CalculateFails, sheetVars
<1>2. /\ L \in SUBSET Employees /\ D \in SUBSET Employees
      /\ L \subseteq On(p) /\ On(p) \subseteq L \cup D
  BY DEF Kept, On
<1>3. lines' = {l \in lines : l[1] # p} \cup ({p} \X L)
  BY <1>0, <1>1 DEF LinesTypeOK, Lines, On, Kept
<1>4. manual' \subseteq lines' /\ moved' \subseteq lines'
  BY <1>0, <1>1 DEF LinesTypeOK, Lines, On, Kept
<1>5. shorts' = LinkShorts(p, {}, ss)
  <2>1. ss = [s \in Shorts |-> ss[s]]
    BY DEF Unpoint, RevertShorts
  <2> HIDE DEF ss
  <2> QED BY <1>1, <2>1 DEF LinkShorts, TakesShort
<1>6. deds' = LinkDeds(p, {}, dd)
  <2>1. dd = [d \in Deds |-> dd[d]]
    BY DEF Unpoint, RevertDeds
  <2> HIDE DEF dd
  <2> QED BY <1>1, <2>1 DEF LinkDeds
<1> HIDE DEF L, D
<1>7. LinesGood /\ LinesBecome(p, L)
  <2>1. excluded' = [excluded EXCEPT ![p] = excluded[p]] /\ excluded[p] \in SUBSET Employees
    BY <1>0, <1>1 DEF LinesTypeOK
  <2>2. /\ byHand' \subseteq Payrolls \X Employees \X {"short", "long"}
        /\ excel' \subseteq Payrolls
    BY <1>0, <1>1 DEF LinesTypeOK
  <2> QED BY <1>1, <1>2, <1>3, <1>4, <2>1, <2>2, SameSheet, LinesRebuilt
<1>8. ShortsGood
  BY <1>1, <1>2, <1>5, <1>7, ShortsLinked
<1>9. DedsGood
  BY <1>1, <1>2, <1>6, <1>7, DedsLinked
<1>10. PaymentsGood
  <2> DEFINE pd == UnpointPaid(RevertPaid(p), p, D)
  <2>1. paid' = LinkPaid(p, {}, longs, pd)
    <3>1. pd = [a \in Longs |-> pd[a]]
      BY DEF UnpointPaid
    <3> HIDE DEF pd
    <3>2. paid' = pd
      BY <1>1 DEF pd
    <3> QED BY <3>1, <3>2 DEF LinkPaid
  <2> QED BY <1>1, <1>2, <2>1, PaymentsLinked
<1> QED BY <1>7, <1>8, <1>9, <1>10, Parts

LEMMA DeductionsOnlyGood ==
  ASSUME LedgerInv, NEW p \in Payrolls, LinkDeductionsOnly(p)
  PROVE  Good
<1>1. /\ deds' = LinkDeds(p, On(p), deds) /\ UNCHANGED <<sheet, excel>>
      /\ UNCHANGED <<lineVars, departed>> /\ UNCHANGED <<lines, byHand, shorts, paid>>
  BY DEF LinkDeductionsOnly, sheetVars, lineVars, totalVars, longVars
<1>2. LinesGood /\ LinesBecome(p, On(p))
  <2>1. /\ byHand' \subseteq Payrolls \X Employees \X {"short", "long"}
        /\ excel' \subseteq Payrolls
    BY <1>1, TypeParts DEF LedgerInv, LinesTypeOK
  <2> QED BY <1>1, <2>1, SameSheet, LinesKept
<1>3. DedsGood
  BY <1>1, <1>2, DedsLinked DEF On
<1> QED BY <1>1, <1>2, <1>3, ShortsKept, PaymentsKept, Parts

LEMMA LongOnlyGood ==
  ASSUME LedgerInv, NEW p \in Payrolls, LinkLongOnly(p)
  PROVE  Good
<1> DEFINE taken == {a \in Longs : TakesLongOnly(p, a)}
<1>1. /\ Open(p) /\ paid' = LinkPaid(p, taken, longs, paid) /\ UNCHANGED <<sheet, excel>>
      /\ byHand' \subseteq byHand
      /\ UNCHANGED <<lineVars, departed>> /\ UNCHANGED <<lines, shorts, deds>>
  BY DEF LinkLongOnly, sheetVars, lineVars
<1>2. taken \in SUBSET Longs
  OBVIOUS
<1> HIDE DEF taken
<1>3. LinesGood
  <2>1. /\ byHand' \subseteq Payrolls \X Employees \X {"short", "long"}
        /\ excel' \subseteq Payrolls
    BY <1>1, TypeParts DEF LedgerInv, LinesTypeOK
  <2> QED BY <1>1, <2>1, SameSheet, LinesKept
<1>4. PaymentsGood
  <2>1. {} \in SUBSET Employees
    OBVIOUS
  <2> QED BY <1>1, <1>2, <2>1, PaymentsLinked
<1> QED BY <1>1, <1>3, <1>4, ShortsKept, DedsKept, Parts

LEMMA SheetStateGood ==
  ASSUME LedgerInv, NEW p \in Payrolls, CreatePayroll(p) \/ BackToDraft(p)
  PROVE  Good
<1>1. /\ sheet' = [sheet EXCEPT ![p] = "draft"] /\ sheet[p] # "confirmed"
      /\ UNCHANGED <<lineVars, departed>>
      /\ UNCHANGED <<excel, lines, byHand, shorts, deds, paid>>
  BY DEF CreatePayroll, BackToDraft, lineVars, totalVars, longVars
<1>2. LinesGood
  <2>1. /\ byHand' \subseteq Payrolls \X Employees \X {"short", "long"}
        /\ excel' \subseteq Payrolls
    BY <1>1, TypeParts DEF LedgerInv, LinesTypeOK
  <2> QED BY <1>1, <2>1, LinesKept DEF SheetStates
<1> QED BY <1>1, <1>2, ShortsKept, DedsKept, PaymentsKept, Parts

(* Confirming deducts the short advances of the sheet, and no other. *)
LEMMA ConfirmGood ==
  ASSUME LedgerInv, NEW p \in Payrolls, ConfirmPayroll(p)
  PROVE  Good
<1>1. /\ sheet' = [sheet EXCEPT ![p] = "confirmed"]
      /\ UNCHANGED <<lineVars, departed>>
      /\ UNCHANGED <<excel, lines, byHand, deds, paid>>
  BY DEF ConfirmPayroll, lineVars, totalVars, longVars
<1>2. LinesGood
  <2>1. /\ byHand' \subseteq Payrolls \X Employees \X {"short", "long"}
        /\ excel' \subseteq Payrolls
    BY <1>1, TypeParts DEF LedgerInv, LinesTypeOK
  <2> QED BY <1>1, <2>1, LinesKept DEF SheetStates
<1>3. ShortsGood
  <2>0. shorts \in [Shorts -> ShortRows] /\ sheet \in [Payrolls -> SheetStates]
    BY TypeParts DEF LedgerInv, LinesTypeOK
  <2>1. ASSUME NEW s \in Shorts, Settles(p, s)
        PROVE  /\ shorts'[s] \in ShortRows
               /\ shorts'[s].state = "applied" /\ shorts'[s].deducted
               /\ shorts'[s].payroll = p /\ shorts'[s].line = p
               /\ shorts[s].payroll = p /\ shorts[s].line = p
    <3>1. shorts[s] \in ShortRows /\ shorts[s].payroll = p /\ shorts[s].line = p
      BY <2>0, <2>1 DEF Settles
    <3>2. shorts'[s] = [shorts[s] EXCEPT !.deducted = TRUE, !.state = "applied"]
      BY <2>1 DEF ConfirmPayroll
    <3> QED BY <3>1, <3>2 DEF ShortRows, ShortStates
  <2>2. ASSUME NEW s \in Shorts, ~Settles(p, s) PROVE shorts'[s] = shorts[s]
    BY <2>2 DEF ConfirmPayroll
  <2>3. shorts' \in [Shorts -> ShortRows]
    <3>1. shorts' = [s \in Shorts |-> shorts'[s]]
      BY DEF ConfirmPayroll
    <3>2. \A s \in Shorts : shorts'[s] \in ShortRows
      BY <2>0, <2>1, <2>2
    <3> QED BY <3>1, <3>2
  <2>4. ReservedIffOnSheet'
    BY <1>1, <2>1, <2>2, LedgerAssumption DEF LedgerInv, ReservedIffOnSheet
  <2>5. DeductedOnFinalSheet'
    BY <1>1, <2>0, <2>1, <2>2, LedgerAssumption
    DEF LedgerInv, DeductedOnFinalSheet, ShortRows, Keys
  <2>6. \A q \in Payrolls : KeepsShorts(q)
    BY <2>1, <2>2 DEF KeepsShorts
  <2> QED BY <2>3, <2>4, <2>5, <2>6 DEF ShortsGood
<1> QED BY <1>1, <1>2, <1>3, DedsKept, PaymentsKept, Parts

(* Every step of a sheet is good. *)
LEMMA SheetStepGood ==
  ASSUME LedgerInv, NEW p \in Payrolls, SheetStep(p)
  PROVE  Good
  BY CalculateGood, ImportRebuildGood, CalculateFailsGood, CalculateSingleGood,
     LinkHandlersGood, DeductionsOnlyGood, LongOnlyGood, SheetStateGood, ConfirmGood
  DEF SheetStep
-----------------------------------------------------------------------------
(* The handlers of single lines. *)

(* The line of e on p goes, to sheet k or for good: its rows follow.       *)
Repoint(rows, p, e, k) ==
  [r \in DOMAIN rows |->
     IF Owner[r] = e /\ rows[r].line = p THEN [rows[r] EXCEPT !.line = k] ELSE rows[r]]

LineGoes(p, e, k) ==
  /\ sheet' = sheet /\ sheet[p] # "confirmed"
  /\ k \in Keys /\ k # p /\ (k # None => <<k, e>> \in lines')
  /\ \A q \in Payrolls, x \in Employees :
       <<q, x>> \in lines /\ (q # p \/ x # e) => <<q, x>> \in lines'

LEMMA ShortsRepointed ==
  ASSUME LedgerInv, NEW p \in Payrolls, NEW e \in Employees, NEW k, LineGoes(p, e, k),
         shorts' = Repoint(shorts, p, e, k)
  PROVE  ShortsGood
<1>0. shorts \in [Shorts -> ShortRows] /\ shorts' = Repoint(shorts, p, e, k)
  BY TypeParts DEF LedgerInv
<1>1. ASSUME NEW s \in Shorts, Owner[s] = e, shorts[s].line = p
      PROVE  /\ shorts'[s] = [shorts[s] EXCEPT !.line = k]
             /\ ~shorts[s].deducted
  BY <1>0, <1>1 DEF Repoint, LineGoes, LedgerInv, DeductedOnFinalSheet
<1>2. ASSUME NEW s \in Shorts, ~(Owner[s] = e /\ shorts[s].line = p)
      PROVE  shorts'[s] = shorts[s]
  BY <1>0, <1>2 DEF Repoint
<1>3. ASSUME NEW s \in Shorts
      PROVE  /\ shorts'[s] \in ShortRows
             /\ shorts'[s].state = shorts[s].state
             /\ shorts'[s].payroll = shorts[s].payroll
             /\ shorts'[s].deducted = shorts[s].deducted
             /\ shorts'[s].line \in {k, shorts[s].line}
             /\ shorts'[s].line = shorts[s].line \/ (shorts'[s].line = k /\ Owner[s] = e)
             /\ shorts'[s].line = p => Owner[s] # e
             /\ shorts[s].line # p => shorts'[s] = shorts[s]
             /\ shorts[s].deducted => shorts'[s] = shorts[s]
  <2>1. shorts[s] \in ShortRows
    BY <1>0
  <2>2. CASE Owner[s] = e /\ shorts[s].line = p
    <3>1. shorts'[s] = [shorts[s] EXCEPT !.line = k] /\ ~shorts[s].deducted
      BY <1>1, <2>2
    <3> QED BY <2>1, <2>2, <3>1, PointShort DEF LineGoes
  <2>3. CASE ~(Owner[s] = e /\ shorts[s].line = p)
    BY <1>2, <2>1, <2>3
  <2> QED BY <2>2, <2>3
<1>4. shorts' \in [Shorts -> ShortRows]
  <2>1. shorts' = [s \in Shorts |-> shorts'[s]]
    BY <1>0 DEF Repoint
  <2> QED BY <1>3, <2>1
<1>5. ReservedIffOnSheet'
  <2>1. \A s \in Shorts : Owner[s] \in Employees /\ shorts'[s].line \in Keys
    BY <1>4, LedgerAssumption DEF Rows, ShortRows
  <2>2. ASSUME NEW s \in Shorts, shorts'[s].line # None
        PROVE  shorts'[s].payroll # None /\ <<shorts'[s].line, Owner[s]>> \in lines'
    <3>1. CASE shorts'[s] = shorts[s] \/ shorts'[s].line = shorts[s].line
      <4>1. shorts[s].payroll # None /\ <<shorts[s].line, Owner[s]>> \in lines
        BY <2>2, <3>1 DEF LedgerInv, ReservedIffOnSheet
      <4>2. shorts'[s].line = shorts[s].line /\ shorts[s].line \in Payrolls
        BY <2>1, <2>2, <3>1 DEF Keys
      <4>3. shorts[s].line # p \/ Owner[s] # e
        BY <1>3, <4>2
      <4> QED BY <1>3, <2>1, <4>1, <4>2, <4>3 DEF LineGoes
    <3>2. CASE shorts[s].line = p /\ shorts'[s].line = k /\ Owner[s] = e
      <4>1. shorts[s].payroll # None
        BY <3>2, LedgerAssumption DEF LedgerInv, ReservedIffOnSheet
      <4> QED BY <1>3, <2>2, <3>2, <4>1 DEF LineGoes
    <3> QED BY <1>3, <3>1, <3>2
  <2>3. ASSUME NEW s \in Shorts
        PROVE  shorts'[s].state = "applied" <=> shorts'[s].payroll # None
    <3>1. shorts[s].state = "applied" <=> shorts[s].payroll # None
      BY DEF LedgerInv, ReservedIffOnSheet
    <3>2. shorts'[s].state = shorts[s].state /\ shorts'[s].payroll = shorts[s].payroll
      BY <1>3
    <3> QED BY <3>1, <3>2
  <2> QED BY <2>2, <2>3 DEF ReservedIffOnSheet
<1>6. DeductedOnFinalSheet'
  <2>1. \A s \in Shorts : shorts'[s].deducted => shorts'[s] = shorts[s] /\ shorts[s].deducted
    BY <1>3
  <2>2. sheet' = sheet /\ DeductedOnFinalSheet
    BY DEF LedgerInv, LineGoes
  <2> QED BY <2>1, <2>2 DEF DeductedOnFinalSheet
<1>7. \A q \in Payrolls : sheet[q] = "confirmed" => KeepsShorts(q)
  BY <1>3 DEF LineGoes, KeepsShorts
<1> QED BY <1>4, <1>5, <1>6, <1>7 DEF ShortsGood

LEMMA DedsRepointed ==
  ASSUME LedgerInv, NEW p \in Payrolls, NEW e \in Employees, NEW k, LineGoes(p, e, k),
         deds' = Repoint(deds, p, e, k)
  PROVE  DedsGood
<1>0. deds \in [Deds -> DedRows] /\ deds' = Repoint(deds, p, e, k)
  BY TypeParts DEF LedgerInv
<1>1. ASSUME NEW d \in Deds, Owner[d] = e, deds[d].line = p
      PROVE  deds'[d] = [deds[d] EXCEPT !.line = k]
  BY <1>0, <1>1 DEF Repoint
<1>2. ASSUME NEW d \in Deds, ~(Owner[d] = e /\ deds[d].line = p)
      PROVE  deds'[d] = deds[d]
  BY <1>0, <1>2 DEF Repoint
<1>3. ASSUME NEW d \in Deds
      PROVE  /\ deds'[d] \in DedRows
             /\ deds'[d].state = deds[d].state
             /\ deds'[d].payroll = deds[d].payroll
             /\ deds'[d].line \in {k, deds[d].line}
             /\ deds'[d].line = deds[d].line \/ (deds'[d].line = k /\ Owner[d] = e)
             /\ deds'[d].line = p => Owner[d] # e
             /\ deds[d].line # p => deds'[d] = deds[d]
  <2>1. deds[d] \in DedRows
    BY <1>0
  <2>2. CASE Owner[d] = e /\ deds[d].line = p
    <3>1. deds'[d] = [deds[d] EXCEPT !.line = k]
      BY <1>1, <2>2
    <3> QED BY <2>1, <2>2, <3>1, PointDed DEF LineGoes
  <2>3. CASE ~(Owner[d] = e /\ deds[d].line = p)
    BY <1>2, <2>1, <2>3
  <2> QED BY <2>2, <2>3
<1>4. deds' \in [Deds -> DedRows]
  <2>1. deds' = [d \in Deds |-> deds'[d]]
    BY <1>0 DEF Repoint
  <2> QED BY <1>3, <2>1
<1>5. DeductionsConsistent'
  <2>1. \A d \in Deds : Owner[d] \in Employees /\ deds'[d].line \in Keys
    BY <1>4, LedgerAssumption DEF Rows, DedRows
  <2>2. ASSUME NEW d \in Deds, deds'[d].line # None
        PROVE  deds'[d].payroll # None /\ <<deds'[d].line, Owner[d]>> \in lines'
    <3>1. CASE deds'[d] = deds[d] \/ deds'[d].line = deds[d].line
      <4>1. deds[d].payroll # None /\ <<deds[d].line, Owner[d]>> \in lines
        BY <2>2, <3>1 DEF LedgerInv, DeductionsConsistent
      <4>2. deds'[d].line = deds[d].line /\ deds[d].line \in Payrolls
        BY <2>1, <2>2, <3>1 DEF Keys
      <4>3. deds[d].line # p \/ Owner[d] # e
        BY <1>3, <4>2
      <4> QED BY <1>3, <2>1, <4>1, <4>2, <4>3 DEF LineGoes
    <3>2. CASE deds[d].line = p /\ deds'[d].line = k /\ Owner[d] = e
      <4>1. deds[d].payroll # None
        BY <3>2, LedgerAssumption DEF LedgerInv, DeductionsConsistent
      <4> QED BY <1>3, <2>2, <3>2, <4>1 DEF LineGoes
    <3> QED BY <1>3, <3>1, <3>2
  <2> QED BY <1>3, <2>2 DEF LedgerInv, DeductionsConsistent
<1>6. \A q \in Payrolls : sheet[q] = "confirmed" => KeepsDeds(q)
  BY <1>3 DEF LineGoes, KeepsDeds
<1> QED BY <1>4, <1>5, <1>6 DEF DedsGood

(* Only payments booked on lines of p change. *)
LEMMA PaymentsTouched ==
  ASSUME LedgerInv, NEW p \in Payrolls, sheet[p] # "confirmed",
         paid' = [a \in Longs |-> [x \in Payrolls |-> paid'[a][x]]],
         \A a \in Longs, x \in Payrolls :
           paid[a][x].line # p => paid'[a][x] = paid[a][x]
  PROVE  PaymentsGood
<1>1. NoPayment.line # p
  BY LedgerAssumption DEF NoPayment
<1> QED BY <1>1 DEF PaymentsGood, PaidShape, KeepsLongs

LEMMA DeleteLineGood ==
  ASSUME LedgerInv, NEW p \in Payrolls, NEW e \in Employees, DeleteLine(p, e)
  PROVE  Good
<1>0. LinesTypeOK
  BY TypeParts DEF LedgerInv
<1>1. /\ sheet[p] # "confirmed" /\ UNCHANGED <<sheet, excel, departed>>
      /\ lines' = lines \ {<<p, e>>} /\ manual' = manual \ {<<p, e>>}
      /\ moved' = moved \ {<<p, e>>} /\ byHand' \subseteq byHand
      /\ excluded' = [excluded EXCEPT ![p] = excluded[p] \cup {e}]
  BY DEF DeleteLine, sheetVars
<1>2. /\ shorts' = Repoint(shorts, p, e, None) /\ deds' = Repoint(deds, p, e, None)
      /\ paid' = UnpointPaid(paid, p, {e})
  BY DEF DeleteLine, Unpoint, Repoint
<1>3. LinesGood
  <2>1. LinesTypeOK'
    BY <1>0, <1>1 DEF LinesTypeOK
  <2>2. \A q \in Payrolls : /\ q # p => On(q)' = On(q)
                            /\ On(q)' \subseteq On(q)
    BY <1>1 DEF On
  <2> QED BY <1>1, <2>1, <2>2 DEF LinesGood, StaysOff
<1>4. LineGoes(p, e, None)
  BY <1>1, LedgerAssumption DEF LineGoes, Keys
<1>5. PaymentsGood
  <2>1. /\ paid' = [a \in Longs |-> [x \in Payrolls |-> paid'[a][x]]]
        /\ \A a \in Longs, x \in Payrolls : paid[a][x].line # p => paid'[a][x] = paid[a][x]
    BY <1>2 DEF UnpointPaid
  <2> QED BY <1>1, <2>1, PaymentsTouched
<1> QED BY <1>2, <1>3, <1>4, <1>5, ShortsRepointed, DedsRepointed, Parts

LEMMA MoveLineGood ==
  ASSUME LedgerInv, NEW p \in Payrolls, NEW q \in Payrolls, NEW e \in Employees,
         MoveLine(p, q, e)
  PROVE  Good
<1>0. LinesTypeOK
  BY TypeParts DEF LedgerInv
<1>1. /\ <<p, e>> \in lines /\ <<q, e>> \notin lines /\ Open(p) /\ Open(q) /\ p # q
      /\ lines' = (lines \ {<<p, e>>}) \cup {<<q, e>>}
      /\ manual' \subseteq (manual \ {<<p, e>>}) \cup {<<q, e>>}
      /\ moved' = (moved \ {<<p, e>>}) \cup {<<q, e>>}
      /\ byHand' \subseteq byHand \cup {<<q, e, x>> : x \in {"short", "long"}}
      /\ UNCHANGED <<sheet, excel, excluded, departed>>
  BY DEF MoveLine, MoveKey, sheetVars
<1>2. /\ shorts' = Repoint(shorts, p, e, q) /\ deds' = Repoint(deds, p, e, q)
      /\ paid' = [a \in Longs |-> [x \in Payrolls |->
           IF Owner[a] = e /\ paid[a][x].line = p
           THEN [paid[a][x] EXCEPT !.line = q] ELSE paid[a][x]]]
  BY DEF MoveLine, Follow, Repoint
<1>3. LinesGood
  <2>1. LinesTypeOK'
    BY <1>0, <1>1 DEF LinesTypeOK, Lines
  <2>2. /\ \A x \in Payrolls : x \notin {p, q} => On(x)' = On(x)
        /\ On(p)' \subseteq On(p) /\ On(q)' = On(q) \cup {e}
        /\ e \in On(p) /\ e \notin On(p)'
    BY <1>1 DEF On
  <2>3. \A x \in Payrolls, y \in Employees : StaysOff(x, y)
    BY <2>2 DEF StaysOff
  <2> QED BY <1>1, <2>1, <2>2, <2>3 DEF LinesGood, Open
<1>4. LineGoes(p, e, q)
  BY <1>1 DEF LineGoes, Keys, Open
<1>5. PaymentsGood
  <2>1. /\ paid' = [a \in Longs |-> [x \in Payrolls |-> paid'[a][x]]]
        /\ \A a \in Longs, x \in Payrolls : paid[a][x].line # p => paid'[a][x] = paid[a][x]
    BY <1>2
  <2> QED BY <1>1, <2>1, PaymentsTouched DEF Open
<1> QED BY <1>2, <1>3, <1>4, <1>5, ShortsRepointed, DedsRepointed, Parts

LEMMA UpdateLineGood ==
  ASSUME LedgerInv, NEW p \in Payrolls, NEW e \in Employees,
         NEW kind \in HandKinds, NEW n \in HandTotals, UpdateLine(p, e, kind, n)
  PROVE  Good
<1>0. LinesTypeOK
  BY TypeParts DEF LedgerInv
<1>1. /\ byHand' = byHand \cup {<<p, e, kind>>} /\ UNCHANGED <<sheet, excel>>
      /\ UNCHANGED <<lineVars, departed>> /\ UNCHANGED <<lines, shorts, deds, paid>>
  BY DEF UpdateLine, sheetVars, lineVars, longVars
<1>2. LinesGood
  <2>1. /\ byHand' \subseteq Payrolls \X Employees \X {"short", "long"}
        /\ excel' \subseteq Payrolls
    BY <1>0, <1>1, LedgerAssumption DEF LinesTypeOK
  <2> QED BY <1>1, <2>1, SameSheet, LinesKept
<1> QED BY <1>1, <1>2, ShortsKept, DedsKept, PaymentsKept, Parts

(* The deductions a payroll import links and unlinks, where dd is what the *)
(* deletion of lines left of them.                                         *)
LEMMA DedsSynced ==
  ASSUME LedgerInv, NEW p \in Payrolls, Open(p), NEW F \in SUBSET Employees,
         LinesBecome(p, F), NEW dd, NEW touched,
         \A d \in Deds :
           /\ dd[d] \in DedRows
           /\ dd[d].payroll # None => dd[d].state = "linked"
           /\ dd[d].line # None => /\ dd[d].payroll # None
                                   /\ dd[d].line # p => <<dd[d].line, Owner[d]>> \in lines
                                   /\ dd[d].line = p => Owner[d] \in F
           /\ deds[d].line # p => dd[d] = deds[d],
         deds' = SyncDeds(p, F, dd, touched)
  PROVE  DedsGood
<1>1. ASSUME NEW d \in Deds
      PROVE  \/ deds'[d] = dd[d]
             \/ /\ deds'[d] = [state |-> "draft", payroll |-> None, line |-> None]
                /\ dd[d].line = p
             \/ /\ deds'[d] = [state |-> "linked", payroll |-> p, line |-> p]
                /\ Owner[d] \in F /\ dd[d].payroll = None
  BY DEF SyncDeds
<1>2. deds' \in [Deds -> DedRows]
  <2>1. deds' = [d \in Deds |-> deds'[d]]
    BY DEF SyncDeds
  <2>2. /\ [state |-> "draft", payroll |-> None, line |-> None] \in DedRows
        /\ [state |-> "linked", payroll |-> p, line |-> p] \in DedRows
    BY DEF DedRows, Keys
  <2>3. \A d \in Deds : deds'[d] \in DedRows
    BY <1>1, <2>2
  <2> QED BY <2>1, <2>3
<1>3. DeductionsConsistent'
  <2>1. \A d \in Deds : Owner[d] \in Employees /\ deds'[d].line \in Keys
    BY <1>2, LedgerAssumption DEF Rows, DedRows
  <2> SUFFICES ASSUME NEW d \in Deds
               PROVE  /\ deds'[d].payroll # None => deds'[d].state = "linked"
                      /\ deds'[d].line # None => /\ deds'[d].payroll # None
                                                 /\ <<deds'[d].line, Owner[d]>> \in lines'
    BY DEF DeductionsConsistent
  <2>2. CASE deds'[d] = dd[d]
    BY <2>1, <2>2 DEF LinesBecome, Keys
  <2>3. CASE deds'[d] = [state |-> "draft", payroll |-> None, line |-> None]
    BY <2>3
  <2>4. CASE deds'[d] = [state |-> "linked", payroll |-> p, line |-> p] /\ Owner[d] \in F
    BY <2>1, <2>4, LedgerAssumption DEF LinesBecome
  <2> QED BY <1>1, <2>2, <2>3, <2>4
<1>4. ASSUME NEW q \in Payrolls, sheet[q] = "confirmed" PROVE KeepsDeds(q)
  <2> SUFFICES ASSUME NEW d \in Deds, deds[d].payroll = q, deds[d].line = q
               PROVE  deds'[d] = deds[d]
    BY DEF KeepsDeds
  <2>1. q # p /\ q # None
    BY <1>4, LedgerAssumption DEF Open
  <2>2. dd[d] = deds[d]
    BY <2>1
  <2> QED BY <1>1, <2>1, <2>2
<1> QED BY <1>2, <1>3, <1>4 DEF DedsGood

LEMMA ImportGood ==
  ASSUME LedgerInv, NEW p \in Payrolls, NEW F \in SUBSET Employees,
         NEW fig, NEW M \in SUBSET F, NEW touched \in SUBSET Deds,
         ImportPayroll(p, F, fig, M, touched)
  PROVE  Good
<1> DEFINE dropped == On(p) \ F
           dd == [d \in Deds |->
                    IF Owner[d] \in dropped /\ deds[d].line = p
                    THEN [deds[d] EXCEPT !.payroll = None, !.line = None]
                    ELSE deds[d]]
<1>0. /\ LinesTypeOK /\ shorts \in [Shorts -> ShortRows] /\ deds \in [Deds -> DedRows]
      /\ None \in Keys /\ None \notin Payrolls /\ \A r \in Rows : Owner[r] \in Employees
  BY TypeParts, LedgerAssumption DEF LedgerInv, Keys
<1>1. /\ Open(p) /\ lines' = {l \in lines : l[1] # p} \cup ({p} \X F)
      /\ \E C \in SUBSET F : manual' = (manual \ ({p} \X dropped)) \cup ({p} \X C)
      /\ moved' = moved \ ({p} \X dropped)
      /\ byHand' \subseteq byHand \cup ({p} \X F \X {"short", "long"})
      /\ excluded' = [excluded EXCEPT ![p] = (excluded[p] \cup dropped) \ F]
      /\ excel' = excel \cup {p} /\ UNCHANGED <<sheet, departed>>
  <2>1. \E C \in SUBSET F : manual' = (manual \ ({p} \X dropped)) \cup ({p} \X C)
    <3> DEFINE short(e) == Figure(fig[e].short, shortTotal[<<p, e>>])
               long(e) == Figure(fig[e].long, longTotal[<<p, e>>])
               changed == {e \in F : \/ short(e) # shortTotal[<<p, e>>]
                                     \/ long(e) # longTotal[<<p, e>>]}
               C == M \cup changed \cup (F \ On(p))
    <3>1. manual' = (manual \ ({p} \X dropped)) \cup ({p} \X C)
      BY DEF ImportPayroll
    <3>2. C \in SUBSET F
      OBVIOUS
    <3> HIDE DEF C
    <3> QED BY <3>1, <3>2
  <2>2. byHand' \subseteq byHand \cup ({p} \X F \X {"short", "long"})
    <3> DEFINE typed(kind) == {f \in F : IF kind = "short" THEN fig[f].short # None
                                                         ELSE fig[f].long # None}
    <3>1. byHand' = {h \in byHand : h[1] # p \/ h[2] \in F}
                    \cup {<<p, e, "short">> : e \in typed("short")}
                    \cup {<<p, e, "long">> : e \in typed("long")}
      BY DEF ImportPayroll
    <3>2. typed("short") \subseteq F /\ typed("long") \subseteq F
      OBVIOUS
    <3> HIDE DEF typed
    <3> QED BY <3>1, <3>2
  <2> QED BY <2>1, <2>2 DEF ImportPayroll
<1>2. dropped \in SUBSET Employees /\ On(p) \subseteq F \cup dropped
  BY DEF On
<1>3. LinesGood /\ LinesBecome(p, F)
  <2>1. manual' \subseteq lines' /\ moved' \subseteq lines'
    BY <1>0, <1>1 DEF LinesTypeOK, Lines, On
  <2>2. byHand' \subseteq Payrolls \X Employees \X {"short", "long"}
    BY <1>0, <1>1 DEF LinesTypeOK
  <2>3. (excluded[p] \cup dropped) \ F \in SUBSET Employees /\ excel' \subseteq Payrolls
    BY <1>0, <1>1, <1>2 DEF LinesTypeOK
  <2>4. \A e \in F : e \notin (excluded[p] \cup dropped) \ F
    OBVIOUS
  <2> HIDE DEF dropped
  <2> QED BY <1>1, <2>1, <2>2, <2>3, <2>4, SameSheet, LinesRebuilt
<1>4. ShortsGood
  <2>1. ASSUME NEW s \in Shorts, Owner[s] \in dropped, shorts[s].line = p
        PROVE  /\ shorts'[s] \in ShortRows /\ shorts'[s].state = "pending"
               /\ shorts'[s].payroll = None /\ shorts'[s].line = None
               /\ ~shorts'[s].deducted
    <3>1. shorts'[s] = [shorts[s] EXCEPT !.state = "pending", !.payroll = None, !.line = None]
      BY <2>1 DEF ImportPayroll
    <3>2. ~shorts[s].deducted
      BY <1>1, <2>1 DEF Open, LedgerInv, DeductedOnFinalSheet
    <3>3. shorts[s] \in ShortRows /\ None \in Keys
      BY <1>0
    <3> QED BY <3>1, <3>2, <3>3 DEF ShortRows, ShortStates
  <2>2. ASSUME NEW s \in Shorts, ~(Owner[s] \in dropped /\ shorts[s].line = p)
        PROVE  shorts'[s] = shorts[s]
    BY <2>2 DEF ImportPayroll
  <2>3. shorts' \in [Shorts -> ShortRows]
    <3>1. shorts' = [s \in Shorts |-> shorts'[s]]
      BY DEF ImportPayroll
    <3>2. \A s \in Shorts : shorts'[s] \in ShortRows
      BY <1>0, <2>1, <2>2
    <3> QED BY <3>1, <3>2
  <2>4. ASSUME NEW s \in Shorts, shorts[s].line # None, ~(Owner[s] \in dropped /\ shorts[s].line = p)
        PROVE  shorts[s].payroll # None /\ <<shorts[s].line, Owner[s]>> \in lines'
    <3>1. /\ Owner[s] \in Employees /\ shorts[s].line \in Payrolls
          /\ shorts[s].payroll # None /\ <<shorts[s].line, Owner[s]>> \in lines
      BY <1>0, <2>4 DEF Rows, ShortRows, Keys, LedgerInv, ReservedIffOnSheet
    <3> QED BY <1>3, <2>4, <3>1 DEF LinesBecome, On
  <2>5. ReservedIffOnSheet'
    BY <2>1, <2>2, <2>4 DEF LedgerInv, ReservedIffOnSheet
  <2>6. DeductedOnFinalSheet'
    BY <1>1, <2>1, <2>2 DEF LedgerInv, DeductedOnFinalSheet
  <2>7. ASSUME NEW q \in Payrolls, sheet[q] = "confirmed" PROVE KeepsShorts(q)
    <3>1. q # p /\ q # None
      BY <1>0, <1>1, <2>7 DEF Open
    <3> QED BY <2>1, <2>2, <3>1 DEF KeepsShorts
  <2> QED BY <2>3, <2>5, <2>6, <2>7 DEF ShortsGood
<1>5. DedsGood
  <2>1. ASSUME NEW d \in Deds
        PROVE  /\ dd[d] \in DedRows
               /\ dd[d].payroll # None => dd[d].state = "linked"
               /\ dd[d].line # None => /\ dd[d].payroll # None
                                       /\ dd[d].line # p => <<dd[d].line, Owner[d]>> \in lines
                                       /\ dd[d].line = p => Owner[d] \in F
               /\ deds[d].line # p => dd[d] = deds[d]
    <3>1. deds[d] \in DedRows /\ Owner[d] \in Employees
      BY <1>0 DEF Rows
    <3>2. CASE Owner[d] \in dropped /\ deds[d].line = p
      <4>1. dd[d] = [deds[d] EXCEPT !.payroll = None, !.line = None]
        BY <3>2
      <4> HIDE DEF dd
      <4> QED BY <1>0, <3>1, <3>2, <4>1 DEF DedRows
    <3>3. CASE ~(Owner[d] \in dropped /\ deds[d].line = p)
      <4>1. dd[d] = deds[d]
        BY <3>3
      <4>2. /\ deds[d].payroll # None => deds[d].state = "linked"
            /\ deds[d].line # None => /\ deds[d].payroll # None
                                      /\ <<deds[d].line, Owner[d]>> \in lines
        BY DEF LedgerInv, DeductionsConsistent
      <4>3. deds[d].line = p => Owner[d] \in F
        BY <1>0, <3>1, <3>3, <4>2 DEF On
      <4> HIDE DEF dd, dropped
      <4> QED BY <3>1, <4>1, <4>2, <4>3
    <3> HIDE DEF dd, dropped
    <3> QED BY <3>2, <3>3
  <2>2. deds' = SyncDeds(p, F, dd, touched)
    BY DEF ImportPayroll
  <2> HIDE DEF dd, dropped
  <2> QED BY <1>1, <1>3, <2>1, <2>2, DedsSynced
<1>6. PaymentsGood
  <2>1. /\ paid' = [a \in Longs |-> [x \in Payrolls |-> paid'[a][x]]]
        /\ \A a \in Longs, x \in Payrolls : paid[a][x].line # p => paid'[a][x] = paid[a][x]
    BY DEF ImportPayroll
  <2> QED BY <1>1, <2>1, PaymentsTouched DEF Open
<1> QED BY <1>3, <1>4, <1>5, <1>6, Parts

LEMMA ImportBlankGood ==
  ASSUME LedgerInv, NEW p \in Payrolls, NEW touched \in SUBSET Deds,
         ImportBlank(p, touched)
  PROVE  Good
<1>1. /\ Open(p) /\ deds' = SyncDeds(p, On(p), deds, touched)
      /\ excel' = excel \cup {p} /\ UNCHANGED sheet
      /\ UNCHANGED <<lineVars, departed>> /\ UNCHANGED <<lines, byHand, shorts, paid>>
  BY DEF ImportBlank, lineVars, totalVars, longVars
<1>2. LinesGood /\ LinesBecome(p, On(p))
  <2>1. /\ byHand' \subseteq Payrolls \X Employees \X {"short", "long"}
        /\ excel' \subseteq Payrolls
    BY <1>1, TypeParts DEF LedgerInv, LinesTypeOK
  <2> QED BY <1>1, <2>1, SameSheet, LinesKept
<1>3. DedsGood
  <2>1. \A d \in Deds :
          /\ deds[d] \in DedRows
          /\ deds[d].payroll # None => deds[d].state = "linked"
          /\ deds[d].line # None => /\ deds[d].payroll # None
                                    /\ <<deds[d].line, Owner[d]>> \in lines
    BY TypeParts DEF LedgerInv, DeductionsConsistent
  <2>2. \A d \in Deds : deds[d].line = p => Owner[d] \in On(p)
    BY <2>1, LedgerAssumption DEF On, Rows
  <2>3. On(p) \in SUBSET Employees
    BY DEF On
  <2> QED BY <1>1, <1>2, <2>1, <2>2, <2>3, DedsSynced
<1> QED BY <1>1, <1>2, <1>3, ShortsKept, PaymentsKept, Parts

LEMMA LineStepGood ==
  ASSUME LedgerInv, NEW p \in Payrolls, LineStep(p)
  PROVE  Good
<1>1. ASSUME NEW e \in Employees, DeleteLine(p, e) PROVE Good
  BY <1>1, DeleteLineGood
<1>2. ASSUME NEW e \in Employees, NEW q \in Payrolls, MoveLine(p, q, e) PROVE Good
  BY <1>2, MoveLineGood
<1>3. ASSUME NEW e \in Employees, NEW kind \in HandKinds, NEW n \in HandTotals,
             UpdateLine(p, e, kind, n)
      PROVE  Good
  BY <1>3, UpdateLineGood
<1>4. ASSUME NEW F \in SUBSET Employees, NEW fig \in [F -> Cells], NEW M \in SUBSET F,
             NEW touched \in SUBSET Deds, ImportPayroll(p, F, fig, M, touched)
      PROVE  Good
  BY <1>4, ImportGood
<1>5. ASSUME NEW touched \in SUBSET Deds, ImportBlank(p, touched) PROVE Good
  BY <1>5, ImportBlankGood
<1> QED BY <1>1, <1>2, <1>3, <1>4, <1>5 DEF LineStep
-----------------------------------------------------------------------------
(* The life of a row outside the sheets. *)

(* Nothing but rows, and who has left, changes. *)
LEMMA LinesUntouched ==
  ASSUME LedgerInv, UNCHANGED <<sheetVars, lineVars, byHand>>, departed' \subseteq Employees
  PROVE  LinesGood
<1>1. LinesTypeOK
  BY TypeParts DEF LedgerInv
<1>2. UNCHANGED <<sheet, excel, excluded, lines, manual, moved, byHand>>
  BY DEF sheetVars, lineVars
<1>3. \A q \in Payrolls : On(q)' = On(q)
  BY <1>2 DEF On
<1> QED BY <1>1, <1>2, <1>3 DEF LinesGood, LinesTypeOK, StaysOff

LEMMA ShortStepGood ==
  ASSUME LedgerInv, NEW s \in Shorts, CreateShort(s) \/ CancelShort(s)
  PROVE  Good
<1>1. PICK st \in {"pending", "cancelled"} : shorts' = [shorts EXCEPT ![s].state = st]
  BY DEF CreateShort, CancelShort
<1>2. /\ shorts[s].state \in {"none"} \cup Unapplied
      /\ UNCHANGED <<sheetVars, lineVars, byHand>> /\ UNCHANGED departed
      /\ UNCHANGED <<sheet, lines, deds, paid>>
  BY DEF CreateShort, CancelShort, sheetVars, lineVars, totalVars, longVars
<1>3. LinesGood
  BY <1>2, LinesUntouched, TypeParts DEF LedgerInv, LinesTypeOK
<1>4. ShortsGood
  <2>0. shorts \in [Shorts -> ShortRows]
    BY TypeParts DEF LedgerInv
  <2>1. /\ shorts'[s] \in ShortRows /\ shorts'[s].state = st
        /\ shorts'[s].payroll = shorts[s].payroll /\ shorts'[s].line = shorts[s].line
        /\ shorts'[s].deducted = shorts[s].deducted
    <3>1. shorts'[s] = [shorts[s] EXCEPT !.state = st] /\ shorts[s] \in ShortRows
      BY <1>1, <2>0
    <3> QED BY <3>1 DEF ShortRows, ShortStates
  <2>2. \A x \in Shorts \ {s} : shorts'[x] = shorts[x]
    BY <1>1, <2>0
  <2>3. shorts[s].payroll = None /\ shorts[s].line = None /\ ~shorts[s].deducted
    BY <1>2 DEF LedgerInv, ReservedIffOnSheet, DeductedOnFinalSheet, Unapplied
  <2>4. shorts' \in [Shorts -> ShortRows]
    <3>1. shorts' = [x \in Shorts |-> shorts'[x]]
      BY <1>1, <2>0
    <3> QED BY <2>0, <2>1, <2>2, <3>1
  <2>5. ReservedIffOnSheet'
    BY <1>2, <2>1, <2>2, <2>3 DEF LedgerInv, ReservedIffOnSheet
  <2>6. DeductedOnFinalSheet'
    BY <1>2, <2>1, <2>2, <2>3 DEF LedgerInv, DeductedOnFinalSheet
  <2>7. \A q \in Payrolls : KeepsShorts(q)
    BY <2>1, <2>2 DEF KeepsShorts
  <2> QED BY <2>4, <2>5, <2>6, <2>7 DEF ShortsGood
<1> QED BY <1>2, <1>3, <1>4, DedsKept, PaymentsKept, Parts

LEMMA DedStepGood ==
  ASSUME LedgerInv, NEW d \in Deds, CreateDed(d) \/ CancelDed(d) \/ DeleteDed(d)
  PROVE  Good
<1>0. deds \in [Deds -> DedRows]
  BY TypeParts DEF LedgerInv
<1>1. /\ deds[d].state \in {"none", "draft", "cancelled"}
      /\ UNCHANGED <<sheetVars, lineVars, byHand>> /\ UNCHANGED departed
      /\ UNCHANGED <<sheet, lines, shorts, paid>>
  BY DEF CreateDed, CancelDed, DeleteDed, sheetVars, lineVars, totalVars, longVars
<1>2. deds[d].payroll = None /\ deds[d].line = None
  BY <1>1 DEF LedgerInv, DeductionsConsistent
<1>3. /\ deds'[d] \in DedRows /\ deds'[d].payroll = None /\ deds'[d].line = None
      /\ \A x \in Deds \ {d} : deds'[x] = deds[x]
      /\ deds' = [x \in Deds |-> deds'[x]]
  <2>1. CASE DeleteDed(d)
    <3>1. deds'[d] = [state |-> "none", payroll |-> None, line |-> None]
      BY <1>0, <2>1 DEF DeleteDed
    <3>2. /\ \A x \in Deds \ {d} : deds'[x] = deds[x]
          /\ deds' = [x \in Deds |-> deds'[x]]
      BY <1>0, <2>1 DEF DeleteDed
    <3> QED BY <3>1, <3>2 DEF DedRows, Keys
  <2>2. ASSUME NEW st \in {"draft", "cancelled"}, deds' = [deds EXCEPT ![d].state = st]
        PROVE  /\ deds'[d] \in DedRows /\ deds'[d].payroll = None /\ deds'[d].line = None
               /\ \A x \in Deds \ {d} : deds'[x] = deds[x]
               /\ deds' = [x \in Deds |-> deds'[x]]
    <3>1. deds'[d] = [deds[d] EXCEPT !.state = st] /\ deds[d] \in DedRows
      BY <1>0, <2>2
    <3>2. /\ \A x \in Deds \ {d} : deds'[x] = deds[x]
          /\ deds' = [x \in Deds |-> deds'[x]]
      BY <1>0, <2>2
    <3> QED BY <1>2, <3>1, <3>2 DEF DedRows
  <2> QED BY <2>1, <2>2 DEF CreateDed, CancelDed
<1>4. LinesGood
  BY <1>1, LinesUntouched, TypeParts DEF LedgerInv, LinesTypeOK
<1>5. DedsGood
  <2>1. deds' \in [Deds -> DedRows]
    BY <1>0, <1>3
  <2>2. DeductionsConsistent'
    BY <1>1, <1>3 DEF LedgerInv, DeductionsConsistent
  <2>3. \A q \in Payrolls : KeepsDeds(q)
    BY <1>2, <1>3, LedgerAssumption DEF KeepsDeds
  <2> QED BY <2>1, <2>2, <2>3 DEF DedsGood
<1> QED BY <1>1, <1>4, <1>5, ShortsKept, PaymentsKept, Parts

LEMMA LongStepGood ==
  ASSUME LedgerInv, NEW a \in Longs, NEW total, NEW n,
         \/ CreateLong(a, total, n) \/ ConfirmLong(a) \/ CancelLong(a)
         \/ StopLong(a) \/ LockLong(a)
  PROVE  Good
<1>1. /\ UNCHANGED <<sheetVars, lineVars, byHand>> /\ UNCHANGED departed
      /\ UNCHANGED <<sheet, lines, shorts, deds, paid>>
  BY DEF CreateLong, ConfirmLong, CancelLong, StopLong, LockLong, SetLong,
         sheetVars, lineVars, totalVars
<1>2. LinesGood
  BY <1>1, LinesUntouched, TypeParts DEF LedgerInv, LinesTypeOK
<1> QED BY <1>1, <1>2, ShortsKept, DedsKept, PaymentsKept, Parts

(* Detaching an advance leaves the payments of confirmed sheets alone. *)
LEMMA DetachGood ==
  ASSUME LedgerInv, NEW a \in Longs, Detach(a)
  PROVE  Good
<1>1. /\ byHand' \subseteq byHand /\ UNCHANGED <<sheetVars, lineVars>>
      /\ UNCHANGED <<sheet, excel, excluded, lines, manual, moved, shorts, deds, departed>>
      /\ paid' = [paid EXCEPT ![a] = [p \in Payrolls |->
                     IF p \in Unconfirmed(a) THEN NoPayment ELSE paid[a][p]]]
  BY DEF Detach, sheetVars, lineVars
<1>2. LinesGood
  <2>1. LinesTypeOK'
    BY <1>1, TypeParts DEF LedgerInv, LinesTypeOK
  <2>2. \A q \in Payrolls : On(q)' = On(q)
    BY <1>1 DEF On
  <2> QED BY <1>1, <2>1, <2>2 DEF LinesGood, StaysOff
<1>3. PaymentsGood
  <2>1. paid = [x \in Longs |-> [p \in Payrolls |-> paid[x][p]]]
    BY DEF LedgerInv, PaidShape
  <2>2. \A x \in Longs, p \in Payrolls :
          paid'[x][p] = IF x = a /\ p \in Unconfirmed(a) THEN NoPayment ELSE paid[x][p]
    BY <1>1, <2>1
  <2>3. PaidShape'
    BY <1>1, <2>1 DEF PaidShape
  <2>4. \A q \in Payrolls : sheet[q] = "confirmed" => q \notin Unconfirmed(a)
    BY DEF Unconfirmed
  <2>5. ASSUME NEW q \in Payrolls, sheet[q] = "confirmed" PROVE KeepsLongs(q)
    BY <2>2, <2>4, <2>5 DEF KeepsLongs
  <2> QED BY <2>3, <2>5 DEF PaymentsGood
<1> QED BY <1>1, <1>2, <1>3, ShortsKept, DedsKept, Parts

LEMMA RowStepGood ==
  ASSUME LedgerInv, RowStep
  PROVE  Good
<1>1. ASSUME NEW s \in Shorts, CreateShort(s) \/ CancelShort(s) PROVE Good
  BY <1>1, ShortStepGood
<1>2. ASSUME NEW d \in Deds, CreateDed(d) \/ CancelDed(d) \/ DeleteDed(d) PROVE Good
  BY <1>2, DedStepGood
<1>3. ASSUME NEW a \in Longs,
             ConfirmLong(a) \/ CancelLong(a) \/ StopLong(a) \/ LockLong(a)
      PROVE  Good
  BY <1>3, LongStepGood
<1>4. ASSUME NEW a \in Longs, NEW total \in Totals, NEW n \in Counts,
             CreateLong(a, total, n) \/ UpdateLong(a, total, n)
      PROVE  Good
  <2>1. CASE CreateLong(a, total, n)
    BY <2>1, LongStepGood
  <2>2. CASE UpdateLong(a, total, n)
    BY <2>2, DetachGood DEF UpdateLong
  <2> QED BY <1>4, <2>1, <2>2
<1>5. ASSUME NEW a \in Longs, NEW remaining \in Totals, NEW n \in Counts,
             AdjustRemaining(a, remaining, n)
      PROVE  Good
  BY <1>5, DetachGood DEF AdjustRemaining
<1> QED BY <1>1, <1>2, <1>3, <1>4, <1>5 DEF RowStep

LEMMA EmployeeStepGood ==
  ASSUME LedgerInv, EmployeeStep
  PROVE  Good
<1>1. /\ UNCHANGED <<sheetVars, lineVars, byHand>> /\ departed' \subseteq Employees
      /\ UNCHANGED <<sheet, lines, shorts, deds, paid>>
  BY TypeParts, LedgerAssumption
  DEF EmployeeStep, Leave, Return, LedgerInv, LinesTypeOK, sheetVars, lineVars,
      totalVars, longVars
<1>2. LinesGood
  BY <1>1, LinesUntouched
<1> QED BY <1>1, <1>2, ShortsKept, DedsKept, PaymentsKept, Parts

(* Every step of the ledger is good. *)
LEMMA LedgerStep == LedgerInv /\ [Next]_vars => Good
<1> SUFFICES ASSUME LedgerInv, [Next]_vars PROVE Good
  OBVIOUS
<1>1. CASE \E p \in Payrolls : SheetStep(p)
  BY <1>1, SheetStepGood
<1>2. CASE \E p \in Edited : LineStep(p)
  BY <1>2, LineStepGood, LedgerAssumption
<1>3. CASE RowStep
  BY <1>3, RowStepGood
<1>4. CASE EmployeeStep
  BY <1>4, EmployeeStepGood
<1>5. CASE UNCHANGED vars
  <2>1. /\ UNCHANGED <<sheetVars, lineVars, byHand>>
        /\ UNCHANGED <<sheet, lines, shorts, deds, paid, departed>>
    BY <1>5 DEF vars, sheetVars, lineVars, totalVars, longVars
  <2>2. LinesGood
    BY <2>1, LinesUntouched, TypeParts DEF LedgerInv, LinesTypeOK
  <2> QED BY <2>1, <2>2, ShortsKept, DedsKept, PaymentsKept, Parts
<1> QED BY <1>1, <1>2, <1>3, <1>4, <1>5 DEF Next
-----------------------------------------------------------------------------
(* The theorems. *)

THEOREM LedgerHolds == Spec => []LedgerInv
<1>1. LedgerInv /\ [Next]_vars => LedgerInv'
  BY LedgerStep DEF Good
<1> QED BY <1>1, LedgerInit, PTL DEF Spec

(* States and references have their types in every reachable state. *)
THEOREM LinksTyped == Spec => []LinksTypeOK
<1>1. LedgerInv => LinksTypeOK
  BY DEF LedgerInv
<1> QED BY <1>1, LedgerHolds, PTL

(* No sequence of links, reverts, moves, deletions and imports leaves a    *)
(* reservation without a sheet or a reference to a line that is gone       *)
(* (advances.service.ts, payrollDuplicate.service.ts,                      *)
(* payrollImport.service.ts).                                              *)
THEOREM ShortsConsistent == Spec => []ReservedIffOnSheet
<1>1. LedgerInv => ReservedIffOnSheet
  BY DEF LedgerInv
<1> QED BY <1>1, LedgerHolds, PTL

(* What confirmAdvancesOnPayroll deducted sits on a confirmed sheet. *)
THEOREM DeductionsFinal == Spec => []DeductedOnFinalSheet
<1>1. LedgerInv => DeductedOnFinalSheet
  BY DEF LedgerInv
<1> QED BY <1>1, LedgerHolds, PTL

(* A deduction that names a sheet is linked to it. *)
THEOREM DedsConsistent == Spec => []DeductionsConsistent
<1>1. LedgerInv => DeductionsConsistent
  BY DEF LedgerInv
<1> QED BY <1>1, LedgerHolds, PTL

(* No handler releases, changes or moves what a confirmed sheet charged,   *)
(* or adds to it.                                                          *)
THEOREM ConfirmedStays == Spec => ConfirmedRowsFrozen
<1>1. LedgerInv /\ [Next]_vars
        => [\A p \in Payrolls : sheet[p] = "confirmed" => Frozen(p)]_vars
  BY LedgerStep DEF Good
<1> QED BY <1>1, LedgerHolds, PTL DEF Spec, ConfirmedRowsFrozen

(* No calculation brings an excluded employee back. *)
THEOREM ExclusionHolds == Spec => ExcludedStayOff
<1>1. LedgerInv /\ [Next]_vars
        => [\A p \in Payrolls, e \in Employees : StaysOff(p, e)]_vars
  BY LedgerStep DEF Good
<1> QED BY <1>1, LedgerHolds, PTL DEF Spec, ExcludedStayOff
-----------------------------------------------------------------------------
(* Part 2, amounts.  First sums over finite sets.                          *)

(* The element a sum takes next. *)
Pick(U) == CHOOSE x \in U : TRUE

(* g adds f up over the subsets of T, one picked element at a time. *)
AddsUp(f, T, g) ==
  g = [U \in SUBSET T |-> IF U = {} THEN 0 ELSE f[Pick(U)] + g[U \ {Pick(U)}]]

Adder(f, T) == CHOOSE g : AddsUp(f, T, g)

(* SumFunctionOnSet is defined by recursion over the subsets of its set;   *)
(* that such a function exists is not given, AdderExists shows it.         *)
LEMMA SumIsAdder ==
  ASSUME NEW f, NEW T
  PROVE  SumFunctionOnSet(f, T) = Adder(f, T)[T]
  BY Zenon DEF SumFunctionOnSet, FoldFunctionOnSet, MapThenFoldSet, Adder, AddsUp, Pick

(* A family of subsets of a finite set has a smallest member: a statement  *)
(* about all sums is proved by looking at its smallest counterexample.     *)
LEMMA SmallestSet ==
  ASSUME NEW S, IsFiniteSet(S), NEW Fam, Fam \subseteq SUBSET S, Fam # {}
  PROVE  \E A \in Fam : \A B \in Fam : B \subseteq A => B = A
<1>1. IsWellFoundedOn(StrictSubsetOrdering(S), FiniteSubsetsOf(S))
  BY FS_StrictSubsetOrderingWellFounded
<1>2. FiniteSubsetsOf(S) = SUBSET S
  BY FS_FiniteSubsetsOfFinite
<1>3. \E A \in Fam : \A B \in Fam : <<B, A>> \notin StrictSubsetOrdering(S)
  BY <1>1, <1>2, WFMin
<1> QED BY <1>3 DEF StrictSubsetOrdering

LEMMA AdderAt ==
  ASSUME NEW f, NEW T, NEW g, AddsUp(f, T, g)
  PROVE  /\ g[{}] = 0
         /\ \A U \in SUBSET T : U # {} => /\ Pick(U) \in U
                                          /\ g[U] = f[Pick(U)] + g[U \ {Pick(U)}]
<1>1. \A U \in SUBSET T : g[U] = IF U = {} THEN 0 ELSE f[Pick(U)] + g[U \ {Pick(U)}]
  BY DEF AddsUp
<1> QED BY <1>1 DEF Pick

(* Two ways of adding up agree where both are defined. *)
LEMMA AddersAgree ==
  ASSUME NEW S, IsFiniteSet(S), NEW f, NEW T \in SUBSET S, NEW g, NEW h,
         AddsUp(f, S, g), AddsUp(f, T, h)
  PROVE  \A U \in SUBSET T : h[U] = g[U]
<1> DEFINE Fam == {U \in SUBSET T : h[U] # g[U]}
<1> SUFFICES ASSUME Fam # {} PROVE FALSE
  OBVIOUS
<1>1. PICK A \in Fam : \A B \in Fam : B \subseteq A => B = A
  <2>1. Fam \subseteq SUBSET S
    OBVIOUS
  <2> HIDE DEF Fam
  <2> QED BY <2>1, SmallestSet
<1>2. A \in SUBSET T /\ A \in SUBSET S /\ h[A] # g[A]
  BY <1>1
<1>3. A # {}
  BY <1>2, AdderAt
<1>4. /\ Pick(A) \in A /\ h[A] = f[Pick(A)] + h[A \ {Pick(A)}]
      /\ g[A] = f[Pick(A)] + g[A \ {Pick(A)}]
  BY <1>2, <1>3, AdderAt
<1>5. A \ {Pick(A)} \notin Fam /\ A \ {Pick(A)} \in SUBSET T
  BY <1>1, <1>2, <1>4
<1>6. h[A \ {Pick(A)}] = g[A \ {Pick(A)}]
  BY <1>5
<1> HIDE DEF Fam
<1> QED BY <1>2, <1>4, <1>6

LEMMA AdderExists ==
  ASSUME NEW S, IsFiniteSet(S), NEW f
  PROVE  AddsUp(f, S, Adder(f, S))
<1> DEFINE Fam == {T \in SUBSET S : ~\E g : AddsUp(f, T, g)}
<1> SUFFICES ASSUME Fam # {} PROVE FALSE
  BY DEF Adder
<1>1. PICK A \in Fam : \A B \in Fam : B \subseteq A => B = A
  <2>1. Fam \subseteq SUBSET S
    OBVIOUS
  <2> HIDE DEF Fam
  <2> QED BY <2>1, SmallestSet
<1>2. A \in SUBSET S /\ ~\E g : AddsUp(f, A, g) /\ IsFiniteSet(A)
  BY <1>1, FS_Subset
<1>3. ASSUME NEW U \in SUBSET A, U # A PROVE AddsUp(f, U, Adder(f, U))
  BY <1>1, <1>3 DEF Adder
<1> DEFINE Rest(U) == U \ {Pick(U)}
           h == [U \in SUBSET A |-> IF U = {} THEN 0
                                    ELSE f[Pick(U)] + Adder(f, Rest(U))[Rest(U)]]
<1>4. ASSUME NEW U \in SUBSET A, U # {}
      PROVE  h[Rest(U)] = Adder(f, Rest(U))[Rest(U)]
  <2> DEFINE V == Rest(U)
  <2>1. V \in SUBSET A /\ V # A /\ Pick(U) \in U
    BY <1>4 DEF Pick
  <2>2. AddsUp(f, V, Adder(f, V)) /\ IsFiniteSet(V)
    BY <2>1, <1>3, <1>2, FS_Subset
  <2>3. CASE V = {}
    <3>1. h[V] = 0
      BY <2>3, <2>1
    <3>2. Adder(f, V)[V] = 0
      BY <2>2, <2>3, AdderAt
    <3> QED BY <3>1, <3>2
  <2>4. CASE V # {}
    <3> DEFINE W == Rest(V)
    <3>1. Pick(V) \in V /\ W \in SUBSET V /\ W # A /\ W \in SUBSET A
      BY <2>1, <2>4 DEF Pick
    <3>2. h[V] = f[Pick(V)] + Adder(f, W)[W]
      BY <2>1, <2>4
    <3>3. Adder(f, V)[V] = f[Pick(V)] + Adder(f, V)[W]
      <4> HIDE DEF V
      <4> QED BY <2>2, <2>4, AdderAt
    <3>4. AddsUp(f, W, Adder(f, W))
      BY <3>1, <1>3
    <3> HIDE DEF V, W, h
    <3>5. Adder(f, W)[W] = Adder(f, V)[W]
      BY <2>2, <3>1, <3>4, AddersAgree
    <3> QED BY <3>2, <3>3, <3>5 DEF V
  <2> QED BY <2>3, <2>4
<1>5. h = [U \in SUBSET A |-> IF U = {} THEN 0 ELSE f[Pick(U)] + h[U \ {Pick(U)}]]
  <2>1. \A U \in SUBSET A : h[U] = IF U = {} THEN 0 ELSE f[Pick(U)] + h[U \ {Pick(U)}]
    <3> TAKE U \in SUBSET A
    <3>1. CASE U = {}
      BY <3>1
    <3>2. CASE U # {}
      <4>1. h[U] = f[Pick(U)] + Adder(f, Rest(U))[Rest(U)]
        BY <3>2
      <4>2. h[Rest(U)] = Adder(f, Rest(U))[Rest(U)]
        BY <3>2, <1>4
      <4> HIDE DEF h
      <4> QED BY <3>2, <4>1, <4>2
    <3> HIDE DEF h
    <3> QED BY <3>1, <3>2
  <2>2. h = [U \in SUBSET A |-> h[U]]
    OBVIOUS
  <2> HIDE DEF h
  <2> QED BY <2>1, <2>2
<1> HIDE DEF h
<1> QED BY <1>2, <1>5 DEF AddsUp

(* A sum takes one element after the other. *)
LEMMA SumOfNone == ASSUME NEW f PROVE SumFunctionOnSet(f, {}) = 0
<1>1. AddsUp(f, {}, Adder(f, {}))
  BY AdderExists, FS_EmptySet
<1> QED BY <1>1, AdderAt, SumIsAdder

LEMMA SumPicked ==
  ASSUME NEW T, IsFiniteSet(T), T # {}, NEW f
  PROVE  /\ Pick(T) \in T
         /\ SumFunctionOnSet(f, T) = f[Pick(T)] + SumFunctionOnSet(f, T \ {Pick(T)})
<1> DEFINE V == T \ {Pick(T)}
<1>1. Pick(T) \in T /\ V \in SUBSET T
  BY DEF Pick
<1>2. AddsUp(f, T, Adder(f, T)) /\ AddsUp(f, V, Adder(f, V))
  BY <1>1, AdderExists, FS_Subset
<1>3. Adder(f, T)[T] = f[Pick(T)] + Adder(f, T)[V]
  BY <1>2, AdderAt
<1>4. Adder(f, V)[V] = Adder(f, T)[V]
  <2> HIDE DEF V
  <2> QED BY <1>1, <1>2, AddersAgree
<1> QED BY <1>1, <1>3, <1>4, SumIsAdder

LEMMA SumInt ==
  ASSUME NEW T, IsFiniteSet(T), NEW f, \A x \in T : f[x] \in Int
  PROVE  SumFunctionOnSet(f, T) \in Int
<1> DEFINE Fam == {U \in SUBSET T : SumFunctionOnSet(f, U) \notin Int}
<1> SUFFICES ASSUME Fam # {} PROVE FALSE
  OBVIOUS
<1>1. PICK A \in Fam : \A B \in Fam : B \subseteq A => B = A
  <2>1. Fam \subseteq SUBSET T
    OBVIOUS
  <2> HIDE DEF Fam
  <2> QED BY <2>1, SmallestSet
<1>2. A \in SUBSET T /\ IsFiniteSet(A) /\ SumFunctionOnSet(f, A) \notin Int
  BY <1>1, FS_Subset
<1>3. A # {}
  BY <1>2, SumOfNone
<1>4. /\ Pick(A) \in A
      /\ SumFunctionOnSet(f, A) = f[Pick(A)] + SumFunctionOnSet(f, A \ {Pick(A)})
  BY <1>2, <1>3, SumPicked
<1>5. SumFunctionOnSet(f, A \ {Pick(A)}) \in Int
  BY <1>1, <1>2, <1>4
<1> QED BY <1>2, <1>4, <1>5

LEMMA SumSame ==
  ASSUME NEW T, IsFiniteSet(T), NEW f, NEW g, \A x \in T : f[x] = g[x]
  PROVE  SumFunctionOnSet(f, T) = SumFunctionOnSet(g, T)
<1> DEFINE Fam == {U \in SUBSET T : SumFunctionOnSet(f, U) # SumFunctionOnSet(g, U)}
<1> SUFFICES ASSUME Fam # {} PROVE FALSE
  OBVIOUS
<1>1. PICK A \in Fam : \A B \in Fam : B \subseteq A => B = A
  <2>1. Fam \subseteq SUBSET T
    OBVIOUS
  <2> HIDE DEF Fam
  <2> QED BY <2>1, SmallestSet
<1>2. A \in SUBSET T /\ IsFiniteSet(A) /\ SumFunctionOnSet(f, A) # SumFunctionOnSet(g, A)
  BY <1>1, FS_Subset
<1>3. A # {}
  BY <1>2, SumOfNone
<1>4. /\ Pick(A) \in A
      /\ SumFunctionOnSet(f, A) = f[Pick(A)] + SumFunctionOnSet(f, A \ {Pick(A)})
      /\ SumFunctionOnSet(g, A) = g[Pick(A)] + SumFunctionOnSet(g, A \ {Pick(A)})
  BY <1>2, <1>3, SumPicked
<1>5. SumFunctionOnSet(f, A \ {Pick(A)}) = SumFunctionOnSet(g, A \ {Pick(A)})
  BY <1>1, <1>2, <1>4
<1> QED BY <1>2, <1>4, <1>5

(* Which element is taken first makes no difference. *)
LEMMA SumAdd ==
  ASSUME NEW T, IsFiniteSet(T), NEW f, \A x \in T : f[x] \in Int
  PROVE  \A y \in T : SumFunctionOnSet(f, T) = f[y] + SumFunctionOnSet(f, T \ {y})
<1> DEFINE S(U) == SumFunctionOnSet(f, U)
           Fam == {U \in SUBSET T : \E y \in U : S(U) # f[y] + S(U \ {y})}
<1> SUFFICES ASSUME Fam # {} PROVE FALSE
  OBVIOUS
<1>1. PICK A \in Fam : \A B \in Fam : B \subseteq A => B = A
  <2>1. Fam \subseteq SUBSET T
    OBVIOUS
  <2> HIDE DEF Fam
  <2> QED BY <2>1, SmallestSet
<1>2. A \in SUBSET T /\ IsFiniteSet(A)
  BY <1>1, FS_Subset
<1>3. PICK y \in A : S(A) # f[y] + S(A \ {y})
  BY <1>1
<1>4. PICK p \in A : S(A) = f[p] + S(A \ {p})
  BY <1>2, <1>3, SumPicked
<1>5. ASSUME NEW x \in A, NEW z \in A, x # z PROVE S(A \ {x}) = f[z] + S((A \ {x}) \ {z})
  <2>1. A \ {x} \notin Fam /\ A \ {x} \in SUBSET T /\ z \in A \ {x}
    BY <1>1, <1>2, <1>5
  <2> HIDE DEF S
  <2> QED BY <2>1
<1>6. p # y /\ p \in T /\ y \in T
  BY <1>2, <1>3, <1>4
<1>7. S(A \ {p}) = f[y] + S((A \ {p}) \ {y}) /\ S(A \ {y}) = f[p] + S((A \ {y}) \ {p})
  BY <1>5, <1>6
<1>8. (A \ {y}) \ {p} = (A \ {p}) \ {y}
  OBVIOUS
<1> DEFINE R == S((A \ {p}) \ {y})
<1>9. R \in Int
  <2>1. IsFiniteSet((A \ {p}) \ {y}) /\ (A \ {p}) \ {y} \subseteq T
    BY <1>2, FS_Subset
  <2> QED BY <2>1, SumInt
<1>10. S(A) = f[p] + (f[y] + R) /\ S(A \ {y}) = f[p] + R
  BY <1>4, <1>7, <1>8
<1> HIDE DEF S, R
<1> QED BY <1>3, <1>6, <1>9, <1>10

LEMMA SumLeq ==
  ASSUME NEW T, IsFiniteSet(T), NEW f, NEW g,
         \A x \in T : f[x] \in Int /\ g[x] \in Int /\ f[x] <= g[x]
  PROVE  SumFunctionOnSet(f, T) <= SumFunctionOnSet(g, T)
<1> DEFINE Fam == {U \in SUBSET T : ~(SumFunctionOnSet(f, U) <= SumFunctionOnSet(g, U))}
<1> SUFFICES ASSUME Fam # {} PROVE FALSE
  OBVIOUS
<1>1. PICK A \in Fam : \A B \in Fam : B \subseteq A => B = A
  <2>1. Fam \subseteq SUBSET T
    OBVIOUS
  <2> HIDE DEF Fam
  <2> QED BY <2>1, SmallestSet
<1>2. /\ A \in SUBSET T /\ IsFiniteSet(A)
      /\ ~(SumFunctionOnSet(f, A) <= SumFunctionOnSet(g, A))
  BY <1>1, FS_Subset
<1>3. A # {}
  BY <1>2, SumOfNone
<1>4. PICK p \in A : /\ SumFunctionOnSet(f, A) = f[p] + SumFunctionOnSet(f, A \ {p})
                     /\ SumFunctionOnSet(g, A) = g[p] + SumFunctionOnSet(g, A \ {p})
  BY <1>2, <1>3, SumPicked
<1>5. SumFunctionOnSet(f, A \ {p}) <= SumFunctionOnSet(g, A \ {p})
  BY <1>1, <1>2, <1>4
<1>6. SumFunctionOnSet(f, A \ {p}) \in Int /\ SumFunctionOnSet(g, A \ {p}) \in Int
  <2>1. IsFiniteSet(A \ {p}) /\ A \ {p} \subseteq T
    BY <1>2, FS_Subset
  <2> QED BY <2>1, SumInt
<1>7. f[p] \in Int /\ g[p] \in Int /\ f[p] <= g[p]
  BY <1>2
<1> QED BY <1>2, <1>4, <1>5, <1>6, <1>7

(* Zeros add nothing. *)
LEMMA SumOver ==
  ASSUME NEW T, IsFiniteSet(T), NEW U, U \subseteq T, NEW f,
         \A x \in T : f[x] \in Int, \A x \in T \ U : f[x] = 0
  PROVE  SumFunctionOnSet(f, T) = SumFunctionOnSet(f, U)
<1> DEFINE S(V) == SumFunctionOnSet(f, V)
           Fam == {V \in SUBSET T : U \subseteq V /\ S(V) # S(U)}
<1> SUFFICES ASSUME Fam # {} PROVE FALSE
  OBVIOUS
<1>1. PICK A \in Fam : \A B \in Fam : B \subseteq A => B = A
  <2>1. Fam \subseteq SUBSET T
    OBVIOUS
  <2> HIDE DEF Fam
  <2> QED BY <2>1, SmallestSet
<1>2. A \in SUBSET T /\ IsFiniteSet(A) /\ U \subseteq A /\ S(A) # S(U)
  BY <1>1, FS_Subset
<1>3. PICK x \in A : x \notin U
  BY <1>2
<1>4. S(A) = f[x] + S(A \ {x}) /\ f[x] = 0
  BY <1>2, <1>3, SumAdd
<1>5. S(A \ {x}) = S(U)
  <2>1. A \ {x} \notin Fam /\ A \ {x} \in SUBSET T /\ U \subseteq A \ {x}
    BY <1>1, <1>2, <1>3
  <2> HIDE DEF S
  <2> QED BY <2>1
<1>6. S(U) \in Int
  <2>1. IsFiniteSet(U)
    BY FS_Subset
  <2> QED BY <2>1, SumInt
<1> HIDE DEF S
<1> QED BY <1>2, <1>4, <1>5, <1>6

LEMMA SumOfOne ==
  ASSUME NEW T, IsFiniteSet(T), NEW y \in T, NEW f,
         \A x \in T : f[x] \in Int, \A x \in T \ {y} : f[x] = 0
  PROVE  SumFunctionOnSet(f, T) = f[y]
<1>1. SumFunctionOnSet(f, T) = SumFunctionOnSet(f, {y})
  BY SumOver
<1>2. SumFunctionOnSet(f, {y}) = f[y] + SumFunctionOnSet(f, {y} \ {y})
  BY SumAdd, FS_Singleton
<1>3. {y} \ {y} = {}
  OBVIOUS
<1> QED BY <1>1, <1>2, <1>3, SumOfNone

LEMMA SumOfZeros ==
  ASSUME NEW T, IsFiniteSet(T), NEW f, \A x \in T : f[x] = 0
  PROVE  SumFunctionOnSet(f, T) = 0
<1>1. SumFunctionOnSet(f, T) = SumFunctionOnSet(f, {})
  BY SumOver
<1> QED BY <1>1, SumOfNone

(* One term more or less. *)
LEMMA SumOfChanged ==
  ASSUME NEW T, IsFiniteSet(T), NEW y \in T, NEW f, NEW g,
         \A x \in T : f[x] \in Int /\ g[x] \in Int,
         \A x \in T \ {y} : f[x] = g[x]
  PROVE  SumFunctionOnSet(g, T) = SumFunctionOnSet(f, T) - f[y] + g[y]
<1>1. /\ SumFunctionOnSet(f, T) = f[y] + SumFunctionOnSet(f, T \ {y})
      /\ SumFunctionOnSet(g, T) = g[y] + SumFunctionOnSet(g, T \ {y})
  BY SumAdd
<1>2. IsFiniteSet(T \ {y})
  BY FS_Subset
<1>3. SumFunctionOnSet(f, T \ {y}) = SumFunctionOnSet(g, T \ {y})
  BY <1>2, SumSame
<1>4. SumFunctionOnSet(f, T \ {y}) \in Int
  BY <1>2, SumInt
<1> QED BY <1>1, <1>3, <1>4

-----------------------------------------------------------------------------
(* Amounts.  What is paid of a long advance never exceeds it, whatever     *)
(* payments come and go.                                                   *)
LongStates == {"none", "draft", "running", "stopped", "done", "cancelled"}
LongRows == [state : LongStates, total : Nat, inst : Int, locked : BOOLEAN,
             given : Nat]
PayRows == [amount : Nat, line : Keys]
Payments == [Payrolls -> PayRows]

Balanced(long, pays) ==
  /\ PaidSum(pays) <= long.total
  /\ long.state \in {"none", "draft", "cancelled"} => PaidSum(pays) = 0
  /\ long.state \in {"draft", "running", "stopped"}
       => Remaining(long.total, pays) > Tolerance \/ long.given <= Tolerance

BalanceInv ==
  /\ longs \in [Longs -> LongRows] /\ paid \in [Longs -> Payments]
  /\ \A a \in Longs : Balanced(longs[a], paid[a])

LEMMA MaxOfZero == ASSUME NEW n \in Int PROVE Max({n, 0}) = IF n > 0 THEN n ELSE 0
<1> DEFINE m == IF n > 0 THEN n ELSE 0
<1>1. m \in {n, 0} /\ \A y \in {n, 0} : m >= y
  OBVIOUS
<1>2. \A x \in {n, 0} : (\A y \in {n, 0} : x >= y) => x = m
  OBVIOUS
<1> QED BY <1>1, <1>2 DEF Max

LEMMA PaidSumNat == ASSUME NEW pays \in Payments PROVE PaidSum(pays) \in Nat
<1> DEFINE f == [p \in Payrolls |-> pays[p].amount]
           z == [p \in Payrolls |-> 0]
<1>1. \A p \in Payrolls : f[p] \in Int /\ z[p] \in Int /\ z[p] <= f[p] /\ z[p] = 0
  BY DEF Payments, PayRows
<1>2. IsFiniteSet(Payrolls)
  BY LedgerAssumption
<1>3. SumFunctionOnSet(f, Payrolls) \in Int /\ SumFunctionOnSet(z, Payrolls) = 0
  <2> HIDE DEF f, z
  <2> QED BY <1>1, <1>2, SumInt, SumOfZeros
<1>4. SumFunctionOnSet(z, Payrolls) <= SumFunctionOnSet(f, Payrolls)
  <2> HIDE DEF f, z
  <2> QED BY <1>1, <1>2, SumLeq
<1> QED BY <1>3, <1>4 DEF PaidSum

LEMMA PaidLess ==
  ASSUME NEW pays \in Payments, NEW less \in Payments,
         \A p \in Payrolls : less[p].amount <= pays[p].amount
  PROVE  PaidSum(less) <= PaidSum(pays)
<1> DEFINE f == [p \in Payrolls |-> less[p].amount]
           g == [p \in Payrolls |-> pays[p].amount]
<1>1. \A p \in Payrolls : f[p] \in Int /\ g[p] \in Int /\ f[p] <= g[p]
  BY DEF Payments, PayRows
<1>2. IsFiniteSet(Payrolls)
  BY LedgerAssumption
<1>3. SumFunctionOnSet(f, Payrolls) <= SumFunctionOnSet(g, Payrolls)
  <2> HIDE DEF f, g
  <2> QED BY <1>1, <1>2, SumLeq
<1> QED BY <1>3 DEF PaidSum

LEMMA PaidMore ==
  ASSUME NEW pays \in Payments, NEW p \in Payrolls, pays[p].amount = 0,
         NEW row \in PayRows
  PROVE  PaidSum([pays EXCEPT ![p] = row]) = PaidSum(pays) + row.amount
<1> DEFINE more == [pays EXCEPT ![p] = row]
           f == [q \in Payrolls |-> pays[q].amount]
           g == [q \in Payrolls |-> more[q].amount]
<1>1. more \in Payments
  BY DEF Payments
<1>2. /\ \A q \in Payrolls : f[q] \in Int /\ g[q] \in Int
      /\ \A q \in Payrolls \ {p} : f[q] = g[q]
      /\ f[p] = 0 /\ g[p] = row.amount /\ row.amount \in Int
  BY <1>1 DEF Payments, PayRows
<1>3. IsFiniteSet(Payrolls)
  BY LedgerAssumption
<1>4. /\ SumFunctionOnSet(g, Payrolls) = SumFunctionOnSet(f, Payrolls) - f[p] + g[p]
      /\ SumFunctionOnSet(f, Payrolls) \in Int
  <2> HIDE DEF f, g
  <2> QED BY <1>2, <1>3, SumOfChanged, SumInt
<1>5. SumFunctionOnSet(g, Payrolls) = SumFunctionOnSet(f, Payrolls) + row.amount
  <2> HIDE DEF f, g
  <2> QED BY <1>2, <1>4
<1> QED BY <1>5 DEF PaidSum

LEMMA RemainingIs ==
  ASSUME NEW total \in Nat, NEW pays \in Payments
  PROVE  /\ Remaining(total, pays)
              = IF total > PaidSum(pays) THEN total - PaidSum(pays) ELSE 0
         /\ Remaining(total, pays) \in Nat
<1>1. PaidSum(pays) \in Nat
  BY PaidSumNat
<1>2. Remaining(total, pays)
        = IF total - PaidSum(pays) > 0 THEN total - PaidSum(pays) ELSE 0
  BY <1>1, MaxOfZero DEF Remaining
<1> HIDE DEF Remaining
<1> QED BY <1>1, <1>2

(* Fewer payments leave the balance kept; and a settled advance may run    *)
(* again.                                                                  *)
LEMMA BalancedLess ==
  ASSUME NEW long \in LongRows, NEW pays \in Payments, NEW less \in Payments,
         \A p \in Payrolls : less[p].amount <= pays[p].amount,
         Balanced(long, pays)
  PROVE  /\ Balanced(long, less)
         /\ Remaining(long.total, less) > Tolerance =>
              Balanced([long EXCEPT !.state = "running"], less)
<1>1. PaidSum(less) <= PaidSum(pays) /\ PaidSum(less) \in Nat /\ PaidSum(pays) \in Nat
  BY PaidLess, PaidSumNat
<1>2. long.total \in Nat
  BY DEF LongRows
<1>3. /\ Remaining(long.total, less)
           = IF long.total > PaidSum(less) THEN long.total - PaidSum(less) ELSE 0
      /\ Remaining(long.total, pays)
           = IF long.total > PaidSum(pays) THEN long.total - PaidSum(pays) ELSE 0
  BY <1>2, RemainingIs
<1>4. [long EXCEPT !.state = "running"].total = long.total
  BY DEF LongRows
<1>5. [long EXCEPT !.state = "running"].state = "running"
  BY DEF LongRows
<1> QED BY <1>1, <1>2, <1>3, <1>4, <1>5 DEF Balanced, Tolerance

(* An instalment is never more than what is left. *)
LEMMA BalancedMore ==
  ASSUME NEW long \in LongRows, NEW pays \in Payments, NEW p \in Payrolls,
         pays[p].amount = 0, NEW settle \in BOOLEAN, Draw(long, pays, settle) > 0,
         NEW q \in Keys, Balanced(long, pays)
  PROVE  LET d == Draw(long, pays, settle)
             state == IF Remaining(long.total, pays) - d <= Tolerance
                      THEN "done" ELSE "running"
         IN /\ [pays EXCEPT ![p] = [amount |-> d, line |-> q]] \in Payments
            /\ [long EXCEPT !.state = state] \in LongRows
            /\ Balanced([long EXCEPT !.state = state],
                        [pays EXCEPT ![p] = [amount |-> d, line |-> q]])
<1> DEFINE d == Draw(long, pays, settle)
           rem == Remaining(long.total, pays)
           state == IF rem - d <= Tolerance THEN "done" ELSE "running"
           row == [amount |-> d, line |-> q]
           more == [pays EXCEPT ![p] = row]
           row2 == [long EXCEPT !.state = state]
<1>1. long.total \in Nat /\ long.inst \in Int
  BY DEF LongRows
<1>2. /\ rem = IF long.total > PaidSum(pays) THEN long.total - PaidSum(pays) ELSE 0
      /\ rem \in Nat /\ PaidSum(pays) \in Nat
  BY <1>1, RemainingIs, PaidSumNat
<1>3. d \in Nat /\ d <= rem /\ d > 0
  BY <1>1, <1>2 DEF Draw
<1>4. more \in Payments /\ row \in PayRows
  BY <1>3 DEF Payments, PayRows
<1>5. PaidSum(more) = PaidSum(pays) + d
  BY <1>4, PaidMore
<1>6. /\ Remaining(long.total, more)
           = IF long.total > PaidSum(more) THEN long.total - PaidSum(more) ELSE 0
  BY <1>1, <1>4, RemainingIs
<1>7. row2 \in LongRows /\ row2.state = state /\ row2.total = long.total
  BY DEF LongRows, LongStates
<1>8. Balanced(row2, more)
  <2>1. PaidSum(more) <= row2.total
    BY <1>1, <1>2, <1>3, <1>5, <1>7
  <2>2. row2.state \notin {"none", "draft", "cancelled", "stopped"}
    BY <1>7
  <2>3. row2.state = "running" => Remaining(row2.total, more) > Tolerance
    <3>1. state = "running" => ~(rem - d <= Tolerance)
      OBVIOUS
    <3> HIDE DEF rem, d, state, more, row2
    <3> QED BY <1>1, <1>2, <1>3, <1>5, <1>6, <1>7, <3>1 DEF Tolerance
  <2> HIDE DEF more, row2
  <2> QED BY <2>1, <2>2, <2>3 DEF Balanced
<1> QED BY <1>4, <1>7, <1>8

-----------------------------------------------------------------------------
(* The handlers keep the balance, and only those that rewrite an advance   *)
(* change what is owed.                                                    *)
SameTotals == \A a \in Longs : longs'[a].total = longs[a].total

LEMMA NoPaymentRow == NoPayment \in PayRows /\ NoPayment.amount = 0
  BY DEF NoPayment, PayRows, Keys

(* What a revert of sheet p leaves. *)
LEMMA RevertBalanced ==
  ASSUME BalanceInv, NEW p \in Payrolls, NEW D \in SUBSET Employees
  PROVE  LET lg == RevertLongs(p)
             pd == UnpointPaid(RevertPaid(p), p, D)
         IN /\ lg \in [Longs -> LongRows] /\ pd \in [Longs -> Payments]
            /\ \A a \in Longs : /\ Balanced(lg[a], pd[a]) /\ pd[a][p].amount = 0
                                /\ lg[a].total = longs[a].total
<1> DEFINE rp == RevertPaid(p)
           pd == UnpointPaid(rp, p, D)
           lg == RevertLongs(p)
<1>1. longs \in [Longs -> LongRows] /\ paid \in [Longs -> Payments]
  BY DEF BalanceInv
<1>2. rp \in [Longs -> Payments]
  BY <1>1, NoPaymentRow DEF RevertPaid, Payments
<1>3. \A a \in Longs, q \in Payrolls : rp[a][q].amount = IF q = p THEN 0 ELSE paid[a][q].amount
  BY <1>1, NoPaymentRow DEF RevertPaid, Payments
<1>4. /\ pd \in [Longs -> Payments]
      /\ \A a \in Longs, q \in Payrolls : pd[a][q].amount = rp[a][q].amount
  <2> HIDE DEF rp
  <2>1. ASSUME NEW a \in Longs, NEW q \in Payrolls
        PROVE  pd[a][q] \in PayRows /\ pd[a][q].amount = rp[a][q].amount
    <3>1. rp[a][q] \in PayRows
      BY <1>2 DEF Payments
    <3>2. pd[a][q] = rp[a][q] \/ pd[a][q] = [rp[a][q] EXCEPT !.line = None]
      BY DEF UnpointPaid
    <3> HIDE DEF pd
    <3> QED BY <3>1, <3>2 DEF PayRows, Keys
  <2>2. pd = [a \in Longs |-> [q \in Payrolls |-> pd[a][q]]]
    BY DEF UnpointPaid
  <2> HIDE DEF pd
  <2> QED BY <2>1, <2>2 DEF Payments
<1>5. lg \in [Longs -> LongRows] /\ \A a \in Longs : lg[a].total = longs[a].total
  BY <1>1 DEF RevertLongs, LongRows, LongStates
<1>6. ASSUME NEW a \in Longs PROVE Balanced(lg[a], pd[a])
  <2>1. /\ longs[a] \in LongRows /\ paid[a] \in Payments /\ pd[a] \in Payments
        /\ rp[a] \in Payments /\ Balanced(longs[a], paid[a]) /\ longs[a].total \in Nat
    BY <1>1, <1>2, <1>4 DEF BalanceInv, LongRows
  <2>2. \A q \in Payrolls : /\ pd[a][q].amount <= paid[a][q].amount
                            /\ pd[a][q].amount = rp[a][q].amount
                            /\ pd[a][q].amount \in Nat
    <3>1. \A q \in Payrolls : paid[a][q].amount \in Nat
      BY <2>1 DEF Payments, PayRows
    <3> HIDE DEF rp, pd
    <3> QED BY <3>1, <1>3, <1>4
  <2>3. Remaining(longs[a].total, rp[a]) = Remaining(longs[a].total, pd[a])
    <3> HIDE DEF rp, pd
    <3>1. PaidSum(rp[a]) <= PaidSum(pd[a])
      BY <2>1, <2>2, PaidLess
    <3>2. PaidSum(pd[a]) <= PaidSum(rp[a])
      BY <2>1, <2>2, PaidLess
    <3>3. PaidSum(rp[a]) \in Nat /\ PaidSum(pd[a]) \in Nat
      BY <2>1, PaidSumNat
    <3> QED BY <2>1, <3>1, <3>2, <3>3, RemainingIs
  <2>4. \/ lg[a] = longs[a]
        \/ /\ lg[a] = [longs[a] EXCEPT !.state = "running"]
           /\ Remaining(longs[a].total, rp[a]) > Tolerance
    BY DEF RevertLongs
  <2> HIDE DEF rp, pd, lg
  <2> QED BY <2>1, <2>2, <2>3, <2>4, BalancedLess
<1>7. \A a \in Longs : pd[a][p].amount = 0
  <2> HIDE DEF pd, rp
  <2> QED BY <1>3, <1>4
<1> QED BY <1>4, <1>5, <1>6, <1>7

(* What linking the advances taken makes of rows in balance. *)
LEMMA LinkBalanced ==
  ASSUME NEW lg \in [Longs -> LongRows], NEW pd \in [Longs -> Payments],
         \A a \in Longs : Balanced(lg[a], pd[a]),
         NEW p \in Payrolls, NEW taken \in SUBSET Longs,
         \A a \in taken : pd[a][p].amount = 0 /\ DrawOf(lg, pd, a) > 0
  PROVE  LET lg2 == LinkLongs(taken, lg, pd)
             pd2 == LinkPaid(p, taken, lg, pd)
         IN /\ lg2 \in [Longs -> LongRows] /\ pd2 \in [Longs -> Payments]
            /\ \A a \in Longs : /\ Balanced(lg2[a], pd2[a])
                                /\ lg2[a].total = lg[a].total
<1> DEFINE lg2 == LinkLongs(taken, lg, pd)
           pd2 == LinkPaid(p, taken, lg, pd)
<1>1. ASSUME NEW a \in Longs
      PROVE  /\ lg2[a] \in LongRows /\ pd2[a] \in Payments /\ Balanced(lg2[a], pd2[a])
             /\ lg2[a].total = lg[a].total
  <2>1. lg[a] \in LongRows /\ pd[a] \in Payments /\ Balanced(lg[a], pd[a])
    OBVIOUS
  <2>2. CASE a \notin taken
    <3>1. lg2[a] = lg[a] /\ pd2[a] = pd[a]
      BY <2>2 DEF LinkLongs, LinkPaid
    <3> QED BY <2>1, <3>1
  <2>3. CASE a \in taken
    <3> DEFINE settle == Owner[a] \in departed
               d == Draw(lg[a], pd[a], settle)
               state == IF Remaining(lg[a].total, pd[a]) - d <= Tolerance
                        THEN "done" ELSE "running"
    <3>1. /\ lg2[a] = [lg[a] EXCEPT !.state = state]
          /\ pd2[a] = [pd[a] EXCEPT ![p] = [amount |-> d, line |-> p]]
      BY <2>3 DEF LinkLongs, LinkPaid, DrawOf
    <3>2. settle \in BOOLEAN /\ d > 0 /\ pd[a][p].amount = 0 /\ p \in Keys
      BY <2>3 DEF DrawOf, Keys
    <3>3. /\ [pd[a] EXCEPT ![p] = [amount |-> d, line |-> p]] \in Payments
          /\ [lg[a] EXCEPT !.state = state] \in LongRows
          /\ Balanced([lg[a] EXCEPT !.state = state],
                      [pd[a] EXCEPT ![p] = [amount |-> d, line |-> p]])
      <4> HIDE DEF settle
      <4> QED BY <2>1, <3>2, BalancedMore
    <3>4. [lg[a] EXCEPT !.state = state].total = lg[a].total
      BY <2>1 DEF LongRows
    <3> HIDE DEF lg2, pd2, state, d
    <3> QED BY <3>1, <3>3, <3>4
  <2> QED BY <2>2, <2>3
<1>2. lg2 = [a \in Longs |-> lg2[a]] /\ pd2 = [a \in Longs |-> pd2[a]]
  BY DEF LinkLongs, LinkPaid
<1>3. lg2 \in [Longs -> LongRows] /\ pd2 \in [Longs -> Payments]
  <2> HIDE DEF lg2, pd2
  <2> QED BY <1>1, <1>2
<1> QED BY <1>1, <1>3

LEMMA ApplyBalanced ==
  ASSUME BalanceInv, NEW p \in Payrolls, NEW L \in SUBSET Employees,
         NEW D \in SUBSET Employees, ApplyAdvances(p, L, D)
  PROVE  BalanceInv' /\ SameTotals
<1> DEFINE lg == RevertLongs(p)
           pd == UnpointPaid(RevertPaid(p), p, D)
           taken == {a \in Longs : TakesLong(p, L, lg, pd, a)}
<1>1. longs' = LinkLongs(taken, lg, pd) /\ paid' = LinkPaid(p, taken, lg, pd)
  BY DEF ApplyAdvances
<1>2. /\ lg \in [Longs -> LongRows] /\ pd \in [Longs -> Payments]
      /\ \A a \in Longs : /\ Balanced(lg[a], pd[a]) /\ pd[a][p].amount = 0
                          /\ lg[a].total = longs[a].total
  BY RevertBalanced
<1>3. taken \in SUBSET Longs /\ \A a \in taken : DrawOf(lg, pd, a) > 0
  BY DEF TakesLong
<1> HIDE DEF lg, pd, taken
<1>4. /\ longs' \in [Longs -> LongRows] /\ paid' \in [Longs -> Payments]
      /\ \A a \in Longs : /\ Balanced(longs'[a], paid'[a])
                          /\ longs'[a].total = lg[a].total
  BY <1>1, <1>2, <1>3, LinkBalanced
<1> QED BY <1>2, <1>4 DEF BalanceInv, SameTotals, Balanced

LEMMA FailsBalanced ==
  ASSUME BalanceInv, NEW p \in Payrolls, CalculateFails(p)
  PROVE  BalanceInv' /\ SameTotals
<1> DEFINE D == On(p) \ Kept(p)
<1>1. longs' = RevertLongs(p) /\ paid' = UnpointPaid(RevertPaid(p), p, D)
  BY DEF CalculateFails
<1>2. D \in SUBSET Employees
  BY DEF On
<1> HIDE DEF D
<1>3. /\ longs' \in [Longs -> LongRows] /\ paid' \in [Longs -> Payments]
      /\ \A a \in Longs : /\ Balanced(longs'[a], paid'[a])
                          /\ longs'[a].total = longs[a].total
  BY <1>1, <1>2, RevertBalanced
<1> QED BY <1>3 DEF BalanceInv, SameTotals, Balanced

LEMMA LongOnlyBalanced ==
  ASSUME BalanceInv, NEW p \in Payrolls, LinkLongOnly(p)
  PROVE  BalanceInv' /\ SameTotals
<1> DEFINE taken == {a \in Longs : TakesLongOnly(p, a)}
<1>1. longs' = LinkLongs(taken, longs, paid) /\ paid' = LinkPaid(p, taken, longs, paid)
  BY DEF LinkLongOnly
<1>2. /\ taken \in SUBSET Longs
      /\ \A a \in taken : paid[a][p].amount = 0 /\ DrawOf(longs, paid, a) > 0
  BY NoPaymentRow DEF TakesLongOnly
<1> HIDE DEF taken
<1>3. /\ longs' \in [Longs -> LongRows] /\ paid' \in [Longs -> Payments]
      /\ \A a \in Longs : /\ Balanced(longs'[a], paid'[a])
                          /\ longs'[a].total = longs[a].total
  BY <1>1, <1>2, LinkBalanced DEF BalanceInv
<1> QED BY <1>3 DEF BalanceInv, SameTotals, Balanced

(* Payments that lose their line, or are dropped, while no advance changes. *)
LEMMA FewerBalanced ==
  ASSUME BalanceInv, longs' = longs, paid' \in [Longs -> Payments],
         \A a \in Longs, q \in Payrolls : paid'[a][q].amount <= paid[a][q].amount
  PROVE  BalanceInv' /\ SameTotals
<1>1. ASSUME NEW a \in Longs PROVE Balanced(longs[a], paid'[a])
  <2>1. /\ longs[a] \in LongRows /\ paid[a] \in Payments /\ paid'[a] \in Payments
        /\ Balanced(longs[a], paid[a])
    BY DEF BalanceInv
  <2> QED BY <2>1, BalancedLess
<1> QED BY <1>1 DEF BalanceInv, SameTotals, Balanced

(* One advance is rewritten, or only changes its state. *)
Rewrites ==
  \E a \in Longs :
    /\ longs' = [longs EXCEPT ![a] = longs'[a]] /\ sheet' = sheet
    /\ \A b \in Longs, p \in Payrolls :
         sheet[p] = "confirmed" => paid'[b][p] = paid[b][p]

LEMMA InstalmentInt ==
  ASSUME NEW total \in Nat, NEW n \in Nat \ {0}
  PROVE  Instalment(total, n) \in Int
<1>1. 2 * total + n \in Int /\ 2 * n \in Int /\ 2 * n # 0
  OBVIOUS
<1> QED BY <1>1 DEF Instalment

(* The advance a becomes long, with the payments pays. *)
LEMMA OneBalanced ==
  ASSUME BalanceInv, NEW a \in Longs, NEW long \in LongRows, NEW pays \in Payments,
         longs' = [longs EXCEPT ![a] = long], paid' = [paid EXCEPT ![a] = pays],
         Balanced(long, pays)
  PROVE  BalanceInv'
<1>1. longs' \in [Longs -> LongRows] /\ paid' \in [Longs -> Payments]
  BY DEF BalanceInv
<1>2. ASSUME NEW b \in Longs PROVE Balanced(longs'[b], paid'[b])
  <2>1. CASE b = a
    <3>1. longs'[b] = long /\ paid'[b] = pays
      BY <2>1 DEF BalanceInv
    <3> QED BY <3>1
  <2>2. CASE b # a
    <3>1. longs'[b] = longs[b] /\ paid'[b] = paid[b]
      BY <2>2 DEF BalanceInv
    <3> QED BY <3>1 DEF BalanceInv
  <2> QED BY <2>1, <2>2
<1> QED BY <1>1, <1>2 DEF BalanceInv, Balanced

LEMMA StateBalanced ==
  ASSUME BalanceInv, NEW a \in Longs,
         ConfirmLong(a) \/ CancelLong(a) \/ StopLong(a) \/ LockLong(a)
  PROVE  BalanceInv' /\ SameTotals
<1>0. /\ longs[a] \in LongRows /\ paid[a] \in Payments /\ Balanced(longs[a], paid[a])
      /\ longs \in [Longs -> LongRows] /\ paid \in [Longs -> Payments]
  BY DEF BalanceInv
<1>1. PICK long : /\ longs' = [longs EXCEPT ![a] = long] /\ paid' = paid
                  /\ \/ /\ long = [longs[a] EXCEPT !.state = "running"]
                        /\ longs[a].state = "draft"
                     \/ /\ long = [longs[a] EXCEPT !.state = "cancelled"]
                        /\ \A p \in Payrolls : paid[a][p] = NoPayment
                     \/ /\ long = [longs[a] EXCEPT !.state = "stopped"]
                        /\ longs[a].state = "running"
                     \/ long = [longs[a] EXCEPT !.locked = TRUE]
  BY DEF ConfirmLong, CancelLong, StopLong, LockLong, SetLong
<1>2. /\ long \in LongRows /\ long.total = longs[a].total /\ long.given = longs[a].given
      /\ \/ long.state = "running" /\ longs[a].state = "draft"
         \/ long.state = "cancelled" /\ \A p \in Payrolls : paid[a][p] = NoPayment
         \/ long.state = "stopped" /\ longs[a].state = "running"
         \/ long.state = longs[a].state
  BY <1>0, <1>1 DEF LongRows, LongStates
<1>3. ASSUME \A p \in Payrolls : paid[a][p] = NoPayment PROVE PaidSum(paid[a]) = 0
  <2> DEFINE f == [p \in Payrolls |-> paid[a][p].amount]
  <2>1. \A p \in Payrolls : f[p] = 0
    BY <1>3, NoPaymentRow
  <2>2. SumFunctionOnSet(f, Payrolls) = 0
    <3> HIDE DEF f
    <3> QED BY <2>1, SumOfZeros, LedgerAssumption
  <2> QED BY <2>2 DEF PaidSum
<1>4. Balanced(long, paid[a])
  BY <1>0, <1>2, <1>3 DEF Balanced
<1>5. paid' = [paid EXCEPT ![a] = paid[a]]
  BY <1>0, <1>1
<1>6. BalanceInv'
  BY <1>0, <1>1, <1>2, <1>4, <1>5, OneBalanced
<1>7. SameTotals
  BY <1>0, <1>1, <1>2 DEF SameTotals
<1> QED BY <1>6, <1>7

LEMMA CreateBalanced ==
  ASSUME BalanceInv, NEW a \in Longs, NEW total \in Totals, NEW n \in Counts,
         CreateLong(a, total, n)
  PROVE  BalanceInv' /\ Rewrites
<1>0. /\ longs[a] \in LongRows /\ paid[a] \in Payments /\ Balanced(longs[a], paid[a])
      /\ longs \in [Longs -> LongRows] /\ paid \in [Longs -> Payments]
  BY DEF BalanceInv
<1> DEFINE long == [state |-> "draft", total |-> total, inst |-> Instalment(total, n),
                    locked |-> FALSE, given |-> total]
<1>1. /\ longs[a].state = "none" /\ longs' = [longs EXCEPT ![a] = long]
      /\ paid' = paid /\ sheet' = sheet
  BY DEF CreateLong, SetLong, sheetVars
<1>2. total \in Nat /\ Instalment(total, n) \in Int
  BY InstalmentInt, LedgerAssumption
<1>3. long \in LongRows
  BY <1>2 DEF LongRows, LongStates, Tolerance
<1>4. PaidSum(paid[a]) = 0
  BY <1>0, <1>1 DEF Balanced
<1>5. Balanced(long, paid[a])
  <2>1. Remaining(total, paid[a]) = IF total > 0 THEN total - 0 ELSE 0
    BY <1>0, <1>2, <1>4, RemainingIs
  <2> QED BY <1>2, <1>4, <2>1 DEF Balanced, Tolerance
<1> HIDE DEF long
<1>6. paid' = [paid EXCEPT ![a] = paid[a]]
  BY <1>0, <1>1
<1>7. BalanceInv'
  BY <1>1, <1>3, <1>5, <1>6, <1>0, OneBalanced
<1>8. Rewrites
  BY <1>0, <1>1 DEF Rewrites
<1> QED BY <1>7, <1>8

(* Payments on sheets that are not confirmed are dropped. *)
LEMMA Detached ==
  ASSUME BalanceInv, NEW a \in Longs, Detach(a)
  PROVE  /\ paid'[a] \in Payments /\ paid' = [paid EXCEPT ![a] = paid'[a]]
         /\ \A p \in Payrolls :
              /\ paid'[a][p] = IF p \in Unconfirmed(a) THEN NoPayment ELSE paid[a][p]
              /\ paid'[a][p].amount <= paid[a][p].amount
         /\ \A b \in Longs, p \in Payrolls :
              sheet[p] = "confirmed" => paid'[b][p] = paid[b][p]
         /\ sheet' = sheet
<1>0. paid \in [Longs -> Payments]
  BY DEF BalanceInv
<1> DEFINE left == [p \in Payrolls |->
              IF p \in Unconfirmed(a) THEN NoPayment ELSE paid[a][p]]
<1>1. paid' = [paid EXCEPT ![a] = left] /\ sheet' = sheet
  BY DEF Detach, sheetVars
<1>2. paid'[a] = left
  BY <1>0, <1>1
<1>3. left \in Payments
  BY <1>0, NoPaymentRow DEF Payments
<1>4. \A p \in Payrolls : left[p].amount <= paid[a][p].amount
  <2>1. \A p \in Payrolls : paid[a][p].amount \in Nat
    BY <1>0 DEF Payments, PayRows
  <2> QED BY <2>1, NoPaymentRow
<1>5. \A p \in Payrolls : sheet[p] = "confirmed" => left[p] = paid[a][p]
  BY DEF Unconfirmed
<1> QED BY <1>0, <1>1, <1>2, <1>3, <1>4, <1>5

LEMMA UpdateBalanced ==
  ASSUME BalanceInv, NEW a \in Longs, NEW total \in Totals, NEW n \in Counts,
         UpdateLong(a, total, n)
  PROVE  BalanceInv' /\ Rewrites
<1>0. /\ longs[a] \in LongRows /\ longs \in [Longs -> LongRows]
  BY DEF BalanceInv
<1> DEFINE long == [longs[a] EXCEPT !.total = total, !.inst = Instalment(total, n),
                                    !.given = total]
<1>1. /\ longs[a].state \in {"draft", "running"} /\ longs' = [longs EXCEPT ![a] = long]
      /\ \A p \in Payrolls : paid[a][p] # NoPayment => p \in Unconfirmed(a)
      /\ Detach(a)
  BY <1>0 DEF UpdateLong
<1>2. /\ paid'[a] \in Payments /\ paid' = [paid EXCEPT ![a] = paid'[a]]
      /\ \A p \in Payrolls : paid'[a][p] = NoPayment
      /\ \A b \in Longs, p \in Payrolls :
              sheet[p] = "confirmed" => paid'[b][p] = paid[b][p]
      /\ sheet' = sheet
  BY <1>1, Detached
<1>3. PaidSum(paid'[a]) = 0
  <2> DEFINE f == [p \in Payrolls |-> paid'[a][p].amount]
  <2>1. \A p \in Payrolls : f[p] = 0
    BY <1>2, NoPaymentRow
  <2>2. SumFunctionOnSet(f, Payrolls) = 0
    <3> HIDE DEF f
    <3> QED BY <2>1, SumOfZeros, LedgerAssumption
  <2> QED BY <2>2 DEF PaidSum
<1>4. total \in Nat /\ Instalment(total, n) \in Int
  BY InstalmentInt, LedgerAssumption
<1>5. /\ long \in LongRows /\ long.total = total /\ long.state = longs[a].state
      /\ long.given = total
  BY <1>0, <1>4 DEF LongRows, LongStates, Tolerance
<1> HIDE DEF long
<1>6. Balanced(long, paid'[a])
  <2>1. Remaining(total, paid'[a]) = IF total > 0 THEN total - 0 ELSE 0
    BY <1>2, <1>3, <1>4, RemainingIs
  <2> QED BY <1>1, <1>3, <1>4, <1>5, <2>1 DEF Balanced, Tolerance
<1>7. BalanceInv'
  BY <1>1, <1>2, <1>5, <1>6, OneBalanced
<1>8. Rewrites
  BY <1>0, <1>1, <1>2 DEF Rewrites
<1> QED BY <1>7, <1>8

LEMMA AdjustBalanced ==
  ASSUME BalanceInv, NEW a \in Longs, NEW remaining \in Totals, NEW n \in Counts,
         AdjustRemaining(a, remaining, n)
  PROVE  BalanceInv' /\ Rewrites
<1>0. /\ longs[a] \in LongRows /\ longs \in [Longs -> LongRows] /\ paid[a] \in Payments
  BY DEF BalanceInv
<1> DEFINE total == PaidSum(paid[a]) + remaining
           long == [longs[a] EXCEPT !.total = total, !.inst = Instalment(remaining, n),
                                    !.given = remaining]
<1>1. /\ longs[a].state = "running" /\ longs' = [longs EXCEPT ![a] = long]
      /\ Detach(a)
  BY <1>0 DEF AdjustRemaining
<1>2. /\ paid'[a] \in Payments /\ paid' = [paid EXCEPT ![a] = paid'[a]]
      /\ \A p \in Payrolls : paid'[a][p].amount <= paid[a][p].amount
      /\ \A b \in Longs, p \in Payrolls :
              sheet[p] = "confirmed" => paid'[b][p] = paid[b][p]
      /\ sheet' = sheet
  BY <1>1, Detached
<1>3. /\ PaidSum(paid'[a]) <= PaidSum(paid[a])
      /\ PaidSum(paid'[a]) \in Nat /\ PaidSum(paid[a]) \in Nat
  <2>1. PICK pays \in Payments : pays = paid'[a]
    BY <1>2
  <2>2. PaidSum(pays) <= PaidSum(paid[a]) /\ PaidSum(pays) \in Nat
    BY <1>0, <1>2, <2>1, PaidLess, PaidSumNat
  <2>3. PaidSum(paid[a]) \in Nat
    BY <1>0, PaidSumNat
  <2> QED BY <2>1, <2>2, <2>3
<1>4. /\ remaining \in Nat \ {0} /\ Instalment(remaining, n) \in Int /\ total \in Nat
  BY <1>3, InstalmentInt, LedgerAssumption
<1>5. /\ long \in LongRows /\ long.total = total /\ long.state = "running"
      /\ long.given = remaining
  <2> HIDE DEF total
  <2> QED BY <1>0, <1>1, <1>4 DEF LongRows, LongStates, Tolerance
<1> HIDE DEF long
<1>6. Balanced(long, paid'[a])
  <2>1. Remaining(total, paid'[a])
          = IF total > PaidSum(paid'[a]) THEN total - PaidSum(paid'[a]) ELSE 0
    <3> HIDE DEF total
    <3>1. PICK pays \in Payments : pays = paid'[a]
      BY <1>2
    <3>2. Remaining(total, pays)
            = IF total > PaidSum(pays) THEN total - PaidSum(pays) ELSE 0
      BY <1>4, RemainingIs
    <3> QED BY <3>1, <3>2
  <2> QED BY <1>3, <1>4, <1>5, <2>1 DEF Balanced, Tolerance
<1>7. BalanceInv'
  <2>1. PICK pays \in Payments : pays = paid'[a]
    BY <1>2
  <2> QED BY <1>1, <1>2, <1>5, <1>6, <2>1, OneBalanced
<1>8. Rewrites
  BY <1>0, <1>1, <1>2 DEF Rewrites
<1> QED BY <1>7, <1>8

LEMMA SheetBalanced ==
  ASSUME BalanceInv, NEW p \in Payrolls, SheetStep(p)
  PROVE  BalanceInv' /\ SameTotals
<1>0. On(p) \in SUBSET Employees /\ {} \in SUBSET Employees
  BY DEF On
<1>1. ASSUME UNCHANGED longVars PROVE BalanceInv' /\ SameTotals
  BY <1>1 DEF longVars, BalanceInv, Balanced, SameTotals
<1>2. ASSUME NEW punched \in SUBSET Employees, Rebuild(p, punched)
      PROVE  BalanceInv' /\ SameTotals
  <2> DEFINE D == On(p) \ Kept(p)
             L == Kept(p) \cup {e \in punched : ~SkipsRebuild(p, e)}
  <2>1. ApplyAdvances(p, L, D)
    BY <1>2 DEF Rebuild
  <2>2. L \in SUBSET Employees /\ D \in SUBSET Employees
    BY <1>0 DEF Kept
  <2> HIDE DEF L, D
  <2> QED BY <2>1, <2>2, ApplyBalanced
<1>3. ASSUME LinkAll(p) PROVE BalanceInv' /\ SameTotals
  BY <1>0, <1>3, ApplyBalanced DEF LinkAll
<1>4. ASSUME NEW punched \in SUBSET Employees, Calculate(p, punched)
      PROVE  BalanceInv' /\ SameTotals
  BY <1>2, <1>3, <1>4 DEF Calculate
<1>5. ASSUME NEW punched \in SUBSET Employees, NEW clears \in BOOLEAN,
             RebuildFromImport(p, punched, clears)
      PROVE  BalanceInv' /\ SameTotals
  BY <1>2, <1>5 DEF RebuildFromImport
<1>6. ASSUME NEW e \in Employees, NEW punched \in BOOLEAN, CalculateSingle(p, e, punched)
      PROVE  BalanceInv' /\ SameTotals
  <2>1. On(p) \cup {e} \in SUBSET Employees
    BY <1>0
  <2>2. ApplyAdvances(p, On(p) \cup {e}, {}) \/ UNCHANGED longVars
    BY <1>6 DEF CalculateSingle
  <2> QED BY <1>0, <1>1, <2>1, <2>2, ApplyBalanced
<1>7. ASSUME LinkAdvances(p) PROVE BalanceInv' /\ SameTotals
  BY <1>0, <1>7, ApplyBalanced DEF LinkAdvances
<1>8. ASSUME LinkDeductionsAndAdvances(p) PROVE BalanceInv' /\ SameTotals
  BY <1>3, <1>8 DEF LinkDeductionsAndAdvances
<1>9. CreatePayroll(p) \/ LinkDeductionsOnly(p) \/ BackToDraft(p) \/ ConfirmPayroll(p)
        => UNCHANGED longVars
  BY DEF CreatePayroll, LinkDeductionsOnly, BackToDraft, ConfirmPayroll
<1> QED
  BY <1>1, <1>4, <1>5, <1>6, <1>7, <1>8, <1>9, FailsBalanced, LongOnlyBalanced
  DEF SheetStep

LEMMA LineBalanced ==
  ASSUME BalanceInv, NEW p \in Payrolls, LineStep(p)
  PROVE  BalanceInv' /\ SameTotals
<1>0. /\ paid \in [Longs -> Payments]
      /\ \A a \in Longs, x \in Payrolls : paid[a][x] \in PayRows /\ paid[a][x].amount \in Nat
  BY DEF BalanceInv, Payments, PayRows
<1>1. ASSUME UNCHANGED longVars PROVE BalanceInv' /\ SameTotals
  BY <1>1 DEF longVars, BalanceInv, Balanced, SameTotals
<1>2. ASSUME longs' = longs, paid' = [a \in Longs |-> [x \in Payrolls |-> paid'[a][x]]],
             \A a \in Longs, x \in Payrolls :
               \/ paid'[a][x] = paid[a][x] \/ paid'[a][x] = NoPayment
               \/ \E k \in Keys : paid'[a][x] = [paid[a][x] EXCEPT !.line = k]
      PROVE  BalanceInv' /\ SameTotals
  <2>1. ASSUME NEW a \in Longs, NEW x \in Payrolls
        PROVE  paid'[a][x] \in PayRows /\ paid'[a][x].amount <= paid[a][x].amount
    <3>1. \A k \in Keys : /\ [paid[a][x] EXCEPT !.line = k] \in PayRows
                          /\ [paid[a][x] EXCEPT !.line = k].amount = paid[a][x].amount
      BY <1>0 DEF PayRows
    <3>2. paid[a][x] \in PayRows /\ paid[a][x].amount \in Nat
      BY <1>0
    <3>3. CASE paid'[a][x] = paid[a][x]
      BY <3>2, <3>3
    <3>4. CASE paid'[a][x] = NoPayment
      BY <3>2, <3>4, NoPaymentRow
    <3>5. CASE \E k \in Keys : paid'[a][x] = [paid[a][x] EXCEPT !.line = k]
      BY <3>1, <3>2, <3>5
    <3> QED BY <1>2, <3>3, <3>4, <3>5
  <2>2. paid' \in [Longs -> Payments]
    BY <1>2, <2>1 DEF Payments
  <2> QED BY <1>2, <2>1, <2>2, FewerBalanced
<1>3. ASSUME NEW e \in Employees, DeleteLine(p, e) PROVE BalanceInv' /\ SameTotals
  <2>1. longs' = longs /\ paid' = UnpointPaid(paid, p, {e})
    BY <1>3 DEF DeleteLine
  <2>2. paid' = [a \in Longs |-> [x \in Payrolls |-> paid'[a][x]]]
    BY <2>1 DEF UnpointPaid
  <2>3. \A a \in Longs, x \in Payrolls :
          \/ paid'[a][x] = paid[a][x]
          \/ paid'[a][x] = [paid[a][x] EXCEPT !.line = None]
    BY <2>1 DEF UnpointPaid
  <2> QED BY <1>2, <2>1, <2>2, <2>3 DEF Keys
<1>4. ASSUME NEW e \in Employees, NEW q \in Payrolls, MoveLine(p, q, e)
      PROVE  BalanceInv' /\ SameTotals
  <2>1. longs' = longs
    BY <1>4 DEF MoveLine
  <2>2. paid' = [a \in Longs |-> [x \in Payrolls |->
           IF Owner[a] = e /\ paid[a][x].line = p
           THEN [paid[a][x] EXCEPT !.line = q] ELSE paid[a][x]]]
    BY <1>4 DEF MoveLine
  <2>3. paid' = [a \in Longs |-> [x \in Payrolls |-> paid'[a][x]]]
    BY <2>2
  <2>4. \A a \in Longs, x \in Payrolls :
          \/ paid'[a][x] = paid[a][x]
          \/ paid'[a][x] = [paid[a][x] EXCEPT !.line = q]
    BY <2>2
  <2> QED BY <1>2, <2>1, <2>3, <2>4 DEF Keys
<1>5. ASSUME NEW F \in SUBSET Employees, NEW fig \in [F -> Cells], NEW M \in SUBSET F,
             NEW touched \in SUBSET Deds, ImportPayroll(p, F, fig, M, touched)
      PROVE  BalanceInv' /\ SameTotals
  <2> DEFINE dropped == On(p) \ F
  <2>1. longs' = longs
    BY <1>5 DEF ImportPayroll
  <2>2. paid' = [a \in Longs |-> [q \in Payrolls |->
           IF Owner[a] \in dropped /\ paid[a][q].line = p
           THEN NoPayment ELSE paid[a][q]]]
    BY <1>5 DEF ImportPayroll
  <2> HIDE DEF dropped
  <2>3. paid' = [a \in Longs |-> [x \in Payrolls |-> paid'[a][x]]]
    BY <2>2
  <2>4. \A a \in Longs, x \in Payrolls :
          paid'[a][x] = paid[a][x] \/ paid'[a][x] = NoPayment
    BY <2>2
  <2> QED BY <1>2, <2>1, <2>3, <2>4
<1>6. \A e \in Employees, kind \in HandKinds, n \in HandTotals, touched \in SUBSET Deds :
        UpdateLine(p, e, kind, n) \/ ImportBlank(p, touched) => UNCHANGED longVars
  BY DEF UpdateLine, ImportBlank
<1>7. CASE \E e \in Employees, kind \in HandKinds, n \in HandTotals :
             UpdateLine(p, e, kind, n)
  BY <1>1, <1>6, <1>7
<1>8. CASE \E touched \in SUBSET Deds : ImportBlank(p, touched)
  BY <1>1, <1>8 DEF ImportBlank
<1> QED BY <1>3, <1>4, <1>5, <1>7, <1>8 DEF LineStep

LEMMA BalanceStep ==
  ASSUME BalanceInv, [Next]_vars
  PROVE  BalanceInv' /\ (SameTotals \/ Rewrites)
<1>1. ASSUME UNCHANGED longVars PROVE BalanceInv' /\ SameTotals
  BY <1>1 DEF longVars, BalanceInv, Balanced, SameTotals
<1>2. CASE \E p \in Payrolls : SheetStep(p)
  BY <1>2, SheetBalanced
<1>3. CASE \E p \in Edited : LineStep(p)
  BY <1>3, LineBalanced, LedgerAssumption
<1>4. CASE RowStep
  <2>1. CASE \E s \in Shorts : CreateShort(s) \/ CancelShort(s)
    BY <1>1, <2>1 DEF CreateShort, CancelShort
  <2>2. CASE \E d \in Deds : CreateDed(d) \/ CancelDed(d) \/ DeleteDed(d)
    BY <1>1, <2>2 DEF CreateDed, CancelDed, DeleteDed
  <2>3. CASE \E a \in Longs : ConfirmLong(a) \/ CancelLong(a) \/ StopLong(a) \/ LockLong(a)
    BY <2>3, StateBalanced
  <2>4. CASE \E a \in Longs, total \in Totals, n \in Counts :
               CreateLong(a, total, n) \/ UpdateLong(a, total, n)
    BY <2>4, CreateBalanced, UpdateBalanced
  <2>5. CASE \E a \in Longs, remaining \in Totals, n \in Counts :
               AdjustRemaining(a, remaining, n)
    BY <2>5, AdjustBalanced
  <2> QED BY <1>4, <2>1, <2>2, <2>3, <2>4, <2>5 DEF RowStep
<1>5. CASE EmployeeStep
  BY <1>1, <1>5 DEF EmployeeStep, Leave, Return
<1>6. CASE UNCHANGED vars
  BY <1>1, <1>6 DEF vars
<1> QED BY <1>2, <1>3, <1>4, <1>5, <1>6 DEF Next

LEMMA BalanceInit == Init => BalanceInv
<1> SUFFICES ASSUME Init PROVE BalanceInv
  OBVIOUS
<1> DEFINE pays == [p \in Payrolls |-> NoPayment]
           long == [state |-> "none", total |-> 0, inst |-> 0, locked |-> FALSE, given |-> 0]
<1>1. longs = [a \in Longs |-> long] /\ paid = [a \in Longs |-> pays]
  BY DEF Init
<1>2. long \in LongRows /\ pays \in Payments
  BY NoPaymentRow DEF LongRows, LongStates, Payments
<1>3. PaidSum(pays) = 0
  <2> DEFINE f == [p \in Payrolls |-> pays[p].amount]
  <2>1. \A p \in Payrolls : f[p] = 0
    BY NoPaymentRow
  <2>2. SumFunctionOnSet(f, Payrolls) = 0
    <3> HIDE DEF f
    <3> QED BY <2>1, SumOfZeros, LedgerAssumption
  <2> QED BY <2>2 DEF PaidSum
<1>4. Balanced(long, pays)
  <2>1. long.total = 0 /\ long.state = "none"
    OBVIOUS
  <2> HIDE DEF long, pays
  <2> QED BY <1>3, <2>1 DEF Balanced
<1> HIDE DEF long, pays
<1> QED BY <1>1, <1>2, <1>4 DEF BalanceInv

LEMMA BalanceKeeps == BalanceInv => BalanceKept
  BY DEF BalanceInv, BalanceKept, Balanced

(* The payments of every long advance are in balance with it. *)
THEOREM BalancesHold == Spec => []BalanceInv
<1>1. BalanceInv /\ [Next]_vars => BalanceInv'
  BY BalanceStep
<1> QED BY <1>1, BalanceInit, PTL DEF Spec

(* No handler lets the payments of a long advance exceed it, or leaves one *)
(* running with nothing left to collect.                                   *)
THEOREM LedgerBalances == Spec => []BalanceKept
  BY BalancesHold, BalanceKeeps, PTL

-----------------------------------------------------------------------------
(* Part 3, the figures of the lines.                                       *)

(* The figures of a line. *)
Held(p, e) == {s \in Shorts : /\ Owner[s] = e
                              /\ shorts[s].payroll = p /\ shorts[s].line = p}

(* What the payment of a on sheet p puts on the line of p. *)
Booked(pd, a, p) == IF pd[a][p].line = p THEN pd[a][p].amount ELSE 0

(* The ledger itself wrote the figure of e on p. *)
Computed(p, e, kind) == <<p, e>> \in lines \ moved /\ <<p, e, kind>> \notin byHand

ShortAt(p, e) ==
  Computed(p, e, "short") => shortTotal[<<p, e>>] = SumFunctionOnSet(Amount, Held(p, e))

LongAt(p, e) ==
  Computed(p, e, "long") => longTotal[<<p, e>>] = BookedOnSheet(paid, p, e)

TotalsOK == shortTotal \in [Lines -> Int] /\ longTotal \in [Lines -> Int]

(* A line that does not exist charges nothing. *)
NoLineNoTotal == \A l \in Lines \ lines : shortTotal[l] = 0 /\ longTotal[l] = 0

(* A payment is on a line of its own sheet, or on one that was moved. *)
PointsWell(a, q) ==
  LET k == paid[a][q].line IN
  k # None => <<k, Owner[a]>> \in lines /\ (k = q \/ <<k, Owner[a]>> \in moved)

AgreeInv ==
  /\ TotalsOK /\ NoLineNoTotal
  /\ \A a \in Longs, q \in Payrolls : PointsWell(a, q)
  /\ \A p \in Payrolls, e \in Employees : ShortAt(p, e) /\ LongAt(p, e)

(* The rows of one employee. *)
LEMMA RowsOf ==
  ASSUME NEW e
  PROVE  /\ IsFiniteSet({s \in Shorts : Owner[s] = e})
         /\ IsFiniteSet({a \in Longs : Owner[a] = e})
  BY FS_Subset, LedgerAssumption

LEMMA BookedRows ==
  ASSUME NEW pd, NEW p \in Payrolls, NEW e
  PROVE  BookedOnSheet(pd, p, e)
           = SumFunctionOnSet([a \in Longs |-> Booked(pd, a, p)],
                              {a \in Longs : Owner[a] = e})
<1>1. [a \in Longs |-> OnLine(pd, a, p)[p]] = [a \in Longs |-> Booked(pd, a, p)]
  BY DEF OnLine, Booked
<1> QED BY <1>1 DEF BookedOnSheet

LEMMA BookedSame ==
  ASSUME NEW pd, NEW new, NEW p \in Payrolls, NEW e,
         \A a \in Longs : Owner[a] = e => Booked(new, a, p) = Booked(pd, a, p)
  PROVE  BookedOnSheet(new, p, e) = BookedOnSheet(pd, p, e)
<1> DEFINE T == {a \in Longs : Owner[a] = e}
           f == [a \in Longs |-> Booked(pd, a, p)]
           g == [a \in Longs |-> Booked(new, a, p)]
<1>1. IsFiniteSet(T) /\ \A a \in T : f[a] = g[a]
  BY RowsOf
<1>2. SumFunctionOnSet(f, T) = SumFunctionOnSet(g, T)
  <2> HIDE DEF f, g, T
  <2> QED BY <1>1, SumSame
<1> QED BY <1>2, BookedRows

LEMMA BookedNone ==
  ASSUME NEW pd, NEW p \in Payrolls, NEW e,
         \A a \in Longs : Owner[a] = e => Booked(pd, a, p) = 0
  PROVE  BookedOnSheet(pd, p, e) = 0
<1> DEFINE T == {a \in Longs : Owner[a] = e}
           f == [a \in Longs |-> Booked(pd, a, p)]
<1>1. IsFiniteSet(T) /\ \A a \in T : f[a] = 0
  BY RowsOf
<1>2. SumFunctionOnSet(f, T) = 0
  <2> HIDE DEF f, T
  <2> QED BY <1>1, SumOfZeros
<1> QED BY <1>2, BookedRows

LEMMA BookedCell ==
  ASSUME NEW pd \in [Longs -> Payments], NEW p \in Payrolls, NEW a \in Longs
  PROVE  Booked(pd, a, p) \in Int
  BY DEF Booked, Payments, PayRows

LEMMA BookedInt ==
  ASSUME NEW pd \in [Longs -> Payments], NEW p \in Payrolls, NEW e
  PROVE  BookedOnSheet(pd, p, e) \in Int
<1> DEFINE T == {a \in Longs : Owner[a] = e}
           f == [a \in Longs |-> Booked(pd, a, p)]
<1>1. IsFiniteSet(T) /\ \A a \in T : f[a] \in Int
  BY BookedCell, RowsOf
<1>2. SumFunctionOnSet(f, T) \in Int
  <2> HIDE DEF f, T
  <2> QED BY <1>1, SumInt
<1> QED BY <1>2, BookedRows

LEMMA HeldInt ==
  ASSUME NEW T \in SUBSET Shorts
  PROVE  SumFunctionOnSet(Amount, T) \in Int
<1>1. IsFiniteSet(T) /\ \A s \in T : Amount[s] \in Int
  BY FS_Subset, LedgerAssumption
<1> QED BY <1>1, SumInt

(* A figure and its rows that stay as they are. *)
LEMMA ShortCell ==
  ASSUME AgreeInv, NEW p \in Payrolls, NEW e \in Employees,
         Computed(p, e, "short")' => Computed(p, e, "short"),
         shortTotal'[<<p, e>>] = shortTotal[<<p, e>>],
         \A s \in Shorts : Owner[s] = e =>
           (shorts'[s].payroll = p /\ shorts'[s].line = p
              <=> shorts[s].payroll = p /\ shorts[s].line = p)
  PROVE  ShortAt(p, e)'
<1>1. Held(p, e)' = Held(p, e)
  BY DEF Held
<1> QED BY <1>1 DEF ShortAt, AgreeInv

LEMMA LongCell ==
  ASSUME AgreeInv, NEW p \in Payrolls, NEW e \in Employees,
         Computed(p, e, "long")' => Computed(p, e, "long"),
         longTotal'[<<p, e>>] = longTotal[<<p, e>>],
         \A a \in Longs : Owner[a] = e => Booked(paid', a, p) = Booked(paid, a, p)
  PROVE  LongAt(p, e)'
<1>1. BookedOnSheet(paid', p, e) = BookedOnSheet(paid, p, e)
  <2>1. PICK x : x = paid'
    OBVIOUS
  <2>2. BookedOnSheet(x, p, e) = BookedOnSheet(paid, p, e)
    BY <2>1, BookedSame
  <2> QED BY <2>1, <2>2
<1> QED BY <1>1 DEF LongAt, AgreeInv

(* What a revert of sheet p, with the lines of D deleted, leaves of the    *)
(* payments and the short advances.                                        *)
LEMMA PaymentsLeft ==
  ASSUME BalanceInv, NEW p \in Payrolls, NEW D \in SUBSET Employees
  PROVE  LET pd == UnpointPaid(RevertPaid(p), p, D)
         IN \A a \in Longs, q \in Payrolls :
              /\ q = p => pd[a][q] = NoPayment
              /\ q # p /\ ~(Owner[a] \in D /\ paid[a][q].line = p)
                   => pd[a][q] = paid[a][q]
              /\ q # p /\ Owner[a] \in D /\ paid[a][q].line = p
                   => pd[a][q].line = None
<1> DEFINE rp == RevertPaid(p)
           pd == UnpointPaid(rp, p, D)
<1> SUFFICES ASSUME NEW a \in Longs, NEW q \in Payrolls
             PROVE  /\ q = p => pd[a][q] = NoPayment
                    /\ q # p /\ ~(Owner[a] \in D /\ paid[a][q].line = p)
                         => pd[a][q] = paid[a][q]
                    /\ q # p /\ Owner[a] \in D /\ paid[a][q].line = p
                         => pd[a][q].line = None
  OBVIOUS
<1>1. paid[a] \in Payments
  BY DEF BalanceInv
<1>2. rp[a][q] = IF q = p THEN NoPayment ELSE paid[a][q]
  BY <1>1 DEF RevertPaid, Payments
<1>3. pd[a][q] = IF Owner[a] \in D /\ rp[a][q].line = p
                 THEN [rp[a][q] EXCEPT !.line = None] ELSE rp[a][q]
  BY DEF UnpointPaid
<1>4. [paid[a][q] EXCEPT !.line = None].line = None
  BY <1>1 DEF Payments, PayRows
<1>5. NoPayment.line # p
  BY LedgerAssumption DEF NoPayment
<1> HIDE DEF pd, rp
<1> QED BY <1>2, <1>3, <1>4, <1>5

LEMMA ShortsLeft ==
  ASSUME LedgerInv, NEW p \in Payrolls, Open(p), NEW D \in SUBSET Employees
  PROVE  LET ss == Unpoint(RevertShorts(p), p, D)
         IN \A s \in Shorts :
              /\ ss[s].payroll # p
              /\ \A q \in Payrolls \ {p} :
                   /\ ss[s].payroll = q <=> shorts[s].payroll = q
                   /\ ss[s].payroll = q /\ ss[s].line = q
                        <=> shorts[s].payroll = q /\ shorts[s].line = q
<1> DEFINE rs == RevertShorts(p)
           ss == Unpoint(rs, p, D)
<1> SUFFICES ASSUME NEW s \in Shorts
             PROVE  /\ ss[s].payroll # p
                    /\ \A q \in Payrolls \ {p} :
                         /\ ss[s].payroll = q <=> shorts[s].payroll = q
                         /\ ss[s].payroll = q /\ ss[s].line = q
                              <=> shorts[s].payroll = q /\ shorts[s].line = q
  OBVIOUS
<1>1. shorts[s] \in ShortRows /\ None \notin Payrolls /\ None \in Keys
  BY TypeParts, LedgerAssumption DEF LedgerInv, Keys
<1>2. ~(shorts[s].payroll = p /\ shorts[s].deducted)
  BY DEF Open, LedgerInv, DeductedOnFinalSheet
<1>3. /\ rs[s] \in ShortRows /\ rs[s].payroll # p
      /\ rs[s] = shorts[s] \/ (shorts[s].payroll = p /\ rs[s].payroll = None)
  BY <1>1, <1>2 DEF RevertShorts, ShortRows, ShortStates
<1>4. ss[s] = IF Owner[s] \in D /\ rs[s].line = p
              THEN [rs[s] EXCEPT !.line = None] ELSE rs[s]
  BY DEF Unpoint, RevertShorts
<1>5. /\ [rs[s] EXCEPT !.line = None].payroll = rs[s].payroll
      /\ [rs[s] EXCEPT !.line = None].line = None
  BY <1>1, <1>3, PointShort
<1> HIDE DEF ss, rs
<1> QED BY <1>1, <1>3, <1>4, <1>5

(* What links leaves of the lines of p, those of the employees L. *)
LinesOf(p, L, D) ==
  /\ \A q \in Payrolls, e \in Employees :
       <<q, e>> \in lines' <=> IF q = p THEN e \in L ELSE <<q, e>> \in lines
  /\ moved' \subseteq moved
  /\ \A l \in moved \ moved' : l[1] = p /\ l[2] \in D

LEMMA ShortsAgree ==
  ASSUME LedgerInv, AgreeInv, NEW p \in Payrolls, Open(p),
         NEW L \in SUBSET Employees, NEW D \in SUBSET Employees,
         LinesOf(p, L, D), ApplyAdvances(p, L, D)
  PROVE  \A q \in Payrolls, e \in Employees : ShortAt(q, e)'
<1> DEFINE ss == Unpoint(RevertShorts(p), p, D)
<1> SUFFICES ASSUME NEW q \in Payrolls, NEW e \in Employees
             PROVE  ShortAt(q, e)'
  OBVIOUS
<1>1. /\ shorts' = LinkShorts(p, L, ss)
      /\ byHand' = {h \in byHand : h[1] # p}
      /\ <<q, e>> \in Lines
      /\ shortTotal'[<<q, e>>] = IF q # p THEN shortTotal[<<q, e>>]
                                 ELSE IF e \in L THEN ShortSum(p, L, ss, e) ELSE 0
  BY DEF ApplyAdvances, Lines
<1>2. \A s \in Shorts :
        /\ ss[s].payroll # p
        /\ \A x \in Payrolls \ {p} :
             /\ ss[s].payroll = x <=> shorts[s].payroll = x
             /\ ss[s].payroll = x /\ ss[s].line = x
                  <=> shorts[s].payroll = x /\ shorts[s].line = x
  BY ShortsLeft
<1>3. \A s \in Shorts : ss[s] \in ShortRows
  BY LedgerAssumption, TypeParts DEF LedgerInv, Unpoint, RevertShorts, ShortRows, ShortStates, Keys
<1> HIDE DEF ss
<1>4. \A s \in Shorts :
        /\ TakesShort(p, L, ss, s) => shorts'[s].payroll = p /\ shorts'[s].line = p
        /\ ~TakesShort(p, L, ss, s) => shorts'[s] = ss[s]
  BY <1>1, <1>3, ReserveShort DEF LinkShorts
<1>5. None \notin Payrolls
  BY LedgerAssumption
<1>6. CASE q = p
  <2>1. Held(q, e)' = {s \in Shorts : Owner[s] = e /\ TakesShort(p, L, ss, s)}
    BY <1>2, <1>4, <1>6 DEF Held
  <2>2. Computed(q, e, "short")' => e \in L
    BY <1>6 DEF Computed, LinesOf
  <2> QED BY <1>1, <1>6, <2>1, <2>2 DEF ShortAt, ShortSum
<1>7. CASE q # p
  <2>1. \A s \in Shorts : shorts'[s].payroll = q /\ shorts'[s].line = q
                           <=> shorts[s].payroll = q /\ shorts[s].line = q
    <3> SUFFICES ASSUME NEW s \in Shorts
                 PROVE  shorts'[s].payroll = q /\ shorts'[s].line = q
                           <=> shorts[s].payroll = q /\ shorts[s].line = q
      OBVIOUS
    <3>1. /\ ss[s].payroll = q <=> shorts[s].payroll = q
          /\ ss[s].payroll = q /\ ss[s].line = q
                  <=> shorts[s].payroll = q /\ shorts[s].line = q
      BY <1>2, <1>7
    <3>2. CASE TakesShort(p, L, ss, s)
      <4>1. ss[s].payroll # q
        BY <1>5, <1>7, <3>2 DEF TakesShort
      <4> QED BY <1>4, <1>7, <3>1, <3>2, <4>1
    <3>3. CASE ~TakesShort(p, L, ss, s)
      BY <1>4, <3>1, <3>3
    <3> QED BY <3>2, <3>3
  <2>2. Computed(q, e, "short")' => Computed(q, e, "short")
    BY <1>1, <1>7 DEF Computed, LinesOf
  <2> QED BY <1>1, <1>7, <2>1, <2>2, ShortCell
<1> QED BY <1>6, <1>7

(* The payments that a revert leaves still point well. *)
LEMMA LeftPoints ==
  ASSUME BalanceInv, AgreeInv, NEW p \in Payrolls, NEW L \in SUBSET Employees,
         NEW D \in SUBSET Employees, On(p) \subseteq L \cup D, LinesOf(p, L, D),
         NEW a \in Longs, NEW q \in Payrolls,
         paid'[a][q] = UnpointPaid(RevertPaid(p), p, D)[a][q]
  PROVE  PointsWell(a, q)'
<1> DEFINE pd == UnpointPaid(RevertPaid(p), p, D)
<1>1. /\ q = p => pd[a][q] = NoPayment
      /\ q # p /\ ~(Owner[a] \in D /\ paid[a][q].line = p) => pd[a][q] = paid[a][q]
      /\ q # p /\ Owner[a] \in D /\ paid[a][q].line = p => pd[a][q].line = None
  BY PaymentsLeft
<1> HIDE DEF pd
<1>2. CASE paid'[a][q].line = None
  BY <1>2 DEF PointsWell
<1>3. CASE paid'[a][q].line # None
  <2> DEFINE k == paid[a][q].line
  <2>1. /\ paid'[a][q] = paid[a][q] /\ k # None
        /\ ~(Owner[a] \in D /\ k = p)
    BY <1>1, <1>3 DEF NoPayment, pd
  <2>2. <<k, Owner[a]>> \in lines /\ (k = q \/ <<k, Owner[a]>> \in moved)
    BY <2>1 DEF AgreeInv, PointsWell
  <2>3. k \in Payrolls /\ Owner[a] \in Employees
    <3>1. paid[a][q] \in PayRows
      BY DEF BalanceInv, Payments
    <3> QED BY <2>1, <3>1, LedgerAssumption DEF PayRows, Keys, Rows
  <2>4. <<k, Owner[a]>> \in lines'
    <3>1. CASE k = p
      <4>1. Owner[a] \in L
        BY <2>1, <2>2, <2>3, <3>1 DEF On
      <4> QED BY <2>3, <3>1, <4>1 DEF LinesOf
    <3>2. CASE k # p
      BY <2>2, <2>3, <3>2 DEF LinesOf
    <3> QED BY <3>1, <3>2
  <2>5. k = q \/ <<k, Owner[a]>> \in moved'
    BY <2>1, <2>2 DEF LinesOf
  <2> QED BY <2>1, <2>4, <2>5 DEF PointsWell
<1> QED BY <1>2, <1>3

LEMMA LongsAgree ==
  ASSUME BalanceInv, BalanceInv', AgreeInv, NEW p \in Payrolls,
         NEW L \in SUBSET Employees, NEW D \in SUBSET Employees,
         On(p) \subseteq L \cup D, LinesOf(p, L, D), ApplyAdvances(p, L, D)
  PROVE  /\ \A q \in Payrolls, e \in Employees : LongAt(q, e)'
         /\ \A a \in Longs, q \in Payrolls : PointsWell(a, q)'
         /\ \A e \in Employees : longTotal'[<<p, e>>] \in Int
<1> DEFINE pd == UnpointPaid(RevertPaid(p), p, D)
           lg == RevertLongs(p)
           taken == {a \in Longs : TakesLong(p, L, lg, pd, a)}
           draws == [a \in Longs |-> DrawOf(lg, pd, a)]
<1>1. /\ paid' = LinkPaid(p, taken, lg, pd)
      /\ byHand' = {h \in byHand : h[1] # p}
      /\ \A q \in Payrolls, e \in Employees :
           longTotal'[<<q, e>>] = IF q # p THEN longTotal[<<q, e>>]
                                  ELSE SumFunctionOnSet(draws, {a \in taken : Owner[a] = e})
  BY DEF ApplyAdvances, Lines
<1>2. \A a \in Longs, q \in Payrolls :
        /\ q = p => pd[a][q] = NoPayment
        /\ q # p /\ ~(Owner[a] \in D /\ paid[a][q].line = p) => pd[a][q] = paid[a][q]
        /\ q # p /\ Owner[a] \in D /\ paid[a][q].line = p => pd[a][q].line = None
  BY PaymentsLeft
<1>3. taken \in SUBSET Longs /\ \A a \in taken : Owner[a] \in L
  BY DEF TakesLong
<1>4. \A a \in Longs : pd[a] \in Payments
  BY RevertBalanced
<1> HIDE DEF lg, taken
<1> HIDE DEF lg, taken
<1>5. \A a \in Longs, q \in Payrolls :
        /\ a \in taken /\ q = p => paid'[a][q].amount = draws[a] /\ paid'[a][q].line = p
        /\ ~(a \in taken /\ q = p) => paid'[a][q] = pd[a][q]
  <2> HIDE DEF pd
  <2> QED BY <1>1, <1>4 DEF LinkPaid, Payments
<1>6. None \notin Payrolls /\ \A a \in Longs : Owner[a] \in Employees
  BY LedgerAssumption DEF Rows
<1>7. paid' \in [Longs -> Payments]
  BY DEF BalanceInv
<1>8. ASSUME NEW a \in Longs, NEW q \in Payrolls PROVE PointsWell(a, q)'
  <2>1. CASE a \in taken /\ q = p
    <3>1. <<p, Owner[a]>> \in lines' /\ paid'[a][q].line = p
      BY <1>3, <1>5, <1>6, <2>1 DEF LinesOf
    <3> QED BY <2>1, <3>1 DEF PointsWell
  <2>2. CASE ~(a \in taken /\ q = p)
    <3>1. paid'[a][q] = UnpointPaid(RevertPaid(p), p, D)[a][q]
      BY <1>5, <2>2
    <3> HIDE DEF pd
    <3> QED BY <3>1, LeftPoints
  <2> QED BY <2>1, <2>2
<1> HIDE DEF pd, draws
<1>9. ASSUME NEW e \in Employees
      PROVE  longTotal'[<<p, e>>] \in Int /\ longTotal'[<<p, e>>] = BookedOnSheet(paid', p, e)
  <2>1. PICK x \in [Longs -> Payments] : x = paid'
    BY <1>7
  <2> DEFINE f == [a \in Longs |-> Booked(x, a, p)]
             T == {a \in Longs : Owner[a] = e}
             U == {a \in taken : Owner[a] = e}
  <2>2. /\ \A a \in T : f[a] \in Int
        /\ \A a \in U : f[a] = draws[a]
        /\ \A a \in T \ U : f[a] = 0
    <3>1. \A a \in Longs : f[a] \in Int
      BY BookedCell
    <3>2. \A a \in U : f[a] = draws[a]
      BY <1>3, <1>5, <2>1 DEF Booked
    <3>3. \A a \in T \ U : f[a] = 0
      BY <1>2, <1>5, <1>6, <2>1, NoPaymentRow DEF Booked, NoPayment
    <3> QED BY <3>1, <3>2, <3>3
  <2>3. U \subseteq T /\ IsFiniteSet(T)
    BY <1>3, RowsOf
  <2>4. IsFiniteSet(U) /\ \A a \in U : f[a] = draws[a]
    BY <2>2, <2>3, FS_Subset
  <2>5. BookedOnSheet(x, p, e) = SumFunctionOnSet(f, T) /\ BookedOnSheet(x, p, e) \in Int
    BY BookedRows, BookedInt
  <2>6. longTotal'[<<p, e>>] = SumFunctionOnSet(draws, U)
    BY <1>1
  <2> HIDE DEF f, T, U
  <2>7. SumFunctionOnSet(f, T) = SumFunctionOnSet(f, U)
    BY <2>2, <2>3, SumOver
  <2>8. SumFunctionOnSet(f, U) = SumFunctionOnSet(draws, U)
    BY <2>4, SumSame
  <2> QED BY <2>1, <2>5, <2>6, <2>7, <2>8
<1>10. ASSUME NEW q \in Payrolls, NEW e \in Employees PROVE LongAt(q, e)'
  <2>1. CASE q = p
    BY <1>9, <2>1 DEF LongAt
  <2>2. CASE q # p
    <3>1. \A a \in Longs : Booked(paid', a, q) = Booked(paid, a, q)
      BY <1>2, <1>5, <1>6, <2>2 DEF Booked
    <3>2. Computed(q, e, "long")' => Computed(q, e, "long")
      BY <1>1, <2>2 DEF Computed, LinesOf
    <3>3. longTotal'[<<q, e>>] = longTotal[<<q, e>>]
      BY <1>1, <2>2
    <3> QED BY <3>1, <3>2, <3>3, LongCell
  <2> QED BY <2>1, <2>2
<1> QED BY <1>8, <1>9, <1>10

(* One that is already added up, cell by cell. *)
LEMMA TotalsFrom ==
  ASSUME shortTotal' = [l \in Lines |-> shortTotal'[l]],
         longTotal' = [l \in Lines |-> longTotal'[l]],
         \A q \in Payrolls, e \in Employees :
           /\ shortTotal'[<<q, e>>] \in Int /\ longTotal'[<<q, e>>] \in Int
           /\ <<q, e>> \notin lines' => /\ shortTotal'[<<q, e>>] = 0
                                        /\ longTotal'[<<q, e>>] = 0
  PROVE  TotalsOK' /\ NoLineNoTotal'
<1>1. \A l \in Lines : \E q \in Payrolls, e \in Employees : l = <<q, e>>
  BY DEF Lines
<1>2. \A l \in Lines : shortTotal'[l] \in Int /\ longTotal'[l] \in Int
  BY <1>1
<1>3. \A l \in Lines \ lines' : shortTotal'[l] = 0 /\ longTotal'[l] = 0
  BY <1>1
<1> QED BY <1>2, <1>3 DEF TotalsOK, NoLineNoTotal

LEMMA CellsWere ==
  ASSUME AgreeInv
  PROVE  \A q \in Payrolls, e \in Employees :
           /\ shortTotal[<<q, e>>] \in Int /\ longTotal[<<q, e>>] \in Int
           /\ <<q, e>> \notin lines => shortTotal[<<q, e>>] = 0 /\ longTotal[<<q, e>>] = 0
  BY DEF AgreeInv, TotalsOK, NoLineNoTotal, Lines

LEMMA ApplyAgrees ==
  ASSUME LedgerInv, BalanceInv, AgreeInv, NEW p \in Payrolls, Open(p),
         NEW L \in SUBSET Employees, NEW D \in SUBSET Employees,
         On(p) \subseteq L \cup D, LinesOf(p, L, D), ApplyAdvances(p, L, D)
  PROVE  AgreeInv'
<1> DEFINE ss == Unpoint(RevertShorts(p), p, D)
           pd == UnpointPaid(RevertPaid(p), p, D)
           lg == RevertLongs(p)
           taken == {a \in Longs : TakesLong(p, L, lg, pd, a)}
           draws == [a \in Longs |-> DrawOf(lg, pd, a)]
<1>1. /\ shortTotal' = [l \in Lines |->
          IF l[1] # p THEN shortTotal[l]
          ELSE IF l[2] \in L THEN ShortSum(p, L, ss, l[2]) ELSE 0]
      /\ longTotal' = [l \in Lines |->
          IF l[1] # p THEN longTotal[l]
          ELSE SumFunctionOnSet(draws, {a \in taken : Owner[a] = l[2]})]
  BY DEF ApplyAdvances
<1>2. BalanceInv'
  BY ApplyBalanced
<1>3. \A q \in Payrolls, e \in Employees : ShortAt(q, e)'
  BY ShortsAgree
<1>4. /\ \A q \in Payrolls, e \in Employees : LongAt(q, e)'
      /\ \A a \in Longs, q \in Payrolls : PointsWell(a, q)'
      /\ \A e \in Employees : longTotal'[<<p, e>>] \in Int
  BY <1>2, LongsAgree
<1>5. \A e \in Employees : ShortSum(p, L, ss, e) \in Int
  <2> HIDE DEF ss
  <2> QED BY HeldInt DEF ShortSum
<1>6. \A e \in Employees \ L : {a \in taken : Owner[a] = e} = {}
  BY DEF TakesLong
<1> HIDE DEF ss, pd, lg, taken, draws
<1>7. shortTotal' = [l \in Lines |-> shortTotal'[l]] /\ longTotal' = [l \in Lines |-> longTotal'[l]]
  BY <1>1
<1>8. ASSUME NEW q \in Payrolls, NEW e \in Employees
      PROVE  /\ shortTotal'[<<q, e>>] \in Int /\ longTotal'[<<q, e>>] \in Int
             /\ <<q, e>> \notin lines' => /\ shortTotal'[<<q, e>>] = 0
                                          /\ longTotal'[<<q, e>>] = 0
  <2>1. <<q, e>> \in Lines /\ <<q, e>>[1] = q /\ <<q, e>>[2] = e
    BY DEF Lines
  <2>2. /\ shortTotal[<<q, e>>] \in Int /\ longTotal[<<q, e>>] \in Int
        /\ <<q, e>> \notin lines => shortTotal[<<q, e>>] = 0 /\ longTotal[<<q, e>>] = 0
    BY CellsWere
  <2>3. <<q, e>> \in lines' <=> IF q = p THEN e \in L ELSE <<q, e>> \in lines
    BY DEF LinesOf
  <2>4. CASE q # p
    BY <1>1, <2>1, <2>2, <2>3, <2>4
  <2>5. CASE q = p
    <3>1. /\ shortTotal'[<<q, e>>] = IF e \in L THEN ShortSum(p, L, ss, e) ELSE 0
          /\ longTotal'[<<q, e>>]
               = SumFunctionOnSet(draws, {a \in taken : Owner[a] = e})
      BY <1>1, <2>1, <2>5
    <3>2. longTotal'[<<q, e>>] \in Int
      BY <1>4, <2>5
    <3>3. e \notin L => longTotal'[<<q, e>>] = 0
      BY <1>6, <3>1, SumOfNone
    <3> QED BY <1>5, <2>3, <2>5, <3>1, <3>2, <3>3
  <2> QED BY <2>4, <2>5
<1>9. TotalsOK' /\ NoLineNoTotal'
  BY <1>7, <1>8, TotalsFrom
<1> QED BY <1>3, <1>4, <1>9 DEF AgreeInv

(* No line, figure or payment changes, and no short advance changes place. *)
LEMMA NothingMoves ==
  ASSUME AgreeInv, UNCHANGED <<lines, moved, shortTotal, longTotal, byHand, paid>>,
         \A s \in Shorts : shorts'[s].payroll = shorts[s].payroll
                           /\ shorts'[s].line = shorts[s].line
  PROVE  AgreeInv'
<1>1. TotalsOK' /\ NoLineNoTotal'
  BY DEF AgreeInv, TotalsOK, NoLineNoTotal
<1>2. \A a \in Longs, q \in Payrolls : PointsWell(a, q)'
  BY DEF AgreeInv, PointsWell
<1>3. ASSUME NEW q \in Payrolls, NEW e \in Employees PROVE ShortAt(q, e)' /\ LongAt(q, e)'
  <2>1. /\ Computed(q, e, "short")' => Computed(q, e, "short")
        /\ Computed(q, e, "long")' => Computed(q, e, "long")
    BY DEF Computed
  <2>2. \A a \in Longs : Booked(paid', a, q) = Booked(paid, a, q)
    OBVIOUS
  <2> QED BY <2>1, <2>2, ShortCell, LongCell
<1> QED BY <1>1, <1>2, <1>3 DEF AgreeInv

(* A rebuild that stops half way leaves empty figures and no rows. *)
LEMMA FailsAgrees ==
  ASSUME LedgerInv, BalanceInv, AgreeInv, NEW p \in Payrolls, CalculateFails(p)
  PROVE  AgreeInv'
<1> DEFINE D == On(p) \ Kept(p)
           L == Kept(p)
           ss == Unpoint(RevertShorts(p), p, D)
           pd == UnpointPaid(RevertPaid(p), p, D)
<1>1. /\ Open(p) /\ lines' = lines \ ({p} \X D) /\ moved' = moved \ ({p} \X D)
      /\ shorts' = ss /\ paid' = pd /\ byHand' = {h \in byHand : h[1] # p}
      /\ shortTotal' = [l \in Lines |-> IF l[1] = p THEN 0 ELSE shortTotal[l]]
      /\ longTotal' = [l \in Lines |-> IF l[1] = p THEN 0 ELSE longTotal[l]]
  BY DEF CalculateFails
<1>2. D \in SUBSET Employees /\ L \in SUBSET Employees /\ On(p) \subseteq L \cup D
  BY DEF On, Kept
<1>3. LinesOf(p, L, D)
  <2>1. moved \subseteq Lines
    BY TypeParts DEF LedgerInv, LinesTypeOK, Lines
  <2>2. \A q \in Payrolls, e \in Employees :
          <<q, e>> \in lines' <=> IF q = p THEN e \in L ELSE <<q, e>> \in lines
    BY <1>1 DEF On, Kept
  <2>3. \A l \in moved \ moved' : l[1] = p /\ l[2] \in D
    <3> HIDE DEF D
    <3> QED BY <1>1, <2>1 DEF Lines
  <2> HIDE DEF D, L
  <2> QED BY <1>1, <2>2, <2>3 DEF LinesOf
<1>4. \A s \in Shorts :
        /\ ss[s].payroll # p
        /\ \A x \in Payrolls \ {p} :
             /\ ss[s].payroll = x <=> shorts[s].payroll = x
             /\ ss[s].payroll = x /\ ss[s].line = x
                  <=> shorts[s].payroll = x /\ shorts[s].line = x
  <2> HIDE DEF D
  <2> QED BY <1>1, <1>2, ShortsLeft
<1>5. \A a \in Longs, q \in Payrolls :
        /\ q = p => pd[a][q] = NoPayment
        /\ q # p /\ ~(Owner[a] \in D /\ paid[a][q].line = p) => pd[a][q] = paid[a][q]
        /\ q # p /\ Owner[a] \in D /\ paid[a][q].line = p => pd[a][q].line = None
  <2> HIDE DEF D
  <2> QED BY <1>2, PaymentsLeft
<1>6. None \notin Payrolls
  BY LedgerAssumption
<1>7. ASSUME NEW a \in Longs, NEW q \in Payrolls PROVE PointsWell(a, q)'
  <2>1. paid'[a][q] = UnpointPaid(RevertPaid(p), p, D)[a][q]
    BY <1>1
  <2> HIDE DEF D, L, pd
  <2> QED BY <1>2, <1>3, <2>1, LeftPoints
<1> HIDE DEF D, L, ss, pd
<1>8. ASSUME NEW q \in Payrolls, NEW e \in Employees
      PROVE  /\ shortTotal'[<<q, e>>] = IF q = p THEN 0 ELSE shortTotal[<<q, e>>]
             /\ longTotal'[<<q, e>>] = IF q = p THEN 0 ELSE longTotal[<<q, e>>]
  BY <1>1 DEF Lines
<1>9. ASSUME NEW q \in Payrolls, NEW e \in Employees PROVE ShortAt(q, e)' /\ LongAt(q, e)'
  <2>1. CASE q = p
    <3>1. Held(q, e)' = {}
      BY <1>1, <1>4, <2>1 DEF Held
    <3>2. BookedOnSheet(paid', q, e) = 0
      <4>1. PICK x : x = paid'
        OBVIOUS
      <4>2. \A a \in Longs : Booked(x, a, q) = 0
        BY <1>1, <1>5, <1>6, <2>1, <4>1 DEF Booked, NoPayment
      <4>3. BookedOnSheet(x, q, e) = 0
        BY <4>2, BookedNone
      <4> QED BY <4>1, <4>3
    <3> QED BY <1>8, <2>1, <3>1, <3>2, SumOfNone DEF ShortAt, LongAt
  <2>2. CASE q # p
    <3>1. /\ Computed(q, e, "short")' => Computed(q, e, "short")
          /\ Computed(q, e, "long")' => Computed(q, e, "long")
      BY <1>1, <2>2 DEF Computed
    <3>2. \A s \in Shorts : shorts'[s].payroll = q /\ shorts'[s].line = q
                             <=> shorts[s].payroll = q /\ shorts[s].line = q
      BY <1>1, <1>4, <2>2
    <3>3. \A a \in Longs : Booked(paid', a, q) = Booked(paid, a, q)
      BY <1>1, <1>5, <1>6, <2>2 DEF Booked
    <3>4. ShortAt(q, e)'
      BY <1>8, <2>2, <3>1, <3>2, ShortCell
    <3>5. LongAt(q, e)'
      BY <1>8, <2>2, <3>1, <3>3, LongCell
    <3> QED BY <3>4, <3>5
  <2> QED BY <2>1, <2>2
<1>10. TotalsOK' /\ NoLineNoTotal'
  <2>1. shortTotal' = [l \in Lines |-> shortTotal'[l]]
        /\ longTotal' = [l \in Lines |-> longTotal'[l]]
    BY <1>1
  <2>2. \A q \in Payrolls, e \in Employees :
          <<q, e>> \notin lines' => q = p \/ <<q, e>> \notin lines
    BY <1>3 DEF LinesOf
  <2> QED BY <1>8, <2>1, <2>2, CellsWere, TotalsFrom
<1> QED BY <1>7, <1>9, <1>10 DEF AgreeInv

(* linkLongAdvancesOnly writes the long figures of the sheet anew. *)
LEMMA LongOnlyAgrees ==
  ASSUME LedgerInv, BalanceInv, AgreeInv, NEW p \in Payrolls, LinkLongOnly(p)
  PROVE  AgreeInv'
<1> DEFINE taken == {a \in Longs : TakesLongOnly(p, a)}
<1>1. /\ paid' = LinkPaid(p, taken, longs, paid)
      /\ longTotal' = [l \in Lines |->
           IF l[1] = p THEN BookedOnSheet(paid', p, l[2]) ELSE longTotal[l]]
      /\ byHand' = byHand \ {<<p, e, "long">> : e \in Employees}
      /\ UNCHANGED <<lines, moved, shortTotal, shorts>>
  BY DEF LinkLongOnly, lineVars
<1>2. \A a \in taken : a \in Longs /\ <<p, Owner[a]>> \in lines
  BY DEF TakesLongOnly, On
<1> HIDE DEF taken
<1>3. paid' \in [Longs -> Payments] /\ paid \in [Longs -> Payments]
  BY LongOnlyBalanced DEF BalanceInv
<1>4. \A a \in Longs, q \in Payrolls :
        /\ a \in taken /\ q = p => paid'[a][q].line = p
        /\ ~(a \in taken /\ q = p) => paid'[a][q] = paid[a][q]
  BY <1>1, <1>3 DEF LinkPaid, Payments
<1>5. \A a \in Longs, q \in Payrolls : PointsWell(a, q)'
  BY <1>1, <1>2, <1>4 DEF AgreeInv, PointsWell
<1>6. ASSUME NEW q \in Payrolls, NEW e \in Employees
      PROVE  longTotal'[<<q, e>>]
               = IF q = p THEN BookedOnSheet(paid', p, e) ELSE longTotal[<<q, e>>]
  BY <1>1 DEF Lines
<1>7. ASSUME NEW e \in Employees
      PROVE  /\ BookedOnSheet(paid', p, e) \in Int
             /\ <<p, e>> \notin lines => BookedOnSheet(paid', p, e) = 0
  <2>1. PICK x \in [Longs -> Payments] : x = paid'
    BY <1>3
  <2>2. BookedOnSheet(x, p, e) \in Int
    BY BookedInt
  <2>3. ASSUME <<p, e>> \notin lines PROVE BookedOnSheet(x, p, e) = 0
    <3>1. \A a \in Longs : Owner[a] = e => x[a][p].line # p
      BY <1>2, <1>4, <2>1, <2>3, LedgerAssumption DEF AgreeInv, PointsWell
    <3>2. \A a \in Longs : Owner[a] = e => Booked(x, a, p) = 0
      BY <3>1 DEF Booked
    <3> QED BY <3>2, BookedNone
  <2> QED BY <2>1, <2>2, <2>3
<1>8. ASSUME NEW q \in Payrolls, NEW e \in Employees PROVE ShortAt(q, e)' /\ LongAt(q, e)'
  <2>1. Computed(q, e, "short")' => Computed(q, e, "short")
    BY <1>1 DEF Computed
  <2>2. ShortAt(q, e)'
    BY <1>1, <2>1, ShortCell
  <2>3. CASE q = p
    BY <1>6, <2>2, <2>3 DEF LongAt
  <2>4. CASE q # p
    <3>1. Computed(q, e, "long")' => Computed(q, e, "long")
      BY <1>1, <2>4 DEF Computed
    <3>2. \A a \in Longs : Booked(paid', a, q) = Booked(paid, a, q)
      BY <1>4, <2>4 DEF Booked
    <3> QED BY <1>6, <2>2, <2>4, <3>1, <3>2, LongCell
  <2> QED BY <2>3, <2>4
<1>9. TotalsOK' /\ NoLineNoTotal'
  <2>1. shortTotal' = [l \in Lines |-> shortTotal'[l]]
    BY <1>1 DEF AgreeInv, TotalsOK
  <2>2. longTotal' = [l \in Lines |-> longTotal'[l]]
    BY <1>1
  <2>3. \A q \in Payrolls, e \in Employees :
          /\ shortTotal'[<<q, e>>] = shortTotal[<<q, e>>]
          /\ <<q, e>> \in lines' <=> <<q, e>> \in lines
    BY <1>1
  <2> QED BY <1>6, <1>7, <2>1, <2>2, <2>3, CellsWere, TotalsFrom
<1> QED BY <1>5, <1>8, <1>9 DEF AgreeInv

LEMMA DeleteAgrees ==
  ASSUME LedgerInv, BalanceInv, AgreeInv, NEW p \in Payrolls, NEW e \in Employees,
         DeleteLine(p, e)
  PROVE  AgreeInv'
<1>1. /\ lines' = lines \ {<<p, e>>} /\ moved' = moved \ {<<p, e>>}
      /\ byHand' = {h \in byHand : <<h[1], h[2]>> # <<p, e>>}
      /\ shortTotal' = [shortTotal EXCEPT ![<<p, e>>] = 0]
      /\ longTotal' = [longTotal EXCEPT ![<<p, e>>] = 0]
      /\ shorts' = Unpoint(shorts, p, {e}) /\ paid' = UnpointPaid(paid, p, {e})
  BY DEF DeleteLine
<1>2. None \notin Payrolls /\ None \in Keys /\ \A a \in Longs : Owner[a] \in Employees
  BY LedgerAssumption DEF Keys, Rows
<1>3. \A s \in Shorts :
        /\ Owner[s] = e /\ shorts[s].line = p => shorts'[s].line = None
        /\ ~(Owner[s] = e /\ shorts[s].line = p) => shorts'[s] = shorts[s]
  <2>1. shorts \in [Shorts -> ShortRows]
    BY TypeParts DEF LedgerInv
  <2> QED BY <1>1, <1>2, <2>1, PointShort DEF Unpoint
<1>4. \A a \in Longs, q \in Payrolls :
        /\ Owner[a] = e /\ paid[a][q].line = p => paid'[a][q].line = None
        /\ ~(Owner[a] = e /\ paid[a][q].line = p) => paid'[a][q] = paid[a][q]
  <2>1. \A a \in Longs, q \in Payrolls : paid[a][q] \in PayRows
    BY DEF BalanceInv, Payments
  <2>2. \A row \in PayRows : [row EXCEPT !.line = None].line = None
    BY DEF PayRows
  <2> QED BY <1>1, <2>1, <2>2 DEF UnpointPaid
<1>5. ASSUME NEW x \in Payrolls, NEW f \in Employees
      PROVE  /\ shortTotal'[<<x, f>>] = IF x = p /\ f = e THEN 0 ELSE shortTotal[<<x, f>>]
             /\ longTotal'[<<x, f>>] = IF x = p /\ f = e THEN 0 ELSE longTotal[<<x, f>>]
             /\ <<x, f>> \in lines' <=> <<x, f>> \in lines /\ ~(x = p /\ f = e)
  <2>1. <<x, f>> \in Lines /\ <<p, e>> \in Lines
    BY DEF Lines
  <2> QED BY <1>1, <2>1 DEF AgreeInv, TotalsOK
<1>6. \A a \in Longs, q \in Payrolls : PointsWell(a, q)'
  <2> SUFFICES ASSUME NEW a \in Longs, NEW q \in Payrolls, paid'[a][q].line # None
               PROVE  PointsWell(a, q)'
    BY DEF PointsWell
  <2>1. paid'[a][q] = paid[a][q] /\ ~(Owner[a] = e /\ paid[a][q].line = p)
    BY <1>4
  <2> QED BY <1>1, <2>1 DEF PointsWell, AgreeInv
<1>7. ASSUME NEW x \in Payrolls, NEW f \in Employees PROVE ShortAt(x, f)' /\ LongAt(x, f)'
  <2>1. CASE x = p /\ f = e
    BY <1>5, <2>1 DEF ShortAt, LongAt, Computed
  <2>2. CASE ~(x = p /\ f = e)
    <3>1. /\ Computed(x, f, "short")' => Computed(x, f, "short")
          /\ Computed(x, f, "long")' => Computed(x, f, "long")
      BY <1>1, <2>2 DEF Computed
    <3>2. \A s \in Shorts : Owner[s] = f =>
            (shorts'[s].payroll = x /\ shorts'[s].line = x
               <=> shorts[s].payroll = x /\ shorts[s].line = x)
      BY <1>2, <1>3, <2>2
    <3>3. \A a \in Longs : Owner[a] = f => Booked(paid', a, x) = Booked(paid, a, x)
      BY <1>2, <1>4, <2>2 DEF Booked
    <3>4. ShortAt(x, f)'
      BY <1>5, <2>2, <3>1, <3>2, ShortCell
    <3>5. LongAt(x, f)'
      BY <1>5, <2>2, <3>1, <3>3, LongCell
    <3> QED BY <3>4, <3>5
  <2> QED BY <2>1, <2>2
<1>8. TotalsOK' /\ NoLineNoTotal'
  <2>1. /\ shortTotal' = [l \in Lines |-> shortTotal'[l]]
        /\ longTotal' = [l \in Lines |-> longTotal'[l]]
    BY <1>1 DEF AgreeInv, TotalsOK
  <2> QED BY <1>5, <2>1, CellsWere, TotalsFrom
<1> QED BY <1>6, <1>7, <1>8 DEF AgreeInv

LEMMA MoveAgrees ==
  ASSUME LedgerInv, BalanceInv, AgreeInv, NEW p \in Payrolls, NEW q \in Payrolls,
         NEW e \in Employees, MoveLine(p, q, e)
  PROVE  AgreeInv'
<1>1. /\ <<p, e>> \in lines /\ <<q, e>> \notin lines /\ p # q
      /\ lines' = (lines \ {<<p, e>>}) \cup {<<q, e>>}
      /\ moved' = (moved \ {<<p, e>>}) \cup {<<q, e>>}
      /\ byHand' = {h \in byHand : <<h[1], h[2]>> # <<p, e>>}
                   \cup {<<q, e, k>> : k \in {x \in {"short", "long"} :
                                                <<p, e, x>> \in byHand}}
      /\ shortTotal' = [shortTotal EXCEPT ![<<p, e>>] = 0,
                                          ![<<q, e>>] = shortTotal[<<p, e>>]]
      /\ longTotal' = [longTotal EXCEPT ![<<p, e>>] = 0,
                                        ![<<q, e>>] = longTotal[<<p, e>>]]
      /\ shorts' = Follow(shorts, p, q, e)
      /\ paid' = [a \in Longs |-> [x \in Payrolls |->
           IF Owner[a] = e /\ paid[a][x].line = p
           THEN [paid[a][x] EXCEPT !.line = q] ELSE paid[a][x]]]
  BY DEF MoveLine, MoveKey
<1>2. None \notin Payrolls /\ q \in Keys /\ \A a \in Longs : Owner[a] \in Employees
  BY LedgerAssumption DEF Keys, Rows
<1>3. \A s \in Shorts :
        /\ Owner[s] = e /\ shorts[s].line = p => shorts'[s].line = q
        /\ ~(Owner[s] = e /\ shorts[s].line = p) => shorts'[s] = shorts[s]
  <2>1. shorts \in [Shorts -> ShortRows]
    BY TypeParts DEF LedgerInv
  <2> QED BY <1>1, <1>2, <2>1, PointShort DEF Follow
<1>4. \A a \in Longs, x \in Payrolls :
        /\ Owner[a] = e /\ paid[a][x].line = p => paid'[a][x].line = q
        /\ ~(Owner[a] = e /\ paid[a][x].line = p) => paid'[a][x] = paid[a][x]
  <2>1. \A a \in Longs, x \in Payrolls : paid[a][x] \in PayRows
    BY DEF BalanceInv, Payments
  <2>2. \A row \in PayRows : [row EXCEPT !.line = q].line = q
    BY DEF PayRows
  <2> QED BY <1>1, <2>1, <2>2
<1>5. ASSUME NEW x \in Payrolls, NEW f \in Employees
      PROVE  /\ shortTotal'[<<x, f>>] = IF f = e /\ x = q THEN shortTotal[<<p, e>>]
                                        ELSE IF f = e /\ x = p THEN 0
                                        ELSE shortTotal[<<x, f>>]
             /\ longTotal'[<<x, f>>] = IF f = e /\ x = q THEN longTotal[<<p, e>>]
                                       ELSE IF f = e /\ x = p THEN 0
                                       ELSE longTotal[<<x, f>>]
             /\ <<x, f>> \in lines' <=> \/ f = e /\ x = q
                                        \/ <<x, f>> \in lines /\ ~(x = p /\ f = e)
  <2>1. <<x, f>> \in Lines /\ <<p, e>> \in Lines /\ <<q, e>> \in Lines
    BY DEF Lines
  <2> QED BY <1>1, <2>1 DEF AgreeInv, TotalsOK
<1>6. \A a \in Longs, x \in Payrolls : PointsWell(a, x)'
  <2> SUFFICES ASSUME NEW a \in Longs, NEW x \in Payrolls
               PROVE  PointsWell(a, x)'
    OBVIOUS
  <2>1. CASE Owner[a] = e /\ paid[a][x].line = p
    <3>1. paid'[a][x].line = q /\ <<q, Owner[a]>> \in lines' /\ <<q, Owner[a]>> \in moved'
      BY <1>1, <1>4, <2>1
    <3> QED BY <3>1 DEF PointsWell
  <2>2. CASE ~(Owner[a] = e /\ paid[a][x].line = p)
    <3>1. paid'[a][x] = paid[a][x] /\ PointsWell(a, x)
      BY <1>4, <2>2 DEF AgreeInv
    <3> QED BY <1>1, <2>2, <3>1 DEF PointsWell
  <2> QED BY <2>1, <2>2
<1>7. ASSUME NEW x \in Payrolls, NEW f \in Employees PROVE ShortAt(x, f)' /\ LongAt(x, f)'
  <2>1. CASE f = e /\ (x = p \/ x = q)
    <3>1. <<x, f>> \notin lines' \ moved'
      BY <1>1, <1>5, <2>1
    <3> QED BY <3>1 DEF ShortAt, LongAt, Computed
  <2>2. CASE ~(f = e /\ (x = p \/ x = q))
    <3>1. /\ Computed(x, f, "short")' => Computed(x, f, "short")
          /\ Computed(x, f, "long")' => Computed(x, f, "long")
      BY <1>1, <2>2 DEF Computed
    <3>2. \A s \in Shorts : Owner[s] = f =>
            (shorts'[s].payroll = x /\ shorts'[s].line = x
               <=> shorts[s].payroll = x /\ shorts[s].line = x)
      BY <1>2, <1>3, <2>2
    <3>3. \A a \in Longs : Owner[a] = f => Booked(paid', a, x) = Booked(paid, a, x)
      BY <1>2, <1>4, <2>2 DEF Booked
    <3>4. ShortAt(x, f)'
      BY <1>5, <2>2, <3>1, <3>2, ShortCell
    <3>5. LongAt(x, f)'
      BY <1>5, <2>2, <3>1, <3>3, LongCell
    <3> QED BY <3>4, <3>5
  <2> QED BY <2>1, <2>2
<1>8. TotalsOK' /\ NoLineNoTotal'
  <2>1. /\ shortTotal' = [l \in Lines |-> shortTotal'[l]]
        /\ longTotal' = [l \in Lines |-> longTotal'[l]]
    BY <1>1 DEF AgreeInv, TotalsOK
  <2> QED BY <1>5, <2>1, CellsWere, TotalsFrom
<1> QED BY <1>6, <1>7, <1>8 DEF AgreeInv

LEMMA UpdateAgrees ==
  ASSUME AgreeInv, NEW p \in Payrolls, NEW e \in Employees, NEW kind \in HandKinds,
         NEW n \in HandTotals, UpdateLine(p, e, kind, n)
  PROVE  AgreeInv'
<1>1. /\ <<p, e>> \in lines /\ n \in Int /\ kind \in {"short", "long"}
      /\ \/ /\ kind = "short" /\ longTotal' = longTotal
            /\ shortTotal' = [shortTotal EXCEPT ![<<p, e>>] = n]
         \/ /\ kind = "long" /\ shortTotal' = shortTotal
            /\ longTotal' = [longTotal EXCEPT ![<<p, e>>] = n]
      /\ byHand' = byHand \cup {<<p, e, kind>>}
      /\ UNCHANGED <<lines, moved, shorts, paid>>
  BY LedgerAssumption DEF UpdateLine, lineVars, longVars
<1>2. ASSUME NEW x \in Payrolls, NEW f \in Employees
      PROVE  /\ kind = "long" \/ ~(x = p /\ f = e)
                  => shortTotal'[<<x, f>>] = shortTotal[<<x, f>>]
             /\ kind = "short" \/ ~(x = p /\ f = e)
                  => longTotal'[<<x, f>>] = longTotal[<<x, f>>]
             /\ x = p /\ f = e => /\ shortTotal'[<<x, f>>] \in {n, shortTotal[<<x, f>>]}
                                  /\ longTotal'[<<x, f>>] \in {n, longTotal[<<x, f>>]}
  <2>1. <<x, f>> \in Lines /\ <<p, e>> \in Lines
    BY DEF Lines
  <2> QED BY <1>1, <2>1 DEF AgreeInv, TotalsOK
<1>3. TotalsOK' /\ NoLineNoTotal'
  <2>1. /\ shortTotal' = [l \in Lines |-> shortTotal'[l]]
        /\ longTotal' = [l \in Lines |-> longTotal'[l]]
    BY <1>1 DEF AgreeInv, TotalsOK
  <2> QED BY <1>1, <1>2, <2>1, CellsWere, TotalsFrom
<1>4. \A a \in Longs, q \in Payrolls : PointsWell(a, q)'
  BY <1>1 DEF AgreeInv, PointsWell
<1>5. ASSUME NEW x \in Payrolls, NEW f \in Employees PROVE ShortAt(x, f)' /\ LongAt(x, f)'
  <2>1. /\ Computed(x, f, "short")' => Computed(x, f, "short") /\ ~(x = p /\ f = e /\ kind = "short")
        /\ Computed(x, f, "long")' => Computed(x, f, "long") /\ ~(x = p /\ f = e /\ kind = "long")
    BY <1>1 DEF Computed
  <2>2. ShortAt(x, f)'
    <3>1. CASE Computed(x, f, "short")'
      <4>1. shortTotal'[<<x, f>>] = shortTotal[<<x, f>>]
        BY <1>1, <1>2, <2>1, <3>1
      <4> QED BY <1>1, <2>1, <4>1, ShortCell
    <3> QED BY <3>1 DEF ShortAt
  <2>3. LongAt(x, f)'
    <3>1. CASE Computed(x, f, "long")'
      <4>1. longTotal'[<<x, f>>] = longTotal[<<x, f>>]
        BY <1>1, <1>2, <2>1, <3>1
      <4>2. \A a \in Longs : Booked(paid', a, x) = Booked(paid, a, x)
        BY <1>1
      <4> QED BY <1>1, <2>1, <4>1, <4>2, LongCell
    <3> QED BY <3>1 DEF LongAt
  <2> QED BY <2>2, <2>3
<1> QED BY <1>3, <1>4, <1>5 DEF AgreeInv

LEMMA ImportAgrees ==
  ASSUME LedgerInv, BalanceInv, AgreeInv, NEW p \in Payrolls, NEW F \in SUBSET Employees,
         NEW fig \in [F -> Cells], NEW M \in SUBSET F, NEW touched \in SUBSET Deds,
         ImportPayroll(p, F, fig, M, touched)
  PROVE  AgreeInv'
<1> DEFINE dropped == On(p) \ F
           short(e) == Figure(fig[e].short, shortTotal[<<p, e>>])
           long(e)  == Figure(fig[e].long, longTotal[<<p, e>>])
<1>1. /\ lines' = {l \in lines : l[1] # p} \cup ({p} \X F)
      /\ moved' = moved \ ({p} \X dropped)
      /\ shortTotal' = [l \in Lines |-> IF l[1] # p THEN shortTotal[l]
                          ELSE IF l[2] \in F THEN short(l[2]) ELSE 0]
      /\ longTotal' = [l \in Lines |-> IF l[1] # p THEN longTotal[l]
                         ELSE IF l[2] \in F THEN long(l[2]) ELSE 0]
      /\ byHand' = {h \in byHand : h[1] # p \/ h[2] \in F} \cup
            {<<p, e, "short">> : e \in {f \in F : fig[f].short # None}} \cup
            {<<p, e, "long">> : e \in {f \in F : fig[f].long # None}}
      /\ shorts' = [s \in Shorts |->
            IF Owner[s] \in dropped /\ shorts[s].line = p
            THEN [shorts[s] EXCEPT !.state = "pending", !.payroll = None,
                                   !.line = None]
            ELSE shorts[s]]
      /\ paid' = [a \in Longs |-> [q \in Payrolls |->
            IF Owner[a] \in dropped /\ paid[a][q].line = p
            THEN NoPayment ELSE paid[a][q]]]
  BY DEF ImportPayroll
<1>2. /\ None \notin Payrolls /\ None \in Keys
      /\ \A a \in Longs : Owner[a] \in Employees
      /\ \A s \in Shorts : Owner[s] \in Employees
      /\ HandTotals \subseteq Int
  BY LedgerAssumption DEF Keys, Rows
<1>3. \A s \in Shorts :
        /\ Owner[s] \in dropped /\ shorts[s].line = p => shorts'[s].line = None
        /\ ~(Owner[s] \in dropped /\ shorts[s].line = p) => shorts'[s] = shorts[s]
  <2>1. shorts \in [Shorts -> ShortRows]
    BY TypeParts DEF LedgerInv
  <2> HIDE DEF dropped
  <2>2. \A s \in Shorts : [shorts[s] EXCEPT !.state = "pending", !.payroll = None,
                                   !.line = None].line = None
    BY <2>1 DEF ShortRows
  <2> QED BY <1>1, <2>2
<1>4. \A a \in Longs, q \in Payrolls :
        /\ Owner[a] \in dropped /\ paid[a][q].line = p => paid'[a][q] = NoPayment
        /\ ~(Owner[a] \in dropped /\ paid[a][q].line = p) => paid'[a][q] = paid[a][q]
  <2> HIDE DEF dropped
  <2> QED BY <1>1
<1>5. \A x \in Payrolls, f \in Employees :
        <<x, f>> \in lines' <=> IF x = p THEN f \in F ELSE <<x, f>> \in lines
  BY <1>1
<1>6. ASSUME NEW e \in F
      PROVE  /\ fig[e].short \in Int \cup {None} /\ fig[e].long \in Int \cup {None}
  <2>1. fig[e] \in Cells
    OBVIOUS
  <2>2. fig[e].short \in Typed("short") /\ fig[e].long \in Typed("long")
    BY <2>1 DEF Cells
  <2> QED BY <1>2, <2>2 DEF Typed
<1>7. ASSUME NEW x \in Payrolls, NEW f \in Employees
      PROVE  /\ shortTotal'[<<x, f>>] = IF x # p THEN shortTotal[<<x, f>>]
                                        ELSE IF f \in F THEN short(f) ELSE 0
             /\ longTotal'[<<x, f>>] = IF x # p THEN longTotal[<<x, f>>]
                                       ELSE IF f \in F THEN long(f) ELSE 0
  <2>1. <<x, f>> \in Lines /\ <<x, f>>[1] = x /\ <<x, f>>[2] = f
    BY DEF Lines
  <2> HIDE DEF short, long
  <2> QED BY <1>1, <2>1
<1>8. TotalsOK' /\ NoLineNoTotal'
  <2>1. /\ shortTotal' = [l \in Lines |-> shortTotal'[l]]
        /\ longTotal' = [l \in Lines |-> longTotal'[l]]
    BY <1>1
  <2>2. ASSUME NEW x \in Payrolls, NEW f \in Employees
        PROVE  /\ shortTotal'[<<x, f>>] \in Int /\ longTotal'[<<x, f>>] \in Int
               /\ <<x, f>> \notin lines' => /\ shortTotal'[<<x, f>>] = 0
                                            /\ longTotal'[<<x, f>>] = 0
    <3>1. \A e \in F : short(e) \in Int /\ long(e) \in Int
      BY <1>6, CellsWere DEF Figure
    <3> HIDE DEF short, long
    <3> QED BY <1>5, <1>7, <3>1, CellsWere
  <2> QED BY <2>1, <2>2, TotalsFrom
<1>9. ASSUME NEW a \in Longs, NEW q \in Payrolls PROVE PointsWell(a, q)'
  <2>1. CASE Owner[a] \in dropped /\ paid[a][q].line = p
    <3>1. paid'[a][q].line = None
      BY <1>4, <2>1 DEF NoPayment
    <3> QED BY <3>1 DEF PointsWell
  <2>2. CASE ~(Owner[a] \in dropped /\ paid[a][q].line = p)
    <3> DEFINE k == paid[a][q].line
    <3>1. paid'[a][q] = paid[a][q] /\ PointsWell(a, q)
      BY <1>4, <2>2 DEF AgreeInv
    <3>2. k \in Keys
      BY DEF BalanceInv, Payments, PayRows
    <3>3. k # None => <<k, Owner[a]>> \in lines'
      BY <1>2, <1>5, <2>2, <3>1, <3>2 DEF PointsWell, Keys, On
    <3>4. k # None /\ k # q => <<k, Owner[a]>> \in moved'
      BY <1>1, <2>2, <3>1 DEF PointsWell
    <3> QED BY <3>1, <3>3, <3>4 DEF PointsWell
  <2> QED BY <2>1, <2>2
<1>10. ASSUME NEW x \in Payrolls, NEW f \in Employees, ~(x = p /\ f \in dropped)
       PROVE  /\ \A s \in Shorts : Owner[s] = f =>
                   (shorts'[s].payroll = x /\ shorts'[s].line = x
                      <=> shorts[s].payroll = x /\ shorts[s].line = x)
              /\ \A a \in Longs : Owner[a] = f => Booked(paid', a, x) = Booked(paid, a, x)
  <2> HIDE DEF dropped
  <2>1. \A s \in Shorts : Owner[s] = f =>
                   (shorts'[s].payroll = x /\ shorts'[s].line = x
                      <=> shorts[s].payroll = x /\ shorts[s].line = x)
    BY <1>2, <1>3, <1>10
  <2>2. \A a \in Longs : Owner[a] = f => Booked(paid', a, x) = Booked(paid, a, x)
    BY <1>2, <1>4, <1>10 DEF Booked, NoPayment
  <2> QED BY <2>1, <2>2
<1>11. ASSUME NEW x \in Payrolls, NEW f \in Employees PROVE ShortAt(x, f)' /\ LongAt(x, f)'
  <2>1. CASE x # p
    <3>1. /\ Computed(x, f, "short")' => Computed(x, f, "short")
          /\ Computed(x, f, "long")' => Computed(x, f, "long")
      BY <1>1, <2>1 DEF Computed
    <3>2. shortTotal'[<<x, f>>] = shortTotal[<<x, f>>] /\ longTotal'[<<x, f>>] = longTotal[<<x, f>>]
      BY <1>7, <2>1
    <3>3. ShortAt(x, f)'
      BY <1>10, <2>1, <3>1, <3>2, ShortCell
    <3>4. LongAt(x, f)'
      BY <1>10, <2>1, <3>1, <3>2, LongCell
    <3> QED BY <3>3, <3>4
  <2>2. CASE x = p /\ f \notin F
    BY <1>5, <2>2 DEF ShortAt, LongAt, Computed
  <2>3. CASE x = p /\ f \in F
    <3>1. /\ <<p, f, "short">> \notin byHand' =>
               /\ <<p, f, "short">> \notin byHand
               /\ shortTotal'[<<p, f>>] = shortTotal[<<p, f>>]
          /\ <<p, f, "long">> \notin byHand' =>
               /\ <<p, f, "long">> \notin byHand
               /\ longTotal'[<<p, f>>] = longTotal[<<p, f>>]
      <4>1. /\ <<p, f, "short">> \notin byHand' =>
                 <<p, f, "short">> \notin byHand /\ fig[f].short = None
            /\ <<p, f, "long">> \notin byHand' =>
                 <<p, f, "long">> \notin byHand /\ fig[f].long = None
        <5> HIDE DEF short, long
        <5> QED BY <1>1, <2>3
      <4>2. /\ fig[f].short = None => short(f) = shortTotal[<<p, f>>]
            /\ fig[f].long = None => long(f) = longTotal[<<p, f>>]
        BY DEF Figure
      <4> HIDE DEF short, long
      <4> QED BY <1>7, <2>3, <4>1, <4>2
    <3>2. CASE <<p, f>> \in lines
      <4>1. /\ Computed(x, f, "short")' => Computed(x, f, "short")
            /\ Computed(x, f, "long")' => Computed(x, f, "long")
        BY <1>1, <2>3, <3>1, <3>2 DEF Computed
      <4>2. ShortAt(x, f)'
        <5>1. CASE Computed(x, f, "short")'
          <6>1. shortTotal'[<<x, f>>] = shortTotal[<<x, f>>]
            BY <2>3, <3>1, <5>1 DEF Computed
          <6> QED BY <1>10, <2>3, <4>1, <6>1, ShortCell
        <5> QED BY <5>1 DEF ShortAt
      <4>3. LongAt(x, f)'
        <5>1. CASE Computed(x, f, "long")'
          <6>1. longTotal'[<<x, f>>] = longTotal[<<x, f>>]
            BY <2>3, <3>1, <5>1 DEF Computed
          <6> QED BY <1>10, <2>3, <4>1, <6>1, LongCell
        <5> QED BY <5>1 DEF LongAt
      <4> QED BY <4>2, <4>3
    <3>3. CASE <<p, f>> \notin lines
      <4>1. shortTotal[<<p, f>>] = 0 /\ longTotal[<<p, f>>] = 0
        BY <3>3, CellsWere
      <4>2. Held(x, f)' = {}
        <5>1. \A s \in Shorts : Owner[s] = f => shorts[s].line # p
          BY <1>2, <3>3 DEF LedgerInv, ReservedIffOnSheet
        <5> QED BY <1>10, <2>3, <5>1 DEF Held
      <4>3. BookedOnSheet(paid', x, f) = 0
        <5>1. PICK y : y = paid'
          OBVIOUS
        <5>2. \A a \in Longs : Owner[a] = f => Booked(y, a, x) = 0
          <6>1. \A a \in Longs : Owner[a] = f => paid[a][p].line # p
            BY <1>2, <3>3 DEF AgreeInv, PointsWell
          <6> QED BY <1>10, <2>3, <5>1, <6>1 DEF Booked
        <5>3. BookedOnSheet(y, x, f) = 0
          BY <5>2, BookedNone
        <5> QED BY <5>1, <5>3
      <4>4. ShortAt(x, f)'
        BY <2>3, <3>1, <4>1, <4>2, SumOfNone DEF ShortAt, Computed
      <4>5. LongAt(x, f)'
        BY <2>3, <3>1, <4>1, <4>3 DEF LongAt, Computed
      <4> QED BY <4>4, <4>5
    <3> QED BY <3>2, <3>3
  <2> QED BY <2>1, <2>2, <2>3
<1> QED BY <1>8, <1>9, <1>11 DEF AgreeInv

(* Where no payment has strayed onto a line, everything booked on it is    *)
(* booked by its own sheet.                                                *)
LEMMA BookedHere ==
  ASSUME NEW pd \in [Longs -> Payments], NEW p \in Payrolls, NEW e,
         \A a \in Longs, q \in Payrolls : Owner[a] = e /\ q # p => pd[a][q].line # p
  PROVE  BookedOnLine(pd, p, e) = BookedOnSheet(pd, p, e)
<1> DEFINE T == {a \in Longs : Owner[a] = e}
           f == [a \in Longs |-> SumFunctionOnSet(OnLine(pd, a, p), Payrolls)]
           g == [a \in Longs |-> OnLine(pd, a, p)[p]]
<1>1. ASSUME NEW a \in T
      PROVE  SumFunctionOnSet(OnLine(pd, a, p), Payrolls) = OnLine(pd, a, p)[p]
  <2> DEFINE h == OnLine(pd, a, p)
  <2>1. \A q \in Payrolls : h[q] \in Int
    BY DEF OnLine, Payments, PayRows
  <2>2. \A q \in Payrolls \ {p} : h[q] = 0
    BY DEF OnLine
  <2>3. IsFiniteSet(Payrolls)
    BY LedgerAssumption
  <2> HIDE DEF h
  <2>4. SumFunctionOnSet(h, Payrolls) = h[p]
    BY <2>1, <2>2, <2>3, SumOfOne
  <2> QED BY <2>4 DEF h
<1>2. IsFiniteSet(T) /\ \A a \in T : f[a] = g[a]
  BY <1>1, RowsOf
<1>3. SumFunctionOnSet(f, T) = SumFunctionOnSet(g, T)
  <2> HIDE DEF f, g, T
  <2> QED BY <1>2, SumSame
<1> QED BY <1>3 DEF BookedOnLine, BookedOnSheet

LEMMA DetachAgrees ==
  ASSUME LedgerInv, BalanceInv, BalanceInv', AgreeInv, NEW a \in Longs, Detach(a)
  PROVE  AgreeInv'
<1> DEFINE U == Unconfirmed(a)
<1>1. /\ longTotal' = [l \in Lines |->
           IF l \in lines /\ l[1] \in U THEN BookedOnLine(paid', l[1], l[2])
           ELSE longTotal[l]]
      /\ byHand' = {h \in byHand : ~(h[1] \in U /\ h[3] = "long")}
      /\ UNCHANGED <<lines, moved, shortTotal, shorts>>
  BY DEF Detach, lineVars
<1>2. /\ \A q \in Payrolls : paid'[a][q] = IF q \in U THEN NoPayment ELSE paid[a][q]
      /\ paid' = [paid EXCEPT ![a] = paid'[a]]
  BY Detached
<1>3. \A b \in Longs, q \in Payrolls :
        /\ paid'[b][q] = paid[b][q] \/ (q \in U /\ paid'[b][q] = NoPayment)
        /\ q \notin U => paid'[b][q] = paid[b][q]
  BY <1>2 DEF BalanceInv
<1> HIDE DEF U
<1>4. None \notin Payrolls /\ paid' \in [Longs -> Payments]
  BY LedgerAssumption DEF BalanceInv
<1>5. ASSUME NEW b \in Longs, NEW q \in Payrolls PROVE PointsWell(b, q)'
  <2>1. PointsWell(b, q)
    BY DEF AgreeInv
  <2>2. paid'[b][q] = paid[b][q] \/ paid'[b][q].line = None
    BY <1>3 DEF NoPayment
  <2> QED BY <1>1, <2>1, <2>2 DEF PointsWell
<1>6. ASSUME NEW x \in Payrolls, NEW f \in Employees
      PROVE  longTotal'[<<x, f>>] = IF <<x, f>> \in lines /\ x \in U
                                    THEN BookedOnLine(paid', x, f)
                                    ELSE longTotal[<<x, f>>]
  BY <1>1 DEF Lines
<1>7. ASSUME NEW x \in Payrolls, NEW f \in Employees
      PROVE  /\ <<x, f>> \in lines \ moved
                  => BookedOnLine(paid', x, f) = BookedOnSheet(paid', x, f)
             /\ BookedOnLine(paid', x, f) \in Int
  <2>1. PICK y \in [Longs -> Payments] : y = paid'
    BY <1>4
  <2>2. ASSUME <<x, f>> \in lines \ moved
        PROVE  BookedOnLine(y, x, f) = BookedOnSheet(y, x, f)
    <3>1. \A b \in Longs, q \in Payrolls : Owner[b] = f /\ q # x => y[b][q].line # x
      BY <1>1, <1>4, <1>5, <2>1, <2>2 DEF PointsWell
    <3> QED BY <3>1, BookedHere
  <2>3. BookedOnLine(y, x, f) \in Int
    <3> DEFINE T == {b \in Longs : Owner[b] = f}
               g == [b \in Longs |-> SumFunctionOnSet(OnLine(y, b, x), Payrolls)]
    <3>1. ASSUME NEW b \in Longs PROVE SumFunctionOnSet(OnLine(y, b, x), Payrolls) \in Int
      <4> DEFINE h == OnLine(y, b, x)
      <4>1. IsFiniteSet(Payrolls) /\ \A q \in Payrolls : h[q] \in Int
        BY LedgerAssumption DEF OnLine, Payments, PayRows
      <4> HIDE DEF h
      <4>2. SumFunctionOnSet(h, Payrolls) \in Int
        BY <4>1, SumInt
      <4> QED BY <4>2 DEF h
    <3>2. IsFiniteSet(T) /\ \A b \in T : g[b] \in Int
      BY <3>1, RowsOf
    <3>3. SumFunctionOnSet(g, T) \in Int
      <4> HIDE DEF g, T
      <4> QED BY <3>2, SumInt
    <3> QED BY <3>3 DEF BookedOnLine
  <2> QED BY <2>1, <2>2, <2>3
<1>8. TotalsOK' /\ NoLineNoTotal'
  <2>1. shortTotal' = [l \in Lines |-> shortTotal'[l]]
    BY <1>1 DEF AgreeInv, TotalsOK
  <2>2. longTotal' = [l \in Lines |-> longTotal'[l]]
    BY <1>1
  <2>3. \A x \in Payrolls, f \in Employees : shortTotal'[<<x, f>>] = shortTotal[<<x, f>>]
    BY <1>1
  <2> QED BY <1>1, <1>6, <1>7, <2>1, <2>2, <2>3, CellsWere, TotalsFrom
<1>9. ASSUME NEW x \in Payrolls, NEW f \in Employees PROVE ShortAt(x, f)' /\ LongAt(x, f)'
  <2>1. Computed(x, f, "short")' => Computed(x, f, "short")
    BY <1>1 DEF Computed
  <2>2. ShortAt(x, f)'
    BY <1>1, <2>1, ShortCell
  <2>3. CASE x \in U
    BY <1>1, <1>6, <1>7, <2>2, <2>3 DEF LongAt, Computed
  <2>4. CASE x \notin U
    <3>1. Computed(x, f, "long")' => Computed(x, f, "long")
      BY <1>1, <2>4 DEF Computed
    <3>2. \A b \in Longs : Booked(paid', b, x) = Booked(paid, b, x)
      BY <1>3, <2>4 DEF Booked
    <3> QED BY <1>6, <2>2, <2>4, <3>1, <3>2, LongCell
  <2> QED BY <2>3, <2>4
<1> QED BY <1>5, <1>8, <1>9 DEF AgreeInv

LEMMA RebuildAgrees ==
  ASSUME LedgerInv, BalanceInv, AgreeInv, NEW p \in Payrolls, Open(p),
         NEW punched \in SUBSET Employees, Rebuild(p, punched)
  PROVE  AgreeInv'
<1> DEFINE D == On(p) \ Kept(p)
           L == Kept(p) \cup {e \in punched : ~SkipsRebuild(p, e)}
<1>1. /\ lines' = {l \in lines : l[1] # p} \cup ({p} \X L)
      /\ moved' = moved \ ({p} \X D) /\ ApplyAdvances(p, L, D)
  BY DEF Rebuild
<1>2. /\ L \in SUBSET Employees /\ D \in SUBSET Employees /\ On(p) \subseteq L \cup D
  BY DEF Kept, On
<1> HIDE DEF L, D
<1>3. moved \subseteq Lines
  BY TypeParts DEF LedgerInv, LinesTypeOK, Lines
<1>4. LinesOf(p, L, D)
  <2>1. \A q \in Payrolls, e \in Employees :
          <<q, e>> \in lines' <=> IF q = p THEN e \in L ELSE <<q, e>> \in lines
    BY <1>1
  <2>2. \A l \in moved \ moved' : l[1] = p /\ l[2] \in D
    BY <1>1, <1>3 DEF Lines
  <2> QED BY <1>1, <2>1, <2>2 DEF LinesOf
<1> QED BY <1>1, <1>2, <1>4, ApplyAgrees

LEMMA LinkAgrees ==
  ASSUME LedgerInv, BalanceInv, AgreeInv, NEW p \in Payrolls, Open(p),
         ApplyAdvances(p, On(p), {}), UNCHANGED <<lines, moved>>
  PROVE  AgreeInv'
<1>1. On(p) \in SUBSET Employees /\ {} \in SUBSET Employees /\ On(p) \subseteq On(p) \cup {}
  BY DEF On
<1>2. LinesOf(p, On(p), {})
  BY DEF LinesOf, On
<1> QED BY <1>1, <1>2, ApplyAgrees

LEMMA SingleAgrees ==
  ASSUME LedgerInv, BalanceInv, AgreeInv, NEW p \in Payrolls, NEW e \in Employees,
         NEW punched \in BOOLEAN, CalculateSingle(p, e, punched)
  PROVE  AgreeInv'
<1>1. CASE punched
  <2> DEFINE L == On(p) \cup {e}
  <2>1. /\ Open(p) /\ lines' = lines \cup {<<p, e>>} /\ moved' = moved
        /\ ApplyAdvances(p, L, {})
    BY <1>1 DEF CalculateSingle
  <2>2. /\ L \in SUBSET Employees /\ {} \in SUBSET Employees
        /\ On(p) \subseteq L \cup {}
    BY DEF On
  <2>3. LinesOf(p, L, {})
    BY <2>1 DEF LinesOf, On
  <2> HIDE DEF L
  <2> QED BY <2>1, <2>2, <2>3, ApplyAgrees
<1>2. CASE ~punched
  <2>1. UNCHANGED <<lines, moved, shortTotal, longTotal, byHand, paid, shorts>>
    BY <1>2 DEF CalculateSingle, totalVars, longVars
  <2> QED BY <2>1, NothingMoves
<1> QED BY <1>1, <1>2

LEMMA SheetAgrees ==
  ASSUME LedgerInv, BalanceInv, AgreeInv, NEW p \in Payrolls, SheetStep(p)
  PROVE  AgreeInv'
<1>1. ASSUME NEW punched \in SUBSET Employees, Calculate(p, punched) PROVE AgreeInv'
  <2>1. CASE LinkAll(p)
    BY <1>1, <2>1, LinkAgrees DEF Calculate, LinkAll, lineVars
  <2>2. CASE Rebuild(p, punched)
    BY <1>1, <2>2, RebuildAgrees DEF Calculate
  <2> QED BY <1>1, <2>1, <2>2 DEF Calculate
<1>2. ASSUME NEW punched \in SUBSET Employees, NEW clears \in BOOLEAN,
             RebuildFromImport(p, punched, clears)
      PROVE  AgreeInv'
  BY <1>2, RebuildAgrees DEF RebuildFromImport
<1>3. CASE LinkAdvances(p)
  BY <1>3, LinkAgrees DEF LinkAdvances, lineVars
<1>4. CASE LinkDeductionsAndAdvances(p)
  BY <1>4, LinkAgrees DEF LinkDeductionsAndAdvances, LinkAll, lineVars
<1>5. CASE CreatePayroll(p) \/ LinkDeductionsOnly(p) \/ BackToDraft(p)
  <2>1. UNCHANGED <<lines, moved, shortTotal, longTotal, byHand, paid, shorts>>
    BY <1>5 DEF CreatePayroll, LinkDeductionsOnly, BackToDraft, lineVars, totalVars, longVars
  <2> QED BY <2>1, NothingMoves
<1>6. CASE ConfirmPayroll(p)
  <2>1. UNCHANGED <<lines, moved, shortTotal, longTotal, byHand, paid>>
    BY <1>6 DEF ConfirmPayroll, lineVars, totalVars, longVars
  <2>2. \A s \in Shorts : shorts'[s].payroll = shorts[s].payroll
                          /\ shorts'[s].line = shorts[s].line
    <3>1. shorts \in [Shorts -> ShortRows]
      BY TypeParts DEF LedgerInv
    <3> QED BY <1>6, <3>1 DEF ConfirmPayroll, ShortRows
  <2> QED BY <2>1, <2>2, NothingMoves
<1> QED
  BY <1>1, <1>2, <1>3, <1>4, <1>5, <1>6, FailsAgrees, SingleAgrees, LongOnlyAgrees
  DEF SheetStep

LEMMA LineAgrees ==
  ASSUME LedgerInv, BalanceInv, AgreeInv, NEW p \in Payrolls, LineStep(p)
  PROVE  AgreeInv'
<1>1. ASSUME NEW e \in Employees, DeleteLine(p, e) PROVE AgreeInv'
  BY <1>1, DeleteAgrees
<1>2. ASSUME NEW e \in Employees, NEW q \in Payrolls, MoveLine(p, q, e) PROVE AgreeInv'
  BY <1>2, MoveAgrees
<1>3. ASSUME NEW e \in Employees, NEW kind \in HandKinds, NEW n \in HandTotals,
             UpdateLine(p, e, kind, n)
      PROVE  AgreeInv'
  BY <1>3, UpdateAgrees
<1>4. ASSUME NEW F \in SUBSET Employees, NEW fig \in [F -> Cells], NEW M \in SUBSET F,
             NEW touched \in SUBSET Deds, ImportPayroll(p, F, fig, M, touched)
      PROVE  AgreeInv'
  BY <1>4, ImportAgrees
<1>5. ASSUME NEW touched \in SUBSET Deds, ImportBlank(p, touched) PROVE AgreeInv'
  <2>1. UNCHANGED <<lines, moved, shortTotal, longTotal, byHand, paid, shorts>>
    BY <1>5 DEF ImportBlank, lineVars, totalVars, longVars
  <2> QED BY <2>1, NothingMoves
<1> QED BY <1>1, <1>2, <1>3, <1>4, <1>5 DEF LineStep

LEMMA RowAgrees ==
  ASSUME LedgerInv, BalanceInv, BalanceInv', AgreeInv, RowStep
  PROVE  AgreeInv'
<1>1. ASSUME NEW s \in Shorts, CreateShort(s) \/ CancelShort(s) PROVE AgreeInv'
  <2>1. UNCHANGED <<lines, moved, shortTotal, longTotal, byHand, paid>>
    BY <1>1 DEF CreateShort, CancelShort, lineVars, totalVars, longVars
  <2>2. \A x \in Shorts : shorts'[x].payroll = shorts[x].payroll
                          /\ shorts'[x].line = shorts[x].line
    <3>1. shorts \in [Shorts -> ShortRows]
      BY TypeParts DEF LedgerInv
    <3> QED BY <1>1, <3>1 DEF CreateShort, CancelShort, ShortRows
  <2> QED BY <2>1, <2>2, NothingMoves
<1>2. ASSUME NEW d \in Deds, CreateDed(d) \/ CancelDed(d) \/ DeleteDed(d) PROVE AgreeInv'
  <2>1. UNCHANGED <<lines, moved, shortTotal, longTotal, byHand, paid, shorts>>
    BY <1>2 DEF CreateDed, CancelDed, DeleteDed, lineVars, totalVars, longVars
  <2> QED BY <2>1, NothingMoves
<1>3. ASSUME NEW a \in Longs, NEW long, SetLong(a, long) PROVE AgreeInv'
  <2>1. UNCHANGED <<lines, moved, shortTotal, longTotal, byHand, paid, shorts>>
    BY <1>3 DEF SetLong, lineVars, totalVars
  <2> QED BY <2>1, NothingMoves
<1>4. ASSUME NEW a \in Longs, ConfirmLong(a) \/ CancelLong(a) \/ StopLong(a) \/ LockLong(a)
      PROVE  AgreeInv'
  BY <1>3, <1>4 DEF ConfirmLong, CancelLong, StopLong, LockLong
<1>5. ASSUME NEW a \in Longs, NEW total \in Totals, NEW n \in Counts, CreateLong(a, total, n)
      PROVE  AgreeInv'
  BY <1>3, <1>5 DEF CreateLong
<1>6. ASSUME NEW a \in Longs, Detach(a) PROVE AgreeInv'
  BY <1>6, DetachAgrees
<1>7. ASSUME NEW a \in Longs, NEW total \in Totals, NEW n \in Counts,
             UpdateLong(a, total, n) \/ AdjustRemaining(a, total, n)
      PROVE  AgreeInv'
  BY <1>6, <1>7 DEF UpdateLong, AdjustRemaining
<1> QED BY <1>1, <1>2, <1>4, <1>5, <1>7 DEF RowStep

LEMMA AgreeStep ==
  LedgerInv /\ BalanceInv /\ AgreeInv /\ [Next]_vars => AgreeInv'
<1> SUFFICES ASSUME LedgerInv, BalanceInv, AgreeInv, [Next]_vars PROVE AgreeInv'
  OBVIOUS
<1>0. BalanceInv'
  BY BalanceStep
<1>1. CASE \E p \in Payrolls : SheetStep(p)
  BY <1>1, SheetAgrees
<1>2. CASE \E p \in Edited : LineStep(p)
  BY <1>2, LineAgrees, LedgerAssumption
<1>3. CASE RowStep
  BY <1>0, <1>3, RowAgrees
<1>4. CASE EmployeeStep
  <2>1. UNCHANGED <<lines, moved, shortTotal, longTotal, byHand, paid, shorts>>
    BY <1>4 DEF EmployeeStep, Leave, Return, lineVars, totalVars, longVars
  <2> QED BY <2>1, NothingMoves
<1>5. CASE UNCHANGED vars
  <2>1. UNCHANGED <<lines, moved, shortTotal, longTotal, byHand, paid, shorts>>
    BY <1>5 DEF vars, lineVars, totalVars, longVars
  <2> QED BY <2>1, NothingMoves
<1> QED BY <1>1, <1>2, <1>3, <1>4, <1>5 DEF Next

LEMMA AgreeInit == Init => AgreeInv
<1> SUFFICES ASSUME Init PROVE AgreeInv
  OBVIOUS
<1>1. /\ lines = {} /\ shortTotal = [l \in Lines |-> 0] /\ longTotal = [l \in Lines |-> 0]
      /\ paid = [a \in Longs |-> [p \in Payrolls |-> NoPayment]]
  BY DEF Init
<1>2. TotalsOK /\ NoLineNoTotal
  BY <1>1 DEF TotalsOK, NoLineNoTotal
<1>3. \A a \in Longs, q \in Payrolls : PointsWell(a, q)
  BY <1>1 DEF PointsWell, NoPayment
<1>4. \A p \in Payrolls, e \in Employees : ShortAt(p, e) /\ LongAt(p, e)
  BY <1>1 DEF ShortAt, LongAt, Computed
<1> QED BY <1>2, <1>3, <1>4 DEF AgreeInv

(* The figures of a line and the rows behind it, in every reachable state. *)
THEOREM FiguresHold == Spec => []AgreeInv
<1>1. LedgerInv /\ BalanceInv /\ AgreeInv /\ [Next]_vars => AgreeInv'
  BY AgreeStep
<1> QED BY <1>1, AgreeInit, LedgerHolds, BalancesHold, PTL DEF Spec

(* Whatever is re-linked, adjusted, detached, deleted, moved or imported,  *)
(* a figure the ledger wrote is the sum of the rows it reserved there.     *)
THEOREM LinesCharge == Spec => []LinesAgree
<1>1. AgreeInv => LinesAgree
  BY DEF AgreeInv, LinesAgree, ShortAt, LongAt, Computed, Held
<1> QED BY <1>1, FiguresHold, PTL

-----------------------------------------------------------------------------
(* Part 4, the loan book.                                                  *)

(* The ledger implements the loan book. *)

Final(a) == [p \in Payrolls |-> IF sheet[p] = "confirmed" THEN OnLine(paid, a, p)[p] ELSE 0]

LEMMA SettledIs == \A a \in Longs : Settled(a) = SumFunctionOnSet(Final(a), Payrolls)
  BY DEF Settled, Final

LEMMA FinalIs ==
  ASSUME BalanceInv, NEW a \in Longs, NEW p \in Payrolls
  PROVE  /\ Final(a)[p] = IF sheet[p] = "confirmed" /\ paid[a][p].line = p
                          THEN paid[a][p].amount ELSE 0
         /\ Final(a)[p] \in Nat /\ paid[a][p].amount \in Nat
         /\ Final(a)[p] <= paid[a][p].amount
<1>1. paid[a][p].amount \in Nat
  BY DEF BalanceInv, Payments, PayRows
<1> QED BY <1>1 DEF Final, OnLine

Bounded ==
  \A a \in Longs : /\ Settled(a) \in Int /\ Settled(a) <= longs[a].total
                   /\ \A p \in Payrolls : Final(a)[p] \in Int

LEMMA SettledBounded == BalanceInv => Bounded
<1> SUFFICES ASSUME BalanceInv, NEW a \in Longs
             PROVE  /\ Settled(a) \in Int /\ Settled(a) <= longs[a].total
                    /\ \A p \in Payrolls : Final(a)[p] \in Int
  BY DEF Bounded
<1> DEFINE g == [p \in Payrolls |-> paid[a][p].amount]
<1>1. \A p \in Payrolls : /\ Final(a)[p] \in Int /\ g[p] \in Int /\ Final(a)[p] <= g[p]
  BY FinalIs
<1>2. PICK f : f = Final(a)
  OBVIOUS
<1>3. IsFiniteSet(Payrolls)
  BY LedgerAssumption
<1>4. SumFunctionOnSet(f, Payrolls) <= SumFunctionOnSet(g, Payrolls)
  <2> HIDE DEF g
  <2> QED BY <1>1, <1>2, <1>3, SumLeq
<1>5. SumFunctionOnSet(f, Payrolls) \in Int
  BY <1>1, <1>2, <1>3, SumInt
<1>6. SumFunctionOnSet(g, Payrolls) = PaidSum(paid[a])
  BY DEF PaidSum
<1>7. PaidSum(paid[a]) <= longs[a].total /\ PaidSum(paid[a]) \in Nat /\ longs[a].total \in Nat
  BY PaidSumNat DEF BalanceInv, Balanced, LongRows
<1> HIDE DEF g
<1> QED BY <1>1, <1>2, <1>4, <1>5, <1>6, <1>7, SettledIs

LEMMA SettledBoundedNext == BalanceInv' => Bounded'
  BY SettledBounded, PTL

LEMMA SettledNext == \A a \in Longs : Settled(a)' = SumFunctionOnSet(Final(a)', Payrolls)
  BY DEF Settled, Final

(* What was collected through a confirmed sheet stays collected. *)
LEMMA SettledGrows ==
  ASSUME LedgerInv, BalanceInv, BalanceInv', Good, NEW a \in Longs
  PROVE  Settled(a)' >= Settled(a)
<1>1. ASSUME NEW p \in Payrolls PROVE Final(a)[p] <= Final(a)'[p]
  <2>1. CASE sheet[p] = "confirmed" /\ paid[a][p].line = p
    <3>1. sheet'[p] = "confirmed" /\ paid'[a][p] = paid[a][p]
      BY <2>1 DEF Good, Frozen, KeepsLongs
    <3>2. Final(a)'[p] = paid'[a][p].amount
      BY <2>1, <3>1 DEF Final, OnLine
    <3> QED BY <2>1, <3>1, <3>2, FinalIs
  <2>2. CASE ~(sheet[p] = "confirmed" /\ paid[a][p].line = p)
    <3>1. Final(a)[p] = 0
      BY <2>2, FinalIs
    <3>2. paid'[a][p].amount \in Nat
      BY DEF BalanceInv, Payments, PayRows
    <3>3. Final(a)'[p] \in Nat
      BY <3>2 DEF Final, OnLine
    <3> QED BY <3>1, <3>3
  <2> QED BY <2>1, <2>2
<1>2. PICK f, g : f = Final(a) /\ g = Final(a)'
  OBVIOUS
<1>3. \A p \in Payrolls : f[p] \in Int /\ g[p] \in Int
  BY <1>2, SettledBounded, SettledBoundedNext DEF Bounded
<1>4. SumFunctionOnSet(f, Payrolls) <= SumFunctionOnSet(g, Payrolls)
  BY <1>1, <1>2, <1>3, SumLeq, LedgerAssumption
<1>5. Settled(a) = SumFunctionOnSet(f, Payrolls) /\ Settled(a)' = SumFunctionOnSet(g, Payrolls)
  BY <1>2, SettledIs, SettledNext
<1> QED BY <1>4, <1>5, SettledBounded, SettledBoundedNext DEF Bounded

(* An advance is rewritten without touching what is collected. *)
LEMMA SettledStays ==
  ASSUME BalanceInv, Rewrites, NEW a \in Longs
  PROVE  Settled(a)' = Settled(a)
<1>1. PICK f, g : f = Final(a) /\ g = Final(a)'
  OBVIOUS
<1>2. \A p \in Payrolls : f[p] = g[p]
  <2>1. ASSUME NEW p \in Payrolls PROVE Final(a)[p] = Final(a)'[p]
    <3>1. /\ sheet' = sheet
          /\ sheet[p] = "confirmed" => paid'[a][p] = paid[a][p]
      BY DEF Rewrites
    <3> QED BY <3>1 DEF Final, OnLine
  <2> QED BY <1>1, <2>1
<1>3. SumFunctionOnSet(f, Payrolls) = SumFunctionOnSet(g, Payrolls)
  BY <1>2, SumSame, LedgerAssumption
<1> QED BY <1>1, <1>3, SettledIs, SettledNext

LEMMA BookInit == Init => Book!Init
<1> SUFFICES ASSUME Init PROVE Book!Init
  OBVIOUS
<1>1. ASSUME NEW a \in Longs PROVE Settled(a) = 0 /\ longs[a].total = 0
  <2>1. PICK f : f = Final(a)
    OBVIOUS
  <2>2. \A p \in Payrolls : f[p] = 0
    BY <2>1 DEF Final, Init
  <2>3. SumFunctionOnSet(f, Payrolls) = 0
    BY <2>2, SumOfZeros, LedgerAssumption
  <2> QED BY <2>1, <2>3, SettledIs DEF Init
<1> QED BY <1>1 DEF Book!Init

LEMMA BookStep ==
  ASSUME LedgerInv, BalanceInv, [Next]_vars
  PROVE  [Book!Next]_<<[a \in Longs |-> longs[a].total], [a \in Longs |-> Settled(a)]>>
<1> DEFINE owed == [a \in Longs |-> longs[a].total]
           settled == [a \in Longs |-> Settled(a)]
<1>1. BalanceInv' /\ (SameTotals \/ Rewrites) /\ Good
  BY BalanceStep, LedgerStep
<1>2. \A a \in Longs : /\ Settled(a)' >= Settled(a) /\ Settled(a)' <= longs'[a].total
  BY <1>1, SettledGrows, SettledBoundedNext DEF Bounded
<1>3. \A a \in Longs : settled[a] = Settled(a) /\ settled'[a] = Settled(a)'
                       /\ owed[a] = longs[a].total /\ owed'[a] = longs'[a].total
  OBVIOUS
<1>4. CASE SameTotals
  <2>1. owed' = owed
    BY <1>4 DEF SameTotals
  <2>2. \A a \in Longs : settled'[a] >= settled[a] /\ settled'[a] <= owed[a]
    BY <1>2, <1>3, <1>4 DEF SameTotals
  <2> QED BY <2>1, <2>2 DEF Book!Next, Book!Collect
<1>5. CASE Rewrites
  <2>1. \A a \in Longs : Settled(a)' = Settled(a)
    BY <1>5, SettledStays
  <2>2. settled' = settled
    BY <2>1
  <2>3. PICK a \in Longs : longs' = [longs EXCEPT ![a] = longs'[a]]
    BY <1>5 DEF Rewrites
  <2>4. owed' = [owed EXCEPT ![a] = owed'[a]]
    BY <2>3 DEF BalanceInv
  <2>5. owed'[a] >= settled[a]
    <3>1. Settled(a) <= longs'[a].total /\ Settled(a) \in Int /\ longs'[a].total \in Nat
      BY <1>1, <1>2, <2>1, SettledBounded DEF BalanceInv, LongRows, Bounded
    <3> QED BY <3>1
  <2> QED BY <2>2, <2>4, <2>5 DEF Book!Next, Book!Rewrite
<1> QED BY <1>1, <1>4, <1>5

(* Whatever sheets, links and rewritten advances do, a reader of confirmed *)
(* sheets sees a loan book: what is collected grows and never exceeds what *)
(* is owed.                                                                *)
THEOREM LedgerImplements == Spec => ImplementsLoanBook
<1>1. LedgerInv /\ BalanceInv /\ [Next]_vars
        => [Book!Next]_<<[a \in Longs |-> longs[a].total], [a \in Longs |-> Settled(a)]>>
  BY BookStep
<1> QED BY <1>1, BookInit, LedgerHolds, BalancesHold, PTL
        DEF Spec, ImplementsLoanBook, Book!Spec

=============================================================================
