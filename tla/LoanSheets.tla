----------------------------- MODULE LoanSheets -----------------------------
(***************************************************************************)
(* Loan sheets and the accounts in Odoo.  A sheet (AdvanceLoanImport) is   *)
(* either uploaded by HR and approved as a whole, or the open manual batch *)
(* that collects the short advances granted one by one; a locked sheet is  *)
(* sent to Odoo, where it becomes a record with a journal entry            *)
(* (advanceLoanImport, manualAdvanceBatch and odoo/odooLoanAccounts).      *)
(*                                                                         *)
(* Handlers are cut at their Prisma and Odoo calls.  A call may end        *)
(* anywhere; Odoo may refuse, or do what it was asked and its answer is    *)
(* lost.  Only the approval of a sheet is one transaction (serializable).  *)
(***************************************************************************)
EXTENDS Integers, FiniteSets

CONSTANTS
  Advances,    \* ids of short advances
  Manual,      \* sheets the server opens as manual batches
  Uploaded,    \* sheets HR uploads
  Rows,        \* ids of sheet lines (AdvanceLoanImportLine)
  Records,     \* ids Odoo gives its records
  Calls,       \* handler calls that may be under way at once
  None

Sheets == Manual \cup Uploaded

ASSUME SheetAssumption ==
  /\ Manual \cap Uploaded = {}
  /\ None \notin Sheets \cup Advances \cup Rows \cup Records

VARIABLES
  adv,      \* AdvanceShort.state
  sheet,    \* the state of each sheet and its odooAccountsSendId
  row,      \* the lines: their sheet, advance and toApprove
  remote,   \* external: the records in Odoo and what they pay
  call,     \* the calls under way
  raced,    \* history: advances a call wrote about after its check went stale
  doubt,    \* history: sheets whose record was made and not noted at once
  waiting   \* history: orphans a call found, while they stay pending

vars == <<adv, sheet, row, remote, call, raced, doubt, waiting>>

NoSheet == [state |-> "none", sent |-> None]
NoRow == [sheet |-> None, adv |-> None, pick |-> FALSE]
NoRecord == [sheet |-> None, pays |-> {}, posted |-> FALSE]
Idle == [at |-> "idle", closing |-> FALSE, todo |-> {}, adv |-> None,
         sheet |-> None, row |-> None, record |-> None]

Open(b) == b \in Manual /\ sheet[b] = [state |-> "draft", sent |-> None]

RowsOf(b) == {l \in Rows : row[l].sheet = b}
RowsFor(a) == {l \in Rows : row[l].adv = a}
Free(l) == row[l] = NoRow

Becomes(c, k) == call' = [call EXCEPT ![c] = k]
Goes(c, to) == Becomes(c, [call[c] EXCEPT !.at = to])
Ends(c) == Becomes(c, Idle)

(* An id is new: no line has it and no call under way remembers it. *)
NewId(l) == Free(l) /\ \A c \in Calls : call[c].row # l

(* History: what a call still waits for are its orphans that stay pending  *)
(* and that no late write has touched.                                     *)
KeepsWaiting == waiting' = [c \in Calls |->
  IF ~call'[c].closing \/ call'[c].at = "idle" THEN {}
  ELSE {a \in waiting[c] : adv'[a] = "pending" /\ a \notin raced'}]

-----------------------------------------------------------------------------
(* Granting, and joining the open manual batch. *)

(* createShortAdvance; the batch is joined afterwards, and what goes wrong *)
(* there is swallowed.                                                     *)
Grant(c, a) ==
  /\ call[c] = Idle /\ adv[a] = "none"
  /\ adv' = [adv EXCEPT ![a] = "pending"]
  /\ Becomes(c, [Idle EXCEPT !.at = "attach", !.todo = {a}])
  /\ UNCHANGED <<sheet, row, remote, raced, doubt>> /\ KeepsWaiting

(* Mutant: only the first orphan is taken along. *)
FindOrphansOne(c, closing) ==
  LET orphans == {a \in Advances : adv[a] = "pending" /\ RowsFor(a) = {}}
  IN /\ call[c] = Idle
     /\ \E some \in SUBSET orphans :
          /\ Cardinality(some) <= 1 /\ (orphans # {} => some # {})
          /\ Becomes(c, [Idle EXCEPT !.at = "attach", !.closing = closing,
                                     !.todo = some])
     /\ waiting' = [waiting EXCEPT ![c] = IF closing THEN orphans ELSE {}]
     /\ UNCHANGED <<adv, sheet, row, remote, raced, doubt>>

(* ensureOrphanManualShortsInOpenBatch, on opening the page of the batch   *)
(* or before sending it.  It reads the linked advances and then the        *)
(* pending ones; one linked in between is dropped again by Attach.         *)
FindOrphans(c, closing) ==
  LET orphans == {a \in Advances : adv[a] = "pending" /\ RowsFor(a) = {}}
  IN /\ call[c] = Idle
     /\ Becomes(c, [Idle EXCEPT !.at = "attach", !.closing = closing,
                                !.todo = orphans])
     /\ waiting' = [waiting EXCEPT ![c] = IF closing THEN orphans ELSE {}]
     /\ UNCHANGED <<adv, sheet, row, remote, raced, doubt>>

(* attachShortToOpenManualBatch: an advance that has a line is left alone. *)
Attach(c, a) ==
  LET k == call[c] IN
  /\ k.at = "attach" /\ a \in k.todo
  /\ \/ RowsFor(a) # {} /\ Becomes(c, [k EXCEPT !.todo = k.todo \ {a}])
     \/ /\ RowsFor(a) = {}
        /\ Becomes(c, [k EXCEPT !.at = "batch", !.adv = a, !.todo = k.todo \ {a}])
  /\ UNCHANGED <<adv, sheet, row, remote, raced, doubt>> /\ KeepsWaiting

(* getOrCreateOpenManualBatch: the oldest open batch (any of them here),   *)
(* or a new one.                                                           *)
FindBatch(c) ==
  /\ call[c].at = "batch"
  /\ \/ \E b \in Manual : /\ Open(b)
                          /\ Becomes(c, [call[c] EXCEPT !.at = "line", !.sheet = b])
     \/ (\A b \in Manual : ~Open(b)) /\ Goes(c, "newBatch")
  /\ UNCHANGED <<adv, sheet, row, remote, raced, doubt>> /\ KeepsWaiting

NewBatch(c, b) ==
  /\ call[c].at = "newBatch" /\ sheet[b] = NoSheet
  /\ sheet' = [sheet EXCEPT ![b].state = "draft"]
  /\ Becomes(c, [call[c] EXCEPT !.at = "line", !.sheet = b])
  /\ UNCHANGED <<adv, row, remote, raced, doubt>> /\ KeepsWaiting

(* The line is created whatever became of the batch and the advance. *)
Joining(a) == {c \in Calls : call[c].adv = a /\ call[c].at \in
                               {"batch", "newBatch", "line"}}

AddLine(c, l) ==
  LET k == call[c] IN
  /\ k.at = "line" /\ NewId(l)
  /\ row' = [row EXCEPT ![l] = [sheet |-> k.sheet, adv |-> k.adv, pick |-> FALSE]]
  /\ raced' = raced
       \cup (IF Joining(k.adv) # {c} \/ adv[k.adv] = "cancelled" \/ ~Open(k.sheet)
             THEN {k.adv} ELSE {})
  /\ Becomes(c, [k EXCEPT !.at = "attach", !.adv = None, !.sheet = None])
  /\ UNCHANGED <<adv, sheet, remote, doubt>> /\ KeepsWaiting

Attached(c) ==
  /\ call[c].at = "attach" /\ call[c].todo = {}
  /\ IF call[c].closing THEN Goes(c, "find") ELSE Ends(c)
  /\ UNCHANGED <<adv, sheet, row, remote, raced, doubt>> /\ KeepsWaiting

-----------------------------------------------------------------------------
(* lockAndSendOpenManualBatchToOdoo, once the orphans are in. *)
FindOpen(c) ==
  /\ call[c].at = "find"
  /\ \/ \E b \in Manual : /\ Open(b)
                          /\ Becomes(c, [call[c] EXCEPT !.at = "lock", !.sheet = b])
     \/ (\A b \in Manual : ~Open(b)) /\ Ends(c)
  /\ UNCHANGED <<adv, sheet, row, remote, raced, doubt>> /\ KeepsWaiting

(* A batch without a line to pay is refused; freezeManualBatchTotals only  *)
(* writes amounts.                                                         *)
Sendable(b) == \E l \in RowsOf(b) : row[l].adv # None /\ adv[row[l].adv] # "cancelled"

LockBatch(c) ==
  LET b == call[c].sheet IN
  /\ call[c].at = "lock"
  /\ IF Sendable(b)
     THEN sheet' = [sheet EXCEPT ![b].state = "locked"] /\ Goes(c, "load")
     ELSE Ends(c) /\ UNCHANGED sheet
  /\ UNCHANGED <<adv, row, remote, raced, doubt>> /\ KeepsWaiting

(* sendLoanImportToOdooAccounts as a request for any sheet. *)
StartSend(c, b) ==
  /\ call[c] = Idle /\ sheet[b].state \notin {"none", "gone"}
  /\ Becomes(c, [Idle EXCEPT !.at = "load", !.sheet = b])
  /\ UNCHANGED <<adv, sheet, row, remote, raced, doubt>> /\ KeepsWaiting

(* An error goes to the caller: the sending of the manual batch reopens it, *)
(* a direct one just ends.                                                 *)
Error(c) == IF call[c].closing THEN Goes(c, "reopen") ELSE Ends(c)

Sending(b) == {c \in Calls : call[c].sheet = b /\ call[c].at \in
                              {"export", "create", "post", "persist", "note"}}

Overlaps(b) == doubt' = IF Sending(b) = {} THEN doubt ELSE doubt \cup {b}

LoadSheet(c) ==
  LET b == call[c].sheet IN
  /\ call[c].at = "load"
  /\ IF sheet[b] = [state |-> "locked", sent |-> None]
     THEN Goes(c, "export") /\ Overlaps(b)
     ELSE Error(c) /\ UNCHANGED doubt
  /\ UNCHANGED <<adv, sheet, row, remote, raced>> /\ KeepsWaiting

(* loadLoanAccountsExportLines: every line with an advance is paid, one    *)
(* that was cancelled too.                                                 *)
Export(c) ==
  LET pays == {row[l].adv : l \in RowsOf(call[c].sheet)} \ {None} IN
  /\ call[c].at = "export"
  /\ IF pays = {} THEN Error(c)
     ELSE Becomes(c, [call[c] EXCEPT !.at = "create", !.todo = pays])
  /\ UNCHANGED <<adv, sheet, row, remote, raced, doubt>> /\ KeepsWaiting

(* External: Odoo makes the record and its id comes back, or is lost; or   *)
(* it refuses.                                                             *)
CreateRecord(c, i) ==
  LET k == call[c] IN
  /\ k.at = "create" /\ remote[i] = NoRecord
  /\ remote' = [remote EXCEPT ![i] = [sheet |-> k.sheet, pays |-> k.todo,
                                      posted |-> FALSE]]
  /\ \/ /\ Becomes(c, [k EXCEPT !.at = "post", !.record = i, !.todo = {}])
        /\ UNCHANGED doubt
     \/ Error(c) /\ doubt' = doubt \cup {k.sheet}
  /\ UNCHANGED <<adv, sheet, row, raced>> /\ KeepsWaiting

(* action_create_journal_entry, and reading the record back. *)
PostEntry(c, done) ==
  /\ call[c].at = "post"
  /\ remote' = [remote EXCEPT ![call[c].record].posted = @ \/ done]
  /\ \/ done /\ Goes(c, "persist")
     \/ Goes(c, "note")
  /\ UNCHANGED <<adv, sheet, row, raced, doubt>> /\ KeepsWaiting

(* Mutant: the id of a record without entry is not stored. *)
PersistPosted(c) ==
  LET k == call[c] IN
  /\ k.at \in {"persist", "note"}
  /\ sheet' = IF k.at = "persist" THEN [sheet EXCEPT ![k.sheet].sent = k.record]
              ELSE sheet
  /\ IF k.at = "persist" THEN Ends(c) ELSE Error(c)
  /\ UNCHANGED <<adv, row, remote, raced, doubt>> /\ KeepsWaiting

(* The id is stored here, after success or in the handler of the error. *)
Persist(c) ==
  LET k == call[c] IN
  /\ k.at \in {"persist", "note"}
  /\ sheet' = [sheet EXCEPT ![k.sheet].sent = k.record]
  /\ IF k.at = "persist" THEN Ends(c) ELSE Error(c)
  /\ UNCHANGED <<adv, row, remote, raced, doubt>> /\ KeepsWaiting

(* The sending of the manual batch failed: its state goes back to draft. *)
Reopen(c) ==
  /\ call[c].at = "reopen"
  /\ sheet' = [sheet EXCEPT ![call[c].sheet].state = "draft"]
  /\ Ends(c)
  /\ UNCHANGED <<adv, row, remote, raced, doubt>> /\ KeepsWaiting

-----------------------------------------------------------------------------
(* Cancelling an advance, deleting a line. *)

(* cancelShortAdvance *)
StartCancel(c, a) ==
  /\ call[c] = Idle /\ adv[a] = "pending"
  /\ Becomes(c, [Idle EXCEPT !.at = "cancel", !.adv = a])
  /\ UNCHANGED <<adv, sheet, row, remote, raced, doubt>> /\ KeepsWaiting

CancelAdvance(c) ==
  LET a == call[c].adv IN
  /\ call[c].at = "cancel"
  /\ adv' = [adv EXCEPT ![a] = "cancelled"]
  /\ raced' = IF adv[a] = "applied" THEN raced \cup {a} ELSE raced
  /\ Goes(c, "findLine")
  /\ UNCHANGED <<sheet, row, remote, doubt>> /\ KeepsWaiting

(* Mutant: the line stays. *)
FindLineNone(c) ==
  /\ call[c].at = "findLine"
  /\ Ends(c)
  /\ UNCHANGED <<adv, sheet, row, remote, raced, doubt>> /\ KeepsWaiting

(* findFirst of the line, and whether its batch is still open. *)
FindLine(c) ==
  LET a == call[c].adv IN
  /\ call[c].at = "findLine"
  /\ \/ \E l \in RowsFor(a) :
          IF Open(row[l].sheet)
          THEN Becomes(c, [call[c] EXCEPT !.at = "dropLine", !.row = l])
          ELSE Ends(c)
     \/ RowsFor(a) = {} /\ Ends(c)
  /\ raced' = IF \E l \in RowsFor(a) : ~Open(row[l].sheet) THEN raced \cup {a}
              ELSE raced
  /\ UNCHANGED <<adv, sheet, row, remote, doubt>> /\ KeepsWaiting

(* deleteAdvanceLoanImportLine: closed on locked sheets; a line with an    *)
(* advance only on the open batch, and then the advance is cancelled first. *)
StartDelete(c, l) ==
  LET b == row[l].sheet IN
  /\ call[c] = Idle /\ ~Free(l) /\ sheet[b].state = "draft"
  /\ row[l].adv # None => Open(b)
  /\ Becomes(c, [Idle EXCEPT !.row = l, !.adv = row[l].adv,
                    !.at = IF row[l].adv = None THEN "dropLine" ELSE "strike"])
  /\ UNCHANGED <<adv, sheet, row, remote, raced, doubt>> /\ KeepsWaiting

StrikeAdvance(c) ==
  LET a == call[c].adv IN
  /\ call[c].at = "strike"
  /\ adv' = IF adv[a] = "applied" THEN adv ELSE [adv EXCEPT ![a] = "cancelled"]
  /\ Goes(c, "dropLine")
  /\ UNCHANGED <<sheet, row, remote, raced, doubt>> /\ KeepsWaiting

(* The line goes, if another call has not deleted it before, whatever      *)
(* became of its advance and its batch.                                    *)
DropLine(c) ==
  LET l == call[c].row
      a == row[l].adv
  IN /\ call[c].at = "dropLine"
     /\ row' = [row EXCEPT ![l] = NoRow]
     /\ raced' = IF a # None /\ adv[a] # "cancelled" THEN raced \cup {a} ELSE raced
     /\ Ends(c)
     /\ UNCHANGED <<adv, sheet, remote, doubt>> /\ KeepsWaiting

-----------------------------------------------------------------------------
(* Uploaded sheets. *)

(* createAdvanceLoanImport *)
NewSheet(b) ==
  /\ b \in Uploaded /\ sheet[b] = NoSheet
  /\ sheet' = [sheet EXCEPT ![b].state = "draft"]
  /\ UNCHANGED <<adv, row, remote, call, raced, doubt, waiting>>

(* addManualLoanImportLine, or a row of the file. *)
AddRow(b, l) ==
  /\ b \in Uploaded /\ sheet[b].state = "draft" /\ NewId(l)
  /\ row' = [row EXCEPT ![l] = [sheet |-> b, adv |-> None, pick |-> TRUE]]
  /\ UNCHANGED <<adv, sheet, remote, call, raced, doubt, waiting>>

(* deleteAdvanceLoanImportDraft: the check of the state, then the sheet    *)
(* goes with its lines (the foreign key cascades).                         *)
StartDrop(c, b) ==
  /\ call[c] = Idle /\ b \in Uploaded /\ sheet[b].state = "draft"
  /\ Becomes(c, [Idle EXCEPT !.at = "dropSheet", !.sheet = b])
  /\ UNCHANGED <<adv, sheet, row, remote, raced, doubt>> /\ KeepsWaiting

DropSheet(c) ==
  LET b == call[c].sheet IN
  /\ call[c].at = "dropSheet"
  /\ sheet' = [sheet EXCEPT ![b].state = "gone"]
  /\ row' = [l \in Rows |-> IF row[l].sheet = b THEN NoRow ELSE row[l]]
  /\ raced' = IF sheet[b].state = "draft" THEN raced
              ELSE raced \cup ({row[l].adv : l \in RowsOf(b)} \ {None})
  /\ Ends(c)
  /\ UNCHANGED <<adv, remote, doubt>> /\ KeepsWaiting

Selected(b) == {l \in RowsOf(b) : row[l].pick /\ row[l].adv = None}

(* approveAdvanceLoanImport: the rows are validated first. *)
StartApprove(c, b) ==
  /\ call[c] = Idle /\ b \in Uploaded /\ sheet[b].state = "draft"
  /\ Selected(b) # {}
  /\ Becomes(c, [Idle EXCEPT !.at = "approve", !.sheet = b, !.todo = Selected(b)])
  /\ UNCHANGED <<adv, sheet, row, remote, raced, doubt>> /\ KeepsWaiting

(* Mutant: the transaction does not look at the sheet again. *)
ApproveBlind(c, new) ==
  LET k == call[c] IN
  /\ k.at = "approve"
  /\ new \in [k.todo -> {a \in Advances : adv[a] = "none"}]
  /\ \A l, m \in k.todo : new[l] = new[m] => l = m
  /\ adv' = [a \in Advances |-> IF \E l \in k.todo : new[l] = a THEN "pending"
                                ELSE adv[a]]
  /\ row' = [l \in Rows |-> IF l \in k.todo
                            THEN [sheet |-> k.sheet, adv |-> new[l], pick |-> FALSE]
                            ELSE row[l]]
  /\ sheet' = [sheet EXCEPT ![k.sheet].state = "locked"]
  /\ Ends(c)
  /\ UNCHANGED <<remote, raced, doubt>> /\ KeepsWaiting

(* The transaction: the sheet is a draft with the same rows, and each row  *)
(* gets its advance; otherwise nothing is written.                         *)
Approve(c, new) ==
  LET k == call[c] IN
  /\ k.at = "approve"
  /\ sheet[k.sheet].state = "draft" /\ Selected(k.sheet) = k.todo
  /\ new \in [k.todo -> {a \in Advances : adv[a] = "none"}]
  /\ \A l, m \in k.todo : new[l] = new[m] => l = m
  /\ adv' = [a \in Advances |-> IF \E l \in k.todo : new[l] = a THEN "pending"
                                ELSE adv[a]]
  /\ row' = [l \in Rows |-> IF l \in k.todo
                            THEN [sheet |-> k.sheet, adv |-> new[l], pick |-> FALSE]
                            ELSE row[l]]
  /\ sheet' = [sheet EXCEPT ![k.sheet].state = "locked"]
  /\ Ends(c)
  /\ UNCHANGED <<remote, raced, doubt>> /\ KeepsWaiting

-----------------------------------------------------------------------------
(* A payroll takes an advance and deducts it. *)
Apply(a) ==
  /\ adv[a] = "pending"
  /\ adv' = [adv EXCEPT ![a] = "applied"]
  /\ UNCHANGED <<sheet, row, remote, call, raced, doubt>> /\ KeepsWaiting

-----------------------------------------------------------------------------
(* A call ends early: a query fails or the process stops.  In the middle   *)
(* of a send the error may also be caught, as Error does.                  *)
Fail(c) ==
  LET k == call[c] IN
  /\ k # Idle
  /\ \/ Ends(c)
     \/ k.at \in {"load", "export", "create"} /\ Error(c)
     \/ k.at = "persist" /\ Goes(c, "note")
  /\ doubt' = IF k.at \in {"post", "persist", "note"} /\ call'[c] = Idle
              THEN doubt \cup {k.sheet} ELSE doubt
  /\ raced' = IF k.at \in {"findLine", "dropLine"} /\ k.adv # None
              THEN raced \cup {k.adv} ELSE raced
  /\ UNCHANGED <<adv, sheet, row, remote>> /\ KeepsWaiting

-----------------------------------------------------------------------------
Init ==
  /\ adv = [a \in Advances |-> "none"]
  /\ sheet = [b \in Sheets |-> NoSheet]
  /\ row = [l \in Rows |-> NoRow]
  /\ remote = [i \in Records |-> NoRecord]
  /\ call = [c \in Calls |-> Idle]
  /\ raced = {} /\ doubt = {}
  /\ waiting = [c \in Calls |-> {}]

BatchStep(c) ==
  \/ \E a \in Advances : Grant(c, a) \/ Attach(c, a)
  \/ \E closing \in BOOLEAN : FindOrphans(c, closing)
  \/ FindBatch(c) \/ Attached(c) \/ FindOpen(c) \/ LockBatch(c)
  \/ \E b \in Manual : NewBatch(c, b)
  \/ \E l \in Rows : AddLine(c, l)

SendStep(c) ==
  \/ \E b \in Sheets : StartSend(c, b)
  \/ LoadSheet(c) \/ Export(c) \/ Persist(c) \/ Reopen(c)
  \/ \E i \in Records : CreateRecord(c, i)
  \/ \E done \in BOOLEAN : PostEntry(c, done)

EditStep(c) ==
  \/ \E a \in Advances : StartCancel(c, a)
  \/ CancelAdvance(c) \/ FindLine(c) \/ StrikeAdvance(c) \/ DropLine(c)
  \/ \E l \in Rows : StartDelete(c, l)
  \/ DropSheet(c)
  \/ \E b \in Uploaded : StartApprove(c, b) \/ StartDrop(c, b)
  \/ \E new \in [call[c].todo -> Advances] : Approve(c, new)
  \/ Fail(c)

Next ==
  \/ \E c \in Calls : BatchStep(c) \/ SendStep(c) \/ EditStep(c)
  \/ \E b \in Uploaded : NewSheet(b) \/ \E l \in Rows : AddRow(b, l)
  \/ \E a \in Advances : Apply(a)

Spec == Init /\ [][Next]_vars

-----------------------------------------------------------------------------
(* Properties *)

(* Odoo pays an advance twice only if the answer to the creation of a      *)
(* record was lost, a send ended before it could store the id or two sends *)
(* overlapped, or after a late write took the line of the advance away or  *)
(* gave it a second: lines, batches, their reopening and the repetition of *)
(* a send whose journal entry failed never pay twice by themselves         *)
(* (odooLoanAccounts.service.ts:769 and :818).                             *)
PaidOnce ==
  \A a \in Advances :
    LET payers == {i \in Records : a \in remote[i].pays}
    IN Cardinality(payers) > 1
       => a \in raced \/ \E i \in payers : remote[i].sheet \in doubt

Dropping(a) == \E c \in Calls : call[c].adv = a /\ call[c].at \in {"findLine", "dropLine"}

(* A cancelled advance is not paid by the open batch: while its line is    *)
(* still there, the call that cancelled it is about to drop it, unless the *)
(* batch was locked in the meantime or the call ended early.               *)
CancelledLeavesBatch ==
  \A l \in Rows :
    (row[l].adv # None /\ adv[row[l].adv] = "cancelled" /\ Open(row[l].sheet))
    => row[l].adv \in raced \/ Dropping(row[l].adv)

(* When a manual batch is about to be locked, no advance that was waiting  *)
(* without a line is left behind.                                          *)
NothingLeftBehind ==
  \A c \in Calls : call[c].at \in {"find", "lock"} =>
    \A a \in waiting[c] : RowsFor(a) # {}

(* An approved sheet pays each of its rows through an advance of its own,  *)
(* and approving it twice at once grants nothing more: every advance an    *)
(* uploaded sheet granted stays on one line of it.                         *)
ApprovedOnce ==
  [][\A b \in Uploaded : sheet[b].state = "locked" =>
       \A l \in Rows : row[l].sheet = b /\ row[l].adv # None
         => row'[l] = row[l] \/ row'[l] = NoRow]_vars

=============================================================================
