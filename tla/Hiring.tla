------------------------------- MODULE Hiring -------------------------------
(***************************************************************************)
(* Hiring appointments and the employees they become                       *)
(* (hiringAppointment.service.ts, hiringAppointmentProvision.service.ts    *)
(* and hiring.routes.ts), on top of the employee codes they take.          *)
(*                                                                         *)
(* HR files an appointment, the branch manager or a webhook decides, and   *)
(* after every update of an approved appointment the employee is           *)
(* provisioned: linked, found by the national id, or created.  A closed    *)
(* appointment (rejected or cancelled) may be sent again.                  *)
(***************************************************************************)
EXTENDS EmployeeCodes

CONSTANTS
  Appts,   \* ids of HiringAppointment rows
  Nids     \* national ids

ASSUME HiringAssumption == None \notin Appts \cup Nids

VARIABLES
  appt,      \* the HiringAppointment rows
  nid,       \* nationalIdConfirm of the employees
  hiredFor,  \* history: the appointment an employee was created for
  stale,     \* history: appointments decided by a call that read an older
             \* status
  double     \* history: appointments provisioned again by a call that could
             \* not see the first employee

hireVars == <<appt, nid, hiredFor, stale, double>>
vars == <<codeVars, hireVars>>

NoAppt == [st |-> "none", code |-> None, nid |-> None, emp |-> None]

HiresOf(a) == {e \in Employees : Exists(e) /\ hiredFor[e] = a}

(* A hiring call carries its appointment, the status it read, what it      *)
(* writes, and, once it wrote, the row it got back.                        *)
HireCall(at, a, to, c) ==
  [CallAt(at, "hire", c, None, None) EXCEPT
     !.job = [appt |-> a, was |-> appt[a].st, to |-> to, row |-> appt[a],
              seen |-> {}]]

-----------------------------------------------------------------------------
(* createHiringAppointment: no appointment has the code, no employee the   *)
(* code or the national id.                                                *)
StartFile(k, a, c, n) ==
  /\ appt[a].st = "none"
  /\ ~ \E b \in Appts : appt[b].code = c
  /\ ~ \E e \in Employees :
         Exists(e) /\ (c \in ByCode(e) \/ (n # None /\ nid[e] = n))
  /\ Begins(k, [HireCall("file", a, "pending", c) EXCEPT !.job.row.nid = n], 0)
  /\ UNCHANGED <<emp, bio, excl, clash, twice, removed, mistaken, hireVars>>

File(k) ==
  LET l == call[k]
      j == l.job
  IN
  /\ l.at = "file"
  /\ appt[j.appt].st = "none"
  /\ appt' = [appt EXCEPT ![j.appt] = [st |-> "pending", code |-> l.code,
                                       nid |-> j.row.nid, emp |-> None]]
  /\ Ends(k)
  /\ UNCHANGED <<emp, bio, excl, clash, twice, removed, mistaken, edits,
                 nid, hiredFor, stale, double>>

-----------------------------------------------------------------------------
(* updateHiringAppointment and applyHiringAppointmentWebhook: the status   *)
(* is read, and written later without a second look.                       *)

(* Mutant: the resending of a closed appointment is open to a decided one. *)
MayBecomeAny(from, to) == from # "none" /\ from # to

MayBecome(from, to) ==
  \/ from = "pending" /\ to \in {"approved", "closed"}
  \/ from = "closed" /\ to = "pending"

StartDecide(k, a, to) ==
  /\ MayBecome(appt[a].st, to)
  /\ Begins(k, HireCall("decide", a, to, appt[a].code), 0)
  /\ UNCHANGED <<emp, bio, excl, clash, twice, removed, mistaken, hireVars>>

(* An update that leaves the status alone: another code, or nothing.       *)
StartEdit(k, a, c) ==
  /\ appt[a].st # "none"
  /\ Begins(k, HireCall("decide", a, "keep", c), 1)
  /\ UNCHANGED <<emp, bio, excl, clash, twice, removed, mistaken, hireVars>>

Decide(k) ==
  LET l == call[k]
      j == l.job
      a == j.appt
      st == IF j.to = "keep" THEN appt[a].st ELSE j.to
      row == [appt[a] EXCEPT !.st = st,
                             !.code = IF j.to = "keep" THEN l.code ELSE @]
  IN
  /\ l.at = "decide"
  /\ appt' = [appt EXCEPT ![a] = row]
  /\ stale' = IF j.to # "keep" /\ appt[a].st # j.was THEN stale \cup {a}
              ELSE stale
  /\ IF st # "approved" THEN Ends(k)
     ELSE call' = [call EXCEPT ![k] =
            [@ EXCEPT !.at = "linked", !.code = row.code,
                      !.known = Holders(row.code),
                      !.job = [j EXCEPT !.row = row, !.seen = HiresOf(a)]]]
  /\ UNCHANGED <<emp, bio, excl, clash, twice, removed, mistaken, edits,
                 nid, hiredFor, double>>

-----------------------------------------------------------------------------
(* provisionEmployeeFromHiringAppointment, on the row of the update.       *)
CheckLink(k) ==
  LET l == call[k]
      row == l.job.row
  IN
  /\ l.at = "linked"
  /\ IF row.emp # None /\ Exists(row.emp) THEN Ends(k)
     ELSE Goes(k, IF row.nid = None THEN "code" ELSE "nid")
  /\ UNCHANGED <<emp, bio, excl, clash, twice, removed, mistaken, edits,
                 hireVars>>

FindNid(k) ==
  LET l == call[k]
      known == {e \in Employees : Exists(e) /\ nid[e] = l.job.row.nid}
  IN
  /\ l.at = "nid"
  /\ IF known = {} THEN Goes(k, "code")
     ELSE \E e \in known : call' = [call EXCEPT ![k].at = "join", ![k].on = e]
  /\ UNCHANGED <<emp, bio, excl, clash, twice, removed, mistaken, edits,
                 hireVars>>

(* The employee with the national id is linked unless another appointment  *)
(* has it.                                                                 *)
Join(k) ==
  LET l == call[k]
      a == l.job.appt
      elsewhere == \E b \in Appts \ {a} : appt[b].emp = l.on
  IN
  /\ l.at = "join"
  /\ Exists(l.on)
  /\ appt' = IF elsewhere \/ l.job.row.emp = l.on THEN appt
             ELSE [appt EXCEPT ![a].emp = l.on]
  /\ Ends(k)
  /\ UNCHANGED <<emp, bio, excl, clash, twice, removed, mistaken, edits,
                 nid, hiredFor, stale, double>>

CheckCode(k) ==
  LET l == call[k] IN
  /\ l.at = "code"
  /\ ~ \E e \in Employees : Exists(e) /\ l.code \in ByCode(e)
  /\ Goes(k, "hire")
  /\ UNCHANGED <<emp, bio, excl, clash, twice, removed, mistaken, edits,
                 hireVars>>

(* Mutant: the employee is created and the appointment not linked. *)
LinkNone(a, e) == UNCHANGED appt

Link(a, e) == appt' = [appt EXCEPT ![a].emp = e]

(* One transaction creates the employee and links the appointment. *)
Hire(k, e) ==
  LET l == call[k]
      a == l.job.appt
  IN
  /\ l.at = "hire"
  /\ emp[e].st = "unused"
  /\ emp' = [emp EXCEPT ![e] = NewRow(l.code)]
  /\ nid' = [nid EXCEPT ![e] = l.job.row.nid]
  /\ Link(a, e)
  /\ hiredFor' = [hiredFor EXCEPT ![e] = a]
  /\ double' = IF HiresOf(a) # {} /\ HiresOf(a) \cap l.job.seen = {}
               THEN double \cup {a} ELSE double
  /\ Clashes(e, l.code, l.known)
  /\ Ends(k)
  /\ UNCHANGED <<bio, excl, twice, removed, mistaken, edits, stale>>

-----------------------------------------------------------------------------
(* The rest of the system works on the employees; a deleted employee is    *)
(* unlinked (onDelete: SetNull) and its national id is gone.               *)
Unlinks ==
  LET left == {e \in Employees : Exists(e)'} IN
  /\ appt' = [a \in Appts |->
       [appt[a] EXCEPT !.emp = IF @ \in left THEN @ ELSE None]]
  /\ nid' = [e \in Employees |-> IF e \in left THEN nid[e] ELSE None]
  /\ UNCHANGED <<hiredFor, stale, double>>

Hires(k) ==
  \/ \E a \in Appts, c \in Codes :
       \/ \E n \in Nids \cup {None} : StartFile(k, a, c, n)
       \/ StartEdit(k, a, c)
  \/ \E a \in Appts, to \in {"pending", "approved", "closed"} :
       StartDecide(k, a, to)
  \/ File(k) \/ Decide(k) \/ CheckLink(k) \/ FindNid(k) \/ Join(k)
  \/ CheckCode(k)
  \/ \E e \in Employees : Hire(k, e)

Init ==
  /\ CodesInit
  /\ appt = [a \in Appts |-> NoAppt]
  /\ nid = [e \in Employees |-> None]
  /\ hiredFor = [e \in Employees |-> None]
  /\ stale = {} /\ double = {}

Next == (CodesNext /\ Unlinks) \/ \E k \in Calls : Hires(k)

HiringSpec == Init /\ [][Next]_vars

-----------------------------------------------------------------------------
(* One appointment has two living employees only when two provisions of it *)
(* overlapped: linking, the national id and the duplicate check hold for   *)
(* any order of decisions, renamings and deletions.                        *)
HiredOnce ==
  \A e, f \in Employees :
    e # f /\ Exists(e) /\ Exists(f) /\ hiredFor[e] = hiredFor[f]
      /\ hiredFor[e] # None
      => hiredFor[e] \in double

(* An appointment that has its employee is approved: only a decision taken *)
(* on an older status leaves a hired person on a refused appointment.      *)
HiredIsApproved ==
  \A a \in Appts : appt[a].emp # None => appt[a].st = "approved" \/ a \in stale
==============================================================================
