----------------------------- MODULE VpsDatabase -----------------------------
(***************************************************************************)
(* The control plane's SQLite database, as far as operations on the VPN    *)
(* server are concerned: the operation lease, the operations, the VPN      *)
(* revisions with their immutable snapshots, and the clients.  Every       *)
(* transaction is an operator from a database d to a database; a worker or *)
(* an administrator runs it in one step.                                   *)
(*                                                                         *)
(* What a snapshot says is abstracted to the clients it lets in, the       *)
(* address it publishes and what the process that took it had from its     *)
(* environment where no setting is saved; every other setting only moves   *)
(* the revision.  The three operation tables are one function, told apart  *)
(* by kind.                                                                *)
(***************************************************************************)
EXTENDS Naturals

CONSTANTS
  Clients,   \* clients the panel may hold
  MaxOps,    \* bound: operations ever created
  MaxRev,    \* bound: revisions ever reached
  MaxEnv     \* bound: environments of the panel, beyond the first

ASSUME DatabaseAssumption ==
  MaxOps \in Nat /\ MaxRev \in Nat \ {0} /\ MaxEnv \in Nat

Ops  == 1 .. MaxOps
Revs == 1 .. MaxRev
Environments == 0 .. MaxEnv

\* Address 1 is there from the beginning, and operation i buys the next one.
Addresses == 1 .. MaxOps + 1
NewIp(i)  == i + 1

Kinds    == {"none", "INSTALL", "IP_CHANGE", "REBOOT", "STATUS"}
Terminal == {"DONE", "FAILED", "TIMED_OUT", "AMBIGUOUS"}
Statuses == {"none", "PENDING", "RUNNING"} \cup Terminal
Sends    == {"NOT_STARTED", "SENDING", "SENT", "CONFIRMED", "AMBIGUOUS",
             "REJECTED"}
Applies  == {"NOT_STARTED", "RUNNING", "APPLIED", "FAILED", "AMBIGUOUS"}
ActionStates ==
  {"NOT_STARTED", "PURCHASE_SENDING", "PURCHASE_SENT", "PURCHASE_CONFIRMED",
   "MAKE_MAIN_SENDING", "MAIN_CHANGED", "MAIN_CONFIRMED", "APPLYING",
   "APPLIED", "APPLY_FAILED", "PUBLISHED", "CLEANUP_SENDING",
   "CLEANUP_CONFIRMED", "CLEANUP_AMBIGUOUS", "PUBLISHED_AWAITING_AWG_CHECK",
   "ROLLING_BACK", "ROLLED_BACK", "RECONCILED", "DONE", "FAILED",
   "SENDING", "SENT", "AMBIGUOUS",
   "WAITING_SSH", "SSH_UNREACHABLE", "SSH_WAIT_QUEUED", "RETRY_REQUESTED",
   "CANCELLED", "AWAITING_USER_REVIEW", "CLEANUP_QUEUED", "CLEANUP_RUNNING",
   "CLEANUP_REJECTED"}

Operation == [kind     : Kinds,
              status   : Statuses,
              rev      : 0 .. MaxRev,
              action   : ActionStates,
              purchase : Sends,
              main     : Sends,
              apply    : Applies]

Body     == [clients : SUBSET Clients, ip : Addresses, env : Environments]
Snapshot == [life : {"none", "PREPARED", "APPLIED", "FAILED"}, body : Body]
Client   == [state : {"absent", "enabled", "disabled", "deleted", "purged"},
             gone  : 0 .. MaxRev]

\* Beside the tables: the environment the process was started with, which
\* every capture reads too, and, as history, the address of the last
\* publication, which current_ip is until the settings name another.
Database == [lease     : 0 .. MaxOps,     \* 0: nobody holds it
             expired   : BOOLEAN,
             op        : [Ops -> Operation],
             snap      : [Revs -> Snapshot],
             desired   : Revs,
             applied   : 0 .. MaxRev,     \* 0: unknown
             client    : [Clients -> Client],
             ip        : Addresses,       \* current_ip
             env       : Environments,
             published : Addresses]

NoOperation(kind, rev) ==
  [kind |-> kind, status |-> IF kind = "none" THEN "none" ELSE "PENDING",
   rev |-> rev, action |-> "NOT_STARTED", purchase |-> "NOT_STARTED",
   main |-> "NOT_STARTED", apply |-> "NOT_STARTED"]

\* A panel that has some clients and has never installed anything.
InitialDatabase(clients) ==
  [lease |-> 0, expired |-> FALSE,
   op |-> [i \in Ops |-> NoOperation("none", 0)],
   snap |-> [r \in Revs |-> [life |-> "none",
                             body |-> [clients |-> {}, ip |-> 1,
                                       env |-> 0]]],
   desired |-> 1, applied |-> 0,
   client |-> [c \in Clients |->
                 [state |-> IF c \in clients THEN "enabled" ELSE "absent",
                  gone |-> 0]],
   ip |-> 1, env |-> 0, published |-> 1]

Active(d, i) == d.op[i].status \in {"PENDING", "RUNNING"}
IsRotation(d, i) == d.op[i].kind = "IP_CHANGE"

\* The identifiers are given out in order and never reused.
NextId(d) == {i \in Ops : /\ d.op[i].kind = "none"
                          /\ \A j \in Ops : j < i => d.op[j].kind # "none"}

-----------------------------------------------------------------------------
(***************************************************************************)
(* operation_coordinator.py: one lease for the VPN server.                 *)
(***************************************************************************)
Heartbeat(d, i) == IF d.lease = i THEN [d EXCEPT !.expired = FALSE] ELSE d

Release(d, i) ==
  IF d.lease = i THEN [d EXCEPT !.lease = 0, !.expired = FALSE] ELSE d

\* Has operation o possibly changed something outside the database?
MayHaveActed(o) ==
  \/ /\ o.kind = "IP_CHANGE"
     /\ \E f \in {o.purchase, o.main, o.apply} : f # "NOT_STARTED"
  \/ o.kind = "REBOOT" /\ o.action \in {"SENDING", "SENT", "AMBIGUOUS"}

\* Slip: an interrupted operation is always a failed one.
InterruptedFails(o) ==
  [o EXCEPT !.status = "FAILED",
            !.action = IF o.kind = "IP_CHANGE" THEN "NOT_STARTED" ELSE @]

\* A SprintBOX rotation that only waited for its new box to answer: the box is
\* known, and a person decides again what to do with it.
OnlyWaited(o) ==
  /\ o.action \in {"WAITING_SSH", "SSH_WAIT_QUEUED"}
  /\ o.purchase = "CONFIRMED"
  /\ o.main = "NOT_STARTED" /\ o.apply = "NOT_STARTED"

Interrupted(o) ==
  CASE OnlyWaited(o) ->
         [o EXCEPT !.status = "DONE", !.action = "SSH_UNREACHABLE"]
    [] ~OnlyWaited(o) /\ MayHaveActed(o) ->
         [o EXCEPT !.status = "AMBIGUOUS", !.action = "AMBIGUOUS"]
    [] OTHER ->
         [o EXCEPT !.status = "FAILED",
                   !.action = IF o.kind = "IP_CHANGE" THEN "NOT_STARTED"
                                                      ELSE @]

\* _fail_owner, for each of the operations in S.
FailOwners(d, S) ==
  [d EXCEPT
     !.op = [i \in Ops |-> IF i \in S /\ Active(d, i)
                           THEN Interrupted(d.op[i]) ELSE d.op[i]],
     !.snap = [r \in Revs |->
                 IF /\ d.snap[r].life = "PREPARED"
                    /\ \E i \in S : d.op[i].kind = "INSTALL" /\ d.op[i].rev = r
                 THEN [d.snap[r] EXCEPT !.life = "FAILED"]
                 ELSE d.snap[r]]]

\* Slip: a lease that somebody holds is taken over, expired or not.
TakesAny(d) == TRUE

CanAcquire(d) == d.lease = 0 \/ d.expired

\* acquire_vps_lease: an expired owner is failed first.
Acquire(d, i) ==
  LET e == IF d.lease = 0 THEN d ELSE FailOwners(d, {d.lease})
  IN  [e EXCEPT !.lease = i, !.expired = FALSE]

\* recover_incomplete_vps_operations, when the panel starts.
RecoverIncomplete(d) ==
  [FailOwners(d, {i \in Ops : Active(d, i)})
     EXCEPT !.lease = 0, !.expired = FALSE]

-----------------------------------------------------------------------------
(***************************************************************************)
(* vpn_state.py and db.py: revisions, snapshots and clients.               *)
(***************************************************************************)
\* What capture_vpn_config reads, from the tables and, where a setting is not
\* saved, from the environment; the canonical payload keeps all of it.
Content(d) ==
  [clients |-> {c \in Clients : d.client[c].state = "enabled"}, ip |-> d.ip,
   env |-> d.env]

\* _ensure_snapshot refuses a revision whose stored content differs.
Conflict(d) ==
  d.snap[d.desired].life # "none" /\ d.snap[d.desired].body # Content(d)

EnsureSnapshot(d, reprepare) ==
  CASE d.snap[d.desired].life = "none" ->
         [d EXCEPT !.snap[d.desired] = [life |-> "PREPARED",
                                        body |-> Content(d)]]
    [] reprepare /\ d.snap[d.desired].life = "FAILED" ->
         [d EXCEPT !.snap[d.desired].life = "PREPARED"]
    [] OTHER -> d

CreateOperation(d, i, kind, rev) ==
  Acquire([d EXCEPT !.op[i] = NoOperation(kind, rev)], i)

PrepareInstall(d, i) ==
  CreateOperation(EnsureSnapshot(d, TRUE), i, "INSTALL", d.desired)

\* Slip: only an ambiguous operation holds the next one back.
HoldsIfAmbiguous(d, i) ==
  /\ IsRotation(d, i)
  /\ d.op[i].status = "AMBIGUOUS" /\ d.op[i].action # "RECONCILED"

\* prepare_ip_change_operation: what makes it demand a manual verification.
Unresolved(d, i) ==
  /\ IsRotation(d, i)
  /\ \/ d.op[i].status = "AMBIGUOUS" /\ d.op[i].action # "RECONCILED"
     \/ d.op[i].action \in {"AMBIGUOUS", "CLEANUP_AMBIGUOUS",
                            "PUBLISHED_AWAITING_AWG_CHECK"}

\* Slip: a box that does not answer holds nothing back.
NeverUndecided(d, i) == FALSE

\* A box that does not answer waits for a decision; until it is taken no other
\* rotation begins, except the one that is the decision on operation except.
Undecided(d, i) ==
  d.op[i].status = "DONE" /\ d.op[i].action = "SSH_UNREACHABLE"

CanRotate(d, except) ==
  \A i \in Ops : ~Unresolved(d, i) /\ (Undecided(d, i) => i = except)

PrepareRotation(d, i) ==
  CreateOperation(EnsureSnapshot(d, FALSE), i, "IP_CHANGE", d.desired)

\* Slip: deleted clients are purged with the first revision applied.
PurgeAll(d) ==
  [d EXCEPT !.client =
     [c \in Clients |-> IF d.client[c].state = "deleted" /\ d.applied # 0
                        THEN [d.client[c] EXCEPT !.state = "purged"]
                        ELSE d.client[c]]]

\* purge_applied_deleted_clients: with applied unknown nothing is purged.
PurgeDeleted(d) ==
  [d EXCEPT !.client =
     [c \in Clients |-> IF /\ d.client[c].state = "deleted"
                           /\ d.applied # 0 /\ d.client[c].gone <= d.applied
                        THEN [d.client[c] EXCEPT !.state = "purged"]
                        ELSE d.client[c]]]

\* Slip: an install is taken to have applied what is desired by now.
CompleteAsDesired(d, i) ==
  Release(PurgeDeleted([d EXCEPT
            !.snap[d.desired].life = "APPLIED",
            !.applied = d.desired,
            !.op[i].status = "DONE"]), i)

\* Slip: the last install to complete says what is applied.
CompleteInAnyOrder(d, i) ==
  LET r == d.op[i].rev
  IN  Release(PurgeDeleted([d EXCEPT
                !.snap[r].life = "APPLIED",
                !.applied = r,
                !.op[i].status = "DONE"]), i)

CompleteInstall(d, i) ==
  LET r == d.op[i].rev
  IN  Release(PurgeDeleted([d EXCEPT
                !.snap[r].life = "APPLIED",
                !.applied = IF @ < r THEN r ELSE @,
                !.op[i].status = "DONE"]), i)

\* Slip: the snapshot of a failed install is failed, applied or not.
DemotedSnapshot(d, r) == [d EXCEPT !.snap[r].life = "FAILED"]

FailedSnapshot(d, r) ==
  IF d.snap[r].life # "APPLIED" THEN [d EXCEPT !.snap[r].life = "FAILED"]
                                ELSE d

FailInstall(d, i) ==
  Release([FailedSnapshot(d, d.op[i].rev) EXCEPT !.op[i].status = "FAILED"], i)

\* The status is only touched while the operation is not over.
MarkAmbiguous(d, i) ==
  Release([FailedSnapshot(d, d.op[i].rev) EXCEPT
             !.op[i].status = IF Active(d, i) THEN "AMBIGUOUS" ELSE @], i)

\* Slip: the published content keeps the revision it was bound to.
PublishInPlace(d, i) ==
  [d EXCEPT !.snap[d.op[i].rev].life = "APPLIED",
            !.ip = NewIp(i), !.published = NewIp(i),
            !.applied = d.op[i].rev,
            !.op[i].status = "RUNNING",
            !.op[i].action = "PUBLISHED"]

\* publish_ip_change: the bound content under a new revision and address.
\* There is no heartbeat in it.
Publish(d, i) ==
  LET r == d.op[i].rev
  IN  PurgeDeleted(
        [d EXCEPT !.snap[r + 1] = [life |-> "APPLIED",
                                   body |-> [d.snap[r].body EXCEPT
                                               !.ip = NewIp(i)]],
                  !.snap[r].life = "APPLIED",
                  !.ip = NewIp(i), !.published = NewIp(i),
                  !.desired = r + 1,
                  !.applied = r + 1,
                  !.op[i].status = "RUNNING",
                  !.op[i].action = "PUBLISHED"])

\* reconcile_ip_operation, on an operation that is over and on hold.
CanReconcile(d, i) ==
  /\ IsRotation(d, i) /\ d.op[i].status \in Terminal
  /\ \/ d.op[i].status = "AMBIGUOUS"
     \/ d.op[i].action \in {"CLEANUP_AMBIGUOUS", "PUBLISHED_AWAITING_AWG_CHECK"}
  /\ d.op[i].action # "RECONCILED"

Reconciled(d, i) == [d EXCEPT !.op[i].action = "RECONCILED"]

NewRevision(d) == [d EXCEPT !.desired = @ + 1]

\* The settings may name another current_ip, and nobody checks it.
SetCurrentIp(d, a) == [NewRevision(d) EXCEPT !.ip = a]

CreateClient(d, c) == NewRevision([d EXCEPT !.client[c].state = "enabled"])

SetClientEnabled(d, c, state) ==
  NewRevision([d EXCEPT !.client[c].state = state])

\* The row stays until a revision without the client has been applied.
DeleteClient(d, c) ==
  LET e == NewRevision(d)
  IN  [e EXCEPT !.client[c] = [state |-> "deleted", gone |-> e.desired]]
=============================================================================
