---------------------------- MODULE VpsOperations ----------------------------
(***************************************************************************)
(* The control plane's operations on the VPN server: installs, Aeza IP     *)
(* rotations, reboots and status checks, each run by a background worker   *)
(* of the panel's one process, while administrators edit clients and start *)
(* more operations, the process is restarted, and requests get lost.       *)
(*                                                                         *)
(* A worker is an asyncio task.  Its pc names the next database            *)
(* transaction, provider request or remote script it will run; between two *)
(* of them anything else may happen.  A remote script belongs to the VPN   *)
(* server, not to its worker: it goes on when the worker stops waiting.    *)
(***************************************************************************)
EXTENDS VpsDatabase, FiniteSets

CONSTANTS
  InitialClients, \* clients the panel has at first
  KindsRun,       \* the kinds of operation that may be started
  AwgEnabled,     \* values amnezia.protocol.enabled may take in a snapshot
  FaultKinds,     \* "crash", "net", "db", "dbFirst", "dbLate", "dbEnd" and
                  \* "expire"
  MaxFaults,      \* bound: faults in a behaviour
  MaxEdits        \* bound: edits in a behaviour

ASSUME OperationsAssumption ==
  /\ InitialClients \subseteq Clients /\ KindsRun \subseteq Kinds \ {"none"}
  /\ AwgEnabled \subseteq BOOLEAN /\ AwgEnabled # {}
  /\ MaxFaults \in Nat /\ MaxEdits \in Nat

VARIABLES
  db,      \* the SQLite database
  pc,      \* what the worker of each operation does next, "off" when none
  script,  \* the remote script of each operation, on the VPN server
  vps,     \* the revision the VPN server serves, 0 for none
  owned,   \* the addresses the provider has given to the server
  main,    \* the one the provider routes to it
  sent,    \* the operations whose reboot request reached the provider
  faults,  \* counter, for the bound only
  edits    \* counter, for the bound only

world == <<script, vps, owned, main, sent>>
vars  == <<db, pc, world, faults, edits>>

Steps ==
  {"off",
   "install", "install_send", "install_wait", "install_done", "install_fail",
   "install_unclear",
   "get_ipv4_list", "purchase_mark", "purchase", "purchased", "purchase_lost",
   "wait_new_ipv4", "main_mark", "make_main", "main_changed", "main_lost",
   "confirm_main", "wait_ssh", "apply", "apply_wait", "applied",
   "apply_failed", "apply_lost", "health", "publish", "cleanup_mark",
   "cleanup", "cleaned", "cleanup_lost", "finish", "finish_awg",
   "finish_unclear", "undo", "unmake_main", "undone", "undo_lost", "give_up",
   "reboot", "reboot_mark", "reboot_send", "reboot_sent", "reboot_lost",
   "reboot_verify", "reboot_unclear", "reboot_fail",
   "status", "status_end", "status_fail",
   "rotation_dead", "reboot_dead", "status_dead"}

\* The worker is gone before it could write anything.
Dead == {"rotation_dead", "reboot_dead", "status_dead"}

ScriptStates == {"none", "running", "ok", "failed"}

Init ==
  /\ db = InitialDatabase(InitialClients)
  /\ pc = [i \in Ops |-> "off"]
  /\ script = [i \in Ops |-> [state |-> "none", base |-> 0]]
  /\ vps = 0 /\ owned = {1} /\ main = 1 /\ sent = {}
  /\ faults = 0 /\ edits = 0

TypeOK ==
  /\ db \in Database
  /\ pc \in [Ops -> Steps]
  /\ script \in [Ops -> [state : ScriptStates, base : 0 .. MaxRev]]
  /\ vps \in 0 .. MaxRev
  /\ owned \subseteq Addresses /\ main \in Addresses
  /\ sent \subseteq Ops
  /\ faults \in 0 .. MaxFaults /\ edits \in 0 .. MaxEdits

Spend(kind) ==
  kind \in FaultKinds /\ faults < MaxFaults /\ faults' = faults + 1

Rev(i) == db.op[i].rev
OldIp(i) == db.snap[Rev(i)].body.ip       \* config.current_ip, as bound
Bound(i) == db.desired = Rev(i)           \* _ensure_bound_revision_current

-----------------------------------------------------------------------------
(***************************************************************************)
(* What a worker's step is made of.                                        *)
(***************************************************************************)
Goto(i, step) == pc' = [pc EXCEPT ![i] = step]

\* update_..._operation: without a terminal status the lease is renewed, with
\* one it is released; neither asks whether it still was this operation's.
Save(i, o) == db' = Heartbeat([db EXCEPT !.op[i] = o], i)
End(i, o)  == db' = Release([db EXCEPT !.op[i] = o], i)

\* Nothing but the worker moves, without a fault.
Quietly == UNCHANGED <<world, faults, edits>>

Move(i, from, to) ==
  pc[i] = from /\ Goto(i, to) /\ UNCHANGED db /\ Quietly

Mark(i, from, o, to) ==
  pc[i] = from /\ Goto(i, to) /\ Save(i, o) /\ Quietly

Finish(i, from, o) ==
  pc[i] = from /\ Goto(i, "off") /\ End(i, o) /\ Quietly

\* A fault of the given kind sends the worker somewhere else, or stops it.
Stumble(i, froms, kind, to) ==
  /\ pc[i] \in froms
  /\ Spend(kind) /\ Goto(i, to)
  /\ UNCHANGED <<db, world, edits>>

\* The remote script starts; what it would roll back to is what runs now.
Launch(i) ==
  /\ script' = [script EXCEPT ![i] = [state |-> "running", base |-> vps]]
  /\ UNCHANGED <<vps, owned, main, sent>>

-----------------------------------------------------------------------------
(***************************************************************************)
(* run_eu_install.                                                         *)
(***************************************************************************)
InstallStart(i) ==
  Mark(i, "install", [db.op[i] EXCEPT !.status = "RUNNING"], "install_send")

InstallSend(i) ==
  /\ pc[i] = "install_send" /\ Goto(i, "install_wait")
  /\ Launch(i)
  /\ UNCHANGED <<db, faults, edits>>

\* A finished script is taken before the lease is looked at.
InstallOk(i) ==
  script[i].state = "ok" /\ Move(i, "install_wait", "install_done")

InstallScriptFailed(i) ==
  script[i].state = "failed" /\ Move(i, "install_wait", "install_fail")

InstallHeartbeat(i) ==
  /\ script[i].state = "running" /\ db.lease = i /\ Active(db, i)
  /\ Mark(i, "install_wait", db.op[i], "install_wait")

\* The lease is somebody else's by now, or the deadline has passed.
InstallUncertain(i) == Move(i, "install_wait", "install_unclear")

InstallDone(i) ==
  /\ pc[i] = "install_done" /\ Goto(i, "off")
  /\ db' = CompleteInstall(db, i)
  /\ Quietly

InstallFail(i) ==
  /\ pc[i] = "install_fail" /\ Goto(i, "off")
  /\ db' = FailInstall(db, i)
  /\ Quietly

InstallUnclear(i) ==
  /\ pc[i] = "install_unclear" /\ Goto(i, "off")
  /\ db' = MarkAmbiguous(db, i)
  /\ Quietly

\* Also the connection that breaks while the script goes on.
InstallFaults(i) ==
  \/ Stumble(i, {"install_send", "install_wait"}, "net", "install_fail")
  \/ Stumble(i, {"install", "install_done"}, "db", "install_fail")
  \/ Stumble(i, {"install_fail", "install_unclear"}, "dbEnd", "off")

Install(i) ==
  \/ InstallStart(i) \/ InstallSend(i) \/ InstallOk(i)
  \/ InstallScriptFailed(i) \/ InstallHeartbeat(i) \/ InstallUncertain(i)
  \/ InstallDone(i) \/ InstallFail(i) \/ InstallUnclear(i)

-----------------------------------------------------------------------------
(***************************************************************************)
(* run_ip_change, with Aeza.  A request to the provider takes effect and   *)
(* is answered, or its answer is lost, with the effect or without it.      *)
(***************************************************************************)
Request(i, from, effect, to, lost) ==
  /\ pc[i] = from
  /\ \/ effect /\ Goto(i, to) /\ UNCHANGED faults
     \/ effect /\ Spend("net") /\ Goto(i, lost)
     \/ Spend("net") /\ Goto(i, lost) /\ UNCHANGED <<owned, main>>
  /\ UNCHANGED <<db, script, vps, sent, edits>>

Step(i, action) == [db.op[i] EXCEPT !.status = "RUNNING", !.action = action]

RotationList(i) ==
  /\ Bound(i) /\ main = OldIp(i)
  /\ Mark(i, "get_ipv4_list", [db.op[i] EXCEPT !.status = "RUNNING"],
          "purchase_mark")

PurchaseMark(i) ==
  /\ Bound(i)
  /\ Mark(i, "purchase_mark",
          [Step(i, "PURCHASE_SENDING") EXCEPT !.purchase = "SENDING"],
          "purchase")

Purchase(i) ==
  Request(i, "purchase", owned' = owned \cup {NewIp(i)} /\ UNCHANGED main,
          "purchased", "purchase_lost")

PurchaseRecorded(i) ==
  \/ Mark(i, "purchased",
          [db.op[i] EXCEPT !.action = "PURCHASE_SENT", !.purchase = "SENT"],
          "wait_new_ipv4")
  \/ Mark(i, "purchase_lost",
          [db.op[i] EXCEPT !.action = "AMBIGUOUS", !.purchase = "AMBIGUOUS"],
          "give_up")

NewIpAppears(i) ==
  Mark(i, "wait_new_ipv4",
       [Step(i, "PURCHASE_CONFIRMED") EXCEPT !.purchase = "CONFIRMED"],
       "main_mark")

\* Up to here a failure has nothing to undo.
GiveUpEarly(i) ==
  \/ ~(Bound(i) /\ main = OldIp(i)) /\ Move(i, "get_ipv4_list", "give_up")
  \/ ~Bound(i) /\ Move(i, "purchase_mark", "give_up")
  \/ Move(i, "wait_new_ipv4", "give_up")
  \/ ~Bound(i) /\ Move(i, "main_mark", "give_up")

MainMark(i) ==
  /\ Bound(i)
  /\ Mark(i, "main_mark",
          [Step(i, "MAKE_MAIN_SENDING") EXCEPT !.main = "SENDING"],
          "make_main")

MakeMain(i) ==
  Request(i, "make_main", main' = NewIp(i) /\ UNCHANGED owned,
          "main_changed", "main_lost")

MainRecorded(i) ==
  \/ Mark(i, "main_changed",
          [db.op[i] EXCEPT !.action = "MAIN_CHANGED", !.main = "SENT"],
          "confirm_main")
  \/ Mark(i, "main_lost",
          [db.op[i] EXCEPT !.action = "AMBIGUOUS", !.main = "AMBIGUOUS"],
          "undo")

ConfirmMain(i) ==
  /\ main = NewIp(i)
  /\ Mark(i, "confirm_main",
          [Step(i, "MAIN_CONFIRMED") EXCEPT !.main = "CONFIRMED"],
          "wait_ssh")

ApplyMark(i) ==
  /\ Bound(i)
  /\ Mark(i, "wait_ssh",
          [Step(i, "APPLYING") EXCEPT !.apply = "RUNNING"], "apply")

Apply(i) ==
  /\ pc[i] = "apply" /\ Goto(i, "apply_wait")
  /\ Launch(i)
  /\ UNCHANGED <<db, faults, edits>>

ApplyEnds(i) ==
  \/ script[i].state = "ok" /\ Move(i, "apply_wait", "applied")
  \/ script[i].state = "failed" /\ Move(i, "apply_wait", "apply_failed")
  \/ Move(i, "apply_wait", "apply_lost")

ApplyRecorded(i) ==
  \/ Mark(i, "applied",
          [db.op[i] EXCEPT !.action = "APPLIED", !.apply = "APPLIED"],
          "health")
  \/ Mark(i, "apply_failed",
          [db.op[i] EXCEPT !.action = "APPLY_FAILED", !.apply = "FAILED"],
          "undo")
  \/ Mark(i, "apply_lost",
          [db.op[i] EXCEPT !.action = "AMBIGUOUS", !.apply = "AMBIGUOUS"],
          "undo")

\* The required protocols answer through the new endpoint, or do not.
Health(i) ==
  /\ Bound(i)
  /\ Mark(i, "health", [db.op[i] EXCEPT !.status = "RUNNING"], "publish")

\* From the make-main on a failure is followed by a return to the old address.
GiveUpLate(i) ==
  \/ Move(i, "confirm_main", "undo")
  \/ Move(i, "wait_ssh", "undo")
  \/ Move(i, "health", "undo")
  \/ ~Bound(i) /\ Move(i, "publish", "undo")

\* Slip: the revision may have moved since the health check.
PublishIpUnbound(i) ==
  /\ pc[i] = "publish"
  /\ db' = Publish(db, i)
  /\ \E awg \in AwgEnabled : Goto(i, IF awg THEN "finish_awg"
                                            ELSE "cleanup_mark")
  /\ Quietly

\* Slip: a refused publication does not stop the clean-up.
PublishIpAnyway(i) ==
  /\ pc[i] = "publish"
  /\ db' = IF Bound(i) THEN Publish(db, i) ELSE db
  /\ \E awg \in AwgEnabled : Goto(i, IF awg THEN "finish_awg"
                                            ELSE "cleanup_mark")
  /\ Quietly

\* With AmneziaWG the old address stays until a person has checked it.
PublishIp(i) ==
  /\ pc[i] = "publish" /\ Bound(i) /\ db.desired < MaxRev
  /\ db' = Publish(db, i)
  /\ \E awg \in AwgEnabled : Goto(i, IF awg THEN "finish_awg"
                                            ELSE "cleanup_mark")
  /\ Quietly

CleanupMark(i) ==
  Mark(i, "cleanup_mark", Step(i, "CLEANUP_SENDING"), "cleanup")

Cleanup(i) ==
  Request(i, "cleanup", owned' = owned \ {OldIp(i)} /\ UNCHANGED main,
          "cleaned", "cleanup_lost")

CleanupRecorded(i) ==
  \/ Mark(i, "cleaned", [db.op[i] EXCEPT !.action = "CLEANUP_CONFIRMED"],
          "finish")
  \/ Mark(i, "cleanup_lost", [db.op[i] EXCEPT !.action = "CLEANUP_AMBIGUOUS"],
          "finish_unclear")

Done(i, action) == [db.op[i] EXCEPT !.status = "DONE", !.action = action]

RotationDone(i) ==
  \/ Finish(i, "finish", Done(i, "DONE"))
  \/ Finish(i, "finish_awg", Done(i, "PUBLISHED_AWAITING_AWG_CHECK"))
  \/ Finish(i, "finish_unclear", Done(i, "CLEANUP_AMBIGUOUS"))

\* The outer exception handler: _rollback_old_main, then the verdict.
UndoMark(i) ==
  Mark(i, "undo", [db.op[i] EXCEPT !.action = "ROLLING_BACK"], "unmake_main")

UnmakeMain(i) ==
  /\ OldIp(i) \in owned
  /\ Request(i, "unmake_main", main' = OldIp(i) /\ UNCHANGED owned,
             "undone", "undo_lost")

UnmakeMainRefused(i) ==
  OldIp(i) \notin owned /\ Move(i, "unmake_main", "undo_lost")

UndoRecorded(i) ==
  \/ Mark(i, "undone", [db.op[i] EXCEPT !.action = "ROLLED_BACK"], "give_up")
  \/ Mark(i, "undo_lost", [db.op[i] EXCEPT !.action = "AMBIGUOUS"], "give_up")

Verdict(o) ==
  IF o.action = "AMBIGUOUS"
  THEN [o EXCEPT !.status = "AMBIGUOUS"]
  ELSE [o EXCEPT !.status = "FAILED", !.action = "FAILED"]

\* Slip: the handler ends without a verdict.
GiveUpSilently(i) == Move(i, "give_up", "off")

GiveUp(i) == Finish(i, "give_up", Verdict(db.op[i]))

\* What is read before the try is caught by nobody.
RotationFaults(i) ==
  \/ Stumble(i, {"get_ipv4_list"}, "dbFirst", "rotation_dead")
  \/ Stumble(i, {"get_ipv4_list"}, "net", "give_up")
  \/ Stumble(i, {"purchase_mark", "purchased", "purchase_lost",
                 "wait_new_ipv4"}, "db", "give_up")
  \/ Stumble(i, {"main_mark", "main_changed", "main_lost", "confirm_main",
                 "wait_ssh", "applied", "apply_failed", "apply_lost",
                 "health", "publish"}, "db", "undo")
  \/ Stumble(i, {"apply"}, "net", "apply_lost")
  \/ Stumble(i, {"cleanup_mark", "cleaned"}, "db", "cleanup_lost")
  \/ Stumble(i, {"cleanup_lost", "finish", "finish_awg", "finish_unclear"},
             "dbLate", "undo")
  \/ Stumble(i, {"undo", "undone", "undo_lost", "give_up"}, "dbEnd", "off")

Rotation(i) ==
  /\ IsRotation(db, i)
  /\ \/ RotationList(i) \/ PurchaseMark(i) \/ Purchase(i) \/ PurchaseRecorded(i)
     \/ NewIpAppears(i) \/ GiveUpEarly(i)
     \/ MainMark(i) \/ MakeMain(i) \/ MainRecorded(i) \/ ConfirmMain(i)
     \/ ApplyMark(i) \/ Apply(i) \/ ApplyEnds(i) \/ ApplyRecorded(i)
     \/ Health(i) \/ GiveUpLate(i)
     \/ PublishIp(i) \/ CleanupMark(i) \/ Cleanup(i) \/ CleanupRecorded(i)
     \/ RotationDone(i)
     \/ UndoMark(i) \/ UnmakeMain(i) \/ UnmakeMainRefused(i) \/ UndoRecorded(i)
     \/ GiveUp(i)

-----------------------------------------------------------------------------
(***************************************************************************)
(* run_server_reboot and run_server_status.                                *)
(***************************************************************************)
RebootLook(i) ==
  Mark(i, "reboot", [db.op[i] EXCEPT !.status = "RUNNING"], "reboot_mark")

\* mark_reboot_sending: a compare-and-set on the row.
RebootMark(i) ==
  /\ Active(db, i) /\ db.op[i].action = "NOT_STARTED"
  /\ Mark(i, "reboot_mark", Step(i, "SENDING"), "reboot_send")

RebootRefused(i) ==
  /\ ~(Active(db, i) /\ db.op[i].action = "NOT_STARTED")
  /\ Move(i, "reboot_mark", "reboot_fail")

RebootSend(i) ==
  /\ pc[i] = "reboot_send"
  /\ \/ sent' = sent \cup {i} /\ Goto(i, "reboot_sent") /\ UNCHANGED faults
     \/ sent' = sent \cup {i} /\ Spend("net") /\ Goto(i, "reboot_lost")
     \/ Spend("net") /\ Goto(i, "reboot_lost") /\ UNCHANGED sent
  /\ UNCHANGED <<db, script, vps, owned, main, edits>>

RebootRecorded(i) ==
  \/ Mark(i, "reboot_sent", [db.op[i] EXCEPT !.action = "SENT"],
          "reboot_verify")
  \/ Mark(i, "reboot_lost", [db.op[i] EXCEPT !.action = "AMBIGUOUS"],
          "reboot_unclear")

\* Every round of the verification writes something, and so renews the lease.
RebootPoll(i) ==
  \E step \in {"reboot_verify", "reboot_unclear"} :
    Mark(i, step, db.op[i], step)

RebootVerified(i) ==
  \/ \E status \in {"DONE", "FAILED", "TIMED_OUT"} :
       Finish(i, "reboot_verify", [db.op[i] EXCEPT !.status = status])
  \/ Finish(i, "reboot_unclear", [db.op[i] EXCEPT !.status = "AMBIGUOUS"])

\* Slip: a reboot that failed was not started.
RebootNotStarted(o) == [o EXCEPT !.status = "FAILED", !.action = "NOT_STARTED"]

\* Slip: the action's state is written where the status belongs.
RebootMixedUp(o) == [o EXCEPT !.status = "NOT_STARTED"]

RebootVerdict(o) ==
  IF o.action \in {"SENDING", "SENT", "AMBIGUOUS"}
  THEN [o EXCEPT !.status = "AMBIGUOUS", !.action = "AMBIGUOUS"]
  ELSE [o EXCEPT !.status = "FAILED", !.action = "NOT_STARTED"]

RebootFail(i) == Finish(i, "reboot_fail", RebootVerdict(db.op[i]))

RebootFaults(i) ==
  \/ Stumble(i, {"reboot"}, "dbFirst", "reboot_dead")
  \/ Stumble(i, {"reboot"}, "net", "reboot_fail")
  \/ Stumble(i, {"reboot_mark", "reboot_lost", "reboot_verify",
                 "reboot_unclear"}, "db", "reboot_fail")
  \/ Stumble(i, {"reboot_sent"}, "db", "reboot_lost")
  \/ Stumble(i, {"reboot_fail"}, "dbEnd", "off")

Reboot(i) ==
  \/ RebootLook(i) \/ RebootMark(i) \/ RebootRefused(i) \/ RebootSend(i)
  \/ RebootRecorded(i) \/ RebootPoll(i) \/ RebootVerified(i) \/ RebootFail(i)

StatusStart(i) ==
  Mark(i, "status", [db.op[i] EXCEPT !.status = "RUNNING"], "status_end")

StatusEnd(i) ==
  \/ \E status \in {"DONE", "TIMED_OUT"} :
       Finish(i, "status_end", [db.op[i] EXCEPT !.status = status])
  \/ Finish(i, "status_fail", [db.op[i] EXCEPT !.status = "FAILED"])

\* A status check reads nothing first, the refresh of the protocols does.
StatusFaults(i) ==
  \/ Stumble(i, {"status"}, "dbFirst", "status_dead")
  \/ Stumble(i, {"status", "status_end"}, "db", "status_fail")
  \/ Stumble(i, {"status_fail"}, "dbEnd", "off")

Status(i) == StatusStart(i) \/ StatusEnd(i)

-----------------------------------------------------------------------------
(***************************************************************************)
(* The remote script, the administrators and the process.                  *)
(***************************************************************************)
\* The staged apply switches to its revision, or fails and leaves or restores
\* what its backup holds.
ScriptEnds(i) ==
  /\ script[i].state = "running"
  /\ \/ script' = [script EXCEPT ![i].state = "ok"] /\ vps' = Rev(i)
     \/ script' = [script EXCEPT ![i].state = "failed"]
        /\ vps' \in {vps, script[i].base}
  /\ UNCHANGED <<db, pc, owned, main, sent, faults, edits>>

Begin(i, kind, step, d) ==
  /\ kind \in KindsRun /\ i \in NextId(db) /\ CanAcquire(db)
  /\ db' = d /\ Goto(i, step)
  /\ Quietly

StartInstall(i) ==
  ~Conflict(db) /\ Begin(i, "INSTALL", "install", PrepareInstall(db, i))

StartRotation(i) ==
  /\ CanRotate(db, 0) /\ ~Conflict(db)
  /\ Begin(i, "IP_CHANGE", "get_ipv4_list", PrepareRotation(db, i))

StartReboot(i) ==
  Begin(i, "REBOOT", "reboot", CreateOperation(db, i, "REBOOT", 0))

StartStatus(i) ==
  Begin(i, "STATUS", "status", CreateOperation(db, i, "STATUS", 0))

\* An edit; the bound leaves room for the revision a publication adds.
Edit(d) ==
  /\ edits < MaxEdits /\ edits' = edits + 1
  /\ db.desired + MaxOps < MaxRev
  /\ db' = d
  /\ UNCHANGED <<pc, world, faults>>

AddClient(c) == db.client[c].state = "absent" /\ Edit(CreateClient(db, c))

ToggleClient(c) ==
  \E state \in {"enabled", "disabled"} \ {db.client[c].state} :
    /\ db.client[c].state \in {"enabled", "disabled"}
    /\ Edit(SetClientEnabled(db, c, state))

RemoveClient(c) ==
  /\ db.client[c].state \in {"enabled", "disabled"}
  /\ Edit(DeleteClient(db, c))

ChangeSetting == Edit(NewRevision(db))

ChangeAddress(a) == a # db.ip /\ Edit(SetCurrentIp(db, a))

\* An administrator looks at the provider's panel, makes the address published
\* last the main one there if it is not, and says so.
Reconcile(i) ==
  /\ CanReconcile(db, i)
  /\ db' = Reconciled(db, i) /\ main' = db.published
  /\ UNCHANGED <<pc, script, vps, owned, sent, faults, edits>>

\* The process ends and systemd starts another: its workers are gone, the
\* scripts they started are not.
Restart ==
  /\ Spend("crash")
  /\ pc' = [i \in Ops |-> "off"]
  /\ db' = RecoverIncomplete(db)
  /\ UNCHANGED <<world, edits>>

\* An administrator edits the environment file and restarts the panel.
ChangeEnvironment(env) ==
  /\ env # db.env /\ edits < MaxEdits /\ edits' = edits + 1
  /\ pc' = [i \in Ops |-> "off"]
  /\ db' = [RecoverIncomplete(db) EXCEPT !.env = env]
  /\ UNCHANGED <<world, faults>>

\* Nobody has renewed the lease for its whole time.
Expire ==
  /\ db.lease # 0 /\ ~db.expired
  /\ Spend("expire")
  /\ db' = [db EXCEPT !.expired = TRUE]
  /\ UNCHANGED <<pc, world, edits>>

Worker(i) == Install(i) \/ Rotation(i) \/ Reboot(i) \/ Status(i)

WorkerFaults(i) ==
  \/ InstallFaults(i) \/ RotationFaults(i) \/ RebootFaults(i)
  \/ StatusFaults(i)

Next ==
  \/ \E i \in Ops : \/ Worker(i) \/ WorkerFaults(i) \/ ScriptEnds(i)
                    \/ StartInstall(i) \/ StartRotation(i)
                    \/ StartReboot(i) \/ StartStatus(i)
                    \/ Reconcile(i)
  \/ \E c \in Clients : AddClient(c) \/ ToggleClient(c) \/ RemoveClient(c)
  \/ \E a \in Addresses : ChangeAddress(a)
  \/ \E env \in Environments : ChangeEnvironment(env)
  \/ ChangeSetting \/ Restart \/ Expire

Spec == Init /\ [][Next]_vars

\* The event loop runs every task that is ready, and every wait of a worker
\* has a deadline.
FairSpec == Spec /\ \A i \in Ops : WF_vars(Worker(i))

-----------------------------------------------------------------------------
(***************************************************************************)
(* Properties.                                                             *)
(***************************************************************************)
\* The applied revision is one whose snapshot says so, it is never ahead of
\* the desired one, and no snapshot is: whatever late worker fails, whatever
\* is prepared again (vpn_state.py, complete_ and fail_install_operation).
AppliedSound ==
  /\ db.applied # 0 => db.snap[db.applied].life = "APPLIED"
  /\ db.applied <= db.desired
  /\ \A r \in Revs : r > db.desired => db.snap[r].life = "none"

\* The applied revision never goes back, not even when a worker that lost its
\* lease completes after its successor (complete_install_operation).
AppliedForward == [][db'.applied >= db.applied]_vars

\* What a snapshot of the desired revision took from the database is still in
\* it: whatever changes that also moves the revision, so preparing an operation
\* is refused for no other reason than a changed environment
\* (vpn_state.py, _ensure_snapshot; db.py, _mark_vpn_config_updated).
SnapshotCurrent ==
  LET s == db.snap[db.desired]
  IN  s.life # "none" => Content(db) = [s.body EXCEPT !.env = db.env]

\* A reboot that went out is never recorded as not started, so that neither a
\* restart nor a lost lease makes it look safe to send again
\* (server_operations.py, run_server_reboot; operation_coordinator.py).
RebootRemembered ==
  \A i \in sent : db.op[i].action \in {"SENDING", "SENT", "AMBIGUOUS"}

\* A client the applied revision lets in keeps its row, and with it its
\* address and keys (db.py, purge_applied_deleted_clients).
KeepsServedClients ==
  db.applied # 0 =>
    \A c \in db.snap[db.applied].body.clients : db.client[c].state # "purged"

\* While leases outlive their operations, a worker or an operation that is
\* not over holds the lease: there is one of them
\* (operation_coordinator.py, acquire_vps_lease; db.py, update_operation).
WorkersAlone ==
  \A i \in Ops : pc[i] # "off" \/ Active(db, i) => db.lease = i

\* A rotation nobody has to look at any more: the rest are open.
Settled(i) ==
  \/ db.op[i].status \in {"FAILED", "DONE"}
     /\ db.op[i].action \notin {"CLEANUP_AMBIGUOUS",
                               "PUBLISHED_AWAITING_AWG_CHECK"}
  \/ db.op[i].action = "RECONCILED"

OpenRotations == {i \in Ops : IsRotation(db, i) /\ ~Settled(i)}

\* No rotation begins while another is running or waits for a person
\* (vpn_state.py, prepare_ip_change_operation).
OneOpenRotation == Cardinality(OpenRotations) <= 1

\* The provider's main address differs from the one published last, which
\* clients are told unless the settings name another, only while a rotation is
\* open: none that is recorded as settled has left them apart
\* (ip_change.py, run_ip_change; operation_coordinator.py, _fail_owner).
QuietMain == OpenRotations = {} => main = db.published

\* The address published last is never given back to the provider
\* (ip_change.py, publication before clean-up).
PublishedOwned == db.published \in owned

\* An address is published when it is the main one, with the revision that
\* its rotation applied and that is still the desired one
\* (ip_change.py; vpn_state.py, publish_ip_change).
PublishVerified ==
  [][db'.published # db.published =>
       \E i \in Ops : /\ db'.published = NewIp(i) /\ db'.ip = NewIp(i)
                      /\ main = NewIp(i)
                      /\ script[i].state = "ok" /\ Bound(i)]_vars

\* As long as every operation that ran a script on the server is done, the
\* server lets in the clients of the applied revision: a script whose fate is
\* unknown is the only reason for it to differ (vpn_state.py).
AppliedIsServed ==
  (\A i \in Ops : script[i].state # "none" => db.op[i].status = "DONE") =>
    \/ db.applied = 0
    \/ vps # 0 /\ db.snap[vps].body.clients
                 = db.snap[db.applied].body.clients

\* Every operation comes to an end, whichever request or transaction of its
\* worker fails, as long as the exception handlers can write and the worker
\* got past what it reads before its try; without that the operation stays
\* active, although main.py:907 takes the failure for recorded (ip_change.py,
\* server_operations.py).
EndsUnlessDead ==
  \A i \in Ops : Active(db, i) ~> ~Active(db, i) \/ pc[i] \in Dead
=============================================================================
