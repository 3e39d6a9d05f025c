-------------------------- MODULE SprintboxRotation --------------------------
(***************************************************************************)
(* Changing the address by changing the server: on SprintBOX the panel     *)
(* buys a new box, installs the VPN there, publishes its address, and asks *)
(* a person whether the old boxes may go.  A box that does not answer over *)
(* SSH is left to a decision: wait, buy another one, or give up.           *)
(*                                                                         *)
(* Boxes cost money and are never deleted without that consent, so the     *)
(* subject is which boxes the panel knows of, and which it may delete,     *)
(* while its process is restarted and requests get lost.  The operation    *)
(* lease, the revisions and the publication are VpsDatabase's.  A lease    *)
(* lasts an hour and every wait of a worker renews it in between, so       *)
(* leases do not expire here, and the panel's environment does not change. *)
(***************************************************************************)
EXTENDS VpsDatabase, FiniteSets

CONSTANTS
  Accounts,    \* values of the provider's login and key
  FirstBoxes,  \* what the box setting may be at first: 1, or 0 for none
  FaultKinds,  \* "crash", "net" and "db"
  MaxFaults,   \* bound: faults in a behaviour
  MaxEdits     \* bound: edits in a behaviour

\* The code does not bound the revisions: there is one for every operation.
ASSUME SprintboxAssumption ==
  /\ Accounts # {} /\ FirstBoxes \subseteq {0, 1}
  /\ MaxOps < MaxRev
  /\ MaxFaults \in Nat /\ MaxEdits \in Nat

VARIABLES
  db,      \* the SQLite database
  row,     \* what it says of each rotation beyond VpsDatabase
  config,  \* the provider settings: active box and account
  pc,      \* what the worker of each operation does next, "off" when none
  work,    \* the variables of each clean-up worker
  boxes,   \* the boxes that exist at the provider
  doomed,  \* those it has accepted to delete
  asked,   \* those the panel has asked it to delete
  faults,  \* counter, for the bound only
  edits    \* counter, for the bound only

cloud == <<boxes, doomed, asked>>
vars  == <<db, row, config, pc, work, cloud, faults, edits>>

\* A box is named by its address, and operation i buys the next one.
Boxes == Addresses
NewBox(i) == NewIp(i)
NoBox == 0

Results == {"none", "SENDING", "SENT", "DELETED", "ABSENT", "AMBIGUOUS",
            "MANUAL"}

\* The binding made when it was prepared, the box it bought, the revision it
\* published, and its context: the boxes it keeps and what became of each.
Row == [box       : {NoBox} \cup Boxes,
        account   : Accounts,
        new       : {NoBox} \cup Boxes,
        published : 0 .. MaxRev,
        kept      : SUBSET Boxes,
        results   : [Boxes -> Results],
        named     : SUBSET Boxes]

Steps == {"off", "start", "inspect", "claim", "create", "created", "refused",
          "identify", "confirm", "provision", "ssh", "deploy", "deployed",
          "health", "publish", "published", "unclear", "fail",
          "resume", "recheck",
          "clean", "sweep", "delete", "deleting", "clean_unclear", "dead"}

NoWork == [todo |-> {}, box |-> NoBox, warned |-> {}, unsure |-> FALSE]

NewRow(kept) ==
  [box |-> config.box, account |-> config.account, new |-> NoBox,
   published |-> 0, kept |-> kept, results |-> [b \in Boxes |-> "none"],
   named |-> {}]

Init ==
  /\ \E a \in Accounts, first \in FirstBoxes :
       /\ config = [box |-> first, account |-> a]
       /\ boxes = {first} \ {NoBox}
       /\ row = [i \in Ops |-> [box |-> NoBox, account |-> a, new |-> NoBox,
                                published |-> 0, kept |-> {},
                                results |-> [b \in Boxes |-> "none"],
                                named |-> {}]]
  /\ db = InitialDatabase(Clients)
  /\ pc = [i \in Ops |-> "off"]
  /\ work = [i \in Ops |-> NoWork]
  /\ doomed = {} /\ asked = {}
  /\ faults = 0 /\ edits = 0

TypeOK ==
  /\ db \in Database
  /\ row \in [Ops -> Row]
  /\ config \in [box : {NoBox} \cup Boxes, account : Accounts]
  /\ pc \in [Ops -> Steps]
  /\ work \in [Ops -> [todo : SUBSET Boxes, box : {NoBox} \cup Boxes,
                       warned : SUBSET Boxes, unsure : BOOLEAN]]
  /\ boxes \subseteq Boxes /\ doomed \subseteq Boxes /\ asked \subseteq Boxes
  /\ faults \in 0 .. MaxFaults /\ edits \in 0 .. MaxEdits

Spend(kind) ==
  kind \in FaultKinds /\ faults < MaxFaults /\ faults' = faults + 1

-----------------------------------------------------------------------------
(***************************************************************************)
(* sprintbox_review.py: what a decision is still valid for.                *)
(***************************************************************************)
Rev(i)   == db.op[i].rev
OldIp(i) == db.snap[Rev(i)].body.ip
Bound(i) == db.desired = Rev(i)

\* _check_binding: the settings are those the operation was prepared with.
Binds(i) == config.box = row[i].box /\ config.account = row[i].account

\* Slip: the account and the publication are enough.
TargetIgnoresBox(i) ==
  row[i].published # 0 /\ config.account = row[i].account

\* The operation published the box that is active now, on this account.
ValidTarget(i) ==
  /\ row[i].published # 0
  /\ db.ip = NewIp(i) /\ config.box = row[i].new
  /\ config.account = row[i].account

ValidReview(i) ==
  /\ db.op[i].status = "DONE" /\ db.op[i].action = "AWAITING_USER_REVIEW"
  /\ ValidTarget(i)

ValidSsh(i, status, action) ==
  /\ db.op[i].status = status /\ db.op[i].action = action
  /\ Binds(i) /\ Bound(i) /\ db.ip = OldIp(i)
  /\ row[i].published = 0 /\ row[i].new \notin {NoBox, row[i].box}
  /\ db.op[i].purchase = "CONFIRMED"
  /\ db.op[i].apply = "NOT_STARTED" /\ db.op[i].main = "NOT_STARTED"

\* retained_boxes: those kept by the last operation that published the box the
\* rotation starts from, and that box.
Publishers(box, account) ==
  {j \in Ops : /\ row[j].published # 0 /\ row[j].new = box
               /\ row[j].account = account}

Retained(box, account) ==
  {box} \cup UNION {row[j].kept : j \in {k \in Publishers(box, account) :
                       \A l \in Publishers(box, account) : l <= k}}

-----------------------------------------------------------------------------
(***************************************************************************)
(* What a worker's step is made of.                                        *)
(***************************************************************************)
Goto(i, step) == pc' = [pc EXCEPT ![i] = step]

\* _step and update_operation: a terminal status releases the lease.
Save(i, o) == db' = Heartbeat([db EXCEPT !.op[i] = o], i)
End(i, o)  == db' = Release([db EXCEPT !.op[i] = o], i)

Step(i, action) == [db.op[i] EXCEPT !.status = "RUNNING", !.action = action]
Running(i) == [db.op[i] EXCEPT !.status = "RUNNING"]
Over(i, status, action) ==
  [db.op[i] EXCEPT !.status = status, !.action = action]

Quietly == UNCHANGED <<config, work, cloud, faults, edits>>

Move(i, from, to) ==
  pc[i] = from /\ Goto(i, to) /\ UNCHANGED <<db, row>> /\ Quietly

Mark(i, from, o, to) ==
  pc[i] = from /\ Goto(i, to) /\ Save(i, o) /\ UNCHANGED row /\ Quietly

Finish(i, from, o) ==
  pc[i] = from /\ Goto(i, "off") /\ End(i, o) /\ UNCHANGED row /\ Quietly

-----------------------------------------------------------------------------
(***************************************************************************)
(* run_sprintbox_rotation up to the new box.                               *)
(***************************************************************************)
\* The settings may also lack a protocol, a client or a key to go on with.
StartRun(i) ==
  \/ Binds(i) /\ Bound(i) /\ Mark(i, "start", Running(i), "inspect")
  \/ Move(i, "start", "fail")

\* Slip: the old box is kept even when there is none.
InspectNoBox(i) ==
  /\ pc[i] = "inspect" /\ Goto(i, "claim")
  /\ row' = [row EXCEPT ![i].kept =
               @ \cup Retained(row[i].box, row[i].account)]
  /\ UNCHANGED db /\ Quietly

\* get_box, list_boxes and the context: nothing but a crash comes between.
Inspect(i) ==
  /\ pc[i] = "inspect"
  /\ \/ /\ row[i].box # NoBox
        /\ row[i].box \in boxes /\ OldIp(i) = row[i].box
        /\ row' = [row EXCEPT ![i].kept =
                     @ \cup Retained(row[i].box, row[i].account)]
        /\ Goto(i, "claim")
     \/ row[i].box = NoBox /\ UNCHANGED row /\ Goto(i, "claim")
     \/ /\ row[i].box # NoBox
        /\ ~(row[i].box \in boxes /\ OldIp(i) = row[i].box)
        /\ UNCHANGED row /\ Goto(i, "fail")
  /\ UNCHANGED db /\ Quietly

\* The compare-and-set follows a step that has just made the status RUNNING.
Claim(i) ==
  \/ /\ Binds(i) /\ Bound(i) /\ db.op[i].purchase = "NOT_STARTED"
     /\ Mark(i, "claim",
             [Step(i, "PURCHASE_SENDING") EXCEPT !.purchase = "SENDING"],
             "create")
  \/ ~(Binds(i) /\ Bound(i)) /\ Move(i, "claim", "fail")

\* Slip: a creation whose answer was lost counts as not made.
CreateHopeful(i) ==
  /\ pc[i] = "create"
  /\ \/ boxes' = boxes \cup {NewBox(i)} /\ Goto(i, "created")
        /\ UNCHANGED faults
     \/ boxes' \in {boxes, boxes \cup {NewBox(i)}} /\ Goto(i, "fail")
        /\ Spend("net")
  /\ UNCHANGED <<db, row, config, work, doomed, asked, edits>>

\* box/add: accepted, with or without a task; rejected; or the answer is lost.
Create(i) ==
  /\ pc[i] = "create"
  /\ \/ boxes' \in {boxes, boxes \cup {NewBox(i)}} /\ Goto(i, "created")
        /\ UNCHANGED faults
     \/ UNCHANGED boxes /\ Goto(i, "refused") /\ UNCHANGED faults
     \/ boxes' \in {boxes, boxes \cup {NewBox(i)}} /\ Goto(i, "unclear")
        /\ Spend("net")
  /\ UNCHANGED <<db, row, config, work, doomed, asked, edits>>

CreateRecorded(i) ==
  \/ Mark(i, "created", [Step(i, "PURCHASE_SENT") EXCEPT !.purchase = "SENT"],
          "identify")
  \/ Mark(i, "refused", [db.op[i] EXCEPT !.purchase = "REJECTED"], "fail")

\* The box with the operation's label, and then its address, or a timeout.
Identify(i) ==
  \/ /\ pc[i] = "identify" /\ NewBox(i) \in boxes /\ Goto(i, "confirm")
     /\ row' = [row EXCEPT ![i].new = NewBox(i)]
     /\ Save(i, Running(i)) /\ Quietly
  \/ Mark(i, "confirm", [db.op[i] EXCEPT !.purchase = "CONFIRMED"],
          "provision")
  \/ \E step \in {"identify", "confirm"} : Move(i, step, "unclear")

-----------------------------------------------------------------------------
(***************************************************************************)
(* _provision_box, and how a rotation ends.                                *)
(***************************************************************************)
Provision(i) ==
  \/ /\ Binds(i) /\ Bound(i)
     /\ Mark(i, "provision", Step(i, "WAITING_SSH"), "ssh")
  \/ ~(Binds(i) /\ Bound(i)) /\ Move(i, "provision", "unclear")

WaitSsh(i) ==
  \/ Mark(i, "ssh", [Step(i, "APPLYING") EXCEPT !.apply = "RUNNING"],
          "deploy")
  \/ Finish(i, "ssh", Over(i, "DONE", "SSH_UNREACHABLE"))

\* The installation ends well, fails, or is given up; then the protocols are
\* asked through the new address.
Deploy(i) ==
  \/ Mark(i, "deploy", [db.op[i] EXCEPT !.apply = "APPLIED"], "deployed")
  \/ Binds(i) /\ Bound(i) /\ Mark(i, "deployed", Running(i), "health")
  \/ Move(i, "health", "publish")
  \/ \E step \in {"deploy", "deployed", "health"} : Move(i, step, "unclear")

\* One transaction for the address, the active box and the revision.
PublishBox(i) ==
  \/ /\ pc[i] = "publish" /\ Binds(i) /\ Bound(i)
     /\ db' = Publish(db, i)
     /\ row' = [row EXCEPT ![i].published = Rev(i) + 1]
     /\ config' = [config EXCEPT !.box = row[i].new]
     /\ Goto(i, "published")
     /\ UNCHANGED <<work, cloud, faults, edits>>
  \/ ~(Binds(i) /\ Bound(i)) /\ Move(i, "publish", "unclear")

RunOver(i) ==
  \/ Finish(i, "published", Over(i, "DONE", "AWAITING_USER_REVIEW"))
  \/ Finish(i, "unclear", Over(i, "AMBIGUOUS", "AMBIGUOUS"))
  \/ Finish(i, "fail", Over(i, "FAILED", "FAILED"))

\* _resume_ssh_wait: the decision is validated again, then the box.
Resume(i) ==
  \/ /\ pc[i] = "resume"
     /\ IF ValidSsh(i, "PENDING", "SSH_WAIT_QUEUED")
        THEN /\ db' = [db EXCEPT !.op[i] = Step(i, "WAITING_SSH")]
             /\ Goto(i, "recheck")
        ELSE /\ End(i, Over(i, "DONE", "SSH_UNREACHABLE")) /\ Goto(i, "off")
     /\ UNCHANGED row /\ Quietly
  \/ /\ Binds(i) /\ Bound(i) /\ row[i].new \in boxes
     /\ Move(i, "recheck", "provision")
  \/ /\ ~(Binds(i) /\ Bound(i) /\ row[i].new \in boxes)
     /\ Move(i, "recheck", "unclear")

\* What a worker reads before its try is caught by nobody: it is gone, and its
\* operation stays as it was.
Dies(i) ==
  /\ Spend("db") /\ pc[i] \in {"start", "resume", "recheck", "clean"}
  /\ Goto(i, "dead")
  /\ UNCHANGED <<db, row, config, work, cloud, edits>>

\* A request or a transaction fails where nothing has been bought, or later.
RunFaults(i) ==
  /\ \/ Spend("net") /\ pc[i] = "inspect" /\ Goto(i, "fail")
     \/ Spend("net") /\ pc[i] = "recheck" /\ Goto(i, "unclear")
     \/ Spend("db") /\ pc[i] \in {"start", "inspect", "claim", "refused"}
        /\ Goto(i, "fail")
     \/ Spend("db") /\ pc[i] \in {"created", "identify", "confirm",
                                  "provision", "ssh", "deploy", "deployed",
                                  "publish", "published", "recheck"}
        /\ Goto(i, "unclear")
  /\ UNCHANGED <<db, row, config, work, cloud, edits>>

Run(i) ==
  \/ StartRun(i) \/ Inspect(i) \/ Claim(i) \/ Create(i) \/ CreateRecorded(i)
  \/ Identify(i) \/ Provision(i) \/ WaitSsh(i) \/ Deploy(i) \/ PublishBox(i)
  \/ RunOver(i) \/ Resume(i)

-----------------------------------------------------------------------------
(***************************************************************************)
(* run_sprintbox_cleanup: one kept box after the other, in any order.      *)
(***************************************************************************)
CleanStart(i) ==
  /\ pc[i] = "clean"
  /\ db.op[i].status = "PENDING" /\ db.op[i].action = "CLEANUP_QUEUED"
  /\ db' = [db EXCEPT !.op[i] = Step(i, "CLEANUP_RUNNING")]
  /\ work' = [work EXCEPT ![i] = [NoWork EXCEPT !.todo = row[i].kept]]
  /\ Goto(i, "sweep")
  /\ UNCHANGED <<row, config, cloud, faults, edits>>

\* The verdict on a box is saved with the boxes that are still kept.
Judge(i, b, result) ==
  /\ row' = [row EXCEPT
               ![i].results[b] = result,
               ![i].kept = IF result \in {"DELETED", "ABSENT"} THEN @ \ {b}
                                                               ELSE @]
  /\ work' = [work EXCEPT
                ![i].todo = @ \ {b},
                ![i].box = NoBox,
                ![i].warned = IF result \in {"MANUAL", "AMBIGUOUS"}
                              THEN @ \cup {b} ELSE @,
                ![i].unsure = @ \/ result = "AMBIGUOUS"]
  /\ Goto(i, "sweep")

\* Up to the request a failure leaves the box to a person.
CleanBox(i, b) ==
  /\ pc[i] = "sweep" /\ b \in work[i].todo
  /\ \/ /\ ValidTarget(i) /\ b # row[i].new /\ b \in boxes
        /\ row[i].results[b] = "none"
        /\ row' = [row EXCEPT ![i].results[b] = "SENDING"]
        /\ work' = [work EXCEPT ![i].box = b]
        /\ Goto(i, "delete") /\ UNCHANGED faults
     \/ /\ ValidTarget(i) /\ b \notin boxes
        /\ Judge(i, b, "ABSENT") /\ UNCHANGED faults
     \/ Judge(i, b, "MANUAL") /\ (Spend("net") \/ Spend("db"))
  /\ Save(i, Running(i))
  /\ UNCHANGED <<config, cloud, edits>>

\* box/delete: accepted; rejected; or the answer is lost.
Delete(i) ==
  LET b == work[i].box
  IN  /\ pc[i] = "delete"
      /\ asked' = asked \cup {b}
      /\ \/ /\ doomed' = doomed \cup {b} /\ Goto(i, "deleting")
            /\ row' = [row EXCEPT ![i].results[b] = "SENT"]
            /\ UNCHANGED <<work, faults>>
         \/ Judge(i, b, "MANUAL") /\ UNCHANGED <<doomed, faults>>
         \/ /\ doomed' \in {doomed, doomed \cup {b}} /\ Spend("net")
            /\ Judge(i, b, "AMBIGUOUS")
      /\ UNCHANGED <<db, config, boxes, edits>>

\* Slip: a task that has finished is believed.
DeletedUnseen(i) ==
  LET b == work[i].box
  IN  /\ pc[i] = "deleting"
      /\ Judge(i, b, "DELETED") /\ UNCHANGED doomed
      /\ Save(i, Running(i))
      /\ UNCHANGED <<config, boxes, asked, faults, edits>>

\* The task fails, finishes with the box gone, or leaves it in doubt.
Deleted(i) ==
  LET b == work[i].box
  IN  /\ pc[i] = "deleting"
      /\ \/ b \notin boxes /\ Judge(i, b, "DELETED") /\ UNCHANGED doomed
         \/ Judge(i, b, "MANUAL") /\ doomed' = doomed \ {b}
         \/ Judge(i, b, "AMBIGUOUS") /\ UNCHANGED doomed
      /\ Save(i, Running(i))
      /\ UNCHANGED <<config, boxes, asked, faults, edits>>

CleanVerdict(i) ==
  IF work[i].unsure THEN "CLEANUP_AMBIGUOUS"
  ELSE IF work[i].warned # {} THEN "CLEANUP_REJECTED" ELSE "DONE"

CleanOver(i) ==
  /\ pc[i] = "sweep" /\ work[i].todo = {} /\ Goto(i, "off")
  /\ row' = [row EXCEPT ![i].named = work[i].warned]
  /\ work' = [work EXCEPT ![i] = NoWork]
  /\ End(i, Over(i, "DONE", CleanVerdict(i)))
  /\ UNCHANGED <<config, cloud, faults, edits>>

\* A transaction outside the handling of one box fails.
CleanFails(i) ==
  \/ pc[i] = "sweep" /\ Spend("db") /\ Goto(i, "clean_unclear")
     /\ work' = [work EXCEPT ![i] = NoWork]
     /\ UNCHANGED <<db, row, config, cloud, edits>>
  \/ Finish(i, "clean_unclear", Over(i, "DONE", "CLEANUP_AMBIGUOUS"))

Clean(i) ==
  \/ CleanStart(i) \/ Delete(i) \/ Deleted(i) \/ CleanOver(i) \/ CleanFails(i)
  \/ \E b \in Boxes : CleanBox(i, b)

-----------------------------------------------------------------------------
(***************************************************************************)
(* The decisions, the settings, the provider and the process.              *)
(***************************************************************************)
\* prepare_ip_change_operation in all its uses, on the database d: a new
\* operation with the boxes kept for it.
Prepare(j, d, except, kept) ==
  /\ j \in NextId(d) /\ CanAcquire(d) /\ CanRotate(d, except) /\ ~Conflict(d)
  /\ row' = [row EXCEPT ![j] = NewRow(kept)]
  /\ Goto(j, "start")

StartRotation(j) ==
  /\ Prepare(j, db, 0, {}) /\ db' = PrepareRotation(db, j)
  /\ Quietly

\* "Try another address" instead of "all is well".
RetryReview(i, j) ==
  /\ ValidReview(i) /\ Prepare(j, db, 0, {})
  /\ db' = [PrepareRotation(db, j) EXCEPT !.op[i].action = "RETRY_REQUESTED"]
  /\ Quietly

\* "Create another box": the unreachable one goes with those kept so far.
RetrySsh(i, j) ==
  /\ ValidSsh(i, "DONE", "SSH_UNREACHABLE")
  /\ Prepare(j, db, i, row[i].kept \cup {row[i].new})
  /\ db' = [PrepareRotation(db, j) EXCEPT !.op[i].action = "RETRY_REQUESTED"]
  /\ Quietly

\* prepare_ssh_wait and prepare_cleanup: the operation takes the lease again.
Requeue(i, action, step) ==
  /\ CanAcquire(db)
  /\ db' = Acquire([db EXCEPT !.op[i].status = "PENDING",
                              !.op[i].action = action], i)
  /\ Goto(i, step)
  /\ UNCHANGED row /\ Quietly

WaitLonger(i) ==
  /\ ValidSsh(i, "DONE", "SSH_UNREACHABLE")
  /\ Requeue(i, "SSH_WAIT_QUEUED", "resume")

Accept(i) == ValidReview(i) /\ Requeue(i, "CLEANUP_QUEUED", "clean")

\* The boxes that stay are named, valid decision or not.
CancelSsh(i) ==
  /\ Undecided(db, i)
  /\ db' = [db EXCEPT !.op[i].action = "CANCELLED"]
  /\ row' = [row EXCEPT ![i].named = (row[i].kept \cup {row[i].new})
                                       \ {config.box}]
  /\ UNCHANGED pc /\ Quietly

Reconcile(i) ==
  /\ CanReconcile(db, i) /\ db' = Reconciled(db, i)
  /\ UNCHANGED <<row, pc>> /\ Quietly

Idle == db.lease = 0 /\ \A i \in Ops : ~Active(db, i)

Edit == edits < MaxEdits /\ edits' = edits + 1

\* Setup: another box with its address, or none; another account.
SaveSettings(b, a) ==
  /\ Idle /\ Edit /\ b \in boxes \cup {NoBox}
  /\ <<b, a>> # <<config.box, config.account>>
  /\ config' = [box |-> b, account |-> a]
  /\ IF b \in {NoBox, db.ip}
     THEN UNCHANGED db
     ELSE db.desired + MaxOps < MaxRev /\ db' = SetCurrentIp(db, b)
  /\ UNCHANGED <<row, pc, work, cloud, faults>>

\* Any other change of what is served.
ChangeClients ==
  /\ Edit /\ db.desired + MaxOps < MaxRev /\ db' = NewRevision(db)
  /\ UNCHANGED <<row, config, pc, work, cloud, faults>>

\* In the provider's cabinet.
RemoveByHand(b) ==
  /\ Edit /\ b \in boxes /\ boxes' = boxes \ {b}
  /\ UNCHANGED <<db, row, config, pc, work, doomed, asked, faults>>

ProviderDeletes(b) ==
  /\ b \in doomed \cap boxes
  /\ boxes' = boxes \ {b}
  /\ UNCHANGED <<db, row, config, pc, work, doomed, asked, faults, edits>>

Restart ==
  /\ Spend("crash")
  /\ pc' = [i \in Ops |-> "off"] /\ work' = [i \in Ops |-> NoWork]
  /\ db' = RecoverIncomplete(db)
  /\ UNCHANGED <<row, config, cloud, edits>>

Next ==
  \/ \E i \in Ops :
       \/ Run(i) \/ RunFaults(i) \/ Dies(i) \/ Clean(i)
       \/ StartRotation(i) \/ WaitLonger(i) \/ Accept(i) \/ CancelSsh(i)
       \/ Reconcile(i)
       \/ \E j \in Ops : RetryReview(i, j) \/ RetrySsh(i, j)
  \/ \E b \in Boxes : RemoveByHand(b) \/ ProviderDeletes(b)
  \/ \E b \in Boxes \cup {NoBox}, a \in Accounts : SaveSettings(b, a)
  \/ ChangeClients \/ Restart

Spec == Init /\ [][Next]_vars

-----------------------------------------------------------------------------
(***************************************************************************)
(* Properties.                                                             *)
(***************************************************************************)
\* The panel never asks the provider to delete the box that is active, even
\* when the settings were taken back to an older box before somebody said that
\* all is well (sprintbox_review.py, validate_target).
ActiveSpared ==
  [][\A b \in asked' \ asked : b # config.box /\ b # db.ip]_vars

\* A box that was bought is on record, or its operation is running or waits
\* for a person: no lost answer, failure or restart makes a box that was paid
\* for look as if it had not been (sprintbox_rotation.py, creation_started).
BoxAccounted ==
  \A i \in Ops : NewBox(i) \in boxes =>
    \/ row[i].new = NewBox(i) \/ Active(db, i)
    \/ db.op[i].status = "AMBIGUOUS"

\* A box leaves the list of those kept only when it is gone, and a clean-up
\* that ends without a warning has left none; one that was rejected names
\* every box it leaves (sprintbox_rotation.py, run_sprintbox_cleanup).
CleanupHonest ==
  \A i \in Ops :
    /\ \A b \in Boxes :
         row[i].results[b] \in {"DELETED", "ABSENT"} => b \notin boxes
    /\ db.op[i].action = "DONE" => row[i].kept = {}
    /\ db.op[i].action = "CLEANUP_REJECTED" => row[i].kept \subseteq row[i].named

\* At most one box has been bought and neither been published, left to a newer
\* operation, cancelled nor seen by a person (vpn_state.py, the SSH_UNREACHABLE
\* and AMBIGUOUS holds of prepare_ip_change_operation).
OpenPurchases ==
  {i \in Ops : /\ db.op[i].purchase \notin {"NOT_STARTED", "REJECTED"}
               /\ row[i].published = 0 /\ db.op[i].status # "FAILED"
               /\ db.op[i].action \notin {"RETRY_REQUESTED", "CANCELLED",
                                          "RECONCILED"}}

OneOpenPurchase == Cardinality(OpenPurchases) <= 1

\* docs/SPRINTBOX.md:31-32: the failed boxes of a chain are offered for
\* clean-up once an installation has succeeded (retained_boxes).
FailedBoxes(i) ==
  {row[j].new : j \in {k \in Ops :
     /\ k < i /\ db.op[k].action = "RETRY_REQUESTED" /\ row[k].published = 0
     /\ row[k].account = row[i].account /\ row[k].box = row[i].box}}

ChainOffered ==
  \A i \in Ops : db.op[i].action = "AWAITING_USER_REVIEW" =>
    FailedBoxes(i) \cap boxes \subseteq row[i].kept
=============================================================================
