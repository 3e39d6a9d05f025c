---------------------------- MODULE VpsCalmProofs -----------------------------
(***************************************************************************)
(* As long as no lease runs out, every exception handler can write, and no *)
(* transaction fails between a publication and the end of its rotation,    *)
(* operations are alone, and rotations leave the provider's main address   *)
(* and the published one together.                                         *)
(***************************************************************************)
EXTENDS VpsProofs, FiniteSetTheorems

\* The faults that are left: lost requests, failed transactions, restarts.
Calm == FaultKinds \cap {"expire", "dbEnd", "dbLate"} = {}

-----------------------------------------------------------------------------
(***************************************************************************)
(* The inductive invariant.                                                *)
(***************************************************************************)
StatusSteps == {"status", "status_end", "status_fail", "status_dead"}

\* The steps of a rotation's worker.
WorkSteps ==
  Steps \ ({"off"} \cup StatusSteps \cup InstallSteps \cup RebootSteps)

\* After the publication, and before it.
Published == {"finish_awg", "cleanup_mark", "cleanup", "cleaned",
              "cleanup_lost", "finish", "finish_unclear"}
Unpublished == WorkSteps \ Published

\* Before it has compared the provider's main address with the bound one, and
\* where it may go from there.
Unsure == {"get_ipv4_list", "rotation_dead", "give_up"}

\* The new main address has not been asked for, or is taken back.
Untouched == {"get_ipv4_list", "purchase_mark", "purchase", "purchased",
              "purchase_lost", "wait_new_ipv4", "main_mark", "undone"}

\* The new address is there; it is the main one; its revision runs.
Bought == {"purchased", "wait_new_ipv4", "main_mark", "make_main",
           "main_changed", "confirm_main"}
Moved  == {"wait_ssh", "apply", "apply_wait"}
Ran    == {"applied", "health", "publish"}

\* The purchase is marked, and the main address not yet changed.
Asked == {"purchase", "purchased", "purchase_lost", "wait_new_ipv4",
          "main_mark", "make_main"}

\* What the worker of rotation i knows of the addresses, at a step and with a
\* row.
Knows(i, at, o) ==
  /\ main = db.published \/ o.purchase # "NOT_STARTED"
  /\ at \in Asked => o.purchase # "NOT_STARTED"
  /\ at \in Unpublished => db.published # NewIp(i)
  /\ at \in Unpublished \ Unsure => db.published = OldIp(i)
  /\ at \in Untouched => main = db.published
  /\ at = "give_up" => main = db.published \/ o.action = "AMBIGUOUS"
  /\ at \in Bought \cup Moved \cup Ran => NewIp(i) \in owned
  /\ at \in Moved \cup Ran => main = NewIp(i)
  /\ at \in Ran => script[i].state = "ok"
  /\ at \in Published =>
       db.published = NewIp(i) /\ main = NewIp(i) /\ OldIp(i) # NewIp(i)

Course(i) == Knows(i, pc[i], db.op[i])

\* A rotation that waits for its worker or for a person.
Open(i) == IsRotation(db, i) /\ ~Settled(i)

\* The holder of the lease is the one operation that is not over, and has a
\* worker.
Leased ==
  /\ ~db.expired
  /\ \A i \in Ops : /\ pc[i] # "off" <=> Active(db, i)
                    /\ Active(db, i) => db.lease = i

\* What may be written of a rotation, and who may.
Written(i) ==
  /\ pc[i] \in WorkSteps => IsRotation(db, i)
  /\ pc[i] \in StatusSteps => db.op[i].kind = "STATUS"
  /\ IsRotation(db, i) =>
       /\ db.op[i].status \notin {"none", "TIMED_OUT"}
       /\ Active(db, i) =>
            db.op[i].action \notin {"RECONCILED", "WAITING_SSH",
                                    "SSH_WAIT_QUEUED"}

RInv ==
  /\ Leased
  /\ \A i \in Ops : Written(i)
  /\ \A i, j \in Ops : Open(i) /\ Open(j) => i = j
  /\ db.published \in owned
  /\ \A i \in Ops : db.published = NewIp(i) => IsRotation(db, i)
  /\ (\A i \in Ops : ~Open(i)) => main = db.published
  /\ \A i \in Ops : pc[i] \in WorkSteps => Course(i)

-----------------------------------------------------------------------------
(***************************************************************************)
(* What the invariant says of a worker.                                    *)
(***************************************************************************)
\* While a worker runs there is no other.
LEMMA Alone ==
  ASSUME RInv, NEW i \in Ops, pc[i] # "off"
  PROVE  /\ Active(db, i) /\ db.lease = i
         /\ \A j \in Ops \ {i} : pc[j] = "off" /\ ~Active(db, j)
BY DEF RInv, Leased

\* The rotation that runs is the open one.
LEMMA RunningOpen ==
  ASSUME RInv, NEW i \in Ops, pc[i] \in WorkSteps
  PROVE  /\ IsRotation(db, i) /\ Open(i) /\ Course(i) /\ pc[i] # "off"
         /\ \A j \in Ops \ {i} : ~Open(j)
<1>1. IsRotation(db, i) /\ Course(i) /\ pc[i] # "off"
  BY DEF RInv, Written, WorkSteps
<1>2. Active(db, i) /\ db.op[i].action # "RECONCILED"
  BY <1>1, Alone DEF RInv, Written
<1>3. Open(i)
  BY <1>1, <1>2 DEF Open, Settled, Active
<1> QED
  BY <1>1, <1>3 DEF RInv

\* A step of worker i touches no other row, and no other worker.
Elsewhere(i) ==
  \A j \in Ops \ {i} : pc'[j] = pc[j] /\ db'.op[j] = db.op[j]

\* Every address belongs to one operation.
LEMMA OneNewIp ==
  ASSUME NEW i \in Ops, NEW j \in Ops, NewIp(i) = NewIp(j)
  PROVE  i = j
BY Bounds DEF NewIp, Ops

\* The new address of i is the main one, and the revision its script has left on
\* the server is the desired one.
Verified(i) == main = NewIp(i) /\ script[i].state = "ok" /\ Bound(i)

\* A step that keeps the invariant and publishes only what is verified.
Honest ==
  /\ RInv'
  /\ db'.published # db.published =>
       \E i \in Ops : /\ db'.published = NewIp(i) /\ db'.ip = NewIp(i)
                      /\ Verified(i)

-----------------------------------------------------------------------------
(***************************************************************************)
(* Kinds of steps.                                                         *)
(***************************************************************************)
\* A worker of anything but a rotation goes on or ends.
LEMMA OtherStep ==
  ASSUME RInv, NEW i \in Ops, pc[i] # "off", ~IsRotation(db, i), Elsewhere(i),
         db'.op[i].kind = db.op[i].kind,
         pc'[i] \notin WorkSteps,
         pc'[i] \in StatusSteps => pc[i] \in StatusSteps,
         db'.published = db.published, main' = main, owned' = owned, ~db'.expired,
         \/ pc'[i] = "off" /\ ~Active(db', i)
         \/ pc'[i] # "off" /\ Active(db', i) /\ db'.lease = db.lease
  PROVE  Honest
<1>1. \A j \in Ops \ {i} : pc[j] = "off" /\ ~Active(db, j) /\ db.lease = i
  BY Alone
<1>2. /\ ~IsRotation(db', i)
      /\ \A j \in Ops \ {i} : pc'[j] = "off" /\ ~Active(db', j)
      /\ \A j \in Ops : IsRotation(db', j) <=> IsRotation(db, j)
  BY <1>1 DEF Elsewhere, Active, IsRotation
<1>3. Leased'
  BY <1>1, <1>2, Alone DEF Leased
<1>4. \A j \in Ops : Open(j)' <=> Open(j)
  BY <1>2 DEF Open, Settled, Elsewhere, IsRotation
<1>5. ASSUME NEW j \in Ops PROVE Written(j)' /\ pc'[j] \notin WorkSteps
  <2>1. CASE j = i
    BY <1>2, <2>1 DEF RInv, Written
  <2>2. CASE j # i
    BY <1>2, <2>2 DEF RInv, Written, WorkSteps, StatusSteps, Elsewhere, IsRotation
  <2> QED
    BY <2>1, <2>2
<1>6. /\ \A j, k \in Ops : Open(j)' /\ Open(k)' => j = k
      /\ (\A j \in Ops : ~Open(j)') => main' = db'.published
  BY <1>4 DEF RInv
<1>7. /\ db'.published \in owned'
      /\ \A j \in Ops : db'.published = NewIp(j) => IsRotation(db', j)
  BY <1>2 DEF RInv, NewIp
<1> QED
  BY <1>3, <1>5, <1>6, <1>7 DEF RInv, NewIp, Honest

\* A rotation's worker goes on.
LEMMA RotationStep ==
  ASSUME RInv, NEW i \in Ops, pc[i] \in WorkSteps, Elsewhere(i),
         pc'[i] \in WorkSteps,
         IsRotation(db', i), Active(db', i),
         db'.op[i].action \notin {"RECONCILED", "WAITING_SSH",
                                  "SSH_WAIT_QUEUED"},
         db'.lease = db.lease, ~db'.expired,
         \/ db'.published = db.published
         \/ db'.published = NewIp(i) /\ db'.ip = NewIp(i) /\ Verified(i),
         db'.published \in owned', Course(i)'
  PROVE  Honest
<1>1. /\ IsRotation(db, i) /\ pc[i] # "off"
      /\ \A j \in Ops \ {i} : ~Open(j)
  BY RunningOpen
<1>2. \A j \in Ops \ {i} : pc[j] = "off" /\ ~Active(db, j) /\ db.lease = i
  BY <1>1, Alone
<1>3. /\ \A j \in Ops \ {i} : pc'[j] = "off" /\ ~Active(db', j)
      /\ \A j \in Ops : IsRotation(db', j) <=> IsRotation(db, j)
  BY <1>1, <1>2 DEF Elsewhere, Active, IsRotation
<1>4. Leased'
  BY <1>1, <1>2, <1>3, Alone DEF Leased, WorkSteps
<1>5. \A j \in Ops \ {i} : ~Open(j)'
  BY <1>1, <1>3 DEF Open, Settled, Elsewhere, IsRotation
<1>6. Open(i)'
  BY DEF Open, Settled, Active
<1>7. ASSUME NEW j \in Ops PROVE Written(j)'
  <2>1. CASE j = i
    BY <2>1 DEF Written, Active, WorkSteps
  <2>2. CASE j # i
    BY <1>3, <2>2 DEF RInv, Written, WorkSteps, StatusSteps, Elsewhere, IsRotation
  <2> QED
    BY <2>1, <2>2
<1>8. ASSUME NEW j \in Ops, pc'[j] \in WorkSteps PROVE Course(j)'
  BY <1>3, <1>8 DEF WorkSteps
<1>9. \A j \in Ops : db'.published = NewIp(j) => IsRotation(db', j)
  BY <1>3, OneNewIp DEF RInv
<1> QED
  BY <1>4, <1>5, <1>6, <1>7, <1>8, <1>9 DEF RInv, NewIp, Honest, Verified

\* A rotation's worker ends.
LEMMA RotationEnd ==
  ASSUME RInv, NEW i \in Ops, pc[i] \in WorkSteps, Elsewhere(i),
         pc'[i] = "off", IsRotation(db', i),
         db'.op[i].status \in {"DONE", "FAILED", "AMBIGUOUS"}, ~db'.expired,
         db'.published = db.published, main' = main, owned' = owned,
         \/ main = db.published
         \/ db'.op[i].status = "AMBIGUOUS" /\ db'.op[i].action # "RECONCILED"
  PROVE  Honest
<1>1. /\ IsRotation(db, i) /\ pc[i] # "off"
      /\ \A j \in Ops \ {i} : ~Open(j)
  BY RunningOpen
<1>2. \A j \in Ops \ {i} : pc[j] = "off" /\ ~Active(db, j)
  BY <1>1, Alone
<1>3. /\ \A j \in Ops : pc'[j] = "off" /\ ~Active(db', j)
      /\ \A j \in Ops : IsRotation(db', j) <=> IsRotation(db, j)
  BY <1>1, <1>2 DEF Elsewhere, Active, IsRotation
<1>4. Leased'
  BY <1>3 DEF Leased
<1>5. \A j \in Ops \ {i} : ~Open(j)'
  BY <1>1, <1>3 DEF Open, Settled, Elsewhere, IsRotation
<1>6. main' = db'.published \/ Open(i)'
  BY DEF Open, Settled
<1>7. ASSUME NEW j \in Ops PROVE Written(j)' /\ pc'[j] \notin WorkSteps
  <2>1. CASE j = i
    BY <1>3, <2>1 DEF Written, WorkSteps, StatusSteps
  <2>2. CASE j # i
    BY <1>3, <2>2 DEF RInv, Written, WorkSteps, StatusSteps, Elsewhere, IsRotation
  <2> QED
    BY <2>1, <2>2
<1>8. \A j \in Ops : db'.published = NewIp(j) => IsRotation(db', j)
  BY <1>3 DEF RInv
<1> QED
  BY <1>4, <1>5, <1>6, <1>7, <1>8 DEF RInv, NewIp, Honest

-----------------------------------------------------------------------------
(***************************************************************************)
(* What a worker's step is made of.                                        *)
(***************************************************************************)
\* The world stays as it is.
Still == UNCHANGED <<script, vps, owned, main, sent>>

\* A transaction writes o to the row of i, and otherwise at most to the lease.
Touches(i, o) ==
  /\ db'.op = [db.op EXCEPT ![i] = o] /\ ~db'.expired
  /\ db'.published = db.published /\ db'.snap = db.snap

\* Nothing else moves.
LEMMA TouchesElsewhere ==
  ASSUME IInv, NEW i \in Ops, NEW o, NEW to, Touches(i, o), Goto(i, to)
  PROVE  Elsewhere(i) /\ pc'[i] = to /\ db'.op[i] = o
<1>1. db.op \in [Ops -> Operation] /\ pc \in [Ops -> Steps]
  BY Fields DEF IInv, TypeOK
<1> QED
  BY <1>1 DEF Touches, Goto, Elsewhere

\* A transaction after which the worker goes on.
LEMMA MarkTouches ==
  ASSUME IInv, RInv, NEW i \in Ops, NEW from, NEW o, NEW to, Mark(i, from, o, to)
  PROVE  /\ Touches(i, o) /\ Still /\ db'.lease = db.lease
         /\ Elsewhere(i) /\ pc'[i] = to /\ db'.op[i] = o /\ pc[i] = from
<1> DEFINE e == [db EXCEPT !.op[i] = o]
<1>1. db \in Database /\ ~db.expired
  BY DEF IInv, TypeOK, RInv, Leased
<1>2. db' = Heartbeat(e, i)
  BY DEF Mark, Save
<1>3. Touches(i, o) /\ db'.lease = db.lease
  BY <1>1, <1>2 DEF Touches, Heartbeat, Database
<1> QED
  BY <1>3, TouchesElsewhere DEF Mark, Quietly, Still, world

\* One after which it ends.
LEMMA FinishTouches ==
  ASSUME IInv, RInv, NEW i \in Ops, NEW from, NEW o, Finish(i, from, o)
  PROVE  /\ Touches(i, o) /\ Still
         /\ Elsewhere(i) /\ pc'[i] = "off" /\ db'.op[i] = o /\ pc[i] = from
<1> DEFINE e == [db EXCEPT !.op[i] = o]
<1>1. db \in Database /\ ~db.expired
  BY DEF IInv, TypeOK, RInv, Leased
<1>2. db' = Release(e, i)
  BY DEF Finish, End
<1>3. Touches(i, o)
  BY <1>1, <1>2 DEF Touches, Release, Database
<1> QED
  BY <1>3, TouchesElsewhere DEF Finish, Quietly, Still, world

\* The worker goes on without a transaction.
LEMMA GoTouches ==
  ASSUME IInv, RInv, NEW i \in Ops, NEW to, Goto(i, to), UNCHANGED db
  PROVE  /\ Touches(i, db.op[i]) /\ db'.lease = db.lease
         /\ Elsewhere(i) /\ pc'[i] = to /\ db'.op[i] = db.op[i]
<1>1. db.op \in [Ops -> Operation]
  BY Fields DEF IInv, TypeOK
<1>2. Touches(i, db.op[i])
  BY <1>1 DEF Touches, RInv, Leased
<1> QED
  BY <1>2, TouchesElsewhere

-----------------------------------------------------------------------------
(***************************************************************************)
(* Installs, reboots and status checks.                                    *)
(***************************************************************************)
\* Where a worker of one of them may go.
LEMMA OtherMark ==
  ASSUME IInv, RInv, NEW i \in Ops, ~IsRotation(db, i), pc[i] # "off",
         NEW from, NEW to, NEW status \in {"RUNNING", db.op[i].status},
         NEW o, Mark(i, from, o, to), o.kind = db.op[i].kind, o.status = status,
         to # "off", to \notin WorkSteps,
         to \in StatusSteps => from \in StatusSteps
  PROVE  Honest
<1>1. /\ Touches(i, o) /\ Still /\ db'.lease = db.lease
      /\ Elsewhere(i) /\ pc'[i] = to /\ db'.op[i] = o /\ pc[i] = from
  BY MarkTouches
<1>2. Active(db', i)
  BY <1>1, Alone DEF Active
<1> QED
  BY <1>1, <1>2, OtherStep DEF Touches, Still

\* How it ends.
LEMMA OtherFinish ==
  ASSUME IInv, RInv, NEW i \in Ops, ~IsRotation(db, i), pc[i] # "off",
         NEW from, NEW o, Finish(i, from, o), o.kind = db.op[i].kind,
         o.status \in Terminal
  PROVE  Honest
<1>1. /\ Touches(i, o) /\ Still
      /\ Elsewhere(i) /\ pc'[i] = "off" /\ db'.op[i] = o /\ pc[i] = from
  BY FinishTouches
<1>2. ~Active(db', i)
  BY <1>1 DEF Active, Terminal
<1> QED
  BY <1>1, <1>2, OtherStep DEF Touches, Still, WorkSteps, StatusSteps

\* Where it goes without a transaction.
LEMMA OtherGo ==
  ASSUME IInv, RInv, NEW i \in Ops, ~IsRotation(db, i), pc[i] # "off",
         NEW to, Goto(i, to), UNCHANGED <<db, owned, main>>,
         to # "off", to \notin WorkSteps,
         to \in StatusSteps => pc[i] \in StatusSteps
  PROVE  Honest
<1>1. /\ Touches(i, db.op[i]) /\ db'.lease = db.lease
      /\ Elsewhere(i) /\ pc'[i] = to /\ db'.op[i] = db.op[i]
  BY GoTouches
<1>2. Active(db', i)
  BY Alone DEF Active
<1> QED
  BY <1>1, <1>2, OtherStep DEF Touches

\* A fault among those that are left.
LEMMA CalmFaults ==
  ASSUME Calm, NEW i \in Ops, NEW froms, NEW kind, NEW to,
         Stumble(i, froms, kind, to)
  PROVE  /\ kind \notin {"expire", "dbEnd", "dbLate"}
         /\ pc[i] \in froms /\ Goto(i, to) /\ UNCHANGED db /\ Still
BY DEF Calm, Stumble, Spend, Still, world

\* Where such a fault sends it.
LEMMA OtherStumble ==
  ASSUME Calm, IInv, RInv, NEW i \in Ops, ~IsRotation(db, i), pc[i] # "off",
         NEW froms, NEW kind, NEW to, Stumble(i, froms, kind, to),
         to # "off" \/ kind = "dbEnd", to \notin WorkSteps,
         to \in StatusSteps => froms \subseteq StatusSteps
  PROVE  Honest
BY CalmFaults, OtherGo DEF Still

\* The two transactions that end an install.
LEMMA InstallEnds ==
  ASSUME IInv, RInv, NEW i \in Ops, db.op[i].kind = "INSTALL",
         Goto(i, "off"), Quietly, pc[i] # "off",
         \/ db' = CompleteInstall(db, i)
         \/ db' = FailInstall(db, i)
         \/ db' = MarkAmbiguous(db, i)
  PROVE  Honest
<1>1. /\ db \in Database /\ ~db.expired /\ db.op \in [Ops -> Operation]
      /\ pc \in [Ops -> Steps] /\ Active(db, i)
  BY Fields, Alone DEF IInv, TypeOK, RInv, Leased
<1>2. PICK status \in {"DONE", "FAILED", "AMBIGUOUS"} :
        /\ db'.op = [db.op EXCEPT ![i].status = status]
        /\ db'.published = db.published /\ ~db'.expired
  <2>1. CASE db' = CompleteInstall(db, i)
    BY <1>1, <2>1 DEF CompleteInstall, Release, PurgeDeleted, Database
  <2>2. CASE db' = FailInstall(db, i)
    BY <1>1, <2>2 DEF FailInstall, FailedSnapshot, Release, Database
  <2>3. CASE db' = MarkAmbiguous(db, i)
    BY <1>1, <2>3 DEF MarkAmbiguous, FailedSnapshot, Release, Database
  <2> QED
    BY <2>1, <2>2, <2>3
<1>3. /\ Elsewhere(i) /\ pc'[i] = "off" /\ db'.op[i].kind = db.op[i].kind
      /\ db'.op[i].status = status
  BY <1>1, <1>2 DEF Elsewhere, Goto, Operation
<1>4. ~Active(db', i) /\ main' = main /\ owned' = owned
  BY <1>3 DEF Active, Quietly, world
<1> QED
  BY <1>2, <1>3, <1>4, OtherStep DEF WorkSteps, StatusSteps, IsRotation

\* run_eu_install.
LEMMA InstallHonest ==
  ASSUME Calm, IInv, RInv, NEW i \in Ops, Install(i) \/ InstallFaults(i)
  PROVE  Honest
<1>1. pc[i] \in InstallSteps
  BY DEF Install, InstallFaults, InstallStart, InstallSend, InstallOk,
         InstallScriptFailed, InstallHeartbeat, InstallUncertain, InstallDone,
         InstallFail, InstallUnclear, Mark, Move, Stumble, InstallSteps
<1>2. /\ db.op[i].kind = "INSTALL" /\ ~IsRotation(db, i) /\ pc[i] # "off"
      /\ db.op[i] \in Operation
  BY <1>1, OwnRow DEF Actor, IsRotation, InstallSteps
<1>3. /\ "off" \notin InstallSteps /\ InstallSteps \cap WorkSteps = {}
      /\ InstallSteps \cap StatusSteps = {}
  BY DEF InstallSteps, WorkSteps, StatusSteps
<1>4. {"install_send", "install_wait", "install_done", "install_fail",
       "install_unclear"} \subseteq InstallSteps
  BY DEF InstallSteps
<1>5. CASE InstallStart(i)
  <2> DEFINE o == [db.op[i] EXCEPT !.status = "RUNNING"]
  <2>1. o.kind = db.op[i].kind /\ o.status = "RUNNING"
    BY <1>2 DEF Operation
  <2> QED
    BY <1>2, <1>3, <1>4, <1>5, <2>1, OtherMark DEF InstallStart
<1>6. CASE InstallHeartbeat(i)
  BY <1>2, <1>3, <1>4, <1>6, OtherMark DEF InstallHeartbeat
<1>7. CASE InstallSend(i)
  BY <1>2, <1>3, <1>4, <1>7, OtherGo DEF InstallSend, Launch
<1>8. CASE InstallOk(i) \/ InstallScriptFailed(i) \/ InstallUncertain(i)
  BY <1>2, <1>3, <1>4, <1>8, OtherGo
     DEF InstallOk, InstallScriptFailed, InstallUncertain, Move, Quietly, world
<1>9. CASE InstallDone(i) \/ InstallFail(i) \/ InstallUnclear(i)
  BY <1>2, <1>9, InstallEnds DEF InstallDone, InstallFail, InstallUnclear
<1>10. CASE InstallFaults(i)
  BY <1>2, <1>3, <1>4, <1>10, OtherStumble
     DEF InstallFaults, WorkSteps, StatusSteps
<1> QED
  BY <1>5, <1>6, <1>7, <1>8, <1>9, <1>10 DEF Install

\* run_server_reboot.
LEMMA RebootHonest ==
  ASSUME Calm, IInv, RInv, NEW i \in Ops, Reboot(i) \/ RebootFaults(i)
  PROVE  Honest
<1>1. pc[i] \in RebootSteps
  BY DEF Reboot, RebootFaults, RebootLook, RebootMark, RebootRefused,
         RebootSend, RebootRecorded, RebootPoll, RebootVerified, RebootFail,
         Mark, Move, Finish, Stumble, RebootSteps
<1>2. /\ ~IsRotation(db, i) /\ pc[i] # "off" /\ db.op[i] \in Operation
  BY <1>1, OwnRow DEF Actor, IsRotation, RebootSteps
<1>3. /\ "off" \notin RebootSteps /\ RebootSteps \cap WorkSteps = {}
      /\ RebootSteps \cap StatusSteps = {}
  BY DEF RebootSteps, WorkSteps, StatusSteps
<1>4. {"reboot_mark", "reboot_send", "reboot_sent", "reboot_lost",
       "reboot_verify", "reboot_unclear", "reboot_fail", "reboot_dead"}
        \subseteq RebootSteps
  BY DEF RebootSteps
<1>5. ASSUME NEW a \in ActionStates
      PROVE  LET o == [db.op[i] EXCEPT !.action = a]
             IN  o.kind = db.op[i].kind /\ o.status = db.op[i].status
  BY <1>2 DEF Operation
<1>6. CASE RebootLook(i)
  <2> DEFINE o == [db.op[i] EXCEPT !.status = "RUNNING"]
  <2>1. o.kind = db.op[i].kind /\ o.status = "RUNNING"
    BY <1>2 DEF Operation
  <2> QED
    BY <1>2, <1>3, <1>4, <1>6, <2>1, OtherMark DEF RebootLook
<1>7. CASE RebootMark(i)
  <2> DEFINE o == [db.op[i] EXCEPT !.status = "RUNNING", !.action = "SENDING"]
  <2>1. o.kind = db.op[i].kind /\ o.status = "RUNNING"
    BY <1>2 DEF Operation
  <2> QED
    BY <1>2, <1>3, <1>4, <1>7, <2>1, OtherMark DEF RebootMark, Step
<1>8. CASE RebootRefused(i)
  BY <1>2, <1>3, <1>4, <1>8, OtherGo DEF RebootRefused, Move, Quietly, world
<1>9. CASE RebootSend(i)
  <2>1. PICK to \in {"reboot_sent", "reboot_lost"} : Goto(i, to)
    BY <1>9 DEF RebootSend
  <2> QED
    BY <1>2, <1>3, <1>4, <1>9, <2>1, OtherGo DEF RebootSend
<1>10. CASE RebootRecorded(i)
  <2>1. {"SENT", "AMBIGUOUS"} \subseteq ActionStates
    BY DEF ActionStates
  <2> QED
    BY <1>2, <1>3, <1>4, <1>5, <1>10, <2>1, OtherMark DEF RebootRecorded
<1>11. CASE RebootPoll(i)
  BY <1>2, <1>3, <1>4, <1>11, OtherMark DEF RebootPoll
<1>12. CASE RebootVerified(i)
  <2>1. PICK status \in Terminal, from \in RebootSteps :
          Finish(i, from, [db.op[i] EXCEPT !.status = status])
    BY <1>4, <1>12 DEF RebootVerified, Terminal
  <2> DEFINE o == [db.op[i] EXCEPT !.status = status]
  <2>2. o.kind = db.op[i].kind /\ o.status \in Terminal
    BY <1>2 DEF Operation
  <2> QED
    BY <1>2, <2>1, <2>2, OtherFinish
<1>13. CASE RebootFail(i)
  <2>1. /\ RebootVerdict(db.op[i]).kind = db.op[i].kind
        /\ RebootVerdict(db.op[i]).status \in Terminal
    BY <1>2 DEF RebootVerdict, Operation, Terminal
  <2> QED
    BY <1>2, <1>13, <2>1, OtherFinish DEF RebootFail
<1>14. CASE RebootFaults(i)
  BY <1>2, <1>3, <1>4, <1>14, OtherStumble
     DEF RebootFaults, WorkSteps, StatusSteps
<1> QED
  BY <1>6, <1>7, <1>8, <1>9, <1>10, <1>11, <1>12, <1>13, <1>14 DEF Reboot

\* run_server_status.
LEMMA StatusHonest ==
  ASSUME Calm, IInv, RInv, NEW i \in Ops, Status(i) \/ StatusFaults(i)
  PROVE  Honest
<1>1. pc[i] \in StatusSteps
  BY DEF Status, StatusFaults, StatusStart, StatusEnd, Mark, Finish, Stumble,
         StatusSteps
<1>2. /\ ~IsRotation(db, i) /\ pc[i] # "off" /\ db.op[i] \in Operation
  BY <1>1, OwnRow DEF RInv, Written, IsRotation, StatusSteps
<1>3. "off" \notin StatusSteps /\ StatusSteps \cap WorkSteps = {}
  BY DEF WorkSteps, StatusSteps
<1>4. ASSUME NEW status
      PROVE  LET o == [db.op[i] EXCEPT !.status = status]
             IN  o.kind = db.op[i].kind /\ o.status = status
  BY <1>2 DEF Operation
<1>5. CASE StatusStart(i)
  BY <1>2, <1>3, <1>4, <1>5, OtherMark DEF StatusStart, StatusSteps
<1>6. CASE StatusEnd(i)
  <2>1. PICK status \in Terminal, from \in StatusSteps :
          Finish(i, from, [db.op[i] EXCEPT !.status = status])
    BY <1>6 DEF StatusEnd, Terminal, StatusSteps
  <2> QED
    BY <1>2, <1>4, <2>1, OtherFinish
<1>7. CASE StatusFaults(i)
  BY <1>2, <1>3, <1>7, OtherStumble DEF StatusFaults, StatusSteps, WorkSteps
<1> QED
  BY <1>5, <1>6, <1>7 DEF Status

-----------------------------------------------------------------------------
(***************************************************************************)
(* Rotations.                                                              *)
(***************************************************************************)
\* The steps of a rotation, sorted.
LEMMA Stages ==
  /\ Untouched \cup Bought \cup Moved \cup Ran \cup Asked \subseteq Unpublished
  /\ {"main_lost", "apply_failed", "apply_lost", "undo", "unmake_main",
      "undo_lost"} \subseteq Unpublished \ Unsure
  /\ Untouched \cap Unsure = {"get_ipv4_list"}
  /\ (Bought \cup Moved \cup Ran \cup Asked) \cap Unsure = {}
  /\ Unsure \subseteq Unpublished
  /\ Published \subseteq WorkSteps /\ Unpublished \subseteq WorkSteps
  /\ Published \cap Unpublished = {}
  /\ "off" \notin WorkSteps
BY DEF Untouched, Bought, Moved, Ran, Asked, Unpublished, Published, Unsure,
       WorkSteps, Steps, StatusSteps, InstallSteps, RebootSteps

\* What may be written of a rotation that goes on.
Ongoing(i, o) ==
  /\ o.kind = "IP_CHANGE" /\ o.rev = Rev(i)
  /\ o.status \in {"PENDING", "RUNNING"}
  /\ o.action \notin {"RECONCILED", "WAITING_SSH", "SSH_WAIT_QUEUED"}

\* The row of a rotation that runs.
LEMMA RunningRow ==
  ASSUME IInv, RInv, NEW i \in Ops, pc[i] \in WorkSteps
  PROVE  /\ Ongoing(i, db.op[i]) /\ Knows(i, pc[i], db.op[i])
         /\ db.op[i] \in Operation
BY RunningOpen, Alone, OwnRow
   DEF RInv, Written, Ongoing, Course, IsRotation, Rev, Active

\* The worker writes o and goes to another step.
LEMMA WorkMark ==
  ASSUME IInv, RInv, NEW i \in Ops, NEW from \in WorkSteps, NEW o,
         NEW to \in WorkSteps, Mark(i, from, o, to), Ongoing(i, o),
         Knows(i, to, o)
  PROVE  Honest
<1>1. /\ Touches(i, o) /\ Still /\ db'.lease = db.lease
      /\ Elsewhere(i) /\ pc'[i] = to /\ db'.op[i] = o /\ pc[i] = from
  BY MarkTouches
<1>2. OldIp(i)' = OldIp(i) /\ NewIp(i)' = NewIp(i)
  BY <1>1 DEF OldIp, Rev, Touches, Ongoing, NewIp
<1>3. Course(i)'
  BY <1>1, <1>2 DEF Course, Knows, Touches, Still
<1>4. IsRotation(db', i) /\ Active(db', i)
  BY <1>1 DEF Ongoing, IsRotation, Active
<1>5. db'.published = db.published /\ db'.published \in owned' /\ ~db'.expired
  BY <1>1 DEF Touches, Still, RInv
<1>6. /\ pc[i] \in WorkSteps /\ pc'[i] \in WorkSteps
      /\ db'.op[i].action \notin {"RECONCILED", "WAITING_SSH",
                                  "SSH_WAIT_QUEUED"}
  BY <1>1 DEF Ongoing
<1> QED
  BY <1>1, <1>3, <1>4, <1>5, <1>6, RotationStep

\* It goes on without a transaction, and something in the world may change.
LEMMA WorkGo ==
  ASSUME IInv, RInv, NEW i \in Ops, pc[i] \in WorkSteps,
         NEW to \in WorkSteps, Goto(i, to), UNCHANGED db,
         db.published \in owned', Knows(i, to, db.op[i])'
  PROVE  Honest
<1>1. /\ Touches(i, db.op[i]) /\ db'.lease = db.lease
      /\ Elsewhere(i) /\ pc'[i] = to /\ db'.op[i] = db.op[i]
  BY GoTouches
<1>2. Ongoing(i, db.op[i])
  BY RunningRow
<1>3. Course(i)'
  BY <1>1 DEF Course, Knows
<1>4. IsRotation(db', i) /\ Active(db', i)
  BY <1>2 DEF Ongoing, IsRotation, Active
<1>5. db'.published = db.published /\ db'.published \in owned' /\ ~db'.expired
  BY <1>1 DEF Touches
<1>6. /\ pc'[i] \in WorkSteps
      /\ db'.op[i].action \notin {"RECONCILED", "WAITING_SSH",
                                  "SSH_WAIT_QUEUED"}
  BY <1>1, <1>2 DEF Ongoing
<1> QED
  BY <1>1, <1>3, <1>4, <1>5, <1>6, RotationStep

\* It goes on, and nothing else changes.
LEMMA WorkMove ==
  ASSUME IInv, RInv, NEW i \in Ops, pc[i] \in WorkSteps,
         NEW to \in WorkSteps, Goto(i, to), UNCHANGED db, Still,
         Knows(i, to, db.op[i])
  PROVE  Honest
<1>1. Knows(i, to, db.op[i])'
  BY DEF Still, Knows, OldIp, NewIp, Rev
<1>2. db.published \in owned'
  BY DEF RInv, Still
<1> QED
  BY <1>1, <1>2, WorkGo

\* It ends with a verdict.
LEMMA WorkFinish ==
  ASSUME IInv, RInv, NEW i \in Ops, NEW from \in WorkSteps, NEW o,
         Finish(i, from, o), o.kind = "IP_CHANGE",
         o.status \in {"DONE", "FAILED", "AMBIGUOUS"},
         \/ main = db.published
         \/ o.status = "AMBIGUOUS" /\ o.action # "RECONCILED"
  PROVE  Honest
<1>1. /\ Touches(i, o) /\ Still
      /\ Elsewhere(i) /\ pc'[i] = "off" /\ db'.op[i] = o /\ pc[i] = from
  BY FinishTouches
<1> QED
  BY <1>1, RotationEnd DEF Touches, Still, IsRotation

\* Before the provider is asked to change the main address.
LEMMA PurchaseHonest ==
  ASSUME IInv, RInv, NEW i \in Ops, IsRotation(db, i),
         \/ RotationList(i) \/ PurchaseMark(i) \/ PurchaseRecorded(i)
         \/ NewIpAppears(i) \/ GiveUpEarly(i) \/ MainMark(i)
  PROVE  Honest
<1> DEFINE o == db.op[i]
<1>1. /\ pc[i] \in {"get_ipv4_list", "purchase_mark", "purchased",
                    "purchase_lost", "wait_new_ipv4", "main_mark"}
      /\ pc[i] \in Untouched /\ pc[i] \in WorkSteps
  BY Stages DEF RotationList, PurchaseMark, PurchaseRecorded, NewIpAppears,
     GiveUpEarly, MainMark, Mark, Move, Untouched
<1>2. /\ Ongoing(i, o) /\ Knows(i, pc[i], o) /\ o \in Operation
      /\ main = db.published /\ db.published # NewIp(i)
      /\ pc[i] # "get_ipv4_list" => db.published = OldIp(i)
  BY <1>1, RunningRow, Stages DEF Knows
<1>3. /\ pc[i] \in {"purchased", "wait_new_ipv4", "main_mark"} =>
           NewIp(i) \in owned
      /\ pc[i] \in {"purchased", "purchase_lost", "wait_new_ipv4",
                    "main_mark"} => o.purchase # "NOT_STARTED"
  BY <1>2 DEF Knows, Bought, Asked
<1>4. /\ {"purchase_mark", "purchase", "wait_new_ipv4", "give_up", "main_mark",
          "make_main"} \subseteq WorkSteps \ (Moved \cup Ran \cup Published)
      /\ {"purchase_mark", "purchase", "give_up"} \cap Bought = {}
      /\ {"purchase_mark", "give_up"} \cap Asked = {} /\ "give_up" \in Unsure
  BY DEF WorkSteps, Steps, StatusSteps, InstallSteps, RebootSteps, Bought,
         Moved, Ran, Published, Asked, Unsure
<1>5. /\ {"PURCHASE_SENDING", "PURCHASE_SENT", "AMBIGUOUS",
          "PURCHASE_CONFIRMED", "MAKE_MAIN_SENDING"} \subseteq
           ActionStates \ {"RECONCILED", "WAITING_SSH", "SSH_WAIT_QUEUED"}
      /\ {"SENDING", "SENT", "AMBIGUOUS", "CONFIRMED"} \subseteq Sends
      /\ "NOT_STARTED" \in Applies
  BY DEF ActionStates, Sends, Applies
<1>6. ASSUME NEW q, q.purchase # "NOT_STARTED", db.published = OldIp(i),
             NEW to \in {"purchase_mark", "purchase", "give_up"}
      PROVE  Knows(i, to, q)
  BY <1>2, <1>4, <1>6 DEF Knows
<1>7. /\ db.published = OldIp(i) =>
           Knows(i, "purchase_mark", [o EXCEPT !.status = "RUNNING"])
      /\ Knows(i, "give_up", o)
  BY <1>2, <1>4 DEF Knows
<1>8. ASSUME NEW q, q.purchase # "NOT_STARTED",
             NEW to \in {"wait_new_ipv4", "main_mark", "make_main"},
             NewIp(i) \in owned, db.published = OldIp(i)
      PROVE  Knows(i, to, q)
  BY <1>2, <1>4, <1>8 DEF Knows
<1> USE DEF Step
<1>9. CASE RotationList(i)
  <2>1. Ongoing(i, [o EXCEPT !.status = "RUNNING"])
    BY <1>2 DEF Ongoing, Operation
  <2> QED
    BY <1>1, <1>2, <1>4, <1>7, <1>9, <2>1, WorkMark DEF RotationList, Mark
<1>10. CASE PurchaseMark(i)
  <2> DEFINE q == [[o EXCEPT !.status = "RUNNING", !.action = "PURCHASE_SENDING"]
                     EXCEPT !.purchase = "SENDING"]
  <2>1. Ongoing(i, q) /\ q.purchase = "SENDING"
    BY <1>2 DEF Ongoing, Operation
  <2>2. Mark(i, "purchase_mark", q, "purchase") /\ pc[i] = "purchase_mark"
    BY <1>10 DEF PurchaseMark, Mark
  <2> HIDE DEF q
  <2> QED
    BY <1>1, <1>2, <1>4, <1>6, <2>1, <2>2, WorkMark
<1>11. CASE PurchaseRecorded(i)
  <2> DEFINE q == [o EXCEPT !.action = "PURCHASE_SENT", !.purchase = "SENT"]
             r == [o EXCEPT !.action = "AMBIGUOUS", !.purchase = "AMBIGUOUS"]
  <2>1. /\ Ongoing(i, q) /\ q.purchase = "SENT"
        /\ Ongoing(i, r) /\ r.purchase = "AMBIGUOUS"
    BY <1>2 DEF Ongoing, Operation
  <2>2. \/ Mark(i, "purchased", q, "wait_new_ipv4") /\ pc[i] = "purchased"
        \/ Mark(i, "purchase_lost", r, "give_up") /\ pc[i] = "purchase_lost"
    BY <1>11 DEF PurchaseRecorded, Mark
  <2> HIDE DEF q, r
  <2> QED
    BY <1>1, <1>2, <1>3, <1>4, <1>6, <1>8, <2>1, <2>2, WorkMark
<1>12. CASE NewIpAppears(i)
  <2> DEFINE q == [[o EXCEPT !.status = "RUNNING",
                             !.action = "PURCHASE_CONFIRMED"]
                     EXCEPT !.purchase = "CONFIRMED"]
  <2>1. Ongoing(i, q) /\ q.purchase = "CONFIRMED"
    BY <1>2 DEF Ongoing, Operation
  <2>2. Mark(i, "wait_new_ipv4", q, "main_mark") /\ pc[i] = "wait_new_ipv4"
    BY <1>12 DEF NewIpAppears, Mark
  <2> HIDE DEF q
  <2> QED
    BY <1>1, <1>2, <1>3, <1>4, <1>8, <2>1, <2>2, WorkMark
<1>13. CASE MainMark(i)
  <2> DEFINE q == [[o EXCEPT !.status = "RUNNING",
                             !.action = "MAKE_MAIN_SENDING"]
                     EXCEPT !.main = "SENDING"]
  <2>1. Ongoing(i, q) /\ q.purchase = o.purchase
    BY <1>2 DEF Ongoing, Operation
  <2>2. Mark(i, "main_mark", q, "make_main") /\ pc[i] = "main_mark"
    BY <1>13 DEF MainMark, Mark
  <2> HIDE DEF q
  <2> QED
    BY <1>1, <1>2, <1>3, <1>4, <1>8, <2>1, <2>2, WorkMark
<1>14. CASE GiveUpEarly(i)
  <2>1. Goto(i, "give_up") /\ UNCHANGED db /\ Still
    BY <1>14 DEF GiveUpEarly, Move, Quietly, world, Still
  <2> QED
    BY <1>1, <1>4, <1>7, <2>1, WorkMove
<1> QED
  BY <1>9, <1>10, <1>11, <1>12, <1>13, <1>14

\* From there on, until the new address is published.
LEMMA MainHonest ==
  ASSUME IInv, RInv, NEW i \in Ops, IsRotation(db, i),
         \/ MainRecorded(i) \/ ConfirmMain(i) \/ ApplyMark(i) \/ Apply(i)
         \/ ApplyEnds(i) \/ ApplyRecorded(i) \/ Health(i) \/ GiveUpLate(i)
  PROVE  Honest
<1> DEFINE o == db.op[i]
<1>1. /\ pc[i] \in {"main_changed", "main_lost", "confirm_main"} \cup Moved
                   \cup Ran \cup {"apply_failed", "apply_lost"}
      /\ pc[i] \in Unpublished \ Unsure /\ pc[i] \in WorkSteps
  BY Stages DEF MainRecorded, ConfirmMain, ApplyMark, Apply, ApplyEnds,
     ApplyRecorded, Health, GiveUpLate, Mark, Move, Moved, Ran, Bought, Unsure
<1>2. /\ Ongoing(i, o) /\ Knows(i, pc[i], o) /\ o \in Operation
      /\ db.published = OldIp(i) /\ db.published # NewIp(i)
      /\ main = db.published \/ o.purchase # "NOT_STARTED"
  BY <1>1, RunningRow DEF Knows
<1>3. /\ {"confirm_main", "undo", "wait_ssh", "apply", "apply_wait", "applied",
          "apply_failed", "apply_lost", "health", "publish"} \subseteq
           WorkSteps \ (Untouched \cup Published \cup Asked \cup Unsure)
      /\ {"undo", "apply_failed", "apply_lost"} \cap
           (Bought \cup Moved \cup Ran) = {}
      /\ "confirm_main" \notin Moved \cup Ran
      /\ {"wait_ssh", "apply", "apply_wait"} \cap Ran = {}
  BY DEF WorkSteps, Steps, StatusSteps, InstallSteps, RebootSteps, Untouched,
         Bought, Moved, Ran, Published, Asked, Unsure
<1>4. /\ {"AMBIGUOUS", "MAIN_CHANGED", "MAIN_CONFIRMED", "APPLYING", "APPLIED",
          "APPLY_FAILED"} \subseteq
           ActionStates \ {"RECONCILED", "WAITING_SSH", "SSH_WAIT_QUEUED"}
      /\ {"SENDING", "SENT", "AMBIGUOUS", "CONFIRMED"} \subseteq Sends
      /\ {"RUNNING", "APPLIED", "FAILED", "AMBIGUOUS"} \subseteq Applies
  BY DEF ActionStates, Sends, Applies
<1>5. ASSUME NEW q, q.purchase = o.purchase,
             NEW to \in {"undo", "apply_failed", "apply_lost"}
      PROVE  Knows(i, to, q)
  BY <1>2, <1>3, <1>5 DEF Knows
<1>6. ASSUME NEW q, q.purchase = o.purchase, NewIp(i) \in owned
      PROVE  Knows(i, "confirm_main", q)
  BY <1>2, <1>3, <1>6 DEF Knows
<1>7. ASSUME NEW q, q.purchase = o.purchase, NewIp(i) \in owned,
             main = NewIp(i), NEW to \in {"wait_ssh", "apply", "apply_wait"}
      PROVE  Knows(i, to, q)
  BY <1>2, <1>3, <1>7 DEF Knows
<1>8. ASSUME NEW q, q.purchase = o.purchase, NewIp(i) \in owned,
             main = NewIp(i), script[i].state = "ok",
             NEW to \in {"applied", "health", "publish"}
      PROVE  Knows(i, to, q)
  BY <1>2, <1>3, <1>8 DEF Knows
<1>9. /\ pc[i] \in {"main_changed", "confirm_main"} => NewIp(i) \in owned
      /\ pc[i] \in Moved \cup Ran => NewIp(i) \in owned /\ main = NewIp(i)
      /\ pc[i] \in Ran => script[i].state = "ok"
  BY <1>2 DEF Knows, Bought
<1> USE DEF Step
<1>10. CASE MainRecorded(i)
  <2> DEFINE q == [o EXCEPT !.action = "MAIN_CHANGED", !.main = "SENT"]
             r == [o EXCEPT !.action = "AMBIGUOUS", !.main = "AMBIGUOUS"]
  <2>1. /\ Ongoing(i, q) /\ q.purchase = o.purchase
        /\ Ongoing(i, r) /\ r.purchase = o.purchase
    BY <1>2 DEF Ongoing, Operation
  <2>2. \/ Mark(i, "main_changed", q, "confirm_main") /\ pc[i] = "main_changed"
        \/ Mark(i, "main_lost", r, "undo") /\ pc[i] = "main_lost"
    BY <1>10 DEF MainRecorded, Mark
  <2> HIDE DEF q, r
  <2> QED
    BY <1>1, <1>3, <1>5, <1>6, <1>9, <2>1, <2>2, WorkMark
<1>11. CASE ConfirmMain(i)
  <2> DEFINE q == [[o EXCEPT !.status = "RUNNING", !.action = "MAIN_CONFIRMED"]
                     EXCEPT !.main = "CONFIRMED"]
  <2>1. Ongoing(i, q) /\ q.purchase = o.purchase
    BY <1>2 DEF Ongoing, Operation
  <2>2. /\ Mark(i, "confirm_main", q, "wait_ssh") /\ pc[i] = "confirm_main"
        /\ main = NewIp(i)
    BY <1>11 DEF ConfirmMain, Mark
  <2> HIDE DEF q
  <2> QED
    BY <1>1, <1>3, <1>7, <1>9, <2>1, <2>2, WorkMark
<1>12. CASE ApplyMark(i)
  <2> DEFINE q == [[o EXCEPT !.status = "RUNNING", !.action = "APPLYING"]
                     EXCEPT !.apply = "RUNNING"]
  <2>1. Ongoing(i, q) /\ q.purchase = o.purchase
    BY <1>2 DEF Ongoing, Operation
  <2>2. Mark(i, "wait_ssh", q, "apply") /\ pc[i] \in Moved
        /\ pc[i] = "wait_ssh"
    BY <1>12 DEF ApplyMark, Mark, Moved
  <2> HIDE DEF q
  <2> QED
    BY <1>1, <1>3, <1>7, <1>9, <2>1, <2>2, WorkMark
<1>13. CASE Apply(i)
  <2>1. /\ Goto(i, "apply_wait") /\ UNCHANGED <<db, vps, owned, main, sent>>
        /\ pc[i] \in Moved
    BY <1>13 DEF Apply, Launch, Moved
  <2>2. Knows(i, "apply_wait", o) /\ "apply_wait" \notin Ran
    BY <1>3, <1>7, <1>9, <2>1
  <2>3. Knows(i, "apply_wait", db.op[i])'
    BY <2>1, <2>2 DEF Knows, OldIp, NewIp, Rev
  <2> QED
    BY <1>1, <1>3, <2>1, <2>3, WorkGo DEF RInv
<1>14. CASE ApplyEnds(i)
  <2>1. PICK to \in {"applied", "apply_failed", "apply_lost"} :
          /\ Goto(i, to) /\ UNCHANGED db /\ Still /\ pc[i] \in Moved
          /\ to = "applied" => script[i].state = "ok"
    BY <1>14 DEF ApplyEnds, Move, Quietly, world, Still, Moved
  <2>2. Knows(i, to, o)
    BY <1>5, <1>8, <1>9, <2>1
  <2> QED
    BY <1>1, <1>3, <2>1, <2>2, WorkMove
<1>15. CASE ApplyRecorded(i)
  <2> DEFINE q == [o EXCEPT !.action = "APPLIED", !.apply = "APPLIED"]
             r == [o EXCEPT !.action = "APPLY_FAILED", !.apply = "FAILED"]
             s == [o EXCEPT !.action = "AMBIGUOUS", !.apply = "AMBIGUOUS"]
  <2>1. /\ Ongoing(i, q) /\ q.purchase = o.purchase
        /\ Ongoing(i, r) /\ r.purchase = o.purchase
        /\ Ongoing(i, s) /\ s.purchase = o.purchase
    BY <1>2 DEF Ongoing, Operation
  <2>2. \/ Mark(i, "applied", q, "health") /\ pc[i] \in Ran
        \/ Mark(i, "apply_failed", r, "undo")
        \/ Mark(i, "apply_lost", s, "undo")
    BY <1>15 DEF ApplyRecorded, Mark, Ran
  <2>3. {"applied", "apply_failed", "apply_lost"} \subseteq WorkSteps
    BY <1>3
  <2> HIDE DEF q, r, s
  <2> QED
    BY <1>3, <1>5, <1>8, <1>9, <2>1, <2>2, <2>3, WorkMark
<1>16. CASE Health(i)
  <2> DEFINE q == [o EXCEPT !.status = "RUNNING"]
  <2>1. /\ Ongoing(i, q) /\ q.purchase = o.purchase
    BY <1>2 DEF Ongoing, Operation
  <2>2. Mark(i, "health", q, "publish") /\ pc[i] \in Ran
    BY <1>16 DEF Health, Mark, Ran
  <2> HIDE DEF q
  <2> QED
    BY <1>3, <1>8, <1>9, <2>1, <2>2, WorkMark
<1>17. CASE GiveUpLate(i)
  <2>1. Goto(i, "undo") /\ UNCHANGED db /\ Still
    BY <1>17 DEF GiveUpLate, Move, Quietly, world, Still
  <2> QED
    BY <1>1, <1>3, <1>5, <2>1, WorkMove
<1> QED
  BY <1>10, <1>11, <1>12, <1>13, <1>14, <1>15, <1>16, <1>17

\* publish_ip_change, as the rotation's worker sees it.
LEMMA PublishSays ==
  ASSUME IInv, NEW i \in Ops, IsRotation(db, i), Bound(i), db.desired < MaxRev
  PROVE  LET e == Publish(db, i)
             o == [db.op[i] EXCEPT !.status = "RUNNING", !.action = "PUBLISHED"]
         IN  /\ e.op = [db.op EXCEPT ![i] = o]
             /\ e.lease = db.lease /\ e.expired = db.expired
             /\ e.published = NewIp(i) /\ e.ip = NewIp(i)
             /\ e.snap[Rev(i)].body = db.snap[Rev(i)].body
<1> DEFINE r == db.op[i].rev
           o == [db.op[i] EXCEPT !.status = "RUNNING", !.action = "PUBLISHED"]
           e == Publish(db, i)
<1>1. /\ db \in Database /\ db.op \in [Ops -> Operation]
      /\ db.snap \in [Revs -> Snapshot] /\ r \in Revs /\ r \in Nat
  BY Fields, Bounds DEF IInv, DbInv, Bound, Rev
<1>2. /\ e.op = [db.op EXCEPT ![i] = o] /\ e.lease = db.lease
      /\ e.expired = db.expired /\ e.published = NewIp(i) /\ e.ip = NewIp(i)
  <2>1. e.op = [db.op EXCEPT ![i] = o]
    BY <1>1 DEF Publish, PurgeDeleted, Database
  <2>2. e.lease = db.lease /\ e.expired = db.expired
    BY <1>1 DEF Publish, PurgeDeleted, Database
  <2>3. e.published = NewIp(i) /\ e.ip = NewIp(i)
    BY <1>1 DEF Publish, PurgeDeleted, Database
  <2> QED
    BY <2>1, <2>2, <2>3
<1>3. e.snap[r].body = db.snap[r].body
  <2>1. e.snap = [db.snap EXCEPT ![r + 1] = [life |-> "APPLIED",
                                             body |-> [db.snap[r].body EXCEPT
                                                         !.ip = NewIp(i)]],
                                 ![r].life = "APPLIED"]
    BY <1>1 DEF Publish, PurgeDeleted, Database
  <2> DEFINE s == [life |-> "APPLIED",
                   body |-> [db.snap[r].body EXCEPT !.ip = NewIp(i)]]
             f == [db.snap EXCEPT ![r + 1] = s]
             x == db.snap[r]
  <2>2. e.snap = [f EXCEPT ![r] = [f[r] EXCEPT !.life = "APPLIED"]]
    BY <2>1
  <2>3. f[r] = x /\ r \in DOMAIN f
    BY <1>1
  <2>4. x \in Snapshot
    BY <1>1
  <2> HIDE DEF e, f, s, x, r
  <2>5. e.snap[r] = [x EXCEPT !.life = "APPLIED"]
    BY <2>2, <2>3
  <2> QED
    BY <2>4, <2>5 DEF Snapshot, x
<1> QED
  BY <1>2, <1>3 DEF Rev

\* The publication, the clean-up, and the way back.
LEMMA EndingHonest ==
  ASSUME IInv, RInv, NEW i \in Ops, IsRotation(db, i),
         \/ PublishIp(i) \/ CleanupMark(i) \/ CleanupRecorded(i)
         \/ RotationDone(i) \/ UndoMark(i) \/ UnmakeMainRefused(i)
         \/ UndoRecorded(i) \/ GiveUp(i)
  PROVE  Honest
<1> DEFINE o == db.op[i]
<1>1. /\ pc[i] \in {"publish", "undo", "unmake_main", "undone", "undo_lost",
                    "give_up"} \cup Published
      /\ pc[i] \in WorkSteps
      /\ {"publish", "undo", "unmake_main", "undone", "undo_lost"}
           \subseteq Unpublished \ Unsure
      /\ "give_up" \in Unpublished
  BY Stages DEF PublishIp, CleanupMark, CleanupRecorded, RotationDone, UndoMark,
     UnmakeMainRefused, UndoRecorded, GiveUp, Mark, Move, Finish, Published,
     Ran, Untouched, Unsure
<1>2. /\ Ongoing(i, o) /\ Knows(i, pc[i], o) /\ o \in Operation
      /\ main = db.published \/ o.purchase # "NOT_STARTED"
      /\ pc[i] \in Unpublished => db.published # NewIp(i)
      /\ pc[i] \in Unpublished \ Unsure => db.published = OldIp(i)
      /\ pc[i] \in Published =>
           db.published = NewIp(i) /\ main = NewIp(i) /\ OldIp(i) # NewIp(i)
  BY <1>1, RunningRow DEF Knows
<1>3. /\ {"unmake_main", "undo_lost", "give_up"} \subseteq
           WorkSteps \ (Untouched \cup Bought \cup Moved \cup Ran \cup Asked
                         \cup Published)
      /\ "give_up" \in Unsure
      /\ {"finish_awg", "cleanup_mark", "cleanup", "finish", "finish_unclear"}
           \subseteq Published
      /\ Published \subseteq
           WorkSteps \ (Untouched \cup Bought \cup Moved \cup Ran \cup Asked
                         \cup Unpublished \cup {"give_up"})
  BY DEF WorkSteps, Steps, StatusSteps, InstallSteps, RebootSteps, Untouched,
         Bought, Moved, Ran, Published, Unpublished, Asked, Unsure
<1>4. ASSUME NEW q, NEW to \in Published, pc[i] \in Published
      PROVE  Knows(i, to, q)
  BY <1>2, <1>3, <1>4 DEF Knows
<1>5. ASSUME NEW q, q.purchase = o.purchase, pc[i] \in Unpublished \ Unsure,
             NEW to \in {"unmake_main", "undo_lost"}
      PROVE  Knows(i, to, q)
  BY <1>2, <1>3, <1>5 DEF Knows
<1>6. ASSUME NEW q, q.purchase = o.purchase, pc[i] \in Unpublished,
             main = db.published \/ q.action = "AMBIGUOUS"
      PROVE  Knows(i, "give_up", q)
  BY <1>2, <1>3, <1>6 DEF Knows
<1>7. CASE PublishIp(i)
  <2> DEFINE q == [o EXCEPT !.status = "RUNNING", !.action = "PUBLISHED"]
  <2>1. /\ pc[i] = "publish" /\ Bound(i) /\ db.desired < MaxRev
        /\ db' = Publish(db, i) /\ Still /\ pc[i] \in Ran
    BY <1>7 DEF PublishIp, Quietly, world, Still, Ran
  <2>2. PICK to \in {"finish_awg", "cleanup_mark"} : Goto(i, to)
    BY <1>7 DEF PublishIp
  <2>3. /\ db'.op = [db.op EXCEPT ![i] = q]
        /\ db'.lease = db.lease /\ db'.expired = db.expired
        /\ db'.published = NewIp(i) /\ db'.ip = NewIp(i)
        /\ db'.snap[Rev(i)].body = db.snap[Rev(i)].body
    BY <2>1, PublishSays
  <2>4. db.op \in [Ops -> Operation] /\ pc \in [Ops -> Steps] /\ ~db.expired
    BY Fields DEF IInv, TypeOK, RInv, Leased
  <2>5. /\ Elsewhere(i) /\ pc'[i] = to /\ db'.op[i] = q
    BY <2>2, <2>3, <2>4 DEF Elsewhere, Goto
  <2>6. Verified(i) /\ NewIp(i) \in owned /\ db.published = OldIp(i)
        /\ db.published # NewIp(i)
    BY <1>1, <1>2, <2>1 DEF Knows, Verified
  <2>7. /\ q.kind = "IP_CHANGE" /\ q.rev = Rev(i) /\ q.status = "RUNNING"
        /\ q.action = "PUBLISHED" /\ q.purchase = o.purchase
    BY <1>2 DEF Ongoing, Operation
  <2> HIDE DEF q
  <2>8. OldIp(i)' = OldIp(i)
    BY <2>3, <2>5, <2>7 DEF OldIp, Rev
  <2>9. Course(i)'
    <3>1. main' = main /\ owned' = owned /\ script' = script
      BY <2>1 DEF Still
    <3>2. to \in Published
      BY <1>3
    <3>3. NewIp(i) # OldIp(i) /\ main = NewIp(i)
      BY <2>6 DEF Verified
    <3> QED
      BY <1>3, <2>3, <2>5, <2>8, <3>1, <3>2, <3>3 DEF Course, Knows, NewIp
  <2>10. /\ IsRotation(db', i) /\ Active(db', i)
         /\ db'.op[i].action \notin {"RECONCILED", "WAITING_SSH",
                                     "SSH_WAIT_QUEUED"}
    BY <2>5, <2>7 DEF IsRotation, Active
  <2>11. db'.published \in owned' /\ ~db'.expired /\ pc'[i] \in WorkSteps
    BY <1>3, <2>1, <2>3, <2>4, <2>5, <2>6 DEF Still
  <2> QED
    BY <1>1, <2>3, <2>5, <2>6, <2>9, <2>10, <2>11, RotationStep
<1>8. CASE CleanupMark(i)
  <2> DEFINE q == Step(i, "CLEANUP_SENDING")
  <2>1. Ongoing(i, q)
    BY <1>2 DEF Ongoing, Operation, Step
  <2>2. Mark(i, "cleanup_mark", q, "cleanup") /\ pc[i] = "cleanup_mark"
    BY <1>8 DEF CleanupMark, Mark
  <2> HIDE DEF q
  <2> QED
    BY <1>3, <1>4, <2>1, <2>2, WorkMark
<1>9. CASE CleanupRecorded(i)
  <2> DEFINE q == [o EXCEPT !.action = "CLEANUP_CONFIRMED"]
             r == [o EXCEPT !.action = "CLEANUP_AMBIGUOUS"]
  <2>1. Ongoing(i, q) /\ Ongoing(i, r)
    BY <1>2 DEF Ongoing, Operation
  <2>2. /\ \/ Mark(i, "cleaned", q, "finish")
           \/ Mark(i, "cleanup_lost", r, "finish_unclear")
        /\ pc[i] \in Published
    BY <1>9 DEF CleanupRecorded, Mark, Published
  <2>3. {"cleaned", "cleanup_lost"} \subseteq WorkSteps
    BY <1>3 DEF Published
  <2> HIDE DEF q, r
  <2> QED
    BY <1>3, <1>4, <2>1, <2>2, <2>3, WorkMark
<1>10. CASE RotationDone(i)
  <2>1. PICK from \in Published, a \in {"DONE", "PUBLISHED_AWAITING_AWG_CHECK",
                                        "CLEANUP_AMBIGUOUS"} :
          Finish(i, from, Done(i, a)) /\ pc[i] = from
    BY <1>3, <1>10 DEF RotationDone, Finish
  <2>2. Done(i, a).kind = "IP_CHANGE" /\ Done(i, a).status = "DONE"
    BY <1>2 DEF Done, Ongoing, Operation
  <2>3. main = db.published /\ from \in WorkSteps
    BY <1>2, <1>3, <2>1
  <2> QED
    BY <2>1, <2>2, <2>3, WorkFinish
<1>11. CASE UndoMark(i)
  <2> DEFINE q == [o EXCEPT !.action = "ROLLING_BACK"]
  <2>1. Ongoing(i, q) /\ q.purchase = o.purchase
    BY <1>2 DEF Ongoing, Operation
  <2>2. Mark(i, "undo", q, "unmake_main") /\ pc[i] = "undo"
    BY <1>11 DEF UndoMark, Mark
  <2> HIDE DEF q
  <2> QED
    BY <1>1, <1>3, <1>5, <2>1, <2>2, WorkMark
<1>12. CASE UnmakeMainRefused(i)
  <2>1. /\ Goto(i, "undo_lost") /\ UNCHANGED db /\ Still
        /\ pc[i] = "unmake_main"
    BY <1>12 DEF UnmakeMainRefused, Move, Quietly, world, Still
  <2> QED
    BY <1>1, <1>3, <1>5, <2>1, WorkMove
<1>13. CASE UndoRecorded(i)
  <2> DEFINE q == [o EXCEPT !.action = "ROLLED_BACK"]
             r == [o EXCEPT !.action = "AMBIGUOUS"]
  <2>1. /\ Ongoing(i, q) /\ q.purchase = o.purchase
        /\ Ongoing(i, r) /\ r.purchase = o.purchase /\ r.action = "AMBIGUOUS"
    BY <1>2 DEF Ongoing, Operation
  <2>2. \/ Mark(i, "undone", q, "give_up") /\ pc[i] = "undone"
        \/ Mark(i, "undo_lost", r, "give_up") /\ pc[i] = "undo_lost"
    BY <1>13 DEF UndoRecorded, Mark
  <2>3. pc[i] = "undone" => main = db.published
    BY <1>2 DEF Knows, Untouched
  <2> HIDE DEF q, r
  <2> QED
    BY <1>1, <1>3, <1>6, <2>1, <2>2, <2>3, WorkMark
<1>14. CASE GiveUp(i)
  <2> DEFINE q == Verdict(o)
  <2>1. Finish(i, "give_up", q) /\ pc[i] = "give_up"
    BY <1>14 DEF GiveUp, Finish
  <2>2. main = db.published \/ o.action = "AMBIGUOUS"
    BY <1>2, <2>1 DEF Knows
  <2>3. /\ q.kind = "IP_CHANGE" /\ q.status \in {"FAILED", "AMBIGUOUS"}
        /\ \/ main = db.published
           \/ q.status = "AMBIGUOUS" /\ q.action # "RECONCILED"
    BY <1>2, <2>2 DEF Verdict, Ongoing, Operation
  <2> HIDE DEF q
  <2> QED
    BY <1>3, <2>1, <2>3, WorkFinish
<1> QED
  BY <1>7, <1>8, <1>9, <1>10, <1>11, <1>12, <1>13, <1>14

\* A purchase, a new main address, a clean-up, and the way back.
LEMMA ProviderHonest ==
  ASSUME IInv, RInv, NEW i \in Ops, IsRotation(db, i),
         Purchase(i) \/ MakeMain(i) \/ Cleanup(i) \/ UnmakeMain(i)
  PROVE  Honest
<1> DEFINE o == db.op[i]
<1>1. /\ pc[i] \in {"purchase", "make_main", "cleanup", "unmake_main"}
      /\ UNCHANGED <<db, script>> /\ db.published \in owned
  BY DEF Purchase, MakeMain, Cleanup, UnmakeMain, Request, RInv
<1>2. /\ pc[i] \in WorkSteps
      /\ pc[i] # "cleanup" => pc[i] \in Unpublished \ Unsure
  BY <1>1 DEF WorkSteps, Steps, StatusSteps, InstallSteps, RebootSteps,
              Unpublished, Published, Unsure
<1>3. Knows(i, pc[i], o)
  BY <1>2, RunningRow
<1>4. \A to : Knows(i, to, db.op[i])' <=>
        /\ main' = db.published \/ o.purchase # "NOT_STARTED"
        /\ to \in Asked => o.purchase # "NOT_STARTED"
        /\ to \in Unpublished => db.published # NewIp(i)
        /\ to \in Unpublished \ Unsure => db.published = OldIp(i)
        /\ to \in Untouched => main' = db.published
        /\ to = "give_up" => main' = db.published \/ o.action = "AMBIGUOUS"
        /\ to \in Bought \cup Moved \cup Ran => NewIp(i) \in owned'
        /\ to \in Moved \cup Ran => main' = NewIp(i)
        /\ to \in Ran => script[i].state = "ok"
        /\ to \in Published =>
             db.published = NewIp(i) /\ main' = NewIp(i) /\ OldIp(i) # NewIp(i)
  BY <1>1 DEF Knows, OldIp, NewIp, Rev
<1>5. /\ {"purchased", "purchase_lost", "main_changed", "main_lost", "cleaned",
          "cleanup_lost", "undone", "undo_lost"} \subseteq
           WorkSteps \ (Moved \cup Ran \cup {"give_up"})
      /\ {"purchased", "purchase_lost", "main_changed", "main_lost", "undone",
          "undo_lost"} \cap Published = {}
      /\ {"cleaned", "cleanup_lost"} \subseteq Published
      /\ Published \cap (Unpublished \cup Untouched \cup Bought \cup Asked) = {}
      /\ {"main_changed", "main_lost", "undo_lost"} \cap Untouched = {}
      /\ {"purchase_lost", "main_lost", "undone", "undo_lost"} \cap Bought = {}
      /\ {"main_changed", "main_lost", "undone", "undo_lost"} \cap Asked = {}
  BY DEF WorkSteps, Steps, StatusSteps, InstallSteps, RebootSteps, Untouched,
         Bought, Moved, Ran, Published, Unpublished, Asked
<1>6. CASE Purchase(i)
  <2>1. PICK to \in {"purchased", "purchase_lost"} :
          /\ Goto(i, to) /\ main' = main /\ owned \subseteq owned'
          /\ pc[i] = "purchase" /\ (to = "purchased" => NewIp(i) \in owned')
    BY <1>6 DEF Purchase, Request
  <2>2. /\ main = db.published /\ o.purchase # "NOT_STARTED"
        /\ db.published = OldIp(i) /\ db.published # NewIp(i)
    BY <1>2, <1>3, <2>1 DEF Knows, Untouched, Asked
  <2>3. Knows(i, to, db.op[i])'
    BY <1>4, <1>5, <2>1, <2>2
  <2> QED
    BY <1>1, <1>2, <1>5, <2>1, <2>3, WorkGo
<1>7. CASE MakeMain(i)
  <2>1. PICK to \in {"main_changed", "main_lost"} :
          Goto(i, to) /\ owned' = owned /\ pc[i] = "make_main"
    BY <1>7 DEF MakeMain, Request
  <2>2. /\ o.purchase # "NOT_STARTED" /\ NewIp(i) \in owned
        /\ db.published = OldIp(i) /\ db.published # NewIp(i)
    BY <1>2, <1>3, <2>1 DEF Knows, Bought, Asked
  <2>3. Knows(i, to, db.op[i])'
    BY <1>4, <1>5, <2>1, <2>2
  <2> QED
    BY <1>1, <1>2, <1>5, <2>1, <2>3, WorkGo
<1>8. CASE Cleanup(i)
  <2>1. PICK to \in {"cleaned", "cleanup_lost"} :
          /\ Goto(i, to) /\ main' = main /\ pc[i] = "cleanup"
          /\ owned \ {OldIp(i)} \subseteq owned'
    BY <1>8 DEF Cleanup, Request
  <2>2. db.published = NewIp(i) /\ main = NewIp(i) /\ OldIp(i) # NewIp(i)
    BY <1>3, <2>1 DEF Knows, Published
  <2>3. Knows(i, to, db.op[i])' /\ db.published \in owned'
    BY <1>1, <1>4, <1>5, <2>1, <2>2
  <2> QED
    BY <1>1, <1>2, <1>5, <2>1, <2>3, WorkGo
<1>9. CASE UnmakeMain(i)
  <2>1. PICK to \in {"undone", "undo_lost"} :
          /\ Goto(i, to) /\ owned' = owned /\ main' \in {main, OldIp(i)}
          /\ pc[i] = "unmake_main" /\ (to = "undone" => main' = OldIp(i))
    BY <1>9 DEF UnmakeMain, Request
  <2>2. /\ main = db.published \/ o.purchase # "NOT_STARTED"
        /\ db.published = OldIp(i) /\ db.published # NewIp(i)
    BY <1>2, <1>3, <2>1 DEF Knows
  <2>3. Knows(i, to, db.op[i])'
    BY <1>4, <1>5, <2>1, <2>2
  <2> QED
    BY <1>1, <1>2, <1>5, <2>1, <2>3, WorkGo
<1> QED
  BY <1>6, <1>7, <1>8, <1>9

\* A transaction fails, or a connection: a person looks, or the worker turns
\* back, but not after the publication.
LEMMA RotationFaultHonest ==
  ASSUME Calm, IInv, RInv, NEW i \in Ops, RotationFaults(i)
  PROVE  Honest
<1> DEFINE o == db.op[i]
<1>1. PICK to \in {"rotation_dead", "give_up", "undo", "apply_lost",
                  "cleanup_lost"} :
        /\ Goto(i, to) /\ UNCHANGED db /\ Still
        /\ to \in {"rotation_dead", "give_up"} => pc[i] \in Untouched
        /\ to \in {"undo", "apply_lost"} =>
             pc[i] \in {"main_mark", "main_changed", "main_lost",
                        "confirm_main", "wait_ssh", "apply", "applied",
                        "apply_failed", "apply_lost", "health", "publish"}
        /\ to = "cleanup_lost" => pc[i] \in Published
  <2>1. CASE Stumble(i, {"get_ipv4_list"}, "net", "give_up")
    BY <2>1, CalmFaults DEF Untouched
  <2>2. CASE Stumble(i, {"purchase_mark", "purchased", "purchase_lost",
                         "wait_new_ipv4"}, "db", "give_up")
    BY <2>2, CalmFaults DEF Untouched
  <2>3. CASE Stumble(i, {"main_mark", "main_changed", "main_lost",
                         "confirm_main", "wait_ssh", "applied", "apply_failed",
                         "apply_lost", "health", "publish"}, "db", "undo")
    BY <2>3, CalmFaults
  <2>4. CASE Stumble(i, {"apply"}, "net", "apply_lost")
    BY <2>4, CalmFaults
  <2>5. CASE Stumble(i, {"cleanup_mark", "cleaned"}, "db", "cleanup_lost")
    BY <2>5, CalmFaults DEF Published
  <2>6. CASE Stumble(i, {"cleanup_lost", "finish", "finish_awg",
                         "finish_unclear"}, "dbLate", "undo")
    BY <2>6, CalmFaults
  <2>7. CASE Stumble(i, {"undo", "undone", "undo_lost", "give_up"}, "dbEnd",
                     "off")
    BY <2>7, CalmFaults
  <2>8. CASE Stumble(i, {"get_ipv4_list"}, "dbFirst", "rotation_dead")
    BY <2>8, CalmFaults DEF Untouched
  <2> QED
    BY <2>1, <2>2, <2>3, <2>4, <2>5, <2>6, <2>7, <2>8 DEF RotationFaults
<1>2. /\ pc[i] \in WorkSteps
      /\ to # "cleanup_lost" => pc[i] \in Unpublished
      /\ to \in {"undo", "apply_lost"} => pc[i] \in Unpublished \ Unsure
  BY <1>1, Stages DEF WorkSteps, Steps, StatusSteps, InstallSteps, RebootSteps,
                      Unpublished, Published, Unsure
<1>3. Knows(i, pc[i], o)
  BY <1>2, RunningRow
<1>4. /\ {"rotation_dead", "give_up", "undo", "apply_lost"} \subseteq
           WorkSteps \ (Untouched \cup Bought \cup Moved \cup Ran \cup Asked
                         \cup Published)
      /\ {"rotation_dead", "give_up"} \subseteq Unsure
      /\ "cleanup_lost" \in Published
      /\ Published \subseteq
           WorkSteps \ (Untouched \cup Bought \cup Moved \cup Ran \cup Asked
                         \cup Unpublished \cup {"give_up"})
  BY DEF WorkSteps, Steps, StatusSteps, InstallSteps, RebootSteps, Untouched,
         Bought, Moved, Ran, Published, Unpublished, Asked, Unsure
<1>5. Knows(i, to, o)
  BY <1>1, <1>2, <1>3, <1>4 DEF Knows
<1> QED
  BY <1>1, <1>2, <1>4, <1>5, WorkMove

\* run_ip_change, with Aeza.
LEMMA RotationHonest ==
  ASSUME IInv, RInv, NEW i \in Ops, Rotation(i)
  PROVE  Honest
BY PurchaseHonest, MainHonest, EndingHonest, ProviderHonest DEF Rotation

-----------------------------------------------------------------------------
(***************************************************************************)
(* The scripts, the administrators and the process.                        *)
(***************************************************************************)
\* A script that ends was not one that had been checked.
LEMMA ScriptHonest ==
  ASSUME IInv, RInv, NEW i \in Ops, ScriptEnds(i)
  PROVE  Honest
<1>1. /\ UNCHANGED <<db, pc, owned, main>> /\ script[i].state = "running"
      /\ \A j \in Ops \ {i} : script'[j] = script[j]
  BY DEF ScriptEnds, IInv, TypeOK
<1>2. ASSUME NEW j \in Ops, pc[j] \in WorkSteps PROVE Course(j)'
  <2>1. Knows(j, pc[j], db.op[j])
    BY <1>2, RunningRow
  <2>2. pc[j] \in Ran => script'[j].state = "ok"
    BY <1>1, <2>1 DEF Knows
  <2> QED
    BY <1>1, <2>1, <2>2 DEF Knows, Course, OldIp, NewIp, Rev
<1>3. \A j \in Ops : (Open(j)' <=> Open(j)) /\ (Written(j)' <=> Written(j))
  BY <1>1 DEF Open, Settled, Written
<1> QED
  BY <1>1, <1>2, <1>3 DEF Honest, RInv, Leased, NewIp

\* An operation begins when no other is left: the lease is free.
LEMMA BeginSays ==
  ASSUME IInv, RInv, NEW i \in Ops, NEW kind \in Kinds \ {"none"}, NEW rev,
         NEW step, NEW d \in Database,
         d.op = db.op /\ d.lease = db.lease /\ d.expired = db.expired,
         Begin(i, kind, step, CreateOperation(d, i, kind, rev))
  PROVE  /\ \A j \in Ops : pc[j] = "off" /\ ~Active(db, j)
         /\ db'.op = [db.op EXCEPT ![i] = NoOperation(kind, rev)]
         /\ db'.lease = i /\ ~db'.expired
         /\ db'.published = d.published /\ db'.snap = d.snap
         /\ Still /\ Goto(i, step) /\ db.op[i].kind = "none"
<1>1. db.lease = 0 /\ ~db.expired
  BY DEF Begin, CanAcquire, RInv, Leased
<1>2. \A j \in Ops : pc[j] = "off" /\ ~Active(db, j)
  BY <1>1, Bounds DEF RInv, Leased, Ops
<1> DEFINE e == [d EXCEPT !.op[i] = NoOperation(kind, rev)]
<1>3. /\ e.lease = 0 /\ e.op = [db.op EXCEPT ![i] = NoOperation(kind, rev)]
      /\ e.published = d.published /\ e.snap = d.snap
  BY <1>1 DEF Database
<1>4. CreateOperation(d, i, kind, rev) = [e EXCEPT !.lease = i, !.expired = FALSE]
  BY <1>3 DEF CreateOperation, Acquire
<1>5. e = [d EXCEPT !.op = e.op]
  BY DEF Database
<1>6. LET f == [e EXCEPT !.lease = i, !.expired = FALSE]
      IN  /\ f.lease = i /\ ~f.expired
          /\ f.op = e.op /\ f.published = d.published /\ f.snap = d.snap
  BY <1>5 DEF Database
<1> HIDE DEF e
<1>7. /\ db'.op = e.op /\ db'.lease = i /\ ~db'.expired
      /\ db'.published = d.published /\ db'.snap = d.snap
  BY <1>4, <1>6 DEF Begin
<1> QED
  BY <1>2, <1>3, <1>7 DEF Begin, NextId, Quietly, Still, world

\* It is then the one that runs.
LEMMA Started ==
  ASSUME IInv, RInv, NEW i \in Ops, NEW kind \in Kinds \ {"none"}, NEW rev,
         NEW step \in Steps \ {"off"}, NEW d \in Database,
         d.op = db.op /\ d.lease = db.lease /\ d.expired = db.expired,
         d.published = db.published,
         Begin(i, kind, step, CreateOperation(d, i, kind, rev)),
         step \in StatusSteps => kind = "STATUS",
         step \in WorkSteps => step = "get_ipv4_list" /\ kind = "IP_CHANGE",
         kind = "IP_CHANGE" => \A j \in Ops : ~Open(j)
  PROVE  Honest
<1>0. /\ \A j \in Ops : pc[j] = "off" /\ ~Active(db, j)
      /\ db'.op = [db.op EXCEPT ![i] = NoOperation(kind, rev)]
      /\ db'.lease = i /\ ~db'.expired
      /\ db'.published = d.published /\ db'.snap = d.snap
      /\ Still /\ Goto(i, step) /\ db.op[i].kind = "none"
  BY BeginSays, Zenon
<1> DEFINE o == NoOperation(kind, rev)
<1>1. /\ \A j \in Ops : pc[j] = "off" /\ ~Active(db, j)
      /\ db'.op = [db.op EXCEPT ![i] = o]
      /\ db'.lease = i /\ ~db'.expired
      /\ db'.published = db.published /\ db'.snap = d.snap
      /\ Still /\ Goto(i, step) /\ db.op[i].kind = "none"
  BY <1>0
<1>2. /\ o.kind = kind /\ o.rev = rev /\ o.status = "PENDING"
      /\ o.action = "NOT_STARTED"
  BY DEF NoOperation
<1> HIDE DEF o
<1>3. /\ db.op \in [Ops -> Operation] /\ pc \in [Ops -> Steps]
  BY Fields DEF IInv, TypeOK
<1>4. /\ Elsewhere(i) /\ pc'[i] = step /\ db'.op[i] = o
      /\ UNCHANGED <<script, owned, main>>
  BY <1>1, <1>3 DEF Elsewhere, Goto, Still
<1> HIDE DEF o
<1>5. Leased'
  BY <1>1, <1>2, <1>4 DEF Leased, Elsewhere, Active
<1>6. ~IsRotation(db, i) /\ ~Open(i)
  BY <1>1 DEF IsRotation, Open
<1>7. \A j \in Ops \ {i} : Open(j)' <=> Open(j)
  BY <1>4 DEF Open, Settled, Elsewhere, IsRotation
<1>8. ASSUME NEW j \in Ops PROVE Written(j)'
  <2>1. CASE j = i
    BY <1>2, <1>4, <2>1 DEF Written, IsRotation
  <2>2. CASE j # i
    BY <1>4, <2>2 DEF RInv, Written, Elsewhere, IsRotation, Active
  <2> QED
    BY <2>1, <2>2
<1>9. /\ Open(i)' => kind = "IP_CHANGE"
      /\ kind = "IP_CHANGE" => Open(i)'
  BY <1>2, <1>4 DEF Open, IsRotation, Settled
<1>10. \A j, k \in Ops : Open(j)' /\ Open(k)' => j = k
  BY <1>7, <1>9 DEF RInv
<1>11. (\A j \in Ops : ~Open(j)') => main' = db'.published
  BY <1>1, <1>4, <1>6, <1>7 DEF RInv
<1>12. /\ db'.published # NewIp(i)
       /\ \A j \in Ops : db'.published = NewIp(j) => IsRotation(db', j)
  BY <1>1, <1>4, <1>6 DEF RInv, Elsewhere, IsRotation
<1>13. ASSUME NEW j \in Ops, pc'[j] \in WorkSteps PROVE Course(j)'
  <2>1. j = i /\ step = "get_ipv4_list" /\ kind = "IP_CHANGE"
    BY <1>1, <1>4, <1>13 DEF Elsewhere, WorkSteps
  <2>2. main = db.published
    BY <2>1 DEF RInv
  <2>3. "get_ipv4_list" \notin Asked \cup Bought \cup Moved \cup Ran \cup Published
        /\ "get_ipv4_list" \in Unsure
    BY DEF Asked, Bought, Moved, Ran, Published, Unsure
  <2> QED
    BY <1>1, <1>4, <1>12, <2>1, <2>2, <2>3 DEF Course, Knows, NewIp
<1> QED
  BY <1>1, <1>4, <1>5, <1>8, <1>10, <1>11, <1>12, <1>13
     DEF Honest, RInv, NewIp

\* The desired revision gets a snapshot, and nothing else changes.
LEMMA EnsureSays ==
  ASSUME IInv, NEW again \in BOOLEAN
  PROVE  LET e == EnsureSnapshot(db, again)
         IN  /\ e \in Database /\ e.op = db.op /\ e.lease = db.lease
             /\ e.expired = db.expired /\ e.published = db.published
<1> DEFINE e == EnsureSnapshot(db, again)
           s == [life |-> "PREPARED", body |-> Content(db)]
<1>1. /\ db \in Database /\ db.snap \in [Revs -> Snapshot]
      /\ db.desired \in Revs /\ e \in Database
  BY Fields, EnsureKeeps DEF IInv, DbInv
<1>3. CASE db.snap[db.desired].life = "none"
  <2>1. e = [db EXCEPT !.snap[db.desired] = s]
    BY <1>3 DEF EnsureSnapshot
  <2>2. /\ e.op = db.op /\ e.lease = db.lease /\ e.expired = db.expired
        /\ e.published = db.published
    BY <1>1, <2>1 DEF Database
  <2> QED
    BY <1>1, <2>2
<1>4. CASE /\ db.snap[db.desired].life # "none"
           /\ again /\ db.snap[db.desired].life = "FAILED"
  <2>1. e = [db EXCEPT !.snap[db.desired].life = "PREPARED"]
    BY <1>4 DEF EnsureSnapshot
  <2>2. /\ e.op = db.op /\ e.lease = db.lease /\ e.expired = db.expired
        /\ e.published = db.published
    BY <1>1, <2>1 DEF Database
  <2> QED
    BY <1>1, <2>2
<1>5. CASE /\ db.snap[db.desired].life # "none"
           /\ ~(again /\ db.snap[db.desired].life = "FAILED")
  <2>1. e = db
    BY <1>5 DEF EnsureSnapshot
  <2> QED
    BY <1>1, <2>1
<1> QED
  BY <1>3, <1>4, <1>5

\* A rotation begins only when every other is settled.
LEMMA NoneOpen ==
  ASSUME IInv, RInv, CanRotate(db, 0), \A j \in Ops : ~Active(db, j), NEW j \in Ops
  PROVE  ~Open(j)
<1>1. /\ ~Unresolved(db, j) /\ ~Undecided(db, j)
  BY Bounds DEF CanRotate, Ops
<1>2. IsRotation(db, j) => Settled(j)
  <2> SUFFICES ASSUME IsRotation(db, j) PROVE Settled(j)
    OBVIOUS
  <2>1. db.op[j].status \notin {"PENDING", "RUNNING", "none", "TIMED_OUT"}
    BY DEF RInv, Written, Active
  <2>2. db.op[j].status \in Statuses
    BY Fields DEF IInv, TypeOK, Operation
  <2> QED
    BY <1>1, <2>1, <2>2 DEF Settled, Unresolved, Statuses, Terminal
<1> QED
  BY <1>2 DEF Open

\* The four operations an administrator may start.
LEMMA StartHonest ==
  ASSUME IInv, RInv, NEW i \in Ops,
         StartInstall(i) \/ StartRotation(i) \/ StartReboot(i) \/ StartStatus(i)
  PROVE  Honest
<1>1. db \in Database
  BY DEF IInv, TypeOK
<1>2. /\ {"install", "get_ipv4_list", "reboot", "status"} \subseteq Steps \ {"off"}
      /\ {"install", "reboot", "status"} \cap WorkSteps = {}
      /\ {"install", "get_ipv4_list", "reboot"} \cap StatusSteps = {}
      /\ {"INSTALL", "IP_CHANGE", "REBOOT", "STATUS"} \subseteq Kinds \ {"none"}
  BY DEF Steps, WorkSteps, StatusSteps, InstallSteps, RebootSteps, Kinds
<1>3. CASE StartInstall(i)
  <2> DEFINE d == EnsureSnapshot(db, TRUE)
  <2>1. /\ d \in Database /\ d.op = db.op /\ d.lease = db.lease
        /\ d.expired = db.expired /\ d.published = db.published
    BY <1>3, EnsureSays DEF StartInstall
  <2>2. Begin(i, "INSTALL", "install",
              CreateOperation(d, i, "INSTALL", db.desired))
    BY <1>3 DEF StartInstall, PrepareInstall
  <2> HIDE DEF d
  <2> QED
    BY <1>2, <2>1, <2>2, Started
<1>4. CASE StartRotation(i)
  <2> DEFINE d == EnsureSnapshot(db, FALSE)
  <2>1. /\ d \in Database /\ d.op = db.op /\ d.lease = db.lease
        /\ d.expired = db.expired /\ d.published = db.published
    BY <1>4, EnsureSays DEF StartRotation
  <2>2. Begin(i, "IP_CHANGE", "get_ipv4_list",
              CreateOperation(d, i, "IP_CHANGE", db.desired))
    BY <1>4 DEF StartRotation, PrepareRotation
  <2>3. CanRotate(db, 0)
    BY <1>4 DEF StartRotation
  <2> HIDE DEF d
  <2>4. \A j \in Ops : ~Active(db, j)
    BY <1>2, <2>1, <2>2, BeginSays
  <2>5. \A j \in Ops : ~Open(j)
    BY <2>3, <2>4, NoneOpen
  <2> QED
    BY <1>2, <2>1, <2>2, <2>5, Started
<1>5. CASE StartReboot(i)
  <2>1. Begin(i, "REBOOT", "reboot", CreateOperation(db, i, "REBOOT", 0))
    BY <1>5 DEF StartReboot
  <2> QED
    BY <1>1, <1>2, <2>1, Started
<1>6. CASE StartStatus(i)
  <2>1. Begin(i, "STATUS", "status", CreateOperation(db, i, "STATUS", 0))
    BY <1>6 DEF StartStatus
  <2> QED
    BY <1>1, <1>2, <2>1, Started
<1> QED
  BY <1>3, <1>4, <1>5, <1>6

\* An edit concerns neither operations nor addresses.
LEMMA EditHonest ==
  ASSUME IInv, RInv,
         UNCHANGED <<pc, script, vps, owned, main, sent>>,
         db'.op = db.op, db'.lease = db.lease, db'.expired = db.expired,
         db'.published = db.published, db'.snap = db.snap
  PROVE  Honest
<1>1. Leased'
  BY DEF RInv, Leased, Active
<1>2. \A j \in Ops : (Open(j)' <=> Open(j)) /\ (Written(j)' <=> Written(j))
  BY DEF Open, Settled, IsRotation, Written, Active
<1>3. \A j \in Ops : Course(j)' <=> Course(j)
  BY DEF Course, Knows, OldIp, NewIp, Rev
<1> QED
  BY <1>1, <1>2, <1>3 DEF Honest, RInv, NewIp, IsRotation

\* A client is added, switched, or removed, or a setting changes.
LEMMA EditsHonest ==
  ASSUME IInv, RInv,
         \/ \E c \in Clients : AddClient(c) \/ ToggleClient(c) \/ RemoveClient(c)
         \/ ChangeSetting \/ \E a \in Addresses : ChangeAddress(a)
  PROVE  Honest
<1>1. db \in Database
  BY DEF IInv, TypeOK
<1>2. ASSUME NEW d, Edit(d), d.op = db.op, d.lease = db.lease,
             d.expired = db.expired, d.published = db.published, d.snap = db.snap
      PROVE  Honest
  BY <1>2, EditHonest DEF Edit, world
<1>3. CASE ChangeSetting
  BY <1>1, <1>2, <1>3 DEF ChangeSetting, NewRevision, Database
<1>4. ASSUME NEW c \in Clients, NEW state, Edit(SetClientEnabled(db, c, state))
      PROVE  Honest
  BY <1>1, <1>2, <1>4 DEF SetClientEnabled, NewRevision, Database
<1>5. ASSUME NEW c \in Clients, AddClient(c) \/ ToggleClient(c) PROVE Honest
  BY <1>4, <1>5 DEF AddClient, ToggleClient, CreateClient, SetClientEnabled
<1>6. ASSUME NEW c \in Clients, RemoveClient(c) PROVE Honest
  BY <1>1, <1>2, <1>6 DEF RemoveClient, DeleteClient, NewRevision, Database
<1>7. ASSUME NEW a \in Addresses, ChangeAddress(a) PROVE Honest
  BY <1>1, <1>2, <1>7 DEF ChangeAddress, SetCurrentIp, NewRevision, Database
<1> QED
  BY <1>3, <1>5, <1>6, <1>7

\* The decision on a rotation that is over: no other runs meanwhile, and the
\* published address is the main one again.
LEMMA ReconcileHonest ==
  ASSUME IInv, RInv, NEW i \in Ops, Reconcile(i)
  PROVE  Honest
<1> DEFINE o == [db.op[i] EXCEPT !.action = "RECONCILED"]
<1>1. /\ IsRotation(db, i) /\ db.op[i].status \in Terminal
      /\ \/ db.op[i].status = "AMBIGUOUS"
         \/ db.op[i].action \in {"CLEANUP_AMBIGUOUS",
                                 "PUBLISHED_AWAITING_AWG_CHECK"}
      /\ db.op[i].action # "RECONCILED"
      /\ db' = Reconciled(db, i) /\ main' = db.published
      /\ UNCHANGED <<pc, script, owned>>
  BY DEF Reconcile, CanReconcile
<1>2. /\ db \in Database /\ db.op \in [Ops -> Operation] /\ db.op[i] \in Operation
  BY Fields DEF IInv, TypeOK
<1>3. /\ o.kind = db.op[i].kind /\ o.status = db.op[i].status
      /\ o.action = "RECONCILED" /\ o.rev = db.op[i].rev
  BY <1>2 DEF Operation
<1>4. /\ db'.op = [db.op EXCEPT ![i] = o] /\ db'.lease = db.lease
      /\ db'.expired = db.expired /\ db'.published = db.published
      /\ db'.snap = db.snap
  BY <1>1, <1>2 DEF Reconciled, Database
<1> HIDE DEF o
<1>5. /\ db'.op[i] = o
      /\ \A j \in Ops \ {i} : db'.op[j] = db.op[j]
      /\ \A j \in Ops : /\ db'.op[j].kind = db.op[j].kind
                        /\ db'.op[j].status = db.op[j].status
  BY <1>2, <1>3, <1>4
<1>6. Open(i) /\ ~Active(db, i)
  BY <1>1 DEF Open, Settled, Active, Terminal
<1>7. \A j \in Ops : pc[j] \notin WorkSteps
  BY <1>6, RunningOpen, Alone
<1>8. Leased'
  BY <1>1, <1>4, <1>5 DEF RInv, Leased, Active
<1>9. \A j \in Ops : Open(j)' => Open(j)
  BY <1>5, <1>6 DEF Open, Settled, IsRotation
<1>10. ASSUME NEW j \in Ops PROVE Written(j)'
  <2>1. CASE j = i
    BY <1>1, <1>5, <1>6, <1>7, <2>1 DEF RInv, Written, IsRotation, Active
  <2>2. CASE j # i
    BY <1>1, <1>5, <2>2 DEF RInv, Written, IsRotation, Active
  <2> QED
    BY <2>1, <2>2
<1>11. \A j \in Ops : db'.published = NewIp(j) => IsRotation(db', j)
  BY <1>4, <1>5 DEF RInv, IsRotation
<1> QED
  BY <1>1, <1>4, <1>7, <1>8, <1>9, <1>10, <1>11 DEF Honest, RInv, NewIp

\* What _fail_owner makes of a rotation it finds unfinished.
LEMMA InterruptedRotation ==
  ASSUME NEW o \in Operation, o.kind = "IP_CHANGE",
         o.action \notin {"WAITING_SSH", "SSH_WAIT_QUEUED"}
  PROVE  LET q == Interrupted(o)
         IN  /\ q.kind = "IP_CHANGE" /\ q.status \in {"AMBIGUOUS", "FAILED"}
             /\ o.purchase # "NOT_STARTED" =>
                  q.status = "AMBIGUOUS" /\ q.action = "AMBIGUOUS"
<1>1. ~OnlyWaited(o)
  BY DEF OnlyWaited
<1>2. CASE MayHaveActed(o)
  BY <1>1, <1>2 DEF Interrupted, Operation
<1>3. CASE ~MayHaveActed(o)
  <2>1. Interrupted(o) = [o EXCEPT !.status = "FAILED", !.action = "NOT_STARTED"]
    BY <1>1, <1>3 DEF Interrupted
  <2>2. o.purchase = "NOT_STARTED"
    BY <1>3 DEF MayHaveActed
  <2> QED
    BY <2>1, <2>2 DEF Operation
<1> QED
  BY <1>2, <1>3

\* What it makes of any operation.
LEMMA InterruptedEnds ==
  ASSUME NEW o \in Operation
  PROVE  /\ Interrupted(o).kind = o.kind
         /\ Interrupted(o).status \in {"DONE", "AMBIGUOUS", "FAILED"}
<1>1. CASE OnlyWaited(o)
  BY <1>1 DEF Interrupted, Operation
<1>2. CASE ~OnlyWaited(o) /\ MayHaveActed(o)
  BY <1>2 DEF Interrupted, Operation
<1>3. CASE ~OnlyWaited(o) /\ ~MayHaveActed(o)
  <2>1. PICK a : Interrupted(o) = [o EXCEPT !.status = "FAILED", !.action = a]
    BY <1>3 DEF Interrupted, Operation
  <2> QED
    BY <2>1 DEF Operation
<1> QED
  BY <1>1, <1>2, <1>3

\* The panel starts again, perhaps with another environment.
LEMMA StartsAgain ==
  ASSUME IInv, Restart \/ \E env \in Environments : ChangeEnvironment(env)
  PROVE  LET d == RecoverIncomplete(db)
         IN  /\ db'.op = d.op /\ db'.snap = d.snap /\ db'.applied = d.applied
             /\ ~db'.expired /\ db'.published = db.published
             /\ pc' = [i \in Ops |-> "off"] /\ Still
<1> DEFINE d == RecoverIncomplete(db)
<1>1. \/ db' = d
      \/ \E env \in Environments : db' = [d EXCEPT !.env = env]
  BY DEF Restart, ChangeEnvironment
<1>2. db \in Database /\ d \in Database
  BY RecoverAlike DEF IInv, TypeOK, Alike
<1>3. ~d.expired /\ d.published = db.published
  BY <1>2 DEF RecoverIncomplete, FailOwners, Database
<1> HIDE DEF d
<1>4. /\ db'.op = d.op /\ db'.snap = d.snap /\ db'.applied = d.applied
      /\ db'.expired = d.expired /\ db'.published = d.published
  BY <1>1, <1>2 DEF Database
<1> QED
  BY <1>3, <1>4 DEF d, Restart, ChangeEnvironment, world, Still

\* The panel starts again: the rotation that ran is held for a person, unless
\* nothing had been sent.
LEMMA RestartHonest ==
  ASSUME IInv, RInv, Restart \/ \E env \in Environments : ChangeEnvironment(env)
  PROVE  Honest
<1>1. /\ db'.op = RecoverIncomplete(db).op /\ pc' = [i \in Ops |-> "off"]
      /\ ~db'.expired /\ db'.published = db.published
      /\ UNCHANGED <<script, owned, main>>
  BY StartsAgain DEF Still
<1>2. /\ db \in Database /\ \A j \in Ops : db.op[j] \in Operation
      /\ pc \in [Ops -> Steps]
  BY Fields DEF IInv, TypeOK
<1>3. \A j \in Ops : db'.op[j] = IF Active(db, j) THEN Interrupted(db.op[j])
                                                  ELSE db.op[j]
  BY <1>1, <1>2 DEF RecoverIncomplete, FailOwners, Database
<1>4. ASSUME NEW j \in Ops
      PROVE  /\ db'.op[j].kind = db.op[j].kind /\ ~Active(db', j)
             /\ Active(db, j) => db'.op[j].status \in {"DONE", "AMBIGUOUS",
                                                       "FAILED"}
  BY <1>2, <1>3, InterruptedEnds DEF Active
<1>5. \A j \in Ops : pc'[j] = "off"
  BY <1>1
<1>6. Leased'
  BY <1>1, <1>4, <1>5 DEF Leased
<1>7. ASSUME NEW j \in Ops PROVE Open(j)' => Open(j)
  <2>1. CASE Active(db, j)
    BY <1>4, <2>1 DEF Open, Settled, IsRotation, RInv, Written, Active
  <2>2. CASE ~Active(db, j)
    BY <1>3, <2>2 DEF Open, Settled, IsRotation
  <2> QED
    BY <2>1, <2>2
<1>8. ASSUME NEW j \in Ops PROVE Written(j)' /\ pc'[j] \notin WorkSteps
  BY <1>3, <1>4, <1>5
     DEF RInv, Written, WorkSteps, StatusSteps, IsRotation
<1>9. ASSUME NEW j \in Ops, Open(j), ~Open(j)' PROVE main = db.published
  <2>1. Active(db, j) /\ IsRotation(db, j)
    BY <1>3, <1>9 DEF Open, Settled, IsRotation
  <2>2. pc[j] # "off" /\ Actor(j) /\ Written(j) /\ pc[j] \in Steps
    BY <1>2, <2>1 DEF RInv, Leased, IInv, Actors
  <2>3. pc[j] \in WorkSteps
    BY <2>1, <2>2 DEF WorkSteps, Actor, Written, IsRotation
  <2>4. main = db.published \/ db.op[j].purchase # "NOT_STARTED"
    BY <2>3, RunningRow DEF Knows
  <2>5. db.op[j].purchase = "NOT_STARTED"
    <3> SUFFICES ASSUME db.op[j].purchase # "NOT_STARTED" PROVE FALSE
      OBVIOUS
    <3>1. db.op[j].action \notin {"WAITING_SSH", "SSH_WAIT_QUEUED"}
      BY <2>1, <2>2 DEF Written
    <3>2. db'.op[j].status = "AMBIGUOUS" /\ db'.op[j].action = "AMBIGUOUS"
      BY <1>2, <1>3, <2>1, <3>1, InterruptedRotation DEF IsRotation
    <3> QED
      BY <1>4, <1>9, <2>1, <3>2 DEF Open, Settled, IsRotation
  <2> QED
    BY <2>4, <2>5
<1>10. (\A j \in Ops : ~Open(j)') => main' = db'.published
  BY <1>1, <1>9 DEF RInv
<1>11. \A j \in Ops : db'.published = NewIp(j) => IsRotation(db', j)
  BY <1>1, <1>4 DEF RInv, IsRotation
<1>12. \A j, k \in Ops : Open(j)' /\ Open(k)' => j = k
  BY <1>7 DEF RInv
<1> QED
  BY <1>1, <1>3, <1>6, <1>8, <1>10, <1>11, <1>12 DEF Honest, RInv, NewIp

-----------------------------------------------------------------------------
(***************************************************************************)
(* The theorems.                                                           *)
(***************************************************************************)
\* At first no rotation was ever begun.
LEMMA InitHonest ==
  ASSUME Init
  PROVE  RInv
<1>1. /\ ~db.expired /\ db.published = 1 /\ main = 1 /\ owned = {1}
      /\ \A j \in Ops : /\ pc[j] = "off" /\ db.op[j].kind = "none"
                        /\ db.op[j].status = "none" /\ NewIp(j) # 1
  BY Bounds DEF Init, InitialDatabase, NoOperation, NewIp, Ops
<1>2. \A j \in Ops : ~IsRotation(db, j) /\ ~Active(db, j)
  BY <1>1 DEF IsRotation, Active
<1>3. \A j \in Ops : pc[j] \notin WorkSteps /\ pc[j] \notin StatusSteps
  BY <1>1 DEF WorkSteps, StatusSteps
<1> QED
  BY <1>1, <1>2, <1>3 DEF RInv, Leased, Written, Open

\* Every step keeps the invariant, and publishes only what is verified.
LEMMA NextHonest ==
  ASSUME Calm, IInv, RInv, [Next]_vars
  PROVE  Honest
<1>1. CASE UNCHANGED vars
  <2>1. UNCHANGED <<db, pc, script, vps, owned, main, sent>>
    BY <1>1 DEF vars, world
  <2> QED
    BY <2>1, EditHonest
<1>2. ASSUME NEW i \in Ops, Worker(i) \/ WorkerFaults(i)
      PROVE  Honest
  BY <1>2, InstallHonest, RotationHonest, RotationFaultHonest, RebootHonest,
     StatusHonest DEF Worker, WorkerFaults
<1>3. ASSUME NEW i \in Ops,
             \/ ScriptEnds(i) \/ Reconcile(i)
             \/ StartInstall(i) \/ StartRotation(i)
             \/ StartReboot(i) \/ StartStatus(i)
      PROVE  Honest
  BY <1>3, ScriptHonest, ReconcileHonest, StartHonest
<1>4. CASE \/ \E c \in Clients : AddClient(c) \/ ToggleClient(c) \/ RemoveClient(c)
           \/ ChangeSetting \/ \E a \in Addresses : ChangeAddress(a)
  BY <1>4, EditsHonest
<1>5. CASE Restart \/ \E env \in Environments : ChangeEnvironment(env)
  BY <1>5, RestartHonest
<1>6. ~Expire
  BY DEF Calm, Expire, Spend
<1> QED
  BY <1>1, <1>2, <1>3, <1>4, <1>5, <1>6 DEF Next

\* The invariant of the leases, the rotations and the addresses, with any
\* number of operations (operation_coordinator.py, ip_change.py).
THEOREM RotationInductive ==
  ASSUME Calm
  PROVE  Spec => []RInv
<1>1. Init => RInv
  BY InitHonest
<1>2. IInv /\ RInv /\ [Next]_vars => RInv'
  BY NextHonest DEF Honest
<1> QED
  BY <1>1, <1>2, DatabaseInductive, PTL DEF Spec

\* While leases outlive their operations, whoever has a worker or is not over
\* holds the lease (operation_coordinator.py, acquire_vps_lease).
THEOREM OperationsAlone ==
  ASSUME Calm
  PROVE  Spec => []WorkersAlone
<1>1. RInv => WorkersAlone
  BY DEF RInv, Leased, WorkersAlone
<1> QED
  BY <1>1, RotationInductive, PTL

\* No rotation begins while another is running or waits for a person
\* (vpn_state.py, prepare_ip_change_operation).
THEOREM RotationsOneByOne ==
  ASSUME Calm
  PROVE  Spec => []OneOpenRotation
<1>1. RInv => OneOpenRotation
  <2> SUFFICES ASSUME RInv PROVE Cardinality(OpenRotations) <= 1
    BY DEF OneOpenRotation
  <2>1. CASE OpenRotations = {}
    BY <2>1, FS_EmptySet
  <2>2. CASE OpenRotations # {}
    <3>1. PICK x \in OpenRotations : TRUE
      BY <2>2
    <3>2. OpenRotations = {x}
      BY <3>1 DEF RInv, OpenRotations, Open
    <3> QED
      BY <3>2, FS_Singleton
  <2> QED
    BY <2>1, <2>2
<1> QED
  BY <1>1, RotationInductive, PTL

\* No rotation that is recorded as settled has left the provider's main
\* address and the published one apart (ip_change.py, run_ip_change).
THEOREM MainStaysQuiet ==
  ASSUME Calm
  PROVE  Spec => []QuietMain
<1>1. RInv => QuietMain
  BY DEF RInv, QuietMain, OpenRotations, Open
<1> QED
  BY <1>1, RotationInductive, PTL

\* The address clients are told is never given back to the provider
\* (ip_change.py, publication before clean-up).
THEOREM PublishedStaysOwned ==
  ASSUME Calm
  PROVE  Spec => []PublishedOwned
<1>1. RInv => PublishedOwned
  BY DEF RInv, PublishedOwned
<1> QED
  BY <1>1, RotationInductive, PTL

\* An address is published when it is the main one, with the revision that its
\* rotation applied and that is still the desired one
\* (vpn_state.py, publish_ip_change).
THEOREM PublicationVerified ==
  ASSUME Calm
  PROVE  Spec => PublishVerified
<1>1. IInv /\ RInv /\ [Next]_vars =>
        [db'.published # db.published =>
           \E i \in Ops : /\ db'.published = NewIp(i) /\ db'.ip = NewIp(i)
                          /\ main = NewIp(i)
                          /\ script[i].state = "ok" /\ Bound(i)]_vars
  BY NextHonest DEF Honest, Verified
<1> QED
  BY <1>1, DatabaseInductive, RotationInductive, PTL DEF Spec, PublishVerified

-----------------------------------------------------------------------------
(***************************************************************************)
(* What the VPN server serves: as long as operations are alone, it lets in *)
(* the clients of the applied revision, unless an operation that ran a     *)
(* script on it failed or has to be looked at.                             *)
(***************************************************************************)
\* Operation i has run a script on the server.
Scripted(i) == script[i].state # "none"

\* One that did is over, and not done: nobody knows what the server serves.
Failures == {"FAILED", "AMBIGUOUS", "TIMED_OUT"}
Stained  == \E i \in Ops : Scripted(i) /\ db.op[i].status \in Failures

LetIn(r) == db.snap[r].body.clients

\* The server lets in whom the applied revision lets in.
Same == db.applied = 0 \/ (vps # 0 /\ LetIn(vps) = LetIn(db.applied))

\* A revision the server serves, or would go back to, has a snapshot.
Known(r) == r # 0 => r \in Revs /\ db.snap[r].life # "none"

\* What the row and the worker of operation i tell about its script.
Tells(i) ==
  /\ Scripted(i) => /\ db.op[i].kind \in {"INSTALL", "IP_CHANGE"}
                    /\ db.op[i].status # "none"
                    /\ db.op[i].status = "DONE" => script[i].state = "ok"
  /\ Known(script[i].base)
  /\ db.op[i].kind = "INSTALL" =>
       /\ db.op[i].action = "NOT_STARTED"
       /\ Active(db, i) => db.applied <= Rev(i)
  /\ pc[i] = "install_done" => script[i].state = "ok"
  /\ pc[i] \in Published =>
       /\ script[i].state = "ok"
       /\ db.applied # 0 /\ LetIn(Rev(i)) = LetIn(db.applied)

\* What the server serves while an operation runs its script, and otherwise.
Agrees ==
  ~Stained =>
    /\ \A i \in Ops : Active(db, i) /\ script[i].state = "ok" => vps = Rev(i)
    /\ (\A i \in Ops : Scripted(i) => ~Active(db, i)) => Same

SInv == Known(vps) /\ (\A i \in Ops : Tells(i)) /\ Agrees

-----------------------------------------------------------------------------
(***************************************************************************)
(* Kinds of steps.                                                         *)
(***************************************************************************)
\* A snapshot keeps its content.
Immutable ==
  \A r \in Revs : db.snap[r].life # "none" =>
    db'.snap[r].life # "none" /\ db'.snap[r].body = db.snap[r].body

\* The revisions that the invariant speaks of have snapshots.
LEMMA Bindings ==
  ASSUME IInv, SInv
  PROVE  /\ \A i \in Ops : db.op[i].kind \in {"INSTALL", "IP_CHANGE"} =>
              Rev(i) \in Revs /\ Rev(i) # 0 /\ Known(Rev(i))
         /\ Known(db.applied) /\ Known(vps)
         /\ \A i \in Ops : Known(script[i].base)
<1>1. db \in Database /\ DbInv(db) /\ MaxRev \in Nat
  BY Bounds DEF IInv, DbInv
<1>2. db.desired \in Revs /\ db.applied \in 0 .. MaxRev
  BY <1>1, Fields
<1>3. ASSUME NEW i \in Ops, db.op[i].kind \in {"INSTALL", "IP_CHANGE"}
      PROVE  Rev(i) \in Revs /\ Rev(i) # 0 /\ Known(Rev(i))
  BY <1>1, <1>2, <1>3 DEF DbInv, Prepared, Rev, Revs, Known
<1>4. Known(db.applied)
  BY <1>1, <1>2 DEF DbInv, Sound, Known, Revs
<1> QED
  BY <1>3, <1>4 DEF SInv, Tells

\* What the clients of a revision are does not change.
LEMMA StillLets ==
  ASSUME Immutable, NEW r, Known(r), r # 0
  PROVE  LetIn(r)' = LetIn(r) /\ Known(r)'
BY DEF Immutable, Known, LetIn

\* A step that touches neither scripts nor what is served or applied, and of the
\* rows at most the one of a worker, which goes on or ends.
LEMMA Plain ==
  ASSUME IInv, RInv, SInv, NEW i \in Ops, pc[i] # "off", Elsewhere(i),
         Immutable, db'.applied = db.applied, script' = script, vps' = vps,
         db'.op[i].kind = db.op[i].kind, db'.op[i].rev = db.op[i].rev,
         db.op[i].kind = "INSTALL" => db'.op[i].action = db.op[i].action,
         pc'[i] = "install_done" => script[i].state = "ok",
         pc'[i] \in Published => pc[i] \in Published,
         \/ Active(db', i)
         \/ db'.op[i].status \in Failures
         \/ db'.op[i].status = "DONE" /\ (~Scripted(i) \/ pc[i] \in Published)
  PROVE  SInv'
<1>1. /\ Active(db, i) /\ \A j \in Ops \ {i} : pc[j] = "off" /\ ~Active(db, j)
  BY Alone
<1>2. /\ \A j \in Ops : db.op[j].kind \in {"INSTALL", "IP_CHANGE"} =>
           Rev(j) \in Revs /\ Rev(j) # 0 /\ Known(Rev(j))
      /\ Known(db.applied) /\ Known(vps)
      /\ \A j \in Ops : Known(script[j].base)
  BY Bindings
<1>3. \A r : Known(r) => Known(r)' /\ (r # 0 => LetIn(r)' = LetIn(r))
  BY StillLets DEF Known
<1>4. \A j \in Ops : Rev(j)' = Rev(j) /\ db'.op[j].kind = db.op[j].kind
  BY DEF Elsewhere, Rev
<1>5. /\ Known(vps)' /\ (Same => Same')
  BY <1>2, <1>3 DEF Same
<1>6. ASSUME NEW j \in Ops PROVE Tells(j)'
  <2>1. Tells(j)
    BY DEF SInv
  <2>2. Known(script[j].base)'
    BY <1>2, <1>3
  <2>3. CASE j # i
    <3>1. pc'[j] = "off" /\ db'.op[j] = db.op[j] /\ Rev(j)' = Rev(j)
      BY <1>1, <1>4, <2>3 DEF Elsewhere
    <3> QED
      BY <2>1, <2>2, <3>1 DEF Tells, Scripted, Active, Published
  <2>4. CASE j = i
    <3>1. pc[i] \in Published => script[i].state = "ok"
      BY <2>1, <2>4 DEF Tells
    <3>2. Scripted(i)' => /\ db'.op[i].kind \in {"INSTALL", "IP_CHANGE"}
                          /\ db'.op[i].status # "none"
                          /\ db'.op[i].status = "DONE" => script'[i].state = "ok"
      BY <2>1, <2>4, <3>1 DEF Tells, Scripted, Active, Failures
    <3>3. db'.op[i].kind = "INSTALL" =>
            /\ db'.op[i].action = "NOT_STARTED"
            /\ Active(db', i) => db'.applied <= Rev(i)'
      BY <1>1, <1>4, <2>1, <2>4 DEF Tells
    <3>4. pc'[i] \in Published =>
            /\ script'[i].state = "ok"
            /\ db'.applied # 0 /\ LetIn(Rev(i))' = LetIn(db.applied)'
      <4> SUFFICES ASSUME pc'[i] \in Published
                   PROVE  /\ script'[i].state = "ok"
                          /\ db'.applied # 0 /\ LetIn(Rev(i))' = LetIn(db.applied)'
        OBVIOUS
      <4>1. /\ script[i].state = "ok" /\ db.applied # 0
            /\ LetIn(Rev(i)) = LetIn(db.applied)
        BY <2>1, <2>4 DEF Tells
      <4>2. Scripted(i)
        BY <4>1 DEF Scripted
      <4>3. Rev(i) # 0 /\ Known(Rev(i))
        BY <1>2, <2>1, <2>4, <4>2 DEF Tells
      <4>4. LetIn(Rev(i))' = LetIn(Rev(i)) /\ LetIn(db.applied)' = LetIn(db.applied)
        <5>1. Immutable /\ Known(db.applied)
          BY <1>2
        <5>2. /\ db'.snap[Rev(i)].body = db.snap[Rev(i)].body
              /\ db'.snap[db.applied].body = db.snap[db.applied].body
          BY <4>1, <4>3, <5>1 DEF Immutable, Known
        <5> QED
          BY <1>4, <5>2 DEF LetIn
      <4> QED
        BY <4>1, <4>4
    <3> QED
      BY <2>1, <2>2, <2>4, <3>2, <3>3, <3>4 DEF Tells
  <2> QED
    BY <2>3, <2>4
<1>7. Agrees'
  <2> SUFFICES ASSUME ~Stained'
               PROVE  /\ \A j \in Ops :
                           Active(db', j) /\ script[j].state = "ok" => vps = Rev(j)
                      /\ (\A j \in Ops : Scripted(j) => ~Active(db', j)) => Same'
    BY <1>4 DEF Agrees, Scripted
  <2>1. ~Stained
    BY <1>1 DEF Stained, Scripted, Elsewhere, Active, Failures
  <2>2. ASSUME NEW j \in Ops, Active(db', j), script[j].state = "ok"
        PROVE  vps = Rev(j)
    BY <1>1, <2>1, <2>2 DEF SInv, Agrees, Elsewhere, Active
  <2>3. ASSUME \A j \in Ops : Scripted(j) => ~Active(db', j) PROVE Same'
    <3>1. CASE Scripted(i)
      <4>1. db'.op[i].status = "DONE" /\ pc[i] \in Published
        BY <2>3, <3>1 DEF Stained, Scripted
      <4>2. /\ script[i].state = "ok" /\ LetIn(Rev(i)) = LetIn(db.applied)
            /\ Rev(i) # 0
        BY <1>2, <3>1, <4>1 DEF SInv, Tells
      <4>3. vps = Rev(i)
        BY <1>1, <2>1, <4>2 DEF SInv, Agrees
      <4> QED
        BY <1>5, <4>2, <4>3 DEF Same
    <3>2. CASE ~Scripted(i)
      BY <1>1, <1>5, <2>1, <3>2 DEF SInv, Agrees
    <3> QED
      BY <3>1, <3>2
  <2> QED
    BY <2>2, <2>3
<1> QED
  BY <1>5, <1>6, <1>7 DEF SInv

-----------------------------------------------------------------------------
(***************************************************************************)
(* What a worker's step is made of.                                        *)
(***************************************************************************)
\* From one step to another a worker neither finishes its script nor publishes.
Fits(from, to) ==
  to # "install_done" /\ (to \in Published => from \in Published)

\* It writes down where it is.
LEMMA MarkServes ==
  ASSUME IInv, RInv, SInv, NEW i \in Ops, NEW from, NEW to,
         NEW o \in RowsOf(i), Mark(i, from, o, to), pc[i] # "off",
         Fits(from, to), o.status \in {"PENDING", "RUNNING"},
         db.op[i].kind = "INSTALL" => o.action = db.op[i].action
  PROVE  SInv'
<1>1. /\ Touches(i, o) /\ Still
      /\ Elsewhere(i) /\ pc'[i] = to /\ db'.op[i] = o /\ pc[i] = from
  BY MarkTouches
<1>2. db'.applied = db.applied
  BY DEF Mark, Save, Heartbeat, Database, IInv, TypeOK
<1> QED
  BY <1>1, <1>2, Plain DEF Immutable, Touches, Still, Fits, RowsOf, Active

\* It writes its verdict and stops.
LEMMA FinishServes ==
  ASSUME IInv, RInv, SInv, NEW i \in Ops, NEW from, NEW o \in RowsOf(i),
         Finish(i, from, o), pc[i] # "off",
         db.op[i].kind = "INSTALL" => o.action = db.op[i].action,
         \/ o.status \in Failures
         \/ o.status = "DONE" /\ (~Scripted(i) \/ from \in Published)
  PROVE  SInv'
<1>1. /\ Touches(i, o) /\ Still
      /\ Elsewhere(i) /\ pc'[i] = "off" /\ db'.op[i] = o /\ pc[i] = from
  BY FinishTouches
<1>2. db'.applied = db.applied
  BY DEF Finish, End, Release, Database, IInv, TypeOK
<1>3. "off" \notin Published
  BY DEF Published
<1> QED
  BY <1>1, <1>2, <1>3, Plain DEF Immutable, Touches, Still, RowsOf

\* It goes on without a transaction.
LEMMA GoServes ==
  ASSUME IInv, RInv, SInv, NEW i \in Ops, NEW to, Goto(i, to),
         UNCHANGED <<db, script, vps>>, pc[i] # "off",
         \/ Fits(pc[i], to)
         \/ to = "install_done" /\ script[i].state = "ok"
  PROVE  SInv'
<1>1. /\ Elsewhere(i) /\ pc'[i] = to /\ db'.op[i] = db.op[i]
  BY GoTouches
<1>2. Active(db', i)
  BY Alone
<1>3. "install_done" \notin Published
  BY DEF Published
<1> QED
  BY <1>1, <1>2, <1>3, Plain DEF Immutable, Fits

\* A fault sends it somewhere else.
LEMMA StumbleServes ==
  ASSUME Calm, IInv, RInv, SInv, NEW i \in Ops, NEW froms, NEW kind, NEW to,
         Stumble(i, froms, kind, to), "off" \notin froms,
         kind = "dbEnd" \/ (to # "install_done" /\ to \notin Published)
  PROVE  SInv'
BY CalmFaults, GoServes DEF Still, Fits

\* A script begins on the server, for an operation that is not over.
LEMMA LaunchServes ==
  ASSUME IInv, RInv, SInv, NEW i \in Ops, pc[i] # "off",
         db.op[i].kind \in {"INSTALL", "IP_CHANGE"},
         NEW to, Goto(i, to), Launch(i), UNCHANGED db,
         to # "install_done", to \notin Published
  PROVE  SInv'
<1>1. /\ Active(db, i) /\ \A j \in Ops \ {i} : pc[j] = "off" /\ ~Active(db, j)
  BY Alone
<1>2. /\ pc'[i] = to /\ vps' = vps
      /\ \A j \in Ops \ {i} : pc'[j] = pc[j] /\ script'[j] = script[j]
      /\ script'[i] = [state |-> "running", base |-> vps]
  BY DEF IInv, TypeOK, Goto, Launch
<1>3. Known(vps)
  BY DEF SInv
<1>4. script'[i].state = "running" /\ script'[i].base = vps
  BY <1>2
<1>5. ASSUME NEW j \in Ops PROVE Tells(j)'
  <2>1. Tells(j)
    BY DEF SInv
  <2>2. CASE j = i
    BY <1>1, <1>2, <1>3, <1>4, <2>1, <2>2
       DEF Tells, Scripted, Active, Known, Rev
  <2>3. CASE j # i
    BY <1>1, <1>2, <2>1, <2>3 DEF Tells, Scripted, Active, Known, Rev, LetIn
  <2> QED
    BY <2>2, <2>3
<1>6. Agrees'
  <2>1. Active(db', i) /\ Scripted(i)'
    BY <1>1, <1>4 DEF Scripted
  <2>2. ~Stained' => ~Stained
    BY <1>1, <1>2 DEF Stained, Scripted, Active, Failures
  <2>3. \A j \in Ops : Active(db', j) => j = i
    BY <1>1
  <2> QED
    BY <1>4, <2>1, <2>2, <2>3 DEF Agrees
<1> QED
  BY <1>2, <1>3, <1>5, <1>6 DEF SInv, Known

-----------------------------------------------------------------------------
(***************************************************************************)
(* The workers.                                                            *)
(***************************************************************************)
\* The transaction that completes an install: its script has come to its end,
\* and nothing newer was applied meanwhile.
LEMMA CompleteServes ==
  ASSUME IInv, RInv, SInv, NEW i \in Ops, InstallDone(i),
         db.op[i].kind = "INSTALL"
  PROVE  SInv'
<1> DEFINE r == Rev(i)
<1>1. /\ pc[i] = "install_done" /\ Goto(i, "off") /\ db' = CompleteInstall(db, i)
      /\ UNCHANGED <<script, vps>>
  BY DEF InstallDone, Quietly, world
<1>2. /\ Active(db, i) /\ \A j \in Ops \ {i} : pc[j] = "off" /\ ~Active(db, j)
  BY <1>1, Alone
<1>3. /\ r \in Revs /\ r # 0 /\ Known(r) /\ Tells(i)
      /\ db.applied <= r /\ script[i].state = "ok"
  BY <1>1, <1>2, Bindings DEF SInv, Tells
<1>4. /\ db \in Database /\ db.op \in [Ops -> Operation]
      /\ db.snap \in [Revs -> Snapshot] /\ pc \in [Ops -> Steps]
      /\ db.applied \in Nat /\ r \in Nat
  BY <1>3, Fields DEF IInv, TypeOK, Revs
<1>5. /\ db'.op = [db.op EXCEPT ![i].status = "DONE"]
      /\ db'.snap = [db.snap EXCEPT ![r].life = "APPLIED"]
      /\ db'.applied = IF db.applied < r THEN r ELSE db.applied
  BY <1>1, <1>4 DEF CompleteInstall, Release, PurgeDeleted, Database, Rev
<1>6. db'.applied = r
  BY <1>3, <1>4, <1>5
<1>7. Immutable
  BY <1>3, <1>4, <1>5 DEF Immutable, Snapshot
<1>8. /\ db'.op[i].status = "DONE"
      /\ \A j \in Ops : /\ Rev(j)' = Rev(j) /\ db'.op[j].kind = db.op[j].kind
                        /\ db'.op[j].action = db.op[j].action
      /\ \A j \in Ops \ {i} : db'.op[j] = db.op[j]
      /\ \A j \in Ops : pc'[j] = "off" /\ ~Active(db', j)
  BY <1>1, <1>2, <1>4, <1>5 DEF Goto, Rev, Operation, Active
<1>9. \A q : Known(q) => Known(q)' /\ (q # 0 => LetIn(q)' = LetIn(q))
  BY <1>7, StillLets DEF Known
<1>10. Known(vps)' /\ \A j \in Ops : Known(script[j].base)'
  BY <1>1, <1>9, Bindings
<1>11. ASSUME NEW j \in Ops PROVE Tells(j)'
  <2>1. Tells(j) /\ script'[j] = script[j] /\ Scripted(j)' = Scripted(j)
    BY <1>1 DEF SInv, Scripted
  <2>2. pc'[j] \notin Published \cup {"install_done"} /\ ~Active(db', j)
    BY <1>8 DEF Published
  <2>3. Scripted(j) => /\ db'.op[j].status # "none"
                       /\ db'.op[j].status = "DONE" => script[j].state = "ok"
    BY <1>3, <1>8, <2>1 DEF Tells
  <2> QED
    BY <1>8, <1>10, <2>1, <2>2, <2>3 DEF Tells
<1>12. Agrees'
  <2> SUFFICES ASSUME ~Stained' PROVE Same'
    BY <1>8 DEF Agrees
  <2>1. ~Stained
    BY <1>1, <1>2, <1>8 DEF Stained, Scripted, Active, Failures
  <2>2. vps = r
    BY <1>2, <1>3, <2>1 DEF SInv, Agrees
  <2>3. db'.applied = vps' /\ vps' # 0
    BY <1>1, <1>3, <1>6, <2>2
  <2> QED
    BY <2>3 DEF Same, LetIn
<1> QED
  BY <1>10, <1>11, <1>12 DEF SInv

\* Failing a revision touches one life, and no content.
LEMMA FailedSays ==
  ASSUME NEW d \in Database, NEW r \in Revs
  PROVE  LET f == FailedSnapshot(d, r)
         IN  /\ f.op = d.op /\ f.applied = d.applied /\ f.lease = d.lease
             /\ f \in Database
             /\ \A q \in Revs :
                  /\ f.snap[q].body = d.snap[q].body
                  /\ d.snap[q].life # "none" => f.snap[q].life # "none"
<1>1. CASE d.snap[r].life = "APPLIED"
  BY <1>1 DEF FailedSnapshot
<1>2. CASE d.snap[r].life # "APPLIED"
  <2> DEFINE snap == [d.snap EXCEPT ![r].life = "FAILED"]
             e == [d EXCEPT !.snap = snap]
  <2>1. d.snap \in [Revs -> Snapshot]
    BY Fields
  <2>2. /\ snap \in [Revs -> Snapshot]
        /\ snap[r].life = "FAILED" /\ snap[r].body = d.snap[r].body
        /\ \A q \in Revs \ {r} : snap[q] = d.snap[q]
    BY <2>1 DEF Snapshot
  <2>3. FailedSnapshot(d, r) = e
    BY <1>2 DEF FailedSnapshot, Database
  <2> HIDE DEF snap
  <2>4. /\ e \in Database /\ e.snap = snap
        /\ e.lease = d.lease /\ e.op = d.op /\ e.applied = d.applied
    BY <2>2 DEF Database
  <2> QED
    BY <2>2, <2>3, <2>4
<1> QED
  BY <1>1, <1>2

\* The transactions that record that an install failed, or may have.
LEMMA FailServes ==
  ASSUME IInv, RInv, SInv, NEW i \in Ops, db.op[i].kind = "INSTALL",
         pc[i] # "off", Goto(i, "off"), Quietly,
         db' = FailInstall(db, i) \/ db' = MarkAmbiguous(db, i)
  PROVE  SInv'
<1> DEFINE r == db.op[i].rev
<1>1. /\ db \in Database /\ db.op \in [Ops -> Operation]
      /\ db.snap \in [Revs -> Snapshot] /\ pc \in [Ops -> Steps]
      /\ Active(db, i) /\ r \in Revs
  BY Fields, Alone, Bindings DEF IInv, TypeOK, Rev
<1> DEFINE f == FailedSnapshot(db, r)
<1>2. /\ f.op = db.op /\ f.applied = db.applied /\ f.lease = db.lease
      /\ f \in Database
      /\ \A q \in Revs : /\ f.snap[q].body = db.snap[q].body
                         /\ db.snap[q].life # "none" => f.snap[q].life # "none"
  <2> HIDE DEF r
  <2> QED
    BY <1>1, FailedSays
<1>3. PICK status \in {"FAILED", "AMBIGUOUS"} :
        db' = Release([f EXCEPT !.op[i].status = status], i)
  <2>1. CASE db' = FailInstall(db, i)
    BY <2>1 DEF FailInstall
  <2>2. CASE db' = MarkAmbiguous(db, i)
    <3>1. MarkAmbiguous(db, i) = Release([f EXCEPT !.op[i].status = "AMBIGUOUS"], i)
      BY <1>1 DEF MarkAmbiguous
    <3> QED
      BY <2>2, <3>1
  <2> QED
    BY <2>1, <2>2
<1> HIDE DEF f
<1>4. /\ db'.op = [db.op EXCEPT ![i].status = status]
      /\ db'.snap = f.snap /\ db'.applied = db.applied
  BY <1>2, <1>3 DEF Release, Database
<1>5. /\ Elsewhere(i) /\ pc'[i] = "off"
      /\ db'.op[i] = [db.op[i] EXCEPT !.status = status]
  BY <1>1, <1>4 DEF Elsewhere, Goto
<1>6. /\ db'.op[i].kind = db.op[i].kind /\ db'.op[i].rev = db.op[i].rev
      /\ db'.op[i].action = db.op[i].action /\ db'.op[i].status \in Failures
  BY <1>1, <1>5 DEF Operation, Failures
<1>7. Immutable
  BY <1>2, <1>4 DEF Immutable
<1>8. "off" \notin Published /\ UNCHANGED <<script, vps>>
  BY DEF Published, Quietly, world
<1> QED
  BY <1>4, <1>5, <1>6, <1>7, <1>8, Plain

\* What a worker that goes on may make of its row.
Going(i) == {o \in RowsOf(i) : o.status \in {"PENDING", "RUNNING"}}

\* Another status, action or progress, and it still goes on.
LEMMA GoesOn ==
  ASSUME NEW i \in Ops, NEW o \in Going(i)
  PROVE  /\ [o EXCEPT !.status = "RUNNING"] \in Going(i)
         /\ \A a \in ActionStates :
              /\ [o EXCEPT !.status = "RUNNING", !.action = a] \in Going(i)
              /\ [o EXCEPT !.action = a] \in Going(i)
         /\ \A a \in ActionStates, p \in Sends :
              /\ [o EXCEPT !.action = a, !.purchase = p] \in Going(i)
              /\ [o EXCEPT !.action = a, !.main = p] \in Going(i)
         /\ \A p \in Sends : /\ [o EXCEPT !.purchase = p] \in Going(i)
                             /\ [o EXCEPT !.main = p] \in Going(i)
         /\ \A a \in ActionStates, p \in Applies :
              [o EXCEPT !.action = a, !.apply = p] \in Going(i)
         /\ \A p \in Applies : [o EXCEPT !.apply = p] \in Going(i)
BY DEF Going, RowsOf, Operation, Statuses

\* The row of a worker that runs.
LEMMA GoingRow ==
  ASSUME IInv, RInv, NEW i \in Ops, pc[i] # "off"
  PROVE  db.op[i] \in Going(i)
BY Alone, OwnRow DEF Going, RowsOf, Active

\* run_eu_install.
LEMMA InstallServes ==
  ASSUME Calm, IInv, RInv, SInv, NEW i \in Ops, Install(i) \/ InstallFaults(i)
  PROVE  SInv'
<1> DEFINE o == db.op[i]
<1>1. pc[i] \in InstallSteps
  BY DEF Install, InstallFaults, InstallStart, InstallSend, InstallOk,
         InstallScriptFailed, InstallHeartbeat, InstallUncertain, InstallDone,
         InstallFail, InstallUnclear, Mark, Move, Stumble, InstallSteps
<1>2. /\ o.kind = "INSTALL" /\ pc[i] # "off" /\ o \in Operation
  BY <1>1, OwnRow DEF Actor, InstallSteps
<1>3. o \in Going(i)
  BY <1>2, GoingRow
<1>4. /\ InstallSteps \cap Published = {} /\ "off" \notin InstallSteps
      /\ {"install_send", "install_wait", "install_fail", "install_unclear"}
           \subseteq InstallSteps \ {"install_done"}
  BY DEF InstallSteps, Published
<1>5. CASE InstallStart(i)
  <2> DEFINE q == [o EXCEPT !.status = "RUNNING"]
  <2>1. q \in Going(i) /\ q.action = o.action /\ q.status = "RUNNING"
    BY <1>2, <1>3, GoesOn DEF Operation
  <2>2. Mark(i, "install", q, "install_send")
    BY <1>5 DEF InstallStart
  <2> HIDE DEF q
  <2> QED
    BY <1>2, <1>4, <2>1, <2>2, MarkServes DEF Fits, Going
<1>6. CASE InstallHeartbeat(i)
  <2>1. Mark(i, "install_wait", o, "install_wait")
    BY <1>6 DEF InstallHeartbeat
  <2> QED
    BY <1>2, <1>3, <1>4, <2>1, MarkServes DEF Fits, Going
<1>7. CASE InstallSend(i)
  BY <1>2, <1>4, <1>7, LaunchServes DEF InstallSend
<1>8. CASE InstallOk(i) \/ InstallScriptFailed(i) \/ InstallUncertain(i)
  BY <1>2, <1>4, <1>8, GoServes
     DEF InstallOk, InstallScriptFailed, InstallUncertain, Move, Quietly, world,
         Fits
<1>9. CASE InstallDone(i)
  BY <1>2, <1>9, CompleteServes
<1>10. CASE InstallFail(i) \/ InstallUnclear(i)
  BY <1>2, <1>10, FailServes DEF InstallFail, InstallUnclear
<1>11. CASE InstallFaults(i)
  BY <1>4, <1>11, StumbleServes DEF InstallFaults
<1> QED
  BY <1>5, <1>6, <1>7, <1>8, <1>9, <1>10, <1>11 DEF Install

\* run_server_reboot and run_server_status, which run no script.
LEMMA OtherServes ==
  ASSUME Calm, IInv, RInv, SInv, NEW i \in Ops,
         Reboot(i) \/ RebootFaults(i) \/ Status(i) \/ StatusFaults(i)
  PROVE  SInv'
<1> DEFINE o == db.op[i]
<1>1. pc[i] \in RebootSteps \cup StatusSteps
  BY DEF Reboot, RebootFaults, RebootLook, RebootMark, RebootRefused,
         RebootSend, RebootRecorded, RebootPoll, RebootVerified, RebootFail,
         Status, StatusFaults, StatusStart, StatusEnd,
         Mark, Move, Finish, Stumble, RebootSteps, StatusSteps
<1>2. /\ o.kind \in {"REBOOT", "STATUS"} /\ pc[i] # "off" /\ o \in Operation
  BY <1>1, OwnRow DEF Actor, RebootSteps, StatusSteps, RInv, Written
<1>3. /\ ~Scripted(i) /\ o \in Going(i) /\ o \in RowsOf(i)
  BY <1>2, GoingRow DEF SInv, Tells, Going
<1>4. /\ (RebootSteps \cup StatusSteps) \cap (Published \cup {"install_done"}) = {}
      /\ "off" \notin RebootSteps \cup StatusSteps
      /\ {"reboot", "reboot_mark", "reboot_send", "reboot_sent", "reboot_lost",
          "reboot_verify", "reboot_unclear", "reboot_fail", "reboot_dead"}
           \subseteq RebootSteps
      /\ {"status", "status_end", "status_fail", "status_dead"}
           \subseteq StatusSteps
      /\ {"SENDING", "SENT", "AMBIGUOUS", "NOT_STARTED"} \subseteq ActionStates
      /\ {"DONE", "FAILED", "AMBIGUOUS", "TIMED_OUT"} \subseteq Statuses
  BY DEF RebootSteps, StatusSteps, Published, ActionStates, Statuses, Terminal
<1>5. ASSUME NEW from, NEW to \in RebootSteps \cup StatusSteps,
             NEW q \in Going(i), Mark(i, from, q, to)
      PROVE  SInv'
  <2>1. Fits(from, to) /\ q \in RowsOf(i) /\ q.status \in {"PENDING", "RUNNING"}
    BY <1>4 DEF Fits, Going
  <2> QED
    BY <1>2, <1>5, <2>1, MarkServes
<1>6. ASSUME NEW from, NEW q \in RowsOf(i), Finish(i, from, q),
             q.status \in Failures \cup {"DONE"}
      PROVE  SInv'
  BY <1>2, <1>3, <1>6, FinishServes
<1>7. ASSUME NEW to \in RebootSteps \cup StatusSteps, Goto(i, to),
             UNCHANGED <<db, script, vps>>
      PROVE  SInv'
  <2>1. Fits(pc[i], to)
    BY <1>4 DEF Fits
  <2> QED
    BY <1>2, <1>7, <2>1, GoServes
<1>8. CASE RebootLook(i)
  BY <1>3, <1>4, <1>5, <1>8, GoesOn DEF RebootLook
<1>9. CASE RebootMark(i)
  BY <1>3, <1>4, <1>5, <1>9, GoesOn DEF RebootMark, Step
<1>10. CASE RebootRefused(i)
  BY <1>4, <1>7, <1>10 DEF RebootRefused, Move, Quietly, world
<1>11. CASE RebootSend(i)
  <2>1. PICK to \in {"reboot_sent", "reboot_lost"} : Goto(i, to)
    BY <1>11 DEF RebootSend
  <2> QED
    BY <1>4, <1>7, <1>11, <2>1 DEF RebootSend
<1>12. CASE RebootRecorded(i)
  BY <1>3, <1>4, <1>5, <1>12, GoesOn DEF RebootRecorded
<1>13. CASE RebootPoll(i)
  BY <1>3, <1>4, <1>5, <1>13 DEF RebootPoll
<1>14. ASSUME NEW from, NEW s \in Failures \cup {"DONE"},
              Finish(i, from, [o EXCEPT !.status = s])
       PROVE  SInv'
  <2>1. s \in Statuses
    BY <1>4 DEF Failures
  <2>2. /\ [o EXCEPT !.status = s] \in RowsOf(i)
        /\ [o EXCEPT !.status = s].status = s
    BY <1>2, <1>3, <2>1, Writes DEF Operation
  <2> QED
    BY <1>6, <1>14, <2>2
<1>15. CASE RebootVerified(i)
  BY <1>14, <1>15 DEF RebootVerified, Failures
<1>16. CASE RebootFail(i)
  <2>1. /\ RebootVerdict(o) \in RowsOf(i) /\ RebootVerdict(o).status \in Failures
    BY <1>2, <1>3, <1>4 DEF RebootVerdict, RowsOf, Operation, Failures
  <2> QED
    BY <1>6, <1>16, <2>1 DEF RebootFail
<1>17. CASE StatusStart(i)
  BY <1>3, <1>4, <1>5, <1>17, GoesOn DEF StatusStart
<1>18. CASE StatusEnd(i)
  BY <1>14, <1>18 DEF StatusEnd, Failures
<1>19. CASE RebootFaults(i)
  BY <1>4, <1>19, StumbleServes DEF RebootFaults
<1>20. CASE StatusFaults(i)
  BY <1>4, <1>20, StumbleServes DEF StatusFaults
<1> QED
  BY <1>8, <1>9, <1>10, <1>11, <1>12, <1>13, <1>15, <1>16, <1>17, <1>18, <1>19,
     <1>20 DEF Reboot, Status

\* The publication: the clients of the new revision are those of the applied
\* one, which the script has left on the server.
LEMMA PublishServes ==
  ASSUME IInv, RInv, SInv, NEW i \in Ops, IsRotation(db, i), PublishIp(i)
  PROVE  SInv'
<1> DEFINE r == db.op[i].rev
           o == [db.op[i] EXCEPT !.status = "RUNNING", !.action = "PUBLISHED"]
           s == [life |-> "APPLIED",
                 body |-> [db.snap[r].body EXCEPT !.ip = NewIp(i)]]
           f == [db.snap EXCEPT ![r + 1] = s]
           x == db.snap[r]
<1>1. /\ pc[i] = "publish" /\ db.desired = r /\ r < MaxRev
      /\ db' = Publish(db, i) /\ UNCHANGED <<script, vps>>
  BY DEF PublishIp, Bound, Rev, Quietly, world
<1>2. PICK to \in {"finish_awg", "cleanup_mark"} : Goto(i, to)
  BY DEF PublishIp
<1>3. /\ db \in Database /\ db.op \in [Ops -> Operation]
      /\ db.snap \in [Revs -> Snapshot] /\ pc \in [Ops -> Steps]
      /\ r \in Revs /\ r \in Nat /\ MaxRev \in Nat /\ DbInv(db)
      /\ x \in Snapshot /\ db.op[i] \in Operation
  BY <1>1, Fields, Bounds DEF IInv, DbInv, TypeOK
<1>4. /\ r + 1 \in Revs /\ r + 1 # 0 /\ r + 1 # r
      /\ x.life # "none" /\ db.snap[r + 1].life = "none"
  <2>1. r + 1 \in Revs /\ r + 1 # 0 /\ r + 1 # r /\ r + 1 > db.desired
    BY <1>1, <1>3 DEF Revs
  <2> QED
    BY <1>1, <1>3, <2>1 DEF DbInv, Sound, Prepared, IsRotation
<1>5. /\ db'.op = [db.op EXCEPT ![i] = o] /\ db'.applied = r + 1
  BY <1>1, <1>3 DEF Publish, PurgeDeleted, Database
<1>6. db'.snap = [f EXCEPT ![r] = [f[r] EXCEPT !.life = "APPLIED"]]
  BY <1>1, <1>3 DEF Publish, PurgeDeleted, Database
<1>7. /\ f[r + 1] = s /\ f[r] = x /\ DOMAIN f = Revs
      /\ \A q \in Revs \ {r + 1} : f[q] = db.snap[q]
  BY <1>3, <1>4
<1> HIDE DEF f
<1>8. /\ db'.snap[r + 1] = s /\ db'.snap[r] = [x EXCEPT !.life = "APPLIED"]
      /\ \A q \in Revs \ {r, r + 1} : db'.snap[q] = db.snap[q]
  BY <1>3, <1>4, <1>6, <1>7
<1>9. /\ s.life = "APPLIED" /\ s.body.clients = x.body.clients
      /\ [x EXCEPT !.life = "APPLIED"].life = "APPLIED"
      /\ [x EXCEPT !.life = "APPLIED"].body = x.body
  BY <1>3 DEF Snapshot, Body
<1>10. Immutable
  BY <1>4, <1>8, <1>9 DEF Immutable
<1>11. /\ db'.snap[r].body.clients = x.body.clients
       /\ db'.snap[r + 1].body.clients = x.body.clients
  BY <1>8, <1>9
<1>12. /\ o.kind = "IP_CHANGE" /\ o.rev = r /\ o.status = "RUNNING"
  BY <1>3 DEF Operation, IsRotation
<1> HIDE DEF o, s, x
<1>13. /\ pc'[i] = to /\ db'.op[i] = o
       /\ \A j \in Ops \ {i} : pc'[j] = pc[j] /\ db'.op[j] = db.op[j]
  BY <1>2, <1>3, <1>5 DEF Goto
<1>14. /\ Active(db, i) /\ Active(db', i)
       /\ \A j \in Ops \ {i} : pc[j] = "off" /\ ~Active(db, j)
  BY <1>1, <1>12, <1>13, Alone DEF Active
<1>15. script[i].state = "ok"
  <2>1. pc[i] \in WorkSteps /\ pc[i] \in Ran
    BY <1>1, Stages DEF Ran, Unpublished
  <2> QED
    BY <2>1, RunningRow DEF Knows
<1>16. \A q : Known(q) => Known(q)'
  BY <1>10 DEF Immutable, Known
<1>17. Known(vps)' /\ \A j \in Ops : Known(script[j].base)'
  BY <1>1, <1>16, Bindings
<1>18. \A j \in Ops : db'.op[j].kind = db.op[j].kind /\ Rev(j)' = Rev(j)
  BY <1>12, <1>13 DEF Rev, IsRotation
<1>19. ASSUME NEW j \in Ops PROVE Tells(j)'
  <2>1. Tells(j) /\ script'[j] = script[j]
    BY <1>1 DEF SInv
  <2>2. Scripted(j)' = Scripted(j) /\ Known(script[j].base)'
    BY <1>17, <2>1 DEF Scripted
  <2>3. CASE j = i
    <3>1. db'.op[i].kind = "IP_CHANGE" /\ db'.op[i].status = "RUNNING"
      BY <1>12, <1>13
    <3>2. pc'[i] # "install_done" /\ Rev(i)' = r
      BY <1>13, <1>18 DEF Rev
    <3>3. db'.applied # 0 /\ LetIn(Rev(i))' = LetIn(db.applied)'
      <4>1. /\ LetIn(Rev(i))' = db'.snap[r].body.clients
            /\ LetIn(db.applied)' = db'.snap[r + 1].body.clients
        BY <1>5, <3>2 DEF LetIn
      <4> QED
        BY <1>4, <1>5, <1>11, <4>1
    <3> QED
      BY <1>1, <1>15, <2>1, <2>2, <2>3, <3>1, <3>2, <3>3 DEF Tells
  <2>4. CASE j # i
    <3>1. /\ pc'[j] = "off" /\ db'.op[j] = db.op[j] /\ ~Active(db', j)
          /\ "off" \notin Published
      BY <1>13, <1>14, <2>4 DEF Active, Published
    <3> QED
      BY <2>1, <2>2, <3>1 DEF Tells
  <2> QED
    BY <2>3, <2>4
<1>20. Agrees'
  <2>1. ~Stained' => ~Stained
    BY <1>1, <1>13, <1>14 DEF Stained, Scripted, Active, Failures
  <2>2. \A j \in Ops : Active(db', j) => j = i
    BY <1>13, <1>14 DEF Active
  <2>3. Scripted(i)'
    BY <1>1, <1>15 DEF Scripted
  <2>4. ~Stained => vps = Rev(i)
    BY <1>14, <1>15 DEF SInv, Agrees
  <2> QED
    BY <1>1, <1>14, <1>18, <2>1, <2>2, <2>3, <2>4 DEF Agrees
<1> QED
  BY <1>17, <1>19, <1>20 DEF SInv

\* A rotation writes down how far it is, goes on, or ends.
LEMMA RotationMarkServes ==
  ASSUME IInv, RInv, SInv, NEW i \in Ops, IsRotation(db, i),
         NEW from \in WorkSteps, NEW to, NEW o \in Going(i),
         Mark(i, from, o, to), Fits(from, to)
  PROVE  SInv'
<1>1. pc[i] # "off" /\ o \in RowsOf(i) /\ o.status \in {"PENDING", "RUNNING"}
  BY DEF Mark, WorkSteps, Going
<1> QED
  BY <1>1, MarkServes DEF IsRotation

\* It goes on without a transaction.
LEMMA RotationMoveServes ==
  ASSUME IInv, RInv, SInv, NEW i \in Ops, IsRotation(db, i),
         NEW from \in WorkSteps, NEW to, Move(i, from, to), Fits(from, to)
  PROVE  SInv'
BY GoServes DEF Move, Quietly, world, WorkSteps

\* run_ip_change, with Aeza.
LEMMA RotationServes ==
  ASSUME IInv, RInv, SInv, NEW i \in Ops, Rotation(i)
  PROVE  SInv'
<1> DEFINE o == db.op[i]
<1>1. IsRotation(db, i)
  BY DEF Rotation
<1>2. WorkSteps = {"get_ipv4_list", "purchase_mark", "purchase", "purchased",
        "purchase_lost", "wait_new_ipv4", "main_mark", "make_main",
        "main_changed", "main_lost", "confirm_main", "wait_ssh", "apply",
        "apply_wait", "applied", "apply_failed", "apply_lost", "health",
        "publish", "cleanup_mark", "cleanup", "cleaned", "cleanup_lost",
        "finish", "finish_awg", "finish_unclear", "undo", "unmake_main",
        "undone", "undo_lost", "give_up", "rotation_dead"}
  BY DEF WorkSteps, Steps, StatusSteps, InstallSteps, RebootSteps
<1>3. /\ pc[i] \in WorkSteps /\ pc[i] # "off"
      /\ o \in Going(i) /\ o \in RowsOf(i) /\ o \in Operation
  <2>1. pc[i] \in WorkSteps
    BY <1>2 DEF Rotation, RotationList, PurchaseMark, Purchase,
       PurchaseRecorded, NewIpAppears, GiveUpEarly, MainMark, MakeMain,
       MainRecorded, ConfirmMain, ApplyMark, Apply, ApplyEnds, ApplyRecorded,
       Health, GiveUpLate, PublishIp, CleanupMark, Cleanup, CleanupRecorded,
       RotationDone, UndoMark, UnmakeMain, UnmakeMainRefused, UndoRecorded,
       GiveUp, Mark, Move, Finish, Request
  <2>2. pc[i] # "off"
    BY <1>2, <2>1
  <2> QED
    BY <2>1, <2>2, GoingRow DEF Going, RowsOf
<1>4. /\ {"PURCHASE_SENDING", "PURCHASE_SENT", "AMBIGUOUS",
          "PURCHASE_CONFIRMED", "MAKE_MAIN_SENDING", "MAIN_CHANGED",
          "MAIN_CONFIRMED", "APPLYING", "APPLIED", "APPLY_FAILED",
          "CLEANUP_SENDING", "CLEANUP_CONFIRMED", "CLEANUP_AMBIGUOUS",
          "ROLLING_BACK", "ROLLED_BACK"} \subseteq ActionStates
      /\ {"SENDING", "SENT", "AMBIGUOUS", "CONFIRMED"} \subseteq Sends
      /\ {"RUNNING", "APPLIED", "FAILED", "AMBIGUOUS"} \subseteq Applies
  BY DEF ActionStates, Sends, Applies
<1>5. ASSUME NEW from, NEW to \in WorkSteps,
             to \in Published => from \in Published
      PROVE  Fits(from, to)
  BY <1>2, <1>5 DEF Fits
<1>6. Published = {"finish_awg", "cleanup_mark", "cleanup", "cleaned",
                   "cleanup_lost", "finish", "finish_unclear"}
  BY DEF Published
<1>7. ASSUME NEW from \in WorkSteps, NEW to \in WorkSteps, NEW q \in Going(i),
             Mark(i, from, q, to), to \in Published => from \in Published
      PROVE  SInv'
  <2>1. Fits(from, to)
    BY <1>5, <1>7
  <2> QED
    BY <1>1, <1>7, <2>1, RotationMarkServes
<1>8. ASSUME NEW from \in WorkSteps, NEW to \in WorkSteps,
             Move(i, from, to), to \in Published => from \in Published
      PROVE  SInv'
  <2>1. Fits(from, to)
    BY <1>5, <1>8
  <2> QED
    BY <1>1, <1>8, <2>1, RotationMoveServes
<1>9. CASE RotationList(i) \/ PurchaseMark(i) \/ PurchaseRecorded(i)
           \/ NewIpAppears(i)
  <2>1. /\ [o EXCEPT !.status = "RUNNING"] \in Going(i)
        /\ [Step(i, "PURCHASE_SENDING") EXCEPT !.purchase = "SENDING"] \in Going(i)
        /\ [o EXCEPT !.action = "PURCHASE_SENT", !.purchase = "SENT"] \in Going(i)
        /\ [o EXCEPT !.action = "AMBIGUOUS", !.purchase = "AMBIGUOUS"] \in Going(i)
        /\ [Step(i, "PURCHASE_CONFIRMED") EXCEPT !.purchase = "CONFIRMED"] \in Going(i)
    BY <1>3, <1>4, GoesOn DEF Step
  <2>2. {"get_ipv4_list", "purchase_mark", "purchase", "purchased",
         "wait_new_ipv4", "purchase_lost", "give_up",
         "main_mark"}
          \subseteq WorkSteps \ Published
    BY <1>2, <1>6
  <2>3. CASE RotationList(i)
    BY <1>7, <2>1, <2>2, <2>3 DEF RotationList
  <2>4. CASE PurchaseMark(i)
    BY <1>7, <2>1, <2>2, <2>4 DEF PurchaseMark
  <2>5. CASE PurchaseRecorded(i)
    BY <1>7, <2>1, <2>2, <2>5 DEF PurchaseRecorded
  <2>6. CASE NewIpAppears(i)
    BY <1>7, <2>1, <2>2, <2>6 DEF NewIpAppears
  <2> QED
    BY <1>9, <2>3, <2>4, <2>5, <2>6
<1>10. CASE MainMark(i) \/ MainRecorded(i) \/ ConfirmMain(i)
  <2>1. /\ [Step(i, "MAKE_MAIN_SENDING") EXCEPT !.main = "SENDING"] \in Going(i)
        /\ [o EXCEPT !.action = "MAIN_CHANGED", !.main = "SENT"] \in Going(i)
        /\ [o EXCEPT !.action = "AMBIGUOUS", !.main = "AMBIGUOUS"] \in Going(i)
        /\ [Step(i, "MAIN_CONFIRMED") EXCEPT !.main = "CONFIRMED"] \in Going(i)
    BY <1>3, <1>4, GoesOn DEF Step
  <2>2. {"main_mark", "make_main", "main_changed", "confirm_main",
         "main_lost", "undo", "wait_ssh"}
          \subseteq WorkSteps \ Published
    BY <1>2, <1>6
  <2>3. CASE MainMark(i)
    BY <1>7, <2>1, <2>2, <2>3 DEF MainMark
  <2>4. CASE MainRecorded(i)
    BY <1>7, <2>1, <2>2, <2>4 DEF MainRecorded
  <2>5. CASE ConfirmMain(i)
    BY <1>7, <2>1, <2>2, <2>5 DEF ConfirmMain
  <2> QED
    BY <1>10, <2>3, <2>4, <2>5
<1>11. CASE ApplyMark(i) \/ ApplyRecorded(i) \/ Health(i)
  <2>1. /\ [o EXCEPT !.status = "RUNNING"] \in Going(i)
        /\ [Step(i, "APPLYING") EXCEPT !.apply = "RUNNING"] \in Going(i)
        /\ [o EXCEPT !.action = "APPLIED", !.apply = "APPLIED"] \in Going(i)
        /\ [o EXCEPT !.action = "APPLY_FAILED", !.apply = "FAILED"] \in Going(i)
        /\ [o EXCEPT !.action = "AMBIGUOUS", !.apply = "AMBIGUOUS"] \in Going(i)
    BY <1>3, <1>4, GoesOn DEF Step
  <2>2. {"wait_ssh", "apply", "applied", "health", "apply_failed",
         "undo", "apply_lost", "publish"}
          \subseteq WorkSteps \ Published
    BY <1>2, <1>6
  <2>3. CASE ApplyMark(i)
    BY <1>7, <2>1, <2>2, <2>3 DEF ApplyMark
  <2>4. CASE ApplyRecorded(i)
    BY <1>7, <2>1, <2>2, <2>4 DEF ApplyRecorded
  <2>5. CASE Health(i)
    BY <1>7, <2>1, <2>2, <2>5 DEF Health
  <2> QED
    BY <1>11, <2>3, <2>4, <2>5
<1>12. CASE CleanupMark(i) \/ CleanupRecorded(i)
  <2>1. /\ Step(i, "CLEANUP_SENDING") \in Going(i)
        /\ [o EXCEPT !.action = "CLEANUP_CONFIRMED"] \in Going(i)
        /\ [o EXCEPT !.action = "CLEANUP_AMBIGUOUS"] \in Going(i)
    BY <1>3, <1>4, GoesOn DEF Step
  <2>2. {"cleanup_mark", "cleanup", "cleaned", "finish",
         "cleanup_lost", "finish_unclear"}
          \subseteq WorkSteps \cap Published
    BY <1>2, <1>6
  <2>3. CASE CleanupMark(i)
    BY <1>7, <2>1, <2>2, <2>3 DEF CleanupMark
  <2>4. CASE CleanupRecorded(i)
    BY <1>7, <2>1, <2>2, <2>4 DEF CleanupRecorded
  <2> QED
    BY <1>12, <2>3, <2>4
<1>13. CASE UndoMark(i) \/ UndoRecorded(i)
  <2>1. /\ [o EXCEPT !.action = "ROLLING_BACK"] \in Going(i)
        /\ [o EXCEPT !.action = "ROLLED_BACK"] \in Going(i)
        /\ [o EXCEPT !.action = "AMBIGUOUS"] \in Going(i)
    BY <1>3, <1>4, GoesOn DEF Step
  <2>2. {"undo", "unmake_main", "undone", "give_up", "undo_lost"}
          \subseteq WorkSteps \ Published
    BY <1>2, <1>6
  <2>3. CASE UndoMark(i)
    BY <1>7, <2>1, <2>2, <2>3 DEF UndoMark
  <2>4. CASE UndoRecorded(i)
    BY <1>7, <2>1, <2>2, <2>4 DEF UndoRecorded
  <2> QED
    BY <1>13, <2>3, <2>4
<1>14. CASE GiveUpEarly(i) \/ ApplyEnds(i) \/ GiveUpLate(i)
            \/ UnmakeMainRefused(i)
  BY <1>2, <1>6, <1>8, <1>14
     DEF GiveUpEarly, ApplyEnds, GiveUpLate, UnmakeMainRefused
<1>15. CASE Purchase(i) \/ MakeMain(i) \/ Cleanup(i) \/ UnmakeMain(i)
  <2>1. PICK from \in WorkSteps, to \in WorkSteps :
          /\ pc[i] = from /\ UNCHANGED <<db, script, vps>> /\ Goto(i, to)
          /\ to \in Published => from \in Published
    BY <1>2, <1>6, <1>15 DEF Purchase, MakeMain, Cleanup, UnmakeMain, Request
  <2>2. Fits(from, to)
    BY <1>5, <2>1
  <2> QED
    BY <1>3, <2>1, <2>2, GoServes
<1>16. CASE Apply(i)
  BY <1>1, <1>16, LaunchServes DEF Apply, IsRotation, Published
<1>17. CASE PublishIp(i)
  BY <1>1, <1>17, PublishServes
<1>18. CASE RotationDone(i)
  <2>1. PICK from \in Published, a \in ActionStates : Finish(i, from, Done(i, a))
    BY <1>6, <1>18 DEF RotationDone, ActionStates
  <2>2. Done(i, a) \in RowsOf(i) /\ Done(i, a).status = "DONE"
    BY <1>3 DEF Done, RowsOf, Operation, Statuses, Terminal
  <2> QED
    BY <1>1, <1>3, <2>1, <2>2, FinishServes DEF IsRotation
<1>19. CASE GiveUp(i)
  <2>1. Finish(i, "give_up", Verdict(o))
    BY <1>19 DEF GiveUp
  <2>2. Verdict(o) \in RowsOf(i) /\ Verdict(o).status \in Failures
    BY <1>3 DEF Verdict, RowsOf, Operation, Statuses, Terminal, Failures,
       ActionStates
  <2> QED
    BY <1>1, <1>3, <2>1, <2>2, FinishServes DEF IsRotation
<1> QED
  BY <1>9, <1>10, <1>11, <1>12, <1>13, <1>14, <1>15, <1>16, <1>17, <1>18, <1>19
     DEF Rotation

\* A transaction fails, or a connection.
LEMMA RotationFaultServes ==
  ASSUME Calm, IInv, RInv, SInv, NEW i \in Ops, RotationFaults(i)
  PROVE  SInv'
<1>1. ASSUME NEW froms, "off" \notin froms, NEW kind,
             NEW to \in {"rotation_dead", "give_up", "undo", "apply_lost",
                        "off"},
             Stumble(i, froms, kind, to)
      PROVE  SInv'
  BY <1>1, StumbleServes DEF Published
<1>2. CASE Stumble(i, {"cleanup_mark", "cleaned"}, "db", "cleanup_lost")
  <2>1. /\ pc[i] \in {"cleanup_mark", "cleaned"} /\ Goto(i, "cleanup_lost")
        /\ UNCHANGED db /\ Still
    BY <1>2, CalmFaults
  <2> QED
    BY <2>1, GoServes DEF Still, Fits, Published
<1> QED
  BY <1>1, <1>2 DEF RotationFaults

-----------------------------------------------------------------------------
(***************************************************************************)
(* The scripts, the administrators and the process.                        *)
(***************************************************************************)
\* A script ends while its operation runs, or after a failure of it that nobody
\* expected.
LEMMA ScriptServes ==
  ASSUME IInv, RInv, SInv, NEW i \in Ops, ScriptEnds(i)
  PROVE  SInv'
<1>1. /\ script[i].state = "running" /\ UNCHANGED <<db, pc>>
      /\ \A j \in Ops : script'[j].base = script[j].base
      /\ \A j \in Ops \ {i} : script'[j] = script[j]
      /\ \/ script'[i].state = "ok" /\ vps' = Rev(i)
         \/ script'[i].state = "failed" /\ vps' \in {vps, script[i].base}
  BY DEF ScriptEnds, IInv, TypeOK
<1>2. Scripted(i) /\ Tells(i)
  BY <1>1 DEF Scripted, SInv
<1>3. /\ Known(Rev(i)) /\ Known(vps) /\ \A j \in Ops : Known(script[j].base)
  BY <1>2, Bindings DEF Tells
<1>4. Known(vps') /\ \A j \in Ops : Scripted(j)' <=> Scripted(j)
  BY <1>1, <1>3 DEF Scripted
<1>5. ASSUME NEW j \in Ops PROVE Tells(j)'
  <2>1. Tells(j)
    BY DEF SInv
  <2>2. CASE j = i
    BY <1>1, <1>2, <2>2 DEF Tells, Scripted, Known, Active, Rev
  <2>3. CASE j # i
    BY <1>1, <2>1, <2>3 DEF Tells, Scripted, Known, Active, Rev, LetIn
  <2> QED
    BY <2>2, <2>3
<1>6. Agrees'
  <2> SUFFICES ASSUME ~Stained'
               PROVE  /\ \A j \in Ops :
                           Active(db, j) /\ script'[j].state = "ok" => vps' = Rev(j)
                      /\ ~\A j \in Ops : Scripted(j) => ~Active(db, j)
    BY <1>1, <1>4 DEF Agrees, Rev
  <2>1. Active(db, i)
    <3>1. db.op[i].status \notin Failures \cup {"DONE", "none"}
      BY <1>1, <1>2, <1>4 DEF Stained, Tells
    <3>2. db.op[i].status \in Statuses
      BY OwnRow DEF Operation
    <3> QED
      BY <3>1, <3>2 DEF Active, Statuses, Terminal, Failures
  <2>2. \A j \in Ops : Active(db, j) => j = i
    BY <2>1 DEF RInv, Leased
  <2> QED
    BY <1>1, <1>2, <2>1, <2>2
<1>7. Known(vps)'
  BY <1>1, <1>4 DEF Known
<1> QED
  BY <1>5, <1>6, <1>7 DEF SInv

\* A row that keeps what its operation's script is judged by, and one that was
\* not there.
Kept(j) ==
  /\ db'.op[j].kind = db.op[j].kind /\ db'.op[j].rev = db.op[j].rev
  /\ db'.op[j].status = db.op[j].status
  /\ db.op[j].kind = "INSTALL" => db'.op[j].action = db.op[j].action
  /\ pc'[j] = pc[j]

Fresh(j) ==
  /\ db.op[j].kind = "none"
  /\ db'.op[j].action = "NOT_STARTED"
  /\ db'.op[j].kind = "INSTALL" => db.applied <= db'.op[j].rev
  /\ pc'[j] \notin Published \cup {"install_done"}

\* What no script and no worker is concerned with.
LEMMA Undisturbed ==
  ASSUME IInv, SInv, Immutable, UNCHANGED <<script, vps>>,
         db'.applied = db.applied, \A j \in Ops : Kept(j) \/ Fresh(j)
  PROVE  SInv'
<1>1. /\ Known(db.applied) /\ Known(vps) /\ \A j \in Ops : Known(script[j].base)
  BY Bindings
<1>2. \A q : Known(q) => Known(q)' /\ (q # 0 => LetIn(q)' = LetIn(q))
  BY StillLets DEF Known
<1>3. Known(vps)' /\ (Same => Same')
  BY <1>1, <1>2 DEF Same
<1>4. \A j \in Ops : Known(script[j].base)' /\ (Scripted(j)' <=> Scripted(j))
  BY <1>1, <1>2 DEF Scripted
<1>5. \A j \in Ops : Scripted(j) => Kept(j)
  BY DEF SInv, Tells, Fresh
<1>6. ASSUME NEW j \in Ops PROVE Tells(j)'
  <2>1. Tells(j) /\ script'[j] = script[j]
    BY DEF SInv
  <2>2. CASE Kept(j)
    <3>1. Rev(j)' = Rev(j) /\ (Active(db', j) <=> Active(db, j))
      BY <2>2 DEF Kept, Rev, Active
    <3>2. pc[j] \in Published => LetIn(Rev(j))' = LetIn(db.applied)'
      <4> SUFFICES ASSUME pc[j] \in Published
                   PROVE  LetIn(Rev(j))' = LetIn(db.applied)'
        OBVIOUS
      <4>1. /\ script[j].state = "ok" /\ db.applied # 0
            /\ LetIn(Rev(j)) = LetIn(db.applied)
        BY <2>1 DEF Tells
      <4>2. Rev(j) # 0 /\ Known(Rev(j))
        BY <2>1, <4>1, Bindings DEF Tells, Scripted
      <4>3. /\ db'.snap[Rev(j)].body = db.snap[Rev(j)].body
            /\ db'.snap[db.applied].body = db.snap[db.applied].body
        BY <1>1, <4>1, <4>2 DEF Immutable, Known
      <4> QED
        BY <3>1, <4>1, <4>3 DEF LetIn
    <3> QED
      BY <1>4, <2>1, <2>2, <3>1, <3>2 DEF Tells, Kept
  <2>3. CASE Fresh(j)
    BY <1>4, <2>1, <2>3 DEF Tells, Fresh, Rev
  <2> QED
    BY <2>2, <2>3
<1>7. Agrees'
  <2> SUFFICES ASSUME ~Stained'
               PROVE  /\ \A j \in Ops :
                           Active(db', j) /\ script[j].state = "ok" => vps = Rev(j)'
                      /\ (\A j \in Ops : Scripted(j) => ~Active(db', j)) => Same'
    BY <1>4 DEF Agrees
  <2>1. ~Stained
    BY <1>4, <1>5 DEF Stained, Kept
  <2>2. \A j \in Ops : Scripted(j) => /\ Active(db', j) <=> Active(db, j)
                                      /\ Rev(j)' = Rev(j)
    BY <1>5 DEF Kept, Active, Rev
  <2> QED
    BY <1>3, <2>1, <2>2 DEF SInv, Agrees, Scripted
<1> QED
  BY <1>3, <1>6, <1>7 DEF SInv

\* A revision that has a snapshot keeps it when it is prepared again.
LEMMA EnsureStill ==
  ASSUME IInv, NEW again \in BOOLEAN
  PROVE  LET e == EnsureSnapshot(db, again)
         IN  /\ e.applied = db.applied
             /\ \A r \in Revs : db.snap[r].life # "none" =>
                  /\ e.snap[r].life # "none"
                  /\ e.snap[r].body = db.snap[r].body
<1> DEFINE e == EnsureSnapshot(db, again)
           s == [life |-> "PREPARED", body |-> Content(db)]
<1>1. /\ db \in Database /\ db.snap \in [Revs -> Snapshot]
      /\ db.desired \in Revs
  BY Fields DEF IInv, DbInv
<1>2. CASE db.snap[db.desired].life = "none"
  <2>1. e = [db EXCEPT !.snap[db.desired] = s]
    BY <1>2 DEF EnsureSnapshot
  <2>2. e.applied = db.applied /\ e.snap = [db.snap EXCEPT ![db.desired] = s]
    BY <1>1, <2>1 DEF Database
  <2> QED
    BY <1>1, <1>2, <2>2
<1>3. CASE /\ db.snap[db.desired].life # "none"
           /\ again /\ db.snap[db.desired].life = "FAILED"
  <2>1. e = [db EXCEPT !.snap[db.desired].life = "PREPARED"]
    BY <1>3 DEF EnsureSnapshot
  <2>2. /\ e.applied = db.applied
        /\ e.snap = [db.snap EXCEPT ![db.desired].life = "PREPARED"]
    BY <1>1, <2>1 DEF Database
  <2> QED
    BY <1>1, <2>2 DEF Snapshot
<1>4. CASE /\ db.snap[db.desired].life # "none"
           /\ ~(again /\ db.snap[db.desired].life = "FAILED")
  <2>1. e = db
    BY <1>4 DEF EnsureSnapshot
  <2> QED
    BY <2>1
<1> QED
  BY <1>2, <1>3, <1>4

\* An operation that begins has run no script.
LEMMA BeginServes ==
  ASSUME IInv, RInv, SInv, NEW i \in Ops, NEW kind \in Kinds \ {"none"},
         NEW rev \in 0 .. MaxRev, NEW step \in Steps, NEW d \in Database,
         d.op = db.op /\ d.lease = db.lease /\ d.expired = db.expired,
         d.applied = db.applied,
         \A r \in Revs : db.snap[r].life # "none" =>
           d.snap[r].life # "none" /\ d.snap[r].body = db.snap[r].body,
         Begin(i, kind, step, CreateOperation(d, i, kind, rev)),
         kind = "INSTALL" => db.applied <= rev,
         step \notin Published \cup {"install_done"}
  PROVE  SInv'
<1>0. /\ \A j \in Ops : pc[j] = "off" /\ ~Active(db, j)
      /\ db'.op = [db.op EXCEPT ![i] = NoOperation(kind, rev)]
      /\ db'.lease = i /\ ~db'.expired
      /\ db'.published = d.published /\ db'.snap = d.snap
      /\ Still /\ Goto(i, step) /\ db.op[i].kind = "none"
  BY BeginSays, Zenon
<1> DEFINE o == NoOperation(kind, rev)
           e == [d EXCEPT !.op[i] = o]
<1>1. o \in Operation /\ o.kind = kind /\ o.rev = rev /\ o.action = "NOT_STARTED"
  BY DEF NoOperation, Operation, Statuses, ActionStates, Sends, Applies
<1>2. /\ db.op \in [Ops -> Operation] /\ pc \in [Ops -> Steps]
      /\ d.op \in [Ops -> Operation]
  BY Fields DEF IInv, TypeOK
<1> HIDE DEF o
<1>3. e \in Database /\ e.applied = d.applied
  BY <1>1, <1>2 DEF Database
<1>4. db' = Acquire(e, i)
  BY DEF Begin, CreateOperation, o
<1> HIDE DEF e
<1>5. db'.applied = db.applied
  BY <1>3, <1>4, AcquireAlike DEF Alike
<1>6. Immutable
  BY <1>0 DEF Immutable
<1>7. /\ db'.op[i] = o /\ pc'[i] = step
      /\ \A j \in Ops \ {i} : db'.op[j] = db.op[j] /\ pc'[j] = pc[j]
  <2>1. db'.op = [db.op EXCEPT ![i] = o]
    BY <1>0 DEF o
  <2> QED
    BY <1>0, <1>2, <2>1 DEF Goto
<1>8. \A j \in Ops : Kept(j) \/ Fresh(j)
  <2>1. Fresh(i)
    BY <1>0, <1>1, <1>7 DEF Fresh
  <2> QED
    BY <1>7, <2>1 DEF Kept
<1>9. UNCHANGED <<script, vps>>
  BY <1>0 DEF Still
<1> QED
  BY <1>5, <1>6, <1>8, <1>9, Undisturbed

\* The four operations an administrator may start.
LEMMA StartServes ==
  ASSUME IInv, RInv, SInv, NEW i \in Ops,
         StartInstall(i) \/ StartRotation(i) \/ StartReboot(i) \/ StartStatus(i)
  PROVE  SInv'
<1>1. /\ db \in Database /\ db.desired \in 0 .. MaxRev /\ 0 \in 0 .. MaxRev
      /\ db.applied <= db.desired
  BY Fields, Bounds DEF IInv, DbInv, Sound, Revs
<1>2. /\ {"install", "get_ipv4_list", "reboot", "status"} \subseteq Steps
      /\ {"install", "get_ipv4_list", "reboot", "status"}
            \cap (Published \cup {"install_done"}) = {}
      /\ {"INSTALL", "IP_CHANGE", "REBOOT", "STATUS"} \subseteq Kinds \ {"none"}
  BY DEF Steps, Published, Kinds
<1>3. CASE StartInstall(i)
  <2> DEFINE d == EnsureSnapshot(db, TRUE)
  <2>1. /\ d \in Database /\ d.op = db.op /\ d.lease = db.lease
        /\ d.expired = db.expired
    BY <1>3, EnsureSays DEF StartInstall
  <2>2. /\ d.applied = db.applied
        /\ \A r \in Revs : db.snap[r].life # "none" =>
             d.snap[r].life # "none" /\ d.snap[r].body = db.snap[r].body
    BY EnsureStill
  <2>3. Begin(i, "INSTALL", "install",
              CreateOperation(d, i, "INSTALL", db.desired))
    BY <1>3 DEF StartInstall, PrepareInstall
  <2> HIDE DEF d
  <2> QED
    BY <1>1, <1>2, <2>1, <2>2, <2>3, BeginServes
<1>4. CASE StartRotation(i)
  <2> DEFINE d == EnsureSnapshot(db, FALSE)
  <2>1. /\ d \in Database /\ d.op = db.op /\ d.lease = db.lease
        /\ d.expired = db.expired
    BY <1>4, EnsureSays DEF StartRotation
  <2>2. /\ d.applied = db.applied
        /\ \A r \in Revs : db.snap[r].life # "none" =>
             d.snap[r].life # "none" /\ d.snap[r].body = db.snap[r].body
    BY EnsureStill
  <2>3. Begin(i, "IP_CHANGE", "get_ipv4_list",
              CreateOperation(d, i, "IP_CHANGE", db.desired))
    BY <1>4 DEF StartRotation, PrepareRotation
  <2> HIDE DEF d
  <2> QED
    BY <1>1, <1>2, <2>1, <2>2, <2>3, BeginServes
<1>5. CASE StartReboot(i)
  <2>1. Begin(i, "REBOOT", "reboot", CreateOperation(db, i, "REBOOT", 0))
    BY <1>5 DEF StartReboot
  <2> QED
    BY <1>1, <1>2, <2>1, BeginServes
<1>6. CASE StartStatus(i)
  <2>1. Begin(i, "STATUS", "status", CreateOperation(db, i, "STATUS", 0))
    BY <1>6 DEF StartStatus
  <2> QED
    BY <1>1, <1>2, <2>1, BeginServes
<1> QED
  BY <1>3, <1>4, <1>5, <1>6

\* An edit concerns only what is desired.
LEMMA EditServes ==
  ASSUME IInv, SInv, UNCHANGED <<pc, script, vps>>,
         db'.op = db.op, db'.applied = db.applied, db'.snap = db.snap
  PROVE  SInv'
BY Undisturbed DEF Immutable, Kept

\* A client is added, switched, or removed, or a setting changes.
LEMMA EditsServe ==
  ASSUME IInv, SInv,
         \/ \E c \in Clients : AddClient(c) \/ ToggleClient(c) \/ RemoveClient(c)
         \/ ChangeSetting \/ \E a \in Addresses : ChangeAddress(a)
  PROVE  SInv'
<1>1. db \in Database
  BY DEF IInv, TypeOK
<1>2. ASSUME NEW d, Edit(d), d.op = db.op, d.applied = db.applied,
             d.snap = db.snap
      PROVE  SInv'
  BY <1>2, EditServes DEF Edit, world
<1>3. CASE ChangeSetting
  BY <1>1, <1>2, <1>3 DEF ChangeSetting, NewRevision, Database
<1>4. ASSUME NEW c \in Clients, NEW state, Edit(SetClientEnabled(db, c, state))
      PROVE  SInv'
  BY <1>1, <1>2, <1>4 DEF SetClientEnabled, NewRevision, Database
<1>5. ASSUME NEW c \in Clients, AddClient(c) \/ ToggleClient(c) PROVE SInv'
  BY <1>4, <1>5 DEF AddClient, ToggleClient, CreateClient, SetClientEnabled
<1>6. ASSUME NEW c \in Clients, RemoveClient(c) PROVE SInv'
  BY <1>1, <1>2, <1>6 DEF RemoveClient, DeleteClient, NewRevision, Database
<1>7. ASSUME NEW a \in Addresses, ChangeAddress(a) PROVE SInv'
  BY <1>1, <1>2, <1>7 DEF ChangeAddress, SetCurrentIp, NewRevision, Database
<1> QED
  BY <1>3, <1>5, <1>6, <1>7

\* The decision on a rotation changes what is said of it, not how it ended.
LEMMA ReconcileServes ==
  ASSUME IInv, SInv, NEW i \in Ops, Reconcile(i)
  PROVE  SInv'
<1>1. /\ IsRotation(db, i) /\ db' = Reconciled(db, i)
      /\ UNCHANGED <<pc, script, vps>>
  BY DEF Reconcile, CanReconcile
<1>2. db \in Database /\ db.op \in [Ops -> Operation]
  BY Fields DEF IInv, TypeOK
<1>3. /\ db'.op = [db.op EXCEPT ![i].action = "RECONCILED"]
      /\ db'.applied = db.applied /\ db'.snap = db.snap
  BY <1>1, <1>2 DEF Reconciled, Database
<1>4. \A j \in Ops : Kept(j)
  BY <1>1, <1>2, <1>3 DEF Kept, IsRotation, Operation
<1> QED
  BY <1>1, <1>3, <1>4, Undisturbed DEF Immutable

\* What _fail_owner makes of an operation of ours that it finds unfinished.
LEMMA InterruptedFailure ==
  ASSUME NEW o \in Operation,
         o.action \notin {"WAITING_SSH", "SSH_WAIT_QUEUED"}
  PROVE  LET q == Interrupted(o)
         IN  /\ q.kind = o.kind /\ q.status \in {"AMBIGUOUS", "FAILED"}
             /\ o.kind = "INSTALL" => q.action = o.action
<1>1. ~OnlyWaited(o)
  BY DEF OnlyWaited
<1>2. CASE MayHaveActed(o)
  BY <1>1, <1>2 DEF Interrupted, MayHaveActed, Operation
<1>3. CASE ~MayHaveActed(o)
  <2>1. Interrupted(o) =
          [o EXCEPT !.status = "FAILED",
                    !.action = IF o.kind = "IP_CHANGE" THEN "NOT_STARTED"
                                                       ELSE @]
    BY <1>1, <1>3 DEF Interrupted
  <2> QED
    BY <2>1 DEF Operation
<1> QED
  BY <1>2, <1>3

\* The panel starts again: what ran a script has failed, or has to be looked at.
LEMMA RestartServes ==
  ASSUME IInv, RInv, SInv,
         Restart \/ \E env \in Environments : ChangeEnvironment(env)
  PROVE  SInv'
<1> DEFINE d == RecoverIncomplete(db)
<1>1. /\ db'.op = d.op /\ db'.snap = d.snap /\ db'.applied = d.applied
      /\ pc' = [j \in Ops |-> "off"] /\ UNCHANGED <<script, vps>>
  BY StartsAgain DEF Still
<1>2. /\ db \in Database /\ \A j \in Ops : db.op[j] \in Operation
  BY Fields DEF IInv, TypeOK
<1>3. \A j \in Ops : db'.op[j] = IF Active(db, j) THEN Interrupted(db.op[j])
                                                  ELSE db.op[j]
  BY <1>1, <1>2 DEF RecoverIncomplete, FailOwners, Database
<1>4. Alike(db, d)
  BY <1>2, RecoverAlike
<1> HIDE DEF d
<1>5. Immutable /\ db'.applied = db.applied
  BY <1>1, <1>4 DEF Alike, Immutable
<1>6. ASSUME NEW j \in Ops, Active(db, j),
             db.op[j].kind \in {"INSTALL", "IP_CHANGE"}
      PROVE  /\ db'.op[j].status \in {"AMBIGUOUS", "FAILED"}
             /\ db.op[j].kind = "INSTALL" => db'.op[j].action = db.op[j].action
  <2>1. db.op[j].action \notin {"WAITING_SSH", "SSH_WAIT_QUEUED"}
    BY <1>6 DEF SInv, Tells, RInv, Written, IsRotation
  <2> QED
    BY <1>2, <1>3, <1>6, <2>1, InterruptedFailure
<1>7. ASSUME NEW j \in Ops
      PROVE  ~Active(db', j) /\ pc'[j] = "off" /\ db'.op[j].kind = db.op[j].kind
  BY <1>1, <1>2, <1>3, InterruptedEnds DEF Active
<1>8. /\ Known(db.applied) /\ Known(vps) /\ \A j \in Ops : Known(script[j].base)
  BY Bindings
<1>9. \A q : Known(q) => Known(q)' /\ (q # 0 => LetIn(q)' = LetIn(q))
  BY <1>5, StillLets DEF Known
<1>10. Known(vps)' /\ (Same => Same')
  BY <1>1, <1>5, <1>8, <1>9 DEF Same
<1>11. \A j \in Ops : Known(script[j].base)' /\ (Scripted(j)' <=> Scripted(j))
  BY <1>1, <1>8, <1>9 DEF Scripted
<1>12. ASSUME NEW j \in Ops PROVE Tells(j)'
  <2>1. Tells(j) /\ script'[j] = script[j]
    BY <1>1 DEF SInv
  <2>2. "off" \notin Published
    BY DEF Published
  <2>3. CASE Active(db, j)
    BY <1>6, <1>7, <1>11, <2>1, <2>2, <2>3 DEF Tells
  <2>4. CASE ~Active(db, j)
    BY <1>3, <1>7, <1>11, <2>1, <2>2, <2>4 DEF Tells
  <2> QED
    BY <2>3, <2>4
<1>13. Agrees'
  <2> SUFFICES ASSUME ~Stained' PROVE Same'
    <3>1. \A j \in Ops : ~Active(db', j)
      BY <1>7
    <3> QED
      BY <3>1 DEF Agrees
  <2>1. ASSUME NEW j \in Ops, Scripted(j) PROVE ~Active(db, j)
    <3> SUFFICES ASSUME Active(db, j) PROVE FALSE
      OBVIOUS
    <3>1. db.op[j].kind \in {"INSTALL", "IP_CHANGE"}
      BY <2>1 DEF SInv, Tells
    <3>2. db'.op[j].status \in Failures
      BY <1>6, <3>1 DEF Failures
    <3> QED
      BY <1>11, <2>1, <3>2 DEF Stained
  <2>2. ~Stained
    BY <1>3, <1>11, <2>1 DEF Stained
  <2> QED
    BY <1>10, <2>1, <2>2 DEF SInv, Agrees
<1> QED
  BY <1>10, <1>12, <1>13 DEF SInv

-----------------------------------------------------------------------------
(***************************************************************************)
(* The theorems.                                                           *)
(***************************************************************************)
\* At first no script has run, and nothing is applied.
LEMMA InitServes ==
  ASSUME Init
  PROVE  SInv
<1>1. /\ vps = 0 /\ db.applied = 0
      /\ \A j \in Ops : /\ pc[j] = "off" /\ db.op[j].kind = "none"
                        /\ script[j].state = "none" /\ script[j].base = 0
  BY DEF Init, InitialDatabase, NoOperation
<1>2. Known(vps) /\ Same /\ \A j \in Ops : Known(script[j].base)
  BY <1>1 DEF Known, Same
<1>3. "off" \notin Published
  BY DEF Published
<1> QED
  BY <1>1, <1>2, <1>3 DEF SInv, Tells, Agrees, Scripted

\* Every step keeps the invariant.
LEMMA NextServes ==
  ASSUME Calm, IInv, RInv, SInv, [Next]_vars
  PROVE  SInv'
<1>1. CASE UNCHANGED vars
  <2>1. UNCHANGED <<db, pc, script, vps>>
    BY <1>1 DEF vars, world
  <2> QED
    BY <2>1, EditServes
<1>2. ASSUME NEW i \in Ops, Worker(i) \/ WorkerFaults(i)
      PROVE  SInv'
  BY <1>2, InstallServes, RotationServes, RotationFaultServes, OtherServes
     DEF Worker, WorkerFaults
<1>3. ASSUME NEW i \in Ops,
             \/ ScriptEnds(i) \/ Reconcile(i)
             \/ StartInstall(i) \/ StartRotation(i)
             \/ StartReboot(i) \/ StartStatus(i)
      PROVE  SInv'
  BY <1>3, ScriptServes, ReconcileServes, StartServes
<1>4. CASE \/ \E c \in Clients : AddClient(c) \/ ToggleClient(c) \/ RemoveClient(c)
           \/ ChangeSetting \/ \E a \in Addresses : ChangeAddress(a)
  BY <1>4, EditsServe
<1>5. CASE Restart \/ \E env \in Environments : ChangeEnvironment(env)
  BY <1>5, RestartServes
<1>6. ~Expire
  BY DEF Calm, Expire, Spend
<1> QED
  BY <1>1, <1>2, <1>3, <1>4, <1>5, <1>6 DEF Next

\* The invariant of the scripts and of what the server serves, with any number
\* of operations and revisions (eu_install.py, ip_change.py, vpn_state.py).
THEOREM ServedInductive ==
  ASSUME Calm
  PROVE  Spec => []SInv
<1>1. Init => SInv
  BY InitServes
<1>2. IInv /\ RInv /\ SInv /\ [Next]_vars => SInv'
  BY NextServes
<1> QED
  BY <1>1, <1>2, DatabaseInductive, RotationInductive, PTL DEF Spec

\* As long as every operation that ran a script on the server is done, the
\* server lets in the clients of the applied revision (vpn_state.py,
\* complete_install_operation and publish_ip_change).
THEOREM AppliedStaysServed ==
  ASSUME Calm
  PROVE  Spec => []AppliedIsServed
<1>1. SInv => AppliedIsServed
  <2> SUFFICES ASSUME SInv,
                      \A i \in Ops : script[i].state # "none" =>
                        db.op[i].status = "DONE"
               PROVE  Same
    BY DEF AppliedIsServed, Same, LetIn
  <2>1. ~Stained /\ \A i \in Ops : Scripted(i) => ~Active(db, i)
    BY DEF Stained, Scripted, Failures, Active
  <2> QED
    BY <2>1 DEF SInv, Agrees
<1> QED
  BY <1>1, ServedInductive, PTL
=============================================================================
