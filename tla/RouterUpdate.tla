----------------------------- MODULE RouterUpdate -----------------------------
(***************************************************************************)
(* One AutoVPN router: the controller that fetches a configuration         *)
(* snapshot, applies it as a journalled transaction, verifies the tunnel,  *)
(* rolls back on failure and reports the outcome, together with the VPN    *)
(* lane it drives (bundles on flash, sing-box, the forwarding guard) and   *)
(* the part of the server the router talks to.                             *)
(*                                                                         *)
(* The controller commands are serialised by flock in autovpnctl, and the  *)
(* children of a command inherit that lock, so at most one job runs.  Its  *)
(* position is pc.  Every durable write, every start and stop of the       *)
(* service, every change of the guard and every network exchange is a step *)
(* of its own: a crash or a power loss may fall between any two of them.   *)
(***************************************************************************)
EXTENDS RouterJournal

CONSTANTS
  Policies,    \* values of the local UCI policy (autovpn.runtime)
  Awg,         \* the kernel transport, whose interface may fail to come up
  FaultKinds,  \* which of AllFaults may happen
  MaxFaults,   \* bound: how many of them in a behaviour
  MaxEdits,    \* bound: publications, policy edits and apply-policy commands
  MaxSeq       \* bound: a job that may apply starts only up to this sequence

AllFaults == {"write", "runtime", "probe", "net", "crash", "power"}

Bundle == [etag : Etags, attempt : Nat, policy : Policies, profile : Profiles]

ASSUME RouterAssumption ==
  /\ None \notin Etags \cup Profiles
  /\ None \notin Entry /\ None \notin Report /\ None \notin Bundle
  /\ None \notin Journal
  /\ Awg \in Profiles \cup {None}
  /\ FaultKinds \subseteq AllFaults
  /\ MaxFaults \in Nat /\ MaxEdits \in Nat /\ MaxSeq \in Nat

VARIABLES
  disk,      \* journal.json
  prev,      \* runtime/previous.json
  cur,       \* runtime/current.json
  run,       \* runtime/run.json, the file sing-box runs
  svc,       \* is the sing-box service running
  grd,       \* the nft guard of the VPN lane: "open" forwards clients
  pc,        \* the next step of the running job, "idle" when there is none
  cmd,       \* the controller command of the job
  applying,  \* has the job entered applyDesired
  act,       \* the runtime-lane action the job is in
  sw,        \* why a staged profile awaits confirmation, "no" if none does
  mem,       \* the job's copy of the journal
  cand,      \* candidate.json, with failover.json while a switch is staged
  prep,      \* runtime/prepared.json
  published, \* the snapshot the server would answer with
  accepted,  \* apply results the server has recorded
  uci,       \* the saved local policy
  faults,    \* faults left
  edits      \* edits left

flash   == <<prev, cur>>
lane    == <<run, svc, grd>>
job     == <<cmd, applying, act, sw, mem, cand, prep>>
server  == <<published, accepted>>
admin   == <<uci, edits>>
vars    == <<disk, prev, cur, run, svc, grd, pc, cmd, applying, act, sw, mem,
             cand, prep, published, accepted, uci, faults, edits>>

Commands == {"refresh", "recover", "apply-policy", "health-tick", "stop"}
Actions  == {"activate", "verify", "rollback", "restore", "health-tick"}
Steps == {"idle", "halt", "applyFailed", "rollback", "failClosed",
          "rolledBackFalse", "rolledBackTrue", "restore", "restoreFailed",
          "report", "reportAccepted", "fetch", "force", "save", "begin",
          "prepare", "prepared", "activating", "savePrevious", "saveCurrent",
          "close", "writeRun", "startService", "activated", "verify", "probe",
          "confirm", "commitProfile", "open", "commit", "tick", "monitor",
          "tickFailed", "tickSave", "tickLost"}

TypeOK ==
  /\ disk \in Journal
  /\ prev \in Bundle \cup {None}
  /\ cur \in Bundle \cup {None}
  /\ run \in Bundle \cup {None}
  /\ svc \in BOOLEAN
  /\ grd \in {"open", "closed"}
  /\ pc \in Steps
  /\ cmd \in Commands \cup {"none"}
  /\ applying \in BOOLEAN
  /\ act \in Actions \cup {"none"}
  /\ sw \in {"no", "failover", "fallback"}
  /\ mem \in Journal \cup {None}
  /\ cand \in Bundle \cup {None}
  /\ prep \in Bundle \cup {None}
  /\ published \in Etags
  /\ accepted \subseteq Report
  /\ uci \in Policies
  /\ faults \in Nat
  /\ edits \in Nat

Init ==
  /\ disk = InitialState
  /\ prev = None /\ cur = None /\ run = None
  /\ svc = FALSE /\ grd = "closed"
  /\ pc = "idle" /\ cmd = "none" /\ applying = FALSE
  /\ act = "none" /\ sw = "no"
  /\ mem = None /\ cand = None /\ prep = None
  /\ published \in Etags
  /\ accepted = {}
  /\ uci \in Policies
  /\ faults = MaxFaults
  /\ edits = MaxEdits

-----------------------------------------------------------------------------
(***************************************************************************)
(* Bundles.  A bundle is rendered from a journal entry, the local policy   *)
(* and a profile; matchesBundle renders it again and compares, so a bundle *)
(* matches the one entry it was made for.                                  *)
(***************************************************************************)
\* Slip: a bundle is written before a profile has been selected.
BundleUnselected(entry, policy, profile) ==
  [etag |-> entry.etag, attempt |-> entry.attempt,
   policy |-> policy, profile |-> None]

BundleOf(entry, policy, profile) ==
  [etag |-> entry.etag, attempt |-> entry.attempt,
   policy |-> policy, profile |-> profile]

MatchesBundle(b, entry) ==
  /\ b # None /\ entry # None
  /\ b.etag = entry.etag /\ b.attempt = entry.attempt

\* cmp -s candidate.json run.json: the generated configuration has no attempt.
SameConfig(a, b) ==
  /\ a # None /\ b # None
  /\ a.etag = b.etag /\ a.policy = b.policy /\ a.profile = b.profile

\* Slip: current.json is taken for the applied bundle, whatever it is.
KeptUnchecked(entry) == cur

\* The bundle that rollback and restore bring back, None if there is none.
Kept(entry) ==
  IF MatchesBundle(cur, entry) THEN cur
  ELSE IF MatchesBundle(prev, entry) THEN prev ELSE None

\* runtime-helper.uc reads the journal from flash again on every call.
JournalReadable == ValidState(disk)

\* Whose bundle a probe, a profile switch and its commit may be about.
ProbeEntry ==
  CASE disk.phase \in {"ACTIVATING", "VERIFYING"}  -> disk.desired
    [] disk.phase \in {"IDLE", "ROLLING_BACK"}     -> disk.applied
    [] OTHER -> None

CanSwitch == JournalReadable /\ MatchesBundle(cur, ProbeEntry)
InfoLive  == CanSwitch /\ SameConfig(cur, run)

(***************************************************************************)
(* The frame of a step.                                                    *)
(***************************************************************************)
At(step)   == pc = step
Goto(step) == pc' = step
NoFault    == UNCHANGED faults
Fault(kind) ==
  /\ kind \in FaultKinds
  /\ faults > 0
  /\ faults' = faults - 1

\* A step that needs ok fails without it, and by a fault with it.
Breaks(kind, ok) == IF ok THEN Fault(kind) ELSE NoFault

\* Nothing of a job outlives it: every file in cand and prep is rewritten by
\* the next job before that job reads it.
JobGone ==
  /\ pc' = "idle" /\ cmd' = "none" /\ applying' = FALSE
  /\ act' = "none" /\ sw' = "no"
  /\ mem' = None /\ cand' = None /\ prep' = None

\* persist(): journal.json is replaced atomically, or stays as it was.
Persist(j) == disk' = j /\ NoFault
PersistFails == UNCHANGED disk /\ Fault("write")

\* Where the controller goes on when the lane action in progress is done or
\* has failed.
AfterAction ==
  CASE act = "activate"    -> "activated"
    [] act = "verify"      -> "commit"
    [] act = "rollback"    -> "rolledBackTrue"
    [] act = "restore"     -> "report"
    [] act = "health-tick" -> "tickSave"
    [] OTHER -> "idle"

ActionFailed ==
  CASE act \in {"activate", "verify"} -> "applyFailed"
    [] act = "rollback"    -> "failClosed"
    [] act = "restore"     -> "restoreFailed"
    [] act = "health-tick" -> "tickFailed"
    [] OTHER -> "idle"

-----------------------------------------------------------------------------
(***************************************************************************)
(* Starting a job: the dispatch at the end of controller.uc.               *)
(***************************************************************************)
CanStart ==
  /\ At("idle")
  /\ UNCHANGED <<disk, flash, lane, server, faults>>

StartJob(c, first) ==
  /\ CanStart
  /\ JournalReadable
  /\ cmd' = c
  /\ mem' = disk
  /\ UNCHANGED <<applying, act, sw, cand, prep>>
  /\ Goto(first)

Refresh ==
  /\ disk.seq <= MaxSeq
  /\ StartJob("refresh", IF RecoverRequired(disk) THEN "applyFailed"
                                                  ELSE "restore")
  /\ UNCHANGED admin

Recover ==
  /\ RecoverRequired(disk)
  /\ disk.seq <= MaxSeq
  /\ StartJob("recover", "applyFailed")
  /\ UNCHANGED admin

ApplyPolicy ==
  /\ edits > 0
  /\ disk.seq <= MaxSeq
  /\ StartJob("apply-policy", IF RecoverRequired(disk) THEN "applyFailed"
                                                       ELSE "report")
  /\ edits' = edits - 1
  /\ UNCHANGED uci

HealthTick ==
  /\ disk.phase = "IDLE" /\ disk.applied # None
  /\ StartJob("health-tick", "tick")
  /\ UNCHANGED admin

\* autovpnctl stop, and any command that finds a journal it cannot accept.
Stop(c) ==
  /\ CanStart
  /\ c = "stop" \/ ~JournalReadable
  /\ cmd' = c
  /\ UNCHANGED <<applying, act, sw, mem, cand, prep, admin>>
  /\ Goto("halt")

\* Slip: the service is stopped, the guard is not touched.
StoppedOnly ==
  /\ svc' = FALSE
  /\ UNCHANGED <<run, grd>>
  /\ NoFault

(***************************************************************************)
(* runtime-lane closed(): the guard is closed, then the service stopped.   *)
(* It reports success only if both worked; each is tried on its own.       *)
(***************************************************************************)
LaneClosed ==
  /\ grd' = "closed" /\ svc' = FALSE
  /\ UNCHANGED run
  /\ NoFault

LaneNotClosed ==
  /\ grd' \in {grd, "closed"} /\ svc' \in {svc, FALSE}
  /\ UNCHANGED run
  /\ Fault("runtime")

\* Close whatever comes of it and go on.
CloseAndGoto(step) ==
  /\ LaneClosed \/ LaneNotClosed
  /\ Goto(step)

Halt ==
  /\ At("halt")
  /\ LaneClosed \/ LaneNotClosed
  /\ JobGone
  /\ UNCHANGED <<disk, flash, server, admin>>

-----------------------------------------------------------------------------
(***************************************************************************)
(* orchestration.uc rollbackDesired.                                       *)
(***************************************************************************)
\* Best effort: when the write fails the older phase stays on flash, and the
\* rollback below reads that.
ApplyFailedStep ==
  /\ At("applyFailed")
  /\ mem.desired # None
  /\ Persist(ApplyFailed(mem)) \/ PersistFails
  /\ mem' = ApplyFailed(mem)
  /\ act' = "rollback"
  /\ Goto("rollback")
  /\ UNCHANGED <<flash, lane, cmd, applying, sw, cand, prep, server, admin>>

\* Rollback and restore bring back the bundle of the applied entry, or close
\* the lane if there has been none.
CanRestore ==
  JournalReadable /\ (disk.applied = None \/ Kept(disk.applied) # None)

\* The lane's rollback, up to the point where it starts the service again.
RollbackStep ==
  /\ At("rollback")
  /\ \/ /\ JournalReadable /\ disk.applied = None
        /\ LaneClosed
        /\ Goto("rolledBackTrue")
        /\ UNCHANGED <<cur, cand>>
     \/ /\ JournalReadable /\ Kept(disk.applied) # None
        /\ cur' = Kept(disk.applied) /\ cand' = cur'
        /\ Goto("close")
        /\ UNCHANGED lane /\ NoFault
     \/ /\ Breaks("runtime", CanRestore)
        /\ Goto("failClosed")
        /\ UNCHANGED <<cur, cand, lane>>
  /\ UNCHANGED <<disk, prev, cmd, applying, act, sw, mem, prep, server, admin>>

FailClosed ==
  /\ At("failClosed")
  /\ CloseAndGoto("rolledBackFalse")
  /\ UNCHANGED <<disk, flash, job, server, admin>>

\* A refused recovery ends the command; a failed apply goes on to report.
RolledBackFalse ==
  /\ At("rolledBackFalse")
  /\ LET j == RolledBack(mem, FALSE)
     IN  /\ Persist(j) \/ PersistFails
         /\ IF applying
            THEN /\ mem' = j
                 /\ Goto("report")
                 /\ UNCHANGED <<cmd, applying, act, sw, cand, prep>>
            ELSE JobGone
  /\ UNCHANGED <<flash, lane, server, admin>>

AfterRollback ==
  IF ~applying /\ cmd = "refresh" THEN "restore" ELSE "report"

RolledBackTrue ==
  /\ At("rolledBackTrue")
  /\ LET p == IF disk.applied = None THEN mem.profile ELSE cur.profile
         j == RolledBack([mem EXCEPT !.profile = p], TRUE)
     IN  \/ /\ Persist(j)
            /\ cmd # "recover"
            /\ mem' = j
            /\ Goto(AfterRollback)
            /\ UNCHANGED <<cmd, applying, act, sw, cand, prep>>
         \/ Persist(j) /\ cmd = "recover" /\ JobGone
         \/ PersistFails /\ JobGone
  /\ UNCHANGED <<flash, lane, server, admin>>

-----------------------------------------------------------------------------
(***************************************************************************)
(* controller.uc refresh and applyPolicy.                                  *)
(***************************************************************************)
\* The lane's restore.  A running service with the same configuration is
\* kept as it is, its guard included.
RestoreStep ==
  /\ At("restore")
  /\ act' = "restore"
  /\ \/ /\ JournalReadable /\ disk.applied = None
        /\ LaneClosed
        /\ Goto("report")
        /\ UNCHANGED <<cur, cand>>
     \/ /\ JournalReadable /\ Kept(disk.applied) # None
        /\ cur' = Kept(disk.applied) /\ cand' = cur'
        /\ Goto(IF svc /\ SameConfig(cand', run) THEN "report" ELSE "close")
        /\ UNCHANGED lane /\ NoFault
     \/ /\ Breaks("runtime", CanRestore)
        /\ Goto("restoreFailed")
        /\ UNCHANGED <<cur, cand, lane>>
  /\ UNCHANGED <<disk, prev, cmd, applying, sw, mem, prep, server, admin>>

\* runtime-adapter closes the lane, and so does the controller if that fails.
RestoreFailed ==
  /\ At("restoreFailed")
  /\ CloseAndGoto("report")
  /\ UNCHANGED <<disk, flash, job, server, admin>>

\* Slip: a report that could not be delivered does not end the refresh.
GoOnUnreported ==
  /\ At("report")
  /\ ~applying
  /\ Goto(IF cmd = "refresh" THEN "fetch" ELSE "force")
  /\ UNCHANGED <<disk, flash, lane, job, server, admin, faults>>

\* What follows reportPending in the running command.
NothingToReport ==
  /\ At("report")
  /\ mem.pending = None
  /\ ~applying
  /\ Goto(IF cmd = "refresh" THEN "fetch" ELSE "force")
  /\ UNCHANGED <<disk, flash, lane, job, server, admin, faults>>

\* Slip: a repeated result is refused like a conflicting one.
TakesNoReplay(r) ==
  r.etag = published /\ \A a \in accepted : Key(a) # Key(r)

(***************************************************************************)
(* router_api.py and router_apply_results.py: a result with a known key is *)
(* replayed if it is the same result and refused otherwise; a new one needs*)
(* If-Match to name the snapshot the server publishes now.                 *)
(***************************************************************************)
ServerTakes(r) ==
  \/ \E a \in accepted : Key(a) = Key(r) /\ Body(a) = Body(r) /\ a.etag = r.etag
  \/ r.etag = published /\ \A a \in accepted : Key(a) # Key(r)

\* The helper refuses to send what journal.json does not hold.
Sendable == disk.pending = mem.pending

PutResult ==
  /\ At("report")
  /\ mem.pending # None
  /\ Sendable /\ ServerTakes(mem.pending)
  /\ accepted' = accepted \cup {mem.pending}
  /\ \/ /\ Goto("reportAccepted")
        /\ NoFault
        /\ UNCHANGED job
     \/ /\ Fault("net")             \* the answer is lost
        /\ JobGone
  /\ UNCHANGED <<disk, flash, lane, published, admin>>

\* Refused, lost on the way or not sent at all.
PutRefused ==
  /\ At("report")
  /\ mem.pending # None
  /\ Breaks("net", Sendable /\ ServerTakes(mem.pending))
  /\ JobGone
  /\ UNCHANGED <<disk, flash, lane, server, admin>>

ReportAcceptedStep ==
  /\ At("reportAccepted")
  /\ \/ /\ Persist(ReportAccepted(mem))
        /\ ~applying
        /\ mem' = ReportAccepted(mem)
        /\ Goto(IF cmd = "refresh" THEN "fetch" ELSE "force")
        /\ UNCHANGED <<cmd, applying, act, sw, cand, prep>>
     \/ Persist(ReportAccepted(mem)) /\ applying /\ JobGone
     \/ PersistFails /\ JobGone
  /\ UNCHANGED <<flash, lane, server, admin>>

\* 304 and the applied ETag change nothing; neither does a lost answer, nor a
\* snapshot older than the applied one.
FetchNothing ==
  /\ At("fetch")
  /\ \/ NoFault /\ mem.applied # None /\ mem.applied.etag = published
     \/ NoFault /\ published \notin Malformed /\ Regresses(mem, published)
     \/ Fault("net")
  /\ JobGone
  /\ UNCHANGED <<disk, flash, lane, server, admin>>

IsNew == mem.applied # None => mem.applied.etag # published

FetchMalformed ==
  /\ At("fetch")
  /\ IsNew /\ published \in Malformed
  /\ Persist(RejectSnapshot(mem, published)) \/ PersistFails
  /\ JobGone
  /\ UNCHANGED <<flash, lane, server, admin>>

FetchNew ==
  /\ At("fetch")
  /\ IsNew /\ published \notin Malformed /\ ~Regresses(mem, published)
  /\ mem' = ReceiveSnapshot(mem, published)
  /\ Goto("save")
  /\ UNCHANGED <<disk, flash, lane, cmd, applying, act, sw, cand, prep,
                 server, admin, faults>>

\* apply-policy takes the applied snapshot again, as a new attempt.
ForceApplied ==
  /\ At("force")
  /\ mem.applied # None
  /\ mem' = ReceiveSnapshot(mem, mem.applied.etag)
  /\ Goto("save")
  /\ UNCHANGED <<disk, flash, lane, cmd, applying, act, sw, cand, prep,
                 server, admin, faults>>

ForceNothing ==
  /\ At("force")
  /\ mem.applied = None
  /\ JobGone
  /\ UNCHANGED <<disk, flash, lane, server, admin, faults>>

SaveReady ==
  /\ At("save")
  /\ \/ Persist(mem) /\ Goto("begin") /\ UNCHANGED job
     \/ PersistFails /\ JobGone
  /\ UNCHANGED <<flash, lane, server, admin>>

-----------------------------------------------------------------------------
(***************************************************************************)
(* orchestration.uc applyDesired, and the runtime actions it calls.        *)
(***************************************************************************)
BeginStep ==
  /\ At("begin")
  /\ \/ /\ Persist(BeginApply(mem))
        /\ mem' = BeginApply(mem)
        /\ applying' = TRUE
        /\ Goto("prepare")
        /\ UNCHANGED <<cmd, act, sw, cand, prep>>
     \/ PersistFails /\ JobGone
  /\ UNCHANGED <<flash, lane, server, admin>>

PrepareStep ==
  /\ At("prepare")
  /\ \/ /\ JournalReadable
        /\ \E p \in Profiles : prep' = BundleOf(disk.desired, uci, p)
        /\ Goto("prepared") /\ NoFault
     \/ /\ Breaks("runtime", JournalReadable)
        /\ Goto("applyFailed")
        /\ UNCHANGED prep
  /\ UNCHANGED <<disk, flash, lane, cmd, applying, act, sw, mem, cand,
                 server, admin>>

\* A phase saved between two runtime actions.  When it cannot be saved, the
\* rollback goes from the checkpoint taken before it.
Checkpoint(step, j, next) ==
  /\ At(step)
  /\ \/ Persist(j) /\ mem' = j /\ Goto(next)
     \/ PersistFails /\ UNCHANGED mem /\ Goto("applyFailed")
  /\ UNCHANGED <<flash, lane, cmd, applying, act, sw, cand, prep, server, admin>>

PreparedStep   == Checkpoint("prepared", Prepared(mem), "activating")
ActivatingStep == Checkpoint("activating", Activating(mem), "savePrevious")
ActivatedStep  == Checkpoint("activated", Activated(mem), "verify")

\* Slip: current.json is replaced without a copy of the applied bundle.
NoBackup == prev

Backup == IF MatchesBundle(cur, disk.applied) THEN cur ELSE prev

CanActivate == CanRestore /\ MatchesBundle(prep, disk.desired)

\* activate keeps the applied bundle before it replaces current.json.
SavePrevious ==
  /\ At("savePrevious")
  /\ act' = "activate"
  /\ \/ /\ CanActivate
        /\ prev' = Backup
        /\ Goto("saveCurrent") /\ NoFault
     \/ /\ Breaks("runtime", CanActivate)
        /\ Goto("applyFailed")
        /\ UNCHANGED prev
  /\ UNCHANGED <<disk, cur, lane, cmd, applying, sw, mem, cand, prep,
                 server, admin>>

SaveCurrent ==
  /\ At("saveCurrent")
  /\ cur' = prep /\ cand' = prep
  /\ Goto("close")
  /\ UNCHANGED <<disk, prev, lane, cmd, applying, act, sw, mem, prep,
                 server, admin, faults>>

\* verify checks that current.json is the desired bundle, then probes.
VerifyStep ==
  /\ At("verify")
  /\ act' = "verify"
  /\ LET ok == JournalReadable /\ MatchesBundle(cur, disk.desired)
     IN  \/ ok /\ Goto("probe") /\ NoFault
         \/ Breaks("runtime", ok) /\ Goto("applyFailed")
  /\ UNCHANGED <<disk, flash, lane, cmd, applying, sw, mem, cand, prep,
                 server, admin>>

\* The commit point.  When it cannot be written, VERIFYING stays on flash
\* and the apply is rolled back.
CommitStep ==
  /\ At("commit")
  /\ LET j == Verified(mem, cur.profile)
     IN  \/ Persist(j) /\ mem' = j /\ Goto("report")
         \/ PersistFails /\ UNCHANGED mem /\ Goto("applyFailed")
  /\ UNCHANGED <<flash, lane, cmd, applying, act, sw, cand, prep, server, admin>>

-----------------------------------------------------------------------------
(***************************************************************************)
(* runtime-lane start(), probe() and monitor(), shared by all actions.     *)
(***************************************************************************)
LaneStep ==
  UNCHANGED <<disk, prev, cmd, applying, act, mem, prep, server, admin>>

CloseLane ==
  /\ At("close")
  /\ \/ LaneClosed /\ Goto("writeRun") /\ UNCHANGED sw
     \/ LaneNotClosed /\ Goto(ActionFailed) /\ sw' = "no"
  /\ UNCHANGED <<cur, cand>>
  /\ LaneStep

WriteRun ==
  /\ At("writeRun")
  /\ \/ run' = cand /\ Goto("startService") /\ NoFault /\ UNCHANGED sw
     \/ UNCHANGED run /\ Goto(ActionFailed) /\ Fault("runtime") /\ sw' = "no"
  /\ UNCHANGED <<cur, svc, grd, cand>>
  /\ LaneStep

\* When the AmneziaWG interface cannot be created, a bundle with another
\* profile is staged and started instead, to be confirmed before it counts.
AwgFallback ==
  /\ At("writeRun")
  /\ cand.profile = Awg
  /\ CanSwitch
  /\ \E p \in Profiles \ {Awg} : cand' = [cand EXCEPT !.profile = p]
  /\ sw' = IF sw = "no" THEN "fallback" ELSE sw
  /\ Goto("close")
  /\ Fault("runtime")
  /\ UNCHANGED <<cur, lane>>
  /\ LaneStep

AfterConfirm ==
  CASE act = "activate"    -> "activated"
    [] act = "health-tick" -> "monitor"
    [] OTHER -> "probe"

AfterStart == IF sw # "no" THEN "confirm" ELSE AfterConfirm

StartService ==
  /\ At("startService")
  /\ \/ svc' = TRUE /\ Goto(AfterStart) /\ NoFault /\ UNCHANGED sw
     \/ svc' \in BOOLEAN /\ Goto(ActionFailed) /\ Fault("runtime") /\ sw' = "no"
  /\ UNCHANGED <<cur, run, grd, cand>>
  /\ LaneStep

\* The staged profile is probed again once it runs ...
Confirm ==
  /\ At("confirm")
  /\ \/ CanSwitch /\ NoFault /\ Goto("commitProfile") /\ UNCHANGED sw
     \/ /\ Breaks("probe", CanSwitch)
        /\ sw' = "no"
        /\ Goto(ActionFailed)
  /\ UNCHANGED <<cur, lane, cand>>
  /\ LaneStep

\* ... and only then becomes current.json.
CommitProfile ==
  /\ At("commitProfile")
  /\ \/ /\ cur' = cand /\ NoFault
        /\ Goto(IF sw = "failover" THEN "open" ELSE AfterConfirm)
     \/ Fault("runtime") /\ Goto(ActionFailed) /\ UNCHANGED cur
  /\ sw' = "no"
  /\ UNCHANGED <<lane, cand>>
  /\ LaneStep

\* select-profile: stage another candidate of the same bundle.
SelectProfile ==
  /\ \E p \in Profiles \ {cur.profile} : cand' = [cur EXCEPT !.profile = p]
  /\ sw' = "failover"
  /\ Goto("close")

\* Two probes; if they fail, monitor recover looks for a working profile.
Probe ==
  /\ At("probe")
  /\ \/ NoFault /\ Goto("open") /\ UNCHANGED <<sw, cand, lane>>
     \/ /\ Fault("probe") /\ InfoLive
        /\ grd' = "closed" /\ SelectProfile
        /\ UNCHANGED <<run, svc>>
     \/ Fault("probe") /\ Goto(ActionFailed) /\ UNCHANGED <<sw, cand, lane>>
  /\ UNCHANGED cur
  /\ LaneStep

\* The bundle is checked once more behind the open guard; if that fails the
\* lane is closed again.
OpenGuard ==
  /\ At("open")
  /\ \/ grd' = "open" /\ Goto(AfterAction) /\ NoFault /\ UNCHANGED <<run, svc>>
     \/ LaneNotClosed /\ Goto(ActionFailed)
  /\ UNCHANGED <<cur, sw, cand>>
  /\ LaneStep

-----------------------------------------------------------------------------
(***************************************************************************)
(* runtime-lane health-tick, and the journal update the controller makes   *)
(* of its result.  A lane that fails reports no active profile.            *)
(***************************************************************************)
TickStep ==
  /\ At("tick")
  /\ act' = "health-tick"
  /\ LET kept == Kept(disk.applied)
         live == svc /\ SameConfig(kept, run)
     IN  \/ /\ kept # None
            /\ cur' = kept /\ cand' = kept
            /\ \/ live /\ Goto("monitor") /\ NoFault
               \/ Breaks("runtime", live) /\ Goto("close")
         \/ /\ Breaks("runtime", kept # None)
            /\ Goto("tickFailed")
            /\ UNCHANGED <<cur, cand>>
         \/ /\ ~live                         \* the second helper call fails
            /\ Fault("runtime")
            /\ Goto("tickLost")
            /\ UNCHANGED <<cur, cand>>
  /\ UNCHANGED <<disk, prev, lane, cmd, applying, sw, mem, prep, server, admin>>

\* One round of monitor health.
Monitor ==
  /\ At("monitor")
  /\ \/ /\ InfoLive /\ NoFault               \* healthy
        /\ grd' = "open"
        /\ Goto("tickSave")
        /\ UNCHANGED <<sw, cand>>
     \/ /\ InfoLive /\ Fault("probe")        \* fewer than three failures
        /\ Goto("tickSave")
        /\ UNCHANGED <<sw, cand, grd>>
     \/ /\ InfoLive /\ Fault("probe")        \* failed, another profile works
        /\ grd' = "closed"
        /\ SelectProfile
     \/ /\ InfoLive /\ Fault("probe")        \* failed, no profile works
        /\ grd' = "closed"
        /\ Goto("tickSave")
        /\ UNCHANGED <<sw, cand>>
     \/ /\ Breaks("runtime", InfoLive)
        /\ Goto("tickFailed")
        /\ UNCHANGED <<sw, cand, grd>>
  /\ UNCHANGED <<cur, run, svc>>
  /\ LaneStep

TickFailed ==
  /\ At("tickFailed")
  /\ CloseAndGoto("tickLost")
  /\ UNCHANGED <<disk, flash, job, server, admin>>

\* A failover updates the profile in the journal and nothing else of it.
TickSave ==
  /\ pc \in {"tickSave", "tickLost"}
  /\ LET p == IF pc = "tickLost" THEN None ELSE cur.profile
     IN  Persist([mem EXCEPT !.profile = p]) \/ PersistFails
  /\ JobGone
  /\ UNCHANGED <<flash, lane, server, admin>>

-----------------------------------------------------------------------------
(***************************************************************************)
(* What happens around the controller.                                     *)
(***************************************************************************)
\* The job is killed, or the lane action it waits for finishes without it.
Crash ==
  /\ pc # "idle"
  /\ Fault("crash")
  /\ JobGone
  /\ UNCHANGED <<disk, flash, lane, server, admin>>

\* The router restarts with nothing running; the static fw4 rules keep the
\* VPN bridge closed until the controller loads the open guard again.
PowerLoss ==
  /\ Fault("power")
  /\ JobGone
  /\ svc' = FALSE /\ grd' = "closed"
  /\ UNCHANGED <<disk, flash, run, server, admin>>

ServiceDies ==
  /\ svc
  /\ Fault("runtime")
  /\ svc' = FALSE
  /\ UNCHANGED <<disk, flash, run, grd, pc, job, server, admin>>

\* The operator publishes a new revision, renames the client of a router and so
\* changes the ETag within a revision, or restores an older database.
Publish ==
  /\ edits > 0
  /\ \E e \in Etags \ {published} : published' = e
  /\ edits' = edits - 1
  /\ UNCHANGED <<disk, flash, lane, pc, job, accepted, uci, faults>>

EditPolicy ==
  /\ edits > 0
  /\ \E p \in Policies \ {uci} : uci' = p
  /\ edits' = edits - 1
  /\ UNCHANGED <<disk, flash, lane, pc, job, server, faults>>

-----------------------------------------------------------------------------
StartStep == Refresh \/ Recover \/ ApplyPolicy \/ HealthTick
             \/ \E c \in Commands : Stop(c)

RollbackSteps == ApplyFailedStep \/ RollbackStep \/ FailClosed
                 \/ RolledBackFalse \/ RolledBackTrue

RefreshSteps == RestoreStep \/ RestoreFailed \/ NothingToReport \/ PutResult
                \/ PutRefused \/ ReportAcceptedStep \/ FetchNothing
                \/ FetchMalformed \/ FetchNew \/ ForceApplied
                \/ ForceNothing \/ SaveReady

ApplySteps == BeginStep \/ PrepareStep \/ PreparedStep \/ ActivatingStep
              \/ SavePrevious \/ SaveCurrent \/ ActivatedStep \/ VerifyStep
              \/ CommitStep

LaneSteps == CloseLane \/ WriteRun \/ AwgFallback \/ StartService \/ Confirm
             \/ CommitProfile \/ Probe \/ OpenGuard

TickSteps == TickStep \/ Monitor \/ TickFailed \/ TickSave

\* The steps of a job that has been started.
JobStep == Halt \/ RollbackSteps \/ RefreshSteps \/ ApplySteps \/ LaneSteps
           \/ TickSteps

Environment == Crash \/ PowerLoss \/ ServiceDies \/ Publish \/ EditPolicy

Next == StartStep \/ JobStep \/ Environment

Spec == Init /\ [][Next]_vars
-----------------------------------------------------------------------------
(***************************************************************************)
(* Safety.                                                                 *)
(***************************************************************************)
\* Whatever write, crash or power loss interrupts a job, the journal on flash
\* satisfies every clause of journal.uc validState except the one on the
\* pending report, and that one breaks in two situations only: a report left
\* over in FAIL_CLOSED while the recovery moves to ROLLING_BACK, and a health
\* tick that changes the active profile under a report not yet sent.
JournalSound ==
  /\ ValidState([disk EXCEPT !.pending = None])
  /\ ~ValidState(disk) =>
       \/ disk.phase = "ROLLING_BACK" /\ disk.pending.stage = "rollback_failed"
       \/ disk.phase = "IDLE" /\ disk.pending.profile # disk.profile

\* runtime-helper.uc 'rollback_bundle_missing' never happens: at every moment
\* flash holds the bundle of the applied entry, in current.json or previous.json,
\* so a rollback or a restore after a power loss always finds it.
RollbackAvailable == disk.applied # None => Kept(disk.applied) # None

(***************************************************************************)
(* Why a rollback always finds its bundle: what a job knows at each step   *)
(* about the journal and the bundles on flash.                             *)
(***************************************************************************)
LanePc == {"close", "writeRun", "startService", "confirm", "commitProfile",
           "probe", "open", "monitor"}

\* In a transaction, up to the commit or to the first failure.
Trying ==
  \/ pc \in {"begin", "prepare", "prepared", "activating", "savePrevious",
             "saveCurrent", "activated", "verify", "commit"}
  \/ pc \in LanePc /\ act \in {"activate", "verify"}

\* The bundle of the desired entry has taken the place of current.json.
Switched ==
  \/ pc \in {"activated", "verify", "commit"}
  \/ pc \in LanePc /\ act \in {"activate", "verify"}

RollingBack ==
  \/ pc \in {"applyFailed", "rollback", "failClosed", "rolledBackFalse",
             "rolledBackTrue"}
  \/ pc \in LanePc /\ act = "rollback"

\* The lane is bringing the applied bundle up.
Returning == pc \in LanePc /\ act \in {"rollback", "restore", "health-tick"}

JobKnows ==
  /\ pc \notin {"idle", "halt"} => mem # None /\ mem.applied = disk.applied
  /\ (pc = "save" \/ RollingBack) => mem.desired # None
  /\ Trying => disk.desired # None /\ disk.desired = mem.desired
  /\ pc \in LanePc => act \in Actions
  /\ pc = "saveCurrent" => act = "activate"
  /\ pc = "rollback" => act = "rollback"
  /\ pc = "monitor" => act = "health-tick"

BundlesFit ==
  /\ pc \in {"prepared", "activating", "savePrevious", "saveCurrent"} =>
       MatchesBundle(prep, disk.desired)
  /\ Switched => /\ MatchesBundle(cur, disk.desired)
                 /\ MatchesBundle(cand, disk.desired)
  /\ (Switched \/ pc = "saveCurrent") /\ disk.applied # None =>
       MatchesBundle(prev, disk.applied)
  /\ Returning => /\ MatchesBundle(cur, disk.applied)
                  /\ MatchesBundle(cand, disk.applied)
  /\ pc = "rolledBackTrue" /\ disk.applied # None =>
       MatchesBundle(cur, disk.applied)
  /\ pc = "tickSave" => MatchesBundle(cur, disk.applied)

\* The job that runs, the journal it works from and the bundles on flash agree
\* at every step; with TypeOK this is what keeps RollbackAvailable true.
IInv == TypeOK /\ RollbackAvailable /\ JobKnows /\ BundlesFit

(***************************************************************************)
(* Why clients are only ever served by the applied bundle or by one on     *)
(* trial: what holds of the lane at each step of the job.                  *)
(***************************************************************************)
\* Attempts and revisions only go up, in every copy of the journal.
Ordered(j) ==
  /\ j.applied # None => j.applied.attempt <= j.seq
  /\ j.desired # None => j.desired.attempt <= j.seq
  /\ j.applied # None /\ j.desired # None =>
       /\ j.desired.attempt > j.applied.attempt
       /\ Rev[j.desired.etag] >= Rev[j.applied.etag]

\* The job's copy differs from the journal on flash in what is still to be
\* saved, and never about whether there is a transaction to recover.
InOrder ==
  /\ Ordered(disk)
  /\ pc \notin {"idle", "halt"} =>
       /\ Ordered(mem)
       /\ RecoverRequired(mem) <=> RecoverRequired(disk)
       /\ pc # "save" => mem.desired = disk.desired

\* The job is past every failed transaction.
Settling ==
  \/ pc \in {"restore", "restoreFailed", "fetch", "force", "save", "begin",
             "tick", "tickFailed", "tickSave", "tickLost"}
  \/ pc \in {"report", "reportAccepted"} /\ ~applying
  \/ pc \in LanePc /\ act \in {"restore", "health-tick"}

OnVerify == pc \in {"verify", "commit"} \/ (pc \in LanePc /\ act = "verify")

PhaseFits ==
  /\ Settling => ~RecoverRequired(disk)
  /\ (Trying /\ pc # "begin") \/ RollingBack => RecoverRequired(disk)
  /\ OnVerify => disk.phase = "VERIFYING"

Loading == {"startService", "confirm", "commitProfile"}

\* The entry whose bundle the lane action brings up.
LaneEntry == IF act \in {"activate", "verify"} THEN disk.desired
                                              ELSE disk.applied

\* run.json is written while nothing is served, and from then on holds the
\* bundle the action is about; a staged profile is confirmed before it opens.
LaneFits ==
  /\ pc = "writeRun" => grd = "closed" /\ ~svc
  /\ pc \in Loading => grd = "closed" /\ run = cand
  /\ pc \in Loading \cup {"probe", "open", "monitor"} =>
       MatchesBundle(run, LaneEntry)
  /\ pc = "activated" \/ OnVerify => MatchesBundle(run, disk.desired)
  /\ pc = "commit" => grd = "open"
  /\ pc = "rolledBackTrue" /\ (svc \/ grd = "open") =>
       MatchesBundle(run, disk.applied)

\* A staged profile is in candidate.json until it is confirmed.
SwitchFits ==
  /\ sw # "no" => pc \in {"close", "writeRun"} \cup Loading
  /\ pc \in {"close", "writeRun"} \cup Loading /\ sw = "no" => cand = cur
  /\ pc \in {"activated", "verify", "probe", "open", "commit"} =>
       SameConfig(run, cur)
  /\ pc = "rolledBackTrue" /\ grd = "open" => SameConfig(run, cur)

\* What runs is known, and outside a transaction it is current.json.
Served ==
  /\ svc \/ grd = "open" =>
       \/ MatchesBundle(run, disk.applied)
       \/ MatchesBundle(run, disk.desired) /\ RecoverRequired(disk)
  /\ grd = "open" /\ ~RecoverRequired(disk) => SameConfig(run, cur)
  /\ disk.applied # None /\ ~RecoverRequired(disk) =>
       MatchesBundle(cur, disk.applied)

\* With IInv this is inductive, and gives ForwardsKnownBundle, CommitsVerified
\* and KeepsPromise below.
SInv == IInv /\ InOrder /\ PhaseFits /\ LaneFits /\ SwitchFits /\ Served

\* While the guard forwards clients, sing-box has been given the applied
\* configuration or the one being verified, never a half-switched or
\* unconfirmed one; outside a transaction it is what current.json holds.
ForwardsKnownBundle ==
  grd = "open" =>
    /\ \/ MatchesBundle(run, disk.applied)
       \/ MatchesBundle(run, disk.desired) /\ RecoverRequired(disk)
    /\ ~RecoverRequired(disk) => SameConfig(run, cur)

\* A transaction carries one local policy: bundles made for one attempt agree
\* on it, so a rollback brings back the old exceptions together with the old
\* snapshot even when the operator has edited the saved policy in between.
OnePolicyPerAttempt ==
  \A a, b \in {prev, cur, run} \ {None} :
    a.attempt = b.attempt => a.policy = b.policy /\ a.etag = b.etag

\* The server never hears that an attempt failed when the router applied it,
\* nor that it was applied when it failed, however reports are lost, repeated
\* or interrupted by a crash between the commit and the PUT.
ReportsTruthful ==
  \A r \in accepted \cup ({disk.pending} \ {None}) :
    LET committed == {disk.applied, disk.last_good} \ {None}
    IN  IF r.stage = "verified"
        THEN disk.applied # None /\ r.attempt <= disk.applied.attempt
        ELSE \A e \in committed : e.attempt # r.attempt

\* Two results stored under one idempotency key are about one attempt, and a
\* router only ever contradicts itself under a key after a failed rollback.
OneVerdictPerKey ==
  disk.pending # None =>
    \A a \in accepted :
      Key(a) = Key(disk.pending) =>
        \/ Body(a) = Body(disk.pending) /\ a.etag = disk.pending.etag
        \/ a.stage = "rollback_failed" /\ disk.pending.stage = "rolled_back"

(***************************************************************************)
(* What a step may never do.                                               *)
(***************************************************************************)
\* The applied entry changes in one way: the desired snapshot of a transaction
\* in VERIFYING, running behind an open guard, takes its place, as a later
\* attempt of a revision that is not older.
CommitsVerified ==
  [][disk'.applied # disk.applied =>
       /\ disk.phase = "VERIFYING" /\ disk'.applied = disk.desired
       /\ grd = "open" /\ MatchesBundle(run, disk.desired)
       /\ disk.applied # None =>
            /\ disk'.applied.attempt > disk.applied.attempt
            /\ Rev[disk'.applied.etag] >= Rev[disk.applied.etag]]_vars

\* A pending report leaves the journal only when the server holds it.
ReportsDelivered ==
  [][disk.pending # None /\ disk'.pending # disk.pending =>
       \/ disk.pending \in accepted
       \/ disk.pending.stage = "rollback_failed" /\ disk'.pending # None]_vars

\* The router implements RouterPromise: what it has applied is committed, what
\* it desires is on trial, and it serves what runs behind an open guard.
Serving == IF grd = "open" THEN [etag |-> run.etag, attempt |-> run.attempt]
                           ELSE None

Promise == INSTANCE RouterPromise WITH
  committed <- disk.applied, trial <- disk.desired, serving <- Serving

KeepsPromise == Promise!Spec

(***************************************************************************)
(* Liveness.  The procd loop runs refresh and health-tick for ever and a   *)
(* job in progress goes on; a command that finds the lock held comes back, *)
(* so it is only enabled again and again.                                  *)
(***************************************************************************)
Fairness ==
  /\ WF_vars(JobStep)
  /\ SF_vars(Refresh)
  /\ SF_vars(HealthTick)
  /\ SF_vars(Stop("refresh"))

FairSpec == Spec /\ Fairness

\* An interrupted or failed transaction is brought to an end: the next start
\* repeats the rollback (journal.md).  It does not hold, see Unheard.
TransactionsEnd == []<>~RecoverRequired(disk)

\* A router that has applied a configuration forwards its clients again after
\* whatever happened, once things stop failing (runtime.md).  It does not hold,
\* see Blocked.
ServiceReturns == disk.applied # None ~> (grd = "open" /\ svc)

(***************************************************************************)
(* The states the controller does not leave, and what holds but for them.  *)
(***************************************************************************)
\* A rollback has failed and its report is unsent: the recovery saves
\* ROLLING_BACK with that report, which the helper refuses to read.
Unheard ==
  /\ disk.phase \in {"FAIL_CLOSED", "ROLLING_BACK"}
  /\ disk.pending # None /\ disk.pending.stage = "rollback_failed"

\* A health tick has changed the active profile under an unsent report.
Unreadable ==
  /\ disk.phase = "IDLE"
  /\ disk.pending # None /\ disk.pending.profile # disk.profile

\* The applied snapshot was about to be applied again; the service has been
\* restored since, but not the guard, and no command takes over.
Halfway == disk.phase = "READY" /\ svc /\ grd = "closed"

Blocked == <>[]Unheard \/ <>[]Unreadable \/ <>[]Halfway

\* The pending report is about a snapshot that is not published any more, or
\* says that the rollback worked where its failure has been recorded.
Refused ==
  /\ disk.pending # None
  /\ \/ disk.pending.etag # published
     \/ /\ disk.pending.stage = "rolled_back"
        /\ \E a \in accepted :
             Key(a) = Key(disk.pending) /\ a.stage = "rollback_failed"

\* The server publishes a revision older than the applied one.
Older == disk.applied # None /\ Rev[published] < Rev[disk.applied.etag]

\* Whatever is interrupted, killed or fails, and however often, a transaction
\* ends and the next command finds none; but for a failed rollback that could
\* not be reported (orchestration.uc rollbackDesired, controller.uc recover).
EndsUnlessUnheard == TransactionsEnd \/ <>[]Unheard

\* Clients are forwarded again, once things stop failing, in every case but the
\* three of Blocked (runtime-lane restore, health-tick).
ReturnsUnlessBlocked == ServiceReturns \/ Blocked

\* The snapshot that stays published ends up as the applied one and stays it,
\* unless the controller is blocked, the server keeps refusing its report, or
\* the revision has gone back (controller.uc refresh).
TakesEffectUnlessRefused ==
  \/ \A e \in Etags \ Malformed :
       (<>[](published = e)) =>
         <>[](disk.applied # None /\ disk.applied.etag = e)
  \/ Blocked \/ <>[]Refused \/ <>[]Older
=============================================================================
