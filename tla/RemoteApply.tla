----------------------------- MODULE RemoteApply -----------------------------
(***************************************************************************)
(* The script that app/remote_apply.py renders and the panel runs on the   *)
(* VPN server: bootstrap, validation of a staged configuration, backup,    *)
(* switch, check, and a rollback when something fails after the switch has *)
(* begun.  Every durable write is a step of its own, a step may fail, and  *)
(* the script may be killed between two of them.  A later apply finds what *)
(* the earlier ones left.                                                  *)
(***************************************************************************)
EXTENDS Naturals

CONSTANTS
  Torn,       \* stands for parts of two configurations
  Names,      \* server names a certificate may be for
  Plans,      \* what a revision may ask for: services, and the server name
  FaultKinds, \* "step", "kill" and "restore"
  MaxRuns,    \* bound: applies in a behaviour
  MaxFaults   \* bound: faults in a behaviour

Services == {"xray", "hysteria", "awg"}
Files    == {"xray.json", "hysteria.yaml", "hysteria.crt", "hysteria.key",
             "awg0.conf"}

ASSUME RemoteAssumption ==
  /\ Plans \subseteq [on : (SUBSET Services) \ {{}}, sni : Names]
  /\ Plans # {} /\ MaxRuns \in Nat /\ MaxFaults \in Nat
  /\ Torn \notin 0 .. MaxRuns

VARIABLES
  run,    \* the number of the last apply that was started
  plan,   \* what each of them asked for
  pc, at, \* the part of its script, and the file or service next in it
  stage,  \* the certificate and key it staged
  live,   \* the files: the apply that wrote one, 0 when there is none
  on, up, \* services that are enabled, and what the running ones have loaded
  stray,  \* AmneziaWG runs, and systemd does not know of it
  backup, \* what the apply found: files, and states of the services
  marks,  \* what the backup directory of each apply says
  has,    \* services whose programs are installed
  boot,   \* the bootstrap marker
  last,   \* how the panel saw the last apply end
  lame,   \* the applies with a rollback in which a command failed
  clean,  \* nothing has failed in the current apply
  faults  \* counter, for the bound only

server == <<live, on, up, stray>>
budget == <<clean, faults>>
vars == <<run, plan, pc, at, stage, server, backup, marks, has, boot, last,
          lame, budget>>

Runs  == 1 .. MaxRuns
Parts == {"idle", "bootstrap", "validate", "backup", "files", "services",
          "check", "mark", "prune", "restore", "revive", "mark_rollback",
          "fail"}

\* The orders in which the script goes through them.
FileAt(n) == <<"xray.json", "hysteria.yaml", "hysteria.crt", "hysteria.key",
               "awg0.conf">>[n]
ServiceAt(n) == <<"xray", "hysteria", "awg">>[n]

FilesOf(s) ==
  CASE s = "xray"     -> {"xray.json"}
    [] s = "hysteria" -> {"hysteria.yaml", "hysteria.crt", "hysteria.key"}
    [] s = "awg"      -> {"awg0.conf"}

Owner(f) == CHOOSE s \in Services : f \in FilesOf(s)

\* A service that runs has loaded its files as they were when it was started.
Down == [f \in {} |-> 0]
Loaded(s, l) == [f \in FilesOf(s) |-> l[f]]

\* hysteria refuses a key that does not belong to the certificate; every
\* service refuses a missing file.
Starts(s, l) ==
  /\ \A f \in FilesOf(s) : l[f] # 0
  /\ s = "hysteria" => l["hysteria.crt"] = l["hysteria.key"]

\* Slip: a service comes up whatever it finds.
StartedAnyway(s, l) == Loaded(s, l)

Started(s, l) == IF Starts(s, l) THEN Loaded(s, l) ELSE Down

NoPlan == [on |-> {}, sni |-> CHOOSE n \in Names : TRUE]
Empty  == [live |-> [f \in Files |-> 0], on |-> {},
           up |-> [s \in Services |-> Down], stray |-> FALSE]

Init ==
  /\ run = 0 /\ plan = [n \in 0 .. MaxRuns |-> NoPlan]
  /\ pc = "idle" /\ at = 1 /\ stage = 0
  /\ live = Empty.live /\ on = Empty.on /\ up = Empty.up /\ stray = FALSE
  /\ backup = Empty /\ marks = [n \in Runs |-> "none"]
  /\ has = {} /\ boot = FALSE
  /\ last = "none" /\ lame = {} /\ clean = TRUE /\ faults = 0

\* What is on the server, and what capture_service sees of it.
Now == [live |-> live, on |-> on, up |-> up, stray |-> stray]

\* What systemctl is-active says.
Active(i) ==
  {s \in Services : i.up[s] # Down} \ (IF i.stray THEN {"awg"} ELSE {})

Image == [live : [Files -> 0 .. MaxRuns],
          on : SUBSET Services,
          up : [Services -> {Down} \cup UNION {[FilesOf(s) -> Runs] :
                                                s \in Services}],
          stray : BOOLEAN]

\* A service that runs has loaded files that exist.
TypeOK ==
  /\ run \in 0 .. MaxRuns /\ plan \in [0 .. MaxRuns -> Plans \cup {NoPlan}]
  /\ pc \in Parts /\ at \in 1 .. 5 /\ stage \in 0 .. MaxRuns
  /\ Now \in Image /\ backup \in Image
  /\ marks \in [Runs -> {"none", "ready", "APPLIED", "ROLLED_BACK"}]
  /\ has \subseteq Services /\ boot \in BOOLEAN
  /\ last \in {"none", "ok", "failed", "unrestored", "killed"}
  /\ lame \subseteq Runs /\ clean \in BOOLEAN /\ faults \in 0 .. MaxFaults

Spend(kind) ==
  /\ kind \in FaultKinds /\ faults < MaxFaults
  /\ faults' = faults + 1 /\ clean' = FALSE

Wanted == plan[run].on

\* The script goes on to another part of itself.
Enter(part) == pc' = part /\ at' = 1

\* Or to the next file, or service, of this one.
Advance(total, part) ==
  IF at < total THEN at' = at + 1 /\ UNCHANGED pc ELSE Enter(part)

\* Slip: the switch counts as begun when the files are in place.
FailureLate == IF pc \in {"services", "check", "mark"} THEN "restore" ELSE "fail"

\* on_error: there is something to roll back once the switch has begun.
Failure ==
  IF pc \in {"files", "services", "check", "mark"} THEN "restore" ELSE "fail"

-----------------------------------------------------------------------------
(***************************************************************************)
(* Before the switch.                                                      *)
(***************************************************************************)
Start(p) ==
  /\ pc = "idle" /\ run < MaxRuns
  /\ run' = run + 1 /\ plan' = [plan EXCEPT ![run + 1] = p]
  /\ stage' = 0 /\ clean' = TRUE
  /\ Enter("bootstrap")
  /\ UNCHANGED <<server, backup, marks, has, boot, last, lame, faults>>

\* An installer that cannot be downloaded is an empty command that succeeds,
\* and AmneziaWG is best effort: what is missing shows in the validation.
Bootstrap ==
  /\ pc = "bootstrap"
  /\ IF boot /\ Wanted \subseteq has
     THEN UNCHANGED <<has, boot, budget>> /\ Enter("validate")
     ELSE \/ /\ has' = has \cup Wanted /\ boot' = TRUE /\ UNCHANGED budget
             /\ Enter("validate")
          \/ /\ Spend("step")
             /\ has' \in {has \cup some : some \in SUBSET Wanted}
             /\ \/ boot' = TRUE /\ Enter("validate")
                \/ UNCHANGED boot /\ Enter("fail")
  /\ UNCHANGED <<run, plan, stage, server, backup, marks, last, lame>>

\* The live pair is used again if both files exist and the certificate is for
\* the server name; otherwise a new pair is made.
Reusable ==
  /\ live["hysteria.crt"] # 0 /\ live["hysteria.key"] # 0
  /\ plan[live["hysteria.crt"]].sni = plan[run].sni

\* hysteria is started on the staged pair, away from the network.
PairStarts ==
  Reusable => live["hysteria.crt"] = live["hysteria.key"]

Validate ==
  /\ pc = "validate"
  /\ \/ /\ Wanted \subseteq has /\ ("hysteria" \in Wanted => PairStarts)
        /\ stage' = IF Reusable THEN live["hysteria.crt"] ELSE run
        /\ Enter("backup") /\ UNCHANGED budget
     \/ /\ ~(Wanted \subseteq has /\ ("hysteria" \in Wanted => PairStarts))
        /\ Enter("fail") /\ UNCHANGED <<stage, budget>>
  /\ UNCHANGED <<run, plan, server, backup, marks, has, boot, last, lame>>

\* prepare_backup: nothing counts before the manifest is renamed.
PrepareBackup ==
  /\ pc = "backup"
  /\ backup' = Now
  /\ marks' = [marks EXCEPT ![run] = "ready"]
  /\ Enter("files")
  /\ UNCHANGED <<run, plan, stage, server, has, boot, last, lame, budget>>

-----------------------------------------------------------------------------
(***************************************************************************)
(* The switch: five files, three services, a check.                        *)
(***************************************************************************)
Staged(f) ==
  IF Owner(f) \notin Wanted THEN 0
  ELSE IF f \in {"hysteria.crt", "hysteria.key"} THEN stage ELSE run

InstallFile ==
  /\ pc = "files"
  /\ live' = [live EXCEPT ![FileAt(at)] = Staged(FileAt(at))]
  /\ Advance(5, "services")
  /\ UNCHANGED <<run, plan, stage, on, up, stray, backup, marks, has, boot,
                 last, lame, budget>>

\* awg-quick takes its interface down only while awg0.conf exists, and is not
\* asked to when systemd counts the unit as inactive; systemd counts it as
\* inactive either way.
Stays(s) == s = "awg" /\ up[s] # Down /\ (stray \/ live["awg0.conf"] = 0)

\* Slip: whatever is told to stop stops.
NeverStays(s) == FALSE

\* systemctl stop and restart leave a service with what it has loaded then.
LeftWith(s, loaded) ==
  /\ up' = [up EXCEPT ![s] = IF Stays(s) THEN @ ELSE loaded]
  /\ stray' = IF s = "awg" THEN Stays(s) ELSE stray

Stop(s)    == LeftWith(s, Down)
Restart(s) == LeftWith(s, Started(s, live))

\* awg-quick ends with its work done, or with an error: the interface is there
\* already, or there is no configuration.  Of the others systemd reports a
\* start before the program has read its configuration.
RestartFails(s) == s = "awg" /\ (Stays(s) \/ ~Starts(s, live))

\* Slip: a service that is not wanted is stopped and left enabled.
StopOnly ==
  LET s == ServiceAt(at)
  IN  /\ pc = "services"
      /\ IF s \in Wanted THEN on' = on \cup {s} /\ Restart(s)
                        ELSE Stop(s) /\ UNCHANGED on
      /\ Advance(3, "check") /\ UNCHANGED budget
      /\ UNCHANGED <<run, plan, stage, live, backup, marks, has, boot, last,
                     lame>>

\* A failure to stop or disable a service is ignored, a failure to start it
\* shows at once or in the check.
ApplyService ==
  LET s == ServiceAt(at)
  IN  /\ pc = "services"
      /\ \/ /\ s \in Wanted /\ on' = on \cup {s} /\ UNCHANGED budget
            /\ Restart(s)
            /\ IF RestartFails(s) THEN Enter(Failure) ELSE Advance(3, "check")
         \/ /\ s \in Wanted /\ on' = on \cup {s} /\ Spend("step")
            /\ Stop(s)
            /\ IF s = "awg" THEN Enter(Failure) ELSE Advance(3, "check")
         \/ /\ s \notin Wanted /\ on' = on \ {s} /\ UNCHANGED budget
            /\ Stop(s) /\ Advance(3, "check")
         \/ /\ s \notin Wanted /\ on' \in {on, on \ {s}} /\ Spend("step")
            /\ Stop(s) \/ UNCHANGED <<up, stray>>
            /\ Advance(3, "check")
      /\ UNCHANGED <<run, plan, stage, live, backup, marks, has, boot, last,
                     lame>>

\* Slip: what systemctl answered is enough.
NoCheck ==
  /\ pc = "check" /\ Enter("mark")
  /\ UNCHANGED <<run, plan, stage, server, backup, marks, has, boot, last,
                 lame, budget>>

CheckServices ==
  /\ pc = "check"
  /\ IF on = Wanted /\ Active(Now) = Wanted
     THEN Enter("mark") ELSE Enter(Failure)
  /\ UNCHANGED <<run, plan, stage, server, backup, marks, has, boot, last,
                 lame, budget>>

\* mark_backup_result APPLIED; from here on nothing is rolled back.
MarkApplied ==
  /\ pc = "mark" /\ Enter("prune")
  /\ marks' = [marks EXCEPT ![run] = "APPLIED"]
  /\ UNCHANGED <<run, plan, stage, server, backup, has, boot, last, lame,
                 budget>>

Finish ==
  /\ pc = "prune" /\ Enter("idle") /\ last' = "ok"
  /\ UNCHANGED <<run, plan, stage, server, backup, marks, has, boot, lame,
                 budget>>

-----------------------------------------------------------------------------
(***************************************************************************)
(* on_error and rollback: under "set +e" a failing command is passed over. *)
(***************************************************************************)
\* A command fails; of "files" one before the next file is replaced.
StepFails ==
  /\ pc \in {"validate", "backup", "files", "services", "mark"}
  /\ Spend("step") /\ Enter(Failure)
  /\ UNCHANGED <<run, plan, stage, server, backup, marks, has, boot, last,
                 lame>>

RestoreFile ==
  /\ pc = "restore"
  /\ \/ /\ live' = [live EXCEPT ![FileAt(at)] = backup.live[FileAt(at)]]
        /\ UNCHANGED <<lame, budget>>
     \/ Spend("restore") /\ lame' = lame \cup {run} /\ UNCHANGED live
  /\ Advance(5, "revive")
  /\ UNCHANGED <<run, plan, stage, on, up, stray, backup, marks, has, boot,
                 last>>

RestoreService ==
  LET s == ServiceAt(at)
  IN  /\ pc = "revive"
      /\ \/ /\ on' = IF s \in backup.on THEN on \cup {s} ELSE on \ {s}
            /\ IF s \in Active(backup) THEN Restart(s) ELSE Stop(s)
            /\ UNCHANGED <<lame, budget>>
         \/ /\ Spend("restore") /\ lame' = lame \cup {run} /\ UNCHANGED on
            /\ Stop(s) \/ UNCHANGED <<up, stray>>
      /\ Advance(3, "mark_rollback")
      /\ UNCHANGED <<run, plan, stage, live, backup, marks, has, boot, last>>

MarkRolledBack ==
  /\ pc = "mark_rollback" /\ Enter("fail")
  /\ marks' = [marks EXCEPT ![run] = "ROLLED_BACK"]
  /\ UNCHANGED <<run, plan, stage, server, backup, has, boot, last, lame,
                 budget>>

\* The exit code is the same whether or not the rollback went well.
Fail ==
  /\ pc = "fail" /\ Enter("idle")
  /\ last' = IF run \in lame THEN "unrestored" ELSE "failed"
  /\ UNCHANGED <<run, plan, stage, server, backup, marks, has, boot, lame,
                 budget>>

\* The script dies where it is, alone or with the whole server, which then
\* starts what is enabled.
Kill ==
  /\ pc # "idle" /\ Spend("kill") /\ Enter("idle") /\ last' = "killed"
  /\ \/ UNCHANGED <<up, stray>>
     \/ /\ up' = [s \in Services |-> IF s \in on THEN Started(s, live) ELSE Down]
        /\ stray' = FALSE
  /\ UNCHANGED <<run, plan, stage, live, on, backup, marks, has, boot, lame>>

Next ==
  \/ \E p \in Plans : Start(p)
  \/ Bootstrap \/ Validate \/ PrepareBackup
  \/ InstallFile \/ ApplyService \/ CheckServices \/ MarkApplied \/ Finish
  \/ StepFails \/ RestoreFile \/ RestoreService \/ MarkRolledBack \/ Fail
  \/ Kill

Spec == Init /\ [][Next]_vars

-----------------------------------------------------------------------------
(***************************************************************************)
(* Properties.                                                             *)
(***************************************************************************)
\* What apply n asked for is on disk, enabled and loaded, and nothing else but
\* an AmneziaWG interface that was left behind.
Whole(n, i) ==
  /\ i.on = plan[n].on
  /\ \A s \in Services \ i.on :
       /\ \A f \in FilesOf(s) : i.live[f] = 0
       /\ i.up[s] = Down \/ (s = "awg" /\ i.stray)
  /\ \A s \in i.on :
       /\ Starts(s, i.live) /\ i.up[s] = Loaded(s, i.live)
       /\ \A f \in FilesOf(s) \ {"hysteria.crt", "hysteria.key"} :
            i.live[f] = n

Serves(i) ==
  IF \E n \in 0 .. run : Whole(n, i)
  THEN CHOOSE n \in 0 .. run : Whole(n, i) ELSE Torn

\* Until an apply is over, what it found is what counts.
P == INSTANCE RemotePromise WITH
       asked   <- run,
       serving <- IF pc # "idle" /\ marks[run] # "none" THEN Serves(backup)
                                                        ELSE Serves(Now)

\* An apply serves its configuration as a whole or leaves what was served; only
\* a kill or a rollback that fails itself may mix two (README.md, "Transactional
\* apply": files and enabled and active states are rolled back).  An AmneziaWG
\* interface whose configuration is gone may be left beside it.
KeepsPromise == P!Spec

\* The markers in the backup directories tell what is served, but for such an
\* interface, and a server that serves parts of two configurations can be told
\* by a backup that has none (mark_backup_result; a failed rollback command is
\* the exception).
MarksTell ==
  pc = "idle" /\ run > 0 =>
    /\ marks[run] = "APPLIED" => Serves(Now) = run
    /\ marks[run] = "ROLLED_BACK" /\ run \notin lame =>
         Serves(Now) = Serves(backup) \/ Serves(backup) = Torn
    /\ Serves(Now) = Torn =>
         lame # {} \/ \E n \in 1 .. run : marks[n] = "ready"

\* An apply fails because one of its commands failed, because an earlier one
\* left a certificate without its key, or because an AmneziaWG interface was
\* left behind: no order of services, bootstrap or change of server name makes
\* it fail otherwise (apply_service, the validation).
FailsForAReason ==
  pc = "fail" /\ clean =>
    live["hysteria.crt"] # live["hysteria.key"] \/ (stray /\ up["awg"] # Down)
=============================================================================
