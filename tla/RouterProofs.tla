----------------------------- MODULE RouterProofs -----------------------------
(***************************************************************************)
(* Theorems about RouterUpdate, for every set of snapshots, transports and *)
(* policies and every number of faults: the type invariant, and that the   *)
(* bundle a rollback needs is on flash whatever interrupts a job.          *)
(***************************************************************************)
EXTENDS RouterUpdate, TLAPS

-----------------------------------------------------------------------------
(***************************************************************************)
(* The transitions of state.uc take a journal to a journal, and change the *)
(* desired and the applied entry only where they say so.                   *)
(***************************************************************************)
LEMMA EntryNotNone == None \notin Entry /\ None \notin Report
                      /\ None \notin Bundle /\ None \notin Journal
                      /\ None \notin Etags /\ None \notin Profiles
BY RouterAssumption

LEMMA BumpType ==
  ASSUME NEW j \in Journal
  PROVE  /\ Bump(j) \in Journal
         /\ Bump(j).desired = j.desired
         /\ Bump(j).applied = j.applied
BY DEF Journal, Bump

LEMMA PhaseType ==
  ASSUME NEW j \in Journal, NEW p \in Phases
  PROVE  LET k == Bump([j EXCEPT !.phase = p])
         IN  k \in Journal /\ k.desired = j.desired /\ k.applied = j.applied
<1>1. [j EXCEPT !.phase = p] \in Journal
  BY DEF Journal
<1>2. /\ [j EXCEPT !.phase = p].desired = j.desired
      /\ [j EXCEPT !.phase = p].applied = j.applied
  BY DEF Journal
<1> QED
  BY <1>1, <1>2, BumpType

LEMMA InitialType == InitialState \in Journal /\ InitialState.applied = None
BY DEF Journal, InitialState, Phases

LEMMA RejectType ==
  ASSUME NEW j \in Journal, NEW e \in Etags
  PROVE  /\ RejectSnapshot(j, e) \in Journal
         /\ RejectSnapshot(j, e).desired = j.desired
         /\ RejectSnapshot(j, e).applied = j.applied
<1> DEFINE k == [j EXCEPT !.rejected = e]
<1>1. k \in Journal /\ k.desired = j.desired /\ k.applied = j.applied
  BY DEF Journal
<1> QED
  BY <1>1, BumpType DEF RejectSnapshot

LEMMA ReceiveType ==
  ASSUME NEW j \in Journal, NEW e \in Etags
  PROVE  /\ ReceiveSnapshot(j, e) \in Journal
         /\ ReceiveSnapshot(j, e).desired \in Entry
         /\ ReceiveSnapshot(j, e).applied = j.applied
<1> DEFINE d == [etag |-> e, attempt |-> j.seq + 1]
           k == [j EXCEPT !.desired = d, !.rejected = None, !.phase = "READY"]
<1>1. d \in Entry
  BY DEF Entry, Journal
<1>2. "READY" \in Phases
  BY DEF Phases
<1> HIDE DEF d
<1>3. k \in Journal /\ k.desired = d /\ k.applied = j.applied
  BY <1>1, <1>2 DEF Journal
<1>4. ReceiveSnapshot(j, e) = Bump(k)
  BY DEF ReceiveSnapshot, d
<1> QED
  BY <1>1, <1>3, <1>4, BumpType

LEMMA ReportForType ==
  ASSUME NEW e \in Entry, NEW p \in Profiles \cup {None}, NEW s \in Stages
  PROVE  ReportFor(e, p, s) \in Report
BY DEF Entry, Report, ReportFor

LEMMA VerifiedType ==
  ASSUME NEW j \in Journal, j.desired # None, NEW p \in Profiles
  PROVE  /\ Verified(j, p) \in Journal
         /\ Verified(j, p).applied = j.desired
<1> DEFINE r == ReportFor(j.desired, p, "verified")
           k == [j EXCEPT !.last_good = j.applied, !.applied = j.desired,
                          !.desired = None, !.phase = "IDLE",
                          !.profile = p, !.pending = r]
<1>1. j.desired \in Entry
  BY DEF Journal
<1>2. r \in Report
  BY <1>1, ReportForType DEF Stages
<1>3. "IDLE" \in Phases
  BY DEF Phases
<1>4. Verified(j, p) = Bump(k)
  BY DEF Verified
<1> HIDE DEF r
<1>5. k \in Journal /\ k.applied = j.desired
  BY <1>1, <1>2, <1>3 DEF Journal
<1> QED
  BY <1>4, <1>5, BumpType DEF r

LEMMA RolledBackType ==
  ASSUME NEW j \in Journal, j.desired # None, NEW ok \in BOOLEAN
  PROVE  /\ RolledBack(j, ok) \in Journal
         /\ RolledBack(j, ok).applied = j.applied
<1> DEFINE p == IF ok /\ j.applied # None THEN j.profile ELSE None
           s == IF ok THEN "rolled_back" ELSE "rollback_failed"
           r == ReportFor(j.desired, p, s)
           d == IF ok THEN None ELSE j.desired
           h == IF ok THEN "IDLE" ELSE "FAIL_CLOSED"
           k == [j EXCEPT !.rejected = j.desired.etag, !.desired = d,
                          !.phase = h, !.profile = p, !.pending = r]
<1>1. j.desired \in Entry /\ j.desired.etag \in Etags
  BY DEF Journal, Entry
<1>2. p \in Profiles \cup {None} /\ s \in Stages
  BY DEF Journal, Stages
<1>3. r \in Report
  BY <1>1, <1>2, ReportForType
<1>4. d \in Entry \cup {None} /\ h \in Phases
  BY <1>1 DEF Phases
<1>5. RolledBack(j, ok) = Bump(k)
  BY DEF RolledBack
<1> HIDE DEF p, s, r, d, h
<1>6. k \in Journal /\ k.applied = j.applied
  BY <1>1, <1>2, <1>3, <1>4 DEF Journal
<1> HIDE DEF k
<1> QED
  BY <1>5, <1>6, BumpType

LEMMA AcceptedType ==
  ASSUME NEW j \in Journal
  PROVE  /\ ReportAccepted(j) \in Journal
         /\ ReportAccepted(j).desired = j.desired
         /\ ReportAccepted(j).applied = j.applied
<1> DEFINE k == [j EXCEPT !.pending = None]
<1>1. k \in Journal /\ k.desired = j.desired /\ k.applied = j.applied
  BY DEF Journal
<1> QED
  BY <1>1, BumpType DEF ReportAccepted

-----------------------------------------------------------------------------
(***************************************************************************)
(* The bundle of an entry is kept when current.json or previous.json holds *)
(* it; a step that touches neither file, nor the applied entry, keeps it.  *)
(***************************************************************************)
LEMMA KeptMatches ==
  ASSUME TypeOK, NEW e
  PROVE  /\ Kept(e) \in Bundle \cup {None}
         /\ Kept(e) # None => MatchesBundle(Kept(e), e)
         /\ Kept(e) # None <=> MatchesBundle(cur, e) \/ MatchesBundle(prev, e)
BY DEF TypeOK, Kept, MatchesBundle

LEMMA StillAvailable ==
  ASSUME RollbackAvailable, disk'.applied = disk.applied, UNCHANGED flash
  PROVE  RollbackAvailable'
BY DEF RollbackAvailable, flash, Kept, MatchesBundle

\* A job that has ended, or stops the lane, has nothing to know.
LEMMA NothingToKnow ==
  ASSUME pc' \in {"idle", "halt"}
  PROVE  JobKnows' /\ BundlesFit'
BY DEF JobKnows, BundlesFit, Trying, Switched, RollingBack, Returning, LanePc

LEMMA InitInv == Init => IInv
<1> SUFFICES ASSUME Init PROVE IInv
  OBVIOUS
<1>1. TypeOK
  BY InitialType, RouterAssumption DEF Init, TypeOK, Steps
<1>2. RollbackAvailable
  BY InitialType DEF Init, RollbackAvailable
<1>3. JobKnows /\ BundlesFit
  BY DEF Init, JobKnows, BundlesFit, Trying, Switched, RollingBack, Returning,
         LanePc
<1> QED
  BY <1>1, <1>2, <1>3 DEF IInv

-----------------------------------------------------------------------------
(***************************************************************************)
(* Starting a job.                                                         *)
(***************************************************************************)
\* The job starts from the journal on flash.
LEMMA StartInv ==
  ASSUME IInv, StartStep
  PROVE  IInv'
<1> USE DEF IInv
<1>1. UNCHANGED <<disk, flash, lane, server, faults>> /\ UNCHANGED <<uci, cand, prep, applying, act, sw>>
  BY DEF StartStep, Refresh, Recover, ApplyPolicy, HealthTick, Stop, StartJob,
         CanStart, admin
<1>2. TypeOK'
  <2>1. mem' \in Journal \cup {None} /\ pc' \in Steps /\ cmd' \in Commands
    BY DEF StartStep, Refresh, Recover, ApplyPolicy, HealthTick, Stop, StartJob,
           CanStart, Goto, Steps, Commands, TypeOK
  <2>2. edits' \in Nat
    BY DEF StartStep, Refresh, Recover, ApplyPolicy, HealthTick, Stop, StartJob,
           CanStart, admin, TypeOK
  <2> QED
    BY <1>1, <2>1, <2>2 DEF TypeOK, flash, lane, server
<1>3. RollbackAvailable'
  BY <1>1, StillAvailable
<1>4. JobKnows' /\ BundlesFit'
  <2>1. CASE \E c \in Commands : Stop(c)
    BY <2>1, NothingToKnow DEF Stop, Goto
  <2>2. CASE Refresh \/ Recover \/ ApplyPolicy \/ HealthTick
    <3>1. /\ pc' \in {"applyFailed", "restore", "report", "tick"}
          /\ mem' = disk /\ disk' = disk /\ ValidState(disk)
          /\ pc' = "applyFailed" => RecoverRequired(disk)
      BY <2>2, <1>1 DEF Refresh, Recover, ApplyPolicy, HealthTick, StartJob,
                        JournalReadable, Goto
    <3>2. disk # None
      BY EntryNotNone DEF TypeOK
    <3>3. RecoverRequired(disk) => disk.desired # None
      BY <3>1 DEF RecoverRequired, ValidState
    <3> QED
      BY <3>1, <3>2, <3>3 DEF JobKnows, BundlesFit, Trying, Switched,
                              RollingBack, Returning, LanePc
  <2> QED
    BY <2>1, <2>2 DEF StartStep
<1> QED
  BY <1>2, <1>3, <1>4

-----------------------------------------------------------------------------
(***************************************************************************)
(* Faults are counted down, the lane is closed to known values, and a job  *)
(* that ends leaves nothing but well-typed nulls.                          *)
(***************************************************************************)
LEMMA FaultType ==
  ASSUME TypeOK, NEW kind, NEW ok, NoFault \/ Fault(kind) \/ Breaks(kind, ok)
  PROVE  faults' \in Nat
BY DEF TypeOK, NoFault, Fault, Breaks

LEMMA ClosedType ==
  ASSUME TypeOK, LaneClosed \/ LaneNotClosed
  PROVE  /\ run' = run /\ svc' \in BOOLEAN /\ grd' \in {"open", "closed"}
         /\ faults' \in Nat
<1>1. faults' \in Nat
  BY FaultType DEF LaneClosed, LaneNotClosed
<1>2. run' = run /\ svc' \in BOOLEAN /\ grd' \in {"open", "closed"}
  BY DEF LaneClosed, LaneNotClosed, TypeOK
<1> QED
  BY <1>1, <1>2

LEMMA PersistType ==
  ASSUME TypeOK, NEW j \in Journal, Persist(j) \/ PersistFails
  PROVE  /\ disk' \in Journal
         /\ disk' = j \/ disk' = disk
         /\ faults' \in Nat
<1>1. faults' \in Nat
  BY FaultType DEF Persist, PersistFails
<1>2. disk' = j \/ disk' = disk
  BY DEF Persist, PersistFails
<1> QED
  BY <1>1, <1>2 DEF TypeOK

LEMMA GoneInv ==
  ASSUME IInv, JobGone, disk' \in Journal, disk'.applied = disk.applied,
         faults' \in Nat, svc' \in BOOLEAN, grd' \in {"open", "closed"},
         UNCHANGED flash, UNCHANGED run,
         published' \in Etags, accepted' \subseteq Report,
         uci' \in Policies, edits' \in Nat
  PROVE  IInv'
<1>1. TypeOK'
  BY DEF IInv, TypeOK, JobGone, flash, Steps
<1>2. RollbackAvailable'
  BY StillAvailable DEF IInv
<1>3. JobKnows' /\ BundlesFit'
  BY NothingToKnow DEF JobGone
<1> QED
  BY <1>1, <1>2, <1>3 DEF IInv

LEMMA HaltInv ==
  ASSUME IInv, Halt
  PROVE  IInv'
<1>1. TypeOK /\ JobGone /\ UNCHANGED <<disk, flash, server, admin>>
  BY DEF Halt, IInv
<1>2. run' = run /\ svc' \in BOOLEAN /\ grd' \in {"open", "closed"}
      /\ faults' \in Nat
  BY <1>1, ClosedType DEF Halt
<1> QED
  BY <1>1, <1>2, GoneInv DEF TypeOK, server, admin

-----------------------------------------------------------------------------
(***************************************************************************)
(* The rollback.                                                           *)
(***************************************************************************)
\* While a job runs, its copy of the journal is one.
LEMMA MemType ==
  ASSUME IInv, pc \notin {"idle", "halt"}
  PROVE  mem \in Journal /\ mem.applied = disk.applied
BY DEF IInv, TypeOK, JobKnows

LEMMA ApplyFailedInv ==
  ASSUME IInv, ApplyFailedStep
  PROVE  IInv'
<1> DEFINE j == ApplyFailed(mem)
<1>1. mem \in Journal /\ mem.applied = disk.applied /\ mem.desired # None
  BY MemType DEF ApplyFailedStep, At
<1>2. j \in Journal /\ j.applied = disk.applied /\ j.desired # None
  <2>1. "ROLLING_BACK" \in Phases
    BY DEF Phases
  <2> QED
    BY <1>1, <2>1, PhaseType DEF ApplyFailed
<1> HIDE DEF j
<1>3. /\ mem' = j /\ act' = "rollback" /\ pc' = "rollback"
      /\ UNCHANGED <<flash, lane, cmd, applying, sw, cand, prep, server, admin>>
  BY DEF ApplyFailedStep, Goto, j
<1>4. disk' \in Journal /\ disk'.applied = disk.applied /\ faults' \in Nat
  BY <1>2, PersistType DEF ApplyFailedStep, IInv, j
<1>5. TypeOK'
  BY <1>2, <1>3, <1>4 DEF IInv, TypeOK, flash, lane, server, admin, Steps, Actions
<1>6. RollbackAvailable'
  BY <1>3, <1>4, StillAvailable DEF IInv
<1>7. JobKnows' /\ BundlesFit'
  <2>1. mem' # None
    BY <1>2, <1>3, EntryNotNone
  <2> QED
    BY <2>1, <1>2, <1>3, <1>4 DEF JobKnows, BundlesFit, Trying, Switched,
                                  RollingBack, Returning, LanePc
<1> QED
  BY <1>5, <1>6, <1>7 DEF IInv

LEMMA RollbackStepInv ==
  ASSUME IInv, RollbackStep
  PROVE  IInv'
<1>1. /\ TypeOK
      /\ pc = "rollback"
      /\ UNCHANGED <<disk, prev, cmd, applying, act, sw, mem, prep, server, admin>>
      /\ mem # None /\ mem.applied = disk.applied /\ mem.desired # None
  BY DEF RollbackStep, At, IInv, JobKnows, RollingBack
<1>2. CASE /\ disk.applied = None
           /\ LaneClosed /\ pc' = "rolledBackTrue" /\ UNCHANGED <<cur, cand>>
  <2>1. TypeOK'
    BY <1>1, <1>2, ClosedType DEF TypeOK, server, admin, Steps
  <2>2. RollbackAvailable'
    BY <1>1, <1>2 DEF RollbackAvailable
  <2>3. JobKnows' /\ BundlesFit'
    BY <1>1, <1>2 DEF JobKnows, BundlesFit, Trying, Switched, RollingBack,
                      Returning, LanePc
  <2> QED
    BY <2>1, <2>2, <2>3 DEF IInv
<1>3. CASE /\ Kept(disk.applied) # None
           /\ cur' = Kept(disk.applied) /\ cand' = cur' /\ pc' = "close"
           /\ UNCHANGED lane /\ NoFault
  <2>1. cur' \in Bundle /\ MatchesBundle(cur, disk.applied)'
    BY <1>1, <1>3, KeptMatches DEF MatchesBundle
  <2>2. TypeOK'
    BY <1>1, <1>3, <2>1, FaultType DEF TypeOK, lane, server, admin, Steps
  <2>3. RollbackAvailable'
    BY <2>1 DEF RollbackAvailable, Kept, MatchesBundle
  <2>4. act = "rollback"
    BY <1>1 DEF IInv, JobKnows
  <2>5. JobKnows' /\ BundlesFit'
    BY <1>1, <1>3, <2>1, <2>4 DEF JobKnows, BundlesFit, Trying, Switched,
             RollingBack, Returning, LanePc, Actions, MatchesBundle
  <2> QED
    BY <2>2, <2>3, <2>5 DEF IInv
<1>4. CASE /\ Breaks("runtime", CanRestore)
           /\ pc' = "failClosed" /\ UNCHANGED <<cur, cand, lane>>
  <2>1. TypeOK'
    BY <1>1, <1>4, FaultType DEF TypeOK, lane, server, admin, Steps
  <2>2. RollbackAvailable'
    BY <1>1, <1>4, StillAvailable DEF IInv, flash
  <2>3. JobKnows' /\ BundlesFit'
    BY <1>1, <1>4 DEF JobKnows, BundlesFit, Trying, Switched, RollingBack,
                      Returning, LanePc
  <2> QED
    BY <2>1, <2>2, <2>3 DEF IInv
<1> QED
  BY <1>2, <1>3, <1>4 DEF RollbackStep, Goto

LEMMA FailClosedInv ==
  ASSUME IInv, FailClosed
  PROVE  IInv'
<1>1. /\ TypeOK /\ pc = "failClosed" /\ pc' = "rolledBackFalse"
      /\ LaneClosed \/ LaneNotClosed
      /\ UNCHANGED <<disk, flash, job, server, admin>>
      /\ mem # None /\ mem.applied = disk.applied /\ mem.desired # None
  BY DEF FailClosed, CloseAndGoto, Goto, At, IInv, JobKnows, RollingBack
<1>2. TypeOK'
  BY <1>1, ClosedType DEF TypeOK, flash, job, server, admin, Steps
<1>3. RollbackAvailable'
  BY <1>1, StillAvailable DEF IInv
<1>4. JobKnows' /\ BundlesFit'
  BY <1>1 DEF JobKnows, BundlesFit, Trying, Switched, RollingBack, Returning,
              LanePc, job
<1> QED
  BY <1>2, <1>3, <1>4 DEF IInv

LEMMA RolledBackFalseInv ==
  ASSUME IInv, RolledBackFalse
  PROVE  IInv'
<1> DEFINE j == RolledBack(mem, FALSE)
<1>1. /\ TypeOK /\ pc = "rolledBackFalse"
      /\ mem \in Journal /\ mem.applied = disk.applied /\ mem.desired # None
      /\ UNCHANGED <<flash, lane, server, admin>>
      /\ Persist(j) \/ PersistFails
  BY MemType DEF RolledBackFalse, At, IInv, JobKnows, RollingBack
<1>2. j \in Journal /\ j.applied = disk.applied
  BY <1>1, RolledBackType
<1>3. disk' \in Journal /\ disk'.applied = disk.applied /\ faults' \in Nat
  BY <1>1, <1>2, PersistType
<1>4. CASE JobGone
  BY <1>1, <1>3, <1>4, GoneInv DEF TypeOK, lane, server, admin
<1>5. CASE /\ mem' = j /\ pc' = "report"
           /\ UNCHANGED <<cmd, applying, act, sw, cand, prep>>
  <2> HIDE DEF j
  <2>1. TypeOK'
    BY <1>1, <1>2, <1>3, <1>5 DEF TypeOK, flash, lane, server, admin, Steps
  <2>2. RollbackAvailable'
    BY <1>1, <1>3, StillAvailable DEF IInv
  <2>3. j # None
    BY <1>2, EntryNotNone
  <2>4. JobKnows' /\ BundlesFit'
    BY <1>2, <1>3, <1>5, <2>3 DEF JobKnows, BundlesFit, Trying, Switched,
                                  RollingBack, Returning, LanePc
  <2> QED
    BY <2>1, <2>2, <2>4 DEF IInv
<1> QED
  BY <1>4, <1>5 DEF RolledBackFalse, Goto

LEMMA RolledBackTrueInv ==
  ASSUME IInv, RolledBackTrue
  PROVE  IInv'
<1> DEFINE p == IF disk.applied = None THEN mem.profile ELSE cur.profile
           m == [mem EXCEPT !.profile = p]
           j == RolledBack(m, TRUE)
<1>1. /\ TypeOK /\ pc = "rolledBackTrue"
      /\ mem \in Journal /\ mem.applied = disk.applied /\ mem.desired # None
      /\ disk.applied # None => MatchesBundle(cur, disk.applied)
      /\ UNCHANGED <<flash, lane, server, admin>>
      /\ Persist(j) \/ PersistFails
  BY MemType DEF RolledBackTrue, At, IInv, JobKnows, BundlesFit, RollingBack
<1>2. p \in Profiles \cup {None}
  BY <1>1 DEF TypeOK, MatchesBundle, Bundle, Journal
<1>3. m \in Journal /\ m.applied = disk.applied /\ m.desired # None
  <2> HIDE DEF p
  <2> QED
    BY <1>1, <1>2 DEF Journal
<1>4. j \in Journal /\ j.applied = disk.applied
  <2> HIDE DEF m
  <2> QED
    BY <1>3, RolledBackType
<1>5. disk' \in Journal /\ disk'.applied = disk.applied /\ faults' \in Nat
  BY <1>1, <1>4, PersistType
<1>6. CASE JobGone
  BY <1>1, <1>5, <1>6, GoneInv DEF TypeOK, lane, server, admin
<1>7. CASE /\ mem' = j /\ pc' \in {"report", "restore"}
           /\ UNCHANGED <<cmd, applying, act, sw, cand, prep>>
  <2> HIDE DEF j
  <2>1. TypeOK'
    BY <1>1, <1>4, <1>5, <1>7 DEF TypeOK, flash, lane, server, admin, Steps
  <2>2. RollbackAvailable'
    BY <1>1, <1>5, StillAvailable DEF IInv
  <2>3. j # None
    BY <1>4, EntryNotNone
  <2>4. JobKnows' /\ BundlesFit'
    BY <1>4, <1>5, <1>7, <2>3 DEF JobKnows, BundlesFit, Trying, Switched,
                                  RollingBack, Returning, LanePc
  <2> QED
    BY <2>1, <2>2, <2>4 DEF IInv
<1> QED
  BY <1>6, <1>7 DEF RolledBackTrue, Goto, AfterRollback

-----------------------------------------------------------------------------
(***************************************************************************)
(* Restore, report and fetch.                                              *)
(***************************************************************************)
LEMMA RestoreStepInv ==
  ASSUME IInv, RestoreStep
  PROVE  IInv'
<1>1. /\ TypeOK
      /\ pc = "restore" /\ act' = "restore"
      /\ UNCHANGED <<disk, prev, cmd, applying, sw, mem, prep, server, admin>>
      /\ mem # None /\ mem.applied = disk.applied
  BY DEF RestoreStep, At, IInv, JobKnows
<1>2. CASE /\ disk.applied = None
           /\ LaneClosed /\ pc' = "report" /\ UNCHANGED <<cur, cand>>
  <2>1. TypeOK'
    BY <1>1, <1>2, ClosedType DEF TypeOK, server, admin, Steps, Actions
  <2>2. RollbackAvailable'
    BY <1>1, <1>2 DEF RollbackAvailable
  <2>3. JobKnows' /\ BundlesFit'
    BY <1>1, <1>2 DEF JobKnows, BundlesFit, Trying, Switched, RollingBack,
                      Returning, LanePc
  <2> QED
    BY <2>1, <2>2, <2>3 DEF IInv
<1>3. CASE /\ Kept(disk.applied) # None
           /\ cur' = Kept(disk.applied) /\ cand' = cur'
           /\ pc' \in {"report", "close"}
           /\ UNCHANGED lane /\ NoFault
  <2>1. cur' \in Bundle /\ MatchesBundle(cur, disk.applied)'
    BY <1>1, <1>3, KeptMatches DEF MatchesBundle
  <2>2. TypeOK'
    BY <1>1, <1>3, <2>1, FaultType DEF TypeOK, lane, server, admin, Steps, Actions
  <2>3. RollbackAvailable'
    BY <2>1 DEF RollbackAvailable, Kept, MatchesBundle
  <2>4. JobKnows' /\ BundlesFit'
    BY <1>1, <1>3, <2>1 DEF JobKnows, BundlesFit, Trying, Switched,
             RollingBack, Returning, LanePc, Actions, MatchesBundle
  <2> QED
    BY <2>2, <2>3, <2>4 DEF IInv
<1>4. CASE /\ Breaks("runtime", CanRestore)
           /\ pc' = "restoreFailed" /\ UNCHANGED <<cur, cand, lane>>
  <2>1. TypeOK'
    BY <1>1, <1>4, FaultType DEF TypeOK, lane, server, admin, Steps, Actions
  <2>2. RollbackAvailable'
    BY <1>1, <1>4, StillAvailable DEF IInv, flash
  <2>3. JobKnows' /\ BundlesFit'
    BY <1>1, <1>4 DEF JobKnows, BundlesFit, Trying, Switched, RollingBack,
                      Returning, LanePc
  <2> QED
    BY <2>1, <2>2, <2>3 DEF IInv
<1> QED
  BY <1>2, <1>3, <1>4 DEF RestoreStep, Goto

\* Between two transactions a job need only know the journal.
LEMMA BetweenInv ==
  ASSUME IInv, TypeOK',
         pc' \in {"report", "reportAccepted", "fetch", "force", "tickLost",
                  "tickFailed"},
         UNCHANGED flash, disk'.applied = disk.applied,
         mem' \in Journal, mem'.applied = disk.applied
  PROVE  IInv'
<1>1. RollbackAvailable'
  BY StillAvailable DEF IInv
<1>2. mem' # None
  BY EntryNotNone
<1>3. JobKnows' /\ BundlesFit'
  BY <1>2 DEF JobKnows, BundlesFit, Trying, Switched, RollingBack, Returning,
              LanePc
<1> QED
  BY <1>1, <1>3 DEF IInv

LEMMA RestoreFailedInv ==
  ASSUME IInv, RestoreFailed
  PROVE  IInv'
<1>1. /\ TypeOK /\ pc = "restoreFailed" /\ pc' = "report"
      /\ LaneClosed \/ LaneNotClosed
      /\ UNCHANGED <<disk, flash, job, server, admin>>
  BY DEF RestoreFailed, CloseAndGoto, Goto, At, IInv
<1>2. TypeOK'
  BY <1>1, ClosedType DEF TypeOK, flash, job, server, admin, Steps
<1>3. mem' \in Journal /\ mem'.applied = disk.applied
  BY <1>1, MemType DEF job
<1> QED
  BY <1>1, <1>2, <1>3, BetweenInv

LEMMA NothingToReportInv ==
  ASSUME IInv, NothingToReport
  PROVE  IInv'
<1>1. /\ TypeOK /\ pc = "report" /\ pc' \in {"fetch", "force"}
      /\ UNCHANGED <<disk, flash, lane, job, server, admin, faults>>
  BY DEF NothingToReport, Goto, At, IInv
<1>2. TypeOK'
  BY <1>1 DEF TypeOK, flash, lane, job, server, admin, Steps
<1>3. mem' \in Journal /\ mem'.applied = disk.applied
  BY <1>1, MemType DEF job
<1> QED
  BY <1>1, <1>2, <1>3, BetweenInv

LEMMA PutResultInv ==
  ASSUME IInv, PutResult
  PROVE  IInv'
<1>1. /\ TypeOK /\ pc = "report" /\ mem.pending # None
      /\ accepted' = accepted \cup {mem.pending}
      /\ UNCHANGED <<disk, flash, lane, published, admin>>
  BY DEF PutResult, At, IInv
<1>2. mem \in Journal /\ mem.applied = disk.applied
  BY <1>1, MemType
<1>3. accepted' \subseteq Report
  BY <1>1, <1>2 DEF Journal, TypeOK
<1>4. faults' \in Nat
  BY <1>1, FaultType DEF PutResult
<1>5. CASE pc' = "reportAccepted" /\ UNCHANGED job
  <2>1. TypeOK'
    BY <1>1, <1>3, <1>4, <1>5 DEF TypeOK, flash, lane, job, admin, Steps
  <2> QED
    BY <1>1, <1>2, <1>5, <2>1, BetweenInv DEF job
<1>6. CASE JobGone
  BY <1>1, <1>3, <1>4, <1>6, GoneInv DEF TypeOK, lane, admin
<1> QED
  BY <1>5, <1>6 DEF PutResult, Goto

LEMMA PutRefusedInv ==
  ASSUME IInv, PutRefused
  PROVE  IInv'
<1>1. /\ TypeOK /\ JobGone
      /\ UNCHANGED <<disk, flash, lane, server, admin>>
  BY DEF PutRefused, IInv
<1>2. faults' \in Nat
  BY <1>1, FaultType DEF PutRefused
<1> QED
  BY <1>1, <1>2, GoneInv DEF TypeOK, lane, server, admin

LEMMA ReportAcceptedInv ==
  ASSUME IInv, ReportAcceptedStep
  PROVE  IInv'
<1> DEFINE j == ReportAccepted(mem)
<1>1. /\ TypeOK /\ pc = "reportAccepted"
      /\ UNCHANGED <<flash, lane, server, admin>>
      /\ Persist(j) \/ PersistFails
  BY DEF ReportAcceptedStep, At, IInv
<1>2. j \in Journal /\ j.applied = disk.applied
  BY <1>1, MemType, AcceptedType
<1>3. disk' \in Journal /\ disk'.applied = disk.applied /\ faults' \in Nat
  BY <1>1, <1>2, PersistType
<1>4. CASE JobGone
  BY <1>1, <1>3, <1>4, GoneInv DEF TypeOK, lane, server, admin
<1>5. CASE /\ mem' = j /\ pc' \in {"fetch", "force"}
           /\ UNCHANGED <<cmd, applying, act, sw, cand, prep>>
  <2> HIDE DEF j
  <2>1. TypeOK'
    BY <1>1, <1>2, <1>3, <1>5 DEF TypeOK, flash, lane, server, admin, Steps
  <2> QED
    BY <1>1, <1>2, <1>3, <1>5, <2>1, BetweenInv
<1> QED
  BY <1>4, <1>5 DEF ReportAcceptedStep, Goto

LEMMA FetchNothingInv ==
  ASSUME IInv, FetchNothing
  PROVE  IInv'
<1>1. /\ TypeOK /\ JobGone
      /\ UNCHANGED <<disk, flash, lane, server, admin>>
  BY DEF FetchNothing, IInv
<1>2. faults' \in Nat
  BY <1>1, FaultType DEF FetchNothing
<1> QED
  BY <1>1, <1>2, GoneInv DEF TypeOK, lane, server, admin

LEMMA FetchMalformedInv ==
  ASSUME IInv, FetchMalformed
  PROVE  IInv'
<1> DEFINE j == RejectSnapshot(mem, published)
<1>1. /\ TypeOK /\ JobGone /\ pc = "fetch"
      /\ UNCHANGED <<flash, lane, server, admin>>
      /\ Persist(j) \/ PersistFails
  BY DEF FetchMalformed, At, IInv
<1>2. published \in Etags
  BY <1>1 DEF TypeOK
<1>3. j \in Journal /\ j.applied = disk.applied
  BY <1>1, <1>2, MemType, RejectType
<1>4. disk' \in Journal /\ disk'.applied = disk.applied /\ faults' \in Nat
  BY <1>1, <1>3, PersistType
<1> QED
  BY <1>1, <1>4, GoneInv DEF TypeOK, lane, server, admin

\* A snapshot is taken, by FetchNew from the server and by ForceApplied again
\* from the journal, and waits to be saved.
LEMMA ReceivedInv ==
  ASSUME IInv, pc \in {"fetch", "force"}, pc' = "save", NEW e \in Etags,
         mem' = ReceiveSnapshot(mem, e),
         UNCHANGED <<disk, flash, lane, cmd, applying, act, sw, cand, prep,
                     server, admin, faults>>
  PROVE  IInv'
<1>1. TypeOK /\ mem \in Journal /\ mem.applied = disk.applied
  BY MemType DEF IInv
<1>2. mem' \in Journal /\ mem'.applied = disk.applied /\ mem'.desired \in Entry
  BY <1>1, ReceiveType
<1>3. TypeOK'
  BY <1>1, <1>2 DEF TypeOK, flash, lane, server, admin, Steps
<1>4. RollbackAvailable'
  BY StillAvailable DEF IInv
<1>5. mem' # None /\ mem'.desired # None
  BY <1>2, EntryNotNone
<1>6. JobKnows' /\ BundlesFit'
  BY <1>2, <1>5 DEF JobKnows, BundlesFit, Trying, Switched, RollingBack,
                    Returning, LanePc
<1> QED
  BY <1>3, <1>4, <1>6 DEF IInv

LEMMA TakeInv ==
  ASSUME IInv, FetchNew \/ ForceApplied
  PROVE  IInv'
<1>1. CASE FetchNew
  BY <1>1, ReceivedInv DEF FetchNew, At, Goto, IInv, TypeOK
<1>2. CASE ForceApplied
  <2>1. mem \in Journal /\ mem.applied # None
    BY <1>2, MemType DEF ForceApplied, At
  <2>2. mem.applied.etag \in Etags
    BY <2>1 DEF Journal, Entry
  <2> QED
    BY <1>2, <2>2, ReceivedInv DEF ForceApplied, At, Goto
<1> QED
  BY <1>1, <1>2

LEMMA ForceNothingInv ==
  ASSUME IInv, ForceNothing
  PROVE  IInv'
BY GoneInv DEF ForceNothing, IInv, TypeOK, lane, server, admin

LEMMA SaveReadyInv ==
  ASSUME IInv, SaveReady
  PROVE  IInv'
<1>1. /\ TypeOK /\ pc = "save" /\ UNCHANGED <<flash, lane, server, admin>>
      /\ Persist(mem) \/ PersistFails
      /\ mem.desired # None
  BY DEF SaveReady, At, IInv, JobKnows
<1>2. mem \in Journal /\ mem.applied = disk.applied /\ mem # None
  BY <1>1, MemType, EntryNotNone
<1>3. disk' \in Journal /\ disk'.applied = disk.applied /\ faults' \in Nat
  BY <1>1, <1>2, PersistType
<1>4. CASE JobGone
  BY <1>1, <1>3, <1>4, GoneInv DEF TypeOK, lane, server, admin
<1>5. CASE Persist(mem) /\ pc' = "begin" /\ UNCHANGED job
  <2>1. TypeOK'
    BY <1>1, <1>3, <1>5 DEF TypeOK, flash, lane, job, server, admin, Steps
  <2>2. RollbackAvailable'
    BY <1>1, <1>3, StillAvailable DEF IInv
  <2>3. disk' = mem /\ mem' = mem
    BY <1>5 DEF Persist, job
  <2>4. JobKnows' /\ BundlesFit'
    BY <1>1, <1>2, <1>5, <2>3 DEF JobKnows, BundlesFit, Trying, Switched,
                                  RollingBack, Returning, LanePc
  <2> QED
    BY <2>1, <2>2, <2>4 DEF IInv
<1> QED
  BY <1>4, <1>5 DEF SaveReady, Goto

-----------------------------------------------------------------------------
(***************************************************************************)
(* The transaction.                                                        *)
(***************************************************************************)
\* What a job in a transaction starts a step from.
LEMMA TryingFacts ==
  ASSUME IInv, Trying
  PROVE  /\ TypeOK
         /\ mem \in Journal /\ mem # None /\ mem.applied = disk.applied
         /\ disk.desired = mem.desired /\ disk.desired # None
         /\ disk.desired \in Entry
<1>1. pc \notin {"idle", "halt"}
  BY DEF Trying, LanePc
<1>2. mem \in Journal /\ mem.applied = disk.applied
  BY <1>1, MemType
<1>3. TypeOK /\ disk.desired = mem.desired /\ disk.desired # None
  BY DEF IInv, JobKnows
<1> QED
  BY <1>2, <1>3, EntryNotNone DEF Journal

\* A transaction that fails leaves the bundles as they are.
LEMMA GiveUpInv ==
  ASSUME IInv, Trying, TypeOK', pc' = "applyFailed", UNCHANGED disk,
         UNCHANGED flash, UNCHANGED mem
  PROVE  IInv'
<1>1. mem # None /\ mem.applied = disk.applied /\ mem.desired # None
  BY TryingFacts
<1>2. RollbackAvailable'
  BY StillAvailable DEF IInv
<1>3. JobKnows' /\ BundlesFit'
  BY <1>1 DEF JobKnows, BundlesFit, Trying, Switched, RollingBack, Returning,
              LanePc
<1> QED
  BY <1>2, <1>3 DEF IInv

LEMMA BeginInv ==
  ASSUME IInv, BeginStep
  PROVE  IInv'
<1> DEFINE j == BeginApply(mem)
<1>1. /\ pc = "begin" /\ Trying
      /\ UNCHANGED <<flash, lane, server, admin>>
      /\ Persist(j) \/ PersistFails
  BY DEF BeginStep, At, Trying
<1>2. /\ TypeOK /\ mem \in Journal
      /\ mem.applied = disk.applied /\ mem.desired # None
  BY <1>1, TryingFacts
<1>3. j \in Journal /\ j.applied = disk.applied /\ j.desired # None
  <2>1. "PREPARING" \in Phases
    BY DEF Phases
  <2> QED
    BY <1>2, <2>1, PhaseType DEF BeginApply
<1> HIDE DEF j
<1>4. disk' \in Journal /\ disk'.applied = disk.applied /\ faults' \in Nat
  BY <1>1, <1>2, <1>3, PersistType
<1>5. CASE JobGone
  BY <1>1, <1>2, <1>4, <1>5, GoneInv DEF TypeOK, lane, server, admin
<1>6. CASE /\ disk' = j /\ mem' = j /\ applying' = TRUE /\ pc' = "prepare"
           /\ UNCHANGED <<cmd, act, sw, cand, prep>>
  <2>1. TypeOK'
    BY <1>1, <1>2, <1>3, <1>4, <1>6
       DEF TypeOK, flash, lane, server, admin, Steps
  <2>2. RollbackAvailable'
    BY <1>1, <1>4, StillAvailable DEF IInv
  <2>3. j # None
    BY <1>3, EntryNotNone
  <2>4. JobKnows' /\ BundlesFit'
    BY <1>3, <1>6, <2>3 DEF JobKnows, BundlesFit, Trying, Switched,
                            RollingBack, Returning, LanePc
  <2> QED
    BY <2>1, <2>2, <2>4 DEF IInv
<1> QED
  BY <1>5, <1>6 DEF BeginStep, Persist, Goto, j

LEMMA PrepareInv ==
  ASSUME IInv, PrepareStep
  PROVE  IInv'
<1>1. /\ pc = "prepare" /\ Trying
      /\ UNCHANGED <<disk, flash, lane, cmd, applying, act, sw, mem, cand,
                     server, admin>>
  BY DEF PrepareStep, At, Trying
<1>2. TypeOK /\ mem # None /\ mem.applied = disk.applied
      /\ disk.desired = mem.desired /\ disk.desired # None
      /\ disk.desired \in Entry
  BY <1>1, TryingFacts
<1>3. faults' \in Nat
  BY <1>2, FaultType DEF PrepareStep
<1>4. ASSUME NEW p \in Profiles,
             prep' = BundleOf(disk.desired, uci, p), pc' = "prepared"
      PROVE  IInv'
  <2>1. prep' \in Bundle /\ prep' # None
    BY <1>2, <1>4, EntryNotNone DEF BundleOf, Bundle, Entry, TypeOK
  <2>2. prep'.etag = disk.desired.etag /\ prep'.attempt = disk.desired.attempt
    BY <1>4 DEF BundleOf
  <2>3. TypeOK'
    BY <1>1, <1>2, <1>3, <1>4, <2>1
       DEF TypeOK, flash, lane, server, admin, Steps
  <2>4. RollbackAvailable'
    BY <1>1, StillAvailable DEF IInv
  <2>5. JobKnows' /\ BundlesFit'
    BY <1>1, <1>2, <1>4, <2>1, <2>2
       DEF JobKnows, BundlesFit, Trying, Switched, RollingBack, Returning,
           LanePc, MatchesBundle
  <2> QED
    BY <2>3, <2>4, <2>5 DEF IInv
<1>5. CASE pc' = "applyFailed" /\ UNCHANGED prep
  <2>1. TypeOK'
    BY <1>1, <1>2, <1>3, <1>5 DEF TypeOK, flash, lane, server, admin, Steps
  <2> QED
    BY <1>1, <1>5, <2>1, GiveUpInv
<1> QED
  BY <1>4, <1>5 DEF PrepareStep, Goto

\* A phase is saved, or the transaction is given up with the journal as it was.
LEMMA CheckpointInv ==
  ASSUME IInv, NEW step, NEW j, NEW next, Checkpoint(step, j, next),
         j \in Journal, j.desired = mem.desired, j.applied = mem.applied,
         \/ step = "prepared" /\ next = "activating"
         \/ step = "activating" /\ next = "savePrevious"
         \/ step = "activated" /\ next = "verify"
  PROVE  IInv'
<1>1. /\ pc = step /\ Trying
      /\ UNCHANGED <<flash, lane, cmd, applying, act, sw, cand, prep, server,
                     admin>>
      /\ Persist(j) \/ PersistFails
  BY DEF Checkpoint, At, Trying
<1>2. TypeOK /\ mem # None /\ mem.applied = disk.applied
      /\ disk.desired = mem.desired /\ disk.desired # None
  BY <1>1, TryingFacts
<1>3. disk' \in Journal /\ disk'.applied = disk.applied /\ faults' \in Nat
  BY <1>1, <1>2, PersistType
<1>4. CASE disk' = j /\ mem' = j /\ pc' = next
  <2>1. TypeOK'
    BY <1>1, <1>2, <1>3, <1>4 DEF TypeOK, flash, lane, server, admin, Steps
  <2>2. RollbackAvailable'
    BY <1>1, <1>3, StillAvailable DEF IInv
  <2>3. j # None
    BY EntryNotNone
  <2>4. JobKnows'
    BY <1>1, <1>2, <1>4, <2>3
       DEF JobKnows, Trying, RollingBack, LanePc
  <2>5. BundlesFit
    BY DEF IInv
  <2>6. BundlesFit'
    BY <1>1, <1>2, <1>4, <2>5
       DEF BundlesFit, Switched, Returning, LanePc, MatchesBundle, flash
  <2> QED
    BY <2>1, <2>2, <2>4, <2>6 DEF IInv
<1>5. CASE UNCHANGED <<disk, mem>> /\ pc' = "applyFailed"
  <2>1. TypeOK'
    BY <1>1, <1>2, <1>3, <1>5 DEF TypeOK, flash, lane, server, admin, Steps
  <2> QED
    BY <1>1, <1>5, <2>1, GiveUpInv
<1> QED
  BY <1>4, <1>5 DEF Checkpoint, Persist, PersistFails, Goto

LEMMA PhasesInv ==
  ASSUME IInv, PreparedStep \/ ActivatingStep \/ ActivatedStep
  PROVE  IInv'
<1>1. mem \in Journal
  BY MemType DEF PreparedStep, ActivatingStep, ActivatedStep, Checkpoint, At
<1>2. {"PREPARED", "ACTIVATING", "VERIFYING"} \subseteq Phases
  BY DEF Phases
<1>3. CASE PreparedStep
  <2>1. /\ Prepared(mem) \in Journal
        /\ Prepared(mem).desired = mem.desired
        /\ Prepared(mem).applied = mem.applied
    BY <1>1, <1>2, PhaseType DEF Prepared
  <2> QED
    BY <1>3, <2>1, CheckpointInv DEF PreparedStep
<1>4. CASE ActivatingStep
  <2>1. /\ Activating(mem) \in Journal
        /\ Activating(mem).desired = mem.desired
        /\ Activating(mem).applied = mem.applied
    BY <1>1, <1>2, PhaseType DEF Activating
  <2> QED
    BY <1>4, <2>1, CheckpointInv DEF ActivatingStep
<1>5. CASE ActivatedStep
  <2>1. /\ Activated(mem) \in Journal
        /\ Activated(mem).desired = mem.desired
        /\ Activated(mem).applied = mem.applied
    BY <1>1, <1>2, PhaseType DEF Activated
  <2> QED
    BY <1>5, <2>1, CheckpointInv DEF ActivatedStep
<1> QED
  BY <1>3, <1>4, <1>5

\* The applied bundle is copied first, so that it is in previous.json before
\* current.json is replaced.
LEMMA SavePreviousInv ==
  ASSUME IInv, SavePrevious
  PROVE  IInv'
<1>1. /\ pc = "savePrevious" /\ Trying /\ act' = "activate"
      /\ UNCHANGED <<disk, cur, lane, cmd, applying, sw, mem, cand, prep,
                     server, admin>>
  BY DEF SavePrevious, At, Trying
<1>2. TypeOK /\ mem # None /\ mem.applied = disk.applied
      /\ disk.desired = mem.desired /\ disk.desired # None
  BY <1>1, TryingFacts
<1>3. faults' \in Nat
  BY <1>2, FaultType DEF SavePrevious
<1>4. CASE CanActivate /\ prev' = Backup /\ pc' = "saveCurrent"
  <2>1. prev' \in Bundle \cup {None}
    BY <1>2, <1>4 DEF Backup, TypeOK
  <2>2. TypeOK'
    BY <1>1, <1>2, <1>3, <1>4, <2>1
       DEF TypeOK, lane, server, admin, Steps, Actions
  <2>3. ASSUME disk.applied # None PROVE MatchesBundle(prev, disk.applied)'
    <3>1. MatchesBundle(cur, disk.applied) \/ MatchesBundle(prev, disk.applied)
      BY <1>2, <1>4, <2>3, KeptMatches DEF CanActivate, CanRestore
    <3> QED
      BY <1>1, <1>4, <3>1 DEF Backup, MatchesBundle
  <2>4. RollbackAvailable'
    BY <1>1, <2>3 DEF RollbackAvailable, Kept, MatchesBundle
  <2>5. MatchesBundle(prep, disk.desired)'
    BY <1>1 DEF IInv, BundlesFit, MatchesBundle
  <2>6. JobKnows' /\ BundlesFit'
    BY <1>1, <1>2, <1>4, <2>3, <2>5 DEF JobKnows, BundlesFit, Trying,
             Switched, RollingBack, Returning, LanePc
  <2> QED
    BY <2>2, <2>4, <2>6 DEF IInv
<1>5. CASE pc' = "applyFailed" /\ UNCHANGED prev
  <2>1. TypeOK'
    BY <1>1, <1>2, <1>3, <1>5 DEF TypeOK, lane, server, admin, Steps, Actions
  <2> QED
    BY <1>1, <1>5, <2>1, GiveUpInv DEF flash
<1> QED
  BY <1>4, <1>5 DEF SavePrevious, Goto

LEMMA SaveCurrentInv ==
  ASSUME IInv, SaveCurrent
  PROVE  IInv'
<1>1. /\ pc = "saveCurrent" /\ pc' = "close" /\ Trying /\ act = "activate"
      /\ cur' = prep /\ cand' = prep
      /\ UNCHANGED <<disk, prev, lane, cmd, applying, act, sw, mem, prep,
                     server, admin, faults>>
  BY DEF SaveCurrent, At, Goto, Trying, IInv, JobKnows
<1>2. TypeOK /\ mem # None /\ mem.applied = disk.applied
      /\ disk.desired = mem.desired /\ disk.desired # None
  BY <1>1, TryingFacts
<1>3. /\ MatchesBundle(prep, disk.desired)
      /\ disk.applied # None => MatchesBundle(prev, disk.applied)
  BY <1>1 DEF IInv, BundlesFit
<1>4. TypeOK'
  BY <1>1, <1>2 DEF TypeOK, lane, server, admin, Steps
<1>5. RollbackAvailable'
  BY <1>1, <1>3 DEF RollbackAvailable, Kept, MatchesBundle
<1>6. JobKnows' /\ BundlesFit'
  BY <1>1, <1>2, <1>3 DEF JobKnows, BundlesFit, Trying, Switched, RollingBack,
                          Returning, LanePc, MatchesBundle, Actions
<1> QED
  BY <1>4, <1>5, <1>6 DEF IInv

LEMMA VerifyInv ==
  ASSUME IInv, VerifyStep
  PROVE  IInv'
<1>1. /\ pc = "verify" /\ Trying /\ act' = "verify"
      /\ UNCHANGED <<disk, flash, lane, cmd, applying, sw, mem, cand, prep,
                     server, admin>>
  BY DEF VerifyStep, At, Trying
<1>2. TypeOK /\ mem # None /\ mem.applied = disk.applied
      /\ disk.desired = mem.desired /\ disk.desired # None
  BY <1>1, TryingFacts
<1>3. faults' \in Nat
  BY <1>2, FaultType DEF VerifyStep
<1>4. CASE pc' = "probe"
  <2>1. TypeOK'
    BY <1>1, <1>2, <1>3, <1>4
       DEF TypeOK, flash, lane, server, admin, Steps, Actions
  <2>2. RollbackAvailable'
    BY <1>1, StillAvailable DEF IInv
  <2>3. JobKnows'
    BY <1>1, <1>2, <1>4 DEF JobKnows, Trying, RollingBack, LanePc, Actions
  <2>4. BundlesFit
    BY DEF IInv
  <2>5. BundlesFit'
    BY <1>1, <1>4, <2>4
       DEF BundlesFit, Switched, Returning, LanePc, MatchesBundle, flash
  <2> QED
    BY <2>1, <2>2, <2>3, <2>5 DEF IInv
<1>5. CASE pc' = "applyFailed"
  <2>1. TypeOK'
    BY <1>1, <1>2, <1>3, <1>5
       DEF TypeOK, flash, lane, server, admin, Steps, Actions
  <2> QED
    BY <1>1, <1>5, <2>1, GiveUpInv
<1> QED
  BY <1>4, <1>5 DEF VerifyStep, Goto

\* The commit is the one step that replaces the applied entry; by then
\* current.json holds the bundle of the new one.
LEMMA CommitInv ==
  ASSUME IInv, CommitStep
  PROVE  IInv'
<1> DEFINE j == Verified(mem, cur.profile)
<1>1. /\ pc = "commit" /\ Trying
      /\ UNCHANGED <<flash, lane, cmd, applying, act, sw, cand, prep, server,
                     admin>>
      /\ Persist(j) \/ PersistFails
      /\ MatchesBundle(cur, disk.desired)
  BY DEF CommitStep, At, Trying, IInv, BundlesFit, Switched
<1>2. /\ TypeOK /\ mem \in Journal /\ mem.applied = disk.applied
      /\ disk.desired = mem.desired /\ disk.desired # None
  BY <1>1, TryingFacts
<1>3. cur.profile \in Profiles
  BY <1>1, <1>2 DEF TypeOK, MatchesBundle, Bundle
<1>4. j \in Journal /\ j.applied = disk.desired
  BY <1>2, <1>3, VerifiedType
<1> HIDE DEF j
<1>5. disk' \in Journal /\ faults' \in Nat
  BY <1>1, <1>2, <1>4, PersistType
<1>6. CASE disk' = j /\ mem' = j /\ pc' = "report"
  <2>1. TypeOK'
    BY <1>1, <1>2, <1>4, <1>5, <1>6 DEF TypeOK, flash, lane, server, admin, Steps
  <2>2. RollbackAvailable'
    BY <1>1, <1>4, <1>6 DEF RollbackAvailable, Kept, MatchesBundle, flash
  <2>3. j # None
    BY <1>4, EntryNotNone
  <2>4. JobKnows' /\ BundlesFit'
    BY <1>6, <2>3 DEF JobKnows, BundlesFit, Trying, Switched, RollingBack,
                      Returning, LanePc
  <2> QED
    BY <2>1, <2>2, <2>4 DEF IInv
<1>7. CASE UNCHANGED <<disk, mem>> /\ pc' = "applyFailed"
  <2>1. TypeOK'
    BY <1>1, <1>2, <1>5, <1>7 DEF TypeOK, flash, lane, server, admin, Steps
  <2> QED
    BY <1>1, <1>7, <2>1, GiveUpInv
<1> QED
  BY <1>6, <1>7 DEF CommitStep, Persist, PersistFails, Goto, j

-----------------------------------------------------------------------------
(***************************************************************************)
(* The lane.  All its actions share these steps; which bundle they are     *)
(* about depends on the action.                                            *)
(***************************************************************************)
LEMMA LaneFacts ==
  ASSUME IInv, pc \in LanePc
  PROVE  /\ TypeOK
         /\ mem \in Journal /\ mem # None /\ mem.applied = disk.applied
         /\ act \in Actions
         /\ cur \in Bundle /\ cur # None /\ cand \in Bundle /\ cand # None
         /\ cur.etag = cand.etag /\ cur.attempt = cand.attempt
<1>1. TypeOK /\ act \in Actions
  BY DEF IInv, JobKnows
<1>2. mem \in Journal /\ mem # None /\ mem.applied = disk.applied
  BY MemType, EntryNotNone DEF LanePc
<1>3. \/ MatchesBundle(cur, disk.desired) /\ MatchesBundle(cand, disk.desired)
      \/ MatchesBundle(cur, disk.applied) /\ MatchesBundle(cand, disk.applied)
  BY <1>1 DEF IInv, BundlesFit, Switched, Returning, Actions
<1> QED
  BY <1>1, <1>2, <1>3 DEF MatchesBundle, TypeOK

\* Whatever a lane step does to current.json and to the candidate, it stays
\* with the bundle of the entry the action is about.
LEMMA LaneInv ==
  ASSUME IInv, TypeOK', pc \in LanePc, LaneStep,
         pc' \in LanePc \cup {AfterAction, ActionFailed},
         pc' = "monitor" => act = "health-tick",
         cur' \in {cur, cand},
         cand' # None, cand'.etag = cur.etag, cand'.attempt = cur.attempt
  PROVE  IInv'
<1>1. /\ TypeOK
      /\ mem # None /\ mem.applied = disk.applied
      /\ act \in Actions /\ cur' # None
      /\ cur'.etag = cur.etag /\ cur'.attempt = cur.attempt
  BY LaneFacts
<1>2. UNCHANGED <<disk, prev, cmd, applying, act, mem, prep, server, admin>>
  BY DEF LaneStep
<1>3. CASE act \in {"activate", "verify"}
  <2>1. /\ disk.desired # None /\ disk.desired = mem.desired
        /\ MatchesBundle(cur, disk.desired)
        /\ disk.applied # None => MatchesBundle(prev, disk.applied)
    BY <1>3 DEF IInv, JobKnows, BundlesFit, Trying, Switched
  <2>2. MatchesBundle(cur, disk.desired)' /\ MatchesBundle(cand, disk.desired)'
    BY <1>1, <1>2, <2>1 DEF MatchesBundle
  <2>3. disk.applied # None => MatchesBundle(prev, disk.applied)'
    BY <1>2, <2>1 DEF MatchesBundle
  <2>4. RollbackAvailable'
    BY <1>2, <2>3 DEF RollbackAvailable, Kept, MatchesBundle
  <2>5. pc' \in LanePc \cup {"activated", "commit", "applyFailed"}
    BY <1>3 DEF AfterAction, ActionFailed
  <2>6. JobKnows'
    BY <1>1, <1>2, <1>3, <2>1, <2>5
       DEF JobKnows, Trying, RollingBack, LanePc, Actions
  <2>7. BundlesFit'
    BY <1>2, <1>3, <2>2, <2>3, <2>5 DEF BundlesFit, Switched, Returning, LanePc
  <2> QED
    BY <2>4, <2>6, <2>7 DEF IInv
<1>4. CASE act \in {"rollback", "restore", "health-tick"}
  <2>1. /\ MatchesBundle(cur, disk.applied)
        /\ act = "rollback" => mem.desired # None
    BY <1>4 DEF IInv, JobKnows, BundlesFit, RollingBack, Returning
  <2>2. MatchesBundle(cur, disk.applied)' /\ MatchesBundle(cand, disk.applied)'
    BY <1>1, <1>2, <2>1 DEF MatchesBundle
  <2>3. RollbackAvailable'
    BY <2>2 DEF RollbackAvailable, Kept, MatchesBundle
  <2>4. pc' \in LanePc \cup {"rolledBackTrue", "report", "tickSave",
                             "failClosed", "restoreFailed", "tickFailed"}
    BY <1>4 DEF AfterAction, ActionFailed
  <2>5. act = "rollback" \/ pc' \notin {"rolledBackTrue", "failClosed"}
    BY <1>4 DEF AfterAction, ActionFailed, LanePc
  <2>6. JobKnows'
    BY <1>1, <1>2, <1>4, <2>1, <2>4, <2>5
       DEF JobKnows, Trying, RollingBack, LanePc, Actions
  <2>7. BundlesFit'
    BY <1>2, <1>4, <2>2, <2>4 DEF BundlesFit, Switched, Returning, LanePc
  <2> QED
    BY <2>3, <2>6, <2>7 DEF IInv
<1> QED
  BY <1>1, <1>3, <1>4 DEF Actions

LEMMA StepsOfLane ==
  ASSUME act \in Actions
  PROVE  LanePc \cup {AfterAction, ActionFailed} \subseteq Steps
BY DEF Actions, AfterAction, ActionFailed, LanePc, Steps

\* A lane step that leaves current.json and the candidate alone.
LEMMA LaneSameInv ==
  ASSUME IInv, pc \in LanePc, LaneStep, UNCHANGED <<cur, cand>>,
         pc' \in LanePc \cup {AfterAction, ActionFailed},
         pc' = "monitor" => act = "health-tick",
         run' \in Bundle \cup {None}, svc' \in BOOLEAN,
         grd' \in {"open", "closed"}, sw' \in {"no", "failover", "fallback"},
         faults' \in Nat
  PROVE  IInv'
<1>1. /\ TypeOK /\ act \in Actions
      /\ cand # None /\ cand.etag = cur.etag /\ cand.attempt = cur.attempt
  BY LaneFacts
<1>2. pc' \in Steps
  BY <1>1, StepsOfLane
<1>3. TypeOK'
  BY <1>1, <1>2 DEF TypeOK, LaneStep, server, admin
<1> QED
  BY <1>1, <1>3, LaneInv

LEMMA CloseLaneInv ==
  ASSUME IInv, CloseLane
  PROVE  IInv'
<1>1. TypeOK /\ pc \in LanePc /\ "writeRun" \in LanePc /\ act \in Actions
  BY LaneFacts DEF CloseLane, At, LanePc
<1>2. /\ run' \in Bundle \cup {None} /\ svc' \in BOOLEAN
      /\ grd' \in {"open", "closed"} /\ faults' \in Nat
  BY <1>1, ClosedType DEF CloseLane, TypeOK
<1>3. sw' \in {"no", "failover", "fallback"} /\ UNCHANGED <<cur, cand>>
  BY <1>1 DEF CloseLane, TypeOK
<1>4. pc' \in {"writeRun", ActionFailed} /\ LaneStep
  BY DEF CloseLane, Goto
<1>5. ActionFailed # "monitor" /\ "writeRun" # "monitor"
  BY <1>1 DEF ActionFailed, Actions
<1> QED
  BY <1>1, <1>2, <1>3, <1>4, <1>5, LaneSameInv

LEMMA WriteRunInv ==
  ASSUME IInv, WriteRun
  PROVE  IInv'
<1>1. TypeOK /\ pc \in LanePc /\ "startService" \in LanePc /\ act \in Actions
  BY LaneFacts DEF WriteRun, At, LanePc
<1>2. /\ run' \in Bundle \cup {None} /\ svc' \in BOOLEAN
      /\ grd' \in {"open", "closed"} /\ UNCHANGED <<cur, cand>>
      /\ sw' \in {"no", "failover", "fallback"}
  BY <1>1 DEF WriteRun, TypeOK
<1>3. faults' \in Nat
  BY <1>1, FaultType DEF WriteRun
<1>4. pc' \in {"startService", ActionFailed} /\ LaneStep
  BY DEF WriteRun, Goto
<1>5. ActionFailed # "monitor" /\ "startService" # "monitor"
  BY <1>1 DEF ActionFailed, Actions
<1> QED
  BY <1>1, <1>2, <1>3, <1>4, <1>5, LaneSameInv

LEMMA AwgFallbackInv ==
  ASSUME IInv, AwgFallback
  PROVE  IInv'
<1>1. TypeOK /\ pc \in LanePc /\ "close" \in LanePc /\ act \in Actions
      /\ cand \in Bundle /\ cand.etag = cur.etag /\ cand.attempt = cur.attempt
  BY LaneFacts DEF AwgFallback, At, LanePc
<1>2. PICK p \in Profiles : cand' = [cand EXCEPT !.profile = p]
  BY DEF AwgFallback
<1>3. /\ cand' \in Bundle /\ cand' # None
      /\ cand'.etag = cur.etag /\ cand'.attempt = cur.attempt
  BY <1>1, <1>2, EntryNotNone DEF Bundle
<1>4. faults' \in Nat
  BY <1>1, FaultType DEF AwgFallback
<1>5. pc' = "close" /\ UNCHANGED <<cur, lane>> /\ LaneStep
      /\ sw' \in {"no", "failover", "fallback"}
  BY <1>1 DEF AwgFallback, Goto, TypeOK
<1>6. TypeOK'
  BY <1>1, <1>3, <1>4, <1>5 DEF TypeOK, LaneStep, lane, server, admin, Steps
<1> QED
  BY <1>1, <1>3, <1>5, <1>6, LaneInv

LEMMA StartServiceInv ==
  ASSUME IInv, StartService
  PROVE  IInv'
<1>1. TypeOK /\ pc \in LanePc /\ act \in Actions
  BY LaneFacts DEF StartService, At, LanePc
<1>2. /\ run' \in Bundle \cup {None} /\ svc' \in BOOLEAN
      /\ grd' \in {"open", "closed"} /\ UNCHANGED <<cur, cand>>
      /\ sw' \in {"no", "failover", "fallback"}
  BY <1>1 DEF StartService, TypeOK
<1>3. faults' \in Nat
  BY <1>1, FaultType DEF StartService
<1>4. pc' \in {AfterStart, ActionFailed} /\ LaneStep
  BY DEF StartService, Goto
<1>5. AfterStart \in LanePc \cup {AfterAction, ActionFailed}
  BY DEF AfterStart, AfterConfirm, AfterAction, LanePc
<1>6. AfterStart = "monitor" => act = "health-tick"
  BY DEF AfterStart, AfterConfirm
<1>7. ActionFailed # "monitor"
  BY <1>1 DEF ActionFailed, Actions
<1> QED
  BY <1>1, <1>2, <1>3, <1>4, <1>5, <1>6, <1>7, LaneSameInv

LEMMA ConfirmInv ==
  ASSUME IInv, Confirm
  PROVE  IInv'
<1>1. TypeOK /\ pc \in LanePc /\ "commitProfile" \in LanePc /\ act \in Actions
  BY LaneFacts DEF Confirm, At, LanePc
<1>2. /\ run' \in Bundle \cup {None} /\ svc' \in BOOLEAN
      /\ grd' \in {"open", "closed"} /\ UNCHANGED <<cur, cand>>
      /\ sw' \in {"no", "failover", "fallback"}
  BY <1>1 DEF Confirm, TypeOK, lane
<1>3. faults' \in Nat
  BY <1>1, FaultType DEF Confirm
<1>4. pc' \in {"commitProfile", ActionFailed} /\ LaneStep
  BY DEF Confirm, Goto
<1>5. ActionFailed # "monitor" /\ "commitProfile" # "monitor"
  BY <1>1 DEF ActionFailed, Actions
<1> QED
  BY <1>1, <1>2, <1>3, <1>4, <1>5, LaneSameInv

LEMMA CommitProfileInv ==
  ASSUME IInv, CommitProfile
  PROVE  IInv'
<1>1. /\ TypeOK /\ pc \in LanePc /\ act \in Actions
      /\ cand \in Bundle /\ cand # None
      /\ cand.etag = cur.etag /\ cand.attempt = cur.attempt
  BY LaneFacts DEF CommitProfile, At, LanePc
<1>2. /\ cur' \in {cur, cand} /\ sw' = "no" /\ UNCHANGED <<lane, cand>>
      /\ LaneStep
  BY DEF CommitProfile
<1>3. faults' \in Nat
  BY <1>1, FaultType DEF CommitProfile
<1>4. /\ pc' \in LanePc \cup {AfterAction, ActionFailed}
      /\ pc' = "monitor" => act = "health-tick"
  <2>1. ActionFailed # "monitor"
    BY <1>1 DEF ActionFailed, Actions
  <2> QED
    BY <2>1 DEF CommitProfile, Goto, AfterConfirm, AfterAction, LanePc
<1>5. pc' \in Steps
  BY <1>1, <1>4, StepsOfLane
<1>6. TypeOK'
  BY <1>1, <1>2, <1>3, <1>5 DEF TypeOK, LaneStep, lane, server, admin
<1> QED
  BY <1>1, <1>2, <1>4, <1>6, LaneInv

\* Another profile of the same bundle is staged.
LEMMA SelectInv ==
  ASSUME IInv, pc \in LanePc, SelectProfile, LaneStep,
         cur' = cur, run' = run, svc' = svc, grd' = "closed", faults' \in Nat
  PROVE  IInv'
<1>1. TypeOK /\ cur \in Bundle
  BY LaneFacts
<1>2. PICK p \in Profiles : cand' = [cur EXCEPT !.profile = p]
  BY DEF SelectProfile
<1>3. /\ cand' \in Bundle /\ cand' # None
      /\ cand'.etag = cur.etag /\ cand'.attempt = cur.attempt
  BY <1>1, <1>2, EntryNotNone DEF Bundle
<1>4. pc' = "close" /\ sw' = "failover"
  BY DEF SelectProfile, Goto
<1>5. TypeOK'
  BY <1>1, <1>3, <1>4 DEF TypeOK, LaneStep, server, admin, Steps
<1>6. "close" \in LanePc
  BY DEF LanePc
<1> QED
  BY <1>3, <1>4, <1>5, <1>6, LaneInv

LEMMA ProbeInv ==
  ASSUME IInv, Probe
  PROVE  IInv'
<1>1. TypeOK /\ pc \in LanePc /\ "open" \in LanePc /\ act \in Actions
  BY LaneFacts DEF Probe, At, LanePc
<1>2. faults' \in Nat /\ UNCHANGED cur /\ LaneStep
  BY <1>1, FaultType DEF Probe
<1>3. CASE pc' \in {"open", ActionFailed} /\ UNCHANGED <<sw, cand, lane>>
  <2>1. ActionFailed # "monitor" /\ "open" # "monitor"
    BY <1>1 DEF ActionFailed, Actions
  <2>2. /\ run' \in Bundle \cup {None} /\ svc' \in BOOLEAN
        /\ grd' \in {"open", "closed"} /\ sw' \in {"no", "failover", "fallback"}
    BY <1>1, <1>3 DEF TypeOK, lane
  <2> QED
    BY <1>1, <1>2, <1>3, <2>1, <2>2, LaneSameInv
<1>4. CASE SelectProfile /\ grd' = "closed" /\ UNCHANGED <<run, svc>>
  BY <1>1, <1>2, <1>4, SelectInv
<1> QED
  BY <1>3, <1>4 DEF Probe, Goto

LEMMA OpenGuardInv ==
  ASSUME IInv, OpenGuard
  PROVE  IInv'
<1>1. TypeOK /\ pc \in LanePc /\ act \in Actions
  BY LaneFacts DEF OpenGuard, At, LanePc
<1>2. /\ run' \in Bundle \cup {None} /\ svc' \in BOOLEAN
      /\ grd' \in {"open", "closed"} /\ UNCHANGED <<cur, cand>>
      /\ sw' \in {"no", "failover", "fallback"}
  BY <1>1 DEF OpenGuard, LaneNotClosed, TypeOK
<1>3. faults' \in Nat
  BY <1>1, FaultType DEF OpenGuard, LaneNotClosed
<1>4. pc' \in {AfterAction, ActionFailed} /\ LaneStep
  BY DEF OpenGuard, Goto
<1>5. AfterAction # "monitor" /\ ActionFailed # "monitor"
  BY <1>1 DEF AfterAction, ActionFailed, Actions
<1> QED
  BY <1>1, <1>2, <1>3, <1>4, <1>5, LaneSameInv

-----------------------------------------------------------------------------
(***************************************************************************)
(* The health tick.                                                        *)
(***************************************************************************)
LEMMA TickStepInv ==
  ASSUME IInv, TickStep
  PROVE  IInv'
<1>1. /\ TypeOK /\ pc = "tick" /\ act' = "health-tick"
      /\ UNCHANGED <<disk, prev, lane, cmd, applying, sw, mem, prep, server,
                     admin>>
  BY DEF TickStep, At, IInv
<1>2. mem \in Journal /\ mem # None /\ mem.applied = disk.applied
  BY <1>1, MemType, EntryNotNone
<1>3. faults' \in Nat
  BY <1>1, FaultType DEF TickStep
<1>4. CASE /\ Kept(disk.applied) # None
           /\ cur' = Kept(disk.applied) /\ cand' = Kept(disk.applied)
           /\ pc' \in {"monitor", "close"}
  <2>1. /\ cur' \in Bundle /\ MatchesBundle(cur, disk.applied)'
        /\ cand' \in Bundle /\ MatchesBundle(cand, disk.applied)'
    BY <1>1, <1>4, KeptMatches DEF MatchesBundle
  <2>2. TypeOK'
    BY <1>1, <1>3, <1>4, <2>1 DEF TypeOK, lane, server, admin, Steps, Actions
  <2>3. RollbackAvailable'
    BY <2>1 DEF RollbackAvailable, Kept, MatchesBundle
  <2>4. JobKnows' /\ BundlesFit'
    BY <1>1, <1>2, <1>4, <2>1 DEF JobKnows, BundlesFit, Trying, Switched,
             RollingBack, Returning, LanePc, Actions
  <2> QED
    BY <2>2, <2>3, <2>4 DEF IInv
<1>5. CASE pc' \in {"tickFailed", "tickLost"} /\ UNCHANGED <<cur, cand>>
  <2>1. TypeOK'
    BY <1>1, <1>3, <1>5 DEF TypeOK, lane, server, admin, Steps, Actions
  <2> QED
    BY <1>1, <1>2, <1>5, <2>1, BetweenInv DEF flash
<1> QED
  BY <1>4, <1>5 DEF TickStep, Goto

LEMMA MonitorInv ==
  ASSUME IInv, Monitor
  PROVE  IInv'
<1>1. /\ TypeOK /\ pc \in LanePc /\ act = "health-tick"
      /\ AfterAction = "tickSave" /\ ActionFailed = "tickFailed"
  BY LaneFacts DEF Monitor, At, LanePc, IInv, JobKnows, AfterAction, ActionFailed
<1>2. faults' \in Nat /\ UNCHANGED <<cur, run, svc>> /\ LaneStep
  BY <1>1, FaultType DEF Monitor
<1>3. CASE /\ pc' \in {"tickSave", "tickFailed"}
           /\ grd' \in {grd, "open", "closed"} /\ UNCHANGED <<sw, cand>>
  <2>1. /\ run' \in Bundle \cup {None} /\ svc' \in BOOLEAN
        /\ grd' \in {"open", "closed"} /\ sw' \in {"no", "failover", "fallback"}
    BY <1>1, <1>2, <1>3 DEF TypeOK
  <2> QED
    BY <1>1, <1>2, <1>3, <2>1, LaneSameInv
<1>4. CASE SelectProfile /\ grd' = "closed"
  BY <1>1, <1>2, <1>4, SelectInv
<1> QED
  BY <1>3, <1>4 DEF Monitor, Goto

LEMMA TickFailedInv ==
  ASSUME IInv, TickFailed
  PROVE  IInv'
<1>1. /\ TypeOK /\ pc = "tickFailed" /\ pc' = "tickLost"
      /\ LaneClosed \/ LaneNotClosed
      /\ UNCHANGED <<disk, flash, job, server, admin>>
  BY DEF TickFailed, CloseAndGoto, Goto, At, IInv
<1>2. TypeOK'
  BY <1>1, ClosedType DEF TypeOK, flash, job, server, admin, Steps
<1>3. mem' \in Journal /\ mem'.applied = disk.applied
  BY <1>1, MemType DEF job
<1> QED
  BY <1>1, <1>2, <1>3, BetweenInv

LEMMA TickSaveInv ==
  ASSUME IInv, TickSave
  PROVE  IInv'
<1> DEFINE p == IF pc = "tickLost" THEN None ELSE cur.profile
           j == [mem EXCEPT !.profile = p]
<1>1. /\ TypeOK /\ pc \in {"tickSave", "tickLost"} /\ JobGone
      /\ UNCHANGED <<flash, lane, server, admin>>
      /\ Persist(j) \/ PersistFails
  BY DEF TickSave, IInv
<1>2. mem \in Journal /\ mem.applied = disk.applied
  BY <1>1, MemType
<1>3. p \in Profiles \cup {None}
  BY <1>1 DEF IInv, BundlesFit, MatchesBundle, TypeOK, Bundle
<1>4. j \in Journal /\ j.applied = disk.applied
  <2> HIDE DEF p
  <2> QED
    BY <1>2, <1>3 DEF Journal
<1>5. disk' \in Journal /\ disk'.applied = disk.applied /\ faults' \in Nat
  BY <1>1, <1>4, PersistType
<1> QED
  BY <1>1, <1>5, GoneInv DEF TypeOK, lane, server, admin

-----------------------------------------------------------------------------
(***************************************************************************)
(* What happens around the controller.                                     *)
(***************************************************************************)
LEMMA EnvironmentInv ==
  ASSUME IInv, Environment
  PROVE  IInv'
<1>1. TypeOK
  BY DEF IInv
<1>2. CASE Crash \/ PowerLoss
  <2>1. faults' \in Nat
    BY <1>1, <1>2, FaultType DEF Crash, PowerLoss
  <2> QED
    BY <1>1, <1>2, <2>1, GoneInv
       DEF Crash, PowerLoss, TypeOK, lane, server, admin
<1>3. CASE ServiceDies \/ Publish \/ EditPolicy
  <2>1. UNCHANGED <<disk, flash, pc, job>>
    BY <1>3 DEF ServiceDies, Publish, EditPolicy
  <2>2. TypeOK'
    <3>1. faults' \in Nat
      BY <1>1, <1>3, FaultType DEF ServiceDies, Publish, EditPolicy, TypeOK
    <3>2. edits' \in Nat
      BY <1>1, <1>3 DEF ServiceDies, Publish, EditPolicy, TypeOK, admin
    <3>3. /\ run' \in Bundle \cup {None} /\ svc' \in BOOLEAN
          /\ grd' \in {"open", "closed"} /\ published' \in Etags
          /\ accepted' \subseteq Report /\ uci' \in Policies
      BY <1>1, <1>3
         DEF ServiceDies, Publish, EditPolicy, TypeOK, lane, server, admin
    <3> QED
      BY <1>1, <2>1, <3>1, <3>2, <3>3 DEF TypeOK, flash, job
  <2>3. RollbackAvailable'
    BY <2>1, StillAvailable DEF IInv
  <2>4. JobKnows /\ BundlesFit
    BY DEF IInv
  <2>5. JobKnows' /\ BundlesFit'
    BY <2>1, <2>4 DEF JobKnows, BundlesFit, Trying, Switched, RollingBack,
                      Returning, MatchesBundle, flash, job
  <2> QED
    BY <2>2, <2>3, <2>5 DEF IInv
<1> QED
  BY <1>2, <1>3 DEF Environment

LEMMA StutterInv ==
  ASSUME IInv, UNCHANGED vars
  PROVE  IInv'
<1>1. TypeOK'
  BY DEF IInv, TypeOK, vars
<1>2. RollbackAvailable'
  BY StillAvailable DEF IInv, vars, flash
<1>3. JobKnows' /\ BundlesFit'
  BY DEF IInv, JobKnows, BundlesFit, Trying, Switched, RollingBack, Returning,
         MatchesBundle, vars
<1> QED
  BY <1>1, <1>2, <1>3 DEF IInv

LEMMA NextInv ==
  ASSUME IInv, [Next]_vars
  PROVE  IInv'
<1>1. CASE StartStep
  BY <1>1, StartInv
<1>2. CASE Halt
  BY <1>2, HaltInv
<1>3. CASE RollbackSteps
  BY <1>3, ApplyFailedInv, RollbackStepInv, FailClosedInv, RolledBackFalseInv,
     RolledBackTrueInv DEF RollbackSteps
<1>4. CASE RefreshSteps
  BY <1>4, RestoreStepInv, RestoreFailedInv, NothingToReportInv, PutResultInv,
     PutRefusedInv, ReportAcceptedInv, FetchNothingInv, FetchMalformedInv,
     TakeInv, ForceNothingInv, SaveReadyInv DEF RefreshSteps
<1>5. CASE ApplySteps
  BY <1>5, BeginInv, PrepareInv, PhasesInv, SavePreviousInv, SaveCurrentInv,
     VerifyInv, CommitInv DEF ApplySteps
<1>6. CASE LaneSteps
  BY <1>6, CloseLaneInv, WriteRunInv, AwgFallbackInv, StartServiceInv,
     ConfirmInv, CommitProfileInv, ProbeInv, OpenGuardInv DEF LaneSteps
<1>7. CASE TickSteps
  BY <1>7, TickStepInv, MonitorInv, TickFailedInv, TickSaveInv DEF TickSteps
<1>8. CASE Environment
  BY <1>8, EnvironmentInv
<1>9. CASE UNCHANGED vars
  BY <1>9, StutterInv
<1> QED
  BY <1>1, <1>2, <1>3, <1>4, <1>5, <1>6, <1>7, <1>8, <1>9 DEF Next, JobStep

-----------------------------------------------------------------------------
\* The inductive invariant holds of every behaviour of the router.
THEOREM Inductive == Spec => []IInv
BY InitInv, NextInv, PTL DEF Spec

\* Every variable has its type: a journal is never written with a field out of
\* range, whatever fails (state.uc, journal.uc).
THEOREM TypeCorrect == Spec => []TypeOK
<1>1. IInv => TypeOK
  BY DEF IInv
<1> QED
  BY <1>1, Inductive, PTL

\* The bundle of the applied entry is on flash at every moment, however many
\* snapshots, retries, crashes and power losses there have been, so neither a
\* rollback nor a restore fails for want of it (runtime-helper.uc).
THEOREM RollbackAlwaysAvailable == Spec => []RollbackAvailable
<1>1. IInv => RollbackAvailable
  BY DEF IInv
<1> QED
  BY <1>1, Inductive, PTL
==============================================================================
