------------------------- MODULE RouterPromiseProofs -------------------------
(***************************************************************************)
(* What a router promises, proved for every set of snapshots, transports   *)
(* and policies and every number of faults: RouterUpdate implements        *)
(* RouterPromise.  The invariant IInv of RouterProofs says that the        *)
(* bundles on flash fit the journal; SInv adds what the lane serves and    *)
(* the order of the attempts in every copy of the journal.                 *)
(***************************************************************************)
EXTENDS RouterProofs

-----------------------------------------------------------------------------
(***************************************************************************)
(* What the transitions of state.uc do to the order of attempts and to the *)
(* phase.                                                                  *)
(***************************************************************************)
\* A copy that keeps its entries, or gives up the desired one, stays in order.
LEMMA StaysOrdered ==
  ASSUME NEW j \in Journal, Ordered(j), NEW k \in Journal,
         k.seq >= j.seq, k.applied = j.applied, k.desired \in {j.desired, None}
  PROVE  Ordered(k)
<1>1. /\ j.seq \in Nat /\ k.seq \in Nat
      /\ j.applied # None => j.applied.attempt \in Nat
      /\ j.desired # None => j.desired.attempt \in Nat
  BY DEF Journal, Entry
<1> QED
  BY <1>1 DEF Ordered

\* bump() changes the sequence and nothing else of a journal in order.
LEMMA BumpOrder ==
  ASSUME NEW j \in Journal, Ordered(j), NEW k \in Journal,
         k.seq = j.seq, k.applied = j.applied, k.desired \in {j.desired, None}
  PROVE  /\ Bump(k) \in Journal
         /\ Ordered(Bump(k))
         /\ Bump(k).phase = k.phase
         /\ Bump(k).desired = k.desired
         /\ Bump(k).applied = k.applied
<1>1. /\ Bump(k) \in Journal
      /\ Bump(k).desired = k.desired /\ Bump(k).applied = k.applied
  BY BumpType
<1>2. Bump(k).seq = j.seq + 1 /\ Bump(k).phase = k.phase
  BY DEF Bump, Journal
<1>3. j.seq \in Nat /\ Bump(k).seq >= j.seq
  BY <1>2 DEF Journal
<1> HIDE DEF Bump
<1> QED
  BY <1>1, <1>2, <1>3, StaysOrdered

\* beginApply, prepared, activating, activated and applyFailed.
LEMMA PhaseOrder ==
  ASSUME NEW j \in Journal, Ordered(j), NEW p \in Phases
  PROVE  LET k == Bump([j EXCEPT !.phase = p])
         IN  /\ k \in Journal /\ Ordered(k)
             /\ k.phase = p /\ k.desired = j.desired /\ k.applied = j.applied
<1> DEFINE i == [j EXCEPT !.phase = p]
<1>1. /\ i \in Journal /\ i.phase = p /\ i.seq = j.seq
      /\ i.desired = j.desired /\ i.applied = j.applied
  BY DEF Journal
<1> HIDE DEF i
<1>2. /\ Bump(i) \in Journal /\ Ordered(Bump(i)) /\ Bump(i).phase = i.phase
      /\ Bump(i).desired = i.desired /\ Bump(i).applied = i.applied
  BY <1>1, BumpOrder
<1> QED
  BY <1>1, <1>2 DEF i

\* receiveSnapshot on a snapshot it refuses.
LEMMA RejectOrder ==
  ASSUME NEW j \in Journal, Ordered(j), NEW e \in Etags
  PROVE  LET k == RejectSnapshot(j, e)
         IN  /\ k \in Journal /\ Ordered(k)
             /\ k.phase = j.phase /\ k.desired = j.desired
             /\ k.applied = j.applied
<1> DEFINE i == [j EXCEPT !.rejected = e]
<1>1. /\ i \in Journal /\ i.phase = j.phase /\ i.seq = j.seq
      /\ i.desired = j.desired /\ i.applied = j.applied
  BY DEF Journal
<1> HIDE DEF i
<1>2. /\ Bump(i) \in Journal /\ Ordered(Bump(i)) /\ Bump(i).phase = i.phase
      /\ Bump(i).desired = i.desired /\ Bump(i).applied = i.applied
  BY <1>1, BumpOrder
<1> QED
  BY <1>1, <1>2 DEF i, RejectSnapshot

\* reportAccepted.
LEMMA AcceptedOrder ==
  ASSUME NEW j \in Journal, Ordered(j)
  PROVE  LET k == ReportAccepted(j)
         IN  /\ k \in Journal /\ Ordered(k)
             /\ k.phase = j.phase /\ k.desired = j.desired
             /\ k.applied = j.applied
<1> DEFINE i == [j EXCEPT !.pending = None]
<1>1. /\ i \in Journal /\ i.phase = j.phase /\ i.seq = j.seq
      /\ i.desired = j.desired /\ i.applied = j.applied
  BY DEF Journal
<1> HIDE DEF i
<1>2. /\ Bump(i) \in Journal /\ Ordered(Bump(i)) /\ Bump(i).phase = i.phase
      /\ Bump(i).desired = i.desired /\ Bump(i).applied = i.applied
  BY <1>1, BumpOrder
<1> QED
  BY <1>1, <1>2 DEF i, ReportAccepted

\* A profile that the health tick or the rollback records.
LEMMA ProfileOrder ==
  ASSUME NEW j \in Journal, Ordered(j), NEW p \in Profiles \cup {None}
  PROVE  LET k == [j EXCEPT !.profile = p]
         IN  /\ k \in Journal /\ Ordered(k)
             /\ k.phase = j.phase /\ k.desired = j.desired
             /\ k.applied = j.applied
<1> DEFINE k == [j EXCEPT !.profile = p]
<1>1. /\ k \in Journal /\ k.phase = j.phase /\ k.seq = j.seq
      /\ k.desired = j.desired /\ k.applied = j.applied
  BY DEF Journal
<1>2. k.seq >= j.seq
  BY <1>1 DEF Journal
<1> HIDE DEF k
<1>3. Ordered(k)
  BY <1>1, <1>2, StaysOrdered
<1> QED
  BY <1>1, <1>3 DEF k

\* A snapshot that does not regress is taken as a later attempt.
LEMMA ReceiveOrder ==
  ASSUME NEW j \in Journal, Ordered(j), NEW e \in Etags, ~Regresses(j, e)
  PROVE  LET k == ReceiveSnapshot(j, e)
         IN  Ordered(k) /\ k.phase = "READY"
<1> DEFINE d == [etag |-> e, attempt |-> j.seq + 1]
           k == [j EXCEPT !.desired = d, !.rejected = None, !.phase = "READY"]
<1>1. d.etag = e /\ d.attempt = j.seq + 1
  OBVIOUS
<1> HIDE DEF d
<1>2. k.seq = j.seq /\ k.applied = j.applied /\ k.desired = d /\ k.phase = "READY"
  BY DEF Journal
<1> HIDE DEF k
<1>3. DOMAIN k = DOMAIN j
  BY DEF k
<1>4. /\ Bump(k).seq = j.seq + 1 /\ Bump(k).applied = j.applied
      /\ Bump(k).desired = d /\ Bump(k).phase = "READY"
  BY <1>2, <1>3 DEF Bump, Journal
<1>5. /\ j.seq \in Nat
      /\ j.applied # None => /\ j.applied.attempt \in Nat
                             /\ j.applied.etag \in Etags
      /\ \A f \in Etags : Rev[f] \in Nat
  BY JournalAssumption DEF Journal, Entry
<1>6. j.applied # None => Rev[e] >= Rev[j.applied.etag]
  BY <1>5 DEF Regresses
<1>7. ReceiveSnapshot(j, e) = Bump(k)
  BY DEF ReceiveSnapshot, k, d
<1>8. Ordered(Bump(k))
  BY <1>1, <1>4, <1>5, <1>6 DEF Ordered
<1> QED
  BY <1>4, <1>7, <1>8

\* verified: the desired entry becomes the applied one.
LEMMA VerifiedOrder ==
  ASSUME NEW j \in Journal, Ordered(j), j.desired # None, NEW p \in Profiles
  PROVE  LET k == Verified(j, p)
         IN  Ordered(k) /\ k.phase = "IDLE" /\ k.desired = None
<1> DEFINE r == ReportFor(j.desired, p, "verified")
           k == [j EXCEPT !.last_good = j.applied, !.applied = j.desired,
                          !.desired = None, !.phase = "IDLE",
                          !.profile = p, !.pending = r]
<1> HIDE DEF r
<1>1. /\ k.seq = j.seq /\ k.applied = j.desired /\ k.desired = None
      /\ k.phase = "IDLE"
  BY DEF Journal
<1>2. DOMAIN k = DOMAIN j
  OBVIOUS
<1> HIDE DEF k
<1>3. /\ Bump(k).seq = j.seq + 1 /\ Bump(k).applied = j.desired
      /\ Bump(k).desired = None /\ Bump(k).phase = "IDLE"
  BY <1>1, <1>2 DEF Bump, Journal
<1>4. j.seq \in Nat /\ j.desired.attempt \in Nat
  BY DEF Journal, Entry
<1>5. Ordered(Bump(k))
  BY <1>3, <1>4 DEF Ordered
<1>6. Verified(j, p) = Bump(k)
  BY DEF Verified, k, r
<1> QED
  BY <1>3, <1>5, <1>6

\* rolledBack, successful or not.
LEMMA RolledBackOrder ==
  ASSUME NEW j \in Journal, Ordered(j), j.desired # None, NEW ok \in BOOLEAN
  PROVE  LET k == RolledBack(j, ok)
         IN  /\ Ordered(k)
             /\ k.phase = IF ok THEN "IDLE" ELSE "FAIL_CLOSED"
             /\ k.desired = IF ok THEN None ELSE j.desired
<1> DEFINE p == IF ok /\ j.applied # None THEN j.profile ELSE None
           s == IF ok THEN "rolled_back" ELSE "rollback_failed"
           r == ReportFor(j.desired, p, s)
           d == IF ok THEN None ELSE j.desired
           h == IF ok THEN "IDLE" ELSE "FAIL_CLOSED"
           k == [j EXCEPT !.rejected = j.desired.etag, !.desired = d,
                          !.phase = h, !.profile = p, !.pending = r]
<1>1. RolledBack(j, ok) = Bump(k) /\ d \in {j.desired, None}
  BY DEF RolledBack
<1>2. RolledBack(j, ok) \in Journal /\ RolledBack(j, ok).applied = j.applied
  BY RolledBackType
<1> HIDE DEF p, s, r, d, h
<1>3. k.seq = j.seq /\ k.desired = d /\ k.phase = h /\ DOMAIN k = DOMAIN j
  BY DEF Journal
<1> HIDE DEF k
<1>4. Bump(k).seq = j.seq + 1 /\ Bump(k).desired = d /\ Bump(k).phase = h
  BY <1>3 DEF Bump, Journal
<1>5. j.seq \in Nat /\ Bump(k).seq >= j.seq
  BY <1>4 DEF Journal
<1>6. Ordered(RolledBack(j, ok))
  BY <1>1, <1>2, <1>4, <1>5, StaysOrdered
<1> QED
  BY <1>1, <1>4, <1>6 DEF d, h

-----------------------------------------------------------------------------
(***************************************************************************)
(* Frames.  What is served stays known while the entries, the files and    *)
(* the need for a recovery stay as they are and the lane is at most closed.*)
(***************************************************************************)
LEMMA ServedKept ==
  ASSUME Served,
         disk'.applied = disk.applied, disk'.desired = disk.desired,
         RecoverRequired(disk)' <=> RecoverRequired(disk),
         run' = run, cur' = cur, svc' \in {svc, FALSE}, grd' \in {grd, "closed"}
  PROVE  Served'
<1>1. RecoverRequired(disk') <=> RecoverRequired(disk)
  OBVIOUS
<1>2. svc' \/ grd' = "open" => svc \/ grd = "open"
  <2>1. CASE svc' = svc
    BY <2>1
  <2>2. CASE svc' = FALSE
    BY <2>2
  <2> QED
    BY <2>1, <2>2
<1> QED
  BY <1>1, <1>2 DEF Served, MatchesBundle, SameConfig

\* A job that has ended knows nothing; its journal is in order.
LEMMA EndFits ==
  ASSUME pc' \in {"idle", "halt"}, sw' = "no", Ordered(disk')
  PROVE  InOrder' /\ PhaseFits' /\ LaneFits' /\ SwitchFits'
BY DEF InOrder, PhaseFits, LaneFits, SwitchFits, Settling, Trying, RollingBack,
       OnVerify, LanePc, Loading, Ordered

\* A step that ends the job and serves nothing new keeps SInv.
LEMMA GoneKeeps ==
  ASSUME SInv, IInv', JobGone, Ordered(disk'),
         disk'.applied = disk.applied, disk'.desired = disk.desired,
         RecoverRequired(disk') <=> RecoverRequired(disk),
         run' = run, cur' = cur, svc' \in {svc, FALSE}, grd' \in {grd, "closed"}
  PROVE  SInv'
<1>1. Served'
  BY ServedKept DEF SInv
<1>2. InOrder' /\ PhaseFits' /\ LaneFits' /\ SwitchFits'
  BY EndFits DEF JobGone
<1> QED
  BY <1>1, <1>2 DEF SInv

\* Between two lane actions no profile is staged.
LEMMA NoSwitch ==
  ASSUME SInv, pc \notin {"close", "writeRun"} \cup Loading
  PROVE  sw = "no"
BY DEF SInv, SwitchFits

\* A step to a place where the lane is not in any particular state.
PlainPc == {"idle", "halt", "applyFailed", "rollback", "failClosed",
            "rolledBackFalse", "restore", "restoreFailed", "report",
            "reportAccepted", "fetch", "force", "save", "begin", "prepare",
            "prepared", "activating", "savePrevious", "saveCurrent", "tick",
            "tickFailed", "tickSave", "tickLost"}

\* Outside the lane and the transaction nothing is claimed of the lane.
LEMMA PlainKeeps ==
  ASSUME IInv', pc' \in PlainPc, sw' = "no", InOrder', PhaseFits', Served'
  PROVE  SInv'
<1>1. LaneFits' /\ SwitchFits'
  BY DEF LaneFits, SwitchFits, OnVerify, PlainPc, LanePc, Loading
<1> QED
  BY <1>1 DEF SInv

\* What a running job starts a step from.
LEMMA JobFacts ==
  ASSUME SInv, pc \notin {"idle", "halt"}
  PROVE  /\ mem \in Journal /\ mem.applied = disk.applied
         /\ Ordered(mem) /\ Ordered(disk)
         /\ RecoverRequired(mem) <=> RecoverRequired(disk)
         /\ pc # "save" => mem.desired = disk.desired
<1>1. IInv /\ InOrder
  BY DEF SInv
<1> QED
  BY <1>1, MemType DEF InOrder

\* A step that leaves both copies of the journal alone.
LEMMA SameOrder ==
  ASSUME SInv, pc \notin {"idle", "halt", "save"}, UNCHANGED <<disk, mem>>
  PROVE  InOrder'
<1>1. /\ Ordered(mem) /\ Ordered(disk) /\ mem.desired = disk.desired
      /\ RecoverRequired(mem) <=> RecoverRequired(disk)
  BY JobFacts
<1> QED
  BY <1>1 DEF InOrder, Ordered, RecoverRequired

\* A step that writes the job's new copy of the journal, or fails to.
LEMMA NewOrder ==
  ASSUME Ordered(disk'), Ordered(mem'), pc' # "save",
         RecoverRequired(mem') <=> RecoverRequired(disk'),
         mem'.desired = disk'.desired
  PROVE  InOrder'
BY DEF InOrder, Ordered, RecoverRequired

-----------------------------------------------------------------------------
\* A router that has been installed serves nobody.
LEMMA InitServes == Init => SInv
<1> SUFFICES ASSUME Init PROVE SInv
  OBVIOUS
<1>1. IInv
  BY InitInv
<1>2. /\ pc = "idle" /\ sw = "no" /\ grd = "closed" /\ ~svc
      /\ disk.applied = None /\ disk.desired = None
  BY DEF Init, InitialState
<1>3. InOrder /\ PhaseFits /\ LaneFits /\ SwitchFits
  BY <1>2 DEF InOrder, Ordered, PhaseFits, LaneFits, SwitchFits, Settling,
              Trying, RollingBack, OnVerify, LanePc, Loading
<1>4. Served
  BY <1>2 DEF Served
<1> QED
  BY <1>1, <1>3, <1>4 DEF SInv

\* Starting a command (controller.uc dispatch).
LEMMA StartServes ==
  ASSUME SInv, IInv', StartStep
  PROVE  SInv'
<1>1. /\ UNCHANGED <<disk, flash, lane>>
      /\ UNCHANGED <<applying, act, sw>> /\ pc = "idle"
  BY DEF StartStep, Refresh, Recover, ApplyPolicy, HealthTick, Stop, StartJob,
         CanStart, At
<1>2. Ordered(disk)
  BY DEF SInv, InOrder
<1>3. sw' = "no"
  BY <1>1, NoSwitch DEF Loading
<1>4. Served'
  BY <1>1, ServedKept DEF SInv, flash, lane
<1>5. CASE \E c \in Commands : Stop(c)
  <2>1. pc' = "halt"
    BY <1>5 DEF Stop, Goto
  <2> QED
    BY <1>1, <1>2, <1>3, <1>4, <2>1, EndFits DEF SInv
<1>6. CASE Refresh \/ Recover \/ ApplyPolicy \/ HealthTick
  <2>1. /\ pc' \in {"applyFailed", "restore", "report", "tick"}
        /\ mem' = disk
        /\ pc' = "applyFailed" <=> RecoverRequired(disk)
    BY <1>6 DEF Refresh, Recover, ApplyPolicy, HealthTick, StartJob, Goto,
                RecoverRequired
  <2>2. InOrder'
    BY <1>1, <1>2, <2>1, NewOrder
  <2>3. PhaseFits'
    BY <1>1, <2>1 DEF PhaseFits, Settling, Trying, RollingBack, OnVerify, LanePc,
                      RecoverRequired
  <2> QED
    BY <1>3, <1>4, <2>1, <2>2, <2>3, PlainKeeps DEF PlainPc
<1> QED
  BY <1>5, <1>6 DEF StartStep

\* Closing the lane, whatever of it fails, serves nothing new.
LEMMA LaneDown ==
  ASSUME LaneClosed \/ LaneNotClosed
  PROVE  run' = run /\ svc' \in {svc, FALSE} /\ grd' \in {grd, "closed"}
BY DEF LaneClosed, LaneNotClosed

\* stop, and any command on a journal it cannot accept.
LEMMA HaltServes ==
  ASSUME SInv, IInv', Halt
  PROVE  SInv'
<1>1. JobGone /\ disk' = disk /\ cur' = cur
  BY DEF Halt, flash
<1>2. run' = run /\ svc' \in {svc, FALSE} /\ grd' \in {grd, "closed"}
  BY LaneDown DEF Halt
<1>3. Ordered(disk')
  BY <1>1 DEF SInv, InOrder
<1>4. RecoverRequired(disk') <=> RecoverRequired(disk)
  BY <1>1
<1> QED
  BY <1>1, <1>2, <1>3, <1>4, GoneKeeps

-----------------------------------------------------------------------------
(***************************************************************************)
(* The rollback.  There is a transaction to recover until it has brought   *)
(* the applied bundle back and has saved that.                             *)
(***************************************************************************)
LEMMA RollbackFacts ==
  ASSUME SInv, RollingBack
  PROVE  /\ mem \in Journal /\ mem.applied = disk.applied
         /\ mem.desired = disk.desired /\ mem.desired # None
         /\ Ordered(mem) /\ Ordered(disk)
         /\ RecoverRequired(mem) /\ RecoverRequired(disk)
<1>1. pc \notin {"idle", "halt", "save"}
  BY DEF RollingBack, LanePc
<1>2. RecoverRequired(disk) /\ mem.desired # None
  BY DEF SInv, PhaseFits, IInv, JobKnows
<1> QED
  BY <1>1, <1>2, JobFacts

\* rollbackDesired saves ROLLING_BACK, best effort.
LEMMA ApplyFailedServes ==
  ASSUME SInv, IInv', ApplyFailedStep
  PROVE  SInv'
<1> DEFINE j == ApplyFailed(mem)
<1>1. pc = "applyFailed" /\ RollingBack
  BY DEF ApplyFailedStep, At, RollingBack
<1>2. /\ mem \in Journal /\ mem.applied = disk.applied
      /\ mem.desired = disk.desired
      /\ Ordered(mem) /\ Ordered(disk) /\ RecoverRequired(disk)
  BY <1>1, RollbackFacts
<1>3. /\ Ordered(j) /\ j.phase = "ROLLING_BACK"
      /\ j.desired = disk.desired /\ j.applied = disk.applied
  <2>1. "ROLLING_BACK" \in Phases
    BY DEF Phases
  <2> QED
    BY <1>2, <2>1, PhaseOrder DEF ApplyFailed
<1>4. RecoverRequired(j)
  BY <1>3 DEF RecoverRequired
<1> HIDE DEF j
<1>5. /\ mem' = j /\ disk' \in {j, disk} /\ pc' = "rollback"
      /\ UNCHANGED <<flash, lane, applying, sw>>
  BY DEF ApplyFailedStep, Persist, PersistFails, Goto, j
<1>6. /\ Ordered(disk') /\ RecoverRequired(disk')
      /\ disk'.desired = disk.desired /\ disk'.applied = disk.applied
  BY <1>2, <1>3, <1>4, <1>5
<1>7. InOrder'
  BY <1>3, <1>4, <1>5, <1>6, NewOrder
<1>8. PhaseFits'
  BY <1>5, <1>6 DEF PhaseFits, Settling, Trying, RollingBack, OnVerify, LanePc
<1>9. Served'
  BY <1>2, <1>5, <1>6, ServedKept DEF SInv, flash, lane
<1>10. sw' = "no"
  BY <1>1, <1>5, NoSwitch DEF Loading
<1> QED
  BY <1>5, <1>7, <1>8, <1>9, <1>10, PlainKeeps DEF PlainPc

\* The rollback brings the applied bundle back or closes the lane.
LEMMA RollbackStepServes ==
  ASSUME SInv, IInv', RollbackStep
  PROVE  SInv'
<1>1. /\ pc = "rollback" /\ act = "rollback" /\ RollingBack
      /\ UNCHANGED <<disk, prev, applying, act, sw, mem>>
  BY DEF RollbackStep, At, RollingBack, SInv, IInv, JobKnows
<1>2. RecoverRequired(disk)
  BY <1>1, RollbackFacts
<1>3. sw' = "no"
  BY <1>1, NoSwitch DEF Loading
<1>4. InOrder'
  BY <1>1, SameOrder
<1>5. CASE /\ LaneClosed /\ pc' = "rolledBackTrue" /\ UNCHANGED <<cur, cand>>
  <2>1. run' = run /\ svc' = FALSE /\ grd' = "closed"
    BY <1>5 DEF LaneClosed
  <2>2. Served'
    BY <1>1, <1>5, <2>1, ServedKept DEF SInv
  <2>3. PhaseFits'
    BY <1>1, <1>2, <1>5
       DEF PhaseFits, Settling, Trying, RollingBack, OnVerify, LanePc
  <2>4. LaneFits' /\ SwitchFits'
    BY <1>3, <1>5, <2>1 DEF LaneFits, SwitchFits, OnVerify, LanePc, Loading
  <2> QED
    BY <1>4, <2>2, <2>3, <2>4 DEF SInv
<1>6. CASE pc' = "close" /\ cand' = cur' /\ UNCHANGED lane
  <2>1. Served'
    BY <1>1, <1>2, <1>6 DEF SInv, Served, lane, MatchesBundle
  <2>2. PhaseFits'
    BY <1>1, <1>2, <1>6
       DEF PhaseFits, Settling, Trying, RollingBack, OnVerify, LanePc
  <2>3. LaneFits' /\ SwitchFits'
    BY <1>1, <1>3, <1>6 DEF LaneFits, SwitchFits, OnVerify, LanePc, Loading
  <2> QED
    BY <1>4, <2>1, <2>2, <2>3 DEF SInv
<1>7. CASE pc' = "failClosed" /\ UNCHANGED <<cur, cand, lane>>
  <2>1. Served'
    BY <1>1, <1>7, ServedKept DEF SInv, lane
  <2>2. PhaseFits'
    BY <1>1, <1>2, <1>7
       DEF PhaseFits, Settling, Trying, RollingBack, OnVerify, LanePc
  <2> QED
    BY <1>3, <1>4, <1>7, <2>1, <2>2, PlainKeeps DEF PlainPc
<1> QED
  BY <1>5, <1>6, <1>7 DEF RollbackStep, Goto

\* A failed rollback closes the lane.
LEMMA FailClosedServes ==
  ASSUME SInv, IInv', FailClosed
  PROVE  SInv'
<1>1. /\ pc = "failClosed" /\ pc' = "rolledBackFalse" /\ RollingBack
      /\ UNCHANGED <<disk, flash, job>>
  BY DEF FailClosed, CloseAndGoto, Goto, At, RollingBack
<1>2. run' = run /\ svc' \in {svc, FALSE} /\ grd' \in {grd, "closed"}
  BY LaneDown DEF FailClosed, CloseAndGoto
<1>3. RecoverRequired(disk)
  BY <1>1, RollbackFacts
<1>4. InOrder'
  BY <1>1, SameOrder DEF job
<1>5. PhaseFits'
  BY <1>1, <1>3 DEF PhaseFits, Settling, Trying, RollingBack, OnVerify, LanePc
<1>6. Served'
  BY <1>1, <1>2, ServedKept DEF SInv, flash
<1>7. sw' = "no"
  BY <1>1, NoSwitch DEF Loading, job
<1> QED
  BY <1>1, <1>4, <1>5, <1>6, <1>7, PlainKeeps DEF PlainPc

\* A failed rollback is saved as FAIL_CLOSED.
LEMMA RolledBackFalseServes ==
  ASSUME SInv, IInv', RolledBackFalse
  PROVE  SInv'
<1> DEFINE j == RolledBack(mem, FALSE)
<1>1. /\ pc = "rolledBackFalse" /\ RollingBack /\ UNCHANGED <<flash, lane>>
      /\ disk' \in {j, disk}
  BY DEF RolledBackFalse, At, RollingBack, Persist, PersistFails
<1>2. /\ mem \in Journal /\ mem.applied = disk.applied
      /\ mem.desired = disk.desired /\ mem.desired # None
      /\ Ordered(mem) /\ Ordered(disk) /\ RecoverRequired(disk)
  BY <1>1, RollbackFacts
<1>3. /\ Ordered(j) /\ j.phase = "FAIL_CLOSED"
      /\ j.desired = disk.desired /\ j.applied = disk.applied
  BY <1>2, RolledBackOrder, RolledBackType
<1>4. RecoverRequired(j)
  BY <1>3 DEF RecoverRequired
<1>5. JobGone \/ (applying /\ mem' = j /\ pc' = "report"
                  /\ UNCHANGED <<applying, sw>>)
  BY DEF RolledBackFalse, Goto
<1> HIDE DEF j
<1>6. /\ Ordered(disk') /\ RecoverRequired(disk')
      /\ disk'.desired = disk.desired /\ disk'.applied = disk.applied
  BY <1>1, <1>2, <1>3, <1>4
<1>7. CASE JobGone
  BY <1>1, <1>2, <1>6, <1>7, GoneKeeps DEF flash, lane
<1>8. CASE applying /\ mem' = j /\ pc' = "report" /\ UNCHANGED <<applying, sw>>
  <2>1. InOrder'
    BY <1>3, <1>4, <1>6, <1>8, NewOrder
  <2>2. PhaseFits'
    BY <1>8 DEF PhaseFits, Settling, Trying, RollingBack, OnVerify, LanePc
  <2>3. Served'
    BY <1>1, <1>2, <1>6, ServedKept DEF SInv, flash, lane
  <2>4. sw' = "no"
    BY <1>1, <1>8, NoSwitch DEF Loading
  <2> QED
    BY <1>8, <2>1, <2>2, <2>3, <2>4, PlainKeeps DEF PlainPc
<1> QED
  BY <1>5, <1>7, <1>8

\* A rollback that succeeded ends the transaction.
LEMMA RolledBackTrueServes ==
  ASSUME SInv, IInv', RolledBackTrue
  PROVE  SInv'
<1> DEFINE p == IF disk.applied = None THEN mem.profile ELSE cur.profile
           m == [mem EXCEPT !.profile = p]
           j == RolledBack(m, TRUE)
<1>1. /\ pc = "rolledBackTrue" /\ RollingBack /\ UNCHANGED <<flash, lane>>
      /\ IInv /\ TypeOK
  BY DEF RolledBackTrue, At, RollingBack, SInv, IInv
<1>2. /\ mem \in Journal /\ mem.applied = disk.applied
      /\ mem.desired = disk.desired /\ mem.desired # None
      /\ Ordered(mem) /\ Ordered(disk) /\ RecoverRequired(disk)
  BY <1>1, RollbackFacts
<1>3. p \in Profiles \cup {None}
  BY <1>1, <1>2 DEF IInv, BundlesFit, MatchesBundle, TypeOK, Bundle, Journal
<1>4. /\ m \in Journal /\ Ordered(m) /\ m.desired = mem.desired
      /\ m.applied = mem.applied
  <2> HIDE DEF p
  <2> QED
    BY <1>2, <1>3, ProfileOrder
<1>5. \/ PersistFails /\ JobGone
      \/ disk' = j /\ JobGone
      \/ disk' = j /\ mem' = j /\ pc' = AfterRollback /\ UNCHANGED <<applying, sw>>
  BY DEF RolledBackTrue, Persist, Goto
<1> HIDE DEF m
<1>6. /\ Ordered(j) /\ j.phase = "IDLE" /\ j.desired = None
      /\ j.applied = disk.applied
  BY <1>2, <1>4, RolledBackOrder, RolledBackType
<1>7. ~RecoverRequired(j)
  BY <1>6 DEF RecoverRequired
<1> HIDE DEF j
<1>8. CASE PersistFails /\ JobGone
  <2>1. disk' = disk
    BY <1>8 DEF PersistFails
  <2> QED
    BY <1>1, <1>2, <1>8, <2>1, GoneKeeps DEF flash, lane
<1>9. ASSUME disk' = j PROVE Served'
  <2>1. svc \/ grd = "open" => MatchesBundle(run, disk.applied)
    BY <1>1 DEF SInv, LaneFits
  <2>2. grd = "open" => SameConfig(run, cur)
    BY <1>1 DEF SInv, SwitchFits
  <2>3. disk.applied # None => MatchesBundle(cur, disk.applied)
    BY <1>1 DEF IInv, BundlesFit
  <2> QED
    BY <1>1, <1>6, <1>9, <2>1, <2>2, <2>3
       DEF Served, flash, lane, MatchesBundle, SameConfig
<1>10. CASE disk' = j /\ JobGone
  <2>1. InOrder' /\ PhaseFits' /\ LaneFits' /\ SwitchFits'
    BY <1>6, <1>10, EndFits DEF JobGone
  <2> QED
    BY <1>9, <1>10, <2>1 DEF SInv
<1>11. CASE disk' = j /\ mem' = j /\ pc' = AfterRollback
            /\ UNCHANGED <<applying, sw>>
  <2>1. pc' \in {"report", "restore"}
    BY <1>11 DEF AfterRollback
  <2>2. InOrder'
    BY <1>6, <1>11, <2>1, NewOrder
  <2>3. PhaseFits'
    BY <1>7, <1>11, <2>1
       DEF PhaseFits, Settling, Trying, RollingBack, OnVerify, LanePc
  <2>4. sw' = "no"
    BY <1>1, <1>11, NoSwitch DEF Loading
  <2> QED
    BY <1>9, <1>11, <2>1, <2>2, <2>3, <2>4, PlainKeeps DEF PlainPc
<1> QED
  BY <1>5, <1>8, <1>10, <1>11

-----------------------------------------------------------------------------
(***************************************************************************)
(* The refresh, and apply-policy: no transaction is left to recover.       *)
(***************************************************************************)
LEMMA SettlingFacts ==
  ASSUME SInv, Settling
  PROVE  /\ mem \in Journal /\ mem.applied = disk.applied
         /\ Ordered(mem) /\ Ordered(disk)
         /\ ~RecoverRequired(mem) /\ ~RecoverRequired(disk)
         /\ pc # "save" => mem.desired = disk.desired
<1>1. pc \notin {"idle", "halt"}
  BY DEF Settling, LanePc
<1>2. ~RecoverRequired(disk)
  BY DEF SInv, PhaseFits
<1> QED
  BY <1>1, <1>2, JobFacts

\* Outside a transaction current.json is the applied bundle already.
LEMMA KeptIsCurrent ==
  ASSUME SInv, ~RecoverRequired(disk), Kept(disk.applied) # None
  PROVE  Kept(disk.applied) = cur
<1>1. disk.applied # None
  BY DEF Kept, MatchesBundle
<1>2. MatchesBundle(cur, disk.applied)
  BY <1>1 DEF SInv, Served
<1> QED
  BY <1>2 DEF Kept

\* restore keeps a running service or starts it again.
LEMMA RestoreStepServes ==
  ASSUME SInv, IInv', RestoreStep
  PROVE  SInv'
<1>1. /\ pc = "restore" /\ Settling /\ act' = "restore"
      /\ UNCHANGED <<disk, prev, applying, sw, mem>>
  BY DEF RestoreStep, At, Settling
<1>2. ~RecoverRequired(disk)
  BY <1>1, SettlingFacts
<1>3. sw' = "no"
  BY <1>1, NoSwitch DEF Loading
<1>4. InOrder'
  BY <1>1, SameOrder
<1>5. ASSUME pc' \in {"report", "restoreFailed", "close"} PROVE PhaseFits'
  BY <1>1, <1>2, <1>5
     DEF PhaseFits, Settling, Trying, RollingBack, OnVerify, LanePc
<1>6. CASE /\ LaneClosed /\ pc' = "report" /\ UNCHANGED <<cur, cand>>
  <2>1. run' = run /\ svc' \in {svc, FALSE} /\ grd' \in {grd, "closed"}
    BY <1>6, LaneDown
  <2>2. Served'
    BY <1>1, <1>6, <2>1, ServedKept DEF SInv
  <2> QED
    BY <1>3, <1>4, <1>5, <1>6, <2>2, PlainKeeps DEF PlainPc
<1>7. CASE /\ Kept(disk.applied) # None
           /\ cur' = Kept(disk.applied) /\ cand' = cur'
           /\ pc' \in {"report", "close"} /\ UNCHANGED lane
  <2>1. cur' = cur
    BY <1>2, <1>7, KeptIsCurrent
  <2>2. Served'
    BY <1>1, <1>7, <2>1, ServedKept DEF SInv, lane
  <2>3. LaneFits' /\ SwitchFits'
    BY <1>1, <1>3, <1>7 DEF LaneFits, SwitchFits, OnVerify, LanePc, Loading
  <2> QED
    BY <1>4, <1>5, <1>7, <2>2, <2>3 DEF SInv
<1>8. CASE pc' = "restoreFailed" /\ UNCHANGED <<cur, cand, lane>>
  <2>1. Served'
    BY <1>1, <1>8, ServedKept DEF SInv, lane
  <2> QED
    BY <1>3, <1>4, <1>5, <1>8, <2>1, PlainKeeps DEF PlainPc
<1> QED
  BY <1>6, <1>7, <1>8 DEF RestoreStep, Goto

\* Nothing but the place of the job changes, or the lane is closed as well.
LEMMA GoesOn ==
  ASSUME SInv, IInv', Settling, pc # "save",
         pc' \in {"report", "reportAccepted", "fetch", "force", "tickLost"},
         UNCHANGED <<disk, cur, job>>, pc \notin LanePc,
         run' = run, svc' \in {svc, FALSE}, grd' \in {grd, "closed"}
  PROVE  SInv'
<1>1. ~RecoverRequired(disk)
  BY SettlingFacts
<1>2. InOrder'
  BY SameOrder DEF job, Settling, LanePc
<1>3. PhaseFits'
  BY <1>1 DEF PhaseFits, Settling, Trying, RollingBack, OnVerify, LanePc
<1>4. Served'
  BY ServedKept DEF SInv
<1>5. sw' = "no"
  BY NoSwitch DEF job, LanePc, Loading
<1> QED
  BY <1>2, <1>3, <1>4, <1>5, PlainKeeps DEF PlainPc

\* A job that ends, with its journal saved or not.
LEMMA GivesUp ==
  ASSUME SInv, IInv', JobGone, UNCHANGED <<disk, cur, lane>>
  PROVE  SInv'
<1>1. Ordered(disk')
  BY DEF SInv, InOrder
<1> QED
  BY <1>1, GoneKeeps DEF lane

\* A restore that failed closes the lane.
LEMMA RestoreFailedServes ==
  ASSUME SInv, IInv', RestoreFailed
  PROVE  SInv'
<1>1. /\ pc = "restoreFailed" /\ pc' = "report" /\ UNCHANGED <<disk, flash, job>>
  BY DEF RestoreFailed, CloseAndGoto, Goto, At
<1>2. run' = run /\ svc' \in {svc, FALSE} /\ grd' \in {grd, "closed"}
  BY LaneDown DEF RestoreFailed, CloseAndGoto
<1>3. Settling /\ pc \notin LanePc
  BY <1>1 DEF Settling, LanePc
<1> QED
  BY <1>1, <1>2, <1>3, GoesOn DEF flash

\* A job with no pending report goes on to the fetch.
LEMMA NothingToReportServes ==
  ASSUME SInv, IInv', NothingToReport
  PROVE  SInv'
<1>1. /\ pc = "report" /\ pc' \in {"fetch", "force"} /\ ~applying
      /\ UNCHANGED <<disk, flash, lane, job>>
  BY DEF NothingToReport, Goto, At
<1>2. Settling /\ pc \notin LanePc
  BY <1>1 DEF Settling, LanePc
<1> QED
  BY <1>1, <1>2, GoesOn DEF flash, lane

\* The PUT of a result the server takes.
LEMMA PutResultServes ==
  ASSUME SInv, IInv', PutResult
  PROVE  SInv'
<1>1. pc = "report" /\ UNCHANGED <<disk, flash, lane>>
  BY DEF PutResult, At
<1>2. CASE JobGone
  BY <1>1, <1>2, GivesUp DEF flash
<1>3. CASE pc' = "reportAccepted" /\ UNCHANGED job
  <2>1. InOrder'
    BY <1>1, <1>3, SameOrder DEF job
  <2>2. PhaseFits'
    BY <1>1, <1>3
       DEF SInv, PhaseFits, Settling, Trying, RollingBack, OnVerify, LanePc, job
  <2>3. Served'
    BY <1>1, ServedKept DEF SInv, flash, lane
  <2>4. sw' = "no"
    BY <1>1, <1>3, NoSwitch DEF Loading, job
  <2> QED
    BY <1>3, <2>1, <2>2, <2>3, <2>4, PlainKeeps DEF PlainPc
<1> QED
  BY <1>2, <1>3 DEF PutResult, Goto

\* Refused, lost, not modified, or nothing to force: the job ends.
LEMMA EndsServes ==
  ASSUME SInv, IInv', PutRefused \/ FetchNothing \/ ForceNothing
  PROVE  SInv'
BY GivesUp DEF PutRefused, FetchNothing, ForceNothing, flash

\* The delivered report is taken out of the journal.
LEMMA ReportAcceptedServes ==
  ASSUME SInv, IInv', ReportAcceptedStep
  PROVE  SInv'
<1> DEFINE j == ReportAccepted(mem)
<1>1. /\ pc = "reportAccepted" /\ UNCHANGED <<flash, lane>>
      /\ \/ disk' = j /\ mem' = j /\ ~applying /\ pc' \in {"fetch", "force"}
            /\ UNCHANGED <<applying, sw>>
         \/ disk' \in {j, disk} /\ JobGone
  BY DEF ReportAcceptedStep, At, Goto, Persist, PersistFails
<1>2. /\ mem \in Journal /\ mem.applied = disk.applied
      /\ mem.desired = disk.desired /\ Ordered(mem) /\ Ordered(disk)
      /\ RecoverRequired(mem) <=> RecoverRequired(disk)
  BY <1>1, JobFacts
<1>3. /\ Ordered(j) /\ j.phase = mem.phase
      /\ j.desired = disk.desired /\ j.applied = disk.applied
  BY <1>2, AcceptedOrder
<1>4. RecoverRequired(j) <=> RecoverRequired(disk)
  BY <1>2, <1>3 DEF RecoverRequired
<1> HIDE DEF j
<1>5. /\ disk' \in {j, disk} /\ Ordered(disk')
      /\ disk'.desired = disk.desired /\ disk'.applied = disk.applied
      /\ RecoverRequired(disk') <=> RecoverRequired(disk)
  BY <1>1, <1>2, <1>3, <1>4
<1>6. CASE JobGone
  BY <1>1, <1>5, <1>6, GoneKeeps DEF flash, lane
<1>7. CASE disk' = j /\ mem' = j /\ ~applying /\ pc' \in {"fetch", "force"}
           /\ UNCHANGED <<applying, sw>>
  <2>1. InOrder'
    BY <1>3, <1>5, <1>7, NewOrder
  <2>2. ~RecoverRequired(disk)
    BY <1>1, <1>7, SettlingFacts DEF Settling
  <2>3. PhaseFits'
    BY <1>5, <1>7, <2>2
       DEF PhaseFits, Settling, Trying, RollingBack, OnVerify, LanePc
  <2>4. Served'
    BY <1>1, <1>5, ServedKept DEF SInv, flash, lane
  <2>5. sw' = "no"
    BY <1>1, <1>7, NoSwitch DEF Loading
  <2> QED
    BY <1>7, <2>1, <2>3, <2>4, <2>5, PlainKeeps DEF PlainPc
<1> QED
  BY <1>1, <1>6, <1>7

\* A snapshot that does not validate is recorded as rejected.
LEMMA FetchMalformedServes ==
  ASSUME SInv, IInv', FetchMalformed
  PROVE  SInv'
<1> DEFINE j == RejectSnapshot(mem, published)
<1>1. /\ pc = "fetch" /\ JobGone /\ UNCHANGED <<flash, lane>>
      /\ disk' \in {j, disk}
  BY DEF FetchMalformed, At, Persist, PersistFails
<1>2. /\ mem \in Journal /\ mem.applied = disk.applied
      /\ mem.desired = disk.desired /\ Ordered(mem) /\ Ordered(disk)
      /\ RecoverRequired(mem) <=> RecoverRequired(disk)
  BY <1>1, JobFacts
<1>3. published \in Etags
  BY DEF SInv, IInv, TypeOK
<1>4. /\ Ordered(j) /\ j.phase = mem.phase
      /\ j.desired = disk.desired /\ j.applied = disk.applied
  BY <1>2, <1>3, RejectOrder
<1>5. RecoverRequired(j) <=> RecoverRequired(disk)
  BY <1>2, <1>4 DEF RecoverRequired
<1> HIDE DEF j
<1> QED
  BY <1>1, <1>2, <1>4, <1>5, GoneKeeps DEF flash, lane

\* A snapshot is taken, from the server or again from the journal.
LEMMA TakeServes ==
  ASSUME SInv, IInv', FetchNew \/ ForceApplied
  PROVE  SInv'
<1>1. /\ pc \in {"fetch", "force"} /\ pc' = "save"
      /\ UNCHANGED <<disk, flash, lane, applying, act, sw>>
  BY DEF FetchNew, ForceApplied, At, Goto
<1>2. /\ mem \in Journal /\ Ordered(mem) /\ Ordered(disk)
      /\ ~RecoverRequired(disk)
  BY <1>1, SettlingFacts DEF Settling
<1>3. PICK e \in Etags : mem' = ReceiveSnapshot(mem, e) /\ ~Regresses(mem, e)
  <2>1. CASE FetchNew
    BY <2>1 DEF FetchNew, SInv, IInv, TypeOK
  <2>2. CASE ForceApplied
    <3>1. mem.applied.etag \in Etags /\ mem' = ReceiveSnapshot(mem, mem.applied.etag)
      BY <1>2, <2>2 DEF ForceApplied, Journal, Entry
    <3>2. Rev[mem.applied.etag] \in Nat
      BY <3>1, JournalAssumption
    <3>3. ~Regresses(mem, mem.applied.etag)
      BY <3>2 DEF Regresses
    <3> QED
      BY <3>1, <3>3
  <2> QED
    BY <2>1, <2>2
<1>4. Ordered(mem') /\ mem'.phase = "READY"
  BY <1>2, <1>3, ReceiveOrder
<1>5. InOrder'
  <2>1. RecoverRequired(mem') <=> RecoverRequired(disk')
    BY <1>1, <1>2, <1>4 DEF RecoverRequired
  <2> QED
    BY <1>1, <1>2, <1>4, <2>1 DEF InOrder, Ordered, RecoverRequired
<1>6. PhaseFits'
  BY <1>1, <1>2 DEF PhaseFits, Settling, Trying, RollingBack, OnVerify, LanePc,
                    RecoverRequired
<1>7. Served'
  BY <1>1, ServedKept DEF SInv, flash, lane
<1>8. sw' = "no"
  BY <1>1, NoSwitch DEF Loading
<1> QED
  BY <1>1, <1>5, <1>6, <1>7, <1>8, PlainKeeps DEF PlainPc

\* The new snapshot is saved while the applied one is served, or none.
LEMMA SaveReadyServes ==
  ASSUME SInv, IInv', SaveReady
  PROVE  SInv'
<1>1. /\ pc = "save" /\ UNCHANGED <<flash, lane>>
      /\ \/ disk' = mem /\ pc' = "begin" /\ UNCHANGED job
         \/ disk' = disk /\ JobGone
  BY DEF SaveReady, At, Goto, Persist, PersistFails
<1>2. /\ mem.applied = disk.applied /\ Ordered(mem)
      /\ ~RecoverRequired(mem) /\ ~RecoverRequired(disk)
  BY <1>1, SettlingFacts DEF Settling
<1>3. CASE disk' = disk /\ JobGone
  BY <1>1, <1>3, GivesUp DEF flash
<1>4. CASE disk' = mem /\ pc' = "begin" /\ UNCHANGED job
  <2>1. mem' = mem /\ disk' = mem
    BY <1>4 DEF job
  <2>2. InOrder'
    BY <1>2, <1>4, <2>1, NewOrder
  <2>3. PhaseFits'
    BY <1>2, <1>4, <2>1 DEF PhaseFits, Settling, Trying, RollingBack, OnVerify,
                            LanePc, RecoverRequired
  <2>4. Served'
    <3>1. Served /\ ~RecoverRequired(disk')
      BY <1>2, <2>1 DEF SInv
    <3> QED
      BY <1>1, <1>2, <2>1, <3>1
         DEF Served, flash, lane, MatchesBundle, SameConfig
  <2>5. sw' = "no"
    BY <1>1, <1>4, NoSwitch DEF Loading, job
  <2> QED
    BY <1>4, <2>2, <2>3, <2>4, <2>5, PlainKeeps DEF PlainPc
<1> QED
  BY <1>1, <1>3, <1>4

-----------------------------------------------------------------------------
(***************************************************************************)
(* The transaction.                                                        *)
(***************************************************************************)
LEMMA TrialFacts ==
  ASSUME SInv, Trying
  PROVE  /\ mem \in Journal /\ mem.applied = disk.applied
         /\ mem.desired = disk.desired /\ mem.desired # None
         /\ Ordered(mem) /\ Ordered(disk)
         /\ pc # "begin" => RecoverRequired(mem) /\ RecoverRequired(disk)
<1>1. pc \notin {"idle", "halt", "save"}
  BY DEF Trying, LanePc
<1>2. pc # "begin" => RecoverRequired(disk)
  BY DEF SInv, PhaseFits
<1>3. mem.desired # None
  BY DEF SInv, IInv, JobKnows
<1> QED
  BY <1>1, <1>2, <1>3, JobFacts

\* A transaction that fails is rolled back from the journal as it is.
LEMMA TrialFails ==
  ASSUME SInv, IInv', Trying, pc # "begin", pc' = "applyFailed",
         UNCHANGED <<disk, mem, cur, run>>, sw' = "no",
         svc' \in {svc, FALSE}, grd' \in {grd, "closed"}
  PROVE  SInv'
<1>1. RecoverRequired(disk)
  BY TrialFacts
<1>2. InOrder'
  BY SameOrder DEF Trying, LanePc
<1>3. PhaseFits'
  BY <1>1 DEF PhaseFits, Settling, Trying, RollingBack, OnVerify, LanePc
<1>4. Served'
  BY ServedKept DEF SInv
<1> QED
  BY <1>2, <1>3, <1>4, PlainKeeps DEF PlainPc

\* beginApply opens the transaction.
LEMMA BeginServes ==
  ASSUME SInv, IInv', BeginStep
  PROVE  SInv'
<1> DEFINE j == BeginApply(mem)
<1>1. /\ pc = "begin" /\ Trying /\ UNCHANGED <<flash, lane>>
      /\ \/ disk' = j /\ mem' = j /\ pc' = "prepare" /\ sw' = sw
         \/ disk' = disk /\ JobGone
  BY DEF BeginStep, At, Goto, Persist, PersistFails, Trying
<1>2. /\ mem \in Journal /\ mem.applied = disk.applied
      /\ mem.desired = disk.desired /\ Ordered(mem)
  BY <1>1, TrialFacts
<1>3. ~RecoverRequired(disk)
  BY <1>1, SettlingFacts DEF Settling
<1>4. /\ Ordered(j) /\ j.phase = "PREPARING"
      /\ j.desired = disk.desired /\ j.applied = disk.applied
  <2>1. "PREPARING" \in Phases
    BY DEF Phases
  <2> QED
    BY <1>2, <2>1, PhaseOrder DEF BeginApply
<1>5. RecoverRequired(j)
  BY <1>4 DEF RecoverRequired
<1> HIDE DEF j
<1>6. CASE disk' = disk /\ JobGone
  BY <1>1, <1>6, GivesUp DEF flash
<1>7. CASE disk' = j /\ mem' = j /\ pc' = "prepare" /\ sw' = sw
  <2>1. InOrder'
    BY <1>4, <1>7, NewOrder
  <2>2. PhaseFits'
    BY <1>5, <1>7 DEF PhaseFits, Settling, Trying, RollingBack, OnVerify,
                      LanePc
  <2>3. Served'
    <3>1. Served /\ RecoverRequired(disk')
      BY <1>5, <1>7 DEF SInv
    <3> QED
      BY <1>1, <1>3, <1>4, <1>7, <3>1 DEF Served, flash, lane, MatchesBundle
  <2>4. sw' = "no"
    BY <1>1, <1>7, NoSwitch DEF Loading
  <2> QED
    BY <1>7, <2>1, <2>2, <2>3, <2>4, PlainKeeps DEF PlainPc
<1> QED
  BY <1>1, <1>6, <1>7

\* The bundle of the desired entry is prepared.
LEMMA PrepareServes ==
  ASSUME SInv, IInv', PrepareStep
  PROVE  SInv'
<1>1. /\ pc = "prepare" /\ Trying /\ UNCHANGED <<disk, flash, lane, sw, mem>>
      /\ pc' \in {"prepared", "applyFailed"}
  BY DEF PrepareStep, At, Goto, Trying
<1>2. RecoverRequired(disk) /\ sw' = "no"
  BY <1>1, TrialFacts, NoSwitch DEF Loading
<1>3. InOrder'
  BY <1>1, SameOrder
<1>4. PhaseFits'
  BY <1>1, <1>2 DEF PhaseFits, Settling, Trying, RollingBack, OnVerify, LanePc
<1>5. Served'
  BY <1>1, ServedKept DEF SInv, flash, lane
<1> QED
  BY <1>1, <1>2, <1>3, <1>4, <1>5, PlainKeeps DEF PlainPc

\* The phase of a transaction, saved between two runtime actions.
LEMMA CheckpointServes ==
  ASSUME SInv, IInv', NEW j, NEW next, Checkpoint(pc, j, next),
         pc \in {"prepared", "activating", "activated"},
         Ordered(j), RecoverRequired(j),
         j.desired = mem.desired, j.applied = mem.applied,
         \/ next \in {"activating", "savePrevious"}
         \/ pc = "activated" /\ next = "verify" /\ j.phase = "VERIFYING"
  PROVE  SInv'
<1>1. /\ Trying /\ UNCHANGED <<flash, lane, sw>>
      /\ \/ disk' = j /\ mem' = j /\ pc' = next
         \/ UNCHANGED <<disk, mem>> /\ pc' = "applyFailed"
  BY DEF Checkpoint, Goto, Persist, PersistFails, Trying
<1>2. /\ mem.applied = disk.applied /\ mem.desired = disk.desired
      /\ RecoverRequired(disk)
  BY <1>1, TrialFacts
<1>3. sw' = "no"
  BY <1>1, NoSwitch DEF Loading
<1>4. CASE UNCHANGED <<disk, mem>> /\ pc' = "applyFailed"
  BY <1>1, <1>3, <1>4, TrialFails DEF flash, lane
<1>5. CASE disk' = j /\ mem' = j /\ pc' = next
  <2>1. InOrder'
    BY <1>5, NewOrder
  <2>2. PhaseFits'
    BY <1>5 DEF PhaseFits, Settling, Trying, RollingBack, OnVerify, LanePc
  <2>3. Served'
    BY <1>1, <1>2, <1>5, ServedKept DEF SInv, flash, lane
  <2>4. CASE next \in {"activating", "savePrevious"}
    BY <1>3, <1>5, <2>1, <2>2, <2>3, <2>4, PlainKeeps DEF PlainPc
  <2>5. CASE pc = "activated" /\ next = "verify"
    <3>1. MatchesBundle(run, disk.desired) /\ SameConfig(run, cur)
      BY <2>5 DEF SInv, LaneFits, SwitchFits
    <3>2. LaneFits' /\ SwitchFits'
      BY <1>1, <1>2, <1>3, <1>5, <2>5, <3>1
         DEF LaneFits, SwitchFits, OnVerify, LanePc, Loading, flash, lane,
             MatchesBundle, SameConfig
    <3> QED
      BY <2>1, <2>2, <2>3, <3>2 DEF SInv
  <2> QED
    BY <2>4, <2>5
<1> QED
  BY <1>1, <1>4, <1>5

\* The three checkpoints of a transaction, saved or not.
LEMMA PhasesServe ==
  ASSUME SInv, IInv', PreparedStep \/ ActivatingStep \/ ActivatedStep
  PROVE  SInv'
<1>1. pc \in {"prepared", "activating", "activated"} /\ Trying
  BY DEF PreparedStep, ActivatingStep, ActivatedStep, Checkpoint, At, Trying
<1>2. mem \in Journal /\ Ordered(mem)
  BY <1>1, TrialFacts
<1>3. {"PREPARED", "ACTIVATING", "VERIFYING"} \subseteq Phases
  BY DEF Phases
<1>4. ASSUME NEW p \in {"PREPARED", "ACTIVATING", "VERIFYING"}
      PROVE  LET j == Bump([mem EXCEPT !.phase = p])
             IN  /\ Ordered(j) /\ RecoverRequired(j) /\ j.phase = p
                 /\ j.desired = mem.desired /\ j.applied = mem.applied
  <2> DEFINE j == Bump([mem EXCEPT !.phase = p])
  <2>1. /\ Ordered(j) /\ j.phase = p
        /\ j.desired = mem.desired /\ j.applied = mem.applied
    BY <1>2, <1>3, PhaseOrder
  <2>2. RecoverRequired(j)
    BY <2>1 DEF RecoverRequired
  <2> QED
    BY <2>1, <2>2
<1>5. CASE PreparedStep
  <2>1. pc = "prepared" /\ Checkpoint(pc, Prepared(mem), "activating")
    BY <1>5 DEF PreparedStep, Checkpoint, At
  <2> HIDE DEF Checkpoint
  <2> QED
    BY <1>4, <2>1, CheckpointServes DEF Prepared
<1>6. CASE ActivatingStep
  <2>1. pc = "activating" /\ Checkpoint(pc, Activating(mem), "savePrevious")
    BY <1>6 DEF ActivatingStep, Checkpoint, At
  <2> QED
    BY <1>4, <2>1, CheckpointServes DEF Activating
<1>7. CASE ActivatedStep
  <2>1. pc = "activated" /\ Checkpoint(pc, Activated(mem), "verify")
    BY <1>7 DEF ActivatedStep, Checkpoint, At
  <2> QED
    BY <1>4, <2>1, CheckpointServes DEF Activated
<1> QED
  BY <1>5, <1>6, <1>7

\* The applied bundle is copied to previous.json.
LEMMA SavePreviousServes ==
  ASSUME SInv, IInv', SavePrevious
  PROVE  SInv'
<1>1. /\ pc = "savePrevious" /\ Trying /\ pc' \in {"saveCurrent", "applyFailed"}
      /\ UNCHANGED <<disk, cur, lane, sw, mem>>
  BY DEF SavePrevious, At, Goto, Trying
<1>2. RecoverRequired(disk) /\ sw' = "no"
  BY <1>1, TrialFacts, NoSwitch DEF Loading
<1>3. InOrder'
  BY <1>1, SameOrder
<1>4. PhaseFits'
  BY <1>1, <1>2 DEF PhaseFits, Settling, Trying, RollingBack, OnVerify, LanePc
<1>5. Served'
  BY <1>1, ServedKept DEF SInv, lane
<1> QED
  BY <1>1, <1>2, <1>3, <1>4, <1>5, PlainKeeps DEF PlainPc

\* The prepared bundle replaces current.json.
LEMMA SaveCurrentServes ==
  ASSUME SInv, IInv', SaveCurrent
  PROVE  SInv'
<1>1. /\ pc = "saveCurrent" /\ Trying /\ pc' = "close" /\ cand' = cur'
      /\ UNCHANGED <<disk, lane, act, sw, mem>> /\ act = "activate"
  BY DEF SaveCurrent, At, Goto, Trying, SInv, IInv, JobKnows
<1>2. RecoverRequired(disk) /\ sw' = "no"
  BY <1>1, TrialFacts, NoSwitch DEF Loading
<1>3. InOrder'
  BY <1>1, SameOrder
<1>4. PhaseFits'
  BY <1>1, <1>2 DEF PhaseFits, Settling, Trying, RollingBack, OnVerify, LanePc
<1>5. LaneFits' /\ SwitchFits'
  BY <1>1, <1>2 DEF LaneFits, SwitchFits, OnVerify, LanePc, Loading
<1>6. Served'
  BY <1>1, <1>2 DEF SInv, Served, lane, MatchesBundle
<1> QED
  BY <1>3, <1>4, <1>5, <1>6 DEF SInv

\* The verification starts from the bundle that was activated.
LEMMA VerifyServes ==
  ASSUME SInv, IInv', VerifyStep
  PROVE  SInv'
<1>1. /\ pc = "verify" /\ Trying /\ OnVerify /\ act' = "verify"
      /\ UNCHANGED <<disk, flash, lane, sw, mem>>
      /\ pc' \in {"probe", "applyFailed"}
  BY DEF VerifyStep, At, Goto, Trying, OnVerify
<1>2. RecoverRequired(disk) /\ sw' = "no"
  BY <1>1, TrialFacts, NoSwitch DEF Loading
<1>3. CASE pc' = "applyFailed"
  BY <1>1, <1>2, <1>3, TrialFails DEF flash, lane
<1>4. CASE pc' = "probe"
  <2>1. InOrder'
    BY <1>1, SameOrder
  <2>2. disk.phase = "VERIFYING" /\ MatchesBundle(run, disk.desired)
        /\ SameConfig(run, cur)
    BY <1>1 DEF SInv, PhaseFits, LaneFits, SwitchFits
  <2>3. PhaseFits'
    BY <1>1, <1>2, <1>4, <2>2
       DEF PhaseFits, Settling, Trying, RollingBack, OnVerify, LanePc
  <2>4. LaneFits' /\ SwitchFits'
    BY <1>1, <1>2, <1>4, <2>2
       DEF LaneFits, SwitchFits, OnVerify, LanePc, Loading, LaneEntry, flash,
           lane, MatchesBundle, SameConfig
  <2>5. Served'
    BY <1>1, ServedKept DEF SInv, flash, lane
  <2> QED
    BY <2>1, <2>3, <2>4, <2>5 DEF SInv
<1> QED
  BY <1>1, <1>3, <1>4

\* What the commit finds: a verified trial, served behind an open guard.
LEMMA CommitFacts ==
  ASSUME SInv, pc = "commit"
  PROVE  /\ disk.phase = "VERIFYING" /\ grd = "open"
         /\ MatchesBundle(run, disk.desired) /\ MatchesBundle(cur, disk.desired)
         /\ SameConfig(run, cur)
         /\ cur.profile \in Profiles
<1>1. OnVerify /\ Switched
  BY DEF OnVerify, Switched
<1>2. /\ disk.phase = "VERIFYING" /\ grd = "open"
      /\ MatchesBundle(run, disk.desired) /\ MatchesBundle(cur, disk.desired)
      /\ SameConfig(run, cur)
  BY <1>1 DEF SInv, PhaseFits, LaneFits, SwitchFits, IInv, BundlesFit
<1>3. cur \in Bundle
  BY <1>2 DEF SInv, IInv, TypeOK, MatchesBundle
<1> QED
  BY <1>2, <1>3 DEF Bundle

\* The commit point, reached behind an open guard.
LEMMA CommitServes ==
  ASSUME SInv, IInv', CommitStep
  PROVE  SInv'
<1> DEFINE j == Verified(mem, cur.profile)
<1>1. /\ pc = "commit" /\ Trying
      /\ UNCHANGED <<flash, lane, applying, sw>>
      /\ \/ disk' = j /\ mem' = j /\ pc' = "report"
         \/ UNCHANGED <<disk, mem>> /\ pc' = "applyFailed"
  BY DEF CommitStep, At, Goto, Persist, PersistFails, Trying
<1>2. /\ mem \in Journal /\ mem.desired = disk.desired /\ mem.desired # None
      /\ Ordered(mem)
  BY <1>1, TrialFacts
<1>3. /\ grd = "open" /\ MatchesBundle(run, disk.desired)
      /\ MatchesBundle(cur, disk.desired) /\ SameConfig(run, cur)
      /\ cur.profile \in Profiles
  BY <1>1, CommitFacts
<1>4. /\ Ordered(j) /\ j.phase = "IDLE" /\ j.desired = None
      /\ j.applied = disk.desired
  BY <1>2, <1>3, VerifiedOrder, VerifiedType
<1>5. ~RecoverRequired(j)
  BY <1>4 DEF RecoverRequired
<1>6. sw' = "no"
  BY <1>1, NoSwitch DEF Loading
<1> HIDE DEF j
<1>7. CASE UNCHANGED <<disk, mem>> /\ pc' = "applyFailed"
  BY <1>1, <1>6, <1>7, TrialFails DEF flash, lane
<1>8. CASE disk' = j /\ mem' = j /\ pc' = "report"
  <2>1. InOrder'
    BY <1>4, <1>8, NewOrder
  <2>2. PhaseFits'
    BY <1>5, <1>8 DEF PhaseFits, Settling, Trying, RollingBack, OnVerify, LanePc
  <2>3. Served'
    BY <1>1, <1>3, <1>4, <1>8 DEF Served, flash, lane, MatchesBundle, SameConfig
  <2> QED
    BY <1>6, <1>8, <2>1, <2>2, <2>3, PlainKeeps DEF PlainPc
<1> QED
  BY <1>1, <1>7, <1>8

-----------------------------------------------------------------------------
(***************************************************************************)
(* The lane.                                                               *)
(***************************************************************************)
\* A lane step leaves both copies of the journal alone, and the job goes on
\* inside the action or where the controller takes it from there.
LEMMA LaneOrder ==
  ASSUME SInv, pc \in LanePc, LaneStep,
         pc' \in LanePc \cup {AfterAction, ActionFailed}
  PROVE  InOrder' /\ PhaseFits'
<1>1. act \in Actions /\ UNCHANGED <<disk, applying, act, mem>>
  BY LaneFacts DEF SInv, LaneStep
<1>2. InOrder'
  BY <1>1, SameOrder DEF LanePc
<1>3. CASE act \in {"activate", "verify"}
  <2>1. /\ RecoverRequired(disk)
        /\ act = "verify" => disk.phase = "VERIFYING"
    BY <1>3 DEF SInv, PhaseFits, Trying, OnVerify, LanePc
  <2>2. pc' \in LanePc \cup {"applyFailed"}
        \/ (act = "activate" /\ pc' = "activated")
        \/ (act = "verify" /\ pc' = "commit")
    BY <1>3 DEF AfterAction, ActionFailed
  <2> QED
    BY <1>1, <1>2, <1>3, <2>1, <2>2
       DEF PhaseFits, Settling, Trying, RollingBack, OnVerify, LanePc
<1>4. CASE act = "rollback"
  <2>1. RecoverRequired(disk)
    BY <1>4 DEF SInv, PhaseFits, RollingBack
  <2>2. pc' \in LanePc \cup {"rolledBackTrue", "failClosed"}
    BY <1>4 DEF AfterAction, ActionFailed
  <2> QED
    BY <1>1, <1>2, <1>4, <2>1, <2>2
       DEF PhaseFits, Settling, Trying, RollingBack, OnVerify, LanePc
<1>5. CASE act \in {"restore", "health-tick"}
  <2>1. ~RecoverRequired(disk)
    BY <1>5 DEF SInv, PhaseFits, Settling
  <2>2. pc' \in LanePc \cup {"report", "restoreFailed", "tickSave", "tickFailed"}
    BY <1>5 DEF AfterAction, ActionFailed
  <2> QED
    BY <1>1, <1>2, <1>5, <2>1, <2>2
       DEF PhaseFits, Settling, Trying, RollingBack, OnVerify, LanePc
<1> QED
  BY <1>1, <1>3, <1>4, <1>5 DEF Actions

\* An action that fails leaves no staged profile behind.
LEMMA LaneFails ==
  ASSUME SInv, IInv', pc \in LanePc, LaneStep, pc' = ActionFailed, sw' = "no",
         Served'
  PROVE  SInv'
<1>1. act \in Actions
  BY LaneFacts DEF SInv
<1>2. pc' \in PlainPc
  BY <1>1 DEF ActionFailed, Actions, PlainPc
<1>3. InOrder' /\ PhaseFits'
  BY LaneOrder
<1> QED
  BY <1>2, <1>3, PlainKeeps

\* The bundle a lane action brings up fits its entry, and a trial is one that
\* a crash would leave to be recovered.
LEMMA LaneKnows ==
  ASSUME SInv, pc \in LanePc
  PROVE  /\ act \in Actions
         /\ cur \in Bundle /\ cur # None /\ cand \in Bundle /\ cand # None
         /\ MatchesBundle(cur, LaneEntry) /\ MatchesBundle(cand, LaneEntry)
         /\ LaneEntry = disk.applied
              \/ (LaneEntry = disk.desired /\ RecoverRequired(disk))
<1>1. /\ act \in Actions
      /\ cur \in Bundle /\ cur # None /\ cand \in Bundle /\ cand # None
  BY LaneFacts DEF SInv
<1>2. MatchesBundle(cur, LaneEntry) /\ MatchesBundle(cand, LaneEntry)
  BY <1>1 DEF SInv, IInv, BundlesFit, Switched, Returning, LaneEntry, Actions
<1>3. LaneEntry = disk.applied
        \/ (LaneEntry = disk.desired /\ RecoverRequired(disk))
  BY DEF LaneEntry, SInv, PhaseFits, Trying, LanePc
<1> QED
  BY <1>1, <1>2, <1>3

\* What runs, if it is the bundle of the action, may be served.
LEMMA LaneServed ==
  ASSUME SInv, pc \in LanePc, LaneStep, cur' = cur, run' = run,
         MatchesBundle(run, LaneEntry), grd' = "open" => SameConfig(run, cur)
  PROVE  Served'
<1>1. /\ disk' = disk
      /\ LaneEntry = disk.applied
           \/ (LaneEntry = disk.desired /\ RecoverRequired(disk))
  BY LaneKnows DEF LaneStep
<1>2. disk.applied # None /\ ~RecoverRequired(disk) =>
        MatchesBundle(cur, disk.applied)
  BY DEF SInv, Served
<1>3. RecoverRequired(disk') <=> RecoverRequired(disk)
  BY <1>1
<1> QED
  BY <1>1, <1>2, <1>3 DEF Served, MatchesBundle, SameConfig

\* The lane is closed before anything is loaded.
LEMMA CloseLaneServes ==
  ASSUME SInv, IInv', CloseLane
  PROVE  SInv'
<1>1. /\ pc = "close" /\ pc \in LanePc /\ LaneStep /\ UNCHANGED <<cur, cand>>
      /\ UNCHANGED <<disk, act>>
  BY DEF CloseLane, At, LanePc, LaneStep
<1>2. run' = run /\ svc' \in {svc, FALSE} /\ grd' \in {grd, "closed"}
  BY LaneDown DEF CloseLane
<1>3. Served'
  BY <1>1, <1>2, ServedKept DEF SInv
<1>4. CASE LaneClosed /\ pc' = "writeRun" /\ UNCHANGED sw
  <2>1. InOrder' /\ PhaseFits'
    BY <1>1, <1>4, LaneOrder DEF LanePc
  <2>2. svc' = FALSE /\ grd' = "closed"
    BY <1>4 DEF LaneClosed
  <2>3. LaneFits' /\ SwitchFits'
    BY <1>1, <1>2, <1>4, <2>2
       DEF SInv, LaneFits, SwitchFits, OnVerify, LanePc, Loading, MatchesBundle
  <2> QED
    BY <1>3, <2>1, <2>3 DEF SInv
<1>5. CASE pc' = ActionFailed /\ sw' = "no"
  BY <1>1, <1>3, <1>5, LaneFails
<1> QED
  BY <1>4, <1>5 DEF CloseLane, Goto

\* run.json is replaced while nothing is served.
LEMMA WriteRunServes ==
  ASSUME SInv, IInv', WriteRun
  PROVE  SInv'
<1>1. /\ pc = "writeRun" /\ pc \in LanePc /\ LaneStep
      /\ UNCHANGED <<cur, svc, grd, cand, disk, act>>
  BY DEF WriteRun, At, LanePc, LaneStep
<1>2. grd = "closed" /\ ~svc
  BY <1>1 DEF SInv, LaneFits
<1>3. Served'
  <2>1. Served
    BY DEF SInv
  <2> QED
    BY <1>1, <1>2, <2>1 DEF Served, MatchesBundle
<1>4. CASE run' = cand /\ pc' = "startService" /\ UNCHANGED sw
  <2>1. InOrder' /\ PhaseFits'
    BY <1>1, <1>4, LaneOrder DEF LanePc
  <2>2. MatchesBundle(cand, LaneEntry)
    BY <1>1, LaneKnows
  <2>3. MatchesBundle(run, LaneEntry)'
    BY <1>1, <1>4, <2>2 DEF MatchesBundle, LaneEntry
  <2>4. LaneFits'
    BY <1>1, <1>2, <1>4, <2>3
       DEF LaneFits, OnVerify, LanePc, Loading, LaneEntry
  <2>5. SwitchFits'
    BY <1>1, <1>4 DEF SInv, SwitchFits, Loading
  <2> QED
    BY <1>3, <2>1, <2>4, <2>5 DEF SInv
<1>5. CASE pc' = ActionFailed /\ sw' = "no"
  BY <1>1, <1>3, <1>5, LaneFails
<1> QED
  BY <1>4, <1>5 DEF WriteRun, Goto

\* Another profile is staged, by the fallback or by a probe that found one.
LEMMA StagesServes ==
  ASSUME SInv, IInv', pc \in LanePc, LaneStep, pc' = "close", sw' # "no",
         UNCHANGED <<cur, run, svc>>, grd' \in {grd, "closed"}
  PROVE  SInv'
<1>1. UNCHANGED <<disk, act>>
  BY DEF LaneStep
<1>2. Served'
  BY <1>1, ServedKept DEF SInv
<1>3. InOrder' /\ PhaseFits'
  BY LaneOrder DEF LanePc
<1>4. LaneFits' /\ SwitchFits'
  BY <1>1 DEF SInv, LaneFits, SwitchFits, OnVerify, LanePc, Loading,
              MatchesBundle
<1> QED
  BY <1>2, <1>3, <1>4 DEF SInv

\* A profile staged because AmneziaWG did not come up.
LEMMA AwgFallbackServes ==
  ASSUME SInv, IInv', AwgFallback
  PROVE  SInv'
<1>1. /\ pc \in LanePc /\ LaneStep /\ pc' = "close" /\ sw' # "no"
      /\ UNCHANGED <<cur, lane>>
  BY DEF AwgFallback, At, Goto, LanePc
<1> QED
  BY <1>1, StagesServes DEF lane

\* The loaded lane, at one of the steps between the start and the guard.
LEMMA LoadedFacts ==
  ASSUME SInv, pc \in Loading \cup {"probe", "open", "monitor"}
  PROVE  /\ pc \in LanePc /\ MatchesBundle(run, LaneEntry)
         /\ pc \in Loading => /\ grd = "closed" /\ run = cand
                              /\ sw = "no" => SameConfig(run, cur)
         /\ pc \in {"probe", "open"} => SameConfig(run, cur)
         /\ pc \notin Loading => sw = "no"
<1>1. pc \in LanePc
  BY DEF LanePc, Loading
<1>2. /\ MatchesBundle(run, LaneEntry)
      /\ pc \in Loading => grd = "closed" /\ run = cand
      /\ pc \in Loading /\ sw = "no" => cand = cur
      /\ pc \in {"probe", "open"} => SameConfig(run, cur)
      /\ pc \notin Loading => sw = "no"
  BY DEF SInv, LaneFits, SwitchFits, Loading
<1>3. cur # None
  BY <1>1, LaneKnows
<1> QED
  BY <1>1, <1>2, <1>3 DEF SameConfig

\* What holds after a lane step that keeps run.json and the entry.
LEMMA StaysLoaded ==
  ASSUME SInv, pc \in Loading \cup {"probe", "open", "monitor"}, LaneStep,
         run' = run
  PROVE  /\ MatchesBundle(run, LaneEntry)'
         /\ act \in {"activate", "verify"} => MatchesBundle(run, disk.desired)'
         /\ act \notin {"activate", "verify"} => MatchesBundle(run, disk.applied)'
<1>1. MatchesBundle(run, LaneEntry) /\ UNCHANGED <<disk, act>>
  BY LoadedFacts DEF LaneStep
<1> QED
  BY <1>1 DEF MatchesBundle, LaneEntry

\* sing-box starts behind a closed guard.
LEMMA StartServiceServes ==
  ASSUME SInv, IInv', StartService
  PROVE  SInv'
<1>1. /\ pc = "startService" /\ pc \in LanePc /\ LaneStep
      /\ UNCHANGED <<cur, run, grd, cand, disk, act>>
  BY DEF StartService, At, LanePc, LaneStep
<1>2. /\ grd = "closed" /\ run = cand /\ MatchesBundle(run, LaneEntry)
      /\ sw = "no" => SameConfig(run, cur)
  BY <1>1, LoadedFacts DEF Loading
<1>3. Served'
  BY <1>1, <1>2, LaneServed
<1>4. CASE pc' = AfterStart /\ UNCHANGED sw
  <2>1. /\ pc' \in {"confirm", "activated", "monitor", "probe"}
        /\ pc' # "confirm" => sw = "no"
        /\ pc' = "confirm" => sw # "no"
        /\ pc' = "activated" => act = "activate"
        /\ pc' # "activated" => pc' \in LanePc
    BY <1>4 DEF AfterStart, AfterConfirm, LanePc
  <2>2. InOrder' /\ PhaseFits'
    <3>1. pc' \in LanePc \cup {AfterAction, ActionFailed}
      BY <2>1 DEF AfterAction
    <3> QED
      BY <1>1, <3>1, LaneOrder
  <2>3. LaneFits'
    <3>1. /\ MatchesBundle(run, LaneEntry)'
          /\ act \in {"activate", "verify"} => MatchesBundle(run, disk.desired)'
      BY <1>1, StaysLoaded DEF Loading
    <3> QED
      BY <1>1, <1>2, <2>1, <3>1 DEF LaneFits, OnVerify, LanePc, Loading
  <2>4. SwitchFits'
    BY <1>1, <1>2, <1>4, <2>1 DEF SwitchFits, Loading, SameConfig
  <2> QED
    BY <1>3, <2>2, <2>3, <2>4 DEF SInv
<1>5. CASE pc' = ActionFailed /\ sw' = "no"
  BY <1>1, <1>3, <1>5, LaneFails
<1> QED
  BY <1>4, <1>5 DEF StartService, Goto

\* A staged profile is probed before it counts.
LEMMA ConfirmServes ==
  ASSUME SInv, IInv', Confirm
  PROVE  SInv'
<1>1. /\ pc = "confirm" /\ pc \in LanePc /\ LaneStep
      /\ UNCHANGED <<cur, lane, cand, disk, act>>
  BY DEF Confirm, At, LanePc, LaneStep
<1>2. /\ grd = "closed" /\ run = cand
      /\ sw # "no" \/ cand = cur
  BY <1>1 DEF SInv, LaneFits, SwitchFits, Loading
<1>3. Served'
  BY <1>1, ServedKept DEF SInv, lane
<1>4. CASE pc' = "commitProfile" /\ UNCHANGED sw
  <2>1. InOrder' /\ PhaseFits'
    BY <1>1, <1>4, LaneOrder DEF LanePc
  <2>2. LaneFits'
    <3>1. /\ MatchesBundle(run, LaneEntry)'
          /\ act \in {"activate", "verify"} => MatchesBundle(run, disk.desired)'
      BY <1>1, StaysLoaded DEF Loading, lane
    <3> QED
      BY <1>1, <1>2, <1>4, <3>1 DEF LaneFits, OnVerify, LanePc, Loading, lane
  <2>3. SwitchFits'
    BY <1>1, <1>2, <1>4 DEF SwitchFits, Loading
  <2> QED
    BY <1>3, <2>1, <2>2, <2>3 DEF SInv
<1>5. CASE pc' = ActionFailed /\ sw' = "no"
  BY <1>1, <1>3, <1>5, LaneFails
<1> QED
  BY <1>4, <1>5 DEF Confirm, Goto

\* The staged profile has been confirmed and becomes current.json, while
\* nothing is served.
LEMMA CommitProfileServes ==
  ASSUME SInv, IInv', CommitProfile
  PROVE  SInv'
<1>1. /\ pc = "commitProfile" /\ pc \in LanePc /\ LaneStep /\ sw' = "no"
      /\ UNCHANGED <<lane, cand, disk, act>>
  BY DEF CommitProfile, At, LanePc, LaneStep
<1>2. grd = "closed" /\ run = cand /\ cand # None
      /\ MatchesBundle(run, LaneEntry)
      /\ MatchesBundle(cand, LaneEntry)
  BY <1>1, LoadedFacts, LaneKnows DEF Loading
<1>3. CASE cur' = cand /\ pc' \in {"open", AfterConfirm}
  <2>1. /\ pc' \in {"open", "activated", "monitor", "probe"}
        /\ pc' = "activated" => act = "activate"
        /\ pc' # "activated" => pc' \in LanePc
    BY <1>3 DEF AfterConfirm, LanePc
  <2>2. InOrder' /\ PhaseFits'
    <3>1. pc' \in LanePc \cup {AfterAction, ActionFailed}
      BY <2>1 DEF AfterAction
    <3> QED
      BY <1>1, <3>1, LaneOrder
  <2>3. LaneFits'
    <3>1. /\ MatchesBundle(run, LaneEntry)'
          /\ act \in {"activate", "verify"} => MatchesBundle(run, disk.desired)'
      BY <1>1, StaysLoaded DEF Loading, lane
    <3> QED
      BY <1>1, <2>1, <3>1 DEF LaneFits, OnVerify, LanePc, Loading
  <2>4. SwitchFits'
    BY <1>1, <1>2, <1>3, <2>1 DEF SwitchFits, Loading, SameConfig, lane
  <2>5. Served'
    <3>1. ~RecoverRequired(disk) => LaneEntry = disk.applied
      BY <1>1, LaneKnows
    <3>2. RecoverRequired(disk') <=> RecoverRequired(disk)
      BY <1>1
    <3>3. Served
      BY DEF SInv
    <3> QED
      BY <1>1, <1>2, <1>3, <3>1, <3>2, <3>3 DEF Served, MatchesBundle, lane
  <2> QED
    BY <2>2, <2>3, <2>4, <2>5 DEF SInv
<1>4. CASE UNCHANGED cur /\ pc' = ActionFailed
  <2>1. Served'
    BY <1>1, <1>4, ServedKept DEF SInv, lane
  <2> QED
    BY <1>1, <1>4, <2>1, LaneFails
<1> QED
  BY <1>3, <1>4 DEF CommitProfile, Goto

\* The probes, and the failover they may stage.
LEMMA ProbeServes ==
  ASSUME SInv, IInv', Probe
  PROVE  SInv'
<1>1. /\ pc = "probe" /\ pc \in LanePc /\ LaneStep
      /\ UNCHANGED <<cur, disk, act>>
  BY DEF Probe, At, LanePc, LaneStep
<1>2. sw = "no" /\ SameConfig(run, cur)
  BY <1>1, LoadedFacts DEF Loading
<1>3. CASE pc' = "open" /\ UNCHANGED <<sw, cand, lane>>
  <2>1. InOrder' /\ PhaseFits'
    BY <1>1, <1>3, LaneOrder DEF LanePc
  <2>2. LaneFits'
    <3>1. /\ MatchesBundle(run, LaneEntry)'
          /\ act \in {"activate", "verify"} => MatchesBundle(run, disk.desired)'
      BY <1>1, <1>3, StaysLoaded DEF lane
    <3> QED
      BY <1>1, <1>3, <3>1 DEF LaneFits, OnVerify, LanePc, Loading
  <2>3. SwitchFits'
    BY <1>1, <1>2, <1>3 DEF SwitchFits, Loading, lane, SameConfig
  <2>4. Served'
    BY <1>1, <1>3, ServedKept DEF SInv, lane
  <2> QED
    BY <2>1, <2>2, <2>3, <2>4 DEF SInv
<1>4. CASE SelectProfile /\ grd' = "closed" /\ UNCHANGED <<run, svc>>
  <2>1. pc' = "close" /\ sw' # "no"
    BY <1>4 DEF SelectProfile, Goto
  <2> QED
    BY <1>1, <1>4, <2>1, StagesServes
<1>5. CASE pc' = ActionFailed /\ UNCHANGED <<sw, cand, lane>>
  <2>1. Served'
    BY <1>1, <1>5, ServedKept DEF SInv, lane
  <2> QED
    BY <1>1, <1>2, <1>5, <2>1, LaneFails
<1> QED
  BY <1>3, <1>4, <1>5 DEF Probe, Goto

\* The guard opens on the bundle the action is about.
LEMMA OpenGuardServes ==
  ASSUME SInv, IInv', OpenGuard
  PROVE  SInv'
<1>1. /\ pc = "open" /\ pc \in LanePc /\ LaneStep
      /\ UNCHANGED <<cur, sw, cand, disk, act>>
  BY DEF OpenGuard, At, LanePc, LaneStep
<1>2. /\ sw = "no" /\ SameConfig(run, cur) /\ MatchesBundle(run, LaneEntry)
      /\ act \in Actions
  BY <1>1, LoadedFacts, LaneKnows DEF Loading
<1>3. CASE grd' = "open" /\ pc' = AfterAction /\ UNCHANGED <<run, svc>>
  <2>1. Served'
    BY <1>1, <1>2, <1>3, LaneServed
  <2>2. InOrder' /\ PhaseFits'
    BY <1>1, <1>3, LaneOrder
  <2>3. /\ act \in {"activate", "verify"} => MatchesBundle(run, disk.desired)'
        /\ act \notin {"activate", "verify"} => MatchesBundle(run, disk.applied)'
    BY <1>1, <1>3, StaysLoaded
  <2>4. /\ pc' \in {"activated", "commit", "rolledBackTrue", "report", "tickSave"}
        /\ pc' = "rolledBackTrue" => act = "rollback"
        /\ pc' \in {"activated", "commit"} => act \in {"activate", "verify"}
    BY <1>2, <1>3 DEF AfterAction, Actions
  <2>5. LaneFits'
    BY <1>3, <2>3, <2>4 DEF LaneFits, OnVerify, LanePc, Loading
  <2>6. SwitchFits'
    BY <1>1, <1>2, <1>3, <2>4 DEF SwitchFits, Loading, SameConfig
  <2> QED
    BY <2>1, <2>2, <2>5, <2>6 DEF SInv
<1>4. CASE LaneNotClosed /\ pc' = ActionFailed
  <2>1. run' = run /\ svc' \in {svc, FALSE} /\ grd' \in {grd, "closed"}
    BY <1>4, LaneDown
  <2>2. Served'
    BY <1>1, <2>1, ServedKept DEF SInv
  <2> QED
    BY <1>1, <1>2, <1>4, <2>2, LaneFails
<1> QED
  BY <1>3, <1>4 DEF OpenGuard, Goto

-----------------------------------------------------------------------------
(***************************************************************************)
(* The health tick, and what happens around the controller.                *)
(***************************************************************************)
LEMMA TickStepServes ==
  ASSUME SInv, IInv', TickStep
  PROVE  SInv'
<1>1. /\ pc = "tick" /\ Settling /\ act' = "health-tick"
      /\ UNCHANGED <<disk, lane, sw, mem>>
  BY DEF TickStep, At, Settling
<1>2. ~RecoverRequired(disk) /\ sw' = "no"
  BY <1>1, SettlingFacts, NoSwitch DEF Loading
<1>3. InOrder'
  BY <1>1, SameOrder
<1>4. ASSUME pc' \in {"monitor", "close", "tickFailed", "tickLost"}
      PROVE  PhaseFits'
  BY <1>1, <1>2, <1>4
     DEF PhaseFits, Settling, Trying, RollingBack, OnVerify, LanePc
<1>5. CASE /\ Kept(disk.applied) # None
           /\ cur' = Kept(disk.applied) /\ cand' = Kept(disk.applied)
           /\ pc' = "close" \/ (pc' = "monitor" /\ svc)
  <2>1. cur' = cur
    BY <1>2, <1>5, KeptIsCurrent
  <2>2. Served'
    BY <1>1, <2>1, ServedKept DEF SInv, lane
  <2>3. svc => MatchesBundle(run, disk.applied)
    BY <1>2 DEF SInv, Served
  <2>4. LaneFits'
    BY <1>1, <1>5, <2>3
       DEF LaneFits, OnVerify, LanePc, Loading, LaneEntry, MatchesBundle, lane
  <2>5. SwitchFits'
    BY <1>2, <1>5 DEF SwitchFits, Loading
  <2> QED
    BY <1>3, <1>4, <1>5, <2>2, <2>4, <2>5 DEF SInv
<1>6. CASE pc' \in {"tickFailed", "tickLost"} /\ UNCHANGED <<cur, cand>>
  <2>1. Served'
    BY <1>1, <1>6, ServedKept DEF SInv, lane
  <2> QED
    BY <1>2, <1>3, <1>4, <1>6, <2>1, PlainKeeps DEF PlainPc
<1> QED
  BY <1>5, <1>6 DEF TickStep, Goto

\* One round of monitor health, and the failover it may stage.
LEMMA MonitorServes ==
  ASSUME SInv, IInv', Monitor
  PROVE  SInv'
<1>1. /\ pc = "monitor" /\ pc \in LanePc /\ LaneStep
      /\ UNCHANGED <<cur, run, svc, disk, act>>
  BY DEF Monitor, At, LanePc, LaneStep
<1>2. /\ sw = "no" /\ MatchesBundle(run, LaneEntry) /\ act = "health-tick"
      /\ AfterAction = "tickSave" /\ ActionFailed = "tickFailed"
  BY <1>1, LoadedFacts
     DEF Loading, SInv, IInv, JobKnows, AfterAction, ActionFailed
<1>3. CASE /\ pc' \in {"tickSave", "tickFailed"} /\ UNCHANGED <<sw, cand>>
           /\ grd' \in {grd, "closed"} \/ SameConfig(cur, run)
  <2>1. InOrder' /\ PhaseFits'
    BY <1>1, <1>2, <1>3, LaneOrder
  <2>2. Served'
    <3>1. CASE grd' \in {grd, "closed"}
      BY <1>1, <3>1, ServedKept DEF SInv
    <3>2. CASE SameConfig(cur, run)
      BY <1>1, <1>2, <3>2, LaneServed DEF SameConfig
    <3> QED
      BY <1>3, <3>1, <3>2
  <2> QED
    BY <1>2, <1>3, <2>1, <2>2, PlainKeeps DEF PlainPc
<1>4. CASE SelectProfile /\ grd' = "closed"
  <2>1. pc' = "close" /\ sw' # "no"
    BY <1>4 DEF SelectProfile, Goto
  <2> QED
    BY <1>1, <1>4, <2>1, StagesServes
<1> QED
  BY <1>3, <1>4 DEF Monitor, Goto, InfoLive

\* A health tick that failed closes the lane.
LEMMA TickFailedServes ==
  ASSUME SInv, IInv', TickFailed
  PROVE  SInv'
<1>1. /\ pc = "tickFailed" /\ pc' = "tickLost" /\ UNCHANGED <<disk, flash, job>>
  BY DEF TickFailed, CloseAndGoto, Goto, At
<1>2. run' = run /\ svc' \in {svc, FALSE} /\ grd' \in {grd, "closed"}
  BY LaneDown DEF TickFailed, CloseAndGoto
<1>3. Settling /\ pc \notin LanePc
  BY <1>1 DEF Settling, LanePc
<1> QED
  BY <1>1, <1>2, <1>3, GoesOn DEF flash

\* The profile the tick has found is saved, and nothing else of the journal.
LEMMA TickSaveFacts ==
  ASSUME SInv, TickSave
  PROVE  /\ Ordered(disk')
         /\ disk'.applied = disk.applied /\ disk'.desired = disk.desired
         /\ RecoverRequired(disk') <=> RecoverRequired(disk)
<1> DEFINE p == IF pc = "tickLost" THEN None ELSE cur.profile
           j == [mem EXCEPT !.profile = p]
<1>1. pc \in {"tickSave", "tickLost"} /\ disk' \in {j, disk}
  BY DEF TickSave, Persist, PersistFails
<1>2. /\ mem \in Journal /\ mem.applied = disk.applied
      /\ mem.desired = disk.desired /\ Ordered(mem) /\ Ordered(disk)
      /\ RecoverRequired(mem) <=> RecoverRequired(disk)
  BY <1>1, JobFacts
<1>3. p \in Profiles \cup {None}
  BY <1>1 DEF SInv, IInv, BundlesFit, MatchesBundle, TypeOK, Bundle
<1>4. /\ Ordered(j) /\ j.phase = mem.phase
      /\ j.desired = mem.desired /\ j.applied = mem.applied
  <2> HIDE DEF p
  <2> QED
    BY <1>2, <1>3, ProfileOrder
<1>5. RecoverRequired(j) <=> RecoverRequired(mem)
  BY <1>4 DEF RecoverRequired
<1> HIDE DEF j
<1> QED
  BY <1>1, <1>2, <1>4, <1>5

\* The end of a health tick.
LEMMA TickSaveServes ==
  ASSUME SInv, IInv', TickSave
  PROVE  SInv'
<1>1. JobGone /\ UNCHANGED <<flash, lane>>
  BY DEF TickSave
<1> QED
  BY <1>1, TickSaveFacts, GoneKeeps DEF flash, lane

\* Crashes, power losses, a dead service and the people at work.
LEMMA EnvironmentServes ==
  ASSUME SInv, IInv', Environment
  PROVE  SInv'
<1>1. Ordered(disk)
  BY DEF SInv, InOrder
<1>2. CASE Crash
  BY <1>2, GivesUp DEF Crash, flash
<1>3. CASE PowerLoss
  <2>1. /\ JobGone /\ disk' = disk /\ cur' = cur /\ run' = run
        /\ svc' = FALSE /\ grd' = "closed"
    BY <1>3 DEF PowerLoss, flash
  <2> QED
    BY <1>1, <2>1, GoneKeeps
<1>4. CASE ServiceDies \/ Publish \/ EditPolicy
  <2>1. /\ UNCHANGED <<disk, flash, pc, job, run, grd>>
        /\ svc' \in {svc, FALSE}
    BY <1>4 DEF ServiceDies, Publish, EditPolicy, lane
  <2>2. InOrder' /\ PhaseFits'
    BY <2>1 DEF SInv, InOrder, Ordered, PhaseFits, Settling, Trying, RollingBack,
                OnVerify, LanePc, RecoverRequired, job
  <2>3. LaneFits'
    <3>1. CASE svc' = svc
      BY <2>1, <3>1 DEF SInv, LaneFits, OnVerify, LanePc, Loading, LaneEntry,
                        MatchesBundle, job
    <3>2. CASE svc' = FALSE
      BY <2>1, <3>2 DEF SInv, LaneFits, OnVerify, LanePc, Loading, LaneEntry,
                        MatchesBundle, job
    <3> QED
      BY <2>1, <3>1, <3>2
  <2>4. SwitchFits'
    BY <2>1 DEF SInv, SwitchFits, Loading, SameConfig, job, flash
  <2>5. Served'
    BY <2>1, ServedKept DEF SInv, flash
  <2> QED
    BY <2>2, <2>3, <2>4, <2>5 DEF SInv
<1> QED
  BY <1>2, <1>3, <1>4 DEF Environment

\* A step that changes nothing.
LEMMA StutterServes ==
  ASSUME SInv, IInv', UNCHANGED vars
  PROVE  SInv'
<1>1. InOrder' /\ PhaseFits'
  BY DEF SInv, InOrder, Ordered, PhaseFits, Settling, Trying, RollingBack,
         OnVerify, LanePc, RecoverRequired, vars
<1>2. LaneFits'
  BY DEF SInv, LaneFits, OnVerify, LanePc, Loading, LaneEntry, MatchesBundle, vars
<1>3. SwitchFits'
  BY DEF SInv, SwitchFits, Loading, SameConfig, vars
<1>4. Served'
  BY ServedKept DEF SInv, vars
<1> QED
  BY <1>1, <1>2, <1>3, <1>4 DEF SInv

\* SInv is inductive: one case for each group of steps of Next.
LEMMA NextServes ==
  ASSUME SInv, [Next]_vars
  PROVE  SInv'
<1>1. IInv'
  BY NextInv DEF SInv
<1>2. CASE StartStep
  BY <1>1, <1>2, StartServes
<1>3. CASE Halt
  BY <1>1, <1>3, HaltServes
<1>4. CASE RollbackSteps
  BY <1>1, <1>4, ApplyFailedServes, RollbackStepServes, FailClosedServes,
     RolledBackFalseServes, RolledBackTrueServes DEF RollbackSteps
<1>5. CASE RefreshSteps
  BY <1>1, <1>5, RestoreStepServes, RestoreFailedServes, NothingToReportServes,
     PutResultServes, EndsServes, ReportAcceptedServes, FetchMalformedServes,
     TakeServes, SaveReadyServes DEF RefreshSteps
<1>6. CASE ApplySteps
  BY <1>1, <1>6, BeginServes, PrepareServes, PhasesServe, SavePreviousServes,
     SaveCurrentServes, VerifyServes, CommitServes DEF ApplySteps
<1>7. CASE LaneSteps
  BY <1>1, <1>7, CloseLaneServes, WriteRunServes, AwgFallbackServes,
     StartServiceServes, ConfirmServes, CommitProfileServes, ProbeServes,
     OpenGuardServes DEF LaneSteps
<1>8. CASE TickSteps
  BY <1>1, <1>8, TickStepServes, MonitorServes, TickFailedServes, TickSaveServes
     DEF TickSteps
<1>9. CASE Environment
  BY <1>1, <1>9, EnvironmentServes
<1>10. CASE UNCHANGED vars
  BY <1>1, <1>10, StutterServes
<1> QED
  BY <1>2, <1>3, <1>4, <1>5, <1>6, <1>7, <1>8, <1>9, <1>10 DEF Next, JobStep

\* The invariant of the lane and of the order of attempts holds of every
\* behaviour of the router.
THEOREM ServesInductive == Spec => []SInv
BY InitServes, NextServes, PTL DEF Spec

\* While the guard is open the running configuration is the applied one, or one
\* on trial in an open transaction; outside a transaction it is what
\* current.json holds (runtime-lane, runtime-helper.uc).
THEOREM OnlyKnownIsForwarded == Spec => []ForwardsKnownBundle
<1>1. SInv => ForwardsKnownBundle
  BY DEF SInv, Served, ForwardsKnownBundle
<1> QED
  BY <1>1, ServesInductive, PTL

-----------------------------------------------------------------------------
(***************************************************************************)
(* The steps of the router as steps of the promise.                        *)
(***************************************************************************)
\* The applied and the desired entry change when a snapshot is saved, when it
\* is committed and when it has been rolled back, and at no other step.
LEMMA EntriesKept ==
  ASSUME SInv, Next, ~SaveReady, ~CommitStep, ~RolledBackTrue
  PROVE  disk'.applied = disk.applied /\ disk'.desired = disk.desired
<1>1. CASE ApplyFailedStep
  <2>1. /\ mem \in Journal /\ mem.applied = disk.applied
        /\ mem.desired = disk.desired /\ Ordered(mem)
    BY <1>1, RollbackFacts DEF ApplyFailedStep, At, RollingBack
  <2>2. "ROLLING_BACK" \in Phases
    BY DEF Phases
  <2>3. /\ ApplyFailed(mem).applied = mem.applied
        /\ ApplyFailed(mem).desired = mem.desired
    BY <2>1, <2>2, PhaseOrder DEF ApplyFailed
  <2> QED
    BY <1>1, <2>1, <2>3 DEF ApplyFailedStep, Persist, PersistFails
<1>2. CASE RolledBackFalse
  <2>1. /\ mem \in Journal /\ mem.applied = disk.applied
        /\ mem.desired = disk.desired /\ mem.desired # None /\ Ordered(mem)
    BY <1>2, RollbackFacts DEF RolledBackFalse, At, RollingBack
  <2>2. /\ RolledBack(mem, FALSE).applied = mem.applied
        /\ RolledBack(mem, FALSE).desired = mem.desired
    BY <2>1, RolledBackOrder, RolledBackType
  <2> QED
    BY <1>2, <2>1, <2>2 DEF RolledBackFalse, Persist, PersistFails
<1>3. CASE ReportAcceptedStep \/ FetchMalformed
  <2>1. /\ mem \in Journal /\ mem.applied = disk.applied
        /\ mem.desired = disk.desired /\ Ordered(mem) /\ published \in Etags
    BY <1>3, JobFacts
       DEF ReportAcceptedStep, FetchMalformed, At, SInv, IInv, TypeOK
  <2>2. /\ ReportAccepted(mem).applied = mem.applied
        /\ ReportAccepted(mem).desired = mem.desired
        /\ RejectSnapshot(mem, published).applied = mem.applied
        /\ RejectSnapshot(mem, published).desired = mem.desired
    BY <2>1, AcceptedOrder, RejectOrder
  <2> QED
    BY <1>3, <2>1, <2>2
       DEF ReportAcceptedStep, FetchMalformed, Persist, PersistFails
<1>4. CASE BeginStep \/ PreparedStep \/ ActivatingStep \/ ActivatedStep
  <2>1. Trying
    BY <1>4 DEF BeginStep, PreparedStep, ActivatingStep, ActivatedStep,
                Checkpoint, At, Trying
  <2>2. /\ mem \in Journal /\ mem.applied = disk.applied
        /\ mem.desired = disk.desired /\ Ordered(mem)
    BY <2>1, TrialFacts
  <2>3. {"PREPARING", "PREPARED", "ACTIVATING", "VERIFYING"} \subseteq Phases
    BY DEF Phases
  <2>4. \A j \in {BeginApply(mem), Prepared(mem), Activating(mem), Activated(mem)} :
          j.applied = mem.applied /\ j.desired = mem.desired
    BY <2>2, <2>3, PhaseOrder DEF BeginApply, Prepared, Activating, Activated
  <2>5. disk' \in {disk, BeginApply(mem), Prepared(mem), Activating(mem),
                   Activated(mem)}
    BY <1>4 DEF BeginStep, PreparedStep, ActivatingStep, ActivatedStep,
                Checkpoint, Persist, PersistFails
  <2> QED
    BY <2>2, <2>4, <2>5
<1>5. CASE TickSave
  BY <1>5, TickSaveFacts
<1>6. CASE StartStep \/ Halt \/ Environment
  BY <1>6 DEF StartStep, Refresh, Recover, ApplyPolicy, HealthTick, StartJob,
              Stop, CanStart, Halt, Environment, Crash, PowerLoss, ServiceDies,
              Publish, EditPolicy
<1>7. CASE LaneSteps \/ TickStep \/ Monitor \/ TickFailed
  BY <1>7 DEF LaneSteps, CloseLane, WriteRun, AwgFallback, StartService, Confirm,
              CommitProfile, Probe, OpenGuard, LaneStep, TickStep, Monitor,
              TickFailed
<1>8. CASE \/ RollbackStep \/ FailClosed \/ RestoreStep \/ RestoreFailed
           \/ NothingToReport \/ PutResult \/ PutRefused \/ FetchNothing
           \/ FetchNew \/ ForceApplied \/ ForceNothing \/ PrepareStep
           \/ SavePrevious \/ SaveCurrent \/ VerifyStep
  BY <1>8 DEF RollbackStep, FailClosed, RestoreStep, RestoreFailed,
              NothingToReport, PutResult, PutRefused, FetchNothing, FetchNew,
              ForceApplied, ForceNothing, PrepareStep, SavePrevious, SaveCurrent,
              VerifyStep
<1> QED
  BY <1>1, <1>2, <1>3, <1>4, <1>5, <1>6, <1>7, <1>8
     DEF Next, JobStep, RollbackSteps, RefreshSteps, ApplySteps, TickSteps

\* The guard opens at two steps, and run.json is replaced behind a closed one.
LEMMA GuardKept ==
  ASSUME SInv, Next, ~OpenGuard, ~Monitor
  PROVE  grd' \in {grd, "closed"} /\ (run' = run \/ (grd = "closed" /\ grd' = grd))
<1>1. CASE WriteRun
  BY <1>1 DEF WriteRun, At, SInv, LaneFits
<1>2. CASE LaneSteps /\ ~WriteRun
  BY <1>2 DEF LaneSteps, CloseLane, LaneClosed, LaneNotClosed, AwgFallback,
              StartService, Confirm, CommitProfile, Probe, lane
<1>3. CASE StartStep \/ Halt \/ Environment
  BY <1>3 DEF StartStep, Refresh, Recover, ApplyPolicy, HealthTick, StartJob,
              Stop, CanStart, Halt, LaneClosed, LaneNotClosed, Environment,
              Crash, PowerLoss, ServiceDies, Publish, EditPolicy, lane
<1>4. CASE RollbackSteps
  BY <1>4 DEF RollbackSteps, ApplyFailedStep, RollbackStep, FailClosed,
              CloseAndGoto, LaneClosed, LaneNotClosed, RolledBackFalse,
              RolledBackTrue, lane
<1>5. CASE RefreshSteps
  BY <1>5 DEF RefreshSteps, RestoreStep, RestoreFailed, CloseAndGoto, LaneClosed,
              LaneNotClosed, NothingToReport, PutResult, PutRefused,
              ReportAcceptedStep, FetchNothing, FetchMalformed, FetchNew,
              ForceApplied, ForceNothing, SaveReady, lane
<1>6. CASE ApplySteps
  BY <1>6 DEF ApplySteps, BeginStep, PrepareStep, PreparedStep, ActivatingStep,
              ActivatedStep, Checkpoint, SavePrevious, SaveCurrent, VerifyStep,
              CommitStep, lane
<1>7. CASE TickSteps
  BY <1>7 DEF TickSteps, TickStep, TickFailed, CloseAndGoto, LaneClosed,
              LaneNotClosed, TickSave, lane
<1> QED
  BY <1>1, <1>2, <1>3, <1>4, <1>5, <1>6, <1>7 DEF Next, JobStep

\* The commit, the save and the end of a rollback, in terms of the entries.
LEMMA CommitEntries ==
  ASSUME SInv, CommitStep
  PROVE  \/ disk' = disk
         \/ /\ disk'.applied = disk.desired /\ disk'.desired = None
            /\ disk.phase = "VERIFYING" /\ disk.desired # None
            /\ grd = "open" /\ MatchesBundle(run, disk.desired)
<1>1. /\ pc = "commit" /\ Trying
      /\ disk' \in {Verified(mem, cur.profile), disk}
  BY DEF CommitStep, At, Trying, Persist, PersistFails
<1>2. /\ mem \in Journal /\ mem.desired = disk.desired /\ mem.desired # None
      /\ Ordered(mem)
  BY <1>1, TrialFacts
<1>3. /\ disk.phase = "VERIFYING" /\ grd = "open"
      /\ MatchesBundle(run, disk.desired) /\ cur.profile \in Profiles
  BY <1>1, CommitFacts
<1>4. /\ Verified(mem, cur.profile).applied = disk.desired
      /\ Verified(mem, cur.profile).desired = None
  BY <1>2, <1>3, VerifiedOrder, VerifiedType
<1> QED
  BY <1>1, <1>2, <1>3, <1>4

\* A saved snapshot is a later attempt, offered outside a transaction.
LEMMA SaveEntries ==
  ASSUME SInv, SaveReady
  PROVE  \/ disk' = disk
         \/ /\ disk'.applied = disk.applied /\ disk'.desired \in Entry
            /\ Ordered(disk') /\ ~RecoverRequired(disk)
<1>1. pc = "save" /\ Settling /\ disk' \in {mem, disk}
  BY DEF SaveReady, At, Settling, Persist, PersistFails
<1>2. /\ mem \in Journal /\ mem.applied = disk.applied /\ Ordered(mem)
      /\ ~RecoverRequired(disk) /\ mem.desired # None
  BY <1>1, SettlingFacts DEF SInv, IInv, JobKnows
<1>3. mem.desired \in Entry
  BY <1>2 DEF Journal
<1> QED
  BY <1>1, <1>2, <1>3

\* The end of a rollback gives the desired entry up and serves the applied.
LEMMA RollbackEntries ==
  ASSUME SInv, RolledBackTrue
  PROVE  \/ disk' = disk
         \/ /\ disk'.applied = disk.applied /\ disk'.desired = None
            /\ grd = "open" => MatchesBundle(run, disk.applied)
<1> DEFINE p == IF disk.applied = None THEN mem.profile ELSE cur.profile
           m == [mem EXCEPT !.profile = p]
<1>1. /\ pc = "rolledBackTrue" /\ RollingBack /\ IInv
      /\ disk' \in {RolledBack(m, TRUE), disk}
  BY DEF RolledBackTrue, At, RollingBack, SInv, Persist, PersistFails
<1>2. /\ mem \in Journal /\ mem.applied = disk.applied
      /\ mem.desired # None /\ Ordered(mem)
  BY <1>1, RollbackFacts
<1>3. p \in Profiles \cup {None}
  BY <1>1, <1>2 DEF IInv, BundlesFit, MatchesBundle, TypeOK, Bundle, Journal
<1>4. /\ m \in Journal /\ Ordered(m) /\ m.desired = mem.desired
      /\ m.applied = mem.applied
  <2> HIDE DEF p
  <2> QED
    BY <1>2, <1>3, ProfileOrder
<1> HIDE DEF m
<1>5. /\ RolledBack(m, TRUE).applied = disk.applied
      /\ RolledBack(m, TRUE).desired = None
  BY <1>2, <1>4, RolledBackOrder, RolledBackType
<1>6. grd = "open" => MatchesBundle(run, disk.applied)
  BY <1>1 DEF SInv, LaneFits
<1> QED
  BY <1>1, <1>5, <1>6

\* What a bundle is served as: the one entry it matches.
LEMMA MatchedEntry ==
  ASSUME NEW b, NEW e \in Entry \cup {None}, MatchesBundle(b, e)
  PROVE  e # None /\ [etag |-> b.etag, attempt |-> b.attempt] = e
BY DEF MatchesBundle, Entry

\* The applied entry changes only when a verified transaction is committed, to a
\* later attempt of a revision that is not older (orchestration.uc applyDesired).
THEOREM CommitsOnlyVerified == Spec => CommitsVerified
<1> DEFINE Applies ==
      disk'.applied # disk.applied =>
        /\ disk.phase = "VERIFYING" /\ disk'.applied = disk.desired
        /\ grd = "open" /\ MatchesBundle(run, disk.desired)
        /\ disk.applied # None =>
             /\ disk'.applied.attempt > disk.applied.attempt
             /\ Rev[disk'.applied.etag] >= Rev[disk.applied.etag]
<1>1. ASSUME SInv, [Next]_vars
      PROVE  Applies
  <2>1. CASE CommitStep
    BY <1>1, <2>1, CommitEntries DEF SInv, InOrder, Ordered
  <2>2. CASE SaveReady
    BY <1>1, <2>2, SaveEntries
  <2>3. CASE RolledBackTrue
    BY <1>1, <2>3, RollbackEntries
  <2>4. CASE Next /\ ~CommitStep /\ ~SaveReady /\ ~RolledBackTrue
    BY <1>1, <2>4, EntriesKept
  <2>5. CASE UNCHANGED vars
    BY <2>5 DEF vars
  <2> QED
    BY <1>1, <2>1, <2>2, <2>3, <2>4, <2>5
<1>2. Spec => [][Applies]_vars
  <2>1. SInv /\ [Next]_vars => [Applies]_vars
    BY <1>1
  <2> HIDE DEF Applies
  <2> QED
    BY <2>1, ServesInductive, PTL DEF Spec
<1> QED
  BY <1>2 DEF CommitsVerified

-----------------------------------------------------------------------------
\* A step that keeps the entries and serves the same, or nobody any more.
LEMMA QuietPromise ==
  ASSUME disk'.applied = disk.applied, disk'.desired = disk.desired,
         Serving' \in {Serving, None}
  PROVE  [Promise!Next]_(Promise!vars)
BY DEF Promise!Next, Promise!Close, Promise!vars

\* A step that opens the guard serves the entry of the lane action.
LEMMA OpeningPromise ==
  ASSUME SInv, disk'.applied = disk.applied, disk'.desired = disk.desired,
         run' = run, MatchesBundle(run, LaneEntry)
  PROVE  [Promise!Next]_(Promise!vars)
<1>1. LaneEntry \in {disk.applied, disk.desired} /\ disk \in Journal
  BY DEF LaneEntry, SInv, IInv, TypeOK
<1>2. LaneEntry \in Entry \cup {None}
  BY <1>1 DEF Journal
<1>3. /\ LaneEntry # None
      /\ [etag |-> run.etag, attempt |-> run.attempt] = LaneEntry
  BY <1>2, MatchedEntry
<1>4. CASE grd' # "open" \/ grd = "open"
  BY <1>4, QuietPromise DEF Serving
<1>5. CASE grd' = "open" /\ grd # "open"
  <2>1. Serving = None /\ Serving' = LaneEntry
    BY <1>3, <1>5 DEF Serving
  <2> QED
    BY <1>1, <1>3, <2>1 DEF Promise!Next, Promise!Serve
<1> QED
  BY <1>4, <1>5

\* Every step of the router is a step of the promise or none of its business.
LEMMA NextPromise ==
  ASSUME SInv, [Next]_vars
  PROVE  [Promise!Next]_(Promise!vars)
<1>1. /\ disk \in Journal
      /\ disk.applied \in Entry \cup {None} /\ disk.desired \in Entry \cup {None}
  BY DEF SInv, IInv, TypeOK, Journal
<1>2. CASE SaveReady
  <2>1. lane' = lane
    BY <1>2 DEF SaveReady
  <2>2. Serving' = Serving
    BY <2>1 DEF Serving, lane
  <2>3. CASE disk' = disk
    BY <2>2, <2>3, QuietPromise
  <2>4. CASE /\ disk'.applied = disk.applied /\ disk'.desired \in Entry
             /\ Ordered(disk') /\ ~RecoverRequired(disk)
    <3>1. disk'.desired # None
      BY <2>4, RouterAssumption
    <3>2. Serving = None \/ Serving = disk.applied
      BY <1>1, <2>4, MatchedEntry DEF Serving, SInv, Served
    <3> QED
      BY <2>2, <2>4, <3>1, <3>2 DEF Ordered, Promise!Next, Promise!Offer
  <2> QED
    BY <1>2, <2>3, <2>4, SaveEntries
<1>3. CASE CommitStep
  <2>1. lane' = lane
    BY <1>3 DEF CommitStep
  <2>2. Serving' = Serving
    BY <2>1 DEF Serving, lane
  <2>3. CASE disk' = disk
    BY <2>2, <2>3, QuietPromise
  <2>4. CASE /\ disk'.applied = disk.desired /\ disk'.desired = None
             /\ disk.desired # None
             /\ grd = "open" /\ MatchesBundle(run, disk.desired)
    BY <1>1, <2>2, <2>4, MatchedEntry DEF Serving, Promise!Next, Promise!Commit
  <2> QED
    BY <1>3, <2>3, <2>4, CommitEntries
<1>4. CASE RolledBackTrue
  <2>1. lane' = lane
    BY <1>4 DEF RolledBackTrue
  <2>2. Serving' = Serving
    BY <2>1 DEF Serving, lane
  <2>3. CASE disk' = disk
    BY <2>2, <2>3, QuietPromise
  <2>4. CASE /\ disk'.applied = disk.applied /\ disk'.desired = None
             /\ grd = "open" => MatchesBundle(run, disk.applied)
    BY <1>1, <2>2, <2>4, MatchedEntry DEF Serving, Promise!Next, Promise!Abandon
  <2> QED
    BY <1>4, <2>3, <2>4, RollbackEntries
<1>5. CASE OpenGuard \/ Monitor
  <2>1. pc \in {"open", "monitor"} /\ disk' = disk /\ run' = run
    BY <1>5 DEF OpenGuard, Monitor, LaneNotClosed, LaneStep, At
  <2>2. MatchesBundle(run, LaneEntry)
    BY <2>1 DEF SInv, LaneFits
  <2> QED
    BY <2>1, <2>2, OpeningPromise
<1>6. CASE /\ Next /\ ~SaveReady /\ ~CommitStep /\ ~RolledBackTrue
           /\ ~OpenGuard /\ ~Monitor
  <2>1. disk'.applied = disk.applied /\ disk'.desired = disk.desired
    BY <1>6, EntriesKept
  <2>2. /\ grd' \in {grd, "closed"}
        /\ run' = run \/ (grd = "closed" /\ grd' = grd)
    BY <1>6, GuardKept
  <2>3. Serving' \in {Serving, None}
    BY <2>2 DEF Serving
  <2> QED
    BY <2>1, <2>3, QuietPromise
<1>7. CASE UNCHANGED vars
  <2>1. disk' = disk /\ Serving' = Serving
    BY <1>7 DEF vars, Serving
  <2> QED
    BY <2>1, QuietPromise
<1> QED
  BY <1>2, <1>3, <1>4, <1>5, <1>6, <1>7

\* The router implements RouterPromise: one configuration or none is served, a
\* trial that serves is committed or stopped, and traffic never moves from one
\* configuration to another without the guard being closed in between.
THEOREM RouterKeepsPromise == Spec => KeepsPromise
<1>1. Init => Promise!Init
  BY DEF Init, InitialState, Serving, Promise!Init
<1>2. SInv /\ [Next]_vars => [Promise!Next]_(Promise!vars)
  BY NextPromise
<1> QED
  BY <1>1, <1>2, ServesInductive, PTL DEF Spec, KeepsPromise, Promise!Spec
=============================================================================
