-------------------------- MODULE RouterReportProofs --------------------------
(***************************************************************************)
(* What the journal of a router says, what the server hears of it, and     *)
(* which policy an attempt carries, proved for every instance.  None of    *)
(* this is inductive by itself.  JInv relates both copies of the journal   *)
(* to everything the server has ever recorded, so that a report that is    *)
(* repeated, overtaken or left over still agrees with it.  PolicyInv says  *)
(* that the attempt about to be tried has a number no bundle on flash has. *)
(***************************************************************************)
EXTENDS RouterPromiseProofs

-----------------------------------------------------------------------------
(***************************************************************************)
(* The journal and what the server hears of it.  A is what the server has  *)
(* recorded.                                                               *)
(***************************************************************************)
\* validState() without its clause on the pending report.
Shape(j) ==
  /\ ValidEntry(j.desired, j.seq)
  /\ ValidEntry(j.applied, j.seq)
  /\ ValidEntry(j.last_good, j.seq)
  /\ j.last_good # None =>
       j.applied # None /\ j.last_good.attempt < j.applied.attempt
  /\ j.profile # None => j.applied # None
  /\ j.phase = "FAIL_CLOSED" => j.profile = None
  /\ (j.desired # None) <=> (j.phase # "IDLE")

AboutApplied(j) ==
  /\ j.phase = "IDLE" /\ j.applied # None
  /\ j.pending.etag = j.applied.etag
  /\ j.pending.attempt = j.applied.attempt

AboutFailed(j) ==
  /\ j.phase \in {"FAIL_CLOSED", "ROLLING_BACK"}
  /\ j.pending.profile = None
  /\ j.pending.etag = j.desired.etag
  /\ j.pending.attempt = j.desired.attempt

\* A pending report is about the applied attempt, about one that has been
\* given up, or about one whose rollback has failed and is still to be made.
PendingFits(j) ==
  j.pending # None =>
    /\ j.pending.attempt \in 1 .. j.seq
    /\ j.pending.stage = "verified" => AboutApplied(j)
    /\ j.pending.stage # "verified" => j.rejected = j.pending.etag
    /\ j.pending.stage = "rolled_back" => j.phase = "IDLE"
    /\ j.pending.stage = "rollback_failed" => AboutFailed(j)

\* Report r is true of the attempts that j has applied.
Tells(j, r) ==
  IF r.stage = "verified"
  THEN j.applied # None /\ r.attempt <= j.applied.attempt
  ELSE \A e \in {j.applied, j.last_good} \ {None} : e.attempt # r.attempt

\* Of a transaction still open the server can only know a failed rollback.
Heard(j, A) ==
  \A a \in A :
    /\ a.attempt <= j.seq
    /\ Tells(j, a)
    /\ j.desired # None /\ a.attempt = j.desired.attempt =>
         /\ a.stage = "rollback_failed" /\ a.profile = None
         /\ a.etag = j.desired.etag

Consistent(a, p) ==
  \/ Body(a) = Body(p) /\ a.etag = p.etag
  \/ a.stage = "rollback_failed" /\ p.stage = "rolled_back"

Pends(j, A) ==
  j.pending # None =>
    /\ Tells(j, j.pending)
    /\ \A a \in A : Key(a) = Key(j.pending) => Consistent(a, j.pending)

JFits(j, A) == Shape(j) /\ PendingFits(j) /\ Heard(j, A) /\ Pends(j, A)

\* The attempt on trial is one the server has not heard of.
Fresh(j, A) == \A a \in A : a.attempt < j.desired.attempt

\* What the numbers of a journal and of a report are.
LEMMA Numbers ==
  ASSUME NEW j \in Journal
  PROVE  /\ j.seq \in Nat
         /\ j.desired # None => j.desired \in Entry /\ j.desired.attempt \in Nat
         /\ j.applied # None => j.applied.attempt \in Nat
         /\ j.last_good # None => j.last_good.attempt \in Nat
         /\ j.pending # None => /\ j.pending \in Report
                                /\ j.pending.attempt \in Nat
                                /\ j.pending.stage \in Stages
BY DEF Journal, Entry, Report

\* A later copy that keeps the entries tells the same.
LEMMA TellsSame ==
  ASSUME NEW j, NEW k, k.applied = j.applied, k.last_good = j.last_good, NEW r
  PROVE  Tells(k, r) <=> Tells(j, r)
BY DEF Tells

\* beginApply and the checkpoints after it, and applyFailed.
LEMMA PhaseJournal ==
  ASSUME NEW A \in SUBSET Report, NEW j \in Journal, JFits(j, A),
         j.desired # None, NEW p \in Phases \ {"IDLE", "FAIL_CLOSED"},
         j.pending = None \/ p = "ROLLING_BACK"
  PROVE  LET k == Bump([j EXCEPT !.phase = p])
         IN  /\ JFits(k, A) /\ k.seq = j.seq + 1
             /\ k.pending = j.pending /\ k.desired = j.desired
<1> DEFINE k == Bump([j EXCEPT !.phase = p])
<1>1. /\ k.seq = j.seq + 1 /\ k.phase = p /\ k.desired = j.desired
      /\ k.applied = j.applied /\ k.last_good = j.last_good
      /\ k.rejected = j.rejected /\ k.pending = j.pending
      /\ k.profile = j.profile
  BY DEF Bump, Journal
<1> HIDE DEF k
<1>2. Shape(k)
  BY <1>1, Numbers DEF JFits, Shape, ValidEntry
<1>3. ASSUME k.pending # None
      PROVE  /\ k.pending.stage = "rollback_failed" /\ AboutFailed(k)
             /\ k.pending.attempt \in 1 .. k.seq /\ k.rejected = k.pending.etag
  <2>1. /\ j.pending # None /\ j.phase # "IDLE" /\ p = "ROLLING_BACK"
        /\ j.pending.stage \in Stages /\ j.pending.attempt \in 1 .. j.seq
    BY <1>1, <1>3, Numbers DEF JFits, Shape, PendingFits
  <2>2. j.pending.stage = "rollback_failed" /\ AboutFailed(j)
    BY <2>1 DEF JFits, PendingFits, AboutApplied, Stages
  <2>3. j.rejected = j.pending.etag
    BY <2>1, <2>2 DEF JFits, PendingFits
  <2>4. AboutFailed(k)
    BY <1>1, <2>1, <2>2 DEF AboutFailed
  <2>5. k.pending.attempt \in 1 .. k.seq
    BY <1>1, <2>1, Numbers
  <2> QED
    BY <1>1, <2>2, <2>3, <2>4, <2>5
<1>4. PendingFits(k)
  BY <1>3 DEF PendingFits
<1>5. Heard(k, A)
  <2>1. \A a \in A : a.attempt \in Nat
    BY DEF Report
  <2> QED
    BY <1>1, <2>1, TellsSame, Numbers DEF JFits, Heard
<1>6. Pends(k, A)
  BY <1>1, TellsSame DEF JFits, Pends
<1> QED
  BY <1>1, <1>2, <1>4, <1>5, <1>6 DEF JFits, k

\* rolledBack, on a copy that may have learnt another profile.
LEMMA RolledBackJournal ==
  ASSUME NEW A \in SUBSET Report, NEW j \in Journal, JFits(j, A), Ordered(j),
         j.desired # None, NEW m \in Journal, NEW ok \in BOOLEAN,
         m.seq = j.seq, m.desired = j.desired, m.applied = j.applied,
         m.last_good = j.last_good
  PROVE  LET k == RolledBack(m, ok)
         IN  JFits(k, A) /\ k.seq = j.seq + 1 /\ k.pending # None
<1> DEFINE p == IF ok /\ m.applied # None THEN m.profile ELSE None
           s == IF ok THEN "rolled_back" ELSE "rollback_failed"
           r == ReportFor(m.desired, p, s)
           d == IF ok THEN None ELSE m.desired
           h == IF ok THEN "IDLE" ELSE "FAIL_CLOSED"
           n == [m EXCEPT !.rejected = m.desired.etag, !.desired = d,
                          !.phase = h, !.profile = p, !.pending = r]
           k == Bump(n)
<1>1. RolledBack(m, ok) = k
  BY DEF RolledBack
<1>2. /\ r.etag = j.desired.etag /\ r.attempt = j.desired.attempt
      /\ r.profile = p /\ r.stage = s
  BY DEF ReportFor
<1>3. r # None
  <2>1. m.desired \in Entry /\ p \in Profiles \cup {None} /\ s \in Stages
    BY DEF Journal, Stages
  <2> QED
    BY <2>1, ReportForType, EntryNotNone
<1> HIDE DEF p, s, r, d, h
<1>4. /\ n.seq = j.seq /\ n.phase = h /\ n.desired = d /\ n.applied = j.applied
      /\ n.last_good = j.last_good /\ n.rejected = j.desired.etag
      /\ n.pending = r /\ n.profile = p /\ DOMAIN n = DOMAIN m
  BY DEF Journal
<1> HIDE DEF n
<1>5. /\ k.seq = j.seq + 1 /\ k.phase = h /\ k.desired = d
      /\ k.applied = j.applied /\ k.last_good = j.last_good
      /\ k.rejected = j.desired.etag /\ k.pending = r /\ k.profile = p
  BY <1>4 DEF Bump, Journal
<1> HIDE DEF k
<1>6. /\ p # None => j.applied # None
      /\ s = IF ok THEN "rolled_back" ELSE "rollback_failed"
      /\ d = IF ok THEN None ELSE j.desired
      /\ h = IF ok THEN "IDLE" ELSE "FAIL_CLOSED"
      /\ ~ok => p = None
  BY DEF p, s, d, h
<1>7. Shape(k)
  BY <1>5, <1>6, Numbers DEF JFits, Shape, ValidEntry
<1>8. j.desired.attempt \in 1 .. j.seq
  BY DEF JFits, Shape, ValidEntry
<1>9. PendingFits(k)
  <2>1. r.attempt \in 1 .. k.seq
    BY <1>2, <1>5, <1>8, Numbers
  <2> QED
    BY <1>2, <1>5, <1>6, <2>1 DEF PendingFits, AboutFailed
<1>10. Heard(k, A)
  <2>1. \A a \in A : a.attempt \in Nat
    BY DEF Report
  <2> QED
    BY <1>5, <1>6, <2>1, TellsSame, Numbers DEF JFits, Heard
<1>11. Tells(k, r)
  BY <1>2, <1>5, <1>6, Numbers DEF Tells, Ordered, JFits, Shape
<1>12. ASSUME NEW a \in A, Key(a) = Key(r) PROVE Consistent(a, r)
  <2>1. a.attempt = j.desired.attempt
    BY <1>2, <1>12 DEF Key
  <2>2. a.stage = "rollback_failed" /\ a.profile = None /\ a.etag = j.desired.etag
    BY <2>1 DEF JFits, Heard
  <2> QED
    BY <1>2, <1>6, <2>2 DEF Consistent, Body
<1>13. Pends(k, A)
  BY <1>5, <1>11, <1>12 DEF Pends
<1> QED
  BY <1>1, <1>3, <1>5, <1>7, <1>9, <1>10, <1>13 DEF JFits

\* reportAccepted.
LEMMA AcceptedJournal ==
  ASSUME NEW A \in SUBSET Report, NEW j \in Journal, JFits(j, A)
  PROVE  LET k == ReportAccepted(j)
         IN  /\ JFits(k, A) /\ k.seq = j.seq + 1
             /\ k.pending = None /\ k.desired = j.desired
<1> DEFINE k == ReportAccepted(j)
<1>1. /\ k.seq = j.seq + 1 /\ k.phase = j.phase /\ k.desired = j.desired
      /\ k.applied = j.applied /\ k.last_good = j.last_good
      /\ k.pending = None /\ k.profile = j.profile
  BY DEF ReportAccepted, Bump, Journal
<1> HIDE DEF k
<1>2. Shape(k)
  BY <1>1, Numbers DEF JFits, Shape, ValidEntry
<1>3. Heard(k, A)
  <2>1. \A a \in A : a.attempt \in Nat
    BY DEF Report
  <2> QED
    BY <1>1, <2>1, TellsSame, Numbers DEF JFits, Heard
<1>4. PendingFits(k) /\ Pends(k, A)
  BY <1>1 DEF PendingFits, Pends
<1> QED
  BY <1>1, <1>2, <1>3, <1>4 DEF JFits, k

\* receiveSnapshot on a snapshot that does not validate.
LEMMA RejectJournal ==
  ASSUME NEW A \in SUBSET Report, NEW j \in Journal, JFits(j, A),
         j.pending = None, NEW e \in Etags
  PROVE  LET k == RejectSnapshot(j, e)
         IN  JFits(k, A) /\ k.pending = None
<1> DEFINE k == RejectSnapshot(j, e)
<1>1. /\ k.seq = j.seq + 1 /\ k.phase = j.phase /\ k.desired = j.desired
      /\ k.applied = j.applied /\ k.last_good = j.last_good
      /\ k.pending = None /\ k.profile = j.profile
  BY DEF RejectSnapshot, Bump, Journal
<1> HIDE DEF k
<1>2. Shape(k)
  BY <1>1, Numbers DEF JFits, Shape, ValidEntry
<1>3. Heard(k, A)
  <2>1. \A a \in A : a.attempt \in Nat
    BY DEF Report
  <2> QED
    BY <1>1, <2>1, TellsSame, Numbers DEF JFits, Heard
<1>4. PendingFits(k) /\ Pends(k, A)
  BY <1>1 DEF PendingFits, Pends
<1> QED
  BY <1>1, <1>2, <1>3, <1>4 DEF JFits, k

\* receiveSnapshot on one it takes: an attempt the server has not heard of.
LEMMA ReceiveJournal ==
  ASSUME NEW A \in SUBSET Report, NEW j \in Journal, JFits(j, A),
         j.pending = None, NEW e \in Etags
  PROVE  LET k == ReceiveSnapshot(j, e)
         IN  /\ JFits(k, A) /\ k.pending = None /\ k.seq = j.seq + 1
             /\ k.desired.attempt = k.seq /\ Fresh(k, A)
<1> DEFINE d == [etag |-> e, attempt |-> j.seq + 1]
           n == [j EXCEPT !.desired = d, !.rejected = None, !.phase = "READY"]
           k == Bump(n)
<1>1. ReceiveSnapshot(j, e) = k /\ d.attempt = j.seq + 1 /\ d # None
  <2>1. d \in Entry
    BY DEF Entry, Journal
  <2> QED
    BY <2>1, EntryNotNone DEF ReceiveSnapshot
<1> HIDE DEF d
<1>2. /\ n.seq = j.seq /\ n.phase = "READY" /\ n.desired = d
      /\ n.applied = j.applied /\ n.last_good = j.last_good
      /\ n.pending = None /\ n.profile = j.profile /\ DOMAIN n = DOMAIN j
  BY DEF Journal
<1> HIDE DEF n
<1>3. /\ k.seq = j.seq + 1 /\ k.phase = "READY" /\ k.desired = d
      /\ k.applied = j.applied /\ k.last_good = j.last_good
      /\ k.pending = None /\ k.profile = j.profile
  BY <1>2 DEF Bump, Journal
<1> HIDE DEF k
<1>4. Shape(k)
  BY <1>1, <1>3, Numbers DEF JFits, Shape, ValidEntry
<1>5. \A a \in A : a.attempt \in Nat /\ a.attempt <= j.seq
  BY DEF Report, JFits, Heard
<1>6. Heard(k, A) /\ Fresh(k, A)
  BY <1>1, <1>3, <1>5, TellsSame, Numbers DEF JFits, Heard, Fresh
<1>7. PendingFits(k) /\ Pends(k, A)
  BY <1>3 DEF PendingFits, Pends
<1> QED
  BY <1>1, <1>3, <1>4, <1>6, <1>7 DEF JFits

\* verified: the report is about the attempt that has just been applied.
LEMMA VerifiedJournal ==
  ASSUME NEW A \in SUBSET Report, NEW j \in Journal, JFits(j, A), Ordered(j),
         j.desired # None, Fresh(j, A), NEW p \in Profiles
  PROVE  LET k == Verified(j, p)
         IN  JFits(k, A) /\ k.seq = j.seq + 1 /\ k.pending # None
<1> DEFINE r == ReportFor(j.desired, p, "verified")
           n == [j EXCEPT !.last_good = j.applied, !.applied = j.desired,
                          !.desired = None, !.phase = "IDLE",
                          !.profile = p, !.pending = r]
           k == Bump(n)
<1>1. Verified(j, p) = k
  BY DEF Verified
<1>2. /\ r.etag = j.desired.etag /\ r.attempt = j.desired.attempt
      /\ r.stage = "verified"
  BY DEF ReportFor
<1>3. r # None
  <2>1. j.desired \in Entry /\ "verified" \in Stages
    BY DEF Journal, Stages
  <2> QED
    BY <2>1, ReportForType, EntryNotNone
<1> HIDE DEF r
<1>4. /\ n.seq = j.seq /\ n.phase = "IDLE" /\ n.desired = None
      /\ n.applied = j.desired /\ n.last_good = j.applied
      /\ n.pending = r /\ n.profile = p /\ DOMAIN n = DOMAIN j
  BY DEF Journal
<1> HIDE DEF n
<1>5. /\ k.seq = j.seq + 1 /\ k.phase = "IDLE" /\ k.desired = None
      /\ k.applied = j.desired /\ k.last_good = j.applied
      /\ k.pending = r /\ k.profile = p
  BY <1>4 DEF Bump, Journal
<1> HIDE DEF k
<1>6. Shape(k)
  BY <1>5, Numbers DEF JFits, Shape, ValidEntry, Ordered
<1>7. j.desired.attempt \in 1 .. j.seq
  BY DEF JFits, Shape, ValidEntry
<1>8. PendingFits(k)
  <2>1. r.attempt \in 1 .. k.seq
    BY <1>2, <1>5, <1>7, Numbers
  <2> QED
    BY <1>2, <1>5, <2>1 DEF PendingFits, AboutApplied
<1>9. \A a \in A : a.attempt \in Nat /\ a.attempt < j.desired.attempt
  BY DEF Report, Fresh
<1>10. ASSUME NEW a \in A PROVE a.attempt <= k.seq /\ Tells(k, a)
  <2>1. a.attempt <= j.seq /\ Tells(j, a)
    BY DEF JFits, Heard
  <2>2. a.attempt <= k.seq
    BY <1>5, <1>9, <2>1, Numbers
  <2>3. CASE a.stage = "verified"
    BY <1>5, <1>9, <2>2, <2>3, Numbers DEF Tells
  <2>4. CASE a.stage # "verified"
    BY <1>5, <1>9, <2>1, <2>2, <2>4, Numbers DEF Tells
  <2> QED
    BY <2>3, <2>4
<1>11. Heard(k, A)
  BY <1>5, <1>10 DEF Heard
<1>12. Pends(k, A)
  <2>1. Tells(k, r)
    BY <1>2, <1>5, Numbers DEF Tells
  <2>2. \A a \in A : Key(a) # Key(r)
    BY <1>2, <1>9, Numbers DEF Key
  <2> QED
    BY <1>5, <2>1, <2>2 DEF Pends
<1> QED
  BY <1>1, <1>3, <1>5, <1>6, <1>8, <1>11, <1>12 DEF JFits

\* The profile that a health tick records.
LEMMA ProfileJournal ==
  ASSUME NEW A \in SUBSET Report, NEW j \in Journal, JFits(j, A),
         NEW p \in Profiles \cup {None}, p # None => j.applied # None,
         ~RecoverRequired(j)
  PROVE  LET k == [j EXCEPT !.profile = p]
         IN  JFits(k, A) /\ k.pending = j.pending
<1> DEFINE k == [j EXCEPT !.profile = p]
<1>1. /\ k.seq = j.seq /\ k.phase = j.phase /\ k.desired = j.desired
      /\ k.applied = j.applied /\ k.last_good = j.last_good
      /\ k.rejected = j.rejected /\ k.pending = j.pending
      /\ k.profile = p /\ j.phase # "FAIL_CLOSED"
  BY DEF Journal, RecoverRequired
<1> HIDE DEF k
<1>2. Shape(k)
  BY <1>1 DEF JFits, Shape
<1>3. PendingFits(k)
  BY <1>1 DEF JFits, PendingFits, AboutApplied, AboutFailed
<1>4. Heard(k, A)
  BY <1>1, TellsSame DEF JFits, Heard
<1>5. Pends(k, A)
  BY <1>1, TellsSame DEF JFits, Pends
<1> QED
  BY <1>1, <1>2, <1>3, <1>4, <1>5 DEF JFits, k

\* The server records the pending report.
LEMMA RecordedJournal ==
  ASSUME NEW A \in SUBSET Report, NEW j \in Journal, JFits(j, A),
         j.pending # None
  PROVE  JFits(j, A \cup {j.pending})
<1>1. /\ j.pending.attempt \in 1 .. j.seq /\ j.pending.stage \in Stages
      /\ Tells(j, j.pending)
  BY Numbers DEF JFits, PendingFits, Pends
<1>2. ASSUME j.desired # None
      PROVE  /\ j.pending.stage = "rollback_failed"
             /\ j.pending.profile = None /\ j.pending.etag = j.desired.etag
  BY <1>1, <1>2
     DEF JFits, Shape, PendingFits, AboutApplied, AboutFailed, Stages
<1>3. Heard(j, A \cup {j.pending})
  BY <1>1, <1>2, Numbers DEF JFits, Heard
<1>4. Pends(j, A \cup {j.pending})
  BY <1>1 DEF JFits, Pends, Consistent
<1> QED
  BY <1>3, <1>4 DEF JFits

-----------------------------------------------------------------------------
(***************************************************************************)
(* The invariant: the journal on flash and the job's copy of it.           *)
(***************************************************************************)
Working == pc \notin {"idle", "halt"}

\* Both copies fit what the server has recorded, and hold the same report
\* unless the end of a failed rollback could not be saved.  A transaction
\* begins when the last one has been reported.
JInv ==
  /\ JFits(disk, accepted)
  /\ Working => JFits(mem, accepted) /\ mem.seq >= disk.seq
  /\ Working /\ ~(pc = "report" /\ applying) => mem.pending = disk.pending
  /\ pc = "reportAccepted" => mem.pending \in accepted
  /\ pc \in {"fetch", "force", "save"} \/ Trying => mem.pending = None
  /\ pc = "save" \/ Trying => Fresh(mem, accepted)

LEMMA InitJournal == Init => JInv
<1> SUFFICES ASSUME Init PROVE JInv
  OBVIOUS
<1>1. /\ disk.desired = None /\ disk.applied = None /\ disk.last_good = None
      /\ disk.pending = None /\ disk.profile = None /\ disk.phase = "IDLE"
      /\ accepted = {} /\ pc = "idle"
  BY DEF Init, InitialState
<1>2. JFits(disk, accepted)
  BY <1>1 DEF JFits, Shape, ValidEntry, PendingFits, Heard, Pends
<1> QED
  BY <1>1, <1>2 DEF JInv, Working, Trying, LanePc

\* What a running job starts a step from.
LEMMA JournalFacts ==
  ASSUME SInv, JInv, Working
  PROVE  /\ disk \in Journal /\ mem \in Journal /\ accepted \in SUBSET Report
         /\ JFits(disk, accepted) /\ JFits(mem, accepted) /\ Ordered(mem)
         /\ disk.seq \in Nat /\ mem.seq \in Nat /\ mem.seq >= disk.seq
         /\ pc # "report" => mem.pending = disk.pending
<1>1. mem \in Journal /\ Ordered(mem)
  BY JobFacts DEF Working
<1>2. disk \in Journal /\ accepted \in SUBSET Report
  BY DEF SInv, IInv, TypeOK
<1> QED
  BY <1>1, <1>2, Numbers DEF JInv

\* A job that ends leaves the journal on flash.
LEMMA GoneJournal ==
  ASSUME JFits(disk', accepted'), pc' \in {"idle", "halt"}
  PROVE  JInv'
BY DEF JInv, Working, Trying, LanePc, JFits

\* A step that touches no copy of the journal and begins nothing new.
LEMMA FrameJournal ==
  ASSUME JInv, UNCHANGED <<disk, mem, accepted, applying>>,
         Working, pc # "report",
         pc' \notin {"idle", "halt", "reportAccepted", "fetch", "force", "save"},
         Trying' => Trying
  PROVE  JInv'
<1>1. JFits(disk, accepted)' /\ JFits(mem, accepted)'
  BY DEF JInv, JFits
<1>2. (mem.seq >= disk.seq)' /\ (mem.pending = disk.pending)'
  BY DEF JInv
<1>3. Trying' => mem'.pending = None /\ Fresh(mem', accepted')
  BY DEF JInv
<1> QED
  BY <1>1, <1>2, <1>3 DEF JInv, JFits, Fresh

-----------------------------------------------------------------------------
\* The jobs begin with a copy of the journal.
LEMMA StartJournal ==
  ASSUME SInv, JInv, StartStep
  PROVE  JInv'
<1>1. disk' = disk /\ accepted' = accepted
  BY DEF StartStep, Refresh, Recover, ApplyPolicy, HealthTick, StartJob, Stop,
         CanStart, server
<1>2. JFits(disk', accepted')
  BY <1>1 DEF JInv
<1>3. CASE \E c \in Commands : Stop(c)
  BY <1>2, <1>3, GoneJournal DEF Stop, Goto
<1>4. CASE Refresh \/ Recover \/ ApplyPolicy \/ HealthTick
  <2>1. mem' = disk' /\ pc' \in {"applyFailed", "restore", "report", "tick"}
    BY <1>1, <1>4
       DEF Refresh, Recover, ApplyPolicy, HealthTick, StartJob, Goto
  <2>2. mem'.seq >= disk'.seq
    BY <1>1, <2>1, Numbers DEF SInv, IInv, TypeOK
  <2> QED
    BY <1>2, <2>1, <2>2 DEF JInv, JFits, Working, Trying, LanePc
<1> QED
  BY <1>3, <1>4 DEF StartStep

\* The steps that leave both copies alone.
LEMMA FramesJournal ==
  ASSUME SInv, JInv,
         \/ RollbackStep \/ FailClosed \/ RestoreStep \/ RestoreFailed
         \/ PrepareStep \/ SavePrevious \/ SaveCurrent \/ VerifyStep
         \/ TickStep \/ Monitor \/ TickFailed
  PROVE  JInv'
<1>1. JobKnows
  BY DEF SInv, IInv
<1>2. CASE RollbackStep
  <2>1. /\ UNCHANGED <<disk, mem, accepted, applying, act>>
        /\ pc = "rollback" /\ pc' \in {"rolledBackTrue", "close", "failClosed"}
    BY <1>2 DEF RollbackStep, At, Goto, server
  <2> QED
    BY <1>1, <2>1, FrameJournal DEF JobKnows, Working, Trying, LanePc
<1>3. CASE FailClosed \/ RestoreFailed \/ TickFailed
  <2>1. /\ UNCHANGED <<disk, mem, accepted, applying>>
        /\ pc \in {"failClosed", "restoreFailed", "tickFailed"}
        /\ pc' \in {"rolledBackFalse", "report", "tickLost"}
    BY <1>3 DEF FailClosed, RestoreFailed, TickFailed, CloseAndGoto, At, Goto,
                job, server
  <2> QED
    BY <2>1, FrameJournal DEF Working, Trying, LanePc
<1>4. CASE RestoreStep
  <2>1. /\ UNCHANGED <<disk, mem, accepted, applying>> /\ act' = "restore"
        /\ pc = "restore" /\ pc' \in {"report", "close", "restoreFailed"}
    BY <1>4 DEF RestoreStep, At, Goto, server
  <2> QED
    BY <2>1, FrameJournal DEF Working, Trying, LanePc
<1>5. CASE PrepareStep \/ SavePrevious \/ SaveCurrent \/ VerifyStep
  <2>1. /\ UNCHANGED <<disk, mem, accepted, applying>>
        /\ pc \in {"prepare", "savePrevious", "saveCurrent", "verify"}
        /\ pc' \in {"prepared", "applyFailed", "saveCurrent", "close", "probe"}
    BY <1>5 DEF PrepareStep, SavePrevious, SaveCurrent, VerifyStep, At, Goto,
                server
  <2>2. Trying /\ Working
    BY <2>1 DEF Trying, Working
  <2> QED
    BY <2>1, <2>2, FrameJournal
<1>6. CASE TickStep \/ Monitor
  <2>1. /\ UNCHANGED <<disk, mem, accepted, applying>>
        /\ pc \in {"tick", "monitor"} /\ act' = "health-tick"
        /\ pc' \in {"monitor", "close", "tickFailed", "tickLost", "tickSave"}
    BY <1>1, <1>6 DEF TickStep, Monitor, SelectProfile, LaneStep, At, Goto,
                      server, JobKnows
  <2> QED
    BY <2>1, FrameJournal DEF Working, Trying, LanePc
<1> QED
  BY <1>2, <1>3, <1>4, <1>5, <1>6

\* The lane works for the transaction it was asked by.
LEMMA LaneJournal ==
  ASSUME SInv, JInv, LaneSteps
  PROVE  JInv'
<1>1. /\ pc \in LanePc \ {"monitor"} /\ LaneStep
      /\ pc' \in LanePc \cup {AfterAction, ActionFailed}
  BY DEF LaneSteps, CloseLane, WriteRun, AwgFallback, StartService, Confirm,
         CommitProfile, Probe, OpenGuard, SelectProfile, AfterStart,
         AfterConfirm, AfterAction, ActionFailed, At, Goto, LanePc
<1>2. act \in Actions
  BY <1>1 DEF SInv, IInv, JobKnows
<1>3. /\ UNCHANGED <<disk, mem, accepted, applying, act>>
      /\ Working /\ pc # "report"
  BY <1>1 DEF LaneStep, server, Working, LanePc
<1>4. pc' \notin {"idle", "halt", "reportAccepted", "fetch", "force", "save"}
  BY <1>1, <1>2 DEF Actions, AfterAction, ActionFailed, LanePc
<1>5. Trying' => Trying
  BY <1>1, <1>2, <1>3 DEF Trying, Actions, AfterAction, ActionFailed, LanePc
<1> QED
  BY <1>3, <1>4, <1>5, FrameJournal

-----------------------------------------------------------------------------
\* The rollback: its beginning and its two ends.
LEMMA ApplyFailedJournal ==
  ASSUME SInv, JInv, ApplyFailedStep
  PROVE  JInv'
<1> DEFINE k == ApplyFailed(mem)
<1>1. /\ pc = "applyFailed" /\ pc' = "rollback" /\ mem.desired # None
      /\ mem' = k /\ disk' \in {k, disk} /\ accepted' = accepted
  BY DEF ApplyFailedStep, At, Goto, Persist, PersistFails, server
<1>2. Working
  BY <1>1 DEF Working
<1>3. JFits(k, accepted) /\ k.seq = mem.seq + 1 /\ k.pending = mem.pending
  <2>1. "ROLLING_BACK" \in Phases \ {"IDLE", "FAIL_CLOSED"}
    BY DEF Phases
  <2> QED
    BY <1>1, <1>2, <2>1, JournalFacts, PhaseJournal DEF ApplyFailed
<1> HIDE DEF k
<1>4. /\ JFits(disk', accepted') /\ mem'.seq >= disk'.seq
      /\ mem'.pending = disk'.pending
  BY <1>1, <1>2, <1>3, JournalFacts
<1> QED
  BY <1>1, <1>3, <1>4 DEF JInv, JFits, Working, Trying, LanePc

LEMMA RolledBackFalseJournal ==
  ASSUME SInv, JInv, RolledBackFalse
  PROVE  JInv'
<1> DEFINE k == RolledBack(mem, FALSE)
<1>1. /\ pc = "rolledBackFalse" /\ Working /\ disk' \in {k, disk}
      /\ accepted' = accepted /\ mem.desired # None
  BY DEF RolledBackFalse, At, Working, Persist, PersistFails, server, SInv,
         IInv, JobKnows, RollingBack
<1>2. JFits(k, accepted) /\ k.seq = mem.seq + 1
  BY <1>1, JournalFacts, RolledBackJournal
<1>3. CASE applying /\ mem' = k /\ pc' = "report" /\ applying' = applying
  <2> HIDE DEF k
  <2>1. JFits(disk', accepted') /\ mem'.seq >= disk'.seq
    BY <1>1, <1>2, <1>3, JournalFacts
  <2> QED
    BY <1>1, <1>2, <1>3, <2>1 DEF JInv, JFits, Working, Trying, LanePc
<1>4. CASE JobGone
  <2> HIDE DEF k
  <2>1. JFits(disk', accepted')
    BY <1>1, <1>2, JournalFacts
  <2> QED
    BY <1>4, <2>1, GoneJournal DEF JobGone
<1> QED
  BY <1>3, <1>4 DEF RolledBackFalse, Goto

LEMMA RolledBackTrueJournal ==
  ASSUME SInv, JInv, RolledBackTrue
  PROVE  JInv'
<1> DEFINE p == IF disk.applied = None THEN mem.profile ELSE cur.profile
           m == [mem EXCEPT !.profile = p]
           k == RolledBack(m, TRUE)
<1>1. /\ pc = "rolledBackTrue" /\ Working /\ disk' \in {k, disk}
      /\ accepted' = accepted /\ mem.desired # None
  BY DEF RolledBackTrue, At, Working, Persist, PersistFails, server, SInv,
         IInv, JobKnows, RollingBack
<1>2. p \in Profiles \cup {None}
  BY <1>1, JournalFacts
     DEF SInv, IInv, BundlesFit, MatchesBundle, TypeOK, Bundle, Journal
<1>3. /\ m \in Journal /\ m.seq = mem.seq /\ m.desired = mem.desired
      /\ m.applied = mem.applied /\ m.last_good = mem.last_good
  <2> HIDE DEF p
  <2> QED
    BY <1>1, <1>2, JournalFacts DEF Journal
<1> HIDE DEF m
<1>4. JFits(k, accepted) /\ k.seq = mem.seq + 1
  BY <1>1, <1>3, JournalFacts, RolledBackJournal
<1>5. CASE disk' = k /\ mem' = k /\ pc' = AfterRollback
  <2> HIDE DEF k
  <2>1. mem'.seq >= disk'.seq
    BY <1>1, <1>4, <1>5, JournalFacts
  <2>2. pc' \in {"restore", "report"}
    BY <1>5 DEF AfterRollback
  <2> QED
    BY <1>1, <1>4, <1>5, <2>1, <2>2 DEF JInv, JFits, Working, Trying, LanePc
<1>6. CASE JobGone
  <2> HIDE DEF k
  <2>1. JFits(disk', accepted')
    BY <1>1, <1>4, JournalFacts
  <2> QED
    BY <1>6, <2>1, GoneJournal DEF JobGone
<1> QED
  BY <1>5, <1>6 DEF RolledBackTrue, Persist, Goto, m

-----------------------------------------------------------------------------
\* The report is delivered, or the job ends with it still pending.
LEMMA PutResultJournal ==
  ASSUME SInv, JInv, PutResult
  PROVE  JInv'
<1>1. /\ pc = "report" /\ Working /\ mem.pending # None
      /\ disk.pending = mem.pending /\ disk' = disk
      /\ accepted' = accepted \cup {mem.pending}
  BY DEF PutResult, At, Working, Sendable
<1>2. JFits(disk, accepted') /\ JFits(mem, accepted')
  BY <1>1, JournalFacts, RecordedJournal
<1>3. CASE JobGone
  BY <1>1, <1>2, <1>3, GoneJournal DEF JobGone
<1>4. CASE pc' = "reportAccepted" /\ UNCHANGED job
  <2>1. mem' = mem /\ mem'.seq >= disk'.seq
    BY <1>1, <1>4, JournalFacts DEF job
  <2> QED
    BY <1>1, <1>2, <1>4, <2>1 DEF JInv, Working, Trying, LanePc
<1> QED
  BY <1>3, <1>4 DEF PutResult, Goto

\* With nothing to report, or nothing any more, the refresh goes on.
LEMMA ReportedJournal ==
  ASSUME SInv, JInv, NothingToReport \/ ReportAcceptedStep
  PROVE  JInv'
<1>1. CASE NothingToReport
  <2>1. /\ pc = "report" /\ Working /\ mem.pending = None /\ ~applying
        /\ UNCHANGED <<disk, mem, accepted>> /\ pc' \in {"fetch", "force"}
    BY <1>1 DEF NothingToReport, At, Goto, Working, job, server
  <2> QED
    BY <2>1 DEF JInv, JFits, Working, Trying, LanePc
<1>2. CASE ReportAcceptedStep
  <2> DEFINE k == ReportAccepted(mem)
  <2>1. /\ pc = "reportAccepted" /\ Working /\ disk' \in {k, disk}
        /\ accepted' = accepted
    BY <1>2 DEF ReportAcceptedStep, At, Working, Persist, PersistFails, server
  <2>2. JFits(k, accepted) /\ k.seq = mem.seq + 1 /\ k.pending = None
    BY <2>1, JournalFacts, AcceptedJournal
  <2>3. CASE JobGone
    <3> HIDE DEF k
    <3>1. JFits(disk', accepted')
      BY <2>1, <2>2, JournalFacts
    <3> QED
      BY <2>3, <3>1, GoneJournal DEF JobGone
  <2>4. CASE disk' = k /\ mem' = k /\ pc' \in {"fetch", "force"}
    <3> HIDE DEF k
    <3>1. mem'.seq >= disk'.seq
      BY <2>1, <2>2, <2>4, JournalFacts
    <3> QED
      BY <2>1, <2>2, <2>4, <3>1 DEF JInv, JFits, Working, Trying, LanePc
  <2> QED
    BY <1>2, <2>3, <2>4 DEF ReportAcceptedStep, Persist, Goto
<1> QED
  BY <1>1, <1>2

\* A refresh that ends, with the refused snapshot recorded or not.
LEMMA EndsJournal ==
  ASSUME SInv, JInv,
         Halt \/ PutRefused \/ FetchNothing \/ ForceNothing \/ FetchMalformed
  PROVE  JInv'
<1>1. CASE Halt \/ PutRefused \/ FetchNothing \/ ForceNothing
  <2>1. disk' = disk /\ accepted' = accepted /\ JobGone
    BY <1>1 DEF Halt, PutRefused, FetchNothing, ForceNothing, server
  <2>2. JFits(disk', accepted')
    BY <2>1 DEF JInv
  <2> QED
    BY <2>1, <2>2, GoneJournal DEF JobGone
<1>2. CASE FetchMalformed
  <2>1. /\ pc = "fetch" /\ Working /\ JobGone /\ accepted' = accepted
        /\ disk' \in {RejectSnapshot(mem, published), disk}
        /\ published \in Etags
    BY <1>2 DEF FetchMalformed, At, Working, Persist, PersistFails, server, SInv,
                IInv, TypeOK
  <2>2. mem.pending = None
    BY <2>1 DEF JInv
  <2>3. JFits(disk', accepted')
    BY <2>1, <2>2, JournalFacts, RejectJournal
  <2> QED
    BY <2>1, <2>3, GoneJournal DEF JobGone
<1> QED
  BY <1>1, <1>2

\* A snapshot is taken, and saved.
LEMMA TakeJournal ==
  ASSUME SInv, JInv, FetchNew \/ ForceApplied
  PROVE  JInv'
<1>1. PICK e \in Etags : mem' = ReceiveSnapshot(mem, e)
  <2>1. CASE FetchNew
    BY <2>1 DEF FetchNew, SInv, IInv, TypeOK
  <2>2. CASE ForceApplied
    <3>1. mem.applied # None /\ mem \in Journal
      BY <2>2, JobFacts DEF ForceApplied, At
    <3>2. mem.applied.etag \in Etags
      BY <3>1 DEF Journal, Entry
    <3> QED
      BY <2>2, <3>2 DEF ForceApplied
  <2> QED
    BY <2>1, <2>2
<1>2. /\ pc \in {"fetch", "force"} /\ Working /\ pc' = "save"
      /\ disk' = disk /\ accepted' = accepted
  BY DEF FetchNew, ForceApplied, At, Goto, Working, server
<1>3. mem.pending = None /\ disk.pending = None
  BY <1>2, JournalFacts DEF JInv
<1>4. /\ JFits(mem', accepted) /\ mem'.pending = None /\ Fresh(mem', accepted)
      /\ mem'.seq = mem.seq + 1
  BY <1>1, <1>2, <1>3, JournalFacts, ReceiveJournal
<1>5. mem'.seq >= disk'.seq /\ JFits(disk', accepted')
  BY <1>2, <1>4, JournalFacts
<1> QED
  BY <1>2, <1>3, <1>4, <1>5 DEF JInv, JFits, Working, Trying, LanePc

LEMMA SaveReadyJournal ==
  ASSUME SInv, JInv, SaveReady
  PROVE  JInv'
<1>1. /\ pc = "save" /\ Working /\ accepted' = accepted /\ disk' \in {mem, disk}
  BY DEF SaveReady, At, Working, Persist, PersistFails, server
<1>2. JFits(disk', accepted') /\ mem.pending = None /\ Fresh(mem, accepted)
  BY <1>1, JournalFacts DEF JInv
<1>3. CASE JobGone
  BY <1>2, <1>3, GoneJournal DEF JobGone
<1>4. CASE disk' = mem /\ mem' = mem /\ pc' = "begin"
  <2>1. mem'.seq >= disk'.seq
    BY <1>1, <1>4, JournalFacts
  <2> QED
    BY <1>1, <1>2, <1>4, <2>1 DEF JInv, JFits, Fresh, Working, Trying, LanePc
<1> QED
  BY <1>3, <1>4 DEF SaveReady, Persist, Goto, job

-----------------------------------------------------------------------------
\* The transaction: a phase is saved, or the rollback begins.
LEMMA PhasesJournal ==
  ASSUME SInv, JInv, BeginStep \/ PreparedStep \/ ActivatingStep \/ ActivatedStep
  PROVE  JInv'
<1>1. PICK p \in {"PREPARING", "PREPARED", "ACTIVATING", "VERIFYING"} :
        \/ disk' = Bump([mem EXCEPT !.phase = p]) /\ mem' = disk'
        \/ disk' = disk /\ pc' = "idle"
        \/ disk' = disk /\ mem' = mem /\ pc' = "applyFailed"
  BY DEF BeginStep, PreparedStep, ActivatingStep, ActivatedStep, Checkpoint,
         BeginApply, Prepared, Activating, Activated, Persist, PersistFails,
         JobGone, Goto
<1>2. /\ pc \in {"begin", "prepared", "activating", "activated"}
      /\ accepted' = accepted
      /\ pc' \in {"idle", "prepare", "activating", "savePrevious", "verify",
                  "applyFailed"}
  BY DEF BeginStep, PreparedStep, ActivatingStep, ActivatedStep, Checkpoint,
         JobGone, At, Goto, server
<1>3. Working /\ Trying
  BY <1>2 DEF Working, Trying
<1>4. mem.pending = None /\ Fresh(mem, accepted) /\ disk.pending = None
  BY <1>2, <1>3, JournalFacts DEF JInv
<1>5. mem.desired # None
  BY <1>3 DEF SInv, IInv, JobKnows
<1>6. JFits(disk, accepted')
  BY <1>2, <1>3, JournalFacts
<1>7. CASE disk' = disk /\ pc' = "idle"
  BY <1>6, <1>7, GoneJournal
<1>8. CASE disk' = disk /\ mem' = mem /\ pc' = "applyFailed"
  BY <1>2, <1>3, <1>6, <1>8, JournalFacts DEF JInv, JFits, Working, Trying, LanePc
<1>9. CASE disk' = Bump([mem EXCEPT !.phase = p]) /\ mem' = disk'
  <2>1. p \in Phases \ {"IDLE", "FAIL_CLOSED"}
    BY DEF Phases
  <2>2. /\ JFits(mem', accepted) /\ mem'.seq = mem.seq + 1
        /\ mem'.pending = None /\ mem'.desired = mem.desired
    BY <1>3, <1>4, <1>5, <1>9, <2>1, JournalFacts, PhaseJournal
  <2>3. mem'.seq >= disk'.seq /\ Fresh(mem', accepted')
    BY <1>2, <1>3, <1>4, <1>9, <2>2, JournalFacts DEF Fresh
  <2> QED
    BY <1>2, <1>9, <2>2, <2>3 DEF JInv, JFits, Working
<1> QED
  BY <1>1, <1>7, <1>8, <1>9

\* The commit, or the rollback when it cannot be written.
LEMMA CommitJournal ==
  ASSUME SInv, JInv, CommitStep
  PROVE  JInv'
<1> DEFINE k == Verified(mem, cur.profile)
<1>1. /\ pc = "commit" /\ Working /\ Trying /\ accepted' = accepted
      /\ \/ disk' = k /\ mem' = k /\ pc' = "report"
         \/ disk' = disk /\ mem' = mem /\ pc' = "applyFailed"
  BY DEF CommitStep, At, Goto, Persist, PersistFails, Working, Trying, server
<1>2. cur.profile \in Profiles /\ mem.desired # None
  BY <1>1, CommitFacts DEF SInv, IInv, JobKnows
<1>3. Fresh(mem, accepted)
  BY <1>1 DEF JInv
<1>4. JFits(k, accepted) /\ k.seq = mem.seq + 1
  BY <1>1, <1>2, <1>3, JournalFacts, VerifiedJournal
<1> HIDE DEF k
<1>5. CASE disk' = k /\ mem' = k /\ pc' = "report"
  <2>1. mem'.seq >= disk'.seq
    BY <1>1, <1>4, <1>5, JournalFacts
  <2> QED
    BY <1>1, <1>4, <1>5, <2>1 DEF JInv, JFits, Working, Trying, LanePc
<1>6. CASE disk' = disk /\ mem' = mem /\ pc' = "applyFailed"
  BY <1>1, <1>6, JournalFacts DEF JInv, JFits, Working, Trying, LanePc
<1> QED
  BY <1>1, <1>5, <1>6

\* The health tick records the profile of current.json, or that there is none.
LEMMA TickSaveJournal ==
  ASSUME SInv, JInv, TickSave
  PROVE  JInv'
<1> DEFINE p == IF pc = "tickLost" THEN None ELSE cur.profile
<1>1. /\ pc \in {"tickSave", "tickLost"} /\ Working /\ accepted' = accepted
      /\ JobGone /\ disk' \in {[mem EXCEPT !.profile = p], disk}
  BY DEF TickSave, Persist, PersistFails, Working, server
<1>2. p \in Profiles \cup {None} /\ (p # None => mem.applied # None)
  BY <1>1, JobFacts DEF SInv, IInv, BundlesFit, MatchesBundle, TypeOK, Bundle
<1>3. ~RecoverRequired(mem)
  BY <1>1, SettlingFacts DEF Settling
<1> HIDE DEF p
<1>4. JFits([mem EXCEPT !.profile = p], accepted)
  BY <1>1, <1>2, <1>3, JournalFacts, ProfileJournal
<1>5. JFits(disk', accepted')
  BY <1>1, <1>4, JournalFacts
<1> QED
  BY <1>1, <1>5, GoneJournal DEF JobGone

\* A killed job, a power loss, and what happens without the job.
LEMMA EnvironmentJournal ==
  ASSUME SInv, JInv, Environment \/ UNCHANGED vars
  PROVE  JInv'
<1>1. CASE Crash \/ PowerLoss
  <2>1. disk' = disk /\ accepted' = accepted /\ pc' = "idle"
    BY <1>1 DEF Crash, PowerLoss, JobGone, server
  <2>2. JFits(disk', accepted')
    BY <2>1 DEF JInv
  <2> QED
    BY <2>1, <2>2, GoneJournal
<1>2. CASE ServiceDies \/ Publish \/ EditPolicy \/ UNCHANGED vars
  <2>1. UNCHANGED <<disk, mem, accepted, pc, act, applying>>
    BY <1>2 DEF ServiceDies, Publish, EditPolicy, vars, job, server
  <2> QED
    BY <2>1 DEF JInv, JFits, Fresh, Working, Trying, LanePc
<1> QED
  BY <1>1, <1>2 DEF Environment

LEMMA NextJournal ==
  ASSUME SInv, JInv, [Next]_vars
  PROVE  JInv'
<1>1. CASE StartStep
  BY <1>1, StartJournal
<1>2. CASE RollbackSteps
  BY <1>2, ApplyFailedJournal, FramesJournal, RolledBackFalseJournal,
     RolledBackTrueJournal DEF RollbackSteps
<1>3. CASE RefreshSteps \/ Halt
  BY <1>3, FramesJournal, ReportedJournal, PutResultJournal, EndsJournal,
     TakeJournal, SaveReadyJournal DEF RefreshSteps
<1>4. CASE ApplySteps
  BY <1>4, FramesJournal, PhasesJournal, CommitJournal DEF ApplySteps
<1>5. CASE LaneSteps
  BY <1>5, LaneJournal
<1>6. CASE TickSteps
  BY <1>6, FramesJournal, TickSaveJournal DEF TickSteps
<1>7. CASE Environment \/ UNCHANGED vars
  BY <1>7, EnvironmentJournal
<1> QED
  BY <1>1, <1>2, <1>3, <1>4, <1>5, <1>6, <1>7 DEF Next, JobStep

\* The invariant of the journal holds of every behaviour of the router.
THEOREM JournalInductive == Spec => []JInv
BY InitJournal, ServesInductive, NextJournal, PTL DEF Spec

\* What journal.uc validState() requires of a journal read from flash holds
\* whatever interrupted the job that wrote it, but for the two cases in which a
\* report is left over (state.uc applyFailed, controller.uc healthTick).
THEOREM JournalStaysSound == Spec => []JournalSound
<1>1. ASSUME SInv, JInv PROVE JournalSound
  <2> DEFINE k == [disk EXCEPT !.pending = None]
  <2>1. disk \in Journal /\ Shape(disk) /\ PendingFits(disk)
    BY <1>1 DEF SInv, IInv, TypeOK, JInv, JFits
  <2>2. /\ k.seq = disk.seq /\ k.phase = disk.phase /\ k.desired = disk.desired
        /\ k.applied = disk.applied /\ k.last_good = disk.last_good
        /\ k.pending = None /\ k.profile = disk.profile
    BY <2>1 DEF Journal
  <2> HIDE DEF k
  <2>3. ValidState(k)
    BY <2>1, <2>2 DEF Shape, ValidState, ValidPending, ValidEntry
  <2>4. ASSUME ~ValidState(disk)
        PROVE  \/ disk.phase = "ROLLING_BACK"
                  /\ disk.pending.stage = "rollback_failed"
               \/ disk.phase = "IDLE" /\ disk.pending.profile # disk.profile
    <3>1. ~ValidPending(disk)
      BY <2>1, <2>4 DEF Shape, ValidState
    <3>2. disk.pending # None /\ disk.pending.stage \in Stages
      BY <2>1, <3>1, Numbers DEF ValidPending
    <3>3. CASE disk.pending.stage = "rollback_failed"
      BY <2>1, <3>1, <3>2, <3>3
         DEF ValidPending, PendingFits, AboutFailed, Shape
    <3>4. CASE disk.pending.stage \in {"verified", "rolled_back"}
      BY <2>1, <3>1, <3>2, <3>4
         DEF ValidPending, PendingFits, AboutApplied
    <3> QED
      BY <3>2, <3>3, <3>4 DEF Stages
  <2> QED
    BY <2>3, <2>4 DEF JournalSound, k
<1> QED
  BY <1>1, ServesInductive, JournalInductive, PTL

\* What the server hears of an attempt is true: it is not told that an attempt
\* failed which was applied, nor the reverse (state.uc verified, rolledBack).
THEOREM ReportsStayTruthful == Spec => []ReportsTruthful
<1>1. JInv => ReportsTruthful
  BY DEF JInv, JFits, Heard, Pends, Tells, ReportsTruthful
<1> QED
  BY <1>1, JournalInductive, PTL

\* One idempotency key never carries two verdicts, except that a rollback which
\* had failed has succeeded (router_apply_results.py).
THEOREM KeysKeepOneVerdict == Spec => []OneVerdictPerKey
<1>1. JInv => OneVerdictPerKey
  BY DEF JInv, JFits, Pends, Consistent, OneVerdictPerKey
<1> QED
  BY <1>1, JournalInductive, PTL

-----------------------------------------------------------------------------
(***************************************************************************)
(* The steps that write the journal: the sequence goes up, and a report    *)
(* stays until it has been delivered.                                      *)
(***************************************************************************)
Delivers ==
  disk.pending # None /\ disk'.pending # disk.pending =>
    \/ disk.pending \in accepted
    \/ disk.pending.stage = "rollback_failed" /\ disk'.pending # None

\* In a recovery the only report left over is that of a failed rollback.
LEMMA LeftOver ==
  ASSUME SInv, JInv, RollingBack, disk.pending # None
  PROVE  disk.pending.stage = "rollback_failed"
<1>1. disk \in Journal /\ PendingFits(disk)
  BY DEF SInv, IInv, TypeOK, JInv, JFits
<1>2. disk.phase # "IDLE"
  BY DEF SInv, PhaseFits, RecoverRequired
<1> QED
  BY <1>1, <1>2, Numbers DEF PendingFits, AboutApplied, Stages

LEMMA JournalSteps ==
  ASSUME SInv, JInv, [Next]_vars
  PROVE  disk'.seq >= disk.seq /\ Delivers
<1>1. disk \in Journal /\ disk.seq \in Nat
  BY Numbers DEF SInv, IInv, TypeOK
<1>2. CASE disk' = disk
  BY <1>1, <1>2 DEF Delivers
<1>3. CASE ApplyFailedStep
  <2>1. /\ pc = "applyFailed" /\ Working /\ mem.desired # None
        /\ disk' \in {ApplyFailed(mem), disk}
    BY <1>3 DEF ApplyFailedStep, At, Working, Persist, PersistFails
  <2>2. /\ ApplyFailed(mem).seq = mem.seq + 1
        /\ ApplyFailed(mem).pending = mem.pending
    <3>1. "ROLLING_BACK" \in Phases \ {"IDLE", "FAIL_CLOSED"}
      BY DEF Phases
    <3> QED
      BY <2>1, <3>1, JournalFacts, PhaseJournal DEF ApplyFailed
  <2> DEFINE k == ApplyFailed(mem)
  <2>3. /\ disk' \in {k, disk} /\ k.seq = mem.seq + 1 /\ k.pending = mem.pending
        /\ mem.pending = disk.pending /\ mem.seq \in Nat /\ mem.seq >= disk.seq
    BY <2>1, <2>2, JournalFacts
  <2> HIDE DEF k
  <2> QED
    BY <1>1, <1>2, <2>3 DEF Delivers
<1>4. CASE RolledBackFalse
  <2>1. /\ pc = "rolledBackFalse" /\ Working /\ RollingBack
        /\ disk' \in {RolledBack(mem, FALSE), disk}
    BY <1>4 DEF RolledBackFalse, At, Working, RollingBack, Persist, PersistFails
  <2>2. mem.desired # None
    BY <2>1 DEF SInv, IInv, JobKnows
  <2>3. /\ RolledBack(mem, FALSE).seq = mem.seq + 1
        /\ RolledBack(mem, FALSE).pending # None
    BY <2>1, <2>2, JournalFacts, RolledBackJournal
  <2> DEFINE k == RolledBack(mem, FALSE)
  <2>5. /\ disk' \in {k, disk} /\ k.seq = mem.seq + 1 /\ k.pending # None
        /\ mem.seq \in Nat /\ mem.seq >= disk.seq
        /\ disk.pending # None => disk.pending.stage = "rollback_failed"
    BY <2>1, <2>3, JournalFacts, LeftOver
  <2> HIDE DEF k
  <2> QED
    BY <1>1, <1>2, <2>5 DEF Delivers
<1>5. CASE RolledBackTrue
  <2> DEFINE p == IF disk.applied = None THEN mem.profile ELSE cur.profile
             m == [mem EXCEPT !.profile = p]
  <2>1. /\ pc = "rolledBackTrue" /\ Working /\ RollingBack
        /\ disk' \in {RolledBack(m, TRUE), disk}
    BY <1>5 DEF RolledBackTrue, At, Working, RollingBack, Persist, PersistFails
  <2>2. p \in Profiles \cup {None} /\ mem.desired # None
    BY <2>1, JournalFacts
       DEF SInv, IInv, JobKnows, BundlesFit, MatchesBundle, TypeOK, Bundle,
           Journal
  <2>3. /\ m \in Journal /\ m.seq = mem.seq /\ m.desired = mem.desired
        /\ m.applied = mem.applied /\ m.last_good = mem.last_good
    <3> HIDE DEF p
    <3> QED
      BY <2>1, <2>2, JournalFacts DEF Journal
  <2> HIDE DEF m
  <2>4. RolledBack(m, TRUE).seq = mem.seq + 1 /\ RolledBack(m, TRUE).pending # None
    BY <2>1, <2>2, <2>3, JournalFacts, RolledBackJournal
  <2> DEFINE k == RolledBack(m, TRUE)
  <2>5. /\ disk' \in {k, disk} /\ k.seq = mem.seq + 1 /\ k.pending # None
        /\ mem.seq \in Nat /\ mem.seq >= disk.seq
        /\ disk.pending # None => disk.pending.stage = "rollback_failed"
    BY <2>1, <2>4, JournalFacts, LeftOver
  <2> HIDE DEF k
  <2> QED
    BY <1>1, <1>2, <2>5 DEF Delivers
<1>6. CASE ReportAcceptedStep
  <2>1. /\ pc = "reportAccepted" /\ Working
        /\ disk' \in {ReportAccepted(mem), disk}
    BY <1>6 DEF ReportAcceptedStep, At, Working, Persist, PersistFails
  <2>2. ReportAccepted(mem).seq = mem.seq + 1
    BY <2>1, JournalFacts, AcceptedJournal
  <2>3. disk.pending \in accepted
    BY <2>1, JournalFacts DEF JInv
  <2> QED
    BY <1>2, <2>1, <2>2, <2>3, JournalFacts DEF Delivers
<1>7. CASE FetchMalformed
  <2>1. /\ pc = "fetch" /\ Working
        /\ disk' \in {RejectSnapshot(mem, published), disk}
    BY <1>7 DEF FetchMalformed, At, Working, Persist, PersistFails
  <2>2. disk.pending = None
    BY <2>1, JournalFacts DEF JInv
  <2>3. RejectSnapshot(mem, published).seq = mem.seq + 1
    BY <2>1, JournalFacts DEF RejectSnapshot, Bump, Journal
  <2> DEFINE k == RejectSnapshot(mem, published)
  <2>4. disk' \in {k, disk} /\ k.seq = mem.seq + 1 /\ mem.seq \in Nat /\ mem.seq >= disk.seq
    BY <2>1, <2>3, JournalFacts
  <2> HIDE DEF k
  <2> QED
    BY <1>1, <1>2, <2>2, <2>4 DEF Delivers
<1>8. CASE SaveReady \/ CommitStep
  <2>1. /\ pc \in {"save", "commit"} /\ Working
        /\ disk' \in {mem, Verified(mem, cur.profile), disk}
    BY <1>8 DEF SaveReady, CommitStep, At, Working, Persist, PersistFails
  <2>2. disk.pending = None
    BY <2>1, JournalFacts DEF JInv, Trying
  <2>3. Verified(mem, cur.profile).seq = mem.seq + 1
    BY <2>1, JournalFacts DEF Verified, Bump, Journal
  <2> DEFINE k == Verified(mem, cur.profile)
  <2>4. /\ disk' \in {mem, k, disk} /\ k.seq = mem.seq + 1
        /\ mem.seq \in Nat /\ mem.seq >= disk.seq
    BY <2>1, <2>3, JournalFacts
  <2> HIDE DEF k
  <2> QED
    BY <1>1, <1>2, <2>2, <2>4 DEF Delivers
<1>9. CASE BeginStep \/ PreparedStep \/ ActivatingStep \/ ActivatedStep
  <2>1. PICK p \in {"PREPARING", "PREPARED", "ACTIVATING", "VERIFYING"} :
          disk' \in {Bump([mem EXCEPT !.phase = p]), disk}
    BY <1>9 DEF BeginStep, PreparedStep, ActivatingStep, ActivatedStep,
                Checkpoint, BeginApply, Prepared, Activating, Activated,
                Persist, PersistFails
  <2>2. Working /\ Trying /\ pc # "report"
    BY <1>9 DEF BeginStep, PreparedStep, ActivatingStep, ActivatedStep,
                Checkpoint, At, Working, Trying
  <2>3. disk.pending = None
    BY <2>2, JournalFacts DEF JInv
  <2>4. Bump([mem EXCEPT !.phase = p]).seq = mem.seq + 1
    BY <2>2, JournalFacts DEF Bump, Journal
  <2> DEFINE k == Bump([mem EXCEPT !.phase = p])
  <2>5. disk' \in {k, disk} /\ k.seq = mem.seq + 1 /\ mem.seq \in Nat /\ mem.seq >= disk.seq
    BY <2>1, <2>2, <2>4, JournalFacts
  <2> HIDE DEF k
  <2> QED
    BY <1>1, <1>2, <2>3, <2>5 DEF Delivers
<1>10. CASE TickSave
  <2>1. /\ pc \in {"tickSave", "tickLost"} /\ Working
        /\ \E p \in {None, cur.profile} : disk' \in {[mem EXCEPT !.profile = p], disk}
    BY <1>10 DEF TickSave, Working, Persist, PersistFails
  <2>2. PICK p \in {None, cur.profile} : disk' \in {[mem EXCEPT !.profile = p], disk}
    BY <2>1
  <2> DEFINE k == [mem EXCEPT !.profile = p]
  <2>3. k.seq = mem.seq /\ k.pending = mem.pending
    BY <2>1, JournalFacts DEF Journal
  <2>4. /\ disk' \in {k, disk} /\ mem.pending = disk.pending
        /\ mem.seq \in Nat /\ mem.seq >= disk.seq
    BY <2>1, <2>2, JournalFacts
  <2> HIDE DEF k
  <2> QED
    BY <1>1, <1>2, <2>3, <2>4 DEF Delivers
<1>11. CASE StartStep \/ Halt \/ Environment \/ UNCHANGED vars
  BY <1>2, <1>11
     DEF StartStep, Refresh, Recover, ApplyPolicy, HealthTick, StartJob, Stop,
         CanStart, Halt, Environment, Crash, PowerLoss, ServiceDies, Publish,
         EditPolicy, vars
<1>12. CASE LaneSteps \/ TickStep \/ Monitor \/ TickFailed
  BY <1>2, <1>12
     DEF LaneSteps, CloseLane, WriteRun, AwgFallback, StartService, Confirm,
         CommitProfile, Probe, OpenGuard, LaneStep, TickStep, Monitor, TickFailed
<1>13. CASE \/ RollbackStep \/ FailClosed \/ RestoreStep \/ RestoreFailed
            \/ NothingToReport \/ PutResult \/ PutRefused \/ FetchNothing
            \/ FetchNew \/ ForceApplied \/ ForceNothing \/ PrepareStep
            \/ SavePrevious \/ SaveCurrent \/ VerifyStep
  BY <1>2, <1>13
     DEF RollbackStep, FailClosed, RestoreStep, RestoreFailed, NothingToReport,
         PutResult, PutRefused, FetchNothing, FetchNew, ForceApplied,
         ForceNothing, PrepareStep, SavePrevious, SaveCurrent, VerifyStep
<1> QED
  BY <1>3, <1>4, <1>5, <1>6, <1>7, <1>8, <1>9, <1>10, <1>11, <1>12, <1>13
     DEF Next, JobStep, RollbackSteps, RefreshSteps, ApplySteps, TickSteps

\* A report leaves the journal only when the server holds it, or when a later
\* verdict on the same failed rollback takes its place (orchestration.uc,
\* reportPending).
THEOREM ReportsAreDelivered == Spec => ReportsDelivered
<1>1. SInv /\ JInv /\ [Next]_vars => [Delivers]_vars
  BY JournalSteps
<1>2. Spec => [][Delivers]_vars
  BY <1>1, ServesInductive, JournalInductive, PTL DEF Spec
<1> QED
  BY <1>2 DEF ReportsDelivered, Delivers

-----------------------------------------------------------------------------
(***************************************************************************)
(* One policy per attempt.                                                 *)
(***************************************************************************)
OnFlash == {prev, cur, run} \ {None}

SamePolicy(a, b) ==
  a.attempt = b.attempt => a.policy = b.policy /\ a.etag = b.etag

Entering == {"save", "begin", "prepare", "prepared", "activating",
             "savePrevious", "saveCurrent"}
Staging  == {"close", "writeRun"} \cup Loading

\* A bundle on flash belongs to an attempt that has been numbered; the attempt
\* that is about to be tried has none yet, and what is staged agrees with all.
PolicyInv ==
  /\ \A a, b \in OnFlash : SamePolicy(a, b)
  /\ \A b \in OnFlash : b.attempt <= disk.seq
  /\ pc \in Entering => \A b \in OnFlash : b.attempt < mem.desired.attempt
  /\ pc \in Staging =>
       cand.attempt <= disk.seq /\ \A b \in OnFlash : SamePolicy(b, cand)

\* What a lane action may put on flash.
Known == OnFlash \cup (IF pc \in Staging THEN {cand} ELSE {})

AlikeBundles(a, b) ==
  a.attempt = b.attempt /\ a.policy = b.policy /\ a.etag = b.etag

LEMMA KnownAgree ==
  ASSUME SInv, PolicyInv
  PROVE  /\ \A a, b \in Known : SamePolicy(a, b)
         /\ \A b \in Known : b.attempt \in Nat /\ b.attempt <= disk.seq
         /\ OnFlash \subseteq Known
         /\ disk.seq \in Nat
<1>1. TypeOK /\ disk.seq \in Nat
  BY Numbers DEF SInv, IInv, TypeOK
<1>2. pc \in Staging => cand \in Bundle
  BY LaneFacts DEF SInv, Staging, Loading, LanePc
<1>3. \A b \in Known : b \in Bundle /\ b.attempt \in Nat
  BY <1>1, <1>2 DEF Known, OnFlash, TypeOK, Bundle
<1>4. \A b \in Known : b.attempt <= disk.seq
  BY DEF Known, PolicyInv
<1>5. \A a, b \in Known : SamePolicy(a, b)
  BY DEF Known, PolicyInv, SamePolicy
<1> QED
  BY <1>1, <1>3, <1>4, <1>5 DEF Known

\* A step that puts nothing new on flash or into candidate.json.
LEMMA PolicyKept ==
  ASSUME SInv, JInv, PolicyInv, [Next]_vars,
         OnFlash' \subseteq Known,
         pc' \in Staging => \E c \in Known : AlikeBundles(cand', c),
         pc' \in Entering => pc \in Entering /\ mem'.desired = mem.desired
  PROVE  PolicyInv'
<1>1. disk'.seq >= disk.seq /\ disk'.seq \in Nat
  BY JournalSteps, NextInv, Numbers DEF SInv, IInv, TypeOK
<1>2. \A a, b \in OnFlash' : SamePolicy(a, b)
  BY KnownAgree
<1>3. \A b \in Known : b.attempt <= disk'.seq
  BY <1>1, KnownAgree
<1>4. ASSUME pc' \in Entering
      PROVE  \A b \in OnFlash' : b.attempt < mem'.desired.attempt
  <2>1. Known = OnFlash
    BY <1>4 DEF Known, Entering, Staging, Loading
  <2> QED
    BY <1>4, <2>1 DEF PolicyInv
<1>5. ASSUME pc' \in Staging
      PROVE  /\ cand'.attempt <= disk'.seq
             /\ \A b \in OnFlash' : SamePolicy(b, cand')
  <2>1. PICK c \in Known : AlikeBundles(cand', c)
    BY <1>5
  <2>2. cand'.attempt <= disk'.seq
    BY <1>3, <2>1 DEF AlikeBundles
  <2>3. \A b \in OnFlash' : SamePolicy(b, c)
    BY KnownAgree
  <2> QED
    BY <2>1, <2>2, <2>3 DEF SamePolicy, AlikeBundles
<1> QED
  BY <1>2, <1>3, <1>4, <1>5 DEF PolicyInv, SamePolicy

\* A step that writes no bundle and begins neither a transaction nor a start.
LEMMA QuietPolicy ==
  ASSUME SInv, JInv, PolicyInv, [Next]_vars,
         UNCHANGED <<prev, cur, run>>, pc' \notin Entering \cup Staging
  PROVE  PolicyInv'
<1>1. OnFlash' = OnFlash
  BY DEF OnFlash
<1> QED
  BY <1>1, PolicyKept, KnownAgree

\* A step of a lane action, or of a transaction before it has touched flash,
\* that leaves the bundles as they are.
LEMMA SamePolicies ==
  ASSUME SInv, JInv, PolicyInv, [Next]_vars,
         UNCHANGED <<prev, cur, run, cand>>,
         pc' \in Staging => pc \in Staging,
         pc' \in Entering => pc \in Entering /\ mem'.desired = mem.desired
  PROVE  PolicyInv'
<1>1. OnFlash' = OnFlash
  BY DEF OnFlash
<1>2. pc' \in Staging => cand \in Known /\ AlikeBundles(cand', cand)
  <2>1. pc \in Staging => cand \in Known
    BY DEF Known
  <2> QED
    BY <2>1 DEF AlikeBundles
<1> QED
  BY <1>1, <1>2, PolicyKept, KnownAgree

\* Where the lane goes on, nothing is staged any more.
LEMMA StagesNothing ==
  /\ ActionFailed \notin Entering \cup Staging
  /\ AfterAction \notin Entering \cup Staging
  /\ AfterConfirm \notin Entering \cup Staging
BY DEF ActionFailed, AfterAction, AfterConfirm, Entering, Staging, Loading

\* The steps that leave every bundle alone.
LEMMA QuietStepsPolicy ==
  ASSUME SInv, JInv, PolicyInv, [Next]_vars,
         \/ StartStep \/ Halt \/ Environment \/ UNCHANGED vars
         \/ ApplyFailedStep \/ FailClosed \/ RolledBackFalse \/ RolledBackTrue
         \/ RestoreFailed \/ NothingToReport \/ PutResult \/ PutRefused
         \/ ReportAcceptedStep \/ FetchNothing \/ FetchMalformed \/ ForceNothing
         \/ ActivatedStep \/ VerifyStep \/ CommitStep
         \/ OpenGuard \/ TickFailed \/ TickSave
  PROVE  PolicyInv'
<1>1. CASE StartStep
  <2>1. UNCHANGED <<prev, cur, run>> /\ pc' \notin Entering \cup Staging
    BY <1>1 DEF StartStep, Refresh, Recover, ApplyPolicy, HealthTick, StartJob,
                Stop, CanStart, flash, lane, Goto, Entering, Staging, Loading
  <2> QED
    BY <2>1, QuietPolicy
<1>2. CASE ServiceDies \/ Publish \/ EditPolicy \/ UNCHANGED vars
  <2>1. UNCHANGED <<prev, cur, run, cand, mem, pc>>
    BY <1>2 DEF ServiceDies, Publish, EditPolicy, vars, flash, lane, job
  <2> QED
    BY <2>1, SamePolicies
<1>3. CASE Crash \/ PowerLoss \/ Halt
  <2>1. UNCHANGED <<prev, cur, run>> /\ pc' = "idle"
    BY <1>3 DEF Crash, PowerLoss, Halt, JobGone, flash, lane, LaneClosed,
                LaneNotClosed
  <2> QED
    BY <2>1, QuietPolicy DEF Entering, Staging, Loading
<1>4. CASE \/ ApplyFailedStep \/ FailClosed \/ RolledBackFalse \/ RolledBackTrue
           \/ RestoreFailed \/ TickFailed \/ TickSave
  <2>1. /\ UNCHANGED <<prev, cur, run>>
        /\ pc' \in {"rollback", "rolledBackFalse", "report", "idle", "restore",
                    "tickLost"}
    BY <1>4 DEF ApplyFailedStep, FailClosed, RolledBackFalse, RolledBackTrue,
                RestoreFailed, TickFailed, TickSave, AfterRollback, Goto, JobGone,
                CloseAndGoto, LaneClosed, LaneNotClosed, flash, lane
  <2> QED
    BY <2>1, QuietPolicy DEF Entering, Staging, Loading
<1>5. CASE \/ NothingToReport \/ PutResult \/ PutRefused \/ ReportAcceptedStep
           \/ FetchNothing \/ FetchMalformed \/ ForceNothing
  <2>1. /\ UNCHANGED <<prev, cur, run>>
        /\ pc' \in {"fetch", "force", "reportAccepted", "idle"}
    BY <1>5 DEF NothingToReport, PutResult, PutRefused, ReportAcceptedStep,
                FetchNothing, FetchMalformed, ForceNothing, Goto, JobGone,
                flash, lane
  <2> QED
    BY <2>1, QuietPolicy DEF Entering, Staging, Loading
<1>6. CASE ActivatedStep \/ VerifyStep \/ CommitStep
  <2>1. /\ UNCHANGED <<prev, cur, run>>
        /\ pc' \in {"verify", "applyFailed", "probe", "report"}
    BY <1>6 DEF ActivatedStep, Checkpoint, VerifyStep, CommitStep, Goto, flash,
                lane
  <2> QED
    BY <2>1, QuietPolicy DEF Entering, Staging, Loading
<1>7. CASE OpenGuard
  <2>1. /\ UNCHANGED <<prev, cur, run>> /\ pc' \in {ActionFailed, AfterAction}
    BY <1>7 DEF OpenGuard, LaneStep, LaneNotClosed, Goto
  <2> QED
    BY <2>1, QuietPolicy, StagesNothing
<1> QED
  BY <1>1, <1>2, <1>3, <1>4, <1>5, <1>6, <1>7 DEF Environment

\* A snapshot taken from the server, or taken again, gets a number of its own.
LEMMA TakePolicy ==
  ASSUME SInv, JInv, PolicyInv, [Next]_vars, FetchNew \/ ForceApplied
  PROVE  PolicyInv'
<1>1. PICK e \in Etags : mem' = ReceiveSnapshot(mem, e)
  <2>1. CASE FetchNew
    BY <2>1 DEF FetchNew, SInv, IInv, TypeOK
  <2>2. CASE ForceApplied
    <3>1. mem.applied # None /\ mem \in Journal
      BY <2>2, JobFacts DEF ForceApplied, At
    <3>2. mem.applied.etag \in Etags
      BY <3>1 DEF Journal, Entry
    <3> QED
      BY <2>2, <3>2 DEF ForceApplied
  <2> QED
    BY <2>1, <2>2
<1>2. /\ pc \in {"fetch", "force"} /\ Working /\ pc' = "save" /\ disk' = disk
      /\ UNCHANGED <<prev, cur, run>>
  BY DEF FetchNew, ForceApplied, At, Goto, Working, flash, lane
<1>3. mem.pending = None
  BY <1>2 DEF JInv
<1>4. mem'.desired.attempt = mem.seq + 1
  BY <1>1, <1>2, <1>3, JournalFacts, ReceiveJournal
<1>5. mem.seq \in Nat /\ disk.seq \in Nat /\ mem.seq >= disk.seq
  BY <1>2, JournalFacts
<1>6. OnFlash' = OnFlash
  BY <1>2 DEF OnFlash
<1>7. \A b \in OnFlash : b.attempt \in Nat /\ b.attempt <= disk.seq
  BY KnownAgree
<1>8. \A b \in OnFlash : b.attempt < mem'.desired.attempt
  BY <1>4, <1>5, <1>7
<1> QED
  BY <1>2, <1>6, <1>8 DEF PolicyInv, SamePolicy, Entering, Staging, Loading

\* The steps of a transaction before it replaces current.json.
LEMMA EnteringPolicy ==
  ASSUME SInv, JInv, PolicyInv, [Next]_vars,
         \/ SaveReady \/ BeginStep \/ PrepareStep \/ PreparedStep
         \/ ActivatingStep
  PROVE  PolicyInv'
<1>1. /\ UNCHANGED <<prev, cur, run>> /\ pc \in Entering /\ Working
      /\ pc' \notin Staging
  BY DEF SaveReady, BeginStep, PrepareStep, PreparedStep, ActivatingStep,
         Checkpoint, At, Goto, JobGone, flash, lane, Entering, Staging, Loading,
         Working
<1>2. pc' \in Entering =>
        \/ mem' = mem
        \/ \E p \in {"PREPARING", "PREPARED", "ACTIVATING"} :
             mem' = Bump([mem EXCEPT !.phase = p])
  BY DEF SaveReady, BeginStep, PrepareStep, PreparedStep, ActivatingStep,
         Checkpoint, At, Goto, JobGone, job, Entering, BeginApply, Prepared,
         Activating
<1>3. \A p : Bump([mem EXCEPT !.phase = p]).desired = mem.desired
  BY <1>1, JournalFacts DEF Bump, Journal
<1>4. pc' \in Entering => mem'.desired = mem.desired
  BY <1>2, <1>3
<1>5. OnFlash' = OnFlash
  BY <1>1 DEF OnFlash
<1> QED
  BY <1>1, <1>4, <1>5, PolicyKept, KnownAgree

\* The copy of the applied bundle is one that is on flash already.
LEMMA SavePreviousPolicy ==
  ASSUME SInv, JInv, PolicyInv, [Next]_vars, SavePrevious
  PROVE  PolicyInv'
<1>1. /\ UNCHANGED <<cur, run, mem>> /\ prev' \in {prev, cur}
      /\ pc = "savePrevious" /\ pc' \in {"saveCurrent", "applyFailed"}
  BY DEF SavePrevious, Backup, lane, At, Goto
<1>2. OnFlash' \subseteq OnFlash
  BY <1>1 DEF OnFlash
<1>3. OnFlash' \subseteq Known /\ pc' \notin Staging /\ pc \in Entering
  BY <1>1, <1>2 DEF Known, Staging, Loading, Entering
<1> QED
  BY <1>1, <1>3, PolicyKept

\* The bundle prepared for the new attempt is the only one of that number.
LEMMA SaveCurrentPolicy ==
  ASSUME SInv, JInv, PolicyInv, [Next]_vars, SaveCurrent
  PROVE  PolicyInv'
<1>1. /\ pc = "saveCurrent" /\ pc' = "close" /\ disk' = disk
      /\ UNCHANGED <<prev, run>> /\ cur' = prep /\ cand' = prep
  BY DEF SaveCurrent, At, Goto, lane
<1>2. /\ MatchesBundle(prep, disk.desired) /\ disk.desired = mem.desired
      /\ disk.desired # None /\ Ordered(disk)
  BY <1>1 DEF SInv, IInv, BundlesFit, JobKnows, Trying, InOrder
<1>3. /\ prep # None /\ prep.attempt = mem.desired.attempt
      /\ prep.attempt <= disk.seq
  BY <1>2 DEF MatchesBundle, Ordered
<1>4. prep.attempt \in Nat
  BY <1>3 DEF SInv, IInv, TypeOK, Bundle
<1>5. \A b \in OnFlash : b.attempt < prep.attempt
  BY <1>1, <1>3 DEF PolicyInv, Entering
<1>6. \A b \in OnFlash : b.attempt \in Nat /\ b.attempt <= disk.seq
  BY KnownAgree
<1>7. OnFlash' \subseteq OnFlash \cup {prep}
  BY <1>1 DEF OnFlash
<1>8. \A a, b \in OnFlash \cup {prep} : SamePolicy(a, b)
  BY <1>4, <1>5, <1>6 DEF PolicyInv, SamePolicy
<1>9. \A b \in OnFlash \cup {prep} : b.attempt <= disk.seq
  BY <1>3, <1>6
<1> QED
  BY <1>1, <1>3, <1>7, <1>8, <1>9
     DEF PolicyInv, SamePolicy, Entering, Staging, Loading

\* A rollback, a restore and a health tick start a bundle that is on flash.
LEMMA ReturnPolicy ==
  ASSUME SInv, JInv, PolicyInv, [Next]_vars, RollbackStep \/ RestoreStep \/ TickStep
  PROVE  PolicyInv'
<1>1. UNCHANGED <<prev, run>> /\ pc' \notin Entering
  BY DEF RollbackStep, RestoreStep, TickStep, LaneClosed, Goto, lane, Entering
<1>2. CASE cur' = Kept(disk.applied) /\ cand' = cur' /\ Kept(disk.applied) # None
  <2>1. cur' \in OnFlash
    BY <1>2 DEF Kept, OnFlash
  <2>2. OnFlash' \subseteq OnFlash
    BY <1>1, <2>1 DEF OnFlash
  <2>3. AlikeBundles(cand', cur')
    BY <1>2 DEF AlikeBundles
  <2> QED
    BY <1>1, <2>1, <2>2, <2>3, PolicyKept, KnownAgree
<1>3. CASE cur' = cur /\ pc' \notin Staging
  BY <1>1, <1>3, QuietPolicy
<1> QED
  BY <1>2, <1>3
     DEF RollbackStep, RestoreStep, TickStep, Goto, Staging, Loading

\* The lane is closed, the service started, the staged profile probed.
LEMMA StartPolicy ==
  ASSUME SInv, JInv, PolicyInv, [Next]_vars, CloseLane \/ StartService \/ Confirm
  PROVE  PolicyInv'
<1>1. /\ UNCHANGED <<prev, cur, run, cand>> /\ pc \in Staging
      /\ pc' \notin Entering
  BY DEF CloseLane, StartService, Confirm, LaneStep, LaneClosed, LaneNotClosed,
         At, Goto, ActionFailed, AfterStart, AfterConfirm, lane, Staging,
         Loading, Entering
<1> QED
  BY <1>1, SamePolicies

\* The staged bundle becomes run.json, and when it is confirmed current.json.
LEMMA StagedPolicy ==
  ASSUME SInv, JInv, PolicyInv, [Next]_vars, WriteRun \/ CommitProfile
  PROVE  PolicyInv'
<1>1. /\ prev' = prev /\ cand' = cand /\ pc \in Staging /\ pc' \notin Entering
      /\ run' \in {run, cand} /\ cur' \in {cur, cand}
  BY DEF WriteRun, CommitProfile, LaneStep, At, Goto, ActionFailed,
         AfterConfirm, lane, Staging, Loading, Entering
<1>2. OnFlash' \subseteq Known /\ cand \in Known
  BY <1>1 DEF OnFlash, Known
<1>3. AlikeBundles(cand', cand)
  BY <1>1 DEF AlikeBundles
<1> QED
  BY <1>1, <1>2, <1>3, PolicyKept

\* Another profile of the same bundle is staged.
LEMMA SwitchPolicy ==
  ASSUME SInv, JInv, PolicyInv, [Next]_vars, AwgFallback \/ Probe \/ Monitor
  PROVE  PolicyInv'
<1>1. UNCHANGED <<prev, cur, run>> /\ pc \in LanePc /\ pc' \notin Entering
  BY DEF AwgFallback, Probe, Monitor, SelectProfile, LaneStep, At, Goto,
         ActionFailed, lane, LanePc, Entering
<1>2. cur \in Bundle /\ cur # None /\ cand \in Bundle
  BY <1>1, LaneFacts DEF SInv
<1>3. OnFlash' = OnFlash
  BY <1>1 DEF OnFlash
<1>4. pc' \in Staging => \E c \in Known : AlikeBundles(cand', c)
  <2>1. CASE AwgFallback
    <3>1. PICK p \in Profiles : cand' = [cand EXCEPT !.profile = p]
      BY <2>1 DEF AwgFallback
    <3>2. cand \in Known
      BY <2>1 DEF AwgFallback, At, Known, Staging
    <3>3. AlikeBundles(cand', cand)
      BY <1>2, <3>1 DEF AlikeBundles, Bundle
    <3> QED
      BY <3>2, <3>3
  <2>2. CASE SelectProfile
    <3>1. PICK p \in Profiles : cand' = [cur EXCEPT !.profile = p]
      BY <2>2 DEF SelectProfile
    <3>2. cur \in Known
      BY <1>2 DEF OnFlash, Known
    <3>3. AlikeBundles(cand', cur)
      BY <1>2, <3>1 DEF AlikeBundles, Bundle
    <3> QED
      BY <3>2, <3>3
  <2>3. CASE (Probe \/ Monitor) /\ ~SelectProfile
    <3>1. pc' \in {"open", "tickSave", "tickFailed", ActionFailed}
      BY <2>3 DEF Probe, Monitor, Goto
    <3> QED
      BY <3>1, StagesNothing DEF Staging, Loading
  <2> QED
    BY <2>1, <2>2, <2>3
<1> QED
  BY <1>1, <1>3, <1>4, PolicyKept, KnownAgree

LEMMA NextPolicy ==
  ASSUME SInv, JInv, PolicyInv, [Next]_vars
  PROVE  PolicyInv'
<1>1. CASE StartStep \/ Halt \/ Environment \/ UNCHANGED vars
  BY <1>1, QuietStepsPolicy
<1>2. CASE RollbackSteps
  BY <1>2, QuietStepsPolicy, ReturnPolicy DEF RollbackSteps
<1>3. CASE RefreshSteps
  BY <1>3, QuietStepsPolicy, ReturnPolicy, TakePolicy, EnteringPolicy
     DEF RefreshSteps
<1>4. CASE ApplySteps
  BY <1>4, QuietStepsPolicy, EnteringPolicy, SavePreviousPolicy,
     SaveCurrentPolicy DEF ApplySteps
<1>5. CASE LaneSteps
  BY <1>5, QuietStepsPolicy, StartPolicy, StagedPolicy, SwitchPolicy
     DEF LaneSteps
<1>6. CASE TickSteps
  BY <1>6, QuietStepsPolicy, ReturnPolicy, SwitchPolicy DEF TickSteps
<1> QED
  BY <1>1, <1>2, <1>3, <1>4, <1>5, <1>6 DEF Next, JobStep

LEMMA InitPolicy == Init => PolicyInv
BY DEF Init, PolicyInv, OnFlash, Entering, Staging, Loading

\* Bundles made for one attempt agree on the local policy, whatever the
\* operator saves in between (runtime-helper.uc, prepare and matchesBundle).
THEOREM AttemptsKeepOnePolicy == Spec => []OnePolicyPerAttempt
<1>1. Spec => []PolicyInv
  BY InitPolicy, NextPolicy, ServesInductive, JournalInductive, PTL DEF Spec
<1>2. PolicyInv => OnePolicyPerAttempt
  BY DEF PolicyInv, OnFlash, SamePolicy, OnePolicyPerAttempt
<1> QED
  BY <1>1, <1>2, PTL
=============================================================================
