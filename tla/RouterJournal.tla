---------------------------- MODULE RouterJournal ----------------------------
(***************************************************************************)
(* The durable journal of one AutoVPN router, as the pure state machine of *)
(* openwrt/files/usr/share/ucode/autovpn/state.uc changes it and as        *)
(* journal.uc accepts it when it is read back.                             *)
(*                                                                         *)
(* A snapshot is known by its ETag.  Capabilities and error codes are left *)
(* out: verified() and rolledBack() write them into the journal and into   *)
(* the pending report in the same assignment, so no clause of validState   *)
(* can tell them apart.  A rejected snapshot is known by its ETag.         *)
(***************************************************************************)
EXTENDS Naturals

CONSTANTS
  Etags,      \* the snapshots the server may publish for this router
  Rev,        \* Rev[e]: the revision inside snapshot e
  Malformed,  \* the snapshots that validateSnapshot refuses
  Profiles,   \* transports a bundle can select: vless, hysteria2, amneziawg
  None        \* the null of the journal

ASSUME JournalAssumption ==
  /\ Rev \in [Etags -> Nat]
  /\ Malformed \subseteq Etags

Phases == {"IDLE", "READY", "PREPARING", "PREPARED", "ACTIVATING",
           "VERIFYING", "ROLLING_BACK", "FAIL_CLOSED"}

\* A journal slot: which snapshot, and the sequence number of its attempt.
Entry == [etag : Etags, attempt : Nat]

\* A pending report.  The outcome is determined by the stage.
Stages == {"verified", "rolled_back", "rollback_failed"}
Report == [etag : Etags, attempt : Nat, profile : Profiles \cup {None},
           stage : Stages]

Journal == [seq       : Nat,
            phase     : Phases,
            desired   : Entry \cup {None},
            applied   : Entry \cup {None},
            last_good : Entry \cup {None},
            rejected  : Etags \cup {None},
            pending   : Report \cup {None},
            profile   : Profiles \cup {None}]

InitialState ==
  [seq |-> 0, phase |-> "IDLE", desired |-> None, applied |-> None,
   last_good |-> None, rejected |-> None, pending |-> None, profile |-> None]

\* Slip: every result is reported as an applied one.
ReportOptimistic(entry, profile, stage) ==
  [etag |-> entry.etag, attempt |-> entry.attempt,
   profile |-> profile, stage |-> "verified"]

(***************************************************************************)
(* Reports.  The idempotency key is r<revision>-<sha16>-s<attempt>, and the*)
(* snapshot hash belongs to the revision; the ETag travels in If-Match and *)
(* is part of neither the key nor the body.                                *)
(***************************************************************************)
ReportFor(entry, profile, stage) ==
  [etag |-> entry.etag, attempt |-> entry.attempt,
   profile |-> profile, stage |-> stage]

Key(r)  == <<Rev[r.etag], r.attempt>>
Body(r) == <<Rev[r.etag], r.profile, r.stage>>

-----------------------------------------------------------------------------
(***************************************************************************)
(* state.uc: the transitions of a journal j.                               *)
(***************************************************************************)
\* Slip: a transition that leaves the sequence alone.
NoBump(j) == j

Bump(j) == [j EXCEPT !.seq = @ + 1]

\* Slip: an older revision is taken like any other.
NeverRegresses(j, e) == FALSE

\* receiveSnapshot refuses a snapshot older than the applied one.
Regresses(j, e) == j.applied # None /\ Rev[e] < Rev[j.applied.etag]

\* receiveSnapshot on a snapshot that does not validate.
RejectSnapshot(j, e) == Bump([j EXCEPT !.rejected = e])

\* Slip: a retry of a snapshot is not told apart from the first attempt.
ReceiveSameAttempt(j, e) ==
  Bump([j EXCEPT !.desired  = [etag |-> e, attempt |-> 1],
                 !.rejected = None,
                 !.phase    = "READY"])

\* receiveSnapshot on a snapshot it takes as the new desired one.
ReceiveSnapshot(j, e) ==
  Bump([j EXCEPT !.desired  = [etag |-> e, attempt |-> j.seq + 1],
                 !.rejected = None,
                 !.phase    = "READY"])

BeginApply(j) == Bump([j EXCEPT !.phase = "PREPARING"])
Prepared(j)   == Bump([j EXCEPT !.phase = "PREPARED"])
Activating(j) == Bump([j EXCEPT !.phase = "ACTIVATING"])
Activated(j)  == Bump([j EXCEPT !.phase = "VERIFYING"])

Verified(j, p) ==
  Bump([j EXCEPT !.last_good = j.applied,
                 !.applied   = j.desired,
                 !.desired   = None,
                 !.phase     = "IDLE",
                 !.profile   = p,
                 !.pending   = ReportFor(j.desired, p, "verified")])

\* The pending report, if there is one, stays.
ApplyFailed(j) == Bump([j EXCEPT !.phase = "ROLLING_BACK"])

RolledBack(j, ok) ==
  LET profile == IF ok /\ j.applied # None THEN j.profile ELSE None
  IN  Bump([j EXCEPT !.rejected = j.desired.etag,
                     !.desired  = IF ok THEN None ELSE @,
                     !.phase    = IF ok THEN "IDLE" ELSE "FAIL_CLOSED",
                     !.profile  = profile,
                     !.pending  = ReportFor(j.desired, profile,
                                    IF ok THEN "rolled_back"
                                          ELSE "rollback_failed")])

ReportAccepted(j) == Bump([j EXCEPT !.pending = None])

RecoverRequired(j) == j.phase \notin {"IDLE", "READY"}

-----------------------------------------------------------------------------
(***************************************************************************)
(* journal.uc: what load() and runtime-helper.uc require of a journal they *)
(* read from flash before they use it.                                     *)
(***************************************************************************)
\* Slip: the very first attempt is out of range.
ValidLaterEntry(entry, seq) == entry # None => entry.attempt \in 2 .. seq

\* Slip: a report is only accepted in FAIL_CLOSED.
ValidPendingFailed(j) == j.pending # None => j.phase = "FAIL_CLOSED"

ValidEntry(entry, seq) == entry # None => entry.attempt \in 1 .. seq

ValidPending(j) ==
  j.pending # None =>
    /\ j.pending.attempt \in 1 .. j.seq
    /\ j.pending.profile = j.profile
    /\ IF j.pending.stage = "verified"
       THEN /\ j.phase = "IDLE"
            /\ j.applied # None
            /\ j.pending.etag = j.applied.etag
            /\ j.pending.attempt = j.applied.attempt
       ELSE /\ j.phase \in {"IDLE", "FAIL_CLOSED"}
            /\ j.rejected = j.pending.etag

ValidState(j) ==
  /\ ValidEntry(j.desired, j.seq)
  /\ ValidEntry(j.applied, j.seq)
  /\ ValidEntry(j.last_good, j.seq)
  /\ j.last_good # None => j.applied # None
  /\ j.profile # None => j.applied # None
  /\ j.phase = "FAIL_CLOSED" => j.profile = None
  /\ (j.desired # None) <=> (j.phase # "IDLE")
  /\ ValidPending(j)
=============================================================================
