------------------------------ MODULE VpsProofs ------------------------------
(***************************************************************************)
(* What the panel's database promises about revisions, clients and reboots *)
(* holds for any number of operations, revisions and clients, whatever     *)
(* fails, restarts or loses its lease.                                     *)
(***************************************************************************)
EXTENDS VpsOperations, TLAPS

-----------------------------------------------------------------------------
(***************************************************************************)
(* The inductive invariant: what holds of the database d between any two   *)
(* transactions, and what a worker knows of its own operation.             *)
(***************************************************************************)
\* AppliedSound, of d.
Sound(d) ==
  /\ d.applied # 0 => d.snap[d.applied].life = "APPLIED"
  /\ d.applied <= d.desired
  /\ \A r \in Revs : r > d.desired => d.snap[r].life = "none"

\* SnapshotCurrent, of d: what the snapshot took from the tables is still there.
Enabled(d) == {c \in Clients : d.client[c].state = "enabled"}

Current(d) ==
  LET s == d.snap[d.desired]
  IN  s.life # "none" => s.body.clients = Enabled(d) /\ s.body.ip = d.ip

\* A client in a snapshot that is applied, or may be later, is still a row, or
\* its deletion is in a later revision.
Reserved(d) ==
  \A r \in Revs : r >= d.applied /\ d.snap[r].life # "none" =>
    \A c \in d.snap[r].body.clients :
      /\ d.client[c].state # "purged"
      /\ d.client[c].state = "deleted" => d.client[c].gone > r

\* An install or a rotation is bound to a revision that has a snapshot.
Prepared(d) ==
  \A i \in Ops : d.op[i].kind \in {"INSTALL", "IP_CHANGE"} =>
    /\ d.op[i].rev \in 1 .. d.desired
    /\ d.snap[d.op[i].rev].life # "none"

DbInv(d) ==
  d \in Database /\ Sound(d) /\ Current(d) /\ Reserved(d) /\ Prepared(d)

InstallSteps == {"install", "install_send", "install_wait", "install_done",
                 "install_fail", "install_unclear"}
RebootSteps  == {"reboot", "reboot_mark", "reboot_send", "reboot_sent",
                 "reboot_lost", "reboot_verify", "reboot_unclear",
                 "reboot_fail", "reboot_dead"}

\* The reboot request may be on its way.
SendingSteps == {"reboot_send", "reboot_sent", "reboot_lost", "reboot_verify",
                 "reboot_unclear"}
Acted == {"SENDING", "SENT", "AMBIGUOUS"}

Actor(i) ==
  /\ pc[i] \in InstallSteps => db.op[i].kind = "INSTALL"
  /\ pc[i] \in RebootSteps \/ i \in sent => db.op[i].kind = "REBOOT"
  /\ pc[i] \in SendingSteps \/ i \in sent => db.op[i].action \in Acted

Actors == \A i \in Ops : Actor(i)

IInv == TypeOK /\ DbInv(db) /\ Actors

\* A step that keeps the invariant and does not take the applied revision back.
Fine == IInv' /\ db'.applied >= db.applied

-----------------------------------------------------------------------------
(***************************************************************************)
(* Transactions.                                                           *)
(***************************************************************************)
\* The bounds are numbers.
LEMMA Bounds ==
  /\ MaxOps \in Nat /\ MaxRev \in Nat /\ MaxRev >= 1 /\ 1 \in Revs
  /\ 0 \in Environments
BY DatabaseAssumption DEF Revs, Environments

\* The fields of a database.
LEMMA Fields ==
  ASSUME NEW d \in Database
  PROVE  /\ d.lease \in 0 .. MaxOps /\ d.expired \in BOOLEAN
         /\ d.op \in [Ops -> Operation] /\ d.snap \in [Revs -> Snapshot]
         /\ d.desired \in Revs /\ d.applied \in 0 .. MaxRev
         /\ d.client \in [Clients -> Client] /\ d.ip \in Addresses
         /\ d.env \in Environments /\ d.published \in Addresses
         /\ d.desired \in Nat /\ d.applied \in Nat
BY Bounds DEF Database, Revs

\* Another life for one snapshot, and nothing else.
LEMMA LifeSays ==
  ASSUME NEW d \in Database, NEW r \in Revs,
         NEW life \in {"none", "PREPARED", "APPLIED", "FAILED"}
  PROVE  LET e == [d EXCEPT !.snap[r].life = life]
         IN  /\ e \in Database
             /\ e.snap = [d.snap EXCEPT ![r].life = life]
             /\ e.snap[r].life = life /\ e.snap[r].body = d.snap[r].body
             /\ \A q \in Revs \ {r} : e.snap[q] = d.snap[q]
             /\ e.lease = d.lease /\ e.expired = d.expired /\ e.op = d.op
             /\ e.desired = d.desired /\ e.applied = d.applied
             /\ e.client = d.client /\ e.ip = d.ip
<1> DEFINE e == [d EXCEPT !.snap[r].life = life]
           snap == [d.snap EXCEPT ![r].life = life]
<1>1. d.snap \in [Revs -> Snapshot]
  BY Fields
<1>2. /\ snap \in [Revs -> Snapshot]
      /\ snap[r].life = life /\ snap[r].body = d.snap[r].body
      /\ \A q \in Revs \ {r} : snap[q] = d.snap[q]
  BY <1>1 DEF Snapshot
<1>3. e = [d EXCEPT !.snap = snap]
  BY DEF Database
<1> HIDE DEF snap, e
<1>4. /\ e \in Database /\ e.snap = snap
      /\ e.lease = d.lease /\ e.expired = d.expired /\ e.op = d.op
      /\ e.desired = d.desired /\ e.applied = d.applied
      /\ e.client = d.client /\ e.ip = d.ip
  BY <1>2, <1>3 DEF Database
<1> QED
  BY <1>2, <1>4 DEF snap, e

\* Two changes of a function, at different places, in either order.
LEMMA EitherOrder ==
  ASSUME NEW S, NEW T, NEW f \in [S -> T], NEW a \in S, NEW b \in S, a # b,
         NEW u, NEW v
  PROVE  [[f EXCEPT ![a] = u] EXCEPT ![b] = v]
           = [[f EXCEPT ![b] = v] EXCEPT ![a] = u]
OBVIOUS

\* A transaction that touches no revision, client or binding.
Alike(d, e) ==
  /\ e \in Database
  /\ e.desired = d.desired /\ e.applied = d.applied
  /\ e.client = d.client /\ e.ip = d.ip
  /\ \A r \in Revs : /\ e.snap[r].body = d.snap[r].body
                     /\ e.snap[r].life = "none" <=> d.snap[r].life = "none"
                     /\ d.snap[r].life = "APPLIED" => e.snap[r].life = "APPLIED"
  /\ \A i \in Ops : /\ e.op[i].kind = d.op[i].kind
                    /\ e.op[i].rev = d.op[i].rev

\* Such a transaction keeps what holds of the database.
LEMMA AlikeKeeps ==
  ASSUME NEW d, DbInv(d), NEW e, Alike(d, e)
  PROVE  DbInv(e)
<1>1. /\ d.desired \in Revs /\ d.applied \in 0 .. MaxRev /\ d.desired \in Nat
      /\ MaxRev \in Nat
  BY Fields, Bounds DEF DbInv
<1>2. Sound(e)
  BY <1>1 DEF DbInv, Sound, Alike, Revs
<1>3. Current(e)
  BY <1>1 DEF DbInv, Current, Enabled, Alike
<1>4. Reserved(e)
  BY <1>1 DEF DbInv, Reserved, Alike
<1>5. Prepared(e)
  BY <1>1 DEF DbInv, Prepared, Alike, Revs
<1> QED
  BY <1>2, <1>3, <1>4, <1>5 DEF DbInv, Alike

\* Two of them, one after the other, are one.
LEMMA AlikeTwice ==
  ASSUME NEW d, NEW e, NEW f, Alike(d, e), Alike(e, f)
  PROVE  Alike(d, f)
BY DEF Alike

\* Another lease.
LEMMA LeaseAlike ==
  ASSUME NEW d \in Database, NEW i \in 0 .. MaxOps, NEW b \in BOOLEAN
  PROVE  LET e == [d EXCEPT !.lease = i, !.expired = b]
         IN  Alike(d, e) /\ e.op = d.op
BY DEF Alike, Database

\* Another state of one operation.
LEMMA OpAlike ==
  ASSUME NEW d \in Database, NEW i \in Ops, NEW o \in Operation,
         o.kind = d.op[i].kind, o.rev = d.op[i].rev
  PROVE  LET e == [d EXCEPT !.op[i] = o]
         IN  Alike(d, e) /\ e.op = [d.op EXCEPT ![i] = o]
<1> DEFINE e == [d EXCEPT !.op[i] = o]
<1>1. /\ e.op = [d.op EXCEPT ![i] = o] /\ e.snap = d.snap
      /\ e.desired = d.desired /\ e.applied = d.applied
      /\ e.client = d.client /\ e.ip = d.ip
      /\ e.lease = d.lease /\ e.expired = d.expired
  BY DEF Database
<1>2. e \in Database
  BY DEF Database
<1> HIDE DEF e
<1>3. \A j \in Ops : /\ e.op[j].kind = d.op[j].kind /\ e.op[j].rev = d.op[j].rev
  BY <1>1, Fields
<1>4. Alike(d, e) /\ e.op = [d.op EXCEPT ![i] = o]
  BY <1>1, <1>2, <1>3 DEF Alike
<1> QED
  BY <1>4 DEF e

\* Renewing a lease, whoever holds it.
LEMMA HeartbeatAlike ==
  ASSUME NEW d \in Database, NEW i \in Ops
  PROVE  Alike(d, Heartbeat(d, i)) /\ Heartbeat(d, i).op = d.op
<1>1. i \in 0 .. MaxOps
  BY Bounds DEF Ops
<1> QED
  BY <1>1 DEF Heartbeat, Alike, Database

\* Giving it back.
LEMMA ReleaseAlike ==
  ASSUME NEW d \in Database, NEW i \in Ops
  PROVE  Alike(d, Release(d, i)) /\ Release(d, i).op = d.op
<1>1. 0 \in 0 .. MaxOps /\ Alike(d, d)
  BY Bounds DEF Alike
<1> QED
  BY <1>1, LeaseAlike DEF Release

\* A reboot that may have been sent stays one.
Remembers(d, e) ==
  \A i \in Ops : d.op[i].kind = "REBOOT" /\ d.op[i].action \in Acted =>
                   e.op[i].action \in Acted

\* _fail_owner, of one operation.
LEMMA InterruptedKeeps ==
  ASSUME NEW o \in Operation
  PROVE  /\ Interrupted(o) \in Operation
         /\ Interrupted(o).kind = o.kind /\ Interrupted(o).rev = o.rev
         /\ o.kind = "REBOOT" /\ o.action \in Acted =>
              Interrupted(o).action \in Acted
<1>1. CASE OnlyWaited(o)
  BY <1>1 DEF Interrupted, OnlyWaited, Operation, Statuses, Terminal,
              ActionStates, Acted
<1>2. CASE ~OnlyWaited(o) /\ MayHaveActed(o)
  BY <1>2 DEF Interrupted, Operation, Statuses, Terminal, ActionStates, Acted
<1>3. CASE ~OnlyWaited(o) /\ ~MayHaveActed(o)
  <2>1. Interrupted(o) =
          [o EXCEPT !.status = "FAILED",
                    !.action = IF o.kind = "IP_CHANGE" THEN "NOT_STARTED"
                                                       ELSE @]
    BY <1>3 DEF Interrupted
  <2>2. ~(o.kind = "REBOOT" /\ o.action \in Acted)
    BY <1>3 DEF MayHaveActed, Acted
  <2>3. {"FAILED"} \subseteq Statuses /\ {"NOT_STARTED"} \subseteq ActionStates
    BY DEF Statuses, Terminal, ActionStates
  <2> QED
    BY <2>1, <2>2, <2>3 DEF Operation
<1> QED
  BY <1>1, <1>2, <1>3

\* _fail_owner, of as many operations as there are.
LEMMA FailOwnersAlike ==
  ASSUME NEW d \in Database, NEW S
  PROVE  Alike(d, FailOwners(d, S)) /\ Remembers(d, FailOwners(d, S))
<1> DEFINE op == [i \in Ops |-> IF i \in S /\ Active(d, i)
                                THEN Interrupted(d.op[i]) ELSE d.op[i]]
           snap == [r \in Revs |->
                      IF /\ d.snap[r].life = "PREPARED"
                         /\ \E i \in S : d.op[i].kind = "INSTALL"
                                         /\ d.op[i].rev = r
                      THEN [d.snap[r] EXCEPT !.life = "FAILED"]
                      ELSE d.snap[r]]
           e == FailOwners(d, S)
<1>1. /\ e.op = op /\ e.snap = snap
      /\ e = [d EXCEPT !.op = op, !.snap = snap]
  BY DEF FailOwners, Database
<1>2. /\ op \in [Ops -> Operation]
      /\ \A i \in Ops : /\ op[i].kind = d.op[i].kind /\ op[i].rev = d.op[i].rev
                        /\ d.op[i].kind = "REBOOT" /\ d.op[i].action \in Acted =>
                             op[i].action \in Acted
  BY Fields, InterruptedKeeps
<1>3. /\ snap \in [Revs -> Snapshot]
      /\ \A r \in Revs : /\ snap[r].body = d.snap[r].body
                         /\ snap[r].life = "none" <=> d.snap[r].life = "none"
                         /\ d.snap[r].life = "APPLIED" => snap[r].life = "APPLIED"
  BY Fields DEF Snapshot
<1> HIDE DEF op, snap, e
<1>4. /\ e \in Database
      /\ e.desired = d.desired /\ e.applied = d.applied
      /\ e.client = d.client /\ e.ip = d.ip
  BY <1>1, <1>2, <1>3 DEF Database
<1>5. Alike(d, e) /\ Remembers(d, e)
  BY <1>1, <1>2, <1>3, <1>4 DEF Alike, Remembers
<1> QED
  BY <1>5 DEF e

\* acquire_vps_lease, with an owner that is failed first or without.
LEMMA AcquireAlike ==
  ASSUME NEW d \in Database, NEW i \in Ops
  PROVE  Alike(d, Acquire(d, i)) /\ Remembers(d, Acquire(d, i))
<1> DEFINE e == IF d.lease = 0 THEN d ELSE FailOwners(d, {d.lease})
<1>1. Alike(d, e) /\ Remembers(d, e)
  BY FailOwnersAlike DEF Alike, Remembers
<1> HIDE DEF e
<1>2. i \in 0 .. MaxOps /\ e \in Database
  BY <1>1, Bounds DEF Ops, Alike
<1>3. LET f == [e EXCEPT !.lease = i, !.expired = FALSE]
      IN  Alike(e, f) /\ f.op = e.op
  BY <1>2, LeaseAlike
<1>4. Acquire(d, i) = [e EXCEPT !.lease = i, !.expired = FALSE]
  BY DEF Acquire, e
<1>5. Alike(e, Acquire(d, i)) /\ Acquire(d, i).op = e.op
  BY <1>3, <1>4
<1> QED
  BY <1>1, <1>5, AlikeTwice DEF Remembers

\* recover_incomplete_vps_operations.
LEMMA RecoverAlike ==
  ASSUME NEW d \in Database
  PROVE  Alike(d, RecoverIncomplete(d)) /\ Remembers(d, RecoverIncomplete(d))
<1> DEFINE e == FailOwners(d, {i \in Ops : Active(d, i)})
<1>1. Alike(d, e) /\ Remembers(d, e)
  BY FailOwnersAlike
<1> HIDE DEF e
<1>2. 0 \in 0 .. MaxOps /\ e \in Database
  BY <1>1, Bounds DEF Alike
<1>3. LET f == [e EXCEPT !.lease = 0, !.expired = FALSE]
      IN  Alike(e, f) /\ f.op = e.op
  BY <1>2, LeaseAlike
<1>4. RecoverIncomplete(d) = [e EXCEPT !.lease = 0, !.expired = FALSE]
  BY DEF RecoverIncomplete, e
<1>5. Alike(e, RecoverIncomplete(d)) /\ RecoverIncomplete(d).op = e.op
  BY <1>3, <1>4
<1> QED
  BY <1>1, <1>5, AlikeTwice DEF Remembers

\* _ensure_snapshot: the desired revision has a snapshot, and it is current.
LEMMA EnsureKeeps ==
  ASSUME NEW d, DbInv(d), NEW again \in BOOLEAN
  PROVE  LET e == EnsureSnapshot(d, again)
         IN  /\ DbInv(e) /\ e.snap[e.desired].life # "none"
             /\ e.desired = d.desired /\ e.applied = d.applied /\ e.op = d.op
<1>1. /\ d \in Database /\ d.desired \in Revs /\ d.applied \in 0 .. MaxRev
      /\ d.snap \in [Revs -> Snapshot] /\ MaxRev \in Nat
      /\ d.client \in [Clients -> Client] /\ d.ip \in Addresses
      /\ d.env \in Environments
  BY Fields, Bounds DEF DbInv
<1>2. CASE d.snap[d.desired].life = "none"
  <2> DEFINE s == [life |-> "PREPARED", body |-> Content(d)]
             e == [d EXCEPT !.snap[d.desired] = s]
  <2>1. EnsureSnapshot(d, again) = e
    BY <1>2 DEF EnsureSnapshot
  <2>2. s \in Snapshot
    BY <1>1 DEF Snapshot, Body, Content
  <2>3. /\ e \in Database /\ e.snap = [d.snap EXCEPT ![d.desired] = s]
        /\ e.desired = d.desired /\ e.applied = d.applied
        /\ e.client = d.client /\ e.ip = d.ip /\ e.op = d.op
    BY <1>1, <2>2 DEF Database
  <2> HIDE DEF e
  <2>4. /\ e.snap[d.desired].life = "PREPARED"
        /\ e.snap[d.desired].body = Content(d)
        /\ \A r \in Revs \ {d.desired} : e.snap[r] = d.snap[r]
    BY <1>1, <2>3
  <2>5. Sound(e)
    BY <1>1, <1>2, <2>3, <2>4 DEF DbInv, Sound, Revs
  <2>6. Current(e)
    <3>1. Enabled(e) = Enabled(d)
      BY <2>3 DEF Enabled
    <3>2. Content(d).clients = Enabled(d) /\ Content(d).ip = d.ip
      BY DEF Content, Enabled
    <3> QED
      BY <2>3, <2>4, <3>1, <3>2 DEF Current
  <2>7. Reserved(e)
    <3> SUFFICES ASSUME NEW r \in Revs, r >= d.applied, e.snap[r].life # "none",
                        NEW c \in e.snap[r].body.clients
                 PROVE  /\ d.client[c].state # "purged"
                        /\ d.client[c].state = "deleted" => d.client[c].gone > r
      BY <2>3 DEF Reserved
    <3>1. CASE r = d.desired
      BY <2>4, <3>1 DEF Content
    <3>2. CASE r # d.desired
      BY <2>4, <3>2 DEF DbInv, Reserved
    <3> QED
      BY <3>1, <3>2
  <2>8. Prepared(e)
    BY <1>1, <2>3, <2>4 DEF DbInv, Prepared, Revs
  <2>9. DbInv(e) /\ e.snap[e.desired].life # "none"
    BY <2>3, <2>4, <2>5, <2>6, <2>7, <2>8 DEF DbInv
  <2> QED
    BY <2>1, <2>3, <2>9
<1>3. CASE again /\ d.snap[d.desired].life = "FAILED"
  <2> DEFINE r == d.desired
             e == [d EXCEPT !.snap[r].life = "PREPARED"]
  <2>1. EnsureSnapshot(d, again) = e
    BY <1>3 DEF EnsureSnapshot
  <2>2. /\ e \in Database
        /\ e.snap = [d.snap EXCEPT ![r].life = "PREPARED"]
        /\ e.desired = d.desired /\ e.applied = d.applied
        /\ e.client = d.client /\ e.ip = d.ip /\ e.op = d.op
    <3> DEFINE snap == [d.snap EXCEPT ![r].life = "PREPARED"]
    <3>1. snap \in [Revs -> Snapshot]
      BY <1>1 DEF Snapshot
    <3>2. e = [d EXCEPT !.snap = snap]
      OBVIOUS
    <3> HIDE DEF snap, e
    <3>3. /\ e \in Database /\ e.snap = snap
          /\ e.desired = d.desired /\ e.applied = d.applied
          /\ e.client = d.client /\ e.ip = d.ip /\ e.op = d.op
      BY <1>1, <3>1, <3>2 DEF Database
    <3> QED
      BY <3>3 DEF snap
  <2> HIDE DEF e
  <2>3. /\ Alike(d, e) /\ e.snap[e.desired].life # "none"
    BY <1>1, <1>3, <2>2 DEF Alike, Snapshot
  <2> QED
    BY <2>1, <2>2, <2>3, AlikeKeeps
<1>4. CASE /\ d.snap[d.desired].life # "none"
           /\ ~(again /\ d.snap[d.desired].life = "FAILED")
  <2>1. EnsureSnapshot(d, again) = d
    BY <1>4 DEF EnsureSnapshot
  <2> QED
    BY <1>4, <2>1
<1> QED
  BY <1>2, <1>3, <1>4

\* Of a snapshot, only its life; of an operation, neither kind nor binding.
LEMMA LifeAlike ==
  ASSUME NEW d, DbInv(d), NEW r \in Revs, d.snap[r].life # "none",
         NEW life \in {"PREPARED", "APPLIED", "FAILED"},
         d.snap[r].life = "APPLIED" => life = "APPLIED"
  PROVE  LET e == [d EXCEPT !.snap[r].life = life]
         IN  Alike(d, e) /\ e.op = d.op
<1> DEFINE e == [d EXCEPT !.snap[r].life = life]
<1>1. d \in Database /\ d.snap \in [Revs -> Snapshot]
  BY Fields DEF DbInv
<1>2. /\ e \in Database
      /\ e.snap = [d.snap EXCEPT ![r].life = life]
      /\ e.desired = d.desired /\ e.applied = d.applied
      /\ e.client = d.client /\ e.ip = d.ip /\ e.op = d.op
  <2>1. [d.snap EXCEPT ![r].life = life] \in [Revs -> Snapshot]
    <3>1. [d.snap[r] EXCEPT !.life = life] \in Snapshot
      BY <1>1 DEF Snapshot
    <3> QED
      BY <1>1, <3>1
  <2> QED
    BY <1>1, <2>1 DEF Database
<1> HIDE DEF e
<1>3. Alike(d, e) /\ e.op = d.op
  BY <1>1, <1>2 DEF Alike, Snapshot
<1> QED
  BY <1>3 DEF e

\* A row that is not used yet becomes an operation, bound to a revision that
\* has a snapshot when it is to apply one.
LEMMA RowKeeps ==
  ASSUME NEW d, DbInv(d), NEW i \in Ops, NEW o \in Operation,
         o.kind \in {"INSTALL", "IP_CHANGE"} =>
           o.rev \in 1 .. d.desired /\ d.snap[o.rev].life # "none"
  PROVE  LET e == [d EXCEPT !.op[i] = o]
         IN  /\ DbInv(e) /\ e.op = [d.op EXCEPT ![i] = o]
             /\ e.applied = d.applied
<1> DEFINE e == [d EXCEPT !.op[i] = o]
<1>1. /\ d \in Database /\ d.op \in [Ops -> Operation]
  BY Fields DEF DbInv
<1>2. /\ e \in Database /\ e.op = [d.op EXCEPT ![i] = o]
      /\ e.snap = d.snap /\ e.desired = d.desired /\ e.applied = d.applied
      /\ e.client = d.client /\ e.ip = d.ip
  BY <1>1 DEF Database
<1> HIDE DEF e
<1>3. Sound(e)
  BY <1>2 DEF DbInv, Sound
<1>4. Current(e)
  BY <1>2 DEF DbInv, Current, Enabled
<1>5. Reserved(e)
  BY <1>2 DEF DbInv, Reserved
<1>6. Prepared(e)
  BY <1>1, <1>2 DEF DbInv, Prepared
<1>7. DbInv(e)
  BY <1>2, <1>3, <1>4, <1>5, <1>6 DEF DbInv
<1> QED
  BY <1>2, <1>7 DEF e

\* The coordinator's create_operation: the row, then the lease.
LEMMA CreateKeeps ==
  ASSUME NEW d, DbInv(d), NEW i \in Ops, NEW kind \in Kinds,
         NEW rev \in 0 .. MaxRev,
         kind \in {"INSTALL", "IP_CHANGE"} =>
           rev \in 1 .. d.desired /\ d.snap[rev].life # "none"
  PROVE  LET e == CreateOperation(d, i, kind, rev)
         IN  /\ DbInv(e) /\ e.applied = d.applied /\ e.op[i].kind = kind
             /\ \A j \in Ops \ {i} :
                  /\ e.op[j].kind = d.op[j].kind
                  /\ d.op[j].kind = "REBOOT" /\ d.op[j].action \in Acted =>
                       e.op[j].action \in Acted
<1> DEFINE o == NoOperation(kind, rev)
           f == [d EXCEPT !.op[i] = o]
           e == Acquire(f, i)
<1>1. /\ o \in Operation /\ o.kind = kind /\ o.rev = rev
  BY DEF NoOperation, Operation, Statuses, ActionStates, Sends, Applies
<1> HIDE DEF o
<1>2. DbInv(f) /\ f.op = [d.op EXCEPT ![i] = o] /\ f.applied = d.applied
  BY <1>1, RowKeeps
<1> HIDE DEF f
<1>3. Alike(f, e) /\ Remembers(f, e)
  BY <1>2, AcquireAlike DEF DbInv
<1>4. DbInv(e)
  BY <1>2, <1>3, AlikeKeeps
<1>5. CreateOperation(d, i, kind, rev) = e
  BY DEF CreateOperation, e, f, o
<1> HIDE DEF e
<1>6. d.op \in [Ops -> Operation]
  BY Fields DEF DbInv
<1> QED
  BY <1>1, <1>2, <1>3, <1>4, <1>5, <1>6 DEF Alike, Remembers

\* A revision is applied, the deleted clients it does without are purged.
LEMMA ApplyKeeps ==
  ASSUME NEW d, DbInv(d), NEW a \in 0 .. d.desired, a >= d.applied,
         a # 0 => d.snap[a].life = "APPLIED"
  PROVE  LET e == PurgeDeleted([d EXCEPT !.applied = a])
         IN  DbInv(e) /\ e.applied = a /\ e.op = d.op
<1> DEFINE f == [d EXCEPT !.applied = a]
           e == PurgeDeleted(f)
           client == [c \in Clients |->
                        IF /\ d.client[c].state = "deleted"
                           /\ a # 0 /\ d.client[c].gone <= a
                        THEN [d.client[c] EXCEPT !.state = "purged"]
                        ELSE d.client[c]]
<1>1. /\ d \in Database /\ d.desired \in Revs /\ d.applied \in 0 .. MaxRev
      /\ d.client \in [Clients -> Client] /\ MaxRev \in Nat
      /\ d.desired \in Nat /\ a \in 0 .. MaxRev
  BY Fields, Bounds DEF DbInv, Revs
<1>2. /\ f \in Database /\ f.applied = a /\ f.client = d.client
      /\ f.snap = d.snap /\ f.desired = d.desired /\ f.op = d.op /\ f.ip = d.ip
  BY <1>1 DEF Database
<1> HIDE DEF f
<1>3. client \in [Clients -> Client]
  BY <1>1 DEF Client
<1>4. e = [f EXCEPT !.client = client]
  BY <1>2 DEF PurgeDeleted
<1>5. \A c \in Clients :
        /\ client[c].state = "enabled" <=> d.client[c].state = "enabled"
        /\ client[c].gone = d.client[c].gone
        /\ client[c].state = "deleted" =>
             d.client[c].state = "deleted"
        /\ client[c].state = "purged" /\ d.client[c].state # "purged" =>
             d.client[c].state = "deleted" /\ d.client[c].gone <= a
  BY <1>1 DEF Client
<1> HIDE DEF client
<1>6. /\ e \in Database /\ e.applied = a /\ e.client = client
      /\ e.snap = d.snap /\ e.desired = d.desired /\ e.op = d.op /\ e.ip = d.ip
  BY <1>2, <1>3, <1>4 DEF Database
<1> HIDE DEF e
<1>7. Sound(e)
  BY <1>1, <1>6 DEF DbInv, Sound
<1>8. Current(e)
  BY <1>5, <1>6 DEF DbInv, Current, Enabled
<1>9. Reserved(e)
  <2> SUFFICES ASSUME NEW r \in Revs, r >= a, d.snap[r].life # "none",
                      NEW c \in d.snap[r].body.clients
               PROVE  /\ client[c].state # "purged"
                      /\ client[c].state = "deleted" => client[c].gone > r
    BY <1>6 DEF Reserved
  <2>1. c \in Clients
    BY Fields DEF DbInv, Snapshot, Body
  <2>2. /\ d.client[c].state # "purged"
        /\ d.client[c].state = "deleted" => d.client[c].gone > r
    BY <1>1 DEF DbInv, Reserved, Revs
  <2>3. d.client[c].gone \in Nat
    BY <1>1, <2>1 DEF Client
  <2> QED
    BY <1>1, <1>5, <2>1, <2>2, <2>3 DEF Revs
<1>10. Prepared(e)
  BY <1>6 DEF DbInv, Prepared
<1>11. DbInv(e)
  BY <1>6, <1>7, <1>8, <1>9, <1>10 DEF DbInv
<1> QED
  BY <1>6, <1>11 DEF e, f

\* complete_install_operation, late or not.
LEMMA CompleteKeeps ==
  ASSUME NEW d, DbInv(d), NEW i \in Ops, d.op[i].kind = "INSTALL"
  PROVE  LET e == CompleteInstall(d, i)
         IN  /\ DbInv(e) /\ e.applied >= d.applied
             /\ \A j \in Ops : /\ e.op[j].kind = d.op[j].kind
                               /\ e.op[j].action = d.op[j].action
<1> DEFINE r == d.op[i].rev
           o == [d.op[i] EXCEPT !.status = "DONE"]
           a == IF d.applied < r THEN r ELSE d.applied
           f == [d EXCEPT !.snap[r].life = "APPLIED"]
           g == [f EXCEPT !.op[i] = o]
           h == PurgeDeleted([g EXCEPT !.applied = a])
<1>1. /\ d \in Database /\ d.op \in [Ops -> Operation]
      /\ d.desired \in Revs /\ d.applied \in 0 .. MaxRev /\ MaxRev \in Nat
      /\ r \in 1 .. d.desired /\ r \in Revs /\ d.snap[r].life # "none"
      /\ d.applied <= d.desired /\ d.snap \in [Revs -> Snapshot]
  BY Fields, Bounds DEF DbInv, Prepared, Sound, Revs
<1>2. Alike(d, f) /\ f.op = d.op /\ f.snap[r].life = "APPLIED"
  <2>1. Alike(d, f) /\ f.op = d.op
    BY <1>1, LifeAlike
  <2>2. f.snap[r].life = "APPLIED"
    BY <1>1, LifeSays
  <2> QED
    BY <2>1, <2>2
<1>3. DbInv(f)
  BY <1>2, AlikeKeeps
<1>4. /\ o \in Operation /\ o.kind = d.op[i].kind /\ o.rev = r
      /\ o.action = d.op[i].action
  BY <1>1 DEF Operation, Statuses, Terminal
<1>5. /\ CompleteInstall(d, i) = Release(h, i)
  <2>1. [d EXCEPT !.snap[r].life = "APPLIED",
                  !.applied = IF @ < r THEN r ELSE @,
                  !.op[i].status = "DONE"] = [g EXCEPT !.applied = a]
    BY <1>1 DEF Database
  <2> QED
    BY <2>1 DEF CompleteInstall
<1> HIDE DEF f, o
<1>6. Alike(f, g) /\ g.op = [d.op EXCEPT ![i] = o] /\ g.snap = f.snap
  <2>1. LET x == [f EXCEPT !.op[i] = o]
        IN  Alike(f, x) /\ x.op = [f.op EXCEPT ![i] = o]
    BY <1>2, <1>3, <1>4, OpAlike DEF DbInv
  <2>2. g.snap = f.snap
    BY <1>3 DEF DbInv, Database
  <2> QED
    BY <1>2, <2>1, <2>2
<1>7. DbInv(g)
  BY <1>3, <1>6, AlikeKeeps
<1> HIDE DEF g
<1>8. /\ g.desired = d.desired /\ g.applied = d.applied
      /\ a \in 0 .. g.desired /\ a >= g.applied
      /\ a # 0 => g.snap[a].life = "APPLIED"
  BY <1>1, <1>2, <1>3, <1>6 DEF Alike, DbInv, Sound, Revs
<1>9. DbInv(h) /\ h.applied = a /\ h.op = g.op
  BY <1>7, <1>8, ApplyKeeps
<1> HIDE DEF h, a
<1>10. Alike(h, Release(h, i)) /\ Release(h, i).op = h.op
  BY <1>9, ReleaseAlike DEF DbInv
<1>11. DbInv(Release(h, i)) /\ Release(h, i).applied = a
  BY <1>9, <1>10, AlikeKeeps DEF Alike
<1> QED
  BY <1>1, <1>4, <1>5, <1>6, <1>8, <1>9, <1>10, <1>11

\* An install's snapshot fails, if it is not applied, and its status changes.
LEMMA FailKeeps ==
  ASSUME NEW d, DbInv(d), NEW i \in Ops, d.op[i].kind = "INSTALL",
         NEW status \in Statuses
  PROVE  LET e == Release([FailedSnapshot(d, d.op[i].rev) EXCEPT
                             !.op[i].status = status], i)
         IN  /\ DbInv(e) /\ e.applied = d.applied
             /\ \A j \in Ops : /\ e.op[j].kind = d.op[j].kind
                               /\ e.op[j].action = d.op[j].action
<1> DEFINE r == d.op[i].rev
           o == [d.op[i] EXCEPT !.status = status]
           f == FailedSnapshot(d, r)
           g == [f EXCEPT !.op[i] = o]
<1>1. /\ d \in Database /\ d.op \in [Ops -> Operation]
      /\ r \in Revs /\ d.snap[r].life # "none"
  BY Fields, Bounds DEF DbInv, Prepared, Revs
<1>2. Alike(d, f) /\ f.op = d.op
  <2>1. CASE d.snap[r].life # "APPLIED"
    BY <1>1, <2>1, LifeAlike DEF FailedSnapshot
  <2>2. CASE d.snap[r].life = "APPLIED"
    BY <1>1, <2>2 DEF FailedSnapshot, Alike
  <2> QED
    BY <2>1, <2>2
<1> HIDE DEF f
<1>3. DbInv(f)
  BY <1>2, AlikeKeeps
<1>4. /\ o \in Operation /\ o.kind = d.op[i].kind /\ o.rev = r
      /\ o.action = d.op[i].action
  BY <1>1 DEF Operation
<1>5. [f EXCEPT !.op[i].status = status] = g
  BY <1>1, <1>2, <1>3 DEF DbInv, Database
<1> HIDE DEF o
<1>6. Alike(f, g) /\ g.op = [d.op EXCEPT ![i] = o]
  <2>1. LET x == [f EXCEPT !.op[i] = o]
        IN  Alike(f, x) /\ x.op = [f.op EXCEPT ![i] = o]
    BY <1>2, <1>3, <1>4, OpAlike DEF DbInv
  <2> QED
    BY <1>2, <2>1
<1>7. DbInv(g)
  BY <1>3, <1>6, AlikeKeeps
<1> HIDE DEF g
<1>8. Alike(g, Release(g, i)) /\ Release(g, i).op = g.op
  BY <1>7, ReleaseAlike DEF DbInv
<1>9. DbInv(Release(g, i)) /\ Release(g, i).applied = d.applied
  BY <1>2, <1>6, <1>7, <1>8, AlikeKeeps DEF Alike
<1>10. \A j \in Ops : /\ g.op[j].kind = d.op[j].kind
                      /\ g.op[j].action = d.op[j].action
  BY <1>1, <1>4, <1>6
<1> QED
  BY <1>5, <1>8, <1>9, <1>10 DEF f

\* What is desired moves on, and with it one client, if any.
LEMMA EditKeeps ==
  ASSUME NEW d, DbInv(d), d.desired < MaxRev, NEW e \in Database,
         e.desired = d.desired + 1,
         e.applied = d.applied /\ e.snap = d.snap /\ e.op = d.op,
         \A c \in Clients :
           \/ e.client[c] = d.client[c]
           \/ e.client[c].state \in {"enabled", "disabled"}
           \/ e.client[c].state = "deleted" /\ e.client[c].gone = e.desired
  PROVE  DbInv(e)
<1>1. /\ d \in Database /\ d.desired \in Nat /\ MaxRev \in Nat
      /\ d.applied \in Nat /\ d.snap \in [Revs -> Snapshot]
      /\ d.desired \in Revs /\ d.desired + 1 \in Revs
  BY Fields, Bounds DEF DbInv, Revs
<1>2. Sound(e)
  BY <1>1 DEF DbInv, Sound, Revs
<1>3. Current(e)
  BY <1>1 DEF DbInv, Sound, Current, Revs
<1>4. Reserved(e)
  <2> SUFFICES ASSUME NEW r \in Revs, r >= d.applied, d.snap[r].life # "none",
                      NEW c \in d.snap[r].body.clients
               PROVE  /\ e.client[c].state # "purged"
                      /\ e.client[c].state = "deleted" => e.client[c].gone > r
    BY DEF Reserved
  <2>1. c \in Clients /\ r <= d.desired
    BY <1>1 DEF DbInv, Sound, Snapshot, Body, Revs
  <2>2. /\ d.client[c].state # "purged"
        /\ d.client[c].state = "deleted" => d.client[c].gone > r
    BY DEF DbInv, Reserved
  <2> QED
    BY <1>1, <2>1, <2>2 DEF Revs
<1>5. Prepared(e)
  BY <1>1 DEF DbInv, Prepared, Revs
<1> QED
  BY <1>2, <1>3, <1>4, <1>5 DEF DbInv

\* publish_ip_change: what was desired and bound is applied, at a new address,
\* as the next revision.
LEMMA PublishKeeps ==
  ASSUME NEW d, DbInv(d), NEW i \in Ops, d.op[i].kind = "IP_CHANGE",
         d.desired = d.op[i].rev, d.desired < MaxRev
  PROVE  /\ DbInv(Publish(d, i)) /\ Publish(d, i).applied >= d.applied
         /\ \A j \in Ops : Publish(d, i).op[j].kind = d.op[j].kind
         /\ \A j \in Ops \ {i} : Publish(d, i).op[j] = d.op[j]
<1> DEFINE r == d.op[i].rev
           o == [d.op[i] EXCEPT !.status = "RUNNING", !.action = "PUBLISHED"]
           s == [life |-> "APPLIED",
                 body |-> [d.snap[r].body EXCEPT !.ip = NewIp(i)]]
           f == [d EXCEPT !.snap[r].life = "APPLIED"]
           g == [f EXCEPT !.snap[r + 1] = s, !.ip = NewIp(i),
                          !.published = NewIp(i), !.desired = r + 1]
           h == [g EXCEPT !.op[i] = o]
           p == PurgeDeleted([h EXCEPT !.applied = r + 1])
<1>1. /\ d \in Database /\ d.op \in [Ops -> Operation]
      /\ d.desired \in Revs /\ d.applied \in 0 .. MaxRev /\ MaxRev \in Nat
      /\ r = d.desired /\ r \in Revs /\ r + 1 \in Revs /\ r \in Nat
      /\ d.snap[r].life # "none" /\ MaxOps \in Nat
      /\ d.applied <= d.desired /\ d.snap \in [Revs -> Snapshot]
  BY Fields, Bounds DEF DbInv, Prepared, Sound, Revs
<1>2. Alike(d, f) /\ f.op = d.op /\ f.snap = [d.snap EXCEPT ![r].life = "APPLIED"]
  <2>1. Alike(d, f) /\ f.op = d.op
    BY <1>1, LifeAlike
  <2>2. f.snap = [d.snap EXCEPT ![r].life = "APPLIED"]
    BY <1>1, LifeSays
  <2> QED
    BY <2>1, <2>2
<1>3. DbInv(f) /\ f.desired = r /\ f.applied = d.applied
  BY <1>1, <1>2, AlikeKeeps DEF Alike
<1>4. s \in Snapshot /\ s.body.ip = NewIp(i) /\ s.life = "APPLIED"
      /\ s.body.clients = d.snap[r].body.clients
      /\ NewIp(i) \in Addresses
  <2>1. NewIp(i) \in Addresses
    BY <1>1 DEF NewIp, Addresses, Ops
  <2>2. d.snap[r].body \in Body
    BY <1>1 DEF Snapshot
  <2> QED
    BY <2>1, <2>2 DEF Snapshot, Body
<1>5. /\ o \in Operation /\ o.kind = d.op[i].kind /\ o.rev = r
  <2>1. d.op[i] \in Operation
    BY <1>1
  <2>2. "RUNNING" \in Statuses /\ "PUBLISHED" \in ActionStates
    BY DEF Statuses, ActionStates
  <2> QED
    BY <2>1, <2>2 DEF Operation
<1>6. Publish(d, i) = p
  <2>1. [d EXCEPT !.snap[r + 1] = s, !.snap[r].life = "APPLIED",
                  !.ip = NewIp(i), !.published = NewIp(i),
                  !.desired = r + 1, !.applied = r + 1,
                  !.op[i].status = "RUNNING", !.op[i].action = "PUBLISHED"]
          = [h EXCEPT !.applied = r + 1]
    <3>1. [d.snap EXCEPT ![r + 1] = s, ![r].life = "APPLIED"] =
            [[d.snap EXCEPT ![r].life = "APPLIED"] EXCEPT ![r + 1] = s]
      <4> DEFINE v == [d.snap[r] EXCEPT !.life = "APPLIED"]
                 t == [d.snap EXCEPT ![r + 1] = s]
      <4>1. r + 1 # r
        BY <1>1
      <4>2. t[r] = d.snap[r]
        BY <1>1, <4>1
      <4> HIDE DEF s
      <4>3. [d.snap EXCEPT ![r + 1] = s, ![r].life = "APPLIED"]
              = [t EXCEPT ![r] = [t[r] EXCEPT !.life = "APPLIED"]]
        OBVIOUS
      <4>4. [t EXCEPT ![r] = v] = [[d.snap EXCEPT ![r] = v] EXCEPT ![r + 1] = s]
        <5> HIDE DEF v, r
        <5> QED
          BY <1>1, <4>1, EitherOrder
      <4>5. [d.snap EXCEPT ![r].life = "APPLIED"] = [d.snap EXCEPT ![r] = v]
        OBVIOUS
      <4> QED
        BY <4>2, <4>3, <4>4, <4>5
    <3>2. [d.op EXCEPT ![i].status = "RUNNING", ![i].action = "PUBLISHED"] =
            [d.op EXCEPT ![i] = o]
      BY <1>1 DEF Operation
    <3> DEFINE snap == [[d.snap EXCEPT ![r].life = "APPLIED"] EXCEPT ![r + 1] = s]
               op == [d.op EXCEPT ![i] = o]
    <3>3. [d EXCEPT !.snap[r + 1] = s, !.snap[r].life = "APPLIED",
                    !.ip = NewIp(i), !.published = NewIp(i),
                    !.desired = r + 1, !.applied = r + 1,
                    !.op[i].status = "RUNNING", !.op[i].action = "PUBLISHED"]
            = [d EXCEPT !.snap = snap, !.ip = NewIp(i), !.published = NewIp(i),
                        !.desired = r + 1, !.applied = r + 1, !.op = op]
      <4> DEFINE k == [d EXCEPT !.snap = snap, !.ip = NewIp(i),
                                !.published = NewIp(i),
                                !.desired = r + 1, !.applied = r + 1]
      <4> HIDE DEF s, o, r, snap, op
      <4>1. k.op = d.op /\ k = [k EXCEPT !.op = d.op]
        BY <1>1 DEF Database
      <4>2. [k EXCEPT !.op[i].status = "RUNNING", !.op[i].action = "PUBLISHED"]
              = [k EXCEPT !.op = op]
        <5> HIDE DEF k
        <5> QED
          BY <3>2, <4>1 DEF op
      <4>3. [d EXCEPT !.snap[r + 1] = s, !.snap[r].life = "APPLIED"]
              = [d EXCEPT !.snap = snap]
        BY <1>1, <3>1 DEF Database, snap
      <4> QED
        BY <4>2, <4>3
    <3>4. [h EXCEPT !.applied = r + 1]
            = [d EXCEPT !.snap = snap, !.ip = NewIp(i), !.published = NewIp(i),
                        !.desired = r + 1, !.applied = r + 1, !.op = op]
      <4> HIDE DEF s, o, r
      <4> QED
        BY <1>1 DEF Database
    <3> QED
      BY <3>3, <3>4
  <2> QED
    BY <2>1 DEF Publish
<1> HIDE DEF f, o, s
<1>7. /\ g \in Database /\ g.desired = r + 1 /\ g.applied = d.applied
      /\ g.client = f.client /\ g.ip = NewIp(i) /\ g.op = d.op
      /\ g.snap = [f.snap EXCEPT ![r + 1] = s]
  BY <1>1, <1>2, <1>3, <1>4 DEF DbInv, Database
<1> HIDE DEF g
<1>8. DbInv(g) /\ g.snap[r + 1].life = "APPLIED"
  <2>1. /\ g.snap[r + 1] = s
        /\ \A q \in Revs \ {r + 1} : g.snap[q] = f.snap[q]
        /\ f.snap[r].body = d.snap[r].body /\ f.snap[r].life # "none"
    <3>1. f.snap \in [Revs -> Snapshot] /\ f.snap[r].body = d.snap[r].body
      BY <1>1, <1>2, Fields DEF Alike
    <3>2. f.snap[r].life # "none"
      BY <1>1, <1>2 DEF Alike
    <3> QED
      BY <1>1, <1>7, <3>1, <3>2
  <2>2. Sound(g)
    <3>1. \A q \in Revs : q > r + 1 => g.snap[q].life = "none"
      <4> SUFFICES ASSUME NEW q \in Revs, q > r + 1
                   PROVE  g.snap[q].life = "none"
        OBVIOUS
      <4>1. q \in Nat /\ q > r /\ q # r + 1
        BY <1>1 DEF Revs
      <4>2. f.snap[q].life = "none"
        BY <1>3, <4>1 DEF DbInv, Sound
      <4> QED
        BY <2>1, <4>1, <4>2
    <3>2. g.applied # 0 => g.snap[g.applied].life = "APPLIED"
      <4>1. d.applied # 0 => d.applied \in Revs /\ d.applied # r + 1
        BY <1>1 DEF Revs
      <4> QED
        BY <1>3, <1>7, <2>1, <4>1 DEF DbInv, Sound
    <3>3. g.applied <= g.desired
      BY <1>1, <1>7
    <3> QED
      BY <1>7, <3>1, <3>2, <3>3 DEF Sound
  <2>3. Enabled(f) = d.snap[r].body.clients
    BY <1>3, <2>1 DEF DbInv, Current
  <2>4. Enabled(g) = d.snap[r].body.clients
    BY <1>7, <2>3 DEF Enabled
  <2>5. Current(g)
    BY <1>4, <1>7, <2>1, <2>4 DEF Current
  <2>6. Reserved(g)
    <3> SUFFICES ASSUME NEW q \in Revs, q >= d.applied, g.snap[q].life # "none",
                        NEW c \in g.snap[q].body.clients
                 PROVE  /\ f.client[c].state # "purged"
                        /\ f.client[c].state = "deleted" => f.client[c].gone > q
      BY <1>7 DEF Reserved
    <3>1. CASE q = r + 1
      BY <1>4, <2>1, <2>3, <3>1 DEF Enabled
    <3>2. CASE q # r + 1
      BY <1>3, <2>1, <3>2 DEF DbInv, Reserved
    <3> QED
      BY <3>1, <3>2
  <2>7. Prepared(g)
    <3> SUFFICES ASSUME NEW j \in Ops, d.op[j].kind \in {"INSTALL", "IP_CHANGE"}
                 PROVE  /\ d.op[j].rev \in 1 .. r + 1
                        /\ g.snap[d.op[j].rev].life # "none"
      BY <1>7 DEF Prepared
    <3>1. d.op[j].rev \in 1 .. r /\ d.snap[d.op[j].rev].life # "none"
      BY <1>1 DEF DbInv, Prepared
    <3>2. d.op[j].rev \in Revs \ {r + 1}
      BY <1>1, <3>1 DEF Revs
    <3>3. f.snap[d.op[j].rev].life # "none"
      BY <1>2, <3>1, <3>2 DEF Alike
    <3> QED
      BY <1>1, <2>1, <3>1, <3>2, <3>3
  <2> QED
    BY <1>4, <1>7, <2>1, <2>2, <2>5, <2>6, <2>7 DEF DbInv
<1>9. Alike(g, h) /\ h.op = [d.op EXCEPT ![i] = o] /\ h.snap = g.snap
  <2>1. LET x == [g EXCEPT !.op[i] = o]
        IN  Alike(g, x) /\ x.op = [g.op EXCEPT ![i] = o]
    BY <1>5, <1>7, OpAlike
  <2>2. h.snap = g.snap
    BY <1>7 DEF Database
  <2> QED
    BY <1>7, <2>1, <2>2
<1>10. DbInv(h) /\ h.desired = r + 1 /\ h.applied = d.applied
  BY <1>7, <1>8, <1>9, AlikeKeeps DEF Alike
<1> HIDE DEF h
<1>11. DbInv(p) /\ p.applied = r + 1 /\ p.op = h.op
  <2>1. r + 1 \in 0 .. h.desired /\ r + 1 >= h.applied
        /\ h.snap[r + 1].life = "APPLIED"
    BY <1>1, <1>8, <1>9, <1>10
  <2> QED
    BY <1>10, <2>1, ApplyKeeps
<1> HIDE DEF p
<1> QED
  BY <1>1, <1>5, <1>6, <1>9, <1>11

-----------------------------------------------------------------------------
(***************************************************************************)
(* Steps.                                                                  *)
(***************************************************************************)
\* What the invariant says, of a worker and of the world around it.
Others(i) == \A j \in Ops \ {i} : pc'[j] = pc[j] /\ (j \in sent' => j \in sent)

World ==
  /\ script' \in [Ops -> [state : ScriptStates, base : 0 .. MaxRev]]
  /\ vps' \in 0 .. MaxRev /\ owned' \subseteq Addresses /\ main' \in Addresses
  /\ sent' \subseteq Ops
  /\ faults' \in 0 .. MaxFaults /\ edits' \in 0 .. MaxEdits

\* The rows of the other operations, as far as they matter to their workers.
Rows(i) ==
  \A j \in Ops \ {i} :
    /\ db'.op[j].kind = db.op[j].kind
    /\ db.op[j].kind = "REBOOT" /\ db.op[j].action \in Acted =>
         db'.op[j].action \in Acted

\* A step of one worker, or one that starts it.
LEMMA StepKeeps ==
  ASSUME IInv, NEW i \in Ops, NEW to \in Steps, Goto(i, to) \/ pc' = pc,
         DbInv(db'), db'.applied >= db.applied, Rows(i), World, Others(i),
         Actor(i)'
  PROVE  Fine
<1>1. pc \in [Ops -> Steps]
  BY DEF IInv, TypeOK
<1>2. pc' \in [Ops -> Steps]
  BY <1>1 DEF Goto
<1>3. ASSUME NEW j \in Ops PROVE Actor(j)'
  <2>1. CASE j = i
    BY <2>1
  <2>2. CASE j # i
    <3>1. Actor(j)
      BY DEF IInv, Actors
    <3>2. pc'[j] = pc[j] /\ (j \in sent' => j \in sent)
      BY <2>2 DEF Others
    <3>3. /\ db'.op[j].kind = db.op[j].kind
          /\ db.op[j].kind = "REBOOT" /\ db.op[j].action \in Acted =>
               db'.op[j].action \in Acted
      BY <2>2 DEF Rows
    <3>4. SendingSteps \subseteq RebootSteps
      BY DEF SendingSteps, RebootSteps
    <3> QED
      BY <3>1, <3>2, <3>3, <3>4 DEF Actor
  <2> QED
    BY <2>1, <2>2
<1>4. TypeOK'
  BY <1>2 DEF World, TypeOK, DbInv
<1> QED
  BY <1>3, <1>4 DEF Fine, IInv, Actors

\* The world, and the other workers, when only the worker moves.
LEMMA QuietWorld ==
  ASSUME IInv, Quietly
  PROVE  World /\ script' = script /\ sent' = sent
BY DEF IInv, TypeOK, Quietly, World, world

\* From one step of a worker to another it may not enter somebody else's code,
\* and not wait for a reboot before it is marked as sent.
Passes(i, from, to, action) ==
  /\ to \in Steps
  /\ to \in InstallSteps => from \in InstallSteps
  /\ to \in RebootSteps => from \in RebootSteps
  /\ to \in SendingSteps \/ i \in sent => action \in Acted

\* A transaction on the worker's own row.
LEMMA RowStep ==
  ASSUME IInv, NEW i \in Ops, NEW from, NEW to, pc[i] = from, Goto(i, to),
         NEW o \in Operation, o.kind = db.op[i].kind, o.rev = db.op[i].rev,
         Alike(db, db'), db'.op = [db.op EXCEPT ![i] = o],
         World, \A j \in Ops : j \in sent' => j \in sent \/ j = i,
         Passes(i, from, to, o.action),
         i \in sent' => (o.action \in Acted /\ from \in RebootSteps) \/ i \in sent
  PROVE  Fine
<1>1. /\ pc \in [Ops -> Steps] /\ db.op \in [Ops -> Operation] /\ DbInv(db)
      /\ Actor(i) /\ db.applied \in Nat
  BY Fields DEF IInv, Actors, TypeOK
<1>2. /\ pc'[i] = to /\ \A j \in Ops \ {i} : pc'[j] = pc[j]
      /\ db'.op[i] = o /\ \A j \in Ops \ {i} : db'.op[j] = db.op[j]
  BY <1>1 DEF Goto
<1>3. DbInv(db') /\ db'.applied >= db.applied
  BY <1>1, AlikeKeeps DEF Alike
<1>4. Rows(i) /\ Others(i)
  BY <1>2 DEF Rows, Others
<1>5. Actor(i)'
  BY <1>1, <1>2 DEF Actor, Passes
<1> QED
  BY <1>3, <1>4, <1>5, StepKeeps DEF Passes

\* A worker writes down where it is.
LEMMA MarkKeeps ==
  ASSUME IInv, NEW i \in Ops, NEW from, NEW to,
         NEW o \in Operation, o.kind = db.op[i].kind, o.rev = db.op[i].rev,
         Mark(i, from, o, to), Passes(i, from, to, o.action)
  PROVE  Fine
<1> DEFINE e == [db EXCEPT !.op[i] = o]
<1>1. db \in Database
  BY DEF IInv, TypeOK
<1>2. Alike(db, e) /\ e.op = [db.op EXCEPT ![i] = o]
  BY <1>1, OpAlike
<1> HIDE DEF e
<1>3. Alike(e, Heartbeat(e, i)) /\ Heartbeat(e, i).op = e.op
  BY <1>2, HeartbeatAlike DEF Alike
<1>4. Alike(db, db') /\ db'.op = [db.op EXCEPT ![i] = o]
  BY <1>2, <1>3, AlikeTwice DEF Mark, Save, e
<1>5. World /\ sent' = sent
  BY QuietWorld DEF Mark
<1> QED
  BY <1>4, <1>5, RowStep DEF Mark

\* It writes its verdict and stops.
LEMMA FinishKeeps ==
  ASSUME IInv, NEW i \in Ops, NEW from,
         NEW o \in Operation, o.kind = db.op[i].kind, o.rev = db.op[i].rev,
         Finish(i, from, o), i \in sent => o.action \in Acted
  PROVE  Fine
<1> DEFINE e == [db EXCEPT !.op[i] = o]
<1>1. db \in Database
  BY DEF IInv, TypeOK
<1>2. Alike(db, e) /\ e.op = [db.op EXCEPT ![i] = o]
  BY <1>1, OpAlike
<1> HIDE DEF e
<1>3. Alike(e, Release(e, i)) /\ Release(e, i).op = e.op
  BY <1>2, ReleaseAlike DEF Alike
<1>4. Alike(db, db') /\ db'.op = [db.op EXCEPT ![i] = o]
  BY <1>2, <1>3, AlikeTwice DEF Finish, End, e
<1>5. World /\ sent' = sent
  BY QuietWorld DEF Finish
<1>6. Passes(i, from, "off", o.action)
  BY DEF Finish, Passes, Steps, InstallSteps, RebootSteps, SendingSteps
<1> QED
  BY <1>4, <1>5, <1>6, RowStep DEF Finish

\* The worker goes on, and the database stays as it is.
LEMMA GoKeeps ==
  ASSUME IInv, NEW i \in Ops, NEW from, NEW to, pc[i] = from, Goto(i, to),
         UNCHANGED db, World, \A j \in Ops : j \in sent' => j \in sent \/ j = i,
         Passes(i, from, to, db.op[i].action),
         i \in sent' => from \in SendingSteps \/ i \in sent
  PROVE  Fine
<1>1. /\ db \in Database /\ db.op \in [Ops -> Operation] /\ Actor(i)
  BY Fields DEF IInv, TypeOK, Actors
<1>2. db.op[i] \in Operation /\ db.op = [db.op EXCEPT ![i] = db.op[i]]
  BY <1>1
<1>3. Alike(db, db') /\ db'.op = [db.op EXCEPT ![i] = db.op[i]]
  BY <1>1, <1>2 DEF Alike
<1>4. from \in SendingSteps => db.op[i].action \in Acted /\ from \in RebootSteps
  BY <1>1 DEF Actor, SendingSteps, RebootSteps
<1> QED
  BY <1>2, <1>3, <1>4, RowStep

\* It goes on without a transaction.
LEMMA MoveKeeps ==
  ASSUME IInv, NEW i \in Ops, NEW from, NEW to, Move(i, from, to),
         Passes(i, from, to, db.op[i].action)
  PROVE  Fine
<1>1. World /\ sent' = sent
  BY QuietWorld DEF Move
<1> QED
  BY <1>1, GoKeeps DEF Move

\* Faults are counted.
LEMMA SpendCounts ==
  ASSUME IInv, NEW kind, Spend(kind)
  PROVE  faults' \in 0 .. MaxFaults
BY OperationsAssumption DEF IInv, TypeOK, Spend

\* A fault sends it somewhere else, or stops it.
LEMMA StumbleKeeps ==
  ASSUME IInv, NEW i \in Ops, NEW froms, NEW kind, NEW to,
         Stumble(i, froms, kind, to),
         Passes(i, pc[i], to, db.op[i].action)
  PROVE  Fine
<1>1. World /\ sent' = sent
  BY SpendCounts DEF Stumble, World, world, IInv, TypeOK
<1> QED
  BY <1>1, GoKeeps DEF Stumble

\* A script begins; it may fall back to what the server serves now.
LEMMA LaunchKeeps ==
  ASSUME IInv, NEW i \in Ops, Launch(i), UNCHANGED <<faults, edits>>
  PROVE  World /\ sent' = sent
<1>1. [state |-> "running", base |-> vps] \in
        [state : ScriptStates, base : 0 .. MaxRev]
  BY DEF IInv, TypeOK, ScriptStates
<1> QED
  BY <1>1 DEF IInv, TypeOK, Launch, World

\* The database is what a worker makes of it when it ends.
LEMMA EndKeeps ==
  ASSUME IInv, NEW i \in Ops, NEW from, pc[i] = from, Goto(i, "off"), Quietly,
         DbInv(db'), db'.applied >= db.applied,
         \A j \in Ops : /\ db'.op[j].kind = db.op[j].kind
                        /\ db'.op[j].action = db.op[j].action
  PROVE  Fine
<1>1. /\ pc \in [Ops -> Steps] /\ Actor(i)
  BY DEF IInv, Actors, TypeOK
<1>2. World /\ sent' = sent
  BY QuietWorld
<1>3. Rows(i) /\ Others(i) /\ pc'[i] = "off"
  BY <1>1, <1>2 DEF Rows, Others, Goto
<1>4. Actor(i)'
  BY <1>1, <1>2, <1>3 DEF Actor, InstallSteps, RebootSteps, SendingSteps
<1>5. "off" \in Steps
  BY DEF Steps
<1> QED
  BY <1>2, <1>3, <1>4, <1>5, StepKeeps

-----------------------------------------------------------------------------
(***************************************************************************)
(* The workers.                                                            *)
(***************************************************************************)
\* What the invariant says of a worker's own row.
LEMMA OwnRow ==
  ASSUME IInv, NEW i \in Ops
  PROVE  /\ db.op[i] \in Operation /\ Actor(i)
         /\ i \in sent => db.op[i].kind = "REBOOT" /\ db.op[i].action \in Acted
         /\ pc[i] \in Steps
BY Fields DEF IInv, TypeOK, Actors, Actor

\* run_eu_install.
LEMMA InstallKeeps ==
  ASSUME IInv, NEW i \in Ops, Install(i) \/ InstallFaults(i)
  PROVE  Fine
<1>1. /\ db.op[i] \in Operation /\ Actor(i) /\ DbInv(db)
      /\ i \in sent => db.op[i].kind = "REBOOT" /\ db.op[i].action \in Acted
  BY OwnRow DEF IInv
<1>2. CASE InstallStart(i)
  <2>1. [db.op[i] EXCEPT !.status = "RUNNING"] \in Operation
    BY <1>1 DEF Operation, Statuses
  <2>2. Passes(i, "install", "install_send", db.op[i].action)
    BY <1>1 DEF Passes, Steps, InstallSteps, RebootSteps, SendingSteps
  <2> QED
    BY <1>1, <1>2, <2>1, <2>2, MarkKeeps DEF InstallStart, Operation
<1>3. CASE InstallSend(i)
  <2>1. World /\ sent' = sent
    BY <1>3, LaunchKeeps DEF InstallSend
  <2>2. Passes(i, "install_send", "install_wait", db.op[i].action)
    BY <1>1 DEF Passes, Steps, InstallSteps, RebootSteps, SendingSteps
  <2> QED
    BY <1>3, <2>1, <2>2, GoKeeps DEF InstallSend
<1>4. CASE InstallOk(i) \/ InstallScriptFailed(i) \/ InstallUncertain(i)
  <2>1. PICK to \in {"install_done", "install_fail", "install_unclear"} :
          Move(i, "install_wait", to)
    BY <1>4 DEF InstallOk, InstallScriptFailed, InstallUncertain
  <2>2. Passes(i, "install_wait", to, db.op[i].action)
    BY <1>1 DEF Passes, Steps, InstallSteps, RebootSteps, SendingSteps
  <2> QED
    BY <2>1, <2>2, MoveKeeps
<1>5. CASE InstallHeartbeat(i)
  <2>1. Passes(i, "install_wait", "install_wait", db.op[i].action)
    BY <1>1 DEF Passes, Steps, InstallSteps, RebootSteps, SendingSteps
  <2> QED
    BY <1>1, <1>5, <2>1, MarkKeeps DEF InstallHeartbeat
<1>6. CASE InstallDone(i)
  <2>1. pc[i] = "install_done" /\ db' = CompleteInstall(db, i)
        /\ Goto(i, "off") /\ Quietly
    BY <1>6 DEF InstallDone
  <2>2. db.op[i].kind = "INSTALL"
    BY <1>1, <2>1 DEF Actor, InstallSteps
  <2> QED
    BY <1>1, <2>1, <2>2, CompleteKeeps, EndKeeps
<1>7. CASE InstallFail(i) \/ InstallUnclear(i)
  <2>1. PICK from \in {"install_fail", "install_unclear"} :
          pc[i] = from /\ Goto(i, "off") /\ Quietly
    BY <1>7 DEF InstallFail, InstallUnclear
  <2>2. PICK status \in Statuses :
          db' = Release([FailedSnapshot(db, db.op[i].rev) EXCEPT
                           !.op[i].status = status], i)
    <3>1. CASE InstallFail(i)
      BY <3>1 DEF InstallFail, FailInstall, Statuses, Terminal
    <3>2. CASE InstallUnclear(i)
      <4> DEFINE d == FailedSnapshot(db, db.op[i].rev)
                 status == IF Active(db, i) THEN "AMBIGUOUS"
                                            ELSE d.op[i].status
      <4>1. d.op = db.op
        BY <1>1 DEF FailedSnapshot, DbInv, Database
      <4>2. status \in Statuses
        BY <1>1, <4>1 DEF Operation, Statuses, Terminal
      <4>3. db' = Release([d EXCEPT !.op[i].status = status], i)
        BY <3>2 DEF InstallUnclear, MarkAmbiguous
      <4> QED
        BY <4>2, <4>3
    <3> QED
      BY <1>7, <3>1, <3>2
  <2>3. db.op[i].kind = "INSTALL"
    BY <1>1, <2>1 DEF Actor, InstallSteps
  <2>4. /\ DbInv(db') /\ db'.applied = db.applied /\ db.applied \in Nat
        /\ \A j \in Ops : /\ db'.op[j].kind = db.op[j].kind
                          /\ db'.op[j].action = db.op[j].action
    <3>1. db.applied \in Nat
      BY <1>1, Fields DEF DbInv
    <3>2. LET e == Release([FailedSnapshot(db, db.op[i].rev) EXCEPT
                              !.op[i].status = status], i)
          IN  /\ DbInv(e) /\ e.applied = db.applied
              /\ \A j \in Ops : /\ e.op[j].kind = db.op[j].kind
                                /\ e.op[j].action = db.op[j].action
      BY <1>1, <2>3, FailKeeps
    <3> QED
      BY <2>2, <3>1, <3>2
  <2> QED
    BY <2>1, <2>4, EndKeeps
<1>8. CASE InstallFaults(i)
  <2>1. PICK froms \in {{"install_send", "install_wait"},
                        {"install", "install_done"},
                        {"install_fail", "install_unclear"}},
             kind \in {"net", "db", "dbEnd"}, to \in {"install_fail", "off"} :
          Stumble(i, froms, kind, to)
    BY <1>8 DEF InstallFaults
  <2>2. pc[i] \in InstallSteps
    BY <2>1 DEF Stumble, InstallSteps
  <2>3. Passes(i, pc[i], to, db.op[i].action)
    BY <1>1, <2>2 DEF Passes, Steps, InstallSteps, RebootSteps, SendingSteps
  <2> QED
    BY <2>1, <2>3, StumbleKeeps
<1> QED
  BY <1>2, <1>3, <1>4, <1>5, <1>6, <1>7, <1>8 DEF Install

\* run_server_status.
LEMMA StatusKeeps ==
  ASSUME IInv, NEW i \in Ops, Status(i) \/ StatusFaults(i)
  PROVE  Fine
<1>1. /\ db.op[i] \in Operation
      /\ i \in sent => db.op[i].action \in Acted
  BY OwnRow
<1>2. \A from :
        \A to \in {"status_end", "status_fail", "status_dead", "off"} :
          Passes(i, from, to, db.op[i].action)
  BY <1>1 DEF Passes, Steps, InstallSteps, RebootSteps, SendingSteps
<1>3. ASSUME NEW status \in Statuses
      PROVE  LET o == [db.op[i] EXCEPT !.status = status]
             IN  /\ o \in Operation /\ o.kind = db.op[i].kind
                 /\ o.rev = db.op[i].rev /\ o.action = db.op[i].action
  BY <1>1 DEF Operation
<1>4. CASE StatusStart(i)
  <2>1. "RUNNING" \in Statuses
    BY DEF Statuses
  <2> QED
    BY <1>2, <1>3, <1>4, <2>1, MarkKeeps DEF StatusStart
<1>5. CASE StatusEnd(i)
  <2>1. PICK status \in {"DONE", "TIMED_OUT", "FAILED"},
             from \in {"status_end", "status_fail"} :
          Finish(i, from, [db.op[i] EXCEPT !.status = status])
    BY <1>5 DEF StatusEnd
  <2>2. status \in Statuses
    BY DEF Statuses, Terminal
  <2> QED
    BY <1>1, <1>3, <2>1, <2>2, FinishKeeps
<1>6. CASE StatusFaults(i)
  <2>1. PICK froms \in {{"status"}, {"status", "status_end"}, {"status_fail"}},
             kind \in {"dbFirst", "db", "dbEnd"},
             to \in {"status_dead", "status_fail", "off"} :
          Stumble(i, froms, kind, to)
    BY <1>6 DEF StatusFaults
  <2> QED
    BY <1>2, <2>1, StumbleKeeps
<1> QED
  BY <1>4, <1>5, <1>6 DEF Status

\* run_server_reboot: what is marked as sending stays remembered.
LEMMA RebootKeeps ==
  ASSUME IInv, NEW i \in Ops, Reboot(i) \/ RebootFaults(i)
  PROVE  Fine
<1> DEFINE o == db.op[i]
<1>1. /\ o \in Operation /\ Actor(i) /\ sent \subseteq Ops
      /\ i \in sent => o.action \in Acted
      /\ pc[i] \in SendingSteps => o.action \in Acted
  BY OwnRow DEF Actor, IInv, TypeOK
<1> HIDE DEF o
<1>2. \A action : \A from \in RebootSteps, to \in RebootSteps \cup {"off"} :
        (to \in SendingSteps \/ i \in sent => action \in Acted) =>
          Passes(i, from, to, action)
  BY DEF Passes, Steps, InstallSteps, RebootSteps
<1>3. CASE RebootLook(i)
  <2>1. [o EXCEPT !.status = "RUNNING"] \in Operation
    BY <1>1 DEF Operation, Statuses
  <2>2. Passes(i, "reboot", "reboot_mark", o.action)
    BY <1>1, <1>2 DEF RebootSteps, SendingSteps
  <2> QED
    BY <1>1, <1>3, <2>1, <2>2, MarkKeeps DEF RebootLook, o, Operation
<1>4. CASE RebootMark(i)
  <2> DEFINE p == [o EXCEPT !.status = "RUNNING", !.action = "SENDING"]
  <2>1. /\ p \in Operation /\ p.kind = o.kind /\ p.rev = o.rev
        /\ p.action = "SENDING"
    BY <1>1 DEF Operation, Statuses, ActionStates
  <2>2. Passes(i, "reboot_mark", "reboot_send", "SENDING")
    BY <1>2 DEF RebootSteps, Acted
  <2>3. Mark(i, "reboot_mark", p, "reboot_send")
    BY <1>4 DEF RebootMark, Step, o
  <2> HIDE DEF p
  <2> QED
    BY <2>1, <2>2, <2>3, MarkKeeps DEF o
<1>5. CASE RebootRefused(i)
  <2>1. Passes(i, "reboot_mark", "reboot_fail", o.action)
    BY <1>1, <1>2 DEF RebootSteps, SendingSteps
  <2> QED
    BY <1>5, <2>1, MoveKeeps DEF RebootRefused, o
<1>6. CASE RebootSend(i)
  <2>1. PICK to \in {"reboot_sent", "reboot_lost"} : Goto(i, to)
    BY <1>6 DEF RebootSend
  <2>2. pc[i] = "reboot_send" /\ pc[i] \in SendingSteps
        /\ UNCHANGED <<db, script, vps, owned, main, edits>>
        /\ sent' \in {sent, sent \cup {i}}
    BY <1>6 DEF RebootSend, SendingSteps
  <2>3. faults' \in 0 .. MaxFaults
    BY <1>6, SpendCounts DEF RebootSend, IInv, TypeOK
  <2>4. World
    BY <1>1, <2>2, <2>3 DEF World, IInv, TypeOK
  <2>5. Passes(i, "reboot_send", to, o.action)
    BY <1>1, <1>2, <2>1, <2>2 DEF RebootSteps, SendingSteps
  <2> QED
    BY <2>1, <2>2, <2>4, <2>5, GoKeeps DEF o
<1>7. CASE RebootRecorded(i)
  <2>1. PICK from \in {"reboot_sent", "reboot_lost"},
             action \in {"SENT", "AMBIGUOUS"},
             to \in {"reboot_verify", "reboot_unclear"} :
          Mark(i, from, [o EXCEPT !.action = action], to)
    BY <1>7 DEF RebootRecorded, o
  <2>2. [o EXCEPT !.action = action] \in Operation
    BY <1>1 DEF Operation, ActionStates
  <2>3. Passes(i, from, to, action)
    BY <1>2 DEF RebootSteps, Acted
  <2> QED
    BY <1>1, <2>1, <2>2, <2>3, MarkKeeps DEF o, Operation
<1>8. CASE RebootPoll(i)
  <2>1. PICK step \in {"reboot_verify", "reboot_unclear"} : Mark(i, step, o, step)
    BY <1>8 DEF RebootPoll, o
  <2>2. Passes(i, step, step, o.action)
    BY <1>1, <1>2, <2>1 DEF Mark, RebootSteps, SendingSteps
  <2> QED
    BY <1>1, <2>1, <2>2, MarkKeeps DEF o
<1>9. CASE RebootVerified(i)
  <2>1. PICK status \in {"DONE", "FAILED", "TIMED_OUT", "AMBIGUOUS"},
             from \in {"reboot_verify", "reboot_unclear"} :
          Finish(i, from, [o EXCEPT !.status = status])
    BY <1>9 DEF RebootVerified, o
  <2>2. [o EXCEPT !.status = status] \in Operation
    BY <1>1 DEF Operation, Statuses, Terminal
  <2> QED
    BY <1>1, <2>1, <2>2, FinishKeeps DEF o, Operation
<1>10. CASE RebootFail(i)
  <2> DEFINE p == RebootVerdict(o)
  <2>1. /\ p \in Operation /\ p.kind = o.kind /\ p.rev = o.rev
        /\ o.action \in Acted => p.action \in Acted
    BY <1>1 DEF RebootVerdict, Operation, Statuses, Terminal, ActionStates, Acted
  <2>2. Finish(i, "reboot_fail", p)
    BY <1>10 DEF RebootFail, o
  <2> HIDE DEF p
  <2> QED
    BY <1>1, <2>1, <2>2, FinishKeeps DEF o
<1>11. CASE RebootFaults(i)
  <2>1. pc[i] \in RebootSteps
    BY <1>11 DEF RebootFaults, Stumble, RebootSteps
  <2>2. \A to \in {"reboot_fail", "reboot_dead", "off"} :
          Passes(i, pc[i], to, o.action)
    BY <1>1, <1>2, <2>1 DEF RebootSteps, SendingSteps
  <2>3. ASSUME Stumble(i, {"reboot_sent"}, "db", "reboot_lost")
        PROVE  Passes(i, pc[i], "reboot_lost", o.action)
    BY <1>1, <1>2, <2>3 DEF Stumble, RebootSteps, SendingSteps
  <2> QED
    BY <1>11, <2>2, <2>3, StumbleKeeps DEF RebootFaults, o
<1> QED
  BY <1>3, <1>4, <1>5, <1>6, <1>7, <1>8, <1>9, <1>10, <1>11 DEF Reboot

\* What a rotation does next is nothing of an install or a reboot.
RotationSteps == Steps \ (InstallSteps \cup RebootSteps)

\* What a worker may make of its row.
RowsOf(i) == {o \in Operation : o.kind = db.op[i].kind /\ o.rev = db.op[i].rev}

\* Another status, action or progress is all a worker writes.
LEMMA Writes ==
  ASSUME NEW i \in Ops, NEW o \in RowsOf(i)
  PROVE  /\ \A s \in Statuses : [o EXCEPT !.status = s] \in RowsOf(i)
         /\ \A s \in Statuses, a \in ActionStates :
              [o EXCEPT !.status = s, !.action = a] \in RowsOf(i)
         /\ \A a \in ActionStates : [o EXCEPT !.action = a] \in RowsOf(i)
         /\ \A a \in ActionStates, p \in Sends :
              /\ [o EXCEPT !.action = a, !.purchase = p] \in RowsOf(i)
              /\ [o EXCEPT !.action = a, !.main = p] \in RowsOf(i)
         /\ \A p \in Sends : /\ [o EXCEPT !.purchase = p] \in RowsOf(i)
                             /\ [o EXCEPT !.main = p] \in RowsOf(i)
         /\ \A a \in ActionStates, p \in Applies :
              [o EXCEPT !.action = a, !.apply = p] \in RowsOf(i)
         /\ \A p \in Applies : [o EXCEPT !.apply = p] \in RowsOf(i)
BY DEF RowsOf, Operation

\* A rotation's worker has sent no reboot, and may go anywhere in its own code.
LEMMA RotationPasses ==
  ASSUME IInv, NEW i \in Ops, IsRotation(db, i)
  PROVE  /\ i \notin sent /\ db.op[i] \in RowsOf(i)
         /\ \A from, action : \A to \in RotationSteps :
              Passes(i, from, to, action)
<1>1. i \notin sent /\ db.op[i] \in RowsOf(i)
  BY OwnRow DEF IsRotation, RowsOf
<1> QED
  BY <1>1 DEF Passes, RotationSteps, SendingSteps, RebootSteps

\* A rotation writes down how far it is.
LEMMA RotationMarkKeeps ==
  ASSUME IInv, NEW i \in Ops, IsRotation(db, i),
         NEW from, NEW to \in RotationSteps, NEW o \in RowsOf(i),
         Mark(i, from, o, to)
  PROVE  Fine
<1>1. Passes(i, from, to, o.action)
  BY RotationPasses
<1> QED
  BY <1>1, MarkKeeps DEF RowsOf

\* It gives up, or waits for something that has come.
LEMMA RotationMoveKeeps ==
  ASSUME IInv, NEW i \in Ops, IsRotation(db, i),
         NEW from, NEW to \in RotationSteps, Move(i, from, to)
  PROVE  Fine
BY RotationPasses, MoveKeeps

\* Its requests change what the provider has given, or routes.
LEMMA RequestKeeps ==
  ASSUME IInv, NEW i \in Ops, IsRotation(db, i), NEW from,
         NEW effect \in BOOLEAN, NEW to \in RotationSteps,
         NEW lost \in RotationSteps, Request(i, from, effect, to, lost),
         effect => owned' \subseteq Addresses /\ main' \in Addresses
  PROVE  Fine
<1>1. /\ pc[i] = from /\ UNCHANGED <<db, script, vps, sent, edits>>
      /\ Goto(i, to) \/ Goto(i, lost)
  BY DEF Request
<1>2. owned' \subseteq Addresses /\ main' \in Addresses
  BY DEF Request, IInv, TypeOK
<1>3. faults' \in 0 .. MaxFaults
  BY SpendCounts DEF Request, IInv, TypeOK
<1>4. World
  BY <1>1, <1>2, <1>3 DEF World, IInv, TypeOK
<1> QED
  BY <1>1, <1>4, RotationPasses, GoKeeps

\* Its transactions before the provider is asked to change the main address.
LEMMA PurchaseKeeps ==
  ASSUME IInv, NEW i \in Ops, IsRotation(db, i),
         \/ RotationList(i) \/ PurchaseMark(i) \/ PurchaseRecorded(i)
         \/ NewIpAppears(i) \/ GiveUpEarly(i)
  PROVE  Fine
<1> DEFINE o == db.op[i]
<1>1. o \in RowsOf(i)
  BY RotationPasses
<1>2. {"purchase_mark", "purchase", "wait_new_ipv4", "give_up", "main_mark"}
        \subseteq RotationSteps
  BY DEF RotationSteps, Steps, InstallSteps, RebootSteps
<1>3. /\ {"RUNNING"} \subseteq Statuses
      /\ {"PURCHASE_SENDING", "PURCHASE_SENT", "AMBIGUOUS",
          "PURCHASE_CONFIRMED"} \subseteq ActionStates
      /\ {"SENDING", "SENT", "AMBIGUOUS", "CONFIRMED"} \subseteq Sends
  BY DEF Statuses, ActionStates, Sends
<1>4. CASE RotationList(i)
  BY <1>1, <1>2, <1>3, <1>4, Writes, RotationMarkKeeps DEF RotationList
<1>5. CASE PurchaseMark(i)
  BY <1>1, <1>2, <1>3, <1>5, Writes, RotationMarkKeeps DEF PurchaseMark, Step
<1>6. CASE PurchaseRecorded(i)
  BY <1>1, <1>2, <1>3, <1>6, Writes, RotationMarkKeeps DEF PurchaseRecorded
<1>7. CASE NewIpAppears(i)
  BY <1>1, <1>2, <1>3, <1>7, Writes, RotationMarkKeeps DEF NewIpAppears, Step
<1>8. CASE GiveUpEarly(i)
  BY <1>2, <1>8, RotationMoveKeeps DEF GiveUpEarly
<1> QED
  BY <1>4, <1>5, <1>6, <1>7, <1>8

\* From the main address on, until the new one is published.
LEMMA MainKeeps ==
  ASSUME IInv, NEW i \in Ops, IsRotation(db, i),
         \/ MainMark(i) \/ MainRecorded(i) \/ ConfirmMain(i) \/ ApplyMark(i)
         \/ Apply(i) \/ ApplyEnds(i) \/ ApplyRecorded(i) \/ Health(i)
         \/ GiveUpLate(i)
  PROVE  Fine
<1> DEFINE o == db.op[i]
<1>1. o \in RowsOf(i)
  BY RotationPasses
<1>2. {"make_main", "confirm_main", "undo", "wait_ssh", "apply", "apply_wait",
       "applied", "apply_failed", "apply_lost", "health", "publish"}
        \subseteq RotationSteps
  BY DEF RotationSteps, Steps, InstallSteps, RebootSteps
<1>3. /\ {"RUNNING"} \subseteq Statuses
      /\ {"MAKE_MAIN_SENDING", "MAIN_CHANGED", "AMBIGUOUS", "MAIN_CONFIRMED",
          "APPLYING", "APPLIED", "APPLY_FAILED"} \subseteq ActionStates
      /\ {"SENDING", "SENT", "AMBIGUOUS", "CONFIRMED"} \subseteq Sends
      /\ {"RUNNING", "APPLIED", "FAILED", "AMBIGUOUS"} \subseteq Applies
  BY DEF Statuses, ActionStates, Sends, Applies
<1>4. CASE MainMark(i)
  BY <1>1, <1>2, <1>3, <1>4, Writes, RotationMarkKeeps DEF MainMark, Step
<1>5. CASE MainRecorded(i)
  BY <1>1, <1>2, <1>3, <1>5, Writes, RotationMarkKeeps DEF MainRecorded
<1>6. CASE ConfirmMain(i)
  BY <1>1, <1>2, <1>3, <1>6, Writes, RotationMarkKeeps DEF ConfirmMain, Step
<1>7. CASE ApplyMark(i)
  BY <1>1, <1>2, <1>3, <1>7, Writes, RotationMarkKeeps DEF ApplyMark, Step
<1>8. CASE Apply(i)
  <2>1. World /\ sent' = sent
    BY <1>8, LaunchKeeps DEF Apply
  <2>2. Passes(i, "apply", "apply_wait", o.action)
    BY <1>2, RotationPasses
  <2> QED
    BY <1>8, <2>1, <2>2, GoKeeps DEF Apply
<1>9. CASE ApplyEnds(i)
  BY <1>2, <1>9, RotationMoveKeeps DEF ApplyEnds
<1>10. CASE ApplyRecorded(i)
  BY <1>1, <1>2, <1>3, <1>10, Writes, RotationMarkKeeps DEF ApplyRecorded
<1>11. CASE Health(i)
  BY <1>1, <1>2, <1>3, <1>11, Writes, RotationMarkKeeps DEF Health
<1>12. CASE GiveUpLate(i)
  BY <1>2, <1>12, RotationMoveKeeps DEF GiveUpLate
<1> QED
  BY <1>4, <1>5, <1>6, <1>7, <1>8, <1>9, <1>10, <1>11, <1>12

\* The publication, the clean-up and the way back.
LEMMA EndingKeeps ==
  ASSUME IInv, NEW i \in Ops, IsRotation(db, i),
         \/ PublishIp(i) \/ CleanupMark(i) \/ CleanupRecorded(i)
         \/ RotationDone(i) \/ UndoMark(i) \/ UnmakeMainRefused(i)
         \/ UndoRecorded(i) \/ GiveUp(i)
  PROVE  Fine
<1> DEFINE o == db.op[i]
<1>1. o \in RowsOf(i) /\ i \notin sent
  BY RotationPasses
<1>2. {"finish_awg", "cleanup_mark", "cleanup", "finish", "finish_unclear",
       "unmake_main", "undo_lost", "give_up"} \subseteq RotationSteps
  BY DEF RotationSteps, Steps, InstallSteps, RebootSteps
<1>3. /\ {"RUNNING", "DONE", "FAILED", "AMBIGUOUS"} \subseteq Statuses
      /\ {"CLEANUP_SENDING", "CLEANUP_CONFIRMED", "CLEANUP_AMBIGUOUS", "DONE",
          "PUBLISHED_AWAITING_AWG_CHECK", "ROLLING_BACK", "ROLLED_BACK",
          "AMBIGUOUS", "FAILED"} \subseteq ActionStates
  BY DEF Statuses, Terminal, ActionStates
<1>4. ASSUME NEW from, NEW p \in RowsOf(i), Finish(i, from, p)
      PROVE  Fine
  BY <1>1, <1>4, FinishKeeps DEF RowsOf
<1>5. CASE PublishIp(i)
  <2>1. /\ pc[i] = "publish" /\ db' = Publish(db, i) /\ Quietly
        /\ db.desired = db.op[i].rev /\ db.desired < MaxRev
    BY <1>5 DEF PublishIp, Bound, Rev
  <2>2. PICK to \in {"finish_awg", "cleanup_mark"} : Goto(i, to)
    BY <1>5 DEF PublishIp
  <2>3. DbInv(db) /\ db.op[i].kind = "IP_CHANGE" /\ pc \in [Ops -> Steps]
    BY DEF IInv, IsRotation, TypeOK
  <2>4. /\ DbInv(db') /\ db'.applied >= db.applied
        /\ \A j \in Ops : db'.op[j].kind = db.op[j].kind
        /\ \A j \in Ops \ {i} : db'.op[j] = db.op[j]
    BY <2>1, <2>3, PublishKeeps
  <2>5. World /\ sent' = sent
    BY <2>1, QuietWorld
  <2>6. Others(i) /\ Rows(i) /\ pc'[i] = to
    BY <2>2, <2>3, <2>4, <2>5 DEF Others, Rows, Goto
  <2>7. to \in RotationSteps
    BY <1>2
  <2>8. Actor(i)'
    BY <1>1, <2>5, <2>6, <2>7
       DEF Actor, RotationSteps, SendingSteps, RebootSteps
  <2> QED
    BY <2>2, <2>4, <2>5, <2>6, <2>7, <2>8, StepKeeps DEF RotationSteps
<1>6. CASE CleanupMark(i)
  BY <1>1, <1>2, <1>3, <1>6, Writes, RotationMarkKeeps DEF CleanupMark, Step
<1>7. CASE CleanupRecorded(i)
  BY <1>1, <1>2, <1>3, <1>7, Writes, RotationMarkKeeps DEF CleanupRecorded
<1>8. CASE RotationDone(i)
  BY <1>1, <1>3, <1>4, <1>8, Writes DEF RotationDone, Done
<1>9. CASE UndoMark(i)
  BY <1>1, <1>2, <1>3, <1>9, Writes, RotationMarkKeeps DEF UndoMark
<1>10. CASE UnmakeMainRefused(i)
  BY <1>2, <1>10, RotationMoveKeeps DEF UnmakeMainRefused
<1>11. CASE UndoRecorded(i)
  BY <1>1, <1>2, <1>3, <1>11, Writes, RotationMarkKeeps DEF UndoRecorded
<1>12. CASE GiveUp(i)
  <2>1. Verdict(o) \in RowsOf(i)
    BY <1>1, <1>3, Writes DEF Verdict
  <2> QED
    BY <1>4, <1>12, <2>1 DEF GiveUp
<1> QED
  BY <1>5, <1>6, <1>7, <1>8, <1>9, <1>10, <1>11, <1>12

\* The requests: a purchase, a new main address, a clean-up and the way back.
LEMMA ProviderKeeps ==
  ASSUME IInv, NEW i \in Ops, IsRotation(db, i),
         Purchase(i) \/ MakeMain(i) \/ Cleanup(i) \/ UnmakeMain(i)
  PROVE  Fine
<1>1. /\ owned \subseteq Addresses /\ main \in Addresses
      /\ NewIp(i) \in Addresses
  BY Bounds DEF IInv, TypeOK, NewIp, Addresses, Ops
<1>2. {"purchased", "purchase_lost", "main_changed", "main_lost", "cleaned",
       "cleanup_lost", "undone", "undo_lost"} \subseteq RotationSteps
  BY DEF RotationSteps, Steps, InstallSteps, RebootSteps
<1>3. OldIp(i) \in Addresses
  <2>1. DbInv(db) /\ db.op[i].kind = "IP_CHANGE"
    BY DEF IInv, IsRotation
  <2>2. Rev(i) \in Revs /\ db.snap \in [Revs -> Snapshot]
    BY <2>1, Fields, Bounds DEF DbInv, Prepared, Rev, Revs
  <2> QED
    BY <2>2 DEF OldIp, Snapshot, Body
<1>4. CASE Purchase(i)
  BY <1>1, <1>2, <1>4, RequestKeeps DEF Purchase
<1>5. CASE MakeMain(i)
  BY <1>1, <1>2, <1>5, RequestKeeps DEF MakeMain
<1>6. CASE Cleanup(i)
  BY <1>1, <1>2, <1>6, RequestKeeps DEF Cleanup
<1>7. CASE UnmakeMain(i)
  BY <1>1, <1>2, <1>3, <1>7, RequestKeeps DEF UnmakeMain
<1> QED
  BY <1>4, <1>5, <1>6, <1>7

\* What stops a rotation, or turns it back.
LEMMA RotationFaultKeeps ==
  ASSUME IInv, NEW i \in Ops, RotationFaults(i)
  PROVE  Fine
<1>1. {"give_up", "undo", "apply_lost", "cleanup_lost", "off", "rotation_dead"}
        \subseteq RotationSteps
  BY DEF RotationSteps, Steps, InstallSteps, RebootSteps
<1>2. db.op[i] \in Operation /\ (i \in sent => db.op[i].action \in Acted)
  BY OwnRow
<1>3. \A to \in RotationSteps : Passes(i, pc[i], to, db.op[i].action)
  BY <1>2 DEF Passes, RotationSteps, SendingSteps, RebootSteps
<1> QED
  BY <1>1, <1>3, StumbleKeeps DEF RotationFaults

\* run_ip_change, with Aeza.
LEMMA RotationKeeps ==
  ASSUME IInv, NEW i \in Ops, Rotation(i)
  PROVE  Fine
BY PurchaseKeeps, MainKeeps, EndingKeeps, ProviderKeeps DEF Rotation

-----------------------------------------------------------------------------
(***************************************************************************)
(* The scripts, the administrators and the process.                        *)
(***************************************************************************)
\* A script that ends changes what the server serves, and nothing else.
LEMMA ScriptKeeps ==
  ASSUME IInv, NEW i \in Ops, ScriptEnds(i)
  PROVE  Fine
<1>1. /\ UNCHANGED <<db, pc, owned, main, sent, faults, edits>>
      /\ DbInv(db) /\ db.applied \in Nat /\ Actor(i) /\ "off" \in Steps
  BY Fields DEF ScriptEnds, IInv, TypeOK, Actors, Steps
<1>2. db.op[i].rev \in 0 .. MaxRev
  BY OwnRow DEF Operation
<1>3. World
  BY <1>2 DEF ScriptEnds, IInv, TypeOK, World, Rev, ScriptStates
<1>4. Rows(i) /\ Others(i) /\ Actor(i)'
  BY <1>1 DEF Rows, Others, Actor
<1> QED
  BY <1>1, <1>3, <1>4, StepKeeps

\* An operation begins on a row that was not used.
LEMMA BeginKeeps ==
  ASSUME IInv, NEW i \in Ops, NEW kind \in Kinds, NEW step \in Steps, NEW d,
         Begin(i, kind, step, d),
         DbInv(d), d.applied = db.applied, d.op[i].kind = kind,
         \A j \in Ops \ {i} :
           /\ d.op[j].kind = db.op[j].kind
           /\ db.op[j].kind = "REBOOT" /\ db.op[j].action \in Acted =>
                d.op[j].action \in Acted,
         step \in InstallSteps => kind = "INSTALL",
         step \in RebootSteps => kind = "REBOOT",
         step \notin SendingSteps
  PROVE  Fine
<1>1. /\ db' = d /\ Goto(i, step) /\ Quietly /\ db.op[i].kind = "none"
  BY DEF Begin, NextId
<1>2. /\ db.applied \in Nat /\ pc \in [Ops -> Steps] /\ i \notin sent
  BY <1>1, Fields, OwnRow DEF IInv, TypeOK
<1>3. World /\ sent' = sent
  BY <1>1, QuietWorld
<1>4. Others(i) /\ Rows(i) /\ Actor(i)'
  BY <1>1, <1>2, <1>3 DEF Others, Rows, Actor, Goto
<1> QED
  BY <1>1, <1>2, <1>3, <1>4, StepKeeps

\* The four operations an administrator may start.
LEMMA StartKeeps ==
  ASSUME IInv, NEW i \in Ops,
         StartInstall(i) \/ StartRotation(i) \/ StartReboot(i) \/ StartStatus(i)
  PROVE  Fine
<1>1. /\ DbInv(db) /\ db.desired \in Revs /\ MaxRev \in Nat
      /\ db.desired \in 0 .. MaxRev /\ db.desired \in 1 .. db.desired
      /\ 0 \in 0 .. MaxRev
  BY Fields, Bounds DEF IInv, DbInv, Revs
<1>2. ASSUME NEW again \in BOOLEAN, NEW kind \in {"INSTALL", "IP_CHANGE"}
      PROVE  LET e == CreateOperation(EnsureSnapshot(db, again), i, kind,
                                      db.desired)
             IN  /\ DbInv(e) /\ e.applied = db.applied /\ e.op[i].kind = kind
                 /\ \A j \in Ops \ {i} :
                      /\ e.op[j].kind = db.op[j].kind
                      /\ db.op[j].kind = "REBOOT" /\ db.op[j].action \in Acted =>
                           e.op[j].action \in Acted
  <2> DEFINE d == EnsureSnapshot(db, again)
  <2>1. /\ DbInv(d) /\ d.snap[d.desired].life # "none" /\ d.op = db.op
        /\ d.desired = db.desired /\ d.applied = db.applied
    BY <1>1, EnsureKeeps
  <2>2. kind \in Kinds
    BY DEF Kinds
  <2> HIDE DEF d
  <2>3. LET e == CreateOperation(d, i, kind, db.desired)
        IN  /\ DbInv(e) /\ e.applied = d.applied /\ e.op[i].kind = kind
            /\ \A j \in Ops \ {i} :
                 /\ e.op[j].kind = d.op[j].kind
                 /\ d.op[j].kind = "REBOOT" /\ d.op[j].action \in Acted =>
                      e.op[j].action \in Acted
    BY <1>1, <2>1, <2>2, CreateKeeps
  <2> QED
    BY <2>1, <2>3 DEF d
<1>3. ASSUME NEW kind \in {"REBOOT", "STATUS"}
      PROVE  LET e == CreateOperation(db, i, kind, 0)
             IN  /\ DbInv(e) /\ e.applied = db.applied /\ e.op[i].kind = kind
                 /\ \A j \in Ops \ {i} :
                      /\ e.op[j].kind = db.op[j].kind
                      /\ db.op[j].kind = "REBOOT" /\ db.op[j].action \in Acted =>
                           e.op[j].action \in Acted
  <2>1. kind \in Kinds
    BY DEF Kinds
  <2> QED
    BY <1>1, <2>1, CreateKeeps
<1>4. /\ {"install", "get_ipv4_list", "reboot", "status"} \subseteq Steps
      /\ {"get_ipv4_list", "reboot", "status"} \cap InstallSteps = {}
      /\ {"install", "get_ipv4_list", "status"} \cap RebootSteps = {}
      /\ {"install", "get_ipv4_list", "reboot", "status"} \cap SendingSteps = {}
      /\ {"INSTALL", "IP_CHANGE", "REBOOT", "STATUS"} \subseteq Kinds
  BY DEF Steps, InstallSteps, RebootSteps, SendingSteps, Kinds
<1>5. CASE StartInstall(i)
  <2> DEFINE d == PrepareInstall(db, i)
  <2>1. Begin(i, "INSTALL", "install", d)
    BY <1>5 DEF StartInstall
  <2>2. d = CreateOperation(EnsureSnapshot(db, TRUE), i, "INSTALL", db.desired)
    BY DEF PrepareInstall
  <2>3. /\ DbInv(d) /\ d.applied = db.applied /\ d.op[i].kind = "INSTALL"
        /\ \A j \in Ops \ {i} :
             /\ d.op[j].kind = db.op[j].kind
             /\ db.op[j].kind = "REBOOT" /\ db.op[j].action \in Acted =>
                  d.op[j].action \in Acted
    BY <1>2, <2>2
  <2> HIDE DEF d
  <2> QED
    BY <1>4, <2>1, <2>3, BeginKeeps
<1>6. CASE StartRotation(i)
  <2> DEFINE d == PrepareRotation(db, i)
  <2>1. Begin(i, "IP_CHANGE", "get_ipv4_list", d)
    BY <1>6 DEF StartRotation
  <2>2. d = CreateOperation(EnsureSnapshot(db, FALSE), i, "IP_CHANGE", db.desired)
    BY DEF PrepareRotation
  <2>3. /\ DbInv(d) /\ d.applied = db.applied /\ d.op[i].kind = "IP_CHANGE"
        /\ \A j \in Ops \ {i} :
             /\ d.op[j].kind = db.op[j].kind
             /\ db.op[j].kind = "REBOOT" /\ db.op[j].action \in Acted =>
                  d.op[j].action \in Acted
    BY <1>2, <2>2
  <2> HIDE DEF d
  <2> QED
    BY <1>4, <2>1, <2>3, BeginKeeps
<1>7. CASE StartReboot(i) \/ StartStatus(i)
  <2>1. PICK kind \in {"REBOOT", "STATUS"}, step \in {"reboot", "status"} :
          /\ Begin(i, kind, step, CreateOperation(db, i, kind, 0))
          /\ step = "reboot" => kind = "REBOOT"
    BY <1>7 DEF StartReboot, StartStatus
  <2> DEFINE d == CreateOperation(db, i, kind, 0)
  <2>2. /\ DbInv(d) /\ d.applied = db.applied /\ d.op[i].kind = kind
        /\ \A j \in Ops \ {i} :
             /\ d.op[j].kind = db.op[j].kind
             /\ db.op[j].kind = "REBOOT" /\ db.op[j].action \in Acted =>
                  d.op[j].action \in Acted
    BY <1>3
  <2>3. /\ step \in Steps /\ step \notin InstallSteps
        /\ step \notin SendingSteps /\ kind \in Kinds
        /\ step \in RebootSteps => kind = "REBOOT"
    BY <1>4, <2>1
  <2> HIDE DEF d
  <2> QED
    BY <2>1, <2>2, <2>3, BeginKeeps DEF d
<1> QED
  BY <1>5, <1>6, <1>7

\* An administrator edits a client or a setting.
LEMMA EditStep ==
  ASSUME IInv, NEW d \in Database, Edit(d),
         d.desired = db.desired + 1,
         d.applied = db.applied /\ d.snap = db.snap /\ d.op = db.op,
         \A c \in Clients :
           \/ d.client[c] = db.client[c]
           \/ d.client[c].state \in {"enabled", "disabled"}
           \/ d.client[c].state = "deleted" /\ d.client[c].gone = d.desired
  PROVE  Fine
<1>1. /\ DbInv(db) /\ db.desired \in Nat /\ db.applied \in Nat
      /\ MaxOps \in Nat /\ MaxRev \in Nat
  BY Fields, Bounds DEF IInv, DbInv
<1>2. db' = d /\ UNCHANGED <<pc, script, vps, owned, main, sent, faults>>
  BY DEF Edit, world
<1>3. db.desired < MaxRev
  BY <1>1 DEF Edit
<1>4. DbInv(d)
  BY <1>1, <1>3, EditKeeps
<1>5. edits' \in 0 .. MaxEdits
  BY OperationsAssumption DEF Edit, IInv, TypeOK
<1>6. TypeOK'
  BY <1>2, <1>5 DEF IInv, TypeOK
<1>7. Actors'
  BY <1>2 DEF IInv, Actors, Actor
<1> QED
  BY <1>1, <1>2, <1>4, <1>6, <1>7 DEF Fine, IInv

\* A client is added, switched, or removed, or a setting changes.
LEMMA EditsKeep ==
  ASSUME IInv,
         \/ \E c \in Clients : AddClient(c) \/ ToggleClient(c) \/ RemoveClient(c)
         \/ \E a \in Addresses : ChangeAddress(a)
         \/ ChangeSetting
  PROVE  Fine
<1>1. /\ db \in Database /\ db.desired \in Nat /\ db.desired \in Revs
      /\ db.client \in [Clients -> Client]
      /\ MaxOps \in Nat /\ MaxRev \in Nat
  BY Fields, Bounds DEF IInv, DbInv
<1>2. ASSUME NEW d, Edit(d) PROVE db.desired + 1 \in Revs
  BY <1>1, <1>2 DEF Edit, Revs
<1>3. ASSUME NEW client \in [Clients -> Client], db.desired + 1 \in Revs
      PROVE  LET d == [[db EXCEPT !.client = client] EXCEPT !.desired = @ + 1]
             IN  /\ d \in Database /\ d.desired = db.desired + 1
                 /\ d.applied = db.applied /\ d.snap = db.snap
                 /\ d.op = db.op /\ d.client = client
  BY <1>1, <1>3 DEF Database
<1>4. CASE ChangeSetting
  <2> DEFINE d == [[db EXCEPT !.client = db.client] EXCEPT !.desired = @ + 1]
  <2>1. NewRevision(db) = d
    BY <1>1 DEF NewRevision, Database
  <2>2. Edit(d)
    BY <1>4, <2>1 DEF ChangeSetting
  <2>3. /\ d \in Database /\ d.desired = db.desired + 1
        /\ d.applied = db.applied /\ d.snap = db.snap
        /\ d.op = db.op /\ d.client = db.client
    BY <1>1, <1>2, <1>3, <2>2
  <2> HIDE DEF d
  <2> QED
    BY <2>2, <2>3, EditStep
<1>8. ASSUME NEW a \in Addresses, ChangeAddress(a)
      PROVE  Fine
  <2> DEFINE d == SetCurrentIp(db, a)
  <2>1. Edit(d)
    BY <1>8 DEF ChangeAddress
  <2>2. /\ d \in Database /\ d.desired = db.desired + 1
        /\ d.applied = db.applied /\ d.snap = db.snap
        /\ d.op = db.op /\ d.client = db.client
    BY <1>1, <1>2, <2>1 DEF SetCurrentIp, NewRevision, Database
  <2> HIDE DEF d
  <2> QED
    BY <2>1, <2>2, EditStep
<1>5. ASSUME NEW c \in Clients, NEW state \in {"enabled", "disabled"},
             NEW d, d = NewRevision([db EXCEPT !.client[c].state = state]),
             Edit(d)
      PROVE  Fine
  <2> DEFINE client == [db.client EXCEPT ![c].state = state]
  <2>1. client \in [Clients -> Client]
    BY <1>1 DEF Client
  <2>2. d = [[db EXCEPT !.client = client] EXCEPT !.desired = @ + 1]
    BY <1>1, <1>5 DEF NewRevision, Database
  <2>3. \A x \in Clients : \/ client[x] = db.client[x]
                           \/ client[x].state \in {"enabled", "disabled"}
    BY <1>1 DEF Client
  <2> HIDE DEF client
  <2>4. /\ d \in Database /\ d.desired = db.desired + 1
        /\ d.applied = db.applied /\ d.snap = db.snap
        /\ d.op = db.op /\ d.client = client
    <3>1. db.desired + 1 \in Revs
      BY <1>2, <1>5
    <3> QED
      BY <1>3, <2>1, <2>2, <3>1
  <2> QED
    BY <1>5, <2>3, <2>4, EditStep
<1>6. ASSUME NEW c \in Clients, AddClient(c) \/ ToggleClient(c)
      PROVE  Fine
  BY <1>5, <1>6 DEF AddClient, ToggleClient, CreateClient, SetClientEnabled
<1>7. ASSUME NEW c \in Clients, RemoveClient(c)
      PROVE  Fine
  <2> DEFINE d == DeleteClient(db, c)
             gone == [state |-> "deleted", gone |-> db.desired + 1]
             client == [db.client EXCEPT ![c] = gone]
  <2>1. Edit(d)
    BY <1>7 DEF RemoveClient
  <2>2. db.desired + 1 \in Revs
    BY <1>2, <2>1
  <2>3. gone \in Client
    BY <1>1, <2>2 DEF Client, Revs
  <2>4. client \in [Clients -> Client]
    BY <1>1, <2>3
  <2>5. d = [[db EXCEPT !.client = client] EXCEPT !.desired = @ + 1]
    BY <1>1 DEF DeleteClient, NewRevision, Database
  <2>6. \A x \in Clients : client[x] = db.client[x] \/ client[x] = gone
    BY <1>1
  <2> HIDE DEF client, d
  <2>7. /\ d \in Database /\ d.desired = db.desired + 1
        /\ d.applied = db.applied /\ d.snap = db.snap
        /\ d.op = db.op /\ d.client = client
    BY <1>3, <2>2, <2>4, <2>5
  <2> QED
    BY <2>1, <2>6, <2>7, EditStep
<1> QED
  BY <1>4, <1>6, <1>7, <1>8

\* The person's decision on a rotation.
LEMMA ReconcileKeeps ==
  ASSUME IInv, NEW i \in Ops, Reconcile(i)
  PROVE  Fine
<1>1. /\ IsRotation(db, i) /\ db' = Reconciled(db, i) /\ main' = db.published
      /\ UNCHANGED <<pc, script, vps, owned, sent, faults, edits>>
  BY DEF Reconcile, CanReconcile
<1> DEFINE o == [db.op[i] EXCEPT !.action = "RECONCILED"]
<1>2. /\ db \in Database /\ DbInv(db) /\ db.op \in [Ops -> Operation]
      /\ db.published \in Addresses /\ db.applied \in Nat /\ pc[i] \in Steps
      /\ i \notin sent /\ Actor(i)
  BY <1>1, Fields, OwnRow DEF IInv, DbInv, IsRotation
<1>3. /\ o \in Operation /\ o.kind = "IP_CHANGE" /\ o.rev = db.op[i].rev
      /\ o.kind = db.op[i].kind
  BY <1>1, <1>2 DEF Operation, ActionStates, IsRotation
<1>4. db' = [db EXCEPT !.op[i] = o]
  BY <1>1, <1>2 DEF Reconciled, Database
<1> HIDE DEF o
<1>5. Alike(db, db') /\ db'.op = [db.op EXCEPT ![i] = o]
  <2>1. LET e == [db EXCEPT !.op[i] = o]
        IN  Alike(db, e) /\ e.op = [db.op EXCEPT ![i] = o]
    BY <1>2, <1>3, OpAlike
  <2> QED
    BY <1>4, <2>1
<1>6. DbInv(db') /\ db'.applied >= db.applied
  BY <1>2, <1>5, AlikeKeeps DEF Alike
<1>7. World
  BY <1>1, <1>2 DEF IInv, TypeOK, World
<1>8. Rows(i) /\ Others(i)
  BY <1>1, <1>2, <1>5 DEF Rows, Others
<1>9. Actor(i)'
  <2>1. db'.op[i].kind = "IP_CHANGE" /\ pc' = pc /\ sent' = sent
    BY <1>1, <1>2, <1>3, <1>5
  <2>2. db.op[i].kind = "IP_CHANGE"
    BY <1>1 DEF IsRotation
  <2>3. pc[i] \notin InstallSteps \cup RebootSteps /\ i \notin sent
    BY <1>2, <2>2 DEF Actor
  <2>4. SendingSteps \subseteq RebootSteps
    BY DEF SendingSteps, RebootSteps
  <2> QED
    BY <2>1, <2>3, <2>4 DEF Actor
<1> QED
  BY <1>1, <1>2, <1>6, <1>7, <1>8, <1>9, StepKeeps

\* The environment is in no table.
LEMMA EnvironmentKeeps ==
  ASSUME NEW d, DbInv(d), NEW env \in Environments
  PROVE  LET e == [d EXCEPT !.env = env]
         IN  DbInv(e) /\ e.applied = d.applied /\ e.op = d.op
<1> DEFINE e == [d EXCEPT !.env = env]
<1>1. /\ e \in Database /\ e.snap = d.snap /\ e.desired = d.desired
      /\ e.applied = d.applied /\ e.client = d.client /\ e.ip = d.ip
      /\ e.op = d.op
  BY DEF DbInv, Database
<1> HIDE DEF e
<1>2. DbInv(e)
  BY <1>1 DEF DbInv, Sound, Current, Enabled, Reserved, Prepared
<1> QED
  BY <1>1, <1>2 DEF e

\* The panel starts again, and no worker is left.
LEMMA RestartKeeps ==
  ASSUME IInv, Restart \/ \E env \in Environments : ChangeEnvironment(env)
  PROVE  Fine
<1> DEFINE d == RecoverIncomplete(db)
<1>1. /\ pc' = [i \in Ops |-> "off"]
      /\ UNCHANGED <<script, vps, owned, main, sent>>
      /\ faults' \in 0 .. MaxFaults /\ edits' \in 0 .. MaxEdits
  BY SpendCounts, OperationsAssumption
     DEF Restart, ChangeEnvironment, world, IInv, TypeOK
<1>2. DbInv(db) /\ db \in Database /\ db.applied \in Nat
  BY Fields DEF IInv, DbInv
<1>3. Alike(db, d) /\ Remembers(db, d)
  BY <1>2, RecoverAlike
<1>4. DbInv(d) /\ d.applied = db.applied
  BY <1>2, <1>3, AlikeKeeps DEF Alike
<1>5. db' = d \/ \E env \in Environments : db' = [d EXCEPT !.env = env]
  BY DEF Restart, ChangeEnvironment
<1> HIDE DEF d
<1>6. DbInv(db') /\ db'.applied >= db.applied /\ db'.op = d.op
  <2>1. CASE db' = d
    BY <1>2, <1>4, <2>1
  <2>2. ASSUME NEW env \in Environments, db' = [d EXCEPT !.env = env]
        PROVE  DbInv(db') /\ db'.applied = d.applied /\ db'.op = d.op
    BY <1>4, <2>2, EnvironmentKeeps
  <2>3. db.applied >= db.applied
    BY <1>2
  <2> QED
    BY <1>4, <1>5, <2>1, <2>2, <2>3
<1>7. "off" \in Steps \ (InstallSteps \cup RebootSteps \cup SendingSteps)
  BY DEF Steps, InstallSteps, RebootSteps, SendingSteps
<1>8. TypeOK'
  BY <1>1, <1>6, <1>7 DEF IInv, TypeOK, DbInv
<1>9. ASSUME NEW i \in Ops PROVE Actor(i)'
  <2>1. i \in sent => db.op[i].kind = "REBOOT" /\ db.op[i].action \in Acted
    BY OwnRow
  <2>2. i \in sent => db'.op[i].kind = "REBOOT" /\ db'.op[i].action \in Acted
    BY <1>3, <1>6, <2>1 DEF Alike, Remembers
  <2> QED
    BY <1>1, <1>7, <2>2 DEF Actor
<1> QED
  BY <1>6, <1>8, <1>9 DEF Fine, IInv, Actors

\* A lease runs out.
LEMMA ExpireKeeps ==
  ASSUME IInv, Expire
  PROVE  Fine
<1> DEFINE e == [db EXCEPT !.lease = db.lease, !.expired = TRUE]
<1>1. /\ DbInv(db) /\ db \in Database /\ db.applied \in Nat
      /\ db.lease \in 0 .. MaxOps
  BY Fields DEF IInv, DbInv
<1>2. db' = e
  BY <1>1 DEF Expire, Database
<1>3. /\ UNCHANGED <<pc, script, vps, owned, main, sent, edits>>
      /\ faults' \in 0 .. MaxFaults
  BY SpendCounts DEF Expire, world
<1>4. Alike(db, db') /\ db'.op = db.op
  BY <1>1, <1>2, LeaseAlike
<1>5. DbInv(db') /\ db'.applied >= db.applied
  BY <1>1, <1>4, AlikeKeeps DEF Alike
<1>6. TypeOK' /\ Actors'
  BY <1>3, <1>4, <1>5 DEF IInv, TypeOK, DbInv, Actors, Actor
<1> QED
  BY <1>5, <1>6 DEF Fine, IInv

-----------------------------------------------------------------------------
(***************************************************************************)
(* The theorems.                                                           *)
(***************************************************************************)
\* A panel that has never installed anything satisfies the invariant.
LEMMA InitKeeps ==
  ASSUME Init
  PROVE  IInv
<1> DEFINE d == InitialDatabase(InitialClients)
<1>1. /\ MaxOps \in Nat /\ MaxRev \in Nat /\ 1 \in Revs /\ 1 \in Addresses
      /\ MaxFaults \in Nat /\ MaxEdits \in Nat
  BY Bounds, OperationsAssumption DEF Addresses
<1>2. NoOperation("none", 0) \in Operation
      /\ NoOperation("none", 0).kind = "none"
  BY <1>1 DEF NoOperation, Operation, Kinds, Statuses, ActionStates, Sends,
              Applies
<1>3. /\ d.desired = 1 /\ d.applied = 0
      /\ d.op = [i \in Ops |-> NoOperation("none", 0)]
      /\ \A r \in Revs : d.snap[r].life = "none"
  BY DEF InitialDatabase
<1>4. d \in Database
  BY <1>1, <1>2, Bounds DEF InitialDatabase, Database, Snapshot, Body, Client
<1> HIDE DEF d
<1>5. DbInv(d)
  BY <1>1, <1>2, <1>3, <1>4
     DEF DbInv, Sound, Current, Reserved, Prepared, Revs
<1>6. TypeOK
  BY <1>1, <1>4 DEF Init, TypeOK, Steps, ScriptStates, d
<1>7. Actors
  BY DEF Init, Actors, Actor, InstallSteps, RebootSteps, SendingSteps
<1> QED
  BY <1>5, <1>6, <1>7 DEF Init, IInv, d

\* Every step keeps it, and takes the applied revision back nowhere.
LEMMA NextKeeps ==
  ASSUME IInv, [Next]_vars
  PROVE  Fine
<1>1. CASE UNCHANGED vars
  <2>1. db.applied \in Nat
    BY Fields DEF IInv, TypeOK
  <2>2. UNCHANGED <<db, pc, script, vps, owned, main, sent, faults, edits>>
    BY <1>1 DEF vars, world
  <2> QED
    BY <2>1, <2>2 DEF Fine, IInv, TypeOK, Actors, Actor
<1>2. ASSUME NEW i \in Ops, Worker(i) \/ WorkerFaults(i)
      PROVE  Fine
  BY <1>2, InstallKeeps, RotationKeeps, RotationFaultKeeps, RebootKeeps,
     StatusKeeps DEF Worker, WorkerFaults
<1>3. ASSUME NEW i \in Ops,
             \/ ScriptEnds(i) \/ Reconcile(i)
             \/ StartInstall(i) \/ StartRotation(i)
             \/ StartReboot(i) \/ StartStatus(i)
      PROVE  Fine
  BY <1>3, ScriptKeeps, ReconcileKeeps, StartKeeps
<1>4. CASE \/ \E c \in Clients : AddClient(c) \/ ToggleClient(c) \/ RemoveClient(c)
           \/ \E a \in Addresses : ChangeAddress(a)
           \/ ChangeSetting
  BY <1>4, EditsKeep
<1>5. CASE \/ Restart \/ Expire
           \/ \E env \in Environments : ChangeEnvironment(env)
  BY <1>5, RestartKeeps, ExpireKeeps
<1> QED
  BY <1>1, <1>2, <1>3, <1>4, <1>5 DEF Next

\* The invariant holds in every state, whatever the operations, the faults and
\* the edits (vpn_state.py, operation_coordinator.py, server_operations.py).
THEOREM DatabaseInductive == Spec => []IInv
<1>1. Init => IInv
  BY InitKeeps
<1>2. IInv /\ [Next]_vars => IInv'
  BY NextKeeps DEF Fine
<1> QED
  BY <1>1, <1>2, PTL DEF Spec

\* Every variable keeps to its type: a transaction writes only statuses,
\* states and bindings the tables may hold (db.py, update_operation).
THEOREM OperationsTyped == Spec => []TypeOK
<1>1. IInv => TypeOK
  BY DEF IInv
<1> QED
  BY <1>1, DatabaseInductive, PTL

\* The applied revision is applied, and no snapshot is ahead of the desired
\* one (vpn_state.py, complete_ and fail_install_operation).
THEOREM AppliedStaysSound == Spec => []AppliedSound
<1>1. IInv => AppliedSound
  BY DEF IInv, DbInv, Sound, AppliedSound
<1> QED
  BY <1>1, DatabaseInductive, PTL

\* The applied revision never goes back, not even when a worker that lost its
\* lease completes after its successor (complete_install_operation).
THEOREM AppliedMovesForward == Spec => AppliedForward
<1>1. IInv /\ [Next]_vars => [db'.applied >= db.applied]_vars
  BY NextKeeps DEF Fine
<1> QED
  BY <1>1, DatabaseInductive, PTL DEF Spec, AppliedForward

\* What the snapshot of the desired revision took from the tables is still in
\* them, so only another environment makes preparing an operation refused
\* (vpn_state.py, _ensure_snapshot; db.py, _mark_vpn_config_updated).
THEOREM SnapshotStaysCurrent ==
  Spec => [](SnapshotCurrent
             /\ (Conflict(db) => db.snap[db.desired].body.env # db.env))
<1> DEFINE s == db.snap[db.desired]
<1>1. ASSUME IInv
      PROVE  SnapshotCurrent /\ (Conflict(db) => s.body.env # db.env)
  <2>1. /\ s \in Snapshot /\ s.body \in Body
        /\ s.life # "none" => s.body.clients = Enabled(db) /\ s.body.ip = db.ip
    BY <1>1, Fields DEF IInv, DbInv, Current, Snapshot
  <2>2. s.body = [clients |-> s.body.clients, ip |-> s.body.ip,
                  env |-> s.body.env]
    BY <2>1 DEF Body
  <2>3. Content(db) = [clients |-> Enabled(db), ip |-> db.ip, env |-> db.env]
    BY DEF Content, Enabled
  <2> HIDE DEF s
  <2>4. [s.body EXCEPT !.env = db.env]
          = [clients |-> s.body.clients, ip |-> s.body.ip, env |-> db.env]
    BY <2>1 DEF Body
  <2>5. s.life # "none" => Content(db) = [s.body EXCEPT !.env = db.env]
    BY <2>1, <2>3, <2>4
  <2>6. s.life # "none" /\ s.body.env = db.env => s.body = Content(db)
    BY <2>1, <2>2, <2>3
  <2> QED
    BY <2>5, <2>6 DEF SnapshotCurrent, Conflict, s
<1> QED
  BY <1>1, DatabaseInductive, PTL

\* A reboot that may have gone out is never recorded as not started, across
\* restarts and lost leases (server_operations.py; _fail_owner).
THEOREM RebootStaysRemembered == Spec => []RebootRemembered
<1>1. IInv => RebootRemembered
  BY OwnRow DEF IInv, TypeOK, RebootRemembered, Acted
<1> QED
  BY <1>1, DatabaseInductive, PTL

\* A client the applied revision lets in is never purged, so that its address
\* and keys are not given away (db.py, purge_applied_deleted_clients).
THEOREM ServedClientsStay == Spec => []KeepsServedClients
<1>1. IInv => KeepsServedClients
  <2> SUFFICES ASSUME IInv, db.applied # 0,
                      NEW c \in db.snap[db.applied].body.clients
               PROVE  db.client[c].state # "purged"
    BY DEF KeepsServedClients
  <2>1. db.applied \in 0 .. MaxRev /\ MaxRev \in Nat /\ DbInv(db)
    BY Fields, Bounds DEF IInv, DbInv
  <2>2. db.applied \in Revs /\ db.applied >= db.applied
    BY <2>1 DEF Revs
  <2>3. db.snap[db.applied].life # "none"
    BY <2>1 DEF DbInv, Sound
  <2> QED
    BY <2>1, <2>2, <2>3 DEF DbInv, Reserved
<1> QED
  BY <1>1, DatabaseInductive, PTL
=============================================================================
