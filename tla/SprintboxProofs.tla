--------------------------- MODULE SprintboxProofs ---------------------------
(***************************************************************************)
(* What the panel promises about the boxes it buys and deletes, proved for *)
(* any number of operations, revisions, clients, accounts and faults.  The *)
(* inductive invariant BInv tells the tale of every operation: what has    *)
(* been bought and published at each step of its worker and at each way it *)
(* may end.  Only one operation is at work, and a purchase that is open    *)
(* holds every later one back.                                             *)
(***************************************************************************)
EXTENDS SprintboxRotation, FiniteSetTheorems, TLAPS

-----------------------------------------------------------------------------
(***************************************************************************)
(* The inductive invariant.                                                *)
(***************************************************************************)
Unbought == {"start", "inspect", "claim"}
Ordering == {"create", "created", "refused"}
Finding  == {"identify", "confirm"}
Waiting  == {"provision", "ssh", "recheck", "resume"}
Setting  == {"deploy", "deployed", "health", "publish"}
Cleaning == {"clean", "sweep", "delete", "deleting", "clean_unclear"}

\* The operation o number i with its row r, while its worker is at step p.
Tale(i, o, r, p) ==
  /\ o.kind \in {"none", "IP_CHANGE"} /\ o.main = "NOT_STARTED"
  /\ r.new \in {NoBox, NewBox(i)}
  /\ o.status = "none" <=> o.kind = "none"
  /\ o.status # "TIMED_OUT"
  /\ o.kind = "none" => o.purchase = "NOT_STARTED" /\ o.action = "NOT_STARTED"
  /\ o.purchase = "NOT_STARTED" =>
       /\ o.apply = "NOT_STARTED" /\ r.new = NoBox
       /\ p \in Unbought \cup {"off", "fail", "dead"}
       /\ o.status \notin {"DONE", "AMBIGUOUS"}
  /\ r.published # 0 =>
       /\ r.new = NewBox(i) /\ o.purchase = "CONFIRMED"
       /\ o.apply # "NOT_STARTED" /\ o.status # "FAILED"
       /\ p \in Cleaning \cup {"off", "published", "unclear", "dead"}
  /\ o.purchase = "CONFIRMED" => r.new = NewBox(i)
  /\ p \in Unbought => o.purchase = "NOT_STARTED"
  /\ p \in Ordering => o.purchase = "SENDING" /\ r.new = NoBox
  /\ p \in Ordering \cup Finding => o.apply = "NOT_STARTED"
  /\ p \in Finding => o.purchase = "SENT"
  /\ p = "confirm" => r.new = NewBox(i)
  /\ p \in Waiting \cup Setting \cup Cleaning \cup {"published"} =>
       o.purchase = "CONFIRMED" /\ r.new = NewBox(i)
  /\ p \in Waiting => o.apply = "NOT_STARTED"
  /\ p \in Setting => o.apply # "NOT_STARTED"
  /\ p \in Cleaning \cup {"published"} => r.published # 0
  /\ p = "unclear" => o.purchase \notin {"NOT_STARTED", "REJECTED"}
  /\ p = "fail" \/ o.status = "FAILED" => r.new = NoBox
  /\ o.status = "DONE" =>
       /\ o.purchase = "CONFIRMED" /\ r.new = NewBox(i)
       /\ r.published = 0 =>
            o.action \in {"SSH_UNREACHABLE", "RETRY_REQUESTED", "CANCELLED"}
       /\ o.action = "SSH_UNREACHABLE" =>
            r.published = 0 /\ o.apply = "NOT_STARTED"
  /\ o.status = "AMBIGUOUS" => o.action \in {"AMBIGUOUS", "RECONCILED"}
  /\ o.action \in {"DONE", "CLEANUP_REJECTED"} => p = "off"

Told(i) == Tale(i, db.op[i], row[i], pc[i])

\* The lease, an operation that is not over and a worker go together.
Leases(i) ==
  /\ Active(db, i) <=> db.lease = i
  /\ pc[i] # "off" <=> db.lease = i

\* The request for box NewBox(k) is behind operation k: the boxes that exist,
\* or have existed.
Past(k) == db.op[k].purchase # "NOT_STARTED" /\ pc[k] # "create"
PastBoxes == {b \in Boxes : b = 1 \/ \E k \in Ops : b = NewBox(k) /\ Past(k)}

\* What an operation knows of boxes, and what a clean-up has still to do.
Keep(i) ==
  /\ row[i].kept \subseteq PastBoxes
  /\ row[i].box \in PastBoxes \cup {NoBox}
  /\ \A b \in Boxes : row[i].results[b] # "none" => b \in PastBoxes
  /\ \A b \in Boxes :
       row[i].results[b] \in {"DELETED", "ABSENT"} => b \notin boxes
  /\ db.op[i].action = "DONE" => row[i].kept = {}
  /\ db.op[i].action = "CLEANUP_REJECTED" => row[i].kept \subseteq row[i].named
  /\ pc[i] \in {"refused", "fail"} \/ db.op[i].status = "FAILED" =>
       NewBox(i) \notin boxes
  /\ pc[i] \in {"sweep", "delete", "deleting"} =>
       row[i].kept \subseteq work[i].todo \cup work[i].warned
  /\ pc[i] \in {"sweep", "delete", "deleting"} => work[i].todo \subseteq PastBoxes
  /\ pc[i] \in {"delete", "deleting"} => work[i].box \in work[i].todo
  /\ pc[i] = "delete" => ValidTarget(i) /\ work[i].box # row[i].new

Unpublished(i) == Active(db, i) /\ row[i].published = 0

\* A purchase that is open is the only one, and nothing else is being bought.
Holds ==
  \A i, j \in Ops :
    i # j /\ i \in OpenPurchases => j \notin OpenPurchases /\ ~Unpublished(j)

Order ==
  \A i, j \in Ops :
    db.op[i].kind # "none" /\ j < i => db.op[j].kind # "none"

\* There are revisions left for the operations that may still publish one.
Room ==
  \A i \in Ops :
    /\ row[i].published = 0
    /\ db.op[i].kind = "none" \/ Active(db, i) \/ Undecided(db, i)
    => db.desired + MaxOps < MaxRev + i

Places == boxes \subseteq PastBoxes /\ config.box \in PastBoxes \cup {NoBox}

BInv ==
  /\ TypeOK
  /\ ~db.expired
  /\ \A i \in Ops : Told(i) /\ Leases(i) /\ Keep(i)
  /\ Holds /\ Order /\ Room /\ Places

-----------------------------------------------------------------------------
(***************************************************************************)
(* Transactions of the database.                                           *)
(***************************************************************************)
LEMMA Bounds ==
  /\ MaxOps \in Nat /\ MaxRev \in Nat /\ MaxRev >= 1 /\ 1 \in Revs
  /\ \A i \in Ops : i \in Nat /\ i >= 1 /\ NewBox(i) \in Boxes /\ NewBox(i) = i + 1
BY DatabaseAssumption DEF Revs, Ops, Boxes, Addresses, NewBox, NewIp

\* The fields of a database.
LEMMA Fields ==
  ASSUME NEW d \in Database
  PROVE  /\ d.lease \in 0 .. MaxOps /\ d.expired \in BOOLEAN
         /\ d.op \in [Ops -> Operation] /\ d.snap \in [Revs -> Snapshot]
         /\ d.desired \in Revs /\ d.applied \in 0 .. MaxRev
         /\ d.client \in [Clients -> Client] /\ d.ip \in Addresses
         /\ d.env \in Environments /\ d.published \in Addresses
         /\ d.desired \in Nat
BY Bounds DEF Database, Revs

\* Everything but the operations and the lease.
SameRest(d, e) ==
  /\ e.snap = d.snap /\ e.desired = d.desired /\ e.applied = d.applied
  /\ e.client = d.client /\ e.ip = d.ip
  /\ e.env = d.env /\ e.published = d.published

\* One operation changes.
LEMMA OpFacts ==
  ASSUME NEW d \in Database, NEW i \in Ops, NEW o \in Operation
  PROVE  LET e == [d EXCEPT !.op[i] = o]
         IN  /\ e \in Database /\ e.op = [d.op EXCEPT ![i] = o]
             /\ e.lease = d.lease /\ e.expired = d.expired /\ SameRest(d, e)
BY DEF Database, SameRest

\* The lease changes hands.
LEMMA LeaseFacts ==
  ASSUME NEW d \in Database, NEW l \in 0 .. MaxOps
  PROVE  LET e == [d EXCEPT !.lease = l, !.expired = FALSE]
         IN  /\ e \in Database /\ e.op = d.op
             /\ e.lease = l /\ ~e.expired /\ SameRest(d, e)
BY DEF Database, SameRest

\* The lease is renewed.
LEMMA RenewFacts ==
  ASSUME NEW d \in Database
  PROVE  LET e == [d EXCEPT !.expired = FALSE]
         IN  /\ e \in Database /\ e.op = d.op
             /\ e.lease = d.lease /\ ~e.expired /\ SameRest(d, e)
BY DEF Database, SameRest

\* _step and update_operation of the one that holds the lease.
LEMMA SaveFacts ==
  ASSUME BInv, NEW i \in Ops, db.lease = i, NEW o \in Operation, Save(i, o)
  PROVE  /\ db' \in Database /\ db'.op = [db.op EXCEPT ![i] = o]
         /\ db'.lease = i /\ ~db'.expired /\ SameRest(db, db')
<1> DEFINE d == [db EXCEPT !.op[i] = o]
<1>1. /\ d \in Database /\ d.op = [db.op EXCEPT ![i] = o]
      /\ d.lease = i /\ ~d.expired /\ SameRest(db, d)
  BY OpFacts DEF BInv, TypeOK
<1>2. db' = Heartbeat(d, i)
  BY DEF Save
<1> HIDE DEF d
<1>3. db' = [d EXCEPT !.expired = FALSE]
  BY <1>1, <1>2 DEF Heartbeat
<1> QED
  BY <1>1, <1>3, RenewFacts DEF SameRest

LEMMA EndFacts ==
  ASSUME BInv, NEW i \in Ops, db.lease = i, NEW o \in Operation, End(i, o)
  PROVE  /\ db' \in Database /\ db'.op = [db.op EXCEPT ![i] = o]
         /\ db'.lease = 0 /\ ~db'.expired /\ SameRest(db, db')
<1> DEFINE d == [db EXCEPT !.op[i] = o]
<1>1. /\ d \in Database /\ d.op = [db.op EXCEPT ![i] = o]
      /\ d.lease = i /\ ~d.expired /\ SameRest(db, d)
  BY OpFacts DEF BInv, TypeOK
<1>2. db' = Release(d, i)
  BY DEF End
<1> HIDE DEF d
<1>3. db' = [d EXCEPT !.lease = 0, !.expired = FALSE] /\ 0 \in 0 .. MaxOps
  BY <1>1, <1>2, Bounds DEF Release
<1>4. /\ db' \in Database /\ db'.op = d.op
      /\ db'.lease = 0 /\ ~db'.expired /\ SameRest(d, db')
  BY <1>1, <1>3, LeaseFacts
<1> QED
  BY <1>1, <1>4 DEF SameRest

-----------------------------------------------------------------------------
(***************************************************************************)
(* A step of one worker.                                                   *)
(***************************************************************************)
\* The others wait.
Alone(i) ==
  \A j \in Ops \ {i} :
    db'.op[j] = db.op[j] /\ row'[j] = row[j] /\ pc'[j] = pc[j] /\ work'[j] = work[j]

\* The revision moves only with a publication.
Publishing(i) ==
  \/ db'.desired = db.desired
  \/ /\ db'.desired = db.desired + 1
     /\ row[i].published = 0 /\ row'[i].published # 0

\* Boxes once known stay known.
LEMMA PastStays ==
  ASSUME \A k \in Ops : Past(k) => Past(k)'
  PROVE  PastBoxes \subseteq PastBoxes'
BY DEF PastBoxes, Boxes, Addresses

\* Who is at work.
LEMMA AtWork ==
  ASSUME BInv, NEW i \in Ops, pc[i] # "off"
  PROVE  /\ db.lease = i /\ Active(db, i)
         /\ \A j \in Ops \ {i} : pc[j] = "off" /\ ~Active(db, j)
BY DEF BInv, Leases

\* A worker's step keeps the invariant if it keeps what concerns its operation.
LEMMA OwnStep ==
  ASSUME BInv, TypeOK', NEW i \in Ops, pc[i] # "off", Alone(i),
         ~db'.expired, db'.lease \in {0, i}, Publishing(i),
         config'.box \in {config.box, row[i].new},
         config' = config \/ row[i].new \in PastBoxes,
         boxes' \subseteq boxes \cup (IF pc[i] = "create" THEN {NewBox(i)} ELSE {}),
         Past(i) \/ pc[i] = "create" => Past(i)',
         db'.op[i].kind = db.op[i].kind,
         row'[i].published = 0 => row[i].published = 0,
         Told(i)', Leases(i)', Keep(i)'
  PROVE  BInv'
<1>1. /\ db.lease = i /\ Active(db, i)
      /\ \A j \in Ops \ {i} : pc[j] = "off" /\ ~Active(db, j)
  BY AtWork
<1>2. \A k \in Ops : Past(k) => Past(k)'
  BY DEF Past, Alone
<1>3. PastBoxes \subseteq PastBoxes'
  BY <1>2, PastStays
<1>4. \A j \in Ops \ {i} : Told(j)'
  BY DEF BInv, Told, Alone
<1>5. \A j \in Ops \ {i} : Leases(j)'
  BY <1>1, Bounds DEF Leases, Active, Alone
<1>6. ASSUME NEW b \in PastBoxes, b \notin boxes
      PROVE  b \notin boxes'
  <2>1. CASE pc[i] # "create"
    BY <1>6, <2>1
  <2>2. CASE pc[i] = "create"
    <3>1. ~Past(i)
      BY <2>2 DEF Past
    <3>2. b # NewBox(i)
      BY <1>6, <3>1, Bounds DEF PastBoxes
    <3> QED
      BY <1>6, <2>2, <3>2
  <2> QED
    BY <2>1, <2>2
<1>7. \A j \in Ops \ {i} : NewBox(j) \notin boxes => NewBox(j) \notin boxes'
  BY Bounds
<1>8. \A j \in Ops \ {i} : Keep(j)'
  <2> TAKE j \in Ops \ {i}
  <2>1. /\ Keep(j) /\ pc'[j] = "off" /\ row'[j] = row[j] /\ db'.op[j] = db.op[j]
    BY <1>1 DEF BInv, Alone
  <2> QED
    BY <1>3, <1>6, <1>7, <2>1 DEF Keep
<1>9. Holds'
  <2>1. \A j \in Ops \ {i} : /\ j \in OpenPurchases' <=> j \in OpenPurchases
                             /\ ~Unpublished(j)'
    BY <1>1 DEF OpenPurchases, Unpublished, Active, Alone
  <2>2. i \in OpenPurchases' \/ Unpublished(i)' => Unpublished(i)
    BY <1>1 DEF OpenPurchases, Unpublished
  <2>3. \A j \in Ops \ {i} :
          Unpublished(i) => j \notin OpenPurchases
    BY DEF BInv, Holds
  <2>4. ASSUME NEW a \in Ops, NEW b \in Ops, a # b, a \in OpenPurchases'
        PROVE  b \notin OpenPurchases' /\ ~Unpublished(b)'
    <3>1. CASE a = i
      BY <2>1, <2>2, <2>3, <2>4, <3>1
    <3>2. CASE b = i
      BY <2>1, <2>2, <2>3, <2>4, <3>2
    <3>3. CASE a # i /\ b # i
      BY <2>1, <2>4, <3>3 DEF BInv, Holds
    <3> QED
      BY <3>1, <3>2, <3>3
  <2> QED
    BY <2>4 DEF Holds
<1>10. \A j \in Ops : db'.op[j].kind = db.op[j].kind
  BY DEF Alone
<1>11. Order'
  BY <1>10 DEF BInv, Order
<1>12. Room'
  <2> SUFFICES ASSUME NEW j \in Ops, row'[j].published = 0,
                      \/ db'.op[j].kind = "none" \/ Active(db, j)'
                      \/ Undecided(db, j)'
               PROVE  db'.desired + MaxOps < MaxRev + j
    BY DEF Room
  <2>1. /\ row[j].published = 0
        /\ db.op[j].kind = "none" \/ Active(db, j) \/ Undecided(db, j)
    BY <1>1 DEF Alone, Active, Undecided
  <2>2. db.desired + MaxOps < MaxRev + j
    BY <2>1 DEF BInv, Room
  <2>3. CASE db'.desired = db.desired
    BY <2>2, <2>3
  <2>4. CASE /\ db'.desired = db.desired + 1
             /\ row[i].published = 0 /\ row'[i].published # 0
    <3>1. j # i /\ Unpublished(i)
      BY <1>1, <2>4 DEF Unpublished
    <3>2. db.desired + MaxOps < MaxRev + i
      BY <1>1, <2>4 DEF BInv, Room
    <3>3. ~Active(db, j) /\ j \notin OpenPurchases
      BY <1>1, <3>1 DEF BInv, Holds
    <3>4. ~Undecided(db, j)
      <4>1. ASSUME Undecided(db, j)
            PROVE  FALSE
        <5>1. Told(j) /\ db.op[j].status = "DONE"
              /\ db.op[j].action = "SSH_UNREACHABLE"
          BY <4>1 DEF BInv, Undecided
        <5>2. db.op[j].purchase = "CONFIRMED"
          BY <5>1 DEF Told, Tale
        <5> QED
          BY <2>1, <3>3, <5>1, <5>2 DEF OpenPurchases
      <4> QED
        BY <4>1
    <3>5. db.op[j].kind = "none" /\ db.op[i].kind # "none"
      <4>1. Told(i)
        BY DEF BInv
      <4> QED
        BY <1>1, <2>1, <3>3, <3>4, <4>1 DEF Told, Tale, Active
    <3>6. ~(j < i)
      BY <3>5 DEF BInv, Order
    <3>7. db.desired \in Nat
      BY Fields DEF BInv, TypeOK
    <3> QED
      BY <2>4, <3>1, <3>2, <3>6, <3>7, Bounds
  <2> QED
    BY <2>3, <2>4 DEF Publishing
<1>13. Places'
  <2>1. boxes' \subseteq PastBoxes'
    <3> SUFFICES ASSUME NEW b \in boxes'
                 PROVE  b \in PastBoxes'
      OBVIOUS
    <3>1. CASE b \in boxes
      BY <1>3, <3>1 DEF BInv, Places
    <3>2. CASE pc[i] = "create" /\ b = NewBox(i)
      BY <3>2, Bounds DEF PastBoxes, Boxes, Addresses, NewBox, NewIp
    <3> QED
      BY <3>1, <3>2
  <2>2. config'.box \in PastBoxes' \cup {NoBox}
    BY <1>3 DEF BInv, Places
  <2> QED
    BY <2>1, <2>2 DEF Places
<1> QED
  BY <1>4, <1>5, <1>8, <1>9, <1>11, <1>12, <1>13 DEF BInv

\* What a worker starts a step from.
LEMMA WorkFacts ==
  ASSUME BInv, NEW i \in Ops, pc[i] # "off"
  PROVE  /\ TypeOK /\ db.lease = i /\ Active(db, i) /\ Told(i) /\ Keep(i)
         /\ db.op[i] \in Operation /\ db.op[i].status \in {"PENDING", "RUNNING"}
         /\ db.op[i].kind = "IP_CHANGE" /\ i # 0
         /\ row[i] \in Row /\ work[i] \in [todo : SUBSET Boxes,
              box : {NoBox} \cup Boxes, warned : SUBSET Boxes, unsure : BOOLEAN]
<1>1. /\ TypeOK /\ db.lease = i /\ Active(db, i) /\ Told(i) /\ Keep(i)
  BY AtWork DEF BInv
<1>2. db.op[i] \in Operation /\ i # 0
  BY <1>1, Fields, Bounds DEF TypeOK
<1> QED
  BY <1>1, <1>2 DEF TypeOK, Active, Told, Tale

\* Nothing but the operation, its row and the place of its worker changes.
Apart == /\ UNCHANGED <<config, work, cloud>>
         /\ faults' \in 0 .. MaxFaults /\ edits' \in 0 .. MaxEdits

LEMMA QuietlyApart ==
  ASSUME BInv, Quietly
  PROVE  Apart
BY DEF BInv, TypeOK, Quietly, Apart

\* The row, the boxes and the settings stay as they are.
LEMMA QuietKeep ==
  ASSUME BInv, NEW i \in Ops, pc[i] # "off", Apart, UNCHANGED row,
         PastBoxes \subseteq PastBoxes',
         pc'[i] \notin {"sweep", "delete", "deleting"},
         db'.op[i].action \notin {"DONE", "CLEANUP_REJECTED"},
         pc'[i] \in {"refused", "fail"} \/ db'.op[i].status = "FAILED" =>
           NewBox(i) \notin boxes
  PROVE  Keep(i)'
BY WorkFacts DEF Keep, Apart, cloud

\* A step that changes the operation at most, with the lease or without.
LEMMA QuietStep ==
  ASSUME BInv, NEW i \in Ops, pc[i] # "off", NEW to \in Steps, NEW o \in Operation,
         Goto(i, to), UNCHANGED row, Apart,
         db' \in Database, db'.op = [db.op EXCEPT ![i] = o], ~db'.expired,
         SameRest(db, db'),
         db'.lease = (IF to = "off" THEN 0 ELSE i),
         o.kind = db.op[i].kind,
         o.status \in {"PENDING", "RUNNING"} <=> to # "off",
         Tale(i, o, row[i], to),
         to \notin {"sweep", "delete", "deleting"},
         to = "create" => pc[i] \in Unbought,
         o.action \notin {"DONE", "CLEANUP_REJECTED"},
         o.purchase = "NOT_STARTED" => db.op[i].purchase = "NOT_STARTED",
         to \in {"refused", "fail"} \/ o.status = "FAILED" => NewBox(i) \notin boxes
  PROVE  BInv'
<1>1. /\ TypeOK /\ db.lease = i /\ Active(db, i) /\ Told(i) /\ Keep(i) /\ i # 0
  BY WorkFacts
<1>2. /\ db.op \in [Ops -> Operation] /\ pc \in [Ops -> Steps]
  BY <1>1, Fields DEF TypeOK
<1>3. /\ pc' = [pc EXCEPT ![i] = to] /\ pc'[i] = to /\ db'.op[i] = o
      /\ \A j \in Ops \ {i} : pc'[j] = pc[j] /\ db'.op[j] = db.op[j]
  BY <1>2 DEF Goto
<1>4. TypeOK'
  BY <1>1, <1>2, <1>3 DEF TypeOK, Apart, cloud
<1>5. Alone(i) /\ Publishing(i)
  BY <1>3 DEF Alone, Publishing, SameRest, Apart
<1>6. Past(i) \/ pc[i] = "create" => Past(i)'
  <2>1. /\ pc[i] = "create" => db.op[i].purchase # "NOT_STARTED"
        /\ pc[i] \in Unbought => ~Past(i) /\ pc[i] # "create"
    BY <1>1 DEF Told, Tale, Ordering, Unbought, Past
  <2> QED
    BY <1>3, <2>1 DEF Past
<1>7. PastBoxes \subseteq PastBoxes'
  <2>1. \A k \in Ops : Past(k) => Past(k)'
    BY <1>3, <1>6 DEF Past
  <2> QED
    BY <2>1, PastStays
<1>8. Told(i)' /\ Leases(i)'
  BY <1>1, <1>3 DEF Told, Leases, Active
<1>9. Keep(i)'
  BY <1>3, <1>7, QuietKeep
<1>10. /\ db'.op[i].kind = db.op[i].kind /\ db'.lease \in {0, i}
       /\ config' = config /\ boxes' = boxes /\ row' = row
  BY <1>3 DEF Apart, cloud
<1> QED
  BY <1>4, <1>5, <1>6, <1>8, <1>9, <1>10, OwnStep

LEMMA MarkKeeps ==
  ASSUME BInv, NEW i \in Ops, NEW from, NEW to \in Steps \ {"off"},
         from # "off", NEW o \in Operation, Mark(i, from, o, to),
         o.kind = db.op[i].kind, o.status \in {"PENDING", "RUNNING"},
         Tale(i, o, row[i], to),
         to \notin {"sweep", "delete", "deleting"},
         to = "create" => from \in Unbought,
         o.purchase = "NOT_STARTED" => db.op[i].purchase = "NOT_STARTED",
         to \in {"refused", "fail"} => NewBox(i) \notin boxes
  PROVE  BInv'
<1>1. pc[i] = from /\ pc[i] # "off" /\ Goto(i, to) /\ Save(i, o) /\ UNCHANGED row /\ Quietly
  BY DEF Mark
<1>2. db.lease = i
  BY <1>1, WorkFacts
<1>3. /\ db' \in Database /\ db'.op = [db.op EXCEPT ![i] = o]
      /\ db'.lease = i /\ ~db'.expired /\ SameRest(db, db')
  BY <1>1, <1>2, SaveFacts
<1>4. o.action \notin {"DONE", "CLEANUP_REJECTED"}
  BY DEF Tale
<1> QED
  BY <1>1, <1>3, <1>4, QuietlyApart, QuietStep

LEMMA MoveKeeps ==
  ASSUME BInv, NEW i \in Ops, NEW from, NEW to \in Steps \ {"off"},
         from # "off", Move(i, from, to),
         Tale(i, db.op[i], row[i], to),
         to \notin {"sweep", "delete", "deleting", "create"},
         to \in {"refused", "fail"} => NewBox(i) \notin boxes
  PROVE  BInv'
<1>1. /\ pc[i] # "off" /\ Goto(i, to) /\ UNCHANGED <<db, row>> /\ Quietly
  BY DEF Move
<1>2. /\ db.lease = i /\ db.op[i] \in Operation
      /\ db.op[i].status \in {"PENDING", "RUNNING"}
      /\ db \in Database
  BY <1>1, WorkFacts DEF TypeOK
<1>3. db'.op = [db.op EXCEPT ![i] = db.op[i]] /\ db' \in Database /\ ~db'.expired
  BY <1>1, <1>2, Fields DEF BInv
<1>4. db.op[i].action \notin {"DONE", "CLEANUP_REJECTED"}
  BY DEF Tale
<1>5. SameRest(db, db') /\ db'.lease = i
  BY <1>1, <1>2 DEF SameRest
<1> QED
  BY <1>1, <1>2, <1>3, <1>4, <1>5, QuietlyApart, QuietStep

LEMMA FinishKeeps ==
  ASSUME BInv, NEW i \in Ops, NEW from, from # "off", NEW o \in Operation,
         Finish(i, from, o),
         o.kind = db.op[i].kind, o.status \notin {"PENDING", "RUNNING"},
         Tale(i, o, row[i], "off"),
         o.action \notin {"DONE", "CLEANUP_REJECTED"},
         o.purchase = "NOT_STARTED" => db.op[i].purchase = "NOT_STARTED",
         o.status = "FAILED" => NewBox(i) \notin boxes
  PROVE  BInv'
<1>1. pc[i] # "off" /\ Goto(i, "off") /\ End(i, o) /\ UNCHANGED row /\ Quietly
  BY DEF Finish
<1>2. db.lease = i
  BY <1>1, WorkFacts
<1>3. /\ db' \in Database /\ db'.op = [db.op EXCEPT ![i] = o]
      /\ db'.lease = 0 /\ ~db'.expired /\ SameRest(db, db')
  BY <1>1, <1>2, EndFacts
<1>4. "off" \in Steps
  BY DEF Steps
<1> QED
  BY <1>1, <1>3, <1>4, QuietlyApart, QuietStep

-----------------------------------------------------------------------------
(***************************************************************************)
(* run_sprintbox_rotation.                                                 *)
(***************************************************************************)
\* Before the request is claimed there is no new box.
LEMMA NothingBought ==
  ASSUME BInv, NEW i \in Ops, ~Past(i)
  PROVE  NewBox(i) \notin boxes
<1>1. NewBox(i) \notin PastBoxes
  BY Bounds DEF PastBoxes
<1> QED
  BY <1>1 DEF BInv, Places

\* Another status of an operation, and another action or request.
LEMMA RunningSays ==
  ASSUME BInv, NEW i \in Ops
  PROVE  /\ Running(i) \in Operation
         /\ Running(i).status = "RUNNING" /\ Running(i).kind = db.op[i].kind
         /\ Running(i).action = db.op[i].action
         /\ Running(i).purchase = db.op[i].purchase
         /\ Running(i).main = db.op[i].main /\ Running(i).apply = db.op[i].apply
<1>1. db.op[i] \in Operation
  BY Fields DEF BInv, TypeOK
<1> QED
  BY <1>1 DEF Running, Operation, Statuses

LEMMA StepSays ==
  ASSUME BInv, NEW i \in Ops, NEW a \in ActionStates
  PROVE  /\ Step(i, a) \in Operation
         /\ Step(i, a).status = "RUNNING" /\ Step(i, a).kind = db.op[i].kind
         /\ Step(i, a).action = a
         /\ Step(i, a).purchase = db.op[i].purchase
         /\ Step(i, a).main = db.op[i].main /\ Step(i, a).apply = db.op[i].apply
<1>1. db.op[i] \in Operation
  BY Fields DEF BInv, TypeOK
<1> QED
  BY <1>1 DEF Step, Operation, Statuses

LEMMA OverSays ==
  ASSUME BInv, NEW i \in Ops, NEW s \in Terminal, NEW a \in ActionStates
  PROVE  /\ Over(i, s, a) \in Operation
         /\ Over(i, s, a).status = s /\ Over(i, s, a).kind = db.op[i].kind
         /\ Over(i, s, a).action = a
         /\ Over(i, s, a).purchase = db.op[i].purchase
         /\ Over(i, s, a).main = db.op[i].main
         /\ Over(i, s, a).apply = db.op[i].apply
<1>1. db.op[i] \in Operation /\ Terminal \subseteq Statuses
  BY Fields DEF BInv, TypeOK, Statuses
<1> QED
  BY <1>1 DEF Over, Operation

LEMMA PurchaseSays ==
  ASSUME NEW o \in Operation, NEW p \in Sends
  PROVE  LET q == [o EXCEPT !.purchase = p]
         IN  /\ q \in Operation /\ q.purchase = p
             /\ q.status = o.status /\ q.kind = o.kind /\ q.action = o.action
             /\ q.main = o.main /\ q.apply = o.apply
BY DEF Operation

LEMMA ApplySays ==
  ASSUME NEW o \in Operation, NEW a \in Applies
  PROVE  LET q == [o EXCEPT !.apply = a]
         IN  /\ q \in Operation /\ q.apply = a
             /\ q.status = o.status /\ q.kind = o.kind /\ q.action = o.action
             /\ q.main = o.main /\ q.purchase = o.purchase
BY DEF Operation

\* The worker starts, or gives up before it has bought anything.
LEMMA StartRunKeeps ==
  ASSUME BInv, NEW i \in Ops, StartRun(i)
  PROVE  BInv'
<1>1. CASE Mark(i, "start", Running(i), "inspect")
  <2>1. pc[i] = "start" /\ Told(i) /\ db.op[i].kind = "IP_CHANGE"
    BY <1>1, WorkFacts DEF Mark
  <2>2. Tale(i, Running(i), row[i], "inspect")
    BY <2>1, RunningSays
       DEF Told, Tale, Unbought, Ordering, Finding, Waiting, Setting, Cleaning
  <2>3. "inspect" \in Steps \ {"off"}
    BY DEF Steps
  <2> QED
    BY <1>1, <2>2, <2>3, RunningSays, MarkKeeps
<1>2. CASE Move(i, "start", "fail")
  <2>1. pc[i] = "start" /\ Told(i) /\ db.op[i].kind = "IP_CHANGE"
    BY <1>2, WorkFacts DEF Move
  <2>2. Tale(i, db.op[i], row[i], "fail") /\ ~Past(i)
    BY <2>1 DEF Told, Tale, Unbought, Ordering, Finding, Waiting, Setting,
                Cleaning, Past
  <2>3. "fail" \in Steps \ {"off"}
    BY DEF Steps
  <2> QED
    BY <1>2, <2>2, <2>3, NothingBought, MoveKeeps
<1> QED
  BY <1>1, <1>2 DEF StartRun

\* The boxes kept for a rotation are boxes that exist or have existed.
LEMMA RetainedPast ==
  ASSUME BInv, NEW b \in PastBoxes, NEW a
  PROVE  Retained(b, a) \subseteq PastBoxes
<1>1. \A j \in Ops : row[j].kept \subseteq PastBoxes
  BY DEF BInv, Keep
<1> QED
  BY <1>1 DEF Retained, Publishers

\* The old box is looked up, and joins those that are kept.
LEMMA InspectKeeps ==
  ASSUME BInv, NEW i \in Ops, Inspect(i)
  PROVE  BInv'
<1>1. /\ pc[i] = "inspect" /\ Told(i) /\ Keep(i) /\ TypeOK
      /\ db.op[i].kind = "IP_CHANGE" /\ Active(db, i) /\ db.lease = i /\ i # 0
  BY WorkFacts DEF Inspect
<1>2. PICK to \in {"claim", "fail"}, kept \in SUBSET PastBoxes :
        Goto(i, to) /\ row' = [row EXCEPT ![i].kept = kept]
  <2>1. CASE row[i].box # NoBox /\ row' = [row EXCEPT ![i].kept =
                     @ \cup Retained(row[i].box, row[i].account)]
             /\ Goto(i, "claim")
    <3>1. row[i].box \in PastBoxes
      BY <1>1, <2>1 DEF Keep
    <3>2. Retained(row[i].box, row[i].account) \subseteq PastBoxes
      BY <3>1, RetainedPast
    <3>3. row[i].kept \cup Retained(row[i].box, row[i].account) \in SUBSET PastBoxes
      BY <1>1, <3>2 DEF Keep
    <3> QED
      BY <2>1, <3>3
  <2>2. CASE UNCHANGED row /\ (Goto(i, "claim") \/ Goto(i, "fail"))
    <3>1. row = [row EXCEPT ![i].kept = row[i].kept]
      BY <1>1 DEF TypeOK, Row
    <3>2. row[i].kept \in SUBSET PastBoxes
      BY <1>1 DEF Keep
    <3> QED
      BY <2>2, <3>1, <3>2
  <2> QED
    BY <2>1, <2>2 DEF Inspect
<1>3. /\ db' = db /\ Quietly /\ PastBoxes \subseteq Boxes
  BY DEF Inspect, PastBoxes
<1>4. /\ row'[i].kept = kept /\ row'[i].box = row[i].box
      /\ row'[i].results = row[i].results /\ row'[i].named = row[i].named
      /\ row'[i].new = row[i].new /\ row'[i].published = row[i].published
      /\ row' \in [Ops -> Row] /\ pc' \in [Ops -> Steps] /\ pc'[i] = to
      /\ \A j \in Ops \ {i} : row'[j] = row[j] /\ pc'[j] = pc[j]
  <2>1. row \in [Ops -> Row] /\ pc \in [Ops -> Steps] /\ to \in Steps
        /\ kept \in SUBSET Boxes
    BY <1>1, <1>3 DEF TypeOK, Steps
  <2> QED
    BY <1>2, <2>1 DEF Goto, Row
<1>5. TypeOK'
  BY <1>1, <1>3, <1>4 DEF TypeOK, Quietly, cloud
<1>6. ~Past(i) /\ NewBox(i) \notin boxes
  BY <1>1, NothingBought DEF Told, Tale, Unbought, Past
<1>7. \A k \in Ops : Past(k) => Past(k)'
  BY <1>3, <1>4, <1>6 DEF Past
<1>8. Told(i)' /\ Leases(i)'
  BY <1>1, <1>2, <1>3, <1>4
     DEF Told, Tale, Leases, Active, Unbought, Ordering, Finding, Waiting,
         Setting, Cleaning
<1>9. Keep(i)'
  <2>1. PastBoxes \subseteq PastBoxes'
    BY <1>7, PastStays
  <2>2. db.op[i].action \notin {"DONE", "CLEANUP_REJECTED"}
    BY <1>1 DEF Told, Tale
  <2> QED
    BY <1>1, <1>2, <1>3, <1>4, <1>6, <2>1, <2>2 DEF Keep, Quietly, cloud
<1>10. Alone(i) /\ Publishing(i) /\ config' = config /\ boxes' = boxes
       /\ ~db'.expired
  BY <1>3, <1>4 DEF Alone, Publishing, Quietly, cloud, BInv
<1> QED
  BY <1>1, <1>3, <1>4, <1>5, <1>6, <1>8, <1>9, <1>10, OwnStep

\* The compare-and-set before the request.
LEMMA ClaimKeeps ==
  ASSUME BInv, NEW i \in Ops, Claim(i)
  PROVE  BInv'
<1> DEFINE o == [Step(i, "PURCHASE_SENDING") EXCEPT !.purchase = "SENDING"]
<1>1. CASE Mark(i, "claim", o, "create")
  <2>1. pc[i] = "claim" /\ Told(i) /\ db.op[i].kind = "IP_CHANGE"
    BY <1>1, WorkFacts DEF Mark
  <2>2. /\ o \in Operation /\ o.purchase = "SENDING" /\ o.status = "RUNNING"
        /\ o.kind = db.op[i].kind /\ o.action = "PURCHASE_SENDING"
        /\ o.main = db.op[i].main /\ o.apply = db.op[i].apply
    <3>1. "PURCHASE_SENDING" \in ActionStates /\ "SENDING" \in Sends
      BY DEF ActionStates, Sends
    <3> QED
      BY <3>1, StepSays, PurchaseSays
  <2> HIDE DEF o
  <2>3. Tale(i, o, row[i], "create")
    BY <2>1, <2>2
       DEF Told, Tale, Unbought, Ordering, Finding, Waiting, Setting, Cleaning
  <2>4. "create" \in Steps \ {"off"} /\ "claim" \in Unbought
    BY DEF Steps, Unbought
  <2> QED
    BY <1>1, <2>2, <2>3, <2>4, MarkKeeps
<1>2. CASE Move(i, "claim", "fail")
  <2>1. pc[i] = "claim" /\ Told(i) /\ db.op[i].kind = "IP_CHANGE"
    BY <1>2, WorkFacts DEF Move
  <2>2. Tale(i, db.op[i], row[i], "fail") /\ ~Past(i)
    BY <2>1 DEF Told, Tale, Unbought, Ordering, Finding, Waiting, Setting,
                Cleaning, Past
  <2>3. "fail" \in Steps \ {"off"}
    BY DEF Steps
  <2> QED
    BY <1>2, <2>2, <2>3, NothingBought, MoveKeeps
<1> QED
  BY <1>1, <1>2 DEF Claim

\* The one request for a box, whatever becomes of it.
LEMMA CreateKeeps ==
  ASSUME BInv, NEW i \in Ops, Create(i)
  PROVE  BInv'
<1>1. /\ pc[i] = "create" /\ Told(i) /\ Keep(i) /\ TypeOK
      /\ db.op[i].kind = "IP_CHANGE" /\ Active(db, i) /\ db.lease = i /\ i # 0
  BY WorkFacts DEF Create
<1>2. PICK to \in {"created", "refused", "unclear"} :
        /\ Goto(i, to)
        /\ boxes' \in {boxes, boxes \cup {NewBox(i)}}
        /\ to = "refused" => boxes' = boxes
  BY DEF Create
<1>3. UNCHANGED <<db, row, config, work, doomed, asked>>
      /\ faults' \in 0 .. MaxFaults /\ edits' = edits
  BY <1>1, SprintboxAssumption DEF Create, Spend, TypeOK
<1>4. /\ pc' \in [Ops -> Steps] /\ pc'[i] = to
      /\ \A j \in Ops \ {i} : pc'[j] = pc[j]
  <2>1. pc \in [Ops -> Steps] /\ to \in Steps
    BY <1>1 DEF TypeOK, Steps
  <2> QED
    BY <1>2, <2>1 DEF Goto
<1>5. TypeOK'
  <2>1. boxes' \subseteq Boxes
    BY <1>1, <1>2, Bounds DEF TypeOK
  <2> QED
    BY <1>1, <1>3, <1>4, <2>1 DEF TypeOK
<1>6. ~Past(i) /\ Past(i)' /\ NewBox(i) \notin boxes
  BY <1>1, <1>3, <1>4, NothingBought DEF Told, Tale, Ordering, Past
<1>7. PastBoxes \subseteq PastBoxes' /\ NewBox(i) \notin PastBoxes
  <2>1. \A k \in Ops : Past(k) => Past(k)'
    BY <1>3, <1>4, <1>6 DEF Past
  <2> QED
    BY <1>6, <2>1, PastStays, Bounds DEF PastBoxes
<1>8. Told(i)' /\ Leases(i)'
  BY <1>1, <1>2, <1>3, <1>4
     DEF Told, Tale, Leases, Active, Unbought, Ordering, Finding, Waiting,
         Setting, Cleaning
<1>9. Keep(i)'
  <2>1. \A b \in Boxes : row[i].results[b] \in {"DELETED", "ABSENT"} =>
          b \notin boxes'
    BY <1>1, <1>2, <1>7 DEF Keep
  <2>2. db.op[i].action \notin {"DONE", "CLEANUP_REJECTED"}
        /\ db.op[i].status # "FAILED"
    BY <1>1 DEF Told, Tale, Active
  <2> QED
    BY <1>1, <1>2, <1>3, <1>4, <1>6, <1>7, <2>1, <2>2 DEF Keep
<1>10. Alone(i) /\ Publishing(i) /\ ~db'.expired
  BY <1>3, <1>4 DEF Alone, Publishing, BInv
<1> QED
  BY <1>1, <1>2, <1>3, <1>5, <1>6, <1>8, <1>9, <1>10, OwnStep

\* A purchase is recorded as it went.
LEMMA CreateRecordedKeeps ==
  ASSUME BInv, NEW i \in Ops, CreateRecorded(i)
  PROVE  BInv'
<1>1. CASE Mark(i, "created", [Step(i, "PURCHASE_SENT") EXCEPT !.purchase = "SENT"],
                "identify")
  <2> DEFINE o == [Step(i, "PURCHASE_SENT") EXCEPT !.purchase = "SENT"]
  <2>1. pc[i] = "created" /\ Told(i) /\ db.op[i].kind = "IP_CHANGE"
    BY <1>1, WorkFacts DEF Mark
  <2>2. /\ o \in Operation /\ o.purchase = "SENT" /\ o.status = "RUNNING"
        /\ o.kind = db.op[i].kind /\ o.action = "PURCHASE_SENT"
        /\ o.main = db.op[i].main /\ o.apply = db.op[i].apply
    <3>1. "PURCHASE_SENT" \in ActionStates /\ "SENT" \in Sends
      BY DEF ActionStates, Sends
    <3> QED
      BY <3>1, StepSays, PurchaseSays
  <2>3. Mark(i, "created", o, "identify")
    BY <1>1
  <2> HIDE DEF o
  <2>4. Tale(i, o, row[i], "identify")
    BY <2>1, <2>2
       DEF Told, Tale, Unbought, Ordering, Finding, Waiting, Setting, Cleaning
  <2>5. "identify" \in Steps \ {"off"}
    BY DEF Steps
  <2> QED
    BY <2>2, <2>3, <2>4, <2>5, MarkKeeps
<1>2. CASE Mark(i, "refused", [db.op[i] EXCEPT !.purchase = "REJECTED"], "fail")
  <2> DEFINE o == [db.op[i] EXCEPT !.purchase = "REJECTED"]
  <2>1. /\ pc[i] = "refused" /\ Told(i) /\ db.op[i].kind = "IP_CHANGE"
        /\ NewBox(i) \notin boxes /\ db.op[i] \in Operation
        /\ db.op[i].status \in {"PENDING", "RUNNING"}
    BY <1>2, WorkFacts DEF Mark, Keep
  <2>2. /\ o \in Operation /\ o.purchase = "REJECTED" /\ o.status = db.op[i].status
        /\ o.kind = db.op[i].kind /\ o.action = db.op[i].action
        /\ o.main = db.op[i].main /\ o.apply = db.op[i].apply
    <3>1. "REJECTED" \in Sends
      BY DEF Sends
    <3> QED
      BY <2>1, <3>1, PurchaseSays
  <2>3. Mark(i, "refused", o, "fail")
    BY <1>2
  <2> HIDE DEF o
  <2>4. Tale(i, o, row[i], "fail")
    BY <2>1, <2>2
       DEF Told, Tale, Unbought, Ordering, Finding, Waiting, Setting, Cleaning
  <2>5. "fail" \in Steps \ {"off"}
    BY DEF Steps
  <2> QED
    BY <2>1, <2>2, <2>3, <2>4, <2>5, MarkKeeps
<1> QED
  BY <1>1, <1>2 DEF CreateRecorded

\* A worker that has claimed its purchase gives up in doubt.
LEMMA UnclearKeeps ==
  ASSUME BInv, NEW i \in Ops, NEW from, Move(i, from, "unclear"),
         from \in {"created"} \cup Finding \cup Waiting \cup Setting
                    \cup {"published"}
  PROVE  BInv'
<1>1. pc[i] = from /\ from # "off"
  BY DEF Move, Finding, Waiting, Setting
<1>2. Told(i) /\ db.op[i].kind = "IP_CHANGE" /\ db.op[i].status \in {"PENDING", "RUNNING"}
  BY <1>1, WorkFacts
<1>3. Tale(i, db.op[i], row[i], "unclear") /\ "unclear" \in Steps \ {"off"}
  BY <1>1, <1>2 DEF Told, Tale, Unbought, Ordering, Finding, Waiting, Setting,
                    Cleaning, Steps
<1> QED
  BY <1>1, <1>3, MoveKeeps

\* The new box is found by its label and goes on record, or is not found.
LEMMA IdentifyKeeps ==
  ASSUME BInv, NEW i \in Ops, Identify(i)
  PROVE  BInv'
<1>1. CASE /\ pc[i] = "identify" /\ Goto(i, "confirm")
           /\ row' = [row EXCEPT ![i].new = NewBox(i)]
           /\ Save(i, Running(i)) /\ Quietly
  <2>1. /\ Told(i) /\ Keep(i) /\ TypeOK
        /\ db.op[i].kind = "IP_CHANGE" /\ Active(db, i) /\ db.lease = i /\ i # 0
    BY <1>1, WorkFacts
  <2>2. /\ db' \in Database /\ db'.op = [db.op EXCEPT ![i] = Running(i)]
        /\ db'.lease = i /\ ~db'.expired /\ SameRest(db, db')
    BY <1>1, <2>1, RunningSays, SaveFacts
  <2>3. /\ row' \in [Ops -> Row] /\ pc' \in [Ops -> Steps] /\ pc'[i] = "confirm"
        /\ row'[i].new = NewBox(i) /\ row'[i].published = row[i].published
        /\ row'[i].kept = row[i].kept /\ row'[i].box = row[i].box
        /\ row'[i].results = row[i].results /\ row'[i].named = row[i].named
        /\ db'.op[i] = Running(i)
        /\ \A j \in Ops \ {i} : /\ row'[j] = row[j] /\ pc'[j] = pc[j]
                                /\ db'.op[j] = db.op[j]
    <3>1. row \in [Ops -> Row] /\ pc \in [Ops -> Steps] /\ "confirm" \in Steps
          /\ db.op \in [Ops -> Operation]
      BY <2>1, Fields DEF TypeOK, Steps
    <3>2. NewBox(i) \in Boxes
      BY Bounds
    <3>3. row' = [row EXCEPT ![i].new = NewBox(i)] /\ row[i] \in Row
      BY <1>1, <3>1
    <3> DEFINE n == NewBox(i)
               r == [row[i] EXCEPT !.new = n]
    <3>4. row' = [row EXCEPT ![i] = r]
      BY <3>3
    <3>5. /\ r \in Row /\ r.new = n /\ r.published = row[i].published
          /\ r.kept = row[i].kept /\ r.box = row[i].box
          /\ r.results = row[i].results /\ r.named = row[i].named
      <4> HIDE DEF n
      <4> QED
        BY <3>2, <3>3 DEF Row, n
    <3> HIDE DEF r
    <3>6. /\ row' \in [Ops -> Row] /\ row'[i] = r
          /\ \A j \in Ops \ {i} : row'[j] = row[j]
      BY <3>1, <3>4, <3>5
    <3>7. /\ pc' \in [Ops -> Steps] /\ pc'[i] = "confirm"
          /\ \A j \in Ops \ {i} : pc'[j] = pc[j]
      BY <1>1, <3>1 DEF Goto
    <3>8. /\ db'.op[i] = Running(i)
          /\ \A j \in Ops \ {i} : db'.op[j] = db.op[j]
      BY <2>2, <3>1
    <3> QED
      BY <3>5, <3>6, <3>7, <3>8
  <2>4. TypeOK'
    BY <1>1, <2>1, <2>2, <2>3 DEF TypeOK, Quietly, cloud
  <2>5. \A k \in Ops : Past(k) => Past(k)'
    BY <2>3, RunningSays DEF Past
  <2>6. Told(i)' /\ Leases(i)'
    BY <1>1, <2>1, <2>2, <2>3, RunningSays
       DEF Told, Tale, Leases, Active, Unbought, Ordering, Finding, Waiting,
           Setting, Cleaning
  <2>7. Keep(i)'
    <3>1. PastBoxes \subseteq PastBoxes'
      BY <2>5, PastStays
    <3>2. /\ db'.op[i].action \notin {"DONE", "CLEANUP_REJECTED"}
          /\ db'.op[i].status # "FAILED"
      BY <1>1, <2>1, <2>3, RunningSays DEF Told, Tale
    <3>3. UNCHANGED <<boxes, work>>
      BY <1>1 DEF Quietly, cloud
    <3> QED
      BY <2>1, <2>3, <3>1, <3>2, <3>3 DEF Keep
  <2>8. Alone(i) /\ Publishing(i) /\ config' = config /\ boxes' = boxes
        /\ db'.op[i].kind = db.op[i].kind
    BY <1>1, <2>2, <2>3, RunningSays
       DEF Alone, Publishing, SameRest, Quietly, cloud
  <2> QED
    BY <1>1, <2>2, <2>3, <2>4, <2>5, <2>6, <2>7, <2>8, OwnStep
<1>2. CASE Mark(i, "confirm", [db.op[i] EXCEPT !.purchase = "CONFIRMED"], "provision")
  <2> DEFINE o == [db.op[i] EXCEPT !.purchase = "CONFIRMED"]
  <2>1. /\ pc[i] = "confirm" /\ Told(i) /\ db.op[i].kind = "IP_CHANGE"
        /\ db.op[i] \in Operation /\ db.op[i].status \in {"PENDING", "RUNNING"}
    BY <1>2, WorkFacts DEF Mark
  <2>2. /\ o \in Operation /\ o.purchase = "CONFIRMED" /\ o.status = db.op[i].status
        /\ o.kind = db.op[i].kind /\ o.action = db.op[i].action
        /\ o.main = db.op[i].main /\ o.apply = db.op[i].apply
    <3>1. "CONFIRMED" \in Sends
      BY DEF Sends
    <3> QED
      BY <2>1, <3>1, PurchaseSays
  <2>3. Mark(i, "confirm", o, "provision")
    BY <1>2
  <2> HIDE DEF o
  <2>4. Tale(i, o, row[i], "provision")
    BY <2>1, <2>2
       DEF Told, Tale, Unbought, Ordering, Finding, Waiting, Setting, Cleaning
  <2>5. "provision" \in Steps \ {"off"}
    BY DEF Steps
  <2> QED
    BY <2>1, <2>2, <2>3, <2>4, <2>5, MarkKeeps
<1>3. CASE \E step \in {"identify", "confirm"} : Move(i, step, "unclear")
  BY <1>3, UnclearKeeps DEF Finding
<1> QED
  BY <1>1, <1>2, <1>3 DEF Identify

LEMMA ProvisionKeeps ==
  ASSUME BInv, NEW i \in Ops, Provision(i)
  PROVE  BInv'
<1>1. CASE Mark(i, "provision", Step(i, "WAITING_SSH"), "ssh")
  <2>1. pc[i] = "provision" /\ Told(i) /\ db.op[i].kind = "IP_CHANGE"
    BY <1>1, WorkFacts DEF Mark
  <2>2. "WAITING_SSH" \in ActionStates /\ "ssh" \in Steps \ {"off"}
    BY DEF ActionStates, Steps
  <2>3. Tale(i, Step(i, "WAITING_SSH"), row[i], "ssh")
    BY <2>1, <2>2, StepSays
       DEF Told, Tale, Unbought, Ordering, Finding, Waiting, Setting, Cleaning
  <2> QED
    BY <1>1, <2>2, <2>3, StepSays, MarkKeeps
<1>2. CASE Move(i, "provision", "unclear")
  BY <1>2, UnclearKeeps DEF Waiting
<1> QED
  BY <1>1, <1>2 DEF Provision

\* The box answers, or is left to a decision.
LEMMA WaitSshKeeps ==
  ASSUME BInv, NEW i \in Ops, WaitSsh(i)
  PROVE  BInv'
<1>1. CASE Mark(i, "ssh", [Step(i, "APPLYING") EXCEPT !.apply = "RUNNING"], "deploy")
  <2> DEFINE o == [Step(i, "APPLYING") EXCEPT !.apply = "RUNNING"]
  <2>1. pc[i] = "ssh" /\ Told(i) /\ db.op[i].kind = "IP_CHANGE"
    BY <1>1, WorkFacts DEF Mark
  <2>2. /\ o \in Operation /\ o.apply = "RUNNING" /\ o.status = "RUNNING"
        /\ o.kind = db.op[i].kind /\ o.action = "APPLYING"
        /\ o.main = db.op[i].main /\ o.purchase = db.op[i].purchase
    <3>1. "APPLYING" \in ActionStates /\ "RUNNING" \in Applies
      BY DEF ActionStates, Applies
    <3> QED
      BY <3>1, StepSays, ApplySays
  <2>3. Mark(i, "ssh", o, "deploy")
    BY <1>1
  <2> HIDE DEF o
  <2>4. Tale(i, o, row[i], "deploy")
    BY <2>1, <2>2
       DEF Told, Tale, Unbought, Ordering, Finding, Waiting, Setting, Cleaning
  <2>5. "deploy" \in Steps \ {"off"}
    BY DEF Steps
  <2> QED
    BY <2>1, <2>2, <2>3, <2>4, <2>5, MarkKeeps
<1>2. CASE Finish(i, "ssh", Over(i, "DONE", "SSH_UNREACHABLE"))
  <2>1. pc[i] = "ssh" /\ Told(i) /\ db.op[i].kind = "IP_CHANGE"
    BY <1>2, WorkFacts DEF Finish
  <2>2. "SSH_UNREACHABLE" \in ActionStates /\ "DONE" \in Terminal
    BY DEF ActionStates, Terminal
  <2>3. Tale(i, Over(i, "DONE", "SSH_UNREACHABLE"), row[i], "off")
    BY <2>1, <2>2, OverSays
       DEF Told, Tale, Unbought, Ordering, Finding, Waiting, Setting, Cleaning
  <2> QED
    BY <1>2, <2>2, <2>3, OverSays, FinishKeeps
<1> QED
  BY <1>1, <1>2 DEF WaitSsh

LEMMA DeployKeeps ==
  ASSUME BInv, NEW i \in Ops, Deploy(i)
  PROVE  BInv'
<1>1. CASE Mark(i, "deploy", [db.op[i] EXCEPT !.apply = "APPLIED"], "deployed")
  <2> DEFINE o == [db.op[i] EXCEPT !.apply = "APPLIED"]
  <2>1. /\ pc[i] = "deploy" /\ Told(i) /\ db.op[i].kind = "IP_CHANGE"
        /\ db.op[i] \in Operation /\ db.op[i].status \in {"PENDING", "RUNNING"}
    BY <1>1, WorkFacts DEF Mark
  <2>2. /\ o \in Operation /\ o.apply = "APPLIED" /\ o.status = db.op[i].status
        /\ o.kind = db.op[i].kind /\ o.action = db.op[i].action
        /\ o.main = db.op[i].main /\ o.purchase = db.op[i].purchase
    <3>1. "APPLIED" \in Applies
      BY DEF Applies
    <3> QED
      BY <2>1, <3>1, ApplySays
  <2>3. Mark(i, "deploy", o, "deployed")
    BY <1>1
  <2> HIDE DEF o
  <2>4. Tale(i, o, row[i], "deployed")
    BY <2>1, <2>2
       DEF Told, Tale, Unbought, Ordering, Finding, Waiting, Setting, Cleaning
  <2>5. "deployed" \in Steps \ {"off"}
    BY DEF Steps
  <2> QED
    BY <2>1, <2>2, <2>3, <2>4, <2>5, MarkKeeps
<1>2. CASE Mark(i, "deployed", Running(i), "health")
  <2>1. pc[i] = "deployed" /\ Told(i) /\ db.op[i].kind = "IP_CHANGE"
    BY <1>2, WorkFacts DEF Mark
  <2>2. Tale(i, Running(i), row[i], "health") /\ "health" \in Steps \ {"off"}
    BY <2>1, RunningSays
       DEF Told, Tale, Unbought, Ordering, Finding, Waiting, Setting, Cleaning,
           Steps
  <2> QED
    BY <1>2, <2>2, RunningSays, MarkKeeps
<1>3. CASE Move(i, "health", "publish")
  <2>1. pc[i] = "health" /\ Told(i) /\ db.op[i].kind = "IP_CHANGE"
    BY <1>3, WorkFacts DEF Move
  <2>2. Tale(i, db.op[i], row[i], "publish") /\ "publish" \in Steps \ {"off"}
    BY <2>1 DEF Told, Tale, Unbought, Ordering, Finding, Waiting, Setting,
                Cleaning, Steps
  <2> QED
    BY <1>3, <2>2, MoveKeeps
<1>4. CASE \E step \in {"deploy", "deployed", "health"} : Move(i, step, "unclear")
  BY <1>4, UnclearKeeps DEF Setting
<1> QED
  BY <1>1, <1>2, <1>3, <1>4 DEF Deploy

\* A rotation ends: for a person to look at, in doubt, or before a purchase.
LEMMA RunOverKeeps ==
  ASSUME BInv, NEW i \in Ops, RunOver(i)
  PROVE  BInv'
<1>1. CASE Finish(i, "published", Over(i, "DONE", "AWAITING_USER_REVIEW"))
  <2>1. pc[i] = "published" /\ Told(i) /\ db.op[i].kind = "IP_CHANGE"
    BY <1>1, WorkFacts DEF Finish
  <2>2. "AWAITING_USER_REVIEW" \in ActionStates /\ "DONE" \in Terminal
    BY DEF ActionStates, Terminal
  <2>3. Tale(i, Over(i, "DONE", "AWAITING_USER_REVIEW"), row[i], "off")
    BY <2>1, <2>2, OverSays
       DEF Told, Tale, Unbought, Ordering, Finding, Waiting, Setting, Cleaning
  <2> QED
    BY <1>1, <2>2, <2>3, OverSays, FinishKeeps
<1>2. CASE Finish(i, "unclear", Over(i, "AMBIGUOUS", "AMBIGUOUS"))
  <2>1. pc[i] = "unclear" /\ Told(i) /\ db.op[i].kind = "IP_CHANGE"
    BY <1>2, WorkFacts DEF Finish
  <2>2. "AMBIGUOUS" \in ActionStates /\ "AMBIGUOUS" \in Terminal
    BY DEF ActionStates, Terminal
  <2>3. Tale(i, Over(i, "AMBIGUOUS", "AMBIGUOUS"), row[i], "off")
    BY <2>1, <2>2, OverSays
       DEF Told, Tale, Unbought, Ordering, Finding, Waiting, Setting, Cleaning
  <2> QED
    BY <1>2, <2>2, <2>3, OverSays, FinishKeeps
<1>3. CASE Finish(i, "fail", Over(i, "FAILED", "FAILED"))
  <2>1. /\ pc[i] = "fail" /\ Told(i) /\ db.op[i].kind = "IP_CHANGE"
        /\ NewBox(i) \notin boxes
    BY <1>3, WorkFacts DEF Finish, Keep
  <2>2. "FAILED" \in ActionStates /\ "FAILED" \in Terminal
    BY DEF ActionStates, Terminal
  <2>3. Tale(i, Over(i, "FAILED", "FAILED"), row[i], "off")
    BY <2>1, <2>2, OverSays, Bounds
       DEF Told, Tale, Unbought, Ordering, Finding, Waiting, Setting, Cleaning,
           NoBox
  <2> QED
    BY <1>3, <2>1, <2>2, <2>3, OverSays, FinishKeeps
<1> QED
  BY <1>1, <1>2, <1>3 DEF RunOver

-----------------------------------------------------------------------------
(***************************************************************************)
(* The publication of a new box.                                           *)
(***************************************************************************)
\* What a publication leaves in the database.
LEMMA PublishFacts ==
  ASSUME NEW d \in Database, NEW i \in Ops,
         d.op[i].rev = d.desired, d.desired < MaxRev
  PROVE  LET e == Publish(d, i)
             o == [d.op[i] EXCEPT !.status = "RUNNING", !.action = "PUBLISHED"]
         IN  /\ e \in Database /\ e.op = [d.op EXCEPT ![i] = o]
             /\ e.lease = d.lease /\ e.expired = d.expired
             /\ e.desired = d.desired + 1 /\ e.ip = NewIp(i)
<1> DEFINE r == d.op[i].rev
           o == [d.op[i] EXCEPT !.status = "RUNNING", !.action = "PUBLISHED"]
           s == [life |-> "APPLIED",
                 body |-> [d.snap[r].body EXCEPT !.ip = NewIp(i)]]
           x == [d EXCEPT !.snap[r + 1] = s, !.snap[r].life = "APPLIED",
                          !.ip = NewIp(i), !.published = NewIp(i),
                          !.desired = r + 1, !.applied = r + 1,
                          !.op[i].status = "RUNNING",
                          !.op[i].action = "PUBLISHED"]
<1>1. /\ d.op \in [Ops -> Operation] /\ d.snap \in [Revs -> Snapshot]
      /\ d.client \in [Clients -> Client] /\ NewIp(i) \in Addresses
      /\ r \in Revs /\ r + 1 \in Revs /\ r + 1 \in 0 .. MaxRev /\ r = d.desired
      /\ d.lease \in 0 .. MaxOps /\ d.expired \in BOOLEAN
  BY Fields, Bounds DEF Revs, Addresses, NewIp, Ops
<1>2. s \in Snapshot
  BY <1>1 DEF Snapshot, Body
<1>3. o \in Operation
  <2>1. d.op[i] \in Operation
    BY <1>1
  <2>2. "RUNNING" \in Statuses /\ "PUBLISHED" \in ActionStates
    BY DEF Statuses, ActionStates
  <2> QED
    BY <2>1, <2>2 DEF Operation
<1>4. [d.op EXCEPT ![i].status = "RUNNING", ![i].action = "PUBLISHED"]
        = [d.op EXCEPT ![i] = o]
  BY <1>1 DEF Operation
<1>5. [d.snap EXCEPT ![r + 1] = s, ![r].life = "APPLIED"] \in [Revs -> Snapshot]
  <2> DEFINE t == [d.snap EXCEPT ![r + 1] = s]
             v == [t[r] EXCEPT !.life = "APPLIED"]
  <2>1. t \in [Revs -> Snapshot]
    BY <1>1, <1>2
  <2>2. v \in Snapshot
    <3> HIDE DEF t
    <3> QED
      BY <1>1, <2>1 DEF Snapshot
  <2>3. [d.snap EXCEPT ![r + 1] = s, ![r].life = "APPLIED"] = [t EXCEPT ![r] = v]
    BY Zenon
  <2> HIDE DEF t, v
  <2> QED
    BY <1>1, <2>1, <2>2, <2>3
<1> DEFINE snap == [d.snap EXCEPT ![r + 1] = s, ![r].life = "APPLIED"]
           op == [d.op EXCEPT ![i] = o]
           y == [d EXCEPT !.snap = snap, !.ip = NewIp(i),
                          !.published = NewIp(i), !.desired = r + 1,
                          !.applied = r + 1, !.op = op]
<1>6. x = y
  <2> DEFINE k == [d EXCEPT !.snap = snap, !.ip = NewIp(i),
                            !.published = NewIp(i), !.desired = r + 1,
                            !.applied = r + 1]
  <2>1. k.op = d.op /\ [k EXCEPT !.op = op] = y
    <3> HIDE DEF snap, op, r
    <3> QED
      BY DEF Database
  <2>2. [k EXCEPT !.op[i].status = "RUNNING", !.op[i].action = "PUBLISHED"]
          = [k EXCEPT !.op = op]
    <3> HIDE DEF k, o
    <3> QED
      BY <1>4, <2>1
  <2>3. [d EXCEPT !.snap[r + 1] = s, !.snap[r].life = "APPLIED"]
          = [d EXCEPT !.snap = snap]
    <3> HIDE DEF s, r
    <3> QED
      BY DEF Database
  <2> HIDE DEF s, o, r, snap, op
  <2> QED
    BY <2>1, <2>2, <2>3
<1>7. x \in Database /\ x.op = op /\ x.lease = d.lease /\ x.expired = d.expired
      /\ x.desired = r + 1 /\ x.ip = NewIp(i)
  <2>1. snap \in [Revs -> Snapshot] /\ op \in [Ops -> Operation]
    <3> HIDE DEF s, o
    <3> QED
      BY <1>1, <1>3, <1>5
  <2> HIDE DEF x, s, o, r, snap, op
  <2> QED
    BY <1>1, <1>6, <2>1 DEF Database
<1>8. Publish(d, i) = PurgeDeleted(x)
  BY DEF Publish
<1> HIDE DEF x
<1>9. /\ PurgeDeleted(x) \in Database /\ PurgeDeleted(x).op = x.op
      /\ PurgeDeleted(x).lease = x.lease /\ PurgeDeleted(x).expired = x.expired
      /\ PurgeDeleted(x).desired = x.desired /\ PurgeDeleted(x).ip = x.ip
  <2> DEFINE c == [c \in Clients |-> IF /\ x.client[c].state = "deleted"
                                        /\ x.applied # 0
                                        /\ x.client[c].gone <= x.applied
                                     THEN [x.client[c] EXCEPT !.state = "purged"]
                                     ELSE x.client[c]]
  <2>1. PurgeDeleted(x) = [x EXCEPT !.client = c]
    BY DEF PurgeDeleted
  <2>2. c \in [Clients -> Client]
    BY <1>7, Fields DEF Client
  <2> HIDE DEF c
  <2> QED
    BY <1>7, <2>1, <2>2 DEF Database
<1> QED
  BY <1>1, <1>7, <1>8, <1>9

\* The address, the active box and the revision are published together.
LEMMA PublishBoxKeeps ==
  ASSUME BInv, NEW i \in Ops, PublishBox(i)
  PROVE  BInv'
<1>1. CASE /\ pc[i] = "publish" /\ Binds(i) /\ Bound(i)
           /\ db' = Publish(db, i)
           /\ row' = [row EXCEPT ![i].published = Rev(i) + 1]
           /\ config' = [config EXCEPT !.box = row[i].new]
           /\ Goto(i, "published")
           /\ UNCHANGED <<work, cloud, faults, edits>>
  <2>1. /\ Told(i) /\ Keep(i) /\ TypeOK
        /\ db.op[i].kind = "IP_CHANGE" /\ Active(db, i) /\ db.lease = i /\ i # 0
        /\ row[i] \in Row /\ db.op[i] \in Operation
    BY <1>1, WorkFacts
  <2>2. /\ row[i].published = 0 /\ row[i].new = NewBox(i) /\ Past(i)
        /\ db.op[i].purchase = "CONFIRMED" /\ db.op[i].apply # "NOT_STARTED"
        /\ db.op[i].main = "NOT_STARTED"
    BY <1>1, <2>1 DEF Told, Tale, Setting, Cleaning, Past
  <2>3. /\ db.desired \in Nat /\ db.desired < MaxRev /\ Rev(i) = db.desired
        /\ db \in Database /\ db.op[i].rev = db.desired
    <3>1. db.desired + MaxOps < MaxRev + i
      BY <2>1, <2>2 DEF BInv, Room
    <3> QED
      BY <1>1, <2>1, <3>1, Fields, DatabaseAssumption
         DEF TypeOK, Ops, Bound, Rev
  <2> DEFINE o == [db.op[i] EXCEPT !.status = "RUNNING", !.action = "PUBLISHED"]
  <2>4. /\ db' \in Database /\ db'.op = [db.op EXCEPT ![i] = o]
        /\ db'.lease = i /\ db'.expired = db.expired
        /\ db'.desired = db.desired + 1
    BY <1>1, <2>1, <2>3, PublishFacts
  <2>5. /\ o.kind = "IP_CHANGE" /\ o.status = "RUNNING" /\ o.action = "PUBLISHED"
        /\ o.purchase = "CONFIRMED" /\ o.main = "NOT_STARTED"
        /\ o.apply # "NOT_STARTED"
    BY <2>1, <2>2 DEF Operation
  <2> HIDE DEF o
  <2>6. /\ db'.op[i] = o /\ \A j \in Ops \ {i} : db'.op[j] = db.op[j]
    BY <2>1, <2>4, Fields DEF TypeOK
  <2> DEFINE n == Rev(i) + 1
             r == [row[i] EXCEPT !.published = n]
  <2>7. row' = [row EXCEPT ![i] = r] /\ n \in 0 .. MaxRev /\ n # 0
    BY <1>1, <2>3, Bounds
  <2>8. /\ r \in Row /\ r.published = n /\ r.new = row[i].new
        /\ r.kept = row[i].kept /\ r.box = row[i].box
        /\ r.results = row[i].results /\ r.named = row[i].named
    <3> HIDE DEF n
    <3> QED
      BY <2>1, <2>7 DEF Row
  <2> HIDE DEF r, n
  <2>9. /\ row' \in [Ops -> Row] /\ row'[i] = r
        /\ pc' \in [Ops -> Steps] /\ pc'[i] = "published"
        /\ \A j \in Ops \ {i} : row'[j] = row[j] /\ pc'[j] = pc[j]
    <3>1. row \in [Ops -> Row] /\ pc \in [Ops -> Steps] /\ "published" \in Steps
      BY <2>1 DEF TypeOK, Steps
    <3> QED
      BY <1>1, <2>7, <2>8, <3>1 DEF Goto
  <2>10. /\ config' \in [box : {NoBox} \cup Boxes, account : Accounts]
         /\ config'.box = row[i].new
    <3> DEFINE new == row[i].new
    <3>1. /\ config \in [box : {NoBox} \cup Boxes, account : Accounts]
          /\ new \in Boxes /\ config' = [config EXCEPT !.box = new]
      BY <1>1, <2>1, <2>2, Bounds DEF TypeOK
    <3> HIDE DEF new
    <3>2. /\ config' \in [box : {NoBox} \cup Boxes, account : Accounts]
          /\ config'.box = new
      BY <3>1
    <3> QED
      BY <3>2 DEF new
  <2>11. TypeOK'
    BY <1>1, <2>1, <2>4, <2>9, <2>10 DEF TypeOK, cloud
  <2>12. \A k \in Ops : Past(k) => Past(k)'
    BY <2>5, <2>6, <2>9 DEF Past
  <2>13. Told(i)' /\ Leases(i)'
    <3>1. Tale(i, o, r, "published")
      BY <2>1, <2>2, <2>5, <2>7, <2>8
         DEF Told, Tale, Unbought, Ordering, Finding, Waiting, Setting, Cleaning
    <3> QED
      BY <2>4, <2>5, <2>6, <2>9, <3>1 DEF Told, Leases, Active
  <2>14. Keep(i)'
    <3>1. PastBoxes \subseteq PastBoxes'
      BY <2>12, PastStays
    <3>2. UNCHANGED <<boxes, work>>
      BY <1>1 DEF cloud
    <3> QED
      BY <2>1, <2>5, <2>6, <2>8, <2>9, <3>1, <3>2 DEF Keep
  <2>15. row[i].new \in PastBoxes
    BY <2>1, <2>2, Bounds DEF PastBoxes
  <2>16. Alone(i) /\ Publishing(i) /\ boxes' = boxes
    BY <1>1, <2>2, <2>4, <2>6, <2>7, <2>8, <2>9 DEF Alone, Publishing, cloud
  <2>17. ~db'.expired /\ row'[i].published # 0 /\ db'.op[i].kind = db.op[i].kind
         /\ pc[i] # "off" /\ db'.lease \in {0, i} /\ Past(i)'
    <3>1. ~db'.expired /\ db'.lease \in {0, i}
      BY <2>4 DEF BInv
    <3>2. row'[i].published # 0 /\ db'.op[i].kind = db.op[i].kind
      BY <2>1, <2>5, <2>6, <2>7, <2>8, <2>9
    <3>3. pc[i] # "off" /\ Past(i)'
      BY <1>1, <2>2, <2>12
    <3> QED
      BY <3>1, <3>2, <3>3
  <2> QED
    BY <2>10, <2>11, <2>13, <2>14, <2>15, <2>16, <2>17, OwnStep
<1>2. CASE Move(i, "publish", "unclear")
  BY <1>2, UnclearKeeps DEF Setting
<1> QED
  BY <1>1, <1>2 DEF PublishBox

\* The wait for a box goes on, if the decision is still valid.
LEMMA ResumeKeeps ==
  ASSUME BInv, NEW i \in Ops, Resume(i)
  PROVE  BInv'
<1>1. CASE /\ pc[i] = "resume" /\ Goto(i, "recheck")
           /\ db' = [db EXCEPT !.op[i] = Step(i, "WAITING_SSH")]
           /\ UNCHANGED row /\ Quietly
  <2>1. /\ pc[i] # "off" /\ Told(i) /\ db.op[i].kind = "IP_CHANGE"
        /\ db.lease = i /\ db \in Database
    BY <1>1, WorkFacts DEF TypeOK
  <2>2. "WAITING_SSH" \in ActionStates /\ "recheck" \in Steps \ {"off"}
    BY DEF ActionStates, Steps
  <2>3. Tale(i, Step(i, "WAITING_SSH"), row[i], "recheck")
    BY <1>1, <2>1, <2>2, StepSays
       DEF Told, Tale, Unbought, Ordering, Finding, Waiting, Setting, Cleaning
  <2> DEFINE o == Step(i, "WAITING_SSH")
  <2>4. /\ o \in Operation /\ o.status = "RUNNING" /\ o.kind = db.op[i].kind
        /\ o.action = "WAITING_SSH" /\ o.purchase = db.op[i].purchase
    BY <2>2, StepSays
  <2> HIDE DEF o
  <2>5. /\ db' \in Database /\ db'.op = [db.op EXCEPT ![i] = o]
        /\ db'.lease = i /\ ~db'.expired /\ SameRest(db, db')
    BY <1>1, <2>1, <2>4, OpFacts DEF BInv, o
  <2> QED
    BY <1>1, <2>1, <2>2, <2>3, <2>4, <2>5, QuietlyApart, QuietStep DEF o
<1>2. CASE /\ pc[i] = "resume" /\ Goto(i, "off")
           /\ End(i, Over(i, "DONE", "SSH_UNREACHABLE"))
           /\ UNCHANGED row /\ Quietly
  <2>1. pc[i] = "resume" /\ Told(i) /\ db.op[i].kind = "IP_CHANGE"
    BY <1>2, WorkFacts
  <2>2. "SSH_UNREACHABLE" \in ActionStates /\ "DONE" \in Terminal
    BY DEF ActionStates, Terminal
  <2>3. Tale(i, Over(i, "DONE", "SSH_UNREACHABLE"), row[i], "off")
    BY <2>1, <2>2, OverSays
       DEF Told, Tale, Unbought, Ordering, Finding, Waiting, Setting, Cleaning
  <2>4. Finish(i, "resume", Over(i, "DONE", "SSH_UNREACHABLE"))
    BY <1>2 DEF Finish
  <2> QED
    BY <2>2, <2>3, <2>4, OverSays, FinishKeeps
<1>3. CASE Move(i, "recheck", "provision")
  <2>1. pc[i] = "recheck" /\ Told(i) /\ db.op[i].kind = "IP_CHANGE"
    BY <1>3, WorkFacts DEF Move
  <2>2. Tale(i, db.op[i], row[i], "provision") /\ "provision" \in Steps \ {"off"}
    BY <2>1 DEF Told, Tale, Unbought, Ordering, Finding, Waiting, Setting,
                Cleaning, Steps
  <2> QED
    BY <1>3, <2>2, MoveKeeps
<1>4. CASE Move(i, "recheck", "unclear")
  BY <1>4, UnclearKeeps DEF Waiting
<1> QED
  BY <1>1, <1>2, <1>3, <1>4 DEF Resume

\* A request or a transaction fails.
LEMMA RunFaultsKeeps ==
  ASSUME BInv, NEW i \in Ops, RunFaults(i)
  PROVE  BInv'
<1>1. PICK to \in {"fail", "unclear"} :
        /\ Goto(i, to)
        /\ to = "fail" => pc[i] \in Unbought \cup {"refused"}
        /\ to = "unclear" => pc[i] \in {"created"} \cup Finding \cup Waiting
                                         \cup Setting \cup {"published"}
  BY DEF RunFaults, Unbought, Finding, Waiting, Setting
<1>2. /\ UNCHANGED <<db, row, config, work, cloud, edits>>
      /\ faults' \in 0 .. MaxFaults
  BY SprintboxAssumption DEF RunFaults, Spend, BInv, TypeOK
<1>3. pc[i] # "off"
  BY <1>1 DEF Unbought, Finding, Waiting, Setting
<1>4. /\ Told(i) /\ Keep(i) /\ TypeOK /\ db.op[i].kind = "IP_CHANGE"
      /\ db.op[i] \in Operation /\ db.op[i].status \in {"PENDING", "RUNNING"}
      /\ db.lease = i /\ db \in Database
  BY <1>3, WorkFacts DEF TypeOK
<1>5. CASE to = "unclear"
  <2>1. Tale(i, db.op[i], row[i], "unclear") /\ "unclear" \in Steps \ {"off"}
    BY <1>1, <1>4, <1>5
       DEF Told, Tale, Unbought, Ordering, Finding, Waiting, Setting, Cleaning,
           Steps
  <2>2. db'.op = [db.op EXCEPT ![i] = db.op[i]] /\ db' = db /\ ~db'.expired
    BY <1>2, <1>4, Fields DEF BInv
  <2>3. Apart /\ UNCHANGED row /\ SameRest(db, db')
    BY <1>2, <1>4 DEF Apart, SameRest, TypeOK
  <2>4. db.op[i].action \notin {"DONE", "CLEANUP_REJECTED"}
    BY <2>1 DEF Tale
  <2> QED
    BY <1>1, <1>3, <1>4, <1>5, <2>1, <2>2, <2>3, <2>4, QuietStep
<1>6. CASE to = "fail"
  <2>1. /\ Tale(i, db.op[i], row[i], "fail") /\ "fail" \in Steps \ {"off"}
        /\ NewBox(i) \notin boxes
    <3>1. CASE pc[i] \in Unbought
      <4>1. ~Past(i)
        BY <1>4, <3>1 DEF Told, Tale, Past
      <4> QED
        BY <1>4, <3>1, <4>1, NothingBought
           DEF Told, Tale, Unbought, Ordering, Finding, Waiting, Setting,
               Cleaning, Steps
    <3>2. CASE pc[i] = "refused"
      BY <1>4, <3>2
         DEF Told, Tale, Unbought, Ordering, Finding, Waiting, Setting,
             Cleaning, Steps, Keep
    <3> QED
      BY <1>1, <1>6, <3>1, <3>2
  <2>2. db'.op = [db.op EXCEPT ![i] = db.op[i]] /\ db' = db /\ ~db'.expired
    BY <1>2, <1>4, Fields DEF BInv
  <2>3. Apart /\ UNCHANGED row /\ SameRest(db, db')
    BY <1>2, <1>4 DEF Apart, SameRest, TypeOK
  <2>4. db.op[i].action \notin {"DONE", "CLEANUP_REJECTED"}
    BY <2>1 DEF Tale
  <2> QED
    BY <1>1, <1>3, <1>4, <1>6, <2>1, <2>2, <2>3, <2>4, QuietStep
<1> QED
  BY <1>1, <1>5, <1>6

\* A first read fails: the worker is gone, and has left everything as it was.
LEMMA DiesKeeps ==
  ASSUME BInv, NEW i \in Ops, Dies(i)
  PROVE  BInv'
<1>1. /\ Goto(i, "dead") /\ pc[i] \in {"start", "resume", "recheck", "clean"}
      /\ UNCHANGED <<db, row, config, work, cloud, edits>>
      /\ faults' \in 0 .. MaxFaults
  BY SprintboxAssumption DEF Dies, Spend, BInv, TypeOK
<1>2. pc[i] # "off"
  BY <1>1
<1>3. /\ Told(i) /\ Keep(i) /\ TypeOK /\ db.op[i].kind = "IP_CHANGE"
      /\ db.op[i] \in Operation /\ db.op[i].status \in {"PENDING", "RUNNING"}
      /\ db.lease = i /\ db \in Database
  BY <1>2, WorkFacts DEF TypeOK
<1>4. Tale(i, db.op[i], row[i], "dead") /\ "dead" \in Steps \ {"off"}
  BY <1>1, <1>3
     DEF Told, Tale, Unbought, Ordering, Finding, Waiting, Setting, Cleaning,
         Steps
<1>5. db'.op = [db.op EXCEPT ![i] = db.op[i]] /\ db' = db /\ ~db'.expired
  BY <1>1, <1>3, Fields DEF BInv
<1>6. Apart /\ UNCHANGED row /\ SameRest(db, db')
  BY <1>1, <1>3 DEF Apart, SameRest, TypeOK
<1>7. db.op[i].action \notin {"DONE", "CLEANUP_REJECTED"}
  BY <1>4 DEF Tale
<1> QED
  BY <1>1, <1>2, <1>3, <1>4, <1>5, <1>6, <1>7, QuietStep

-----------------------------------------------------------------------------
(***************************************************************************)
(* run_sprintbox_cleanup.                                                  *)
(***************************************************************************)
Work == [todo : SUBSET Boxes, box : {NoBox} \cup Boxes,
         warned : SUBSET Boxes, unsure : BOOLEAN]

\* The operation goes on, or is over with this step.
StillSays(i, to, o) ==
  /\ o.kind = db.op[i].kind /\ o.purchase = db.op[i].purchase
  /\ o.main = db.op[i].main /\ o.apply = db.op[i].apply
  /\ IF to = "off" THEN o.status = "DONE" ELSE o.status \in {"PENDING", "RUNNING"}
  /\ to = "off" => o.action # "SSH_UNREACHABLE"
  /\ to # "off" => o.action \notin {"DONE", "CLEANUP_REJECTED"}

\* What the row and the variables of a clean-up have to say.
Honest(i, to, o, r, w) ==
  /\ r.box = row[i].box /\ r.new = row[i].new /\ r.published = row[i].published
  /\ r.account = row[i].account /\ r.kept \subseteq row[i].kept
  /\ \A b \in Boxes : r.results[b] # "none" => b \in PastBoxes
  /\ \A b \in Boxes : r.results[b] \in {"DELETED", "ABSENT"} => b \notin boxes
  /\ o.action = "DONE" => r.kept = {}
  /\ o.action = "CLEANUP_REJECTED" => r.kept \subseteq r.named
  /\ to \in {"sweep", "delete", "deleting"} =>
       r.kept \subseteq w.todo \cup w.warned /\ w.todo \subseteq PastBoxes
  /\ to \in {"delete", "deleting"} => w.box \in w.todo
  /\ to = "delete" => ValidTarget(i) /\ w.box # row[i].new

\* What else changes.
Around ==
  /\ UNCHANGED <<boxes, config, edits>> /\ faults' \in 0 .. MaxFaults
  /\ doomed' \subseteq Boxes /\ asked' \subseteq Boxes

\* A step of a clean-up: operation i is as o says, its row as r, its worker at
\* step to with the variables w.
Does(i, to, o, r, w) ==
  /\ Goto(i, to)
  /\ db' \in Database /\ db'.op = [db.op EXCEPT ![i] = o]
  /\ ~db'.expired /\ SameRest(db, db') /\ db'.lease = (IF to = "off" THEN 0 ELSE i)
  /\ row' = [row EXCEPT ![i] = r] /\ work' = [work EXCEPT ![i] = w]

LEMMA CleanStep ==
  ASSUME BInv, NEW i \in Ops, pc[i] \in Cleaning,
         NEW to \in Cleaning \cup {"off"}, NEW o \in Operation,
         NEW r \in Row, NEW w \in Work,
         Does(i, to, o, r, w), Around, StillSays(i, to, o), Honest(i, to, o, r, w)
  PROVE  BInv'
<1>1. /\ pc[i] # "off" /\ TypeOK /\ db.lease = i /\ Active(db, i) /\ Told(i) /\ Keep(i)
      /\ db.op[i].kind = "IP_CHANGE" /\ i # 0
  <2>1. pc[i] # "off"
    BY DEF Cleaning
  <2> QED
    BY <2>1, WorkFacts
<1>2. /\ db'.op[i] = o /\ row'[i] = r /\ work'[i] = w /\ pc'[i] = to
      /\ row' \in [Ops -> Row] /\ pc' \in [Ops -> Steps] /\ work' \in [Ops -> Work]
      /\ \A j \in Ops \ {i} : /\ db'.op[j] = db.op[j] /\ row'[j] = row[j]
                              /\ pc'[j] = pc[j] /\ work'[j] = work[j]
  <2>1. /\ row \in [Ops -> Row] /\ pc \in [Ops -> Steps] /\ to \in Steps
        /\ work \in [Ops -> Work] /\ db.op \in [Ops -> Operation]
    BY <1>1, Fields DEF TypeOK, Steps, Cleaning, Work
  <2> QED
    BY <2>1 DEF Goto, Does
<1>3. TypeOK'
  BY <1>1, <1>2 DEF TypeOK, Work, Around, Does
<1>4. /\ row[i].published # 0 /\ row[i].new = NewBox(i)
      /\ db.op[i].purchase = "CONFIRMED" /\ db.op[i].apply # "NOT_STARTED"
      /\ db.op[i].main = "NOT_STARTED"
  BY <1>1 DEF Told, Tale
<1>5. Told(i)' /\ Leases(i)'
  <2>1. Tale(i, o, r, to)
    BY <1>1, <1>4
       DEF Tale, StillSays, Honest, Unbought, Ordering, Finding, Waiting, Setting, Cleaning
  <2> QED
    BY <1>1, <1>2, <2>1 DEF Told, Leases, Active, Cleaning, StillSays, Does
<1>6. Past(i) /\ \A k \in Ops : Past(k) => Past(k)'
  BY <1>2, <1>4 DEF Past, Cleaning, StillSays
<1>7. PastBoxes \subseteq PastBoxes'
  BY <1>6, PastStays
<1>8. ValidTarget(i) => ValidTarget(i)'
  BY <1>2 DEF ValidTarget, SameRest, Around, Honest, Does
<1>9. Keep(i)'
  <2>1. /\ row[i].kept \subseteq PastBoxes /\ row[i].box \in PastBoxes \cup {NoBox}
    BY <1>1 DEF Keep
  <2>2. /\ to \notin {"refused", "fail"} /\ o.status # "FAILED"
    BY DEF Cleaning, StillSays
  <2> QED
    BY <1>2, <1>7, <1>8, <2>1, <2>2 DEF Keep, Around, Honest, StillSays
<1>10. Alone(i) /\ Publishing(i) /\ config' = config /\ boxes' = boxes
  BY <1>2 DEF Alone, Publishing, SameRest, Around, Does
<1>11. /\ ~db'.expired /\ db'.lease \in {0, i} /\ db'.op[i].kind = db.op[i].kind
       /\ row'[i].published = row[i].published /\ Past(i)'
  BY <1>2, <1>6 DEF StillSays, Honest, Does
<1> QED
  BY <1>1, <1>3, <1>5, <1>9, <1>10, <1>11, OwnStep

\* Where a clean-up stands.
LEMMA CleanFacts ==
  ASSUME BInv, NEW i \in Ops, pc[i] \in Cleaning
  PROVE  /\ pc[i] # "off" /\ TypeOK /\ db \in Database /\ db.lease = i /\ ~db.expired
         /\ Told(i) /\ Keep(i) /\ db.op[i] \in Operation
         /\ db.op[i].status \in {"PENDING", "RUNNING"}
         /\ db.op[i].action \notin {"DONE", "CLEANUP_REJECTED"}
         /\ row \in [Ops -> Row] /\ work \in [Ops -> Work]
         /\ row[i] \in Row /\ work[i] \in Work
<1>1. pc[i] # "off"
  BY DEF Cleaning
<1>2. TypeOK /\ db.lease = i /\ Told(i) /\ Keep(i) /\ db.op[i] \in Operation
      /\ db.op[i].status \in {"PENDING", "RUNNING"}
  BY <1>1, WorkFacts
<1> QED
  BY <1>1, <1>2 DEF BInv, TypeOK, Told, Tale, Work

\* The clean-up starts with every box that is kept.
LEMMA CleanStartKeeps ==
  ASSUME BInv, NEW i \in Ops, CleanStart(i)
  PROVE  BInv'
<1> DEFINE o == Step(i, "CLEANUP_RUNNING")
           t == row[i].kept
           w == [NoWork EXCEPT !.todo = t]
<1>1. pc[i] = "clean" /\ pc[i] \in Cleaning /\ "sweep" \in Cleaning
  BY DEF CleanStart, Cleaning
<1>2. /\ TypeOK /\ Keep(i) /\ row[i] \in Row /\ row \in [Ops -> Row]
      /\ db \in Database /\ db.lease = i /\ ~db.expired
  BY <1>1, CleanFacts
<1>3. /\ o \in Operation /\ o.status = "RUNNING" /\ o.kind = db.op[i].kind
      /\ o.action = "CLEANUP_RUNNING" /\ o.purchase = db.op[i].purchase
      /\ o.main = db.op[i].main /\ o.apply = db.op[i].apply
  BY StepSays DEF ActionStates
<1>4. db' = [db EXCEPT !.op[i] = o]
  BY DEF CleanStart
<1> HIDE DEF o
<1>5. /\ db' \in Database /\ db'.op = [db.op EXCEPT ![i] = o]
      /\ db'.lease = i /\ ~db'.expired /\ SameRest(db, db')
  BY <1>2, <1>3, <1>4, OpFacts
<1>6. w \in Work /\ w.todo = t
  BY <1>2 DEF Row, Work, NoWork
<1>7. work' = [work EXCEPT ![i] = w] /\ Goto(i, "sweep")
  BY DEF CleanStart
<1> HIDE DEF w
<1>8. row' = [row EXCEPT ![i] = row[i]]
  BY <1>2 DEF CleanStart
<1>9. Around
  BY <1>2 DEF CleanStart, cloud, TypeOK, Around
<1>10. /\ \A b \in Boxes : row[i].results[b] # "none" => b \in PastBoxes
       /\ \A b \in Boxes :
            row[i].results[b] \in {"DELETED", "ABSENT"} => b \notin boxes
       /\ row[i].kept \subseteq PastBoxes
  BY <1>2 DEF Keep
<1>11. StillSays(i, "sweep", o) /\ Honest(i, "sweep", o, row[i], w)
  BY <1>3, <1>6, <1>10 DEF StillSays, Honest
<1>12. Does(i, "sweep", o, row[i], w)
  BY <1>5, <1>7, <1>8 DEF Does
<1> QED
  BY <1>1, <1>2, <1>3, <1>6, <1>9, <1>11, <1>12, CleanStep

\* The verdict on a box.
Judged(i, b, result, r, w) ==
  /\ r.box = row[i].box /\ r.new = row[i].new /\ r.named = row[i].named
  /\ r.published = row[i].published /\ r.account = row[i].account
  /\ r.results = [row[i].results EXCEPT ![b] = result]
  /\ r.kept = IF result \in {"DELETED", "ABSENT"} THEN row[i].kept \ {b}
                                                  ELSE row[i].kept
  /\ w.todo = work[i].todo \ {b}
  /\ w.warned = IF result \in {"MANUAL", "AMBIGUOUS"}
                THEN work[i].warned \cup {b} ELSE work[i].warned

LEMMA JudgeSays ==
  ASSUME BInv, NEW i \in Ops, pc[i] \in Cleaning, NEW b \in Boxes,
         NEW result \in Results, Judge(i, b, result)
  PROVE  \E r \in Row, w \in Work :
           /\ row' = [row EXCEPT ![i] = r] /\ work' = [work EXCEPT ![i] = w]
           /\ Judged(i, b, result, r, w)
<1>1. row \in [Ops -> Row] /\ work \in [Ops -> Work] /\ row[i] \in Row /\ work[i] \in Work
  BY CleanFacts
<1> DEFINE results == [row[i].results EXCEPT ![b] = result]
           kept == IF result \in {"DELETED", "ABSENT"} THEN row[i].kept \ {b}
                                                       ELSE row[i].kept
           r == [row[i] EXCEPT !.results = results, !.kept = kept]
           todo == work[i].todo \ {b}
           warned == IF result \in {"MANUAL", "AMBIGUOUS"}
                     THEN work[i].warned \cup {b} ELSE work[i].warned
           unsure == work[i].unsure \/ result = "AMBIGUOUS"
           w == [work[i] EXCEPT !.todo = todo, !.box = NoBox, !.warned = warned,
                                !.unsure = unsure]
<1>2. row' = [row EXCEPT ![i] = r]
  BY <1>1 DEF Judge, Row
<1>3. work' = [work EXCEPT ![i] = w]
  BY <1>1 DEF Judge, Work
<1>4. /\ results \in [Boxes -> Results] /\ kept \in SUBSET Boxes
      /\ todo \in SUBSET Boxes /\ warned \in SUBSET Boxes /\ unsure \in BOOLEAN
  BY <1>1 DEF Row, Work
<1> HIDE DEF results, kept, todo, warned, unsure
<1>5. /\ r \in Row /\ r.box = row[i].box /\ r.new = row[i].new
      /\ r.named = row[i].named /\ r.published = row[i].published
      /\ r.account = row[i].account /\ r.results = results /\ r.kept = kept
  BY <1>1, <1>4 DEF Row
<1>6. w \in Work /\ w.todo = todo /\ w.warned = warned
  BY <1>1, <1>4 DEF Work
<1>7. Judged(i, b, result, r, w)
  <2> HIDE DEF r, w
  <2> QED
    BY <1>5, <1>6 DEF results, kept, todo, warned, Judged
<1> HIDE DEF r, w
<1> QED
  BY <1>2, <1>3, <1>5, <1>6, <1>7

\* A box is judged, and the clean-up goes on with the others.
LEMMA JudgeKeeps ==
  ASSUME BInv, NEW i \in Ops, pc[i] \in {"sweep", "delete", "deleting"},
         NEW b \in work[i].todo, NEW result \in Results \ {"none"},
         Judge(i, b, result), result \in {"DELETED", "ABSENT"} => b \notin boxes,
         result \in {"DELETED", "ABSENT", "MANUAL", "AMBIGUOUS"},
         NEW o \in Operation,
         db' \in Database, db'.op = [db.op EXCEPT ![i] = o],
         ~db'.expired, SameRest(db, db'), db'.lease = i,
         StillSays(i, "sweep", o), Around
  PROVE  BInv'
<1>1. pc[i] \in Cleaning /\ "sweep" \in Cleaning
  BY DEF Cleaning
<1>2. Keep(i) /\ row[i] \in Row /\ work[i] \in Work
  BY <1>1, CleanFacts
<1>3. b \in Boxes /\ b \in PastBoxes /\ result \in Results
  BY <1>2 DEF Keep, Work
<1>4. PICK r \in Row, w \in Work :
        /\ row' = [row EXCEPT ![i] = r] /\ work' = [work EXCEPT ![i] = w]
        /\ Judged(i, b, result, r, w)
  BY <1>1, <1>3, JudgeSays
<1>5. \A x \in Boxes : r.results[x] = IF x = b THEN result ELSE row[i].results[x]
  BY <1>2, <1>4 DEF Row, Judged
<1>6. /\ \A x \in Boxes : r.results[x] # "none" => x \in PastBoxes
      /\ \A x \in Boxes : r.results[x] \in {"DELETED", "ABSENT"} => x \notin boxes
  BY <1>2, <1>3, <1>5 DEF Keep
<1>7. /\ row[i].kept \subseteq work[i].todo \cup work[i].warned
      /\ work[i].todo \subseteq PastBoxes
  BY <1>2 DEF Keep
<1>8. r.kept \subseteq w.todo \cup w.warned
  <2>1. CASE result \in {"DELETED", "ABSENT"}
    BY <1>4, <1>7, <2>1 DEF Judged
  <2>2. CASE result \in {"MANUAL", "AMBIGUOUS"}
    BY <1>4, <1>7, <2>2 DEF Judged
  <2> QED
    BY <2>1, <2>2
<1>9. w.todo \subseteq PastBoxes /\ r.kept \subseteq row[i].kept
  BY <1>4, <1>7 DEF Judged
<1>10. Goto(i, "sweep")
  BY DEF Judge
<1>11. Honest(i, "sweep", o, r, w)
  BY <1>4, <1>6, <1>8, <1>9 DEF Honest, Judged, StillSays
<1>12. Does(i, "sweep", o, r, w)
  BY <1>4, <1>10 DEF Does
<1> QED
  BY <1>1, <1>11, <1>12, CleanStep

\* The operation itself stays, or becomes RUNNING again.
LEMMA StillRuns ==
  ASSUME BInv, NEW i \in Ops, pc[i] \in Cleaning, NEW to \in Cleaning
  PROVE  /\ StillSays(i, to, db.op[i]) /\ StillSays(i, to, Running(i))
         /\ db.op[i] \in Operation /\ Running(i) \in Operation
         /\ db.op = [db.op EXCEPT ![i] = db.op[i]]
<1>1. /\ TypeOK /\ Told(i) /\ db.op[i] \in Operation /\ row[i].published # 0
      /\ db.op[i].status \in {"PENDING", "RUNNING"}
      /\ db.op[i].action \notin {"DONE", "CLEANUP_REJECTED"}
      /\ db.op \in [Ops -> Operation]
  BY CleanFacts, Fields DEF Told, Tale
<1> QED
  BY <1>1, RunningSays DEF StillSays, Cleaning

\* A box is judged at once, or the request is recorded before it is made.
LEMMA CleanBoxKeeps ==
  ASSUME BInv, NEW i \in Ops, NEW b \in Boxes, CleanBox(i, b)
  PROVE  BInv'
<1>1. /\ pc[i] = "sweep" /\ pc[i] \in Cleaning /\ "sweep" \in Cleaning
      /\ "delete" \in Cleaning /\ b \in work[i].todo /\ Save(i, Running(i))
  BY DEF CleanBox, Cleaning
<1>2. /\ TypeOK /\ Keep(i) /\ row[i] \in Row /\ work[i] \in Work /\ db.lease = i
      /\ row \in [Ops -> Row] /\ work \in [Ops -> Work]
  BY <1>1, CleanFacts
<1>3. /\ Running(i) \in Operation
      /\ StillSays(i, "sweep", Running(i)) /\ StillSays(i, "delete", Running(i))
  BY <1>1, StillRuns
<1>4. /\ db' \in Database /\ db'.op = [db.op EXCEPT ![i] = Running(i)]
      /\ db'.lease = i /\ ~db'.expired /\ SameRest(db, db')
  BY <1>1, <1>2, <1>3, SaveFacts
<1>5. Around
  BY <1>2, SprintboxAssumption DEF CleanBox, Judge, Spend, cloud, TypeOK, Around
<1>6. CASE /\ ValidTarget(i) /\ b # row[i].new /\ b \in boxes
           /\ row[i].results[b] = "none"
           /\ row' = [row EXCEPT ![i].results[b] = "SENDING"]
           /\ work' = [work EXCEPT ![i].box = b]
           /\ Goto(i, "delete") /\ UNCHANGED faults
  <2> DEFINE results == [row[i].results EXCEPT ![b] = "SENDING"]
             r == [row[i] EXCEPT !.results = results]
             w == [work[i] EXCEPT !.box = b]
  <2>1. row' = [row EXCEPT ![i] = r] /\ work' = [work EXCEPT ![i] = w]
    BY <1>2, <1>6 DEF Row, Work
  <2>2. /\ results \in [Boxes -> Results]
        /\ \A x \in Boxes : results[x] = IF x = b THEN "SENDING" ELSE row[i].results[x]
    BY <1>2 DEF Row, Results
  <2> HIDE DEF results
  <2>3. /\ r \in Row /\ r.box = row[i].box /\ r.new = row[i].new
        /\ r.published = row[i].published /\ r.account = row[i].account
        /\ r.kept = row[i].kept /\ r.results = results
    BY <1>2, <2>2 DEF Row
  <2>4. w \in Work /\ w.todo = work[i].todo /\ w.warned = work[i].warned /\ w.box = b
    BY <1>2 DEF Work
  <2> HIDE DEF r, w
  <2>5. /\ \A x \in Boxes : row[i].results[x] # "none" => x \in PastBoxes
        /\ \A x \in Boxes :
             row[i].results[x] \in {"DELETED", "ABSENT"} => x \notin boxes
        /\ row[i].kept \subseteq work[i].todo \cup work[i].warned
        /\ work[i].todo \subseteq PastBoxes
    BY <1>1, <1>2 DEF Keep
  <2>6. Honest(i, "delete", Running(i), r, w)
    <3>1. /\ Running(i).action \notin {"DONE", "CLEANUP_REJECTED"}
      BY <1>3 DEF StillSays
    <3>2. /\ \A x \in Boxes : r.results[x] # "none" => x \in PastBoxes
          /\ \A x \in Boxes : r.results[x] \in {"DELETED", "ABSENT"} => x \notin boxes
      BY <1>1, <2>2, <2>3, <2>5
    <3> QED
      BY <1>1, <1>6, <2>3, <2>4, <2>5, <3>1, <3>2 DEF Honest
  <2> QED
    <3>1. Does(i, "delete", Running(i), r, w)
      BY <1>4, <1>6, <2>1 DEF Does
    <3> QED
      BY <1>1, <1>3, <1>5, <2>3, <2>4, <2>6, <3>1, CleanStep
<1>7. CASE b \notin boxes /\ Judge(i, b, "ABSENT")
  <2>1. "ABSENT" \in Results \ {"none"}
    BY DEF Results
  <2> QED
    BY <1>1, <1>3, <1>4, <1>5, <1>7, <2>1, JudgeKeeps
<1>8. CASE Judge(i, b, "MANUAL")
  <2>1. "MANUAL" \in Results \ {"none"}
    BY DEF Results
  <2> QED
    BY <1>1, <1>3, <1>4, <1>5, <1>8, <2>1, JudgeKeeps
<1> QED
  BY <1>6, <1>7, <1>8 DEF CleanBox

\* box/delete, whatever becomes of the request.
LEMMA DeleteKeeps ==
  ASSUME BInv, NEW i \in Ops, Delete(i)
  PROVE  BInv'
<1> DEFINE b == work[i].box
<1>1. /\ pc[i] = "delete" /\ pc[i] \in Cleaning /\ "sweep" \in Cleaning
      /\ "deleting" \in Cleaning /\ db' = db
  BY DEF Delete, Cleaning
<1>2. /\ TypeOK /\ Keep(i) /\ row[i] \in Row /\ work[i] \in Work /\ db.lease = i
      /\ row \in [Ops -> Row] /\ work \in [Ops -> Work] /\ db \in Database
      /\ ~db.expired
  BY <1>1, CleanFacts
<1>3. b \in work[i].todo /\ b \in Boxes
  BY <1>1, <1>2 DEF Keep, Work
<1>4. /\ db.op[i] \in Operation /\ db'.op = [db.op EXCEPT ![i] = db.op[i]]
      /\ StillSays(i, "sweep", db.op[i]) /\ StillSays(i, "deleting", db.op[i])
      /\ SameRest(db, db')
  BY <1>1, StillRuns DEF SameRest
<1>5. Around
  BY <1>2, <1>3, SprintboxAssumption DEF Delete, Judge, Spend, cloud, TypeOK, Around
<1>6. CASE /\ doomed' = doomed \cup {b} /\ Goto(i, "deleting")
           /\ row' = [row EXCEPT ![i].results[b] = "SENT"]
           /\ UNCHANGED <<work, faults>>
  <2> DEFINE results == [row[i].results EXCEPT ![b] = "SENT"]
             r == [row[i] EXCEPT !.results = results]
  <2>1. row' = [row EXCEPT ![i] = r] /\ work' = [work EXCEPT ![i] = work[i]]
    BY <1>2, <1>6 DEF Row, Work
  <2>2. /\ results \in [Boxes -> Results]
        /\ \A x \in Boxes : results[x] = IF x = b THEN "SENT" ELSE row[i].results[x]
    BY <1>2 DEF Row, Results
  <2> HIDE DEF results
  <2>3. /\ r \in Row /\ r.box = row[i].box /\ r.new = row[i].new
        /\ r.published = row[i].published /\ r.account = row[i].account
        /\ r.kept = row[i].kept /\ r.results = results
    BY <1>2, <2>2 DEF Row
  <2> HIDE DEF r
  <2>4. /\ \A x \in Boxes : row[i].results[x] # "none" => x \in PastBoxes
        /\ \A x \in Boxes :
             row[i].results[x] \in {"DELETED", "ABSENT"} => x \notin boxes
        /\ row[i].kept \subseteq work[i].todo \cup work[i].warned
        /\ work[i].todo \subseteq PastBoxes
    BY <1>1, <1>2 DEF Keep
  <2>5. Honest(i, "deleting", db.op[i], r, work[i])
    <3>1. db.op[i].action \notin {"DONE", "CLEANUP_REJECTED"}
      BY <1>4 DEF StillSays
    <3>2. /\ \A x \in Boxes : r.results[x] # "none" => x \in PastBoxes
          /\ \A x \in Boxes : r.results[x] \in {"DELETED", "ABSENT"} => x \notin boxes
      BY <1>3, <2>2, <2>3, <2>4
    <3> QED
      BY <1>3, <2>3, <2>4, <3>1, <3>2 DEF Honest
  <2> QED
    <3>1. Does(i, "deleting", db.op[i], r, work[i])
      BY <1>1, <1>2, <1>4, <1>6, <2>1 DEF Does
    <3> QED
      BY <1>1, <1>2, <1>4, <1>5, <2>3, <2>5, <3>1, CleanStep
<1>7. CASE Judge(i, b, "MANUAL")
  <2>1. "MANUAL" \in Results \ {"none"}
    BY DEF Results
  <2> QED
    BY <1>1, <1>2, <1>3, <1>4, <1>5, <1>7, <2>1, JudgeKeeps
<1>8. CASE Judge(i, b, "AMBIGUOUS")
  <2>1. "AMBIGUOUS" \in Results \ {"none"}
    BY DEF Results
  <2> QED
    BY <1>1, <1>2, <1>3, <1>4, <1>5, <1>8, <2>1, JudgeKeeps
<1> QED
  BY <1>6, <1>7, <1>8 DEF Delete

\* The task the provider has accepted comes to an end.
LEMMA DeletedKeeps ==
  ASSUME BInv, NEW i \in Ops, Deleted(i)
  PROVE  BInv'
<1> DEFINE b == work[i].box
<1>1. /\ pc[i] = "deleting" /\ pc[i] \in Cleaning /\ "sweep" \in Cleaning
      /\ Save(i, Running(i))
  BY DEF Deleted, Cleaning
<1>2. /\ TypeOK /\ Keep(i) /\ work[i] \in Work /\ db.lease = i
  BY <1>1, CleanFacts
<1>3. b \in work[i].todo /\ b \in Boxes
  BY <1>1, <1>2 DEF Keep, Work
<1>4. Running(i) \in Operation /\ StillSays(i, "sweep", Running(i))
  BY <1>1, StillRuns
<1>5. /\ db' \in Database /\ db'.op = [db.op EXCEPT ![i] = Running(i)]
      /\ db'.lease = i /\ ~db'.expired /\ SameRest(db, db')
  BY <1>1, <1>2, <1>4, SaveFacts
<1>6. Around
  BY <1>2, <1>3 DEF Deleted, Judge, cloud, TypeOK, Around
<1>7. PICK result \in {"DELETED", "MANUAL", "AMBIGUOUS"} :
        Judge(i, b, result) /\ (result = "DELETED" => b \notin boxes)
  BY DEF Deleted
<1>8. result \in Results \ {"none"}
  BY DEF Results
<1> QED
  BY <1>1, <1>3, <1>4, <1>5, <1>6, <1>7, <1>8, JudgeKeeps

\* The clean-up ends, and names the boxes it leaves.
LEMMA CleanOverKeeps ==
  ASSUME BInv, NEW i \in Ops, CleanOver(i)
  PROVE  BInv'
<1> DEFINE v == CleanVerdict(i)
           o == Over(i, "DONE", v)
           n == work[i].warned
           r == [row[i] EXCEPT !.named = n]
<1>1. /\ pc[i] = "sweep" /\ pc[i] \in Cleaning /\ work[i].todo = {}
      /\ Goto(i, "off") /\ End(i, o) /\ work' = [work EXCEPT ![i] = NoWork]
  BY DEF CleanOver, Cleaning
<1>2. /\ TypeOK /\ Keep(i) /\ row[i] \in Row /\ work[i] \in Work /\ db.lease = i
      /\ row \in [Ops -> Row]
  BY <1>1, CleanFacts
<1>3. /\ v \in {"CLEANUP_AMBIGUOUS", "CLEANUP_REJECTED", "DONE"}
      /\ v = "DONE" => n = {}
  BY DEF CleanVerdict
<1> HIDE DEF v
<1>4. v \in ActionStates /\ "DONE" \in Terminal
  BY <1>3 DEF ActionStates, Terminal
<1>5. /\ o \in Operation /\ o.status = "DONE" /\ o.kind = db.op[i].kind
      /\ o.action = v /\ o.purchase = db.op[i].purchase
      /\ o.main = db.op[i].main /\ o.apply = db.op[i].apply
  BY <1>4, OverSays
<1> HIDE DEF o
<1>6. /\ db' \in Database /\ db'.op = [db.op EXCEPT ![i] = o]
      /\ db'.lease = 0 /\ ~db'.expired /\ SameRest(db, db')
  BY <1>1, <1>2, <1>5, EndFacts
<1>7. row' = [row EXCEPT ![i] = r]
  BY DEF CleanOver
<1>8. /\ r \in Row /\ r.box = row[i].box /\ r.new = row[i].new
      /\ r.published = row[i].published /\ r.account = row[i].account
      /\ r.kept = row[i].kept /\ r.results = row[i].results /\ r.named = n
  <2>1. n \in SUBSET Boxes
    BY <1>2 DEF Work
  <2> HIDE DEF n
  <2> QED
    BY <1>2, <2>1 DEF Row
<1> HIDE DEF r
<1>9. NoWork \in Work
  BY DEF NoWork, Work
<1>10. Around
  BY <1>2 DEF CleanOver, cloud, TypeOK, Around
<1>11. StillSays(i, "off", o)
  BY <1>3, <1>5 DEF StillSays
<1>12. Honest(i, "off", o, r, NoWork)
  <2>1. row[i].kept \subseteq n
    BY <1>1, <1>2 DEF Keep
  <2>2. /\ \A x \in Boxes : row[i].results[x] # "none" => x \in PastBoxes
        /\ \A x \in Boxes :
             row[i].results[x] \in {"DELETED", "ABSENT"} => x \notin boxes
    BY <1>2 DEF Keep
  <2> HIDE DEF n
  <2> QED
    BY <1>3, <1>5, <1>8, <2>1, <2>2 DEF Honest
<1>13. Does(i, "off", o, r, NoWork)
  BY <1>1, <1>6, <1>7 DEF Does
<1> QED
  BY <1>1, <1>5, <1>8, <1>9, <1>10, <1>11, <1>12, <1>13, CleanStep

\* A transaction outside the handling of one box fails.
LEMMA CleanFailsKeeps ==
  ASSUME BInv, NEW i \in Ops, CleanFails(i)
  PROVE  BInv'
<1>1. CASE /\ pc[i] = "sweep" /\ Spend("db") /\ Goto(i, "clean_unclear")
           /\ work' = [work EXCEPT ![i] = NoWork]
           /\ UNCHANGED <<db, row, config, cloud, edits>>
  <2>1. /\ pc[i] \in Cleaning /\ "clean_unclear" \in Cleaning
    BY <1>1 DEF Cleaning
  <2>2. /\ TypeOK /\ Keep(i) /\ row[i] \in Row /\ db.lease = i
        /\ row \in [Ops -> Row] /\ db \in Database /\ ~db.expired
    BY <2>1, CleanFacts
  <2>3. /\ db.op[i] \in Operation /\ db'.op = [db.op EXCEPT ![i] = db.op[i]]
        /\ StillSays(i, "clean_unclear", db.op[i]) /\ SameRest(db, db')
        /\ db' = db
    BY <1>1, <2>1, StillRuns DEF SameRest
  <2>4. Around /\ NoWork \in Work /\ row' = [row EXCEPT ![i] = row[i]]
    BY <1>1, <2>2, SprintboxAssumption
       DEF Spend, cloud, TypeOK, Around, NoWork, Work
  <2>5. Honest(i, "clean_unclear", db.op[i], row[i], NoWork)
    BY <2>2, <2>3 DEF Keep, Honest, StillSays
  <2> QED
    <3>1. Does(i, "clean_unclear", db.op[i], row[i], NoWork)
      BY <1>1, <2>2, <2>3, <2>4 DEF Does
    <3> QED
      BY <2>1, <2>2, <2>3, <2>4, <2>5, <3>1, CleanStep
<1>2. CASE Finish(i, "clean_unclear", Over(i, "DONE", "CLEANUP_AMBIGUOUS"))
  <2>1. pc[i] = "clean_unclear" /\ Told(i) /\ db.op[i].kind = "IP_CHANGE"
    BY <1>2, WorkFacts DEF Finish
  <2>2. "CLEANUP_AMBIGUOUS" \in ActionStates /\ "DONE" \in Terminal
    BY DEF ActionStates, Terminal
  <2>3. Tale(i, Over(i, "DONE", "CLEANUP_AMBIGUOUS"), row[i], "off")
    BY <2>1, <2>2, OverSays
       DEF Told, Tale, Unbought, Ordering, Finding, Waiting, Setting, Cleaning
  <2> QED
    BY <1>2, <2>2, <2>3, OverSays, FinishKeeps
<1> QED
  BY <1>1, <1>2 DEF CleanFails

-----------------------------------------------------------------------------
(***************************************************************************)
(* The steps that begin when nobody is at work.                            *)
(***************************************************************************)
LEMMA NobodyWorks ==
  ASSUME BInv, db.lease = 0
  PROVE  \A i \in Ops : pc[i] = "off" /\ ~Active(db, i)
BY Bounds DEF BInv, Leases

\* An operation that is over, is not open unless a person has to decide on it.
LEMMA OpenWaits ==
  ASSUME BInv, NEW i \in OpenPurchases, ~Active(db, i)
  PROVE  /\ i \in Ops /\ db.op[i].kind = "IP_CHANGE"
         /\ \/ db.op[i].status = "DONE" /\ db.op[i].action = "SSH_UNREACHABLE"
            \/ db.op[i].status = "AMBIGUOUS" /\ db.op[i].action = "AMBIGUOUS"
<1>1. /\ i \in Ops /\ db.op[i].purchase \notin {"NOT_STARTED", "REJECTED"}
      /\ row[i].published = 0 /\ db.op[i].status # "FAILED"
      /\ db.op[i].action \notin {"RETRY_REQUESTED", "CANCELLED", "RECONCILED"}
  BY DEF OpenPurchases
<1>2. Told(i) /\ db.op[i].status \in Statuses
  BY <1>1, Fields DEF BInv, TypeOK, Operation
<1>3. /\ db.op[i].kind = "IP_CHANGE" /\ db.op[i].status \in {"DONE", "AMBIGUOUS"}
  BY <1>1, <1>2 DEF Told, Tale, Statuses, Terminal, Active
<1> QED
  BY <1>1, <1>2, <1>3 DEF Told, Tale

\* With the decision on operation except, nothing else is open.
LEMMA NothingElseOpen ==
  ASSUME BInv, db.lease = 0, NEW except \in Ops \cup {0}, CanRotate(db, except)
  PROVE  OpenPurchases \subseteq {except}
<1> SUFFICES ASSUME NEW i \in OpenPurchases
             PROVE  i = except
  OBVIOUS
<1>1. i \in Ops /\ ~Active(db, i)
  BY NobodyWorks DEF OpenPurchases
<1>2. /\ db.op[i].kind = "IP_CHANGE"
      /\ \/ db.op[i].status = "DONE" /\ db.op[i].action = "SSH_UNREACHABLE"
         \/ db.op[i].status = "AMBIGUOUS" /\ db.op[i].action = "AMBIGUOUS"
  BY <1>1, OpenWaits
<1>3. ~Unresolved(db, i) /\ (Undecided(db, i) => i = except)
  BY <1>1 DEF CanRotate
<1> QED
  BY <1>2, <1>3 DEF Unresolved, Undecided, IsRotation

\* What prepare_ip_change_operation leaves in the database.
LEMMA RotationFacts ==
  ASSUME NEW d \in Database, d.lease = 0, NEW j \in Ops
  PROVE  LET e == PrepareRotation(d, j)
         IN  /\ e \in Database
             /\ e.op = [d.op EXCEPT ![j] = NoOperation("IP_CHANGE", d.desired)]
             /\ NoOperation("IP_CHANGE", d.desired) \in Operation
             /\ e.lease = j /\ ~e.expired
             /\ e.desired = d.desired /\ e.ip = d.ip
<1> DEFINE f == EnsureSnapshot(d, FALSE)
           o == NoOperation("IP_CHANGE", d.desired)
           g == [f EXCEPT !.op[j] = o]
<1>1. /\ f \in Database /\ f.op = d.op /\ f.lease = 0
      /\ f.desired = d.desired /\ f.ip = d.ip
  <2>1. CASE d.snap[d.desired].life = "none"
    <3> DEFINE s == [life |-> "PREPARED", body |-> Content(d)]
    <3>1. s \in Snapshot
      <4>1. Content(d) \in Body
        BY Fields DEF Content, Body
      <4> QED
        BY <4>1 DEF Snapshot
    <3>2. f = [d EXCEPT !.snap[d.desired] = s]
      BY <2>1 DEF EnsureSnapshot
    <3> HIDE DEF s, f
    <3> QED
      BY <3>1, <3>2 DEF Database
  <2>2. CASE d.snap[d.desired].life # "none"
    BY <2>2 DEF EnsureSnapshot
  <2> QED
    BY <2>1, <2>2
<1> HIDE DEF f
<1>2. o \in Operation
  BY Fields, Bounds
     DEF NoOperation, Operation, Kinds, Statuses, ActionStates, Sends, Applies,
         Revs
<1> HIDE DEF o
<1>3. /\ g \in Database /\ g.op = [d.op EXCEPT ![j] = o]
      /\ g.desired = d.desired /\ g.ip = d.ip /\ g.lease = 0
  BY <1>1, <1>2, OpFacts DEF SameRest
<1>4. PrepareRotation(d, j) = [g EXCEPT !.lease = j, !.expired = FALSE]
  <2>1. PrepareRotation(d, j) = Acquire(g, j)
    BY DEF PrepareRotation, CreateOperation, f, o
  <2> HIDE DEF g
  <2> QED
    BY <1>3, <2>1 DEF Acquire
<1> HIDE DEF g
<1>5. j \in 0 .. MaxOps
  BY Bounds DEF Ops
<1> DEFINE e == [g EXCEPT !.lease = j, !.expired = FALSE]
<1>6. /\ e \in Database /\ e.op = g.op /\ e.lease = j /\ ~e.expired
      /\ SameRest(g, e)
  BY <1>3, <1>5, LeaseFacts
<1>7. PrepareRotation(d, j) = e
  BY <1>4
<1> HIDE DEF e
<1>8. /\ e.op = [d.op EXCEPT ![j] = o] /\ e.desired = d.desired /\ e.ip = d.ip
  BY <1>3, <1>6 DEF SameRest
<1> QED
  BY <1>2, <1>6, <1>7, <1>8 DEF o

\* The operation a new one follows, if any, is answered with it.
Answered(d, i) ==
  IF i = 0 THEN d ELSE [d EXCEPT !.op[i].action = "RETRY_REQUESTED"]

Answers(d, e, i) ==
  /\ e \in Database /\ e.lease = d.lease /\ e.expired = d.expired
  /\ SameRest(d, e)
  /\ \A k \in Ops : k # i => e.op[k] = d.op[k]
  /\ i \in Ops => /\ e.op[i].action = "RETRY_REQUESTED"
                  /\ e.op[i].kind = d.op[i].kind
                  /\ e.op[i].status = d.op[i].status
                  /\ e.op[i].purchase = d.op[i].purchase
                  /\ e.op[i].main = d.op[i].main
                  /\ e.op[i].apply = d.op[i].apply

LEMMA AnswerFacts ==
  ASSUME NEW d \in Database, NEW i \in Ops \cup {0}
  PROVE  Answers(d, Answered(d, i), i)
<1>1. d.op \in [Ops -> Operation] /\ 0 \notin Ops
  BY Fields, Bounds
<1>2. CASE i = 0
  BY <1>1, <1>2 DEF Answered, Answers, SameRest
<1>3. CASE i # 0
  <2> DEFINE o == [d.op[i] EXCEPT !.action = "RETRY_REQUESTED"]
  <2>1. i \in Ops
    BY <1>3
  <2>2. /\ o \in Operation /\ o.action = "RETRY_REQUESTED"
        /\ o.kind = d.op[i].kind /\ o.status = d.op[i].status
        /\ o.purchase = d.op[i].purchase /\ o.main = d.op[i].main
        /\ o.apply = d.op[i].apply
    <3>1. "RETRY_REQUESTED" \in ActionStates /\ d.op[i] \in Operation
      BY <1>1, <2>1 DEF ActionStates
    <3> QED
      BY <3>1 DEF Operation
  <2> DEFINE e == [d EXCEPT !.op[i] = o]
  <2>3. Answered(d, i) = e
    BY <1>3 DEF Answered
  <2> HIDE DEF o
  <2>4. /\ e \in Database /\ e.op = [d.op EXCEPT ![i] = o]
        /\ e.lease = d.lease /\ e.expired = d.expired /\ SameRest(d, e)
    BY <2>1, <2>2, OpFacts
  <2> HIDE DEF e
  <2>5. /\ e.op[i] = o /\ \A k \in Ops : k # i => e.op[k] = d.op[k]
    BY <1>1, <2>1, <2>4
  <2> QED
    BY <2>2, <2>3, <2>4, <2>5 DEF Answers
<1> QED
  BY <1>2, <1>3

\* A new operation takes the lease, and may answer the one it follows.
LEMMA PrepareKeeps ==
  ASSUME BInv, NEW j, NEW except \in Ops \cup {0}, NEW kept \in SUBSET PastBoxes,
         Prepare(j, db, except, kept), Quietly, NEW i \in Ops \cup {0},
         i \in Ops => db.op[i].status = "DONE" /\ row[i].new = NewBox(i),
         db' = Answered(PrepareRotation(db, j), i),
         except \in {0, i}
  PROVE  BInv'
<1>1. /\ j \in Ops /\ db.lease = 0 /\ db.op[j].kind = "none"
      /\ \A k \in Ops : k < j => db.op[k].kind # "none"
      /\ CanRotate(db, except) /\ Goto(j, "start")
      /\ row' = [row EXCEPT ![j] = NewRow(kept)]
  BY DEF Prepare, NextId, CanAcquire, BInv
<1>2. \A k \in Ops : pc[k] = "off" /\ ~Active(db, k)
  BY <1>1, NobodyWorks
<1>3. TypeOK /\ db \in Database /\ \A k \in Ops : Told(k) /\ Keep(k)
  BY DEF BInv, TypeOK
<1>4. OpenPurchases \subseteq {except} /\ i # j
  <2>1. OpenPurchases \subseteq {except}
    BY <1>1, NothingElseOpen
  <2>2. Told(j)
    BY <1>1, <1>3
  <2>3. db.op[j].status = "none"
    BY <1>1, <2>2 DEF Told, Tale
  <2>4. i # j
    BY <1>1, <2>3
  <2> QED
    BY <2>1, <2>4
<1> DEFINE d == PrepareRotation(db, j)
           n == NoOperation("IP_CHANGE", db.desired)
<1>5. /\ d \in Database /\ d.op = [db.op EXCEPT ![j] = n] /\ n \in Operation
      /\ d.lease = j /\ ~d.expired /\ d.desired = db.desired /\ d.ip = db.ip
  BY <1>1, <1>3, RotationFacts
<1>6. db' = Answered(d, i)
  OBVIOUS
<1>7. /\ n.kind = "IP_CHANGE" /\ n.status = "PENDING" /\ n.action = "NOT_STARTED"
      /\ n.purchase = "NOT_STARTED" /\ n.main = "NOT_STARTED"
      /\ n.apply = "NOT_STARTED"
  BY DEF NoOperation
<1> HIDE DEF d, n
<1>8. db.op \in [Ops -> Operation] /\ d.op \in [Ops -> Operation] /\ 0 \notin Ops
  <2>1. db.op \in [Ops -> Operation]
    BY <1>3, Fields
  <2>2. d.op \in [Ops -> Operation]
    BY <1>5, Fields
  <2>3. 0 \notin Ops
    BY Bounds
  <2> QED
    BY <2>1, <2>2, <2>3
<1> DEFINE Same(k) == /\ db'.op[k].kind = db.op[k].kind
                      /\ db'.op[k].status = db.op[k].status
                      /\ db'.op[k].purchase = db.op[k].purchase
                      /\ db'.op[k].main = db.op[k].main
                      /\ db'.op[k].apply = db.op[k].apply
<1>9. /\ db' \in Database /\ db'.op[j] = n /\ db'.lease = j /\ ~db'.expired
      /\ db'.desired = db.desired
      /\ \A k \in Ops \ {j} : Same(k)
      /\ \A k \in Ops \ {j} : k # i => db'.op[k].action = db.op[k].action
      /\ i \in Ops => db'.op[i].action = "RETRY_REQUESTED"
  <2>0. Answers(d, db', i)
    BY <1>5, <1>6, AnswerFacts
  <2>1. /\ db' \in Database /\ db'.lease = d.lease /\ db'.expired = d.expired
        /\ SameRest(d, db')
        /\ \A k \in Ops : k # i => db'.op[k] = d.op[k]
        /\ i \in Ops => /\ db'.op[i].action = "RETRY_REQUESTED"
                        /\ db'.op[i].kind = d.op[i].kind
                        /\ db'.op[i].status = d.op[i].status
                        /\ db'.op[i].purchase = d.op[i].purchase
                        /\ db'.op[i].main = d.op[i].main
                        /\ db'.op[i].apply = d.op[i].apply
    BY <2>0 DEF Answers
  <2>2. \A k \in Ops : d.op[k] = IF k = j THEN n ELSE db.op[k]
    BY <1>1, <1>5, <1>8
  <2>3. db'.desired = db.desired
    BY <1>5, <2>1 DEF SameRest
  <2>4. db'.op[j] = n
    BY <1>1, <1>4, <2>1, <2>2
  <2>5. ASSUME NEW k \in Ops \ {j}
        PROVE  Same(k) /\ (k # i => db'.op[k].action = db.op[k].action)
    <3>1. d.op[k] = db.op[k]
      BY <2>2
    <3>2. CASE k = i
      BY <2>1, <3>1, <3>2
    <3>3. CASE k # i
      BY <2>1, <3>1, <3>3
    <3> QED
      BY <3>2, <3>3
  <2> HIDE DEF Same
  <2> QED
    BY <1>5, <2>1, <2>3, <2>4, <2>5
<1> HIDE DEF Same
<1> DEFINE r == NewRow(kept)
<1>10. /\ r \in Row /\ r.box = config.box /\ r.new = NoBox /\ r.published = 0
       /\ r.kept = kept /\ r.named = {} /\ r.results = [b \in Boxes |-> "none"]
  <2>1. kept \in SUBSET Boxes
    BY DEF PastBoxes
  <2> QED
    BY <1>3, <2>1, Bounds DEF TypeOK, Row, NewRow, Results
<1> HIDE DEF r
<1>11. /\ row' \in [Ops -> Row] /\ row'[j] = r
       /\ pc' \in [Ops -> Steps] /\ pc'[j] = "start"
       /\ \A k \in Ops \ {j} : row'[k] = row[k] /\ pc'[k] = pc[k]
  <2>1. row \in [Ops -> Row] /\ pc \in [Ops -> Steps] /\ "start" \in Steps
    BY <1>3 DEF TypeOK, Steps
  <2> QED
    BY <1>1, <1>10, <2>1 DEF Goto, r
<1>12. UNCHANGED <<config, work, boxes, doomed, asked, faults, edits>>
  BY DEF Quietly, cloud
<1>13. TypeOK'
  BY <1>3, <1>9, <1>11, <1>12 DEF TypeOK
<1>14. PastBoxes \subseteq PastBoxes'
  <2>1. Told(j)
    BY <1>1, <1>3
  <2>2. ~Past(j)
    BY <1>1, <2>1 DEF Told, Tale, Past
  <2>3. \A k \in Ops : Past(k) => Past(k)'
    BY <1>9, <1>11, <2>2 DEF Past, Same
  <2> QED
    BY <2>3, PastStays
<1>15. \A k \in Ops : Told(k)'
  <2> TAKE k \in Ops
  <2>1. CASE k = j
    <3>1. Tale(j, n, r, "start")
      BY <1>7, <1>10
         DEF Tale, Unbought, Ordering, Finding, Waiting, Setting, Cleaning
    <3> QED
      BY <1>9, <1>11, <2>1, <3>1 DEF Told
  <2>2. CASE k # j
    <3>1. Told(k)
      BY <1>3
    <3>2. CASE k # i
      BY <1>9, <1>11, <2>2, <3>1, <3>2 DEF Told, Tale, Same
    <3>3. CASE k = i
      BY <1>9, <1>11, <2>2, <3>1, <3>3 DEF Told, Tale, Same
    <3> QED
      BY <3>2, <3>3
  <2> QED
    BY <2>1, <2>2
<1>16. \A k \in Ops : Leases(k)'
  <2>1. Leases(j)'
    BY <1>7, <1>9, <1>11 DEF Leases, Active
  <2>2. \A k \in Ops \ {j} : Leases(k)'
    BY <1>2, <1>9, <1>11 DEF Leases, Active, Same
  <2> QED
    BY <2>1, <2>2
<1>17. \A k \in Ops : Keep(k)'
  <2> TAKE k \in Ops
  <2>1. CASE k = j
    <3>1. config.box \in PastBoxes \cup {NoBox}
      BY DEF BInv, Places
    <3> QED
      BY <1>7, <1>9, <1>10, <1>11, <1>14, <2>1, <3>1 DEF Keep
  <2>2. CASE k # j
    <3>1. Keep(k) /\ pc[k] = "off"
      BY <1>2, <1>3
    <3>2. db'.op[k].action \in {db.op[k].action, "RETRY_REQUESTED"}
          /\ db'.op[k].status = db.op[k].status
      BY <1>9, <2>2 DEF Same
    <3> QED
      BY <1>11, <1>12, <1>14, <2>2, <3>1, <3>2 DEF Keep
  <2> QED
    BY <2>1, <2>2
<1>18. OpenPurchases' = {}
  <2> SUFFICES ASSUME NEW k \in OpenPurchases'
               PROVE  FALSE
    OBVIOUS
  <2>1. /\ k \in Ops /\ db'.op[k].purchase \notin {"NOT_STARTED", "REJECTED"}
        /\ row'[k].published = 0 /\ db'.op[k].status # "FAILED"
        /\ db'.op[k].action \notin {"RETRY_REQUESTED", "CANCELLED", "RECONCILED"}
    BY DEF OpenPurchases
  <2>2. k # j /\ k # i
    BY <1>7, <1>9, <2>1
  <2>3. k \in OpenPurchases
    BY <1>9, <1>11, <2>1, <2>2 DEF OpenPurchases, Same
  <2> QED
    BY <1>4, <1>8, <2>1, <2>2, <2>3
<1>19. Holds'
  BY <1>18 DEF Holds
<1>20. Order'
  BY <1>1, <1>7, <1>9 DEF BInv, Order, Same
<1>21. Room'
  <2> SUFFICES ASSUME NEW k \in Ops, row'[k].published = 0,
                      \/ db'.op[k].kind = "none" \/ Active(db, k)'
                      \/ Undecided(db, k)'
               PROVE  db'.desired + MaxOps < MaxRev + k
    BY DEF Room
  <2>1. CASE k = j
    <3>1. row[j].published = 0
      BY <1>1, <1>3 DEF Told, Tale
    <3> QED
      BY <1>1, <1>9, <2>1, <3>1 DEF BInv, Room
  <2>2. CASE k # j
    <3>1. row[k].published = 0
          /\ (db.op[k].kind = "none" \/ Active(db, k) \/ Undecided(db, k))
      BY <1>9, <1>11, <2>2 DEF Active, Undecided, Same
    <3> QED
      BY <1>9, <3>1 DEF BInv, Room
  <2> QED
    BY <2>1, <2>2
<1>22. Places'
  BY <1>12, <1>14 DEF BInv, Places
<1> QED
  BY <1>9, <1>13, <1>15, <1>16, <1>17, <1>19, <1>20, <1>21, <1>22 DEF BInv

LEMMA StartRotationKeeps ==
  ASSUME BInv, NEW j \in Ops, StartRotation(j)
  PROVE  BInv'
<1>1. /\ Prepare(j, db, 0, {}) /\ db' = Answered(PrepareRotation(db, j), 0)
      /\ Quietly /\ 0 \notin Ops /\ {} \in SUBSET PastBoxes
  BY Bounds DEF StartRotation, Answered
<1> QED
  BY <1>1, PrepareKeeps

\* Another address is asked for instead of saying that all is well.
LEMMA RetryReviewKeeps ==
  ASSUME BInv, NEW i \in Ops, NEW j \in Ops, RetryReview(i, j)
  PROVE  BInv'
<1>1. /\ Prepare(j, db, 0, {}) /\ Quietly /\ {} \in SUBSET PastBoxes
      /\ db.op[i].status = "DONE" /\ 0 \notin Ops
  BY Bounds DEF RetryReview, ValidReview
<1>2. db' = Answered(PrepareRotation(db, j), i)
  BY <1>1 DEF RetryReview, Answered
<1>3. row[i].new = NewBox(i)
  BY <1>1 DEF BInv, Told, Tale
<1> QED
  BY <1>1, <1>2, <1>3, PrepareKeeps

\* Another box is asked for, and the one that does not answer is kept.
LEMMA RetrySshKeeps ==
  ASSUME BInv, NEW i \in Ops, NEW j \in Ops, RetrySsh(i, j)
  PROVE  BInv'
<1> DEFINE kept == row[i].kept \cup {row[i].new}
<1>1. /\ Prepare(j, db, i, kept) /\ Quietly
      /\ db.op[i].status = "DONE" /\ 0 \notin Ops
  BY Bounds DEF RetrySsh, ValidSsh
<1>2. db' = Answered(PrepareRotation(db, j), i)
  BY <1>1 DEF RetrySsh, Answered
<1>3. row[i].new = NewBox(i) /\ db.op[i].purchase = "CONFIRMED"
  BY <1>1 DEF BInv, Told, Tale
<1>4. db.lease = 0 /\ pc[i] = "off"
  BY <1>1, NobodyWorks DEF Prepare, CanAcquire, BInv
<1>5. kept \in SUBSET PastBoxes
  <2>1. row[i].kept \subseteq PastBoxes
    BY DEF BInv, Keep
  <2>2. Past(i)
    BY <1>3, <1>4 DEF Past
  <2>3. NewBox(i) \in PastBoxes
    BY <2>2, Bounds DEF PastBoxes
  <2> QED
    BY <1>3, <2>1, <2>3
<1> HIDE DEF kept
<1> QED
  BY <1>1, <1>2, <1>3, <1>5, PrepareKeeps

\* A decision hands the operation back to a worker.
LEMMA RequeueKeeps ==
  ASSUME BInv, NEW i \in Ops, NEW action \in {"SSH_WAIT_QUEUED", "CLEANUP_QUEUED"},
         NEW step \in {"resume", "clean"}, Requeue(i, action, step),
         db.op[i].status = "DONE",
         IF step = "resume" THEN /\ row[i].published = 0
                                 /\ db.op[i].action = "SSH_UNREACHABLE"
                            ELSE row[i].published # 0
  PROVE  BInv'
<1>1. /\ db.lease = 0 /\ Goto(i, step) /\ UNCHANGED row /\ Quietly
      /\ db' = Acquire([db EXCEPT !.op[i].status = "PENDING",
                                  !.op[i].action = action], i)
  BY DEF Requeue, CanAcquire, BInv
<1>2. \A k \in Ops : pc[k] = "off" /\ ~Active(db, k)
  BY <1>1, NobodyWorks
<1>3. /\ TypeOK /\ db \in Database /\ db.op \in [Ops -> Operation]
      /\ \A k \in Ops : Told(k) /\ Keep(k)
  BY Fields DEF BInv, TypeOK
<1>4. db.op[i] \in Operation /\ i \in 0 .. MaxOps /\ i # 0
  BY <1>3, Bounds DEF Ops
<1> DEFINE o == [db.op[i] EXCEPT !.status = "PENDING", !.action = action]
           d == [db EXCEPT !.op[i] = o]
           e == [d EXCEPT !.lease = i, !.expired = FALSE]
<1>5. /\ o \in Operation /\ o.status = "PENDING" /\ o.action = action
      /\ o.kind = db.op[i].kind /\ o.purchase = db.op[i].purchase
      /\ o.main = db.op[i].main /\ o.apply = db.op[i].apply
  <2>1. action \in ActionStates /\ "PENDING" \in Statuses
    BY DEF ActionStates, Statuses
  <2> QED
    BY <1>4, <2>1 DEF Operation
<1>6. db' = Acquire(d, i)
  <2>1. [db EXCEPT !.op[i].status = "PENDING", !.op[i].action = action] = d
    <3>1. [db.op EXCEPT ![i].status = "PENDING", ![i].action = action]
            = [db.op EXCEPT ![i] = o]
      BY <1>3 DEF Operation
    <3> HIDE DEF o
    <3> QED
      BY <1>3, <3>1 DEF Database
  <2> QED
    BY <1>1, <2>1
<1> HIDE DEF o
<1>7. /\ d \in Database /\ d.op = [db.op EXCEPT ![i] = o] /\ d.lease = 0
      /\ SameRest(db, d)
  BY <1>1, <1>3, <1>5, OpFacts
<1> HIDE DEF d
<1>8. /\ e \in Database /\ e.op = d.op /\ e.lease = i /\ ~e.expired /\ SameRest(d, e)
  BY <1>4, <1>7, LeaseFacts
<1>9. db' = e
  BY <1>6, <1>7 DEF Acquire
<1> HIDE DEF e
<1>10. /\ db' \in Database /\ db'.lease = i /\ ~db'.expired
       /\ db'.desired = db.desired /\ db'.op = [db.op EXCEPT ![i] = o]
  BY <1>7, <1>8, <1>9 DEF SameRest
<1>11. /\ db'.op[i] = o /\ pc'[i] = step /\ pc' \in [Ops -> Steps]
       /\ \A k \in Ops \ {i} : db'.op[k] = db.op[k] /\ pc'[k] = pc[k]
  <2>1. pc \in [Ops -> Steps] /\ step \in Steps
    BY <1>3 DEF TypeOK, Steps
  <2> QED
    BY <1>1, <1>3, <1>10, <2>1 DEF Goto
<1>12. UNCHANGED <<row, config, work, boxes, doomed, asked, faults, edits>>
  BY <1>1 DEF Quietly, cloud
<1>13. TypeOK'
  BY <1>3, <1>10, <1>11, <1>12 DEF TypeOK
<1>14. PastBoxes \subseteq PastBoxes'
  <2>1. \A k \in Ops : Past(k) => Past(k)'
    BY <1>5, <1>11 DEF Past
  <2> QED
    BY <2>1, PastStays
<1>15. \A k \in Ops : Told(k)'
  <2> TAKE k \in Ops
  <2>1. CASE k = i
    <3>1. Told(i) /\ pc[i] = "off"
      BY <1>2, <1>3
    <3>2. Tale(i, o, row[i], step)
      BY <1>5, <3>1
         DEF Told, Tale, Unbought, Ordering, Finding, Waiting, Setting, Cleaning
    <3> QED
      BY <1>11, <1>12, <2>1, <3>2 DEF Told
  <2>2. CASE k # i
    BY <1>3, <1>11, <1>12, <2>2 DEF Told
  <2> QED
    BY <2>1, <2>2
<1>16. \A k \in Ops : Leases(k)'
  <2>1. Leases(i)'
    BY <1>5, <1>10, <1>11 DEF Leases, Active
  <2>2. \A k \in Ops \ {i} : Leases(k)'
    BY <1>2, <1>10, <1>11 DEF Leases, Active
  <2> QED
    BY <2>1, <2>2
<1>17. \A k \in Ops : Keep(k)'
  <2> TAKE k \in Ops
  <2>1. Keep(k) /\ pc[k] = "off" /\ Told(k)
    BY <1>2, <1>3
  <2>2. CASE k = i
    BY <1>5, <1>11, <1>12, <1>14, <2>1, <2>2 DEF Keep
  <2>3. CASE k # i
    BY <1>11, <1>12, <1>14, <2>1, <2>3 DEF Keep
  <2> QED
    BY <2>2, <2>3
<1>18. Holds'
  <2>1. \A k \in Ops \ {i} : /\ k \in OpenPurchases' <=> k \in OpenPurchases
                             /\ ~Unpublished(k)'
    BY <1>2, <1>11, <1>12 DEF OpenPurchases, Unpublished, Active
  <2>2. i \in OpenPurchases' \/ Unpublished(i)' => i \in OpenPurchases
    <3>1. Told(i)
      BY <1>3
    <3>2. db.op[i].purchase = "CONFIRMED"
      BY <3>1 DEF Told, Tale
    <3> QED
      BY <1>12, <3>2 DEF OpenPurchases, Unpublished
  <2>3. ASSUME NEW a \in Ops, NEW b \in Ops, a # b, a \in OpenPurchases'
        PROVE  b \notin OpenPurchases' /\ ~Unpublished(b)'
    BY <2>1, <2>2, <2>3 DEF BInv, Holds
  <2> QED
    BY <2>3 DEF Holds
<1>19. Order'
  <2>1. \A k \in Ops : db'.op[k].kind = db.op[k].kind
    BY <1>5, <1>11
  <2> QED
    BY <2>1 DEF BInv, Order
<1>20. Room'
  <2> SUFFICES ASSUME NEW k \in Ops, row'[k].published = 0,
                      \/ db'.op[k].kind = "none" \/ Active(db, k)'
                      \/ Undecided(db, k)'
               PROVE  db'.desired + MaxOps < MaxRev + k
    BY DEF Room
  <2>1. row[k].published = 0
        /\ (db.op[k].kind = "none" \/ Active(db, k) \/ Undecided(db, k))
    <3>1. CASE k = i
      BY <1>12, <3>1 DEF Undecided
    <3>2. CASE k # i
      BY <1>11, <1>12, <3>2 DEF Active, Undecided
    <3> QED
      BY <3>1, <3>2
  <2> QED
    BY <1>10, <2>1 DEF BInv, Room
<1>21. Places'
  BY <1>12, <1>14 DEF BInv, Places
<1> QED
  BY <1>10, <1>13, <1>15, <1>16, <1>17, <1>18, <1>19, <1>20, <1>21 DEF BInv

LEMMA WaitLongerKeeps ==
  ASSUME BInv, NEW i \in Ops, WaitLonger(i)
  PROVE  BInv'
<1>1. /\ Requeue(i, "SSH_WAIT_QUEUED", "resume") /\ db.op[i].status = "DONE"
      /\ row[i].published = 0 /\ db.op[i].action = "SSH_UNREACHABLE"
  BY DEF WaitLonger, ValidSsh
<1> QED
  BY <1>1, RequeueKeeps

LEMMA AcceptKeeps ==
  ASSUME BInv, NEW i \in Ops, Accept(i)
  PROVE  BInv'
<1>1. /\ Requeue(i, "CLEANUP_QUEUED", "clean") /\ db.op[i].status = "DONE"
      /\ row[i].published # 0
  BY DEF Accept, ValidReview, ValidTarget
<1> QED
  BY <1>1, RequeueKeeps

-----------------------------------------------------------------------------
(***************************************************************************)
(* Decisions that only write a verdict, whoever is at work.                *)
(***************************************************************************)
LEMMA VerdictKeeps ==
  ASSUME BInv, NEW i \in Ops, ~Active(db, i), NEW action \in {"CANCELLED", "RECONCILED"},
         db' = [db EXCEPT !.op[i].action = action],
         NEW named \in SUBSET Boxes, row' = [row EXCEPT ![i].named = named],
         UNCHANGED pc, Quietly,
         Told(i) => Tale(i, [db.op[i] EXCEPT !.action = action], row[i], pc[i])
  PROVE  BInv'
<1> DEFINE o == [db.op[i] EXCEPT !.action = action]
           r == [row[i] EXCEPT !.named = named]
<1>1. /\ TypeOK /\ db \in Database /\ db.op \in [Ops -> Operation] /\ ~db.expired
      /\ row \in [Ops -> Row] /\ db.op[i] \in Operation /\ row[i] \in Row
      /\ \A k \in Ops : Told(k) /\ Leases(k) /\ Keep(k)
  BY Fields DEF BInv, TypeOK
<1>2. /\ o \in Operation /\ o.action = action
      /\ o.status = db.op[i].status /\ o.kind = db.op[i].kind
      /\ o.purchase = db.op[i].purchase
  <2>1. action \in ActionStates
    BY DEF ActionStates
  <2> QED
    BY <1>1, <2>1 DEF Operation
<1>3. /\ r \in Row /\ r.named = named /\ r.box = row[i].box /\ r.new = row[i].new
      /\ r.published = row[i].published /\ r.kept = row[i].kept
      /\ r.results = row[i].results
  BY <1>1 DEF Row
<1>4. row' = [row EXCEPT ![i] = r] /\ db' = [db EXCEPT !.op[i] = o]
      /\ Tale(i, o, row[i], pc[i])
  BY <1>1
<1> HIDE DEF o, r
<1>5. /\ db' \in Database /\ db'.op = [db.op EXCEPT ![i] = o]
      /\ db'.lease = db.lease /\ ~db'.expired /\ SameRest(db, db')
  <2> DEFINE e == [db EXCEPT !.op[i] = o]
  <2>1. db' = e
    BY <1>4
  <2>2. /\ e \in Database /\ e.op = [db.op EXCEPT ![i] = o]
        /\ e.lease = db.lease /\ ~e.expired /\ SameRest(db, e)
    BY <1>1, <1>2, OpFacts
  <2> HIDE DEF e
  <2> QED
    BY <2>1, <2>2
<1>6. /\ db'.op[i] = o /\ \A k \in Ops \ {i} : db'.op[k] = db.op[k]
      /\ row'[i] = r /\ \A k \in Ops \ {i} : row'[k] = row[k]
      /\ row' \in [Ops -> Row] /\ db'.desired = db.desired /\ db'.ip = db.ip
      /\ pc' = pc
  BY <1>1, <1>3, <1>4, <1>5 DEF SameRest
<1>7. UNCHANGED <<config, work, boxes, doomed, asked, faults, edits>>
  BY DEF Quietly, cloud
<1>8. TypeOK'
  BY <1>1, <1>5, <1>6, <1>7 DEF TypeOK
<1>9. PastBoxes \subseteq PastBoxes'
  <2>1. \A k \in Ops : Past(k) => Past(k)'
    BY <1>2, <1>6 DEF Past
  <2> QED
    BY <2>1, PastStays
<1>10. \A k \in Ops : Told(k)'
  <2>1. Tale(i, o, r, pc[i])
    BY <1>3, <1>4 DEF Tale
  <2>2. Told(i)'
    BY <1>6, <2>1 DEF Told
  <2>3. \A k \in Ops \ {i} : Told(k)'
    BY <1>1, <1>6 DEF Told
  <2> QED
    BY <2>2, <2>3
<1>11. \A k \in Ops : Active(db, k)' <=> Active(db, k)
  BY <1>2, <1>6 DEF Active
<1>12. \A k \in Ops : Leases(k)'
  BY <1>1, <1>5, <1>6, <1>11 DEF Leases
<1>13. \A k \in Ops : Keep(k)'
  <2> TAKE k \in Ops
  <2>1. CASE k = i
    <3>1. Keep(i) /\ pc[i] = "off"
      BY <1>1 DEF Leases
    <3> QED
      BY <1>2, <1>3, <1>6, <1>7, <1>9, <2>1, <3>1 DEF Keep
  <2>2. CASE k # i
    <3>1. Keep(k) /\ db'.op[k] = db.op[k] /\ row'[k] = row[k]
      BY <1>1, <1>6, <2>2
    <3>2. ValidTarget(k) => ValidTarget(k)'
      BY <1>6, <1>7, <3>1 DEF ValidTarget
    <3> QED
      BY <1>6, <1>7, <1>9, <3>1, <3>2 DEF Keep
  <2> QED
    BY <2>1, <2>2
<1>14. Holds'
  <2>1. OpenPurchases' \subseteq OpenPurchases
    BY <1>2, <1>3, <1>6 DEF OpenPurchases
  <2>2. \A k \in Ops : Unpublished(k)' => Unpublished(k)
    BY <1>3, <1>6, <1>11 DEF Unpublished
  <2> QED
    BY <2>1, <2>2 DEF BInv, Holds
<1>15. \A k \in Ops : db'.op[k].kind = db.op[k].kind
  BY <1>2, <1>6
<1>16. Order'
  BY <1>15 DEF BInv, Order
<1>17. Room'
  <2>1. \A k \in Ops : /\ row'[k].published = row[k].published
                       /\ Undecided(db, k)' => Undecided(db, k)
    BY <1>2, <1>3, <1>6 DEF Undecided
  <2> QED
    BY <1>6, <1>11, <1>15, <2>1 DEF BInv, Room
<1>18. Places'
  BY <1>7, <1>9 DEF BInv, Places
<1> QED
  BY <1>5, <1>8, <1>10, <1>12, <1>13, <1>14, <1>16, <1>17, <1>18 DEF BInv

\* The wait is given up, and the boxes that stay are named.
LEMMA CancelSshKeeps ==
  ASSUME BInv, NEW i \in Ops, CancelSsh(i)
  PROVE  BInv'
<1> DEFINE named == (row[i].kept \cup {row[i].new}) \ {config.box}
<1>1. /\ db.op[i].status = "DONE" /\ db.op[i].action = "SSH_UNREACHABLE"
      /\ db' = [db EXCEPT !.op[i].action = "CANCELLED"]
      /\ row' = [row EXCEPT ![i].named = named] /\ UNCHANGED pc /\ Quietly
  BY DEF CancelSsh, Undecided
<1>2. /\ ~Active(db, i) /\ Told(i) /\ db.op[i] \in Operation /\ row[i] \in Row
  BY <1>1, Fields DEF BInv, TypeOK, Active
<1>3. named \in SUBSET Boxes
  <2>1. row[i].new = NewBox(i)
    BY <1>1, <1>2 DEF Told, Tale
  <2> QED
    BY <1>2, <2>1, Bounds DEF Row
<1> HIDE DEF named
<1>4. Tale(i, [db.op[i] EXCEPT !.action = "CANCELLED"], row[i], pc[i])
  <2> DEFINE o == [db.op[i] EXCEPT !.action = "CANCELLED"]
  <2>1. /\ o.kind = db.op[i].kind /\ o.status = "DONE" /\ o.action = "CANCELLED"
        /\ o.purchase = db.op[i].purchase /\ o.main = db.op[i].main
        /\ o.apply = db.op[i].apply
    BY <1>1, <1>2 DEF Operation
  <2> HIDE DEF o
  <2>2. Tale(i, o, row[i], pc[i])
    BY <1>1, <1>2, <2>1 DEF Told, Tale
  <2> QED
    BY <2>2 DEF o
<1> QED
  BY <1>1, <1>2, <1>3, <1>4, VerdictKeeps

\* A person has looked, and says so.
LEMMA ReconcileKeeps ==
  ASSUME BInv, NEW i \in Ops, Reconcile(i)
  PROVE  BInv'
<1>1. /\ db.op[i].status \in Terminal
      /\ \/ db.op[i].status = "AMBIGUOUS"
         \/ db.op[i].action \in {"CLEANUP_AMBIGUOUS", "PUBLISHED_AWAITING_AWG_CHECK"}
      /\ db' = [db EXCEPT !.op[i].action = "RECONCILED"]
      /\ UNCHANGED <<row, pc>> /\ Quietly
  BY DEF Reconcile, CanReconcile, Reconciled
<1>2. /\ ~Active(db, i) /\ Told(i) /\ db.op[i] \in Operation /\ row[i] \in Row
      /\ row \in [Ops -> Row]
  BY <1>1, Fields DEF BInv, TypeOK, Active, Terminal
<1>3. row' = [row EXCEPT ![i].named = row[i].named] /\ row[i].named \in SUBSET Boxes
  BY <1>1, <1>2 DEF Row
<1>4. Tale(i, [db.op[i] EXCEPT !.action = "RECONCILED"], row[i], pc[i])
  <2> DEFINE o == [db.op[i] EXCEPT !.action = "RECONCILED"]
  <2>1. /\ o.kind = db.op[i].kind /\ o.status = db.op[i].status
        /\ o.action = "RECONCILED"
        /\ o.purchase = db.op[i].purchase /\ o.main = db.op[i].main
        /\ o.apply = db.op[i].apply
    BY <1>1, <1>2 DEF Operation
  <2> HIDE DEF o
  <2>2. db.op[i].kind # "none"
    BY <1>1, <1>2 DEF Told, Tale, Terminal
  <2>3. Tale(i, o, row[i], pc[i])
    BY <1>1, <1>2, <2>1, <2>2 DEF Told, Tale
  <2> QED
    BY <2>3 DEF o
<1> QED
  BY <1>1, <1>2, <1>3, <1>4, VerdictKeeps

-----------------------------------------------------------------------------
(***************************************************************************)
(* The settings, the provider and the process.                             *)
(***************************************************************************)
\* Nothing that is at work is touched.
LEMMA AroundKeeps ==
  ASSUME BInv, TypeOK', UNCHANGED <<row, pc, work>>, db'.op = db.op,
         db'.lease = db.lease, db'.expired = db.expired,
         boxes' \subseteq boxes, config'.box \in PastBoxes \cup {NoBox},
         \A i \in Ops : pc[i] = "delete" /\ ValidTarget(i) => ValidTarget(i)',
         \/ db'.desired = db.desired
         \/ db'.desired = db.desired + 1 /\ db.desired + MaxOps < MaxRev
  PROVE  BInv'
<1>1. PastBoxes' = PastBoxes
  BY DEF PastBoxes, Past, Boxes, Addresses
<1>2. \A i \in Ops : Told(i)' /\ Leases(i)'
  BY DEF BInv, Told, Leases, Active
<1>3. \A i \in Ops : Keep(i)'
  <2> TAKE i \in Ops
  <2>1. Keep(i) /\ (pc[i] = "delete" /\ ValidTarget(i) => ValidTarget(i)')
    BY DEF BInv
  <2> QED
    BY <1>1, <2>1 DEF Keep
<1>4. Holds' /\ Order'
  BY DEF BInv, Holds, Order, OpenPurchases, Unpublished, Active
<1>5. Room'
  <2> SUFFICES ASSUME NEW i \in Ops, row[i].published = 0,
                      db.op[i].kind = "none" \/ Active(db, i) \/ Undecided(db, i)
               PROVE  db'.desired + MaxOps < MaxRev + i
    BY DEF Room, Active, Undecided
  <2>1. db.desired + MaxOps < MaxRev + i
    BY DEF BInv, Room
  <2>2. db.desired \in Nat /\ i \in Nat /\ i >= 1 /\ MaxOps \in Nat /\ MaxRev \in Nat
    BY Fields, Bounds DEF BInv, TypeOK
  <2> QED
    BY <2>1, <2>2
<1>6. Places'
  BY <1>1 DEF BInv, Places
<1> QED
  BY <1>2, <1>3, <1>4, <1>5, <1>6 DEF BInv

\* What is desired moves on, and the address with it.
LEMMA RevisionFacts ==
  ASSUME NEW d \in Database, d.desired + MaxOps < MaxRev, NEW ip \in Addresses
  PROVE  LET e == SetCurrentIp(d, ip)
         IN  /\ e \in Database /\ e.op = d.op /\ e.lease = d.lease
             /\ e.expired = d.expired /\ e.desired = d.desired + 1
<1>1. d.desired + 1 \in Revs
  BY Fields, DatabaseAssumption DEF Revs
<1> QED
  BY <1>1 DEF SetCurrentIp, NewRevision, Database

LEMMA ChangeClientsKeeps ==
  ASSUME BInv, ChangeClients
  PROVE  BInv'
<1>1. /\ db.desired + MaxOps < MaxRev /\ db' = NewRevision(db)
      /\ UNCHANGED <<row, config, pc, work, boxes, doomed, asked, faults>>
      /\ edits < MaxEdits /\ edits' = edits + 1
  BY DEF ChangeClients, Edit, cloud
<1>2. TypeOK /\ db \in Database /\ config.box \in PastBoxes \cup {NoBox}
  BY DEF BInv, TypeOK, Places
<1>3. /\ db' \in Database /\ db'.op = db.op /\ db'.lease = db.lease
      /\ db'.expired = db.expired /\ db'.desired = db.desired + 1 /\ db'.ip = db.ip
  <2>1. db.desired + 1 \in Revs
    BY <1>1, <1>2, Fields, DatabaseAssumption DEF Revs
  <2> QED
    BY <1>1, <1>2, <2>1 DEF NewRevision, Database
<1>4. TypeOK'
  BY <1>1, <1>2, <1>3, SprintboxAssumption DEF TypeOK
<1>5. \A i \in Ops : ValidTarget(i) => ValidTarget(i)'
  BY <1>1, <1>3 DEF ValidTarget
<1> QED
  BY <1>1, <1>2, <1>3, <1>4, <1>5, AroundKeeps

\* The settings are saved while nothing is being done.
LEMMA SaveSettingsKeeps ==
  ASSUME BInv, NEW b \in Boxes \cup {NoBox}, NEW a \in Accounts, SaveSettings(b, a)
  PROVE  BInv'
<1>1. /\ db.lease = 0 /\ b \in boxes \cup {NoBox}
      /\ config' = [box |-> b, account |-> a]
      /\ UNCHANGED <<row, pc, work, boxes, doomed, asked, faults>>
      /\ edits < MaxEdits /\ edits' = edits + 1
      /\ \/ db' = db
         \/ /\ b # NoBox /\ db.desired + MaxOps < MaxRev
            /\ db' = SetCurrentIp(db, b)
  BY DEF SaveSettings, Idle, Edit, cloud
<1>2. TypeOK /\ db \in Database /\ b \in PastBoxes \cup {NoBox}
  BY <1>1 DEF BInv, TypeOK, Places
<1>3. /\ db' \in Database /\ db'.op = db.op /\ db'.lease = db.lease
      /\ db'.expired = db.expired
      /\ \/ db'.desired = db.desired
         \/ db'.desired = db.desired + 1 /\ db.desired + MaxOps < MaxRev
  <2>1. CASE db' = db
    BY <1>2, <2>1
  <2>2. CASE /\ b # NoBox /\ db.desired + MaxOps < MaxRev
             /\ db' = SetCurrentIp(db, b)
    <3>1. b \in Addresses
      BY <2>2 DEF Boxes
    <3> QED
      BY <1>2, <2>2, <3>1, RevisionFacts
  <2> QED
    BY <1>1, <2>1, <2>2
<1>4. TypeOK'
  BY <1>1, <1>2, <1>3, SprintboxAssumption DEF TypeOK
<1>5. \A i \in Ops : pc[i] # "delete"
  BY <1>1, NobodyWorks
<1> QED
  BY <1>1, <1>2, <1>3, <1>4, <1>5, AroundKeeps

\* Boxes disappear, by hand or because the panel asked for it.
LEMMA BoxGoneKeeps ==
  ASSUME BInv, boxes' \subseteq boxes, edits' \in 0 .. MaxEdits,
         UNCHANGED <<db, row, config, pc, work, doomed, asked, faults>>
  PROVE  BInv'
<1>1. TypeOK /\ config.box \in PastBoxes \cup {NoBox}
  BY DEF BInv, Places
<1>2. TypeOK'
  BY <1>1 DEF TypeOK
<1>3. \A i \in Ops : ValidTarget(i) => ValidTarget(i)'
  BY DEF ValidTarget
<1> QED
  BY <1>1, <1>2, <1>3, AroundKeeps

\* recover_incomplete_vps_operations.
LEMMA RecoverFacts ==
  ASSUME NEW d \in Database,
         \A i \in Ops : d.op[i].kind \in {"none", "IP_CHANGE"}
  PROVE  LET e == RecoverIncomplete(d)
         IN  /\ e \in Database /\ e.lease = 0 /\ ~e.expired
             /\ e.desired = d.desired
             /\ \A i \in Ops : e.op[i] = IF Active(d, i) THEN Interrupted(d.op[i])
                                                         ELSE d.op[i]
<1> DEFINE S == {i \in Ops : Active(d, i)}
           op == [i \in Ops |-> IF i \in S /\ Active(d, i)
                                THEN Interrupted(d.op[i]) ELSE d.op[i]]
           snap == [r \in Revs |->
                      IF /\ d.snap[r].life = "PREPARED"
                         /\ \E i \in S : d.op[i].kind = "INSTALL" /\ d.op[i].rev = r
                      THEN [d.snap[r] EXCEPT !.life = "FAILED"]
                      ELSE d.snap[r]]
           f == [d EXCEPT !.op = op, !.snap = snap]
           e == [f EXCEPT !.lease = 0, !.expired = FALSE]
<1>1. RecoverIncomplete(d) = e
  BY DEF RecoverIncomplete, FailOwners
<1>2. snap \in [Revs -> Snapshot]
  <2>1. \A r \in Revs : d.snap[r] \in Snapshot
    BY Fields
  <2>2. snap = [r \in Revs |-> d.snap[r]]
    OBVIOUS
  <2> HIDE DEF snap
  <2> QED
    BY <2>1, <2>2
<1>3. op \in [Ops -> Operation]
  <2>1. ASSUME NEW o \in Operation
        PROVE  Interrupted(o) \in Operation
    <3>1. /\ {"DONE", "AMBIGUOUS", "FAILED"} \subseteq Statuses
          /\ {"SSH_UNREACHABLE", "AMBIGUOUS", "NOT_STARTED"} \subseteq ActionStates
      BY DEF Statuses, Terminal, ActionStates
    <3> QED
      BY <3>1 DEF Interrupted, Operation
  <2>2. \A i \in Ops : d.op[i] \in Operation
    BY Fields
  <2> QED
    BY <2>1, <2>2
<1>4. \A i \in Ops : op[i] = IF Active(d, i) THEN Interrupted(d.op[i]) ELSE d.op[i]
  OBVIOUS
<1> HIDE DEF op, snap
<1>5. f \in Database /\ f.op = op /\ f.desired = d.desired
  BY <1>2, <1>3 DEF Database
<1> HIDE DEF f
<1>6. e \in Database /\ e.op = op /\ e.lease = 0 /\ ~e.expired /\ e.desired = d.desired
  <2>1. 0 \in 0 .. MaxOps
    BY Bounds
  <2>2. e \in Database /\ e.op = f.op /\ e.lease = 0 /\ ~e.expired /\ SameRest(f, e)
    BY <1>5, <2>1, LeaseFacts
  <2> HIDE DEF e
  <2> QED
    BY <1>5, <2>2 DEF SameRest
<1> HIDE DEF e
<1> QED
  BY <1>1, <1>4, <1>6

\* What an interrupted operation becomes: never one that looks as if nothing
\* had been bought when something may have been.
LEMMA InterruptedSays ==
  ASSUME NEW i \in Ops, NEW o \in Operation, NEW r \in Row, NEW p \in Steps,
         Tale(i, o, r, p), o.status \in {"PENDING", "RUNNING"}
  PROVE  LET q == Interrupted(o)
         IN  /\ Tale(i, q, r, "off")
             /\ q.kind = o.kind /\ q.purchase = o.purchase /\ q.apply = o.apply
             /\ q.status \in {"DONE", "AMBIGUOUS", "FAILED"}
             /\ q.status = "FAILED" => o.purchase = "NOT_STARTED"
             /\ q.action \notin {"DONE", "CLEANUP_REJECTED"}
<1> DEFINE q == Interrupted(o)
<1>1. o.kind = "IP_CHANGE"
  BY DEF Tale
<1>2. CASE OnlyWaited(o)
  <2>1. q = [o EXCEPT !.status = "DONE", !.action = "SSH_UNREACHABLE"]
    BY <1>2 DEF Interrupted
  <2>2. /\ q.kind = o.kind /\ q.purchase = o.purchase /\ q.apply = o.apply
        /\ q.main = o.main /\ q.status = "DONE" /\ q.action = "SSH_UNREACHABLE"
    BY <2>1 DEF Operation
  <2>3. o.purchase = "CONFIRMED" /\ o.apply = "NOT_STARTED"
    BY <1>2 DEF OnlyWaited
  <2> HIDE DEF q
  <2>4. Tale(i, q, r, "off")
    BY <1>1, <2>2, <2>3
       DEF Tale, Unbought, Ordering, Finding, Waiting, Setting, Cleaning
  <2> QED
    BY <2>2, <2>4 DEF q
<1>3. CASE ~OnlyWaited(o) /\ MayHaveActed(o)
  <2>1. q = [o EXCEPT !.status = "AMBIGUOUS", !.action = "AMBIGUOUS"]
    BY <1>3 DEF Interrupted
  <2>2. /\ q.kind = o.kind /\ q.purchase = o.purchase /\ q.apply = o.apply
        /\ q.main = o.main /\ q.status = "AMBIGUOUS" /\ q.action = "AMBIGUOUS"
    BY <2>1 DEF Operation
  <2>3. o.purchase # "NOT_STARTED"
    BY <1>1, <1>3 DEF MayHaveActed, Tale
  <2> HIDE DEF q
  <2>4. Tale(i, q, r, "off")
    BY <1>1, <2>2, <2>3
       DEF Tale, Unbought, Ordering, Finding, Waiting, Setting, Cleaning
  <2> QED
    BY <2>2, <2>4 DEF q
<1>4. CASE ~OnlyWaited(o) /\ ~MayHaveActed(o)
  <2>1. q = [o EXCEPT !.status = "FAILED", !.action = "NOT_STARTED"]
    BY <1>1, <1>4 DEF Interrupted
  <2>2. /\ q.kind = o.kind /\ q.purchase = o.purchase /\ q.apply = o.apply
        /\ q.main = o.main /\ q.status = "FAILED" /\ q.action = "NOT_STARTED"
    BY <2>1 DEF Operation
  <2>3. o.purchase = "NOT_STARTED"
    BY <1>1, <1>4 DEF MayHaveActed
  <2> HIDE DEF q
  <2>4. Tale(i, q, r, "off")
    BY <1>1, <2>2, <2>3
       DEF Tale, Unbought, Ordering, Finding, Waiting, Setting, Cleaning
  <2> QED
    BY <2>2, <2>3, <2>4 DEF q
<1> QED
  BY <1>2, <1>3, <1>4

\* The panel is restarted: no worker is left.
LEMMA RestartKeeps ==
  ASSUME BInv, Restart
  PROVE  BInv'
<1>1. /\ db' = RecoverIncomplete(db) /\ pc' = [i \in Ops |-> "off"]
      /\ work' = [i \in Ops |-> NoWork] /\ faults' = faults + 1 /\ faults < MaxFaults
      /\ UNCHANGED <<row, config, boxes, doomed, asked, edits>>
  BY DEF Restart, Spend, cloud
<1>2. /\ TypeOK /\ db \in Database /\ db.op \in [Ops -> Operation]
      /\ \A k \in Ops : Told(k) /\ Leases(k) /\ Keep(k)
  BY Fields DEF BInv, TypeOK
<1>3. \A k \in Ops : db.op[k].kind \in {"none", "IP_CHANGE"}
  BY <1>2 DEF Told, Tale
<1>4. /\ db' \in Database /\ db'.lease = 0 /\ ~db'.expired
      /\ db'.desired = db.desired
      /\ \A k \in Ops : db'.op[k] = IF Active(db, k) THEN Interrupted(db.op[k])
                                                     ELSE db.op[k]
  <2> DEFINE e == RecoverIncomplete(db)
  <2>1. /\ e \in Database /\ e.lease = 0 /\ ~e.expired /\ e.desired = db.desired
        /\ \A k \in Ops : e.op[k] = IF Active(db, k) THEN Interrupted(db.op[k])
                                                     ELSE db.op[k]
    BY <1>2, <1>3, RecoverFacts
  <2>2. db' = e
    BY <1>1
  <2> HIDE DEF e
  <2> QED
    BY <2>1, <2>2
<1>5. TypeOK'
  <2>1. pc' \in [Ops -> Steps]
    BY <1>1 DEF Steps
  <2>2. work' \in [Ops -> [todo : SUBSET Boxes, box : {NoBox} \cup Boxes,
                           warned : SUBSET Boxes, unsure : BOOLEAN]]
    BY <1>1 DEF NoWork
  <2>3. faults' \in 0 .. MaxFaults
    BY <1>1, <1>2, SprintboxAssumption DEF TypeOK
  <2> QED
    BY <1>1, <1>2, <1>4, <2>1, <2>2, <2>3 DEF TypeOK
<1>6. ASSUME NEW k \in Ops, Active(db, k)
      PROVE  /\ Tale(k, db'.op[k], row[k], "off")
             /\ db'.op[k].kind = db.op[k].kind
             /\ db'.op[k].purchase = db.op[k].purchase
             /\ db'.op[k].status \in {"DONE", "AMBIGUOUS", "FAILED"}
             /\ db'.op[k].status = "FAILED" => db.op[k].purchase = "NOT_STARTED"
             /\ db'.op[k].action \notin {"DONE", "CLEANUP_REJECTED"}
  <2>1. /\ db.op[k] \in Operation /\ row[k] \in Row /\ pc[k] \in Steps
        /\ Tale(k, db.op[k], row[k], pc[k])
        /\ db.op[k].status \in {"PENDING", "RUNNING"}
    BY <1>2, <1>6 DEF TypeOK, Told, Active
  <2>2. db'.op[k] = Interrupted(db.op[k])
    BY <1>4, <1>6
  <2> QED
    BY <2>1, <2>2, InterruptedSays
<1>7. ASSUME NEW k \in Ops, ~Active(db, k)
      PROVE  db'.op[k] = db.op[k] /\ pc[k] = "off"
  BY <1>2, <1>4, <1>7 DEF Leases
<1>8. \A k \in Ops : /\ db'.op[k].kind = db.op[k].kind
                     /\ db'.op[k].purchase = db.op[k].purchase
                     /\ ~Active(db, k)' /\ pc'[k] = "off"
  <2> TAKE k \in Ops
  <2>1. pc'[k] = "off"
    BY <1>1
  <2>2. CASE Active(db, k)
    BY <1>6, <2>1, <2>2 DEF Active
  <2>3. CASE ~Active(db, k)
    BY <1>7, <2>1, <2>3 DEF Active
  <2> QED
    BY <2>2, <2>3
<1>9. PastBoxes \subseteq PastBoxes'
  <2>1. \A k \in Ops : Past(k) => Past(k)'
    BY <1>8 DEF Past
  <2> QED
    BY <2>1, PastStays
<1>10. \A k \in Ops : Told(k)' /\ Leases(k)'
  <2> TAKE k \in Ops
  <2>1. Leases(k)'
    BY <1>4, <1>8, Bounds DEF Leases
  <2>2. CASE Active(db, k)
    <3>1. Tale(k, db'.op[k], row[k], "off")
      BY <1>6, <2>2
    <3> QED
      BY <1>1, <1>8, <2>1, <3>1 DEF Told
  <2>3. CASE ~Active(db, k)
    BY <1>1, <1>2, <1>7, <1>8, <2>1, <2>3 DEF Told
  <2> QED
    BY <2>2, <2>3
<1>11. \A k \in Ops : Keep(k)'
  <2> TAKE k \in Ops
  <2>1. Keep(k)
    BY <1>2
  <2>2. /\ db'.op[k].action = "DONE" => db.op[k].action = "DONE"
        /\ db'.op[k].action = "CLEANUP_REJECTED" =>
             db.op[k].action = "CLEANUP_REJECTED"
    BY <1>6, <1>7
  <2>3. db'.op[k].status = "FAILED" => NewBox(k) \notin boxes
    <3>1. CASE Active(db, k) /\ db'.op[k].status = "FAILED"
      <4>1. ~Past(k)
        BY <1>6, <3>1 DEF Past
      <4> QED
        BY <4>1, NothingBought
    <3>2. CASE ~Active(db, k)
      BY <1>7, <2>1, <3>2 DEF Keep
    <3> QED
      BY <3>1, <3>2
  <2> QED
    BY <1>1, <1>8, <1>9, <2>1, <2>2, <2>3 DEF Keep
<1>12. Holds'
  <2>1. ASSUME NEW k \in OpenPurchases'
        PROVE  k \in Ops /\ (k \in OpenPurchases \/ Unpublished(k))
    <3>1. k \in Ops /\ row[k].published = 0
      BY <1>1 DEF OpenPurchases
    <3>2. CASE Active(db, k)
      BY <3>1, <3>2 DEF Unpublished
    <3>3. CASE ~Active(db, k)
      BY <1>1, <1>7, <3>1, <3>3 DEF OpenPurchases
    <3> QED
      BY <3>1, <3>2, <3>3
  <2>2. ASSUME NEW a \in Ops, NEW b \in Ops, a # b, a \in OpenPurchases',
               b \in OpenPurchases'
        PROVE  FALSE
    <3>1. ~(Unpublished(a) /\ Unpublished(b))
      BY <1>2, <2>2 DEF Unpublished, Leases
    <3>2. /\ a \in OpenPurchases \/ Unpublished(a)
          /\ b \in OpenPurchases \/ Unpublished(b)
      BY <2>1, <2>2
    <3> QED
      BY <2>2, <3>1, <3>2 DEF BInv, Holds
  <2>3. \A k \in Ops : ~Unpublished(k)'
    BY <1>8 DEF Unpublished
  <2> QED
    BY <2>2, <2>3 DEF Holds
<1>13. Order'
  BY <1>8 DEF BInv, Order
<1>14. Room'
  <2> SUFFICES ASSUME NEW k \in Ops, row'[k].published = 0,
                      db'.op[k].kind = "none" \/ Undecided(db, k)'
               PROVE  db'.desired + MaxOps < MaxRev + k
    BY <1>8 DEF Room
  <2>1. /\ row[k].published = 0
        /\ db.op[k].kind = "none" \/ Active(db, k) \/ Undecided(db, k)
    <3>1. CASE Active(db, k)
      BY <1>1, <3>1
    <3>2. CASE ~Active(db, k)
      BY <1>1, <1>7, <3>2 DEF Undecided
    <3> QED
      BY <3>1, <3>2
  <2> QED
    BY <1>4, <2>1 DEF BInv, Room
<1>15. Places'
  BY <1>1, <1>9 DEF BInv, Places
<1> QED
  BY <1>4, <1>5, <1>10, <1>11, <1>12, <1>13, <1>14, <1>15 DEF BInv

-----------------------------------------------------------------------------
(***************************************************************************)
(* The theorems.                                                           *)
(***************************************************************************)
LEMMA InitEstablishes == Init => BInv
<1> SUFFICES ASSUME Init
             PROVE  BInv
  OBVIOUS
<1>1. PICK a \in Accounts, first \in FirstBoxes :
        /\ config = [box |-> first, account |-> a]
        /\ boxes = {first} \ {NoBox}
        /\ row = [i \in Ops |-> [box |-> NoBox, account |-> a, new |-> NoBox,
                                 published |-> 0, kept |-> {},
                                 results |-> [b \in Boxes |-> "none"],
                                 named |-> {}]]
  BY DEF Init
<1>2. /\ db = InitialDatabase(Clients) /\ pc = [i \in Ops |-> "off"]
      /\ work = [i \in Ops |-> NoWork]
      /\ doomed = {} /\ asked = {} /\ faults = 0 /\ edits = 0
  BY DEF Init
<1>3. /\ db.lease = 0 /\ ~db.expired /\ db.desired = 1
      /\ \A i \in Ops : db.op[i] = NoOperation("none", 0)
  BY <1>2 DEF InitialDatabase
<1>4. db \in Database
  <2>1. /\ 1 \in Addresses /\ 1 \in Revs /\ 0 \in 0 .. MaxRev /\ 0 \in 0 .. MaxOps
        /\ 0 \in Environments
    BY Bounds, DatabaseAssumption DEF Addresses, Environments
  <2>2. NoOperation("none", 0) \in Operation
    BY <2>1 DEF NoOperation, Operation, Kinds, Statuses, ActionStates, Sends, Applies
  <2>3. [life |-> "none", body |-> [clients |-> {}, ip |-> 1, env |-> 0]] \in Snapshot
    BY <2>1 DEF Snapshot, Body
  <2>4. \A c \in Clients : [state |-> IF c \in Clients THEN "enabled" ELSE "absent",
                            gone |-> 0] \in Client
    BY <2>1 DEF Client
  <2> QED
    BY <1>2, <2>1, <2>2, <2>3, <2>4 DEF InitialDatabase, Database
<1>5. first \in {NoBox, 1} /\ 1 \in Boxes
  BY SprintboxAssumption, Bounds DEF Boxes, Addresses, NoBox
<1>6. TypeOK
  <2>1. row \in [Ops -> Row]
    BY <1>1, Bounds DEF Row, Results
  <2>2. work \in [Ops -> [todo : SUBSET Boxes, box : {NoBox} \cup Boxes,
                          warned : SUBSET Boxes, unsure : BOOLEAN]]
    BY <1>2 DEF NoWork
  <2>3. pc \in [Ops -> Steps] /\ faults \in 0 .. MaxFaults /\ edits \in 0 .. MaxEdits
    BY <1>2, SprintboxAssumption DEF Steps
  <2> QED
    BY <1>1, <1>2, <1>4, <1>5, <2>1, <2>2, <2>3 DEF TypeOK
<1>7. \A i \in Ops : /\ db.op[i].kind = "none" /\ db.op[i].status = "none"
                     /\ db.op[i].action = "NOT_STARTED"
                     /\ db.op[i].purchase = "NOT_STARTED"
                     /\ db.op[i].main = "NOT_STARTED"
                     /\ db.op[i].apply = "NOT_STARTED" /\ pc[i] = "off"
  BY <1>2, <1>3 DEF NoOperation
<1>8. \A i \in Ops : /\ row[i].new = NoBox /\ row[i].published = 0
                     /\ row[i].box = NoBox /\ row[i].kept = {}
                     /\ \A b \in Boxes : row[i].results[b] = "none"
  BY <1>1
<1>9. \A i \in Ops : Told(i)
  BY <1>7, <1>8
     DEF Told, Tale, Unbought, Ordering, Finding, Waiting, Setting, Cleaning
<1>10. \A i \in Ops : Leases(i)
  BY <1>3, <1>7, Bounds DEF Leases, Active
<1>11. \A i \in Ops : Keep(i)
  BY <1>7, <1>8 DEF Keep
<1>12. Holds /\ Order
  BY <1>7 DEF Holds, Order, OpenPurchases
<1>13. Room
  BY <1>3, SprintboxAssumption, Bounds DEF Room
<1>14. Places
  BY <1>1, <1>5 DEF Places, PastBoxes, NoBox
<1> QED
  BY <1>3, <1>6, <1>9, <1>10, <1>11, <1>12, <1>13, <1>14 DEF BInv

\* Every step of the model keeps the invariant.
LEMMA StepKeeps == BInv /\ [Next]_vars => BInv'
<1> SUFFICES ASSUME BInv, [Next]_vars
             PROVE  BInv'
  OBVIOUS
<1>1. ASSUME NEW i \in Ops, Run(i)
      PROVE  BInv'
  BY <1>1, StartRunKeeps, InspectKeeps, ClaimKeeps, CreateKeeps,
     CreateRecordedKeeps, IdentifyKeeps, ProvisionKeeps, WaitSshKeeps,
     DeployKeeps, PublishBoxKeeps, RunOverKeeps, ResumeKeeps DEF Run
<1>2. ASSUME NEW i \in Ops, Clean(i)
      PROVE  BInv'
  BY <1>2, CleanStartKeeps, DeleteKeeps, DeletedKeeps, CleanOverKeeps,
     CleanFailsKeeps, CleanBoxKeeps DEF Clean
<1>3. ASSUME NEW b \in Boxes, RemoveByHand(b) \/ ProviderDeletes(b)
      PROVE  BInv'
  <2>1. /\ boxes' \subseteq boxes
        /\ UNCHANGED <<db, row, config, pc, work, doomed, asked, faults>>
    BY <1>3 DEF RemoveByHand, ProviderDeletes
  <2>2. edits' \in 0 .. MaxEdits
    BY <1>3, SprintboxAssumption
       DEF RemoveByHand, ProviderDeletes, Edit, BInv, TypeOK
  <2> QED
    BY <2>1, <2>2, BoxGoneKeeps
<1>4. CASE UNCHANGED vars
  <2>1. UNCHANGED <<db, row, config, pc, work, boxes, doomed, asked, faults, edits>>
    BY <1>4 DEF vars, cloud
  <2>2. edits' \in 0 .. MaxEdits /\ boxes' \subseteq boxes
    BY <2>1 DEF BInv, TypeOK
  <2> QED
    BY <2>1, <2>2, BoxGoneKeeps
<1>5. ASSUME NEW i \in Ops,
             \/ RunFaults(i) \/ Dies(i) \/ StartRotation(i) \/ WaitLonger(i)
             \/ Accept(i) \/ CancelSsh(i) \/ Reconcile(i)
             \/ \E j \in Ops : RetryReview(i, j) \/ RetrySsh(i, j)
      PROVE  BInv'
  BY <1>5, RunFaultsKeeps, DiesKeeps, StartRotationKeeps, WaitLongerKeeps,
     AcceptKeeps, CancelSshKeeps, ReconcileKeeps, RetryReviewKeeps, RetrySshKeeps
<1>6. ASSUME NEW b \in Boxes \cup {NoBox}, NEW a \in Accounts, SaveSettings(b, a)
      PROVE  BInv'
  BY <1>6, SaveSettingsKeeps
<1> QED
  BY <1>1, <1>2, <1>3, <1>4, <1>5, <1>6, ChangeClientsKeeps, RestartKeeps DEF Next

\* What the rows, the lease, the workers and the provider say of each other
\* stays true of every operation, through every fault and restart
\* (sprintbox_rotation.py, sprintbox_review.py, operation_coordinator.py).
THEOREM TalesInductive == Spec => []BInv
BY InitEstablishes, StepKeeps, PTL DEF Spec

\* The types of the model's variables: no revision, address or box is ever
\* outside what was foreseen (vpn_state.py, publish_ip_change).
THEOREM TypeCorrect == Spec => []TypeOK
<1>1. BInv => TypeOK
  BY DEF BInv
<1> QED
  BY <1>1, TalesInductive, PTL

\* No lost answer, failure or restart makes a box that was paid for look as if
\* it had not been bought (sprintbox_rotation.py, creation_started).
THEOREM BoxesStayAccounted == Spec => []BoxAccounted
<1>1. BInv => BoxAccounted
  <2> SUFFICES ASSUME BInv, NEW i \in Ops, NewBox(i) \in boxes
               PROVE  \/ row[i].new = NewBox(i) \/ Active(db, i)
                      \/ db.op[i].status = "AMBIGUOUS"
    BY DEF BoxAccounted
  <2>1. Past(i) \/ pc[i] = "create"
    BY NothingBought
  <2>2. Told(i) /\ Keep(i) /\ Leases(i) /\ db.op[i].status \in Statuses
    BY Fields DEF BInv, TypeOK, Operation
  <2>3. CASE pc[i] # "off"
    BY <2>2, <2>3 DEF Leases
  <2>4. CASE pc[i] = "off"
    <3>1. db.op[i].purchase # "NOT_STARTED"
      BY <2>1, <2>4 DEF Past
    <3>2. db.op[i].status \notin {"none", "FAILED", "TIMED_OUT"}
      BY <2>2, <3>1 DEF Told, Tale, Keep
    <3>3. db.op[i].status = "DONE" => row[i].new = NewBox(i)
      BY <2>2 DEF Told, Tale
    <3> QED
      BY <2>2, <3>2, <3>3 DEF Statuses, Terminal, Active
  <2> QED
    BY <2>3, <2>4
<1> QED
  BY <1>1, TalesInductive, PTL

\* A clean-up says what became of the boxes: one taken off the list is gone,
\* and those left are named (sprintbox_rotation.py, run_sprintbox_cleanup).
THEOREM CleanupsStayHonest == Spec => []CleanupHonest
<1>1. BInv => CleanupHonest
  BY DEF BInv, Keep, CleanupHonest
<1> QED
  BY <1>1, TalesInductive, PTL

\* At most one purchase is open, whatever was retried, cancelled or reconciled
\* (vpn_state.py, the holds of prepare_ip_change_operation).
THEOREM PurchasesStaySingle == Spec => []OneOpenPurchase
<1>1. BInv => OneOpenPurchase
  <2> SUFFICES ASSUME BInv
               PROVE  Cardinality(OpenPurchases) <= 1
    BY DEF OneOpenPurchase
  <2>1. CASE OpenPurchases = {}
    BY <2>1, FS_EmptySet
  <2>2. CASE OpenPurchases # {}
    <3>1. PICK i \in OpenPurchases : TRUE
      BY <2>2
    <3>2. OpenPurchases = {i}
      BY <3>1 DEF BInv, Holds, OpenPurchases
    <3>3. Cardinality({i}) = 1
      BY FS_Singleton
    <3> QED
      BY <3>2, <3>3
  <2> QED
    BY <2>1, <2>2
<1> QED
  BY <1>1, TalesInductive, PTL

\* Nothing but box/delete asks for a deletion.
LEMMA OnlyDeleteAsks ==
  ASSUME Next, asked' # asked
  PROVE  \E i \in Ops : Delete(i)
<1>1. ASSUME NEW i \in Ops, Run(i)
      PROVE  asked' = asked
  <2>1. CASE StartRun(i) \/ Inspect(i) \/ Claim(i) \/ Create(i)
    BY <2>1 DEF StartRun, Inspect, Claim, Create, Mark, Move, Quietly, cloud
  <2>2. CASE CreateRecorded(i) \/ Identify(i) \/ Provision(i) \/ WaitSsh(i)
    BY <2>2 DEF CreateRecorded, Identify, Provision, WaitSsh, Mark, Move, Finish,
                Quietly, cloud
  <2>3. CASE Deploy(i) \/ PublishBox(i) \/ RunOver(i) \/ Resume(i)
    <3>1. CASE Deploy(i)
      BY <3>1 DEF Deploy, Mark, Move, Quietly, cloud
    <3>2. CASE PublishBox(i)
      BY <3>2 DEF PublishBox, Move, Quietly, cloud
    <3>3. CASE RunOver(i)
      BY <3>3 DEF RunOver, Finish, Quietly, cloud
    <3>4. CASE Resume(i)
      BY <3>4 DEF Resume, Move, Quietly, cloud
    <3> QED
      BY <2>3, <3>1, <3>2, <3>3, <3>4
  <2> QED
    BY <1>1, <2>1, <2>2, <2>3 DEF Run
<1>2. ASSUME NEW i \in Ops, Clean(i)
      PROVE  asked' = asked \/ Delete(i)
  BY <1>2 DEF Clean, CleanStart, Deleted, CleanOver, CleanFails, CleanBox, Finish,
              Quietly, cloud
<1>3. ASSUME NEW i \in Ops,
             \/ RunFaults(i) \/ Dies(i) \/ StartRotation(i) \/ WaitLonger(i)
             \/ Accept(i) \/ CancelSsh(i) \/ Reconcile(i)
             \/ \E j \in Ops : RetryReview(i, j) \/ RetrySsh(i, j)
      PROVE  asked' = asked
  BY <1>3 DEF RunFaults, Dies, StartRotation, WaitLonger, Accept, Requeue,
              CancelSsh, Reconcile, RetryReview, RetrySsh, Quietly, cloud
<1>4. ASSUME \/ \E b \in Boxes : RemoveByHand(b) \/ ProviderDeletes(b)
             \/ \E b \in Boxes \cup {NoBox}, a \in Accounts : SaveSettings(b, a)
             \/ ChangeClients \/ Restart
      PROVE  asked' = asked
  BY <1>4 DEF RemoveByHand, ProviderDeletes, SaveSettings, ChangeClients, Restart,
              cloud
<1> QED
  BY <1>1, <1>2, <1>3, <1>4 DEF Next

\* Every request to delete a box is for one that is neither active nor
\* published (sprintbox_review.py, validate_target).
THEOREM ActiveBoxIsSpared == Spec => ActiveSpared
<1>1. BInv /\ [Next]_vars =>
        [\A b \in asked' \ asked : b # config.box /\ b # db.ip]_vars
  <2> SUFFICES ASSUME BInv, Next, NEW b \in asked' \ asked
               PROVE  b # config.box /\ b # db.ip
    OBVIOUS
  <2>1. PICK i \in Ops : Delete(i)
    BY OnlyDeleteAsks
  <2>2. b = work[i].box /\ pc[i] = "delete"
    BY <2>1 DEF Delete
  <2>3. ValidTarget(i) /\ work[i].box # row[i].new /\ row[i].new = NewBox(i)
    BY <2>2 DEF BInv, Keep, Told, Tale, Cleaning
  <2> QED
    BY <2>2, <2>3 DEF ValidTarget, NewBox
<1> QED
  BY <1>1, TalesInductive, PTL DEF Spec, ActiveSpared
=============================================================================
