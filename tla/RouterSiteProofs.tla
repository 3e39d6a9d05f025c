--------------------------- MODULE RouterSiteProofs ---------------------------
(***************************************************************************)
(* What RouterSite promises holds for any number of clients, routers,      *)
(* credentials, addresses, keys, requests and revisions.                   *)
(***************************************************************************)
EXTENDS RouterSite, WellFoundedInduction, TLAPS

-----------------------------------------------------------------------------
(***************************************************************************)
(* The inductive invariant.                                                *)
(***************************************************************************)
\* Before the panel runs, nothing has been installed and nothing reported.
Quiet ==
  phase # "running" =>
    /\ results = {} /\ told = {} /\ applied = 0 /\ install = 0
    /\ \A v \in Revs : snaps[v].life = "none"
    /\ \A w \in Workers : puts[w].step = "idle"

\* A panel that runs has an address for each of its clients.
Addressed ==
  phase = "running" => \A c \in Rows(clients, Ids) : clients[c].addr # 0

\* There is no snapshot of a revision to come; what is being installed has one,
\* what is applied has one that says so.
Dated ==
  /\ \A v \in Revs : snaps[v].life # "none" => v <= desired
  /\ install # 0 => snaps[install].life # "none"
  /\ applied # 0 => snaps[applied].life = "APPLIED"

\* A client in a snapshot that is applied, or may be later, is a row with the
\* same address, or its deletion is in a later revision.
Reserved ==
  \A v \in Revs : v >= applied /\ snaps[v].life # "none" =>
    \A x \in snaps[v].body.clients :
      /\ clients[x[1]].state \notin {"new", "gone"}
      /\ clients[x[1]].addr = x[2]
      /\ clients[x[1]].state = "deleted" => clients[x[1]].until > v

\* A result about etag is one that router r may well have sent.
About(etag, r) ==
  /\ etag.rev \in Revs /\ etag.router = r
  /\ snaps[etag.rev].life = "APPLIED" /\ Serves(etag.rev, routers[r].client)

\* The results that have been confirmed are kept with their credential.
Confirmed ==
  /\ results \subseteq told
  /\ \A x \in told :
       /\ creds[x.cred].state # "new"
       /\ creds[x.cred].state # "gone" =>
            x \in results /\ About(x.etag, creds[x.cred].router)
  /\ \A x, y \in told : x.cred = y.cred /\ x.key = y.key => x = y

\* A router has fetched its own bundles, and reports on those.
Fetched == \A r \in Routers : held[r].router = r

Pending ==
  \A w \in Workers :
    LET k == puts[w].report.cred
        r == creds[k].router
    IN  puts[w].step # "idle" =>
          /\ creds[k].state # "new"
          /\ creds[k].state # "gone" =>
               /\ puts[w].client = routers[r].client
               /\ puts[w].report.etag.router = r
               /\ puts[w].step = "record" => About(puts[w].report.etag, r)

Tables    == TypeOK /\ Addressed /\ Apart(clients, routers)
Revisions == /\ Dated /\ Reserved /\ RevisionTells
             /\ \A v \in Revs : ApartIn(snaps[v].body)
Reports   == Quiet /\ Confirmed /\ Fetched /\ Pending
IInv      == Tables /\ Revisions /\ Reports
-----------------------------------------------------------------------------
(***************************************************************************)
(* Lemmas about the operators.                                             *)
(***************************************************************************)
\* The bounds are numbers, and the network lies between the server and them.
LEMMA Bounds ==
  /\ MaxClients \in Nat /\ MaxRouters \in Nat /\ MaxCreds \in Nat
  /\ MaxRev \in Nat /\ MaxApplies \in Nat /\ MaxOld \in Nat /\ LastAddr \in Nat
  /\ MaxRev >= 1 /\ MaxCreds >= 1 /\ MaxRouters >= 1 /\ MaxApplies >= 1
BY SiteAssumption

\* A set of numbers that is not empty has a least one.
LEMMA Least ==
  ASSUME NEW S \in SUBSET Nat, S # {}
  PROVE  \E a \in S : \A b \in S : a <= b
<1>1. \E a \in S : \A b \in S : ~ (<<b, a>> \in OpToRel(<, Nat))
  BY NatLessThanWellFounded, WFMin
<1>2. \A a, b \in S : a <= b \/ <<b, a>> \in OpToRel(<, Nat)
  BY DEF OpToRel
<1> QED  BY <1>1, <1>2

\* An allocated address is a free one (_allocate_amnezia_address).
LEMMA AllocatedFree ==
  ASSUME NEW cs, NEW rs
  PROVE  Allocated(cs, rs) \in {0} \cup (Pool \ Used(cs, rs))
<1> DEFINE free == Pool \ Used(cs, rs)
<1>1. CASE free = {}
  BY <1>1 DEF Allocated
<1>2. CASE free # {}
  <2>1. free \in SUBSET Nat
    BY Bounds DEF Pool
  <2>2. \E a \in free : \A b \in free : a <= b
    BY <1>2, <2>1, Least
  <2>3. (CHOOSE a \in free : \A b \in free : a <= b) \in free
    BY <2>2
  <2> QED  BY <1>2, <2>3 DEF Allocated
<1> QED  BY <1>1, <1>2

\* So is the address that goes with an id (_legacy_or_free_amnezia_address).
LEMMA LegacyOrFreeIsFree ==
  ASSUME NEW cs, NEW rs, NEW c
  PROVE  LegacyOrFree(cs, rs, c) \in {0} \cup (Pool \ Used(cs, rs))
BY AllocatedFree DEF LegacyOrFree

\* What a snapshot says is well formed.
LEMMA CapturedBody ==
  ASSUME Tables, phase = "running"
  PROVE  Captured \in Body
<1>1. \A c \in Ids : clients[c].state = "enabled" => clients[c].addr \in Pool
  BY DEF Tables, TypeOK, Types, Addressed, Rows, Client
<1>2. \A r \in Routers : routers[r].state = "enabled" /\ routers[r].addr # 0 =>
        routers[r].client \in Ids /\ routers[r].addr \in Pool
  BY DEF Tables, TypeOK, Types, ForeignKeys, Rows, Router
<1> QED  BY <1>1, <1>2 DEF Captured, Body

\* Addresses that are apart in the tables are apart in a snapshot.
LEMMA CapturedApart ==
  ASSUME Tables, phase = "running"
  PROVE  ApartIn(Captured)
<1>1. \A x \in Captured.clients :
        x[1] \in Ids /\ x = <<x[1], clients[x[1]].addr>> /\ x[2] # 0
  BY DEF Captured, Tables, Addressed, Rows
<1>2. \A x \in Captured.peers :
        x[1] \in Routers /\ x = <<x[1], routers[x[1]].client, routers[x[1]].addr>>
        /\ x[3] # 0
  BY DEF Captured
<1> QED  BY <1>1, <1>2 DEF ApartIn, Tables, Apart

\* The parts of a request have their types.
LEMMA RequestTyped ==
  ASSUME Types, NEW w \in Workers
  PROVE  /\ puts[w] \in Request
         /\ puts[w].report \in Report /\ puts[w].client \in {0} \cup Ids
         /\ puts[w].report.cred \in Creds /\ puts[w].report.etag \in ETag
<1>1. puts[w] \in Request
  BY DEF Types
<1>2. puts[w].report \in Report /\ puts[w].client \in {0} \cup Ids
  BY <1>1 DEF Request
<1> QED  BY <1>1, <1>2 DEF Report

-----------------------------------------------------------------------------
(***************************************************************************)
(* What steps of one kind have in common.                                  *)
(***************************************************************************)
\* A step that edits clients or routers makes a new revision, about which
\* nothing has been said yet.
LEMMA EditKeepsRevisions ==
  ASSUME IInv, MarkUpdated, phase = "running",
         \A c \in Ids : clients[c].state \notin {"new", "gone"} =>
           /\ clients'[c].state \notin {"new", "gone"}
           /\ clients'[c].addr = clients[c].addr
           /\ clients'[c].state = "deleted" =>
                \/ clients[c].state = "deleted" /\ clients'[c].until = clients[c].until
                \/ clients'[c].until = desired'
  PROVE  Revisions'
<1> USE DEF IInv, Tables, TypeOK, Types, Revisions
<1>1. desired' = desired + 1 /\ desired \in Nat /\ desired' \in Revs
      /\ snaps' = snaps /\ applied' = applied /\ install' = install
  BY Bounds DEF MarkUpdated, Revs
<1>2. \A v \in Revs : snaps[v].life # "none" => v <= desired /\ v \in Nat
  BY DEF Dated, Revs
<1>3. Dated'
  BY <1>1, <1>2 DEF Dated, Revs
<1>4. Reserved'
  <2>1. SUFFICES ASSUME NEW v \in Revs, v >= applied, snaps[v].life # "none",
                        NEW x \in snaps[v].body.clients
                 PROVE  /\ clients'[x[1]].state \notin {"new", "gone"}
                        /\ clients'[x[1]].addr = x[2]
                        /\ clients'[x[1]].state = "deleted" =>
                             clients'[x[1]].until > v
    BY <1>1 DEF Reserved
  <2>2. x[1] \in Ids /\ x[2] \in Pool
    BY DEF Snapshot, Body
  <2>3. /\ clients[x[1]].state \notin {"new", "gone"}
        /\ clients[x[1]].addr = x[2]
        /\ clients[x[1]].state = "deleted" => clients[x[1]].until > v
    BY <2>1 DEF Reserved
  <2>4. CASE clients'[x[1]].until = desired'
    <3>1. v <= desired /\ v \in Nat
      BY <1>2, <2>1
    <3>2. desired' > v
      BY <1>1, <3>1
    <3>3. clients'[x[1]].until > v
      BY <2>4, <3>2
    <3> QED  BY <2>2, <2>3, <3>3
  <2> QED  BY <2>2, <2>3, <2>4
<1>5. RevisionTells'
  <2>1. snaps[desired'].life = "none"
    BY <1>1, <1>2 DEF Revs
  <2> QED  BY <1>1, <2>1 DEF RevisionTells
<1>6. \A v \in Revs : ApartIn(snaps'[v].body)
  BY <1>1
<1> QED  BY <1>3, <1>4, <1>5, <1>6

\* A step that takes no report keeps what is known of them, if the credentials
\* in use keep their routers and results and no snapshot is taken back.
LEMMA ReportsStay ==
  ASSUME IInv, phase' = phase, phase = "running",
         UNCHANGED <<told, held, puts>>, results' \subseteq results,
         \A x \in results : creds'[x.cred].state # "gone" => x \in results',
         \A k \in Creds : creds[k].state # "new" =>
           /\ creds'[k].state # "new"
           /\ creds'[k].state # "gone" =>
                /\ creds[k].state # "gone" /\ creds'[k].router = creds[k].router
                /\ routers'[creds[k].router].client = routers[creds[k].router].client,
         \A v \in Revs : snaps[v].life = "APPLIED" =>
           snaps'[v].life = "APPLIED" /\ snaps'[v].body = snaps[v].body
  PROVE  Reports'
<1> USE DEF IInv, Tables, TypeOK, Types, Reports
<1>1. Quiet' /\ Fetched'
  BY DEF Quiet, Fetched
<1>2. ASSUME NEW k \in Creds, creds[k].state # "new", creds'[k].state # "gone",
             NEW e \in ETag, About(e, creds[k].router)
      PROVE  About(e, creds[k].router)'
  BY <1>2 DEF About, Serves
<1>3. Confirmed'
  <2>1. \A x \in told : x.cred \in Creds /\ x.etag \in ETag
    BY DEF Report
  <2>2. \A x \in told : creds'[x.cred].state # "new"
    BY <2>1 DEF Confirmed
  <2>3. ASSUME NEW x \in told, creds'[x.cred].state # "gone"
        PROVE  x \in results /\ About(x.etag, creds[x.cred].router)'
               /\ creds'[x.cred].router = creds[x.cred].router
    BY <1>2, <2>1, <2>3 DEF Confirmed
  <2>4. \A x \in told : creds'[x.cred].state # "gone" =>
          x \in results' /\ About(x.etag, creds[x.cred].router)'
    BY <2>3
  <2> QED  BY <2>2, <2>4 DEF Confirmed
<1>4. Pending'
  <2>1. ASSUME NEW w \in Workers, puts[w].step # "idle", NEW k,
               k = puts[w].report.cred
        PROVE  /\ creds'[k].state # "new"
               /\ creds'[k].state # "gone" =>
                    /\ puts[w].client = routers'[creds'[k].router].client
                    /\ puts[w].report.etag.router = creds'[k].router
                    /\ puts[w].step = "record" =>
                         About(puts[w].report.etag, creds[k].router)'
    <3>1. k \in Creds /\ puts[w].report.etag \in ETag
      BY <2>1, RequestTyped
    <3>2. /\ creds[k].state # "new"
          /\ creds[k].state # "gone" =>
               /\ puts[w].client = routers[creds[k].router].client
               /\ puts[w].report.etag.router = creds[k].router
               /\ puts[w].step = "record" =>
                    About(puts[w].report.etag, creds[k].router)
      BY <2>1 DEF Pending
    <3>3. creds'[k].state # "gone" /\ puts[w].step = "record" =>
            About(puts[w].report.etag, creds[k].router)'
      BY <1>2, <3>1, <3>2
    <3> QED  BY <3>1, <3>2, <3>3
  <2> QED  BY <2>1 DEF Pending
<1> QED  BY <1>1, <1>3, <1>4

-----------------------------------------------------------------------------
(***************************************************************************)
(* The start of the panel.                                                 *)
(***************************************************************************)
\* A new panel and an old database are both sound.
LEMMA InitIInv == Init => IInv
<1> SUFFICES ASSUME Init PROVE IInv
  OBVIOUS
<1>1. PICK n \in 0 .. MaxOld, bare \in SUBSET Ids :
        clients = [c \in Ids |->
          IF c > n THEN NewClient
          ELSE [state |-> "enabled", until |-> 0,
                addr  |-> IF c \in bare THEN 0 ELSE c + 1]]
  BY DEF Init
<1>2. \A k \in Creds :
        \/ creds[k] = NewCred
        \/ creds[k] \in [state : {"enabled"}, client : Rows(clients, Ids),
                         router : {0}, may : {{"read", "report"}}]
  <2>1. PICK m \in 0 .. MaxCreds : creds \in [Creds -> {NewCred} \cup
          [state : {"enabled"}, client : Rows(clients, Ids), router : {0},
           may : {{"read", "report"}}]]
    BY DEF Init
  <2> QED  BY <2>1
<1>3. DOMAIN creds = Creds /\ creds = [k \in Creds |-> creds[k]]
  <2>1. PICK m \in 0 .. MaxCreds : creds \in [Creds -> {NewCred} \cup
          [state : {"enabled"}, client : Rows(clients, Ids), router : {0},
           may : {{"read", "report"}}]]
    BY DEF Init
  <2> QED  BY <2>1
<1>4. /\ phase = "old" /\ routers = [r \in Routers |-> NewRouter]
      /\ desired = 1 /\ applied = 0 /\ install = 0
      /\ snaps = [v \in Revs |-> [life |-> "none", body |-> NoBody, at |-> 0]]
      /\ held = [r \in Routers |-> Nothing(r)]
      /\ results = {} /\ told = {}
      /\ puts = [w \in Workers |-> NoRequest]
  BY DEF Init
<1>5. Types
  <2>1. clients \in [Ids -> Client]
    BY <1>1, Bounds, SiteAssumption DEF Client, NewClient, Ids, Pool
  <2>2. routers \in [Routers -> Router]
    BY <1>4 DEF Router, NewRouter
  <2>3. creds \in [Creds -> Credential]
    <3>1. Rows(clients, Ids) \subseteq Ids
      BY DEF Rows
    <3>2. \A k \in Creds : creds[k] \in Credential
      BY <1>2, <3>1 DEF Credential, NewCred
    <3> QED  BY <1>3, <3>2
  <2>4. snaps \in [Revs -> Snapshot]
    BY <1>4, Bounds DEF Snapshot, Body, NoBody
  <2>5. \A r \in Routers : Nothing(r) \in ETag
    BY Bounds, SiteAssumption DEF Nothing, ETag
  <2>6. held \in [Routers -> ETag]
    BY <1>4, <2>5
  <2>7. 1 \in Creds /\ 1 \in Routers
    BY Bounds DEF Creds, Routers
  <2>8. NoRequest.report \in Report
    BY <2>5, <2>7, SiteAssumption DEF NoRequest, Report
  <2>9. NoRequest \in Request
    BY <2>8 DEF NoRequest, Request
  <2>10. puts \in [Workers -> Request]
    BY <1>4, <2>9
  <2>11. desired \in Revs /\ applied \in 0 .. MaxRev /\ install \in 0 .. MaxRev
    BY <1>4, Bounds DEF Revs
  <2> QED  BY <1>4, <2>1, <2>2, <2>3, <2>4, <2>6, <2>10, <2>11 DEF Types
<1>6. ForeignKeys
  <2>1. \A k \in Rows(creds, Creds) : creds[k].client \in Rows(clients, Ids)
    <3>1. ASSUME NEW k \in Rows(creds, Creds)
          PROVE  creds[k].client \in Rows(clients, Ids)
      <4>1. k \in Creds /\ creds[k].state # "new"
        BY <3>1 DEF Rows
      <4>2. creds[k] # NewCred
        BY <4>1 DEF NewCred
      <4> QED  BY <1>2, <4>1, <4>2
    <3> QED  BY <3>1
  <2>2. Rows(routers, Routers) = {}
    BY <1>4 DEF Rows, NewRouter
  <2> QED  BY <1>4, <2>1, <2>2 DEF ForeignKeys
<1>7. Apart(clients, routers)
  BY <1>1, <1>4, Bounds DEF Apart, NewClient, NewRouter, Ids
<1>8. Tables
  BY <1>4, <1>5, <1>6, <1>7 DEF Tables, TypeOK, Addressed
<1>9. Revisions
  <2>1. \A v \in Revs : snaps[v].life = "none" /\ snaps[v].body = NoBody
    BY <1>4
  <2>2. desired \in Revs
    BY <1>5 DEF Types
  <2> QED  BY <1>4, <2>1, <2>2
           DEF Revisions, Dated, Reserved, RevisionTells, ApartIn, NoBody
<1>10. Reports
  BY <1>4 DEF Reports, Quiet, Confirmed, Fetched, Pending, Nothing, NoRequest
<1> QED  BY <1>8, <1>9, <1>10 DEF IInv

\* The migration gives every old credential a router of its client (migrations.py).
LEMMA MigrateIInv == IInv /\ Migrate => IInv'
<1> SUFFICES ASSUME IInv, Migrate PROVE IInv'
  OBVIOUS
<1> USE DEF IInv, Tables, TypeOK
<1> DEFINE old == Rows(creds, Creds)
<1>1. PICK of \in [old -> Routers] :
        /\ \A j, k \in old : of[j] = of[k] => j = k
        /\ creds' = [k \in Creds |->
             IF k \in old THEN [creds[k] EXCEPT !.router = of[k]] ELSE creds[k]]
        /\ routers' = [r \in Routers |->
             IF \E k \in old : of[k] = r
             THEN [state |-> "enabled", addr |-> 0,
                   client |-> creds[CHOOSE k \in old : of[k] = r].client]
             ELSE NewRouter]
  BY DEF Migrate
<1>0. /\ MarkUpdated /\ phase = "old" /\ phase' = "migrated"
      /\ UNCHANGED <<clients, reports, held, puts>>
  BY DEF Migrate
<1> HIDE DEF old
<1>2. \A k \in old : (CHOOSE j \in old : of[j] = of[k]) = k
  BY <1>1
<1>3. \A k \in old : routers'[of[k]].client = creds[k].client
                     /\ routers'[of[k]].state = "enabled"
  BY <1>1, <1>2
<1>4. \A k \in old : creds[k].client \in Rows(clients, Ids)
  BY DEF ForeignKeys, old
<1>5. creds' \in [Creds -> Credential]
  <2>1. ASSUME NEW k \in Creds PROVE creds'[k] \in Credential
    <3>1. creds[k] \in Credential
      BY DEF Types
    <3>2. CASE k \in old
      <4>1. of[k] \in Routers /\ creds'[k] = [creds[k] EXCEPT !.router = of[k]]
        BY <1>1, <3>2
      <4> QED  BY <3>1, <4>1 DEF Credential
    <3> QED  BY <1>1, <3>1, <3>2
  <2> QED  BY <1>1, <2>1
<1>6. routers' \in [Routers -> Router]
  <2>1. ASSUME NEW r \in Routers, \E k \in old : of[k] = r
        PROVE  creds[CHOOSE k \in old : of[k] = r].client \in Rows(clients, Ids)
    BY <1>4, <2>1
  <2> QED  BY <1>1, <2>1 DEF Router, NewRouter, Rows
<1>7. Types'
  BY <1>0, <1>5, <1>6, Bounds DEF Types, MarkUpdated, Revs, reports
<1>8. ForeignKeys'
  <2>1. \A r \in Rows(routers', Routers) : \E k \in old : of[k] = r
    BY <1>1 DEF Rows, NewRouter
  <2>2. \A r \in Rows(routers', Routers) :
          routers'[r].client \in Rows(clients', Ids)
    <3>1. \A r \in Rows(routers', Routers) :
            routers'[r].client \in Rows(clients, Ids)
      BY <1>3, <1>4, <2>1
    <3> QED  BY <1>0, <3>1
  <2>3. Rows(creds', Creds) = old
    BY <1>1 DEF Rows, Types, Credential, old
  <2>4. \A k \in old : creds'[k].router = of[k] /\ creds'[k].client = creds[k].client
    BY <1>1 DEF Rows, Types, Credential, old
  <2>5. \A k \in old : of[k] \in Rows(routers', Routers)
    BY <1>1, <1>3 DEF Rows
  <2>6. results' = {}
    BY <1>0 DEF Reports, Quiet, reports
  <2>7. \A k \in Rows(creds', Creds) :
          /\ creds'[k].client \in Rows(clients', Ids)
          /\ creds'[k].router \in Rows(routers', Routers)
          /\ routers'[creds'[k].router].client = creds'[k].client
    BY <1>0, <1>3, <1>4, <2>3, <2>4, <2>5
  <2> QED  BY <2>2, <2>6, <2>7 DEF ForeignKeys
<1>9. Apart(clients, routers)'
  BY <1>0, <1>1 DEF Apart, NewRouter
<1>10. Tables'
  BY <1>0, <1>7, <1>8, <1>9 DEF Addressed
<1>11. \A v \in Revs : snaps'[v].life = "none" /\ ApartIn(snaps'[v].body)
  BY <1>0 DEF Reports, Quiet, Revisions, MarkUpdated
<1>12. Revisions'
  BY <1>0, <1>7, <1>11 DEF Types, Revisions, Reports, Quiet, Dated, Reserved,
                     RevisionTells, MarkUpdated
<1>13. Reports'
  BY <1>0, <1>11 DEF Reports, Quiet, Confirmed, Fetched, Pending, reports, MarkUpdated
<1> QED  BY <1>10, <1>12, <1>13

\* The start gives every row an address that nobody else has (init_db).
LEMMA StartupIInv == IInv /\ Startup => IInv'
<1> SUFFICES ASSUME IInv, Startup PROVE IInv'
  OBVIOUS
<1> USE DEF IInv, Tables, TypeOK
<1>1. PICK ca \in [Ids -> {0} \cup Pool], ra \in [Routers -> {0} \cup Pool] :
        /\ clients' = Given(clients, Ids, ca, MaxClients + 1)
        /\ routers' = Given(routers, Routers, ra, MaxRouters + 1)
        /\ \A c \in Ids : ca[c] = GiveClient(Given(clients, Ids, ca, c), c)
        /\ \A r \in Routers :
             ra[r] = GiveRouter(clients', Given(routers, Routers, ra, r), r)
        /\ \A c \in Rows(clients, Ids) : ca[c] # 0
  BY DEF Startup
<1>2. /\ phase = "migrated" /\ phase' = "running"
      /\ MarkUpdated \/ UNCHANGED revision
      /\ UNCHANGED <<creds, reports, held, puts>>
  BY DEF Startup
<1>3. /\ applied' = applied /\ install' = install /\ snaps' = snaps
      /\ desired' \in Revs /\ results' = results /\ told' = told
  BY <1>2, Bounds DEF MarkUpdated, revision, reports, Types, Revs
<1>4. clients' = [c \in Ids |-> [clients[c] EXCEPT !.addr = ca[c]]]
  BY <1>1, Bounds DEF Given, Ids
<1>5. routers' = [r \in Routers |-> [routers[r] EXCEPT !.addr = ra[r]]]
  BY <1>1, Bounds DEF Given, Routers
<1>6. /\ clients' \in [Ids -> Client]
      /\ \A c \in Ids : /\ clients'[c].state = clients[c].state
                        /\ clients'[c].addr = ca[c]
  BY <1>4 DEF Types, Client
<1>7. /\ routers' \in [Routers -> Router]
      /\ \A r \in Routers : /\ routers'[r].state = routers[r].state
                            /\ routers'[r].client = routers[r].client
                            /\ routers'[r].addr = ra[r]
  BY <1>5 DEF Types, Router
<1>8. Types'
  BY <1>2, <1>3, <1>6, <1>7 DEF Types
<1>9. ForeignKeys'
  <2>1. Rows(clients', Ids) = Rows(clients, Ids)
        /\ Rows(routers', Routers) = Rows(routers, Routers)
    BY <1>6, <1>7 DEF Rows
  <2>2. \A r \in Rows(routers, Routers) : routers'[r].client = routers[r].client
    BY <1>7 DEF Rows
  <2>3. Rows(creds', Creds) = Rows(creds, Creds) /\ creds' = creds
    BY <1>2
  <2>4. results' = {}
    BY <1>2, <1>3 DEF Reports, Quiet
  <2> QED  BY <1>2, <2>1, <2>2, <2>3, <2>4 DEF ForeignKeys
<1>10. Addressed'
  BY <1>1, <1>6 DEF Addressed, Rows
<1>11. \A c \in Ids : \/ ca[c] = clients[c].addr
                      \/ ca[c] = 0
                      \/ ca[c] \notin Used(Given(clients, Ids, ca, c), routers)
  <2>1. ASSUME NEW c \in Ids, ca[c] # clients[c].addr, ca[c] # 0
        PROVE  ca[c] \notin Used(Given(clients, Ids, ca, c), routers)
    <3>1. Given(clients, Ids, ca, c)[c].addr = clients[c].addr
      BY DEF Given, Ids
    <3>2. ca[c] = LegacyOrFree(Given(clients, Ids, ca, c), routers, c)
      BY <1>1, <2>1, <3>1 DEF GiveClient
    <3> QED  BY <2>1, <3>2, LegacyOrFreeIsFree
  <2> QED  BY <2>1
<1>12. \A r \in Routers : \/ ra[r] = routers[r].addr
                          \/ ra[r] = 0
                          \/ ra[r] \notin Used(clients', Given(routers, Routers, ra, r))
  <2>1. ASSUME NEW r \in Routers, ra[r] # routers[r].addr, ra[r] # 0
        PROVE  ra[r] \notin Used(clients', Given(routers, Routers, ra, r))
    <3>1. Given(routers, Routers, ra, r)[r].addr = routers[r].addr
      BY DEF Given, Routers
    <3>2. ra[r] = Allocated(clients', Given(routers, Routers, ra, r))
      BY <1>1, <2>1, <3>1 DEF GiveRouter
    <3> QED  BY <2>1, <3>2, AllocatedFree
  <2> QED  BY <2>1
<1>13. Apart(clients, routers)'
  <2>1. ASSUME NEW c \in Ids, NEW d \in Ids, d < c, ca[c] # 0 \/ ca[d] # 0
        PROVE  ca[c] # ca[d]
    <3>1. ca[d] \in Used(Given(clients, Ids, ca, c), routers)
      BY <2>1, <1>6, <1>4 DEF Used, Given, Types, Client
    <3>2. clients[c].addr \in Used(Given(clients, Ids, ca, d), routers)
      <4>1. ~ c < d
        BY <2>1 DEF Ids
      <4> QED  BY <4>1 DEF Used, Given
    <3>3. clients[c].addr # 0 => clients[c].addr # clients[d].addr
      BY <2>1 DEF Apart, Ids
    <3>4. clients[d].addr # 0 => clients[d].addr # clients[c].addr
      BY <2>1 DEF Apart, Ids
    <3> QED  BY <1>11, <2>1, <3>1, <3>2, <3>3, <3>4
  <2>2. \A c, d \in Ids : c # d /\ ca[c] # 0 => ca[c] # ca[d]
    <3>1. \A c, d \in Ids : c # d => c < d \/ d < c
      BY DEF Ids
    <3> QED  BY <2>1, <3>1
  <2>3. ASSUME NEW q \in Routers, NEW r \in Routers, q < r, ra[r] # 0 \/ ra[q] # 0
        PROVE  ra[r] # ra[q]
    <3>1. ra[q] \in Used(clients', Given(routers, Routers, ra, r))
      BY <2>3, <1>7, <1>5 DEF Used, Given, Types, Router
    <3>2. routers[r].addr \in Used(clients', Given(routers, Routers, ra, q))
      <4>1. ~ r < q
        BY <2>3 DEF Routers
      <4> QED  BY <4>1 DEF Used, Given
    <3>3. routers[r].addr # 0 => routers[r].addr # routers[q].addr
      BY <2>3 DEF Apart, Routers
    <3>4. routers[q].addr # 0 => routers[q].addr # routers[r].addr
      BY <2>3 DEF Apart, Routers
    <3> QED  BY <1>12, <2>3, <3>1, <3>2, <3>3, <3>4
  <2>4. \A q, r \in Routers : q # r /\ ra[r] # 0 => ra[q] # ra[r]
    <3>1. \A q, r \in Routers : q # r => q < r \/ r < q
      BY DEF Routers
    <3> QED  BY <2>3, <3>1
  <2>5. ASSUME NEW r \in Routers, NEW c \in Ids, ra[r] # 0
        PROVE  ca[c] # ra[r]
    <3>1. ca[c] \in Used(clients', Given(routers, Routers, ra, r))
      BY <1>6 DEF Used
    <3>2. routers[r].addr \in Used(Given(clients, Ids, ca, c), routers)
      BY DEF Used
    <3> QED  BY <1>11, <1>12, <2>5, <3>1, <3>2 DEF Apart
  <2> QED  BY <1>6, <1>7, <2>2, <2>4, <2>5 DEF Apart
<1>14. Revisions'
  BY <1>2, <1>3 DEF Revisions, Dated, Reserved, RevisionTells, Reports, Quiet
<1>15. Reports'
  BY <1>2, <1>3 DEF Reports, Quiet, Confirmed, Fetched, Pending
<1> QED  BY <1>8, <1>9, <1>10, <1>13, <1>14, <1>15

-----------------------------------------------------------------------------
(***************************************************************************)
(* The administrator.                                                      *)
(***************************************************************************)
\* A new client gets a free address (create_client).
LEMMA CreateClientIInv ==
  ASSUME IInv, NEW c \in Ids, CreateClient(c)
  PROVE  IInv'
<1> USE DEF IInv, Tables, TypeOK, CreateClient, Running
<1>1. Allocated(clients, routers) \in Pool \ Used(clients, routers)
  BY AllocatedFree
<1>2. clients[c].state = "new"
  BY DEF Fresh
<1>3. Types'
  BY <1>1, Bounds DEF Types, MarkUpdated, Client, Revs, reports
<1>4. ForeignKeys'
  BY <1>2 DEF Types, ForeignKeys, MarkUpdated, Rows, Client, reports
<1>5. Addressed'
  BY <1>1, Bounds DEF Types, Addressed, Rows, Pool
<1>6. Apart(clients, routers)'
  BY <1>1 DEF Types, Apart, Used
<1>7. Revisions'
  BY <1>2, EditKeepsRevisions DEF Types, Client
<1>8. Reports'
  BY ReportsStay DEF reports, MarkUpdated
<1> QED  BY <1>3, <1>4, <1>5, <1>6, <1>7, <1>8

\* A client is blocked or unblocked (set_client_enabled).
LEMMA SetClientEnabledIInv ==
  ASSUME IInv, NEW c \in Ids, NEW s \in {"enabled", "disabled"},
         SetClientEnabled(c, s)
  PROVE  IInv'
<1> USE DEF IInv, Tables, TypeOK, SetClientEnabled, Running
<1>1. c \in Rows(clients, Ids) /\ clients[c].state # "deleted"
  BY DEF LiveClients
<1>2. Types'
  <2>1. [clients[c] EXCEPT !.state = s] \in Client
    BY DEF Types, Client
  <2>2. clients' \in [Ids -> Client]
    BY <2>1 DEF Types
  <2> QED  BY <2>2, Bounds DEF Types, MarkUpdated, Revs, reports
<1>3. ForeignKeys'
  BY <1>1 DEF Types, ForeignKeys, MarkUpdated, Rows, Client, reports
<1>4. Addressed'
  BY <1>1 DEF Types, Addressed, Rows, Client
<1>5. Apart(clients, routers)'
  BY DEF Types, Apart, Client
<1>6. Revisions'
  BY <1>1, EditKeepsRevisions DEF Types, Client, Rows
<1>7. Reports'
  BY ReportsStay DEF reports, MarkUpdated
<1> QED  BY <1>2, <1>3, <1>4, <1>5, <1>6, <1>7

\* A deleted client keeps its address until its deletion is applied
\* (delete_client).
LEMMA DeleteClientIInv ==
  ASSUME IInv, NEW c \in Ids, DeleteClient(c)
  PROVE  IInv'
<1> USE DEF IInv, Tables, TypeOK, DeleteClient, Running
<1>1. c \in Rows(clients, Ids) /\ clients[c].state # "deleted"
  BY DEF LiveClients
<1>2. Types'
  <2>1. desired' \in Revs /\ desired' \in 0 .. MaxRev
    BY Bounds DEF Types, MarkUpdated, Revs
  <2>2. [clients[c] EXCEPT !.state = "deleted", !.until = desired'] \in Client
    BY <2>1 DEF Types, Client
  <2>3. clients' = [clients EXCEPT ![c] =
          [clients[c] EXCEPT !.state = "deleted", !.until = desired']]
    BY DEF Types
  <2>4. clients' \in [Ids -> Client]
    BY <2>2, <2>3 DEF Types
  <2> QED  BY <2>1, <2>4 DEF Types, MarkUpdated, reports
<1>3. ForeignKeys'
  BY <1>1 DEF Types, ForeignKeys, MarkUpdated, Rows, Client, reports
<1>4. Addressed'
  BY <1>1 DEF Types, Addressed, Rows, Client
<1>5. Apart(clients, routers)'
  BY DEF Types, Apart, Client
<1>6. Revisions'
  BY <1>1, EditKeepsRevisions DEF Types, Client, Rows
<1>7. Reports'
  BY ReportsStay DEF reports, MarkUpdated
<1> QED  BY <1>2, <1>3, <1>4, <1>5, <1>6, <1>7

\* A router is blocked or unblocked (set_router_enabled).
LEMMA SetRouterEnabledIInv ==
  ASSUME IInv, NEW r \in Routers, NEW s \in {"enabled", "disabled"},
         SetRouterEnabled(r, s)
  PROVE  IInv'
<1> USE DEF IInv, Tables, TypeOK, SetRouterEnabled, Running
<1>1. Types'
  <2>1. [routers[r] EXCEPT !.state = s] \in Router
    BY DEF Types, Router
  <2>2. routers' \in [Routers -> Router]
    BY <2>1 DEF Types
  <2> QED  BY <2>2, Bounds DEF Types, MarkUpdated, Revs, reports
<1>2. ForeignKeys'
  BY DEF Types, ForeignKeys, MarkUpdated, Rows, Router, reports
<1>3. Addressed'
  BY DEF Addressed
<1>4. Apart(clients, routers)'
  BY DEF Types, Apart, Router
<1>5. Revisions'
  BY EditKeepsRevisions DEF Types, Client
<1>6. Reports'
  <2>1. \A q \in Routers : routers'[q].client = routers[q].client
    BY DEF Types, Router
  <2>2. \A k \in Creds : creds[k].state \notin {"new", "gone"} =>
          creds[k].router \in Routers
    BY DEF ForeignKeys, Rows
  <2> QED  BY <2>1, <2>2, ReportsStay DEF reports, MarkUpdated
<1> QED  BY <1>1, <1>2, <1>3, <1>4, <1>5, <1>6

\* Deleting routers takes their credentials and results with them; what remains
\* refers to what remains.
LEMMA RoutersDropped ==
  ASSUME IInv, NEW gone \in SUBSET Rows(routers, Routers), phase = "running",
         DropRouters(gone), phase' = phase, UNCHANGED <<told, held, puts>>,
         clients' \in [Ids -> Client], desired' \in Revs, applied' \in 0 .. MaxRev,
         snaps' \in [Revs -> Snapshot], install' \in 0 .. MaxRev,
         \A c \in Ids :
           \/ clients'[c] = clients[c]
           \/ /\ clients'[c].state = "gone" /\ clients'[c].addr = 0
              /\ \A r \in Rows(routers, Routers) :
                   routers[r].client = c => r \in gone,
         \A v \in Revs :
           /\ snaps[v].life # "none" => snaps'[v].life # "none"
           /\ snaps[v].life = "APPLIED" =>
                snaps'[v].life = "APPLIED" /\ snaps'[v].body = snaps[v].body
  PROVE  Tables' /\ Reports'
<1> USE DEF IInv, Tables, TypeOK
<1>1. /\ routers' \in [Routers -> Router]
      /\ \A r \in Routers :
           /\ routers'[r].client = routers[r].client
           /\ r \in gone => routers'[r].state = "gone" /\ routers'[r].addr = 0
           /\ r \notin gone => routers'[r] = routers[r]
  <2>1. routers \in [Routers -> Router]
    BY DEF Types
  <2>2. routers' = [r \in Routers |->
          IF r \in gone THEN [routers[r] EXCEPT !.state = "gone", !.addr = 0]
          ELSE routers[r]]
    BY DEF DropRouters
  <2>3. ASSUME NEW r \in Routers
        PROVE  LET e == [routers[r] EXCEPT !.state = "gone", !.addr = 0]
               IN  /\ e \in Router /\ e.client = routers[r].client
                   /\ e.state = "gone" /\ e.addr = 0
    <3>1. routers[r] \in Router
      BY <2>1
    <3> QED
      BY <3>1 DEF Router
  <2> QED
    BY <2>1, <2>2, <2>3
<1>2. /\ creds' \in [Creds -> Credential]
      /\ \A k \in Creds :
           /\ creds'[k].client = creds[k].client /\ creds'[k].router = creds[k].router
           /\ creds[k].router \in gone => creds'[k].state = "gone"
           /\ creds[k].router \notin gone => creds'[k] = creds[k]
  <2>1. creds \in [Creds -> Credential]
    BY DEF Types
  <2>2. creds' = [k \in Creds |->
          IF creds[k].router \in gone THEN [creds[k] EXCEPT !.state = "gone"]
          ELSE creds[k]]
    BY DEF DropRouters
  <2>3. ASSUME NEW k \in Creds
        PROVE  LET e == [creds[k] EXCEPT !.state = "gone"]
               IN  /\ e \in Credential /\ e.state = "gone"
                   /\ e.client = creds[k].client /\ e.router = creds[k].router
    <3>1. creds[k] \in Credential
      BY <2>1
    <3> QED
      BY <3>1 DEF Credential
  <2> QED
    BY <2>1, <2>2, <2>3
<1>3. results' = {x \in results : creds[x.cred].router \notin gone}
  BY DEF DropRouters
<1>4. Types'
  BY <1>1, <1>2, <1>3 DEF Types
<1>5. \A r \in Rows(routers', Routers) : r \in Rows(routers, Routers) \ gone
  BY <1>1 DEF Rows
<1>6. \A k \in Rows(creds', Creds) :
        k \in Rows(creds, Creds) /\ creds[k].router \notin gone
        /\ creds'[k] = creds[k]
  BY <1>2 DEF Rows
<1>7. \A r \in Rows(routers, Routers) \ gone :
        routers[r].client \in Rows(clients', Ids) /\ r \in Rows(routers', Routers)
  <2>1. ASSUME NEW r \in Rows(routers, Routers) \ gone
        PROVE  routers[r].client \in Rows(clients', Ids)
    <3>1. routers[r].client \in Rows(clients, Ids)
      BY DEF ForeignKeys
    <3>2. clients'[routers[r].client] = clients[routers[r].client]
      BY <3>1 DEF Rows
    <3> QED  BY <3>1, <3>2 DEF Rows
  <2> QED  BY <2>1, <1>1 DEF Rows
<1>8. ForeignKeys'
  <2>1. \A r \in Rows(routers', Routers) :
          routers'[r].client \in Rows(clients', Ids)
    BY <1>1, <1>5, <1>7 DEF Rows
  <2>2. ASSUME NEW k \in Rows(creds', Creds)
        PROVE  /\ creds'[k].client \in Rows(clients', Ids)
               /\ creds'[k].router \in Rows(routers', Routers)
               /\ routers'[creds'[k].router].client = creds'[k].client
    <3>1. /\ k \in Rows(creds, Creds) /\ creds'[k] = creds[k]
          /\ creds[k].router \in Rows(routers, Routers) \ gone
          /\ routers[creds[k].router].client = creds[k].client
      BY <1>6 DEF ForeignKeys
    <3> QED  BY <1>1, <1>7, <3>1 DEF Rows
  <2>3. ASSUME NEW x \in results'
        PROVE  x.cred \in Rows(creds', Creds) /\ snaps'[x.etag.rev].life # "none"
    <3>1. x \in results /\ creds[x.cred].router \notin gone
      BY <1>3
    <3>2. x.cred \in Rows(creds, Creds) /\ snaps[x.etag.rev].life # "none"
      BY <3>1 DEF ForeignKeys
    <3>3. x.etag.rev \in Revs
      <4>1. x \in told /\ About(x.etag, creds[x.cred].router)
        BY <3>1, <3>2 DEF Reports, Confirmed, Rows
      <4> QED  BY <4>1 DEF About
    <3> QED  BY <1>2, <3>1, <3>2, <3>3 DEF Rows
  <2> QED  BY <2>1, <2>2, <2>3 DEF ForeignKeys
<1>9. Addressed'
  BY DEF Addressed, Rows
<1>10. Apart(clients, routers)'
  <2>1. \A c \in Ids : clients'[c].addr # 0 => clients'[c].addr = clients[c].addr
    OBVIOUS
  <2>2. \A r \in Routers : routers'[r].addr # 0 => routers'[r].addr = routers[r].addr
    BY <1>1
  <2> QED  BY <2>1, <2>2 DEF Apart
<1>11. Reports'
  <2>1. ASSUME NEW x \in results, creds'[x.cred].state # "gone"
        PROVE  x \in results'
    BY <1>2, <1>3, <2>1 DEF ForeignKeys, Rows
  <2>2. ASSUME NEW k \in Creds, creds[k].state # "new"
        PROVE  /\ creds'[k].state # "new"
               /\ creds'[k].state # "gone" =>
                    /\ creds[k].state # "gone" /\ creds'[k].router = creds[k].router
                    /\ routers'[creds[k].router].client
                         = routers[creds[k].router].client
    <3>1. creds'[k].state # "new"
      BY <1>2, <2>2
    <3>2. CASE creds'[k].state # "gone"
      <4>1. creds'[k] = creds[k] /\ k \in Rows(creds, Creds)
        BY <1>2, <2>2, <3>2 DEF Rows
      <4>2. creds[k].router \in Routers
        BY <4>1 DEF ForeignKeys, Rows
      <4> QED  BY <1>1, <3>1, <3>2, <4>1, <4>2
    <3> QED  BY <3>1, <3>2
  <2>3. results' \subseteq results
    BY <1>3
  <2> QED  BY <2>1, <2>2, <2>3, ReportsStay
<1> QED  BY <1>4, <1>8, <1>9, <1>10, <1>11

\* A router goes with its peer, its credentials and their results
\* (delete_router).
LEMMA DeleteRouterIInv ==
  ASSUME IInv, NEW r \in Routers, DeleteRouter(r)
  PROVE  IInv'
<1> USE DEF IInv, Tables, TypeOK, DeleteRouter, Running
<1>1. Revisions'
  BY EditKeepsRevisions DEF Types, Client
<1>2. Tables' /\ Reports'
  <2>1. {r} \in SUBSET Rows(routers, Routers)
    OBVIOUS
  <2>2. /\ desired' \in Revs /\ applied' \in 0 .. MaxRev
        /\ snaps' = snaps /\ snaps' \in [Revs -> Snapshot]
        /\ install' \in 0 .. MaxRev
    BY Bounds DEF MarkUpdated, Types, Revs
  <2>3. clients' = clients /\ clients' \in [Ids -> Client]
    BY DEF Types
  <2> QED  BY <2>1, <2>2, <2>3, RoutersDropped
<1> QED  BY <1>1, <1>2

\* A credential is issued for a router that has a peer
\* (issue_router_credential).
LEMMA IssueCredentialIInv ==
  ASSUME IInv, NEW k \in Creds, NEW r \in Routers, NEW may \in ScopeSets,
         IssueCredential(k, r, may)
  PROVE  IInv'
<1> USE DEF IInv, Tables, TypeOK, IssueCredential, Running
<1>1. creds[k].state = "new" /\ r \in Rows(routers, Routers)
      /\ routers[r].client \in Rows(clients, Ids)
  BY DEF Fresh, LiveClients
<1>2. creds' \in [Creds -> Credential]
  BY <1>1, SiteAssumption DEF Types, Credential, Rows
<1>3. Types'
  BY <1>2 DEF Types, owners, reports, revision
<1>4. ForeignKeys'
  BY <1>1 DEF Types, ForeignKeys, Rows, owners, reports, revision
<1>5. Addressed' /\ Apart(clients, routers)'
  BY DEF Addressed, Apart, owners, Rows
<1>6. Revisions'
  BY DEF Revisions, Dated, Reserved, RevisionTells, Captured, owners, revision
<1>7. Reports'
  <2>1. \A x \in results : x \in results'
    BY DEF reports
  <2> QED  BY <1>1, <2>1, ReportsStay DEF reports, revision, owners, Types
<1> QED  BY <1>3, <1>4, <1>5, <1>6, <1>7

\* A client's first credential brings a router with a free address
\* (issue_router_credential).
LEMMA IssueForNewRouterIInv ==
  ASSUME IInv, NEW k \in Creds, NEW r \in Routers, NEW c \in Ids,
         NEW may \in ScopeSets, IssueForNewRouter(k, r, c, may)
  PROVE  IInv'
<1> USE DEF IInv, Tables, TypeOK, IssueForNewRouter, Running
<1>1. creds[k].state = "new" /\ routers[r].state = "new" /\ c \in Rows(clients, Ids)
  BY DEF Fresh, LiveClients
<1>2. Allocated(clients, routers) \in Pool \ Used(clients, routers)
  BY AllocatedFree
<1>3. creds' \in [Creds -> Credential]
  BY SiteAssumption DEF Types, Credential, Rows
<1>4. routers' \in [Routers -> Router]
  BY <1>2 DEF Types, Router
<1>5. Types'
  BY <1>3, <1>4, Bounds DEF Types, reports, MarkUpdated, Revs
<1>6. ForeignKeys'
  <2>1. \A q \in Rows(routers, Routers) : q # r /\ q \in Rows(routers', Routers)
                                          /\ routers'[q] = routers[q]
    BY <1>1 DEF Types, Rows
  <2>2. r \in Rows(routers', Routers) /\ routers'[r].client = c
    BY DEF Types, Rows
  <2>3. \A q \in Rows(routers', Routers) : q = r \/ q \in Rows(routers, Routers)
    BY DEF Types, Rows
  <2>4. \A q \in Rows(routers', Routers) :
          routers'[q].client \in Rows(clients', Ids)
    BY <1>1, <2>1, <2>2, <2>3 DEF ForeignKeys
  <2>5. \A j \in Rows(creds', Creds) \ {k} :
          creds'[j] = creds[j] /\ j \in Rows(creds, Creds)
    <3>1. \A j \in Creds \ {k} : creds'[j] = creds[j]
      BY DEF Types
    <3> QED  BY <3>1 DEF Rows
  <2>6. creds'[k].router = r /\ creds'[k].client = c
    BY DEF Types
  <2>7. \A j \in Rows(creds', Creds) :
          /\ creds'[j].client \in Rows(clients', Ids)
          /\ creds'[j].router \in Rows(routers', Routers)
          /\ routers'[creds'[j].router].client = creds'[j].client
    <3>1. ASSUME NEW j \in Rows(creds', Creds) \ {k}
          PROVE  /\ creds'[j].client \in Rows(clients', Ids)
                 /\ creds'[j].router \in Rows(routers', Routers)
                 /\ routers'[creds'[j].router].client = creds'[j].client
      <4>1. creds'[j] = creds[j] /\ j \in Rows(creds, Creds)
        BY <2>5
      <4>2. /\ creds[j].client \in Rows(clients, Ids)
            /\ creds[j].router \in Rows(routers, Routers)
            /\ routers[creds[j].router].client = creds[j].client
        BY <4>1 DEF ForeignKeys
      <4> QED  BY <2>1, <4>1, <4>2
    <3> QED  BY <1>1, <2>2, <2>6, <3>1
  <2>8. \A j \in Rows(creds, Creds) : j \in Rows(creds', Creds)
    BY <1>1 DEF Types, Rows
  <2>9. \A x \in results' :
          x.cred \in Rows(creds', Creds) /\ snaps'[x.etag.rev].life # "none"
    BY <2>8 DEF ForeignKeys, reports, MarkUpdated
  <2> QED  BY <2>4, <2>7, <2>9 DEF ForeignKeys
<1>7. Addressed'
  BY DEF Addressed, Rows
<1>8. Apart(clients, routers)'
  BY <1>2 DEF Types, Apart, Used
<1>9. Revisions'
  BY EditKeepsRevisions DEF Types, Client
<1>10. Reports'
  <2>1. \A j \in Creds : creds[j].state \notin {"new", "gone"} =>
          creds[j].router \in Routers /\ creds[j].router # r
    BY <1>1 DEF ForeignKeys, Rows
  <2>2. ASSUME NEW j \in Creds, creds[j].state # "new"
        PROVE  /\ creds'[j].state # "new"
               /\ creds'[j].state # "gone" =>
                    /\ creds[j].state # "gone" /\ creds'[j].router = creds[j].router
                    /\ routers'[creds[j].router].client
                         = routers[creds[j].router].client
    BY <1>1, <2>1, <2>2 DEF Types
  <2> QED  BY <2>2, ReportsStay DEF reports, MarkUpdated
<1> QED  BY <1>5, <1>6, <1>7, <1>8, <1>9, <1>10

\* A credential that is revoked or expires keeps its results.
LEMMA BarIInv ==
  ASSUME IInv, NEW k \in Creds, Bar(k)
  PROVE  IInv'
<1> USE DEF IInv, Tables, TypeOK, Bar, Running
<1>1. /\ creds' \in [Creds -> Credential]
      /\ creds'[k].state = "barred"
      /\ \A j \in Creds : /\ creds'[j].router = creds[j].router
                          /\ creds'[j].client = creds[j].client
                          /\ j # k => creds'[j] = creds[j]
  <2>1. [creds[k] EXCEPT !.state = "barred"] \in Credential
    BY DEF Types, Credential
  <2> QED  BY <2>1 DEF Types, Credential
<1>2. Types'
  BY <1>1 DEF Types, owners, reports, revision
<1>3. ForeignKeys'
  <2>1. Rows(creds', Creds) = Rows(creds, Creds)
    BY <1>1 DEF Rows
  <2> QED  BY <1>1, <2>1 DEF ForeignKeys, Rows, owners, reports, revision
<1>4. Addressed' /\ Apart(clients, routers)'
  BY DEF Addressed, Apart, owners, Rows
<1>5. Revisions'
  BY DEF Revisions, Dated, Reserved, RevisionTells, Captured, owners, revision
<1>6. Reports'
  <2>1. \A j \in Creds : creds[j].state # "new" =>
          /\ creds'[j].state # "new"
          /\ creds'[j].state # "gone" => creds[j].state # "gone"
    BY <1>1
  <2> QED  BY <1>1, <2>1, ReportsStay DEF reports, revision, owners
<1> QED  BY <1>2, <1>3, <1>4, <1>5, <1>6

-----------------------------------------------------------------------------
(***************************************************************************)
(* Installations.                                                          *)
(***************************************************************************)
\* A revision that is installed has the snapshot that says what the tables say
\* (prepare_install, _ensure_snapshot).
LEMMA PrepareInstallIInv ==
  ASSUME IInv, PrepareInstall
  PROVE  IInv'
<1> USE DEF IInv, Tables, TypeOK, PrepareInstall, Running, Revisions
<1>1. Captured \in Body /\ ApartIn(Captured)
  BY CapturedBody, CapturedApart
<1>2. desired \in Revs
  BY DEF Types
<1>3. /\ snaps' \in [Revs -> Snapshot]
      /\ \A v \in Revs \ {desired} : snaps'[v] = snaps[v]
      /\ snaps'[desired].body = Captured
      /\ snaps'[desired].life # "none"
      /\ snaps[desired].life # "none" => snaps'[desired].body = snaps[desired].body
      /\ snaps[desired].life = "APPLIED" => snaps'[desired].life = "APPLIED"
  <2>1. CASE snaps[desired].life = "none"
    <3>1. [life |-> "PREPARED", body |-> Captured, at |-> 0] \in Snapshot
      BY <1>1, Bounds DEF Snapshot
    <3>2. snaps' = [snaps EXCEPT ![desired] =
                      [life |-> "PREPARED", body |-> Captured, at |-> 0]]
      BY <2>1
    <3> QED  BY <1>2, <2>1, <3>1, <3>2 DEF Types
  <2>2. CASE snaps[desired].life # "none"
    <3> DEFINE new == [snaps[desired] EXCEPT !.life =
                         IF @ = "APPLIED" THEN @ ELSE "PREPARED"]
    <3>1. snaps[desired] \in Snapshot
      BY <1>2 DEF Types
    <3>2. /\ new \in Snapshot /\ new.body = snaps[desired].body
          /\ new.life # "none"
          /\ snaps[desired].life = "APPLIED" => new.life = "APPLIED"
      BY <3>1 DEF Snapshot
    <3>3. snaps' = [snaps EXCEPT ![desired] = new] /\ snaps[desired].body = Captured
      BY <2>2, <3>1
    <3> HIDE DEF new
    <3> QED  BY <1>2, <3>2, <3>3 DEF Types
  <2> QED  BY <2>1, <2>2
<1>4. Types'
  <2>1. desired \in 0 .. MaxRev
    BY <1>2, Bounds DEF Revs
  <2> QED  BY <1>3, <2>1 DEF Types, owners, reports
<1>5. ForeignKeys'
  <2>1. \A x \in results : snaps'[x.etag.rev].life # "none"
    <3>1. ASSUME NEW x \in results PROVE snaps'[x.etag.rev].life # "none"
      <4>1. x.cred \in Rows(creds, Creds) /\ snaps[x.etag.rev].life # "none"
        BY DEF ForeignKeys
      <4>2. x.etag.rev \in Revs
        BY <4>1 DEF Reports, Confirmed, Rows, About
      <4> QED  BY <1>3, <4>1, <4>2
    <3> QED  BY <3>1
  <2> QED  BY <2>1 DEF ForeignKeys, Rows, owners, reports
<1>6. Addressed' /\ Apart(clients, routers)'
  BY DEF Addressed, Apart, owners, Rows
<1>7. Dated'
  <2>1. desired \in Nat /\ applied \in Nat
    BY <1>2, Bounds DEF Types, Revs
  <2>2. applied # 0 => snaps'[applied].life = "APPLIED"
    <3>1. applied # 0 => applied \in Revs /\ snaps[applied].life = "APPLIED"
      BY Bounds DEF Types, Revs, Dated
    <3> QED  BY <1>3, <3>1
  <2>3. \A v \in Revs : snaps'[v].life # "none" => v <= desired
    BY <1>3, <2>1 DEF Dated
  <2> QED  BY <1>3, <2>2, <2>3 DEF Dated
<1>8. Reserved'
  <2>1. ASSUME NEW v \in Revs, v >= applied, snaps'[v].life # "none",
               NEW x \in snaps'[v].body.clients
        PROVE  /\ clients[x[1]].state \notin {"new", "gone"}
               /\ clients[x[1]].addr = x[2]
               /\ clients[x[1]].state = "deleted" => clients[x[1]].until > v
    <3>1. CASE v = desired
      <4>1. x \in Captured.clients
        BY <1>3, <2>1, <3>1
      <4>2. /\ clients[x[1]].state = "enabled"
            /\ clients[x[1]].addr = x[2]
        BY <4>1 DEF Captured
      <4> QED  BY <4>2
    <3>2. CASE v # desired
      BY <1>3, <2>1, <3>2 DEF Reserved
    <3> QED  BY <3>1, <3>2
  <2> QED  BY <2>1 DEF Reserved, owners
<1>9. RevisionTells'
  BY <1>3 DEF RevisionTells, Captured, owners
<1>10. \A v \in Revs : ApartIn(snaps'[v].body)
  BY <1>1, <1>3
<1>11. Reports'
  <2>1. \A v \in Revs : snaps[v].life = "APPLIED" =>
          snaps'[v].life = "APPLIED" /\ snaps'[v].body = snaps[v].body
    BY <1>3
  <2> QED  BY <2>1, ReportsStay DEF reports, owners
<1> QED  BY <1>4, <1>5, <1>6, <1>7, <1>8, <1>9, <1>10, <1>11

\* A failed installation leaves what is applied alone (fail_install).
LEMMA FailInstallIInv ==
  ASSUME IInv, FailInstall
  PROVE  IInv'
<1> USE DEF IInv, Tables, TypeOK, FailInstall, Running, Revisions
<1>1. install \in Revs /\ snaps[install].life # "none"
  BY Bounds DEF Types, Revs, Dated
<1>2. /\ snaps' \in [Revs -> Snapshot]
      /\ \A v \in Revs : /\ snaps'[v].body = snaps[v].body
                         /\ snaps'[v].life = "none" <=> snaps[v].life = "none"
                         /\ snaps[v].life = "APPLIED" => snaps'[v].life = "APPLIED"
  <2> DEFINE new == [snaps[install] EXCEPT !.life =
                       IF @ = "APPLIED" THEN @ ELSE "FAILED"]
  <2>1. snaps[install] \in Snapshot
    BY <1>1 DEF Types
  <2>2. /\ new \in Snapshot /\ new.body = snaps[install].body
        /\ new.life # "none"
        /\ snaps[install].life = "APPLIED" => new.life = "APPLIED"
    BY <2>1 DEF Snapshot
  <2>3. snaps' = [snaps EXCEPT ![install] = new]
    BY <2>1
  <2> HIDE DEF new
  <2> QED  BY <1>1, <2>2, <2>3 DEF Types
<1>3. Types'
  BY <1>2, Bounds DEF Types, owners, reports
<1>4. ForeignKeys'
  <2>1. \A x \in results : snaps'[x.etag.rev].life # "none"
    <3>1. ASSUME NEW x \in results PROVE snaps'[x.etag.rev].life # "none"
      <4>1. x.cred \in Rows(creds, Creds) /\ snaps[x.etag.rev].life # "none"
        BY DEF ForeignKeys
      <4>2. x.etag.rev \in Revs
        BY <4>1 DEF Reports, Confirmed, Rows, About
      <4> QED  BY <1>2, <4>1, <4>2
    <3> QED  BY <3>1
  <2> QED  BY <2>1 DEF ForeignKeys, Rows, owners, reports
<1>5. Addressed' /\ Apart(clients, routers)'
  BY DEF Addressed, Apart, owners, Rows
<1>6. Dated' /\ RevisionTells'
  <2>1. applied # 0 => applied \in Revs
    BY Bounds DEF Types, Revs
  <2>2. desired \in Revs
    BY DEF Types
  <2> QED  BY <1>2, <2>1, <2>2 DEF Dated, RevisionTells, Captured, owners
<1>7. Reserved' /\ \A v \in Revs : ApartIn(snaps'[v].body)
  BY <1>2 DEF Reserved, owners
<1>8. Reports'
  BY <1>2, ReportsStay DEF reports, owners
<1> QED  BY <1>3, <1>4, <1>5, <1>6, <1>7, <1>8

\* An installation completes: the clients whose deletion has reached the server
\* are purged with their routers (complete_install).
LEMMA CompleteInstallIInv ==
  ASSUME IInv, CompleteInstall
  PROVE  IInv'
<1> USE DEF IInv, Tables, TypeOK, CompleteInstall, Running, Revisions
<1> DEFINE gone == Purgeable(applied')
           lost == {r \in Rows(routers, Routers) : routers[r].client \in gone}
<1>1. /\ install \in Revs /\ snaps[install].life # "none" /\ applied \in Nat
      /\ applied' \in Revs /\ applied' \in 0 .. MaxRev
      /\ applied' >= applied /\ applied' \in {applied, install}
  BY Bounds DEF Types, Revs, Dated
<1>2. /\ snaps' \in [Revs -> Snapshot]
      /\ \A v \in Revs \ {install} : snaps'[v] = snaps[v]
      /\ snaps'[install].life = "APPLIED"
      /\ snaps'[install].body = snaps[install].body
  <2> DEFINE new == [snaps[install] EXCEPT !.life = "APPLIED", !.at = @ + 1]
  <2>1. snaps[install] \in Snapshot
    BY <1>1 DEF Types
  <2>2. snaps[install].at + 1 \in 0 .. MaxApplies
    BY <2>1, Bounds DEF Snapshot
  <2>3. new \in Snapshot /\ new.body = snaps[install].body /\ new.life = "APPLIED"
    BY <2>1, <2>2 DEF Snapshot
  <2>4. snaps' = [snaps EXCEPT ![install] = new]
    BY <1>1, <2>1 DEF Types
  <2> HIDE DEF new
  <2> QED  BY <1>1, <2>3, <2>4 DEF Types
<1>3. /\ clients' = [c \in Ids |->
           IF c \in gone THEN [state |-> "gone", until |-> 0, addr |-> 0]
           ELSE clients[c]]
      /\ DropRouters(lost)
  BY DEF Purge
<1>4. \A c \in gone : c \in Ids /\ clients[c].state = "deleted"
                      /\ clients[c].until <= applied'
  BY DEF Purgeable
<1>5. lost \in SUBSET Rows(routers, Routers)
  OBVIOUS
<1> HIDE DEF gone
<1>6. clients' \in [Ids -> Client]
  BY <1>3, Bounds DEF Types, Client
<1>7. \A c \in Ids : IF c \in gone THEN clients'[c].state = "gone" /\ clients'[c].addr = 0
                     ELSE clients'[c] = clients[c]
  BY <1>3
<1>8. Tables' /\ Reports'
  <2>1. \A c \in Ids :
          \/ clients'[c] = clients[c]
          \/ /\ clients'[c].state = "gone" /\ clients'[c].addr = 0
             /\ \A r \in Rows(routers, Routers) :
                  routers[r].client = c => r \in lost
    BY <1>7
  <2>2. \A v \in Revs :
          /\ snaps[v].life # "none" => snaps'[v].life # "none"
          /\ snaps[v].life = "APPLIED" =>
               snaps'[v].life = "APPLIED" /\ snaps'[v].body = snaps[v].body
    BY <1>2
  <2>3. install' \in 0 .. MaxRev /\ desired' \in Revs /\ phase' = phase
        /\ UNCHANGED <<told, held, puts>>
    BY Bounds DEF Types
  <2> HIDE DEF lost
  <2> QED  BY <1>1, <1>2, <1>3, <1>5, <1>6, <2>1, <2>2, <2>3, RoutersDropped
<1>9. Dated'
  BY <1>1, <1>2 DEF Dated
<1>10. Reserved'
  <2>1. ASSUME NEW v \in Revs, v >= applied', snaps'[v].life # "none",
               NEW x \in snaps'[v].body.clients
        PROVE  /\ clients'[x[1]].state \notin {"new", "gone"}
               /\ clients'[x[1]].addr = x[2]
               /\ clients'[x[1]].state = "deleted" => clients'[x[1]].until > v
    <3>1. snaps[v].life # "none" /\ x \in snaps[v].body.clients /\ v >= applied
      BY <1>1, <1>2, <2>1 DEF Revs
    <3>2. /\ clients[x[1]].state \notin {"new", "gone"}
          /\ clients[x[1]].addr = x[2]
          /\ clients[x[1]].state = "deleted" => clients[x[1]].until > v
      BY <3>1 DEF Reserved
    <3>3. x[1] \in Ids
      BY <3>1 DEF Types, Snapshot, Body
    <3>4. x[1] \notin gone
      <4>1. clients[x[1]].until \in Nat /\ v \in Nat /\ applied' \in Nat
        BY <1>1, <3>3, Bounds DEF Types, Client, Revs
      <4> QED  BY <1>4, <2>1, <3>2, <4>1
    <3> QED  BY <1>7, <3>2, <3>3, <3>4
  <2> QED  BY <2>1 DEF Reserved
<1>11. Captured' = Captured
  <2>1. \A c \in Ids : /\ clients'[c].state = "enabled" <=> clients[c].state = "enabled"
                       /\ clients[c].state = "enabled" => clients'[c] = clients[c]
    BY <1>4, <1>7
  <2>2. \A r \in Routers : IF r \in lost THEN routers'[r].state = "gone"
                           ELSE routers'[r] = routers[r]
    BY <1>3 DEF DropRouters, Types, Router
  <2>3. \A r \in Routers :
          /\ routers[r].state = "enabled" => routers[r].client \in Ids
          /\ r \in lost => clients[routers[r].client].state # "enabled"
    BY <1>4 DEF ForeignKeys, Rows
  <2> HIDE DEF lost
  <2>4. {i \in Ids : clients'[i].state = "enabled"}
          = {i \in Ids : clients[i].state = "enabled"}
    BY <2>1
  <2>5. {i \in Routers : /\ routers'[i].state = "enabled" /\ routers'[i].addr # 0
                         /\ clients'[routers'[i].client].state = "enabled"}
          = {i \in Routers : /\ routers[i].state = "enabled" /\ routers[i].addr # 0
                             /\ clients[routers[i].client].state = "enabled"}
    BY <2>1, <2>2, <2>3
  <2>6. \A i \in Routers : routers'[i].state = "enabled" => routers'[i] = routers[i]
    BY <2>2
  <2>7. Captured'.clients = Captured.clients
    BY <2>1, <2>4 DEF Captured
  <2>8. Captured'.peers = Captured.peers
    BY <2>5, <2>6 DEF Captured
  <2> QED  BY <2>7, <2>8 DEF Captured
<1>12. RevisionTells' /\ \A v \in Revs : ApartIn(snaps'[v].body)
  BY <1>1, <1>2, <1>11 DEF RevisionTells, Types
<1> QED  BY <1>8, <1>9, <1>10, <1>12

-----------------------------------------------------------------------------
(***************************************************************************)
(* The router API.                                                         *)
(***************************************************************************)
\* A step of the router API leaves the tables of the administrator and the
\* revisions alone; only reports may change.
LEMMA ApiKeepsTables ==
  ASSUME IInv, UNCHANGED <<phase, owners, creds, revision>>, Types',
         \A x \in results' :
           x.cred \in Rows(creds, Creds) /\ snaps[x.etag.rev].life # "none"
  PROVE  Tables' /\ Revisions'
<1> USE DEF IInv, Tables, TypeOK, owners, revision
<1>1. ForeignKeys'
  BY DEF ForeignKeys, Rows
<1>2. Addressed' /\ Apart(clients, routers)'
  BY DEF Addressed, Apart, Rows
<1>3. Revisions'
  BY DEF Revisions, Dated, Reserved, RevisionTells, Captured
<1> QED  BY <1>1, <1>2, <1>3

\* A result that is stored has a credential and a snapshot.
LEMMA StoredKeys ==
  ASSUME IInv, NEW x \in results
  PROVE  x.cred \in Rows(creds, Creds) /\ snaps[x.etag.rev].life # "none"
BY DEF IInv, Tables, TypeOK, ForeignKeys

\* A router fetches a bundle that is its own (get_router_snapshot).
LEMMA GetSnapshotIInv ==
  ASSUME IInv, NEW k \in Creds, NEW kind \in Kinds, GetSnapshot(k, kind)
  PROVE  IInv'
<1> USE DEF IInv, GetSnapshot, Running
<1> DEFINE r == creds[k].router
           tag == [rev |-> applied, at |-> snaps[applied].at, kind |-> kind,
                   router |-> r]
<1>1. r \in Routers
  BY DEF Tables, TypeOK, ForeignKeys, Rows
<1>2. applied \in Revs /\ applied \in 0 .. MaxRev
      /\ snaps[applied].at \in 0 .. MaxApplies
  BY Bounds DEF Tables, TypeOK, Types, Revs, Snapshot
<1>3. tag \in ETag
  BY <1>1, <1>2 DEF ETag
<1>4. held' = [held EXCEPT ![r] = tag] /\ tag.router = r
  OBVIOUS
<1> HIDE DEF tag, r
<1>5. Types'
  BY <1>3, <1>4 DEF Tables, TypeOK, Types, owners, reports, revision
<1>6. Tables' /\ Revisions'
  BY <1>5, ApiKeepsTables, StoredKeys DEF reports
<1>7. Fetched'
  BY <1>1, <1>4 DEF Reports, Fetched, Tables, TypeOK, Types
<1>8. Quiet' /\ Confirmed' /\ Pending'
  BY DEF Reports, Quiet, Confirmed, Pending, About, Serves, owners, reports,
         revision
<1> QED  BY <1>6, <1>7, <1>8 DEF Reports

\* A request moves on if what it knows of its credential stays true.
LEMMA RequestMoves ==
  ASSUME IInv, UNCHANGED <<phase, owners, creds, revision, held>>,
         phase = "running", NEW w \in Workers, NEW p \in Request,
         puts' = [puts EXCEPT ![w] = p],
         p.step # "idle" =>
           /\ creds[p.report.cred].state # "new"
           /\ creds[p.report.cred].state # "gone" =>
                /\ p.client = routers[creds[p.report.cred].router].client
                /\ p.report.etag.router = creds[p.report.cred].router
                /\ p.step = "record" =>
                     About(p.report.etag, creds[p.report.cred].router)
  PROVE  Quiet' /\ Fetched' /\ Pending' /\ puts' \in [Workers -> Request]
<1> USE DEF IInv, Tables, TypeOK, Types, Reports
<1>1. Quiet' /\ Fetched'
  BY DEF Quiet, Fetched
<1>2. puts' \in [Workers -> Request]
  OBVIOUS
<1>3. \A u \in Workers : puts'[u] = IF u = w THEN p ELSE puts[u]
  OBVIOUS
<1>4. \A e, r : About(e, r)' <=> About(e, r)
  BY DEF About, Serves, owners, revision
<1>5. Pending'
  <2>1. ASSUME NEW u \in Workers, puts'[u].step # "idle", NEW k,
               k = puts'[u].report.cred
        PROVE  /\ creds[k].state # "new"
               /\ creds[k].state # "gone" =>
                    /\ puts'[u].client = routers[creds[k].router].client
                    /\ puts'[u].report.etag.router = creds[k].router
                    /\ puts'[u].step = "record" =>
                         About(puts'[u].report.etag, creds[k].router)
    <3>1. CASE u = w
      BY <1>3, <2>1, <3>1
    <3>2. CASE u # w
      BY <1>3, <2>1, <3>2 DEF Pending
    <3> QED  BY <3>1, <3>2
  <2> QED  BY <1>4, <2>1 DEF Pending, owners
<1> QED  BY <1>1, <1>2, <1>5

\* The request that has ended is like one that has not begun.
LEMMA NoRequestTyped == NoRequest \in Request /\ NoRequest.step = "idle"
<1>1. \A r \in Routers : Nothing(r) \in ETag
  BY Bounds, SiteAssumption DEF Nothing, ETag
<1>2. 1 \in Creds /\ 1 \in Routers
  BY Bounds DEF Creds, Routers
<1>3. NoRequest.report \in Report
  BY <1>1, <1>2, SiteAssumption DEF NoRequest, Report
<1> QED  BY <1>3 DEF NoRequest, Request

\* A report comes in, from a router that reports on a bundle of its own
\* (put_router_apply_result up to its body).
LEMMA ReceiveIInv ==
  ASSUME IInv, NEW w \in Workers, NEW k \in Creds, NEW key \in Keys,
         NEW o \in Outcomes, Receive(w, k, key, o)
  PROVE  IInv'
<1> USE DEF IInv, Receive, Running
<1> DEFINE r == creds[k].router
<1>1. r \in Routers /\ routers[r].client \in {0} \cup Ids /\ k \in Rows(creds, Creds)
  BY DEF Tables, TypeOK, Types, ForeignKeys, Rows, Router
<1>2. PICK e \in {held[r]} \cup {x.etag : x \in {y \in told : y.cred = k}} :
        puts' = [puts EXCEPT ![w] =
          [step |-> "examine", client |-> routers[r].client,
           report |-> [cred |-> k, key |-> key, etag |-> e, outcome |-> o]]]
  OBVIOUS
<1>3. e \in ETag /\ e.router = r
  <2>1. CASE e = held[r]
    BY <1>1, <2>1 DEF Tables, TypeOK, Types, Reports, Fetched
  <2>2. CASE e \in {x.etag : x \in {y \in told : y.cred = k}}
    <3>1. PICK x \in told : x.cred = k /\ e = x.etag
      BY <2>2
    <3>2. x \in Report
      BY <3>1 DEF Tables, TypeOK, Types
    <3>3. About(x.etag, creds[k].router)
      BY <1>1, <3>1 DEF Reports, Confirmed, Rows
    <3> QED  BY <3>1, <3>2, <3>3 DEF Report, About
  <2> QED  BY <2>1, <2>2
<1> DEFINE p == [step |-> "examine", client |-> routers[r].client,
                 report |-> [cred |-> k, key |-> key, etag |-> e, outcome |-> o]]
<1>4. p \in Request
  BY <1>1, <1>3 DEF Request, Report
<1>5. puts' = [puts EXCEPT ![w] = p]
  BY <1>2
<1>6. /\ creds[p.report.cred].state # "new"
      /\ p.client = routers[creds[p.report.cred].router].client
      /\ p.report.etag.router = creds[p.report.cred].router
      /\ p.step # "record"
  BY <1>1, <1>3 DEF Rows
<1> HIDE DEF p, r
<1>7. Quiet' /\ Fetched' /\ Pending' /\ puts' \in [Workers -> Request]
  BY <1>4, <1>5, <1>6, RequestMoves
<1>8. Types'
  BY <1>7 DEF Tables, TypeOK, Types, owners, reports, revision
<1>9. Tables' /\ Revisions'
  BY <1>8, ApiKeepsTables, StoredKeys DEF reports
<1>10. Confirmed'
  BY DEF Reports, Confirmed, About, Serves, owners, reports, revision
<1> QED  BY <1>7, <1>9, <1>10 DEF Reports

\* A request that is answered with what is stored adds nothing.
LEMMA AnswerIInv ==
  ASSUME IInv, UNCHANGED <<phase, owners, creds, results, revision, held>>,
         phase = "running", NEW w \in Workers, End(w),
         told' = told \/ Answer(w)
  PROVE  IInv'
<1> USE DEF IInv
<1>1. told' = told
  BY DEF Answer, Stored, Reports, Confirmed
<1>2. Quiet' /\ Fetched' /\ Pending' /\ puts' \in [Workers -> Request]
  BY NoRequestTyped, RequestMoves DEF End
<1>3. Types'
  BY <1>1, <1>2 DEF Tables, TypeOK, Types, owners, revision
<1>4. Tables' /\ Revisions'
  BY <1>3, ApiKeepsTables, StoredKeys
<1>5. Confirmed'
  BY <1>1 DEF Reports, Confirmed, About, Serves, owners, revision
<1> QED  BY <1>2, <1>4, <1>5 DEF Reports

\* A report is compared with what is stored and what is applied.
LEMMA ExamineIInv ==
  ASSUME IInv, NEW w \in Workers, Examine(w)
  PROVE  IInv'
<1> USE DEF Examine, Running
<1>1. CASE Answer(w)
  BY <1>1, AnswerIInv DEF Answer
<1>2. CASE End(w) /\ UNCHANGED told
  BY <1>2, AnswerIInv
<1>3. CASE /\ UNCHANGED told /\ IsCurrent(puts[w].report.etag, puts[w].client)
           /\ puts' = [puts EXCEPT ![w].step = "record"]
  <2> USE DEF IInv
  <2> DEFINE p == [puts[w] EXCEPT !.step = "record"]
             k == puts[w].report.cred
             r == creds[k].router
             e == puts[w].report.etag
  <2>1. puts[w] \in Request /\ k \in Creds /\ e \in ETag
        /\ puts[w].report \in Report
    BY RequestTyped DEF Tables, TypeOK
  <2>2. p \in Request /\ p.report = puts[w].report /\ p.client = puts[w].client
        /\ p.step = "record"
    BY <2>1 DEF Request
  <2>3. puts' = [puts EXCEPT ![w] = p]
    BY <1>3, <2>1
  <2>4. /\ creds[k].state # "new"
        /\ creds[k].state # "gone" =>
             puts[w].client = routers[r].client /\ e.router = r
    BY DEF Reports, Pending
  <2>5. creds[k].state # "gone" => About(e, r)
    <3>1. applied # 0 /\ Serves(applied, puts[w].client) /\ e.rev = applied
      BY <1>3 DEF IsCurrent
    <3>2. applied \in Revs
      BY <3>1, Bounds DEF Tables, TypeOK, Types, Revs
    <3>3. snaps[applied].life = "APPLIED"
      BY <3>1 DEF Revisions, Dated
    <3> QED  BY <2>4, <3>1, <3>2, <3>3 DEF About
  <2> HIDE DEF p
  <2>6. /\ creds[p.report.cred].state # "new"
        /\ creds[p.report.cred].state # "gone" =>
             /\ p.client = routers[creds[p.report.cred].router].client
             /\ p.report.etag.router = creds[p.report.cred].router
             /\ About(p.report.etag, creds[p.report.cred].router)
    BY <2>2, <2>4, <2>5
  <2>7. Quiet' /\ Fetched' /\ Pending' /\ puts' \in [Workers -> Request]
    BY <2>2, <2>3, <2>6, RequestMoves
  <2>8. Types'
    BY <1>3, <2>7 DEF Tables, TypeOK, Types, owners, revision
  <2>9. Tables' /\ Revisions'
    BY <2>8, ApiKeepsTables, StoredKeys
  <2>10. Confirmed'
    BY <1>3 DEF Reports, Confirmed, About, Serves, owners, revision
  <2> QED  BY <2>7, <2>9, <2>10 DEF Reports
<1> QED  BY <1>1, <1>2, <1>3

\* The transaction stores a result only under a key that has none, and only one
\* the router may well have sent (record_router_apply_result).
LEMMA InsertIInv ==
  ASSUME IInv, UNCHANGED <<phase, owners, creds, revision, held>>,
         phase = "running", NEW w \in Workers, puts[w].step = "record",
         Stored(puts[w].report) = {}, Insert(w)
  PROVE  IInv'
<1> USE DEF IInv
<1> DEFINE x == puts[w].report
<1>1. x \in Report /\ x.cred \in Creds /\ x.cred \in Rows(creds, Creds)
      /\ results' = results \cup {x} /\ told' = told \cup {x}
  BY RequestTyped DEF Tables, TypeOK, Insert
<1>2. About(x.etag, creds[x.cred].router)
  BY <1>1 DEF Reports, Pending, Rows
<1>3. \A y \in told : y.cred # x.cred \/ y.key # x.key
  <2>1. ASSUME NEW y \in told, y.cred = x.cred, y.key = x.key
        PROVE  FALSE
    <3>1. y \in results
      BY <1>1, <2>1 DEF Reports, Confirmed, Rows
    <3> QED  BY <2>1, <3>1 DEF Stored
  <2> QED  BY <2>1
<1>4. Quiet' /\ Fetched' /\ Pending' /\ puts' \in [Workers -> Request]
  <2>1. End(w)
    BY DEF Insert
  <2> QED  BY <2>1, NoRequestTyped, RequestMoves DEF End
<1> HIDE DEF x
<1>5. Types'
  BY <1>1, <1>4 DEF Tables, TypeOK, Types, owners, revision
<1>6. \A y \in results' :
        y.cred \in Rows(creds, Creds) /\ snaps[y.etag.rev].life # "none"
  BY <1>1, <1>2, StoredKeys DEF About
<1>7. Tables' /\ Revisions'
  BY <1>5, <1>6, ApiKeepsTables
<1>8. Confirmed'
  <2>1. \A y \in told' :
          /\ creds[y.cred].state # "new"
          /\ creds[y.cred].state # "gone" =>
               y \in results' /\ About(y.etag, creds[y.cred].router)
    BY <1>1, <1>2 DEF Reports, Confirmed, Rows
  <2>2. \A y, z \in told' : y.cred = z.cred /\ y.key = z.key => y = z
    BY <1>1, <1>3 DEF Reports, Confirmed
  <2>3. results' \subseteq told'
    BY <1>1 DEF Reports, Confirmed
  <2>4. \A e, r : About(e, r)' <=> About(e, r)
    BY DEF About, Serves, owners, revision
  <2> QED  BY <2>1, <2>2, <2>3, <2>4 DEF Confirmed
<1> QED  BY <1>4, <1>7, <1>8 DEF Reports

\* The transaction that records inserts, answers or gives up
\* (record_router_apply_result).
LEMMA RecordResultIInv ==
  ASSUME IInv, NEW w \in Workers, RecordResult(w)
  PROVE  IInv'
<1> USE DEF RecordResult, Running
<1>1. CASE Stored(puts[w].report) = {} /\ Insert(w)
  BY <1>1, InsertIInv
<1>2. CASE Answer(w) /\ UNCHANGED results
  BY <1>2, AnswerIInv DEF Answer
<1>3. CASE End(w) /\ UNCHANGED reports
  BY <1>3, AnswerIInv DEF reports
<1> QED  BY <1>1, <1>2, <1>3

-----------------------------------------------------------------------------
(***************************************************************************)
(* The theorems.                                                           *)
(***************************************************************************)
\* A step that leaves every variable alone keeps the invariant.
LEMMA StutterIInv ==
  ASSUME IInv, UNCHANGED vars
  PROVE  IInv'
<1> USE DEF IInv, vars, owners, reports, revision
<1>1. Tables'
  BY DEF Tables, TypeOK, Types, ForeignKeys, Rows, Addressed, Apart
<1>2. Revisions'
  BY DEF Revisions, Dated, Reserved, RevisionTells, Captured
<1>3. Reports'
  BY DEF Reports, Quiet, Confirmed, Fetched, Pending, About, Serves
<1> QED  BY <1>1, <1>2, <1>3

\* Every step keeps the invariant.
LEMMA NextIInv == IInv /\ [Next]_vars => IInv'
<1> SUFFICES ASSUME IInv, [Next]_vars PROVE IInv'
  OBVIOUS
<1>1. CASE UNCHANGED vars
  BY <1>1, StutterIInv
<1>2. CASE Migrate \/ Startup
  BY <1>2, MigrateIInv, StartupIInv
<1>3. CASE \E c \in Ids : CreateClient(c) \/ DeleteClient(c)
             \/ \E s \in {"enabled", "disabled"} : SetClientEnabled(c, s)
  BY <1>3, CreateClientIInv, DeleteClientIInv, SetClientEnabledIInv
<1>4. CASE \E r \in Routers : DeleteRouter(r)
             \/ \E s \in {"enabled", "disabled"} : SetRouterEnabled(r, s)
  BY <1>4, DeleteRouterIInv, SetRouterEnabledIInv
<1>5. CASE \E k \in Creds, r \in Routers, may \in ScopeSets :
             IssueCredential(k, r, may)
             \/ \E c \in Ids : IssueForNewRouter(k, r, c, may)
  BY <1>5, IssueCredentialIInv, IssueForNewRouterIInv
<1>6. CASE \E k \in Creds : Bar(k)
  BY <1>6, BarIInv
<1>7. CASE PrepareInstall \/ CompleteInstall \/ FailInstall
  BY <1>7, PrepareInstallIInv, CompleteInstallIInv, FailInstallIInv
<1>8. CASE \E k \in Creds, kind \in Kinds : GetSnapshot(k, kind)
  BY <1>8, GetSnapshotIInv
<1>9. CASE \E w \in Workers, k \in Creds, key \in Keys, o \in Outcomes :
             Receive(w, k, key, o)
  BY <1>9, ReceiveIInv
<1>10. CASE \E w \in Workers : Examine(w) \/ RecordResult(w)
  BY <1>10, ExamineIInv, RecordResultIInv
<1> QED  BY <1>1, <1>2, <1>3, <1>4, <1>5, <1>6, <1>7, <1>8, <1>9, <1>10 DEF Next

\* Every reachable state of the panel satisfies the inductive invariant.
THEOREM SiteInductive == Spec => []IInv
<1>1. Init => IInv
  BY InitIInv
<1>2. IInv /\ [Next]_vars => IInv'
  BY NextIInv
<1> QED  BY <1>1, <1>2, PTL DEF Spec

\* The tables keep their types and foreign keys, through the migration, every
\* edit, cascade and purge (migrations.py, db.py, router_credentials.py).
THEOREM SiteTyped == Spec => []TypeOK
<1>1. IInv => TypeOK
  BY DEF IInv, Tables
<1> QED  BY <1>1, SiteInductive, PTL

\* No address has two owners, not in the tables, not in a snapshot, and not one
\* in the tables and another on the VPN server (_allocate_amnezia_address,
\* purge_applied_deleted_clients).
THEOREM SiteAddressesApart == Spec => []AddressesApart
<1>1. IInv => AddressesApart
  <2> SUFFICES ASSUME IInv, applied # 0, NEW x \in snaps[applied].body.clients
               PROVE  /\ \A c \in Ids \ {x[1]} : clients[c].addr # x[2]
                      /\ \A r \in Routers : routers[r].addr # x[2]
    BY DEF IInv, Tables, Revisions, AddressesApart
  <2>1. applied \in Revs /\ applied >= applied /\ snaps[applied].life # "none"
    BY Bounds DEF IInv, Tables, TypeOK, Types, Revs, Revisions, Dated
  <2>2. clients[x[1]].addr = x[2]
    BY <2>1 DEF IInv, Revisions, Reserved
  <2>3. x[1] \in Ids /\ x[2] # 0
    BY <2>1 DEF IInv, Tables, TypeOK, Types, Snapshot, Body, Pool
  <2> QED  BY <2>2, <2>3 DEF IInv, Tables, Apart
<1> QED  BY <1>1, SiteInductive, PTL

\* A revision with a snapshot still says what the tables say as long as it is the
\* desired one: _ensure_snapshot never finds other content under its number.
THEOREM SiteRevisionTells == Spec => []RevisionTells
<1>1. IInv => RevisionTells
  BY DEF IInv, Revisions
<1> QED  BY <1>1, SiteInductive, PTL

\* A key of a credential has one result for ever, and it is about a revision that
\* was applied with the client in it (record_router_apply_result).
THEOREM SiteOneResultPerKey == Spec => []OneResultPerKey
<1>1. IInv => OneResultPerKey
  BY DEF IInv, Reports, Confirmed, OneResultPerKey, About, Rows
<1> QED  BY <1>1, SiteInductive, PTL
=============================================================================
