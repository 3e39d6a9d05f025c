------------------------------ MODULE RouterSite ------------------------------
(***************************************************************************)
(* The panel's side of the routers: clients, routers, their AmneziaWG      *)
(* addresses and credentials (app/db.py, app/router_credentials.py), the   *)
(* revisions and snapshots these tables feed (app/vpn_config.py,           *)
(* app/vpn_state.py), and the router API that hands out the applied        *)
(* snapshot and takes the apply results (app/router_api.py,                *)
(* app/router_apply_results.py).  A transaction is one action; a report is *)
(* taken in three steps, between which everything else may happen.          *)
(*                                                                         *)
(* A row that does not exist yet is "new", one that has been deleted is    *)
(* "gone": ids are never used again.                                       *)
(***************************************************************************)
EXTENDS Naturals, FiniteSets

CONSTANTS
  MaxClients, MaxRouters, MaxCreds, \* bounds: rows ever inserted
  MaxOld,      \* bound: clients in the database that is migrated
  LastAddr,    \* the last address of the network; the server has 1
  Keys,        \* idempotency keys
  Outcomes,    \* what an apply result may say
  Kinds,       \* of bundles a router may fetch, "single" and "dual"
  ScopeSets,   \* what a credential may be issued for
  Workers,     \* requests that may be under way
  MaxRev,      \* bound: revisions
  MaxApplies   \* bound: installations of one revision

ASSUME SiteAssumption ==
  /\ MaxClients \in Nat \ {0} /\ MaxRouters \in Nat \ {0}
  /\ MaxCreds \in Nat \ {0} /\ MaxRev \in Nat \ {0} /\ MaxApplies \in Nat \ {0}
  /\ MaxOld \in 0 .. MaxClients /\ LastAddr \in Nat /\ LastAddr > MaxOld
  /\ Keys # {} /\ Outcomes # {} /\ Kinds # {}
  /\ ScopeSets \subseteq SUBSET {"read", "report"}

VARIABLES
  phase,    \* of the process: "old" database, "migrated", "running"
  clients, routers, creds, results, \* tables
  desired, applied,                 \* vpn_state; nothing is applied at 0
  snaps,    \* vpn_snapshots
  install,  \* the revision that is being installed, 0 if none
  held,     \* by each router: the ETag of the bundle it fetched last
  puts,     \* the reports under way
  told      \* the apply results the panel has confirmed

owners   == <<clients, routers>>
reports  == <<results, told>>
revision == <<desired, applied, snaps, install>>
vars == <<phase, owners, creds, reports, revision, held, puts>>

Ids     == 1 .. MaxClients
Routers == 1 .. MaxRouters
Creds   == 1 .. MaxCreds
Revs    == 1 .. MaxRev
Pool    == 2 .. LastAddr

-----------------------------------------------------------------------------
(***************************************************************************)
(* Tables.                                                                 *)
(***************************************************************************)
Client == [state : {"new", "enabled", "disabled", "deleted", "gone"},
           until : 0 .. MaxRev, \* deleted_revision
           addr  : {0} \cup Pool]

\* A router and its peer; addr is 0 while it has no peer.
Router == [state : {"new", "enabled", "disabled", "gone"},
           client : {0} \cup Ids, addr : {0} \cup Pool]

\* Before there were routers, a credential belonged to a client only.
Credential == [state  : {"new", "enabled", "barred", "gone"},
               client : {0} \cup Ids, router : {0} \cup Routers,
               may    : SUBSET {"read", "report"}]

\* What a revision means to routers; the rest of it only moves the revision.
Body == [clients : SUBSET (Ids \X Pool),
         peers   : SUBSET (Routers \X Ids \X Pool)]
Snapshot == [life : {"none", "PREPARED", "APPLIED", "FAILED"},
             body : Body, at : 0 .. MaxApplies]

\* The ETag is a digest of the snapshot, of when it was applied, of the router
\* and of the kind of bundle.
ETag == [rev : 0 .. MaxRev, at : 0 .. MaxApplies, kind : Kinds,
         router : Routers]
Nothing(r) ==
  [rev |-> 0, at |-> 0, kind |-> CHOOSE k \in Kinds : TRUE, router |-> r]

Report == [cred : Creds, key : Keys, etag : ETag, outcome : Outcomes]

Request == [step : {"idle", "examine", "record"}, client : {0} \cup Ids,
            report : Report]
NoRequest == [step |-> "idle", client |-> 0,
              report |-> [cred |-> 1, key |-> CHOOSE x \in Keys : TRUE,
                          etag |-> Nothing(1),
                          outcome |-> CHOOSE o \in Outcomes : TRUE]]

Rows(table, ids) == {i \in ids : table[i].state \notin {"new", "gone"}}
LiveClients == {c \in Rows(clients, Ids) : clients[c].state # "deleted"}
Fresh(table, ids, i) ==
  table[i].state = "new" /\ \A j \in ids : j < i => table[j].state # "new"

Types ==
  /\ phase \in {"old", "migrated", "running"}
  /\ clients \in [Ids -> Client] /\ routers \in [Routers -> Router]
  /\ creds \in [Creds -> Credential] /\ results \subseteq Report
  /\ desired \in Revs /\ applied \in 0 .. MaxRev
  /\ snaps \in [Revs -> Snapshot] /\ install \in 0 .. MaxRev
  /\ held \in [Routers -> ETag] /\ told \subseteq Report
  /\ puts \in [Workers -> Request]

ForeignKeys ==
  /\ \A r \in Rows(routers, Routers) :
       routers[r].client \in Rows(clients, Ids)
  /\ \A k \in Rows(creds, Creds) :
       /\ creds[k].client \in Rows(clients, Ids)
       /\ phase # "old" =>
            /\ creds[k].router \in Rows(routers, Routers)
            /\ routers[creds[k].router].client = creds[k].client
  /\ \A x \in results :
       x.cred \in Rows(creds, Creds) /\ snaps[x.etag.rev].life # "none"

\* Every variable has its type, and a row refers to rows that exist, whatever
\* is deleted, purged or migrated (the foreign keys of migrations.py).
TypeOK == Types /\ ForeignKeys

-----------------------------------------------------------------------------
(***************************************************************************)
(* Addresses.                                                              *)
(***************************************************************************)
Used(cs, rs) == {cs[c].addr : c \in Ids} \cup {rs[r].addr : r \in Routers}

\* The lowest address that is free, 0 if the pool is exhausted.
Allocated(cs, rs) ==
  LET free == Pool \ Used(cs, rs)
  IN  IF free = {} THEN 0 ELSE CHOOSE a \in free : \A b \in free : a <= b

\* Clients of old had the address that goes with their id.
LegacyOrFree(cs, rs, c) ==
  IF c + 1 \in Pool \ Used(cs, rs) THEN c + 1 ELSE Allocated(cs, rs)

-----------------------------------------------------------------------------
(***************************************************************************)
(* Revisions.                                                              *)
(***************************************************************************)
\* What a snapshot taken now would say.
Captured ==
  [clients |-> {<<c, clients[c].addr>> :
                 c \in {i \in Ids : clients[i].state = "enabled"}},
   peers   |-> {<<r, routers[r].client, routers[r].addr>> :
                 r \in {i \in Routers :
                          /\ routers[i].state = "enabled"
                          /\ routers[i].addr # 0
                          /\ clients[routers[i].client].state = "enabled"}}]

NoBody == [clients |-> {}, peers |-> {}]

\* _mark_vpn_config_updated.
MarkUpdated ==
  /\ desired < MaxRev /\ desired' = desired + 1
  /\ UNCHANGED <<applied, snaps, install>>

\* Slip: foreign keys are not enforced.
DropRoutersOnly(gone) ==
  /\ routers' = [r \in Routers |->
       IF r \in gone THEN [routers[r] EXCEPT !.state = "gone", !.addr = 0]
       ELSE routers[r]]
  /\ UNCHANGED <<creds, results>>

\* ON DELETE CASCADE: the peer, the credentials and their results go too.
DropRouters(gone) ==
  /\ routers' = [r \in Routers |->
       IF r \in gone THEN [routers[r] EXCEPT !.state = "gone", !.addr = 0]
       ELSE routers[r]]
  /\ creds' = [k \in Creds |->
       IF creds[k].router \in gone THEN [creds[k] EXCEPT !.state = "gone"]
       ELSE creds[k]]
  /\ results' = {x \in results : creds[x.cred].router \notin gone}

\* Slip: a deleted client is purged whatever has been applied.
PurgeableSoon(rev) == {c \in Ids : clients[c].state = "deleted"}

\* The clients whose deletion has reached the server.
Purgeable(rev) ==
  {c \in Ids : clients[c].state = "deleted" /\ clients[c].until <= rev}

Purge(rev) ==
  LET gone == Purgeable(rev)
  IN  /\ clients' = [c \in Ids |->
           IF c \in gone THEN [state |-> "gone", until |-> 0, addr |-> 0]
           ELSE clients[c]]
      /\ DropRouters({r \in Rows(routers, Routers) : routers[r].client \in gone})

-----------------------------------------------------------------------------
(***************************************************************************)
(* An old database is migrated and completed when the panel starts.        *)
(***************************************************************************)
NewClient == [state |-> "new", until |-> 0, addr |-> 0]
NewRouter == [state |-> "new", client |-> 0, addr |-> 0]
NewCred   == [state |-> "new", client |-> 0, router |-> 0, may |-> {}]

\* A new panel, or one from before there were routers: some of its clients have
\* the address that went with their id, some have none.
Init ==
  /\ phase = "old"
  /\ \E old \in 0 .. MaxOld, bare \in SUBSET Ids :
       clients = [c \in Ids |->
         IF c > old THEN NewClient
         ELSE [state |-> "enabled", until |-> 0,
               addr  |-> IF c \in bare THEN 0 ELSE c + 1]]
  /\ routers = [r \in Routers |-> NewRouter]
  /\ \E n \in 0 .. MaxCreds :
       /\ creds \in [Creds -> {NewCred} \cup
            [state : {"enabled"}, client : Rows(clients, Ids), router : {0},
             may : {{"read", "report"}}]]
       /\ \A k \in Creds : creds[k].state = "new" <=> k > n
  /\ desired = 1 /\ applied = 0 /\ install = 0
  /\ snaps = [v \in Revs |-> [life |-> "none", body |-> NoBody, at |-> 0]]
  /\ held = [r \in Routers |-> Nothing(r)]
  /\ results = {} /\ told = {}
  /\ puts = [w \in Workers |-> NoRequest]

\* Every old credential becomes a router of its own; router ids are random.
\* The clients get new secrets, and so the revision moves.
Migrate ==
  LET old == Rows(creds, Creds)
  IN  /\ phase = "old" /\ phase' = "migrated"
      /\ \E of \in [old -> Routers] :
           /\ \A j, k \in old : of[j] = of[k] => j = k
           /\ \A r \in Routers :
                (\E k \in old : of[k] = r) <=> r <= Cardinality(old)
           /\ creds' = [k \in Creds |->
                IF k \in old THEN [creds[k] EXCEPT !.router = of[k]] ELSE creds[k]]
           /\ routers' = [r \in Routers |->
                IF \E k \in old : of[k] = r
                THEN [state |-> "enabled", addr |-> 0,
                      client |-> creds[CHOOSE k \in old : of[k] = r].client]
                ELSE NewRouter]
      /\ MarkUpdated
      /\ UNCHANGED <<clients, reports, held, puts>>

\* The address of one row, if the tables have come to be cs and rs.
GiveClient(cs, c) ==
  IF c \in Rows(cs, Ids) /\ cs[c].addr = 0
  THEN LegacyOrFree(cs, routers, c) ELSE cs[c].addr

GiveRouter(cs, rs, r) ==
  IF r \in Rows(rs, Routers) /\ rs[r].addr = 0
  THEN Allocated(cs, rs) ELSE rs[r].addr

\* A table whose rows before the n-th have got their addresses.
Given(table, ids, addr, n) ==
  [i \in ids |-> IF i < n THEN [table[i] EXCEPT !.addr = addr[i]] ELSE table[i]]

\* init_db: one row after the other gets the address it lacks.  If the pool is
\* exhausted, all of it is rolled back and the panel does not start.
Startup ==
  \E ca \in [Ids -> {0} \cup Pool], ra \in [Routers -> {0} \cup Pool] :
    /\ phase = "migrated" /\ phase' = "running"
    /\ clients' = Given(clients, Ids, ca, MaxClients + 1)
    /\ routers' = Given(routers, Routers, ra, MaxRouters + 1)
    /\ \A c \in Ids : ca[c] = GiveClient(Given(clients, Ids, ca, c), c)
    /\ \A r \in Routers :
         ra[r] = GiveRouter(clients', Given(routers, Routers, ra, r), r)
    /\ \A c \in Rows(clients, Ids) : ca[c] # 0
    /\ \A r \in Rows(routers, Routers) : ra[r] # 0
    /\ IF owners' # owners THEN MarkUpdated ELSE UNCHANGED revision
    /\ UNCHANGED <<creds, reports, held, puts>>

-----------------------------------------------------------------------------
(***************************************************************************)
(* The administrator: clients, routers, credentials.                       *)
(***************************************************************************)
Running == phase = "running" /\ UNCHANGED phase

CreateClient(c) ==
  /\ Running /\ Fresh(clients, Ids, c) /\ Allocated(clients, routers) # 0
  /\ clients' = [clients EXCEPT ![c] =
       [state |-> "enabled", until |-> 0, addr |-> Allocated(clients, routers)]]
  /\ MarkUpdated
  /\ UNCHANGED <<routers, creds, reports, held, puts>>

SetClientEnabled(c, s) ==
  /\ Running /\ c \in LiveClients /\ clients[c].state # s
  /\ clients' = [clients EXCEPT ![c].state = s] /\ MarkUpdated
  /\ UNCHANGED <<routers, creds, reports, held, puts>>

DeleteClient(c) ==
  /\ Running /\ c \in LiveClients /\ MarkUpdated
  /\ clients' = [clients EXCEPT ![c].state = "deleted", ![c].until = desired']
  /\ UNCHANGED <<routers, creds, reports, held, puts>>

SetRouterEnabled(r, s) ==
  /\ Running /\ r \in Rows(routers, Routers) /\ routers[r].state # s
  /\ routers' = [routers EXCEPT ![r].state = s] /\ MarkUpdated
  /\ UNCHANGED <<clients, creds, reports, held, puts>>

\* Slip: the router is thought to be disabled, and so out of the revision.
DeleteRouterQuietly(r) ==
  /\ Running /\ r \in Rows(routers, Routers) /\ UNCHANGED revision
  /\ DropRouters({r})
  /\ UNCHANGED <<clients, told, held, puts>>

DeleteRouter(r) ==
  /\ Running /\ r \in Rows(routers, Routers) /\ MarkUpdated
  /\ DropRouters({r})
  /\ UNCHANGED <<clients, told, held, puts>>

\* A credential for a router of its client, with the peer that goes with it.
IssueCredential(k, r, may) ==
  /\ Running /\ Fresh(creds, Creds, k)
  /\ r \in Rows(routers, Routers) /\ routers[r].client \in LiveClients
  /\ creds' = [creds EXCEPT ![k] = [state |-> "enabled", router |-> r,
                                    client |-> routers[r].client, may |-> may]]
  /\ UNCHANGED <<owners, reports, revision, held, puts>>

\* A client without a router gets one, with its peer and first credential.
IssueForNewRouter(k, r, c, may) ==
  /\ Running /\ Fresh(creds, Creds, k) /\ Fresh(routers, Routers, r)
  /\ c \in LiveClients
  /\ \A q \in Rows(routers, Routers) : routers[q].client # c
  /\ Allocated(clients, routers) # 0
  /\ routers' = [routers EXCEPT ![r] =
       [state |-> "enabled", client |-> c, addr |-> Allocated(clients, routers)]]
  /\ creds' = [creds EXCEPT ![k] = [state |-> "enabled", router |-> r,
                                    client |-> c, may |-> may]]
  /\ MarkUpdated
  /\ UNCHANGED <<clients, reports, held, puts>>

\* A credential is revoked or expires; neither is ever undone.
Bar(k) ==
  /\ Running /\ creds[k].state = "enabled"
  /\ creds' = [creds EXCEPT ![k].state = "barred"]
  /\ UNCHANGED <<owners, reports, revision, held, puts>>

-----------------------------------------------------------------------------
(***************************************************************************)
(* The installation of the desired revision on the VPN server.             *)
(***************************************************************************)
\* A revision that has a snapshot must not have changed since.
PrepareInstall ==
  /\ Running /\ install = 0 /\ install' = desired
  /\ IF snaps[desired].life = "none"
     THEN snaps' = [snaps EXCEPT ![desired] =
                      [life |-> "PREPARED", body |-> Captured, at |-> 0]]
     ELSE /\ snaps[desired].body = Captured
          /\ snaps' = [snaps EXCEPT ![desired].life =
                         IF @ = "APPLIED" THEN @ ELSE "PREPARED"]
  /\ UNCHANGED <<owners, creds, reports, desired, applied, held, puts>>

CompleteInstall ==
  /\ Running /\ install # 0 /\ install' = 0
  /\ snaps[install].at < MaxApplies
  /\ snaps' = [snaps EXCEPT ![install].life = "APPLIED", ![install].at = @ + 1]
  /\ applied' = IF applied < install THEN install ELSE applied
  /\ Purge(applied')
  /\ UNCHANGED <<desired, told, held, puts>>

FailInstall ==
  /\ Running /\ install # 0 /\ install' = 0
  /\ snaps' = [snaps EXCEPT ![install].life =
                 IF @ = "APPLIED" THEN @ ELSE "FAILED"]
  /\ UNCHANGED <<owners, creds, reports, desired, applied, held, puts>>

-----------------------------------------------------------------------------
(***************************************************************************)
(* The router API.                                                         *)
(***************************************************************************)
\* authenticate_router_credential, for the current token.
Authorized(k, scope) ==
  LET r == creds[k].router
  IN  /\ creds[k].state = "enabled"
      /\ clients[routers[r].client].state = "enabled"
      /\ routers[r].state = "enabled"
      /\ scope \in creds[k].may

\* _client_from_applied_snapshot.
Serves(v, c) == \E a \in Pool : <<c, a>> \in snaps[v].body.clients

\* What a router of client c gets, if the client is in the applied snapshot.
IsCurrent(tag, c) ==
  /\ applied # 0 /\ Serves(applied, c)
  /\ tag.rev = applied /\ tag.at = snaps[applied].at

\* A bundle that the router has already is not sent again (304).
GetSnapshot(k, kind) ==
  LET r   == creds[k].router
      tag == [rev |-> applied, at |-> snaps[applied].at, kind |-> kind,
              router |-> r]
  IN  /\ Running /\ k \in Rows(creds, Creds) /\ Authorized(k, "read")
      /\ applied # 0 /\ IsCurrent(tag, routers[r].client) /\ tag # held[r]
      /\ held' = [held EXCEPT ![r] = tag]
      /\ UNCHANGED <<owners, creds, reports, revision, puts>>

\* A router reports on the bundle it has, or once more on an earlier one.
Receive(w, k, key, o) ==
  LET r == creds[k].router
  IN  /\ Running /\ puts[w].step = "idle" /\ k \in Rows(creds, Creds)
      /\ Authorized(k, "report")
      /\ \E e \in {held[r]} \cup {x.etag : x \in {y \in told : y.cred = k}} :
           /\ e.rev # 0
           /\ puts' = [puts EXCEPT ![w] =
                [step |-> "examine", client |-> routers[r].client,
                 report |-> [cred |-> k, key |-> key, etag |-> e,
                             outcome |-> o]]]
      /\ UNCHANGED <<owners, creds, reports, revision, held>>

End(w) == puts' = [puts EXCEPT ![w] = NoRequest]

\* What the panel has under the key of a report.
Stored(x) == {y \in results : y.cred = x.cred /\ y.key = x.key}

\* The request ends: a report that is stored already is confirmed again,
\* another one under the same key is refused.
Answer(w) ==
  /\ End(w)
  /\ told' = told \cup (Stored(puts[w].report) \cap {puts[w].report})

\* find_router_apply_result_replay, and the check against the applied snapshot.
\* What happens between these two reads cannot be told from what happens before
\* or after them, because the transaction that records looks again.
Examine(w) ==
  /\ Running /\ puts[w].step = "examine"
  /\ \/ Stored(puts[w].report) # {} /\ Answer(w)
     \/ /\ Stored(puts[w].report) = {} /\ UNCHANGED told
        /\ \/ /\ IsCurrent(puts[w].report.etag, puts[w].client)
              /\ puts' = [puts EXCEPT ![w].step = "record"]
           \/ ~IsCurrent(puts[w].report.etag, puts[w].client) /\ End(w)
  /\ UNCHANGED <<owners, creds, results, revision, held>>

Insert(w) ==
  LET x == puts[w].report
  IN  /\ x.cred \in Rows(creds, Creds)
      /\ results' = results \cup {x} /\ told' = told \cup {x}
      /\ End(w)

\* Slip: what Examine saw a while ago is still so.
RecordUnchecked(w) ==
  LET x == puts[w].report
  IN  /\ Running /\ puts[w].step = "record"
      /\ IF x.etag.rev = applied /\ x.cred \in Rows(creds, Creds)
         THEN Insert(w) ELSE End(w) /\ UNCHANGED reports
      /\ UNCHANGED <<owners, creds, revision, held>>

\* The transaction looks again; the credential may have gone.
RecordResult(w) ==
  LET x == puts[w].report
  IN  /\ Running /\ puts[w].step = "record"
      /\ \/ x.etag.rev = applied /\ Stored(x) = {} /\ Insert(w)
         \/ x.etag.rev = applied /\ Stored(x) # {} /\ Answer(w)
              /\ UNCHANGED results
         \/ /\ x.etag.rev # applied \/ x.cred \notin Rows(creds, Creds)
            /\ End(w) /\ UNCHANGED reports
      /\ UNCHANGED <<owners, creds, revision, held>>

Next ==
  \/ Migrate \/ Startup
  \/ \E c \in Ids : CreateClient(c) \/ DeleteClient(c)
                    \/ \E s \in {"enabled", "disabled"} : SetClientEnabled(c, s)
  \/ \E r \in Routers : DeleteRouter(r)
                        \/ \E s \in {"enabled", "disabled"} : SetRouterEnabled(r, s)
  \/ \E k \in Creds, r \in Routers, may \in ScopeSets :
       IssueCredential(k, r, may) \/ \E c \in Ids : IssueForNewRouter(k, r, c, may)
  \/ \E k \in Creds : Bar(k)
  \/ PrepareInstall \/ CompleteInstall \/ FailInstall
  \/ \E k \in Creds, kind \in Kinds : GetSnapshot(k, kind)
  \/ \E w \in Workers, k \in Creds, key \in Keys, o \in Outcomes :
       Receive(w, k, key, o)
  \/ \E w \in Workers : Examine(w) \/ RecordResult(w)

Spec == Init /\ [][Next]_vars

-----------------------------------------------------------------------------
(***************************************************************************)
(* Properties.                                                             *)
(***************************************************************************)
Apart(cs, rs) ==
  /\ \A c, d \in Ids : c # d /\ cs[c].addr # 0 => cs[c].addr # cs[d].addr
  /\ \A r \in Routers : rs[r].addr # 0 =>
       /\ \A q \in Routers \ {r} : rs[q].addr # rs[r].addr
       /\ \A c \in Ids : cs[c].addr # rs[r].addr

ApartIn(body) ==
  /\ \A x, y \in body.clients : x # y => x[2] # y[2]
  /\ \A x, y \in body.peers : x # y => x[3] # y[3]
  /\ \A x \in body.clients, y \in body.peers : x[2] # y[3]

\* No address has two owners, among the rows or in a snapshot, and an address
\* that the VPN server serves to a client is given to nobody else before a
\* revision without that client is applied (_allocate_amnezia_address,
\* delete_client, purge_applied_deleted_clients).
AddressesApart ==
  /\ Apart(clients, routers)
  /\ \A v \in Revs : ApartIn(snaps[v].body)
  /\ applied # 0 => \A x \in snaps[applied].body.clients :
       /\ \A c \in Ids \ {x[1]} : clients[c].addr # x[2]
       /\ \A r \in Routers : routers[r].addr # x[2]

\* A revision says what the tables say as long as it is the desired one: no edit
\* of clients, routers or peers, no cascade and no purge changes what a snapshot
\* would say without moving the revision ("already has different immutable
\* content", _ensure_snapshot).
RevisionTells == snaps[desired].life # "none" => snaps[desired].body = Captured

\* Whatever requests race, retry, or outlive a revision: one key of a credential
\* has one confirmed result for ever, it is kept as long as the credential is,
\* and it is about a revision that was applied with the router's client in it
\* (record_router_apply_result, find_router_apply_result_replay).
OneResultPerKey ==
  /\ \A x, y \in told : x.cred = y.cred /\ x.key = y.key => x = y
  /\ \A x \in told : x.cred \in Rows(creds, Creds) =>
       /\ x \in results /\ x.etag.router = creds[x.cred].router
       /\ snaps[x.etag.rev].life = "APPLIED"
       /\ Serves(x.etag.rev, routers[creds[x.cred].router].client)
=============================================================================
