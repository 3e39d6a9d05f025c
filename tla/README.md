# AutoVPN in TLA+

AutoVPN is a self-hosted VPN control plane: a FastAPI panel with a SQLite
database (`app/`) that installs and maintains one VPN server over SSH, buys and
switches its addresses at a hosting provider, serves configurations to clients,
and publishes configuration snapshots to OpenWrt routers, which run a controller
written in ucode and shell (`openwrt/files/`) that applies those snapshots.

Four parts of it keep durable state while things fail around them, and they are
what this project models: the **router**, which must never be left without a
tunnel it can come back to; the **operations of the panel** on the VPN server and
at two hosting providers, which must never repeat a paid or disruptive action nor
lose track of what is installed; the **apply script** on the VPN server, which
serves one configuration as a whole; and the **router side of the panel**, where
addresses, revisions and reported results must stay unambiguous.

Contents: 1 inventory; 2 modules and how they correspond to the code; 3 the runs,
their bounds and what they show; 4 fairness; 5 what is proved; 6 what is not
modelled; 7 plan; 8 how to run.

## 1. Inventory

### The router

| component | state it keeps | operations | what makes it correct |
|---|---|---|---|
| journal: `state.uc`, `journal.uc` | `journal.json`: sequence, phase, desired, applied, last good, rejected, pending report, active profile | the transitions of `state.uc`; `load`, `save`, `validState` | what is written can always be read again; an attempt has one number |
| controller: `controller.uc`, `orchestration.uc` | its copy of the journal while a job runs | `refresh`, `recover`, `apply-policy`, `health-tick`, `stop` | only a verified snapshot is committed; an interrupted apply is rolled back; every result is reported, truthfully |
| VPN lane: `runtime-lane`, `runtime-helper.uc`, `runtime-adapter`, `probe-helper.uc` | `prepared.json`, `previous.json`, `current.json`, `candidate.json`, `run.json`, the service, the nft guard | prepare, activate, verify, rollback, restore, health-tick | clients are forwarded only to a known configuration; the applied bundle is always on flash |
| HTTP exchange: `http-adapter`, `http-helper.uc`, `http.uc` | none | conditional GET of the snapshot, PUT of an apply result | only the pending report of the journal is sent |
| locks and loop: `autovpnctl`, `loop`, init scripts | a lock file | dispatch of commands | one controller job at a time, and always another one |
| health hysteresis: `probes.uc`, `health.uc` | counters in tmpfs | probe bookkeeping | no flapping, no endless failure |
| guest network: `network_transaction.uc`, `network-helper.uc`, `network-watchdog` | transaction file, UCI | propose, confirm, roll back | an unconfirmed change is undone, across a reboot too |
| update and setup: `update-helper`, `setup-helper.uc`, `maintenance-helper.uc` | marker files, packages | install, restore | the controller and an update exclude each other |
| AmneziaWG interface, zapret, direct lane, Russian routing database, LuCI | kernel objects, data files | helpers called by the lane or by a person | succeed or fail as a whole |

The parts of the router meet in three places: the journal on flash, which the
runtime helper reads again on *every* call while the controller works on a copy
in memory; the bundles on flash, which the lane replaces one after the other;
and the lock, which makes the commands of the controller follow one another but
not survive a power loss. With the site the router shares the ETag of the
snapshot and the idempotency key of a report.

### The control plane

| component | state it keeps | operations | what makes it correct |
|---|---|---|---|
| operation coordinator: `operation_coordinator.py` | the lease of the VPN server | acquire, heartbeat, release, recover at start | one operation at a time; an interrupted one is failed only if nothing left the panel |
| revisions: `vpn_state.py`, `vpn_config.py` | desired and applied revision, immutable snapshots with a lifecycle | prepare, complete, fail, mark ambiguous, publish | one content per revision; applied means applied |
| clients and settings: `db.py` | clients with soft deletion, settings | create, enable, disable, delete, purge, set | every change of the content moves the revision |
| install worker: `eu_install.py` | none but its operation | run the deploy script over SSH with heartbeats | a lost script is not a failed one |
| remote script: `remote_apply.py` | files, services, backups and markers on the VPN server | bootstrap, validate, back up, switch, check, roll back | one configuration is served as a whole; the markers tell what is |
| Aeza rotation: `ip_change.py`, `aeza.py` | purchase, main, apply and action states of its operation | buy, make main, apply, check, publish, clean up, roll back | nothing paid twice; main and published address agree |
| Sprintbox rotation and review: `sprintbox_rotation.py`, `sprintbox_review.py` | the same states, the boxes it keeps and what became of each | create box, wait, decide, retry, publish, review, clean up | no box that is paid for is forgotten; the active box is never deleted |
| reboot and status: `server_operations.py` | action state of its operation | send once, verify | a sent reboot is never sent again |
| router API: `router_api.py`, `router_apply_results.py` | apply results by idempotency key | GET snapshot, PUT result | replays are harmless, conflicts refused; one key, one result |
| routers and credentials: `router_credentials.py` | routers with a peer, credentials with scopes | issue, revoke, disable, delete with its cascade | a result outlives everything but its credential |
| AmneziaWG addresses: `db.py` | one address per client and router | allocate, complete old rows, release | no address has two owners, deleted clients the server still serves included |
| migrations: `migrations.py` | the schema | one transaction each at start | an old database becomes one this code can be in |
| subscriptions, statistics, sessions, installers | their tables or none | request and response | section 6 |

Workers are background tasks of one asyncio process; they and the request
handlers share nothing but SQLite, one `BEGIN IMMEDIATE` transaction at a time.
They act on the VPN server by SSH, in threads that cannot be cancelled, and on
the provider by HTTP requests whose answers can be lost.

### What is hard

* Router: power loss and kills between any two durable writes; a write that fails
  while the controller goes on in memory; two copies of the journal; a failover
  while a report is unsent; a report that can no longer be accepted; phases no
  command takes over.
* Server: a crash between a durable mark and the answer to the request it
  announces; a script that runs on after its operation is over; a lease that
  expires under a live worker; edits between the steps of a rotation; exceptions
  after the point of no return.
* Boxes: a creation whose answer is lost; a decision taken long after the state it
  was offered for; a deletion that is asked for, accepted and not seen.
* Apply script: a kill between two files; a rollback whose own command fails; what
  one apply leaves behind for the next.
* Router side of the panel: a report that is under way while the revision, the
  client or the credential it is about goes; an address released too early.

`PROJECT.json` lists these under `hazards`, each at its line.

## 2. Modules

| module | models | uses |
|---|---|---|
| `RouterJournal` | `state.uc`, `journal.uc` as operators on a journal | |
| `RouterUpdate` | controller, orchestration, VPN lane, HTTP exchange, one router's view of the site | extends `RouterJournal` |
| `RouterPromise` | abstract: what the router promises its clients | implemented by `RouterUpdate` |
| `RouterProofs` | theorems: the journal, the job and the bundles on flash | extends `RouterUpdate` and TLAPS |
| `RouterPromiseProofs` | theorems: the lane, the order of attempts, the refinement of `RouterPromise` | extends `RouterProofs` |
| `RouterReportProofs` | theorems: the journal stays readable, the reports, one policy per attempt | extends `RouterPromiseProofs` |
| `VpsDatabase` | coordinator, revisions and clients as operators on a database | |
| `VpsOperations` | the workers of installs, Aeza rotations, reboots and status checks; administrators, restarts, the provider and the remote scripts | extends `VpsDatabase` |
| `VpsProofs` | theorems: revisions, snapshots, clients and reboots | extends `VpsOperations` and TLAPS |
| `VpsCalmProofs` | theorems: leases, rotations and addresses; what the VPN server serves | extends `VpsProofs` |
| `SprintboxRotation` | the worker of a rotation on boxes, the decisions, the clean-up | extends `VpsDatabase` |
| `SprintboxProofs` | theorems about `SprintboxRotation` | extends it and TLAPS |
| `RemotePromise` | abstract: what a transactional apply promises of the server | implemented by `RemoteApply` |
| `RemoteApply` | the script `remote_apply.py` renders, run again and again on one server | |
| `RemoteProofs` | theorems about `RemoteApply`, the refinement of `RemotePromise` among them | extends it and TLAPS |
| `RouterSite` | clients, routers, addresses, credentials, revisions and the router API | |
| `RouterSiteProofs` | theorems about `RouterSite` | extends it and TLAPS |
| `MCRouterUpdate`, `MCVpsOperations`, `MCSprintboxRotation`, `MCRemoteApply`, `MCRouterSite` | instances for TLC | extend the modules they are named after |

Definitions headed "Slip:" are plausible mistakes, kept next to what they would
replace; nothing of the specifications uses them.

### `RouterUpdate`

`disk` is `journal.json`; `prev`, `cur` and `run` are `previous.json`,
`current.json` and `run.json`; `svc` and `grd` the service and the guard; `mem`
the controller's copy of the journal; `cand` and `prep` the candidate and the
prepared bundle, rewritten by every job that reads them. A snapshot is its ETag;
a bundle is the ETag, the attempt, the local policy and the profile it was
rendered from, so that "matches" and `cmp -s` are comparisons of those.

A job is a sequence of steps named by `pc`. The steps follow the code:

| steps | code |
|---|---|
| `applyFailed`, `rollback`, `failClosed`, `rolledBack...` | `orchestration.uc` `rollbackDesired`, `runtime-lane` rollback |
| `restore`, `report`, `reportAccepted`, `fetch`, `save` | `controller.uc` `refresh`, `reportPending` |
| `force` | `controller.uc` `applyPolicy` |
| `begin` ... `commit` | `orchestration.uc` `applyDesired`; `savePrevious`, `saveCurrent` are the two writes of activate |
| `close`, `writeRun`, `startService`, `confirm`, `commitProfile`, `probe`, `open` | `runtime-lane` `start`, `probe`, and the failover inside `monitor` |
| `tick`, `monitor`, `tickFailed`, `tickSave`, `tickLost` | `runtime-lane` health-tick and the controller's update of the journal |

`AfterAction` and `ActionFailed` say where the controller continues when the lane
action in progress ends. Faults are of six kinds: a failed journal write
(`write`), a failed runtime action (`runtime`), a failed probe (`probe`), a lost
request or answer (`net`), a killed job (`crash`) and a power loss (`power`). A
step that must fail in a state (`Breaks`) costs no fault.

Abstractions: an atomic replace is one write, and reordering by a flash without
`fsync` is not modelled; the selected transport is "auto"; the field-by-field
validation of a snapshot is the set `Malformed`; capabilities, error codes and
diagnostics are left out, as no condition reads them; the hysteresis counters
are a probe that fails or does not; there is one router and one lane.

### `VpsDatabase` and `VpsOperations`

`VpsDatabase` has one operator per transaction, from a database to a database.
The three operation tables are one function from identifiers to operations; a
snapshot's content is the clients it lets in, the address it publishes and the
environment of the process that captured it; every other setting only moves the
revision. The environment stands for every value that `vpn_config.py` takes from
`config.py` because no setting is saved: it changes with a restart of the panel
(`ChangeEnvironment`) and moves no revision, which is how `_ensure_snapshot` comes
to refuse one. `published` is history: the address of the last publication, from
which an edit of `current_ip` in the settings (`ChangeAddress`) may depart.
Revision 0 stands for "unknown"; a panel with a client has a desired revision of
at least 1.

In `VpsOperations` each operation has a worker whose `pc` names its next
transaction, provider request or script:

| steps | code |
|---|---|
| `install` ... `install_unclear` | `eu_install.py` `run_eu_install`, `_run_deploy_with_heartbeat`; `vpn_state.py` complete, fail, mark ambiguous |
| `get_ipv4_list` ... `finish_unclear` | `ip_change.py` `run_ip_change` from the list of addresses to the final update; `..._mark` is the durable mark before a request, `...ed` and `..._lost` what is recorded after it |
| `undo` ... `give_up` | its exception handler and `_rollback_old_main` |
| `reboot` ... `reboot_fail` | `server_operations.py` `run_server_reboot` |
| `status`, `status_end`, `status_fail` | `run_server_status`, `run_protocol_refresh` |
| `rotation_dead`, `reboot_dead`, `status_dead` | a worker whose first read raised before its `try`; `main.py` `_run_..._background` drops the exception |

`script`, `vps`, `owned`, `main` and `sent` are outside the panel: remote scripts
and the revision they leave on the server, the provider's addresses and which one
is main, and the reboots that went out. A provider request is answered, or its
answer is lost with or without the effect. A script that is running ends whatever
its worker does. Faults: `net`; `db`, a transaction that raises; `dbFirst`, a read
that raises before the worker's `try`, so that nothing is written and the lease
stays; `dbLate`, a transaction that raises after a publication; `dbEnd`, one that
raises inside an exception handler, so that the worker dies with its lease; `crash`, a restart of the
process; `expire`, a lease nobody renewed for its time. Deadlines need no fault.

Abstractions: the transactional apply is on (a rotation requires it); the Aeza
account is configured and answers a purchase with an identifier; a request whose
answer is lost takes effect at once or never; a worker is started once, on the
operation just created, so the branches of `run_ip_change` and
`run_server_reboot` for an operation found already started are not reached;
what an administrator does in the provider's panel before a reconciliation is
one step that makes the address published last the main one.

### `SprintboxRotation`

Where Aeza gives the server another address, Sprintbox gives the panel another
server. `db` is `VpsDatabase`'s database, with the lease, the revisions and the
publication; `row` is what it says of each rotation beyond that: the box and the
account it was prepared for, the box it bought, the revision it published, the
boxes it keeps and the verdict on each. `config` holds the active box and the
account, `boxes`, `doomed` and `asked` are the provider's side. A box is named by
its address, and operation `i` buys the next one.

| steps | code |
|---|---|
| `start` ... `confirm` | `sprintbox_rotation.py` `run_sprintbox_rotation` up to the bought box |
| `provision` ... `published` | `_provision_box`, the installation, and the publication |
| `resume`, `recheck` | `_resume_ssh_wait` |
| `clean` ... `clean_unclear` | `run_sprintbox_cleanup` |
| `RetryReview`, `RetrySsh`, `WaitLonger`, `Accept`, `CancelSsh`, `Reconcile` | `sprintbox_review.py`, `vpn_state.py`: the decisions of a person |

Faults: `net`, a lost request or answer; `db`, a transaction that raises, also one
that a worker runs before its `try`, which leaves the operation without a worker
(`Dies`); `crash`, a restart. Abstractions: leases do not expire, since each lasts
an hour and every wait renews it; the inventory pages, the reboot of a box, the
HTTP client and the SSH key are left out.

### `RemoteApply` and `RemotePromise`

`live` says which apply wrote each file, `on` and `up` which services are enabled
and what the running ones have loaded; `backup` is the last apply's backup and
`marks` what the backup directories say. `pc` names the part of the script (as
`bootstrap`, `validate`, `backup`, `files`, `services`, `check`, `mark`, and
`restore`, `revive`, `mark_rollback` of the ERR trap) and `at` the file or service
next in it; every durable write is one step. A certificate and its key are reused
when the certificate is for the wanted server name, as in the script; a service
refuses a missing file, and hysteria a key of another certificate. What systemd and
awg-quick do is outside the repository and assumed: `awg-quick up` fails when the
interface exists or its configuration is missing, `awg-quick down` fails without
the configuration and then leaves the interface up, and systemd counts the unit as
inactive either way. `stray` says that AmneziaWG runs in this way behind systemd's
back: the script removes `awg0.conf` before it stops the unit, so switching
AmneziaWG off always leads there, and a restart of the server away from it. Faults: a
failing command (`step`), a kill of the script or of the server (`kill`), a
failing command of the rollback (`restore`), which `set +e` passes over.

`RemotePromise` says it in three variables: how many applies were asked for, whose
configuration is served, and how the last one ended. Abstractions: the content of
a file is the apply that wrote it; the server name is compared as a whole (the
script looks for it inside the subject); pruning of backups beyond ten, the
firewall (best effort) and two scripts at once are left out. In `VpsOperations`
the whole script is the one step `ScriptEnds`.

### `RouterSite`

Tables are functions from row numbers to rows; a row is "new" before it is
inserted and "gone" afterwards, as identifiers are never used again. `snaps` says
what each revision means to routers: the clients with their addresses, and the
peers. An ETag is the revision, how often it has been applied (for the time it was
applied at), the kind of bundle and the router. `held` is what each router fetched
last, `puts` the reports under way, `told` the results the panel has confirmed.

A transaction is one action; `GetSnapshot` merges the authorization and the load,
between which nothing that matters can change. A report takes three: `Receive`
authorizes it, `Examine` looks for a stored result and compares the ETag with the
applied revision, `RecordResult` looks again and stores. One uvicorn process serves
these requests one after the other today; the transaction is written for several
(`BEGIN IMMEDIATE`, a unique key, a second look), and the model lets them
interleave freely, which covers both. Installations are `PrepareInstall`,
`CompleteInstall` and `FailInstall`; the operations around them are
`VpsOperations`'. Left out: the rotation of a credential's secret, the check of
`current_ip` and of the body of a report, the content of a bundle beyond its ETag.

## 3. The runs

Every passing run also has, per property, a mutant listed in `PROJECT.json`: a
definition replaced by its "Slip", which the property must refute.

| run | question | bounds |
|---|---|---|
| `RouterSafety` | is the journal readable, the applied bundle available, the forwarded configuration known, are reports truthful and delivered, does the router implement `RouterPromise`? | 2 snapshots, 2 profiles (one AmneziaWG), 3 faults of any kind, 1 edit |
| `RouterEdits` | with a policy and publications that change under a transaction, does an attempt keep one policy, and are commits verified and forward only? | 3 snapshots (same-revision, malformed), 2 policies, 3 edits, 1 fault |
| `RouterLiveness` | but for the stories the violating runs tell, do transactions end, does service return, does a publication take effect? | 2 snapshots, 1 profile, 2 publications or policy commands, 2 faults of any kind |
| `VpsInstall` | is the applied revision sound and monotonic, a reboot remembered, a served client kept, even when a lease is lost? | 3 operations, 2 clients, 1 edit, 1 fault of any kind |
| `VpsRotation` | do rotations exclude each other, publish what they verified, keep main and published address together, and end unless the worker dies first? | 2 operations, 1 client, 1 edit (a client, a setting, the address, or the environment), 2 faults of `net`, `db`, `dbFirst`, `crash` |
| `SprintboxBoxes` | is every box that was bought on record or held, is at most one purchase open, does a clean-up spare the active box and tell the truth? | 2 operations, a box or none at first, 2 accounts (symmetric), 2 edits, 2 faults of any kind |
| `RemoteApply` | but for an AmneziaWG interface left up, does the script implement `RemotePromise`, do its markers tell the truth, does it fail only for a reason? | 3 applies of any of 6 configurations, 2 faults of any kind |
| `RouterSite` | do addresses stay apart, does a revision keep its content, has a key one result? | 2 clients (one of old), 2 routers, 2 credentials, 3 addresses, 4 revisions, 2 requests (symmetric) |

The bounds are chosen by the length of the stories. On the router a story is one
transaction with a recovery that is interrupted too, and a report that is lost on
top: three faults; two snapshots are the applied and the desired one, and a third
adds the change of an ETag within a revision. `MaxSeq` stops jobs from starting: it
cuts the endless rejection of a malformed snapshot in `RouterEdits`, one sequence
number per fetch, and the endless recovery of `RouterFailClosed`; elsewhere it lies
beyond what the faults can use up. On the server, a late
worker and its successor need two operations, a third one acts after both; two
faults are a lost answer and a failure or restart during what follows it. The
symmetry of clients is not used, since one of them exists from the beginning.
For boxes, a chain is two operations: the second one starts from what the first
left, bought or undecided, and both faults may fall on either. For the apply
script, the first apply builds what the second one breaks and the third one finds;
a fault and one in the rollback it causes make two. On the panel, a third row
finds the pool of three addresses full, two requests are a race, and four
revisions let a client be deleted, the deletion installed and its address given
away; `MaxApplies` is 1, so that an installation of the same revision a second
time does not complete in this run: it would only change the ETag.
Deadlock checking is off: faults, edits and operations run out by design.

The remaining runs each violate one statement of the repository and show why:

* `RouterFailClosed` (`TransactionsEnd`): a recovery whose rollback fails leaves
  FAIL_CLOSED with an unsent report; the next one saves ROLLING_BACK with it, the
  runtime helper refuses to read that journal, and so it goes on for ever.
* `RouterHalfway` (`ServiceReturns`): apply-policy saves READY, the power fails, and
  the refresh that restores the tunnel is killed between the start of the service and
  the opening of the guard. `restore` then keeps a service that runs, the site answers
  304, `health-tick` is refused in READY: clients stay cut off.
* `VpsLatePublish` (`QuietMain`): a transaction that fails after the publication
  sends the main address back to the old one and records FAILED; clients are told
  an address that is not the main one and nothing puts it on hold.
* `SprintboxForgotten` (`ChainOffered`): a person asks for another box in place of
  one that does not answer, the new operation fails before it buys anything, and
  the next successful rotation starts from the active box and does not know the
  unreachable one: `docs/SPRINTBOX.md:31-32` says that the failed boxes of a chain
  are offered for clean-up.

The passing runs name what the code does wrong as exceptions rather than leave it
out. `RouterLiveness` has every kind of fault, publications and policy commands, and
its properties say `\/ <>[]` of each state the router does not leave. All of these
occur in the run, and they are the only ones:

* `Unheard`: FAIL_CLOSED or ROLLING_BACK with an unsent failure (`RouterFailClosed`).
* `Halfway`: READY, service up, guard closed (`RouterHalfway`).
* `Unreadable`: a health tick that fails over, or whose lane fails, while a report is
  unsent saves an active profile that differs from the report's; `validState`
  (`journal.uc:175`) then refuses the journal, and every later command closes the
  lane, although `runtime.md:147` promises a restored tunnel. `JournalSound` states
  what remains true of the journal: this and `Unheard` are the only ways in which it
  becomes unreadable.
* `Refused`: a report about a snapshot that is not published any more is refused for
  its ETag, and a `rolled_back` after a recorded `rollback_failed` for its key;
  `refresh` fetches nothing before its report is accepted (`controller.uc:246`), so
  no later publication is ever seen.
* `Older`: the site goes back to an older revision; the router refuses it on purpose.

Likewise, on the panel and the server (`README.md` here is the repository's):

* `EndsUnlessDead` excepts a worker whose first read fails before its `try`: its
  operation stays PENDING with the lease until that expires or the panel restarts,
  while `main.py:907` says "The operation runner has already persisted the failure
  details."
* `SnapshotCurrent` excepts the environment. `README.md:333-334` has values changed
  in the environment file by hand, and `README.md:414` says that a change of the VPN
  settings moves the revision; a changed environment moves none, and every install
  and rotation of the revision is refused until some other edit moves it.
* `MarksTell`, `FailsForAReason` and `RemotePromise` except an AmneziaWG interface
  whose configuration is gone. Without any fault an apply that switches AmneziaWG off
  is APPLIED while the interface serves its peers, unseen by the check "disabled
  service is still active" (`remote_apply.py:283`); switching it on again fails by
  itself; and a rollback brings the configuration back but cannot start the unit,
  where `README.md:442` promises the previous active states.

Left out by the faults allowed are `dbLate` (`VpsLatePublish`) and `expire` in
`VpsRotation`. `expire` is in `VpsInstall`: an install that loses its lease before it
begins is failed by its successor and sets itself RUNNING again beside it until its
first heartbeat (`eu_install.py:764`; `README.md:798` says that one operation runs at
a time); the revisions stay sound all the same. `SprintboxBoxes` speaks of boxes on
record.

Observations that are not findings, because nothing in the repository says
otherwise:

* Panel: an install that has lost its lease still completes as DONE and moves the
  applied revision; `AppliedForward` and `AppliedSound` hold all the same: the
  revision never goes back. A purchase whose answer is lost and whose AMBIGUOUS mark
  then cannot be written ends FAILED, without a hold. A rollback that succeeds after
  an ambiguous make-main ends FAILED on purpose (`tests/test_ip_change.py:289-334`).
  A deploy script orphaned by a restart can still install an older revision after a
  newer one is DONE, which is why `AppliedIsServed` speaks of operations that are
  all done.
* Apply script: a kill between the certificate and the key of a new pair leaves a
  mismatch that later applies reuse, so that their validation fails until the server
  name changes; `FailsForAReason` names it. A rollback writes ROLLED_BACK and says
  "restored" even when one of its commands has failed; `MarksTell` excepts it.
* Router side: deleting a router frees the address of its peer at once, while the
  applied snapshot may still serve it until the next installation; a second
  installation of a revision changes the ETag, so a report on the first is refused.
  A pool that is exhausted while old rows are completed keeps the panel from
  starting.

## 4. Fairness

Router: `loop` runs refresh and health-tick for ever under procd, and a command
that finds the lock held is tried again, so both are strongly fair, as is a refresh
that finds an unreadable journal; a step of a running job is weakly fair, since
every external wait in it has a timeout. Nothing is assumed of faults, people or
the site, except in `TakesEffectUnlessRefused`, whose premise is that the
publication stays. Faults are bounded, so these are statements about a world in
which things stop failing eventually.

Panel: each worker of `VpsOperations` is weakly fair, because the event loop runs every ready task
and each wait has a deadline; scripts, people and the provider are not fair. An
operation ends because its worker gives up, never because a script must end.
`SprintboxRotation`, `RemoteApply` and `RouterSite` are checked for safety only: a
box waits for a person as long as the person likes, a script may be killed, and
requests come when they come.

## 5. What is proved

### The router

`RouterProofs`, `RouterPromiseProofs` and `RouterReportProofs`, for all sets of snapshots, profiles and
policies, all revisions, any number of faults and edits, from `JournalAssumption`
and `RouterAssumption` (the null of the journal is none of the values, revisions
are numbers, the bounds are numbers):

* `Inductive`, `TypeCorrect`, `RollbackAlwaysAvailable`: `Spec => []IInv`,
  `Spec => []TypeOK`, `Spec => []RollbackAvailable`. At every moment flash holds the
  bundle of the applied entry, so neither a rollback nor a restore after a power
  loss ends in `rollback_bundle_missing`.
* `ServesInductive`: `Spec => []SInv`.
* `OnlyKnownIsForwarded`: `Spec => []ForwardsKnownBundle`.
* `CommitsOnlyVerified`: `Spec => CommitsVerified`.
* `RouterKeepsPromise`: `Spec => KeepsPromise`, the refinement of `RouterPromise`.
* `JournalInductive`: `Spec => []JInv`, and from it `JournalStaysSound`,
  `ReportsStayTruthful`, `KeysKeepOneVerdict` and `ReportsAreDelivered`.
* `AttemptsKeepOnePolicy`: `Spec => []OnePolicyPerAttempt`.

`RollbackAvailable` is not inductive. Activate first copies the applied bundle to
`previous.json` and then replaces `current.json`: the second write is harmless only
because the first has been done *for the applied entry*; a commit makes the bundle
in `current.json` the applied one only because it is the desired one; a failover
rewrites `current.json` only with a bundle of the same entry. `IInv` therefore adds
`JobKnows`, what the running job knows of the journal on flash (its copy agrees with
it on the applied entry, and within a transaction on the desired one), and
`BundlesFit`, which bundle matches which entry at which step. The proof goes by one
lemma per action, grouped like the disjuncts of `Next`; `GoneInv` covers every step
that ends a job, `LaneInv` every step of the lane that leaves the bundles alone.

What is forwarded needs more, because the controller works on a copy of the journal
while the runtime helper reads the file. `SInv` adds to `IInv`:

* `InOrder`: attempts and revisions only go up, in the file and in the copy, and
  the two agree on whether there is a transaction to recover;
* `PhaseFits`: which phase is on flash while a job settles, tries or rolls back;
* `LaneFits`: `run.json` is replaced only behind a closed guard and with the service
  stopped, and from then on holds the bundle the action is about; the commit is
  reached only behind an open guard;
* `SwitchFits`: a staged profile is in `candidate.json` until it is confirmed, so
  that what is opened is what `current.json` holds;
* `Served`: what runs matches the applied entry, or the desired one in a
  transaction, and outside a transaction it is `current.json`.

Each conjunct is there for a step that breaks the goal without it: a rollback that
finds the service running must know which entry it runs for, a commit must know that
the guard it was verified behind has not been closed since, a saved snapshot must be
a later attempt than the applied one for `RouterPromise`'s `Offer`. The refinement
then needs only which steps change the entries (`EntriesKept`, `SaveEntries`,
`CommitEntries`, `RollbackEntries`) and which open the guard or replace `run.json`
(`GuardKept`, `OpeningPromise`).

`RouterReportProofs` adds what the server has heard. None of its properties is
inductive: each speaks of the journal on flash, while the steps that endanger it
work on a copy, and each says that two reports agree without saying why the second
could not be about an attempt the server knows already. `JInv` therefore says of
both copies (`JFits`):

* `Shape`: every clause of `validState` but the one on the pending report;
* `PendingFits`: a pending report is about the applied attempt, about one that has
  been given up, or about one whose rollback has failed and is still to be made.
  `JournalSound` cannot ask for more: a failed rollback and a health tick leave a
  report the router itself would not read back (section 3);
* `Heard`: what is recorded is true of the attempts that were applied, and of the
  transaction still open the server can only know a failed rollback;
* `Pends`: what is pending is true, and contradicts nothing recorded under its key;

and of the steps: the two copies hold one report unless the end of a failed rollback
could not be saved, a transaction begins with nothing pending, and the attempt on
trial is one the server has not heard of (`Fresh`). `PolicyInv` is independent of
it: bundles on flash belong to attempts that have been numbered, the attempt about
to be staged is later than all of them, and once staged it agrees with them.

### The router side of the panel

`RouterSiteProofs`, for any number of rows, any network, any set of keys, outcomes,
kinds, scopes and concurrent requests, from `SiteAssumption` (bounds are numbers, the
network has an address beyond those of the clients of old):

* `SiteInductive`: `Spec => []IInv`.
* `SiteTyped`: types and foreign keys, through migration, cascades and purges.
* `SiteAddressesApart`, `SiteRevisionTells`, `SiteOneResultPerKey`: `Spec => []` of
  `AddressesApart`, `RevisionTells` and `OneResultPerKey`.

`AddressesApart` and `OneResultPerKey` are not inductive; `IInv` is
`Tables /\ Revisions /\ Reports`.

* `Tables` adds to the types and foreign keys that a running panel has an address for
  each client (`Addressed`).
* `Revisions` says why an address that the VPN server serves is not given away: a
  client of a snapshot that is applied, or may still be, is a row with the same
  address, or one deleted in a *later* revision (`Reserved`), so that the purge after
  an installation takes only clients which that revision no longer has. `Dated` says
  which snapshots there can be.
* `Reports` says why a key has one true result. What is confirmed is stored as long
  as the credential is there, and is about a revision that was applied with the
  client in it (`Confirmed`); a router holds only its own bundles (`Fetched`); a
  request under way is about a row that cannot have changed hands (`Pending`);
  before the panel runs there are none (`Quiet`).

### The panel's operations

`VpsProofs`, for any sets of clients and kinds of operation, any number of
operations, revisions, edits and faults of any kind, from `DatabaseAssumption` and
`OperationsAssumption` (the bounds are numbers, there is a revision, the first
clients are clients):

* `DatabaseInductive`: `Spec => []IInv`.
* `OperationsTyped`, `AppliedStaysSound`, `SnapshotStaysCurrent`,
  `RebootStaysRemembered`, `ServedClientsStay`: `Spec => []` of `TypeOK`,
  `AppliedSound`, `SnapshotCurrent`, `RebootRemembered` and `KeepsServedClients`.
* `AppliedMovesForward`: `Spec => AppliedForward`.

None of them says who holds the lease: they hold with workers that lost it, with two
workers at once, and with a worker that dies without a verdict. `IInv` is
`TypeOK /\ DbInv(db) /\ Actors`.

* `SnapshotCurrent` says that what a snapshot of the desired revision took from the
  tables is still in them, so that nothing but a changed environment makes preparing
  an operation refused; with the environment it is false (section 3).
* `Sound` and `Current` are `AppliedSound` and `SnapshotCurrent`. Each needs the
  other's help: a late installation completes a revision that has a snapshot only
  because its row is bound to one (`Prepared`), and a publication makes a new
  revision current only because the bound one was.
* `Reserved` is why a purge takes no served client: a client in a snapshot that is
  applied, *or may be later*, is a row, or its deletion belongs to a later revision.
  `KeepsServedClients` alone speaks of the applied snapshot, and is broken by the
  next one to be applied.
* `Actors` says what a worker's step tells about its row: a reboot that may be on its
  way is marked as such before it is sent, and only the worker of an installation
  completes or fails one.

A transaction that touches no revision, client or binding is `Alike`; one lemma keeps
the invariant for all of them (`AlikeKeeps`), and heartbeats, releases, `_fail_owner`,
an acquisition and the recovery at start are of that kind. What remains is a lemma
per transaction that is not: `EnsureKeeps`, `CreateKeeps`, `CompleteKeeps`,
`FailKeeps`, `PublishKeeps`, `EditKeeps`. The workers' steps then follow from
`MarkKeeps`, `MoveKeeps`, `FinishKeeps` and `StumbleKeeps`.

### Leases, rotations and addresses

`VpsCalmProofs`, from the same assumptions and `Calm`: there is no `expire`,
`dbEnd` or `dbLate` among the faults. Requests and connections may still be lost,
reads and transactions fail and the panel be restarted, with another environment or
the same, any number of times and anywhere else.
These are the faults of the run `VpsRotation`. Each of the three that are left out
breaks something: `dbLate` breaks `QuietMain` (the finding of `VpsLatePublish`);
`dbEnd` leaves an operation active for ever, without a worker, which breaks
`EndsUnlessDead` and the part `Leased` of the invariant; `expire` lets a second worker
in, which breaks `WorkersAlone`.

* `RotationInductive`: `Spec => []RInv`.
* `OperationsAlone`, `RotationsOneByOne`, `MainStaysQuiet`, `PublishedStaysOwned`:
  `Spec => []` of `WorkersAlone`, `OneOpenRotation`, `QuietMain` and `PublishedOwned`.
* `PublicationVerified`: `Spec => PublishVerified`.

`RInv`, together with `IInv` of `VpsProofs`, says:

* `Leased`: what is active has a worker and the lease, and nothing else has either.
  It is what makes the rest provable row by row: no step of another worker comes
  between two of this one.
* at most one rotation is `Open`, and while none is, main address and the address
  published last agree. `QuietMain` alone does not survive the beginning of a rotation.
* `Written`: what the row of a rotation may hold. An unfinished one was not waiting
  for a box, so `_fail_owner` holds it for a person once the purchase is marked.
* `Course`: what a worker knows at each of its steps. Before the publication the
  published address is the one it was bound to, once the list of addresses has shown
  that one as the main one (`Unsure` are the steps without that knowledge, since the
  settings may name any `current_ip`); from the apply on the new one is the
  main one; after the publication both are the new one, so that the clean-up can only
  give the old one away. A worker may stop, or give up without a hold, as long as the
  main address has not been asked for or is back; from the mark of the purchase on
  the row says that something may have happened (`Asked`), and that is what a restart
  reads.
* the published address is owned, and is the first one or the new one of a rotation,
  so that a rotation that begins never buys the published address.

A worker's step either goes on (`WorkMark`, `WorkMove`, `WorkGo`) or ends
(`WorkFinish`); the lemmas for the four groups of steps of a rotation, its faults,
and the three other workers are instances of these, and `StartHonest`,
`ReconcileHonest`, `RestartHonest` and `EditsHonest` are the rest of `Next`.

### What the VPN server serves

The second half of `VpsCalmProofs`, on top of `IInv` and `RInv`:

* `ServedInductive`: `Spec => []SInv`.
* `AppliedStaysServed`: `Spec => []AppliedIsServed`.

`AppliedIsServed` is silent while an operation runs and after one has failed, so it
says nothing of the steps in between. `SInv` does:

* `Tells`: a row that is DONE has a script that ended well; what a script would roll
  back to has a snapshot; an installation that runs is not older than what is applied,
  and one that is about to be completed has a finished script; after its publication a
  rotation's own revision lets in the clients of the applied one.
* `Agrees`: as long as no operation that ran a script has failed or is AMBIGUOUS, the
  server runs the revision of the operation whose script is finished; and when none is
  under way, it lets in the clients of the applied revision. A script that ends after
  its worker has given up finds its operation failed: `Stained` lets anything happen
  from then on, as the code does.

Snapshots are `Immutable` under every step, so that what was true of a revision's
clients stays true. Most steps of a worker are `Plain`, and what concerns neither
scripts nor workers leaves the invariant `Undisturbed`; the exceptions have a lemma
each: `LaunchServes`, `CompleteServes`, `PublishServes`, `ScriptServes` and
`RestartServes`.

### Boxes of Sprintbox

`SprintboxProofs`, for any sets of clients, accounts and services, any number of
operations and any number and kinds of faults, from `DatabaseAssumption` and
`SprintboxAssumption`. That assumption holds `MaxOps < MaxRev`: the code bounds
neither, and an operation publishes one revision, so the bound on operations must
be the one that is met first; with `MaxOps >= MaxRev` the model would run out of
revision numbers at a publication that the code makes.

* `TalesInductive`: `Spec => []BInv`.
* `TypeCorrect`, `BoxesStayAccounted`, `CleanupsStayHonest`, `PurchasesStaySingle`:
  `Spec => []TypeOK`, `[]BoxAccounted`, `[]CleanupHonest`, `[]OneOpenPurchase`.
* `ActiveBoxIsSpared`: `Spec => ActiveSpared`.

`OneOpenPurchase` is kept by the holds of `prepare_ip_change_operation`, which look at
the status and the action an operation ended with, and `ActiveSpared` by a check some
steps before the request goes out. Neither is inductive. `BInv` adds:

* `Told`: what has been bought, found and published at each step of an operation's
  worker and at each way it may end, so that an ending says what it leaves behind;
* `Leases`: an operation that is not over, the lease and a worker go together;
* `Holds`: a purchase that is open is the only one, and nothing else that may still
  buy is under way;
* `Keep`: the boxes an operation keeps exist or have existed, a box recorded as gone
  is gone, a clean-up has every kept box still to do or has warned of it, and at the
  delete request the target is still neither active nor published;
* `Places`: every box that exists, and the active one, is one somebody has asked for;
* `Order` and `Room`: operations are numbered in order, and each that may still
  publish finds a revision left.

A worker's step is proved once for every step that leaves the other operations alone
(`OwnStep`), once more for those that write nothing of their own (`QuietStep`), and
the decisions of a person by what they change in one row (`RequeueKeeps`,
`VerdictKeeps`). `RestartKeeps` is the recovery at start, which ends every worker at
once; `JudgeKeeps` the verdict of the clean-up on one box.

### The apply script

`RemoteProofs`, for any plans and server names, any number of applies and any number
and kinds of faults, from `RemoteAssumption` (a plan wants a service, the bounds are
numbers, `Torn` is not the number of an apply):

* `RemoteInductive`: `Spec => []RInv`.
* `RemoteTyped`, `MarkersTell`, `FailuresHaveReasons`: `Spec => []` of `TypeOK`,
  `MarksTell` and `FailsForAReason`.
* `RemoteKeepsPromise`: `Spec => KeepsPromise`, the refinement of `RemotePromise`.

`MarksTell`, `FailsForAReason` and `RemotePromise` let an AmneziaWG interface whose
configuration is gone stand beside what is served: the script leaves one behind
whenever it switches AmneziaWG off. `MarksTell` speaks of the time
between two applies and `FailsForAReason` of the last
step of one; `RInv` says how they come about:

* `Marked`: which mark the backup directory has at which part of the script;
* `Switched` and `Turned`: the files and services the switch has been through are as
  staged, so that what passes the check is the whole configuration (`Checked`), and
  in an apply without a fault they pass it (`StagedStarts`);
* `Clinging`: where an AmneziaWG interface without its unit comes from, an apply
  that took its configuration away, and what a rollback then cannot restore;
* `Undone` and `Restored`: what a rollback without a failing command has been
  through is as in the backup, but for such an interface;
* `Faultless`: when no command has failed, what an apply may have failed over;
* `Mixed`: outside the pair of certificate and key no file is from a third apply;
* `TornTold`: a server with parts of two configurations has a kill or a failed
  rollback behind it, and so has a backup of one.

What is served is a `CHOOSE`, so the proofs speak of it through four lemmas: at most
one configuration is served as a whole (`WholeOnce`); a restart of the server starts
what was served (`RebootServes`); so does a rollback that restores every file and
every service that was up (`RestoredServes`); a server with files of two applies
serves one of the two, nothing, or parts of both (`MixServes`). The last is what
`RemotePromise` allows after a kill, and it needs only the files outside the pair.

### What is only model-checked

Every safety invariant and action property of the passing runs, and both
refinements, are theorems; those of `VpsCalmProofs` assume `Calm`, as the run that
checks them does. Only model-checked are the liveness properties
`EndsUnlessUnheard`, `ReturnsUnlessBlocked`, `TakesEffectUnlessRefused` and
`EndsUnlessDead`: liveness under fairness is out of the prover's reach.

## 6. Not modelled

Listed with reasons in `PROJECT.json`. The main ones:

* Router: the second lane and zapret (retired by `runtime-adapter`, or a helper that
  succeeds or fails), policy routes and firewall tables (no state of their own),
  the hysteresis of health (a probe that fails or does not), the guest network, the
  maintenance and update locks, the routing database, the LuCI pages.
* Panel: `reset_server`, which deletes every operation by design and with them the
  holds; the rotation of a credential's secret; subscriptions (a rendering of one
  applied snapshot); statistics and deep checks (observations for display); pages
  and sessions; the migrations that only add tables and columns; installers.

## 7. Plan

Done: the router with its promise and proofs; the operations on Aeza; the boxes of
Sprintbox; the apply script with its promise; the router side of the panel, with
address allocation, and its proofs; the proofs about revisions, clients, reboots,
leases and rotations of the panel, about what the VPN server serves, about the
boxes, about the apply script, and about the router's journal and reports.
Left, in this order:

1. `NetworkTransaction`: propose, confirm, time out, reboot; the watchdog against
   the command. `CommandLocks`: `autovpnctl`, maintenance and update locks.
2. `HealthHysteresis`, a pure algorithm against a reference over bounded inputs.
3. An abstract single-owner lease that `VpsOperations` without expiry implements.
4. `reset_server` and the rotation of secrets.

## 8. Running

    tlc -config RouterSafety.cfg MCRouterUpdate.tla
    tlc -config VpsRotation.cfg MCVpsOperations.tla
    tlapm RouterPromiseProofs.tla

`Router{Safety,Edits,Liveness,FailClosed,Halfway}.cfg` belong to `MCRouterUpdate`,
`Vps*.cfg` to `MCVpsOperations`, `Sprintbox*.cfg` to `MCSprintboxRotation`,
`RemoteApply.cfg` to `MCRemoteApply`, `RouterSite.cfg` to `MCRouterSite`. The
violating runs end with the behaviour they show. `tlapm` is run on `RouterProofs`,
`RouterPromiseProofs`, `RouterReportProofs`, `RouterSiteProofs`, `VpsProofs`,
`VpsCalmProofs`, `SprintboxProofs` and `RemoteProofs`.
