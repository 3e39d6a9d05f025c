---------------------------- MODULE RemoteProofs ----------------------------
(***************************************************************************)
(* What the apply script promises, proved for any plans, server names,     *)
(* number of applies, and number and kinds of faults.  The inductive       *)
(* invariant RInv tells how far the switch, or the rollback, has come, and *)
(* what a server that is between two configurations can still be said to   *)
(* serve.                                                                  *)
(***************************************************************************)
EXTENDS RemoteApply, TLAPS

-----------------------------------------------------------------------------
(***************************************************************************)
(* The inductive invariant.                                                *)
(***************************************************************************)
Pair      == {"hysteria.crt", "hysteria.key"}
Before    == {"bootstrap", "validate", "backup"}
Switching == {"files", "services", "check", "mark"}
Undoing   == {"restore", "revive", "mark_rollback"}

Counts ==
  /\ pc # "idle" => run \in Runs
  /\ pc \in {"services", "revive"} => at \in 1 .. 3
  /\ plan[0] = NoPlan /\ \A n \in 1 .. run : plan[n] \in Plans
  /\ \A n \in Runs : n > run => marks[n] = "none"
  /\ \A f \in Files : live[f] <= run
  /\ pc \in {"backup", "files", "services", "check"} => stage \in 1 .. run

\* What the backup directory of the current apply says.
Marked ==
  /\ pc \in Before => marks[run] = "none"
  /\ pc \in Switching \cup Undoing => marks[run] = "ready"
  /\ pc = "prune" => marks[run] = "APPLIED"
  /\ pc = "fail" => marks[run] \in {"none", "ROLLED_BACK"}

\* The current apply has its backup.
Backed == pc # "idle" /\ marks[run] # "none"

\* No file but those of the pair is from a third apply.
Mixed ==
  Backed =>
    /\ \A f \in Files : backup.live[f] <= run
    /\ \A f \in Files \ Pair : live[f] \in {backup.live[f], 0, run}

\* Of the first k applies one was interrupted, or a rollback has failed.
Excused(k) == lame # {} \/ \E n \in 1 .. k : marks[n] = "ready"

TornTold ==
  /\ ~Backed /\ Serves(Now) = Torn => Excused(run)
  /\ Backed /\ Serves(backup) = Torn => Excused(run - 1)

\* A service that was told to stop, and an interface that stayed.
Gone(s) == up[s] = Down \/ (s = "awg" /\ stray)

\* The switch has been through service s.
Turned(s) ==
  /\ s \in Wanted => up[s] \in {Down, Started(s, live)}
  /\ s \in Wanted /\ s = "awg" => ~stray
  /\ clean =>
       /\ s \in on <=> s \in Wanted
       /\ s \in Wanted => up[s] = Started(s, live)
       /\ s \notin Wanted => Gone(s)

Switched ==
  /\ pc = "files" =>
       \A k \in 1 .. 5 : k < at => live[FileAt(k)] = Staged(FileAt(k))
  /\ pc \in {"services", "check"} => \A f \in Files : live[f] = Staged(f)
  /\ pc = "services" => \A k \in 1 .. 3 : k < at => Turned(ServiceAt(k))
  /\ pc = "check" => \A s \in Services : Turned(s)
  /\ pc \in {"mark", "prune"} => Whole(run, Now)

\* An interface that ran when the apply began, and that systemd has lost.
Clings ==
  /\ backup.up["awg"] # Down
  /\ backup.stray \/ (stray /\ backup.live["awg0.conf"] # 0)

\* The interface is the one that the apply found, unless it was taken down on
\* the way: the switch comes to AmneziaWG last.
Clinging ==
  Backed /\ run \notin lame =>
    /\ pc \in {"files", "services"} =>
         up["awg"] = backup.up["awg"] /\ stray = backup.stray
    /\ Clings => stray /\ up["awg"] = backup.up["awg"]

\* The rollback has been through service s.
Restored(s) ==
  /\ s \in on <=> s \in backup.on
  /\ s \in Active(backup) /\ Starts(s, live) =>
       up[s] \in {Started(s, live), backup.up[s]}
  /\ s \notin Active(backup) => Gone(s)

\* A rollback in which nothing has failed so far.
Undone ==
  Backed /\ run \notin lame =>
    /\ pc = "restore" =>
         \A k \in 1 .. 5 : k < at => live[FileAt(k)] = backup.live[FileAt(k)]
    /\ pc \in {"revive", "mark_rollback", "fail"} => live = backup.live
    /\ pc = "revive" => \A k \in 1 .. 3 : k < at => Restored(ServiceAt(k))
    /\ pc \in {"mark_rollback", "fail"} => \A s \in Services : Restored(s)

\* An apply in which nothing has failed.
Faultless ==
  /\ pc \in Undoing /\ clean => stray /\ up["awg"] # Down
  /\ pc = "validate" /\ clean => Wanted \subseteq has

RInv ==
  /\ TypeOK /\ Counts /\ Marked /\ Mixed /\ TornTold
  /\ Switched /\ Clinging /\ Undone /\ Faultless
  /\ MarksTell /\ FailsForAReason

-----------------------------------------------------------------------------
(***************************************************************************)
(* Files and services.                                                     *)
(***************************************************************************)
\* A service has a file of its own outside the pair, and every file an owner.
LEMMA ServiceFiles ==
  /\ \A s \in Services : FilesOf(s) \subseteq Files /\ FilesOf(s) \ Pair # {}
  /\ \A f \in Files : Owner(f) \in Services /\ f \in FilesOf(Owner(f))
  /\ \A s \in Services : \A f \in FilesOf(s) : Owner(f) = s
  /\ FilesOf("hysteria") \cap Pair = Pair
  /\ \A s \in Services \ {"hysteria"} : FilesOf(s) \cap Pair = {}
<1>1. /\ FilesOf("xray") = {"xray.json"} /\ FilesOf("awg") = {"awg0.conf"}
      /\ FilesOf("hysteria") =
           {"hysteria.yaml", "hysteria.crt", "hysteria.key"}
  BY DEF FilesOf
<1>2. \A s \in Services : \A f \in FilesOf(s) : Owner(f) = s
  <2> SUFFICES ASSUME NEW s \in Services, NEW f \in FilesOf(s)
               PROVE  Owner(f) = s
    OBVIOUS
  <2>1. \A t \in Services : f \in FilesOf(t) <=> t = s
    BY <1>1 DEF Services
  <2> QED BY <2>1 DEF Owner
<1>3. \A f \in Files : \E s \in Services : f \in FilesOf(s)
  BY <1>1 DEF Files, Services
<1> QED BY <1>1, <1>2, <1>3 DEF Files, Services, Pair

\* The script goes through all of them.
LEMMA Orders ==
  /\ \A k \in 1 .. 5 : FileAt(k) \in Files
  /\ \A f \in Files : \E k \in 1 .. 5 : FileAt(k) = f
  /\ \A k \in 1 .. 3 : ServiceAt(k) \in Services
  /\ \A s \in Services : \E k \in 1 .. 3 : ServiceAt(k) = s
<1>1. /\ FileAt(1) = "xray.json" /\ FileAt(2) = "hysteria.yaml"
      /\ FileAt(3) = "hysteria.crt" /\ FileAt(4) = "hysteria.key"
      /\ FileAt(5) = "awg0.conf"
  BY DEF FileAt
<1>2. /\ ServiceAt(1) = "xray" /\ ServiceAt(2) = "hysteria"
      /\ ServiceAt(3) = "awg"
  BY DEF ServiceAt
<1>3. \A k \in 1 .. 5 : k = 1 \/ k = 2 \/ k = 3 \/ k = 4 \/ k = 5
  OBVIOUS
<1>4. \A k \in 1 .. 3 : k = 1 \/ k = 2 \/ k = 3
  OBVIOUS
<1>5. \A k \in 1 .. 5 : FileAt(k) \in Files
  BY <1>1, <1>3 DEF Files
<1>6. \A f \in Files : \E k \in 1 .. 5 : FileAt(k) = f
  <2>1. 1 \in 1 .. 5 /\ 2 \in 1 .. 5 /\ 3 \in 1 .. 5 /\ 4 \in 1 .. 5 /\ 5 \in 1 .. 5
    OBVIOUS
  <2> QED BY <1>1, <2>1 DEF Files
<1>7. \A k \in 1 .. 3 : ServiceAt(k) \in Services
  BY <1>2, <1>4 DEF Services
<1>8. \A s \in Services : \E k \in 1 .. 3 : ServiceAt(k) = s
  <2>1. 1 \in 1 .. 3 /\ 2 \in 1 .. 3 /\ 3 \in 1 .. 3
    OBVIOUS
  <2> QED BY <1>2, <2>1 DEF Services
<1> QED BY <1>5, <1>6, <1>7, <1>8

\* A service that has loaded its files is not down.
LEMMA LoadedIsUp ==
  ASSUME NEW s \in Services, NEW l
  PROVE  Loaded(s, l) # Down
<1>1. DOMAIN Loaded(s, l) = FilesOf(s)
  BY DEF Loaded
<1>2. DOMAIN Down = {}
  BY DEF Down
<1> QED BY <1>1, <1>2, ServiceFiles

\* What a service may be running.
Running == {Down} \cup UNION {[FilesOf(s) -> Runs] : s \in Services}

LEMMA StartedTyped ==
  ASSUME NEW s \in Services, NEW l \in [Files -> 0 .. MaxRuns]
  PROVE  /\ Started(s, l) \in Running
         /\ Started(s, l) # Down <=> Starts(s, l)
<1>1. CASE Starts(s, l)
  <2>1. \A f \in FilesOf(s) : l[f] \in Runs
    BY <1>1, ServiceFiles, RemoteAssumption DEF Starts, Runs
  <2>2. Loaded(s, l) \in [FilesOf(s) -> Runs]
    BY <2>1 DEF Loaded
  <2> QED BY <1>1, <2>2, LoadedIsUp DEF Started, Running
<1>2. CASE ~Starts(s, l)
  BY <1>2 DEF Started, Running
<1> QED BY <1>1, <1>2

LEMMA Images ==
  Image = [live : [Files -> 0 .. MaxRuns], on : SUBSET Services,
           up : [Services -> Running], stray : BOOLEAN]
BY DEF Image, Running

-----------------------------------------------------------------------------
(***************************************************************************)
(* What a server serves, when pl holds the plans of the applies so far and *)
(* r is the last of them.                                                  *)
(***************************************************************************)
WholeIn(pl, n, i) ==
  /\ i.on = pl[n].on
  /\ \A s \in Services \ i.on :
       /\ \A f \in FilesOf(s) : i.live[f] = 0
       /\ i.up[s] = Down \/ (s = "awg" /\ i.stray)
  /\ \A s \in i.on :
       /\ Starts(s, i.live) /\ i.up[s] = Loaded(s, i.live)
       /\ \A f \in FilesOf(s) \ {"hysteria.crt", "hysteria.key"} :
            i.live[f] = n

ServesIn(pl, r, i) ==
  IF \E n \in 0 .. r : WholeIn(pl, n, i)
  THEN CHOOSE n \in 0 .. r : WholeIn(pl, n, i) ELSE Torn

Planned(pl, r) ==
  /\ r \in 0 .. MaxRuns
  /\ pl[0].on = {} /\ \A n \in 1 .. r : pl[n] \in Plans

LEMMA PlanOn ==
  ASSUME NEW p \in Plans
  PROVE  p.on \subseteq Services /\ p.on # {}
BY RemoteAssumption

\* One configuration at most is served as a whole.
LEMMA WholeOnce ==
  ASSUME NEW pl, NEW r, Planned(pl, r), NEW i \in Image,
         NEW n \in 0 .. r, NEW m \in 0 .. r,
         WholeIn(pl, n, i), WholeIn(pl, m, i)
  PROVE  n = m
<1>1. r \in Nat
  BY RemoteAssumption DEF Planned
<1>2. pl[n].on = i.on /\ pl[m].on = i.on
  BY DEF WholeIn
<1>3. CASE i.on = {}
  <2>1. \A k \in 1 .. r : pl[k].on # {}
    BY PlanOn DEF Planned
  <2> QED BY <1>1, <1>2, <1>3, <2>1
<1>4. CASE i.on # {}
  <2>1. PICK s \in i.on : TRUE
    BY <1>4
  <2>2. s \in Services
    BY <2>1 DEF Image
  <2>3. PICK f \in FilesOf(s) : f \notin {"hysteria.crt", "hysteria.key"}
    BY <2>2, ServiceFiles DEF Pair
  <2>4. i.live[f] = n /\ i.live[f] = m
    BY <2>1, <2>3 DEF WholeIn
  <2> QED BY <2>4
<1> QED BY <1>3, <1>4

LEMMA ServesWhole ==
  ASSUME NEW pl, NEW r, Planned(pl, r), NEW i \in Image,
         NEW n \in 0 .. r, WholeIn(pl, n, i)
  PROVE  ServesIn(pl, r, i) = n /\ ServesIn(pl, r, i) # Torn
<1> DEFINE c == CHOOSE m \in 0 .. r : WholeIn(pl, m, i)
<1>1. c \in 0 .. r /\ WholeIn(pl, c, i)
  OBVIOUS
<1>2. ServesIn(pl, r, i) = c
  BY DEF ServesIn
<1> HIDE DEF c
<1>3. c = n
  BY <1>1, WholeOnce
<1>4. n \in 0 .. MaxRuns
  BY RemoteAssumption DEF Planned
<1> QED BY <1>2, <1>3, <1>4, RemoteAssumption

LEMMA ServesSome ==
  ASSUME NEW pl, NEW r, NEW i, ServesIn(pl, r, i) # Torn
  PROVE  /\ ServesIn(pl, r, i) \in 0 .. r
         /\ WholeIn(pl, ServesIn(pl, r, i), i)
<1> DEFINE c == CHOOSE m \in 0 .. r : WholeIn(pl, m, i)
<1>1. \E m \in 0 .. r : WholeIn(pl, m, i)
  BY DEF ServesIn
<1>2. c \in 0 .. r /\ WholeIn(pl, c, i)
  BY <1>1
<1>3. ServesIn(pl, r, i) = c
  BY <1>1 DEF ServesIn
<1> HIDE DEF c
<1> QED BY <1>2, <1>3

\* The files outside the pair tell what is served.
LEMMA WholeFiles ==
  ASSUME NEW pl, NEW n, NEW i \in Image, WholeIn(pl, n, i)
  PROVE  \A f \in Files \ Pair : i.live[f] \in {0, n}
<1> SUFFICES ASSUME NEW f \in Files \ Pair PROVE i.live[f] \in {0, n}
  OBVIOUS
<1>1. Owner(f) \in Services /\ f \in FilesOf(Owner(f))
  BY ServiceFiles
<1> QED BY <1>1 DEF WholeIn, Pair

\* A server with files of two applies serves one of the two, or neither.
LEMMA MixServes ==
  ASSUME NEW pl, NEW r, Planned(pl, r), NEW i \in Image, NEW j \in Image,
         \A f \in Files \ Pair : j.live[f] \in {i.live[f], 0, r},
         ServesIn(pl, r, i) # Torn
  PROVE  ServesIn(pl, r, j) \in {0, ServesIn(pl, r, i), r, Torn}
<1> DEFINE m == ServesIn(pl, r, i)
           n == ServesIn(pl, r, j)
<1>1. m \in 0 .. r /\ WholeIn(pl, m, i)
  BY ServesSome
<1> SUFFICES ASSUME n # Torn, n # 0 PROVE n \in {m, r}
  OBVIOUS
<1>2. n \in 0 .. r /\ WholeIn(pl, n, j)
  BY ServesSome
<1> HIDE DEF m, n
<1>3. r \in Nat /\ n \in 1 .. r
  BY <1>2, RemoteAssumption DEF Planned
<1>4. j.on # {} /\ j.on \subseteq Services
  BY <1>2, <1>3, PlanOn DEF WholeIn, Planned
<1>5. PICK s \in j.on : TRUE
  BY <1>4
<1>6. PICK f \in FilesOf(s) \ Pair : TRUE
  BY <1>4, <1>5, ServiceFiles
<1>7. j.live[f] = n /\ f \in Files \ Pair
  BY <1>2, <1>4, <1>5, <1>6, ServiceFiles DEF WholeIn, Pair
<1>8. i.live[f] \in {0, m}
  BY <1>1, <1>7, WholeFiles
<1> QED BY <1>7, <1>8, <1>3

\* Nothing of an apply that has only been asked for is served.
LEMMA AskServes ==
  ASSUME NEW pl \in [0 .. MaxRuns -> Plans \cup {NoPlan}], NEW r, Planned(pl, r),
         r < MaxRuns, NEW p \in Plans, NEW i \in Image,
         \A f \in Files : i.live[f] <= r
  PROVE  ServesIn([pl EXCEPT ![r + 1] = p], r + 1, i) = ServesIn(pl, r, i)
<1> DEFINE pp == [pl EXCEPT ![r + 1] = p]
<1>1. r \in Nat /\ MaxRuns \in Nat
  BY RemoteAssumption DEF Planned
<1>2. pp[r + 1] = p /\ \A n \in 0 .. r : pp[n] = pl[n]
  BY <1>1
<1>3. Planned(pp, r + 1)
  BY <1>1, <1>2 DEF Planned
<1> HIDE DEF pp
<1>4. \A n \in 0 .. r : WholeIn(pp, n, i) <=> WholeIn(pl, n, i)
  BY <1>2 DEF WholeIn
<1>5. CASE ServesIn(pl, r, i) # Torn
  <2>1. /\ ServesIn(pl, r, i) \in 0 .. r
        /\ WholeIn(pl, ServesIn(pl, r, i), i)
    BY <1>5, ServesSome
  <2>2. WholeIn(pp, ServesIn(pl, r, i), i) /\ ServesIn(pl, r, i) \in 0 .. (r + 1)
    BY <1>1, <1>4, <2>1
  <2> QED BY <1>3, <2>2, ServesWhole DEF pp
<1>6. CASE ServesIn(pl, r, i) = Torn
  <2>1. \A n \in 0 .. r : ~WholeIn(pl, n, i)
    BY <1>6, ServesWhole
  <2>2. ~WholeIn(pp, r + 1, i)
    <3> SUFFICES ASSUME WholeIn(pp, r + 1, i) PROVE FALSE
      OBVIOUS
    <3>1. i.on = p.on
      BY <1>2 DEF WholeIn
    <3>2. PICK s \in i.on : s \in Services
      BY <3>1, PlanOn
    <3>3. PICK f \in FilesOf(s) \ Pair : f \in Files
      BY <3>2, ServiceFiles
    <3>4. i.live[f] = r + 1
      BY <3>2, <3>3 DEF WholeIn, Pair
    <3> QED BY <1>1, <3>3, <3>4 DEF Image
  <2>3. \A n \in 0 .. (r + 1) : n \in 0 .. r \/ n = r + 1
    BY <1>1
  <2>4. \A n \in 0 .. (r + 1) : ~WholeIn(pp, n, i)
    BY <1>4, <2>1, <2>2, <2>3
  <2> QED BY <1>6, <2>4 DEF ServesIn, pp
<1> QED BY <1>5, <1>6

\* A restart of the server starts what it served.
Rebooted(i) ==
  [live |-> i.live, on |-> i.on,
   up |-> [s \in Services |-> IF s \in i.on THEN Started(s, i.live) ELSE Down],
   stray |-> FALSE]

LEMMA RebootServes ==
  ASSUME NEW pl, NEW r, Planned(pl, r), NEW i \in Image,
         ServesIn(pl, r, i) # Torn
  PROVE  ServesIn(pl, r, Rebooted(i)) = ServesIn(pl, r, i)
<1> DEFINE n == ServesIn(pl, r, i)
           j == Rebooted(i)
<1>1. n \in 0 .. r /\ WholeIn(pl, n, i)
  BY ServesSome
<1> HIDE DEF n
<1>2. /\ j.live = i.live /\ j.on = i.on
      /\ j.up = [s \in Services |-> IF s \in i.on THEN Started(s, i.live)
                                    ELSE Down]
      /\ j = [live |-> j.live, on |-> j.on, up |-> j.up, stray |-> j.stray]
      /\ j.stray = FALSE
  BY DEF Rebooted, Image
<1>3. j \in Image
  <2>1. j.up \in [Services -> Running]
    BY <1>2, StartedTyped, Images DEF Running
  <2> QED BY <1>2, <2>1, Images
<1> HIDE DEF j
<1>4. \A s \in i.on : s \in Services /\ Starts(s, i.live)
                      /\ j.up[s] = Loaded(s, i.live)
  BY <1>1, <1>2, Images DEF WholeIn, Started
<1>5. WholeIn(pl, n, j)
  BY <1>1, <1>2, <1>4 DEF WholeIn
<1> QED BY <1>1, <1>3, <1>5, ServesWhole DEF n, j

\* A rollback without a failing command brings back what was served.
LEMMA RestoredServes ==
  ASSUME NEW pl, NEW r, Planned(pl, r), NEW b \in Image, NEW i \in Image,
         i.live = b.live,
         \A s \in Services :
           /\ s \in i.on <=> s \in b.on
           /\ s \in Active(b) /\ Starts(s, i.live) =>
                i.up[s] \in {Started(s, i.live), b.up[s]}
           /\ s \notin Active(b) => i.up[s] = Down \/ (s = "awg" /\ i.stray),
         b.stray /\ b.up["awg"] # Down => i.stray /\ i.up["awg"] = b.up["awg"],
         ServesIn(pl, r, b) # Torn
  PROVE  ServesIn(pl, r, i) = ServesIn(pl, r, b)
<1> DEFINE n == ServesIn(pl, r, b)
<1>1. n \in 0 .. r /\ WholeIn(pl, n, b)
  BY ServesSome
<1> HIDE DEF n
<1>2. i.on = b.on /\ b.on \subseteq Services
  BY Images
<1>3. \A s \in b.on : /\ Starts(s, b.live) /\ b.up[s] = Loaded(s, b.live)
                      /\ s \in Services /\ b.up[s] # Down
  BY <1>1, <1>2, LoadedIsUp DEF WholeIn
<1>4. \A s \in b.on : i.up[s] = Loaded(s, b.live)
  <2> SUFFICES ASSUME NEW s \in b.on PROVE i.up[s] = Loaded(s, b.live)
    OBVIOUS
  <2>1. CASE s \in Active(b)
    BY <1>3, <2>1 DEF Started
  <2>2. CASE s \notin Active(b)
    <3>1. s = "awg" /\ b.stray
      BY <1>3, <2>2 DEF Active
    <3> QED BY <1>3, <3>1
  <2> QED BY <2>1, <2>2
<1>5. \A s \in Services \ b.on : i.up[s] = Down \/ (s = "awg" /\ i.stray)
  <2> SUFFICES ASSUME NEW s \in Services \ b.on
               PROVE  i.up[s] = Down \/ (s = "awg" /\ i.stray)
    OBVIOUS
  <2>1. b.up[s] = Down \/ (s = "awg" /\ b.stray)
    BY <1>1 DEF WholeIn
  <2>2. s \notin Active(b)
    BY <2>1 DEF Active
  <2> QED BY <2>2
<1>6. WholeIn(pl, n, i)
  BY <1>1, <1>2, <1>3, <1>4, <1>5 DEF WholeIn
<1> QED BY <1>1, <1>6, ServesWhole DEF n

-----------------------------------------------------------------------------
(***************************************************************************)
(* What the steps have in common.                                          *)
(***************************************************************************)
\* Primed and unprimed, what is served is a matter of plans and images.
LEMMA Reading ==
  /\ Serves(Now) = ServesIn(plan, run, Now)
  /\ Serves(backup) = ServesIn(plan, run, backup)
  /\ Serves(Now)' = ServesIn(plan', run', Now')
  /\ Serves(backup)' = ServesIn(plan', run', backup')
BY DEF Serves, ServesIn, Whole, WholeIn, Now

LEMMA ImageOf ==
  ASSUME NEW l, NEW o, NEW u, NEW w
  PROVE  [live |-> l, on |-> o, up |-> u, stray |-> w] \in Image <=>
           /\ l \in [Files -> 0 .. MaxRuns]
           /\ o \in SUBSET Services
           /\ u \in [Services -> Running]
           /\ w \in BOOLEAN
BY Images

\* Types, in the form the proofs use.
LEMMA Types ==
  ASSUME RInv
  PROVE  /\ run \in 0 .. MaxRuns /\ run \in Nat /\ MaxRuns \in Nat
         /\ plan \in [0 .. MaxRuns -> Plans \cup {NoPlan}]
         /\ live \in [Files -> 0 .. MaxRuns] /\ on \in SUBSET Services
         /\ up \in [Services -> Running] /\ stray \in BOOLEAN
         /\ Now \in Image /\ backup \in Image
         /\ backup.live \in [Files -> 0 .. MaxRuns]
         /\ backup.on \in SUBSET Services
         /\ backup.up \in [Services -> Running] /\ backup.stray \in BOOLEAN
         /\ pc # "idle" => /\ run >= 1 /\ plan[run] \in Plans
                           /\ Wanted \subseteq Services /\ Wanted # {}
                           /\ run \in DOMAIN marks
         /\ Planned(plan, run)
<1>1. /\ run \in 0 .. MaxRuns /\ run \in Nat /\ MaxRuns \in Nat
      /\ plan \in [0 .. MaxRuns -> Plans \cup {NoPlan}]
      /\ Now \in Image /\ backup \in Image
  BY RemoteAssumption DEF RInv, TypeOK, Now
<1>2. /\ live \in [Files -> 0 .. MaxRuns] /\ on \in SUBSET Services
      /\ up \in [Services -> Running] /\ stray \in BOOLEAN
  BY <1>1, ImageOf DEF Now
<1>3. /\ backup.live \in [Files -> 0 .. MaxRuns]
      /\ backup.on \in SUBSET Services
      /\ backup.up \in [Services -> Running] /\ backup.stray \in BOOLEAN
  BY <1>1, Images
<1>4. pc # "idle" => run \in DOMAIN marks /\ run >= 1
  BY <1>1 DEF RInv, TypeOK, Counts, Runs
<1>5. \A n \in 1 .. run : plan[n] \in Plans
  BY DEF RInv, Counts
<1>6. pc # "idle" => plan[run] \in Plans
  BY <1>1, <1>4, <1>5
<1>7. plan[0].on = {}
  BY DEF RInv, Counts, NoPlan
<1>8. Planned(plan, run)
  BY <1>1, <1>5, <1>7 DEF Planned
<1> QED BY <1>1, <1>2, <1>3, <1>4, <1>6, <1>8, PlanOn DEF Wanted

\* What a stop or a restart leaves of a service, and of the others.
LEMMA Leaves ==
  ASSUME RInv, NEW t \in Services, NEW v \in Running, LeftWith(t, v)
  PROVE  /\ up' \in [Services -> Running] /\ stray' \in BOOLEAN
         /\ \A s \in Services \ {t} : up'[s] = up[s]
         /\ t # "awg" => up'[t] = v /\ stray' = stray
         /\ Stays("awg") <=>
              up["awg"] # Down /\ (stray \/ live["awg0.conf"] = 0)
         /\ t = "awg" /\ Stays("awg") => up'["awg"] = up["awg"] /\ stray'
         /\ t = "awg" /\ ~Stays("awg") => up'["awg"] = v /\ ~stray'
<1>1. /\ up' = [up EXCEPT ![t] = IF Stays(t) THEN up[t] ELSE v]
      /\ stray' = IF t = "awg" THEN Stays(t) ELSE stray
  BY DEF LeftWith
<1>2. up \in [Services -> Running] /\ stray \in BOOLEAN
  BY Types
<1>3. t # "awg" => ~Stays(t)
  BY DEF Stays
<1>4. up'[t] = IF Stays(t) THEN up[t] ELSE v
  BY <1>1, <1>2
<1>5. up' \in [Services -> Running] /\ \A s \in Services \ {t} : up'[s] = up[s]
  BY <1>1, <1>2
<1>6. stray' \in BOOLEAN
  BY <1>1, <1>2 DEF Stays
<1>7. Stays("awg") <=> up["awg"] # Down /\ (stray \/ live["awg0.conf"] = 0)
  BY DEF Stays
<1> QED BY <1>1, <1>3, <1>4, <1>5, <1>6, <1>7

\* The script goes on and the server stays as it is.
LEMMA Steady ==
  ASSUME RInv, pc # "idle", pc' # "idle",
         UNCHANGED <<run, plan, live, on, up, stray, backup, marks, lame>>
  PROVE  /\ Backed' <=> Backed
         /\ Mixed' /\ TornTold' /\ MarksTell'
<1>1. Serves(Now)' = Serves(Now) /\ Serves(backup)' = Serves(backup)
  BY Reading DEF Now
<1>2. Backed' <=> Backed
  BY DEF Backed
<1>3. Mixed'
  BY <1>2 DEF RInv, Mixed
<1>4. TornTold'
  BY <1>1, <1>2 DEF RInv, TornTold, Excused
<1>5. MarksTell'
  BY DEF MarksTell
<1> QED BY <1>2, <1>3, <1>4, <1>5

\* Once there is a backup, it is what counts.
LEMMA Working ==
  ASSUME RInv, Backed, pc' # "idle",
         UNCHANGED <<run, plan, backup, marks>>, lame \subseteq lame',
         \A f \in Files \ Pair : live'[f] \in {live[f], backup.live[f], 0, run}
  PROVE  Backed' /\ Mixed' /\ TornTold' /\ MarksTell'
<1>1. Serves(backup)' = Serves(backup)
  BY Reading
<1>2. Backed'
  BY DEF Backed
<1>3. Mixed'
  BY <1>2 DEF RInv, Mixed
<1>4. TornTold'
  BY <1>1, <1>2 DEF RInv, TornTold, Excused
<1>5. MarksTell'
  BY DEF MarksTell
<1> QED BY <1>2, <1>3, <1>4, <1>5

\* The mark of the current apply changes.
LEMMA Marking ==
  ASSUME RInv, Backed, pc' # "idle", NEW w \in {"APPLIED", "ROLLED_BACK"},
         marks' = [marks EXCEPT ![run] = w],
         UNCHANGED <<run, plan, live, on, up, stray, backup, lame>>
  PROVE  /\ Backed' /\ Mixed' /\ TornTold' /\ MarksTell'
         /\ marks'[run'] = w
         /\ marks' \in [Runs -> {"none", "ready", "APPLIED", "ROLLED_BACK"}]
         /\ \A n \in Runs : n > run' => marks'[n] = "none"
<1>1. Serves(backup)' = Serves(backup)
  BY Reading
<1>2. run \in DOMAIN marks /\ run \in Nat
  BY Types DEF Backed
<1>3. marks'[run'] = w /\ \A n \in Runs : n # run => marks'[n] = marks[n]
  BY <1>2 DEF RInv, TypeOK
<1>4. Backed'
  BY <1>3 DEF Backed
<1>5. Mixed'
  BY <1>4 DEF RInv, Mixed
<1>6. Excused(run - 1) => Excused(run - 1)'
  <2> SUFFICES ASSUME Excused(run - 1), lame = {} PROVE Excused(run - 1)'
    BY DEF Excused
  <2>1. PICK n \in 1 .. (run - 1) : marks[n] = "ready"
    BY DEF Excused
  <2>2. n # run /\ n \in Runs
    BY <1>2, <2>1, Types DEF Runs
  <2>3. marks'[n] = "ready"
    BY <1>3, <2>1, <2>2
  <2> QED BY <2>1, <2>3 DEF Excused
<1>7. TornTold'
  BY <1>1, <1>4, <1>6 DEF RInv, TornTold
<1>8. MarksTell'
  BY DEF MarksTell
<1>9. marks' \in [Runs -> {"none", "ready", "APPLIED", "ROLLED_BACK"}]
  BY DEF RInv, TypeOK
<1>10. \A n \in Runs : n > run' => marks'[n] = "none"
  BY <1>2, <1>3 DEF RInv, Counts
<1> QED BY <1>3, <1>4, <1>5, <1>7, <1>8, <1>9, <1>10

-----------------------------------------------------------------------------
(***************************************************************************)
(* Before the switch.                                                      *)
(***************************************************************************)
LEMMA InitKeeps == Init => RInv
<1> SUFFICES ASSUME Init PROVE RInv
  OBVIOUS
<1>1. /\ MaxRuns \in Nat /\ MaxFaults \in Nat
  BY RemoteAssumption
<1>2. /\ Now = Empty /\ backup = Empty /\ Empty \in Image
  <2>1. /\ Empty.live \in [Files -> 0 .. MaxRuns]
        /\ Empty.on \in SUBSET Services
        /\ Empty.up \in [Services -> Running] /\ Empty.stray \in BOOLEAN
    BY <1>1 DEF Empty, Running
  <2>2. Empty \in Image
    BY <2>1, ImageOf DEF Empty
  <2> QED BY <2>2 DEF Init, Now, Empty
<1>3. TypeOK
  <2>1. Now \in Image /\ backup \in Image
    BY <1>2 DEF Now
  <2>2. plan \in [0 .. MaxRuns -> Plans \cup {NoPlan}]
    BY DEF Init
  <2>3. marks \in [Runs -> {"none", "ready", "APPLIED", "ROLLED_BACK"}]
    BY DEF Init
  <2>4. boot \in BOOLEAN /\ clean \in BOOLEAN
    BY DEF Init
  <2>5. /\ run \in 0 .. MaxRuns /\ at \in 1 .. 5 /\ stage \in 0 .. MaxRuns
        /\ faults \in 0 .. MaxFaults
    BY <1>1 DEF Init
  <2>6. /\ pc \in Parts /\ has \subseteq Services /\ lame \subseteq Runs
        /\ last \in {"none", "ok", "failed", "unrestored", "killed"}
    BY DEF Init, Parts
  <2> QED BY <2>1, <2>2, <2>3, <2>4, <2>5, <2>6 DEF TypeOK
<1>4. Counts /\ Marked /\ Switched /\ Faultless /\ FailsForAReason
  BY <1>1 DEF Init, Counts, Marked, Switched, Faultless, FailsForAReason,
              Before, Switching, Undoing, Runs, Empty
<1>5. ~Backed /\ Mixed /\ Undone /\ Clinging
  BY DEF Init, Backed, Mixed, Undone, Clinging
<1>6. Planned(plan, run)
  BY <1>1 DEF Init, Planned, NoPlan
<1>7. WholeIn(plan, 0, Now)
  <2>1. plan[0].on = {}
    BY <1>6 DEF Planned
  <2>2. /\ Now.on = {} /\ \A s \in Services : Now.up[s] = Down
        /\ \A f \in Files : Now.live[f] = 0
    BY <1>2 DEF Empty
  <2> QED BY <2>1, <2>2, ServiceFiles DEF WholeIn
<1>8. Serves(Now) # Torn
  BY <1>1, <1>2, <1>6, <1>7, ServesWhole, Reading DEF Init
<1>9. TornTold /\ MarksTell
  BY <1>5, <1>8 DEF TornTold, MarksTell, Init
<1> QED BY <1>3, <1>4, <1>5, <1>9 DEF RInv

LEMMA StartKeeps ==
  ASSUME RInv, NEW p \in Plans, Start(p)
  PROVE  RInv'
<1>1. /\ pc = "idle" /\ run < MaxRuns /\ run' = run + 1
      /\ plan' = [plan EXCEPT ![run + 1] = p]
      /\ stage' = 0 /\ clean' = TRUE /\ pc' = "bootstrap" /\ at' = 1
      /\ UNCHANGED <<live, on, up, stray, backup, marks, has, boot, last, lame, faults>>
  BY DEF Start, Enter, server
<1>2. /\ run \in Nat /\ MaxRuns \in Nat /\ run' \in Runs
      /\ plan \in [0 .. MaxRuns -> Plans \cup {NoPlan}]
  BY <1>1, Types DEF Runs
<1>3. /\ plan'[run + 1] = p /\ \A n \in 0 .. run : plan'[n] = plan[n]
      /\ plan' \in [0 .. MaxRuns -> Plans \cup {NoPlan}]
  BY <1>1, <1>2
<1>4. marks'[run'] = "none"
  BY <1>1, <1>2 DEF RInv, Counts
<1>5. TypeOK'
  BY <1>1, <1>2, <1>3 DEF RInv, TypeOK, Parts, Runs, Now
<1>6. Counts'
  <2>1. \A n \in 1 .. run' : plan'[n] \in Plans
    <3> SUFFICES ASSUME NEW n \in 1 .. run' PROVE plan'[n] \in Plans
      OBVIOUS
    <3>1. n \in 1 .. run \/ n = run + 1
      BY <1>1, <1>2
    <3> QED BY <1>2, <1>3, <3>1 DEF RInv, Counts
  <2>2. plan'[0] = NoPlan
    BY <1>2, <1>3 DEF RInv, Counts
  <2>3. \A n \in Runs : n > run' => marks'[n] = "none"
    BY <1>1, <1>2 DEF RInv, Counts, Runs
  <2>4. \A f \in Files : live'[f] <= run'
    BY <1>1, <1>2, Types DEF RInv, Counts
  <2> QED BY <1>1, <1>2, <2>1, <2>2, <2>3, <2>4 DEF Counts
<1>7. ~Backed' /\ Mixed' /\ Undone' /\ Clinging'
  BY <1>4 DEF Backed, Mixed, Undone, Clinging
<1>8. Serves(Now)' = Serves(Now)
  <2>1. \A f \in Files : Now.live[f] <= run
    BY DEF RInv, Counts, Now
  <2>2. ServesIn(plan', run', Now) = ServesIn(plan, run, Now)
    BY <1>1, <2>1, AskServes, Types
  <2> QED BY <1>1, <2>2, Reading DEF Now
<1>9. TornTold'
  <2>1. ~Backed
    BY <1>1 DEF Backed
  <2>2. Excused(run) => Excused(run)'
    BY <1>1, <1>2 DEF Excused
  <2> QED BY <1>7, <1>8, <2>1, <2>2 DEF RInv, TornTold
<1>10. Marked' /\ Switched' /\ Faultless' /\ MarksTell' /\ FailsForAReason'
  BY <1>1, <1>4 DEF Marked, Switched, Faultless, MarksTell, FailsForAReason,
                    Before, Switching, Undoing
<1> QED BY <1>5, <1>6, <1>7, <1>9, <1>10 DEF RInv

LEMMA BootstrapKeeps ==
  ASSUME RInv, Bootstrap
  PROVE  RInv'
<1>1. /\ pc = "bootstrap" /\ at' = 1
      /\ UNCHANGED <<run, plan, stage, live, on, up, stray, backup, marks, last, lame>>
  BY DEF Bootstrap, Enter, server
<1>2. /\ has' \in SUBSET Services /\ boot' \in BOOLEAN /\ clean' \in BOOLEAN
      /\ faults' \in 0 .. MaxFaults
      /\ \/ pc' = "validate" /\ (clean' => Wanted \subseteq has')
         \/ pc' = "fail" /\ ~clean'
  <2>1. Wanted \subseteq Services /\ has \subseteq Services /\ boot \in BOOLEAN
        /\ clean \in BOOLEAN /\ faults \in 0 .. MaxFaults /\ MaxFaults \in Nat
    BY <1>1, Types, RemoteAssumption DEF RInv, TypeOK
  <2>2. CASE boot /\ Wanted \subseteq has
    BY <2>1, <2>2 DEF Bootstrap, Enter, budget
  <2>3. CASE ~(boot /\ Wanted \subseteq has)
    <3>1. CASE /\ has' = has \cup Wanted /\ boot' = TRUE /\ UNCHANGED budget
               /\ Enter("validate")
      BY <2>1, <3>1 DEF Enter, budget
    <3>2. CASE /\ Spend("step")
               /\ has' \in {has \cup some : some \in SUBSET Wanted}
               /\ \/ boot' = TRUE /\ Enter("validate")
                  \/ UNCHANGED boot /\ Enter("fail")
      <4>1. has' \in SUBSET Services
        BY <2>1, <3>2
      <4>2. clean' = FALSE /\ faults' \in 0 .. MaxFaults
        BY <2>1, <3>2 DEF Spend
      <4>3. boot' \in BOOLEAN /\ (pc' = "validate" \/ pc' = "fail")
        BY <2>1, <3>2 DEF Enter
      <4> QED BY <4>1, <4>2, <4>3
    <3> QED BY <2>3, <3>1, <3>2 DEF Bootstrap
  <2> QED BY <2>2, <2>3
<1>3. /\ Backed' <=> Backed
      /\ Mixed' /\ TornTold' /\ MarksTell'
  BY <1>1, <1>2, Steady
<1>4. marks[run] = "none" /\ ~Backed
  BY <1>1 DEF RInv, Marked, Before, Backed
<1>5. TypeOK'
  BY <1>1, <1>2 DEF RInv, TypeOK, Parts, Now
<1>6. Counts'
  BY <1>1, <1>2 DEF RInv, Counts
<1>7. Marked' /\ Switched'
  BY <1>1, <1>2, <1>4 DEF Marked, Switched, Before, Switching, Undoing
<1>8. Undone' /\ Clinging'
  BY <1>3, <1>4 DEF Undone, Clinging
<1>9. Faultless' /\ FailsForAReason'
  BY <1>1, <1>2 DEF Faultless, FailsForAReason, Undoing, Wanted
<1> QED BY <1>3, <1>5, <1>6, <1>7, <1>8, <1>9 DEF RInv

LEMMA ValidateKeeps ==
  ASSUME RInv, Validate
  PROVE  RInv'
<1>1. /\ pc = "validate" /\ at' = 1
      /\ UNCHANGED <<run, plan, live, on, up, stray, backup, marks, has, boot, last,
                     lame, clean, faults>>
  BY DEF Validate, Enter, server, budget
<1>2. /\ pc' \in {"backup", "fail"} /\ (pc' = "fail" => stage' = stage)
      /\ pc' = "backup" =>
           stage' = IF Reusable THEN live["hysteria.crt"] ELSE run
      /\ pc' = "fail" =>
           ~(Wanted \subseteq has /\ ("hysteria" \in Wanted => PairStarts))
  BY DEF Validate, Enter, budget
<1>3. /\ Backed' <=> Backed
      /\ Mixed' /\ TornTold' /\ MarksTell'
  BY <1>1, <1>2, Steady
<1>4. marks[run] = "none" /\ ~Backed
  BY <1>1 DEF RInv, Marked, Before, Backed
<1>5. pc' = "backup" => stage' \in 1 .. run
  <2>1. Reusable => live["hysteria.crt"] \in 1 .. run
    BY Types DEF Reusable, RInv, Counts, Files
  <2> QED BY <1>1, <1>2, <2>1, Types
<1>6. TypeOK'
  BY <1>1, <1>2, <1>5, Types DEF RInv, TypeOK, Parts, Now
<1>7. Counts'
  BY <1>1, <1>2, <1>5 DEF RInv, Counts
<1>8. Marked' /\ Switched'
  BY <1>1, <1>2, <1>4 DEF Marked, Switched, Before, Switching, Undoing
<1>9. Undone' /\ Clinging'
  BY <1>3, <1>4 DEF Undone, Clinging
<1>10. Faultless' /\ FailsForAReason'
  BY <1>1, <1>2 DEF RInv, Faultless, FailsForAReason, Undoing, PairStarts
<1> QED BY <1>3, <1>6, <1>7, <1>8, <1>9, <1>10 DEF RInv

LEMMA PrepareBackupKeeps ==
  ASSUME RInv, PrepareBackup
  PROVE  RInv'
<1>1. /\ pc = "backup" /\ pc' = "files" /\ at' = 1 /\ backup' = Now
      /\ marks' = [marks EXCEPT ![run] = "ready"]
      /\ UNCHANGED <<run, plan, stage, live, on, up, stray, has, boot, last, lame,
                     clean, faults>>
  BY DEF PrepareBackup, Enter, server, budget, Now
<1>2. /\ run \in DOMAIN marks /\ run \in Nat /\ Now \in Image
      /\ live \in [Files -> 0 .. MaxRuns]
  BY <1>1, Types
<1>3. /\ marks'[run'] = "ready"
      /\ \A n \in Runs : n # run => marks'[n] = marks[n]
      /\ marks' \in [Runs -> {"none", "ready", "APPLIED", "ROLLED_BACK"}]
  BY <1>1, <1>2 DEF RInv, TypeOK
<1>4. Backed' /\ ~Backed /\ marks[run] = "none"
  BY <1>1, <1>3 DEF RInv, Marked, Before, Backed
<1>5. TypeOK'
  BY <1>1, <1>2, <1>3 DEF RInv, TypeOK, Parts, Now
<1>6. Counts'
  BY <1>1, <1>2, <1>3 DEF RInv, Counts
<1>7. Mixed'
  BY <1>1, <1>2 DEF RInv, Counts, Mixed, Now
<1>8. Serves(backup)' = Serves(Now)
  BY <1>1, Reading
<1>9. TornTold'
  <2>1. Excused(run) => Excused(run - 1)'
    <3> SUFFICES ASSUME Excused(run), lame = {} PROVE Excused(run - 1)'
      BY <1>1 DEF Excused
    <3>1. PICK n \in 1 .. run : marks[n] = "ready"
      BY DEF Excused
    <3>2. n # run /\ n \in Runs /\ n \in 1 .. (run - 1)
      BY <1>2, <1>4, <3>1, Types DEF Runs
    <3>3. marks'[n] = "ready"
      BY <1>3, <3>1, <3>2
    <3> QED BY <1>1, <3>2, <3>3 DEF Excused
  <2> QED BY <1>1, <1>4, <1>8, <2>1 DEF RInv, TornTold
<1>10. Marked' /\ Switched' /\ Undone' /\ MarksTell'
  BY <1>1, <1>3 DEF Marked, Switched, Undone, MarksTell, Before, Switching,
                    Undoing
<1>11. Faultless' /\ FailsForAReason' /\ Clinging'
  BY <1>1 DEF Faultless, FailsForAReason, Undoing, Clinging, Clings, Now
<1> QED BY <1>5, <1>6, <1>7, <1>9, <1>10, <1>11 DEF RInv

-----------------------------------------------------------------------------
(***************************************************************************)
(* The switch.                                                             *)
(***************************************************************************)
\* What is staged is from this apply, but for a pair that is used again.
LEMMA StagedFits ==
  ASSUME RInv, pc \in {"files", "services", "check"}, NEW f \in Files
  PROVE  /\ Staged(f) \in 0 .. run
         /\ f \notin Pair => Staged(f) \in {0, run}
         /\ Owner(f) \in Wanted => Staged(f) # 0
         /\ Owner(f) \notin Wanted => Staged(f) = 0
         /\ Owner(f) \in Wanted /\ f \in Pair => Staged(f) = stage
         /\ Owner(f) \in Wanted /\ f \notin Pair => Staged(f) = run
<1>1. run \in Nat /\ run >= 1
  BY Types
<1>2. stage \in 1 .. run
  BY DEF RInv, Counts
<1> QED BY <1>1, <1>2 DEF Staged, Pair

\* So a service that is wanted starts on the files of the switch.
LEMMA StagedStarts ==
  ASSUME RInv, pc \in {"services", "check"}, NEW s \in Wanted
  PROVE  Starts(s, live)
<1>1. s \in Services /\ FilesOf(s) \subseteq Files
  BY Types, ServiceFiles
<1>2. \A f \in FilesOf(s) : live[f] = Staged(f) /\ Owner(f) \in Wanted
  BY <1>1, ServiceFiles DEF RInv, Switched
<1>3. \A f \in FilesOf(s) : live[f] # 0
  BY <1>1, <1>2, StagedFits
<1>4. s = "hysteria" => live["hysteria.crt"] = live["hysteria.key"]
  <2> SUFFICES ASSUME s = "hysteria"
               PROVE  live["hysteria.crt"] = live["hysteria.key"]
    OBVIOUS
  <2>1. "hysteria.crt" \in FilesOf(s) \cap Pair
        /\ "hysteria.key" \in FilesOf(s) \cap Pair
    BY ServiceFiles DEF Pair
  <2> QED BY <1>1, <1>2, <2>1, StagedFits
<1> QED BY <1>3, <1>4 DEF Starts

LEMMA InstallFileKeeps ==
  ASSUME RInv, InstallFile
  PROVE  RInv'
<1> DEFINE g == FileAt(at)
<1>1. /\ pc = "files" /\ live' = [live EXCEPT ![g] = Staged(g)]
      /\ IF at < 5 THEN at' = at + 1 /\ pc' = "files"
                   ELSE pc' = "services" /\ at' = 1
      /\ UNCHANGED <<run, plan, stage, on, up, stray, backup, marks, has, boot, last,
                     lame, clean, faults>>
  BY DEF InstallFile, Advance, Enter, budget
<1>2. at \in 1 .. 5 /\ g \in Files
  BY Orders DEF RInv, TypeOK
<1>3. \A f \in Files : live'[f] = IF f = g THEN Staged(g) ELSE live[f]
  BY <1>1, <1>2, Types
<1> HIDE DEF g
<1>4. marks[run] = "ready" /\ Backed
  BY <1>1 DEF RInv, Marked, Switching, Backed
<1>5. \A f \in Files : live'[f] \in 0 .. run
  BY <1>1, <1>2, <1>3, StagedFits, Types DEF RInv, Counts
<1>6. Backed' /\ Mixed' /\ TornTold' /\ MarksTell'
  <2>1. \A f \in Files \ Pair : live'[f] \in {live[f], backup.live[f], 0, run}
    BY <1>1, <1>3, StagedFits
  <2> QED BY <1>1, <1>4, <2>1, Working
<1>7. \A f \in Files : Staged(f)' = Staged(f)
  BY <1>1 DEF Staged, Wanted
<1>8. TypeOK'
  <2>1. live' \in [Files -> 0 .. MaxRuns]
    <3>1. 0 .. run \subseteq 0 .. MaxRuns
      BY Types
    <3>2. live' \in [Files -> 0 .. run]
      <4>1. live' = [f \in Files |-> live'[f]]
        BY <1>1, Types
      <4> QED BY <1>5, <4>1
    <3> QED BY <3>1, <3>2
  <2>2. Now' \in Image
    BY <1>1, <2>1, Types, ImageOf DEF Now
  <2>3. at' \in 1 .. 5 /\ pc' \in Parts
    BY <1>1, <1>2 DEF Parts
  <2> QED BY <1>1, <2>2, <2>3 DEF RInv, TypeOK
<1>9. Counts'
  BY <1>1, <1>2, <1>5, Types DEF RInv, Counts
<1>10. Switched'
  <2>1. \A k \in 1 .. 5 : k < at => live[FileAt(k)] = Staged(FileAt(k))
    BY <1>1 DEF RInv, Switched
  <2>2. \A k \in 1 .. 5 : k <= at => live'[FileAt(k)] = Staged(FileAt(k))
    <3> SUFFICES ASSUME NEW k \in 1 .. 5, k <= at
                 PROVE  live'[FileAt(k)] = Staged(FileAt(k))
      OBVIOUS
    <3>1. CASE k = at
      BY <1>2, <1>3, <3>1 DEF g
    <3>2. CASE k < at
      BY <1>3, <2>1, <3>2, Orders
    <3> QED BY <1>2, <3>1, <3>2
  <2>3. CASE at < 5
    <3>1. \A k \in 1 .. 5 : k < at' => k <= at
      BY <1>1, <1>2, <2>3
    <3>2. \A k \in 1 .. 5 : k < at' => live'[FileAt(k)] = Staged(FileAt(k))'
      BY <1>7, <2>2, <3>1, Orders
    <3> QED BY <1>1, <2>3, <3>2 DEF Switched
  <2>4. CASE ~(at < 5)
    <3>1. \A k \in 1 .. 5 : k <= at
      BY <1>2, <2>4
    <3>2. \A f \in Files : live'[f] = Staged(f)'
      BY <1>7, <2>2, <3>1, Orders
    <3>3. \A k \in 1 .. 3 : ~(k < at')
      BY <1>1, <2>4
    <3> QED BY <1>1, <2>4, <3>2, <3>3 DEF Switched
  <2> QED BY <2>3, <2>4
<1>11. Marked'
  BY <1>1, <1>4 DEF Marked, Before, Switching
<1>12. Undone' /\ Faultless' /\ FailsForAReason'
  BY <1>1 DEF Undone, Faultless, FailsForAReason, Undoing
<1>13. Clinging'
  BY <1>1, <1>4 DEF RInv, Clinging, Clings
<1> QED BY <1>6, <1>8, <1>9, <1>10, <1>11, <1>12, <1>13 DEF RInv

\* What has been told to a service, in the order of the cases of ApplyService.
LEMMA ServiceTold ==
  ASSUME RInv, ApplyService, NEW t, t = ServiceAt(at)
  PROVE  /\ t \in Services /\ on' \in SUBSET Services
         /\ up' \in [Services -> Running] /\ stray' \in BOOLEAN
         /\ clean' \in BOOLEAN /\ faults' \in 0 .. MaxFaults
         /\ clean' => clean
         /\ \A s \in Services \ {t} : up'[s] = up[s] /\ (s \in on' <=> s \in on)
         /\ t # "awg" => stray' = stray
         /\ \/ /\ IF at < 3 THEN at' = at + 1 /\ pc' = "services"
                            ELSE pc' = "check" /\ at' = 1
               /\ Turned(t)'
            \/ /\ pc' = "restore" /\ at' = 1
               /\ clean' => stray' /\ up'["awg"] # Down
         /\ t = "awg" /\ up["awg"] # Down /\ (stray \/ live["awg0.conf"] = 0) =>
              up'["awg"] = up["awg"] /\ (stray => stray')
         /\ t = "awg" /\ live["awg0.conf"] # 0 /\ ~stray => ~stray'
<1> DEFINE A == up["awg"] # Down /\ (stray \/ live["awg0.conf"] = 0)
<1>1. /\ pc = "services" /\ UNCHANGED <<run, plan, stage, live>>
  BY DEF ApplyService
<1>2. t \in Services /\ at \in 1 .. 3
  BY <1>1, Orders DEF RInv, Counts
<1>3. /\ up \in [Services -> Running] /\ on \in SUBSET Services
      /\ stray \in BOOLEAN
      /\ Started(t, live) \in Running /\ Down \in Running
      /\ clean \in BOOLEAN /\ faults \in 0 .. MaxFaults /\ MaxFaults \in Nat
  BY <1>2, Types, StartedTyped, RemoteAssumption DEF Running, RInv, TypeOK
<1>4. /\ Wanted' = Wanted /\ Started(t, live)' = Started(t, live)
      /\ t \in Wanted => Starts(t, live)
  BY <1>1, StagedStarts DEF Wanted
<1>5. CASE /\ t \in Wanted /\ on' = on \cup {t} /\ UNCHANGED budget
           /\ Restart(t)
           /\ IF RestartFails(t) THEN Enter(Failure) ELSE Advance(3, "check")
  <2>1. /\ up' \in [Services -> Running] /\ stray' \in BOOLEAN
        /\ \A s \in Services \ {t} : up'[s] = up[s]
        /\ t # "awg" => up'[t] = Started(t, live) /\ stray' = stray
        /\ Stays("awg") <=> A
        /\ t = "awg" /\ Stays("awg") => up'["awg"] = up["awg"] /\ stray'
        /\ t = "awg" /\ ~Stays("awg") =>
             up'["awg"] = Started(t, live) /\ ~stray'
    BY <1>2, <1>3, <1>5, Leaves DEF Restart
  <2>2. UNCHANGED <<clean, faults>>
    BY <1>5 DEF budget
  <2>3. /\ on' \in SUBSET Services /\ t \in on'
        /\ \A s \in Services \ {t} : s \in on' <=> s \in on
    BY <1>2, <1>3, <1>5
  <2>4. RestartFails(t) <=> t = "awg" /\ A
    BY <1>4, <1>5, <2>1 DEF RestartFails
  <2>5. CASE t = "awg" /\ A
    <3>1. pc' = "restore" /\ at' = 1
      BY <1>1, <1>5, <2>4, <2>5 DEF Enter, Failure
    <3> QED BY <1>2, <1>3, <2>1, <2>2, <2>3, <2>5, <3>1
  <2>6. CASE ~(t = "awg" /\ A)
    <3>1. IF at < 3 THEN at' = at + 1 /\ pc' = "services"
                    ELSE pc' = "check" /\ at' = 1
      BY <1>1, <1>5, <2>4, <2>6 DEF Advance, Enter
    <3>2. up'[t] = Started(t, live) /\ (t = "awg" => ~stray')
      BY <2>1, <2>6
    <3>3. Turned(t)'
      BY <1>4, <1>5, <2>3, <3>2 DEF Turned
    <3> QED BY <1>2, <1>3, <2>1, <2>2, <2>3, <2>6, <3>1, <3>3
  <2> QED BY <2>5, <2>6
<1>6. CASE /\ t \in Wanted /\ on' = on \cup {t} /\ Spend("step")
           /\ Stop(t)
           /\ IF t = "awg" THEN Enter(Failure) ELSE Advance(3, "check")
  <2>1. /\ up' \in [Services -> Running] /\ stray' \in BOOLEAN
        /\ \A s \in Services \ {t} : up'[s] = up[s]
        /\ t # "awg" => up'[t] = Down /\ stray' = stray
        /\ Stays("awg") <=> A
        /\ t = "awg" /\ Stays("awg") => up'["awg"] = up["awg"] /\ stray'
        /\ t = "awg" /\ ~Stays("awg") => up'["awg"] = Down /\ ~stray'
    BY <1>2, <1>3, <1>6, Leaves DEF Stop
  <2>2. ~clean' /\ clean' \in BOOLEAN
    <3>1. clean' = FALSE
      BY <1>6 DEF Spend
    <3> QED BY <3>1
  <2>3. faults' \in 0 .. MaxFaults
    BY <1>3, <1>6 DEF Spend
  <2>4. /\ on' \in SUBSET Services /\ t \in on'
        /\ \A s \in Services \ {t} : s \in on' <=> s \in on
    BY <1>2, <1>3, <1>6
  <2>5. CASE t = "awg"
    <3>1. pc' = "restore" /\ at' = 1
      BY <1>1, <1>6, <2>5 DEF Enter, Failure
    <3> QED BY <1>2, <2>1, <2>2, <2>3, <2>4, <2>5, <3>1
  <2>6. CASE t # "awg"
    <3>1. IF at < 3 THEN at' = at + 1 /\ pc' = "services"
                    ELSE pc' = "check" /\ at' = 1
      BY <1>1, <1>6, <2>6 DEF Advance, Enter
    <3>2. Turned(t)'
      BY <1>4, <1>6, <2>1, <2>2, <2>6 DEF Turned
    <3> QED BY <1>2, <2>1, <2>2, <2>3, <2>4, <2>6, <3>1, <3>2
  <2> QED BY <2>5, <2>6
<1>7. CASE /\ t \notin Wanted /\ on' = on \ {t} /\ UNCHANGED budget
           /\ Stop(t) /\ Advance(3, "check")
  <2>1. /\ up' \in [Services -> Running] /\ stray' \in BOOLEAN
        /\ \A s \in Services \ {t} : up'[s] = up[s]
        /\ t # "awg" => up'[t] = Down /\ stray' = stray
        /\ Stays("awg") <=> A
        /\ t = "awg" /\ Stays("awg") => up'["awg"] = up["awg"] /\ stray'
        /\ t = "awg" /\ ~Stays("awg") => up'["awg"] = Down /\ ~stray'
    BY <1>2, <1>3, <1>7, Leaves DEF Stop
  <2>2. UNCHANGED <<clean, faults>>
    BY <1>7 DEF budget
  <2>3. /\ on' \in SUBSET Services /\ t \notin on'
        /\ \A s \in Services \ {t} : s \in on' <=> s \in on
    BY <1>2, <1>3, <1>7
  <2>4. IF at < 3 THEN at' = at + 1 /\ pc' = "services"
                  ELSE pc' = "check" /\ at' = 1
    BY <1>1, <1>7 DEF Advance, Enter
  <2>5. Turned(t)'
    BY <1>4, <1>7, <2>1, <2>3 DEF Turned, Gone
  <2> QED BY <1>2, <1>3, <2>1, <2>2, <2>3, <2>4, <2>5
<1>8. CASE /\ t \notin Wanted /\ on' \in {on, on \ {t}} /\ Spend("step")
           /\ Stop(t) \/ UNCHANGED <<up, stray>>
           /\ Advance(3, "check")
  <2>1. /\ up' \in [Services -> Running] /\ stray' \in BOOLEAN
        /\ \A s \in Services \ {t} : up'[s] = up[s]
        /\ t # "awg" => stray' = stray
        /\ t = "awg" /\ A => up'["awg"] = up["awg"] /\ (stray => stray')
        /\ t = "awg" /\ live["awg0.conf"] # 0 /\ ~stray => ~stray'
    <3>1. CASE Stop(t)
      BY <1>2, <1>3, <3>1, Leaves DEF Stop
    <3>2. CASE UNCHANGED <<up, stray>>
      BY <1>3, <3>2
    <3> QED BY <1>8, <3>1, <3>2
  <2>2. ~clean' /\ clean' \in BOOLEAN
    <3>1. clean' = FALSE
      BY <1>8 DEF Spend
    <3> QED BY <3>1
  <2>3. faults' \in 0 .. MaxFaults
    BY <1>3, <1>8 DEF Spend
  <2>4. /\ on' \in SUBSET Services
        /\ \A s \in Services \ {t} : s \in on' <=> s \in on
    BY <1>2, <1>3, <1>8
  <2>5. IF at < 3 THEN at' = at + 1 /\ pc' = "services"
                  ELSE pc' = "check" /\ at' = 1
    BY <1>1, <1>8 DEF Advance, Enter
  <2>6. Turned(t)'
    BY <1>4, <1>8, <2>2 DEF Turned
  <2> QED BY <1>2, <2>1, <2>2, <2>3, <2>4, <2>5, <2>6
<1> QED BY <1>5, <1>6, <1>7, <1>8 DEF ApplyService

LEMMA ApplyServiceKeeps ==
  ASSUME RInv, ApplyService
  PROVE  RInv'
<1>0. PICK t : t = ServiceAt(at)
  OBVIOUS
<1>1. /\ pc = "services"
      /\ UNCHANGED <<run, plan, stage, live, backup, marks, has, boot, last,
                     lame>>
  BY DEF ApplyService
<1>2. at \in 1 .. 3 /\ t \in Services
  BY <1>0, <1>1, Orders DEF RInv, Counts
<1>3. t = "awg" <=> at = 3
  BY <1>0, <1>2 DEF ServiceAt
<1>4. /\ on' \in SUBSET Services
      /\ up' \in [Services -> Running] /\ stray' \in BOOLEAN
      /\ clean' \in BOOLEAN /\ faults' \in 0 .. MaxFaults
      /\ clean' => clean
      /\ \A s \in Services \ {t} : up'[s] = up[s] /\ (s \in on' <=> s \in on)
      /\ t # "awg" => stray' = stray
      /\ \/ /\ IF at < 3 THEN at' = at + 1 /\ pc' = "services"
                         ELSE pc' = "check" /\ at' = 1
            /\ Turned(t)'
         \/ /\ pc' = "restore" /\ at' = 1
            /\ clean' => stray' /\ up'["awg"] # Down
      /\ t = "awg" /\ up["awg"] # Down /\ (stray \/ live["awg0.conf"] = 0) =>
           up'["awg"] = up["awg"] /\ (stray => stray')
      /\ t = "awg" /\ live["awg0.conf"] # 0 /\ ~stray => ~stray'
  BY <1>0, ServiceTold
<1>5. marks[run] = "ready" /\ Backed
  BY <1>1 DEF RInv, Marked, Switching, Backed
<1>6. Backed' /\ Mixed' /\ TornTold' /\ MarksTell'
  <2>1. pc' # "idle"
    BY <1>4
  <2> QED BY <1>1, <1>5, <2>1, Working
<1>7. TypeOK'
  <2>1. Now' \in Image
    BY <1>1, <1>4, Types, ImageOf DEF Now
  <2>2. at' \in 1 .. 5 /\ pc' \in Parts
    BY <1>1, <1>2, <1>4 DEF Parts
  <2> QED BY <1>1, <1>4, <2>1, <2>2 DEF RInv, TypeOK
<1>8. Counts'
  BY <1>1, <1>2, <1>4 DEF RInv, Counts
<1>9. Switched'
  <2>1. \A f \in Files : live'[f] = Staged(f)'
    BY <1>1 DEF RInv, Switched, Staged, Wanted
  <2>2. \A s \in Services : Started(s, live)' = Started(s, live)
    BY <1>1
  <2>3. Wanted' = Wanted
    BY <1>1 DEF Wanted
  <2>4. CASE pc' = "restore"
    BY <2>4 DEF Switched
  <2>5. CASE /\ IF at < 3 THEN at' = at + 1 /\ pc' = "services"
                          ELSE pc' = "check" /\ at' = 1
             /\ Turned(t)'
    <3>1. \A k \in 1 .. 3 : k < at => Turned(ServiceAt(k))
      BY <1>1 DEF RInv, Switched
    <3>2. \A k \in 1 .. 3 : k < at => Turned(ServiceAt(k))'
      <4> SUFFICES ASSUME NEW k \in 1 .. 3, k < at
                   PROVE  Turned(ServiceAt(k))'
        OBVIOUS
      <4>1. /\ ServiceAt(k) \in Services \ {t} /\ ServiceAt(k) # "awg"
        BY <1>0, <1>2, Orders DEF ServiceAt
      <4> QED BY <1>4, <2>2, <2>3, <3>1, <4>1 DEF Turned, Gone
    <3>3. \A k \in 1 .. 3 : k <= at => Turned(ServiceAt(k))'
      BY <1>0, <1>2, <2>5, <3>2
    <3>4. CASE at < 3
      <4>1. \A k \in 1 .. 3 : k < at' => k <= at
        BY <1>2, <2>5, <3>4
      <4>2. \A k \in 1 .. 3 : k < at' => Turned(ServiceAt(k))'
        BY <3>3, <4>1
      <4> QED BY <2>1, <2>5, <3>4, <4>2 DEF Switched
    <3>5. CASE ~(at < 3)
      <4>1. \A k \in 1 .. 3 : k <= at
        BY <1>2, <3>5
      <4>2. \A s \in Services : Turned(s)'
        BY <3>3, <4>1, Orders
      <4> QED BY <2>1, <2>5, <3>5, <4>2 DEF Switched
    <3> QED BY <3>4, <3>5
  <2> QED BY <1>4, <2>4, <2>5
<1>10. Marked'
  BY <1>1, <1>4, <1>5 DEF Marked, Before, Switching, Undoing
<1>11. Undone'
  <2>1. pc' = "restore" => \A k \in 1 .. 5 : ~(k < at')
    BY <1>4
  <2> QED BY <1>4, <2>1 DEF Undone
<1>12. Faultless' /\ FailsForAReason'
  BY <1>4 DEF Faultless, FailsForAReason, Undoing
<1>13. Clinging'
  <2> SUFFICES ASSUME run \notin lame PROVE Clinging'
    BY <1>1 DEF Clinging
  <2>1. /\ up["awg"] = backup.up["awg"] /\ stray = backup.stray
    BY <1>1, <1>5 DEF RInv, Clinging
  <2>2. t # "awg" => up'["awg"] = up["awg"] /\ stray' = stray
    BY <1>4 DEF Services
  <2>3. pc' = "services" => t # "awg"
    BY <1>2, <1>3, <1>4
  <2>4. Clings' => stray' /\ up'["awg"] = backup.up["awg"]
    <3> SUFFICES ASSUME Clings', t = "awg"
                 PROVE  stray' /\ up'["awg"] = backup.up["awg"]
      BY <1>1, <2>1, <2>2 DEF Clings
    <3>1. CASE stray
      BY <1>1, <1>4, <2>1, <3>1 DEF Clings
    <3>2. CASE ~stray
      BY <1>1, <1>4, <2>1, <3>2 DEF Clings
    <3> QED BY <3>1, <3>2
  <2> QED BY <1>1, <2>1, <2>2, <2>3, <2>4, <1>4 DEF Clinging
<1> QED BY <1>6, <1>7, <1>8, <1>9, <1>10, <1>11, <1>12, <1>13 DEF RInv

\* What has passed the check is served as a whole.
LEMMA Checked ==
  ASSUME RInv, pc = "check", on = Wanted,
         Active(Now) = Wanted
  PROVE  Whole(run, Now)
<1>1. /\ Now.on = plan[run].on /\ Now.live = live /\ Now.up = up /\ Now.on = on
      /\ Now.stray = stray /\ on \subseteq Services
  BY Types DEF Now, Wanted
<1>2. \A s \in Services \ on :
        /\ \A f \in FilesOf(s) : live[f] = 0
        /\ up[s] = Down \/ (s = "awg" /\ stray)
  BY <1>1, ServiceFiles, StagedFits DEF RInv, Switched, Active
<1>3. \A s \in on :
        /\ Starts(s, live) /\ up[s] = Loaded(s, live)
        /\ \A f \in FilesOf(s) \ {"hysteria.crt", "hysteria.key"} :
             live[f] = run
  <2> SUFFICES ASSUME NEW s \in on
               PROVE  /\ Starts(s, live) /\ up[s] = Loaded(s, live)
                      /\ \A f \in FilesOf(s) \ {"hysteria.crt", "hysteria.key"} :
                           live[f] = run
    OBVIOUS
  <2>1. s \in Services /\ s \in Wanted /\ Turned(s) /\ Starts(s, live)
    BY <1>1, StagedStarts DEF RInv, Switched
  <2>2. up[s] = Loaded(s, live)
    BY <1>1, <2>1 DEF Turned, Started, Active
  <2>3. \A f \in FilesOf(s) \ {"hysteria.crt", "hysteria.key"} : live[f] = run
    BY <2>1, ServiceFiles, StagedFits DEF RInv, Switched, Pair
  <2> QED BY <2>1, <2>2, <2>3
<1> QED BY <1>1, <1>2, <1>3 DEF Whole

LEMMA CheckServicesKeeps ==
  ASSUME RInv, CheckServices
  PROVE  RInv'
<1> DEFINE Good == on = Wanted /\ Active(Now) = Wanted
<1>1. /\ pc = "check" /\ at' = 1
      /\ pc' = IF Good THEN "mark" ELSE "restore"
      /\ UNCHANGED <<run, plan, stage, live, on, up, stray, backup, marks, has, boot,
                     last, lame, clean, faults>>
  BY DEF CheckServices, Enter, Failure, server, budget
<1>2. Good => Whole(run, Now)
  BY <1>1, Checked
<1>3. clean => Good
  <2> SUFFICES ASSUME clean PROVE Good
    OBVIOUS
  <2>1. \A s \in Services : Turned(s)
    BY <1>1 DEF RInv, Switched
  <2>2. on = Wanted
    BY <1>1, <2>1, Types DEF Turned
  <2>3. \A s \in Wanted : Started(s, live) # Down
    BY <1>1, StagedStarts, StartedTyped, Types
  <2>4. \A s \in Services : s \in Active(Now) <=> s \in Wanted
    BY <2>1, <2>3 DEF Turned, Gone, Active, Now
  <2> QED BY <2>2, <2>4, Types DEF Active
<1> HIDE DEF Good
<1>4. marks[run] = "ready" /\ Backed
  BY <1>1 DEF RInv, Marked, Switching, Backed
<1>5. Backed' /\ Mixed' /\ TornTold' /\ MarksTell'
  BY <1>1, <1>4, Steady
<1>6. TypeOK'
  BY <1>1 DEF RInv, TypeOK, Parts, Now
<1>7. Counts'
  BY <1>1 DEF RInv, Counts
<1>8. Marked'
  BY <1>1, <1>4 DEF Marked, Before, Switching, Undoing
<1>9. Switched'
  <2>1. Good => Whole(run, Now)'
    BY <1>1, <1>2 DEF Whole, Now
  <2> QED BY <1>1, <2>1 DEF Switched
<1>10. Undone'
  <2>1. \A k \in 1 .. 5 : ~(k < at')
    BY <1>1
  <2> QED BY <1>1, <2>1 DEF Undone
<1>11. Faultless' /\ FailsForAReason'
  BY <1>1, <1>3 DEF Faultless, FailsForAReason, Undoing
<1>12. Clinging'
  BY <1>1, <1>4 DEF RInv, Clinging, Clings
<1> QED BY <1>5, <1>6, <1>7, <1>8, <1>9, <1>10, <1>11, <1>12 DEF RInv

LEMMA MarkAppliedKeeps ==
  ASSUME RInv, MarkApplied
  PROVE  RInv'
<1>1. /\ pc = "mark" /\ pc' = "prune" /\ at' = 1
      /\ marks' = [marks EXCEPT ![run] = "APPLIED"]
      /\ UNCHANGED <<run, plan, stage, live, on, up, stray, backup, has, boot, last,
                     lame, clean, faults>>
  BY DEF MarkApplied, Enter, server, budget
<1>2. Backed
  BY <1>1 DEF RInv, Marked, Switching, Backed
<1>3. /\ Backed' /\ Mixed' /\ TornTold' /\ MarksTell'
      /\ marks'[run] = "APPLIED"
      /\ marks' \in [Runs -> {"none", "ready", "APPLIED", "ROLLED_BACK"}]
      /\ \A n \in Runs : n > run' => marks'[n] = "none"
  BY <1>1, <1>2, Marking
<1>4. TypeOK'
  BY <1>1, <1>3 DEF RInv, TypeOK, Parts, Now
<1>5. Counts'
  BY <1>1, <1>3 DEF RInv, Counts
<1>6. Marked'
  BY <1>1, <1>3 DEF Marked, Before, Switching, Undoing
<1>7. Switched'
  BY <1>1 DEF RInv, Switched, Whole, Now
<1>8. Undone' /\ Faultless' /\ FailsForAReason'
  BY <1>1 DEF Undone, Faultless, FailsForAReason, Undoing
<1>9. Clinging'
  BY <1>1, <1>2 DEF RInv, Clinging, Clings
<1> QED BY <1>3, <1>4, <1>5, <1>6, <1>7, <1>8, <1>9 DEF RInv

-----------------------------------------------------------------------------
(***************************************************************************)
(* The rollback.                                                           *)
(***************************************************************************)
LEMMA StepFailsKeeps ==
  ASSUME RInv, StepFails
  PROVE  RInv'
<1>1. /\ pc \in {"validate", "backup", "files", "services", "mark"}
      /\ pc' = Failure /\ at' = 1 /\ clean' = FALSE
      /\ UNCHANGED <<run, plan, stage, live, on, up, stray, backup, marks, has, boot,
                     last, lame>>
  BY DEF StepFails, Spend, Enter, server
<1>2. ~clean' /\ clean' \in BOOLEAN
  BY <1>1
<1>3. faults' \in 0 .. MaxFaults
  BY RemoteAssumption DEF StepFails, Spend, RInv, TypeOK
<1>4. \/ pc \in {"validate", "backup"} /\ pc' = "fail" /\ marks[run] = "none"
      \/ pc \in Switching /\ pc' = "restore" /\ marks[run] = "ready"
  BY <1>1 DEF Failure, RInv, Marked, Before, Switching
<1>5. /\ Backed' <=> Backed
      /\ Mixed' /\ TornTold' /\ MarksTell'
  BY <1>1, <1>4, Steady
<1>6. TypeOK'
  BY <1>1, <1>2, <1>3, <1>4 DEF RInv, TypeOK, Parts, Now
<1>7. Counts'
  BY <1>1, <1>4 DEF RInv, Counts
<1>8. Marked' /\ Switched'
  BY <1>1, <1>4 DEF Marked, Switched, Before, Switching, Undoing
<1>9. Undone'
  <2>1. \A k \in 1 .. 5 : ~(k < at')
    BY <1>1
  <2> QED BY <1>1, <1>4, <2>1 DEF Undone, Backed
<1>10. Faultless' /\ FailsForAReason'
  BY <1>2, <1>4 DEF Faultless, FailsForAReason
<1>11. Clinging'
  BY <1>1, <1>4, <1>5 DEF RInv, Clinging, Clings
<1> QED BY <1>5, <1>6, <1>7, <1>8, <1>9, <1>10, <1>11 DEF RInv

LEMMA RestoreFileKeeps ==
  ASSUME RInv, RestoreFile
  PROVE  RInv'
<1> DEFINE g == FileAt(at)
<1>1. /\ pc = "restore"
      /\ IF at < 5 THEN at' = at + 1 /\ pc' = "restore"
                   ELSE pc' = "revive" /\ at' = 1
      /\ UNCHANGED <<run, plan, stage, on, up, stray, backup, marks, has, boot, last>>
  BY DEF RestoreFile, Advance, Enter
<1>2. at \in 1 .. 5 /\ g \in Files
  BY Orders DEF RInv, TypeOK
<1>3. /\ clean => stray /\ up["awg"] # Down
      /\ clean \in BOOLEAN /\ faults \in 0 .. MaxFaults
  BY <1>1 DEF RInv, Faultless, Undoing, TypeOK
<1>4. \/ /\ live' = [live EXCEPT ![g] = backup.live[g]]
         /\ UNCHANGED <<lame, clean, faults>>
      \/ Spend("restore") /\ lame' = lame \cup {run} /\ live' = live
  BY DEF RestoreFile, budget
<1>5. (clean' => clean) /\ clean' \in BOOLEAN /\ faults' \in 0 .. MaxFaults
  <2>1. CASE UNCHANGED <<lame, clean, faults>>
    BY <1>3, <2>1
  <2>2. CASE Spend("restore")
    <3>1. clean' = FALSE
      BY <2>2 DEF Spend
    <3>2. faults' \in 0 .. MaxFaults
      BY <1>3, <2>2, RemoteAssumption DEF Spend
    <3> QED BY <3>1, <3>2
  <2> QED BY <1>4, <2>1, <2>2
<1>6. /\ live' \in [Files -> 0 .. MaxRuns]
      /\ \A f \in Files : f # g => live'[f] = live[f]
      /\ live'[g] \in {live[g], backup.live[g]}
      /\ run \in lame' \/ live'[g] = backup.live[g]
      /\ lame \subseteq lame' /\ lame' \subseteq lame \cup {run}
  <2> HIDE DEF g
  <2> QED BY <1>2, <1>4, Types
<1> HIDE DEF g
<1>7. marks[run] = "ready" /\ Backed /\ run \in Runs
  BY <1>1 DEF RInv, Marked, Undoing, Backed, Counts
<1>8. Backed' /\ Mixed' /\ TornTold' /\ MarksTell'
  <2>1. \A f \in Files \ Pair : live'[f] \in {live[f], backup.live[f], 0, run}
    BY <1>6
  <2> QED BY <1>1, <1>6, <1>7, <2>1, Working
<1>9. TypeOK'
  <2>1. Now' \in Image
    BY <1>1, <1>6, Types, ImageOf DEF Now
  <2>2. at' \in 1 .. 5 /\ pc' \in Parts
    BY <1>1, <1>2 DEF Parts
  <2>3. lame' \subseteq Runs
    BY <1>6, <1>7 DEF RInv, TypeOK
  <2> QED BY <1>1, <1>5, <2>1, <2>2, <2>3 DEF RInv, TypeOK
<1>10. Counts'
  <2>1. \A f \in Files : live'[f] <= run
    BY <1>6, <1>7 DEF RInv, Counts, Mixed
  <2> QED BY <1>1, <2>1 DEF RInv, Counts
<1>11. Marked' /\ Switched' /\ Faultless' /\ FailsForAReason'
  BY <1>1, <1>3, <1>5, <1>7 DEF Marked, Switched, Faultless, FailsForAReason, Before,
                         Switching, Undoing
<1>12. Undone'
  <2> SUFFICES ASSUME run \notin lame'
               PROVE  /\ pc' = "restore" =>
                           \A k \in 1 .. 5 : k < at' =>
                             live'[FileAt(k)] = backup.live[FileAt(k)]
                      /\ pc' = "revive" => /\ live' = backup.live
                                           /\ \A k \in 1 .. 3 : ~(k < at')
    BY <1>1 DEF Undone
  <2>1. \A k \in 1 .. 5 : k < at => live[FileAt(k)] = backup.live[FileAt(k)]
    BY <1>1, <1>6, <1>7 DEF RInv, Undone
  <2>2. \A k \in 1 .. 5 : k <= at =>
          live'[FileAt(k)] = backup.live[FileAt(k)]
    <3> SUFFICES ASSUME NEW k \in 1 .. 5, k <= at
                 PROVE  live'[FileAt(k)] = backup.live[FileAt(k)]
      OBVIOUS
    <3>1. k < at \/ FileAt(k) = g
      BY <1>2 DEF g
    <3> QED BY <1>6, <2>1, <3>1, Orders
  <2>3. CASE at < 5
    <3>1. \A k \in 1 .. 5 : k < at' => k <= at
      BY <1>1, <1>2, <2>3
    <3> QED BY <1>1, <2>2, <2>3, <3>1
  <2>4. CASE ~(at < 5)
    <3>1. \A k \in 1 .. 5 : k <= at
      BY <1>2, <2>4
    <3>2. \A f \in Files : live'[f] = backup.live[f]
      BY <2>2, <3>1, Orders
    <3>3. live' = backup.live
      BY <1>6, <3>2, Types
    <3> QED BY <1>1, <2>4, <3>3
  <2> QED BY <2>3, <2>4
<1>13. Clinging'
  BY <1>1, <1>6, <1>7 DEF RInv, Clinging, Clings
<1> QED BY <1>8, <1>9, <1>10, <1>11, <1>12, <1>13 DEF RInv

\* What a service has been told in the rollback.
LEMMA ServiceUntold ==
  ASSUME RInv, RestoreService, NEW t, t = ServiceAt(at)
  PROVE  /\ t \in Services /\ on' \in SUBSET Services
         /\ up' \in [Services -> Running] /\ stray' \in BOOLEAN
         /\ \A s \in Services \ {t} : up'[s] = up[s] /\ (s \in on' <=> s \in on)
         /\ t # "awg" => stray' = stray
         /\ stray /\ up["awg"] # Down => stray' /\ up'["awg"] = up["awg"]
         /\ run \notin lame' =>
              /\ t \in on' <=> t \in backup.on
              /\ t \in Active(backup) =>
                   \/ up'[t] = Started(t, live) /\ (t = "awg" => ~stray')
                   \/ /\ t = "awg" /\ stray' /\ up'["awg"] = up["awg"]
                      /\ up["awg"] # Down /\ (stray \/ live["awg0.conf"] = 0)
              /\ t \notin Active(backup) => Gone(t)'
         /\ lame \subseteq lame' /\ lame' \subseteq lame \cup {run}
<1>1. t \in Services /\ pc = "revive" /\ live' = live
  BY Orders DEF RestoreService, RInv, Counts
<1>2. /\ up \in [Services -> Running] /\ on \in SUBSET Services
      /\ stray \in BOOLEAN
      /\ Started(t, live) \in Running /\ Down \in Running
  BY <1>1, Types, StartedTyped DEF Running
<1>3. CASE /\ on' = IF t \in backup.on THEN on \cup {t} ELSE on \ {t}
           /\ IF t \in Active(backup) THEN Restart(t) ELSE Stop(t)
           /\ UNCHANGED <<lame, budget>>
  <2>1. /\ on' \in SUBSET Services /\ (t \in on' <=> t \in backup.on)
        /\ \A s \in Services \ {t} : s \in on' <=> s \in on
    BY <1>1, <1>2, <1>3
  <2>2. CASE t \in Active(backup)
    <3>1. /\ up' \in [Services -> Running] /\ stray' \in BOOLEAN
          /\ \A s \in Services \ {t} : up'[s] = up[s]
          /\ t # "awg" => up'[t] = Started(t, live) /\ stray' = stray
          /\ Stays("awg") <=>
               up["awg"] # Down /\ (stray \/ live["awg0.conf"] = 0)
          /\ t = "awg" /\ Stays("awg") => up'["awg"] = up["awg"] /\ stray'
          /\ t = "awg" /\ ~Stays("awg") =>
               up'["awg"] = Started(t, live) /\ ~stray'
      BY <1>1, <1>2, <1>3, <2>2, Leaves DEF Restart
    <3>2. stray /\ up["awg"] # Down => stray' /\ up'["awg"] = up["awg"]
      <4>1. "awg" \in Services
        BY DEF Services
      <4> QED BY <3>1, <4>1
    <3>3. \/ up'[t] = Started(t, live) /\ (t = "awg" => ~stray')
          \/ /\ t = "awg" /\ stray' /\ up'["awg"] = up["awg"]
             /\ up["awg"] # Down /\ (stray \/ live["awg0.conf"] = 0)
      BY <3>1
    <3> QED BY <1>1, <1>3, <2>1, <2>2, <3>1, <3>2, <3>3
  <2>3. CASE t \notin Active(backup)
    <3>1. /\ up' \in [Services -> Running] /\ stray' \in BOOLEAN
          /\ \A s \in Services \ {t} : up'[s] = up[s]
          /\ t # "awg" => up'[t] = Down /\ stray' = stray
          /\ Stays("awg") <=>
               up["awg"] # Down /\ (stray \/ live["awg0.conf"] = 0)
          /\ t = "awg" /\ Stays("awg") => up'["awg"] = up["awg"] /\ stray'
          /\ t = "awg" /\ ~Stays("awg") => up'["awg"] = Down /\ ~stray'
      BY <1>1, <1>2, <1>3, <2>3, Leaves DEF Stop
    <3>2. stray /\ up["awg"] # Down => stray' /\ up'["awg"] = up["awg"]
      <4>1. "awg" \in Services
        BY DEF Services
      <4> QED BY <3>1, <4>1
    <3>3. Gone(t)'
      BY <3>1 DEF Gone
    <3> QED BY <1>1, <1>3, <2>1, <2>3, <3>1, <3>2, <3>3
  <2> QED BY <2>2, <2>3
<1>4. CASE /\ Spend("restore") /\ lame' = lame \cup {run} /\ UNCHANGED on
           /\ Stop(t) \/ UNCHANGED <<up, stray>>
  <2>1. /\ up' \in [Services -> Running] /\ stray' \in BOOLEAN
        /\ \A s \in Services \ {t} : up'[s] = up[s]
        /\ t # "awg" => stray' = stray
        /\ stray /\ up["awg"] # Down => stray' /\ up'["awg"] = up["awg"]
    <3>1. CASE Stop(t)
      <4>1. "awg" \in Services
        BY DEF Services
      <4> QED BY <1>1, <1>2, <3>1, <4>1, Leaves DEF Stop
    <3>2. CASE UNCHANGED <<up, stray>>
      BY <1>2, <3>2
    <3> QED BY <1>4, <3>1, <3>2
  <2>2. run \in lame' /\ lame \subseteq lame' /\ lame' \subseteq lame \cup {run}
    BY <1>4
  <2> QED BY <1>1, <1>2, <1>4, <2>1, <2>2
<1> QED BY <1>3, <1>4 DEF RestoreService

LEMMA RestoreServiceKeeps ==
  ASSUME RInv, RestoreService
  PROVE  RInv'
<1>0. PICK t : t = ServiceAt(at)
  OBVIOUS
<1>1. /\ pc = "revive"
      /\ IF at < 3 THEN at' = at + 1 /\ pc' = "revive"
                   ELSE pc' = "mark_rollback" /\ at' = 1
      /\ UNCHANGED <<run, plan, stage, live, backup, marks, has, boot, last>>
  BY DEF RestoreService, Advance, Enter
<1>2. at \in 1 .. 3 /\ t \in Services
  BY <1>0, <1>1, Orders DEF RInv, Counts
<1>3. /\ clean => stray /\ up["awg"] # Down
      /\ clean \in BOOLEAN /\ faults \in 0 .. MaxFaults
  BY <1>1 DEF RInv, Faultless, Undoing, TypeOK
<1>4. (clean' => clean) /\ clean' \in BOOLEAN /\ faults' \in 0 .. MaxFaults
  <2>1. CASE UNCHANGED <<lame, budget>>
    BY <1>3, <2>1 DEF budget
  <2>2. CASE Spend("restore")
    <3>1. clean' = FALSE
      BY <2>2 DEF Spend
    <3>2. faults' \in 0 .. MaxFaults
      BY <1>3, <2>2, RemoteAssumption DEF Spend
    <3> QED BY <3>1, <3>2
  <2> QED BY <2>1, <2>2 DEF RestoreService
<1>5. marks[run] = "ready" /\ Backed /\ run \in Runs
  BY <1>1 DEF RInv, Marked, Undoing, Backed, Counts
<1>6. /\ on' \in SUBSET Services
      /\ up' \in [Services -> Running] /\ stray' \in BOOLEAN
      /\ \A s \in Services \ {t} : up'[s] = up[s] /\ (s \in on' <=> s \in on)
      /\ t # "awg" => stray' = stray
      /\ stray /\ up["awg"] # Down => stray' /\ up'["awg"] = up["awg"]
      /\ run \notin lame' =>
           /\ t \in on' <=> t \in backup.on
           /\ t \in Active(backup) =>
                \/ up'[t] = Started(t, live) /\ (t = "awg" => ~stray')
                \/ /\ t = "awg" /\ stray' /\ up'["awg"] = up["awg"]
                   /\ up["awg"] # Down /\ (stray \/ live["awg0.conf"] = 0)
           /\ t \notin Active(backup) => Gone(t)'
      /\ lame \subseteq lame' /\ lame' \subseteq lame \cup {run}
  BY <1>0, ServiceUntold
<1>7. t = "awg" <=> at = 3
  BY <1>0, <1>2 DEF ServiceAt
<1>8. pc' \in {"revive", "mark_rollback"}
  BY <1>1
<1>9. Backed' /\ Mixed' /\ TornTold' /\ MarksTell'
  BY <1>1, <1>6, <1>5, <1>8, Working
<1>10. TypeOK'
  <2>1. Now' \in Image
    BY <1>1, <1>6, Types, ImageOf DEF Now
  <2>2. at' \in 1 .. 5 /\ pc' \in Parts
    BY <1>1, <1>2 DEF Parts
  <2>3. lame' \subseteq Runs
    BY <1>5, <1>6 DEF RInv, TypeOK
  <2> QED BY <1>1, <1>4, <1>6, <2>1, <2>2, <2>3 DEF RInv, TypeOK
<1>11. Counts'
  BY <1>1, <1>2 DEF RInv, Counts
<1>12. Marked' /\ Switched' /\ Faultless' /\ FailsForAReason'
  BY <1>1, <1>3, <1>4, <1>5, <1>6, <1>8 DEF Marked, Switched, Faultless,
       FailsForAReason, Before, Switching, Undoing
<1>13. ASSUME run \notin lame'
       PROVE  /\ live = backup.live /\ run \notin lame
              /\ Clings' => stray' /\ up'["awg"] = backup.up["awg"]
              /\ Restored(t)'
  <2>1. /\ live = backup.live /\ run \notin lame
        /\ Clings => stray /\ up["awg"] = backup.up["awg"]
    BY <1>1, <1>5, <1>6, <1>13 DEF RInv, Undone, Clinging
  <2>2. t # "awg" => up'["awg"] = up["awg"] /\ stray' = stray
    BY <1>6 DEF Services
  <2>3. CASE Clings
    <3>1. stray' /\ up'["awg"] = backup.up["awg"]
      BY <1>6, <2>1, <2>3 DEF Clings
    <3>2. Restored(t)'
      BY <1>1, <1>6, <1>13, <2>1, <3>1 DEF Restored
    <3> QED BY <2>1, <3>1, <3>2
  <2>4. CASE ~Clings
    <3>1. ~Clings'
      <4> SUFFICES ASSUME Clings' PROVE FALSE
        OBVIOUS
      <4>1. /\ backup.up["awg"] # Down /\ ~backup.stray /\ stray'
            /\ backup.live["awg0.conf"] # 0 /\ ~stray
        BY <1>1, <2>4 DEF Clings
      <4>2. t = "awg"
        BY <2>2, <4>1
      <4>3. "awg" \in Active(backup)
        BY <4>1 DEF Active, Services
      <4> QED BY <1>6, <1>13, <2>1, <4>1, <4>2, <4>3
    <3>2. Restored(t)'
      <4>1. ASSUME t \in Active(backup), Starts(t, live)
            PROVE  up'[t] = Started(t, live)
        <5> SUFFICES ASSUME t = "awg", up["awg"] # Down,
                            stray \/ live["awg0.conf"] = 0
                     PROVE  FALSE
          BY <1>6, <1>13, <4>1
        <5>1. live["awg0.conf"] # 0
          BY <4>1 DEF Starts, FilesOf
        <5>2. backup.up["awg"] # Down
          BY <4>1 DEF Active
        <5> QED BY <2>1, <2>4, <5>1, <5>2 DEF Clings
      <4> QED BY <1>1, <1>6, <1>13, <4>1 DEF Restored
    <3> QED BY <2>1, <3>1, <3>2
  <2> QED BY <2>3, <2>4
<1>14. Clinging'
  BY <1>1, <1>8, <1>13 DEF Clinging
<1>15. Undone'
  <2> SUFFICES ASSUME run \notin lame'
               PROVE  /\ live' = backup.live
                      /\ pc' = "revive" =>
                           \A k \in 1 .. 3 : k < at' => Restored(ServiceAt(k))'
                      /\ pc' = "mark_rollback" =>
                           \A s \in Services : Restored(s)'
    BY <1>1 DEF Undone
  <2>1. /\ live = backup.live
        /\ \A k \in 1 .. 3 : k < at => Restored(ServiceAt(k))
    BY <1>1, <1>6, <1>5 DEF RInv, Undone
  <2>2. \A k \in 1 .. 3 : k < at => Restored(ServiceAt(k))'
    <3> SUFFICES ASSUME NEW k \in 1 .. 3, k < at
                 PROVE  Restored(ServiceAt(k))'
      OBVIOUS
    <3>1. ServiceAt(k) \in Services \ {t} /\ ServiceAt(k) # "awg"
      BY <1>0, <1>2, Orders DEF ServiceAt
    <3>2. Restored(ServiceAt(k))
      BY <2>1
    <3> QED BY <1>1, <1>6, <3>1, <3>2 DEF Restored, Gone
  <2>3. \A k \in 1 .. 3 : k <= at => Restored(ServiceAt(k))'
    BY <1>0, <1>2, <1>13, <2>2
  <2>4. CASE at < 3
    <3>1. \A k \in 1 .. 3 : k < at' => k <= at
      BY <1>1, <1>2, <2>4
    <3>2. \A k \in 1 .. 3 : k < at' => Restored(ServiceAt(k))'
      BY <2>3, <3>1
    <3> QED BY <1>1, <2>1, <2>4, <3>2
  <2>5. CASE ~(at < 3)
    <3>1. \A k \in 1 .. 3 : k <= at
      BY <1>2, <2>5
    <3>2. \A s \in Services : Restored(s)'
      BY <2>3, <3>1, Orders
    <3> QED BY <1>1, <2>1, <2>5, <3>2
  <2> QED BY <2>4, <2>5
<1> QED BY <1>9, <1>10, <1>11, <1>12, <1>14, <1>15 DEF RInv

LEMMA MarkRolledBackKeeps ==
  ASSUME RInv, MarkRolledBack
  PROVE  RInv'
<1>1. /\ pc = "mark_rollback" /\ pc' = "fail" /\ at' = 1
      /\ marks' = [marks EXCEPT ![run] = "ROLLED_BACK"]
      /\ UNCHANGED <<run, plan, stage, live, on, up, stray, backup, has, boot, last,
                     lame, clean, faults>>
  BY DEF MarkRolledBack, Enter, server, budget
<1>2. Backed /\ (clean => stray /\ up["awg"] # Down)
  BY <1>1 DEF RInv, Marked, Undoing, Backed, Faultless
<1>3. /\ Backed' /\ Mixed' /\ TornTold' /\ MarksTell'
      /\ marks'[run] = "ROLLED_BACK"
      /\ marks' \in [Runs -> {"none", "ready", "APPLIED", "ROLLED_BACK"}]
      /\ \A n \in Runs : n > run' => marks'[n] = "none"
  BY <1>1, <1>2, Marking
<1>4. TypeOK'
  BY <1>1, <1>3 DEF RInv, TypeOK, Parts, Now
<1>5. Counts'
  BY <1>1, <1>3 DEF RInv, Counts
<1>6. Marked' /\ Switched'
  BY <1>1, <1>3 DEF Marked, Switched, Before, Switching, Undoing
<1>7. Undone'
  BY <1>1, <1>2 DEF RInv, Undone, Restored, Gone
<1>8. Faultless' /\ FailsForAReason'
  BY <1>1, <1>2 DEF Faultless, FailsForAReason, Undoing
<1>9. Clinging'
  BY <1>1, <1>2 DEF RInv, Clinging, Clings
<1> QED BY <1>3, <1>4, <1>5, <1>6, <1>7, <1>8, <1>9 DEF RInv

-----------------------------------------------------------------------------
(***************************************************************************)
(* The end of an apply.                                                    *)
(***************************************************************************)
\* What is served when the script has come to its end, or nearly.
LEMMA AtTheEnd ==
  ASSUME RInv, pc # "idle"
  PROVE  /\ pc \in {"mark", "prune"} => Serves(Now) = run /\ run # Torn
         /\ pc = "fail" /\ Backed /\ run \notin lame =>
              Serves(Now) = Serves(backup) \/ Serves(backup) = Torn
<1>1. run \in 0 .. run /\ run # Torn
  BY Types, RemoteAssumption
<1>2. pc \in {"mark", "prune"} => WholeIn(plan, run, Now)
  BY DEF RInv, Switched, Whole, WholeIn
<1>3. pc \in {"mark", "prune"} => Serves(Now) = run
  BY <1>1, <1>2, ServesWhole, Reading, Types
<1>4. ASSUME pc = "fail", Backed, run \notin lame, Serves(backup) # Torn
      PROVE  Serves(Now) = Serves(backup)
  <2>1. /\ Now.live = backup.live
        /\ \A s \in Services :
             /\ s \in Now.on <=> s \in backup.on
             /\ s \in Active(backup) /\ Starts(s, Now.live) =>
                  Now.up[s] \in {Started(s, Now.live), backup.up[s]}
             /\ s \notin Active(backup) =>
                  Now.up[s] = Down \/ (s = "awg" /\ Now.stray)
        /\ backup.stray /\ backup.up["awg"] # Down =>
             Now.stray /\ Now.up["awg"] = backup.up["awg"]
    BY <1>4 DEF RInv, Undone, Restored, Gone, Clinging, Clings, Now
  <2>2. ServesIn(plan, run, backup) # Torn
    BY <1>4, Reading
  <2> QED BY <2>1, <2>2, RestoredServes, Reading, Types
<1> QED BY <1>1, <1>3, <1>4

LEMMA EndKeeps ==
  ASSUME RInv, pc # "idle", pc' = "idle", at' = 1,
         UNCHANGED <<run, plan, stage, live, on, backup, marks, has, boot, lame>>,
         up' \in [Services -> Running], stray' \in BOOLEAN,
         last' \in {"none", "ok", "failed", "unrestored", "killed"},
         clean' \in BOOLEAN, faults' \in 0 .. MaxFaults,
         Serves(Now) # Torn => Serves(Now)' = Serves(Now)
  PROVE  RInv'
<1>1. ~Backed' /\ Mixed' /\ Undone' /\ Clinging'
  BY DEF Backed, Mixed, Undone, Clinging
<1>2. TypeOK'
  <2>1. Now' \in Image
    BY Types, ImageOf DEF Now
  <2> QED BY <2>1 DEF RInv, TypeOK, Parts, Now
<1>3. Counts'
  BY DEF RInv, Counts
<1>4. Marked' /\ Switched' /\ Faultless' /\ FailsForAReason'
  BY DEF Marked, Switched, Faultless, FailsForAReason, Before, Switching,
         Undoing
<1>5. Serves(backup)' = Serves(backup)
  BY Reading
<1>6. marks[run] = "APPLIED" => Serves(Now)' = run /\ run # Torn
  <2>1. marks[run] = "APPLIED" => pc = "prune"
    BY DEF RInv, TypeOK, Parts, Marked, Before, Switching, Undoing
  <2> QED BY <2>1, AtTheEnd
<1>7. marks[run] = "ROLLED_BACK" /\ run \notin lame =>
        Serves(Now)' = Serves(backup) \/ Serves(backup) = Torn
  <2>1. marks[run] = "ROLLED_BACK" => pc = "fail" /\ Backed
    BY DEF RInv, TypeOK, Parts, Marked, Before, Switching, Undoing, Backed
  <2> QED BY <2>1, AtTheEnd
<1>8. Serves(Now)' = Torn => Excused(run)
  <2> SUFFICES ASSUME Serves(Now)' = Torn PROVE Excused(run)
    OBVIOUS
  <2>1. run \in Nat /\ run >= 1 /\ run \in Runs
    BY Types DEF RInv, Counts
  <2>2. Excused(run - 1) => Excused(run)
    BY <2>1 DEF Excused
  <2>3. CASE marks[run] = "none"
    BY <2>3 DEF RInv, TornTold, Backed
  <2>4. CASE marks[run] = "ready"
    BY <2>1, <2>4 DEF Excused
  <2>5. CASE marks[run] = "ROLLED_BACK"
    <3>1. CASE run \in lame
      BY <3>1 DEF Excused
    <3>2. CASE run \notin lame
      <4>1. Serves(backup) = Torn /\ Backed
        BY <1>7, <2>5, <3>2 DEF Backed
      <4> QED BY <2>2, <4>1 DEF RInv, TornTold
    <3> QED BY <3>1, <3>2
  <2>6. marks[run] \in {"none", "ready", "APPLIED", "ROLLED_BACK"}
    BY <2>1 DEF RInv, TypeOK
  <2> QED BY <1>6, <2>3, <2>4, <2>5, <2>6
<1>9. TornTold'
  BY <1>1, <1>8 DEF TornTold, Excused
<1>10. MarksTell'
  BY <1>5, <1>6, <1>7, <1>8 DEF MarksTell, Excused
<1> QED BY <1>1, <1>2, <1>3, <1>4, <1>9, <1>10 DEF RInv

LEMMA FinishKeeps ==
  ASSUME RInv, Finish \/ Fail
  PROVE  RInv'
<1>1. /\ pc \in {"prune", "fail"} /\ pc' = "idle" /\ at' = 1
      /\ last' \in {"ok", "unrestored", "failed"}
      /\ UNCHANGED <<run, plan, stage, live, on, up, stray, backup, marks, has, boot,
                     lame, clean, faults>>
  BY DEF Finish, Fail, Enter, server, budget
<1>2. Serves(Now)' = Serves(Now)
  BY <1>1, Reading DEF Now
<1>3. up' \in [Services -> Running] /\ stray' \in BOOLEAN
      /\ clean' \in BOOLEAN /\ faults' \in 0 .. MaxFaults
  BY <1>1, Types DEF RInv, TypeOK
<1> QED BY <1>1, <1>2, <1>3, EndKeeps

\* A restart of the server leaves a configuration that is whole.
LEMMA KillServes ==
  ASSUME RInv, Kill, Serves(Now) # Torn
  PROVE  Serves(Now)' = Serves(Now)
<1>1. /\ UNCHANGED <<run, plan, live, on>>
      /\ \/ up' = up /\ stray' = stray
         \/ /\ up' = [s \in Services |-> IF s \in on
                                         THEN Started(s, live) ELSE Down]
            /\ stray' = FALSE
  BY DEF Kill
<1>2. Now' = Now \/ Now' = Rebooted(Now)
  <2>1. CASE up' = up /\ stray' = stray
    BY <1>1, <2>1 DEF Now
  <2>2. CASE /\ up' = [s \in Services |-> IF s \in on
                                         THEN Started(s, live) ELSE Down]
             /\ stray' = FALSE
    <3>1. Now' = [live |-> live, on |-> on, up |-> up', stray |-> FALSE]
      BY <1>1, <2>2 DEF Now
    <3>2. Rebooted(Now) = [live |-> live, on |-> on, up |-> up', stray |-> FALSE]
      BY <2>2 DEF Now, Rebooted
    <3> QED BY <3>1, <3>2
  <2> QED BY <1>1, <2>1, <2>2
<1>3. ServesIn(plan, run, Rebooted(Now)) = ServesIn(plan, run, Now)
  BY RebootServes, Reading, Types
<1> QED BY <1>1, <1>2, <1>3, Reading

LEMMA KillKeeps ==
  ASSUME RInv, Kill
  PROVE  RInv'
<1>1. /\ pc # "idle" /\ pc' = "idle" /\ at' = 1 /\ last' = "killed"
      /\ \/ up' = up /\ stray' = stray
         \/ /\ up' = [s \in Services |-> IF s \in on
                                         THEN Started(s, live) ELSE Down]
            /\ stray' = FALSE
      /\ UNCHANGED <<run, plan, stage, live, on, backup, marks, has, boot, lame>>
  BY DEF Kill, Enter
<1>2. clean' \in BOOLEAN
  <2>1. clean' = FALSE
    BY DEF Kill, Spend
  <2> QED BY <2>1
<1>3. faults' \in 0 .. MaxFaults
  BY RemoteAssumption DEF Kill, Spend, RInv, TypeOK
<1>4. up' \in [Services -> Running] /\ stray' \in BOOLEAN
  <2>1. [s \in Services |-> IF s \in on THEN Started(s, live) ELSE Down]
          \in [Services -> Running]
    BY StartedTyped, Types DEF Running
  <2> QED BY <1>1, <2>1, Types
<1> QED BY <1>1, <1>2, <1>3, <1>4, KillServes, EndKeeps

LEMMA NextKeeps ==
  ASSUME RInv, [Next]_vars
  PROVE  RInv'
<1>1. ASSUME NEW p \in Plans, Start(p) PROVE RInv'
  BY <1>1, StartKeeps
<1>2. CASE Bootstrap
  BY <1>2, BootstrapKeeps
<1>3. CASE Validate
  BY <1>3, ValidateKeeps
<1>4. CASE PrepareBackup
  BY <1>4, PrepareBackupKeeps
<1>5. CASE InstallFile
  BY <1>5, InstallFileKeeps
<1>6. CASE ApplyService
  BY <1>6, ApplyServiceKeeps
<1>7. CASE CheckServices
  BY <1>7, CheckServicesKeeps
<1>8. CASE MarkApplied
  BY <1>8, MarkAppliedKeeps
<1>9. CASE Finish \/ Fail
  BY <1>9, FinishKeeps
<1>10. CASE StepFails
  BY <1>10, StepFailsKeeps
<1>11. CASE RestoreFile
  BY <1>11, RestoreFileKeeps
<1>12. CASE RestoreService
  BY <1>12, RestoreServiceKeeps
<1>13. CASE MarkRolledBack
  BY <1>13, MarkRolledBackKeeps
<1>14. CASE Kill
  BY <1>14, KillKeeps
<1>15. CASE UNCHANGED vars
  <2>1. UNCHANGED <<run, plan, pc, at, stage, live, on, up, stray, backup, marks, has,
                    boot, last, lame, clean, faults>>
    BY <1>15 DEF vars, server, budget
  <2>2. Serves(Now)' = Serves(Now) /\ Serves(backup)' = Serves(backup)
    BY <2>1, Reading DEF Now
  <2>3. TypeOK' /\ Counts' /\ Marked' /\ Faultless' /\ FailsForAReason'
    BY <2>1 DEF RInv, TypeOK, Now, Counts, Marked, Faultless, FailsForAReason,
                Wanted
  <2>4. Mixed' /\ TornTold' /\ MarksTell'
    BY <2>1, <2>2 DEF RInv, Mixed, TornTold, MarksTell, Backed, Excused
  <2>5. Switched' /\ Undone' /\ Clinging'
    BY <2>1 DEF RInv, Switched, Undone, Turned, Restored, Whole, Now, Staged,
                Wanted, Backed, Gone, Clinging, Clings
  <2> QED BY <2>3, <2>4, <2>5 DEF RInv
<1> QED BY <1>1, <1>2, <1>3, <1>4, <1>5, <1>6, <1>7, <1>8, <1>9, <1>10, <1>11,
           <1>12, <1>13, <1>14, <1>15 DEF Next

\* The inductive invariant: whatever fails, and whenever the script is killed,
\* the server is between what the apply found and what it was to bring.
THEOREM RemoteInductive == Spec => []RInv
BY InitKeeps, NextKeeps, PTL DEF Spec

\* Every variable has its type, and a service that runs has loaded files that
\* exist.
THEOREM RemoteTyped == Spec => []TypeOK
<1>1. RInv => TypeOK
  BY DEF RInv
<1> QED BY <1>1, RemoteInductive, PTL

\* The markers of the backup directories tell what is served, and a server with
\* parts of two configurations can be told by them (mark_backup_result).
THEOREM MarkersTell == Spec => []MarksTell
<1>1. RInv => MarksTell
  BY DEF RInv
<1> QED BY <1>1, RemoteInductive, PTL

\* An apply fails only when one of its commands failed, or because an earlier
\* one left a certificate without its key, or an AmneziaWG interface that
\* systemd has lost (apply_service, the validation).
THEOREM FailuresHaveReasons == Spec => []FailsForAReason
<1>1. RInv => FailsForAReason
  BY DEF RInv
<1> QED BY <1>1, RemoteInductive, PTL

-----------------------------------------------------------------------------
(***************************************************************************)
(* The refinement of RemotePromise.                                        *)
(***************************************************************************)
\* What counts as served, the third variable of RemotePromise.
Held == IF Backed THEN Serves(backup) ELSE Serves(Now)

LEMMA PromiseVars == P!vars = <<run, Held, last>>
BY DEF P!vars, Held, Backed

LEMMA PromiseStep ==
  ASSUME \/ run' = run + 1 /\ Held' = Held /\ last' = last
         \/ last' = "ok" /\ Held' = run /\ run' = run
         \/ last' = "failed" /\ run' = run /\ (Held = Torn \/ Held' = Held)
         \/ /\ last' \in {"unrestored", "killed"} /\ run' = run
            /\ Held = Torn \/ Held' \in {0, Held, run, Torn}
         \/ last' = last /\ run' = run /\ Held' = Held
  PROVE  [P!Next]_(P!vars)
BY DEF P!Next, P!Ask, P!Succeed, P!Fail, P!Break, P!vars, Held, Backed

\* An apply that is left with its backup serves what it found, what it was to
\* bring, nothing, or parts of the two.
LEMMA Between ==
  ASSUME RInv, RInv', Backed, UNCHANGED <<run, plan, live>>,
         Serves(backup) # Torn
  PROVE  Serves(Now)' \in {0, Serves(backup), run, Torn}
<1>1. Now' \in Image
  BY DEF RInv, TypeOK
<1>2. \A f \in Files \ Pair : Now'.live[f] \in {backup.live[f], 0, run}
  BY DEF RInv, Mixed, Now
<1>3. Planned(plan, run) /\ backup \in Image
  BY Types
<1> QED BY <1>1, <1>2, <1>3, MixServes, Reading

LEMMA AskPromise ==
  ASSUME RInv, RInv', NEW p \in Plans, Start(p)
  PROVE  [P!Next]_(P!vars)
<1>1. /\ pc = "idle" /\ run < MaxRuns /\ run' = run + 1
      /\ plan' = [plan EXCEPT ![run + 1] = p] /\ pc' = "bootstrap"
      /\ UNCHANGED <<live, on, up, stray, backup, marks, last>>
  BY DEF Start, Enter, server
<1>2. \A f \in Files : Now.live[f] <= run
  BY DEF RInv, Counts, Now
<1>3. ServesIn(plan', run', Now) = ServesIn(plan, run, Now)
  BY <1>1, <1>2, AskServes, Types
<1>4. Serves(Now)' = Serves(Now)
  BY <1>1, <1>3, Reading DEF Now
<1>5. ~Backed /\ ~Backed'
  BY <1>1 DEF Backed, RInv, Marked, Before
<1> QED BY <1>1, <1>4, <1>5, PromiseStep DEF Held

LEMMA EndPromise ==
  ASSUME RInv, RInv', Finish \/ Fail
  PROVE  [P!Next]_(P!vars)
<1>1. /\ pc' = "idle"
      /\ UNCHANGED <<run, plan, live, on, up, stray, backup, marks, lame>>
      /\ \/ pc = "prune" /\ last' = "ok"
         \/ pc = "fail" /\ last' = IF run \in lame THEN "unrestored" ELSE "failed"
  BY DEF Finish, Fail, Enter, server
<1>2. Serves(Now)' = Serves(Now) /\ Held' = Serves(Now)
  BY <1>1, Reading DEF Now, Held, Backed
<1>3. CASE pc = "prune"
  BY <1>1, <1>2, <1>3, AtTheEnd, PromiseStep
<1>4. CASE pc = "fail" /\ ~Backed
  <2>1. Held' = Held
    BY <1>2, <1>4 DEF Held
  <2> QED BY <1>1, <1>4, <2>1, PromiseStep
<1>5. CASE pc = "fail" /\ Backed /\ run \notin lame
  <2>1. Held = Torn \/ Held' = Held
    BY <1>2, <1>5, AtTheEnd DEF Held
  <2> QED BY <1>1, <1>5, <2>1, PromiseStep
<1>6. CASE pc = "fail" /\ Backed /\ run \in lame
  <2>1. Held = Torn \/ Held' \in {0, Held, run, Torn}
    BY <1>1, <1>2, <1>6, Between DEF Held
  <2> QED BY <1>1, <1>6, <2>1, PromiseStep
<1> QED BY <1>1, <1>3, <1>4, <1>5, <1>6

LEMMA KillPromise ==
  ASSUME RInv, RInv', Kill
  PROVE  [P!Next]_(P!vars)
<1>1. /\ pc' = "idle" /\ last' = "killed"
      /\ UNCHANGED <<run, plan, live, backup, marks>>
  BY DEF Kill, Enter
<1>2. Held' = Serves(Now)'
  BY <1>1 DEF Held, Backed
<1>3. Held = Torn \/ Held' \in {0, Held, run, Torn}
  <2>1. CASE Backed
    BY <1>1, <1>2, <2>1, Between DEF Held
  <2>2. CASE ~Backed
    BY <1>2, <2>2, KillServes DEF Held
  <2> QED BY <2>1, <2>2
<1> QED BY <1>1, <1>3, PromiseStep

\* Every other step changes nothing the promise speaks of.
LEMMA QuietPromise ==
  ASSUME RInv, RInv', UNCHANGED <<run, plan, last>>,
         \/ ~Backed /\ ~Backed' /\ UNCHANGED <<live, on, up, stray>>
         \/ Backed /\ Backed' /\ UNCHANGED backup
         \/ ~Backed /\ Backed' /\ backup' = Now
  PROVE  [P!Next]_(P!vars)
<1>1. Held' = Held
  <2>1. CASE ~Backed /\ ~Backed' /\ UNCHANGED <<live, on, up, stray>>
    BY <2>1, Reading DEF Held, Now
  <2>2. CASE Backed /\ Backed' /\ UNCHANGED backup
    BY <2>2, Reading DEF Held
  <2>3. CASE ~Backed /\ Backed' /\ backup' = Now
    BY <2>3, Reading DEF Held
  <2> QED BY <2>1, <2>2, <2>3
<1> QED BY <1>1, PromiseStep

LEMMA NextPromise ==
  ASSUME RInv, RInv', [Next]_vars
  PROVE  [P!Next]_(P!vars)
<1>1. ASSUME NEW p \in Plans, Start(p) PROVE [P!Next]_(P!vars)
  BY <1>1, AskPromise
<1>2. CASE Finish \/ Fail
  BY <1>2, EndPromise
<1>3. CASE Kill
  BY <1>3, KillPromise
<1>4. CASE Bootstrap \/ Validate
  <2>1. /\ pc \in {"bootstrap", "validate"}
        /\ pc' \in {"validate", "backup", "fail"}
        /\ UNCHANGED <<run, plan, live, on, up, stray, marks, last>>
    BY <1>4 DEF Bootstrap, Validate, Enter, server
  <2>2. ~Backed /\ ~Backed'
    BY <2>1 DEF Backed, RInv, Marked, Before
  <2> QED BY <2>1, <2>2, QuietPromise
<1>5. CASE PrepareBackup
  <2>1. /\ pc = "backup" /\ pc' = "files" /\ backup' = Now
        /\ UNCHANGED <<run, plan, last>>
    BY <1>5 DEF PrepareBackup, Enter, Now
  <2>2. ~Backed /\ Backed'
    BY <2>1 DEF Backed, RInv, Marked, Before, Switching
  <2> QED BY <2>1, <2>2, QuietPromise
<1>6. CASE \/ InstallFile \/ ApplyService \/ CheckServices \/ MarkApplied
           \/ RestoreFile \/ RestoreService \/ MarkRolledBack
  <2>1. /\ pc \in Switching \cup Undoing
        /\ pc' \in Switching \cup Undoing \cup {"prune", "fail"}
        /\ pc' = "fail" => pc = "mark_rollback" /\ marks' = [marks EXCEPT ![run] = "ROLLED_BACK"]
        /\ UNCHANGED <<run, plan, backup, last>>
    BY <1>6 DEF InstallFile, ApplyService, CheckServices, MarkApplied,
                RestoreFile, RestoreService, MarkRolledBack, Advance, Enter,
                Failure, Switching, Undoing
  <2>2. Backed
    BY <2>1 DEF RInv, Marked, Backed, Switching, Undoing
  <2>3. Backed'
    <3>1. pc' = "fail" => marks'[run'] = "ROLLED_BACK"
      BY <2>1, <2>2, Types DEF Backed
    <3> QED BY <2>1, <3>1 DEF RInv, Marked, Backed, Switching, Undoing
  <2> QED BY <2>1, <2>2, <2>3, QuietPromise
<1>7. CASE StepFails
  <2>1. /\ pc \in {"validate", "backup", "files", "services", "mark"}
        /\ pc' = Failure
        /\ UNCHANGED <<run, plan, live, on, up, stray, backup, marks, last>>
    BY <1>7 DEF StepFails, Enter, server
  <2>2. Backed' <=> Backed
    BY <2>1 DEF Backed, Failure
  <2> QED BY <2>1, <2>2, QuietPromise
<1>8. CASE UNCHANGED vars
  <2>1. UNCHANGED <<run, plan, pc, live, on, up, stray, backup, marks, last>>
    BY <1>8 DEF vars, server
  <2>2. Backed' <=> Backed
    BY <2>1 DEF Backed
  <2> QED BY <2>1, <2>2, QuietPromise
<1> QED BY <1>1, <1>2, <1>3, <1>4, <1>5, <1>6, <1>7, <1>8 DEF Next

\* The script implements RemotePromise: an apply that ends well serves its own
\* configuration as a whole, one that fails serves what it found, and only a
\* kill or a failing rollback may leave parts of the two, each beside an AmneziaWG
\* interface that could not be taken down
\* (render_config_apply_script, rollback).
THEOREM RemoteKeepsPromise == Spec => KeepsPromise
<1>1. Init => P!Init
  <2> SUFFICES ASSUME Init PROVE P!Init
    OBVIOUS
  <2>1. RInv
    BY InitKeeps
  <2>2. run = 0 /\ last = "none" /\ ~Backed
    BY DEF Init, Backed
  <2>3. Serves(Now) = 0
    <3>1. plan[0].on = {} /\ run \in 0 .. run
      BY <2>1, <2>2, Types DEF Planned
    <3>2. /\ Now.on = {} /\ \A s \in Services : Now.up[s] = Down
          /\ \A f \in Files : Now.live[f] = 0
      BY DEF Init, Now, Empty
    <3>3. WholeIn(plan, 0, Now)
      BY <3>1, <3>2, ServiceFiles DEF WholeIn
    <3> QED BY <2>1, <2>2, <3>1, <3>3, ServesWhole, Reading, Types
  <2> QED BY <2>2, <2>3 DEF P!Init, Backed
<1>2. RInv /\ RInv' /\ [Next]_vars => [P!Next]_(P!vars)
  BY NextPromise
<1> QED BY <1>1, <1>2, RemoteInductive, PTL DEF Spec, KeepsPromise, P!Spec
=============================================================================
