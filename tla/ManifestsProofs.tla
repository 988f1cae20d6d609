--------------------------- MODULE ManifestsProofs ---------------------------
(***************************************************************************)
(* Proofs about Manifests: for every set of manifests and any number of    *)
(* applies, what a ready cluster runs with is what its manifest says, and  *)
(* what fails after something was created is one of the late mistakes.     *)
(* And about PoolerManifests: a pooler that is let through is rendered,    *)
(* and each of its pools answers.  And about Names, which manifests give:  *)
(* whatever words they are made of, as many of them as there may be, and   *)
(* however many clusters and poolers there are at a time, no two of them   *)
(* share a name of podman's or a slot.                                     *)
(***************************************************************************)
EXTENDS Manifests, PoolerManifests, Names, SequenceTheorems, TLAPS

-----------------------------------------------------------------------------
(* The inductive invariant.                                                *)

Boot      == {"initdb", "restore"}
\* A start of the agent is under way.
Starting  == {"bootstrap", "render", "first render", "roles", "spawn"}
\* The command has come to an end, or has not reached the container.
AtRest    == {"idle", "parse", "check", "record", "spec", "refused", "failed",
              "diverged", "ready"}
Accepted(m) == m \in Manifest /\ Validate(m) /\ ValidateParameters(m)

\* What is being applied is a manifest, and one that the steps before this
\* one have let pass.
FileInv ==
    /\ at \in AtRest \cup Starting
    /\ at # "idle" => /\ file.manifest \in Manifest /\ file.boot \in Boot
                      /\ file.boot = "restore" => file.manifest.destinations # <<>>
    /\ at = "check" => Validate(file.manifest)
    /\ at \in {"record", "spec"} => Accepted(file.manifest)
    /\ at = "spec" => row = file.manifest
    /\ row # NoManifest => Accepted(row)

\* A container runs a specification made of a manifest that was accepted, and
\* while its agent starts or when it is ready, of the one in the registry.
MadeOf(s, m) == /\ Accepted(m)
                /\ \E b \in Boot :
                    /\ b = "restore" => m.destinations # <<>>
                    /\ s = InstanceSpec(m, b)

BoxInv ==
    /\ box = [state |-> box.state, spec |-> box.spec, secrets |-> box.secrets,
              archive |-> box.archive]
    /\ box.state \in {"none", "starting", "up", "down"}
    /\ box.state = "starting" <=> at \in Starting
    /\ box.state # "none" =>
        /\ \E m \in Manifest : MadeOf(box.spec, m)
        /\ SpecValid(box.spec)
        /\ box.secrets = Secrets(box.spec)
        /\ box.archive = box.spec.volume
    /\ at \in Starting \cup {"ready"} => MadeOf(box.spec, row)
    /\ at = "ready" => box.state = "up"

\* What the agent can render.
Renders(s) == /\ UserConfValid(s)
              /\ s.destinations # <<>> => Buildable(s)

\* The files of a server that runs, or is about to, are those of its
\* specification; it may have replayed when they were written.
RenderedInv ==
    box.state = "up" \/ at \in {"roles", "spawn"} =>
        /\ data.state = "whole"
        /\ Renders(box.spec)
        /\ conf.user = UserConf(box.spec)
        /\ conf.hba = HbaRules(TRUE)
        /\ \E r \in BOOLEAN : /\ conf.managed = ManagedConf(box.spec, r)
                              /\ data.replays => r
        /\ box.spec.destinations # <<>> => backrest = BackRestConf(box.spec)

\* Data that initdb made has all its roles, unless the start that made it is
\* under way or was cut short.
DataInv ==
    /\ data = [state |-> data.state, roles |-> data.roles, app |-> data.app,
               replays |-> data.replays]
    /\ data.roles \in [Account -> {"none", "superuser", "replication", "monitor",
                                   "app-owner", "source"}]
    /\ data.replays \in BOOLEAN
    /\ data.state = "none" => data = NoData
    /\ data.state \in {"none", "whole"}
    /\ box.state = "none" => data.state = "none"
    /\ at \in {"render", "first render", "roles", "spawn"} => data.state = "whole"
    /\ FromInitdb /\ data.state = "whole" /\ ~spoiled =>
        /\ box.state # "down"
        /\ at \notin {"first render", "roles"} => Complete
        /\ at \in {"bootstrap", "render"} => Renders(box.spec)

Inv == FileInv /\ BoxInv /\ RenderedInv /\ DataInv /\ MistakesAreEarly

-----------------------------------------------------------------------------
(* Lemmas about the operators the steps are written with.                  *)

\* Taking the credentials out of a URL leaves the rest of it.
LEMMA SanitizedKeeps ==
    ASSUME NEW d \in Destination
    PROVE  LET e == Sanitized(d) IN
           /\ e \in Destination /\ ~e.credentials
           /\ e.scheme = d.scheme /\ e.host = d.host /\ e.path = d.path
           /\ e.endpoint = d.endpoint /\ e.option = d.option
  BY DEF Sanitized, Destination

\* What a specification takes over from its manifest.
LEMMA SpecOfManifest ==
    ASSUME NEW m \in ManifestType, NEW b \in Boot
    PROVE  LET s == InstanceSpec(m, b) IN
           /\ s.boot = b /\ s.keys = m.keys /\ s.keys \subseteq Key
           /\ s.database = m.database /\ s.owner = m.owner
           /\ s.volume = m.volume /\ s.retention = m.retention
           /\ s.enforce = m.enforce
           /\ s.destinations \in Seq(Destination)
           /\ Len(s.destinations) = Len(m.destinations)
           /\ \A k \in DOMAIN m.destinations :
                s.destinations[k] = Sanitized(m.destinations[k])
           /\ DOMAIN s.destinations = DOMAIN m.destinations
           /\ s.destinations = <<>> <=> m.destinations = <<>>
           /\ s.archive = (s.destinations # <<>>)
  <1> DEFINE ds == [k \in DOMAIN m.destinations |-> Sanitized(m.destinations[k])]
             s  == InstanceSpec(m, b)
  <1>1. m.destinations \in Seq(Destination)
    BY DEF ManifestType
  <1>2. \A k \in DOMAIN m.destinations : ds[k] \in Destination
    BY <1>1, SanitizedKeeps
  <1>3. ds \in Seq(Destination) /\ Len(ds) = Len(m.destinations)
    <2>1. DOMAIN m.destinations = 1..Len(m.destinations) /\ Len(m.destinations) \in Nat
      BY <1>1
    <2>2. ds \in [1..Len(m.destinations) -> Destination]
      BY <1>2, <2>1
    <2> HIDE DEF ds
    <2> QED  BY <2>1, <2>2
  <1>4. ds = <<>> <=> m.destinations = <<>>
    BY <1>1, <1>3
  <1>5. /\ s.boot = b /\ s.keys = m.keys /\ s.database = m.database
        /\ s.owner = m.owner /\ s.volume = m.volume /\ s.retention = m.retention
        /\ s.enforce = m.enforce /\ s.destinations = ds
        /\ s.archive = (m.destinations # <<>>)
    BY DEF InstanceSpec
  <1>6. m.keys \subseteq Key
    BY DEF ManifestType
  <1> HIDE DEF ds, s
  <1>7. \A k \in DOMAIN m.destinations : ds[k] = Sanitized(m.destinations[k])
    BY DEF ds
  <1>8. DOMAIN ds = DOMAIN m.destinations
    BY DEF ds
  <1> QED  BY <1>3, <1>4, <1>5, <1>6, <1>7, <1>8 DEF s

\* A specification that the host refuses has an option that looks like a
\* credential.
LEMMA RefusedSpecIsLate ==
    ASSUME NEW m \in Manifest, NEW b \in Boot, b = "restore" => m.destinations # <<>>,
           ~SpecValid(InstanceSpec(m, b))
    PROVE  LateMistake(m)
  <1> DEFINE s == InstanceSpec(m, b)
  <1>1. m \in ManifestType
    BY ManifestsOK
  <1>2. /\ s.archive = (s.destinations # <<>>)
        /\ s.boot = "restore" => s.destinations # <<>>
    BY <1>1, SpecOfManifest
  <1>3. PICK d \in Elements(s.destinations) : d.credentials \/ d.option = "credential"
    BY <1>2 DEF SpecValid
  <1>4. PICK k \in DOMAIN m.destinations : d = Sanitized(m.destinations[k])
    BY <1>1, <1>3, SpecOfManifest DEF Elements
  <1>5. m.destinations[k] \in Destination
    BY <1>1, <1>4 DEF ManifestType
  <1>6. m.destinations[k].option = "credential"
    BY <1>3, <1>4, <1>5, SanitizedKeeps
  <1> QED  BY <1>6 DEF LateMistake, Elements

\* So is what pgBackRest's configuration cannot be made of ...
LEMMA UnbuildableIsLate ==
    ASSUME NEW m, NEW b \in Boot, Accepted(m), m.destinations # <<>>,
           ~Buildable(InstanceSpec(m, b))
    PROVE  LateMistake(m)
  <1> DEFINE s == InstanceSpec(m, b)
  <1>1. m \in Manifest /\ m \in ManifestType
    BY ManifestsOK DEF Accepted
  <1>2. CASE ~(Len(s.destinations) <= 4)
    <2>1. Len(m.destinations) \in Nat /\ Len(s.destinations) = Len(m.destinations)
      BY <1>1, SpecOfManifest DEF ManifestType
    <2>2. Len(m.destinations) > 4
      BY <1>2, <2>1
    <2> QED  BY <2>2 DEF LateMistake
  <1>3. CASE ~RetentionDays(s)
    <2>1. s.retention = m.retention /\ s.enforce = m.enforce
      BY <1>1, SpecOfManifest
    <2> QED  BY <1>3, <2>1 DEF LateMistake, RetentionDays
  <1>4. CASE \E d \in Elements(s.destinations) : ~Repository(d)
    <2>1. PICK k \in DOMAIN m.destinations : ~Repository(Sanitized(m.destinations[k]))
      BY <1>1, <1>4, SpecOfManifest DEF Elements
    <2> DEFINE d == m.destinations[k]
    <2>2. d \in Destination /\ d \in Elements(m.destinations)
      BY <1>1, <2>1 DEF ManifestType, Elements
    <2> HIDE DEF d
    <2>3. ~Repository(d)
      BY <2>1, <2>2, SanitizedKeeps DEF Repository, SplitEndpoint, d
    <2>4. d.scheme # "none" /\ (d.host # "" \/ d.path # "") /\ d.scheme \in KnownSchemes
      BY <2>2 DEF Accepted, Validate, ValidateDestinations
    <2>5. \/ d.scheme = "memory"
          \/ d.scheme = "file" /\ d.host # ""
          \/ d.scheme \in {"s3", "gs", "az"}
               /\ (d.host = "" \/ d.endpoint \in {"url", "badport"})
      BY <2>3, <2>4 DEF Repository, SplitEndpoint, KnownSchemes
    <2> QED  BY <2>2, <2>5 DEF LateMistake
  <1> QED  BY <1>2, <1>3, <1>4 DEF Buildable

\* ... and the name of a parameter that the agent refuses.
LEMMA UnnamableIsLate ==
    ASSUME NEW m, NEW b \in Boot, Accepted(m), ~UserConfValid(InstanceSpec(m, b))
    PROVE  LateMistake(m)
  <1>1. m \in Manifest /\ m \in ManifestType
    BY ManifestsOK DEF Accepted
  <1>2. PICK k \in m.keys : ReservedKey(Normalised(k)) \/ ~ValidParameterName(k)
    BY <1>1, SpecOfManifest DEF UserConfValid
  <1>3. ~ReservedKey(Normalised(k))
    BY DEF Accepted, ValidateParameters
  <1> QED  BY <1>2, <1>3 DEF ValidParameterName, LateMistake

\* No parameter that passed takes the place of one that pgpod manages.
LEMMA UserLeavesReserved ==
    ASSUME NEW s, s.keys \subseteq Key, UserConfValid(s),
           conf.user = UserConf(s), NEW n \in Reserved
    PROVE  Effective(n) = IF n \in DOMAIN conf.managed THEN conf.managed[n]
                          ELSE "default"
  <1>1. ~\E k \in conf.user : k.name = n
    <2> SUFFICES ASSUME NEW k \in s.keys, Normalised(k).name = n PROVE FALSE
      BY DEF UserConf
    <2>1. k \in Key /\ ~ReservedKey(Normalised(k))
      BY DEF UserConfValid
    <2>2. Normalised(k).capitals = FALSE
      BY <2>1 DEF Normalised, Key
    <2> QED  BY <2>1, <2>2 DEF ReservedKey
  <1> QED  BY <1>1 DEF Effective

\* What 00-pgpod.conf says of archiving and of replay.
LEMMA ManagedSays ==
    ASSUME NEW s, s.archive \in BOOLEAN, NEW r \in BOOLEAN
    PROVE  LET f == ManagedConf(s, r) IN
           /\ "archive_mode" \in DOMAIN f
           /\ f["archive_mode"] = IF s.archive THEN "on" ELSE "off"
           /\ s.archive => "archive_command" \in DOMAIN f
                           /\ f["archive_command"] = "own"
           /\ s.boot = "restore" /\ r => "restore_command" \in DOMAIN f
                                         /\ f["restore_command"] = "source"
  BY DEF ManagedConf

\* The rules of pg_hba.conf, one by one.
LEMMA TwoAndTwo ==
    ASSUME NEW r1, NEW r2, NEW r3, NEW r4
    PROVE  LET rules == <<r1, r2>> \o <<r3, r4>> IN
           /\ DOMAIN rules = 1..4
           /\ rules[1] = r1 /\ rules[2] = r2 /\ rules[3] = r3 /\ rules[4] = r4
  <1> DEFINE R  == {r1, r2, r3, r4}
             s  == <<r1, r2>>
             t  == <<r3, r4>>
             st == s \o t
  <1>1. /\ s \in Seq(R) /\ Len(s) = 2 /\ s[1] = r1 /\ s[2] = r2
        /\ t \in Seq(R) /\ Len(t) = 2 /\ t[1] = r3 /\ t[2] = r4
    OBVIOUS
  <1> HIDE DEF s, t, R
  <1>2. /\ st \in Seq(R) /\ Len(st) = Len(s) + Len(t)
        /\ \A k \in 1 .. Len(s) + Len(t) :
              st[k] = IF k <= Len(s) THEN s[k] ELSE t[k - Len(s)]
    BY <1>1, ConcatProperties
  <1> HIDE DEF st
  <1>3. Len(st) = 4 /\ DOMAIN st = 1..4
    BY <1>1, <1>2
  <1>4. st[1] = r1 /\ st[2] = r2 /\ st[3] = r3 /\ st[4] = r4
    BY <1>1, <1>2
  <1> QED  BY <1>3, <1>4 DEF st, s, t

LEMMA FourRules ==
    LET rules == HbaRules(TRUE) IN
    /\ DOMAIN rules = 1..4
    /\ rules[1] = [from |-> "socket", database |-> "all", user |-> "all",
                   method |-> "peer"]
    /\ rules[2] = [from |-> "loopback", database |-> "all", user |-> "all",
                   method |-> "scram"]
    /\ rules[3] = [from |-> "network", database |-> "all", user |-> "all",
                   method |-> "scram"]
    /\ rules[4] = [from |-> "network", database |-> "replication",
                   user |-> "streaming_replica", method |-> "scram"]
  <1> DEFINE r1 == [from |-> "socket", database |-> "all", user |-> "all",
                    method |-> "peer"]
             r2 == [from |-> "loopback", database |-> "all", user |-> "all",
                    method |-> "scram"]
             r3 == [from |-> "network", database |-> "all", user |-> "all",
                    method |-> "scram"]
             r4 == [from |-> "network", database |-> "replication",
                    user |-> "streaming_replica", method |-> "scram"]
             rules == <<r1, r2>> \o <<r3, r4>>
  <1>1. HbaRules(TRUE) = rules
    BY DEF HbaRules
  <1> HIDE DEF r1, r2, r3, r4
  <1>2. /\ DOMAIN rules = 1..4
        /\ rules[1] = r1 /\ rules[2] = r2 /\ rules[3] = r3 /\ rules[4] = r4
    BY TwoAndTwo
  <1> HIDE DEF rules
  <1> QED  BY <1>1, <1>2, Zenon DEF r1, r2, r3, r4

\* The first rule that matches decides, and "all" is not replication.
LEMMA FrontDoorOfRules ==
    ASSUME conf.hba = HbaRules(TRUE)
    PROVE  FrontDoor
  <1> SUFFICES ASSUME NEW c \in Connection
               PROVE  Method(c) = IF c.database = "replication"
                                  THEN IF c.from = "network" /\ c.user = "streaming_replica"
                                       THEN "scram" ELSE "reject"
                                  ELSE IF c.from = "socket" THEN "peer" ELSE "scram"
    BY DEF FrontDoor
  <1> DEFINE rules == conf.hba
             Matches(r) == /\ r.from = c.from
                           /\ r.user \in {"all", c.user}
                           /\ \/ r.database = c.database
                              \/ r.database = "all" /\ c.database # "replication"
             hits == {k \in DOMAIN rules : Matches(rules[k])}
             least == CHOOSE k \in hits : \A l \in hits : k <= l
  <1>1. Method(c) = IF hits = {} THEN "reject" ELSE rules[least].method
    BY DEF Method
  <1>2. rules = HbaRules(TRUE)
    OBVIOUS
  <1> HIDE DEF rules
  <1>2a. PICK r1, r2, r3, r4 :
            /\ rules[1] = r1 /\ rules[2] = r2 /\ rules[3] = r3 /\ rules[4] = r4
            /\ r1 = [from |-> "socket", database |-> "all", user |-> "all",
                     method |-> "peer"]
            /\ r2 = [from |-> "loopback", database |-> "all", user |-> "all",
                     method |-> "scram"]
            /\ r3 = [from |-> "network", database |-> "all", user |-> "all",
                     method |-> "scram"]
            /\ r4 = [from |-> "network", database |-> "replication",
                     user |-> "streaming_replica", method |-> "scram"]
    BY <1>2, FourRules, Zenon
  <1>2b. DOMAIN rules = 1..4
    BY <1>2, FourRules, Zenon
  <1>3. /\ DOMAIN rules = 1..4
        /\ rules[1].method = "peer" /\ rules[2].method = "scram"
        /\ rules[3].method = "scram" /\ rules[4].method = "scram"
    BY <1>2a, <1>2b
  <1>4. /\ Matches(rules[1]) <=> c.from = "socket" /\ c.database # "replication"
        /\ Matches(rules[2]) <=> c.from = "loopback" /\ c.database # "replication"
        /\ Matches(rules[3]) <=> c.from = "network" /\ c.database # "replication"
        /\ Matches(rules[4]) <=> /\ c.from = "network" /\ c.database = "replication"
                                 /\ c.user = "streaming_replica"
    <2>1. c.database \in {"app", "replication"} /\ c.user # "all"
      BY DEF Connection, Account, Managed
    <2> QED  BY <2>1, <1>2a
  <1> HIDE DEF Matches
  <1>5. \A k \in 1..4 : k \in hits <=> Matches(rules[k])
    BY <1>3
  <1>6. hits \subseteq 1..4
    BY <1>3
  <1> HIDE DEF hits
  <1>7. /\ 1 \in hits <=> c.from = "socket" /\ c.database # "replication"
        /\ 2 \in hits <=> c.from = "loopback" /\ c.database # "replication"
        /\ 3 \in hits <=> c.from = "network" /\ c.database # "replication"
        /\ 4 \in hits <=> /\ c.from = "network" /\ c.database = "replication"
                          /\ c.user = "streaming_replica"
        /\ hits \subseteq {1, 2, 3, 4}
    BY <1>4, <1>5, <1>6
  <1>8. ASSUME NEW k \in {1, 2, 3, 4}, hits = {k} PROVE least = k
    <2> HIDE DEF least
    <2>1. k \in hits /\ \A l \in hits : k <= l
      BY <1>8
    <2>2. least \in hits
      BY <2>1 DEF least
    <2> QED  BY <2>2, <1>8
  <1> HIDE DEF least
  <1>9. c.from \in {"socket", "loopback", "network"}
    BY DEF Connection
  <1>10. CASE c.database # "replication"
    <2>1. CASE c.from = "socket"
      <3>1. hits = {1}
        BY <1>7, <1>10, <2>1
      <3> QED  BY <1>1, <1>3, <1>8, <1>10, <2>1, <3>1
    <2>2. CASE c.from = "loopback"
      <3>1. hits = {2}
        BY <1>7, <1>10, <2>2
      <3> QED  BY <1>1, <1>3, <1>8, <1>10, <2>2, <3>1
    <2>3. CASE c.from = "network"
      <3>1. hits = {3}
        BY <1>7, <1>10, <2>3
      <3> QED  BY <1>1, <1>3, <1>8, <1>10, <2>3, <3>1
    <2> QED  BY <1>9, <2>1, <2>2, <2>3
  <1>11. CASE c.database = "replication"
    <2>1. CASE c.from = "network" /\ c.user = "streaming_replica"
      <3>1. hits = {4}
        BY <1>7, <1>11, <2>1
      <3> QED  BY <1>1, <1>3, <1>8, <1>11, <2>1, <3>1
    <2>2. CASE ~(c.from = "network" /\ c.user = "streaming_replica")
      <3>1. hits = {}
        BY <1>7, <1>11, <2>2
      <3> QED  BY <1>1, <1>11, <2>2, <3>1
    <2> QED  BY <2>1, <2>2
  <1> QED  BY <1>10, <1>11

-----------------------------------------------------------------------------
(* The invariant is inductive.                                             *)

LEMMA InvInit == ManifestsInit => Inv
  <1> SUFFICES ASSUME ManifestsInit PROVE Inv
    OBVIOUS
  <1>1. FileInv
    BY DEF ManifestsInit, FileInv, AtRest
  <1>2. BoxInv
    BY DEF ManifestsInit, BoxInv, NoBox, Starting
  <1>3. RenderedInv
    BY DEF ManifestsInit, RenderedInv, NoBox
  <1>4. DataInv
    BY DEF ManifestsInit, DataInv, NoData, NoRoles, NoBox
  <1>5. MistakesAreEarly
    BY DEF ManifestsInit, MistakesAreEarly
  <1> QED  BY <1>1, <1>2, <1>3, <1>4, <1>5 DEF Inv

\* What the steps of the command that reach no container keep.
LEMMA UntouchedBox ==
    ASSUME Inv, UNCHANGED <<box, data, conf, backrest, spoiled>>,
           at \in AtRest, at' \in AtRest \ {"ready", "failed"}
    PROVE  BoxInv' /\ RenderedInv' /\ DataInv' /\ MistakesAreEarly'
  <1>1. BoxInv'
    BY DEF Inv, BoxInv, AtRest, Starting, MadeOf, Accepted
  <1>2. RenderedInv'
    BY DEF Inv, RenderedInv, AtRest
  <1>3. DataInv'
    BY DEF Inv, DataInv, AtRest, FromInitdb, Complete
  <1>4. MistakesAreEarly'
    BY DEF MistakesAreEarly
  <1> QED  BY <1>1, <1>2, <1>3, <1>4

LEMMA CommandSteps ==
    ASSUME Inv, Apply \/ Parse \/ Check \/ Record
    PROVE  Inv'
  <1>1. CASE Apply
    <2>1. PICK m \in Manifest, boot \in Boot :
            /\ boot = "restore" => m.destinations # <<>>
            /\ file' = [manifest |-> m, boot |-> boot]
      BY <1>1 DEF Apply, Boot
    <2>3. file'.manifest = m /\ file'.boot = boot
      BY <2>1
    <2>4. FileInv'
      BY <1>1, <2>1, <2>3 DEF Apply, Inv, FileInv, AtRest, Starting, Boot, Accepted
    <2>2. at \in AtRest /\ at' \in AtRest \ {"ready", "failed"}
      BY <1>1 DEF Apply, AtRest
    <2> QED  BY <1>1, <2>4, <2>2, UntouchedBox DEF Apply, Inv
  <1>2. CASE Parse
    <2>1. FileInv'
      BY <1>2 DEF Parse, Inv, FileInv, AtRest, Starting, Boot, Accepted
    <2>2. at \in AtRest /\ at' \in AtRest \ {"ready", "failed"}
      BY <1>2 DEF Parse, AtRest
    <2> QED  BY <1>2, <2>1, <2>2, UntouchedBox DEF Parse, Inv
  <1>3. CASE Check
    <2>1. FileInv'
      BY <1>3 DEF Check, Inv, FileInv, AtRest, Starting, Boot, Accepted
    <2>2. at \in AtRest /\ at' \in AtRest \ {"ready", "failed"}
      BY <1>3 DEF Check, AtRest
    <2> QED  BY <1>3, <2>1, <2>2, UntouchedBox DEF Check, Inv
  <1>4. CASE Record
    <2>1. FileInv'
      BY <1>4 DEF Record, Goes, Inv, FileInv, AtRest, Starting, Boot, Accepted
    <2>2. at \in AtRest /\ at' \in AtRest \ {"ready", "failed"}
      BY <1>4 DEF Record, Goes, AtRest
    <2> QED  BY <1>4, <2>1, <2>2, UntouchedBox DEF Record, Inv
  <1> QED  BY <1>1, <1>2, <1>3, <1>4

\* What a container runs, where its manifest matters.
LEMMA MadeOfFacts ==
    ASSUME NEW s, NEW m, MadeOf(s, m)
    PROVE  /\ m \in Manifest /\ Accepted(m)
           /\ s.keys \subseteq Key
           /\ s.archive = (s.destinations # <<>>)
           /\ s.boot = "restore" => s.destinations # <<>>
           /\ \A d \in Elements(s.destinations) : d.scheme = "file" => s.volume
           /\ ~SpecValid(s) => LateMistake(m)
           /\ s.destinations # <<>> /\ ~Buildable(s) => LateMistake(m)
           /\ ~UserConfValid(s) => LateMistake(m)
           /\ ~AppDatabase(s) => LateMistake(m)
  <1>1. PICK b \in Boot : /\ b = "restore" => m.destinations # <<>>
                          /\ s = InstanceSpec(m, b)
    BY DEF MadeOf
  <1>2. Accepted(m) /\ m \in Manifest /\ m \in ManifestType
    BY ManifestsOK DEF MadeOf, Accepted
  <1>3. /\ s.keys \subseteq Key /\ s.archive = (s.destinations # <<>>)
        /\ s.destinations = <<>> <=> m.destinations = <<>>
        /\ s.boot = b /\ s.database = m.database /\ s.owner = m.owner
    BY <1>1, <1>2, SpecOfManifest
  <1>4. s.boot = "restore" => s.destinations # <<>>
    BY <1>1, <1>3
  <1>5. ~SpecValid(s) => LateMistake(m)
    BY <1>1, <1>2, RefusedSpecIsLate
  <1>6. s.destinations # <<>> /\ ~Buildable(s) => LateMistake(m)
    BY <1>1, <1>2, <1>3, UnbuildableIsLate
  <1>7. ~UserConfValid(s) => LateMistake(m)
    BY <1>1, <1>2, UnnamableIsLate
  <1>8. ~AppDatabase(s) => LateMistake(m)
    BY <1>3 DEF AppDatabase, ValidIdentifier, LateMistake
  <1>9. ASSUME NEW d \in Elements(s.destinations), d.scheme = "file"
        PROVE  s.volume
    <2>1. PICK k \in DOMAIN m.destinations : d = Sanitized(m.destinations[k])
      BY <1>1, <1>2, SpecOfManifest DEF Elements
    <2>2. m.destinations[k] \in Destination
      BY <1>2 DEF ManifestType
    <2>3. m.destinations[k].scheme = "file"
      BY <1>9, <2>1, <2>2, SanitizedKeeps
    <2>4. m.volume
      BY <1>2, <2>1, <2>3 DEF Accepted, Validate, ValidateDestinations, Elements
    <2> QED  BY <1>1, <1>2, <2>4, SpecOfManifest
  <1> QED  BY <1>2, <1>3, <1>4, <1>5, <1>6, <1>7, <1>8, <1>9

\* A step of a start that leaves the command's locals alone.
LEMMA FileKept ==
    ASSUME FileInv, UNCHANGED <<file, row>>, at \in {"spec", "ready"} \cup Starting,
           at' \in Starting \cup {"ready", "failed", "diverged"}
    PROVE  FileInv'
  BY DEF FileInv, AtRest, Starting, Accepted

LEMMA ConvergeStep ==
    ASSUME Inv, Converge
    PROVE  Inv'
  <1> DEFINE s == InstanceSpec(file.manifest, file.boot)
  <1>1. /\ file.boot \in Boot /\ row = file.manifest /\ Accepted(row)
        /\ file.boot = "restore" => row.destinations # <<>>
        /\ at = "spec"
    BY DEF Inv, FileInv, Converge
  <1>2. MadeOf(s, row) /\ row \in Manifest
    BY <1>1 DEF MadeOf, Accepted
  <1>3. box.state \in {"none", "up", "down"}
    BY <1>1 DEF Inv, BoxInv, Starting
  <1>4. at' \in Starting \cup {"ready", "failed", "diverged"}
    BY DEF Converge, Starting
  <1>5. FileInv'
    BY <1>1, <1>4, FileKept DEF Inv, Converge
  <1>6. UNCHANGED <<file, row, secret, volume, data, conf, backrest, spoiled, applies>>
    BY DEF Converge
  <1> HIDE DEF s
  <1>7. CASE ~SpecValid(s) /\ at' = "failed" /\ UNCHANGED box
    <2>1. LateMistake(row)
      BY <1>2, <1>7, MadeOfFacts
    <2>2. MistakesAreEarly'
      BY <1>6, <2>1 DEF MistakesAreEarly, LateMistake
    <2>3. BoxInv'
      BY <1>1, <1>6, <1>7 DEF Inv, BoxInv, Starting, MadeOf, Accepted
    <2>4. RenderedInv' /\ DataInv'
      BY <1>1, <1>6, <1>7 DEF Inv, RenderedInv, DataInv, FromInitdb, Complete
    <2> QED  BY <1>5, <2>2, <2>3, <2>4 DEF Inv
  <1>8. CASE /\ SpecValid(s) /\ box.state = "up" /\ UNCHANGED box
             /\ at' = IF box.spec = s THEN "ready" ELSE "diverged"
    <2>1. MistakesAreEarly'
      BY <1>8 DEF MistakesAreEarly
    <2>2. BoxInv'
      <3>1. /\ box'.state \in {"none", "starting", "up", "down"}
            /\ box'.state = "starting" <=> at' \in Starting
            /\ box'.state # "none" =>
                /\ \E m \in Manifest : MadeOf(box'.spec, m)
                /\ SpecValid(box'.spec)
                /\ box'.secrets = Secrets(box'.spec)
                /\ box'.archive = box'.spec.volume
            /\ at' = "ready" => box'.state = "up"
            /\ box' = [state |-> box'.state, spec |-> box'.spec,
                       secrets |-> box'.secrets, archive |-> box'.archive]
        BY <1>1, <1>8 DEF Inv, BoxInv, Starting
      <3>2. at' \in Starting \cup {"ready"} => MadeOf(box'.spec, row)
        BY <1>2, <1>8 DEF Starting
      <3> QED  BY <1>6, <3>1, <3>2 DEF BoxInv, MadeOf, Accepted
    <2>3. RenderedInv' /\ DataInv'
      BY <1>1, <1>6, <1>8 DEF Inv, RenderedInv, DataInv, FromInitdb, Complete
    <2> QED  BY <1>5, <2>1, <2>2, <2>3 DEF Inv
  <1>9. CASE /\ SpecValid(s) /\ box.state # "up" /\ at' = "bootstrap"
             /\ box' = IF box.state = "down" /\ box.spec = s
                       THEN [box EXCEPT !.state = "starting"]
                       ELSE ContainerOf(s)
    <2>1. /\ box'.state = "starting" /\ box'.spec = s
          /\ box' = [state |-> box'.state, spec |-> box'.spec,
                     secrets |-> box'.secrets, archive |-> box'.archive]
          /\ box'.secrets = Secrets(s) /\ box'.archive = s.volume
      <3>1. CASE box.state = "down" /\ box.spec = s
        <4>1. box = [state |-> "down", spec |-> s, secrets |-> Secrets(s),
                     archive |-> s.volume]
          BY <3>1 DEF Inv, BoxInv
        <4>2. box' = [state |-> "starting", spec |-> s, secrets |-> Secrets(s),
                      archive |-> s.volume]
          BY <1>9, <3>1, <4>1
        <4> QED  BY <4>2
      <3>2. CASE ~(box.state = "down" /\ box.spec = s)
        BY <1>9, <3>2 DEF ContainerOf
      <3> QED  BY <3>1, <3>2
    <2>2. BoxInv'
      <3>2. MadeOf(s, row)'
        BY <1>2, <1>6 DEF MadeOf, Accepted, s
      <3>3. at' = "bootstrap" /\ row' = row /\ SpecValid(s)
        BY <1>6, <1>9
      <3> QED  BY <1>2, <2>1, <3>2, <3>3 DEF BoxInv, Starting
    <2>3. RenderedInv'
      BY <1>9, <2>1 DEF RenderedInv
    <2>4. DataInv'
      BY <1>3, <1>6, <1>9, <2>1 DEF Inv, DataInv, FromInitdb, Complete
    <2> QED  BY <1>5, <1>9, <2>2, <2>3, <2>4 DEF Inv, MistakesAreEarly
  <1> QED  BY <1>7, <1>8, <1>9 DEF Converge, s

LEMMA FailedBox ==
    ASSUME BoxInv, AgentFails
    PROVE  /\ at' = "failed" /\ box'.state = "down" /\ box'.spec = box.spec
           /\ box'.secrets = box.secrets /\ box'.archive = box.archive
           /\ box' = [state |-> box'.state, spec |-> box'.spec,
                      secrets |-> box'.secrets, archive |-> box'.archive]
  <1> DEFINE b(s) == [state |-> s, spec |-> box.spec, secrets |-> box.secrets,
                      archive |-> box.archive]
  <1>1. box = b(box.state)
    BY DEF BoxInv
  <1>2. box' = b("down")
    BY <1>1 DEF AgentFails
  <1> QED  BY <1>2 DEF AgentFails

\* An agent that fails leaves a container that is down, with the
\* specification it had; if it fails for one of the late mistakes, and it is
\* known when its data is not complete, the invariant holds.
LEMMA AgentFailsStep ==
    ASSUME Inv, AgentFails, at \in Starting, UNCHANGED <<file, row>>, LateMistake(row),
           DataInv'
    PROVE  Inv'
  <1>1. /\ at' = "failed" /\ box'.state = "down" /\ box'.spec = box.spec
        /\ box'.secrets = box.secrets /\ box'.archive = box.archive
        /\ box' = [state |-> box'.state, spec |-> box'.spec,
                   secrets |-> box'.secrets, archive |-> box'.archive]
        /\ box.state = "starting"
    BY FailedBox DEF Inv, BoxInv
  <1>2. FileInv'
    BY <1>1, FileKept DEF Inv
  <1>3. BoxInv'
    BY <1>1 DEF Inv, BoxInv, Starting, MadeOf, Accepted
  <1>4. RenderedInv'
    BY <1>1 DEF RenderedInv
  <1>5. MistakesAreEarly'
    BY DEF MistakesAreEarly, LateMistake
  <1> QED  BY <1>2, <1>3, <1>4, <1>5 DEF Inv

\* A step that moves on within a start, or ends it, keeps what is known of the
\* container.
LEMMA BoxKept ==
    ASSUME BoxInv, UNCHANGED row, at \in Starting \cup {"ready"},
           at' \in Starting \cup {"ready"},
           \/ UNCHANGED box
           \/ box' = [box EXCEPT !.state = "up"]
           \/ box' = [box EXCEPT !.state = "starting"],
           box'.state = IF at' = "ready" THEN "up" ELSE "starting"
    PROVE  BoxInv'
  <1>1. /\ box'.spec = box.spec /\ box'.secrets = box.secrets
        /\ box'.archive = box.archive
        /\ box' = [state |-> box'.state, spec |-> box'.spec,
                   secrets |-> box'.secrets, archive |-> box'.archive]
    <2> DEFINE b(s) == [state |-> s, spec |-> box.spec, secrets |-> box.secrets,
                        archive |-> box.archive]
    <2>1. box = b(box.state)
      BY DEF BoxInv
    <2>2. box' = b(box.state) \/ box' = b("up") \/ box' = b("starting")
      BY <2>1
    <2> QED  BY <2>2
  <1>1a. box.state # "none"
    BY DEF BoxInv
  <1>2. box'.state = "starting" <=> at' \in Starting
    BY DEF Starting
  <1>3. MadeOf(box.spec, row)'
    BY <1>1 DEF BoxInv, MadeOf, Accepted
  <1>4. (\E m \in Manifest : MadeOf(box.spec, m))'
    BY <1>3 DEF MadeOf, Accepted
  <1> QED  BY <1>1, <1>1a, <1>2, <1>3, <1>4 DEF BoxInv

LEMMA BootstrapStep ==
    ASSUME Inv, Bootstrap
    PROVE  Inv'
  <1>1. at = "bootstrap" /\ at \in Starting /\ box.state = "starting"
    BY DEF Bootstrap, Inv, BoxInv, Starting
  <1>2. UNCHANGED <<file, row, secret, volume, conf, spoiled, applies>>
    BY DEF Bootstrap
  <1>3. MadeOf(box.spec, row)
    BY <1>1 DEF Inv, BoxInv
  <1>4. CASE data.state = "whole" /\ at' = "render" /\ UNCHANGED <<box, data, backrest>>
    <2>1. FileInv' /\ BoxInv'
      BY <1>1, <1>2, <1>4, FileKept, BoxKept DEF Inv, Starting
    <2>2. RenderedInv' /\ MistakesAreEarly'
      BY <1>1, <1>4 DEF RenderedInv, MistakesAreEarly
    <2>3. DataInv'
      BY <1>1, <1>2, <1>4 DEF Inv, DataInv, FromInitdb, Complete
    <2> QED  BY <2>1, <2>2, <2>3 DEF Inv
  <1>5. CASE /\ at' = "first render" /\ UNCHANGED <<box, backrest>>
             /\ data' = [NoData EXCEPT !.state = "whole",
                                       !.roles["postgres"] = "superuser"]
    <2>1. FileInv' /\ BoxInv'
      BY <1>1, <1>2, <1>5, FileKept, BoxKept DEF Inv, Starting
    <2>2. RenderedInv' /\ MistakesAreEarly'
      BY <1>1, <1>5 DEF RenderedInv, MistakesAreEarly
    <2>3. DataInv'
      BY <1>1, <1>2, <1>5 DEF DataInv, NoData, NoRoles
    <2> QED  BY <2>1, <2>2, <2>3 DEF Inv
  <1>6. CASE /\ at' = "render" /\ UNCHANGED box
             /\ data' = [state |-> "whole", roles |-> [a \in Account |-> "source"],
                         app |-> TRUE, replays |-> TRUE]
    <2>1. FileInv' /\ BoxInv'
      BY <1>1, <1>2, <1>6, FileKept, BoxKept DEF Inv, Starting
    <2>2. RenderedInv' /\ MistakesAreEarly'
      BY <1>1, <1>6 DEF RenderedInv, MistakesAreEarly
    <2>3. DataInv'
      <3>1. data'.roles["postgres"] = "source"
        BY <1>6 DEF Account, Managed
      <3> QED  BY <1>1, <1>6, <3>1 DEF DataInv, FromInitdb
    <2> QED  BY <2>1, <2>2, <2>3 DEF Inv
  <1>7. CASE /\ data.state = "none" /\ box.spec.boot = "restore"
             /\ ~Buildable(box.spec) /\ AgentFails /\ UNCHANGED <<backrest, data>>
    <2>1. LateMistake(row)
      BY <1>3, <1>7, MadeOfFacts
    <2>2. DataInv'
      BY <1>1, <1>2, <1>7 DEF Inv, DataInv, AgentFails
    <2> QED  BY <1>1, <1>2, <1>7, <2>1, <2>2, AgentFailsStep
  <1> QED  BY <1>4, <1>5, <1>6, <1>7 DEF Bootstrap

LEMMA RenderStep ==
    ASSUME Inv, Render
    PROVE  Inv'
  <1>1. /\ at \in {"render", "first render"} /\ at \in Starting
        /\ box.state = "starting" /\ data.state = "whole"
    BY DEF Render, Inv, BoxInv, DataInv, Starting
  <1>2. UNCHANGED <<file, row, secret, volume, data, applies>>
    BY DEF Render
  <1>3. MadeOf(box.spec, row)
    BY <1>1 DEF Inv, BoxInv
  <1>4. CASE /\ box.spec.destinations # <<>> => Buildable(box.spec)
             /\ UserConfValid(box.spec)
             /\ conf' = [managed |-> ManagedConf(box.spec, data.replays),
                         user |-> UserConf(box.spec), hba |-> HbaRules(TRUE)]
             /\ at' = IF at = "render" THEN "spawn" ELSE "roles"
             /\ UNCHANGED <<box, spoiled>>
    <2>1. FileInv' /\ BoxInv'
      BY <1>1, <1>2, <1>4, FileKept, BoxKept DEF Inv, Starting
    <2>2. MistakesAreEarly'
      BY <1>1, <1>4 DEF MistakesAreEarly
    <2>3. RenderedInv'
      <3>1. box.spec.destinations # <<>> => backrest' = BackRestConf(box.spec)
        BY <1>4 DEF Render
      <3>2. data.replays \in BOOLEAN /\ Renders(box.spec)
        BY <1>4 DEF Inv, DataInv, Renders
      <3>3. conf'.managed = ManagedConf(box.spec, data.replays)
        BY <1>4
      <3>4. conf'.user = UserConf(box.spec) /\ conf'.hba = HbaRules(TRUE)
        BY <1>4
      <3> QED  BY <1>1, <1>2, <1>4, <3>1, <3>2, <3>3, <3>4 DEF RenderedInv
    <2>4. DataInv'
      BY <1>1, <1>2, <1>4 DEF Inv, DataInv, FromInitdb, Complete
    <2> QED  BY <2>1, <2>2, <2>3, <2>4 DEF Inv
  <1>5. CASE /\ \/ box.spec.destinations # <<>> /\ ~Buildable(box.spec)
                \/ ~UserConfValid(box.spec)
             /\ AgentFails
             /\ spoiled' = (spoiled \/ at = "first render")
    <2>1. LateMistake(row)
      BY <1>3, <1>5, MadeOfFacts
    <2>2. DataInv'
      <3>1. box'.state = "down" /\ at' = "failed"
        BY <1>1, <1>5, FailedBox DEF Inv
      <3>2. ~(FromInitdb /\ ~spoiled')
        BY <1>1, <1>5 DEF Inv, DataInv, Renders
      <3> QED  BY <1>1, <1>2, <3>1, <3>2 DEF Inv, DataInv, FromInitdb
    <2> QED  BY <1>1, <1>2, <1>5, <2>1, <2>2, AgentFailsStep
  <1> QED  BY <1>4, <1>5 DEF Render

\* The statements of create_roles give every role the password of its own
\* secret; the owner of the database, its.
LEMMA RolesAreComplete ==
    ASSUME NEW s, AppDatabase(s), s.owner \in {"none", "app", "Bad", "streaming_replica"}
    PROVE  LET roles == RolesOf(s, Secrets(s)) IN
           /\ \A a \in Managed \ {s.owner} : roles[a] = RolesOf(s, {})[a]
           /\ HasDatabase(s) => roles[s.owner] = "app-owner"
  <1> DEFINE roles == RolesOf(s, Secrets(s))
  <1>1. ASSUME NEW a \in Managed \ {s.owner}
        PROVE  roles[a] = RolesOf(s, {})[a]
    <2>1. a \in Account
      BY DEF Account
    <2> QED  BY <2>1 DEF RolesOf
  <1>2. ASSUME HasDatabase(s)
        PROVE  roles[s.owner] = "app-owner"
    <2>1. s.owner \in Account /\ s.database # "none"
      BY <1>2 DEF AppDatabase, HasDatabase, ValidIdentifier, Account, Managed
    <2>2. "app-owner" \in Secrets(s)
      BY <2>1 DEF Secrets
    <2> QED  BY <1>2, <2>1, <2>2 DEF RolesOf
  <1> QED  BY <1>1, <1>2

LEMMA RolesTyped ==
    ASSUME NEW s, NEW secrets
    PROVE  RolesOf(s, secrets) \in
              [Account -> {"none", "superuser", "replication", "monitor",
                           "app-owner", "source"}]
  BY DEF RolesOf

LEMMA OwnerIs ==
    ASSUME NEW s, NEW m, MadeOf(s, m)
    PROVE  s.owner \in {"none", "app", "Bad", "streaming_replica"}
  <1>1. m \in ManifestType
    BY ManifestsOK DEF MadeOf, Accepted
  <1>2. s.owner = m.owner
    BY <1>1, SpecOfManifest DEF MadeOf
  <1> QED  BY <1>1, <1>2 DEF ManifestType

LEMMA CreateRolesStep ==
    ASSUME Inv, CreateRoles
    PROVE  Inv'
  <1>1. /\ at = "roles" /\ at \in Starting /\ box.state = "starting"
        /\ data.state = "whole" /\ box.secrets = Secrets(box.spec)
    BY DEF CreateRoles, Inv, BoxInv, DataInv, Starting
  <1>2. UNCHANGED <<file, row, secret, volume, conf, backrest, applies>>
    BY DEF CreateRoles
  <1>3. MadeOf(box.spec, row)
    BY <1>1 DEF Inv, BoxInv
  <1>4. CASE /\ AppDatabase(box.spec)
             /\ data' = [data EXCEPT !.roles = RolesOf(box.spec, box.secrets),
                                     !.app = HasDatabase(box.spec)]
             /\ at' = "spawn" /\ UNCHANGED <<box, spoiled>>
    <2>1. FileInv' /\ BoxInv'
      BY <1>1, <1>2, <1>4, FileKept, BoxKept DEF Inv, Starting
    <2>2. MistakesAreEarly'
      BY <1>4 DEF MistakesAreEarly
    <2>3. /\ data'.state = data.state /\ data'.replays = data.replays
          /\ data'.roles = RolesOf(box.spec, Secrets(box.spec))
          /\ data'.app = HasDatabase(box.spec)
      BY <1>1, <1>4 DEF Inv, DataInv
    <2>4. RenderedInv'
      BY <1>1, <1>2, <1>4, <2>3 DEF Inv, RenderedInv
    <2>5. box.spec.owner \in {"none", "app", "Bad", "streaming_replica"}
      BY <1>3, OwnerIs
    <2>6. Complete'
      <3> DEFINE s == box.spec
      <3>1. /\ \A a \in Managed \ {s.owner} : data'.roles[a] = RolesOf(s, {})[a]
            /\ HasDatabase(s) => data'.app /\ data'.roles[s.owner] = "app-owner"
        BY <1>4, <2>3, <2>5, RolesAreComplete
      <3>2. box' = box
        BY <1>4
      <3> QED  BY <3>1, <3>2 DEF Complete
    <2>7. DataInv'
      <3>1. data'.roles \in [Account -> {"none", "superuser", "replication",
                                        "monitor", "app-owner", "source"}]
        BY <2>3, RolesTyped
      <3>2. data' = [state |-> data'.state, roles |-> data'.roles,
                     app |-> data'.app, replays |-> data'.replays]
        BY <1>4 DEF Inv, DataInv
      <3>3. data'.replays \in BOOLEAN
        BY <2>3 DEF Inv, DataInv
      <3> QED  BY <1>1, <1>2, <1>4, <2>3, <2>6, <3>1, <3>2, <3>3 DEF DataInv
    <2> QED  BY <2>1, <2>2, <2>4, <2>7 DEF Inv
  <1>5. CASE ~AppDatabase(box.spec) /\ AgentFails /\ spoiled' = TRUE /\ UNCHANGED data
    <2>1. LateMistake(row)
      BY <1>3, <1>5, MadeOfFacts
    <2>2. DataInv'
      BY <1>1, <1>2, <1>5, FailedBox DEF Inv, DataInv
    <2> QED  BY <1>1, <1>2, <1>5, <2>1, <2>2, AgentFailsStep
  <1> QED  BY <1>4, <1>5 DEF CreateRoles

LEMMA ServerSteps ==
    ASSUME Inv, Spawn \/ Promoted \/ Restarts
    PROVE  Inv'
  <1>1. CASE Spawn
    <2>1. at = "spawn" /\ at' = "ready" /\ at \in Starting
      BY <1>1 DEF Spawn, Goes, Starting
    <2>2. box'.state = "up" /\ box'.spec = box.spec /\ box'.secrets = box.secrets
      BY <1>1 DEF Spawn, Inv, BoxInv
    <2>3. FileInv' /\ BoxInv'
      BY <1>1, <2>1, <2>2, FileKept, BoxKept DEF Inv, Spawn
    <2>4. RenderedInv' /\ MistakesAreEarly'
      BY <1>1, <2>1, <2>2 DEF Inv, RenderedInv, Spawn, MistakesAreEarly
    <2>5. DataInv'
      BY <1>1, <2>1, <2>2 DEF Inv, DataInv, Spawn, FromInitdb, Complete
    <2> QED  BY <2>3, <2>4, <2>5 DEF Inv
  <1>2. CASE Promoted
    <2>1. at = "ready" /\ at' = "ready" /\ box'.state = "up" /\ UNCHANGED box
      BY <1>2 DEF Promoted
    <2>2. FileInv' /\ BoxInv'
      BY <1>2, <2>1, FileKept, BoxKept DEF Inv, Promoted
    <2>3. /\ data'.state = data.state /\ data'.roles = data.roles
          /\ data'.app = data.app /\ data'.replays = FALSE
          /\ data' = [state |-> data'.state, roles |-> data'.roles,
                      app |-> data'.app, replays |-> data'.replays]
      <3>1. data = [state |-> data.state, roles |-> data.roles, app |-> data.app,
                    replays |-> data.replays]
        BY DEF Inv, DataInv
      <3>2. data' = [state |-> data.state, roles |-> data.roles, app |-> data.app,
                     replays |-> FALSE]
        BY <1>2, <3>1 DEF Promoted
      <3> QED  BY <3>2
    <2>4. RenderedInv' /\ MistakesAreEarly'
      BY <1>2, <2>1, <2>3 DEF Inv, RenderedInv, Promoted, MistakesAreEarly
    <2>5. DataInv'
      <3>1. data.state # "none"
        BY <2>1 DEF Inv, RenderedInv
      <3> QED
        BY <1>2, <2>1, <2>3, <3>1 DEF Inv, DataInv, Promoted, FromInitdb, Complete
    <2> QED  BY <2>2, <2>4, <2>5 DEF Inv
  <1>3. CASE Restarts
    <2>1. at = "ready" /\ at' = "bootstrap" /\ box.state = "up"
      BY <1>3 DEF Restarts
    <2>2. /\ box'.state = "starting" /\ box'.spec = box.spec
          /\ box'.secrets = box.secrets
      BY <1>3 DEF Restarts, Inv, BoxInv
    <2>3. FileInv' /\ BoxInv'
      BY <1>3, <2>1, <2>2, FileKept, BoxKept DEF Inv, Restarts, Starting
    <2>4. RenderedInv' /\ MistakesAreEarly'
      BY <2>1, <2>2 DEF RenderedInv, MistakesAreEarly
    <2>5. Renders(box.spec)
      BY <2>1 DEF Inv, RenderedInv
    <2>6. DataInv'
      BY <1>3, <2>1, <2>2, <2>5 DEF Inv, DataInv, Restarts, FromInitdb, Complete
    <2> QED  BY <2>3, <2>4, <2>6 DEF Inv
  <1> QED  BY <1>1, <1>2, <1>3

LEMMA InvStep ==
    ASSUME Inv, [ManifestsNext]_manifestVars
    PROVE  Inv'
  <1>1. CASE UNCHANGED manifestVars
    <2>1. FileInv' /\ BoxInv'
      BY <1>1 DEF manifestVars, Inv, FileInv, BoxInv, MadeOf, Accepted
    <2>2. RenderedInv' /\ DataInv'
      BY <1>1 DEF manifestVars, Inv, RenderedInv, DataInv, FromInitdb, Complete
    <2>3. MistakesAreEarly'
      BY <1>1 DEF manifestVars, Inv, MistakesAreEarly, LateMistake
    <2> QED  BY <2>1, <2>2, <2>3 DEF Inv
  <1> QED
    BY <1>1, CommandSteps, ConvergeStep, BootstrapStep, RenderStep, CreateRolesStep,
       ServerSteps DEF ManifestsNext

-----------------------------------------------------------------------------
(* What follows from it.                                                   *)

\* Nothing that Validate and ValidateParameters could have refused fails
\* behind them (`pgpod apply`, lib.rs and manifest.rs).
THEOREM EarlyMistakes == ManifestsSpec => []MistakesAreEarly
  <1>1. Inv => MistakesAreEarly
    BY DEF Inv
  <1> QED  BY <1>1, InvInit, InvStep, PTL DEF ManifestsSpec

\* A parameter of the manifest never wins over one that pgpod manages,
\* however it is spelled (reserved parameters of pgpod-pg's config.rs).
THEOREM ManagedStand == ManifestsSpec => []ManagedSettingsStand
  <1>1. Inv => ManagedSettingsStand
    <2> SUFFICES ASSUME Inv, at = "ready", NEW n \in Reserved
                 PROVE  Effective(n) = IF n \in DOMAIN conf.managed
                                       THEN conf.managed[n] ELSE "default"
      BY DEF ManagedSettingsStand
    <2>1. conf.user = UserConf(box.spec) /\ UserConfValid(box.spec)
      BY DEF Inv, BoxInv, RenderedInv, Renders
    <2>2. box.spec.keys \subseteq Key
      BY MadeOfFacts DEF Inv, BoxInv
    <2> QED  BY <2>1, <2>2, UserLeavesReserved
  <1> QED  BY <1>1, InvInit, InvStep, PTL DEF ManifestsSpec

\* A server archives and replays with stanzas and repositories that its
\* pgbackrest.conf defines (render_config of the agent).
THEOREM Archives == ManifestsSpec => []ArchivesSomewhere
  <1>1. Inv => ArchivesSomewhere
    <2> SUFFICES ASSUME Inv, at = "ready" PROVE ArchivesSomewhere
      BY DEF ArchivesSomewhere
    <2> DEFINE s == box.spec
    <2>1. box.state = "up" /\ MadeOf(s, row) /\ box.archive = s.volume
      BY DEF Inv, BoxInv
    <2>2. /\ s.archive = (s.destinations # <<>>)
          /\ s.boot = "restore" => s.destinations # <<>>
          /\ s.keys \subseteq Key
      BY <2>1, MadeOfFacts
    <2>3. PICK r \in BOOLEAN : /\ conf.managed = ManagedConf(s, r)
                               /\ data.replays => r
      BY <2>1 DEF Inv, RenderedInv
    <2>4. /\ conf.user = UserConf(s) /\ UserConfValid(s)
          /\ s.destinations # <<>> => backrest = BackRestConf(s)
      BY <2>1 DEF Inv, RenderedInv, Renders
    <2>5. \A n \in Reserved : Effective(n) = IF n \in DOMAIN conf.managed
                                            THEN conf.managed[n] ELSE "default"
      BY <2>2, <2>4, UserLeavesReserved
    <2>6. /\ Effective("archive_mode") = IF s.archive THEN "on" ELSE "off"
          /\ s.archive => Effective("archive_command") = "own"
          /\ s.boot = "restore" /\ data.replays => Effective("restore_command") = "source"
      <3>1. s.archive \in BOOLEAN
        BY <2>2
      <3>2. {"archive_mode", "archive_command", "restore_command"} \subseteq Reserved
        BY DEF Reserved
      <3> QED  BY <2>3, <2>5, <3>1, <3>2, ManagedSays
    <2>7. s.destinations # <<>> =>
            /\ backrest.repositories = s.destinations
            /\ "own" \in backrest.stanzas
            /\ s.boot = "restore" => "source" \in backrest.stanzas
      BY <2>4 DEF BackRestConf
    <2>8. s.destinations # <<>> =>
            \A d \in Elements(s.destinations) : d.scheme = "file" => s.volume
      BY <2>1, MadeOfFacts
    <2> QED  BY <2>1, <2>2, <2>6, <2>7, <2>8 DEF ArchivesSomewhere
  <1> QED  BY <1>1, InvInit, InvStep, PTL DEF ManifestsSpec

\* Who a ready cluster lets in is who it is for (hba.rs, and create_roles of
\* the agent).
THEOREM OnlyTheInvited == ManifestsSpec => []WhoGetsIn
  <1>1. Inv => WhoGetsIn
    <2> SUFFICES ASSUME Inv, at = "ready"
                 PROVE  FrontDoor /\ (FromInitdb /\ ~spoiled => Complete)
      BY DEF WhoGetsIn
    <2>1. box.state = "up"
      BY DEF Inv, BoxInv
    <2>2. conf.hba = HbaRules(TRUE) /\ data.state = "whole"
      BY <2>1 DEF Inv, RenderedInv
    <2> QED  BY <2>2, FrontDoorOfRules DEF Inv, DataInv
  <1> QED  BY <1>1, InvInit, InvStep, PTL DEF ManifestsSpec

-----------------------------------------------------------------------------
(* Poolers: each pool of each cluster answers.                             *)

Resolved == {"roles", "check", "create", "render", "serving"}
Checked  == {"create", "render", "serving"}

SpecOf(m) == [pools |-> {PoolTarget(p) : p \in AllPools(m)},
              size |-> m.size, hold |-> m.hold, keys |-> m.keys]

NetworksOfPools(s) == {p.cluster : p \in s.pools}
MountsOfPools(s) ==
    [k \in {p.secret : p \in s.pools} |->
        CHOOSE c \in {p.cluster : p \in {p \in s.pools : p.secret = k}} : TRUE]

FileOf(s) == [pools |-> PoolSections(s), general |-> General(s)]

\* The specification is what the manifest resolved to, in the registry as it
\* was; the container is what the specification asks for; and from the check
\* on nothing is left that the agent could refuse.
PoolerInv ==
    /\ pat \in {"idle", "parse", "resolve", "refused"} \cup Resolved
    /\ pat # "idle" => pfile \in PoolerFile
    /\ pat \in Resolved => pspec = SpecOf(pfile)
    /\ pat \in Resolved \ {"roles"} =>
        looked = {pfile.clusters[i].cluster : i \in DOMAIN pfile.clusters}
    /\ pat \in Checked =>
        ValidatePoolerParameters(pspec.keys) /\ PoolerSpecValid(pspec)
    /\ pat \in {"render", "serving"} =>
        networks = NetworksOfPools(pspec) /\ mounts = MountsOfPools(pspec)
    /\ pat = "serving" => doorman = FileOf(pspec)

\* A pool of the manifest: whose it is, and where its secret is mounted.
LEMMA PoolsOfManifest ==
    ASSUME NEW m \in PoolerFile
    PROVE  /\ \A p \in AllPools(m) : /\ p.index \in DOMAIN m.clusters
                                     /\ p.cluster = m.clusters[p.index].cluster
           /\ \A i \in DOMAIN m.clusters :
                \E p \in AllPools(m) : p.cluster = m.clusters[i].cluster
  <1>0. m.clusters \in Seq([cluster : ClusterName, pools : Seq(PoolRef)])
    BY PoolerManifestsOK DEF PoolerManifestType
  <1>1. ASSUME NEW i \in DOMAIN m.clusters
        PROVE  /\ \A p \in ClusterPools(m, i) :
                    p.index = i /\ p.cluster = m.clusters[i].cluster
               /\ ClusterPools(m, i) # {}
    <2> DEFINE E == [cluster : ClusterName, pools : Seq(PoolRef)]
               c == m.clusters[i]
    <2>1. c.pools \in Seq(PoolRef)
      <3>1. m.clusters \in Seq(E)
        BY <1>0
      <3>2. c \in E
        <4> HIDE DEF E
        <4> QED  BY <3>1
      <3> QED  BY <3>2
    <2>2. c.pools # <<>> => 1 \in DOMAIN c.pools
      BY <2>1
    <2>3. CASE c.pools = <<>>
      BY <2>3 DEF ClusterPools
    <2>4. CASE c.pools # <<>>
      <3>1. ClusterPools(m, i) =
              {[cluster |-> c.cluster, index |-> i, place |-> j,
                database |-> c.pools[j].database, name |-> PoolName(c.pools[j])] :
                  j \in DOMAIN c.pools}
        BY <2>4 DEF ClusterPools
      <3> HIDE DEF c
      <3>2. ClusterPools(m, i) # {}
        BY <2>2, <2>4, <3>1
      <3>3. \A p \in ClusterPools(m, i) : p.index = i /\ p.cluster = c.cluster
        BY <3>1
      <3> QED  BY <3>2, <3>3 DEF c
    <2> QED  BY <2>3, <2>4
  <1>2. \A p \in AllPools(m) : \E i \in DOMAIN m.clusters : p \in ClusterPools(m, i)
    BY DEF AllPools
  <1>3. \A i \in DOMAIN m.clusters : ClusterPools(m, i) \subseteq AllPools(m)
    BY DEF AllPools
  <1> QED  BY <1>1, <1>2, <1>3

\* A target leads to the cluster whose clients it holds, and pools with the
\* same secret are of the same cluster.
LEMMA Targets ==
    ASSUME PoolerInv, pat \in Resolved
    PROVE  /\ pfile \in PoolerFile
           /\ \A p \in pspec.pools :
                /\ p.host = p.cluster
                /\ p.secret \in DOMAIN pfile.clusters
                /\ p.cluster = pfile.clusters[p.secret].cluster
           /\ \A i \in DOMAIN pfile.clusters :
                \E p \in pspec.pools : p.cluster = pfile.clusters[i].cluster
  <1>1. /\ pfile \in PoolerFile
        /\ pspec.pools = {PoolTarget(p) : p \in AllPools(pfile)}
    BY DEF PoolerInv, Resolved, SpecOf
  <1>2. \A p \in AllPools(pfile) :
           /\ PoolTarget(p).host = p.cluster /\ PoolTarget(p).cluster = p.cluster
           /\ PoolTarget(p).secret = p.index
    BY DEF PoolTarget, SecretIndex
  <1> QED  BY <1>1, <1>2, PoolsOfManifest

LEMMA PoolerInvInit == PoolerManifestsInit => PoolerInv
  BY DEF PoolerManifestsInit, PoolerInv, Resolved, Checked

LEMMA PoolerInvStep == PoolerInv /\ [PoolerManifestsNext]_poolerVars => PoolerInv'
  <1> SUFFICES ASSUME PoolerInv, [PoolerManifestsNext]_poolerVars PROVE PoolerInv'
    OBVIOUS
  <1> USE DEF Resolved, Checked
  <1>1. CASE Submit
    BY <1>1 DEF Submit, PoolerInv
  <1>2. CASE ParsePooler
    BY <1>2 DEF ParsePooler, PoolerInv
  <1>3. /\ UNCHANGED <<pfile, known>> => SpecOf(pfile)' = SpecOf(pfile)
        /\ UNCHANGED pspec => /\ NetworksOfPools(pspec)' = NetworksOfPools(pspec)
                              /\ MountsOfPools(pspec)' = MountsOfPools(pspec)
        /\ UNCHANGED <<pspec, mounts>> => FileOf(pspec)' = FileOf(pspec)
    <2>1. UNCHANGED <<pfile, known>> => SpecOf(pfile)' = SpecOf(pfile)
      BY DEF SpecOf, AllPools, ClusterPools
    <2>2. UNCHANGED pspec => /\ NetworksOfPools(pspec)' = NetworksOfPools(pspec)
                            /\ MountsOfPools(pspec)' = MountsOfPools(pspec)
      BY DEF NetworksOfPools, MountsOfPools
    <2>3. UNCHANGED <<pspec, mounts>> => FileOf(pspec)' = FileOf(pspec)
      BY DEF FileOf, PoolSections, General
    <2> QED  BY <2>1, <2>2, <2>3
  <1>4. CASE ResolvePooler
    <2>1. /\ \/ pat' = "refused"
             \/ pat' = "roles" /\ pspec' = SpecOf(pfile)
          /\ UNCHANGED <<pfile, known>> /\ pfile \in PoolerFile
      BY <1>4 DEF ResolvePooler, PoolerInv, SpecOf
    <2> QED  BY <1>3, <2>1 DEF PoolerInv
  <1>5. CASE EnsureRoles
    BY <1>3, <1>5 DEF EnsureRoles, PoolerInv
  <1>6. CASE CheckPooler
    BY <1>3, <1>6 DEF CheckPooler, PoolerInv
  <1>7. CASE CreatePoolerContainer
    <2>1. networks' = NetworksOfPools(pspec) /\ mounts' = MountsOfPools(pspec)
      BY <1>7 DEF CreatePoolerContainer, NetworksOfPools, MountsOfPools
    <2>2. /\ pat = "create" /\ pat' = "render"
          /\ UNCHANGED <<pfile, known, pspec, looked, doorman>>
      BY <1>7 DEF CreatePoolerContainer
    <2> QED  BY <1>3, <2>1, <2>2 DEF PoolerInv
  <1>8. CASE RenderDoorman
    <2>1. /\ pat = "render" /\ PoolerSpecValid(pspec)
          /\ ValidatePoolerParameters(pspec.keys) /\ mounts = MountsOfPools(pspec)
      BY <1>8 DEF RenderDoorman, PoolerInv
    <2>2. \A p \in pspec.pools : p.secret \in DOMAIN mounts
      BY <2>1 DEF MountsOfPools
    <2>3. /\ doorman' = FileOf(pspec) /\ pat' = "serving"
          /\ UNCHANGED <<pfile, known, pspec, looked, networks, mounts>>
      BY <1>8, <2>1, <2>2 DEF RenderDoorman, FileOf
    <2> QED  BY <1>3, <2>1, <2>3 DEF PoolerInv
  <1>9. CASE UNCHANGED poolerVars
    <2>1. UNCHANGED <<pfile, pat, known, pspec, looked, networks, mounts, doorman>>
      BY <1>9 DEF poolerVars
    <2> QED  BY <1>3, <2>1 DEF PoolerInv
  <1> QED
    BY <1>1, <1>2, <1>4, <1>5, <1>6, <1>7, <1>8, <1>9 DEF PoolerManifestsNext

\* For every manifest and every registry: a pooler that apply lets through is
\* rendered, and each of its pools leads where its name says, with the
\* password of the cluster it leads to.
THEOREM EveryPoolIsReached == PoolerManifestsSpec => []EveryPoolAnswers
  <1>1. PoolerInv => EveryPoolAnswers
    <2> SUFFICES ASSUME PoolerInv, pat = "serving"
                 PROVE  /\ \A i \in DOMAIN pfile.clusters :
                            LET c == pfile.clusters[i].cluster IN
                            /\ PoolsFor(c) # {}
                            /\ \A n \in PoolsFor(c) :
                                /\ doorman.pools[n].host = c
                                /\ doorman.pools[n].password = c
                                /\ c \in networks \cap looked
                        /\ \A c, d \in networks : c # d => PoolsFor(c) \cap PoolsFor(d) = {}
                        /\ \A k \in ReservedDoorman \cap DOMAIN doorman.general :
                            doorman.general[k] = "pgpod"
      BY DEF EveryPoolAnswers, PoolerInv, Resolved
    <2>1. /\ \A p, q \in pspec.pools : p # q => p.name # q.name
          /\ ValidatePoolerParameters(pspec.keys)
          /\ networks = NetworksOfPools(pspec) /\ mounts = MountsOfPools(pspec)
          /\ doorman = FileOf(pspec)
          /\ looked = {pfile.clusters[i].cluster : i \in DOMAIN pfile.clusters}
      BY DEF PoolerInv, PoolerSpecValid, Resolved, Checked
    <2>2. /\ \A p \in pspec.pools :
               /\ p.host = p.cluster
               /\ p.secret \in DOMAIN pfile.clusters
               /\ p.cluster = pfile.clusters[p.secret].cluster
          /\ \A i \in DOMAIN pfile.clusters :
               \E p \in pspec.pools : p.cluster = pfile.clusters[i].cluster
      BY Targets DEF Resolved
    <2>3. \A c, n : n \in PoolsFor(c) <=> \E p \in pspec.pools : p.cluster = c /\ p.name = n
      BY DEF PoolsFor
    <2>4. ASSUME NEW p \in pspec.pools
          PROVE  /\ doorman.pools[p.name].host = p.cluster
                 /\ doorman.pools[p.name].password = p.cluster
      <3>1. (CHOOSE q \in pspec.pools : q.name = p.name) = p
        BY <2>1
      <3>2. doorman.pools[p.name] = [host |-> p.host, database |-> p.database,
                                     password |-> mounts[p.secret]]
        BY <2>1, <3>1 DEF FileOf, PoolSections
      <3>3. {q.cluster : q \in {q \in pspec.pools : q.secret = p.secret}} = {p.cluster}
        BY <2>2
      <3>4. mounts[p.secret] = p.cluster
        BY <2>1, <3>3 DEF MountsOfPools
      <3> QED  BY <2>2, <3>2, <3>4
    <2>5. ASSUME NEW i \in DOMAIN pfile.clusters
          PROVE  /\ PoolsFor(pfile.clusters[i].cluster) # {}
                 /\ pfile.clusters[i].cluster \in networks \cap looked
      <3>1. PICK p \in pspec.pools : p.cluster = pfile.clusters[i].cluster
        BY <2>2
      <3>2. p.name \in PoolsFor(pfile.clusters[i].cluster)
        BY <2>3, <3>1
      <3>3. pfile.clusters[i].cluster \in networks
        BY <2>1, <3>1 DEF NetworksOfPools
      <3> QED  BY <2>1, <3>2, <3>3
    <2>6. \A c, d \in networks : c # d => PoolsFor(c) \cap PoolsFor(d) = {}
      BY <2>1, <2>3
    <2>7. \A k \in ReservedDoorman \cap DOMAIN doorman.general :
             doorman.general[k] = "pgpod"
      <3>1. \A k \in ReservedDoorman : k \notin {Lowered(key) : key \in pspec.keys}
        BY <2>1 DEF ValidatePoolerParameters
      <3> QED  BY <2>1, <3>1 DEF FileOf, General
    <2> QED  BY <2>3, <2>4, <2>5, <2>6, <2>7
  <1> QED  BY <1>1, PoolerInvInit, PoolerInvStep, PTL DEF PoolerManifestsSpec

-----------------------------------------------------------------------------
(* Names.                                                                  *)

\* The words a name is made of.
Said == Word \cup JobWords
        \cup {"pgpod", "pooler", "pgdata", "superuser", "replication", "monitor",
              "app", "owner", "admin"}
Text == Seq(Said)

-----------------------------------------------------------------------------
(* Words joined.                                                           *)

\* What two names begin with alike can be left out.
LEMMA SameBeginning ==
    ASSUME NEW u \in Text, NEW s \in Text, NEW t \in Text, u \o s = u \o t
    PROVE  s = t
  BY ConcatSimplifications DEF Text

\* What two names end with alike can be left out.
LEMMA SameEnd ==
    ASSUME NEW s \in Text, NEW t \in Text, NEW u \in Text, s \o u = t \o u
    PROVE  s = t
  BY ConcatSimplifications DEF Text

LEMMA Joining ==
    ASSUME NEW s \in Text, NEW t \in Text, NEW u \in Text
    PROVE  s \o t \in Text /\ (s \o t) \o u = s \o (t \o u)
  BY ConcatProperties, ConcatAssociative DEF Text

\* Counted from the end, a name's words are those of the part it ends with.
LEMMA FromTheEnd ==
    ASSUME NEW s \in Text, NEW u \in Text, NEW n \in 1..Len(u)
    PROVE  /\ s \o u \in Text
           /\ (s \o u)[Len(s \o u) + 1 - n] = u[Len(u) + 1 - n]
  <1>1. /\ s \o u \in Seq(Said) /\ Len(s \o u) = Len(s) + Len(u)
        /\ \A i \in 1..Len(s) + Len(u) :
              (s \o u)[i] = IF i <= Len(s) THEN s[i] ELSE u[i - Len(s)]
    BY ConcatProperties DEF Text
  <1>2. Len(s) \in Nat /\ Len(u) \in Nat
    BY DEF Text
  <1> DEFINE i == Len(s) + Len(u) + 1 - n
  <1>3. i \in 1..Len(s) + Len(u) /\ ~(i <= Len(s)) /\ i - Len(s) = Len(u) + 1 - n
    BY <1>2
  <1>4. (s \o u)[i] = u[i - Len(s)]
    <2> HIDE DEF i
    <2> QED  BY <1>1, <1>3
  <1> QED  BY <1>1, <1>3, <1>4 DEF Text

\* Names that end differently differ.
LEMMA OtherEnd ==
    ASSUME NEW s \in Text, NEW t \in Text, NEW j \in Text, NEW k \in Text, EndApart(j, k)
    PROVE  s \o j # t \o k
  <1>1. PICK n \in 1..Len(j) : n <= Len(k) /\ j[Len(j) + 1 - n] # k[Len(k) + 1 - n]
    BY DEF EndApart
  <1>2. n \in 1..Len(k)
    BY <1>1 DEF Text
  <1>3. (s \o j)[Len(s \o j) + 1 - n] = j[Len(j) + 1 - n]
    BY FromTheEnd
  <1>4. (t \o k)[Len(t \o k) + 1 - n] = k[Len(k) + 1 - n]
    BY <1>2, FromTheEnd
  <1> QED  BY <1>1, <1>3, <1>4

\* Names whose last words differ differ.
LEMMA OtherLast ==
    ASSUME NEW s \in Text, NEW t \in Text, NEW j \in Text, NEW k \in Text,
           j # <<>>, k # <<>>, j[Len(j)] # k[Len(k)]
    PROVE  s \o j # t \o k
  <1>1. Len(j) \in Nat \ {0} /\ Len(k) \in Nat \ {0}
    BY DEF Text
  <1>2. EndApart(j, k)
    BY <1>1 DEF EndApart
  <1> QED  BY <1>2, OtherEnd

-----------------------------------------------------------------------------
(* The objects.                                                            *)

Named(o) == o \in {Cluster(o.name), Pooler(o.name)} /\ o.name \in Text /\ ValidName(o.name)

NamesInv == \A o \in objects : Named(o)

LEMMA ValidText == ASSUME NEW s \in NameText PROVE s \in Text
  <1>1. PICK n \in 0..(MaxWords + 1) : s \in [1..n -> Word]
    BY DEF NameText
  <1>2. n \in Nat
    <2>1. MaxWords \in Nat
      BY NamesOK, Zenon
    <2> QED  BY <2>1
  <1>3. Word \subseteq Said
    BY DEF Said
  <1>4. s \in [1..n -> Said]
    BY <1>1, <1>3
  <1>5. Seq(Said) = UNION {[1..m -> Said] : m \in Nat}
    OBVIOUS
  <1> QED  BY <1>2, <1>4, <1>5 DEF Text

LEMMA EveryObjectNamed == NamesSpec => []NamesInv
  <1>1. NamesInit => NamesInv
    BY DEF NamesInit, NamesInv
  <1>2. NamesInv /\ [NamesNext]_objects => NamesInv'
    <2> SUFFICES ASSUME NamesInv, [NamesNext]_objects PROVE NamesInv'
      OBVIOUS
    <2>1. CASE Take
      <3>1. PICK s \in NameText :
              /\ ValidName(s)
              /\ \E o \in {Cluster(s), Pooler(s)} \ objects : objects' = objects \cup {o}
        BY <2>1 DEF Take
      <3>2. Named(Cluster(s)) /\ Named(Pooler(s))
        BY <3>1, ValidText DEF Named, Cluster, Pooler
      <3> QED  BY <3>1, <3>2 DEF NamesInv
    <2>2. CASE \E o \in objects : GiveBack(o)
      BY <2>2 DEF GiveBack, NamesInv
    <2> QED  BY <2>1, <2>2 DEF NamesNext, NamesInv
  <1> QED  BY <1>1, <1>2, PTL DEF NamesSpec

-----------------------------------------------------------------------------
(* The names.                                                              *)

\* The ways a name is made: of a cluster's or an instance's name, and an end.
LEMMA Joined ==
    ASSUME NEW s \in Text
    PROVE  /\ Prefixed(s) \in Text
           /\ \A t \in Text : Prefixed(s) = Prefixed(t) => s = t
           /\ \A w \in Said : s \o <<w>> \in Text
           /\ <<"pgpod", "pooler">> \o s \in Text
  <1>1. /\ <<"pgpod">> \in Text /\ <<"pgpod", "pooler">> \in Text
        /\ \A w \in Said : <<w>> \in Text
    <2>1. <<"pgpod">> \in Seq(Said)
      BY DEF Said
    <2>2. <<"pgpod", "pooler">> \in Seq(Said)
      BY DEF Said
    <2>3. ASSUME NEW w \in Said PROVE <<w>> \in Seq(Said)
      OBVIOUS
    <2> QED  BY <2>1, <2>2, <2>3 DEF Text
  <1>2. \A t \in Text : <<"pgpod">> \o s = <<"pgpod">> \o t => s = t
    BY <1>1, SameBeginning
  <1>3. \A u \in Text : u \o s \in Text /\ s \o u \in Text
    BY ConcatProperties DEF Text
  <1> QED  BY <1>1, <1>2, <1>3 DEF Prefixed

\* An instance's name tells its cluster and its ordinal.
LEMMA InstanceTold ==
    ASSUME NEW s \in Text, NEW t \in Text, NEW v \in Said, NEW w \in Said,
           s \o <<v>> = t \o <<w>>
    PROVE  s = t /\ v = w
  <1>1. <<v>> \in Text /\ <<w>> \in Text /\ <<v>> # <<>> /\ <<w>> # <<>>
        /\ <<v>>[Len(<<v>>)] = v /\ <<w>>[Len(<<w>>)] = w
    <2>1. ASSUME NEW x \in Said
          PROVE  <<x>> \in Text /\ <<x>> # <<>> /\ <<x>>[Len(<<x>>)] = x
      <3>1. <<x>> \in Seq(Said)
        OBVIOUS
      <3>2. Len(<<x>>) = 1 /\ <<x>>[1] = x
        OBVIOUS
      <3> QED  BY <3>1, <3>2 DEF Text
    <2> QED  BY <2>1
  <1>2. v = w
    BY <1>1, OtherLast
  <1> QED  BY <1>1, <1>2, SameEnd

LEMMA InstanceTyped ==
    ASSUME NEW c, Named(c), NEW i \in Instances(c)
    PROVE  /\ i.cluster = c.name /\ i.ordinal \in Numbers \ {"0"} /\ i.ordinal \in Said
           /\ i = [cluster |-> c.name, ordinal |-> i.ordinal]
           /\ Shown(i) \in Text /\ Shown(i) = c.name \o <<i.ordinal>>
  <1>1. /\ i.cluster = c.name /\ i.ordinal \in Numbers \ {"0"}
        /\ i = [cluster |-> c.name, ordinal |-> i.ordinal]
    BY DEF Instances
  <1>2. i.ordinal \in Said
    BY <1>1 DEF Said, Word
  <1> QED  BY <1>1, <1>2, Joined DEF Shown, Named

\* What an instance is shown as is read back as that instance.
LEMMA ReadBack ==
    ASSUME NEW c, Named(c), NEW i \in Instances(c)
    PROVE  ParseInstance(Shown(i)) = i
  <1> DEFINE s == Shown(i)
             n == Len(s)
  <1>1. /\ c.name \in Text /\ c.name # <<>> /\ ValidName(c.name)
        /\ i.ordinal \in Numbers \ {"0"} /\ i = [cluster |-> c.name, ordinal |-> i.ordinal]
        /\ s \in Text /\ s = c.name \o <<i.ordinal>> /\ i.ordinal \in Said
    BY InstanceTyped DEF Named, ValidName
  <1>2. /\ n = Len(c.name) + 1 /\ Len(c.name) \in Nat \ {0}
        /\ s[n] = i.ordinal
        /\ \A k \in 1..Len(c.name) : s[k] = c.name[k]
    <2>1. <<i.ordinal>> \in Text /\ Len(<<i.ordinal>>) = 1 /\ <<i.ordinal>>[1] = i.ordinal
      BY <1>1 DEF Text
    <2>2. Len(c.name) \in Nat \ {0}
      BY <1>1 DEF Text
    <2> HIDE DEF s
    <2> QED  BY <1>1, <2>1, <2>2, ConcatProperties DEF Text
  <1> HIDE DEF s
  <1>3. SubSeq(s, 1, n - 1) = c.name
    <2>1. \A k \in 1..n - 1 : s[k] \in Said
      BY <1>1, <1>2 DEF Text
    <2>2. /\ SubSeq(s, 1, n - 1) \in Seq(Said)
          /\ Len(SubSeq(s, 1, n - 1)) = IF 1 <= n - 1 THEN n - 1 - 1 + 1 ELSE 0
          /\ \A k \in 1..n - 1 - 1 + 1 : SubSeq(s, 1, n - 1)[k] = s[1 + k - 1]
      <3>1. 1 \in Int /\ n - 1 \in Int
        BY <1>2
      <3> QED  BY <2>1, <3>1, SubSeqProperties
    <2>3. Len(SubSeq(s, 1, n - 1)) = Len(c.name)
      BY <1>2, <2>2
    <2>4. \A k \in 1..Len(c.name) : SubSeq(s, 1, n - 1)[k] = c.name[k]
      <3> SUFFICES ASSUME NEW k \in 1..Len(c.name) PROVE SubSeq(s, 1, n - 1)[k] = c.name[k]
        OBVIOUS
      <3>1. k \in 1..n - 1 - 1 + 1 /\ 1 + k - 1 = k
        BY <1>2
      <3> QED  BY <1>2, <2>2, <3>1
    <2> QED  BY <1>1, <2>2, <2>3, <2>4, SeqEqual DEF Text
  <1>4. n > 1
    BY <1>2
  <1> QED  BY <1>1, <1>2, <1>3, <1>4 DEF ParseInstance, s

\* All of a cluster's names are its prefix and an end.
LEMMA InstancePrefixed ==
    ASSUME NEW c, Named(c), NEW i \in Instances(c)
    PROVE  /\ Prefixed(c.name) \in Text /\ <<i.ordinal>> \in Text /\ i.ordinal \in Said
           /\ Prefixed(Shown(i)) = Prefixed(c.name) \o <<i.ordinal>>
           /\ Prefixed(c.name) \o <<i.ordinal>> \in Text
  <1>1. c.name \in Text /\ i.ordinal \in Said /\ Shown(i) = c.name \o <<i.ordinal>>
    BY InstanceTyped DEF Named
  <1>2. <<"pgpod">> \in Seq(Said) /\ <<i.ordinal>> \in Seq(Said)
    <2>1. <<"pgpod">> \in Seq(Said)
      BY DEF Said
    <2>2. <<i.ordinal>> \in Seq(Said)
      BY <1>1
    <2> QED  BY <2>1, <2>2
  <1>3. <<"pgpod">> \o (c.name \o <<i.ordinal>>) = (<<"pgpod">> \o c.name) \o <<i.ordinal>>
    <2>1. <<"pgpod">> \in Text /\ <<i.ordinal>> \in Text
      BY <1>2 DEF Text
    <2> QED  BY <1>1, <2>1, Joining
  <1>4. Prefixed(c.name) \in Text
    BY <1>1, Joined
  <1>5. Prefixed(c.name) \o <<i.ordinal>> \in Text
    BY <1>1, <1>4, Joined
  <1> QED  BY <1>1, <1>2, <1>3, <1>4, <1>5 DEF Prefixed, Text

\* A job's name is a text that ends in no ordinal.
LEMMA JobTyped ==
    ASSUME NEW j \in Jobs \cup ClusterJobs
    PROVE  j \in Text /\ j # <<>> /\ j[Len(j)] \notin Numbers
  <1>1. j \in Seq(JobWords) /\ j # <<>> /\ j[Len(j)] \notin Numbers
    BY NamesOK, Zenon
  <1>2. JobWords \subseteq Said
    BY DEF Said
  <1>3. j \in Seq(Said)
    BY <1>1, <1>2
  <1> QED  BY <1>1, <1>3 DEF Text

LEMMA JobsApart ==
    /\ \A j, k \in Jobs \cup ClusterJobs : j # k => EndApart(j, k)
    /\ Jobs \cap ClusterJobs = {}
  BY NamesOK, Zenon

\* What the containers of a cluster can be called.
LEMMA ContainerForms ==
    ASSUME NEW c, Named(c), c.kind = "cluster", NEW x \in Containers(c)
    PROVE  \/ \E i \in Instances(c) : x = Prefixed(c.name) \o <<i.ordinal>>
           \/ \E i \in Instances(c), j \in Jobs :
                 x = (Prefixed(c.name) \o <<i.ordinal>>) \o j
           \/ \E j \in ClusterJobs : x = Prefixed(c.name) \o j
  <1>1. \/ \E i \in Instances(c) : x = ContainerName(i)
        \/ \E i \in Instances(c), j \in Jobs : x = JobName(i, j)
        \/ \E j \in ClusterJobs : x = Prefixed(c.name) \o j
    <2> DEFINE Of(i) == {ContainerName(i)} \cup {JobName(i, j) : j \in Jobs}
    <2>1. \/ x \in UNION {Of(i) : i \in Instances(c)}
          \/ x \in {Prefixed(c.name) \o j : j \in ClusterJobs}
      <3> DEFINE ofInstances == UNION {Of(i) : i \in Instances(c)}
                 ofCluster == {Prefixed(c.name) \o j : j \in ClusterJobs}
      <3>1. Containers(c) = ofCluster \cup ofInstances
        <4>1. c.kind # "pooler"
          OBVIOUS
        <4> QED  BY <4>1, Zenon DEF Containers
      <3>2. x \in ofInstances \/ x \in ofCluster
        <4> HIDE DEF ofInstances, ofCluster
        <4> QED  BY <3>1
      <3> QED  BY <3>2
    <2>2. CASE x \in {Prefixed(c.name) \o j : j \in ClusterJobs}
      BY <2>2
    <2>3. CASE x \in UNION {Of(i) : i \in Instances(c)}
      <3>1. PICK i \in Instances(c) : x \in Of(i)
        <4> HIDE DEF Of
        <4> QED  BY <2>3
      <3> QED  BY <3>1
    <2> HIDE DEF Of
    <2> QED  BY <2>1, <2>2, <2>3, Zenon
  <1>2. \A i \in Instances(c) : Prefixed(Shown(i)) = Prefixed(c.name) \o <<i.ordinal>>
    BY InstancePrefixed
  <1> QED  BY <1>1, <1>2 DEF ContainerName, JobName

-----------------------------------------------------------------------------
(* Two clusters.                                                           *)

LEMMA ContainersOfClusters ==
    ASSUME NEW c, Named(c), c.kind = "cluster", NEW d, Named(d), d.kind = "cluster",
           Prefixed(c.name) # Prefixed(d.name)
    PROVE  Containers(c) \cap Containers(d) = {}
  <1> DEFINE P == Prefixed(c.name)
             Q == Prefixed(d.name)
  <1>1. P \in Text /\ Q \in Text /\ P # Q
    BY Joined DEF Named
  <1>2. /\ \A i \in Instances(c) :
             /\ P \o <<i.ordinal>> \in Text /\ <<i.ordinal>> \in Text
             /\ i.ordinal \in Said /\ i.ordinal \in Numbers
        /\ \A i \in Instances(d) :
             /\ Q \o <<i.ordinal>> \in Text /\ <<i.ordinal>> \in Text
             /\ i.ordinal \in Said /\ i.ordinal \in Numbers
    BY InstancePrefixed, InstanceTyped
  <1> SUFFICES ASSUME NEW x \in Containers(c), x \in Containers(d) PROVE FALSE
    OBVIOUS
  <1>3. /\ \/ \E i \in Instances(c) : x = P \o <<i.ordinal>>
           \/ \E i \in Instances(c), j \in Jobs : x = (P \o <<i.ordinal>>) \o j
           \/ \E j \in ClusterJobs : x = P \o j
        /\ \/ \E i \in Instances(d) : x = Q \o <<i.ordinal>>
           \/ \E i \in Instances(d), j \in Jobs : x = (Q \o <<i.ordinal>>) \o j
           \/ \E j \in ClusterJobs : x = Q \o j
    BY ContainerForms
  <1> HIDE DEF P, Q
  \* An ordinal last, and a job.
  <1>4. ASSUME NEW s \in Text, NEW w \in Numbers, w \in Said, <<w>> \in Text,
               NEW t \in Text, NEW j \in Jobs \cup ClusterJobs
        PROVE  s \o <<w>> # t \o j
    <2>1. <<w>> # <<>> /\ Len(<<w>>) = 1 /\ <<w>>[1] = w
      OBVIOUS
    <2>2. j \in Text /\ j # <<>> /\ j[Len(j)] # w
      BY JobTyped
    <2> QED  BY <1>4, <2>1, <2>2, OtherLast
  \* Two jobs.
  <1>5. ASSUME NEW s \in Text, NEW j \in Jobs \cup ClusterJobs,
               NEW t \in Text, NEW k \in Jobs \cup ClusterJobs, s \o j = t \o k
        PROVE  j = k /\ s = t
    <2>1. j \in Text /\ k \in Text
      BY JobTyped
    <2>2. j = k
      BY <1>5, <2>1, OtherEnd, JobsApart
    <2> QED  BY <1>5, <2>1, <2>2, SameEnd
  <1>6. ASSUME NEW i \in Instances(c), NEW k \in Instances(d)
        PROVE  P \o <<i.ordinal>> # Q \o <<k.ordinal>>
    BY <1>1, <1>2, InstanceTold
  <1>7. CASE \E i \in Instances(c) : x = P \o <<i.ordinal>>
    BY <1>1, <1>2, <1>3, <1>4, <1>6, <1>7
  <1>8. CASE \E i \in Instances(c), j \in Jobs : x = (P \o <<i.ordinal>>) \o j
    <2>1. PICK i \in Instances(c), j \in Jobs : x = (P \o <<i.ordinal>>) \o j
      BY <1>8
    <2>2. CASE \E k \in Instances(d) : x = Q \o <<k.ordinal>>
      BY <1>1, <1>2, <1>4, <2>1, <2>2
    <2>3. CASE \E k \in Instances(d), l \in Jobs : x = (Q \o <<k.ordinal>>) \o l
      <3>1. PICK k \in Instances(d), l \in Jobs : x = (Q \o <<k.ordinal>>) \o l
        BY <2>3
      <3>2. P \o <<i.ordinal>> \in Text /\ Q \o <<k.ordinal>> \in Text
        BY <1>2
      <3>3. P \o <<i.ordinal>> = Q \o <<k.ordinal>>
        <4>1. (P \o <<i.ordinal>>) \o j = (Q \o <<k.ordinal>>) \o l
          BY <2>1, <3>1
        <4>2. j \in Jobs \cup ClusterJobs /\ l \in Jobs \cup ClusterJobs
          BY <2>1, <3>1
        <4> DEFINE a == P \o <<i.ordinal>>
                   b == Q \o <<k.ordinal>>
        <4>3. a \in Text /\ b \in Text /\ a \o j = b \o l
          BY <3>2, <4>1
        <4> HIDE DEF a, b
        <4>4. a = b
          BY <1>5, <4>2, <4>3
        <4> QED  BY <4>4 DEF a, b
      <3> QED  BY <1>6, <3>3
    <2>4. CASE \E l \in ClusterJobs : x = Q \o l
      <3>1. PICK l \in ClusterJobs : x = Q \o l
        BY <2>4
      <3>2. P \o <<i.ordinal>> \in Text
        BY <1>2
      <3>3. j = l
        BY <1>1, <1>5, <2>1, <3>1, <3>2
      <3> QED  BY <3>3, JobsApart
    <2> QED  BY <1>3, <2>2, <2>3, <2>4
  <1>9. CASE \E j \in ClusterJobs : x = P \o j
    <2>1. PICK j \in ClusterJobs : x = P \o j
      BY <1>9
    <2>2. CASE \E k \in Instances(d) : x = Q \o <<k.ordinal>>
      BY <1>1, <1>2, <1>4, <2>1, <2>2
    <2>3. CASE \E k \in Instances(d), l \in Jobs : x = (Q \o <<k.ordinal>>) \o l
      <3>1. PICK k \in Instances(d), l \in Jobs : x = (Q \o <<k.ordinal>>) \o l
        BY <2>3
      <3>2. Q \o <<k.ordinal>> \in Text
        BY <1>2
      <3>3. j = l
        BY <1>1, <1>5, <2>1, <3>1, <3>2
      <3> QED  BY <3>3, JobsApart
    <2>4. CASE \E l \in ClusterJobs : x = Q \o l
      BY <1>1, <1>5, <2>1, <2>4
    <2> QED  BY <1>3, <2>2, <2>3, <2>4
  <1> QED  BY <1>3, <1>7, <1>8, <1>9

\* The ends of the names of a cluster's secrets, and their last words.
Roles == SecretRoles \cup {<<"pooler">>}

LEMMA RoleTyped ==
    ASSUME NEW r \in Roles
    PROVE  /\ r \in Text /\ r # <<>> /\ r[Len(r)] # "admin"
           /\ \A q \in Roles : r # q => r[Len(r)] # q[Len(q)]
  <1>1. /\ <<"superuser">> \in Seq(Said) /\ <<"replication">> \in Seq(Said)
        /\ <<"monitor">> \in Seq(Said) /\ <<"pooler">> \in Seq(Said)
    BY DEF Said
  <1>2. <<"app", "owner">> \in Seq(Said)
    BY DEF Said
  <1> DEFINE last(x) == x[Len(x)]
  <1>3. /\ last(<<"superuser">>) = "superuser" /\ last(<<"replication">>) = "replication"
        /\ last(<<"monitor">>) = "monitor" /\ last(<<"pooler">>) = "pooler"
        /\ last(<<"app", "owner">>) = "owner"
    OBVIOUS
  <1> HIDE DEF last
  <1>4. \A q \in Roles : \/ q = <<"superuser">> \/ q = <<"replication">>
                          \/ q = <<"monitor">> \/ q = <<"pooler">> \/ q = <<"app", "owner">>
    BY DEF Roles, SecretRoles
  <1>5. r \in Seq(Said)
    BY <1>1, <1>2, <1>4
  <1>6. last(r) # "admin" /\ last(r) \in {"superuser", "replication", "monitor", "pooler", "owner"}
    BY <1>3, <1>4
  <1>7. \A q \in Roles : r # q => last(r) # last(q)
    BY <1>3, <1>4
  <1>8. r # <<>>
    BY <1>4
  <1> QED  BY <1>5, <1>6, <1>7, <1>8 DEF Text, last

LEMMA SecretForms ==
    ASSUME NEW c, c.kind = "cluster", NEW x \in SecretsOf(c)
    PROVE  \E r \in Roles : x = Prefixed(c.name) \o r
  BY DEF SecretsOf, ClusterSecrets, LookupSecret, Roles

LEMMA ClustersApart ==
    ASSUME NEW c, Named(c), c.kind = "cluster", NEW d, Named(d), d.kind = "cluster",
           c.name # d.name
    PROVE  Apart(c, d)
  <1> DEFINE P == Prefixed(c.name)
             Q == Prefixed(d.name)
  <1>1. P \in Text /\ Q \in Text /\ P # Q
    BY Joined DEF Named
  <1>2. ASSUME NEW i \in Instances(c), NEW k \in Instances(d)
        PROVE  /\ Prefixed(Shown(i)) # Prefixed(Shown(k))
               /\ Prefixed(Shown(i)) \in Text /\ Prefixed(Shown(k)) \in Text
    <2>1. /\ Prefixed(Shown(i)) = P \o <<i.ordinal>> /\ P \o <<i.ordinal>> \in Text
          /\ i.ordinal \in Said
      BY InstancePrefixed
    <2>2. /\ Prefixed(Shown(k)) = Q \o <<k.ordinal>> /\ Q \o <<k.ordinal>> \in Text
          /\ k.ordinal \in Said
      BY InstancePrefixed
    <2> HIDE DEF P, Q
    <2>3. P \o <<i.ordinal>> # Q \o <<k.ordinal>>
      <3> SUFFICES ASSUME P \o <<i.ordinal>> = Q \o <<k.ordinal>> PROVE FALSE
        OBVIOUS
      <3>1. P = Q
        BY <1>1, <2>1, <2>2, InstanceTold
      <3> QED  BY <1>1, <3>1
    <2> QED  BY <2>1, <2>2, <2>3
  <1>3. SecretsOf(c) \cap SecretsOf(d) = {}
    <2> SUFFICES ASSUME NEW x \in SecretsOf(c), x \in SecretsOf(d) PROVE FALSE
      OBVIOUS
    <2>1. PICK r \in Roles : x = P \o r
      BY SecretForms
    <2>2. PICK q \in Roles : x = Q \o q
      BY SecretForms
    <2> HIDE DEF P, Q
    <2>3. r \in Text /\ q \in Text /\ r # <<>> /\ q # <<>>
          /\ (r # q => r[Len(r)] # q[Len(q)])
      BY RoleTyped
    <2>4. r = q
      BY <1>1, <2>1, <2>2, <2>3, OtherLast
    <2> QED  BY <1>1, <2>1, <2>2, <2>3, <2>4, SameEnd
  <1>4. VolumesOf(c) \cap VolumesOf(d) = {}
    <2>1. <<"pgdata">> \in Text
      <3>1. <<"pgdata">> \in Seq(Said)
        BY DEF Said
      <3> QED  BY <3>1 DEF Text
    <2>2. ASSUME NEW i \in Instances(c), NEW k \in Instances(d)
          PROVE  VolumeName(i) # VolumeName(k)
      BY <1>2, <2>1, SameEnd DEF VolumeName
    <2> QED  BY <2>2 DEF VolumesOf
  <1>5. NetworksOf(c) \cap NetworksOf(d) = {}
    BY <1>1 DEF NetworksOf, NetworkName
  <1>6. SlotsOf(c) \cap SlotsOf(d) = {}
    BY <1>2 DEF SlotsOf, SlotName
  <1>7. Containers(c) \cap Containers(d) = {}
    BY <1>1, ContainersOfClusters
  <1> QED  BY <1>3, <1>4, <1>5, <1>6, <1>7 DEF Apart

-----------------------------------------------------------------------------
(* Poolers.                                                                *)

LEMMA PoolersApart ==
    ASSUME NEW p, Named(p), p.kind = "pooler", NEW q, Named(q), q.kind = "pooler",
           p.name # q.name
    PROVE  Apart(p, q)
  <1>1. p.name \in Text /\ q.name \in Text
    BY DEF Named
  <1>2. <<"pgpod", "pooler">> \in Text /\ <<"admin">> \in Text
    <2>1. <<"pgpod", "pooler">> \in Seq(Said)
      BY DEF Said
    <2>2. <<"admin">> \in Seq(Said)
      BY DEF Said
    <2> QED  BY <2>1, <2>2 DEF Text
  <1>3. PoolerContainerName(p) # PoolerContainerName(q)
    BY <1>1, <1>2, SameBeginning DEF PoolerContainerName
  <1>4. AdminSecret(p) # AdminSecret(q)
    <2>1. PoolerContainerName(p) \in Text /\ PoolerContainerName(q) \in Text
      BY <1>1, <1>2, Joining DEF PoolerContainerName
    <2> QED  BY <1>2, <1>3, <2>1, SameEnd DEF AdminSecret, PoolerContainerName
  <1> QED
    BY <1>3, <1>4 DEF Apart, SecretsOf, VolumesOf, NetworksOf, SlotsOf, Containers

\* The word after "pgpod" is the first of the object's name.
LEMMA SecondWord ==
    ASSUME NEW s \in Text, s # <<>>, NEW t \in Text
    PROVE  (Prefixed(s) \o t)[2] = Head(s)
  <1>1. <<"pgpod">> \in Seq(Said) /\ Len(<<"pgpod">>) = 1
    BY DEF Said
  <1>2. s \in Seq(Said) /\ t \in Seq(Said) /\ Len(s) \in Nat \ {0} /\ Len(t) \in Nat
    BY DEF Text
  <1>3. /\ Prefixed(s) \in Seq(Said) /\ Len(Prefixed(s)) = 1 + Len(s)
        /\ Prefixed(s)[2] = s[1]
    <2>1. /\ <<"pgpod">> \o s \in Seq(Said) /\ Len(<<"pgpod">> \o s) = 1 + Len(s)
          /\ \A i \in 1..1 + Len(s) :
                (<<"pgpod">> \o s)[i] = IF i <= 1 THEN <<"pgpod">>[i] ELSE s[i - 1]
      BY <1>1, <1>2, ConcatProperties
    <2>2. 2 \in 1..1 + Len(s) /\ ~(2 <= 1) /\ 2 - 1 = 1
      BY <1>2
    <2> QED  BY <2>1, <2>2 DEF Prefixed
  <1>4. (Prefixed(s) \o t)[2] = Prefixed(s)[2]
    <2>1. \A i \in 1..Len(Prefixed(s)) + Len(t) :
            (Prefixed(s) \o t)[i] =
                IF i <= Len(Prefixed(s)) THEN Prefixed(s)[i] ELSE t[i - Len(Prefixed(s))]
      BY <1>2, <1>3, ConcatProperties
    <2>2. 2 \in 1..Len(Prefixed(s)) + Len(t) /\ 2 <= Len(Prefixed(s))
      BY <1>2, <1>3
    <2> QED  BY <2>1, <2>2
  <1>5. Head(s) = s[1]
    BY <1>2
  <1> QED  BY <1>3, <1>4, <1>5

LEMMA PoolerSecondWord ==
    ASSUME NEW p, Named(p)
    PROVE  PoolerContainerName(p)[2] = "pooler"
  <1>1. p.name \in Seq(Said) /\ Len(p.name) \in Nat
    BY DEF Named, Text
  <1>2. <<"pgpod", "pooler">> \in Seq(Said) /\ Len(<<"pgpod", "pooler">>) = 2
        /\ <<"pgpod", "pooler">>[2] = "pooler"
    BY DEF Said
  <1>3. \A i \in 1..2 + Len(p.name) :
            PoolerContainerName(p)[i] =
                IF i <= 2 THEN <<"pgpod", "pooler">>[i] ELSE p.name[i - 2]
    BY <1>1, <1>2, ConcatProperties DEF PoolerContainerName
  <1>4. 2 \in 1..2 + Len(p.name) /\ 2 <= 2
    BY <1>1
  <1> QED  BY <1>2, <1>3, <1>4

LEMMA ContainersNotPoolers ==
    ASSUME NEW c, Named(c), c.kind = "cluster", ~Masquerades(c),
           NEW p, Named(p), p.kind = "pooler"
    PROVE  Containers(c) \cap Containers(p) = {}
  <1>1. c.name \in Text /\ c.name # <<>> /\ Head(c.name) # "pooler"
    BY DEF Named, ValidName, Masquerades
  <1>2. ASSUME NEW x \in Containers(c) PROVE \E t \in Text : x = Prefixed(c.name) \o t
    <2>1. CASE \E i \in Instances(c) : x = Prefixed(c.name) \o <<i.ordinal>>
      BY <2>1, InstancePrefixed
    <2>2. CASE \E i \in Instances(c), j \in Jobs :
                 x = (Prefixed(c.name) \o <<i.ordinal>>) \o j
      <3>1. PICK i \in Instances(c), j \in Jobs :
                   x = (Prefixed(c.name) \o <<i.ordinal>>) \o j
        BY <2>2
      <3>2. j \in Text /\ <<i.ordinal>> \in Text /\ Prefixed(c.name) \in Text
        BY JobTyped, InstancePrefixed
      <3>3. <<i.ordinal>> \o j \in Text
            /\ x = Prefixed(c.name) \o (<<i.ordinal>> \o j)
        BY <3>1, <3>2, Joining
      <3> QED  BY <3>3
    <2>3. CASE \E j \in ClusterJobs : x = Prefixed(c.name) \o j
      BY <2>3, JobTyped
    <2> QED  BY <2>1, <2>2, <2>3, ContainerForms
  <1>3. ASSUME NEW x \in Containers(c) PROVE x # PoolerContainerName(p)
    <2>1. PICK t \in Text : x = Prefixed(c.name) \o t
      BY <1>2
    <2>2. x[2] # "pooler"
      BY <1>1, <2>1, SecondWord
    <2> QED  BY <2>2, PoolerSecondWord
  <1>4. Containers(p) = {PoolerContainerName(p)}
    BY DEF Containers
  <1> QED  BY <1>3, <1>4

LEMMA ClusterAndPoolerApart ==
    ASSUME NEW c, Named(c), c.kind = "cluster", NEW p, Named(p), p.kind = "pooler"
    PROVE  Apart(c, p) /\ Apart(p, c)
  <1>1. SecretsOf(c) \cap SecretsOf(p) = {}
    <2> SUFFICES ASSUME NEW x \in SecretsOf(c) PROVE x # AdminSecret(p)
      BY DEF SecretsOf
    <2>1. PICK r \in Roles : x = Prefixed(c.name) \o r
      BY SecretForms
    <2>2. r \in Text /\ r # <<>> /\ r[Len(r)] # "admin"
      BY RoleTyped
    <2>3. <<"admin">> \in Text /\ <<"admin">> # <<>> /\ <<"admin">>[Len(<<"admin">>)] = "admin"
      <3>1. <<"admin">> \in Seq(Said)
        BY DEF Said
      <3> QED  BY <3>1 DEF Text
    <2>4. Prefixed(c.name) \in Text /\ PoolerContainerName(p) \in Text
      BY Joined DEF Named, PoolerContainerName
    <2>5. AdminSecret(p) = PoolerContainerName(p) \o <<"admin">>
      BY DEF AdminSecret, PoolerContainerName
    <2> HIDE DEF Roles
    <2> QED  BY <2>1, <2>2, <2>3, <2>4, <2>5, OtherLast
  <1>2. VolumesOf(p) = {} /\ NetworksOf(p) = {} /\ SlotsOf(p) = {}
    BY DEF VolumesOf, NetworksOf, SlotsOf
  <1>3. Containers(c) \cap Containers(p) = {} \/ Masquerades(c)
    BY ContainersNotPoolers
  <1> QED  BY <1>1, <1>2, <1>3 DEF Apart

-----------------------------------------------------------------------------
\* Whatever words with whatever hyphens and numbers clusters and poolers are
\* named by: no two that exist share a container, a volume, a network, a secret
\* or a slot, but for the containers of a cluster that is called like a pooler,
\* and an instance's id is read back as that instance.
THEOREM NamesApart == NamesSpec => []NamesTellApart
  <1>1. NamesInv => NamesTellApart
    <2> SUFFICES ASSUME NamesInv, NEW o \in objects
                 PROVE  /\ o.kind = "cluster" =>
                              \A i \in Instances(o) : ParseInstance(Shown(i)) = i
                        /\ \A p \in objects \ {o} : Apart(o, p)
      BY DEF NamesTellApart
    <2>1. Named(o)
      BY DEF NamesInv
    <2>2. ASSUME NEW p \in objects \ {o} PROVE Apart(o, p)
      <3>1. Named(p)
        BY DEF NamesInv
      <3>2. /\ \/ o.kind = "cluster" /\ o = Cluster(o.name)
               \/ o.kind = "pooler" /\ o = Pooler(o.name)
            /\ \/ p.kind = "cluster" /\ p = Cluster(p.name)
               \/ p.kind = "pooler" /\ p = Pooler(p.name)
        <4>1. ASSUME NEW x, Named(x)
              PROVE  \/ x.kind = "cluster" /\ x = Cluster(x.name)
                     \/ x.kind = "pooler" /\ x = Pooler(x.name)
          <5>1. x = Cluster(x.name) \/ x = Pooler(x.name)
            BY <4>1 DEF Named
          <5>2. Cluster(x.name).kind = "cluster" /\ Pooler(x.name).kind = "pooler"
            BY DEF Cluster, Pooler
          <5> QED  BY <5>1, <5>2, Zenon
        <4> QED  BY <2>1, <3>1, <4>1
      <3>3. o.kind = p.kind => o.name # p.name
        BY <3>2 DEF Cluster, Pooler
      <3> QED  BY <2>1, <3>1, <3>2, <3>3, ClustersApart, PoolersApart, ClusterAndPoolerApart
    <2> QED  BY <2>1, <2>2, ReadBack
  <1> QED  BY <1>1, EveryObjectNamed, PTL
=============================================================================
