------------------------------ MODULE Manifests ------------------------------
(* What becomes of a manifest: the checks `pgpod apply` makes before it    *)
(* creates anything, the specification it hands to the agent, and what the *)
(* agent in the container makes of it at each start: the data directory,   *)
(* postgresql's and pgBackRest's configuration, pg_hba.conf and the roles. *)
(*                                                                         *)
(* A manifest is a record of what these steps tell apart.  Commands take   *)
(* turns and nothing is killed: those are ControlPlane's and Upgrade's.    *)
EXTENDS Integers, Sequences

CONSTANTS
    Manifest,    \* the manifests that are applied
    NoManifest,  \* what is recorded before any is
    MaxApplies   \* bound: applies and restores

-----------------------------------------------------------------------------
(* Manifests.                                                              *)

\* A destination's URL is scheme://host/path; "none" has no "://".  s3a is
\* read as s3, abfs and abfss as az.
Destination == [scheme : {"none", "file", "s3", "gs", "az", "memory", "ftp"},
                host : {"", "archive", "bucket"},
                path : {"", "archive", "other"},
                endpoint : {"none", "host", "url", "badport"},
                option : {"none", "plain", "credential"},
                credentials : BOOLEAN]

\* The name of a parameter, and whether it is written in capitals.
Key == [name : {"work_mem", "hot_standby_feedback", "archive_mode", "port",
                "not-a-name"},
        capitals : BOOLEAN]

ManifestType ==
    [head : {"cluster", "pooler", "version", "unknown"}, name : BOOLEAN,
     instances : Nat, image : BOOLEAN, keys : SUBSET Key,
     destinations : Seq(Destination), volume : BOOLEAN,
     retention : {"none", "14d", "36h", "0d", "14"}, enforce : BOOLEAN,
     database : {"none", "app", "Bad"},
     owner : {"none", "app", "Bad", "streaming_replica"}]

ASSUME ManifestsOK ==
    /\ \A m \in Manifest : m \in ManifestType
    /\ NoManifest \notin Manifest
    /\ MaxApplies \in Nat

Managed  == {"postgres", "streaming_replica", "pgpod_monitor"}
Account  == Managed \cup {"app"}
Elements(s) == {s[k] : k \in DOMAIN s}

-----------------------------------------------------------------------------
(* On the host, before anything is created.                                *)

KnownSchemes == {"file", "s3", "gs", "az", "memory"}

\* file:// is looked at without its leading slashes: an authority counts as
\* the first component of the path.
InArchive(d) == d.host = "archive" \/ (d.host = "" /\ d.path = "archive")

\* Mutant: a local path needs no volume.
VolumeForgotten(m) ==
    \A d \in Elements(m.destinations) :
        /\ d.scheme \in KnownSchemes
        /\ d.host # "" \/ d.path # ""
        /\ d.scheme = "file" => InArchive(d)

ValidateDestinations(m) ==
    /\ \A d \in Elements(m.destinations) :
        /\ d.scheme # "none"
        /\ d.host # "" \/ d.path # ""
        /\ d.scheme \in KnownSchemes
        /\ d.scheme = "file" => m.volume /\ InArchive(d)
    /\ m.volume => \E d \in Elements(m.destinations) : d.scheme = "file"

\* A field that is not known, another apiVersion and another kind are refused;
\* a Pooler is not read as a cluster.
FromYaml(m) == m.head = "cluster"

Validate(m) ==
    /\ m.name
    /\ m.instances = 1
    /\ m.image
    /\ ValidateDestinations(m)

\* Mutant: a parameter is looked up as it is written.
AsWritten(k) == k

\* Trimmed, and in lower case.
Normalised(k) == [k EXCEPT !.capitals = FALSE]

Reserved == {"archive_mode", "archive_command", "port", "wal_level",
             "wal_log_hints", "restore_command", "recovery_target_timeline"}

ReservedKey(k) == ~k.capitals /\ k.name \in Reserved

\* Mutant: it is left to the agent to refuse.
LeftToTheAgent(m) == TRUE

ValidateParameters(m) == \A k \in m.keys : ~ReservedKey(Normalised(k))

-----------------------------------------------------------------------------
(* What is handed to the agent.                                            *)

Sanitized(d) == [d EXCEPT !.credentials = FALSE]

\* instance_spec.  A restore's manifest is its source's under another name,
\* so both have the same destinations.
InstanceSpec(m, boot) ==
    [boot |-> boot,
     database |-> m.database, owner |-> m.owner,
     keys |-> m.keys,
     archive |-> m.destinations # <<>>,
     destinations |-> [k \in DOMAIN m.destinations |-> Sanitized(m.destinations[k])],
     volume |-> m.volume, retention |-> m.retention, enforce |-> m.enforce]

SpecValid(s) ==
    /\ s.archive <=> s.destinations # <<>>
    /\ s.boot = "restore" => s.destinations # <<>>
    /\ \A d \in Elements(s.destinations) :
        ~d.credentials /\ d.option # "credential"

\* Mutant: no secret for the owner of the application's database.
OwnerForgotten(s) == {"superuser", "replication", "monitor"}

\* ensure_secrets and the mounts of container_spec read one condition.
Secrets(s) == {"superuser", "replication", "monitor"}
                \cup (IF s.database # "none" THEN {"app-owner"} ELSE {})

NoBox == [state |-> "none", spec |-> InstanceSpec(
             [database |-> "none", owner |-> "none", keys |-> {},
              destinations |-> <<>>, volume |-> FALSE, retention |-> "none",
              enforce |-> FALSE], "initdb"),
          secrets |-> {}, archive |-> FALSE]

\* container_spec, with the archive volume of a file:// destination.
ContainerOf(s) ==
    [state |-> "starting", spec |-> s, secrets |-> Secrets(s),
     archive |-> s.volume]

-----------------------------------------------------------------------------
(* What the agent renders.                                                 *)

\* host or host:port, no URL.
SplitEndpoint(e) == e \notin {"url", "badport"}

Repository(d) ==
    \/ d.scheme = "file" /\ d.host = "" /\ d.path # ""
    \/ /\ d.scheme \in {"s3", "gs", "az"}
       /\ d.host # ""
       /\ SplitEndpoint(d.endpoint)

\* parse_days, called only when retention is enforced.
RetentionDays(s) == s.enforce => s.retention \in {"none", "14d"}

\* PgBackRestConfig::new: four repositories at the most.
Buildable(s) ==
    /\ Len(s.destinations) <= 4
    /\ \A d \in Elements(s.destinations) : Repository(d)
    /\ RetentionDays(s)

NoConf == [repositories |-> <<>>, stanzas |-> {}]

\* Mutant: the source's stanza is not defined.
OwnStanzaOnly(s) == [repositories |-> s.destinations, stanzas |-> {"own"}]

\* write_pgbackrest_conf leaves what is there when there is no destination.
BackRestConf(s) ==
    [repositories |-> s.destinations,
     stanzas |-> {"own"} \cup (IF s.boot = "restore" THEN {"source"} ELSE {})]

\* 00-pgpod.conf; the commands are told apart by the stanza they name.
ManagedConf(s, replays) ==
    LET Replays == s.boot = "restore" /\ replays
        Names == {"port", "wal_level", "wal_log_hints", "hot_standby_feedback",
                  "archive_mode"}
                 \cup (IF s.archive THEN {"archive_command"} ELSE {})
                 \cup (IF Replays THEN {"restore_command",
                                        "recovery_target_timeline"} ELSE {})
    IN [n \in Names |-> CASE n = "archive_mode" -> IF s.archive THEN "on" ELSE "off"
                          [] n = "archive_command" -> "own"
                          [] n = "restore_command" -> "source"
                          [] OTHER -> "managed"]

\* 10-user.conf, included after it.
UserConf(s) == {Normalised(k) : k \in s.keys}

ValidParameterName(k) == k.name # "not-a-name"

UserConfValid(s) ==
    \A k \in s.keys : ~ReservedKey(Normalised(k)) /\ ValidParameterName(k)

\* Mutant: replication is taken to be among all databases.
NoReplicationRule(network) ==
    <<[from |-> "socket", database |-> "all", user |-> "all", method |-> "peer"],
      [from |-> "loopback", database |-> "all", user |-> "all", method |-> "scram"],
      [from |-> "network", database |-> "all", user |-> "all", method |-> "scram"]>>

\* pg_hba.conf, in order; loopback stands for IPv4's and IPv6's.
HbaRules(network) ==
    <<[from |-> "socket", database |-> "all", user |-> "all", method |-> "peer"],
      [from |-> "loopback", database |-> "all", user |-> "all", method |-> "scram"]>>
    \o IF network
       THEN <<[from |-> "network", database |-> "all", user |-> "all",
               method |-> "scram"],
              [from |-> "network", database |-> "replication",
               user |-> "streaming_replica", method |-> "scram"]>>
       ELSE <<>>

-----------------------------------------------------------------------------
VARIABLES
    file,     \* the manifest being applied and how its data is to come
    at,       \* how far it has got
    row,      \* the manifest that was recorded last
    secret,   \* podman: the cluster's secrets
    box,      \* podman: the container
    volume,   \* whether the volume exists
    data,     \* the data directory
    conf,     \* its configuration files
    backrest, \* pgbackrest.conf
    spoiled,  \* did a first start fail after initdb: not state of the program
    applies   \* how often so far

manifestVars == <<file, at, row, secret, box, volume, data, conf, backrest,
                  spoiled, applies>>

NoRoles == [a \in Account |-> "none"]
NoData  == [state |-> "none", roles |-> NoRoles, app |-> FALSE, replays |-> FALSE]
NoFiles == [managed |-> <<>>, user |-> {}, hba |-> <<>>]

Goes(from, to) == at = from /\ at' = to

-----------------------------------------------------------------------------
(* The command.                                                            *)

Apply ==
    /\ at \in {"idle", "refused", "failed", "diverged", "ready"}
    /\ applies < MaxApplies
    /\ \E m \in Manifest, boot \in {"initdb", "restore"} :
        /\ boot = "restore" => row = NoManifest /\ m.destinations # <<>>
        /\ file' = [manifest |-> m, boot |-> boot]
    /\ at' = "parse"
    /\ applies' = applies + 1
    /\ UNCHANGED <<row, secret, box, volume, data, conf, backrest, spoiled>>

\* Everything that is refused here leaves nothing behind.
Parse ==
    /\ at = "parse"
    /\ at' = IF FromYaml(file.manifest) /\ Validate(file.manifest)
             THEN "check" ELSE "refused"
    /\ UNCHANGED <<file, row, secret, box, volume, data, conf, backrest,
                   spoiled, applies>>

Check ==
    /\ at = "check"
    /\ at' = IF ValidateParameters(file.manifest) THEN "record" ELSE "refused"
    /\ UNCHANGED <<file, row, secret, box, volume, data, conf, backrest,
                   spoiled, applies>>

\* put_cluster, ensure_secrets, create_volume and the instance's row.
Record ==
    /\ Goes("record", "spec")
    /\ row' = file.manifest
    /\ secret' = secret \cup Secrets(InstanceSpec(file.manifest, file.boot))
    /\ volume' = TRUE
    /\ UNCHANGED <<file, box, data, conf, backrest, spoiled, applies>>

\* apply_instance: an instance that runs is taken over or refused, one that
\* is down is started again or replaced.
Converge ==
    LET s == InstanceSpec(file.manifest, file.boot) IN
    /\ at = "spec"
    /\ \/ /\ ~SpecValid(s)
          /\ at' = "failed"
          /\ UNCHANGED box
       \/ /\ SpecValid(s) /\ box.state = "up"
          /\ at' = IF box.spec = s THEN "ready" ELSE "diverged"
          /\ UNCHANGED box
       \/ /\ SpecValid(s) /\ box.state # "up"
          /\ at' = "bootstrap"
          /\ box' = IF box.state = "down" /\ box.spec = s
                    THEN [box EXCEPT !.state = "starting"]
                    ELSE ContainerOf(s)
    /\ UNCHANGED <<file, row, secret, volume, data, conf, backrest, spoiled, applies>>

-----------------------------------------------------------------------------
(* A start of the agent.                                                   *)

\* The agent returns an error, the container exits and the wait ends.
AgentFails ==
    /\ at' = "failed"
    /\ box' = [box EXCEPT !.state = "down"]

\* bootstrap_if_needed: what is there is taken for complete.  initdb never
\* inherits a locale, and its checksums are on.
Bootstrap ==
    /\ at = "bootstrap"
    /\ \/ /\ data.state = "whole"
          /\ at' = "render"
          /\ UNCHANGED <<box, data, backrest>>
       \/ /\ data.state = "none" /\ box.spec.boot = "initdb"
          /\ data' = [NoData EXCEPT !.state = "whole",
                                    !.roles["postgres"] = "superuser"]
          /\ at' = "first render"
          /\ UNCHANGED <<box, backrest>>
       \/ /\ data.state = "none" /\ box.spec.boot = "restore"
          /\ IF Buildable(box.spec)
             THEN /\ backrest' = BackRestConf(box.spec)
                  /\ data' = [state |-> "whole", roles |-> [a \in Account |-> "source"],
                              app |-> TRUE, replays |-> TRUE]
                  /\ at' = "render"
                  /\ UNCHANGED box
             ELSE AgentFails /\ UNCHANGED <<backrest, data>>
    /\ UNCHANGED <<file, row, secret, volume, conf, spoiled, applies>>

\* render_config, at every start.
Render ==
    LET s == box.spec
        archives == s.destinations # <<>>
    IN
    /\ at \in {"render", "first render"}
    /\ backrest' = IF archives /\ Buildable(s) THEN BackRestConf(s) ELSE backrest
    /\ \/ /\ archives => Buildable(s)
          /\ UserConfValid(s)
          /\ conf' = [managed |-> ManagedConf(s, data.replays),
                      user |-> UserConf(s), hba |-> HbaRules(TRUE)]
          /\ at' = IF at = "render" THEN "spawn" ELSE "roles"
          /\ UNCHANGED <<box, spoiled>>
       \/ /\ (archives /\ ~Buildable(s)) \/ ~UserConfValid(s)
          /\ AgentFails
          /\ spoiled' = (spoiled \/ at = "first render")
          /\ UNCHANGED conf
    /\ UNCHANGED <<file, row, secret, volume, data, applies>>

HasDatabase(s) == s.database # "none"

ValidIdentifier(name) == name # "Bad"

\* A database needs an owner, and an owner a database.
AppDatabase(s) ==
    /\ s.database = "none" <=> s.owner = "none"
    /\ ValidIdentifier(s.database) /\ ValidIdentifier(s.owner)

\* Who gets which secret's password, in the order of the statements: an owner
\* that is also one of pgpod's roles is altered last.
RolesOf(s, secrets) ==
    [a \in Account |->
        IF HasDatabase(s) /\ a = s.owner
        THEN IF "app-owner" \in secrets THEN "app-owner" ELSE "superuser"
        ELSE CASE a = "postgres" -> "superuser"
               [] a = "streaming_replica" -> "replication"
               [] a = "pgpod_monitor" -> "monitor"
               [] OTHER -> "none"]

\* create_roles: only on the start that ran initdb, and after the statements
\* have all been rendered.
CreateRoles ==
    LET s == box.spec IN
    /\ at = "roles"
    /\ \/ /\ AppDatabase(s)
          /\ data' = [data EXCEPT !.roles = RolesOf(s, box.secrets),
                                  !.app = HasDatabase(s)]
          /\ at' = "spawn"
          /\ UNCHANGED <<box, spoiled>>
       \/ /\ ~AppDatabase(s)
          /\ AgentFails
          /\ spoiled' = TRUE
          /\ UNCHANGED data
    /\ UNCHANGED <<file, row, secret, volume, conf, backrest, applies>>

\* The server accepts connections and the command reports success.
Spawn ==
    /\ Goes("spawn", "ready")
    /\ box' = [box EXCEPT !.state = "up"]
    /\ UNCHANGED <<file, row, secret, volume, data, conf, backrest, spoiled, applies>>

\* PostgreSQL removes recovery.signal when it promotes.
Promoted ==
    /\ at = "ready" /\ box.state = "up" /\ data.replays
    /\ data' = [data EXCEPT !.replays = FALSE]
    /\ UNCHANGED <<file, at, row, secret, box, volume, conf, backrest, spoiled, applies>>

\* The container is started again, with the specification it was created with.
Restarts ==
    /\ at = "ready" /\ box.state = "up"
    /\ box' = [box EXCEPT !.state = "starting"]
    /\ at' = "bootstrap"
    /\ UNCHANGED <<file, row, secret, volume, data, conf, backrest, spoiled, applies>>

-----------------------------------------------------------------------------
ManifestsInit ==
    /\ file = [manifest |-> NoManifest, boot |-> "initdb"] /\ at = "idle"
    /\ row = NoManifest /\ secret = {} /\ box = NoBox /\ volume = FALSE
    /\ data = NoData /\ conf = NoFiles /\ backrest = NoConf
    /\ spoiled = FALSE /\ applies = 0

ManifestsNext ==
    \/ Apply \/ Parse \/ Check \/ Record \/ Converge
    \/ Bootstrap \/ Render \/ CreateRoles \/ Spawn
    \/ Promoted \/ Restarts

ManifestsSpec == ManifestsInit /\ [][ManifestsNext]_manifestVars

-----------------------------------------------------------------------------
(* Properties.                                                             *)

\* What apply lets pass and something behind it refuses, when the row, the
\* volume and the secrets are there already.
LateMistake(m) ==
    \/ Len(m.destinations) > 4
    \/ \E d \in Elements(m.destinations) :
        \/ d.option = "credential"
        \/ d.scheme = "memory"
        \/ d.scheme = "file" /\ d.host # ""
        \/ d.scheme \in {"s3", "gs", "az"}
             /\ (d.host = "" \/ d.endpoint \in {"url", "badport"})
    \/ m.destinations # <<>> /\ m.enforce /\ m.retention \notin {"none", "14d"}
    \/ \E k \in m.keys : k.name = "not-a-name"
    \/ (m.database = "none") # (m.owner = "none")
    \/ m.database = "Bad" \/ m.owner = "Bad"

\* "Reject reserved parameters before anything is created" and "catch a
\* malformed destination here, in the manifest": an apply fails after it has
\* created something only for one of the mistakes above, which the host does
\* not look for.
MistakesAreEarly == at = "failed" => LateMistake(row)

\* What the server reads: later files win, and names have no case.
Effective(n) == IF \E k \in conf.user : k.name = n THEN "user"
                ELSE IF n \in DOMAIN conf.managed THEN conf.managed[n]
                ELSE "default"

\* However it is spelled, no parameter of a manifest takes the place of one
\* that "keeps the cluster recoverable": what it reads is what pgpod wrote.
ManagedSettingsStand ==
    at = "ready" => \A n \in Reserved :
        Effective(n) = IF n \in DOMAIN conf.managed THEN conf.managed[n]
                       ELSE "default"

\* No archiving to nowhere: a server that archives, or that replays, names a
\* stanza that pgbackrest.conf defines, with repositories that are there; one
\* that has destinations archives.
ArchivesSomewhere ==
    at = "ready" =>
        /\ (Effective("archive_mode") = "on") <=> (box.spec.destinations # <<>>)
        /\ Effective("archive_mode") = "on" =>
            /\ backrest.repositories = box.spec.destinations
            /\ Effective("archive_command") \in backrest.stanzas
            /\ \A d \in Elements(backrest.repositories) :
                d.scheme = "file" => box.archive
        /\ data.replays /\ box.spec.boot = "restore" =>
            Effective("restore_command") \in backrest.stanzas

Complete ==
    LET s == box.spec IN
    /\ \A a \in Managed \ {s.owner} : data.roles[a] = RolesOf(s, {})[a]
    /\ HasDatabase(s) => data.app /\ data.roles[s.owner] = "app-owner"

FromInitdb == data.roles["postgres"] # "source"

\* "It is also the way back from a mistake": correcting the manifest and
\* applying it "has to be enough".
WayBack == at = "ready" /\ FromInitdb => Complete

Connection == [from : {"socket", "loopback", "network"},
               database : {"app", "replication"}, user : Account \cup {"pooler"}]

\* The first rule that matches decides; "all" databases do not include
\* replication.
Method(c) ==
    LET Matches(r) == /\ r.from = c.from
                      /\ r.user \in {"all", c.user}
                      /\ \/ r.database = c.database
                         \/ r.database = "all" /\ c.database # "replication"
        hits == {k \in DOMAIN conf.hba : Matches(conf.hba[k])}
    IN IF hits = {} THEN "reject"
       ELSE conf.hba[CHOOSE k \in hits : \A l \in hits : k <= l].method

FrontDoor ==
    \A c \in Connection :
        Method(c) = IF c.database = "replication"
                    THEN IF c.from = "network" /\ c.user = "streaming_replica"
                         THEN "scram" ELSE "reject"
                    ELSE IF c.from = "socket" THEN "peer" ELSE "scram"

\* A cluster that an apply says is ready lets in who it is for, and nobody
\* else: the agent over the socket, applications and the poolers' lookup from
\* the network with a password, only standbys to replicate; and unless its
\* first start was cut short it has its roles and its database, each role with
\* the password of its own secret (one of pgpod's roles named as the owner
\* excepted).
WhoGetsIn ==
    at = "ready" =>
        /\ FrontDoor
        /\ FromInitdb /\ ~spoiled => Complete
=============================================================================
