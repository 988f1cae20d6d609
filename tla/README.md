# A TLA+ model of pgpod

pgpod runs PostgreSQL clusters in rootless podman containers on one host. This
directory holds models of its control plane, its poolers, its backups and
restores, of a cluster's volume under major upgrades, and of what it computes
from manifests, images and names; the TLC configurations that check the models;
and the TLAPS proofs about them. Paths are relative to `src/crates/` unless they
begin with `src/`.

## The system

| part | source | state it keeps | operations |
|---|---|---|---|
| apply, delete | `pgpod-control/src/lib.rs` | none of its own: locals that live across awaits | `apply_with_bootstrap`, `delete` |
| boot recovery | `pgpod-control/src/daemon.rs`, `pgpod-cli/src/commands.rs` | the phases it listed, the row it is at, the daemon lock | `resume_with` |
| registry | `pgpod-registry/src/lib.rs`, `migrations/` | SQLite rows of clusters, instances, poolers, events | one statement or two per call |
| podman facade | `pgpod-runtime/src/` | podman's containers, volumes, secrets, networks | one HTTP call each |
| pooler agent | `pgpod-agent/src/pooler/` | hold generations; timers; pg_doorman's paused pools | PAUSE, RESUME, RECONNECT, RELOAD, SHOW POOLS |
| pooler on the host | `pgpod-control/src/pooler.rs` | which poolers a hold has paused | `apply_pooler`, `recreate_instance`, `PoolerHold` |
| upgrade | `pgpod-control/src/upgrade.rs`, `pgpod-agent/src/upgrade/` | phase `upgrading`; the data directory under its old and new names | `upgrade`, the upgrade job |
| instance agent | `pgpod-agent/src/{main,bootstrap,recovery,supervise}.rs` | the data directory | bootstrap, restore, supervise |
| backup, restore | `pgpod-control/src/backup.rs`, `pgpod-backup/` | none | `backup`, `restore` |
| data types | `pgpod-core/`, `pgpod-pg/`, `pgpod-pooler/` | none | parsing, rendering, comparing |
| command line | `pgpod-cli/` | none | one process per command |

How they interact. Every command is a process of its own. It opens the registry
(SQLite, one autocommitted statement at a time) and calls podman over HTTP; both
are shared with every other command and with the daemon, and nothing excludes
them from one another: the daemon lock only keeps two daemons apart. The host
reaches into a pooler container with `podman exec`, which connects to the
agent's control socket; the agent answers each connection in a task of its own
and talks to pg_doorman's admin console.

What is hard. A command is a long sequence of awaits, and the host can die, the
process can be killed, or a podman call can fail at each. Two commands, or a
command and boot recovery, interleave at those points, each acting on what it
read earlier. In the pooler agent several requests and timers share one
generation counter per cluster. `PROJECT.json` lists every such hazard with its
line and the property that covers it.

What correctness means, part by part:

- registry against podman: a container or a database can always be found from
  the rows; `stopped` means there is no container; `running` means that what runs
  is what the recorded manifest asks for, as far as `apply` compares the two;
  `applying` means somebody is at it.
- boot recovery: what was running comes back; what was not stays down.
- pooler agent: whoever is held is released, and no timer releases a hold that
  is not its own.
- poolers on the host: a stored secret is the password of the role it stands
  for; what a pooler mounted opens every database it fronts; it serves the
  clusters and pools its row says; clients stay held while an instance is replaced.
- backup and restore: a report is about the backup the command made; a restore
  that succeeds holds the data that was asked for and can be logged into.
- manifests, names, staging, the admin console: what the host accepts the agent
  can carry out, and each answer, name and file is that of one thing only.
- upgrade and instance agent: one writer per volume; the database is never lost,
  never replaced by another or an empty one, and never goes back to an earlier
  version; the image that is started fits the data; the record names that image.

## Modules

`ControlPlane` models `apply`, `delete`, boot recovery, and the registry and
podman they share. `clusters`, `instances` and `fronted` are the registry's
tables, `container` and `volume` are podman's objects, `op` holds the CLI
processes (their program counter and the locals that survive an await) and
`daemon` the boot-recovery process. One action stands for one registry statement
or one podman call with everything the code does up to the next: `PutClusterRead`
and `PutClusterWrite` are the two statements of `put_cluster`, `Probe` is the
probe and the choice of `apply_instance`, `Decide` is `decide`, `Require` is
what `delete` reads before it acts, and so on; `PROJECT.json` has the lines.
`Stop`, `Remove`, `Create`, `Start` and `Ready` serve the three ways `apply`
creates a container, told apart by the locals `held` and `id`. `CliDies`,
`DaemonDies` and `Reboot` end processes between any two steps, `PodmanFails`
makes a call fail, and `BecomesReady` and `InstanceExits` are PostgreSQL.

A cluster has one instance (`pgpod-core/src/manifest.rs:148` refuses more), so
the model has one container, volume and instance row per cluster. A container
remembers the manifest it was made from, and of a manifest the model keeps what
`refuse_if_diverged` compares: `SpecOf`, the InstanceSpec it asks for, and
`ImageOf`, its image. `postgresUid`, `postgresGid` and the secrets of
destinations are in neither, so two manifests may differ and agree in both. The
image is compared only if podman said which one the manifest names (`known` in
`Probe`). `blind`, which marks a container adopted without that answer although
the image had changed, is not state of the program; `ManifestHonoured` needs it to
say what it excepts. A tag is taken to stay on its image. Left out because nothing
else depends on it or its errors are ignored: events, networks, secrets, the
backup volume, timestamps. A manifest that is refused before `put_cluster` writes nothing, so
that command is one that never starts. Errors of the registry itself are left
out, except the key violation and the foreign keys, which two commands can cause
in one another. `list_clusters` and the three reads at the start of `delete` are
one step each. Boot recovery visits clusters in any order rather than by name.
`RunOnce` stands for `pgpod daemon --once`, which needs the lock, that is, no
other daemon.

`PoolerAgent` models the agent that is PID 1 of a pooler container. `holds` are
the generations of `Pooler::holds`; `task` has two tasks per request, its handler
and the deadline a PAUSE arms, each with a program counter; `live` and `paused`
are pg_doorman's. A PAUSE runs `Connect`, one `Execute` per pool and `Arm`; a
RESUME runs `Bump`, `Connect` and the same `Execute`s; a deadline runs `Fire` and
then, if current, a RESUME of its own. Each mutex section and each command on
the console is a step. `ExecuteFails` is an error reply or a reply that does not
come within the read's time limit: the command may or may not have taken effect,
and the loop stops there. `failed` is not state of the program: it remembers on
which clusters the agent returned an error or logged one. The order of the pools
is left open, budgets are not measured (a deadline may fire at any time), and
RECONNECT, RELOAD and SHOW POOLS do nothing the model sees.

`Upgrade` models one cluster's volume and those who work on it. `pgdata` and
`new` are the directories PGDATA and PGDATA.new, `aside` the directories earlier
upgrades moved out of the way. A directory is a record of what tells its states
apart: what kind of directory it is, which database it holds (`origin` counts
the databases created in the volume), at which version, whether it is whole,
cleanly shut down and startable, and whether pgpod's include line and roles are
there. `container` is the instance's container with what its agent is doing
(`Open`, `InitdbBegins`, ..., `Spawn` are the steps of `pgpod-agent run`), `job`
the upgrade job's (`JobOpens` to `Finish`, the steps of `pgpod-agent upgrade
run` with the two renames apart), `host` the command under way: `pgpod upgrade`
from `Stage` to `EndUpgrade` with the way back (`Back`, `BackReady`,
`BackPhase`) and the rehearsal (`Again`, `AgainReady`), and `pgpod apply` as far
as the image is concerned. `Faults` is a constant that says what may go wrong:
a step that fails, a kill, a reboot, and apart from them the kinds that a run is
about (a kill between the renames, an error after them, a kill during the first
bootstrap, a job that outlives its time limit or its command, a readiness wait
that is too short). What belongs to PostgreSQL is external: `Serves` (which
directories a server starts on), what initdb and pg_upgrade make, and that a
server on hard-linked files spoils the directory they were linked from.

Simplifications of `Upgrade`: an image is the major version it carries; commands
take turns (two at once are the subject of `ControlPlane`); boot recovery reads
a fresh phase (see below for what happens when it does not); the poolers' hold
is one step; volumes that were restored from a backup are left out; the retry
of an interrupted swap in `JobOpens` can only be reached in `copy`, where a job
may find the data missing because another is in its swap; a server whose
directory is renamed under it is not followed, so where that can happen only
`DataKept` is checked.

`Lineage` is the abstract specification that `Upgrade` implements: a database
that is created once and then only ever replaced by itself at a later version.
The refinement mapping `Database` is the whole database in PGDATA or, between
the two renames, the one that was moved aside, because the swap may still be
taken back. `KeepsItsLineage` is `Lineage`'s specification under that mapping.

`Poolers` models the host's side of poolers. `rows`, `front`, `secret`, `role`,
`admin` and `volume` are the poolers table, podman's pooler containers with the
credentials they copied when they were created, the lookup secrets, the lookup
role's password in each database, and the rest of podman's state; `hold` is what
the agent in a pooler does to one cluster's pools: open, held with a deadline, or
stuck, which is what `PoolerAgent` leaves after an error. `op` holds the commands:
`apply_pooler` (`Resolve` to `PutRunning`, with `ensure_pooler_role` as
`FindSecret`, `AlterRole`, `DropSecret` and `StoreSecret`), `delete_pooler`,
`apply --recreate` of a cluster with its `PoolerHold` (`ListPoolers` to
`Released`) and `delete --purge` as far as poolers go. The life of a cluster
takes single steps here and many in `ControlPlane`. `SpecOf` is the PoolerSpec a
manifest asks for, which is all that `refuse_if_pooler_diverged` compares: a
container is `Adoptable` by another image, port, user or group. `Accidents` says what may go
wrong. `lapsed` (the holds that ended by themselves) and `half` (the clusters
whose purge was cut short between the volume and the secrets) are not state of
the program; the properties need them to say what they except.

`Backups` models `backup` and `restore`, their pgBackRest jobs, the cluster's
secrets and the roles they stand for, the bootstrap of an instance from initdb or
from a repository, and `apply` and `delete` as far as these go. `repo` is the
sequence of backups of each stanza, `stanza` the database and version it is on,
`jobs` the containers of jobs, the abandoned ones included; `volume` and `box`
are the data directory with the passwords of its roles and the instance's
container with its bootstrap. A time is the number of backups finished by then,
so that `BackupForTarget` compares what `backup_for_target` compares. pgBackRest
and PostgreSQL are external: a job succeeds on a running database its stanza
belongs to (`JobEnds`), a restore replays before it promotes (`RestoreEnds`,
`Promote`). `sound`, and `made`, `own` and `fair` in a command, are not state of
the program: they remember what a report promised and on what condition. An
`info` job is one step; the version upgrade is one step (`Upgraded`).

Five modules are about what is computed, each over its own inputs and without
interleaving:

- `Manifests`: the host's checks of a cluster's manifest, what it records and
  hands to the agent (`Apply`, `Create`), and what the agent makes of that at each
  start: the data directory and its roles, the two configuration files and their
  precedence, `pg_hba.conf` in order, pgBackRest's repositories and stanzas
  (`Render`, `Bootstrap`, `Serve` and their neighbours). A manifest is a record of
  what these steps tell apart, so that a bad parameter name is one value.
- `PoolerManifests`: `PoolerManifest::validate`, `resolve_pools`, the
  specification, the secrets by index, and the rendered `pg_doorman.yaml`.
- `Staging`: how an installation is lifted out of one image and run in another:
  the copy, the library closure of `elf.rs` name by name, the wrappers, the trial
  run of `pg_ctl`, and the arguments initdb gets: the checksum flag carried over
  and after it the operator's `initdb.options` (`InitdbArgv`), of which the last
  that says anything of checksums decides (`MadeBy`) and one that this version
  does not know ends the upgrade (`UnknownOption`). `ReadRoot` and `NextFile`
  take a file in hand in the first and in the second loop of
  `resolve_dependencies`, `needed` and `within` are the names it still asks for and
  the directories they are looked for in, and `NextName` looks for the next.
- `Names`: the identifiers of clusters, instances and poolers, how instance ids
  are read back, and every name podman or PostgreSQL is given.
- `Console`: the admin console's messages, `decode` over a stream cut anywhere,
  and a connection's conversation. `PoolerAgent` takes from it that an
  acknowledgement means the pools were paused.

`MCAlgorithms` puts these five side by side, each moving only while the others
are where they began, so that one run checks them all. The other `MC` modules
declare the values of the configurations. `ControlPlaneProofs`,
`PoolerAgentProofs`, `UpgradeProofs`, `PoolersProofs`, `BackupsProofs`,
`StagingProofs`, `ConsoleProofs` and `ManifestsProofs` (which has `PoolerManifests`
and `Names` too) hold the proofs.

## What TLC checks

Runs that pass:

| run | properties | instance |
|---|---|---|
| `serial` | `TypeOK`, `StoppedMeansDown`, `NoOrphanContainer`, `DataReachable`, `ManifestHonoured` | one cluster, one command at a time, three manifests: two that differ in their image, one with another InstanceSpec that never becomes ready; three commands, one death or reboot, any podman failure |
| `overlap` | `ApplyingHasAnOwner` | two commands at once on one cluster, podman failures, no deaths |
| `boot` | `BootRestores` | two clusters, two ports, two commands, one death or reboot, no podman failures; fairness |
| `holds` | `TypeOK`, `Covered`, `OneLiveDeadline` | clusters with two and one pools, three requests in two slots, one restart |
| `ends` | `EveryHoldEnds` | the same clusters, two requests, no restart; fairness |
| `window` | `TypeOK`, `OneWriter`, `ImageFitsData`, `ManagedAndReachable`, `RecordFitsData`, `ServesTheDatabase`, `KeepsItsLineage` | three versions, copy and link, four commands, two kills or reboots, failing steps |
| `copy` | `DataKept` | two versions, copy only, three commands, every fault |
| `poolers` | `TypeOK`, `SecretMeansRole`, `PoolersCanLogIn`, `RowDescribesPooler`, `HeldThroughout` | two clusters, two poolers, two manifests with one PoolerSpec that name one cluster and one that names both; five commands in turn, one kill or reboot, failing calls of podman and of the console |
| `backups` | `TypeOK`, `ReportsOwnBackup`, `RestoredAsAsked`, `ImageReadsBackup`, `Reachable` | two clusters that may be restored into one another's name, two versions; four commands in turn, one kill, failing calls, expired time limits, restores that do not wait, lost secrets |
| `algorithms` | `MistakesAreEarly`, `ManagedSettingsStand`, `ArchivesSomewhere`, `WhoGetsIn`, `StagedFromOneImage`, `VerifiedMeansAllRun`, `ChecksumsCarried`, `NamesTellApart`, `EveryPoolAnswers`, `AnswersItsCommand` | the inputs that `MCManifests`, `MCStaging`, `MCNames`, `MCPoolerManifests` and `MCConsole` list |

Runs that find a disagreement between the code and what it says of itself, each
with a finding in `PROJECT.json` that quotes the sentence:

| run | property | what happens |
|---|---|---|
| `swap_cut` | `ServesTheDatabase` | a job killed between its renames leaves no PGDATA; the old image is started and serves a new, empty database |
| `way_back` | `WayBack` | a first apply fails in the agent after initdb; the corrected manifest is applied, reported as ready, and has no roles |

In `swap_cut` the upgraded data is not lost: it stays in PGDATA.new until the
next upgrade, which clears it, and the old data stays aside: `DataKept` holds
there too, as the theorem `NeverLost` says. The shortest trace of `way_back` has
16 steps: the parameter whose name the agent refuses is found by `render_config`,
which runs after initdb and before the roles are made; `bootstrap` at the next
start sees `PG_VERSION` and makes none.

Other disagreements were seen while modelling and have no run of their own. Four
are behaviours of `Upgrade` that the kinds of `Faults` left out of `window` let
happen; a run of `window` with the kind added shows each:

- `"late"`, `ImageFitsData`: a job that fails after its swap (the include line,
  the report) has the old image started on the new data (`upgrade.rs:301-303` of
  pgpod-control says that nothing was swapped).
- `"boot-kill"`, `ManagedAndReachable`: an agent that is killed or fails after
  initdb wrote PG_VERSION and before the include line or the roles takes the
  directory for a complete one at its next start (`bootstrap.rs:69` of the
  agent; its line 159 says "bootstrap can be re-entered after a crash").
- `"timeout"`, `OneWriter`: when the time limit of the job ends the wait, the
  job goes on and the old instance is started beside it (`upgrade.rs:853` of
  pgpod-control; line 634 says "with the instance stopped").
- `"death"`, `ImageFitsData`: the upgrade command is killed, its job goes on,
  and the next apply starts an instance beside it.

Two need two commands at once; a run with `Overlap = TRUE` shows each:

- `ControlPlane`, `ManifestHonoured`: of two applies the first to end writes
  `running` (`lib.rs:377` of pgpod-control) while the other is at work, so the
  recorded manifest is not the one that runs (`pgpod-core/src/lifecycle.rs:133`).
- `Poolers`, `SecretMeansRole` and `HeldThroughout`: two applies of poolers on one
  cluster each set the role's password and store their own (`pooler.rs:366`), and
  of two holders the first releases what both hold (`pooler.rs:897`).

The others are traces of the models that no property forbids, or are excepted by
name where a property would forbid them:

- A PAUSE that fails half-way leaves pools paused and arms no deadline
  (`pgpod-agent/src/pooler/control.rs:121`; `pgpod-pooler/src/control.rs:17` says
  "Always deadlined"). `EveryHoldEnds` and `Covered` except it by `failed`.
- A deadline that has looked at the generation (`control.rs:136`) resumes the
  pools afterwards, also those of a hold acknowledged in between.
- A pool whose first client connects during a hold is created unpaused
  (`control.rs:201`); `PoolerAgent`'s pools exist from the start.
- `release_after_recreate` stops at its first error (`pooler.rs:886`); the other
  poolers stay held until their deadlines.
- `reject_managed_parameters` says "before anything is created" (`pooler.rs:332`),
  but `ensure_pooler_role` has by then made a role and a secret in each cluster.
- An empty `as` gives a pool an empty name, which is accepted; its command is then
  the bare `PAUSE`, which is for the whole pooler.
- `refuse_if_pooler_diverged` compares PoolerSpecs only (`pooler.rs:494-517`). A
  pooler applied again with another image, port, user or group keeps its
  container; `put_pooler` (`pooler.rs:263-298`) records the new manifest, and the
  connection string that is reported has a port nothing listens on.
  `RowDescribesPooler` claims the PoolerSpec and no more; that the container is of
  the recorded manifest itself is violated in `poolers`.
- In the same way `refuse_if_diverged` (`lib.rs:828`) does not see `postgresUid`,
  `postgresGid` (`lib.rs:699-708`) or the names of credential secrets, sanitized
  away at `lib.rs:648-659` and mounted at `lib.rs:781-791`. An apply that changes
  only these keeps the container and records `running`, the only phase "in which
  the cluster is exactly what its manifest describes" (`lifecycle.rs:133-134`).
  `ManifestHonoured` claims the InstanceSpec and the image, and `SpecOf` and `ImageOf`
  are all that it sees of a manifest.
- `image_id` takes an error of podman for an image that is not there
  (`container.rs:458-461`), and without an id the image is not compared: an apply of
  another image then adopts the old container, or starts it again, and records
  `running` (`blind` excepts it).
- `initdb.options` come after the checksum flag that an upgrade carries over
  (`initdb.rs:127` of pgpod-pg, filled from the manifest at
  `upgrade/mod.rs:229-236` of the agent, and at `bootstrap.rs:94-99` at a first
  start), and initdb heeds the last. `-k` or `--data-checksums` turns on what the
  manifest or the old data directory has off, `--no-data-checksums` turns off what
  is on from PostgreSQL 18; the test at `initdb.rs:148-151` says that there is no
  such option, so the guarantee holds. Before 18 there is none, and initdb fails.
  `ChecksumsCarried` claims the old setting where the options say nothing of it,
  and the last of them where they do.
- A purge that dies between the volume and the secrets leaves the lookup secret,
  the trap that `lib.rs:1288-1302` describes (`half` in `Poolers` excepts it).
- A cluster purged and created again under its name adopts its old repository; a
  restore of an old backup then takes the new cluster's secrets for the old
  roles, rotates nothing and reports success (`own` and `origin` in `Backups`).
- A `delete --purge` drops the result of removing a secret (`lib.rs:1286`); a
  restore into the name takes what is left as its own, rotates nothing and
  reports success with a password that no role has (`fair` excepts it).
- A restore that fails when its configuration is rendered, followed by a plain
  apply, starts with an initdb specification where `recovery.signal` lies.
- A restore that does not wait rotates no password, and no later apply does.
- A backup job that reaches its time limit keeps its container
  (`backup.rs:308`), and a later `delete --purge` fails at the volume.
- The version of a backup is compared with the stanza's current one, not with the
  image of the source's manifest, and a backup without a version passes
  (`backup.rs:238`); between an upgrade and the first backup after it the message
  names a version that `source` does not run.
- The comment in `recovery.rs` that the agent must not write recovery settings
  is not what `render_config` does.
- What the host accepts and the agent or the specification later refuses is the
  set `LateMistake` of `Manifests`: repository addresses, retentions, parameter
  names, options that look like credentials (the documented `s3-key-type` among
  them), a database without its owner. An owner named like a managed role is
  not refused, and its own secret does not open it.
- `verify_staged_binaries` runs only `pg_ctl`, and `elf.rs` marks a library as
  seen before it has found it; `VerifiedMeansAllRun` excepts what was lost so.
- Instance 1 of a cluster `pooler-a` and the pooler `a-1` have one name
  (`ids.rs:195-201` of pgpod-core), and so have the jobs of a cluster `pooler` and a
  pooler `stanza-upgrade`; `Masquerades` in `Names` says which names do.
- `put_cluster` reads a generation and writes it in two statements
  (`pgpod-registry/src/lib.rs:170`).
- `DaemonState::probe` takes the lock it asks about (`daemon.rs:706`), so a daemon
  that starts at that moment may find it taken.

- `resume_with` decides by phases it read before the first cluster was resumed
  (`daemon.rs:332`) and may start the container of a cluster that an apply has
  since marked; lines 115-117 say none of its instances must be touched.
- `wait_ready` in boot recovery writes the row it read (`lib.rs:1135` of
  pgpod-control), which `delete` may meanwhile have marked stopped; lines
  1315-1317 say why such a row must not read `running`.
- A pooler recorded after a purge has checked for poolers (`lib.rs:1238`) makes
  the purge refuse at its end, after the container and the volume are gone;
  lines 1219-1223 say the check is made before anything is removed.
- `allocate_port` avoids only ports that are bound (`lib.rs:1498`), so a new
  cluster may get the recorded port of a stopped one, which
  `src/README.md:146-147` says comes back on the same port. `BootRestores` has
  to except a container whose port is taken for this reason.
- An error of `PoolerHold::acquire` (`upgrade.rs:290`) is returned with the phase
  left at `upgrading`, against `tests/upgrade.rs:862`.
- The way back drops the result of `wait_ready` (`upgrade.rs:334`) and records
  `running` although the old instance may have exited, as it does after a failed
  `--method link`; lines 335-336 say it is serving.

Bounds, and why they are enough. `MaxOps` (commands started): three make an
apply, an apply of another manifest or a delete, and a third after either was
cut short; every property but one relates two commands. The manifests of
`serial` differ in the image only or in the InstanceSpec; a manifest that differs
from another in neither would only raise the generation in its row, which decides
nothing. The two that differ in their image may be exchanged, which is the
symmetry of the run (2.6 million states). `MaxCrashes` is one because a process
that finds the debris of two deaths finds no state that one death and one more
command could not leave: each death only drops locals.
`MaxRequests` is three: the hold of one, the hold that replaces it, and the
resume that crosses both. `MaxRestarts` is one: a restart returns the agent to
its initial state. Two clusters are there to show that one does not disturb the
other (generations and errors per cluster; boot recovery past a cluster that
fails; ports). The proofs remove these bounds for the properties they cover.
`CHECK_DEADLOCK FALSE` is in the configurations of `PoolerAgent` because a
bounded number of requests ends with nothing left to do, as an agent that nobody
asks for anything does; in those of `Upgrade`, `Poolers` and `Backups` because a
bounded number of commands does; and in those of the five pure modules because a
computation that has its result is finished.

In `Upgrade`, `MaxCommands` is four because the longest story worth telling has
an apply, an upgrade that goes wrong, a retry or an apply that repairs, and a
last upgrade that clears what the others left; three versions let an upgrade
follow an upgrade and an image be too old for data that is not the newest. Two
kills are the failed attempt and its failed repair. `copy` takes three commands
and two versions, which is enough for two writers and a swap between them.

In `Poolers`, five commands are a cluster, a pooler on it, an end of the cluster
(a purge, or a replacement of its instance), its return and one more command
that meets what the others left; two clusters let one pooler front both and
lose one, and two poolers let a replacement hold one and fail at the other (1.54
million states). In `Backups`, four commands are a source, its backup, the restore
and one that uses or repeats it; with two names the restore of a restore, and a
restore into the name of a purged source, are among them (1.16 million states up
to the symmetry of the names). One kill is enough in both for the reason given
above. In `algorithms` the inputs are the bound: manifests that differ from a good
one in one group of related fields, images that lack a file each, names of
up to three words of which some are `pgpod`'s own, two pools, and nine bytes of a
stream cut anywhere (some 630,000 states). Each list has the values at which a
branch of the code turns, and the good case.

Fairness. `ControlPlane!Fairness`: a process that is not killed takes its next
step, and an instance that can become ready does. Nobody is obliged to type a
command, and podman failures, deaths and reboots never have to happen.
`Upgrade`, `Poolers`, `Backups` and the pure modules state safety only.
`PoolerAgent!Fairness`: tokio runs every task, a sleep ends, and the console
answers or the bounded read of `admin.rs` gives up; no RESUME is ever promised,
which is the point of `EveryHoldEnds`.

Each property of a passing run has a mutant in the module of the model, placed
before the definition it alters and introduced by the word "Mutant": the model
with that change violates the property.

## What TLAPS proves

From the assumptions `ConstantsOK`, `SpecOK`, `UpgradeOK`, `PoolersOK`,
`BackupsOK`, `ManifestsOK`, `PoolerManifestsOK`, `StagingOK`, `NamesOK` and
`ConsoleOK` on the constants, for any number of clusters, processes, pools, poolers,
requests, roles, backups, versions, manifests, images, names and commands and
without any of the bounds:

- `ControlPlaneProofs`: `Typing` (no assumption on overlap), and, with one
  command at a time (`Overlap = FALSE`) beside boot recovery, deaths, reboots
  and failures: `OrphanFree`, `DataSafe`, `StoppedIsDown`, `RunsItsManifest`. With
  commands that overlap as they like: `AppliesAnswerForIt` (`ApplyingHasAnOwner`).
- `PoolerAgentProofs`: `Typing`, `HoldsAreCovered`, `OneTimerCounts`.
- `UpgradeProofs`: `Typing`; if no job outlives its command (neither its time
  limit nor the command's death is among the faults) `OneAtATime` and
  `NeverLost` (`DataKept`); whatever fails, as long as `--method link` is not
  chosen, `CopiesNeverLose` (`DataKept` again); if no job outlives its command and
  no swap is cut in two, `Implements` (the refinement
  of `Lineage`) and `ServesOne` (`ServesTheDatabase`); if in addition no step after
  the swap fails and no wait gives up early (`Orderly`), `RightImage`
  (`ImageFitsData`) and `RightRecord` (`RecordFitsData`); and if no first bootstrap
  is cut short either, `Reaches` (`ManagedAndReachable`).
- `PoolersProofs`: `Typing` (no assumption on overlap) and, with one command at a
  time beside deaths, reboots, expiring holds and failures: `SecretsOpen`
  (`SecretMeansRole`), `LogIn` (`PoolersCanLogIn`), `RowsTrue`
  (`RowDescribesPooler`) and `Held` (`HeldThroughout`).
- `BackupsProofs`: `Typing` (no assumption on overlap) and, with one command at a
  time beside jobs that go on alone, lost secrets, upgrades, kills and failures:
  `OwnBackup` (`ReportsOwnBackup`), `AsAsked` (`RestoredAsAsked`), `Reads`
  (`ImageReadsBackup`) and `LogsIn` (`Reachable`).
- `ManifestsProofs`: for every set of manifests of the type, not only those listed
  for TLC, `EarlyMistakes`, `ManagedStand`, `Archives` and `OnlyTheInvited`
  (`WhoGetsIn`); and for every set of pooler manifests, with any number of
  clusters and pools, `EveryPoolIsReached` (`EveryPoolAnswers`).
  For any words, any length of names and any number of objects, `NamesApart`
  (`NamesTellApart`).
- `StagingProofs`: for any images, `OneImage` (`StagedFromOneImage`) and
  `SameChecksums` (`ChecksumsCarried`); and for images that are `Usual`, `AllRun`
  (`VerifiedMeansAllRun`).
- `ConsoleProofs`: for any number of pools, any columns in any order and any limit
  on a message's length, `AnswersFit` (`AnswersItsCommand`).

The argument for the control plane. `TypeOK` is not inductive: what a process
writes comes from locals whose meaning depends on where it is. `TypeInv` adds
`Shape` (at each program counter the locals hold what the later steps write) and
the same for the daemon's row. `SerialInv` adds `Solo` (at most one command is
under way, so what a command read of a row still stands when it writes),
`Safe` (the four properties themselves) and `Progress` (what a command has
already secured at each program counter: from the registry's answer on, `apply`
knows that its phase and manifest stand and, past its first `put_instance`, that
the row is there; past its probe the container is as its manifest describes; past its
removal `delete` knows there is no container). Boot recovery is the reason
`Progress` is delicate: it may start a container at any moment and it writes
instance rows, so nothing in `Progress` may rest on a container being stopped or
on an instance row's phase.
Without `Overlap = FALSE` the last of the four is false: see the two applies above.
`RunsItsManifest` holds for any `SpecOf` and `ImageOf`: past its probe a container
has the InstanceSpec of the apply's manifest, and its image or the mark `blind`.
`ApplyingHasAnOwner` needs none of this, but it is not inductive: an apply that has
read the cluster and not yet written it counts as an owner, may end on a key
violation, and would leave the phase to nobody. `Owned` asks for an owner that has
written (`Applying`); of two applies of one cluster either may end first, and what
it writes is never `applying`.

The argument for the pooler agent. `Covered` is not inductive by itself: it
needs `Disciplined` (only a PAUSE arms, only a deadline sleeps, a deadline's slot
is free while its handler is at work, and a sleeping deadline's generation is not
above its cluster's) so that arming a new hold finds its slot free and generations
that have passed do not come back. A pool that is paused passes from the PAUSE
that paused it to the deadline it arms; a RESUME or another PAUSE that outdates
that deadline is itself a task that will visit the pool or arm the next deadline.

The argument for the upgrade. `OneWriter` follows from `Turns`: the job works
only while its upgrade waits for it, and from the job's creation until the wait
ends there is no instance. `DataKept` needs `Kept`: the first database is in
PGDATA or aside, never only in PGDATA.new, which the next job clears; a complete
directory is whole, because a transfer reads only from a directory that was
stopped and, by `Turns`, stays so. `Spawn` is the delicate case: a server on a
linked copy spoils the directory moved aside, but then the copy itself is the
first database. Without `--link` none of this is needed, nor `Turns`: `Spared` says
that every complete directory has its pg_control, so that `Spawn` spoils nothing,
and what a job beside a running instance builds may be worthless, because the
directory it read from goes aside as it was. With `--link` and a job that
outlives its command `DataKept` fails, as TLC finds with `Links = {TRUE}` in
`copy`: what is linked from a directory in use is not whole, and a server
started on it spoils the original too. The refinement adds `Lineal`, which says what the volume holds
at each step of an upgrade, and `Steered`, that the host gives a job a version
later than the data's: then creating the database is `Lineage!Born`, the second
rename is `Lineage!Upgraded`, and every other step leaves the database alone.
The two hypotheses are needed: the traces of `"timeout"` above and the run
`swap_cut` are what happens without them.

For the images `Matched` says at each step of a command which version the data
are of: in an apply from the answer of its version check on (`Applies`), in an
upgrade the old version until the job's renames and the new one after them
(`Upgrades`, `Waits`), and when no command is at it that of the record
(`Recorded`). What makes this inductive is `Fitted`: an agent that creates a
database is waited for by an apply, so no upgrade can begin beside it, whose image
would be that of an empty directory. Each fault that `Orderly` leaves out breaks
it, as TLC shows one by one: `ImageFitsData` is violated with `"late"`,
`"swap-kill"`, `"death"`, `"timeout"` or `"impatient"` among the faults,
`RecordFitsData` with `"late"`, `"death"`, `"timeout"` or `"impatient"`, and
`ManagedAndReachable` with any of these or `"boot-kill"`.

The argument for the poolers. `SerialInv` is `TypeOK`, `Solo`, what the command
under way has secured (`ApplyInv`, `DeleteInv`, `RecreateInv`, `PurgeInv`) and
what holds of the world in every state (`World`). `SecretMeansRole` and
`PoolersCanLogIn` hold each other up: the password of a role is set only
while its secret is missing, a secret that is missing belongs to a cluster that
no container fronts (`FrontInv`), so no mounted password goes stale; and a
purge takes a secret away only after it has seen that nothing fronts the
cluster. `NoSecretOfNothing` is needed where `CreatePooler` mounts: what it mounts
is the password of a database that exists. `RecreateInv` divides the poolers a
replacement found into those still to hold, those held and those whose hold
ended by itself, which is what `HeldThroughout` excepts by name.

The argument for backups and restores. What a restore will do depends on backups
that other steps add to, so `TypeInv` adds to `TypeOK` that every bootstrap in
flight, in a container or in a command, names a backup that is there (`Backs`),
and `Grown` says that repositories only grow. `SerialInv` adds `Solo`; `JobsInv`:
one backup at a time runs in a cluster, a job that has an owner is the one its
owner waits for, and when it has finished well its backup is the newest, later than
all that the command had seen, with none on its way (`Made`), which is why the
second look finds the command's own backup although jobs given up on still finish;
for each command what it has secured at each step (`OpInv`); and for each cluster
that its container and data fit its row (`Fits`), that its stanza's backups are of
one database (`Lineage`) and that what was reported as a success has its data whole
and every secret there and equal to the role's password (`Sound`). `Sound` says
more than `Reachable` because an `apply` creates what secrets are missing:
only with every secret there does a second `apply` leave a cluster alone. `RestoreInv`
is that a restore has its cluster to itself: it begins and chooses while the cluster
is unknown, so by `Fits` neither a container nor data are there. `FairInv` divides
the roles of a restore into those whose secret is still to be looked at, those to
be rotated, and those whose secret is the password in the backup; when the rotation
is done only the last are left. `Lineage` is needed for
`ImageReadsBackup`: the code compares a backup's version with the stanza's and then
takes the image of the row, and `Lineage` says that those are the same as long as
the data are those `initdb` made and the stanza is of that database, across
upgrades.

The argument for the manifests. The invariant follows the computation: `FileInv` says
what the host lets through, `BoxInv` that the container's specification is that
of the manifest it was made from, `RenderedInv` that the configuration is that
of the specification, `DataInv` that a data directory initdb made in one go has
that manifest's roles; `MistakesAreEarly` is the last conjunct. The theorems are
about what these files say to PostgreSQL and pgBackRest.

The argument for the poolers' manifests. `PoolerInv` follows the computation in the same
way; what has to be shown is that a secret's index leads back to the cluster it was
counted from although the specification is a set of pools (`Targets`), and that
pools the validation told apart by name stay apart as sections of the file.

The argument for staging. `StageInv` says what the tree holds at each stage, that a
candidate other than the roots was looked for by its name and is the only one of
that name (`FoundOnce`), and that whatever a file in hand or in the tree needs was
looked for or is about to be (`Followed`). That is enough for `OneImage`. For
`AllRun` the closure has to be closed: `ClosureInv` says that a name that was
looked for and found is, or will be, in a directory of `LD_LIBRARY_PATH`: in pkglib
or among the candidates. Then the names that were looked for are a closed set in
the sense of `Loads`, which is the least one (`LoadsLeast`). `Usual` is what the
code takes for granted of an image: no file's own search path leads into bin,
share, the bitcode or a directory below pkglib, nobody needs `llvmjit` and it is
no program. PostgreSQL's images are so; without any one of its parts TLC finds an
image whose staged programs do not all run.

The argument for names. All names of a cluster are its prefix and an end, so that
two that are equal have equal ends and therefore equal prefixes. That takes what
`NamesOK` says of the names of jobs: none ends in an ordinal and none is the end of
another, `backup-<time>` and `info-<time>` included. What keeps a pooler's container
from an instance's is the second word, which is why a cluster whose first word
is `pooler` is excepted, and nothing else needs to be.

The argument for the console. `Conversation` says where the connection stands, and
that what was not decoded - in the buffer, on the wire, or sent and lost - is the
rest of the answer to the command it is at (`OwedBy`), after a notice at most, or
something `decode` refuses. `DecodesInOrder` is the step: whatever part of the stream is in
the buffer, `decode` waits, fails, or takes the next message and leaves what follows
it. So ReadyForQuery is reached only with nothing owed, and the next command
begins on an empty stream. The rows of SHOW POOLS are defined by recursion
(`RowsFrom`); that the definition means what it says for every number of pools
needs induction. The libraries' induction theorems cannot be instantiated here;
`Induction` is one about a set of naturals, proved by the pigeonhole principle.

These inductive invariants were model-checked before they were proved.

Only model-checked: the liveness properties `BootRestores` and `EveryHoldEnds`
(liveness under fairness and ENABLED are out of the prover's reach), and
everything the violation runs show. Every invariant that a passing run checks is
stated by a theorem. No module that
is proved about uses a RECURSIVE operator.

## What is not modelled

The components of `PROJECT.json` say for each part what is left out and why. In
short:

- The command line and the doctor (`pgpod-cli`): parsing, printing, and checks of
  the host that read and change nothing; `status` of `pgpod-control` likewise.
- The text of JSON, YAML and SQL, quoting and escaping, and the HTTP client of the
  podman facade: the models start from what was parsed and end at the call.
- Networks, the events table and timestamps: nothing that is modelled is decided by
  them, except recovery targets, which `Backups` orders by.
- Several `PoolerAgent`s under one hold: `Poolers` has the host's side with each
  agent reduced to open, held or stuck, `PoolerAgent` one agent in full. That
  the first is what the second shows its caller is argued in the comments, not
  checked.
- Several instances per cluster, which `pgpod-core/src/manifest.rs:148` refuses.
