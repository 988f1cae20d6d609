------------------------------ MODULE Backups ------------------------------
(* Backups and restores: `pgpod backup` and `pgpod restore` with their     *)
(* pgBackRest jobs, the secrets of a cluster and the roles they stand for, *)
(* the bootstrap of an instance from initdb or from a repository, and      *)
(* `pgpod apply` and `pgpod delete` as far as these are concerned.         *)
(*                                                                         *)
(* A command is a process whose steps are calls of podman or statements of *)
(* the registry, an `info` job taken whole.  A repository is keyed by the  *)
(* name of its stanza, which is the name of the cluster, and outlives it.  *)
(* A time is the number of backups finished by then, anywhere.             *)
EXTENDS Integers, Sequences

CONSTANTS
    Cluster,    \* cluster names
    NoCluster,  \* what a command that has none names
    Role,       \* the roles a cluster has a secret for
    Version,    \* PostgreSQL major versions, and the images that carry them
    Cli,        \* slots for commands that are under way
    Overlap,    \* may commands overlap
    Accidents,  \* what may go wrong
    MaxOps,     \* bound: commands typed
    MaxKills    \* bound: kills and crashes

AccidentKind == {"podman",    \* a call of podman fails
                 "patience",  \* the time limit of a backup ends
                 "hasty",     \* a restore is told not to wait
                 "secrets",   \* a cluster's secrets are not on this host
                 "kill"}      \* a command or a container goes down

ASSUME BackupsOK ==
    /\ NoCluster \notin Cluster
    /\ 0 \notin Cli
    /\ Version \in SUBSET (Nat \ {0})
    /\ Overlap \in BOOLEAN
    /\ Accidents \subseteq AccidentKind
    /\ MaxOps \in Nat
    /\ MaxKills \in Nat

VARIABLES
    row,       \* registry: phase and image of each cluster's manifest
    secret,    \* podman: the password each secret of a cluster holds, 0 if none
    box,       \* podman: the instance containers
    volume,    \* podman: the data directory in each cluster's volume
    jobs,      \* podman: containers of backup jobs
    repo,      \* the repositories: the backups of each stanza, oldest first
    stanza,    \* the database and version each stanza is on
    op,        \* the commands
    sound,     \* clusters whose last creation or restore said it succeeded:
               \* not state of the program
    minted,    \* passwords and databases made so far
    now,       \* backups finished so far
    ops, kills \* how often so far

containers == <<secret, box, volume, jobs>>
repository == <<repo, stanza, now>>
counters   == <<minted, sound>>
bounds     == <<ops, kills>>
vars == <<row, containers, repository, op, counters, bounds>>

-----------------------------------------------------------------------------
(* What the steps are written with.                                        *)

NoPassword == [r \in Role |-> 0]
NoRow    == [phase |-> "none", image |-> 0]
Initdb   == [from |-> NoCluster, label |-> 0, at |-> 0]
NoBox    == [state |-> "none", boot |-> Initdb, image |-> 0,
             creds |-> NoPassword, tried |-> FALSE]
\* A data directory; "replays" is recovery.signal.
NoData   == [state |-> "none", origin |-> 0, version |-> 0, pw |-> NoPassword,
             boot |-> Initdb, replays |-> FALSE]
NoStanza == [origin |-> 0, version |-> 0]
Idle     == [kind |-> "idle", pc |-> "idle", cluster |-> NoCluster,
             boot |-> Initdb, image |-> 0, wait |-> TRUE, recreate |-> FALSE,
             named |-> FALSE, todo |-> {}, rotate |-> {}, seen |-> 0,
             label |-> 0, made |-> 0, own |-> TRUE, fair |-> FALSE]

CanFail(k)   == k \in Accidents
At(i, k, pc) == op[i].kind = k /\ op[i].pc = pc
Known(c)     == row[c].phase # "none"
Whole(c)     == volume[c].state = "whole"
Live(c)      == box[c].state \in {"booting", "restoring", "recovering", "up"}

Goto(i, pc) == op' = [op EXCEPT ![i].pc = pc]
End(i)      == op' = [op EXCEPT ![i] = Idle]
Fails(i)    == CanFail("podman") /\ End(i)

MayBegin == /\ ops < MaxOps
            /\ Overlap \/ \A i \in Cli : op[i].kind = "idle"

Begin(i, o) ==
    /\ MayBegin
    /\ op[i].kind = "idle"
    /\ op' = [op EXCEPT ![i] = o]
    /\ ops' = ops + 1
    /\ UNCHANGED <<row, containers, repository, counters, kills>>

\* run_pgbackrest with "info": needs the cluster's row, and the configuration
\* that its agent has put into the volume.  One that runs out of time leaves
\* its container.
Configured(c) == volume[c].state \in {"restoring", "partial", "whole"}

Asked(i, c) ==
    /\ Known(c) /\ Configured(c)
    /\ UNCHANGED jobs
NotAsked(i, c) ==
    /\ \/ /\ ~Known(c) \/ ~Configured(c) \/ CanFail("podman")
          /\ UNCHANGED jobs
       \/ /\ CanFail("patience")
          /\ jobs' = jobs \cup {[cluster |-> c, owner |-> 0, state |-> "failed",
                                 label |-> 0]}
    /\ End(i)

-----------------------------------------------------------------------------
(* backup.                                                                 *)

Backup(i) == \E c \in Cluster : Begin(i, [Idle EXCEPT !.kind = "backup",
                                              !.pc = "before", !.cluster = c])

InfoBefore(i) ==
    LET c == op[i].cluster IN
    /\ At(i, "backup", "before")
    /\ \/ /\ Asked(i, c)
          /\ op' = [op EXCEPT ![i].pc = "start", ![i].seen = Len(repo[c])]
       \/ NotAsked(i, c)
    /\ UNCHANGED <<row, secret, box, volume, repository, counters, bounds>>

\* The job's container, created and started.  pgBackRest's lock is in the
\* volume that all jobs of a cluster share: a second one fails.
StartJob(i) ==
    LET c == op[i].cluster
        Job(state) == [cluster |-> c, owner |-> i, state |-> state, label |-> 0]
    IN
    /\ At(i, "backup", "start")
    /\ \/ /\ volume[c].state # "none"
          /\ jobs' = jobs \cup
                {Job(IF \E j \in jobs : j.cluster = c /\ j.state = "running"
                     THEN "failed" ELSE "running")}
          /\ Goto(i, "wait")
       \/ Fails(i) /\ UNCHANGED jobs
       \/ /\ Fails(i)
          /\ jobs' = jobs \cup {[Job("failed") EXCEPT !.owner = 0]}
    /\ UNCHANGED <<row, secret, box, volume, repository, counters, bounds>>

\* pgBackRest copies a running database that the stanza belongs to.
JobEnds(j) ==
    LET c == j.cluster
        Fits == /\ box[c].state = "up" /\ Whole(c)
                /\ stanza[c] = [origin |-> volume[c].origin,
                                version |-> volume[c].version]
    IN
    /\ j.state = "running"
    /\ \/ /\ Fits
          /\ repo' = [repo EXCEPT ![c] = Append(@,
                 [origin |-> volume[c].origin, version |-> volume[c].version,
                  pw |-> volume[c].pw, stop |-> now + 1])]
          /\ now' = now + 1
          /\ jobs' = (jobs \ {j}) \cup
                {[j EXCEPT !.state = "ok", !.label = Len(repo[c]) + 1]}
       \/ /\ ~Fits \/ CanFail("podman")
          /\ jobs' = (jobs \ {j}) \cup {[j EXCEPT !.state = "failed"]}
          /\ UNCHANGED <<repo, now>>
    /\ UNCHANGED <<row, secret, box, volume, stanza, op, counters, bounds>>

\* wait_for_exit, logs, and the removal of the container.  When the time
\* limit ends first, the container is left to itself.
WaitJob(i) ==
    /\ At(i, "backup", "wait")
    /\ \E j \in jobs :
        /\ j.owner = i
        /\ \/ /\ j.state = "ok"
              /\ op' = [op EXCEPT ![i].pc = "after", ![i].made = j.label]
              /\ jobs' = jobs \ {j}
           \/ /\ j.state = "failed"
              /\ End(i)
              /\ jobs' = jobs \ {j}
           \/ /\ CanFail("patience")
              /\ End(i)
              /\ jobs' = (jobs \ {j}) \cup {[j EXCEPT !.owner = 0]}
    /\ UNCHANGED <<row, secret, box, volume, repository, counters, bounds>>

\* Mutant: the first backup that was not there before.
FirstNew(i) ==
    LET c == op[i].cluster IN
    /\ At(i, "backup", "after")
    /\ op' = [op EXCEPT ![i].pc = "report",
              ![i].label = IF Len(repo[c]) > op[i].seen THEN op[i].seen + 1 ELSE 0]
    /\ UNCHANGED <<row, containers, repository, counters, bounds>>

\* The label in the report: the newest that was not there before.
InfoAfter(i) ==
    LET c == op[i].cluster IN
    /\ At(i, "backup", "after")
    /\ \/ /\ Asked(i, c)
          /\ op' = [op EXCEPT ![i].pc = "report",
                    ![i].label = IF Len(repo[c]) > op[i].seen
                                 THEN Len(repo[c]) ELSE 0]
       \/ NotAsked(i, c)
    /\ UNCHANGED <<row, secret, box, volume, repository, counters, bounds>>

BackupStep(i) == Backup(i) \/ InfoBefore(i) \/ StartJob(i) \/ WaitJob(i) \/ InfoAfter(i)

-----------------------------------------------------------------------------
(* restore: which backup, and into which image.                            *)

Restore(i) ==
    \E s \in Cluster, t \in Cluster, at \in 0..now,
       image \in Version \cup {0}, wait \in BOOLEAN :
        /\ s # t
        /\ wait \/ CanFail("hasty")
        /\ Begin(i, [Idle EXCEPT !.kind = "restore", !.pc = "check", !.cluster = t,
                         !.boot = [from |-> s, label |-> 0, at |-> at],
                         !.image = image, !.named = image # 0, !.wait = wait])

CheckNames(i) ==
    /\ At(i, "restore", "check")
    /\ IF ~Known(op[i].cluster) /\ Known(op[i].boot.from)
       THEN Goto(i, "choose") ELSE End(i)
    /\ UNCHANGED <<row, containers, repository, counters, bounds>>

\* Mutant: the newest of all.
NewestBackup(c, at) == IF repo[c] = <<>> THEN {} ELSE {Len(repo[c])}

\* backup_for_target: the newest that finished at or before the target.
BackupForTarget(c, at) ==
    {k \in DOMAIN repo[c] :
        /\ repo[c][k].stop <= at
        /\ \A l \in DOMAIN repo[c] : repo[c][l].stop <= at => l <= k}

\* Mutant: any backup will do for the image of the manifest.
AnyVersion(s, k, image) == TRUE

\* A backup of another version than the stanza is on needs an image by name.
ImageAllows(s, k, image) == image # 0 \/ repo[s][k].version = stanza[s].version

Choose(i) ==
    LET s == op[i].boot.from
        Chosen == BackupForTarget(s, op[i].boot.at)
    IN
    /\ At(i, "restore", "choose")
    /\ \/ /\ Asked(i, s)
          /\ \/ \E k \in Chosen :
                 /\ ImageAllows(s, k, op[i].image)
                 /\ op' = [op EXCEPT ![i].pc = "put", ![i].boot.label = k,
                      ![i].image = IF @ = 0 THEN row[s].image ELSE @,
                      ![i].own = /\ Whole(s) /\ volume[s].boot = Initdb
                                 /\ repo[s][k].origin = volume[s].origin,
                      ![i].fair = /\ secret[op[i].cluster] = NoPassword
                                  /\ \A r \in Role : secret[s][r] \in {0, repo[s][k].pw[r]}]
             \/ /\ \A k \in Chosen : ~ImageAllows(s, k, op[i].image)
                /\ End(i)
       \/ NotAsked(i, s)
    /\ UNCHANGED <<row, secret, box, volume, repository, counters, bounds>>

-----------------------------------------------------------------------------
(* apply_with_bootstrap, which a restore ends in.                          *)

Apply(i) ==
    \E c \in Cluster, v \in Version, r \in BOOLEAN :
        /\ Known(c) => v = row[c].image
        /\ Begin(i, [Idle EXCEPT !.kind = "apply", !.pc = "put", !.cluster = c,
                                 !.image = v, !.recreate = r])

Applying(i, pc) == op[i].kind \in {"apply", "restore"} /\ op[i].pc = pc

\* refuse_incompatible_image reads the version in the volume; put_cluster.
PutCluster(i) ==
    LET c == op[i].cluster IN
    /\ Applying(i, "put")
    /\ IF Whole(c) /\ volume[c].version # op[i].image
       THEN End(i) /\ UNCHANGED row
       ELSE /\ row' = [row EXCEPT ![c] = [phase |-> "applying", image |-> op[i].image]]
            /\ op' = [op EXCEPT ![i].pc = "secrets", ![i].todo = Role,
                        ![i].fair = IF op[i].kind = "apply"
                                    THEN /\ volume[c].state \in {"none", "empty"}
                                         /\ box[c].state = "none"
                                    ELSE @]
    /\ UNCHANGED <<containers, repository, counters, bounds>>

\* record_apply_failure.
FailApply(i) ==
    /\ row' = [row EXCEPT ![op[i].cluster].phase = "failed"]
    /\ End(i)

\* Mutant: what is generated for a restored role is not remembered.
GenerateOnly(i, r) ==
    LET c == op[i].cluster  s == op[i].boot.from IN
    /\ Applying(i, "secrets") /\ r \in op[i].todo
    /\ op' = [op EXCEPT ![i].todo = @ \ {r}]
    /\ IF secret[c][r] # 0 THEN UNCHANGED <<secret, minted>>
       ELSE IF s # NoCluster /\ secret[s][r] # 0
       THEN secret' = [secret EXCEPT ![c][r] = secret[s][r]] /\ UNCHANGED minted
       ELSE secret' = [secret EXCEPT ![c][r] = minted + 1] /\ minted' = minted + 1
    /\ UNCHANGED <<row, box, volume, jobs, repository, sound, bounds>>

\* ensure_secrets, one secret: there already, taken over from the source of a
\* restore, or generated, and then to be given to the role of a restored
\* database.
EnsureSecret(i, r) ==
    LET c == op[i].cluster
        s == op[i].boot.from
        Adoptable == s # NoCluster /\ secret[s][r] # 0
    IN
    /\ Applying(i, "secrets") /\ r \in op[i].todo
    /\ \/ /\ secret[c][r] # 0
          /\ op' = [op EXCEPT ![i].todo = @ \ {r}]
          /\ UNCHANGED <<row, secret, minted>>
       \/ /\ secret[c][r] = 0 /\ Adoptable
          /\ secret' = [secret EXCEPT ![c][r] = secret[s][r]]
          /\ op' = [op EXCEPT ![i].todo = @ \ {r}]
          /\ UNCHANGED <<row, minted>>
       \/ /\ secret[c][r] = 0 /\ ~Adoptable
          /\ secret' = [secret EXCEPT ![c][r] = minted + 1]
          /\ minted' = minted + 1
          /\ op' = [op EXCEPT ![i].todo = @ \ {r},
                        ![i].rotate = IF s # NoCluster THEN @ \cup {r} ELSE @]
          /\ UNCHANGED row
       \/ /\ CanFail("podman")
          /\ FailApply(i)
          /\ UNCHANGED <<secret, minted>>
    /\ UNCHANGED <<box, volume, jobs, repository, sound, bounds>>

\* apply_instance: create_volume takes a volume that is there ...
CreateVolume(i) ==
    LET c == op[i].cluster IN
    /\ Applying(i, "secrets") /\ op[i].todo = {}
    /\ \/ /\ volume' = [volume EXCEPT ![c].state = IF @ = "none" THEN "empty" ELSE @]
          /\ Goto(i, "box")
          /\ UNCHANGED row
       \/ /\ CanFail("podman")
          /\ FailApply(i)
          /\ UNCHANGED volume
    /\ UNCHANGED <<secret, box, jobs, repository, counters, bounds>>

Same(i)      == /\ box[op[i].cluster].boot = op[i].boot
                /\ box[op[i].cluster].image = op[i].image
Refused(i)   == Live(op[i].cluster) /\ ~Same(i) /\ ~op[i].recreate
\* What becomes of a restore whose container goes away.
CutShort(c)  == [volume EXCEPT ![c].state = IF @ = "restoring" THEN "partial" ELSE @]

\* ... a container with the same spec and image is taken over, and started if
\* it is down; ...
AdoptInstance(i) ==
    LET c == op[i].cluster IN
    /\ Applying(i, "box") /\ box[c].state # "none" /\ Same(i)
    /\ box' = IF Live(c) THEN box
              ELSE [box EXCEPT ![c].state = "booting", ![c].tried = FALSE]
    /\ Goto(i, "wait")
    /\ UNCHANGED <<row, secret, volume, jobs, repository, counters, bounds>>

\* ... any other is replaced if it is down or --recreate allows it, and
\* refused otherwise.
CreateInstance(i) ==
    LET c == op[i].cluster IN
    /\ Applying(i, "box")
    /\ box[c].state = "none" \/ (~Same(i) /\ ~Refused(i))
    /\ box' = [box EXCEPT ![c] = [state |-> "booting", boot |-> op[i].boot,
                  image |-> op[i].image, creds |-> secret[c], tried |-> FALSE]]
    /\ volume' = CutShort(c)
    /\ Goto(i, "wait")
    /\ UNCHANGED <<row, secret, jobs, repository, counters, bounds>>

RefuseInstance(i) ==
    /\ Applying(i, "box") /\ (Refused(i) \/ CanFail("podman"))
    /\ FailApply(i)
    /\ UNCHANGED <<containers, repository, counters, bounds>>

\* wait_ready, which a database in recovery satisfies; a wait of zero is none.
WaitReady(i) ==
    LET c == op[i].cluster IN
    /\ Applying(i, "wait")
    /\ \/ /\ op[i].wait => box[c].state \in {"recovering", "up"}
          /\ Goto(i, IF op[i].wait /\ op[i].rotate # {} THEN "rotate" ELSE "conclude")
          /\ UNCHANGED row
       \/ /\ op[i].wait /\ box[c].state \notin {"recovering", "up"}
          /\ FailApply(i)
    /\ UNCHANGED <<containers, repository, counters, bounds>>

\* rotate_restored_roles: wait_writable, and one ALTER ROLE.
RotateRole(i, r) ==
    LET c == op[i].cluster IN
    /\ Applying(i, "rotate") /\ r \in op[i].rotate
    /\ \/ /\ box[c].state = "up" /\ secret[c][r] # 0
          /\ volume' = [volume EXCEPT ![c].pw[r] = secret[c][r]]
          /\ op' = [op EXCEPT ![i].rotate = @ \ {r}]
          /\ UNCHANGED row
       \/ /\ box[c].state # "up" \/ secret[c][r] = 0 \/ CanFail("podman")
          /\ FailApply(i)
          /\ UNCHANGED volume
    /\ UNCHANGED <<secret, box, jobs, repository, counters, bounds>>

\* Mutant: a restore has a phase of its own.
ConcludeRestored(i) ==
    /\ Applying(i, "conclude")
    /\ row' = [row EXCEPT ![op[i].cluster].phase = "restored"]
    /\ Goto(i, "report")
    /\ UNCHANGED <<containers, repository, counters, bounds>>

Conclude(i) ==
    /\ \/ Applying(i, "conclude")
       \/ Applying(i, "rotate") /\ op[i].rotate = {}
    /\ row' = [row EXCEPT ![op[i].cluster].phase = "running"]
    /\ Goto(i, "report")
    /\ sound' = IF op[i].wait /\ op[i].fair THEN sound \cup {op[i].cluster} ELSE sound
    /\ UNCHANGED <<containers, repository, minted, bounds>>

\* A command ends with its report.
Report(i) ==
    /\ op[i].pc = "report"
    /\ End(i)
    /\ UNCHANGED <<row, containers, repository, counters, bounds>>

ApplyStep(i) ==
    \/ Restore(i) \/ CheckNames(i) \/ Choose(i)
    \/ Apply(i) \/ PutCluster(i) \/ CreateVolume(i) \/ AdoptInstance(i)
    \/ CreateInstance(i) \/ RefuseInstance(i) \/ WaitReady(i)
    \/ Conclude(i) \/ Report(i)
    \/ \E r \in Role : EnsureSecret(i, r) \/ RotateRole(i, r)

-----------------------------------------------------------------------------
(* delete.                                                                 *)

Delete(i) ==
    \E c \in Cluster, purge \in BOOLEAN :
        /\ Known(c)
        /\ Begin(i, [Idle EXCEPT !.kind = "delete", !.pc = "box", !.cluster = c,
                                 !.recreate = purge])

DeleteContainer(i) ==
    LET c == op[i].cluster IN
    /\ At(i, "delete", "box")
    /\ \/ /\ box' = [box EXCEPT ![c] = NoBox]
          /\ volume' = CutShort(c)
          /\ Goto(i, IF op[i].recreate THEN "volume" ELSE "stopped")
       \/ Fails(i) /\ UNCHANGED <<box, volume>>
    /\ UNCHANGED <<row, secret, jobs, repository, counters, bounds>>

MarkStopped(i) ==
    /\ At(i, "delete", "stopped")
    /\ row' = [row EXCEPT ![op[i].cluster].phase = "stopped"]
    /\ End(i)
    /\ UNCHANGED <<containers, repository, counters, bounds>>

\* podman does not remove a volume that a container mounts, and a job's
\* container counts when it has exited.
DeleteVolume(i) ==
    LET c == op[i].cluster
        InUse == \E j \in jobs : j.cluster = c
    IN
    /\ At(i, "delete", "volume")
    /\ \/ /\ volume[c].state # "none" /\ ~InUse
          /\ volume' = [volume EXCEPT ![c] = NoData]
          /\ sound' = sound \ {c}
          /\ Goto(i, "forget")
       \/ /\ volume[c].state = "none" \/ InUse \/ CanFail("podman")
          /\ End(i)
          /\ UNCHANGED <<volume, sound>>
    /\ UNCHANGED <<row, secret, box, jobs, repository, minted, bounds>>

\* The secrets, whose removal may fail without notice, and the row.
ForgetCluster(i) ==
    LET c == op[i].cluster IN
    /\ At(i, "delete", "forget")
    /\ \/ secret' = [secret EXCEPT ![c] = NoPassword]
       \/ CanFail("podman") /\ UNCHANGED secret
    /\ row' = [row EXCEPT ![c] = NoRow]
    /\ End(i)
    /\ UNCHANGED <<box, volume, jobs, repository, counters, bounds>>

DeleteStep(i) == \/ Delete(i) \/ DeleteContainer(i) \/ MarkStopped(i)
                 \/ DeleteVolume(i) \/ ForgetCluster(i)

-----------------------------------------------------------------------------
(* The agent in an instance container, and PostgreSQL.                     *)

\* bootstrap_if_needed on a data directory that has a database, a part of one,
\* or none.
BootExisting(c) ==
    /\ box[c].state = "booting" /\ volume[c].state \in {"whole", "partial"}
    /\ box' = [box EXCEPT ![c].state =
                  IF ~Whole(c) \/ volume[c].version # box[c].image THEN "down"
                  ELSE IF volume[c].replays THEN "recovering" ELSE "up"]
    /\ UNCHANGED <<row, secret, volume, jobs, repository, op, counters, bounds>>

BootInitdb(c) ==
    /\ box[c].state = "booting" /\ volume[c].state = "empty"
    /\ box[c].boot = Initdb
    /\ volume' = [volume EXCEPT ![c] =
          [state |-> "whole", origin |-> minted + 1, version |-> box[c].image,
           pw |-> box[c].creds, boot |-> Initdb, replays |-> FALSE]]
    /\ minted' = minted + 1
    /\ box' = [box EXCEPT ![c].state = "up", ![c].tried = TRUE]
    /\ stanza' = IF stanza[c] = NoStanza
                 THEN [stanza EXCEPT ![c] = [origin |-> minted + 1,
                                             version |-> box[c].image]]
                 ELSE stanza
    /\ UNCHANGED <<row, secret, jobs, repo, now, op, sound, bounds>>

BootRestore(c) ==
    /\ box[c].state = "booting" /\ volume[c].state = "empty"
    /\ box[c].boot # Initdb
    /\ volume' = [volume EXCEPT ![c].state = "restoring"]
    /\ box' = [box EXCEPT ![c].state = "restoring"]
    /\ UNCHANGED <<row, secret, jobs, repository, op, counters, bounds>>

\* pgBackRest's restore ends, and PostgreSQL starts to replay, unless the
\* image is of another version.
RestoreEnds(c) ==
    LET b == box[c].boot IN
    /\ box[c].state = "restoring"
    /\ volume' = [volume EXCEPT ![c] =
          [state |-> "whole", origin |-> repo[b.from][b.label].origin,
           version |-> repo[b.from][b.label].version,
           pw |-> repo[b.from][b.label].pw, boot |-> b, replays |-> TRUE]]
    /\ box' = [box EXCEPT ![c].state =
                  IF volume'[c].version = box[c].image THEN "recovering" ELSE "down"]
    /\ UNCHANGED <<row, secret, jobs, repository, op, counters, bounds>>

\* Recovery has reached its target.
Promote(c) ==
    /\ box[c].state = "recovering"
    /\ box' = [box EXCEPT ![c].state = "up"]
    /\ volume' = [volume EXCEPT ![c].replays = FALSE]
    /\ UNCHANGED <<row, secret, jobs, repository, op, counters, bounds>>

\* ensure_stanza, once for each start, as soon as connections are accepted:
\* pgBackRest creates a stanza on a primary only, and never one that belongs
\* to another database.
EnsureStanza(c) ==
    /\ box[c].state \in {"recovering", "up"} /\ ~box[c].tried
    /\ box' = [box EXCEPT ![c].tried = TRUE]
    /\ stanza' = IF box[c].state = "up" /\ stanza[c] = NoStanza
                 THEN [stanza EXCEPT ![c] = [origin |-> volume[c].origin,
                                             version |-> volume[c].version]]
                 ELSE stanza
    /\ UNCHANGED <<row, secret, volume, jobs, repo, now, op, counters, bounds>>

\* `pgpod upgrade` with its stanza-upgrade; Upgrade has its steps.
Upgraded(c) ==
    /\ MayBegin
    /\ row[c].phase = "running" /\ box[c].state = "up"
    /\ volume[c].version + 1 \in Version
    /\ volume' = [volume EXCEPT ![c].version = @ + 1]
    /\ box' = [box EXCEPT ![c].image = @ + 1, ![c].boot = Initdb]
    /\ row' = [row EXCEPT ![c].image = @ + 1]
    /\ stanza' = IF stanza[c].origin = volume[c].origin
                 THEN [stanza EXCEPT ![c].version = volume[c].version + 1]
                 ELSE stanza
    /\ ops' = ops + 1
    /\ UNCHANGED <<secret, jobs, repo, now, op, counters, kills>>

\* A cluster's secrets are not on this host.
SecretsLost(c) ==
    /\ CanFail("secrets") /\ MayBegin
    /\ Known(c) /\ secret[c] # NoPassword
    /\ secret' = [secret EXCEPT ![c] = NoPassword]
    /\ sound' = sound \ {c}
    /\ ops' = ops + 1
    /\ UNCHANGED <<row, box, volume, jobs, repository, op, minted, kills>>

MayGoDown == CanFail("kill") /\ kills < MaxKills

BoxExits(c) ==
    /\ MayGoDown
    /\ Live(c)
    /\ box' = [box EXCEPT ![c].state = "down"]
    /\ volume' = CutShort(c)
    /\ kills' = kills + 1
    /\ UNCHANGED <<row, secret, jobs, repository, op, counters, ops>>

\* A command is killed; its job goes on.
Dies(i) ==
    /\ MayGoDown
    /\ op[i].kind # "idle"
    /\ End(i)
    /\ jobs' = {IF j.owner = i THEN [j EXCEPT !.owner = 0] ELSE j : j \in jobs}
    /\ kills' = kills + 1
    /\ UNCHANGED <<row, secret, box, volume, repository, counters, ops>>

\* Boot recovery starts what is down.
ResumeBox(c) ==
    /\ row[c].phase = "running" /\ box[c].state = "down"
    /\ box' = [box EXCEPT ![c].state = "booting", ![c].tried = FALSE]
    /\ UNCHANGED <<row, secret, volume, jobs, repository, op, counters, bounds>>

-----------------------------------------------------------------------------
(* The specification.                                                      *)

Init ==
    /\ row = [c \in Cluster |-> NoRow]
    /\ secret = [c \in Cluster |-> NoPassword]
    /\ box = [c \in Cluster |-> NoBox]
    /\ volume = [c \in Cluster |-> NoData]
    /\ jobs = {}
    /\ repo = [c \in Cluster |-> <<>>]
    /\ stanza = [c \in Cluster |-> NoStanza]
    /\ op = [i \in Cli |-> Idle]
    /\ sound = {} /\ minted = 0 /\ now = 0
    /\ ops = 0 /\ kills = 0

Agent(c) ==
    \/ BootExisting(c) \/ BootInitdb(c) \/ BootRestore(c) \/ RestoreEnds(c)
    \/ Promote(c) \/ EnsureStanza(c)

Environment ==
    \/ \E c \in Cluster : \/ Agent(c) \/ Upgraded(c) \/ SecretsLost(c)
                          \/ BoxExits(c) \/ ResumeBox(c)
    \/ \E j \in jobs : JobEnds(j)

Next ==
    \/ \E i \in Cli : BackupStep(i) \/ ApplyStep(i) \/ DeleteStep(i) \/ Dies(i)
    \/ Environment

Spec == Init /\ [][Next]_vars

-----------------------------------------------------------------------------
(* Properties.                                                             *)

Passwords == [Role -> Nat]
Boots     == [from : Cluster \cup {NoCluster}, label : Nat, at : Nat]
BackupOf  == [origin : Nat, version : Nat, pw : Passwords, stop : Nat]

TypeOK ==
    /\ row \in [Cluster -> [phase : {"none", "applying", "running", "failed", "stopped"},
                            image : Nat]]
    /\ secret \in [Cluster -> Passwords]
    /\ box \in [Cluster -> [state : {"none", "booting", "restoring", "recovering",
                                     "up", "down"},
                            boot : Boots, image : Nat, creds : Passwords,
                            tried : BOOLEAN]]
    /\ volume \in [Cluster -> [state : {"none", "empty", "restoring", "partial", "whole"},
                               origin : Nat, version : Nat, pw : Passwords,
                               boot : Boots, replays : BOOLEAN]]
    /\ jobs \subseteq [cluster : Cluster, owner : Cli \cup {0},
                      state : {"running", "ok", "failed"}, label : Nat]
    /\ repo \in [Cluster -> Seq(BackupOf)]
    /\ stanza \in [Cluster -> [origin : Nat, version : Nat]]
    /\ sound \subseteq Cluster
    /\ minted \in Nat /\ now \in Nat /\ ops \in Nat /\ kills \in Nat

\* The label in a backup's report is that of the backup its own job made,
\* whatever jobs that earlier commands gave up on finish meanwhile.
ReportsOwnBackup ==
    \A i \in Cli : At(i, "backup", "report") => op[i].label = op[i].made

\* A restore that reports success has put the backup it names, which had
\* finished by the time that was asked for, and nothing else, into a cluster
\* that was not there.
RestoredAsAsked ==
    \A i \in Cli : At(i, "restore", "report") /\ op[i].wait =>
        LET c == op[i].cluster  b == op[i].boot IN
        /\ Whole(c) => /\ volume[c].boot = b
                       /\ volume[c].origin = repo[b.from][b.label].origin
        /\ repo[b.from][b.label].stop <= b.at

\* No cluster is set up from a backup with an image that cannot read it,
\* unless the operator named that image, or the source is a restore itself or
\* a later database than the one backed up under its name.
ImageReadsBackup ==
    \A i \in Cli : At(i, "restore", "secrets") /\ ~op[i].named /\ op[i].own =>
        repo[op[i].boot.from][op[i].boot.label].version = op[i].image

\* "A cluster whose data is correct and whose credentials are unknown is not
\* a successful restore": what was created or restored with success can be
\* logged into with the secrets kept for it, if the source's were those of the
\* backup or not on this host, and no earlier cluster of that name left any.
Reachable ==
    \A c \in sound : Whole(c) => secret[c] = volume[c].pw

=============================================================================
