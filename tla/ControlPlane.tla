---------------------------- MODULE ControlPlane ----------------------------
(***************************************************************************)
(* The host control plane of pgpod: the commands `pgpod apply` and         *)
(* `pgpod delete`, boot recovery (`pgpod daemon`), the SQLite registry     *)
(* they share, and the podman objects they act on.                         *)
(*                                                                         *)
(* The commands are separate operating-system processes with no lock       *)
(* between them: only two daemons exclude each other (DaemonLock).  Every  *)
(* registry statement and every podman call is a step of its own, so the   *)
(* processes interleave, and die, at each of those points.                 *)
(*                                                                         *)
(* A cluster has exactly one instance (manifest.rs refuses `instances`     *)
(* other than 1), so a cluster stands for its instance, container and      *)
(* volume, and the loops over ordinals have one iteration.                 *)
(***************************************************************************)
EXTENDS Naturals, FiniteSets

CONSTANTS
    Cluster,     \* cluster names
    Cli,         \* slots for CLI processes: how many can run at one time
    Manifest,        \* manifest contents, told apart by equality
    SpecOf,          \* the InstanceSpec of a manifest: all of it but the image,
                     \* postgresUid, postgresGid and credential secrets
    ImageOf,         \* the image it names
    BadManifest,     \* manifests whose instance exits instead of becoming ready
    NoManifest,      \* the manifest of no cluster
    Port,        \* host ports
    NoPort,
    Overlap,     \* may operators run two commands at the same time?
    Faults,      \* may a podman call fail, or an instance die, by itself?
    MaxOps,      \* bound: commands started
    MaxCrashes   \* bound: process deaths and host reboots

ASSUME ConstantsOK ==
    /\ Cluster # {}
    /\ BadManifest \subseteq Manifest
    /\ DOMAIN SpecOf = Manifest /\ DOMAIN ImageOf = Manifest
    /\ NoManifest \notin Manifest
    /\ NoPort \notin Port
    /\ Overlap \in BOOLEAN
    /\ Faults \in BOOLEAN
    /\ MaxOps \in Nat
    /\ MaxCrashes \in Nat

VARIABLES
    clusters,    \* registry table: [phase, manifest, gen] per cluster
    instances,   \* registry table: [phase, port] per cluster
    fronted,     \* clusters some pooler_clusters row references
    container,   \* podman: [state, id, manifest, port, ready] per cluster, and
                 \* whether it was last adopted blindly, with another image
    volume,      \* podman: "absent", "empty", or "data" once initdb ran on it
    born,        \* containers created so far, the source of container ids
    op,          \* the CLI process in each slot
    started,     \* commands started so far
    daemon,      \* the boot-recovery process
    crashes      \* deaths and reboots so far

registry == <<clusters, instances, fronted>>
podman   == <<container, volume, born>>
bounds   == <<started, crashes>>
vars == <<clusters, instances, fronted, container, volume, born,
          op, started, daemon, crashes>>

-----------------------------------------------------------------------------
(* The registry's rows and podman's objects.                               *)

ClusterPhase  == {"applying", "running", "upgrading", "stopped", "failed"}
InstancePhase == {"creating", "bootstrapping", "running", "stopping",
                  "stopped", "fenced", "needs-rebuild", "failed", "terminated"}
BlocksRestart == {"fenced", "needs-rebuild", "stopped", "terminated"}

ClusterRow  == [phase: ClusterPhase, manifest: Manifest, gen: Nat]
NoCluster   == [phase |-> "absent", manifest |-> NoManifest, gen |-> 0]
InstanceRow == [phase: InstancePhase, port: Port]
NoRow       == [phase |-> "absent", port |-> NoPort]

Container   == [state: {"created", "running", "exited"}, id: Nat, manifest: Manifest,
                port: Port, ready: BOOLEAN, blind: BOOLEAN]
NoContainer == [state |-> "none", id |-> 0, manifest |-> NoManifest,
                port |-> NoPort, ready |-> FALSE, blind |-> FALSE]

Recorded(c) == clusters[c] # NoCluster
Exists(c)   == container[c] # NoContainer
Running(c)  == container[c].state = "running"

\* Host ports held by a running container.
BoundPorts == {container[c].port : c \in {k \in Cluster : Running(k)}}

\* Statements of the registry that several commands share.  An UPDATE of a
\* cluster row that is gone changes nothing, and an instance row cannot be
\* written without its cluster (foreign key).
SetPhase(c, phase) ==
    clusters' = IF Recorded(c) THEN [clusters EXCEPT ![c].phase = phase]
                               ELSE clusters

PutInstance(c, rec) == instances' = [instances EXCEPT ![c] = rec]

-----------------------------------------------------------------------------
(* CLI processes.                                                          *)

ApplyPc  == {"put-read", "put-write", "lookup", "volume", "creating", "probe",
             "hold", "stop", "remove", "create", "start", "ready",
             "ready-read", "ready-write", "release", "bootstrapping",
             "finish", "fail"}
DeletePc == {"require", "del-probe", "del-stop", "del-remove", "del-volume",
             "forget", "mark-row", "mark-cluster"}

Idle == [pc |-> "idle", cluster |-> CHOOSE c \in Cluster : TRUE,
         manifest |-> NoManifest, recreate |-> FALSE, wait |-> FALSE, purge |-> FALSE,
         was |-> NoCluster, port |-> NoPort, row |-> NoRow, id |-> 0,
         held |-> FALSE]

Op == [pc: {"idle"} \cup ApplyPc \cup DeletePc, cluster: Cluster,
       manifest: Manifest \cup {NoManifest}, recreate: BOOLEAN, wait: BOOLEAN,
       purge: BOOLEAN, was: ClusterRow \cup {NoCluster},
       port: Port \cup {NoPort}, row: InstanceRow \cup {NoRow}, id: Nat,
       held: BOOLEAN]

Goto(p, pc) == op' = [op EXCEPT ![p].pc = pc]
End(p)      == op' = [op EXCEPT ![p] = Idle]

\* Operators that take turns wait for the command before to end.
MayBegin == Overlap \/ \A p \in Cli : op[p].pc = "idle"

Begin(p, command) ==
    /\ op[p].pc = "idle"
    /\ MayBegin
    /\ started < MaxOps
    /\ started' = started + 1
    /\ op' = [op EXCEPT ![p] = command]
    /\ UNCHANGED <<registry, podman, daemon, crashes>>

-----------------------------------------------------------------------------
(* `pgpod apply`.                                                          *)

StartApply(p) ==
    \E c \in Cluster, s \in Manifest, recreate, wait \in BOOLEAN :
        Begin(p, [Idle EXCEPT !.pc = "put-read", !.cluster = c, !.manifest = s,
                              !.recreate = recreate, !.wait = wait])

\* put_cluster reads the row and then writes it, outside a transaction.
PutClusterRead(p) ==
    /\ op[p].pc = "put-read"
    /\ op' = [op EXCEPT ![p].pc = "put-write",
                        ![p].was = clusters[op[p].cluster]]
    /\ UNCHANGED <<registry, podman, daemon, bounds>>

PutClusterWrite(p) ==
    LET c    == op[p].cluster
        was  == op[p].was
        next == [phase |-> "applying", manifest |-> op[p].manifest,
                 gen |-> IF was = NoCluster THEN 1
                         ELSE IF was.manifest = op[p].manifest THEN was.gen
                         ELSE was.gen + 1]
    IN  /\ op[p].pc = "put-write"
        /\ \/ \* INSERT over a row another command inserted: a key violation
              /\ was = NoCluster /\ Recorded(c)
              /\ End(p)
              /\ UNCHANGED clusters
           \/ /\ was = NoCluster /\ ~Recorded(c)
              /\ clusters' = [clusters EXCEPT ![c] = next]
              /\ Goto(p, "lookup")
           \/ /\ was # NoCluster
              /\ clusters' = IF Recorded(c) THEN [clusters EXCEPT ![c] = next]
                                            ELSE clusters
              /\ Goto(p, "lookup")
        /\ UNCHANGED <<instances, fronted, podman, daemon, bounds>>

\* A port the instance had before is reused; otherwise the kernel picks one
\* that is not bound at this moment.
LookUpPort(p) ==
    LET known == instances[op[p].cluster]
    IN  /\ op[p].pc = "lookup"
        /\ \E port \in IF known # NoRow THEN {known.port}
                                        ELSE Port \ BoundPorts :
             op' = [op EXCEPT ![p].pc = "volume", ![p].port = port]
        /\ UNCHANGED <<registry, podman, daemon, bounds>>

CreateVolume(p) ==
    LET c == op[p].cluster
    IN  /\ op[p].pc = "volume"
        /\ volume' = [volume EXCEPT ![c] = IF @ = "absent" THEN "empty" ELSE @]
        /\ Goto(p, "creating")
        /\ UNCHANGED <<registry, container, born, daemon, bounds>>

\* apply_instance writes the row twice: before the container is touched and
\* after it has been started.
PutRow(p, pc, rec, next) ==
    LET c == op[p].cluster
    IN  /\ op[p].pc = pc
        /\ \/ /\ Recorded(c)
              /\ PutInstance(c, rec)
              /\ Goto(p, next)
           \/ /\ ~Recorded(c)
              /\ Goto(p, "fail")
              /\ UNCHANGED instances
        /\ UNCHANGED <<clusters, fronted, podman, daemon, bounds>>

\* Mutant: the row is first written after the container exists.
RowComesLater(p) ==
    /\ op[p].pc = "creating"
    /\ Goto(p, "probe")
    /\ UNCHANGED <<registry, podman, daemon, bounds>>

PutCreating(p) ==
    PutRow(p, "creating", [phase |-> "creating", port |-> op[p].port], "probe")

PutBootstrapping(p) ==
    PutRow(p, "bootstrapping", [phase |-> "bootstrapping", port |-> op[p].port],
           IF op[p].wait THEN "ready" ELSE "finish")

\* Mutant: a changed image is adopted without a word.
DivergenceUnseen(p, known) == FALSE

\* Whether the id of the manifest's image is known: image_id takes an error of
\* podman for an image that is not there.
ImageKnown == IF Faults THEN BOOLEAN ELSE {TRUE}

\* refuse_if_diverged: the container was made to another InstanceSpec or from
\* an image known to be another.  What shapes the container and is in neither
\* goes unseen.  Only of a container that exists.
Diverged(p, known) ==
    LET running == container[op[p].cluster].manifest
    IN  \/ SpecOf[running] # SpecOf[op[p].manifest]
        \/ known /\ ImageOf[running] # ImageOf[op[p].manifest]

\* Not state of the program: that an image that differs was not looked at.
Blind(p, known) ==
    ~known /\ ImageOf[container[op[p].cluster].manifest] # ImageOf[op[p].manifest]

\* Where apply_instance goes after its probe.
AfterProbe(p, known) ==
    LET c == op[p].cluster
    IN  IF ~Exists(c)      THEN "create"
        ELSE IF Running(c) THEN IF ~Diverged(p, known) THEN "bootstrapping"
                                ELSE IF op[p].recreate THEN "hold"
                                ELSE "fail"
        ELSE IF Diverged(p, known) THEN "remove" ELSE "start"

Adopted == {"bootstrapping", "start"}

Probe(p) ==
    /\ op[p].pc = "probe"
    /\ \E known \in ImageKnown :
        /\ op' = [op EXCEPT ![p].pc = AfterProbe(p, known),
                            ![p].id = container[op[p].cluster].id]
        /\ container' = IF AfterProbe(p, known) \in Adopted
                        THEN [container EXCEPT ![op[p].cluster].blind = Blind(p, known)]
                        ELSE container
    /\ UNCHANGED <<registry, volume, born, daemon, bounds>>

\* recreate_instance: hold the poolers, then stop, remove, create, start and
\* wait, then release.  What a hold does is the subject of PoolerAgent.
Hold(p) ==
    /\ op[p].pc = "hold"
    /\ op' = [op EXCEPT ![p].pc = "stop", ![p].held = TRUE]
    /\ UNCHANGED <<registry, podman, daemon, bounds>>

Stopped(c) == [container[c] EXCEPT !.state = "exited", !.ready = FALSE]

\* An error from stop is ignored: the container may be running afterwards.
StopContainer(p, pc, next) ==
    LET c == op[p].cluster
    IN  /\ op[p].pc = pc
        /\ \/ /\ Running(c)
              /\ container' = [container EXCEPT ![c] = Stopped(c)]
           \/ /\ ~Running(c) \/ Faults
              /\ UNCHANGED container
        /\ Goto(p, next)
        /\ UNCHANGED <<registry, volume, born, daemon, bounds>>

Stop(p) == StopContainer(p, "stop", "remove")

\* A forced remove takes a running container too.  The stopped-and-diverged
\* path removes the container it probed, by id; --recreate goes by name.
Remove(p) ==
    LET c == op[p].cluster
    IN  /\ op[p].pc = "remove"
        /\ IF Exists(c) /\ (op[p].held \/ container[c].id = op[p].id)
           THEN /\ container' = [container EXCEPT ![c] = NoContainer]
                /\ Goto(p, "create")
           ELSE /\ Goto(p, "fail")
                /\ UNCHANGED container
        /\ UNCHANGED <<registry, volume, born, daemon, bounds>>

\* podman refuses a name in use, and creates a named volume that is missing.
Create(p) ==
    LET c == op[p].cluster
    IN  /\ op[p].pc = "create"
        /\ IF Exists(c)
           THEN /\ Goto(p, "fail")
                /\ UNCHANGED podman
           ELSE /\ born' = born + 1
                /\ container' = [container EXCEPT ![c] =
                     [state |-> "created", id |-> born + 1, manifest |-> op[p].manifest,
                      port |-> op[p].port, ready |-> FALSE, blind |-> FALSE]]
                /\ volume' = [volume EXCEPT ![c] = IF @ = "absent" THEN "empty"
                                                                   ELSE @]
                /\ op' = [op EXCEPT ![p].pc = "start", ![p].id = born + 1]
        /\ UNCHANGED <<registry, daemon, bounds>>

\* podman start: the container comes up, and its agent runs initdb on an
\* empty volume.
StartsUp(c) ==
    /\ container' = [container EXCEPT ![c].state = "running"]
    /\ volume'    = [volume EXCEPT ![c] = "data"]
    /\ born'      = born

\* podman cannot start a container whose host port another one holds.
CanStart(c) == Exists(c) /\ container[c].port \notin BoundPorts

Start(p) ==
    LET c == op[p].cluster
    IN  /\ op[p].pc = "start"
        /\ IF container[c].id # op[p].id \/ ~(Running(c) \/ CanStart(c))
           THEN /\ Goto(p, "fail")
                /\ UNCHANGED podman
           ELSE /\ IF Running(c) THEN UNCHANGED podman ELSE StartsUp(c)
                /\ Goto(p, IF op[p].held THEN "ready" ELSE "bootstrapping")
        /\ UNCHANGED <<registry, daemon, bounds>>

\* wait_ready: pg_isready answers, or the container is seen to have exited
\* or the time runs out.
Ready(p) ==
    LET c == op[p].cluster
    IN  /\ op[p].pc = "ready"
        /\ \/ /\ container[c].ready
              /\ Goto(p, "ready-read")
           \/ /\ ~container[c].ready
              /\ Goto(p, "fail")
        /\ UNCHANGED <<registry, podman, daemon, bounds>>

\* On success wait_ready reads the row and writes it back as running.
AfterReady(p) == IF op[p].held THEN "release" ELSE "finish"

ReadyRead(p) ==
    LET row == instances[op[p].cluster]
    IN  /\ op[p].pc = "ready-read"
        /\ op' = [op EXCEPT ![p].pc = IF row = NoRow THEN AfterReady(p)
                                                     ELSE "ready-write",
                            ![p].row = row]
        /\ UNCHANGED <<registry, podman, daemon, bounds>>

ReadyWrite(p) ==
    PutRow(p, "ready-write", [op[p].row EXCEPT !.phase = "running"],
           AfterReady(p))

Release(p) ==
    /\ op[p].pc = "release"
    /\ op' = [op EXCEPT ![p].pc = "bootstrapping", ![p].held = FALSE]
    /\ UNCHANGED <<registry, podman, daemon, bounds>>

\* The last write of apply: "running", or "failed" when a step after
\* put_cluster failed.
Conclude(p, pc, phase) ==
    /\ op[p].pc = pc
    /\ SetPhase(op[p].cluster, phase)
    /\ End(p)
    /\ UNCHANGED <<instances, fronted, podman, daemon, bounds>>

\* Mutant: the error escapes past record_apply_failure.
FailureUnrecorded(p) ==
    /\ op[p].pc = "fail"
    /\ End(p)
    /\ UNCHANGED <<registry, podman, daemon, bounds>>

Finish(p) == Conclude(p, "finish", "running")
Fail(p)   == Conclude(p, "fail", "failed")

-----------------------------------------------------------------------------
(* `pgpod delete`, with or without --purge.                                *)

StartDelete(p) ==
    \E c \in Cluster, purge \in BOOLEAN :
        Begin(p, [Idle EXCEPT !.pc = "require", !.cluster = c, !.purge = purge])

\* Everything delete reads before it touches anything, in one go: the
\* cluster row, the instance row, and the poolers in front.
Require(p) ==
    LET c == op[p].cluster
    IN  /\ op[p].pc = "require"
        /\ IF ~Recorded(c) \/ (op[p].purge /\ c \in fronted)
           THEN End(p)
           ELSE op' = [op EXCEPT ![p].row = instances[c],
                                 ![p].pc = IF instances[c] # NoRow THEN "del-probe"
                                           ELSE IF op[p].purge THEN "forget"
                                           ELSE "mark-cluster"]
        /\ UNCHANGED <<registry, podman, daemon, bounds>>

\* Mutant: --purge keeps the volumes and drops the rows.
VolumeSkipped(p) == IF op[p].purge THEN "forget" ELSE "mark-row"

AfterContainer(p) == IF op[p].purge THEN "del-volume" ELSE "mark-row"

\* Mutant: only a running container counts as one to remove.
ExitedOverlooked(p) ==
    /\ op[p].pc = "del-probe"
    /\ Goto(p, IF Running(op[p].cluster) THEN "del-stop" ELSE AfterContainer(p))
    /\ UNCHANGED <<registry, podman, daemon, bounds>>

DeleteProbe(p) ==
    /\ op[p].pc = "del-probe"
    /\ Goto(p, IF Exists(op[p].cluster) THEN "del-stop" ELSE AfterContainer(p))
    /\ UNCHANGED <<registry, podman, daemon, bounds>>

DeleteStop(p) == StopContainer(p, "del-stop", "del-remove")

DeleteRemove(p) ==
    LET c == op[p].cluster
    IN  /\ op[p].pc = "del-remove"
        /\ IF Exists(c)
           THEN /\ container' = [container EXCEPT ![c] = NoContainer]
                /\ Goto(p, AfterContainer(p))
           ELSE /\ End(p)
                /\ UNCHANGED container
        /\ UNCHANGED <<registry, volume, born, daemon, bounds>>

\* podman refuses to delete a volume that is not there, or is in use.
DeleteVolume(p) ==
    LET c == op[p].cluster
    IN  /\ op[p].pc = "del-volume"
        /\ IF volume[c] = "absent" \/ Exists(c)
           THEN /\ End(p)
                /\ UNCHANGED volume
           ELSE /\ volume' = [volume EXCEPT ![c] = "absent"]
                /\ Goto(p, "forget")
        /\ UNCHANGED <<registry, container, born, daemon, bounds>>

\* delete_cluster: refused while a pooler references the row; the instance
\* row goes with it (ON DELETE CASCADE).
Forget(p) ==
    LET c == op[p].cluster
    IN  /\ op[p].pc = "forget"
        /\ End(p)
        /\ IF c \in fronted
           THEN UNCHANGED <<clusters, instances>>
           ELSE /\ clusters'  = [clusters EXCEPT ![c] = NoCluster]
                /\ instances' = [instances EXCEPT ![c] = NoRow]
        /\ UNCHANGED <<fronted, podman, daemon, bounds>>

\* Without --purge the rows stay, marked stopped; the cluster's phase last.
MarkRow(p) ==
    LET c == op[p].cluster
    IN  /\ op[p].pc = "mark-row"
        /\ IF Recorded(c)
           THEN /\ PutInstance(c, [op[p].row EXCEPT !.phase = "stopped"])
                /\ Goto(p, "mark-cluster")
           ELSE /\ End(p)
                /\ UNCHANGED instances
        /\ UNCHANGED <<clusters, fronted, podman, daemon, bounds>>

\* Mutant: an instance's phase written to the cluster's row.
InstancePhaseInCluster(p) == Conclude(p, "mark-cluster", "terminated")

MarkCluster(p) == Conclude(p, "mark-cluster", "stopped")

\* Any podman call of a command may fail: apply records the failure, delete
\* just ends.
PodmanFails(p) ==
    /\ Faults
    /\ \/ /\ op[p].pc \in {"lookup", "volume", "probe", "hold", "remove",
                           "create", "start", "ready", "release"}
          /\ Goto(p, "fail")
       \/ /\ op[p].pc \in {"del-probe", "del-remove", "del-volume"}
          /\ End(p)
    /\ UNCHANGED <<registry, podman, daemon, bounds>>

\* The registry's side of `pgpod apply` and `pgpod delete` of a pooler, each
\* one transaction: the reference that makes --purge refuse.
FrontCluster(c) ==
    /\ MayBegin
    /\ Recorded(c) /\ c \notin fronted
    /\ fronted' = fronted \cup {c}
    /\ UNCHANGED <<clusters, instances, podman, op, daemon, bounds>>

UnfrontCluster(c) ==
    /\ MayBegin
    /\ c \in fronted
    /\ fronted' = fronted \ {c}
    /\ UNCHANGED <<clusters, instances, podman, op, daemon, bounds>>

-----------------------------------------------------------------------------
(* Boot recovery: `pgpod daemon`, and `pgpod daemon --once` by hand.  The  *)
(* daemon lock makes it one process.                                       *)

DaemonPc == {"off", "boot", "next", "probe", "start", "ready", "ready-read",
             "ready-write"}

Daemon == [pc: DaemonPc, phases: [Cluster -> ClusterPhase \cup {"absent"}],
           todo: SUBSET Cluster, at: Cluster, row: InstanceRow \cup {NoRow}]

DaemonOff == [pc |-> "off", phases |-> [c \in Cluster |-> "absent"],
              todo |-> {}, at |-> CHOOSE c \in Cluster : TRUE, row |-> NoRow]

DaemonGoto(pc) == daemon' = [daemon EXCEPT !.pc = pc]
DaemonNext     == DaemonGoto("next")

\* Mutant: only an instance that was seen ready is started again.
OnlyTheReady(clusterPhase, instancePhase, seen) ==
    IF clusterPhase # "running" \/ instancePhase # "running" THEN "skip"
    ELSE IF seen = NoContainer THEN "missing"
    ELSE IF seen.state = "running" THEN "adopt" ELSE "start"

\* daemon.rs `decide`: the cluster's phase gates everything, then the
\* instance's phase, then what podman reports.
Decide(clusterPhase, instancePhase, seen) ==
    CASE clusterPhase # "running"        -> "skip"
      [] clusterPhase = "running" /\ instancePhase \in BlocksRestart -> "skip"
      [] OTHER -> IF seen = NoContainer THEN "missing"
                  ELSE IF seen.state = "running" THEN "adopt" ELSE "start"

RunOnce ==
    /\ daemon.pc = "off"
    /\ DaemonGoto("boot")
    /\ UNCHANGED <<registry, podman, op, bounds>>

\* The phases of all clusters are read once, before the first is resumed.
ListClusters ==
    /\ daemon.pc = "boot"
    /\ daemon' = [daemon EXCEPT !.pc = "next",
                     !.phases = [c \in Cluster |-> clusters[c].phase],
                     !.todo = {c \in Cluster : Recorded(c)}]
    /\ UNCHANGED <<registry, podman, op, bounds>>

ResumeCluster(c) ==
    /\ daemon.pc = "next"
    /\ c \in daemon.todo
    /\ daemon' = [daemon EXCEPT !.todo = @ \ {c}, !.at = c, !.row = instances[c],
                     !.pc = IF daemon.phases[c] = "running" /\ instances[c] # NoRow
                            THEN "probe" ELSE "next"]
    /\ UNCHANGED <<registry, podman, op, bounds>>

ResumeDone ==
    /\ daemon.pc = "next"
    /\ daemon.todo = {}
    /\ daemon' = DaemonOff
    /\ UNCHANGED <<registry, podman, op, bounds>>

ResumeProbe ==
    LET c == daemon.at
    IN  /\ daemon.pc = "probe"
        /\ DaemonGoto(IF Decide(daemon.phases[c], daemon.row.phase, container[c])
                           = "start" THEN "start" ELSE "next")
        /\ UNCHANGED <<registry, podman, op, bounds>>

\* A port held by another process, or a start that fails, is reported.
ResumeStart ==
    LET c == daemon.at
    IN  /\ daemon.pc = "start"
        /\ \/ /\ CanStart(c)
              /\ StartsUp(c)
              /\ DaemonGoto("ready")
           \/ /\ ~CanStart(c) \/ Faults
              /\ DaemonNext
              /\ UNCHANGED podman
        /\ UNCHANGED <<registry, op, bounds>>

ResumeReady ==
    LET c == daemon.at
    IN  /\ daemon.pc = "ready"
        /\ \/ /\ container[c].ready
              /\ DaemonGoto("ready-read")
           \/ /\ ~container[c].ready
              /\ DaemonNext
        /\ UNCHANGED <<registry, podman, op, bounds>>

ResumeReadyRead ==
    LET row == instances[daemon.at]
    IN  /\ daemon.pc = "ready-read"
        /\ daemon' = [daemon EXCEPT !.row = row,
                         !.pc = IF row = NoRow THEN "next" ELSE "ready-write"]
        /\ UNCHANGED <<registry, podman, op, bounds>>

ResumeReadyWrite ==
    LET c == daemon.at
    IN  /\ daemon.pc = "ready-write"
        /\ IF Recorded(c)
           THEN PutInstance(c, [daemon.row EXCEPT !.phase = "running"])
           ELSE UNCHANGED instances
        /\ DaemonNext
        /\ UNCHANGED <<clusters, fronted, podman, op, bounds>>

-----------------------------------------------------------------------------
(* PostgreSQL in its container, and the deaths.                            *)

BecomesReady(c) ==
    /\ Running(c) /\ ~container[c].ready
    /\ container[c].manifest \notin BadManifest
    /\ container' = [container EXCEPT ![c].ready = TRUE]
    /\ UNCHANGED <<registry, volume, born, op, daemon, bounds>>

InstanceExits(c) ==
    /\ Running(c)
    /\ container[c].manifest \in BadManifest \/ Faults
    /\ container' = [container EXCEPT ![c] = Stopped(c)]
    /\ UNCHANGED <<registry, volume, born, op, daemon, bounds>>

CliDies(p) ==
    /\ op[p].pc # "idle"
    /\ crashes < MaxCrashes
    /\ crashes' = crashes + 1
    /\ End(p)
    /\ UNCHANGED <<registry, podman, started, daemon>>

\* systemd restarts the unit (Restart=on-failure).
DaemonDies ==
    /\ daemon.pc \notin {"off", "boot"}
    /\ crashes < MaxCrashes
    /\ crashes' = crashes + 1
    /\ daemon' = [DaemonOff EXCEPT !.pc = "boot"]
    /\ UNCHANGED <<registry, podman, started, op>>

\* Containers have no restart policy: a reboot leaves every one stopped.
Reboot ==
    /\ crashes < MaxCrashes
    /\ crashes' = crashes + 1
    /\ container' = [c \in Cluster |-> IF Running(c) THEN Stopped(c)
                                                     ELSE container[c]]
    /\ op' = [p \in Cli |-> Idle]
    /\ daemon' = [DaemonOff EXCEPT !.pc = "boot"]
    /\ UNCHANGED <<registry, volume, born, started>>

-----------------------------------------------------------------------------
Init ==
    /\ clusters  = [c \in Cluster |-> NoCluster]
    /\ instances = [c \in Cluster |-> NoRow]
    /\ fronted   = {}
    /\ container = [c \in Cluster |-> NoContainer]
    /\ volume    = [c \in Cluster |-> "absent"]
    /\ born      = 0
    /\ op        = [p \in Cli |-> Idle]
    /\ started   = 0
    /\ daemon    = DaemonOff
    /\ crashes   = 0

ApplyStep(p) ==
    \/ PutClusterRead(p) \/ PutClusterWrite(p) \/ LookUpPort(p)
    \/ CreateVolume(p) \/ PutCreating(p) \/ Probe(p) \/ Hold(p) \/ Stop(p)
    \/ Remove(p) \/ Create(p) \/ Start(p) \/ PutBootstrapping(p)
    \/ Ready(p) \/ ReadyRead(p) \/ ReadyWrite(p) \/ Release(p)
    \/ Finish(p) \/ Fail(p)

DeleteStep(p) ==
    \/ Require(p) \/ DeleteProbe(p) \/ DeleteStop(p) \/ DeleteRemove(p)
    \/ DeleteVolume(p) \/ Forget(p) \/ MarkRow(p) \/ MarkCluster(p)

DaemonStep ==
    \/ ListClusters \/ (\E c \in Cluster : ResumeCluster(c)) \/ ResumeDone
    \/ ResumeProbe \/ ResumeStart \/ ResumeReady \/ ResumeReadyRead
    \/ ResumeReadyWrite

Next ==
    \/ \E p \in Cli : \/ StartApply(p) \/ StartDelete(p)
                      \/ ApplyStep(p) \/ DeleteStep(p)
                      \/ PodmanFails(p) \/ CliDies(p)
    \/ \E c \in Cluster : \/ FrontCluster(c) \/ UnfrontCluster(c)
                          \/ BecomesReady(c) \/ InstanceExits(c)
    \/ RunOnce \/ DaemonStep \/ DaemonDies \/ Reboot

Spec == Init /\ [][Next]_vars

\* A process that is not killed keeps running, and PostgreSQL finishes
\* starting; nothing obliges an operator to type a command, and nothing
\* happens to a host on schedule.
Fairness ==
    /\ \A p \in Cli : WF_vars(ApplyStep(p) \/ DeleteStep(p))
    /\ WF_vars(DaemonStep)
    /\ \A c \in Cluster : WF_vars(BecomesReady(c))

FairSpec == Spec /\ Fairness

-----------------------------------------------------------------------------
(* Properties.                                                             *)

\* Every row, container and process has the shape the code gives it.
TypeOK ==
    /\ clusters  \in [Cluster -> ClusterRow \cup {NoCluster}]
    /\ instances \in [Cluster -> InstanceRow \cup {NoRow}]
    /\ fronted   \in SUBSET Cluster
    /\ container \in [Cluster -> Container \cup {NoContainer}]
    /\ volume    \in [Cluster -> {"absent", "empty", "data"}]
    /\ born      \in Nat
    /\ op        \in [Cli -> Op]
    /\ started   \in Nat
    /\ daemon    \in Daemon
    /\ crashes   \in Nat

\* "Stopped" is what `delete` promises an operator: the containers are gone.
\* Wherever delete dies, and whatever boot recovery is doing meanwhile, the
\* phase never says stopped while a container is left to be started again.
StoppedMeansDown ==
    \A c \in Cluster : clusters[c].phase = "stopped" => ~Exists(c)

\* put_instance comes before create_container, and the rows go last: no
\* container is ever out of reach of `delete` and of boot recovery.
NoOrphanContainer ==
    \A c \in Cluster : Exists(c) => Recorded(c) /\ instances[c] # NoRow

\* A volume that holds a database can be found from the registry, which is
\* what lets a later apply adopt it; a crash in the middle of --purge never
\* leaves data nobody can name.
DataReachable ==
    \A c \in Cluster :
        volume[c] = "data" => Recorded(c) /\ instances[c] # NoRow

\* A container that a manifest describes as far as refuse_if_diverged saw.
Describes(m, c) ==
    /\ SpecOf[container[c].manifest] = SpecOf[m]
    /\ ImageOf[container[c].manifest] # ImageOf[m] => container[c].blind

\* "Running" is the only phase in which the cluster is exactly what its
\* manifest describes (lifecycle.rs).  As far as refuse_if_diverged saw, it is:
\* no container is left with the InstanceSpec of an older manifest, however the
\* applies before it ended, nor with its image, unless podman did not say what
\* the new one is.  User, group and credential secrets may be an older one's.
ManifestHonoured ==
    \A c \in Cluster :
        /\ clusters[c].phase = "running"
        /\ Exists(c)
        => Describes(clusters[c].manifest, c)

\* "A `?` that escapes leaves the phase saying `applying` for good": unless a
\* process was killed, `applying` means that an apply is at work.
ApplyingHasAnOwner ==
    \A c \in Cluster :
        /\ clusters[c].phase = "applying"
        /\ crashes = 0
        => \E p \in Cli : op[p].cluster = c /\ op[p].pc \in ApplyPc

\* "After a reboot the clusters that were running come back": boot recovery
\* starts every stopped container of a cluster recorded as running, unless
\* an operator steps in or another container took its port.
BootRestores ==
    \A c \in Cluster :
        (/\ daemon.pc = "boot"
         /\ clusters[c].phase = "running"
         /\ container[c].state \in {"created", "exited"}
         /\ instances[c].phase \notin BlocksRestart)
        ~> (\/ Running(c) \/ ~Exists(c)
            \/ clusters[c].phase # "running"
            \/ container[c].port \in BoundPorts)

=============================================================================
