------------------------------ MODULE Upgrade ------------------------------
(***************************************************************************)
(* The volume of one cluster and those who work on it: the agent in the    *)
(* instance's container (pgpod-agent run), the job container of a major    *)
(* upgrade (pgpod-agent upgrade run), and the commands of the host that    *)
(* start and stop them (`pgpod upgrade`, `pgpod apply`, boot recovery).    *)
(*                                                                         *)
(* An image is the major version it carries.  Commands take turns (their   *)
(* overlap is the subject of ControlPlane).  Faults says what may go       *)
(* wrong, so that each run can say which promise survives what.            *)
(***************************************************************************)
EXTENDS Naturals

CONSTANTS
    Version,       \* major versions, which stand for the images that carry them
    Faults,        \* what may go wrong
    Links,         \* may --method link be chosen: a set of Booleans
    MaxCommands,   \* bound: commands typed
    MaxKills       \* bound: kills, deaths and reboots

FaultKind == {"step",        \* a step reports an error and does nothing, or a stop is not clean
              "late",        \* an error, or a kill, after the upgraded data is in place
              "kill",        \* a container or a command is killed, but for the next three
              "boot-kill",   \* the agent is killed, or fails, while it creates a database
              "swap-kill",   \* the job is killed between the two renames of the swap
              "death",       \* a command is killed, and the container it waits for goes on
              "reboot",      \* everything is killed at once
              "timeout",     \* an upgrade job outlives the wait for it
              "impatient"}   \* a wait for readiness ends while the agent is at work

ASSUME UpgradeOK ==
    /\ Version \subseteq Nat \ {0}
    /\ Faults \subseteq FaultKind
    /\ Links \subseteq BOOLEAN
    /\ MaxCommands \in Nat
    /\ MaxKills \in Nat

VARIABLES
    pgdata,      \* the contents of PGDATA
    new,         \* the contents of PGDATA.new, where an upgrade builds
    aside,       \* the data directories that upgrades have moved aside
    births,      \* databases created in PGDATA so far
    container,   \* the instance's container, with what its agent is doing
    job,         \* the upgrade job's container, with what its agent is doing
    phase,       \* registry: the cluster's phase
    image,       \* registry: the image of the recorded manifest
    host,        \* the command under way
    commands, kills

volume   == <<pgdata, new, aside, births>>
registry == <<phase, image>>
bounds   == <<commands, kills>>
vars == <<pgdata, new, aside, births, container, job, phase, image, host,
          commands, kills>>

-----------------------------------------------------------------------------
(* Data directories.                                                       *)

Contents ==
    [kind: {"absent", "empty", "partial", "cluster"},   \* partial: initdb was cut short
     origin: Nat,          \* which database it holds; 0 for one nobody has used
     version: Nat,         \* PG_VERSION
     bootable: BOOLEAN,    \* pg_control is in its place
     intact: BOOLEAN,      \* no copy of a live server, nor files a successor has changed
     clean: BOOLEAN,       \* shut down in an orderly way
     managed: BOOLEAN,     \* postgresql.conf includes conf.d
     roles: BOOLEAN]       \* pgpod's roles exist

Absent == [kind |-> "absent", origin |-> 0, version |-> 0, bootable |-> FALSE,
           intact |-> FALSE, clean |-> FALSE, managed |-> FALSE, roles |-> FALSE]
Empty  == [Absent EXCEPT !.kind = "empty"]

\* What initdb makes.
Fresh(v) == [kind |-> "cluster", origin |-> 0, version |-> v, bootable |-> TRUE,
             intact |-> TRUE, clean |-> TRUE, managed |-> FALSE, roles |-> FALSE]

HasVersion(d) == d.kind \in {"partial", "cluster"}
Holds(d)      == d.kind = "cluster" /\ d.intact
Vacant(d)     == d.kind \in {"absent", "empty"}

-----------------------------------------------------------------------------
(* Processes.                                                              *)

AgentPc == {"layout", "initdb", "initdb-ends", "include", "roles", "spawn", "serving"}
NoContainer == [pc |-> "none", image |-> 0]
Container == [pc: AgentPc \cup {"none", "exited"}, image: Nat]
AgentAtWork == container.pc \in AgentPc
Started(v)  == [pc |-> "layout", image |-> v]

JobPc == {"open", "initdb", "check", "transfer", "aside", "swap", "finish"}
NoJob == [pc |-> "none", from |-> 0, to |-> 0, link |-> FALSE, check |-> FALSE,
          moved |-> Absent]
Job == [pc: JobPc \cup {"none", "done", "failed"}, from: Nat, to: Nat,
        link: BOOLEAN, check: BOOLEAN, moved: Contents]
JobAtWork == job.pc \in JobPc

UpgradePc == {"stage", "fence", "hold", "stop", "job", "wait", "back", "back-ready",
              "back-phase", "again", "again-ready", "record", "start",
              "start-ready", "upgraded"}
ApplyPc == {"check", "put", "converge", "ready", "applied"}
NoCommand == [pc |-> "idle", from |-> 0, to |-> 0, link |-> FALSE,
              check |-> FALSE, recreate |-> FALSE]
Host == [pc: UpgradePc \cup ApplyPc \cup {"idle"}, from: Nat, to: Nat,
         link: BOOLEAN, check: BOOLEAN, recreate: BOOLEAN]

Goto(pc) == host' = [host EXCEPT !.pc = pc]
End      == host' = NoCommand
Agent(pc) == container' = [container EXCEPT !.pc = pc]
JobAt(pc) == job' = [job EXCEPT !.pc = pc]
CanFail(kind) == kind \in Faults

Phase == {"none", "applying", "running", "upgrading", "failed"}

-----------------------------------------------------------------------------
(* The agent in the instance's container.                                  *)

\* ensure_layout, and the choice of bootstrap_if_needed.
Open ==
    /\ container.pc = "layout"
    /\ pgdata' = IF pgdata.kind = "absent" THEN Empty ELSE pgdata
    /\ Agent(IF HasVersion(pgdata) THEN "spawn" ELSE "initdb")
    /\ UNCHANGED <<new, aside, births, job, registry, host, bounds>>

\* PostgreSQL serves a directory of its own version whose pg_control is
\* there.  A server on a linked copy changes the files of the original.
Serves(d, v) == d.kind = "cluster" /\ d.version = v /\ d.bootable

\* A step of the agent: change PGDATA, or give up when it is not as needed.
AgentStep(pc, needs, contents, next) ==
    /\ container.pc = pc
    /\ \/ needs /\ pgdata' = contents /\ Agent(next)
       \/ ~needs /\ Agent("exited") /\ UNCHANGED pgdata
    /\ UNCHANGED <<new, aside, job, registry, host, bounds>>

\* initdb refuses a directory that is not empty, writes PG_VERSION early and
\* the rest after it; when it fails it removes what it wrote.
InitdbBegins ==
    /\ AgentStep("initdb", Vacant(pgdata),
                 [Empty EXCEPT !.kind = "partial", !.version = container.image],
                 "initdb-ends")
    /\ UNCHANGED births

InitdbEnds ==
    /\ AgentStep("initdb-ends", pgdata.kind = "partial",
                 [Fresh(container.image) EXCEPT !.origin = births + 1], "include")
    /\ births' = IF pgdata.kind = "partial" THEN births + 1 ELSE births

InitdbFails ==
    /\ CanFail("step")
    /\ pgdata.kind = "partial"
    /\ AgentStep("initdb-ends", TRUE, Empty, "exited")
    /\ UNCHANGED births

AppendIncludeDir ==
    /\ AgentStep("include", pgdata.kind = "cluster",
                 [pgdata EXCEPT !.managed = TRUE], "roles")
    /\ UNCHANGED births

\* On a postmaster of its own, which is up and down again around it.
CreateRoles ==
    /\ AgentStep("roles", Serves(pgdata, container.image),
                 [pgdata EXCEPT !.roles = TRUE], "spawn")
    /\ UNCHANGED births

RolesFail ==
    /\ CanFail("boot-kill")
    /\ AgentStep("roles", FALSE, pgdata, "exited")
    /\ UNCHANGED births

Spoilt(d) == IF d.origin = pgdata.origin /\ ~d.bootable
             THEN [d EXCEPT !.intact = FALSE] ELSE d

Spawn ==
    /\ container.pc = "spawn"
    /\ IF Serves(pgdata, container.image)
       THEN /\ pgdata' = [pgdata EXCEPT !.clean = FALSE]
            /\ aside'  = {Spoilt(d) : d \in aside}
            /\ Agent("serving")
       ELSE /\ Agent("exited")
            /\ UNCHANGED <<pgdata, aside>>
    /\ UNCHANGED <<new, births, job, registry, host, bounds>>

\* What a stop leaves in PGDATA: an orderly shutdown, unless the time limit
\* cuts it short; an agent that is not supervising yet is killed.
Halted ==
    {[pgdata EXCEPT !.clean = c] : c \in
        IF container.pc = "serving" /\ pgdata.kind = "cluster"
        THEN IF CanFail("step") THEN BOOLEAN ELSE {TRUE}
        ELSE IF container.pc = "roles" THEN BOOLEAN ELSE {pgdata.clean}}

\* What a kill leaves there.
KilledIn(pc) ==
    {[pgdata EXCEPT !.clean = c] : c \in IF pc = "roles" THEN BOOLEAN
                                                         ELSE {pgdata.clean}}

AgentKill(pc) == IF pc \in {"initdb-ends", "include", "roles"} THEN "boot-kill"
                                                                ELSE "kill"

KillAgent ==
    /\ AgentAtWork
    /\ CanFail(AgentKill(container.pc))
    /\ kills < MaxKills
    /\ kills' = kills + 1
    /\ pgdata' \in KilledIn(container.pc)
    /\ Agent("exited")
    /\ UNCHANGED <<new, aside, births, job, registry, host, commands>>

-----------------------------------------------------------------------------
(* The agent in the container of an upgrade job.                           *)

\* Complete a swap that was interrupted, refuse, or clear the way for initdb.
JobOpens ==
    /\ job.pc = "open"
    /\ IF pgdata.kind = "absent" /\ new.kind = "cluster" /\ new.bootable
       THEN /\ pgdata' = new
            /\ new' = Absent
            /\ JobAt("done")
       ELSE IF pgdata.kind = "cluster" /\ pgdata.version = job.from
               /\ pgdata.bootable /\ pgdata.clean
       THEN /\ new' = Absent
            /\ JobAt("initdb")
            /\ UNCHANGED pgdata
       ELSE /\ JobAt("failed")
            /\ UNCHANGED <<pgdata, new>>
    /\ UNCHANGED <<aside, births, container, registry, host, bounds>>

JobInitdb ==
    /\ job.pc = "initdb"
    /\ new' = Fresh(job.to)
    /\ JobAt("check")
    /\ UNCHANGED <<pgdata, aside, births, container, registry, host, bounds>>

\* Mutant: a rehearsal goes on to the swap.
RehearsalSwaps ==
    /\ job.pc = "check"
    /\ Serves(pgdata, job.from) /\ pgdata.clean
    /\ JobAt(IF job.check THEN "aside" ELSE "transfer")
    /\ UNCHANGED <<volume, container, registry, host, bounds>>

\* pg_upgrade looks before it touches anything, and --check is where it
\* stops.  With --link it first puts the old pg_control out of the way.
PgUpgradeChecks ==
    LET fit == Serves(pgdata, job.from) /\ pgdata.clean
    IN  /\ job.pc = "check"
        /\ new' = IF fit /\ ~job.check THEN new ELSE Absent
        /\ pgdata' = IF fit /\ ~job.check /\ job.link
                     THEN [pgdata EXCEPT !.bootable = FALSE] ELSE pgdata
        /\ JobAt(IF ~fit THEN "failed" ELSE IF job.check THEN "done" ELSE "transfer")
        /\ UNCHANGED <<aside, births, container, registry, host, bounds>>

\* The files of a server that came up meanwhile make no consistent copy.
PgUpgradeTransfers ==
    /\ job.pc = "transfer"
    /\ new' = [Fresh(job.to) EXCEPT !.origin = pgdata.origin,
                                    !.roles  = pgdata.roles,
                                    !.intact = pgdata.intact /\ pgdata.clean]
    /\ JobAt("aside")
    /\ UNCHANGED <<pgdata, aside, births, container, registry, host, bounds>>

MoveAside ==
    /\ job.pc = "aside"
    /\ aside' = aside \cup {pgdata}
    /\ pgdata' = Absent
    /\ job' = [job EXCEPT !.pc = "swap", !.moved = pgdata]
    /\ UNCHANGED <<new, births, container, registry, host, bounds>>

\* A rename replaces a directory only if it is empty.
MoveIntoPlace ==
    /\ job.pc = "swap"
    /\ Vacant(pgdata)
    /\ pgdata' = new
    /\ new' = Absent
    /\ JobAt("finish")
    /\ UNCHANGED <<aside, births, container, registry, host, bounds>>

\* Mutant: what is in the way of putting back is written over.
PutBackOver ==
    /\ job.pc = "swap"
    /\ ~Vacant(pgdata)
    /\ aside' = aside \ {job.moved}
    /\ JobAt("failed")
    /\ UNCHANGED <<pgdata, new, births, container, registry, host, bounds>>

\* Mutant: a second rename that fails is not followed by putting back.
NotPutBack ==
    /\ job.pc = "swap"
    /\ CanFail("step") \/ ~Vacant(pgdata)
    /\ JobAt("failed")
    /\ UNCHANGED <<volume, container, registry, host, bounds>>

PutBack ==
    /\ job.pc = "swap"
    /\ CanFail("step") \/ ~Vacant(pgdata)
    /\ IF Vacant(pgdata)
       THEN /\ pgdata' = job.moved
            /\ aside' = aside \ {job.moved}
       ELSE UNCHANGED <<pgdata, aside>>
    /\ JobAt("failed")
    /\ UNCHANGED <<new, births, container, registry, host, bounds>>

\* Mutant: initdb's postgresql.conf is left as it is.
BareFinish ==
    /\ job.pc = "finish"
    /\ JobAt("done")
    /\ UNCHANGED <<volume, container, registry, host, bounds>>

\* The empty conf.d and the include line.
Finish ==
    /\ job.pc = "finish"
    /\ pgdata' = [pgdata EXCEPT !.managed = TRUE]
    /\ JobAt("done")
    /\ UNCHANGED <<new, aside, births, container, registry, host, bounds>>

\* A step that reports an error.  A failed initdb removes what it wrote, and
\* after a failed pg_upgrade the agent does.
JobFails ==
    /\ job.pc \in {"open", "initdb", "check", "transfer", "aside", "finish"}
    /\ CanFail(IF job.pc = "finish" THEN "late" ELSE "step")
    /\ new' = IF job.pc \in {"check", "transfer"} THEN Absent ELSE new
    /\ JobAt("failed")
    /\ UNCHANGED <<pgdata, aside, births, container, registry, host, bounds>>

JobKill(pc) == IF pc = "swap" THEN "swap-kill"
               ELSE IF pc = "finish" THEN "late" ELSE "kill"

KillJob ==
    /\ JobAtWork
    /\ CanFail(JobKill(job.pc))
    /\ kills < MaxKills
    /\ kills' = kills + 1
    /\ JobAt("failed")
    /\ UNCHANGED <<volume, container, registry, host, commands>>

-----------------------------------------------------------------------------
(* Steps that several commands of the host share.                          *)

\* start_instance: stop and remove what is there, create and start anew.
StartInstance(v) ==
    /\ pgdata' \in Halted
    /\ container' = Started(v)

\* It stops short before the create, or between the create and the start.
StartFails(v) ==
    /\ CanFail("step")
    /\ pgdata' \in Halted
    /\ container' \in {NoContainer, [pc |-> "exited", image |-> v]}

IsReady == container.pc = "serving"
\* wait_ready gives up on a container that has exited, or when time is up.
GivesUp == ~AgentAtWork \/ (CanFail("impatient") /\ ~IsReady)

SetPhase(ph) == phase' = ph /\ UNCHANGED image

-----------------------------------------------------------------------------
(* `pgpod upgrade`.                                                        *)

\* Everything that may refuse, up to the version check: the instance has to
\* run, and the image to be later than the data directory.
BeginUpgrade ==
    /\ host.pc = "idle"
    /\ commands < MaxCommands
    /\ phase # "none"
    /\ AgentAtWork
    /\ HasVersion(pgdata)
    /\ \E v \in Version, link \in Links, check \in BOOLEAN :
         /\ v # image
         /\ v > pgdata.version
         /\ host' = [NoCommand EXCEPT !.pc = "stage", !.from = pgdata.version,
                                      !.to = v, !.link = link, !.check = check]
    /\ commands' = commands + 1
    /\ UNCHANGED <<volume, container, job, registry, kills>>

\* The staging job runs in the image of the recorded manifest, which must be
\* the version it finds.
AsStaged == HasVersion(pgdata) /\ pgdata.version = image /\ image = host.from

Stage ==
    /\ host.pc = "stage"
    /\ \/ /\ AsStaged
          /\ Goto("fence")
       \/ /\ ~AsStaged \/ CanFail("step")
          /\ End
    /\ UNCHANGED <<volume, container, job, registry, bounds>>

Fence ==
    /\ host.pc = "fence"
    /\ SetPhase("upgrading")
    /\ Goto("hold")
    /\ UNCHANGED <<volume, container, job, bounds>>

\* An error here is returned as it is.
AcquireHold ==
    /\ host.pc = "hold"
    /\ \/ Goto("stop")
       \/ CanFail("step") /\ End
    /\ UNCHANGED <<volume, container, job, registry, bounds>>

\* Mutant: the job is started beside the instance.
Unstopped ==
    /\ host.pc = "stop"
    /\ Goto("job")
    /\ UNCHANGED <<volume, container, job, registry, bounds>>

StopInstance ==
    /\ host.pc = "stop"
    /\ \/ /\ pgdata' \in Halted
          /\ container' = NoContainer
          /\ Goto("job")
       \/ /\ CanFail("step")
          /\ pgdata' = pgdata
          /\ UNCHANGED container
          /\ Goto("back")
    /\ UNCHANGED <<new, aside, births, job, registry, bounds>>

\* upgrade_job: a container of that name that is left over goes first.
CreateJob ==
    /\ host.pc = "job"
    /\ \/ /\ job' = [NoJob EXCEPT !.pc = "open", !.from = host.from, !.to = host.to,
                                  !.link = host.link, !.check = host.check]
          /\ Goto("wait")
       \/ /\ CanFail("step")
          /\ job' = NoJob
          /\ Goto("back")
    /\ UNCHANGED <<volume, container, registry, bounds>>

\* A report that cannot be read is a failure whatever the job did.
JobEnds ==
    /\ host.pc = "wait"
    /\ \/ /\ job.pc = "done"
          /\ Goto(IF host.check THEN "again" ELSE "record")
       \/ /\ job.pc = "failed" \/ (job.pc = "done" /\ CanFail("late"))
          /\ Goto("back")
    /\ job' = NoJob
    /\ UNCHANGED <<volume, container, registry, bounds>>

JobOutlivesWait ==
    /\ host.pc = "wait"
    /\ JobAtWork
    /\ CanFail("timeout")
    /\ Goto("back")
    /\ UNCHANGED <<volume, container, job, registry, bounds>>

\* The upgrade failed: the old instance again, whether it becomes ready or not.
Back ==
    /\ host.pc = "back"
    /\ \/ /\ StartInstance(image)
          /\ Goto("back-ready")
          /\ UNCHANGED phase
       \/ /\ StartFails(image)
          /\ phase' = "failed"
          /\ End
    /\ UNCHANGED <<new, aside, births, job, image, bounds>>

BackReady ==
    /\ host.pc = "back-ready"
    /\ IsReady \/ GivesUp
    /\ Goto("back-phase")
    /\ UNCHANGED <<volume, container, job, registry, bounds>>

\* Mutant: the return to the old instance is a phase of its own.
PhaseRestored ==
    /\ host.pc = "back-phase"
    /\ SetPhase("restored")
    /\ End
    /\ UNCHANGED <<volume, container, job, bounds>>

BackPhase ==
    /\ host.pc = "back-phase"
    /\ SetPhase("running")
    /\ End
    /\ UNCHANGED <<volume, container, job, bounds>>

\* A rehearsal ends with the old instance; errors are returned as they are.
Again ==
    /\ host.pc = "again"
    /\ \/ StartInstance(image) /\ Goto("again-ready")
       \/ StartFails(image) /\ End
    /\ UNCHANGED <<new, aside, births, job, registry, bounds>>

AgainReady ==
    /\ host.pc = "again-ready"
    /\ \/ IsReady /\ Goto("upgraded")
       \/ GivesUp /\ End
    /\ UNCHANGED <<volume, container, job, registry, bounds>>

\* Mutant: the recorded manifest is left as it was.
TargetUnrecorded ==
    /\ host.pc = "record"
    /\ SetPhase("upgrading")
    /\ Goto("start")
    /\ UNCHANGED <<volume, container, job, bounds>>

RecordTarget ==
    /\ host.pc = "record"
    /\ phase' = "upgrading"
    /\ image' = host.to
    /\ Goto("start")
    /\ UNCHANGED <<volume, container, job, bounds>>

StartTarget ==
    /\ host.pc = "start"
    /\ \/ StartInstance(host.to) /\ Goto("start-ready")
       \/ StartFails(host.to) /\ End
    /\ UNCHANGED <<new, aside, births, job, registry, bounds>>

\* Then the hold is released, and an error of that is returned too.
TargetReady ==
    /\ host.pc = "start-ready"
    /\ \/ IsReady /\ Goto("upgraded")
       \/ (GivesUp \/ CanFail("step")) /\ End
    /\ UNCHANGED <<volume, container, job, registry, bounds>>

EndUpgrade ==
    /\ host.pc = "upgraded"
    /\ SetPhase("running")
    /\ End
    /\ UNCHANGED <<volume, container, job, bounds>>

-----------------------------------------------------------------------------
(* `pgpod apply`, as far as it concerns the image; and boot recovery.      *)

BeginApply ==
    /\ host.pc = "idle"
    /\ commands < MaxCommands
    /\ \E v \in Version, recreate \in BOOLEAN :
         host' = [NoCommand EXCEPT !.pc = "check", !.to = v, !.recreate = recreate]
    /\ commands' = commands + 1
    /\ UNCHANGED <<volume, container, job, registry, kills>>

\* Mutant: only a later image is refused.
OlderImagePasses(v) ==
    \/ AgentAtWork /\ container.image = v
    \/ ~HasVersion(pgdata)
    \/ pgdata.version >= v

\* refuse_incompatible_image lets pass an image that runs already, any image
\* while there is no data, and an image of the version of the data.
ImagePasses(v) ==
    \/ AgentAtWork /\ container.image = v
    \/ ~HasVersion(pgdata)
    \/ pgdata.version = v

ApplyChecks ==
    /\ host.pc = "check"
    /\ \/ ImagePasses(host.to) /\ Goto("put")
       \/ /\ ~ImagePasses(host.to) \/ CanFail("step")
          /\ End
    /\ UNCHANGED <<volume, container, job, registry, bounds>>

PutCluster ==
    /\ host.pc = "put"
    /\ phase' = "applying"
    /\ image' = host.to
    /\ Goto("converge")
    /\ UNCHANGED <<volume, container, job, bounds>>

\* apply_instance: adopt, replace, start or create; a running container of
\* another image is only replaced by --recreate.
Converge ==
    /\ host.pc = "converge"
    /\ \/ /\ AgentAtWork /\ container.image = host.to
          /\ Goto("ready")
          /\ UNCHANGED <<pgdata, container, phase>>
       \/ /\ AgentAtWork => (container.image # host.to /\ host.recreate)
          /\ StartInstance(host.to)
          /\ Goto("ready")
          /\ UNCHANGED phase
       \/ /\ AgentAtWork /\ container.image # host.to /\ ~host.recreate
          /\ phase' = "failed"
          /\ End
          /\ UNCHANGED <<pgdata, container>>
       \/ /\ AgentAtWork => (container.image # host.to /\ host.recreate)
          /\ StartFails(host.to)
          /\ phase' = "failed"
          /\ End
    /\ UNCHANGED <<new, aside, births, job, image, bounds>>

ApplyReady ==
    /\ host.pc = "ready"
    /\ \/ /\ IsReady \/ CanFail("impatient")      \* a wait of zero is not waited
          /\ Goto("applied")
          /\ UNCHANGED phase
       \/ /\ GivesUp
          /\ phase' = "failed"
          /\ End
    /\ UNCHANGED <<volume, container, job, image, bounds>>

Applied ==
    /\ host.pc = "applied"
    /\ SetPhase("running")
    /\ End
    /\ UNCHANGED <<volume, container, job, bounds>>

\* resume_instance starts a container that is there and does not run.
BootStarts ==
    /\ phase = "running"
    /\ container.pc = "exited"
    /\ Agent("layout")
    /\ UNCHANGED <<volume, job, registry, host, bounds>>

-----------------------------------------------------------------------------
(* Deaths of commands, and of everything.                                  *)

CommandKill == IF JobAtWork \/ container.pc \in AgentPc \ {"serving"}
               THEN "death" ELSE "kill"

CommandDies ==
    /\ host.pc # "idle"
    /\ CanFail(CommandKill)
    /\ kills < MaxKills
    /\ kills' = kills + 1
    /\ End
    /\ UNCHANGED <<volume, container, job, registry, commands>>

Reboot ==
    /\ CanFail("reboot")
    /\ AgentAtWork => CanFail(AgentKill(container.pc))
    /\ JobAtWork   => CanFail(JobKill(job.pc))
    /\ kills < MaxKills
    /\ kills' = kills + 1
    /\ pgdata' \in KilledIn(container.pc)
    /\ IF AgentAtWork THEN Agent("exited") ELSE UNCHANGED container
    /\ job' = NoJob
    /\ End
    /\ UNCHANGED <<new, aside, births, registry, commands>>

-----------------------------------------------------------------------------
Init ==
    /\ pgdata = Absent
    /\ new = Absent
    /\ aside = {}
    /\ births = 0
    /\ container = NoContainer
    /\ job = NoJob
    /\ phase = "none"
    /\ image = 0
    /\ host = NoCommand
    /\ commands = 0
    /\ kills = 0

AgentNext ==
    \/ Open \/ InitdbBegins \/ InitdbEnds \/ InitdbFails \/ AppendIncludeDir
    \/ CreateRoles \/ RolesFail \/ Spawn

JobNext ==
    \/ JobOpens \/ JobInitdb \/ PgUpgradeChecks \/ PgUpgradeTransfers
    \/ MoveAside \/ MoveIntoPlace \/ PutBack \/ Finish \/ JobFails

HostNext ==
    \/ BeginUpgrade \/ Stage \/ Fence \/ AcquireHold \/ StopInstance \/ CreateJob
    \/ JobEnds \/ JobOutlivesWait \/ Back \/ BackReady \/ BackPhase
    \/ Again \/ AgainReady \/ RecordTarget \/ StartTarget \/ TargetReady \/ EndUpgrade
    \/ BeginApply \/ ApplyChecks \/ PutCluster \/ Converge \/ ApplyReady \/ Applied

Next ==
    \/ AgentNext \/ JobNext \/ HostNext
    \/ BootStarts \/ KillAgent \/ KillJob \/ CommandDies \/ Reboot

Spec == Init /\ [][Next]_vars

-----------------------------------------------------------------------------
(* Properties.                                                             *)

\* Variables hold values of their types.
TypeOK ==
    /\ pgdata \in Contents /\ new \in Contents
    /\ aside \subseteq Contents
    /\ births \in Nat
    /\ container \in Container
    /\ job \in Job
    /\ phase \in Phase
    /\ image \in Nat
    /\ host \in Host
    /\ commands \in Nat /\ kills \in Nat

\* One writer per volume: an upgrade job never works on a volume whose
\* instance is at work.
OneWriter == ~(JobAtWork /\ AgentAtWork)

\* The first database ever made in the volume is still whole in one of its
\* directories, however an upgrade and its retries went.
DataKept ==
    births > 0 =>
        \E d \in {pgdata, new} \cup aside : Holds(d) /\ d.origin = 1

\* Clients are only ever served the database the cluster was created with,
\* whole.  This is what starting an instance on a volume must not break.
ServesTheDatabase ==
    container.pc = "serving" => Holds(pgdata) /\ pgdata.origin = 1

\* No command starts an image on data of another major version.
ImageFitsData ==
    container.pc \in {"spawn", "serving"} /\ HasVersion(pgdata)
        => pgdata.version = container.image

\* An instance that serves has its managed settings in force and its roles.
ManagedAndReachable ==
    container.pc = "serving" => pgdata.managed /\ pgdata.roles

\* When the registry says running and no command is at it, the recorded
\* manifest names the version of the data.
RecordFitsData ==
    phase = "running" /\ host.pc = "idle" /\ HasVersion(pgdata)
        => image = pgdata.version

\* The volume implements its lineage.  Between the two renames of a swap
\* the database is the one moved aside: the swap may still be taken back.
Id(d) == [origin |-> d.origin, version |-> d.version]

Database ==
    IF Holds(pgdata) THEN Id(pgdata)
    ELSE IF job.pc = "swap" THEN Id(job.moved)
    ELSE [origin |-> 0, version |-> 0]

Promise == INSTANCE Lineage WITH database <- Database

KeepsItsLineage == Promise!Spec
=============================================================================
