------------------------------ MODULE Poolers ------------------------------
(* The host's side of poolers: `pgpod apply` and `pgpod delete` of a       *)
(* pooler, the hold that `apply --recreate` of a cluster takes over all    *)
(* the poolers in front of it, the purge of a cluster, and the part of     *)
(* boot recovery that brings poolers back.                                 *)
(*                                                                         *)
(* A command is a process that makes one registry statement or one call of *)
(* podman at a time.  The life of a cluster itself is ControlPlane's and   *)
(* takes single steps here; a pooler's agent is PoolerAgent's, and what it *)
(* promises of one hold is the state of that hold: open, held with a       *)
(* deadline that will end it, or stuck, that is, paused with none.         *)
EXTENDS Integers, FiniteSets

CONSTANTS
    Cluster,     \* cluster names
    Pooler,      \* pooler names
    Manifest,    \* pooler manifests
    SpecOf,      \* the PoolerSpec a manifest asks for: all of it but the image,
                 \* the host port, poolerUid and poolerGid
    Fronts,      \* the clusters a manifest names
    NoManifest,  \* what is there when no manifest is
    Cli,         \* slots for commands that are under way
    Overlap,     \* may commands overlap
    Accidents,   \* what may go wrong
    MaxOps,      \* bound: commands typed
    MaxKills     \* bound: kills and reboots

AccidentKind == {"podman",   \* a call of podman fails, or what it runs does
                 "console",  \* pg_doorman's console answers with an error
                 "kill"}     \* a command, a container or the host goes down

ASSUME PoolersOK ==
    /\ Fronts \in [Manifest -> SUBSET Cluster \ {{}}]
    /\ NoManifest \notin Manifest
    /\ DOMAIN SpecOf = Manifest
    /\ \A m, n \in Manifest : SpecOf[m] = SpecOf[n] => Fronts[m] = Fronts[n]
    /\ Overlap \in BOOLEAN
    /\ Accidents \subseteq AccidentKind
    /\ MaxOps \in Nat
    /\ MaxKills \in Nat

VARIABLES
    known,     \* clusters with a row
    rows,      \* the poolers table, pool rows included
    instance,  \* podman: the instance container of each cluster
    volume,    \* podman: clusters whose volume holds a database
    role,      \* the lookup role's password in each database, 0 for no role
    secret,    \* podman: each cluster's lookup secret, 0 for none
    admin,     \* podman: poolers that have an admin secret
    front,     \* podman: the pooler containers
    hold,      \* what each pooler's agent does to each cluster's pools
    lapsed,    \* holds that ended by themselves: not state of the program
    op,        \* the commands
    daemon,    \* poolers boot recovery has listed and not yet looked at
    half,      \* clusters whose data went and whose secret may have stayed,
               \* because a purge was cut short: not state of the program
    minted,    \* passwords generated so far
    ops, kills \* how often so far

registry == <<known, rows>>
database == <<instance, volume, role>>
secrets  == <<secret, admin, minted, half>>
agents   == <<front, hold, lapsed>>
bounds   == <<ops, kills>>
vars == <<registry, database, secrets, agents, op, daemon, bounds>>

-----------------------------------------------------------------------------
(* What the steps are written with.                                        *)

NoRow   == [manifest |-> NoManifest, phase |-> "none"]
NoFront == [state |-> "none", manifest |-> NoManifest,
            creds |-> [c \in Cluster |-> 0]]
Idle    == [kind |-> "idle", pc |-> "idle", manifest |-> NoManifest,
            pooler |-> {}, cluster |-> {}, left |-> {}, held |-> {},
            seen |-> "none", pw |-> 0]

Present(p)   == rows[p].manifest # NoManifest
Fronting(c)  == {p \in Pooler : Present(p) /\ c \in Fronts[rows[p].manifest]}
Up(p)        == front[p].state = "up"
CanFail(k)   == k \in Accidents
At(i, k, pc) == op[i].kind = k /\ op[i].pc = pc

Goto(i, pc) == op' = [op EXCEPT ![i].pc = pc]
End(i)      == op' = [op EXCEPT ![i] = Idle]

MayBegin == /\ ops < MaxOps
            /\ Overlap \/ \A i \in Cli : op[i].kind = "idle"

\* A command is typed: a process with what its arguments name.
Begin(i, o) ==
    /\ MayBegin
    /\ op[i].kind = "idle"
    /\ op' = [op EXCEPT ![i] = o]
    /\ ops' = ops + 1
    /\ UNCHANGED <<registry, database, secrets, agents, daemon, kills>>

\* A call fails and the command ends with its error.
Fails(i, k) == CanFail(k) /\ End(i)

-----------------------------------------------------------------------------
(* apply_pooler.                                                           *)

ApplyPooler(i) ==
    \E p \in Pooler, m \in Manifest :
        Begin(i, [Idle EXCEPT !.kind = "apply", !.pc = "resolve",
                              !.manifest = m, !.pooler = {p},
                              !.left = Fronts[m]])

\* Every cluster must be known before anything is created.
Resolve(i) ==
    /\ At(i, "apply", "resolve")
    /\ IF op[i].left \subseteq known THEN Goto(i, "role") ELSE End(i)
    /\ UNCHANGED <<registry, database, secrets, agents, daemon, bounds>>

\* ensure_pooler_role, for the next of the clusters: a secret that exists
\* stands for a role that has its password.
FindSecret(i, c) ==
    /\ At(i, "apply", "role") /\ c \in op[i].left
    /\ \/ /\ secret[c] # 0
          /\ op' = [op EXCEPT ![i].left = @ \ {c}]
       \/ /\ secret[c] = 0 /\ instance[c] = "up"
          /\ op' = [op EXCEPT ![i].pc = "alter", ![i].cluster = {c}]
       \/ /\ secret[c] = 0 /\ instance[c] # "up"
          /\ End(i)
       \/ Fails(i, "podman")
    /\ UNCHANGED <<registry, database, secrets, agents, daemon, bounds>>

\* The statements of pooler_lookup_sql; when one fails the role may have the
\* password already.
AlterRole(i, c) ==
    /\ At(i, "apply", "alter") /\ c \in op[i].cluster
    /\ \/ /\ instance[c] = "up"
          /\ role' = [role EXCEPT ![c] = minted + 1]
          /\ \/ op' = [op EXCEPT ![i].pc = "drop", ![i].pw = minted + 1]
             \/ Fails(i, "podman")
       \/ /\ instance[c] # "up" \/ CanFail("podman")
          /\ End(i)
          /\ UNCHANGED role
    /\ minted' = minted + 1
    /\ UNCHANGED <<registry, instance, volume, secret, admin, half, agents,
                   daemon, bounds>>

\* put_secret removes what is there, whatever becomes of that, and creates.
DropSecret(i, c) ==
    /\ At(i, "apply", "drop") /\ c \in op[i].cluster
    /\ secret' = [secret EXCEPT ![c] = 0]
    /\ Goto(i, "store")
    /\ UNCHANGED <<registry, database, admin, minted, half, agents, daemon, bounds>>

StoreSecret(i, c) ==
    /\ At(i, "apply", "store") /\ c \in op[i].cluster
    /\ \/ /\ secret[c] = 0
          /\ secret' = [secret EXCEPT ![c] = op[i].pw]
          /\ op' = [op EXCEPT ![i].pc = "role", ![i].left = @ \ {c},
                              ![i].cluster = {}]
       \/ /\ secret[c] # 0 \/ CanFail("podman")
          /\ End(i)
          /\ UNCHANGED secret
    /\ UNCHANGED <<registry, database, admin, minted, half, agents, daemon, bounds>>

\* The admin secret, which only the agent in the container ever reads.
AdminSecret(i, p) ==
    /\ At(i, "apply", "role") /\ op[i].left = {} /\ p \in op[i].pooler
    /\ \/ /\ admin' = admin \cup {p}
          /\ Goto(i, "probe")
       \/ /\ Fails(i, "podman")
          /\ UNCHANGED admin
    /\ UNCHANGED <<registry, database, secret, minted, half, agents, daemon, bounds>>

\* Mutant: a pooler that runs another spec is not refused.
ProbeAdopts(i, p) ==
    /\ At(i, "apply", "probe") /\ p \in op[i].pooler
    /\ op' = [op EXCEPT ![i].pc = "record", ![i].seen = front[p].state]
    /\ UNCHANGED <<registry, database, secrets, agents, daemon, bounds>>

\* refuse_if_pooler_diverged: only the PoolerSpec is compared.
Adoptable(i, p) ==
    front[p].manifest # NoManifest =>
        SpecOf[front[p].manifest] = SpecOf[op[i].manifest]

\* What runs under the pooler's name, before the registry is told anything.
ProbePooler(i, p) ==
    /\ At(i, "apply", "probe") /\ p \in op[i].pooler
    /\ \/ /\ Adoptable(i, p)
          /\ op' = [op EXCEPT ![i].pc = "record", ![i].seen = front[p].state]
       \/ /\ ~Adoptable(i, p)
          /\ End(i)
       \/ Fails(i, "podman")
    /\ UNCHANGED <<registry, database, secrets, agents, daemon, bounds>>

\* put_pooler, one transaction: the row and its pool rows, which need their
\* clusters' rows.
PutPooler(i, p, phase) ==
    /\ op[i].kind = "apply" /\ p \in op[i].pooler
    /\ IF Fronts[op[i].manifest] \subseteq known
       THEN rows' = [rows EXCEPT ![p] = [manifest |-> op[i].manifest,
                                         phase |-> phase]]
       ELSE UNCHANGED rows
    /\ UNCHANGED <<known, database, secrets, agents, daemon, bounds>>

PutApplying(i, p) ==
    /\ op[i].pc = "record"
    /\ IF Fronts[op[i].manifest] \subseteq known
       THEN Goto(i, IF op[i].seen = "none" THEN "create"
                    ELSE IF op[i].seen = "up" THEN "confirm" ELSE "start")
       ELSE End(i)
    /\ PutPooler(i, p, "applying")

\* A container gets a copy of the secrets it mounts when it is created.
CreatePooler(i, p) ==
    /\ At(i, "apply", "create") /\ p \in op[i].pooler
    /\ \/ /\ front[p].state = "none"
          /\ \A c \in Fronts[op[i].manifest] : secret[c] # 0
          /\ front' = [front EXCEPT ![p] =
                 [state |-> "created", manifest |-> op[i].manifest,
                  creds |-> [c \in Cluster |->
                      IF c \in Fronts[op[i].manifest] THEN secret[c] ELSE 0]]]
          /\ Goto(i, "start")
       \/ /\ \/ front[p].state # "none"
             \/ \E c \in Fronts[op[i].manifest] : secret[c] = 0
             \/ CanFail("podman")
          /\ End(i)
          /\ UNCHANGED front
    /\ UNCHANGED <<registry, database, secrets, hold, lapsed, daemon, bounds>>

StartPooler(i, p) ==
    /\ At(i, "apply", "start") /\ p \in op[i].pooler
    /\ \/ /\ front[p].state # "none"
          /\ front' = [front EXCEPT ![p].state = "up"]
          /\ Goto(i, "confirm")
       \/ /\ front[p].state = "none" \/ CanFail("podman")
          /\ End(i)
          /\ UNCHANGED front
    /\ UNCHANGED <<registry, database, secrets, hold, lapsed, daemon, bounds>>

\* The wait for the pooler and the events that follow change nothing.
PutRunning(i, p) ==
    /\ op[i].pc = "confirm"
    /\ End(i)
    /\ PutPooler(i, p, "running")

ApplyPoolerStep(i) ==
    \/ ApplyPooler(i) \/ Resolve(i)
    \/ \E c \in Cluster : \/ FindSecret(i, c) \/ AlterRole(i, c)
                          \/ DropSecret(i, c) \/ StoreSecret(i, c)
    \/ \E p \in Pooler : \/ AdminSecret(i, p) \/ ProbePooler(i, p)
                         \/ PutApplying(i, p) \/ CreatePooler(i, p)
                         \/ StartPooler(i, p) \/ PutRunning(i, p)

-----------------------------------------------------------------------------
(* delete_pooler.                                                          *)

DeletePooler(i) ==
    \E p \in Pooler :
        /\ Present(p)
        /\ Begin(i, [Idle EXCEPT !.kind = "delete", !.pc = "remove",
                                 !.pooler = {p}])

RemovePooler(i, p) ==
    /\ At(i, "delete", "remove") /\ p \in op[i].pooler
    /\ \/ /\ front' = [front EXCEPT ![p] = NoFront]
          /\ hold' = [hold EXCEPT ![p] = [c \in Cluster |-> "open"]]
          /\ lapsed' = lapsed \cup ({p} \X Cluster)
          /\ Goto(i, "forget")
       \/ /\ Fails(i, "podman")
          /\ UNCHANGED agents
    /\ UNCHANGED <<registry, database, secrets, daemon, bounds>>

\* Mutant: a delete leaves a row in a phase of its own.
ForgetMarks(i, p) ==
    /\ At(i, "delete", "forget") /\ p \in op[i].pooler
    /\ rows' = [rows EXCEPT ![p].phase = "deleting"]
    /\ End(i)
    /\ UNCHANGED <<known, database, secrets, agents, daemon, bounds>>

\* The pool rows go with the row.  No secret goes.
ForgetPooler(i, p) ==
    /\ At(i, "delete", "forget") /\ p \in op[i].pooler
    /\ rows' = [rows EXCEPT ![p] = NoRow]
    /\ End(i)
    /\ UNCHANGED <<known, database, secrets, agents, daemon, bounds>>

DeletePoolerStep(i) ==
    \/ DeletePooler(i)
    \/ \E p \in Pooler : RemovePooler(i, p) \/ ForgetPooler(i, p)

-----------------------------------------------------------------------------
(* PoolerHold and recreate_instance.                                       *)

\* `pgpod apply --recreate` finds the instance running another manifest.
Recreate(i) ==
    \E c \in Cluster :
        /\ c \in known /\ instance[c] = "up"
        /\ Begin(i, [Idle EXCEPT !.kind = "recreate", !.pc = "list",
                                 !.cluster = {c}])

\* acquire reads which poolers front the cluster, once.
ListPoolers(i, c) ==
    /\ At(i, "recreate", "list") /\ c \in op[i].cluster
    /\ op' = [op EXCEPT ![i].pc = "acquire", ![i].left = Fronting(c)]
    /\ UNCHANGED <<registry, database, secrets, agents, daemon, bounds>>

\* Mutant: a pooler that could not be held is passed over.
PauseOrPass(i, c, p) ==
    /\ At(i, "recreate", "acquire") /\ c \in op[i].cluster /\ p \in op[i].left
    /\ op' = [op EXCEPT ![i].left = @ \ {p}, ![i].held = @ \cup {p}]
    /\ IF Up(p)
       THEN /\ hold' = [hold EXCEPT ![p][c] = "held"]
            /\ lapsed' = lapsed \ {<<p, c>>}
       ELSE UNCHANGED <<hold, lapsed>>
    /\ UNCHANGED <<registry, database, secrets, front, daemon, bounds>>

\* PAUSE of one pooler.  An error of the agent may leave pools paused with no
\* deadline; a deadline that is armed already stays current.
Pause(i, c, p) ==
    /\ At(i, "recreate", "acquire") /\ c \in op[i].cluster /\ p \in op[i].left
    /\ \/ /\ Up(p)
          /\ hold' = [hold EXCEPT ![p][c] = "held"]
          /\ lapsed' = lapsed \ {<<p, c>>}
          /\ op' = [op EXCEPT ![i].left = @ \ {p}, ![i].held = @ \cup {p}]
       \/ /\ ~Up(p) \/ CanFail("podman")
          /\ Goto(i, "release")
          /\ UNCHANGED <<hold, lapsed>>
       \/ /\ Up(p) /\ CanFail("console") /\ hold[p][c] = "open"
          /\ hold' = [hold EXCEPT ![p][c] = "stuck"]
          /\ Goto(i, "release")
          /\ UNCHANGED lapsed
    /\ UNCHANGED <<registry, database, secrets, front, daemon, bounds>>

\* recreate_held, while clients are held.
RemoveInstance(i, c) ==
    /\ At(i, "recreate", "acquire") /\ op[i].left = {} /\ c \in op[i].cluster
    /\ \/ /\ instance' = [instance EXCEPT ![c] = "none"]
          /\ Goto(i, "create")
       \/ /\ CanFail("podman") /\ Goto(i, "release")
          /\ UNCHANGED instance
    /\ UNCHANGED <<registry, volume, role, secrets, agents, daemon, bounds>>

CreateInstance(i, c) ==
    /\ At(i, "recreate", "create") /\ c \in op[i].cluster
    /\ \/ /\ instance[c] = "none"
          /\ instance' = [instance EXCEPT ![c] = "starting"]
          /\ Goto(i, "wait")
       \/ /\ instance[c] # "none" \/ CanFail("podman")
          /\ Goto(i, "release")
          /\ UNCHANGED instance
    /\ UNCHANGED <<registry, volume, role, secrets, agents, daemon, bounds>>

\* wait_ready: until the instance accepts connections, or it is gone, or the
\* time is up.
WaitReady(i, c) ==
    /\ At(i, "recreate", "wait") /\ c \in op[i].cluster
    /\ \/ instance[c] = "up" /\ Goto(i, "resume")
       \/ instance[c] # "up" /\ Goto(i, "release")
    /\ UNCHANGED <<registry, database, secrets, agents, daemon, bounds>>

\* What RESUME does: the deadline of the hold is void first, so a RESUME that
\* then fails leaves the pools paused with nothing to release them.
Resumed(p, c) ==
    \/ /\ Up(p)
       /\ hold' = [hold EXCEPT ![p][c] = "open"]
    \/ /\ ~Up(p) \/ CanFail("podman")
       /\ UNCHANGED hold
    \/ /\ Up(p) /\ CanFail("console") /\ hold[p][c] = "held"
       /\ hold' = [hold EXCEPT ![p][c] = "stuck"]

\* release_after_recreate: RECONNECT and RESUME of one pooler after another.
\* An error ends the command; the poolers it had not come to stay held.
ReleaseAfterRecreate(i, c, p) ==
    /\ At(i, "recreate", "resume") /\ c \in op[i].cluster /\ p \in op[i].held
    /\ Resumed(p, c)
    /\ IF hold'[p][c] = "open" /\ Up(p)
       THEN op' = [op EXCEPT ![i].held = @ \ {p}]
       ELSE End(i)
    /\ UNCHANGED <<registry, database, secrets, front, lapsed, daemon, bounds>>

\* release, on the failure paths: errors are ignored.
Release(i, c, p) ==
    /\ At(i, "recreate", "release") /\ c \in op[i].cluster /\ p \in op[i].held
    /\ Resumed(p, c)
    /\ op' = [op EXCEPT ![i].held = @ \ {p}]
    /\ UNCHANGED <<registry, database, secrets, front, lapsed, daemon, bounds>>

Released(i) ==
    /\ op[i].kind = "recreate" /\ op[i].pc \in {"resume", "release"}
    /\ op[i].held = {}
    /\ End(i)
    /\ UNCHANGED <<registry, database, secrets, agents, daemon, bounds>>

RecreateStep(i) ==
    \/ Recreate(i) \/ Released(i)
    \/ \E c \in Cluster :
        \/ ListPoolers(i, c) \/ RemoveInstance(i, c) \/ CreateInstance(i, c)
        \/ WaitReady(i, c)
        \/ \E p \in Pooler : \/ Pause(i, c, p) \/ Release(i, c, p)
                             \/ ReleaseAfterRecreate(i, c, p)

-----------------------------------------------------------------------------
(* delete, with and without --purge, as far as poolers are concerned.      *)

Purge(i) ==
    \E c \in Cluster :
        /\ c \in known
        /\ Begin(i, [Idle EXCEPT !.kind = "purge", !.pc = "check",
                                 !.cluster = {c}])

\* Mutant: it is left to the foreign key to refuse.
LeaveItToTheKey(i, c) ==
    /\ At(i, "purge", "check") /\ c \in op[i].cluster
    /\ Goto(i, "container")
    /\ UNCHANGED <<registry, database, secrets, agents, daemon, bounds>>

\* Checked before anything is removed.
RefuseIfFronted(i, c) ==
    /\ At(i, "purge", "check") /\ c \in op[i].cluster
    /\ IF Fronting(c) = {} THEN Goto(i, "container") ELSE End(i)
    /\ UNCHANGED <<registry, database, secrets, agents, daemon, bounds>>

PurgeContainer(i, c) ==
    /\ At(i, "purge", "container") /\ c \in op[i].cluster
    /\ \/ /\ instance' = [instance EXCEPT ![c] = "none"]
          /\ Goto(i, "volume")
       \/ /\ Fails(i, "podman")
          /\ UNCHANGED instance
    /\ UNCHANGED <<registry, volume, role, secrets, agents, daemon, bounds>>

\* The only podman call that fails on what is not there.
PurgeVolume(i, c) ==
    /\ At(i, "purge", "volume") /\ c \in op[i].cluster
    /\ \/ /\ c \in volume
          /\ volume' = volume \ {c}
          /\ role' = [role EXCEPT ![c] = 0]
          /\ Goto(i, "secrets")
       \/ /\ c \notin volume \/ CanFail("podman")
          /\ End(i)
          /\ UNCHANGED <<volume, role>>
    /\ UNCHANGED <<registry, instance, secrets, agents, daemon, bounds>>

\* Mutant: the secret is not among those of the cluster.
PurgeKeepsSecret(i, c) ==
    /\ At(i, "purge", "secrets") /\ c \in op[i].cluster
    /\ Goto(i, "row")
    /\ UNCHANGED <<registry, database, secrets, agents, daemon, bounds>>

\* What becomes of the removal is not looked at.
PurgeSecret(i, c) ==
    /\ At(i, "purge", "secrets") /\ c \in op[i].cluster
    /\ \/ /\ secret' = [secret EXCEPT ![c] = 0]
          /\ UNCHANGED half
       \/ /\ CanFail("podman")
          /\ half' = half \cup {c}
          /\ UNCHANGED secret
    /\ Goto(i, "row")
    /\ UNCHANGED <<registry, database, admin, minted, agents, daemon, bounds>>

\* ON DELETE RESTRICT: refused while a pool row names the cluster.
PurgeRow(i, c) ==
    /\ At(i, "purge", "row") /\ c \in op[i].cluster
    /\ known' = IF Fronting(c) = {} THEN known \ {c} ELSE known
    /\ End(i)
    /\ UNCHANGED <<rows, database, secrets, agents, daemon, bounds>>

PurgeStep(i) ==
    \/ Purge(i)
    \/ \E c \in Cluster : \/ RefuseIfFronted(i, c) \/ PurgeContainer(i, c)
                          \/ PurgeVolume(i, c) \/ PurgeSecret(i, c)
                          \/ PurgeRow(i, c)

\* `pgpod apply` of a cluster: a new volume gets a database without the
\* lookup role.  ControlPlane has its steps.
ApplyCluster(c) ==
    /\ MayBegin
    /\ instance[c] \in {"none", "down"}
    /\ known' = known \cup {c}
    /\ volume' = volume \cup {c}
    /\ instance' = [instance EXCEPT ![c] = "starting"]
    /\ ops' = ops + 1
    /\ UNCHANGED <<rows, role, secrets, agents, op, daemon, kills>>

\* `pgpod delete` without --purge.
DeleteCluster(c) ==
    /\ MayBegin
    /\ c \in known /\ instance[c] # "none"
    /\ instance' = [instance EXCEPT ![c] = "none"]
    /\ ops' = ops + 1
    /\ UNCHANGED <<registry, volume, role, secrets, agents, op, daemon, kills>>

-----------------------------------------------------------------------------
(* PostgreSQL, the agents, and what goes down.                             *)

BecomesReady(c) ==
    /\ instance[c] = "starting"
    /\ instance' = [instance EXCEPT ![c] = "up"]
    /\ UNCHANGED <<registry, volume, role, secrets, agents, op, daemon, bounds>>

\* The deadline of a hold: PoolerAgent's promise, which an error of the
\* console breaks.
DeadlineFires(p, c) ==
    /\ Up(p) /\ hold[p][c] = "held"
    /\ \/ hold' = [hold EXCEPT ![p][c] = "open"]
       \/ CanFail("console") /\ hold' = [hold EXCEPT ![p][c] = "stuck"]
    /\ lapsed' = lapsed \cup {<<p, c>>}
    /\ UNCHANGED <<registry, database, secrets, front, op, daemon, bounds>>

MayGoDown == CanFail("kill") /\ kills < MaxKills

\* A pooler forgets its holds when it goes down.
PoolerExits(p) ==
    /\ MayGoDown
    /\ Up(p)
    /\ front' = [front EXCEPT ![p].state = "down"]
    /\ hold' = [hold EXCEPT ![p] = [c \in Cluster |-> "open"]]
    /\ lapsed' = lapsed \cup ({p} \X Cluster)
    /\ kills' = kills + 1
    /\ UNCHANGED <<registry, database, secrets, op, daemon, ops>>

InstanceExits(c) ==
    /\ MayGoDown
    /\ instance[c] \in {"starting", "up"}
    /\ instance' = [instance EXCEPT ![c] = "down"]
    /\ kills' = kills + 1
    /\ UNCHANGED <<registry, volume, role, secrets, agents, op, daemon, ops>>

\* A command is killed.
Dies(i) ==
    /\ MayGoDown
    /\ op[i].kind # "idle"
    /\ half' = IF At(i, "purge", "secrets") THEN half \cup op[i].cluster ELSE half
    /\ End(i)
    /\ kills' = kills + 1
    /\ UNCHANGED <<registry, database, secret, admin, minted, agents, daemon, ops>>

\* Every container carries a restart policy of No.
Reboot ==
    /\ MayGoDown
    /\ half' = half \cup {c \in Cluster : \E i \in Cli :
                             At(i, "purge", "secrets") /\ c \in op[i].cluster}
    /\ op' = [i \in Cli |-> Idle]
    /\ instance' = [c \in Cluster |-> IF instance[c] = "none" THEN "none" ELSE "down"]
    /\ front' = [p \in Pooler |-> IF Up(p) THEN [front[p] EXCEPT !.state = "down"]
                                 ELSE front[p]]
    /\ hold' = [p \in Pooler |-> [c \in Cluster |-> "open"]]
    /\ lapsed' = Pooler \X Cluster
    /\ daemon' = {p \in Pooler : rows[p].phase = "running"}
    /\ kills' = kills + 1
    /\ UNCHANGED <<registry, volume, role, secret, admin, minted, ops>>

\* Boot recovery: an instance is started again, unless a command is at work on
\* its cluster, which is then recorded as applying, ...
ResumeInstance(c) ==
    /\ c \in known /\ instance[c] = "down"
    /\ \A i \in Cli : c \notin op[i].cluster
    /\ instance' = [instance EXCEPT ![c] = "starting"]
    /\ UNCHANGED <<registry, volume, role, secrets, agents, op, daemon, bounds>>

\* ... and so is every pooler that was listed as running: adopted, missing,
\* or started.  What was listed as applying is skipped.
ResumePooler(p) ==
    /\ p \in daemon
    /\ daemon' = daemon \ {p}
    /\ \/ /\ front[p].state \in {"created", "down"}
          /\ front' = [front EXCEPT ![p].state = "up"]
       \/ /\ front[p].state \in {"none", "up"} \/ CanFail("podman")
          /\ UNCHANGED front
    /\ UNCHANGED <<registry, database, secrets, hold, lapsed, op, bounds>>

-----------------------------------------------------------------------------
(* The specification.                                                      *)

Init ==
    /\ known = {} /\ rows = [p \in Pooler |-> NoRow]
    /\ instance = [c \in Cluster |-> "none"]
    /\ volume = {} /\ role = [c \in Cluster |-> 0]
    /\ secret = [c \in Cluster |-> 0] /\ admin = {} /\ minted = 0
    /\ front = [p \in Pooler |-> NoFront]
    /\ hold = [p \in Pooler |-> [c \in Cluster |-> "open"]]
    /\ lapsed = {}
    /\ op = [i \in Cli |-> Idle]
    /\ daemon = {} /\ half = {}
    /\ ops = 0 /\ kills = 0

Environment ==
    \/ \E c \in Cluster :
        \/ ApplyCluster(c) \/ DeleteCluster(c) \/ BecomesReady(c)
        \/ InstanceExits(c) \/ ResumeInstance(c)
        \/ \E p \in Pooler : DeadlineFires(p, c)
    \/ \E p \in Pooler : PoolerExits(p) \/ ResumePooler(p)
    \/ Reboot

Next ==
    \/ \E i \in Cli : \/ ApplyPoolerStep(i) \/ DeletePoolerStep(i)
                     \/ RecreateStep(i) \/ PurgeStep(i) \/ Dies(i)
    \/ Environment

Spec == Init /\ [][Next]_vars

-----------------------------------------------------------------------------
(* Properties.                                                             *)

RowState   == [manifest : Manifest \cup {NoManifest},
               phase : {"none", "applying", "running"}]
FrontState == [state : {"none", "created", "up", "down"},
               manifest : Manifest \cup {NoManifest},
               creds : [Cluster -> Nat]]
PcState    == {"idle", "resolve", "role", "alter", "drop", "store", "probe",
               "record", "create", "start", "confirm", "remove", "forget",
               "list", "acquire", "wait", "resume", "release", "check",
               "container", "volume", "secrets", "row"}
OpState    == [kind : {"idle", "apply", "delete", "recreate", "purge"},
               pc : PcState,
               manifest : Manifest \cup {NoManifest},
               pooler : SUBSET Pooler, cluster : SUBSET Cluster,
               left : SUBSET (Cluster \cup Pooler), held : SUBSET Pooler,
               seen : {"none", "created", "up", "down"}, pw : Nat]

TypeOK ==
    /\ known \in SUBSET Cluster
    /\ rows \in [Pooler -> RowState]
    /\ instance \in [Cluster -> {"none", "starting", "up", "down"}]
    /\ volume \in SUBSET Cluster
    /\ role \in [Cluster -> Nat]
    /\ secret \in [Cluster -> Nat]
    /\ admin \in SUBSET Pooler
    /\ minted \in Nat
    /\ front \in [Pooler -> FrontState]
    /\ hold \in [Pooler -> [Cluster -> {"open", "held", "stuck"}]]
    /\ lapsed \in SUBSET (Pooler \X Cluster)
    /\ op \in [Cli -> OpState]
    /\ daemon \in SUBSET Pooler /\ half \in SUBSET Cluster
    /\ ops \in Nat /\ kills \in Nat

\* "Secret exists has to mean the role in the database already has this
\* password" (ensure_pooler_role): wherever an apply stops, and whatever purges
\* and applies follow it, as long as no purge is cut short.
SecretMeansRole ==
    \A c \in volume \ half : secret[c] # 0 => role[c] = secret[c]

\* What a pooler mounted when it was created still opens every database it
\* fronts: nothing that is done to its clusters, short of deleting the pooler
\* first, takes that from it.
PoolersCanLogIn ==
    \A p \in Pooler : front[p].state # "none" =>
        \A c \in Fronts[front[p].manifest] \ half :
            c \in volume /\ front[p].creds[c] = role[c]

\* A refused or interrupted apply does not leave "the registry describing a
\* pooler that was never created": the clusters, pools and settings a container
\* was made with are those its row says.  The image, the host port, the user
\* and the group are not compared, and may be those of an older manifest.
RowDescribesPooler ==
    \A p \in Pooler : front[p].state # "none" =>
        /\ rows[p].manifest # NoManifest
        /\ SpecOf[rows[p].manifest] = SpecOf[front[p].manifest]

\* "Half a hold is worse than none", and "releasing the hold before postgres
\* is accepting connections would hand every held client a refused
\* connection": from the removal of the instance to the end of the command, a
\* pooler that fronts the cluster lets clients through only when its budget
\* ran out, when it went down, or when the instance takes them or has died.
Replacing(i, c) ==
    /\ op[i].kind = "recreate" /\ c \in op[i].cluster
    /\ op[i].pc \in {"create", "wait", "resume"}

HeldThroughout ==
    \A i \in Cli, c \in Cluster : Replacing(i, c) =>
        \A p \in Fronting(c) :
            \/ hold[p][c] # "open" \/ <<p, c>> \in lapsed
            \/ instance[c] \in {"up", "down"}

=============================================================================
