---------------------------- MODULE PoolersProofs ----------------------------
(***************************************************************************)
(* Proofs about Poolers: its type invariant for every value of the         *)
(* constants, and its safety invariants for commands that take turns.      *)
(***************************************************************************)
EXTENDS Poolers, TLAPS

-----------------------------------------------------------------------------
(* The inductive invariant.                                                *)

\* Commands take turns.
Solo == \A i, j \in Cli : op[i].kind # "idle" /\ op[j].kind # "idle" => i = j

One(S) == \A x, y \in S : x = y

Minting   == {"alter", "drop", "store"}
Recording == {"record", "create", "start", "confirm"}
Recorded  == {"create", "start", "confirm"}

\* An apply of a pooler: the role it is at has no secret, and has the password
\* the apply carries once it was altered; what runs under the pooler's name is
\* nothing, or has the spec that is applied, and then the row is the apply's.
ApplyInv(i) ==
    op[i].kind = "apply" =>
        /\ op[i].manifest \in Manifest
        /\ One(op[i].pooler) /\ One(op[i].cluster)
        /\ op[i].pc \in Minting =>
              \A c \in op[i].cluster : secret[c] = 0 /\ c \in volume
        /\ op[i].pc \in {"drop", "store"} =>
              \A c \in op[i].cluster : role[c] = op[i].pw
        /\ op[i].pc \in Recording => \A p \in op[i].pooler : Adoptable(i, p)
        /\ op[i].pc \in Recorded => \A p \in op[i].pooler :
              rows[p].manifest = op[i].manifest

DeleteInv(i) ==
    op[i].kind = "delete" =>
        /\ One(op[i].pooler)
        /\ op[i].pc = "forget" => \A p \in op[i].pooler : front[p].state = "none"

\* A recreate: every pooler that fronts the cluster is still to be held, or
\* held, or was let go by its own deadline.
RecreateInv(i) ==
    op[i].kind = "recreate" =>
        /\ One(op[i].cluster) /\ op[i].cluster \subseteq volume
        /\ op[i].pc \in {"acquire", "create", "wait"} =>
              \A c \in op[i].cluster : \A p \in Fronting(c) :
                 p \in op[i].left \/ hold[p][c] # "open" \/ <<p, c>> \in lapsed
        /\ op[i].pc \in {"create", "wait"} => op[i].left = {}
        /\ op[i].pc = "resume" =>
              \A c \in op[i].cluster : instance[c] \in {"up", "down"}

\* A purge that was let through: no pooler fronts the cluster.
PurgeInv(i) ==
    op[i].kind = "purge" =>
        /\ One(op[i].cluster)
        /\ op[i].pc \in {"container", "volume", "secrets", "row"} =>
              \A c \in op[i].cluster : Fronting(c) = {}
        /\ op[i].pc = "volume" => \A c \in op[i].cluster : instance[c] = "none"

OpInv(i) == ApplyInv(i) /\ DeleteInv(i) /\ RecreateInv(i) /\ PurgeInv(i)

\* What a pooler's container is: made to the spec its row asks for, with
\* credentials that are those of the secrets and of the roles.
FrontInv ==
    /\ \A p \in Pooler : front[p].state = "none" <=> front[p].manifest = NoManifest
    /\ RowDescribesPooler
    /\ \A p \in Pooler : front[p].state # "none" =>
        \A c \in Fronts[front[p].manifest] \ half :
            /\ c \in volume
            /\ front[p].creds[c] = role[c]
            /\ secret[c] = role[c] /\ secret[c] # 0

\* A secret without a volume is one that a purge has not come to yet.
NoSecretOfNothing ==
    \A c \in Cluster \ (volume \cup half) :
        \/ secret[c] = 0
        \/ \E i \in Cli : At(i, "purge", "secrets") /\ c \in op[i].cluster

InstanceInv == \A c \in Cluster : instance[c] # "none" => c \in volume

World == FrontInv /\ NoSecretOfNothing /\ SecretMeansRole /\ InstanceInv

SerialInv ==
    /\ TypeOK /\ Solo
    /\ \A i \in Cli : OpInv(i)
    /\ World

-----------------------------------------------------------------------------
(* Lemmas about the updates the actions share.                             *)

\* A command that takes something down on its way.
LEMMA NoteStep ==
    ASSUME TypeOK, NEW i \in Cli, NEW r \in OpState, op' = [op EXCEPT ![i] = r]
    PROVE  /\ op' \in [Cli -> OpState]
           /\ op'[i] = r
           /\ \A j \in Cli : j # i => op'[j] = op[j]
  BY DEF TypeOK

\* A command that only moves on keeps everything it carries.
LEMMA GotoStep ==
    ASSUME TypeOK, NEW i \in Cli, NEW pc \in PcState, Goto(i, pc)
    PROVE  /\ op' \in [Cli -> OpState]
           /\ op'[i].kind = op[i].kind /\ op'[i].pc = pc
           /\ op'[i].manifest = op[i].manifest
           /\ op'[i].pooler = op[i].pooler /\ op'[i].cluster = op[i].cluster
           /\ op'[i].left = op[i].left /\ op'[i].held = op[i].held
           /\ op'[i].seen = op[i].seen /\ op'[i].pw = op[i].pw
           /\ \A j \in Cli : j # i => op'[j] = op[j]
  <1> DEFINE r == [op[i] EXCEPT !.pc = pc]
  <1>1. op[i] \in OpState
    BY DEF TypeOK
  <1>2. /\ r \in OpState
        /\ r.kind = op[i].kind /\ r.pc = pc /\ r.manifest = op[i].manifest
        /\ r.pooler = op[i].pooler /\ r.cluster = op[i].cluster
        /\ r.left = op[i].left /\ r.held = op[i].held
        /\ r.seen = op[i].seen /\ r.pw = op[i].pw
    BY <1>1 DEF OpState
  <1>3. op' = [op EXCEPT ![i] = r]
    BY DEF Goto
  <1> HIDE DEF r
  <1> QED  BY <1>2, <1>3, NoteStep

LEMMA IdleTyped == Idle \in OpState /\ Idle.kind = "idle" /\ Idle.pc = "idle"
  BY DEF Idle, OpState, PcState

\* A slot that is free again.
LEMMA EndStep ==
    ASSUME TypeOK, NEW i \in Cli, End(i)
    PROVE  /\ op' \in [Cli -> OpState]
           /\ op'[i] = Idle /\ op'[i].kind = "idle"
           /\ \A j \in Cli : j # i => op'[j] = op[j]
  BY IdleTyped, NoteStep DEF End

-----------------------------------------------------------------------------
(* The type invariant.                                                     *)

\* A command's step moves that command only.
Moves(i) == /\ op' \in [Cli -> OpState]
            /\ \A j \in Cli : j # i => op'[j] = op[j]

\* The steps that take nothing but what they carry.
LEMMA GoesOrEnds ==
    ASSUME TypeOK, NEW i \in Cli, NEW pc \in PcState, Goto(i, pc) \/ End(i)
    PROVE  Moves(i)
  BY GotoStep, EndStep DEF Moves

LEMMA BeginMoves ==
    ASSUME TypeOK, NEW i \in Cli,
           ApplyPooler(i) \/ DeletePooler(i) \/ Recreate(i) \/ Purge(i)
    PROVE  Moves(i) /\ TypeOK'
  <1>1. PICK r \in OpState : Begin(i, r)
    <2>1. CASE ApplyPooler(i)
      <3>1. PICK p \in Pooler, m \in Manifest :
              Begin(i, [Idle EXCEPT !.kind = "apply", !.pc = "resolve",
                        !.manifest = m, !.pooler = {p}, !.left = Fronts[m]])
        BY <2>1 DEF ApplyPooler
      <3>2. Fronts[m] \in SUBSET (Cluster \cup Pooler)
        BY PoolersOK
      <3> QED  BY <3>1, <3>2 DEF Idle, OpState, PcState
    <2>2. CASE DeletePooler(i)
      <3>1. PICK p \in Pooler :
              Begin(i, [Idle EXCEPT !.kind = "delete", !.pc = "remove", !.pooler = {p}])
        BY <2>2 DEF DeletePooler
      <3> QED  BY <3>1 DEF Idle, OpState, PcState
    <2>3. CASE Recreate(i)
      <3>1. PICK c \in Cluster :
              Begin(i, [Idle EXCEPT !.kind = "recreate", !.pc = "list", !.cluster = {c}])
        BY <2>3 DEF Recreate
      <3> QED  BY <3>1 DEF Idle, OpState, PcState
    <2>4. CASE Purge(i)
      <3>1. PICK c \in Cluster :
              Begin(i, [Idle EXCEPT !.kind = "purge", !.pc = "check", !.cluster = {c}])
        BY <2>4 DEF Purge
      <3> QED  BY <3>1 DEF Idle, OpState, PcState
    <2> QED  BY <2>1, <2>2, <2>3, <2>4
  <1>2. Moves(i)
    BY <1>1, NoteStep DEF Begin, Moves
  <1>3. UNCHANGED <<registry, database, secrets, agents, daemon, kills>> /\ ops' \in Nat
    BY <1>1 DEF Begin, TypeOK
  <1> QED
    BY <1>2, <1>3 DEF TypeOK, Moves, registry, database, secrets, agents

\* Where a step that takes something down leaves its command.
LEMMA FindSecretOp ==
    ASSUME TypeOK, NEW i \in Cli, NEW c \in Cluster, FindSecret(i, c)
    PROVE  /\ Moves(i)
           /\ \/ /\ op'[i].kind = "apply" /\ op'[i].pc = "role"
                 /\ op'[i].manifest = op[i].manifest
                 /\ op'[i].pooler = op[i].pooler /\ op'[i].cluster = op[i].cluster
              \/ /\ op'[i].kind = "apply" /\ op'[i].pc = "alter"
                 /\ op'[i].manifest = op[i].manifest
                 /\ op'[i].pooler = op[i].pooler /\ op'[i].cluster = {c}
                 /\ secret[c] = 0 /\ instance[c] = "up"
              \/ op'[i] = Idle
  <1>0. op[i] \in OpState /\ op[i].kind = "apply" /\ op[i].pc = "role"
    BY DEF TypeOK, FindSecret, At
  <1> DEFINE r1 == [op[i] EXCEPT !.left = @ \ {c}]
             r2 == [op[i] EXCEPT !.pc = "alter", !.cluster = {c}]
  <1>1. /\ r1 \in OpState /\ r1.kind = "apply" /\ r1.pc = "role"
        /\ r1.manifest = op[i].manifest
        /\ r1.pooler = op[i].pooler /\ r1.cluster = op[i].cluster
    BY <1>0 DEF OpState
  <1>2. /\ r2 \in OpState /\ r2.kind = "apply" /\ r2.pc = "alter"
        /\ r2.manifest = op[i].manifest
        /\ r2.pooler = op[i].pooler /\ r2.cluster = {c}
    BY <1>0 DEF OpState, PcState
  <1>3. \/ op' = [op EXCEPT ![i] = r1]
        \/ op' = [op EXCEPT ![i] = r2] /\ secret[c] = 0 /\ instance[c] = "up"
        \/ End(i)
    BY DEF FindSecret, Fails
  <1> HIDE DEF r1, r2
  <1> QED  BY <1>1, <1>2, <1>3, NoteStep, EndStep DEF Moves

LEMMA AlterRoleOp ==
    ASSUME TypeOK, NEW i \in Cli, NEW c \in Cluster, AlterRole(i, c)
    PROVE  /\ Moves(i)
           /\ \/ /\ op'[i].kind = "apply" /\ op'[i].pc = "drop"
                 /\ op'[i].manifest = op[i].manifest /\ op'[i].pw = minted + 1
                 /\ op'[i].pooler = op[i].pooler /\ op'[i].cluster = op[i].cluster
                 /\ role' = [role EXCEPT ![c] = minted + 1]
              \/ op'[i] = Idle
           /\ role' = role \/ role' = [role EXCEPT ![c] = minted + 1]
  <1>0. op[i] \in OpState /\ op[i].kind = "apply" /\ op[i].pc = "alter"
    BY DEF TypeOK, AlterRole, At
  <1>00. PICK w \in Nat : w = minted + 1
    BY DEF TypeOK
  <1> DEFINE r == [op[i] EXCEPT !.pc = "drop", !.pw = w]
  <1>1. /\ r \in OpState /\ r.kind = "apply" /\ r.pc = "drop" /\ r.pw = w
        /\ r.manifest = op[i].manifest
        /\ r.pooler = op[i].pooler /\ r.cluster = op[i].cluster
    BY <1>0 DEF OpState, PcState
  <1>2. \/ op' = [op EXCEPT ![i] = r] /\ role' = [role EXCEPT ![c] = minted + 1]
        \/ End(i)
    BY <1>00 DEF AlterRole, Fails
  <1>3. role' = role \/ role' = [role EXCEPT ![c] = minted + 1]
    BY DEF AlterRole
  <1> HIDE DEF r
  <1> QED  BY <1>00, <1>1, <1>2, <1>3, NoteStep, EndStep DEF Moves

LEMMA StoreSecretOp ==
    ASSUME TypeOK, NEW i \in Cli, NEW c \in Cluster, StoreSecret(i, c)
    PROVE  /\ Moves(i)
           /\ \/ /\ op'[i].kind = "apply" /\ op'[i].pc = "role"
                 /\ op'[i].manifest = op[i].manifest
                 /\ op'[i].pooler = op[i].pooler /\ op'[i].cluster = {}
              \/ op'[i] = Idle
           /\ secret' = secret \/ secret' = [secret EXCEPT ![c] = op[i].pw]
  <1>0. op[i] \in OpState /\ op[i].kind = "apply"
    BY DEF TypeOK, StoreSecret, At
  <1> DEFINE r == [op[i] EXCEPT !.pc = "role", !.left = @ \ {c}, !.cluster = {}]
  <1>1. /\ r \in OpState /\ r.kind = "apply" /\ r.pc = "role"
        /\ r.manifest = op[i].manifest
        /\ r.pooler = op[i].pooler /\ r.cluster = {}
    BY <1>0 DEF OpState, PcState
  <1>2. op' = [op EXCEPT ![i] = r] \/ End(i)
    BY DEF StoreSecret
  <1>3. secret' = secret \/ secret' = [secret EXCEPT ![c] = op[i].pw]
    BY DEF StoreSecret
  <1> HIDE DEF r
  <1> QED  BY <1>1, <1>2, <1>3, NoteStep, EndStep DEF Moves

LEMMA ProbePoolerOp ==
    ASSUME TypeOK, NEW i \in Cli, NEW p \in Pooler, ProbePooler(i, p)
    PROVE  /\ Moves(i)
           /\ \/ /\ op'[i].kind = "apply" /\ op'[i].pc = "record"
                 /\ op'[i].manifest = op[i].manifest
                 /\ op'[i].pooler = op[i].pooler /\ op'[i].cluster = op[i].cluster
                 /\ Adoptable(i, p)
              \/ op'[i] = Idle
  <1>0. op[i] \in OpState /\ op[i].kind = "apply"
    BY DEF TypeOK, ProbePooler, At
  <1> DEFINE r == [op[i] EXCEPT !.pc = "record", !.seen = front[p].state]
  <1>1. /\ r \in OpState /\ r.kind = "apply" /\ r.pc = "record"
        /\ r.manifest = op[i].manifest
        /\ r.pooler = op[i].pooler /\ r.cluster = op[i].cluster
    <2>0. front[p] \in FrontState
      BY DEF TypeOK
    <2>1. front[p].state \in {"none", "created", "up", "down"}
      BY <2>0 DEF FrontState
    <2> QED  BY <1>0, <2>1 DEF OpState, PcState
  <1>2. \/ /\ op' = [op EXCEPT ![i] = r]
           /\ Adoptable(i, p)
        \/ End(i)
    BY DEF ProbePooler, Fails
  <1> HIDE DEF r
  <1> QED  BY <1>1, <1>2, NoteStep, EndStep DEF Moves

LEMMA ListPoolersOp ==
    ASSUME TypeOK, NEW i \in Cli, NEW c \in Cluster, ListPoolers(i, c)
    PROVE  /\ Moves(i)
           /\ op'[i].kind = "recreate" /\ op'[i].pc = "acquire"
           /\ op'[i].left = Fronting(c) /\ op'[i].cluster = op[i].cluster
  <1>0. op[i] \in OpState /\ op[i].kind = "recreate" /\ Fronting(c) \subseteq Pooler
    BY DEF TypeOK, ListPoolers, At, Fronting
  <1> DEFINE r == [op[i] EXCEPT !.pc = "acquire", !.left = Fronting(c)]
  <1>1. /\ r \in OpState /\ r.kind = "recreate" /\ r.pc = "acquire"
        /\ r.left = Fronting(c) /\ r.cluster = op[i].cluster
    BY <1>0 DEF OpState, PcState
  <1>2. op' = [op EXCEPT ![i] = r]
    BY DEF ListPoolers
  <1> HIDE DEF r
  <1> QED  BY <1>1, <1>2, NoteStep DEF Moves

LEMMA PauseOp ==
    ASSUME TypeOK, NEW i \in Cli, NEW c \in Cluster, NEW p \in Pooler, Pause(i, c, p)
    PROVE  /\ Moves(i)
           /\ op'[i].kind = "recreate" /\ op'[i].cluster = op[i].cluster
           /\ \/ op'[i].pc = "release"
              \/ /\ op'[i].pc = "acquire" /\ op'[i].left = op[i].left \ {p}
                 /\ hold' = [hold EXCEPT ![p][c] = "held"]
                 /\ lapsed' = lapsed \ {<<p, c>>}
           /\ \/ UNCHANGED hold
              \/ hold' = [hold EXCEPT ![p][c] = "held"]
              \/ hold' = [hold EXCEPT ![p][c] = "stuck"]
           /\ lapsed' \subseteq lapsed
  <1>0. op[i] \in OpState /\ op[i].kind = "recreate" /\ op[i].pc = "acquire"
    BY DEF TypeOK, Pause, At
  <1> DEFINE r == [op[i] EXCEPT !.left = @ \ {p}, !.held = @ \cup {p}]
  <1>1. /\ r \in OpState /\ r.kind = "recreate" /\ r.pc = "acquire"
        /\ r.left = op[i].left \ {p} /\ r.cluster = op[i].cluster
    BY <1>0 DEF OpState
  <1>2. \/ /\ op' = [op EXCEPT ![i] = r]
           /\ hold' = [hold EXCEPT ![p][c] = "held"]
           /\ lapsed' = lapsed \ {<<p, c>>}
        \/ Goto(i, "release")
    BY DEF Pause
  <1>3. /\ \/ UNCHANGED hold
           \/ hold' = [hold EXCEPT ![p][c] = "held"]
           \/ hold' = [hold EXCEPT ![p][c] = "stuck"]
        /\ lapsed' \subseteq lapsed
    BY DEF Pause
  <1>4. "release" \in PcState
    BY DEF PcState
  <1> HIDE DEF r
  <1> QED  BY <1>0, <1>1, <1>2, <1>3, <1>4, NoteStep, GotoStep DEF Moves

LEMMA ReleaseOp ==
    ASSUME TypeOK, NEW i \in Cli, NEW c \in Cluster, NEW p \in Pooler,
           ReleaseAfterRecreate(i, c, p) \/ Release(i, c, p)
    PROVE  /\ Moves(i)
           /\ \/ /\ op'[i].kind = "recreate" /\ op'[i].pc = op[i].pc
                 /\ op'[i].cluster = op[i].cluster
              \/ op'[i] = Idle
           /\ \/ UNCHANGED hold
              \/ hold' = [hold EXCEPT ![p][c] = "open"]
              \/ hold' = [hold EXCEPT ![p][c] = "stuck"]
  <1>0. op[i] \in OpState /\ op[i].kind = "recreate"
    BY DEF TypeOK, ReleaseAfterRecreate, Release, At
  <1> DEFINE r == [op[i] EXCEPT !.held = @ \ {p}]
  <1>1. /\ r \in OpState /\ r.kind = "recreate" /\ r.pc = op[i].pc
        /\ r.cluster = op[i].cluster
    BY <1>0 DEF OpState
  <1>2. op' = [op EXCEPT ![i] = r] \/ End(i)
    BY DEF ReleaseAfterRecreate, Release
  <1>3. \/ UNCHANGED hold
        \/ hold' = [hold EXCEPT ![p][c] = "open"]
        \/ hold' = [hold EXCEPT ![p][c] = "stuck"]
    BY DEF ReleaseAfterRecreate, Release, Resumed
  <1> HIDE DEF r
  <1> QED  BY <1>1, <1>2, <1>3, NoteStep, EndStep DEF Moves

\* The steps that change a command's locals and nothing else.
LEMMA ReadingTyped ==
    ASSUME TypeOK, NEW i \in Cli, Moves(i),
           UNCHANGED <<registry, database, secrets, agents, daemon, bounds>>
    PROVE  TypeOK'
  <1>1. UNCHANGED <<known, rows, instance, volume, role, secret, admin, minted,
                    half, front, hold, lapsed, daemon, ops, kills>>
    BY DEF registry, database, secrets, agents, bounds
  <1> QED  BY <1>1 DEF TypeOK, Moves

LEMMA ReadingSteps ==
    ASSUME TypeOK, NEW i \in Cli,
           \/ Resolve(i) \/ Released(i)
           \/ \E c \in Cluster : \/ FindSecret(i, c) \/ ListPoolers(i, c)
                                 \/ WaitReady(i, c) \/ RefuseIfFronted(i, c)
           \/ \E p \in Pooler : ProbePooler(i, p)
    PROVE  /\ Moves(i) /\ TypeOK'
           /\ UNCHANGED <<registry, database, secrets, agents, daemon, bounds>>
  <1>1. UNCHANGED <<registry, database, secrets, agents, daemon, bounds>>
    BY DEF Resolve, FindSecret, ProbePooler, ListPoolers, WaitReady, Released,
           RefuseIfFronted
  <1>2. {"role", "resume", "release", "container"} \subseteq PcState
    BY DEF PcState
  <1>3. Moves(i)
    <2>1. CASE \/ Resolve(i) \/ Released(i)
               \/ \E c \in Cluster : WaitReady(i, c) \/ RefuseIfFronted(i, c)
      <3>1. \E pc \in PcState : Goto(i, pc) \/ End(i)
        BY <1>2, <2>1 DEF Resolve, WaitReady, Released, RefuseIfFronted
      <3> QED  BY <3>1, GoesOrEnds
    <2>2. CASE \/ \E c \in Cluster : FindSecret(i, c) \/ ListPoolers(i, c)
               \/ \E p \in Pooler : ProbePooler(i, p)
      BY <2>2, FindSecretOp, ProbePoolerOp, ListPoolersOp
    <2> QED  BY <2>1, <2>2
  <1> QED  BY <1>1, <1>3, ReadingTyped

LEMMA ApplyTyped ==
    ASSUME TypeOK, NEW i \in Cli,
           \/ \E c \in Cluster : AlterRole(i, c) \/ DropSecret(i, c) \/ StoreSecret(i, c)
           \/ \E p \in Pooler : \/ AdminSecret(i, p) \/ PutApplying(i, p)
                                \/ CreatePooler(i, p) \/ StartPooler(i, p)
                                \/ PutRunning(i, p)
    PROVE  Moves(i) /\ TypeOK'
  <1>0. op[i] \in OpState
    BY DEF TypeOK
  <1>1. ASSUME NEW c \in Cluster,
               AlterRole(i, c)
        PROVE  Moves(i) /\ TypeOK'
    <2>1. minted' \in Nat /\ role' \in [Cluster -> Nat]
      BY <1>1, AlterRoleOp DEF TypeOK, AlterRole
    <2>2. UNCHANGED <<known, rows, instance, volume, secret, admin, half, front,
                      hold, lapsed, daemon, ops, kills>>
      BY <1>1 DEF AlterRole, registry, agents, bounds
    <2> QED  BY <1>1, <2>1, <2>2, AlterRoleOp DEF TypeOK, Moves
  <1>2. ASSUME NEW c \in Cluster,
               DropSecret(i, c)
        PROVE  Moves(i) /\ TypeOK'
    <2>1. secret' \in [Cluster -> Nat]
      BY <1>2 DEF DropSecret, TypeOK
    <2>2. UNCHANGED <<known, rows, instance, volume, role, admin, minted, half,
                      front, hold, lapsed, daemon, ops, kills>>
      BY <1>2 DEF DropSecret, registry, database, agents, bounds
    <2>3. Moves(i)
      BY <1>2, GoesOrEnds DEF DropSecret, PcState
    <2> QED  BY <2>1, <2>2, <2>3 DEF TypeOK, Moves
  <1>3. ASSUME NEW c \in Cluster,
               StoreSecret(i, c)
        PROVE  Moves(i) /\ TypeOK'
    <2>1. secret' \in [Cluster -> Nat]
      BY <1>0, <1>3, StoreSecretOp DEF TypeOK, OpState
    <2>2. UNCHANGED <<known, rows, instance, volume, role, admin, minted, half,
                      front, hold, lapsed, daemon, ops, kills>>
      BY <1>3 DEF StoreSecret, registry, database, agents, bounds
    <2> QED  BY <1>3, <2>1, <2>2, StoreSecretOp DEF TypeOK, Moves
  <1>4. ASSUME NEW p \in Pooler,
               AdminSecret(i, p)
        PROVE  Moves(i) /\ TypeOK'
    <2>1. admin' \in SUBSET Pooler
      BY <1>4 DEF AdminSecret, TypeOK
    <2>2. UNCHANGED <<known, rows, instance, volume, role, secret, minted, half,
                      front, hold, lapsed, daemon, ops, kills>>
      BY <1>4 DEF AdminSecret, registry, database, agents, bounds
    <2>3. Moves(i)
      BY <1>4, GoesOrEnds DEF AdminSecret, Fails, PcState
    <2> QED  BY <2>1, <2>2, <2>3 DEF TypeOK, Moves
  <1>5. ASSUME NEW p \in Pooler,
               PutApplying(i, p) \/ PutRunning(i, p)
        PROVE  Moves(i) /\ TypeOK'
    <2>1. rows' \in [Pooler -> RowState]
      <3>1. /\ [manifest |-> op[i].manifest, phase |-> "applying"] \in RowState
            /\ [manifest |-> op[i].manifest, phase |-> "running"] \in RowState
        BY <1>0 DEF RowState, OpState
      <3>2. \/ UNCHANGED rows
            \/ \E r \in RowState : rows' = [rows EXCEPT ![p] = r]
        BY <1>5, <3>1 DEF PutApplying, PutRunning, PutPooler
      <3> QED  BY <3>2 DEF TypeOK
    <2>2. UNCHANGED <<known, instance, volume, role, secret, admin, minted, half,
                      front, hold, lapsed, daemon, ops, kills>>
      BY <1>5 DEF PutApplying, PutRunning, PutPooler, database, secrets, agents, bounds
    <2>3. Moves(i)
      BY <1>5, GoesOrEnds DEF PutApplying, PutRunning, PcState
    <2> QED  BY <2>1, <2>2, <2>3 DEF TypeOK, Moves
  <1>6. ASSUME NEW p \in Pooler,
               CreatePooler(i, p)
        PROVE  Moves(i) /\ TypeOK'
    <2> DEFINE f == [state |-> "created", manifest |-> op[i].manifest,
                     creds |-> [d \in Cluster |->
                        IF d \in Fronts[op[i].manifest] THEN secret[d] ELSE 0]]
    <2>1. f \in FrontState
      BY <1>0 DEF FrontState, TypeOK, OpState
    <2>2. UNCHANGED front \/ front' = [front EXCEPT ![p] = f]
      BY <1>6 DEF CreatePooler
    <2> HIDE DEF f
    <2>3. front' \in [Pooler -> FrontState]
      BY <2>1, <2>2 DEF TypeOK
    <2>4. UNCHANGED <<known, rows, instance, volume, role, secret, admin, minted,
                      half, hold, lapsed, daemon, ops, kills>>
      BY <1>6 DEF CreatePooler, registry, database, secrets, bounds
    <2>5. Moves(i)
      BY <1>6, GoesOrEnds DEF CreatePooler, PcState
    <2> QED  BY <2>3, <2>4, <2>5 DEF TypeOK, Moves
  <1>7. ASSUME NEW p \in Pooler,
               StartPooler(i, p)
        PROVE  Moves(i) /\ TypeOK'
    <2>1. front' \in [Pooler -> FrontState]
      <3>0. front[p] \in FrontState
        BY DEF TypeOK
      <3>1. [front[p] EXCEPT !.state = "up"] \in FrontState
        BY <3>0 DEF FrontState
      <3>2. \/ UNCHANGED front
            \/ front' = [front EXCEPT ![p] = [front[p] EXCEPT !.state = "up"]]
        BY <1>7 DEF StartPooler
      <3> QED  BY <3>1, <3>2 DEF TypeOK
    <2>2. UNCHANGED <<known, rows, instance, volume, role, secret, admin, minted,
                      half, hold, lapsed, daemon, ops, kills>>
      BY <1>7 DEF StartPooler, registry, database, secrets, bounds
    <2>3. Moves(i)
      BY <1>7, GoesOrEnds DEF StartPooler, PcState
    <2> QED  BY <2>1, <2>2, <2>3 DEF TypeOK, Moves
  <1> QED  BY <1>1, <1>2, <1>3, <1>4, <1>5, <1>6, <1>7

LEMMA HoldTyped ==
    ASSUME TypeOK, NEW i \in Cli,
           \/ \E p \in Pooler : RemovePooler(i, p) \/ ForgetPooler(i, p)
           \/ \E c \in Cluster, p \in Pooler :
                Pause(i, c, p) \/ ReleaseAfterRecreate(i, c, p) \/ Release(i, c, p)
           \/ \E c \in Cluster : RemoveInstance(i, c) \/ CreateInstance(i, c)
    PROVE  Moves(i) /\ TypeOK'
  <1>1. ASSUME NEW p \in Pooler,
               RemovePooler(i, p)
        PROVE  Moves(i) /\ TypeOK'
    <2>1. NoFront \in FrontState /\ [d \in Cluster |-> "open"] \in
             [Cluster -> {"open", "held", "stuck"}]
      BY DEF NoFront, FrontState
    <2>2. /\ front' \in [Pooler -> FrontState]
          /\ hold' \in [Pooler -> [Cluster -> {"open", "held", "stuck"}]]
          /\ lapsed' \in SUBSET (Pooler \X Cluster)
      <3>1. \/ /\ front' = [front EXCEPT ![p] = NoFront]
               /\ hold' = [hold EXCEPT ![p] = [d \in Cluster |-> "open"]]
               /\ lapsed' = lapsed \cup ({p} \X Cluster)
            \/ UNCHANGED <<front, hold, lapsed>>
        BY <1>1 DEF RemovePooler, agents
      <3>2. {p} \X Cluster \subseteq Pooler \X Cluster
        OBVIOUS
      <3>3. lapsed' \in SUBSET (Pooler \X Cluster)
        BY <3>1, <3>2 DEF TypeOK
      <3>4. front' \in [Pooler -> FrontState]
        BY <2>1, <3>1 DEF TypeOK
      <3>5. hold' \in [Pooler -> [Cluster -> {"open", "held", "stuck"}]]
        BY <2>1, <3>1 DEF TypeOK
      <3> QED  BY <3>3, <3>4, <3>5
    <2>3. UNCHANGED <<known, rows, instance, volume, role, secret, admin, minted,
                      half, daemon, ops, kills>>
      BY <1>1 DEF RemovePooler, registry, database, secrets, bounds
    <2>4. Moves(i)
      BY <1>1, GoesOrEnds DEF RemovePooler, Fails, PcState
    <2> QED  BY <2>2, <2>3, <2>4 DEF TypeOK, Moves
  <1>2. ASSUME NEW p \in Pooler,
               ForgetPooler(i, p)
        PROVE  Moves(i) /\ TypeOK'
    <2>1. NoRow \in RowState
      BY DEF NoRow, RowState
    <2>2. rows' \in [Pooler -> RowState]
      BY <1>2, <2>1 DEF ForgetPooler, TypeOK
    <2>3. UNCHANGED <<known, instance, volume, role, secret, admin, minted, half,
                      front, hold, lapsed, daemon, ops, kills>>
      BY <1>2 DEF ForgetPooler, database, secrets, agents, bounds
    <2>4. Moves(i)
      BY <1>2, EndStep DEF ForgetPooler, Moves
    <2> QED  BY <2>2, <2>3, <2>4 DEF TypeOK, Moves
  <1>3. ASSUME NEW c \in Cluster, NEW p \in Pooler,
               Pause(i, c, p) \/ ReleaseAfterRecreate(i, c, p) \/ Release(i, c, p)
        PROVE  Moves(i) /\ TypeOK'
    <2>1. /\ hold' \in [Pooler -> [Cluster -> {"open", "held", "stuck"}]]
          /\ lapsed' \in SUBSET (Pooler \X Cluster)
      <3>1. \/ UNCHANGED hold
            \/ \E h \in {"open", "held", "stuck"} : hold' = [hold EXCEPT ![p][c] = h]
        BY <1>3, PauseOp, ReleaseOp
      <3>2. lapsed' \subseteq lapsed
        BY <1>3, PauseOp DEF ReleaseAfterRecreate, Release
      <3>3. hold' \in [Pooler -> [Cluster -> {"open", "held", "stuck"}]]
        <4>1. CASE UNCHANGED hold
          BY <4>1 DEF TypeOK
        <4>2. ASSUME NEW h \in {"open", "held", "stuck"},
                     hold' = [hold EXCEPT ![p][c] = h]
              PROVE  hold' \in [Pooler -> [Cluster -> {"open", "held", "stuck"}]]
          BY <4>2 DEF TypeOK
        <4> QED  BY <3>1, <4>1, <4>2
      <3>4. lapsed' \in SUBSET (Pooler \X Cluster)
        BY <3>2 DEF TypeOK
      <3> QED  BY <3>3, <3>4
    <2>2. UNCHANGED <<known, rows, instance, volume, role, secret, admin, minted,
                      half, front, daemon, ops, kills>>
      BY <1>3 DEF Pause, ReleaseAfterRecreate, Release, registry, database, secrets,
                  bounds
    <2> QED  BY <1>3, <2>1, <2>2, PauseOp, ReleaseOp DEF TypeOK, Moves
  <1>4. ASSUME NEW c \in Cluster,
               RemoveInstance(i, c) \/ CreateInstance(i, c)
        PROVE  Moves(i) /\ TypeOK'
    <2>1. instance' \in [Cluster -> {"none", "starting", "up", "down"}]
      BY <1>4 DEF RemoveInstance, CreateInstance, TypeOK
    <2>2. UNCHANGED <<known, rows, volume, role, secret, admin, minted, half,
                      front, hold, lapsed, daemon, ops, kills>>
      BY <1>4 DEF RemoveInstance, CreateInstance, registry, secrets, agents, bounds
    <2>3. Moves(i)
      BY <1>4, GoesOrEnds DEF RemoveInstance, CreateInstance, PcState
    <2> QED  BY <2>1, <2>2, <2>3 DEF TypeOK, Moves
  <1> QED  BY <1>1, <1>2, <1>3, <1>4

LEMMA PurgeTyped ==
    ASSUME TypeOK, NEW i \in Cli,
           \/ \E c \in Cluster : \/ PurgeContainer(i, c) \/ PurgeVolume(i, c)
                                 \/ PurgeSecret(i, c) \/ PurgeRow(i, c)
           \/ Dies(i)
    PROVE  Moves(i) /\ TypeOK'
  <1>0. op[i] \in OpState
    BY DEF TypeOK
  <1>1. ASSUME NEW c \in Cluster,
               PurgeContainer(i, c)
        PROVE  Moves(i) /\ TypeOK'
    <2>1. instance' \in [Cluster -> {"none", "starting", "up", "down"}]
      BY <1>1 DEF PurgeContainer, TypeOK
    <2>2. UNCHANGED <<known, rows, volume, role, secret, admin, minted, half,
                      front, hold, lapsed, daemon, ops, kills>>
      BY <1>1 DEF PurgeContainer, registry, secrets, agents, bounds
    <2>3. Moves(i)
      BY <1>1, GoesOrEnds DEF PurgeContainer, Fails, PcState
    <2> QED  BY <2>1, <2>2, <2>3 DEF TypeOK, Moves
  <1>2. ASSUME NEW c \in Cluster,
               PurgeVolume(i, c)
        PROVE  Moves(i) /\ TypeOK'
    <2>1. volume' \in SUBSET Cluster /\ role' \in [Cluster -> Nat]
      BY <1>2 DEF PurgeVolume, TypeOK
    <2>2. UNCHANGED <<known, rows, instance, secret, admin, minted, half,
                      front, hold, lapsed, daemon, ops, kills>>
      BY <1>2 DEF PurgeVolume, registry, secrets, agents, bounds
    <2>3. Moves(i)
      BY <1>2, GoesOrEnds DEF PurgeVolume, PcState
    <2> QED  BY <2>1, <2>2, <2>3 DEF TypeOK, Moves
  <1>3. ASSUME NEW c \in Cluster,
               PurgeSecret(i, c)
        PROVE  Moves(i) /\ TypeOK'
    <2>1. secret' \in [Cluster -> Nat] /\ half' \in SUBSET Cluster
      BY <1>3 DEF PurgeSecret, TypeOK
    <2>2. UNCHANGED <<known, rows, instance, volume, role, admin, minted,
                      front, hold, lapsed, daemon, ops, kills>>
      BY <1>3 DEF PurgeSecret, registry, database, agents, bounds
    <2>3. Moves(i)
      BY <1>3, GoesOrEnds DEF PurgeSecret, PcState
    <2> QED  BY <2>1, <2>2, <2>3 DEF TypeOK, Moves
  <1>4. ASSUME NEW c \in Cluster,
               PurgeRow(i, c)
        PROVE  Moves(i) /\ TypeOK'
    <2>1. known' \in SUBSET Cluster
      BY <1>4 DEF PurgeRow, TypeOK
    <2>2. UNCHANGED <<rows, instance, volume, role, secret, admin, minted, half,
                      front, hold, lapsed, daemon, ops, kills>>
      BY <1>4 DEF PurgeRow, database, secrets, agents, bounds
    <2>3. Moves(i)
      BY <1>4, EndStep DEF PurgeRow, Moves
    <2> QED  BY <2>1, <2>2, <2>3 DEF TypeOK, Moves
  <1>5. CASE Dies(i)
    <2>1. half' \in SUBSET Cluster /\ kills' \in Nat
      BY <1>0, <1>5 DEF Dies, TypeOK, OpState
    <2>2. UNCHANGED <<known, rows, instance, volume, role, secret, admin, minted,
                      front, hold, lapsed, daemon, ops>>
      BY <1>5 DEF Dies, registry, database, agents
    <2>3. Moves(i)
      BY <1>5, EndStep DEF Dies, Moves
    <2> QED  BY <2>1, <2>2, <2>3 DEF TypeOK, Moves
  <1> QED  BY <1>1, <1>2, <1>3, <1>4, <1>5

LEMMA EnvironmentTyped ==
    ASSUME TypeOK, Environment
    PROVE  TypeOK'
  <1>1. ASSUME NEW c \in Cluster,
               \/ ApplyCluster(c) \/ DeleteCluster(c) \/ BecomesReady(c)
               \/ InstanceExits(c) \/ ResumeInstance(c)
        PROVE  TypeOK'
    <2>1. known' \in SUBSET Cluster /\ volume' \in SUBSET Cluster
      BY <1>1 DEF ApplyCluster, DeleteCluster, BecomesReady, InstanceExits,
                  ResumeInstance, TypeOK, registry
    <2>2. ops' \in Nat /\ kills' \in Nat
      BY <1>1 DEF ApplyCluster, DeleteCluster, BecomesReady, InstanceExits,
                  ResumeInstance, TypeOK, bounds
    <2>3. instance' \in [Cluster -> {"none", "starting", "up", "down"}]
      <3>1. \E s \in {"none", "starting", "up", "down"} :
              instance' = [instance EXCEPT ![c] = s]
        BY <1>1 DEF ApplyCluster, DeleteCluster, BecomesReady, InstanceExits,
                    ResumeInstance
      <3> QED  BY <3>1 DEF TypeOK
    <2>4. UNCHANGED <<rows, role, secret, admin, minted, half, front, hold,
                      lapsed, op, daemon>>
      BY <1>1 DEF ApplyCluster, DeleteCluster, BecomesReady, InstanceExits,
                  ResumeInstance, registry, secrets, agents
    <2> QED  BY <2>1, <2>2, <2>3, <2>4 DEF TypeOK
  <1>2. ASSUME NEW p \in Pooler, NEW c \in Cluster, DeadlineFires(p, c)
        PROVE  TypeOK'
    <2>1. hold' \in [Pooler -> [Cluster -> {"open", "held", "stuck"}]]
      <3>1. \E h \in {"open", "stuck"} : hold' = [hold EXCEPT ![p][c] = h]
        BY <1>2 DEF DeadlineFires
      <3> QED  BY <3>1 DEF TypeOK
    <2>2. lapsed' \in SUBSET (Pooler \X Cluster)
      <3>1. lapsed' = lapsed \cup {<<p, c>>} /\ <<p, c>> \in Pooler \X Cluster
        BY <1>2 DEF DeadlineFires
      <3> QED  BY <3>1 DEF TypeOK
    <2>3. UNCHANGED <<known, rows, instance, volume, role, secret, admin, minted,
                      half, front, op, daemon, ops, kills>>
      BY <1>2 DEF DeadlineFires, registry, database, secrets, bounds
    <2> QED  BY <2>1, <2>2, <2>3 DEF TypeOK
  <1>3. ASSUME NEW p \in Pooler, PoolerExits(p) \/ ResumePooler(p)
        PROVE  TypeOK'
    <2>1. front' \in [Pooler -> FrontState]
      <3>0. front[p] \in FrontState
        BY DEF TypeOK
      <3>1. /\ [front[p] EXCEPT !.state = "up"] \in FrontState
            /\ [front[p] EXCEPT !.state = "down"] \in FrontState
        BY <3>0 DEF FrontState
      <3>2. \/ UNCHANGED front
            \/ front' = [front EXCEPT ![p] = [front[p] EXCEPT !.state = "up"]]
            \/ front' = [front EXCEPT ![p] = [front[p] EXCEPT !.state = "down"]]
        BY <1>3 DEF PoolerExits, ResumePooler
      <3> QED  BY <3>1, <3>2 DEF TypeOK
    <2>2. /\ hold' \in [Pooler -> [Cluster -> {"open", "held", "stuck"}]]
          /\ lapsed' \in SUBSET (Pooler \X Cluster)
      <3>1. {p} \X Cluster \subseteq Pooler \X Cluster
        OBVIOUS
      <3>2. lapsed' \in SUBSET (Pooler \X Cluster)
        BY <1>3, <3>1 DEF PoolerExits, ResumePooler, TypeOK
      <3>3. \/ UNCHANGED hold
            \/ hold' = [hold EXCEPT ![p] = [c \in Cluster |-> "open"]]
        BY <1>3 DEF PoolerExits, ResumePooler
      <3> QED  BY <3>2, <3>3 DEF TypeOK
    <2>3. daemon' \in SUBSET Pooler /\ kills' \in Nat
      BY <1>3 DEF PoolerExits, ResumePooler, TypeOK, bounds
    <2>4. UNCHANGED <<known, rows, instance, volume, role, secret, admin, minted,
                      half, op, ops>>
      BY <1>3 DEF PoolerExits, ResumePooler, registry, database, secrets, bounds
    <2> QED  BY <2>1, <2>2, <2>3, <2>4 DEF TypeOK
  <1>4. CASE Reboot
    <2>1. op' \in [Cli -> OpState]
      BY <1>4, IdleTyped DEF Reboot
    <2>2. front' \in [Pooler -> FrontState]
      <3>0. \A p \in Pooler : front[p] \in FrontState
        BY DEF TypeOK
      <3>1. \A p \in Pooler : [front[p] EXCEPT !.state = "down"] \in FrontState
        BY <3>0 DEF FrontState
      <3> QED  BY <1>4, <3>1 DEF Reboot, TypeOK
    <2>3. /\ instance' \in [Cluster -> {"none", "starting", "up", "down"}]
          /\ hold' \in [Pooler -> [Cluster -> {"open", "held", "stuck"}]]
          /\ lapsed' \in SUBSET (Pooler \X Cluster)
          /\ daemon' \in SUBSET Pooler /\ half' \in SUBSET Cluster /\ kills' \in Nat
      BY <1>4 DEF Reboot, TypeOK
    <2>4. UNCHANGED <<known, rows, volume, role, secret, admin, minted, ops>>
      BY <1>4 DEF Reboot, registry
    <2> QED  BY <2>1, <2>2, <2>3, <2>4 DEF TypeOK
  <1> QED  BY <1>1, <1>2, <1>3, <1>4 DEF Environment

LEMMA TypeInit == Init => TypeOK
  <1> SUFFICES ASSUME Init PROVE TypeOK
    OBVIOUS
  <1>1. NoRow \in RowState /\ NoFront \in FrontState
    BY DEF NoRow, RowState, NoFront, FrontState
  <1>2. op \in [Cli -> OpState]
    BY IdleTyped DEF Init
  <1> QED  BY <1>1, <1>2 DEF Init, TypeOK

LEMMA TypeStep ==
    ASSUME TypeOK, [Next]_vars
    PROVE  TypeOK'
  <1>1. CASE UNCHANGED vars
    BY <1>1 DEF vars, registry, database, secrets, agents, bounds, TypeOK
  <1>2. ASSUME NEW i \in Cli, ApplyPoolerStep(i) PROVE TypeOK'
    BY <1>2, BeginMoves, ReadingSteps, ApplyTyped DEF ApplyPoolerStep
  <1>3. ASSUME NEW i \in Cli, DeletePoolerStep(i) PROVE TypeOK'
    BY <1>3, BeginMoves, HoldTyped DEF DeletePoolerStep
  <1>4. ASSUME NEW i \in Cli, RecreateStep(i) PROVE TypeOK'
    BY <1>4, BeginMoves, ReadingSteps, HoldTyped DEF RecreateStep
  <1>5. ASSUME NEW i \in Cli, PurgeStep(i) \/ Dies(i) PROVE TypeOK'
    BY <1>5, BeginMoves, ReadingSteps, PurgeTyped DEF PurgeStep
  <1> QED  BY <1>1, <1>2, <1>3, <1>4, <1>5, EnvironmentTyped DEF Next

\* Every variable has its type, whatever overlaps and whatever fails.
THEOREM Typing == Spec => []TypeOK
  BY TypeInit, TypeStep, PTL DEF Spec

-----------------------------------------------------------------------------
(* Commands that take turns.                                               *)

\* A slot that is free owes nothing.
LEMMA IdleOwesNothing ==
    ASSUME NEW i \in Cli, op'[i].kind = "idle"
    PROVE  OpInv(i)'
  BY DEF OpInv, ApplyInv, DeleteInv, RecreateInv, PurgeInv

\* Only the command whose step it is can have moved, the others being free.
LEMMA Alone ==
    ASSUME SerialInv, NEW i \in Cli, Moves(i), OpInv(i)',
           \A j \in Cli : j # i => op[j].kind = "idle"
    PROVE  Solo' /\ \A j \in Cli : OpInv(j)'
  <1>1. \A j \in Cli : j # i => op'[j].kind = "idle"
    BY DEF Moves
  <1>2. Solo'
    BY <1>1 DEF Solo
  <1>3. \A j \in Cli : OpInv(j)'
    BY <1>1, IdleOwesNothing
  <1> QED  BY <1>2, <1>3

LEMMA Others ==
    ASSUME SerialInv, NEW i \in Cli, op[i].kind # "idle"
    PROVE  \A j \in Cli : j # i => op[j].kind = "idle"
  BY DEF SerialInv, Solo

\* No secret outlives its volume while no purge is about to remove it.
LEMMA NothingOwed ==
    ASSUME SerialInv, \A j \in Cli : ~At(j, "purge", "secrets")
    PROVE  \A c \in Cluster \ (volume \cup half) : secret[c] = 0
  BY DEF SerialInv, World, NoSecretOfNothing

LEMMA NothingOwedBy ==
    ASSUME SerialInv, NEW i \in Cli, op[i].kind # "idle", ~At(i, "purge", "secrets")
    PROVE  \A c \in Cluster \ (volume \cup half) : secret[c] = 0
  <1>1. \A j \in Cli : ~At(j, "purge", "secrets")
    BY Others DEF At
  <1> QED  BY <1>1, NothingOwed

\* What a container of a pooler says of the clusters it fronts.
LEMMA Fronted ==
    ASSUME SerialInv, NEW p \in Pooler, front[p].state # "none",
           NEW c \in Fronts[front[p].manifest]
    PROVE  /\ front[p].manifest \in Manifest /\ c \in Cluster
           /\ p \in Fronting(c)
           /\ c \notin half =>
                 /\ c \in volume /\ front[p].creds[c] = role[c]
                 /\ secret[c] = role[c] /\ secret[c] # 0
  <1>1. front[p].manifest \in Manifest
    BY DEF SerialInv, World, FrontInv, TypeOK, FrontState
  <1>2. c \in Cluster
    BY <1>1, PoolersOK
  <1>3. p \in Fronting(c)
    <2>1. /\ rows[p].manifest # NoManifest
          /\ SpecOf[rows[p].manifest] = SpecOf[front[p].manifest]
          /\ rows[p] \in RowState
      BY DEF SerialInv, World, FrontInv, RowDescribesPooler, TypeOK
    <2>2. rows[p].manifest \in Manifest
      BY <2>1 DEF RowState
    <2>3. Fronts[rows[p].manifest] = Fronts[front[p].manifest]
      BY <1>1, <2>1, <2>2, PoolersOK
    <2> QED  BY <2>1, <2>3 DEF Fronting, Present
  <1> QED  BY <1>1, <1>2, <1>3 DEF SerialInv, World, FrontInv

\* Steps that leave alone what World is about.
LEMMA WorldKept ==
    ASSUME SerialInv, UNCHANGED <<rows, front, instance, volume, role, secret, half>>,
           \A c \in Cluster \ (volume \cup half) : secret[c] = 0
    PROVE  World'
  <1>1. FrontInv'
    BY DEF SerialInv, World, FrontInv, RowDescribesPooler
  <1>2. NoSecretOfNothing'
    BY DEF NoSecretOfNothing
  <1>3. SecretMeansRole' /\ InstanceInv'
    BY DEF SerialInv, World, SecretMeansRole, InstanceInv
  <1> QED  BY <1>1, <1>2, <1>3 DEF World

\* A command is typed.
LEMMA BeginSerial ==
    ASSUME Overlap = FALSE, SerialInv, NEW i \in Cli,
           ApplyPooler(i) \/ DeletePooler(i) \/ Recreate(i) \/ Purge(i)
    PROVE  SerialInv'
  <1>1. \A j \in Cli : op[j].kind = "idle"
    BY DEF ApplyPooler, DeletePooler, Recreate, Purge, Begin, MayBegin
  <1>2. Moves(i) /\ TypeOK'
    BY BeginMoves DEF SerialInv
  <1>3. /\ UNCHANGED <<rows, front, instance, volume, role, secret, half>>
        /\ \E o : op' = [op EXCEPT ![i] = o]
    BY DEF ApplyPooler, DeletePooler, Recreate, Purge, Begin, registry, database,
           secrets, agents
  <1>4. World'
    BY <1>1, <1>3, NothingOwed, WorldKept DEF At
  <1>5. op \in [Cli -> OpState]
    BY DEF SerialInv, TypeOK
  <1>6. OpInv(i)'
    <2>1. CASE ApplyPooler(i)
      <3>1. PICK p \in Pooler, m \in Manifest :
              Begin(i, [Idle EXCEPT !.kind = "apply", !.pc = "resolve",
                        !.manifest = m, !.pooler = {p}, !.left = Fronts[m]])
        BY <2>1 DEF ApplyPooler
      <3>2. /\ op'[i].kind = "apply" /\ op'[i].pc = "resolve" /\ op'[i].manifest = m
            /\ op'[i].pooler = {p} /\ op'[i].cluster = {}
        BY <3>1, <1>5 DEF Begin, Idle
      <3> QED  BY <3>2 DEF OpInv, ApplyInv, DeleteInv, RecreateInv, PurgeInv, One,
                           Minting, Recording, Recorded
    <2>2. CASE DeletePooler(i)
      <3>1. PICK p \in Pooler :
              Begin(i, [Idle EXCEPT !.kind = "delete", !.pc = "remove", !.pooler = {p}])
        BY <2>2 DEF DeletePooler
      <3>2. op'[i].kind = "delete" /\ op'[i].pc = "remove" /\ op'[i].pooler = {p}
        BY <3>1, <1>5 DEF Begin, Idle
      <3> QED  BY <3>2 DEF OpInv, ApplyInv, DeleteInv, RecreateInv, PurgeInv, One
    <2>3. CASE Recreate(i)
      <3>1. PICK c \in Cluster :
              /\ instance[c] = "up"
              /\ Begin(i, [Idle EXCEPT !.kind = "recreate", !.pc = "list",
                                       !.cluster = {c}])
        BY <2>3 DEF Recreate
      <3>2. op'[i].kind = "recreate" /\ op'[i].pc = "list" /\ op'[i].cluster = {c}
        BY <3>1, <1>5 DEF Begin, Idle
      <3>3. c \in volume /\ volume' = volume
        BY <1>3, <3>1 DEF SerialInv, World, InstanceInv
      <3> QED  BY <3>2, <3>3 DEF OpInv, ApplyInv, DeleteInv, RecreateInv, PurgeInv, One
    <2>4. CASE Purge(i)
      <3>1. PICK c \in Cluster :
              Begin(i, [Idle EXCEPT !.kind = "purge", !.pc = "check", !.cluster = {c}])
        BY <2>4 DEF Purge
      <3>2. op'[i].kind = "purge" /\ op'[i].pc = "check" /\ op'[i].cluster = {c}
        BY <3>1, <1>5 DEF Begin, Idle
      <3> QED  BY <3>2 DEF OpInv, ApplyInv, DeleteInv, RecreateInv, PurgeInv, One
    <2> QED  BY <2>1, <2>2, <2>3, <2>4
  <1> QED  BY <1>1, <1>2, <1>4, <1>6, Alone DEF SerialInv

\* The steps of an apply that change no more than the command.
LEMMA ApplyReads ==
    ASSUME SerialInv, NEW i \in Cli,
           \/ Resolve(i)
           \/ \E c \in Cluster : FindSecret(i, c)
           \/ \E p \in Pooler : AdminSecret(i, p) \/ ProbePooler(i, p)
    PROVE  OpInv(i)' /\ World'
  <1>0. /\ op[i].kind = "apply" /\ ~At(i, "purge", "secrets")
        /\ op[i].pc \in {"resolve", "role", "probe"}
    BY DEF Resolve, FindSecret, AdminSecret, ProbePooler, At
  <1>1. UNCHANGED <<rows, front, instance, volume, role, secret, half>>
    BY DEF Resolve, FindSecret, AdminSecret, ProbePooler, registry, database,
           secrets, agents
  <1>2. World'
    BY <1>0, <1>1, NothingOwedBy, WorldKept
  <1>3. /\ op[i].manifest \in Manifest /\ One(op[i].pooler) /\ One(op[i].cluster)
        /\ TypeOK
    BY <1>0 DEF SerialInv, OpInv, ApplyInv
  <1>4. CASE Resolve(i) \/ \E p \in Pooler : AdminSecret(i, p)
    <2>1. Goto(i, "role") \/ Goto(i, "probe") \/ End(i)
      BY <1>4 DEF Resolve, AdminSecret, Fails
    <2>2. "role" \in PcState /\ "probe" \in PcState
      BY DEF PcState
    <2>3. \/ op'[i].kind = "idle"
          \/ /\ op'[i].kind = "apply" /\ op'[i].pc \in {"role", "probe"}
             /\ op'[i].manifest = op[i].manifest
             /\ op'[i].pooler = op[i].pooler /\ op'[i].cluster = op[i].cluster
      BY <1>0, <1>3, <2>1, <2>2, GotoStep, EndStep
    <2> QED
      BY <1>2, <1>3, <2>3, IdleOwesNothing
         DEF OpInv, ApplyInv, DeleteInv, RecreateInv, PurgeInv, Minting, Recording,
             Recorded
  <1>5. ASSUME NEW c \in Cluster, FindSecret(i, c) PROVE OpInv(i)'
    <2>1. instance[c] = "up" => c \in volume
      BY DEF SerialInv, World, InstanceInv
    <2>2. \/ op'[i].kind = "idle"
          \/ /\ op'[i].kind = "apply" /\ op'[i].manifest = op[i].manifest
             /\ op'[i].pooler = op[i].pooler
             /\ \/ op'[i].pc = "role" /\ op'[i].cluster = op[i].cluster
                \/ /\ op'[i].pc = "alter" /\ op'[i].cluster = {c}
                   /\ secret[c] = 0 /\ instance[c] = "up"
      BY <1>3, <1>5, FindSecretOp, IdleTyped
    <2> QED
      BY <1>1, <1>3, <2>1, <2>2, IdleOwesNothing
         DEF OpInv, ApplyInv, DeleteInv, RecreateInv, PurgeInv, Minting, Recording,
             Recorded, One
  <1>6. ASSUME NEW p \in Pooler, ProbePooler(i, p) PROVE OpInv(i)'
    <2>1. p \in op[i].pooler
      BY <1>6 DEF ProbePooler
    <2>2. \/ op'[i].kind = "idle"
          \/ /\ op'[i].kind = "apply" /\ op'[i].manifest = op[i].manifest
             /\ op'[i].pooler = op[i].pooler /\ op'[i].cluster = op[i].cluster
             /\ op'[i].pc = "record"
             /\ Adoptable(i, p)
      BY <1>3, <1>6, ProbePoolerOp, IdleTyped
    <2>3. \A q \in op[i].pooler : q = p
      BY <1>3, <2>1 DEF One
    <2> QED
      BY <1>1, <1>3, <2>2, <2>3, IdleOwesNothing
         DEF OpInv, ApplyInv, DeleteInv, RecreateInv, PurgeInv, Minting, Recording,
             Recorded, Adoptable
  <1> QED  BY <1>2, <1>4, <1>5, <1>6

\* ensure_pooler_role: no pooler fronts a cluster whose secret is missing, so
\* nobody mounted the password that is replaced.
LEMMA RoleSteps ==
    ASSUME SerialInv, NEW i \in Cli, NEW c \in Cluster,
           AlterRole(i, c) \/ DropSecret(i, c) \/ StoreSecret(i, c)
    PROVE  OpInv(i)' /\ World'
  <1>0. /\ op[i].kind = "apply" /\ ~At(i, "purge", "secrets") /\ TypeOK
        /\ op[i].pc \in Minting /\ c \in op[i].cluster
    BY DEF AlterRole, DropSecret, StoreSecret, At, Minting, SerialInv
  <1>1. /\ op[i].manifest \in Manifest /\ One(op[i].pooler) /\ One(op[i].cluster)
        /\ secret[c] = 0 /\ c \in volume
        /\ op[i].pc \in {"drop", "store"} => role[c] = op[i].pw
    BY <1>0 DEF SerialInv, OpInv, ApplyInv
  <1>2. UNCHANGED <<rows, front, instance, volume, half>>
    BY DEF AlterRole, DropSecret, StoreSecret, registry, database, agents
  <1>3. \A d \in Cluster : d # c => secret'[d] = secret[d] /\ role'[d] = role[d]
    BY <1>0, AlterRoleOp, StoreSecretOp
       DEF AlterRole, DropSecret, StoreSecret, TypeOK, database
  <1>4. /\ secret'[c] # 0 => role'[c] = secret'[c]
        /\ ~StoreSecret(i, c) => secret'[c] = 0
    <2>1. CASE AlterRole(i, c)
      BY <1>1, <2>1 DEF AlterRole
    <2>2. CASE DropSecret(i, c)
      BY <1>0, <2>2 DEF DropSecret, TypeOK
    <2>3. CASE StoreSecret(i, c)
      <3>1. role[c] = op[i].pw /\ UNCHANGED role
        BY <1>1, <2>3 DEF StoreSecret, At, database
      <3> QED  BY <1>0, <1>1, <2>3, <3>1, StoreSecretOp DEF TypeOK
    <2> QED  BY <2>1, <2>2, <2>3
  <1>5. World'
    <2>1. FrontInv'
      <3>1. ASSUME NEW p \in Pooler, front[p].state # "none",
                   NEW d \in Fronts[front[p].manifest] \ half
            PROVE  /\ d \in volume /\ front[p].creds[d] = role'[d]
                   /\ secret'[d] = role'[d] /\ secret'[d] # 0
        <4>1. /\ d \in Cluster /\ d \in volume /\ front[p].creds[d] = role[d]
              /\ secret[d] = role[d] /\ secret[d] # 0
          BY <3>1, Fronted
        <4> QED  BY <1>1, <1>3, <4>1
      <3> QED  BY <1>2, <3>1 DEF SerialInv, World, FrontInv, RowDescribesPooler
    <2>2. NoSecretOfNothing'
      <3>1. \A d \in Cluster \ (volume \cup half) : secret'[d] = 0
        BY <1>0, <1>1, <1>3, NothingOwedBy
      <3> QED  BY <1>2, <3>1 DEF NoSecretOfNothing
    <2>3. SecretMeansRole'
      <3>1. volume \subseteq Cluster
        BY <1>0 DEF TypeOK
      <3> QED  BY <1>2, <1>3, <1>4, <3>1 DEF SerialInv, World, SecretMeansRole
    <2>4. InstanceInv'
      BY <1>2 DEF SerialInv, World, InstanceInv
    <2> QED  BY <2>1, <2>2, <2>3, <2>4 DEF World
  <1>6. OpInv(i)'
    <2>1. \A d \in op[i].cluster : d = c
      BY <1>0, <1>1 DEF One
    <2>2. CASE AlterRole(i, c)
      <3>1. \/ op'[i].kind = "idle"
            \/ /\ op'[i].kind = "apply" /\ op'[i].manifest = op[i].manifest
               /\ op'[i].pooler = op[i].pooler /\ op'[i].cluster = op[i].cluster
               /\ op'[i].pc = "drop" /\ role'[c] = op'[i].pw
        BY <1>0, <2>2, AlterRoleOp, IdleTyped DEF TypeOK
      <3>2. secret'[c] = 0
        BY <1>4, <2>2 DEF AlterRole, StoreSecret, At
      <3> QED
        BY <1>1, <1>2, <2>1, <3>1, <3>2, IdleOwesNothing
           DEF OpInv, ApplyInv, DeleteInv, RecreateInv, PurgeInv, Minting, Recording,
               Recorded
    <2>3. CASE DropSecret(i, c)
      <3>1. /\ op'[i].kind = "apply" /\ op'[i].manifest = op[i].manifest
            /\ op'[i].pooler = op[i].pooler /\ op'[i].cluster = op[i].cluster
            /\ op'[i].pc = "store" /\ op'[i].pw = op[i].pw
        <4>1. Goto(i, "store") /\ "store" \in PcState
          BY <2>3 DEF DropSecret, PcState
        <4> QED  BY <1>0, <4>1, GotoStep
      <3>2. secret'[c] = 0 /\ role'[c] = op[i].pw
        <4>1. op[i].pc = "drop" /\ UNCHANGED role
          BY <2>3 DEF DropSecret, At, database
        <4> QED  BY <1>0, <1>1, <2>3, <4>1 DEF DropSecret, TypeOK
      <3> QED
        BY <1>1, <1>2, <2>1, <3>1, <3>2
           DEF OpInv, ApplyInv, DeleteInv, RecreateInv, PurgeInv, Minting, Recording,
               Recorded
    <2>4. CASE StoreSecret(i, c)
      <3>1. \/ op'[i].kind = "idle"
            \/ /\ op'[i].kind = "apply" /\ op'[i].manifest = op[i].manifest
               /\ op'[i].pooler = op[i].pooler /\ op'[i].cluster = {}
               /\ op'[i].pc = "role"
        BY <1>0, <2>4, StoreSecretOp, IdleTyped
      <3> QED
        BY <1>1, <3>1, IdleOwesNothing
           DEF OpInv, ApplyInv, DeleteInv, RecreateInv, PurgeInv, Minting, Recording,
               Recorded, One
    <2> QED  BY <2>2, <2>3, <2>4
  <1> QED  BY <1>5, <1>6

\* put_pooler of what the apply carries: the container, if there is one, runs
\* just that.
LEMMA RecordSteps ==
    ASSUME SerialInv, NEW i \in Cli, NEW p \in Pooler,
           PutApplying(i, p) \/ PutRunning(i, p)
    PROVE  OpInv(i)' /\ World'
  <1>0. /\ op[i].kind = "apply" /\ ~At(i, "purge", "secrets") /\ TypeOK
        /\ op[i].pc \in Recording /\ p \in op[i].pooler
    BY DEF PutApplying, PutRunning, PutPooler, At, Recording, SerialInv
  <1>1. /\ op[i].manifest \in Manifest /\ One(op[i].pooler) /\ One(op[i].cluster)
        /\ Adoptable(i, p)
    BY <1>0 DEF SerialInv, OpInv, ApplyInv
  <1>2. UNCHANGED <<front, instance, volume, role, secret, half>>
    BY DEF PutApplying, PutRunning, PutPooler, database, secrets, agents
  <1>3. /\ \A q \in Pooler : q # p => rows'[q].manifest = rows[q].manifest
        /\ rows'[p].manifest \in {rows[p].manifest, op[i].manifest}
        /\ Fronts[op[i].manifest] \subseteq known =>
              rows'[p].manifest = op[i].manifest
    BY <1>0 DEF PutApplying, PutRunning, PutPooler, TypeOK
  <1>4. World'
    <2>1. FrontInv'
      <3>1. ASSUME NEW q \in Pooler, front[q].state # "none"
            PROVE  /\ rows'[q].manifest # NoManifest
                   /\ SpecOf[rows'[q].manifest] = SpecOf[front[q].manifest]
        <4>1. /\ front[q].manifest # NoManifest /\ rows[q].manifest # NoManifest
              /\ SpecOf[rows[q].manifest] = SpecOf[front[q].manifest]
          BY <3>1 DEF SerialInv, World, FrontInv, RowDescribesPooler
        <4>2. op[i].manifest # NoManifest
          BY <1>1, PoolersOK
        <4> QED  BY <1>1, <1>3, <4>1, <4>2 DEF Adoptable
      <3> QED  BY <1>2, <3>1 DEF SerialInv, World, FrontInv, RowDescribesPooler
    <2>2. NoSecretOfNothing'
      BY <1>0, <1>2, NothingOwedBy DEF NoSecretOfNothing
    <2>3. SecretMeansRole' /\ InstanceInv'
      BY <1>2 DEF SerialInv, World, SecretMeansRole, InstanceInv
    <2> QED  BY <2>1, <2>2, <2>3 DEF World
  <1>5. OpInv(i)'
    <2>1. \/ op'[i].kind = "idle"
          \/ /\ op'[i].kind = "apply" /\ op'[i].manifest = op[i].manifest
             /\ op'[i].pooler = op[i].pooler /\ op'[i].cluster = op[i].cluster
             /\ op'[i].pc \in {"create", "confirm", "start"}
             /\ Fronts[op[i].manifest] \subseteq known
      <3>1. {"create", "confirm", "start"} \subseteq PcState
        BY DEF PcState
      <3>2. \/ End(i)
            \/ /\ Goto(i, "create") \/ Goto(i, "confirm") \/ Goto(i, "start")
               /\ Fronts[op[i].manifest] \subseteq known
        BY DEF PutApplying, PutRunning
      <3> QED  BY <1>0, <3>1, <3>2, GotoStep, EndStep
    <2>2. \A q \in op[i].pooler : q = p
      BY <1>0, <1>1 DEF One
    <2> QED
      BY <1>1, <1>2, <1>3, <2>1, <2>2, IdleOwesNothing
         DEF OpInv, ApplyInv, DeleteInv, RecreateInv, PurgeInv, Minting, Recording,
             Recorded, Adoptable
  <1> QED  BY <1>4, <1>5

\* A new container mounts the secrets of its clusters, which are the roles'.
LEMMA CreateSteps ==
    ASSUME SerialInv, NEW i \in Cli, NEW p \in Pooler,
           CreatePooler(i, p) \/ StartPooler(i, p)
    PROVE  OpInv(i)' /\ World'
  <1>0. /\ op[i].kind = "apply" /\ ~At(i, "purge", "secrets") /\ TypeOK
        /\ op[i].pc \in Recorded /\ op[i].pc \in Recording /\ p \in op[i].pooler
    BY DEF CreatePooler, StartPooler, At, Recording, Recorded, SerialInv
  <1>1. /\ op[i].manifest \in Manifest /\ One(op[i].pooler) /\ One(op[i].cluster)
        /\ rows[p].manifest = op[i].manifest
        /\ Adoptable(i, p)
    BY <1>0 DEF SerialInv, OpInv, ApplyInv
  <1>2. UNCHANGED <<rows, instance, volume, role, secret, half>>
    BY DEF CreatePooler, StartPooler, registry, database, secrets
  <1>3. \A q \in Pooler : q # p => front'[q] = front[q]
    BY <1>0 DEF CreatePooler, StartPooler, TypeOK
  <1>4. \/ front' = front
        \/ /\ front[p].state # "none" /\ front'[p].state = "up"
           /\ front'[p].manifest = front[p].manifest
           /\ front'[p].creds = front[p].creds
        \/ /\ front'[p].state = "created" /\ front'[p].manifest = op[i].manifest
           /\ \A c \in Fronts[op[i].manifest] :
                 secret[c] # 0 /\ front'[p].creds[c] = secret[c]
    <2>1. CASE CreatePooler(i, p)
      <3> DEFINE f == [state |-> "created", manifest |-> op[i].manifest,
                       creds |-> [d \in Cluster |->
                          IF d \in Fronts[op[i].manifest] THEN secret[d] ELSE 0]]
      <3>1. \/ front' = front
            \/ /\ front' = [front EXCEPT ![p] = f]
               /\ \A c \in Fronts[op[i].manifest] : secret[c] # 0
        BY <2>1 DEF CreatePooler
      <3>2. Fronts[op[i].manifest] \subseteq Cluster
        BY <1>1, PoolersOK
      <3>3. /\ f.state = "created" /\ f.manifest = op[i].manifest
            /\ \A c \in Fronts[op[i].manifest] : f.creds[c] = secret[c]
        BY <3>2
      <3> HIDE DEF f
      <3> QED  BY <1>0, <3>1, <3>3 DEF TypeOK
    <2>2. CASE StartPooler(i, p)
      <3>1. front[p] \in FrontState /\ front \in [Pooler -> FrontState]
        BY <1>0 DEF TypeOK
      <3>2. \/ front' = front
            \/ front' = [front EXCEPT ![p].state = "up"] /\ front[p].state # "none"
        BY <2>2 DEF StartPooler
      <3> QED  BY <3>1, <3>2 DEF FrontState
    <2> QED  BY <2>1, <2>2
  <1>5. World'
    <2>1. \A c \in Cluster \ (volume \cup half) : secret[c] = 0
      BY <1>0, NothingOwedBy
    <2>2. FrontInv'
      <3>1. ASSUME NEW q \in Pooler
            PROVE  /\ front'[q].state = "none" <=> front'[q].manifest = NoManifest
                   /\ front'[q].state # "none" =>
                         /\ rows[q].manifest # NoManifest
                         /\ SpecOf[rows[q].manifest] = SpecOf[front'[q].manifest]
        <4>1. /\ front[q].state = "none" <=> front[q].manifest = NoManifest
              /\ front[q].state # "none" =>
                    /\ rows[q].manifest # NoManifest
                    /\ SpecOf[rows[q].manifest] = SpecOf[front[q].manifest]
          BY DEF SerialInv, World, FrontInv, RowDescribesPooler
        <4>2. op[i].manifest # NoManifest
          BY <1>1, PoolersOK
        <4> QED  BY <1>1, <1>3, <1>4, <4>1, <4>2
      <3>2. ASSUME NEW q \in Pooler, front'[q].state # "none",
                   NEW c \in Fronts[front'[q].manifest] \ half
            PROVE  /\ c \in volume /\ front'[q].creds[c] = role[c]
                   /\ secret[c] = role[c] /\ secret[c] # 0
        <4>1. CASE /\ front[q].state # "none"
                   /\ front'[q].manifest = front[q].manifest
                   /\ front'[q].creds = front[q].creds
          BY <3>2, <4>1, Fronted
        <4>2. CASE /\ front'[q].manifest = op[i].manifest
                   /\ \A d \in Fronts[op[i].manifest] :
                         secret[d] # 0 /\ front'[q].creds[d] = secret[d]
          <5>1. c \in Cluster /\ secret[c] # 0 /\ front'[q].creds[c] = secret[c]
            BY <1>1, <3>2, <4>2, PoolersOK
          <5>2. c \in volume
            BY <2>1, <3>2, <5>1
          <5>3. role[c] = secret[c]
            BY <3>2, <5>1, <5>2 DEF SerialInv, World, SecretMeansRole
          <5> QED  BY <5>1, <5>2, <5>3
        <4> QED  BY <1>3, <1>4, <3>2, <4>1, <4>2
      <3>3. RowDescribesPooler'
        BY <1>2, <3>1 DEF RowDescribesPooler
      <3>4. (\A q \in Pooler : front[q].state = "none" <=> front[q].manifest = NoManifest)'
        BY <3>1
      <3>5. (\A q \in Pooler : front[q].state # "none" =>
               \A c \in Fronts[front[q].manifest] \ half :
                  /\ c \in volume
                  /\ front[q].creds[c] = role[c]
                  /\ secret[c] = role[c] /\ secret[c] # 0)'
        BY <1>2, <3>2
      <3> QED  BY <3>3, <3>4, <3>5 DEF FrontInv
    <2>3. NoSecretOfNothing'
      BY <1>2, <2>1 DEF NoSecretOfNothing
    <2>4. SecretMeansRole' /\ InstanceInv'
      BY <1>2 DEF SerialInv, World, SecretMeansRole, InstanceInv
    <2> QED  BY <2>2, <2>3, <2>4 DEF World
  <1>6. OpInv(i)'
    <2>1. \/ op'[i].kind = "idle"
          \/ /\ op'[i].kind = "apply" /\ op'[i].manifest = op[i].manifest
             /\ op'[i].pooler = op[i].pooler /\ op'[i].cluster = op[i].cluster
             /\ op'[i].pc \in {"confirm", "start"}
      <3>1. {"confirm", "start"} \subseteq PcState
        BY DEF PcState
      <3>2. End(i) \/ Goto(i, "confirm") \/ Goto(i, "start")
        BY DEF CreatePooler, StartPooler
      <3> QED  BY <1>0, <3>1, <3>2, GotoStep, EndStep
    <2>2. \A q \in op[i].pooler : q = p
      BY <1>0, <1>1 DEF One
    <2>3. op'[i].kind = "apply" => Adoptable(i, p)'
      BY <1>1, <1>4, <2>1 DEF Adoptable
    <2> QED
      BY <1>1, <1>2, <2>1, <2>2, <2>3, IdleOwesNothing
         DEF OpInv, ApplyInv, DeleteInv, RecreateInv, PurgeInv, Minting, Recording,
             Recorded
  <1> QED  BY <1>5, <1>6

\* delete_pooler: the container goes before the row.
LEMMA DeleteSteps ==
    ASSUME SerialInv, NEW i \in Cli, NEW p \in Pooler,
           RemovePooler(i, p) \/ ForgetPooler(i, p)
    PROVE  OpInv(i)' /\ World'
  <1>0. /\ op[i].kind = "delete" /\ ~At(i, "purge", "secrets") /\ TypeOK
        /\ p \in op[i].pooler
    BY DEF RemovePooler, ForgetPooler, At, SerialInv
  <1>1. One(op[i].pooler)
    BY <1>0 DEF SerialInv, OpInv, DeleteInv
  <1>2. UNCHANGED <<instance, volume, role, secret, half>>
    BY DEF RemovePooler, ForgetPooler, database, secrets
  <1>3. \A q \in Pooler : q # p => front'[q] = front[q] /\ rows'[q] = rows[q]
    BY <1>0 DEF RemovePooler, ForgetPooler, TypeOK, agents, registry
  <1>4. \/ UNCHANGED <<front, rows>> /\ End(i)
        \/ /\ front'[p] = NoFront /\ Goto(i, "forget")
        \/ /\ front'[p] = front[p] /\ front[p].state = "none" /\ End(i)
    <2>1. CASE RemovePooler(i, p)
      BY <1>0, <2>1 DEF RemovePooler, Fails, TypeOK, agents, registry
    <2>2. CASE ForgetPooler(i, p)
      <3>1. front[p].state = "none"
        BY <1>0, <2>2 DEF ForgetPooler, At, SerialInv, OpInv, DeleteInv
      <3> QED  BY <2>2, <3>1 DEF ForgetPooler, agents
    <2> QED  BY <2>1, <2>2
  <1>5. World'
    <2>1. ASSUME NEW q \in Pooler
          PROVE  \/ front'[q] = NoFront
                 \/ front'[q] = front[q] /\ rows'[q] = rows[q]
                 \/ front'[q] = front[q] /\ front[q].state = "none"
      BY <1>3, <1>4
    <2>2. (\A q \in Pooler : front[q].state = "none" <=> front[q].manifest = NoManifest)'
      BY <2>1 DEF SerialInv, World, FrontInv, NoFront
    <2>3. RowDescribesPooler'
      BY <2>1 DEF SerialInv, World, FrontInv, RowDescribesPooler, NoFront
    <2>4. (\A q \in Pooler : front[q].state # "none" =>
             \A c \in Fronts[front[q].manifest] \ half :
                /\ c \in volume
                /\ front[q].creds[c] = role[c]
                /\ secret[c] = role[c] /\ secret[c] # 0)'
      <3>1. ASSUME NEW q \in Pooler, front'[q].state # "none",
                   NEW c \in Fronts[front'[q].manifest] \ half
            PROVE  /\ c \in volume /\ front'[q].creds[c] = role[c]
                   /\ secret[c] = role[c] /\ secret[c] # 0
        <4>1. front'[q] = front[q]
          BY <2>1, <3>1 DEF NoFront
        <4> QED  BY <3>1, <4>1, Fronted
      <3> QED  BY <1>2, <3>1
    <2>5. NoSecretOfNothing'
      BY <1>0, <1>2, NothingOwedBy DEF NoSecretOfNothing
    <2>6. SecretMeansRole' /\ InstanceInv'
      BY <1>2 DEF SerialInv, World, SecretMeansRole, InstanceInv
    <2> QED  BY <2>2, <2>3, <2>4, <2>5, <2>6 DEF World, FrontInv
  <1>6. OpInv(i)'
    <2>1. "forget" \in PcState
      BY DEF PcState
    <2>2. \/ op'[i].kind = "idle"
          \/ /\ op'[i].kind = "delete" /\ op'[i].pooler = op[i].pooler
             /\ front'[p] = NoFront
      BY <1>0, <1>4, <2>1, GotoStep, EndStep
    <2>3. \A q \in op[i].pooler : q = p
      BY <1>0, <1>1 DEF One
    <2> QED
      BY <1>1, <2>2, <2>3, IdleOwesNothing
         DEF OpInv, ApplyInv, DeleteInv, RecreateInv, PurgeInv, NoFront
  <1> QED  BY <1>5, <1>6

\* A recreate holds every pooler it listed before it removes the instance.
LEMMA RecreateSteps ==
    ASSUME SerialInv, NEW i \in Cli,
           \/ Released(i)
           \/ \E c \in Cluster : \/ ListPoolers(i, c) \/ WaitReady(i, c)
                                 \/ \E p \in Pooler : \/ Pause(i, c, p)
                                                      \/ ReleaseAfterRecreate(i, c, p)
                                                      \/ Release(i, c, p)
    PROVE  OpInv(i)' /\ World'
  <1>0. op[i].kind = "recreate" /\ ~At(i, "purge", "secrets") /\ TypeOK
    BY DEF Released, ListPoolers, WaitReady, Pause, ReleaseAfterRecreate, Release,
           At, SerialInv
  <1>1. /\ One(op[i].cluster) /\ op[i].cluster \subseteq volume
        /\ op[i].pc = "acquire" =>
              \A c \in op[i].cluster : \A p \in Fronting(c) :
                 p \in op[i].left \/ hold[p][c] # "open" \/ <<p, c>> \in lapsed
    BY <1>0 DEF SerialInv, OpInv, RecreateInv
  <1>2. UNCHANGED <<rows, front, instance, volume, role, secret, half>>
    BY DEF Released, ListPoolers, WaitReady, Pause, ReleaseAfterRecreate, Release,
           registry, database, secrets, agents
  <1>3. World'
    BY <1>0, <1>2, NothingOwedBy, WorldKept
  <1>4. CASE Released(i)
    BY <1>0, <1>4, EndStep, IdleOwesNothing, <1>3 DEF Released
  <1>5. ASSUME NEW c \in Cluster, ListPoolers(i, c) PROVE OpInv(i)'
    <2>1. c \in op[i].cluster
      BY <1>5 DEF ListPoolers
    <2>2. \A d \in op[i].cluster : d = c
      BY <1>1, <2>1 DEF One
    <2>3. /\ op'[i].kind = "recreate" /\ op'[i].pc = "acquire"
          /\ op'[i].left = Fronting(c) /\ op'[i].cluster = op[i].cluster
      BY <1>0, <1>5, ListPoolersOp
    <2> QED
      BY <1>1, <1>2, <2>2, <2>3
         DEF OpInv, ApplyInv, DeleteInv, RecreateInv, PurgeInv, Fronting, Present
  <1>6. ASSUME NEW c \in Cluster, WaitReady(i, c) PROVE OpInv(i)'
    <2>1. c \in op[i].cluster
      BY <1>6 DEF WaitReady
    <2>2. \A d \in op[i].cluster : d = c
      BY <1>1, <2>1 DEF One
    <2>3. /\ op'[i].kind = "recreate" /\ op'[i].cluster = op[i].cluster
          /\ \/ op'[i].pc = "release"
             \/ op'[i].pc = "resume" /\ instance[c] = "up"
      <3>1. \/ Goto(i, "release")
            \/ Goto(i, "resume") /\ instance[c] = "up"
        BY <1>6 DEF WaitReady
      <3>2. "release" \in PcState /\ "resume" \in PcState
        BY DEF PcState
      <3> QED  BY <1>0, <3>1, <3>2, GotoStep
    <2> QED
      BY <1>1, <1>2, <2>2, <2>3 DEF OpInv, ApplyInv, DeleteInv, RecreateInv, PurgeInv
  <1>7. ASSUME NEW c \in Cluster, NEW p \in Pooler, Pause(i, c, p) PROVE OpInv(i)'
    <2>1. c \in op[i].cluster /\ op[i].pc = "acquire"
      BY <1>7 DEF Pause, At
    <2>2. \A d \in op[i].cluster : d = c
      BY <1>1, <2>1 DEF One
    <2>3. /\ op'[i].kind = "recreate" /\ op'[i].cluster = op[i].cluster
          /\ \/ op'[i].pc = "release"
             \/ /\ op'[i].pc = "acquire" /\ op'[i].left = op[i].left \ {p}
                /\ hold' = [hold EXCEPT ![p][c] = "held"]
                /\ lapsed' = lapsed \ {<<p, c>>}
      BY <1>0, <1>7, PauseOp
    <2>4. CASE op'[i].pc = "release"
      BY <1>1, <1>2, <2>3, <2>4
         DEF OpInv, ApplyInv, DeleteInv, RecreateInv, PurgeInv
    <2>5. CASE /\ op'[i].pc = "acquire" /\ op'[i].left = op[i].left \ {p}
               /\ hold' = [hold EXCEPT ![p][c] = "held"]
               /\ lapsed' = lapsed \ {<<p, c>>}
      <3>1. ASSUME NEW d \in op'[i].cluster, NEW q \in Fronting(d)
            PROVE  \/ q \in op'[i].left \/ hold'[q][d] # "open" \/ <<q, d>> \in lapsed'
        <4>1. d = c /\ q \in Pooler
          BY <2>2, <2>3 DEF Fronting
        <4>2. q \in op[i].left \/ hold[q][c] # "open" \/ <<q, c>> \in lapsed
          BY <1>1, <2>1, <3>1, <4>1
        <4>3. CASE q = p
          <5>1. hold \in [Pooler -> [Cluster -> {"open", "held", "stuck"}]]
            BY <1>0 DEF TypeOK
          <5>2. hold'[p][c] = "held"
            BY <2>5, <5>1
          <5> QED  BY <4>1, <4>3, <5>2
        <4>4. CASE q # p
          <5>1. hold \in [Pooler -> [Cluster -> {"open", "held", "stuck"}]]
            BY <1>0 DEF TypeOK
          <5>2. hold'[q][c] = hold[q][c]
            BY <2>5, <4>1, <4>4, <5>1
          <5> QED  BY <2>5, <4>1, <4>2, <4>4, <5>2
        <4> QED  BY <4>3, <4>4
      <3>2. (\A d \in op[i].cluster : \A q \in Fronting(d) :
               q \in op[i].left \/ hold[q][d] # "open" \/ <<q, d>> \in lapsed)'
        BY <1>2, <3>1 DEF Fronting, Present
      <3> QED
        BY <1>1, <1>2, <2>3, <2>5, <3>2
           DEF OpInv, ApplyInv, DeleteInv, RecreateInv, PurgeInv
    <2> QED  BY <2>3, <2>4, <2>5
  <1>8. ASSUME NEW c \in Cluster, NEW p \in Pooler,
               ReleaseAfterRecreate(i, c, p) \/ Release(i, c, p)
        PROVE  OpInv(i)'
    <2>1. op[i].pc \in {"resume", "release"}
      BY <1>8 DEF ReleaseAfterRecreate, Release, At
    <2>2. op[i].pc = "resume" =>
             \A d \in op[i].cluster : instance[d] \in {"up", "down"}
      BY <1>0 DEF SerialInv, OpInv, RecreateInv
    <2>3. \/ op'[i].kind = "idle"
          \/ /\ op'[i].kind = "recreate" /\ op'[i].pc = op[i].pc
             /\ op'[i].cluster = op[i].cluster
      BY <1>0, <1>8, ReleaseOp, IdleTyped
    <2> QED
      BY <1>1, <1>2, <2>1, <2>2, <2>3, IdleOwesNothing
         DEF OpInv, ApplyInv, DeleteInv, RecreateInv, PurgeInv
  <1> QED  BY <1>3, <1>4, <1>5, <1>6, <1>7, <1>8

LEMMA ReplaceSteps ==
    ASSUME SerialInv, NEW i \in Cli, NEW c \in Cluster,
           RemoveInstance(i, c) \/ CreateInstance(i, c)
    PROVE  OpInv(i)' /\ World'
  <1>0. /\ op[i].kind = "recreate" /\ ~At(i, "purge", "secrets") /\ TypeOK
        /\ op[i].pc \in {"acquire", "create"} /\ c \in op[i].cluster
    BY DEF RemoveInstance, CreateInstance, At, SerialInv
  <1>1. /\ One(op[i].cluster) /\ op[i].cluster \subseteq volume
        /\ \A d \in op[i].cluster : \A p \in Fronting(d) :
              p \in op[i].left \/ hold[p][d] # "open" \/ <<p, d>> \in lapsed
        /\ op[i].left = {}
    BY <1>0 DEF SerialInv, OpInv, RecreateInv, RemoveInstance, CreateInstance, At
  <1>2. UNCHANGED <<rows, front, hold, lapsed, volume, role, secret, half>>
    BY DEF RemoveInstance, CreateInstance, registry, secrets, agents
  <1>3. \A d \in Cluster : instance'[d] # "none" => instance[d] # "none" \/ d = c
    BY <1>0 DEF RemoveInstance, CreateInstance, TypeOK
  <1>4. World'
    <2>1. FrontInv'
      BY <1>2 DEF SerialInv, World, FrontInv, RowDescribesPooler
    <2>2. NoSecretOfNothing'
      BY <1>0, <1>2, NothingOwedBy DEF NoSecretOfNothing
    <2>3. SecretMeansRole'
      BY <1>2 DEF SerialInv, World, SecretMeansRole
    <2>4. InstanceInv'
      BY <1>0, <1>1, <1>2, <1>3 DEF SerialInv, World, InstanceInv
    <2> QED  BY <2>1, <2>2, <2>3, <2>4 DEF World
  <1>5. /\ op'[i].kind = "recreate" /\ op'[i].cluster = op[i].cluster
        /\ op'[i].left = op[i].left /\ op'[i].pc \in {"create", "wait", "release"}
    <2>1. {"create", "wait", "release"} \subseteq PcState
      BY DEF PcState
    <2>2. Goto(i, "create") \/ Goto(i, "wait") \/ Goto(i, "release")
      BY DEF RemoveInstance, CreateInstance
    <2> QED  BY <1>0, <2>1, <2>2, GotoStep
  <1>6. OpInv(i)'
    BY <1>1, <1>2, <1>5
       DEF OpInv, ApplyInv, DeleteInv, RecreateInv, PurgeInv, Fronting, Present
  <1> QED  BY <1>4, <1>6

\* A purge goes on only while no pooler fronts its cluster, so that nobody
\* mounted what it removes.
LEMMA PurgeSteps ==
    ASSUME SerialInv, NEW i \in Cli, NEW c \in Cluster,
           \/ RefuseIfFronted(i, c) \/ PurgeContainer(i, c) \/ PurgeVolume(i, c)
           \/ PurgeSecret(i, c) \/ PurgeRow(i, c)
    PROVE  OpInv(i)' /\ World'
  <1>0. op[i].kind = "purge" /\ TypeOK /\ c \in op[i].cluster
    BY DEF RefuseIfFronted, PurgeContainer, PurgeVolume, PurgeSecret, PurgeRow, At,
           SerialInv
  <1>1. /\ One(op[i].cluster)
        /\ ~RefuseIfFronted(i, c) => Fronting(c) = {}
        /\ PurgeVolume(i, c) => instance[c] = "none"
    BY <1>0 DEF SerialInv, OpInv, PurgeInv, PurgeContainer, PurgeVolume,
                PurgeSecret, PurgeRow, At
  <1>2. UNCHANGED <<rows, front>> /\ half \subseteq half'
    BY DEF RefuseIfFronted, PurgeContainer, PurgeVolume, PurgeSecret, PurgeRow,
           registry, agents, secrets
  <1>3. /\ \A d \in Cluster : d # c =>
              /\ secret'[d] = secret[d] /\ role'[d] = role[d]
              /\ instance'[d] = instance[d]
              /\ d \in volume' <=> d \in volume
              /\ d \in half' <=> d \in half
        /\ RefuseIfFronted(i, c) => UNCHANGED <<secret, role, instance, volume, half>>
    BY <1>0 DEF RefuseIfFronted, PurgeContainer, PurgeVolume, PurgeSecret, PurgeRow,
                TypeOK, database, secrets
  <1>4. \A d \in op[i].cluster : d = c
    BY <1>0, <1>1 DEF One
  <1>5. /\ \/ op'[i].kind = "idle"
           \/ /\ op'[i].kind = "purge" /\ op'[i].cluster = op[i].cluster
              /\ \/ op'[i].pc \in {"secrets", "row"}
                 \/ op'[i].pc = "volume" /\ instance'[c] = "none"
                 \/ op'[i].pc = "container"
              /\ Fronting(c) = {}
        /\ PurgeVolume(i, c) =>
              \/ UNCHANGED volume
              \/ op'[i].kind = "purge" /\ op'[i].pc = "secrets"
    <2>1. {"container", "volume", "secrets", "row"} \subseteq PcState
      BY DEF PcState
    <2>2. \/ End(i)
          \/ /\ Goto(i, "container") \/ Goto(i, "secrets") \/ Goto(i, "row")
             /\ Fronting(c) = {}
          \/ Goto(i, "volume") /\ instance'[c] = "none" /\ Fronting(c) = {}
      BY <1>0, <1>1 DEF RefuseIfFronted, PurgeContainer, PurgeVolume, PurgeSecret,
                        PurgeRow, Fails, TypeOK
    <2>3. PurgeVolume(i, c) => UNCHANGED volume \/ Goto(i, "secrets")
      BY DEF PurgeVolume
    <2> QED  BY <1>0, <2>1, <2>2, <2>3, GotoStep, EndStep
  <1>6. World'
    <2>1. FrontInv'
      <3>1. ASSUME NEW p \in Pooler, front[p].state # "none",
                   NEW d \in Fronts[front[p].manifest] \ half'
            PROVE  /\ d \in volume' /\ front[p].creds[d] = role'[d]
                   /\ secret'[d] = role'[d] /\ secret'[d] # 0
        <4>1. /\ d \in Cluster /\ p \in Fronting(d)
              /\ d \in volume /\ front[p].creds[d] = role[d]
              /\ secret[d] = role[d] /\ secret[d] # 0
          BY <1>2, <3>1, Fronted
        <4>2. CASE d # c
          BY <1>3, <4>1, <4>2
        <4>3. CASE RefuseIfFronted(i, c)
          BY <1>3, <4>1, <4>3
        <4> QED  BY <1>1, <4>1, <4>2, <4>3
      <3> QED  BY <1>2, <3>1 DEF SerialInv, World, FrontInv, RowDescribesPooler
    <2>2. NoSecretOfNothing'
      <3>1. ASSUME NEW d \in Cluster \ (volume' \cup half'), secret'[d] # 0
            PROVE  (At(i, "purge", "secrets") /\ d \in op[i].cluster)'
        <4>1. d \notin half
          BY <1>2, <3>1
        <4>2. CASE d # c
          <5>1. d \notin volume /\ secret[d] # 0
            BY <1>3, <3>1, <4>2
          <5>2. \E j \in Cli : At(j, "purge", "secrets") /\ d \in op[j].cluster
            BY <3>1, <4>1, <5>1 DEF SerialInv, World, NoSecretOfNothing
          <5>3. d \in op[i].cluster
            BY <1>0, <5>2, Others DEF At
          <5> QED  BY <1>4, <4>2, <5>3
        <4>3. CASE d = c
          <5>1. CASE At(i, "purge", "secrets")
            BY <1>0, <3>1, <4>3, <5>1
               DEF At, RefuseIfFronted, PurgeContainer, PurgeVolume, PurgeSecret,
                   PurgeRow, TypeOK
          <5>2. CASE ~At(i, "purge", "secrets")
            <6>1. secret'[c] = secret[c]
              BY <5>2 DEF RefuseIfFronted, PurgeContainer, PurgeVolume, PurgeSecret,
                          PurgeRow, secrets
            <6>2. c \in volume
              BY <1>0, <3>1, <4>1, <4>3, <5>2, <6>1, NothingOwedBy
            <6>3. PurgeVolume(i, c)
              BY <3>1, <4>3, <6>2
                 DEF RefuseIfFronted, PurgeContainer, PurgeSecret, PurgeRow, database
            <6> QED  BY <1>0, <1>5, <3>1, <4>3, <6>2, <6>3 DEF At
          <5> QED  BY <5>1, <5>2
        <4> QED  BY <4>2, <4>3
      <3>2. (\A d \in Cluster \ (volume \cup half) : secret[d] = 0 \/
               \E j \in Cli : At(j, "purge", "secrets") /\ d \in op[j].cluster)'
        BY <3>1, Zenon
      <3> QED  BY <3>2 DEF NoSecretOfNothing
    <2>3. SecretMeansRole'
      <3>1. ASSUME NEW d \in volume' \ half', secret'[d] # 0
            PROVE  role'[d] = secret'[d]
        <4>1. volume' \subseteq volume /\ volume \subseteq Cluster
          BY <1>0 DEF RefuseIfFronted, PurgeContainer, PurgeVolume, PurgeSecret,
                      PurgeRow, database, TypeOK
        <4>2. secret[d] # 0 => role[d] = secret[d]
          BY <1>2, <3>1, <4>1 DEF SerialInv, World, SecretMeansRole
        <4>3. CASE d # c
          BY <1>3, <3>1, <4>1, <4>2, <4>3
        <4>4. CASE d = c
          <5>1. role'[c] = role[c]
            BY <1>0, <3>1, <4>4
               DEF RefuseIfFronted, PurgeContainer, PurgeVolume, PurgeSecret,
                   PurgeRow, database
          <5>2. secret'[c] \in {0, secret[c]}
            BY <1>0 DEF RefuseIfFronted, PurgeContainer, PurgeVolume, PurgeSecret,
                        PurgeRow, secrets, TypeOK
          <5> QED  BY <3>1, <4>2, <4>4, <5>1, <5>2
        <4> QED  BY <4>3, <4>4
      <3> QED  BY <3>1 DEF SecretMeansRole
    <2>4. InstanceInv'
      <3>1. instance'[c] # "none" => c \in volume'
        BY <1>0, <1>1
           DEF RefuseIfFronted, PurgeContainer, PurgeVolume, PurgeSecret, PurgeRow,
               database, TypeOK, SerialInv, World, InstanceInv
      <3> QED  BY <1>3, <3>1 DEF SerialInv, World, InstanceInv
    <2> QED  BY <2>1, <2>2, <2>3, <2>4 DEF World
  <1>7. OpInv(i)'
    BY <1>1, <1>2, <1>4, <1>5, IdleOwesNothing
       DEF OpInv, ApplyInv, DeleteInv, RecreateInv, PurgeInv, Fronting, Present
  <1> QED  BY <1>6, <1>7

\* A purge that is cut short before the secrets: its cluster is marked.
LEMMA DiesSteps ==
    ASSUME SerialInv, NEW i \in Cli, Dies(i)
    PROVE  OpInv(i)' /\ World'
  <1>1. /\ UNCHANGED <<rows, front, instance, volume, role, secret>>
        /\ half \subseteq half'
        /\ At(i, "purge", "secrets") => op[i].cluster \subseteq half'
    BY DEF Dies, registry, database, agents
  <1>2. OpInv(i)'
    BY EndStep, IdleOwesNothing DEF Dies, SerialInv
  <1>3. FrontInv' /\ InstanceInv'
    BY <1>1 DEF SerialInv, World, FrontInv, RowDescribesPooler, InstanceInv
  <1>4. SecretMeansRole'
    BY <1>1 DEF SerialInv, World, SecretMeansRole
  <1>5. NoSecretOfNothing'
    <2>1. ASSUME NEW c \in Cluster \ (volume \cup half'), secret[c] # 0 PROVE FALSE
      <3>1. PICK j \in Cli : At(j, "purge", "secrets") /\ c \in op[j].cluster
        BY <1>1, <2>1 DEF SerialInv, World, NoSecretOfNothing
      <3>2. j = i
        BY <3>1, Others DEF At, Dies
      <3> QED  BY <1>1, <2>1, <3>1, <3>2
    <2> QED  BY <1>1, <2>1 DEF NoSecretOfNothing
  <1> QED  BY <1>2, <1>3, <1>4, <1>5 DEF World

-----------------------------------------------------------------------------
(* What happens around the commands.                                       *)

\* `apply` and `delete` of a cluster, in turn with the commands.
LEMMA ClusterSerial ==
    ASSUME Overlap = FALSE, SerialInv, NEW c \in Cluster,
           ApplyCluster(c) \/ DeleteCluster(c)
    PROVE  SerialInv'
  <1>0. /\ \A j \in Cli : op[j].kind = "idle"
        /\ TypeOK
    BY DEF ApplyCluster, DeleteCluster, MayBegin, SerialInv
  <1>1. /\ UNCHANGED <<rows, front, role, secret, half, op>>
        /\ volume \subseteq volume' /\ volume' \subseteq volume \cup {c}
        /\ instance'[c] # "none" => c \in volume'
    BY <1>0 DEF ApplyCluster, DeleteCluster, registry, secrets, agents, TypeOK
  <1>2. \A d \in Cluster : d # c => instance'[d] = instance[d]
    BY <1>0 DEF ApplyCluster, DeleteCluster, TypeOK
  <1>3. \A d \in Cluster \ (volume \cup half) : secret[d] = 0
    BY <1>0, NothingOwed DEF At
  <1>4. TypeOK'
    BY <1>0, EnvironmentTyped DEF Environment
  <1>5. Solo' /\ \A j \in Cli : OpInv(j)'
    BY <1>0, <1>1, IdleOwesNothing DEF Solo
  <1>6. FrontInv'
    BY <1>1 DEF SerialInv, World, FrontInv, RowDescribesPooler
  <1>7. NoSecretOfNothing'
    BY <1>1, <1>3 DEF NoSecretOfNothing
  <1>8. SecretMeansRole'
    <2>1. ASSUME NEW d \in volume' \ half, secret[d] # 0 PROVE role[d] = secret[d]
      <3>1. d \in Cluster
        BY <1>4, <2>1 DEF TypeOK
      <3>2. d \in volume
        BY <1>3, <2>1, <3>1
      <3> QED  BY <2>1, <3>2 DEF SerialInv, World, SecretMeansRole
    <2> QED  BY <1>1, <2>1 DEF SecretMeansRole
  <1>9. InstanceInv'
    BY <1>1, <1>2 DEF SerialInv, World, InstanceInv
  <1> QED  BY <1>4, <1>5, <1>6, <1>7, <1>8, <1>9 DEF SerialInv, World

\* An instance comes up, dies, or is started by boot recovery, which keeps off
\* the clusters a command is at.
LEMMA InstanceSerial ==
    ASSUME SerialInv, NEW c \in Cluster,
           BecomesReady(c) \/ InstanceExits(c) \/ ResumeInstance(c)
    PROVE  SerialInv'
  <1>0. TypeOK
    BY DEF SerialInv
  <1>1. UNCHANGED <<rows, front, hold, lapsed, volume, role, secret, half, op>>
    BY DEF BecomesReady, InstanceExits, ResumeInstance, registry, secrets, agents
  <1>2. /\ \A d \in Cluster : d # c => instance'[d] = instance[d]
        /\ instance[c] # "none"
        /\ \/ instance'[c] \in {"up", "down"}
           \/ \A j \in Cli : c \notin op[j].cluster
    BY <1>0 DEF BecomesReady, InstanceExits, ResumeInstance, TypeOK
  <1>3. TypeOK'
    BY <1>0, EnvironmentTyped DEF Environment
  <1>4. Solo'
    BY <1>1 DEF SerialInv, Solo
  <1>5. ASSUME NEW j \in Cli PROVE OpInv(j)'
    <2>1. ApplyInv(j)' /\ DeleteInv(j)'
      BY <1>1 DEF SerialInv, OpInv, ApplyInv, DeleteInv, Adoptable
    <2>2. op[j].cluster \subseteq Cluster
      BY <1>0 DEF TypeOK, OpState
    <2>3. RecreateInv(j)'
      BY <1>1, <1>2, <2>2 DEF SerialInv, OpInv, RecreateInv, Fronting, Present
    <2>4. PurgeInv(j)'
      BY <1>1, <1>2, <2>2 DEF SerialInv, OpInv, PurgeInv, Fronting, Present
    <2> QED  BY <2>1, <2>3, <2>4 DEF OpInv
  <1>6. FrontInv' /\ NoSecretOfNothing' /\ SecretMeansRole'
    BY <1>1 DEF SerialInv, World, FrontInv, RowDescribesPooler, NoSecretOfNothing,
                SecretMeansRole, At
  <1>7. InstanceInv'
    BY <1>1, <1>2 DEF SerialInv, World, InstanceInv
  <1> QED  BY <1>3, <1>4, <1>5, <1>6, <1>7 DEF SerialInv, World

\* A deadline fires, a pooler dies, or boot recovery comes to it: every hold
\* that ends is marked as lapsed.
LEMMA PoolerSerial ==
    ASSUME SerialInv, NEW p \in Pooler,
           \/ PoolerExits(p) \/ ResumePooler(p)
           \/ \E c \in Cluster : DeadlineFires(p, c)
    PROVE  SerialInv'
  <1>0. TypeOK
    BY DEF SerialInv
  <1>1. UNCHANGED <<rows, instance, volume, role, secret, half, op>>
    BY DEF PoolerExits, ResumePooler, DeadlineFires, registry, database, secrets
  <1>2. /\ \A q \in Pooler : q # p => front'[q] = front[q]
        /\ \/ front' = front
           \/ /\ front[p].state # "none" /\ front'[p].state \in {"up", "down"}
              /\ front'[p].manifest = front[p].manifest
              /\ front'[p].creds = front[p].creds
    <2>1. \/ front' = front
          \/ /\ front[p].state # "none"
             /\ \/ front' = [front EXCEPT ![p].state = "up"]
                \/ front' = [front EXCEPT ![p].state = "down"]
      BY DEF PoolerExits, ResumePooler, DeadlineFires, Up
    <2>2. front \in [Pooler -> FrontState] /\ front[p] \in FrontState
      BY <1>0 DEF TypeOK
    <2> QED  BY <2>1, <2>2 DEF FrontState
  <1>3. ASSUME NEW q \in Pooler, NEW d \in Cluster,
               hold[q][d] # "open" \/ <<q, d>> \in lapsed
        PROVE  hold'[q][d] # "open" \/ <<q, d>> \in lapsed'
    <2>1. CASE PoolerExits(p) \/ ResumePooler(p)
      <3>1. \/ UNCHANGED <<hold, lapsed>>
            \/ /\ hold' = [hold EXCEPT ![p] = [c \in Cluster |-> "open"]]
               /\ lapsed' = lapsed \cup ({p} \X Cluster)
        BY <2>1 DEF PoolerExits, ResumePooler
      <3>2. q # p => hold'[q] = hold[q]
        BY <1>0, <3>1 DEF TypeOK
      <3> QED  BY <1>3, <3>1, <3>2
    <2>2. ASSUME NEW c \in Cluster, DeadlineFires(p, c)
          PROVE  hold'[q][d] # "open" \/ <<q, d>> \in lapsed'
      <3>1. lapsed' = lapsed \cup {<<p, c>>}
        BY <2>2 DEF DeadlineFires
      <3>2. <<q, d>> # <<p, c>> => hold'[q][d] = hold[q][d]
        BY <1>0, <2>2 DEF DeadlineFires, TypeOK
      <3> QED  BY <1>3, <3>1, <3>2
    <2> QED  BY <2>1, <2>2
  <1>4. TypeOK'
    BY <1>0, EnvironmentTyped DEF Environment
  <1>5. Solo'
    BY <1>1 DEF SerialInv, Solo
  <1>6. ASSUME NEW j \in Cli PROVE OpInv(j)'
    <2>1. op[j] \in OpState
      BY <1>0 DEF TypeOK
    <2>2. ApplyInv(j)'
      <3>1. \A q \in Pooler : front'[q].manifest = front[q].manifest
        BY <1>2
      <3> QED  BY <1>1, <2>1, <3>1 DEF SerialInv, OpInv, ApplyInv, OpState, Adoptable
    <2>3. DeleteInv(j)'
      <3>1. \A q \in Pooler : front[q].state = "none" => front'[q].state = "none"
        BY <1>2
      <3> QED  BY <1>1, <2>1, <3>1 DEF SerialInv, OpInv, DeleteInv, OpState
    <2>4. RecreateInv(j)'
      <3>1. ASSUME op[j].kind = "recreate", op[j].pc \in {"acquire", "create", "wait"},
                   NEW d \in op[j].cluster, NEW q \in Fronting(d)
            PROVE  q \in op[j].left \/ hold'[q][d] # "open" \/ <<q, d>> \in lapsed'
        <4>1. d \in Cluster /\ q \in Pooler
          BY <2>1, <3>1 DEF OpState, Fronting
        <4>2. q \in op[j].left \/ hold[q][d] # "open" \/ <<q, d>> \in lapsed
          BY <3>1 DEF SerialInv, OpInv, RecreateInv
        <4> QED  BY <1>3, <4>1, <4>2
      <3>2. \A d : Fronting(d)' = Fronting(d)
        BY <1>1 DEF Fronting, Present
      <3> QED  BY <1>1, <3>1, <3>2 DEF SerialInv, OpInv, RecreateInv
    <2>5. PurgeInv(j)'
      BY <1>1 DEF SerialInv, OpInv, PurgeInv, Fronting, Present
    <2> QED  BY <2>2, <2>3, <2>4, <2>5 DEF OpInv
  <1>7. FrontInv'
    <2>1. (\A q \in Pooler : front[q].state = "none" <=> front[q].manifest = NoManifest)'
      BY <1>2 DEF SerialInv, World, FrontInv
    <2>2. RowDescribesPooler'
      BY <1>1, <1>2 DEF SerialInv, World, FrontInv, RowDescribesPooler
    <2>3. ASSUME NEW q \in Pooler, front'[q].state # "none",
                 NEW d \in Fronts[front'[q].manifest] \ half
          PROVE  /\ d \in volume /\ front'[q].creds[d] = role[d]
                 /\ secret[d] = role[d] /\ secret[d] # 0
      <3>1. /\ front[q].state # "none" /\ front'[q].manifest = front[q].manifest
            /\ front'[q].creds = front[q].creds
        BY <1>2, <2>3
      <3> QED  BY <2>3, <3>1, Fronted
    <2>4. (\A q \in Pooler : front[q].state # "none" =>
             \A d \in Fronts[front[q].manifest] \ half :
                /\ d \in volume
                /\ front[q].creds[d] = role[d]
                /\ secret[d] = role[d] /\ secret[d] # 0)'
      BY <1>1, <2>3
    <2> QED  BY <2>1, <2>2, <2>4 DEF FrontInv
  <1>8. NoSecretOfNothing' /\ SecretMeansRole' /\ InstanceInv'
    BY <1>1 DEF SerialInv, World, NoSecretOfNothing, SecretMeansRole, InstanceInv, At
  <1> QED  BY <1>4, <1>5, <1>6, <1>7, <1>8 DEF SerialInv, World

\* The host goes down, and every command with it.
LEMMA RebootSerial ==
    ASSUME SerialInv, Reboot
    PROVE  SerialInv'
  <1>0. TypeOK
    BY DEF SerialInv
  <1>1. /\ UNCHANGED <<rows, volume, role, secret>>
        /\ half' = half \cup {c \in Cluster : \E i \in Cli :
                                At(i, "purge", "secrets") /\ c \in op[i].cluster}
    BY DEF Reboot, registry
  <1>2. \A i \in Cli : op'[i].kind = "idle"
    BY IdleTyped DEF Reboot
  <1>3. /\ \A p \in Pooler : /\ front'[p].state = "none" <=> front[p].state = "none"
                             /\ front'[p].manifest = front[p].manifest
                             /\ front'[p].creds = front[p].creds
        /\ \A c \in Cluster : instance'[c] # "none" => instance[c] # "none"
    <2>1. ASSUME NEW p \in Pooler
          PROVE  /\ front'[p].state = "none" <=> front[p].state = "none"
                 /\ front'[p].manifest = front[p].manifest
                 /\ front'[p].creds = front[p].creds
      <3>1. front[p] \in FrontState
        BY <1>0 DEF TypeOK
      <3>2. \/ front'[p] = front[p]
            \/ Up(p) /\ front'[p] = [front[p] EXCEPT !.state = "down"]
        BY DEF Reboot
      <3> QED  BY <3>1, <3>2 DEF Up, FrontState
    <2>2. \A c \in Cluster : instance'[c] # "none" => instance[c] # "none"
      BY DEF Reboot
    <2> QED  BY <2>1, <2>2
  <1>4. TypeOK'
    BY <1>0, EnvironmentTyped DEF Environment
  <1>5. Solo' /\ \A j \in Cli : OpInv(j)'
    BY <1>2, IdleOwesNothing DEF Solo
  <1>6. FrontInv'
    <2>1. (\A q \in Pooler : front[q].state = "none" <=> front[q].manifest = NoManifest)'
      BY <1>3 DEF SerialInv, World, FrontInv
    <2>2. RowDescribesPooler'
      BY <1>1, <1>3 DEF SerialInv, World, FrontInv, RowDescribesPooler
    <2>3. ASSUME NEW q \in Pooler, front'[q].state # "none",
                 NEW d \in Fronts[front'[q].manifest] \ half'
          PROVE  /\ d \in volume /\ front'[q].creds[d] = role[d]
                 /\ secret[d] = role[d] /\ secret[d] # 0
      <3>1. /\ front[q].state # "none" /\ front'[q].manifest = front[q].manifest
            /\ front'[q].creds = front[q].creds /\ d \notin half
        BY <1>1, <1>3, <2>3
      <3> QED  BY <2>3, <3>1, Fronted
    <2>4. (\A q \in Pooler : front[q].state # "none" =>
             \A d \in Fronts[front[q].manifest] \ half :
                /\ d \in volume
                /\ front[q].creds[d] = role[d]
                /\ secret[d] = role[d] /\ secret[d] # 0)'
      BY <1>1, <2>3
    <2> QED  BY <2>1, <2>2, <2>4 DEF FrontInv
  <1>7. NoSecretOfNothing'
    BY <1>1 DEF SerialInv, World, NoSecretOfNothing
  <1>8. SecretMeansRole'
    BY <1>1 DEF SerialInv, World, SecretMeansRole
  <1>9. InstanceInv'
    BY <1>1, <1>3 DEF SerialInv, World, InstanceInv
  <1> QED  BY <1>4, <1>5, <1>6, <1>7, <1>8, <1>9 DEF SerialInv, World

-----------------------------------------------------------------------------
(* The theorems.                                                           *)

LEMMA SerialInit == Init => SerialInv
  <1> SUFFICES ASSUME Init PROVE SerialInv
    OBVIOUS
  <1>1. \A i \in Cli : op[i].kind = "idle"
    BY IdleTyped DEF Init
  <1>2. \A p \in Pooler : front[p].state = "none" /\ front[p].manifest = NoManifest
    BY DEF Init, NoFront
  <1>3. FrontInv
    BY <1>2 DEF FrontInv, RowDescribesPooler
  <1>4. NoSecretOfNothing /\ SecretMeansRole /\ InstanceInv
    BY DEF Init, NoSecretOfNothing, SecretMeansRole, InstanceInv
  <1>5. Solo /\ \A i \in Cli : OpInv(i)
    BY <1>1 DEF Solo, OpInv, ApplyInv, DeleteInv, RecreateInv, PurgeInv
  <1> QED  BY <1>3, <1>4, <1>5, TypeInit DEF SerialInv, World

LEMMA SerialStep ==
    ASSUME Overlap = FALSE, SerialInv, [Next]_vars
    PROVE  SerialInv'
  <1>1. CASE UNCHANGED vars
    <2>1. UNCHANGED <<known, rows, instance, volume, role, secret, admin, minted,
                      half, front, hold, lapsed, op, daemon, ops, kills>>
      BY <1>1 DEF vars, registry, database, secrets, agents, bounds
    <2>2. TypeOK'
      BY <1>1, TypeStep DEF SerialInv
    <2>3. Solo' /\ World'
      BY <2>1 DEF SerialInv, Solo, World, FrontInv, RowDescribesPooler,
                  NoSecretOfNothing, SecretMeansRole, InstanceInv, At
    <2>4. \A j \in Cli : OpInv(j)'
      BY <2>1 DEF SerialInv, OpInv, ApplyInv, DeleteInv, RecreateInv, PurgeInv, Adoptable,
                  Fronting, Present
    <2> QED  BY <2>2, <2>3, <2>4 DEF SerialInv
  <1>2. CASE Environment
    BY <1>2, ClusterSerial, InstanceSerial, PoolerSerial, RebootSerial DEF Environment
  <1>3. ASSUME NEW i \in Cli,
               \/ ApplyPooler(i) \/ DeletePooler(i) \/ Recreate(i) \/ Purge(i)
        PROVE  SerialInv'
    BY <1>3, BeginSerial
  <1>4. ASSUME NEW i \in Cli, op[i].kind # "idle", Moves(i), TypeOK',
               OpInv(i)', World'
        PROVE  SerialInv'
    BY <1>4, Others, Alone DEF SerialInv
  <1>5. ASSUME NEW i \in Cli, ApplyPoolerStep(i), ~ApplyPooler(i) PROVE SerialInv'
    <2>1. op[i].kind # "idle"
      BY <1>5 DEF ApplyPoolerStep, Resolve, FindSecret, AlterRole, DropSecret,
                  StoreSecret, AdminSecret, ProbePooler, PutApplying, PutRunning,
                  PutPooler, CreatePooler, StartPooler, At
    <2>2. Moves(i) /\ TypeOK'
      BY <1>5, ReadingSteps, ApplyTyped DEF ApplyPoolerStep, SerialInv
    <2>3. OpInv(i)' /\ World'
      BY <1>5, ApplyReads, RoleSteps, RecordSteps, CreateSteps DEF ApplyPoolerStep
    <2> QED  BY <1>4, <2>1, <2>2, <2>3
  <1>6. ASSUME NEW i \in Cli, DeletePoolerStep(i), ~DeletePooler(i) PROVE SerialInv'
    <2>1. op[i].kind # "idle"
      BY <1>6 DEF DeletePoolerStep, RemovePooler, ForgetPooler, At
    <2>2. Moves(i) /\ TypeOK'
      BY <1>6, HoldTyped DEF DeletePoolerStep, SerialInv
    <2>3. OpInv(i)' /\ World'
      BY <1>6, DeleteSteps DEF DeletePoolerStep
    <2> QED  BY <1>4, <2>1, <2>2, <2>3
  <1>7. ASSUME NEW i \in Cli, RecreateStep(i), ~Recreate(i) PROVE SerialInv'
    <2>1. op[i].kind # "idle"
      BY <1>7 DEF RecreateStep, Released, ListPoolers, RemoveInstance, CreateInstance,
                  WaitReady, Pause, Release, ReleaseAfterRecreate, At
    <2>2. Moves(i) /\ TypeOK'
      BY <1>7, ReadingSteps, HoldTyped DEF RecreateStep, SerialInv
    <2>3. OpInv(i)' /\ World'
      BY <1>7, RecreateSteps, ReplaceSteps DEF RecreateStep
    <2> QED  BY <1>4, <2>1, <2>2, <2>3
  <1>8. ASSUME NEW i \in Cli, PurgeStep(i), ~Purge(i) PROVE SerialInv'
    <2>1. op[i].kind # "idle"
      BY <1>8 DEF PurgeStep, RefuseIfFronted, PurgeContainer, PurgeVolume,
                  PurgeSecret, PurgeRow, At
    <2>2. Moves(i) /\ TypeOK'
      BY <1>8, ReadingSteps, PurgeTyped DEF PurgeStep, SerialInv
    <2>3. OpInv(i)' /\ World'
      BY <1>8, PurgeSteps DEF PurgeStep
    <2> QED  BY <1>4, <2>1, <2>2, <2>3
  <1>9. ASSUME NEW i \in Cli, Dies(i) PROVE SerialInv'
    <2>1. op[i].kind # "idle" /\ Moves(i) /\ TypeOK' /\ OpInv(i)' /\ World'
      BY <1>9, PurgeTyped, DiesSteps DEF Dies, SerialInv
    <2> QED  BY <1>4, <2>1
  <1> QED  BY <1>1, <1>2, <1>3, <1>5, <1>6, <1>7, <1>8, <1>9 DEF Next

\* What every state of commands that take turns satisfies.
THEOREM Serial == ASSUME Overlap = FALSE PROVE Spec => []SerialInv
  BY SerialInit, SerialStep, PTL DEF Spec

\* A stored lookup secret means the database has its password, wherever the
\* apply of a pooler stops (ensure_pooler_role).
THEOREM SecretsOpen == ASSUME Overlap = FALSE PROVE Spec => []SecretMeansRole
  <1>1. SerialInv => SecretMeansRole
    BY DEF SerialInv, World
  <1> QED  BY <1>1, Serial, PTL

\* No apply, recreate or purge of a cluster takes from a pooler that fronts it
\* the credentials it mounted (apply_pooler, delete).
THEOREM LogIn == ASSUME Overlap = FALSE PROVE Spec => []PoolersCanLogIn
  <1>1. SerialInv => PoolersCanLogIn
    BY DEF SerialInv, World, FrontInv, PoolersCanLogIn
  <1> QED  BY <1>1, Serial, PTL

\* The registry never describes a pooler with other clusters, pools or settings
\* than those of the container (refuse_if_pooler_diverged, put_pooler), however
\* many manifests share them.
THEOREM RowsTrue == ASSUME Overlap = FALSE PROVE Spec => []RowDescribesPooler
  <1>1. SerialInv => RowDescribesPooler
    BY DEF SerialInv, World, FrontInv
  <1> QED  BY <1>1, Serial, PTL

\* While an instance is being replaced no pooler in front of it lets a client
\* through unless its own deadline did (PoolerHold, recreate_instance).
THEOREM Held == ASSUME Overlap = FALSE PROVE Spec => []HeldThroughout
  <1>1. SerialInv => HeldThroughout
    <2> SUFFICES ASSUME SerialInv, NEW i \in Cli, NEW c \in Cluster, Replacing(i, c),
                        NEW p \in Fronting(c)
                 PROVE  \/ hold[p][c] # "open" \/ <<p, c>> \in lapsed
                        \/ instance[c] \in {"up", "down"}
      BY DEF HeldThroughout
    <2>1. RecreateInv(i)
      BY DEF SerialInv, OpInv
    <2> QED  BY <2>1 DEF RecreateInv, Replacing
  <1> QED  BY <1>1, Serial, PTL
=============================================================================
