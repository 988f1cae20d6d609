------------------------- MODULE ControlPlaneProofs -------------------------
(***************************************************************************)
(* Proofs about ControlPlane: its type invariant for every value of the    *)
(* constants, its safety invariants for operators that take turns, and who *)
(* answers for "applying" when they do not.                                *)
(***************************************************************************)
EXTENDS ControlPlane, TLAPS

-----------------------------------------------------------------------------
(* The inductive invariants.                                               *)

\* TypeOK is not inductive: what a command writes is what it read or was
\* given at an earlier step, so the shape of its locals depends on where it is.
WithPort == ApplyPc \ {"put-read", "put-write", "lookup", "fail"}
WithRow  == {"ready-write", "del-probe", "del-stop", "del-remove", "mark-row"}

Shape(p) ==
    /\ op[p].pc \in ApplyPc  => op[p].manifest \in Manifest
    /\ op[p].pc \in WithPort => op[p].port \in Port
    /\ op[p].pc \in WithRow  => op[p].row \in InstanceRow

TypeInv ==
    /\ TypeOK
    /\ \A p \in Cli : Shape(p)
    /\ daemon.pc = "ready-write" => daemon.row \in InstanceRow

\* Operators that take turns: at most one command is at work, and what it
\* read of the registry is still so.
Solo ==
    \A p, q \in Cli : op[p].pc # "idle" /\ op[q].pc # "idle" => p = q

Applying  == ApplyPc \ {"put-read", "put-write"}
RowIsIn   == {"probe", "hold", "stop", "remove", "create", "start", "ready",
              "ready-read", "ready-write", "release", "bootstrapping", "finish"}
FromHere  == {"start", "ready", "ready-read", "ready-write", "release",
              "bootstrapping", "finish"}
Emptied   == {"del-volume", "forget", "mark-row", "mark-cluster"}

Progress(p) ==
    LET c == op[p].cluster
    IN  /\ op[p].pc = "put-write" => op[p].was = clusters[c]
        /\ op[p].pc \in Applying =>
              /\ clusters[c].phase = "applying"
              /\ clusters[c].manifest = op[p].manifest
        /\ op[p].pc \in RowIsIn => instances[c] # NoRow
        /\ op[p].pc \in FromHere /\ Exists(c) => Describes(op[p].manifest, c)
        /\ op[p].pc \in Emptied => ~Exists(c)
        /\ op[p].pc = "forget" => volume[c] # "data"

Safe ==
    /\ NoOrphanContainer
    /\ DataReachable
    /\ StoppedMeansDown
    /\ ManifestHonoured

SerialInv == TypeInv /\ Solo /\ Safe /\ \A p \in Cli : Progress(p)

\* A step that keeps what a container was made from and how it was adopted.
Kept(c) ==
    /\ container'[c].manifest = container[c].manifest
    /\ container'[c].blind = container[c].blind

-----------------------------------------------------------------------------
(* Lemmas about the updates the actions share.                             *)

\* A command that only moves on keeps everything it carries.
LEMMA GotoStep ==
    ASSUME op \in [Cli -> Op], NEW p \in Cli,
           NEW pc \in {"idle"} \cup ApplyPc \cup DeletePc, Goto(p, pc)
    PROVE  /\ op' \in [Cli -> Op]
           /\ op'[p].pc = pc
           /\ op'[p].cluster = op[p].cluster
           /\ op'[p].manifest = op[p].manifest
           /\ op'[p].purge = op[p].purge
           /\ op'[p].was = op[p].was
           /\ op'[p].port = op[p].port
           /\ op'[p].row = op[p].row
           /\ op'[p].id = op[p].id
           /\ op'[p].held = op[p].held
           /\ \A q \in Cli : q # p => op'[q] = op[q]
  BY DEF Goto, Op

\* The rows that stand for "no row" are none of the rows there are.
LEMMA Absent ==
    /\ NoRow \notin InstanceRow
    /\ NoCluster \notin ClusterRow
    /\ NoContainer \notin Container
    /\ NoRow.phase = "absent"
    /\ NoCluster.phase = "absent"
  <1>1. "absent" \notin InstancePhase /\ "absent" \notin ClusterPhase
    BY DEF InstancePhase, ClusterPhase
  <1> QED  BY <1>1 DEF NoRow, NoCluster, NoContainer, InstanceRow, ClusterRow, Container

\* A slot that is free again.
LEMMA EndStep ==
    ASSUME op \in [Cli -> Op], NEW p \in Cli, End(p)
    PROVE  /\ op' \in [Cli -> Op]
           /\ op'[p].pc = "idle"
           /\ \A q \in Cli : q # p => op'[q] = op[q]
  <1>1. (CHOOSE c \in Cluster : TRUE) \in Cluster
    BY ConstantsOK
  <1>2. Idle \in Op /\ Idle.pc = "idle"
    BY <1>1 DEF Idle, Op
  <1> QED  BY <1>2 DEF End

-----------------------------------------------------------------------------
(* The type invariant.                                                     *)

\* What is left to show of a command's step once its process has moved.
LEMMA CommandTyped ==
    ASSUME TypeInv, NEW p \in Cli,
           op' \in [Cli -> Op],
           \A q \in Cli : q # p => op'[q] = op[q],
           Shape(p)',
           clusters' \in [Cluster -> ClusterRow \cup {NoCluster}],
           instances' \in [Cluster -> InstanceRow \cup {NoRow}],
           container' \in [Cluster -> Container \cup {NoContainer}],
           volume' \in [Cluster -> {"absent", "empty", "data"}],
           born' \in Nat, started' \in Nat, crashes' \in Nat,
           UNCHANGED <<fronted, daemon>>
    PROVE  TypeInv'
  BY DEF TypeInv, TypeOK, Shape

\* A command starts with the locals of an idle slot and its arguments.
LEMMA BeginTyped ==
    ASSUME TypeInv, NEW p \in Cli, NEW command \in Op, Begin(p, command),
           command.pc \in {"put-read", "require"},
           command.pc = "put-read" => command.manifest \in Manifest
    PROVE  TypeInv'
  <1>1. /\ op' \in [Cli -> Op]
        /\ op'[p] = command
        /\ \A q \in Cli : q # p => op'[q] = op[q]
    BY DEF Begin, TypeInv, TypeOK
  <1>2. Shape(p)'
    BY <1>1 DEF Shape, ApplyPc, WithPort, WithRow
  <1>3. started' \in Nat
    BY DEF Begin, TypeInv, TypeOK
  <1> QED
    BY <1>1, <1>2, <1>3, CommandTyped DEF TypeInv, TypeOK, Begin, registry, podman

LEMMA StartTyped ==
    ASSUME TypeInv, NEW p \in Cli, StartApply(p) \/ StartDelete(p)
    PROVE  TypeInv'
  <1>1. (CHOOSE c \in Cluster : TRUE) \in Cluster
    BY ConstantsOK
  <1>2. "put-read" \in ApplyPc /\ "require" \in DeletePc
    BY DEF ApplyPc, DeletePc
  <1>3. CASE StartApply(p)
    <2>1. PICK c \in Cluster, s \in Manifest, recreate \in BOOLEAN, wait \in BOOLEAN :
            Begin(p, [Idle EXCEPT !.pc = "put-read", !.cluster = c, !.manifest = s,
                                  !.recreate = recreate, !.wait = wait])
      BY <1>3 DEF StartApply
    <2> DEFINE command ==
          [Idle EXCEPT !.pc = "put-read", !.cluster = c, !.manifest = s,
                       !.recreate = recreate, !.wait = wait]
    <2>2. command \in Op /\ command.pc = "put-read" /\ command.manifest = s
      BY <1>1, <1>2 DEF Idle, Op
    <2> HIDE DEF command
    <2> QED  BY <2>1, <2>2, BeginTyped DEF command
  <1>4. CASE StartDelete(p)
    <2>1. PICK c \in Cluster, purge \in BOOLEAN :
            Begin(p, [Idle EXCEPT !.pc = "require", !.cluster = c, !.purge = purge])
      BY <1>4 DEF StartDelete
    <2> DEFINE command ==
          [Idle EXCEPT !.pc = "require", !.cluster = c, !.purge = purge]
    <2>2. command \in Op /\ command.pc = "require"
      BY <1>1, <1>2 DEF Idle, Op
    <2> HIDE DEF command
    <2> QED  BY <2>1, <2>2, BeginTyped DEF command
  <1> QED  BY <1>3, <1>4

LEMMA PutClusterTyped ==
    ASSUME TypeInv, NEW p \in Cli, PutClusterRead(p) \/ PutClusterWrite(p)
    PROVE  TypeInv'
  <1>0. op[p] \in Op /\ Shape(p)
    BY DEF TypeInv, TypeOK
  <1>1. CASE PutClusterRead(p)
    <2>1. clusters[op[p].cluster] \in ClusterRow \cup {NoCluster}
      BY <1>0 DEF TypeInv, TypeOK, Op
    <2>2. /\ op' \in [Cli -> Op] /\ Shape(p)'
          /\ \A q \in Cli : q # p => op'[q] = op[q]
      <3> DEFINE r == [op[p] EXCEPT !.pc = "put-write",
                                    !.was = clusters[op[p].cluster]]
      <3>1. op[p].manifest \in Manifest
        BY <1>0, <1>1 DEF PutClusterRead, Shape, ApplyPc
      <3>2. r \in Op /\ r.pc = "put-write" /\ r.manifest = op[p].manifest
        BY <1>0, <2>1 DEF Op, ApplyPc
      <3>3. op' = [op EXCEPT ![p] = r]
        BY <1>1 DEF PutClusterRead
      <3> HIDE DEF r
      <3>4. /\ op' \in [Cli -> Op] /\ op'[p] = r
            /\ \A q \in Cli : q # p => op'[q] = op[q]
        BY <3>2, <3>3 DEF TypeInv, TypeOK
      <3> QED  BY <3>1, <3>2, <3>4 DEF Shape, WithPort, WithRow
    <2> QED
      BY <1>1, <2>2, CommandTyped DEF PutClusterRead, TypeInv, TypeOK, registry,
                                      podman, bounds
  <1>2. CASE PutClusterWrite(p)
    <2> DEFINE next ==
          [phase |-> "applying", manifest |-> op[p].manifest,
           gen |-> IF op[p].was = NoCluster THEN 1
                   ELSE IF op[p].was.manifest = op[p].manifest THEN op[p].was.gen
                   ELSE op[p].was.gen + 1]
    <2>1. op[p].manifest \in Manifest /\ op[p].was \in ClusterRow \cup {NoCluster}
      BY <1>0, <1>2 DEF PutClusterWrite, Shape, Op, ApplyPc
    <2>2. next \in ClusterRow
      BY <2>1 DEF ClusterRow, ClusterPhase
    <2>3. clusters' \in [Cluster -> ClusterRow \cup {NoCluster}]
      <3> HIDE DEF next
      <3>1. clusters' \in {clusters, [clusters EXCEPT ![op[p].cluster] = next]}
        BY <1>2 DEF PutClusterWrite, next
      <3> QED  BY <3>1, <2>2 DEF TypeInv, TypeOK
    <2>4. End(p) \/ Goto(p, "lookup")
      BY <1>2 DEF PutClusterWrite
    <2>5. /\ op' \in [Cli -> Op] /\ Shape(p)'
          /\ \A q \in Cli : q # p => op'[q] = op[q]
      BY <2>1, <2>4, GotoStep, EndStep
         DEF TypeInv, TypeOK, Shape, ApplyPc, DeletePc, WithPort, WithRow
    <2> QED
      BY <1>2, <2>3, <2>5, CommandTyped DEF PutClusterWrite, TypeInv, TypeOK,
                                           podman, bounds
  <1> QED  BY <1>1, <1>2

\* A step that only moves on, to a place that needs nothing new.
LEMMA GotoTyped ==
    ASSUME TypeInv, NEW p \in Cli,
           NEW pc \in {"idle"} \cup ApplyPc \cup DeletePc, Goto(p, pc),
           pc \in ApplyPc => op[p].pc \in ApplyPc,
           pc \in WithPort => op[p].pc \in WithPort,
           pc \in WithRow => op[p].pc \in WithRow
    PROVE  /\ op' \in [Cli -> Op] /\ Shape(p)'
           /\ \A q \in Cli : q # p => op'[q] = op[q]
  BY GotoStep DEF TypeInv, TypeOK, Shape

LEMMA EndTyped ==
    ASSUME TypeInv, NEW p \in Cli, End(p)
    PROVE  /\ op' \in [Cli -> Op] /\ Shape(p)'
           /\ \A q \in Cli : q # p => op'[q] = op[q]
  BY EndStep DEF TypeInv, TypeOK, Shape, ApplyPc, WithPort, WithRow

\* A step that takes down something read or chosen as well.
LEMMA NotedTyped ==
    ASSUME TypeInv, NEW p \in Cli, NEW r \in Op, op' = [op EXCEPT ![p] = r],
           r.pc \in ApplyPc => r.manifest \in Manifest,
           r.pc \in WithPort => r.port \in Port,
           r.pc \in WithRow => r.row \in InstanceRow
    PROVE  /\ op' \in [Cli -> Op] /\ Shape(p)'
           /\ \A q \in Cli : q # p => op'[q] = op[q]
  BY DEF TypeInv, TypeOK, Shape

LEMMA LookUpPortTyped ==
    ASSUME TypeInv, NEW p \in Cli, LookUpPort(p)
    PROVE  TypeInv'
  <1>1. op[p] \in Op /\ op[p].pc = "lookup" /\ op[p].manifest \in Manifest
    BY DEF TypeInv, TypeOK, Shape, LookUpPort, ApplyPc
  <1>2. instances[op[p].cluster] # NoRow => instances[op[p].cluster].port \in Port
    BY <1>1 DEF TypeInv, TypeOK, Op, InstanceRow
  <1>3. PICK port \in Port :
          op' = [op EXCEPT ![p] = [op[p] EXCEPT !.pc = "volume", !.port = port]]
    BY <1>2 DEF LookUpPort
  <1> DEFINE r == [op[p] EXCEPT !.pc = "volume", !.port = port]
  <1>4. /\ r \in Op /\ r.pc = "volume" /\ r.port = port
        /\ r.manifest = op[p].manifest
    BY <1>1 DEF Op, ApplyPc
  <1>5. "volume" \notin WithRow
    BY DEF WithRow
  <1> HIDE DEF r
  <1>6. /\ op' \in [Cli -> Op] /\ Shape(p)'
        /\ \A q \in Cli : q # p => op'[q] = op[q]
    BY <1>1, <1>3, <1>4, <1>5, NotedTyped DEF r
  <1> QED
    BY <1>6, CommandTyped DEF TypeInv, TypeOK, LookUpPort, registry, podman, bounds

LEMMA PutRowTyped ==
    ASSUME TypeInv, NEW p \in Cli, NEW pc, NEW rec \in InstanceRow, NEW next,
           PutRow(p, pc, rec, next),
           next \in ApplyPc, pc \in ApplyPc,
           next \in WithPort => pc \in WithPort,
           next \notin WithRow
    PROVE  TypeInv'
  <1>1. /\ op' \in [Cli -> Op] /\ Shape(p)'
        /\ \A q \in Cli : q # p => op'[q] = op[q]
    BY GotoTyped DEF PutRow, ApplyPc, WithPort, WithRow
  <1>2. instances' \in [Cluster -> InstanceRow \cup {NoRow}]
    BY DEF PutRow, PutInstance, TypeInv, TypeOK
  <1> QED
    BY <1>1, <1>2, CommandTyped DEF PutRow, TypeInv, TypeOK, podman, bounds

LEMMA PutRowsTyped ==
    ASSUME TypeInv, NEW p \in Cli,
           PutCreating(p) \/ PutBootstrapping(p) \/ ReadyWrite(p)
    PROVE  TypeInv'
  <1>0. op[p] \in Op /\ Shape(p)
    BY DEF TypeInv, TypeOK
  <1>1. CASE PutCreating(p)
    <2>1. [phase |-> "creating", port |-> op[p].port] \in InstanceRow
      BY <1>0, <1>1 DEF PutCreating, PutRow, Shape, InstanceRow, InstancePhase,
                        ApplyPc, WithPort
    <2> QED
      BY <1>1, <2>1, PutRowTyped DEF PutCreating, ApplyPc, WithPort, WithRow
  <1>2. CASE PutBootstrapping(p)
    <2>1. [phase |-> "bootstrapping", port |-> op[p].port] \in InstanceRow
      BY <1>0, <1>2 DEF PutBootstrapping, PutRow, Shape, InstanceRow, InstancePhase,
                        ApplyPc, WithPort
    <2> QED
      BY <1>2, <2>1, PutRowTyped DEF PutBootstrapping, ApplyPc, WithPort, WithRow
  <1>3. CASE ReadyWrite(p)
    <2>1. op[p].row \in InstanceRow
      BY <1>0, <1>3 DEF ReadyWrite, PutRow, Shape, WithRow
    <2>2. [op[p].row EXCEPT !.phase = "running"] \in InstanceRow
      BY <2>1 DEF InstanceRow, InstancePhase
    <2> QED
      BY <1>3, <2>2, PutRowTyped DEF ReadyWrite, AfterReady, ApplyPc, WithPort, WithRow
  <1> QED  BY <1>1, <1>2, <1>3

\* The steps of a command that change nothing but its own locals.
LEMMA ReadingTyped ==
    ASSUME TypeInv, NEW p \in Cli,
           \/ Hold(p) \/ Ready(p) \/ ReadyRead(p) \/ Release(p)
           \/ Require(p) \/ DeleteProbe(p) \/ PodmanFails(p)
    PROVE  TypeInv'
  <1>0. op[p] \in Op /\ Shape(p)
    BY DEF TypeInv, TypeOK
  <1>1. instances[op[p].cluster] \in InstanceRow \cup {NoRow}
    BY <1>0 DEF TypeInv, TypeOK, Op
  <1>2. /\ op' \in [Cli -> Op] /\ Shape(p)'
        /\ \A q \in Cli : q # p => op'[q] = op[q]
    <2>2. CASE Hold(p)
      <3> DEFINE r == [op[p] EXCEPT !.pc = "stop", !.held = TRUE]
      <3>1. /\ r \in Op /\ r.pc = "stop" /\ r.port = op[p].port
            /\ r.manifest = op[p].manifest
        BY <1>0 DEF Op, ApplyPc
      <3>2. op' = [op EXCEPT ![p] = r] /\ op[p].pc = "hold"
        BY <2>2 DEF Hold
      <3> HIDE DEF r
      <3> QED
        BY <1>0, <3>1, <3>2, NotedTyped DEF Shape, ApplyPc, WithPort, WithRow
    <2>3. CASE Release(p)
      <3> DEFINE r == [op[p] EXCEPT !.pc = "bootstrapping", !.held = FALSE]
      <3>1. /\ r \in Op /\ r.pc = "bootstrapping" /\ r.port = op[p].port
            /\ r.manifest = op[p].manifest
        BY <1>0 DEF Op, ApplyPc
      <3>2. op' = [op EXCEPT ![p] = r] /\ op[p].pc = "release"
        BY <2>3 DEF Release
      <3> HIDE DEF r
      <3> QED
        BY <1>0, <3>1, <3>2, NotedTyped DEF Shape, ApplyPc, WithPort, WithRow
    <2>4. CASE ReadyRead(p)
      <3> DEFINE row == instances[op[p].cluster]
                 to == IF row = NoRow THEN AfterReady(p) ELSE "ready-write"
                 r == [op[p] EXCEPT !.pc = to, !.row = row]
      <3>1. to \in {"release", "finish", "ready-write"}
        BY DEF AfterReady
      <3>2. to = "ready-write" => row \in InstanceRow
        BY <1>1 DEF AfterReady
      <3>3. op' = [op EXCEPT ![p] = r] /\ op[p].pc = "ready-read"
        BY <2>4 DEF ReadyRead
      <3> HIDE DEF to
      <3>4. /\ r \in Op /\ r.pc = to /\ r.port = op[p].port /\ r.row = row
            /\ r.manifest = op[p].manifest
        BY <1>0, <1>1, <3>1 DEF Op, ApplyPc
      <3> HIDE DEF r
      <3> QED
        BY <1>0, <3>1, <3>2, <3>3, <3>4, NotedTyped
           DEF Shape, ApplyPc, WithPort, WithRow
    <2>5. CASE Require(p)
      <3> DEFINE row == instances[op[p].cluster]
                 to == IF row # NoRow THEN "del-probe"
                       ELSE IF op[p].purge THEN "forget" ELSE "mark-cluster"
                 r == [op[p] EXCEPT !.row = row, !.pc = to]
      <3>1. to \in {"del-probe", "forget", "mark-cluster"}
        OBVIOUS
      <3>2. to = "del-probe" => row \in InstanceRow
        BY <1>1
      <3>3. End(p) \/ op' = [op EXCEPT ![p] = r]
        BY <2>5 DEF Require
      <3> HIDE DEF to
      <3>4. r \in Op /\ r.pc = to /\ r.row = row
        BY <1>0, <1>1, <3>1 DEF Op, DeletePc
      <3> HIDE DEF r
      <3> QED
        BY <3>1, <3>2, <3>3, <3>4, NotedTyped, EndTyped DEF ApplyPc, WithPort, WithRow
    <2>6. CASE Ready(p)
      <3>1. op[p].pc = "ready" /\ (Goto(p, "ready-read") \/ Goto(p, "fail"))
        BY <2>6 DEF Ready
      <3> QED  BY <3>1, GotoTyped DEF ApplyPc, WithPort, WithRow
    <2>7. CASE DeleteProbe(p)
      <3>1. \E pc \in {"del-stop", "del-volume", "mark-row"} :
               op[p].pc = "del-probe" /\ Goto(p, pc)
        BY <2>7 DEF DeleteProbe, AfterContainer
      <3> QED  BY <3>1, GotoTyped DEF DeletePc, ApplyPc, WithPort, WithRow
    <2>8. CASE PodmanFails(p)
      <3>1. End(p) \/ (op[p].pc \in ApplyPc /\ Goto(p, "fail"))
        BY <2>8 DEF PodmanFails, ApplyPc
      <3> QED  BY <3>1, GotoTyped, EndTyped DEF ApplyPc, WithPort, WithRow
    <2> QED  BY <2>2, <2>3, <2>4, <2>5, <2>6, <2>7, <2>8
  <1>3. UNCHANGED <<registry, podman, daemon, bounds>>
    BY DEF Hold, Ready, ReadyRead, Release, Require, DeleteProbe, PodmanFails
  <1> QED
    BY <1>2, <1>3, CommandTyped DEF TypeInv, TypeOK, registry, podman, bounds

\* What podman does to one container keeps every container well formed.
LEMMA Containers ==
    ASSUME TypeInv, NEW c \in Cluster
    PROVE  /\ Exists(c) => container[c] \in Container
           /\ Running(c) => Exists(c)
           /\ Running(c) => Stopped(c) \in Container
           /\ \A k \in Container \cup {NoContainer} :
                [container EXCEPT ![c] = k] \in [Cluster -> Container \cup {NoContainer}]
  <1>1. container[c] \in Container \cup {NoContainer}
    BY DEF TypeInv, TypeOK
  <1>2. Running(c) => container[c] # NoContainer
    BY DEF Running, NoContainer
  <1>3. container[c] \in Container => Stopped(c) \in Container
    BY DEF Stopped, Container
  <1>4. \A k \in Container \cup {NoContainer} :
           [container EXCEPT ![c] = k] \in [Cluster -> Container \cup {NoContainer}]
    BY DEF TypeInv, TypeOK
  <1> QED  BY <1>1, <1>2, <1>3, <1>4 DEF Exists

\* The probe of an apply changes its own locals and, of a container it adopts,
\* the mark of what it did not look at.
LEMMA ProbeTyped ==
    ASSUME TypeInv, NEW p \in Cli, Probe(p)
    PROVE  TypeInv'
  <1> DEFINE c == op[p].cluster
  <1>0. op[p] \in Op /\ Shape(p) /\ c \in Cluster /\ op[p].pc = "probe"
    BY DEF TypeInv, TypeOK, Op, Probe
  <1>1. PICK known \in ImageKnown :
          /\ op' = [op EXCEPT ![p].pc = AfterProbe(p, known), ![p].id = container[c].id]
          /\ container' = IF AfterProbe(p, known) \in Adopted
                          THEN [container EXCEPT ![c].blind = Blind(p, known)]
                          ELSE container
    BY DEF Probe
  <1>2. AfterProbe(p, known) \in {"create", "bootstrapping", "hold", "fail",
                                  "remove", "start"}
    BY DEF AfterProbe
  <1>3. container' \in [Cluster -> Container \cup {NoContainer}]
    <2>1. CASE AfterProbe(p, known) \in Adopted
      <3> DEFINE now == [container[c] EXCEPT !.blind = Blind(p, known)]
      <3>1. Exists(c)
        BY <2>1 DEF Adopted, AfterProbe
      <3>2. now \in Container
        <4>1. Blind(p, known) \in BOOLEAN
          BY DEF Blind
        <4> QED  BY <1>0, <3>1, <4>1, Containers DEF Container
      <3>3. container' = [container EXCEPT ![c] = now]
        BY <1>1, <2>1
      <3> QED  BY <1>0, <3>2, <3>3, Containers
    <2> QED  BY <1>1, <2>1 DEF TypeInv, TypeOK
  <1> DEFINE r == [op[p] EXCEPT !.pc = AfterProbe(p, known), !.id = container[c].id]
  <1>4. container[c].id \in Nat
    BY <1>0 DEF TypeInv, TypeOK, Container, NoContainer
  <1>5. AfterProbe(p, known) \in ApplyPc
    BY <1>2 DEF ApplyPc
  <1>6. /\ r \in Op /\ r.pc = AfterProbe(p, known) /\ r.port = op[p].port
        /\ r.manifest = op[p].manifest
    BY <1>0, <1>4, <1>5 DEF Op
  <1>7. op' = [op EXCEPT ![p] = r]
    BY <1>1
  <1> HIDE DEF r
  <1>8. /\ op' \in [Cli -> Op] /\ Shape(p)'
        /\ \A q \in Cli : q # p => op'[q] = op[q]
    BY <1>0, <1>2, <1>6, <1>7, NotedTyped DEF Shape, ApplyPc, WithPort, WithRow
  <1>9. UNCHANGED <<registry, volume, born, daemon, bounds>>
    BY DEF Probe
  <1> QED
    BY <1>3, <1>8, <1>9, CommandTyped DEF TypeInv, TypeOK, registry, bounds

LEMMA StartsUpTyped ==
    ASSUME TypeInv, NEW c \in Cluster, Exists(c), StartsUp(c)
    PROVE  /\ container' \in [Cluster -> Container \cup {NoContainer}]
           /\ volume' \in [Cluster -> {"absent", "empty", "data"}]
           /\ born' \in Nat
  <1>1. container[c] \in Container
    BY Containers
  <1>2. [container[c] EXCEPT !.state = "running"] \in Container
    BY <1>1 DEF Container
  <1>3. container' = [container EXCEPT ![c] = [container[c] EXCEPT !.state = "running"]]
    BY DEF StartsUp
  <1> QED  BY <1>2, <1>3, Containers DEF StartsUp, TypeInv, TypeOK

LEMMA StopTyped ==
    ASSUME TypeInv, NEW p \in Cli, Stop(p) \/ DeleteStop(p)
    PROVE  TypeInv'
  <1>0. op[p] \in Op /\ op[p].cluster \in Cluster
    BY DEF TypeInv, TypeOK, Op
  <1>1. /\ op' \in [Cli -> Op] /\ Shape(p)'
        /\ \A q \in Cli : q # p => op'[q] = op[q]
    <2>1. \/ op[p].pc = "stop" /\ Goto(p, "remove")
          \/ op[p].pc = "del-stop" /\ Goto(p, "del-remove")
      BY DEF Stop, DeleteStop, StopContainer
    <2> QED  BY <2>1, GotoTyped DEF ApplyPc, DeletePc, WithPort, WithRow
  <1>2. container' \in [Cluster -> Container \cup {NoContainer}]
    <2>1. \/ UNCHANGED container
          \/ /\ Running(op[p].cluster)
             /\ container' = [container EXCEPT ![op[p].cluster] = Stopped(op[p].cluster)]
      BY DEF Stop, DeleteStop, StopContainer
    <2> QED  BY <1>0, <2>1, Containers DEF TypeInv, TypeOK
  <1>3. UNCHANGED <<registry, volume, born, daemon, bounds>>
    BY DEF Stop, DeleteStop, StopContainer
  <1> QED
    BY <1>1, <1>2, <1>3, CommandTyped DEF TypeInv, TypeOK, registry, bounds

LEMMA RemoveTyped ==
    ASSUME TypeInv, NEW p \in Cli, Remove(p) \/ DeleteRemove(p)
    PROVE  TypeInv'
  <1>0. op[p] \in Op /\ op[p].cluster \in Cluster
    BY DEF TypeInv, TypeOK, Op
  <1>1. /\ op' \in [Cli -> Op] /\ Shape(p)'
        /\ \A q \in Cli : q # p => op'[q] = op[q]
    <2>1. \/ op[p].pc = "remove" /\ (Goto(p, "create") \/ Goto(p, "fail"))
          \/ op[p].pc = "del-remove" /\ (Goto(p, "del-volume") \/ Goto(p, "mark-row"))
          \/ End(p)
      BY DEF Remove, DeleteRemove, AfterContainer
    <2> QED  BY <2>1, GotoTyped, EndTyped DEF ApplyPc, DeletePc, WithPort, WithRow
  <1>2. \/ UNCHANGED container
        \/ container' = [container EXCEPT ![op[p].cluster] = NoContainer]
    BY DEF Remove, DeleteRemove
  <1>3. container' \in [Cluster -> Container \cup {NoContainer}]
    BY <1>0, <1>2, Containers DEF TypeInv, TypeOK
  <1>4. UNCHANGED <<registry, volume, born, daemon, bounds>>
    BY DEF Remove, DeleteRemove
  <1> QED
    BY <1>1, <1>3, <1>4, CommandTyped DEF TypeInv, TypeOK, registry, bounds

LEMMA VolumeTyped ==
    ASSUME TypeInv, NEW p \in Cli, CreateVolume(p) \/ DeleteVolume(p)
    PROVE  TypeInv'
  <1>1. /\ op' \in [Cli -> Op] /\ Shape(p)'
        /\ \A q \in Cli : q # p => op'[q] = op[q]
    <2>1. \/ op[p].pc = "volume" /\ Goto(p, "creating")
          \/ op[p].pc = "del-volume" /\ (End(p) \/ Goto(p, "forget"))
      BY DEF CreateVolume, DeleteVolume
    <2> QED  BY <2>1, GotoTyped, EndTyped DEF ApplyPc, DeletePc, WithPort, WithRow
  <1>2. volume' \in [Cluster -> {"absent", "empty", "data"}]
    BY DEF CreateVolume, DeleteVolume, TypeInv, TypeOK
  <1>3. UNCHANGED <<registry, container, born, daemon, bounds>>
    BY DEF CreateVolume, DeleteVolume
  <1> QED
    BY <1>1, <1>2, <1>3, CommandTyped DEF TypeInv, TypeOK, registry, bounds

LEMMA CreateTyped ==
    ASSUME TypeInv, NEW p \in Cli, Create(p)
    PROVE  TypeInv'
  <1>0. /\ op[p] \in Op /\ op[p].cluster \in Cluster /\ op[p].pc = "create"
        /\ op[p].port \in Port /\ op[p].manifest \in Manifest /\ born \in Nat
    BY DEF TypeInv, TypeOK, Op, Create, Shape, ApplyPc, WithPort
  <1> DEFINE made == [state |-> "created", id |-> born + 1, manifest |-> op[p].manifest,
                      port |-> op[p].port, ready |-> FALSE, blind |-> FALSE]
             r == [op[p] EXCEPT !.pc = "start", !.id = born + 1]
  <1>1. made \in Container
    BY <1>0 DEF Container
  <1>2. /\ r \in Op /\ r.pc = "start" /\ r.port = op[p].port
        /\ r.manifest = op[p].manifest
    <2>1. "start" \in ApplyPc /\ born + 1 \in Nat
      BY <1>0 DEF ApplyPc
    <2> QED  BY <1>0, <2>1 DEF Op
  <1>3. \/ UNCHANGED podman /\ Goto(p, "fail")
        \/ /\ container' = [container EXCEPT ![op[p].cluster] = made]
           /\ volume' = [volume EXCEPT ![op[p].cluster] =
                           IF @ = "absent" THEN "empty" ELSE @]
           /\ born' = born + 1
           /\ op' = [op EXCEPT ![p] = r]
    BY DEF Create
  <1> HIDE DEF made, r
  <1>4. /\ op' \in [Cli -> Op] /\ Shape(p)'
        /\ \A q \in Cli : q # p => op'[q] = op[q]
    BY <1>0, <1>2, <1>3, GotoTyped, NotedTyped DEF ApplyPc, WithPort, WithRow
  <1>5. container' \in [Cluster -> Container \cup {NoContainer}]
    BY <1>0, <1>1, <1>3, Containers DEF podman, TypeInv, TypeOK
  <1>6. volume' \in [Cluster -> {"absent", "empty", "data"}] /\ born' \in Nat
    BY <1>0, <1>3 DEF podman, TypeInv, TypeOK
  <1>7. UNCHANGED <<registry, daemon, bounds>>
    BY DEF Create
  <1> QED
    BY <1>4, <1>5, <1>6, <1>7, CommandTyped DEF TypeInv, TypeOK, registry, bounds

LEMMA StartContainerTyped ==
    ASSUME TypeInv, NEW p \in Cli, Start(p)
    PROVE  TypeInv'
  <1>0. op[p] \in Op /\ op[p].cluster \in Cluster /\ op[p].pc = "start"
    BY DEF TypeInv, TypeOK, Op, Start
  <1>1. Goto(p, "fail") \/ Goto(p, "ready") \/ Goto(p, "bootstrapping")
    BY DEF Start
  <1>2. /\ op' \in [Cli -> Op] /\ Shape(p)'
        /\ \A q \in Cli : q # p => op'[q] = op[q]
    BY <1>0, <1>1, GotoTyped DEF ApplyPc, WithPort, WithRow
  <1>3. UNCHANGED podman \/ (Exists(op[p].cluster) /\ StartsUp(op[p].cluster))
    BY DEF Start, CanStart
  <1>4. /\ container' \in [Cluster -> Container \cup {NoContainer}]
        /\ volume' \in [Cluster -> {"absent", "empty", "data"}]
        /\ born' \in Nat
    BY <1>0, <1>3, StartsUpTyped DEF podman, TypeInv, TypeOK
  <1>5. UNCHANGED <<registry, daemon, bounds>>
    BY DEF Start
  <1> QED
    BY <1>2, <1>4, <1>5, CommandTyped DEF TypeInv, TypeOK, registry, bounds

\* The steps that write the registry and leave podman alone.
LEMMA SetPhaseTyped ==
    ASSUME TypeInv, NEW c \in Cluster, NEW phase \in ClusterPhase, SetPhase(c, phase)
    PROVE  clusters' \in [Cluster -> ClusterRow \cup {NoCluster}]
  <1>1. clusters[c] \in ClusterRow \cup {NoCluster}
    BY DEF TypeInv, TypeOK
  <1>2. Recorded(c) => [clusters[c] EXCEPT !.phase = phase] \in ClusterRow
    BY <1>1 DEF Recorded, ClusterRow
  <1>3. \/ UNCHANGED clusters
        \/ /\ Recorded(c)
           /\ clusters' = [clusters EXCEPT ![c] = [clusters[c] EXCEPT !.phase = phase]]
    BY DEF SetPhase
  <1> QED  BY <1>2, <1>3 DEF TypeInv, TypeOK

LEMMA ConcludeTyped ==
    ASSUME TypeInv, NEW p \in Cli, Finish(p) \/ Fail(p) \/ MarkCluster(p)
    PROVE  TypeInv'
  <1>0. op[p].cluster \in Cluster
    BY DEF TypeInv, TypeOK, Op
  <1>1. PICK phase \in ClusterPhase : \E pc : Conclude(p, pc, phase)
    BY DEF Finish, Fail, MarkCluster, ClusterPhase
  <1>2. clusters' \in [Cluster -> ClusterRow \cup {NoCluster}]
    BY <1>0, <1>1, SetPhaseTyped DEF Conclude
  <1>3. End(p) /\ UNCHANGED <<instances, fronted, podman, daemon, bounds>>
    BY <1>1 DEF Conclude
  <1> QED
    BY <1>2, <1>3, EndTyped, CommandTyped DEF TypeInv, TypeOK, podman, bounds

LEMMA ForgetTyped ==
    ASSUME TypeInv, NEW p \in Cli, Forget(p)
    PROVE  TypeInv'
  <1>1. /\ clusters' \in [Cluster -> ClusterRow \cup {NoCluster}]
        /\ instances' \in [Cluster -> InstanceRow \cup {NoRow}]
    BY DEF Forget, TypeInv, TypeOK
  <1>2. End(p) /\ UNCHANGED <<fronted, podman, daemon, bounds>>
    BY DEF Forget
  <1> QED
    BY <1>1, <1>2, EndTyped, CommandTyped DEF TypeInv, TypeOK, podman, bounds

LEMMA MarkRowTyped ==
    ASSUME TypeInv, NEW p \in Cli, MarkRow(p)
    PROVE  TypeInv'
  <1>1. op[p].cluster \in Cluster /\ op[p].pc = "mark-row" /\ op[p].row \in InstanceRow
    BY DEF TypeInv, TypeOK, Op, MarkRow, Shape, WithRow
  <1>2. [op[p].row EXCEPT !.phase = "stopped"] \in InstanceRow
    BY <1>1 DEF InstanceRow, InstancePhase
  <1>3. instances' \in [Cluster -> InstanceRow \cup {NoRow}]
    BY <1>1, <1>2 DEF MarkRow, PutInstance, TypeInv, TypeOK
  <1>4. /\ op' \in [Cli -> Op] /\ Shape(p)'
        /\ \A q \in Cli : q # p => op'[q] = op[q]
    BY <1>1, GotoTyped, EndTyped DEF MarkRow, DeletePc, ApplyPc, WithPort, WithRow
  <1>5. UNCHANGED <<clusters, fronted, podman, daemon, bounds>>
    BY DEF MarkRow
  <1> QED
    BY <1>3, <1>4, <1>5, CommandTyped DEF TypeInv, TypeOK, podman, bounds

LEMMA CliDiesTyped ==
    ASSUME TypeInv, NEW p \in Cli, CliDies(p)
    PROVE  TypeInv'
  <1>1. crashes' \in Nat
    BY DEF CliDies, TypeInv, TypeOK
  <1>2. End(p) /\ UNCHANGED <<registry, podman, started, daemon>>
    BY DEF CliDies
  <1> QED
    BY <1>1, <1>2, EndTyped, CommandTyped DEF TypeInv, TypeOK, registry, podman

LEMMA CommandStepTyped ==
    ASSUME TypeInv, NEW p \in Cli,
           \/ StartApply(p) \/ StartDelete(p) \/ ApplyStep(p) \/ DeleteStep(p)
           \/ PodmanFails(p) \/ CliDies(p)
    PROVE  TypeInv'
  BY StartTyped, PutClusterTyped, LookUpPortTyped, PutRowsTyped, ReadingTyped,
     ProbeTyped,
     StopTyped, RemoveTyped, VolumeTyped, CreateTyped, StartContainerTyped,
     ConcludeTyped, ForgetTyped, MarkRowTyped, CliDiesTyped
     DEF ApplyStep, DeleteStep

\* Boot recovery, and what happens to containers by themselves.
LEMMA WorldTyped ==
    ASSUME TypeInv,
           UNCHANGED <<clusters, op, started>>,
           fronted' \in SUBSET Cluster,
           daemon' \in Daemon,
           daemon'.pc = "ready-write" => daemon'.row \in InstanceRow,
           instances' \in [Cluster -> InstanceRow \cup {NoRow}],
           container' \in [Cluster -> Container \cup {NoContainer}],
           volume' \in [Cluster -> {"absent", "empty", "data"}],
           born' \in Nat, crashes' \in Nat
    PROVE  TypeInv'
  BY DEF TypeInv, TypeOK, Shape

LEMMA DaemonOffTyped ==
    /\ DaemonOff \in Daemon /\ DaemonOff.pc = "off"
    /\ [DaemonOff EXCEPT !.pc = "boot"] \in Daemon
    /\ [DaemonOff EXCEPT !.pc = "boot"].pc = "boot"
  <1>1. (CHOOSE c \in Cluster : TRUE) \in Cluster
    BY ConstantsOK
  <1> QED  BY <1>1 DEF DaemonOff, Daemon, DaemonPc

LEMMA DaemonGotoTyped ==
    ASSUME daemon \in Daemon, NEW pc \in DaemonPc, DaemonGoto(pc)
    PROVE  daemon' \in Daemon /\ daemon'.pc = pc /\ daemon'.row = daemon.row
  BY DEF Daemon, DaemonGoto

LEMMA DaemonTyped ==
    ASSUME TypeInv, DaemonStep \/ RunOnce \/ DaemonDies
    PROVE  TypeInv'
  <1>0. daemon \in Daemon /\ daemon.at \in Cluster
    BY DEF TypeInv, TypeOK, Daemon
  <1>1. CASE RunOnce \/ ResumeProbe \/ ResumeReady
    <2>1. \E pc \in {"boot", "start", "next", "ready-read"} : DaemonGoto(pc)
      BY <1>1 DEF RunOnce, ResumeProbe, ResumeReady, DaemonNext
    <2>2. daemon' \in Daemon /\ daemon'.pc # "ready-write"
      BY <1>0, <2>1, DaemonGotoTyped DEF DaemonPc
    <2>3. UNCHANGED <<registry, podman, op, bounds>>
      BY <1>1 DEF RunOnce, ResumeProbe, ResumeReady
    <2> QED
      BY <2>2, <2>3, WorldTyped DEF TypeInv, TypeOK, registry, podman, bounds
  <1>2. CASE ListClusters
    <2>1. [c \in Cluster |-> clusters[c].phase]
            \in [Cluster -> ClusterPhase \cup {"absent"}]
      BY Absent DEF TypeInv, TypeOK, ClusterRow
    <2>2. daemon' \in Daemon /\ daemon'.pc # "ready-write"
      BY <1>0, <1>2, <2>1 DEF ListClusters, Daemon, DaemonPc
    <2> QED
      BY <1>2, <2>2, WorldTyped
         DEF ListClusters, TypeInv, TypeOK, registry, podman, bounds
  <1>3. CASE \E c \in Cluster : ResumeCluster(c)
    <2>1. PICK c \in Cluster : ResumeCluster(c)
      BY <1>3
    <2>2. instances[c] \in InstanceRow \cup {NoRow}
      BY DEF TypeInv, TypeOK
    <2>3. daemon' \in Daemon /\ daemon'.pc # "ready-write"
      BY <1>0, <2>1, <2>2 DEF ResumeCluster, Daemon, DaemonPc
    <2> QED
      BY <2>1, <2>3, WorldTyped
         DEF ResumeCluster, TypeInv, TypeOK, registry, podman, bounds
  <1>4. CASE ResumeDone
    BY <1>4, DaemonOffTyped, WorldTyped
       DEF ResumeDone, TypeInv, TypeOK, registry, podman, bounds
  <1>5. CASE ResumeStart
    <2>1. DaemonGoto("ready") \/ DaemonGoto("next")
      BY <1>5 DEF ResumeStart, DaemonNext
    <2>2. daemon' \in Daemon /\ daemon'.pc # "ready-write"
      BY <1>0, <2>1, DaemonGotoTyped DEF DaemonPc
    <2>3. UNCHANGED podman \/ (Exists(daemon.at) /\ StartsUp(daemon.at))
      BY <1>5 DEF ResumeStart, CanStart
    <2>4. /\ container' \in [Cluster -> Container \cup {NoContainer}]
          /\ volume' \in [Cluster -> {"absent", "empty", "data"}]
          /\ born' \in Nat
      BY <1>0, <2>3, StartsUpTyped DEF podman, TypeInv, TypeOK
    <2> QED
      BY <1>5, <2>2, <2>4, WorldTyped
         DEF ResumeStart, TypeInv, TypeOK, registry, bounds
  <1>6. CASE ResumeReadyRead
    <2> DEFINE row == instances[daemon.at]
    <2>1. row \in InstanceRow \cup {NoRow}
      BY <1>0 DEF TypeInv, TypeOK
    <2>2. daemon' \in Daemon /\ (daemon'.pc = "ready-write" => daemon'.row \in InstanceRow)
      BY <1>0, <1>6, <2>1 DEF ResumeReadyRead, Daemon, DaemonPc
    <2> QED
      BY <1>6, <2>2, WorldTyped
         DEF ResumeReadyRead, TypeInv, TypeOK, registry, podman, bounds
  <1>7. CASE ResumeReadyWrite
    <2>1. [daemon.row EXCEPT !.phase = "running"] \in InstanceRow
      BY <1>7 DEF ResumeReadyWrite, TypeInv, InstanceRow, InstancePhase
    <2>2. instances' \in [Cluster -> InstanceRow \cup {NoRow}]
      BY <1>0, <1>7, <2>1 DEF ResumeReadyWrite, PutInstance, TypeInv, TypeOK
    <2>3. daemon' \in Daemon /\ daemon'.pc # "ready-write"
      BY <1>0, <1>7, DaemonGotoTyped DEF ResumeReadyWrite, DaemonNext, DaemonPc
    <2> QED
      BY <1>7, <2>2, <2>3, WorldTyped
         DEF ResumeReadyWrite, TypeInv, TypeOK, podman, bounds
  <1>8. CASE DaemonDies
    <2>1. crashes' \in Nat
      BY <1>8 DEF DaemonDies, TypeInv, TypeOK
    <2> QED
      BY <1>8, <2>1, DaemonOffTyped, WorldTyped
         DEF DaemonDies, TypeInv, TypeOK, registry, podman
  <1> QED
    BY <1>1, <1>2, <1>3, <1>4, <1>5, <1>6, <1>7, <1>8 DEF DaemonStep

LEMMA EnvironmentTyped ==
    ASSUME TypeInv, NEW c \in Cluster,
           \/ FrontCluster(c) \/ UnfrontCluster(c)
           \/ BecomesReady(c) \/ InstanceExits(c)
    PROVE  TypeInv'
  <1>1. fronted' \in SUBSET Cluster
    BY DEF FrontCluster, UnfrontCluster, BecomesReady, InstanceExits, registry,
           TypeInv, TypeOK
  <1>2. Running(c) => [container[c] EXCEPT !.ready = TRUE] \in Container
    BY Containers DEF Container
  <1>3. \/ UNCHANGED container
        \/ /\ Running(c)
           /\ \/ container' = [container EXCEPT ![c] = Stopped(c)]
              \/ container' = [container EXCEPT ![c] =
                                 [container[c] EXCEPT !.ready = TRUE]]
    BY DEF FrontCluster, UnfrontCluster, BecomesReady, InstanceExits, podman
  <1>4. container' \in [Cluster -> Container \cup {NoContainer}]
    BY <1>2, <1>3, Containers DEF TypeInv, TypeOK
  <1>5. UNCHANGED <<clusters, instances, volume, born, op, daemon, bounds>>
    BY DEF FrontCluster, UnfrontCluster, BecomesReady, InstanceExits, podman, registry
  <1> QED
    BY <1>1, <1>4, <1>5, WorldTyped DEF TypeInv, TypeOK, bounds

LEMMA RebootTyped ==
    ASSUME TypeInv, Reboot
    PROVE  TypeInv'
  <1>1. (CHOOSE c \in Cluster : TRUE) \in Cluster
    BY ConstantsOK
  <1>2. Idle \in Op /\ Idle.pc = "idle"
    BY <1>1 DEF Idle, Op
  <1>3. /\ op' \in [Cli -> Op]
        /\ \A p \in Cli : op'[p].pc = "idle"
    BY <1>2 DEF Reboot
  <1>4. \A p \in Cli : Shape(p)'
    BY <1>3 DEF Shape, ApplyPc, WithPort, WithRow
  <1>5. \A c \in Cluster :
           (IF Running(c) THEN Stopped(c) ELSE container[c]) \in Container \cup {NoContainer}
    BY Containers DEF Exists
  <1>6. container' \in [Cluster -> Container \cup {NoContainer}]
    BY <1>5 DEF Reboot
  <1>7. crashes' \in Nat /\ daemon' \in Daemon /\ daemon'.pc = "boot"
    BY DaemonOffTyped DEF Reboot, TypeInv, TypeOK
  <1>8. UNCHANGED <<registry, volume, born, started>>
    BY DEF Reboot
  <1> QED
    BY <1>3, <1>4, <1>6, <1>7, <1>8 DEF TypeInv, TypeOK, registry

LEMMA TypeInit == Init => TypeInv
  <1> SUFFICES ASSUME Init PROVE TypeInv
    OBVIOUS
  <1>1. (CHOOSE c \in Cluster : TRUE) \in Cluster
    BY ConstantsOK
  <1>2. Idle \in Op /\ Idle.pc = "idle"
    BY <1>1 DEF Idle, Op
  <1>3. \A p \in Cli : Shape(p)
    BY <1>2 DEF Init, Shape, ApplyPc, WithPort, WithRow
  <1> QED
    BY <1>2, <1>3, DaemonOffTyped DEF Init, TypeInv, TypeOK

LEMMA TypeNext == TypeInv /\ [Next]_vars => TypeInv'
  <1> SUFFICES ASSUME TypeInv, [Next]_vars PROVE TypeInv'
    OBVIOUS
  <1>1. CASE Next
    BY <1>1, CommandStepTyped, EnvironmentTyped, DaemonTyped, RebootTyped DEF Next
  <1>2. CASE UNCHANGED vars
    BY <1>2, WorldTyped DEF vars, TypeInv, TypeOK
  <1> QED  BY <1>1, <1>2

\* Whatever the numbers of clusters, commands and crashes, and whether or not
\* commands overlap, every row the commands write is one the registry's schema
\* has, and every container carries a port and a manifest of its own.
THEOREM Typing == Spec => []TypeOK
  <1>1. TypeInv => TypeOK
    BY DEF TypeInv
  <1> QED  BY <1>1, TypeInit, TypeNext, PTL DEF Spec

-----------------------------------------------------------------------------
(* Operators that take turns: the safety invariants.                       *)

\* While one command is at work every other slot is idle, so a step of it is
\* judged by the tables and by its own locals.
LEMMA Alone ==
    ASSUME SerialInv, NEW p \in Cli,
           op[p].pc # "idle" \/ \A q \in Cli : op[q].pc = "idle",
           \A q \in Cli : q # p => op'[q] = op[q],
           TypeInv', Safe', Progress(p)'
    PROVE  SerialInv'
  <1>1. \A q \in Cli : q # p => op'[q].pc = "idle"
    BY DEF SerialInv, Solo
  <1>2. Solo'
    BY <1>1 DEF Solo
  <1>3. \A q \in Cli : q # p => Progress(q)'
    BY <1>1 DEF Progress, Applying, ApplyPc, RowIsIn, FromHere, Emptied
  <1> QED  BY <1>2, <1>3 DEF SerialInv

\* A step that changes neither the rows nor what podman has.
LEMMA Reading ==
    ASSUME SerialInv, NEW p \in Cli,
           UNCHANGED <<clusters, instances, container, volume>>,
           op'[p].cluster = op[p].cluster, op'[p].manifest = op[p].manifest,
           op'[p].pc = "put-write" => op'[p].was = clusters[op[p].cluster],
           op'[p].pc \in Applying => op[p].pc \in Applying,
           op'[p].pc \in RowIsIn => op[p].pc \in RowIsIn,
           op'[p].pc \in FromHere /\ Exists(op[p].cluster) =>
              \/ op[p].pc \in FromHere
              \/ Describes(op[p].manifest, op[p].cluster),
           op'[p].pc \in Emptied => ~Exists(op[p].cluster),
           op'[p].pc = "forget" => volume[op[p].cluster] # "data"
    PROVE  Safe' /\ Progress(p)'
  <1>1. Safe'
    BY DEF SerialInv, Safe, NoOrphanContainer, DataReachable, StoppedMeansDown,
           ManifestHonoured, Describes, Recorded, Exists
  <1>2. Progress(p)'
    BY DEF SerialInv, Progress, Describes, Exists
  <1> QED  BY <1>1, <1>2

\* A slot that is free has nothing to keep.
LEMMA Freed ==
    ASSUME NEW p \in Cli, op'[p].pc = "idle"
    PROVE  Progress(p)'
  BY DEF Progress, Applying, ApplyPc, RowIsIn, FromHere, Emptied

LEMMA ReadingSteps ==
    ASSUME SerialInv, NEW p \in Cli,
           \/ PutClusterRead(p) \/ LookUpPort(p) \/ Hold(p)
           \/ Ready(p) \/ ReadyRead(p) \/ Release(p)
           \/ Require(p) \/ DeleteProbe(p) \/ PodmanFails(p) \/ CliDies(p)
    PROVE  /\ Safe' /\ Progress(p)'
           /\ op[p].pc # "idle"
           /\ \A q \in Cli : q # p => op'[q] = op[q]
  <1>0. /\ op \in [Cli -> Op] /\ op[p] \in Op /\ op[p].cluster \in Cluster
        /\ Progress(p)
    BY DEF SerialInv, TypeInv, TypeOK, Op
  <1>1. UNCHANGED <<clusters, instances, container, volume>>
    BY DEF PutClusterRead, LookUpPort, Hold, Ready, ReadyRead, Release, Require,
           DeleteProbe, PodmanFails, CliDies, registry, podman
  <1>2. CASE PutClusterRead(p)
    <2>1. /\ op[p].pc = "put-read" /\ op'[p].pc = "put-write"
          /\ op'[p].was = clusters[op[p].cluster]
          /\ op'[p].cluster = op[p].cluster /\ op'[p].manifest = op[p].manifest
          /\ \A q \in Cli : q # p => op'[q] = op[q]
      BY <1>0, <1>2 DEF PutClusterRead, Op
    <2> QED
      BY <1>1, <2>1, Reading DEF Applying, RowIsIn, FromHere, Emptied
  <1>3. CASE LookUpPort(p)
    <2>1. /\ op[p].pc = "lookup" /\ op'[p].pc = "volume"
          /\ op'[p].cluster = op[p].cluster /\ op'[p].manifest = op[p].manifest
          /\ \A q \in Cli : q # p => op'[q] = op[q]
      <3>1. op[p].pc = "lookup" /\ \E port :
               op' = [op EXCEPT ![p] = [op[p] EXCEPT !.pc = "volume", !.port = port]]
        BY <1>3 DEF LookUpPort
      <3> QED  BY <1>0, <3>1 DEF Op
    <2> QED
      BY <1>1, <2>1, Reading DEF Applying, ApplyPc, RowIsIn, FromHere, Emptied
  <1>5. CASE Hold(p) \/ Release(p)
    <2>1. /\ \/ op[p].pc = "hold" /\ op'[p].pc = "stop"
             \/ op[p].pc = "release" /\ op'[p].pc = "bootstrapping"
          /\ op'[p].cluster = op[p].cluster /\ op'[p].manifest = op[p].manifest
          /\ \A q \in Cli : q # p => op'[q] = op[q]
      BY <1>0, <1>5 DEF Hold, Release, Op
    <2> QED
      BY <1>1, <2>1, Reading DEF Applying, ApplyPc, RowIsIn, FromHere, Emptied
  <1>6. CASE Ready(p)
    <2>1. /\ op[p].pc = "ready" /\ op'[p].pc \in {"ready-read", "fail"}
          /\ op'[p].cluster = op[p].cluster /\ op'[p].manifest = op[p].manifest
          /\ \A q \in Cli : q # p => op'[q] = op[q]
      BY <1>0, <1>6, GotoStep DEF Ready, ApplyPc
    <2> QED
      BY <1>1, <2>1, Reading DEF Applying, ApplyPc, RowIsIn, FromHere, Emptied
  <1>7. CASE ReadyRead(p)
    <2>1. /\ op[p].pc = "ready-read" /\ op'[p].pc \in {"ready-write", "release", "finish"}
          /\ op'[p].cluster = op[p].cluster /\ op'[p].manifest = op[p].manifest
          /\ \A q \in Cli : q # p => op'[q] = op[q]
      BY <1>0, <1>7 DEF ReadyRead, AfterReady, Op
    <2> QED
      BY <1>1, <2>1, Reading DEF Applying, ApplyPc, RowIsIn, FromHere, Emptied
  <1>8. CASE Require(p)
    <2>1. op[p].pc = "require"
      BY <1>8 DEF Require
    <2>2. CASE End(p)
      BY <1>0, <1>1, <2>1, <2>2, EndStep, Freed
         DEF SerialInv, Safe, NoOrphanContainer, DataReachable, StoppedMeansDown,
             ManifestHonoured, Describes, Recorded, Exists
    <2>3. CASE ~End(p)
      <3> DEFINE to == IF instances[op[p].cluster] # NoRow THEN "del-probe"
                       ELSE IF op[p].purge THEN "forget" ELSE "mark-cluster"
      <3>1. op' = [op EXCEPT ![p] = [op[p] EXCEPT !.row = instances[op[p].cluster],
                                                  !.pc = to]]
        BY <1>8, <2>3 DEF Require
      <3> HIDE DEF to
      <3>2. /\ op'[p].pc = to
            /\ op'[p].cluster = op[p].cluster /\ op'[p].manifest = op[p].manifest
            /\ \A q \in Cli : q # p => op'[q] = op[q]
        BY <1>0, <3>1 DEF Op
      <3>3. to \in {"del-probe", "forget", "mark-cluster"}
        BY DEF to
      <3>4. to \in {"forget", "mark-cluster"} =>
               ~Exists(op[p].cluster) /\ volume[op[p].cluster] # "data"
        BY <1>0 DEF to, SerialInv, Safe, NoOrphanContainer, DataReachable
      <3> QED
        BY <1>1, <2>1, <3>2, <3>3, <3>4, Reading
           DEF Applying, ApplyPc, RowIsIn, FromHere, Emptied
    <2> QED  BY <2>2, <2>3
  <1>9. CASE DeleteProbe(p)
    <2>1. /\ op[p].pc = "del-probe" /\ op'[p].pc \in {"del-stop", "del-volume", "mark-row"}
          /\ op'[p].pc # "del-stop" => ~Exists(op[p].cluster)
          /\ op'[p].cluster = op[p].cluster /\ op'[p].manifest = op[p].manifest
          /\ \A q \in Cli : q # p => op'[q] = op[q]
      BY <1>0, <1>9, GotoStep DEF DeleteProbe, AfterContainer, DeletePc
    <2> QED
      BY <1>1, <2>1, Reading DEF Applying, ApplyPc, RowIsIn, FromHere, Emptied
  <1>10. CASE PodmanFails(p)
    <2>1. CASE End(p)
      BY <1>0, <1>1, <1>10, <2>1, EndStep, Freed
         DEF PodmanFails, SerialInv, Safe, NoOrphanContainer, DataReachable,
             StoppedMeansDown, ManifestHonoured, Describes, Recorded, Exists
    <2>2. CASE ~End(p)
      <3>1. /\ op[p].pc \in {"lookup", "volume", "probe", "hold", "remove",
                             "create", "start", "ready", "release"}
            /\ op'[p].pc = "fail"
            /\ op'[p].cluster = op[p].cluster /\ op'[p].manifest = op[p].manifest
            /\ \A q \in Cli : q # p => op'[q] = op[q]
        BY <1>0, <1>10, <2>2, GotoStep DEF PodmanFails, ApplyPc
      <3> QED
        BY <1>1, <3>1, Reading DEF Applying, ApplyPc, RowIsIn, FromHere, Emptied
    <2> QED  BY <2>1, <2>2
  <1>11. CASE CliDies(p)
    BY <1>0, <1>1, <1>11, EndStep, Freed
       DEF CliDies, SerialInv, Safe, NoOrphanContainer, DataReachable,
           StoppedMeansDown, ManifestHonoured, Describes, Recorded, Exists
  <1> QED
    BY <1>2, <1>3, <1>5, <1>6, <1>7, <1>8, <1>9, <1>10, <1>11

\* The steps of a command that write a table or act on podman.
LEMMA PutClusterSafe ==
    ASSUME SerialInv, NEW p \in Cli, PutClusterWrite(p)
    PROVE  /\ Safe' /\ Progress(p)'
           /\ \A q \in Cli : q # p => op'[q] = op[q]
  <1> DEFINE c == op[p].cluster
             next == [phase |-> "applying", manifest |-> op[p].manifest,
                      gen |-> IF op[p].was = NoCluster THEN 1
                              ELSE IF op[p].was.manifest = op[p].manifest
                                   THEN op[p].was.gen ELSE op[p].was.gen + 1]
  <1>0. /\ op \in [Cli -> Op] /\ op[p] \in Op /\ c \in Cluster
        /\ clusters \in [Cluster -> ClusterRow \cup {NoCluster}]
        /\ op[p].was = clusters[c]
    BY DEF SerialInv, TypeInv, TypeOK, Op, Progress, PutClusterWrite
  <1>1. UNCHANGED <<instances, container, volume>>
    BY DEF PutClusterWrite, podman
  <1>2. clusters' = [clusters EXCEPT ![c] = next] /\ Goto(p, "lookup")
    BY <1>0 DEF PutClusterWrite, Recorded
  <1>3. /\ clusters'[c] = next /\ clusters'[c] # NoCluster
        /\ \A k \in Cluster : k # c => clusters'[k] = clusters[k]
    BY <1>0, <1>2 DEF NoCluster
  <1>4. next.phase = "applying" /\ next.manifest = op[p].manifest
    OBVIOUS
  <1> HIDE DEF next
  <1>5. /\ op'[p].pc = "lookup" /\ op'[p].cluster = c /\ op'[p].manifest = op[p].manifest
        /\ \A q \in Cli : q # p => op'[q] = op[q]
    BY <1>0, <1>2, GotoStep DEF ApplyPc
  <1>6. Safe'
    BY <1>1, <1>3, <1>4 DEF SerialInv, Safe, NoOrphanContainer, DataReachable,
                            StoppedMeansDown, ManifestHonoured, Describes, Recorded, Exists
  <1>7. Progress(p)'
    BY <1>3, <1>4, <1>5 DEF Progress, RowIsIn, FromHere, Emptied
  <1> QED  BY <1>5, <1>6, <1>7

\* A row that is written in reaches of apply keeps everything safe.
LEMMA PutInstanceSafe ==
    ASSUME SerialInv, NEW c \in Cluster, NEW rec, rec # NoRow,
           PutInstance(c, rec), UNCHANGED <<clusters, container, volume>>
    PROVE  /\ Safe'
           /\ instances'[c] = rec
           /\ \A k \in Cluster : instances[k] # NoRow => instances'[k] # NoRow
  <1>1. /\ instances'[c] = rec
        /\ \A k \in Cluster : k # c => instances'[k] = instances[k]
    BY DEF PutInstance, SerialInv, TypeInv, TypeOK
  <1> QED
    BY <1>1 DEF SerialInv, Safe, NoOrphanContainer, DataReachable,
                StoppedMeansDown, ManifestHonoured, Describes, Recorded, Exists

LEMMA PutRowSafe ==
    ASSUME SerialInv, NEW p \in Cli, NEW pc \in Applying, NEW rec, NEW next \in Applying,
           rec # NoRow, PutRow(p, pc, rec, next),
           next \in FromHere => pc \in FromHere,
           Applying \cap Emptied = {}
    PROVE  /\ Safe' /\ Progress(p)'
           /\ \A q \in Cli : q # p => op'[q] = op[q]
  <1> DEFINE c == op[p].cluster
  <1>0. /\ op \in [Cli -> Op] /\ op[p] \in Op /\ c \in Cluster
        /\ Progress(p) /\ op[p].pc = pc
    BY DEF SerialInv, TypeInv, TypeOK, Op, PutRow
  <1>1. clusters[c].phase = "applying" /\ clusters[c].manifest = op[p].manifest
    BY <1>0 DEF Progress
  <1>2. Recorded(c)
    BY <1>1 DEF Recorded, NoCluster
  <1>3. /\ PutInstance(c, rec) /\ Goto(p, next)
        /\ UNCHANGED <<clusters, container, volume>>
    BY <1>2 DEF PutRow, podman
  <1>4. /\ op'[p].pc = next /\ op'[p].cluster = c /\ op'[p].manifest = op[p].manifest
        /\ \A q \in Cli : q # p => op'[q] = op[q]
    BY <1>0, <1>3, GotoStep DEF Applying
  <1>5. Safe' /\ instances'[c] # NoRow
    BY <1>0, <1>3, PutInstanceSafe
  <1>6. Progress(p)'
    BY <1>0, <1>1, <1>3, <1>4, <1>5 DEF Progress, Describes, Exists, Applying, Emptied
  <1> QED  BY <1>4, <1>5, <1>6

LEMMA PutRowsSafe ==
    ASSUME SerialInv, NEW p \in Cli,
           PutCreating(p) \/ PutBootstrapping(p) \/ ReadyWrite(p)
    PROVE  /\ Safe' /\ Progress(p)'
           /\ \A q \in Cli : q # p => op'[q] = op[q]
  <1>1. Applying \cap Emptied = {}
    BY DEF Applying, ApplyPc, Emptied
  <1>2. CASE PutCreating(p)
    <2>1. [phase |-> "creating", port |-> op[p].port] # NoRow
      BY DEF NoRow
    <2> QED
      BY <1>1, <1>2, <2>1, PutRowSafe DEF PutCreating, Applying, ApplyPc, FromHere
  <1>3. CASE PutBootstrapping(p)
    <2>1. [phase |-> "bootstrapping", port |-> op[p].port] # NoRow
      BY DEF NoRow
    <2> QED
      BY <1>1, <1>3, <2>1, PutRowSafe DEF PutBootstrapping, Applying, ApplyPc, FromHere
  <1>4. CASE ReadyWrite(p)
    <2>1. op[p].row \in InstanceRow
      BY <1>4 DEF ReadyWrite, PutRow, SerialInv, TypeInv, Shape, WithRow
    <2>2. [op[p].row EXCEPT !.phase = "running"] # NoRow
      BY <2>1 DEF InstanceRow, NoRow
    <2> QED
      BY <1>1, <1>4, <2>2, PutRowSafe
         DEF ReadyWrite, AfterReady, Applying, ApplyPc, FromHere
  <1> QED  BY <1>2, <1>3, <1>4

LEMMA MarkRowSafe ==
    ASSUME SerialInv, NEW p \in Cli, MarkRow(p)
    PROVE  /\ Safe' /\ Progress(p)'
           /\ \A q \in Cli : q # p => op'[q] = op[q]
  <1> DEFINE c == op[p].cluster
  <1>0. /\ op \in [Cli -> Op] /\ op[p] \in Op /\ c \in Cluster
        /\ Progress(p) /\ op[p].pc = "mark-row" /\ op[p].row \in InstanceRow
    BY DEF SerialInv, TypeInv, TypeOK, Op, MarkRow, Shape, WithRow
  <1>1. [op[p].row EXCEPT !.phase = "stopped"] # NoRow
    BY <1>0 DEF InstanceRow, NoRow
  <1>2. UNCHANGED <<clusters, container, volume>> /\ ~Exists(c)
    BY <1>0 DEF MarkRow, podman, Progress, Emptied
  <1>3. CASE Recorded(c)
    <2>1. Goto(p, "mark-cluster") /\ PutInstance(c, [op[p].row EXCEPT !.phase = "stopped"])
      BY <1>3 DEF MarkRow
    <2>2. Safe'
      BY <1>0, <1>1, <1>2, <2>1, PutInstanceSafe
    <2>3. /\ op'[p].pc = "mark-cluster" /\ op'[p].cluster = c
          /\ \A q \in Cli : q # p => op'[q] = op[q]
      BY <1>0, <2>1, GotoStep DEF DeletePc
    <2>4. Progress(p)'
      BY <1>2, <2>3 DEF Progress, Exists, Applying, ApplyPc, RowIsIn, FromHere
    <2> QED  BY <2>2, <2>3, <2>4
  <1>4. CASE ~Recorded(c)
    <2>1. End(p) /\ UNCHANGED instances
      BY <1>4 DEF MarkRow
    <2> QED
      BY <1>0, <1>2, <2>1, EndStep, Freed
         DEF SerialInv, Safe, NoOrphanContainer, DataReachable, StoppedMeansDown,
             ManifestHonoured, Describes, Recorded, Exists
  <1> QED  BY <1>3, <1>4

\* podman may start, stop and remove what there is: only a new container, or
\* data from nowhere, would need a row.
LEMMA PodmanSafe ==
    ASSUME SerialInv, UNCHANGED <<clusters, instances>>,
           \A k \in Cluster : Exists(k)' =>
              Exists(k) /\ Kept(k),
           \A k \in Cluster : volume'[k] = "data" => volume[k] = "data" \/ Exists(k)
    PROVE  Safe'
  BY DEF SerialInv, Safe, NoOrphanContainer, DataReachable, StoppedMeansDown,
         ManifestHonoured, Describes, Recorded, Kept

\* What one podman call leaves of the containers.
LEMMA PodmanKeeps ==
    ASSUME TypeInv, NEW c \in Cluster
    PROVE  /\ (Running(c) /\ container' = [container EXCEPT ![c] = Stopped(c)]) =>
                \A k \in Cluster : /\ Exists(k)' <=> Exists(k)
                                   /\ Kept(k)
           /\ (Exists(c) /\ StartsUp(c)) =>
                \A k \in Cluster : /\ Exists(k)' <=> Exists(k)
                                   /\ Kept(k)
                                   /\ volume'[k] = "data" => volume[k] = "data" \/ Exists(k)
           /\ (container' = [container EXCEPT ![c] = NoContainer]) =>
                /\ ~Exists(c)'
                /\ \A k \in Cluster : k # c => container'[k] = container[k]
  <1>0. container \in [Cluster -> Container \cup {NoContainer}]
    BY DEF TypeInv, TypeOK
  <1>1. ASSUME Running(c), container' = [container EXCEPT ![c] = Stopped(c)]
        PROVE  \A k \in Cluster : /\ Exists(k)' <=> Exists(k)
                                  /\ Kept(k)
    <2>1. Exists(c) /\ container[c] \in Container /\ Stopped(c) \in Container
      BY <1>1, Containers
    <2>2. /\ Stopped(c).manifest = container[c].manifest
          /\ Stopped(c).blind = container[c].blind
          /\ Stopped(c) # NoContainer
      BY <2>1, Absent DEF Stopped, Container
    <2>3. container'[c] = Stopped(c) /\ \A k \in Cluster : k # c => container'[k] = container[k]
      BY <1>0, <1>1
    <2> QED  BY <2>1, <2>2, <2>3 DEF Exists, Kept
  <1>2. ASSUME Exists(c), StartsUp(c)
        PROVE  \A k \in Cluster : /\ Exists(k)' <=> Exists(k)
                                  /\ Kept(k)
                                  /\ volume'[k] = "data" => volume[k] = "data" \/ Exists(k)
    <2> DEFINE up == [container[c] EXCEPT !.state = "running"]
    <2>1. container[c] \in Container
      BY <1>2, Containers
    <2>2. /\ up \in Container
          /\ up.manifest = container[c].manifest /\ up.blind = container[c].blind
      BY <2>1 DEF Container
    <2>3. container' = [container EXCEPT ![c] = up] /\ volume' = [volume EXCEPT ![c] = "data"]
      BY <1>2 DEF StartsUp
    <2> HIDE DEF up
    <2>4. container'[c] = up /\ \A k \in Cluster : k # c => container'[k] = container[k]
      BY <1>0, <2>3
    <2>5. \A k \in Cluster : k # c => volume'[k] = volume[k]
      BY <2>3 DEF TypeInv, TypeOK
    <2> QED  BY <1>2, <2>2, <2>4, <2>5, Absent DEF Exists, Kept
  <1>3. ASSUME container' = [container EXCEPT ![c] = NoContainer]
        PROVE  /\ ~Exists(c)'
               /\ \A k \in Cluster : k # c => container'[k] = container[k]
    BY <1>0, <1>3 DEF Exists
  <1> QED  BY <1>1, <1>2, <1>3

\* What an apply adopts has the manifest's InstanceSpec, and its image or the
\* mark; the phase is "applying" until the apply ends.
LEMMA ProbeSafe ==
    ASSUME SerialInv, NEW p \in Cli, Probe(p)
    PROVE  /\ Safe' /\ Progress(p)'
           /\ op[p].pc # "idle"
           /\ \A q \in Cli : q # p => op'[q] = op[q]
  <1> DEFINE c == op[p].cluster
  <1>0. /\ op \in [Cli -> Op] /\ op[p] \in Op /\ c \in Cluster
        /\ Progress(p) /\ op[p].pc = "probe"
        /\ container \in [Cluster -> Container \cup {NoContainer}]
    BY DEF SerialInv, TypeInv, TypeOK, Op, Probe
  <1>1. PICK known \in ImageKnown :
          /\ op' = [op EXCEPT ![p].pc = AfterProbe(p, known), ![p].id = container[c].id]
          /\ container' = IF AfterProbe(p, known) \in Adopted
                          THEN [container EXCEPT ![c].blind = Blind(p, known)]
                          ELSE container
    BY DEF Probe
  <1>2. UNCHANGED <<clusters, instances, volume>>
    BY DEF Probe, registry
  <1>3. /\ op'[p].pc = AfterProbe(p, known)
        /\ op'[p].cluster = c /\ op'[p].manifest = op[p].manifest
        /\ \A q \in Cli : q # p => op'[q] = op[q]
    BY <1>0, <1>1 DEF Op
  <1>4. AfterProbe(p, known) \in Adopted \cup {"create", "hold", "fail", "remove"}
    BY DEF AfterProbe, Adopted
  <1>5. /\ clusters[c].phase = "applying" /\ clusters[c].manifest = op[p].manifest
        /\ instances[c] # NoRow
    BY <1>0 DEF Progress, Applying, ApplyPc, RowIsIn
  <1>6. \A k \in Cluster : k # c => container'[k] = container[k]
    BY <1>0, <1>1
  <1>7. AfterProbe(p, known) \in Adopted => Exists(c) /\ Describes(op[p].manifest, c)'
    <2> SUFFICES ASSUME AfterProbe(p, known) \in Adopted
                 PROVE  Exists(c) /\ Describes(op[p].manifest, c)'
      OBVIOUS
    <2>1. Exists(c) /\ ~Diverged(p, known)
      BY DEF AfterProbe, Adopted
    <2>2. container[c] \in Container
      BY <1>0, <2>1 DEF Exists
    <2>3. /\ container'[c].manifest = container[c].manifest
          /\ container'[c].blind = Blind(p, known)
      BY <1>0, <1>1, <2>2 DEF Container
    <2> QED  BY <1>3, <2>1, <2>3 DEF Diverged, Describes, Blind
  <1>8. Exists(c)' => Exists(c)
    <2>1. CASE AfterProbe(p, known) \in Adopted
      BY <1>7, <2>1
    <2>2. CASE AfterProbe(p, known) \notin Adopted
      BY <1>1, <1>3, <2>2 DEF Exists
    <2> QED  BY <2>1, <2>2
  <1>9. Safe'
    <2>1. \A k \in Cluster : k # c /\ Describes(clusters[k].manifest, k) =>
                                Describes(clusters[k].manifest, k)'
      BY <1>2, <1>6 DEF Describes
    <2> QED
      BY <1>2, <1>3, <1>5, <1>6, <1>8, <2>1 DEF SerialInv, Safe, NoOrphanContainer,
         DataReachable, StoppedMeansDown, ManifestHonoured, Recorded, Exists
  <1>10. Progress(p)'
    BY <1>2, <1>3, <1>4, <1>5, <1>7
       DEF Progress, Applying, ApplyPc, RowIsIn, FromHere, Emptied, Adopted
  <1> QED  BY <1>0, <1>3, <1>9, <1>10

LEMMA StopSafe ==
    ASSUME SerialInv, NEW p \in Cli, Stop(p) \/ DeleteStop(p)
    PROVE  /\ Safe' /\ Progress(p)'
           /\ op[p].pc # "idle"
           /\ \A q \in Cli : q # p => op'[q] = op[q]
  <1> DEFINE c == op[p].cluster
  <1>0. /\ op \in [Cli -> Op] /\ op[p] \in Op /\ c \in Cluster /\ Progress(p) /\ TypeInv
    BY DEF SerialInv, TypeInv, TypeOK, Op
  <1>1. /\ UNCHANGED <<clusters, instances, volume>>
        /\ \/ UNCHANGED container
           \/ Running(c) /\ container' = [container EXCEPT ![c] = Stopped(c)]
    BY DEF Stop, DeleteStop, StopContainer, registry
  <1>2. \A k \in Cluster : /\ Exists(k)' <=> Exists(k)
                           /\ Kept(k)
    BY <1>0, <1>1, PodmanKeeps DEF Exists, Kept
  <1>3. Safe'
    BY <1>1, <1>2, PodmanSafe
  <1>4. /\ \/ op[p].pc = "stop" /\ op'[p].pc = "remove"
           \/ op[p].pc = "del-stop" /\ op'[p].pc = "del-remove"
        /\ op'[p].cluster = c /\ op'[p].manifest = op[p].manifest
        /\ \A q \in Cli : q # p => op'[q] = op[q]
    BY <1>0, GotoStep DEF Stop, DeleteStop, StopContainer, ApplyPc, DeletePc
  <1>5. Progress(p)'
    BY <1>0, <1>1, <1>4 DEF Progress, Applying, ApplyPc, RowIsIn, FromHere, Emptied
  <1> QED  BY <1>3, <1>4, <1>5

LEMMA RemoveSafe ==
    ASSUME SerialInv, NEW p \in Cli, Remove(p) \/ DeleteRemove(p)
    PROVE  /\ Safe' /\ Progress(p)'
           /\ op[p].pc # "idle"
           /\ \A q \in Cli : q # p => op'[q] = op[q]
  <1> DEFINE c == op[p].cluster
  <1>0. /\ op \in [Cli -> Op] /\ op[p] \in Op /\ c \in Cluster /\ Progress(p) /\ TypeInv
    BY DEF SerialInv, TypeInv, TypeOK, Op
  <1>1. /\ UNCHANGED <<clusters, instances, volume>>
        /\ \/ UNCHANGED container
           \/ container' = [container EXCEPT ![c] = NoContainer]
    BY DEF Remove, DeleteRemove, registry
  <1>2. \A k \in Cluster : Exists(k)' =>
           Exists(k) /\ Kept(k)
    BY <1>0, <1>1, PodmanKeeps DEF Exists, Kept
  <1>3. Safe'
    BY <1>1, <1>2, PodmanSafe
  <1>4. /\ \/ op[p].pc = "remove" /\ op'[p].pc \in {"create", "fail"}
           \/ /\ op[p].pc = "del-remove" /\ op'[p].pc \in {"del-volume", "mark-row"}
              /\ container' = [container EXCEPT ![c] = NoContainer]
           \/ op[p].pc \in {"remove", "del-remove"} /\ op'[p].pc = "idle"
        /\ op'[p].pc # "idle" =>
              op'[p].cluster = c /\ op'[p].manifest = op[p].manifest
        /\ \A q \in Cli : q # p => op'[q] = op[q]
    BY <1>0, GotoStep, EndStep DEF Remove, DeleteRemove, AfterContainer, ApplyPc, DeletePc
  <1>5. Progress(p)'
    <2>1. op'[p].pc \in {"del-volume", "mark-row"} => ~Exists(c)'
      BY <1>0, <1>4, PodmanKeeps
    <2> QED
      BY <1>0, <1>1, <1>4, <2>1
         DEF Progress, Applying, ApplyPc, RowIsIn, FromHere, Emptied
  <1> QED  BY <1>3, <1>4, <1>5

LEMMA CreateSafe ==
    ASSUME SerialInv, NEW p \in Cli, Create(p)
    PROVE  /\ Safe' /\ Progress(p)'
           /\ \A q \in Cli : q # p => op'[q] = op[q]
  <1> DEFINE c == op[p].cluster
             made == [state |-> "created", id |-> born + 1, manifest |-> op[p].manifest,
                      port |-> op[p].port, ready |-> FALSE, blind |-> FALSE]
  <1>0. /\ op \in [Cli -> Op] /\ op[p] \in Op /\ c \in Cluster /\ Progress(p)
        /\ container \in [Cluster -> Container \cup {NoContainer}]
        /\ volume \in [Cluster -> {"absent", "empty", "data"}]
        /\ op[p].pc = "create"
    BY DEF SerialInv, TypeInv, TypeOK, Op, Create
  <1>1. /\ clusters[c].phase = "applying" /\ clusters[c].manifest = op[p].manifest
        /\ instances[c] # NoRow
    BY <1>0 DEF Progress, Applying, ApplyPc, RowIsIn
  <1>2. UNCHANGED <<clusters, instances>>
    BY DEF Create, registry
  <1>3. CASE Exists(c)
    <2>1. UNCHANGED podman /\ Goto(p, "fail")
      BY <1>3 DEF Create
    <2>2. /\ op'[p].pc = "fail" /\ op'[p].cluster = c /\ op'[p].manifest = op[p].manifest
          /\ \A q \in Cli : q # p => op'[q] = op[q]
      BY <1>0, <2>1, GotoStep DEF ApplyPc
    <2> QED
      BY <1>0, <1>2, <2>1, <2>2, Reading
         DEF podman, Applying, ApplyPc, RowIsIn, FromHere, Emptied
  <1>4. CASE ~Exists(c)
    <2>1. /\ container' = [container EXCEPT ![c] = made]
          /\ volume' = [volume EXCEPT ![c] = IF @ = "absent" THEN "empty" ELSE @]
          /\ op' = [op EXCEPT ![p] = [op[p] EXCEPT !.pc = "start", !.id = born + 1]]
      BY <1>4 DEF Create
    <2>2. made.manifest = op[p].manifest
      OBVIOUS
    <2> HIDE DEF made
    <2>3. container'[c] = made /\ \A k \in Cluster : k # c => container'[k] = container[k]
      BY <1>0, <2>1
    <2>4. \A k \in Cluster : volume'[k] = "data" => volume[k] = "data"
      BY <1>0, <2>1
    <2>5. /\ op'[p].pc = "start" /\ op'[p].cluster = c /\ op'[p].manifest = op[p].manifest
          /\ \A q \in Cli : q # p => op'[q] = op[q]
      BY <1>0, <2>1 DEF Op
    <2>6. Recorded(c)
      BY <1>1 DEF Recorded, NoCluster
    <2>7. Safe'
      BY <1>1, <1>2, <2>3, <2>4, <2>6
         DEF SerialInv, Safe, NoOrphanContainer, DataReachable, StoppedMeansDown,
             ManifestHonoured, Describes, Recorded, Exists
    <2>8. Progress(p)'
      BY <1>1, <1>2, <2>2, <2>3, <2>5 DEF Progress, Describes, Emptied
    <2> QED  BY <2>5, <2>7, <2>8
  <1> QED  BY <1>3, <1>4

LEMMA StartSafe ==
    ASSUME SerialInv, NEW p \in Cli, Start(p)
    PROVE  /\ Safe' /\ Progress(p)'
           /\ \A q \in Cli : q # p => op'[q] = op[q]
  <1> DEFINE c == op[p].cluster
  <1>0. /\ op \in [Cli -> Op] /\ op[p] \in Op /\ c \in Cluster /\ Progress(p) /\ TypeInv
        /\ op[p].pc = "start"
    BY DEF SerialInv, TypeInv, TypeOK, Op, Start
  <1>1. /\ UNCHANGED <<clusters, instances>>
        /\ UNCHANGED podman \/ (Exists(c) /\ StartsUp(c))
    BY DEF Start, CanStart, registry
  <1>2. \A k \in Cluster : /\ Exists(k)' <=> Exists(k)
                           /\ Kept(k)
                           /\ volume'[k] = "data" => volume[k] = "data" \/ Exists(k)
    BY <1>0, <1>1, PodmanKeeps DEF Exists, Kept, podman
  <1>3. Safe'
    BY <1>1, <1>2, PodmanSafe
  <1>4. /\ op'[p].pc \in {"fail", "ready", "bootstrapping"}
        /\ op'[p].cluster = c /\ op'[p].manifest = op[p].manifest
        /\ \A q \in Cli : q # p => op'[q] = op[q]
    <2>1. Goto(p, "fail") \/ Goto(p, "ready") \/ Goto(p, "bootstrapping")
      BY DEF Start
    <2> QED  BY <1>0, <2>1, GotoStep DEF ApplyPc
  <1>5. Progress(p)'
    BY <1>0, <1>1, <1>2, <1>4
       DEF Progress, Describes, Kept, Applying, ApplyPc, RowIsIn, FromHere, Emptied
  <1> QED  BY <1>3, <1>4, <1>5

LEMMA VolumeSafe ==
    ASSUME SerialInv, NEW p \in Cli, CreateVolume(p) \/ DeleteVolume(p)
    PROVE  /\ Safe' /\ Progress(p)'
           /\ op[p].pc # "idle"
           /\ \A q \in Cli : q # p => op'[q] = op[q]
  <1> DEFINE c == op[p].cluster
  <1>0. /\ op \in [Cli -> Op] /\ op[p] \in Op /\ c \in Cluster /\ Progress(p)
        /\ volume \in [Cluster -> {"absent", "empty", "data"}]
    BY DEF SerialInv, TypeInv, TypeOK, Op
  <1>1. UNCHANGED <<clusters, instances, container>>
    BY DEF CreateVolume, DeleteVolume, registry
  <1>2. \A k \in Cluster : volume'[k] = "data" => volume[k] = "data"
    BY <1>0 DEF CreateVolume, DeleteVolume
  <1>3. Safe'
    BY <1>1, <1>2, PodmanSafe DEF Exists, Kept
  <1>4. /\ \/ op[p].pc = "volume" /\ op'[p].pc = "creating"
           \/ op[p].pc = "del-volume" /\ op'[p].pc = "forget" /\ volume'[c] # "data"
           \/ op[p].pc = "del-volume" /\ op'[p].pc = "idle"
        /\ op'[p].pc # "idle" =>
              op'[p].cluster = c /\ op'[p].manifest = op[p].manifest
        /\ \A q \in Cli : q # p => op'[q] = op[q]
    BY <1>0, GotoStep, EndStep DEF CreateVolume, DeleteVolume, ApplyPc, DeletePc
  <1>5. Progress(p)'
    BY <1>0, <1>1, <1>4
       DEF Progress, Exists, Applying, ApplyPc, RowIsIn, FromHere, Emptied
  <1> QED  BY <1>3, <1>4, <1>5

LEMMA ForgetSafe ==
    ASSUME SerialInv, NEW p \in Cli, Forget(p)
    PROVE  /\ Safe' /\ Progress(p)'
           /\ \A q \in Cli : q # p => op'[q] = op[q]
  <1> DEFINE c == op[p].cluster
  <1>0. /\ op \in [Cli -> Op] /\ op[p] \in Op /\ c \in Cluster
        /\ clusters \in [Cluster -> ClusterRow \cup {NoCluster}]
        /\ instances \in [Cluster -> InstanceRow \cup {NoRow}]
        /\ ~Exists(c) /\ volume[c] # "data"
    BY DEF SerialInv, TypeInv, TypeOK, Op, Forget, Progress, Emptied
  <1>1. End(p) /\ UNCHANGED <<container, volume>>
    BY DEF Forget, podman
  <1>2. \A k \in Cluster : k # c => clusters'[k] = clusters[k] /\ instances'[k] = instances[k]
    BY <1>0 DEF Forget
  <1>3. Safe'
    BY <1>0, <1>1, <1>2 DEF SerialInv, Safe, NoOrphanContainer, DataReachable,
         StoppedMeansDown, ManifestHonoured, Describes, Recorded, Exists
  <1> QED  BY <1>0, <1>1, <1>3, EndStep, Freed

LEMMA ConcludeSafe ==
    ASSUME SerialInv, NEW p \in Cli, Finish(p) \/ Fail(p) \/ MarkCluster(p)
    PROVE  /\ Safe' /\ Progress(p)'
           /\ op[p].pc # "idle"
           /\ \A q \in Cli : q # p => op'[q] = op[q]
  <1> DEFINE c == op[p].cluster
  <1>0. /\ op \in [Cli -> Op] /\ op[p] \in Op /\ c \in Cluster /\ Progress(p)
        /\ clusters \in [Cluster -> ClusterRow \cup {NoCluster}]
    BY DEF SerialInv, TypeInv, TypeOK, Op
  <1>1. PICK phase \in {"running", "failed", "stopped"} :
          /\ SetPhase(c, phase) /\ End(p)
          /\ UNCHANGED <<instances, container, volume>>
          /\ phase = "running" => op[p].pc = "finish"
          /\ phase = "failed" => op[p].pc = "fail"
          /\ phase = "stopped" => op[p].pc = "mark-cluster"
    BY DEF Finish, Fail, MarkCluster, Conclude, podman
  <1>2. /\ phase = "running" /\ Exists(c) =>
             Describes(op[p].manifest, c) /\ clusters[c].manifest = op[p].manifest
        /\ phase = "stopped" => ~Exists(c)
    BY <1>0, <1>1 DEF Progress, Applying, ApplyPc, FromHere, Emptied
  <1>3. /\ \A k \in Cluster : k # c => clusters'[k] = clusters[k]
        /\ Recorded(c) => clusters'[c] = [clusters[c] EXCEPT !.phase = phase]
        /\ ~Recorded(c) => clusters'[c] = clusters[c]
    BY <1>0, <1>1 DEF SetPhase
  <1>4. Recorded(c) => /\ clusters'[c].phase = phase
                       /\ clusters'[c].manifest = clusters[c].manifest
                       /\ clusters'[c] # NoCluster
    <2>1. Recorded(c) => clusters[c] \in ClusterRow
      BY <1>0 DEF Recorded
    <2>2. phase # "absent"
      BY <1>1
    <2> QED  BY <1>3, <2>1, <2>2 DEF ClusterRow, NoCluster
  <1>5. Safe'
    BY <1>1, <1>2, <1>3, <1>4 DEF SerialInv, Safe, NoOrphanContainer, DataReachable,
         StoppedMeansDown, ManifestHonoured, Describes, Recorded, Exists
  <1>6. /\ op[p].pc # "idle" /\ op'[p].pc = "idle"
        /\ \A q \in Cli : q # p => op'[q] = op[q]
    BY <1>0, <1>1, EndStep
  <1> QED  BY <1>5, <1>6, Freed

LEMMA BeginSafe ==
    ASSUME SerialInv, NEW p \in Cli, Overlap = FALSE, StartApply(p) \/ StartDelete(p)
    PROVE  /\ Safe' /\ Progress(p)'
           /\ \A q \in Cli : op[q].pc = "idle"
           /\ \A q \in Cli : q # p => op'[q] = op[q]
  <1>1. PICK command : Begin(p, command) /\ command.pc \in {"put-read", "require"}
    <2>1. CASE StartApply(p)
      <3>1. PICK c \in Cluster, s \in Manifest, recreate \in BOOLEAN, wait \in BOOLEAN :
              Begin(p, [Idle EXCEPT !.pc = "put-read", !.cluster = c, !.manifest = s,
                                    !.recreate = recreate, !.wait = wait])
        BY <2>1 DEF StartApply
      <3>2. [Idle EXCEPT !.pc = "put-read", !.cluster = c, !.manifest = s,
                         !.recreate = recreate, !.wait = wait].pc = "put-read"
        BY DEF Idle
      <3> QED  BY <3>1, <3>2
    <2>2. CASE StartDelete(p)
      <3>1. PICK c \in Cluster, purge \in BOOLEAN :
              Begin(p, [Idle EXCEPT !.pc = "require", !.cluster = c, !.purge = purge])
        BY <2>2 DEF StartDelete
      <3>2. [Idle EXCEPT !.pc = "require", !.cluster = c, !.purge = purge].pc = "require"
        BY DEF Idle
      <3> QED  BY <3>1, <3>2
    <2> QED  BY <2>1, <2>2
  <1>2. /\ \A q \in Cli : op[q].pc = "idle"
        /\ UNCHANGED <<clusters, instances, container, volume>>
    BY <1>1 DEF Begin, MayBegin, registry, podman
  <1>3. op'[p] = command /\ \A q \in Cli : q # p => op'[q] = op[q]
    BY <1>1 DEF Begin, SerialInv, TypeInv, TypeOK
  <1>4. Progress(p)'
    BY <1>1, <1>3 DEF Progress, Applying, ApplyPc, RowIsIn, FromHere, Emptied
  <1>5. Safe'
    BY <1>2, PodmanSafe DEF Exists, Kept
  <1> QED  BY <1>2, <1>3, <1>4, <1>5

LEMMA CommandSafe ==
    ASSUME SerialInv, NEW p \in Cli, Overlap = FALSE, TypeInv',
           \/ StartApply(p) \/ StartDelete(p) \/ ApplyStep(p) \/ DeleteStep(p)
           \/ PodmanFails(p) \/ CliDies(p)
    PROVE  SerialInv'
  <1>1. CASE StartApply(p) \/ StartDelete(p)
    BY <1>1, BeginSafe, Alone
  <1>2. CASE \/ PutClusterRead(p) \/ LookUpPort(p) \/ Hold(p)
             \/ Ready(p) \/ ReadyRead(p) \/ Release(p)
             \/ Require(p) \/ DeleteProbe(p) \/ PodmanFails(p) \/ CliDies(p)
    BY <1>2, ReadingSteps, Alone
  <1>3. CASE PutClusterWrite(p) \/ MarkRow(p) \/ Create(p) \/ Start(p) \/ Forget(p)
    <2>1. op[p].pc # "idle"
      BY <1>3 DEF PutClusterWrite, MarkRow, Create, Start, Forget
    <2> QED
      BY <1>3, <2>1, PutClusterSafe, MarkRowSafe, CreateSafe, StartSafe, ForgetSafe, Alone
  <1>4. CASE PutCreating(p) \/ PutBootstrapping(p) \/ ReadyWrite(p)
    <2>1. op[p].pc # "idle"
      BY <1>4 DEF PutCreating, PutBootstrapping, ReadyWrite, PutRow
    <2> QED  BY <1>4, <2>1, PutRowsSafe, Alone
  <1>5. CASE \/ Stop(p) \/ DeleteStop(p) \/ Remove(p) \/ DeleteRemove(p)
             \/ CreateVolume(p) \/ DeleteVolume(p)
             \/ Finish(p) \/ Fail(p) \/ MarkCluster(p)
    BY <1>5, StopSafe, RemoveSafe, VolumeSafe, ConcludeSafe, Alone
  <1>6. CASE Probe(p)
    BY <1>6, ProbeSafe, Alone
  <1> QED
    BY <1>1, <1>2, <1>3, <1>4, <1>5, <1>6 DEF ApplyStep, DeleteStep

\* Boot recovery and the containers themselves never make a container, never
\* remove a row, and never move a command.
LEMMA WorldSafe ==
    ASSUME SerialInv, TypeInv', UNCHANGED <<clusters, op>>, Safe',
           \A k \in Cluster : instances[k] # NoRow => instances'[k] # NoRow,
           \A k \in Cluster : Exists(k)' =>
              Exists(k) /\ Kept(k),
           \A k \in Cluster : volume'[k] = "data" => volume[k] = "data" \/ Exists(k)
    PROVE  SerialInv'
  <1>1. ASSUME NEW p \in Cli PROVE Progress(p)'
    <2>1. op[p].cluster \in Cluster /\ Progress(p)
      BY DEF SerialInv, TypeInv, TypeOK, Op
    <2> QED  BY <2>1 DEF Progress, Describes, Kept, Emptied
  <1>2. Solo'
    BY DEF SerialInv, Solo
  <1> QED  BY <1>1, <1>2 DEF SerialInv

LEMMA DaemonSafe ==
    ASSUME SerialInv, TypeInv', DaemonStep \/ RunOnce \/ DaemonDies
    PROVE  SerialInv'
  <1>0. TypeInv /\ daemon.at \in Cluster
    BY DEF SerialInv, TypeInv, TypeOK, Daemon
  <1>1. CASE ResumeStart
    <2>1. /\ UNCHANGED <<clusters, instances, op>>
          /\ UNCHANGED podman \/ (Exists(daemon.at) /\ StartsUp(daemon.at))
      BY <1>1 DEF ResumeStart, CanStart, registry
    <2>2. \A k \in Cluster : /\ Exists(k)' <=> Exists(k)
                             /\ Kept(k)
                             /\ volume'[k] = "data" => volume[k] = "data" \/ Exists(k)
      BY <1>0, <2>1, PodmanKeeps DEF Exists, Kept, podman
    <2>3. Safe'
      BY <2>1, <2>2, PodmanSafe
    <2> QED  BY <2>1, <2>2, <2>3, WorldSafe
  <1>2. CASE ResumeReadyWrite
    <2>1. UNCHANGED <<clusters, container, volume, op>>
      BY <1>2 DEF ResumeReadyWrite, podman
    <2>2. [daemon.row EXCEPT !.phase = "running"] # NoRow
      BY <1>2 DEF ResumeReadyWrite, SerialInv, TypeInv, InstanceRow, NoRow
    <2>3. /\ Safe'
          /\ \A k \in Cluster : instances[k] # NoRow => instances'[k] # NoRow
      <3>1. CASE UNCHANGED instances
        BY <2>1, <3>1, PodmanSafe DEF Exists, Kept
      <3>2. CASE PutInstance(daemon.at, [daemon.row EXCEPT !.phase = "running"])
        BY <1>0, <2>1, <2>2, <3>2, PutInstanceSafe
      <3> QED  BY <1>2, <3>1, <3>2 DEF ResumeReadyWrite
    <2> QED  BY <2>1, <2>3, WorldSafe DEF Exists, Kept
  <1>3. CASE \/ RunOnce \/ DaemonDies \/ ListClusters
             \/ (\E c \in Cluster : ResumeCluster(c)) \/ ResumeDone
             \/ ResumeProbe \/ ResumeReady \/ ResumeReadyRead
    <2>1. UNCHANGED <<clusters, instances, container, volume, op>>
      BY <1>3 DEF RunOnce, DaemonDies, ListClusters, ResumeCluster, ResumeDone,
                  ResumeProbe, ResumeReady, ResumeReadyRead, registry, podman
    <2>2. Safe'
      BY <2>1, PodmanSafe DEF Exists, Kept
    <2> QED  BY <2>1, <2>2, WorldSafe DEF Exists, Kept
  <1> QED  BY <1>1, <1>2, <1>3 DEF DaemonStep

LEMMA EnvironmentSafe ==
    ASSUME SerialInv, TypeInv', NEW c \in Cluster,
           \/ FrontCluster(c) \/ UnfrontCluster(c)
           \/ BecomesReady(c) \/ InstanceExits(c)
    PROVE  SerialInv'
  <1>0. TypeInv
    BY DEF SerialInv
  <1>1. UNCHANGED <<clusters, instances, volume, op>>
    BY DEF FrontCluster, UnfrontCluster, BecomesReady, InstanceExits, registry, podman
  <1>2. \A k \in Cluster : /\ Exists(k)' <=> Exists(k)
                           /\ Kept(k)
    <2>1. CASE FrontCluster(c) \/ UnfrontCluster(c)
      BY <2>1 DEF FrontCluster, UnfrontCluster, podman, Exists, Kept
    <2>2. CASE InstanceExits(c)
      BY <1>0, <2>2, PodmanKeeps DEF InstanceExits
    <2>3. CASE BecomesReady(c)
      <3> DEFINE now == [container[c] EXCEPT !.ready = TRUE]
      <3>1. container[c] \in Container
        BY <1>0, <2>3, Containers DEF BecomesReady
      <3>2. /\ now \in Container
            /\ now.manifest = container[c].manifest /\ now.blind = container[c].blind
        BY <3>1 DEF Container
      <3>3. container' = [container EXCEPT ![c] = now]
        BY <2>3 DEF BecomesReady
      <3> HIDE DEF now
      <3>4. container'[c] = now /\ \A k \in Cluster : k # c => container'[k] = container[k]
        BY <1>0, <3>3 DEF TypeInv, TypeOK
      <3> QED  BY <3>1, <3>2, <3>4, Absent DEF Exists, Kept
    <2> QED  BY <2>1, <2>2, <2>3
  <1>3. Safe'
    BY <1>1, <1>2, PodmanSafe
  <1> QED  BY <1>1, <1>2, <1>3, WorldSafe

LEMMA RebootSafe ==
    ASSUME SerialInv, TypeInv', Reboot
    PROVE  SerialInv'
  <1>0. TypeInv
    BY DEF SerialInv
  <1>1. \A k \in Cluster : /\ Exists(k)' <=> Exists(k)
                           /\ Kept(k)
    <2> SUFFICES ASSUME NEW k \in Cluster
                 PROVE  /\ Exists(k)' <=> Exists(k)
                        /\ Kept(k)
      OBVIOUS
    <2>1. container'[k] = IF Running(k) THEN Stopped(k) ELSE container[k]
      BY DEF Reboot
    <2>2. CASE Running(k)
      <3>1. Exists(k) /\ container[k] \in Container /\ Stopped(k) \in Container
        BY <1>0, <2>2, Containers
      <3>2. /\ Stopped(k).manifest = container[k].manifest
            /\ Stopped(k).blind = container[k].blind
        BY <3>1 DEF Stopped, Container
      <3> QED  BY <2>1, <2>2, <3>1, <3>2, Absent DEF Exists, Kept
    <2> QED  BY <2>1, <2>2 DEF Exists, Kept
  <1>2. UNCHANGED <<clusters, instances, volume>>
    BY DEF Reboot, registry
  <1>3. Safe'
    BY <1>1, <1>2, PodmanSafe
  <1>4. Idle.pc = "idle"
    BY DEF Idle
  <1>5. \A p \in Cli : op'[p].pc = "idle"
    BY <1>4 DEF Reboot
  <1>6. Solo' /\ \A p \in Cli : Progress(p)'
    BY <1>5, Freed DEF Solo
  <1> QED  BY <1>3, <1>6 DEF SerialInv

LEMMA SerialInit == Init => SerialInv
  <1> SUFFICES ASSUME Init PROVE SerialInv
    OBVIOUS
  <1>1. \A c \in Cluster : ~Exists(c) /\ volume[c] # "data"
    BY DEF Init, Exists
  <1>2. Idle.pc = "idle"
    BY DEF Idle
  <1>3. \A p \in Cli : op[p].pc = "idle"
    BY <1>2 DEF Init
  <1>4. Solo /\ \A p \in Cli : Progress(p)
    BY <1>3 DEF Solo, Progress, Applying, ApplyPc, RowIsIn, FromHere, Emptied
  <1>5. Safe
    BY <1>1 DEF Safe, NoOrphanContainer, DataReachable, StoppedMeansDown, ManifestHonoured
  <1> QED  BY <1>4, <1>5, TypeInit DEF SerialInv

LEMMA SerialNext ==
    ASSUME Overlap = FALSE
    PROVE  SerialInv /\ [Next]_vars => SerialInv'
  <1> SUFFICES ASSUME SerialInv, [Next]_vars PROVE SerialInv'
    OBVIOUS
  <1>1. TypeInv'
    BY TypeNext DEF SerialInv
  <1>2. CASE Next
    BY <1>1, <1>2, CommandSafe, EnvironmentSafe, DaemonSafe, RebootSafe DEF Next
  <1>3. CASE UNCHANGED vars
    <2>1. UNCHANGED <<clusters, instances, container, volume, op>>
      BY <1>3 DEF vars
    <2>2. Safe'
      BY <2>1, PodmanSafe DEF Exists, Kept
    <2> QED  BY <1>1, <2>1, <2>2, WorldSafe DEF Exists, Kept
  <1> QED  BY <1>2, <1>3

\* For operators that take turns, with boot recovery, crashes and failing
\* podman calls at any moment: no container is out of reach of the registry.
THEOREM OrphanFree ==
    ASSUME Overlap = FALSE
    PROVE  Spec => []NoOrphanContainer
  <1>1. SerialInv => NoOrphanContainer
    BY DEF SerialInv, Safe
  <1> QED  BY <1>1, SerialInit, SerialNext, PTL DEF Spec

\* Under the same assumption, no database is ever left that the registry
\* cannot name, whatever step of a purge the crash falls on.
THEOREM DataSafe ==
    ASSUME Overlap = FALSE
    PROVE  Spec => []DataReachable
  <1>1. SerialInv => DataReachable
    BY DEF SerialInv, Safe
  <1> QED  BY <1>1, SerialInit, SerialNext, PTL DEF Spec

\* Under the same assumption, a cluster recorded as stopped has no container,
\* so boot recovery cannot undo a delete.
THEOREM StoppedIsDown ==
    ASSUME Overlap = FALSE
    PROVE  Spec => []StoppedMeansDown
  <1>1. SerialInv => StoppedMeansDown
    BY DEF SerialInv, Safe
  <1> QED  BY <1>1, SerialInit, SerialNext, PTL DEF Spec

\* Under the same assumption, the container of a cluster recorded as running
\* has the InstanceSpec of the recorded manifest, and its image unless podman
\* did not say which image that is when the container was adopted, whatever two
\* manifests have in common.  It says nothing of user, group and credential
\* secrets, which refuse_if_diverged does not compare.  Of two overlapping
\* applies the first to end writes "running" over the other, so the assumption
\* cannot be dropped.
THEOREM RunsItsManifest ==
    ASSUME Overlap = FALSE
    PROVE  Spec => []ManifestHonoured
  <1>1. SerialInv => ManifestHonoured
    BY DEF SerialInv, Safe
  <1> QED  BY <1>1, SerialInit, SerialNext, PTL DEF Spec

-----------------------------------------------------------------------------
(* Who is behind "applying", for commands that overlap as they like.       *)

\* ApplyingHasAnOwner is not inductive: an apply that has not written the row
\* yet may still end on a key violation and leave the phase behind.
Owned ==
    crashes = 0 =>
        \A c \in Cluster :
            clusters[c].phase = "applying" =>
                \E p \in Cli : op[p].cluster = c /\ op[p].pc \in Applying

\* A step that takes no owner away and marks no cluster.
LEMMA OwnersStay ==
    ASSUME TypeInv, Owned, NEW p \in Cli,
           \A q \in Cli : q # p => op'[q] = op[q],
           op[p].pc \in Applying =>
               op'[p].pc \in Applying /\ op'[p].cluster = op[p].cluster,
           \A c \in Cluster :
               clusters'[c].phase = "applying" => clusters[c].phase = "applying",
           crashes' = crashes
    PROVE  Owned'
  <1> SUFFICES ASSUME crashes = 0, NEW c \in Cluster, clusters'[c].phase = "applying"
               PROVE  \E q \in Cli : op'[q].cluster = c /\ op'[q].pc \in Applying
    BY DEF Owned
  <1>1. PICK q \in Cli : op[q].cluster = c /\ op[q].pc \in Applying
    BY DEF Owned
  <1>2. op'[q].cluster = c /\ op'[q].pc \in Applying
    BY <1>1
  <1> QED  BY <1>2

\* The steps of an apply between its first write and its last.
LEMMA OwnerMoves ==
    ASSUME TypeInv, Owned, NEW p \in Cli,
           \/ LookUpPort(p) \/ CreateVolume(p) \/ PutCreating(p) \/ Probe(p)
           \/ Hold(p) \/ Stop(p) \/ Remove(p) \/ Create(p) \/ Start(p)
           \/ PutBootstrapping(p) \/ Ready(p) \/ ReadyRead(p) \/ ReadyWrite(p)
           \/ Release(p) \/ PutClusterRead(p)
    PROVE  Owned'
  <1> DEFINE Later == {"volume", "creating", "probe", "hold", "stop", "remove",
                       "create", "start", "ready", "ready-read", "ready-write",
                       "release", "bootstrapping", "finish", "fail"}
  <1>0. op \in [Cli -> Op] /\ op[p] \in Op
    BY DEF TypeInv, TypeOK
  <1>1. AfterReady(p) \in Later /\ \A known : AfterProbe(p, known) \in Later
    BY DEF AfterProbe, AfterReady
  <1>2. UNCHANGED <<clusters, crashes>>
    BY DEF LookUpPort, CreateVolume, PutCreating, Probe, Hold, Stop, StopContainer,
           Remove, Create, Start, PutBootstrapping, PutRow, Ready, ReadyRead,
           ReadyWrite, Release, PutClusterRead, registry, bounds
  <1>3. \/ PutClusterRead(p)
        \/ \E pc \in Later :
              /\ op'[p].pc = pc /\ op'[p].cluster = op[p].cluster
              /\ \A q \in Cli : q # p => op'[q] = op[q]
    <2>1. CASE \E pc \in Later : Goto(p, pc)
      BY <1>0, <2>1 DEF Goto, Op
    <2>2. CASE LookUpPort(p)
      <3>1. PICK port : op' = [op EXCEPT ![p].pc = "volume", ![p].port = port]
        BY <2>2 DEF LookUpPort
      <3> QED  BY <1>0, <3>1 DEF Op
    <2>3. CASE Probe(p)
      <3>1. PICK known \in ImageKnown :
              op' = [op EXCEPT ![p].pc = AfterProbe(p, known),
                               ![p].id = container[op[p].cluster].id]
        BY <2>3 DEF Probe
      <3> QED  BY <1>0, <1>1, <3>1 DEF Op
    <2>4. CASE Hold(p)
      BY <1>0, <2>4 DEF Hold, Op
    <2>5. CASE Create(p)
      <3>1. \/ Goto(p, "fail")
            \/ op' = [op EXCEPT ![p].pc = "start", ![p].id = born + 1]
        BY <2>5 DEF Create
      <3> QED  BY <1>0, <2>1, <3>1 DEF Op
    <2>6. CASE ReadyRead(p)
      BY <1>0, <1>1, <2>6 DEF ReadyRead, Op
    <2>7. CASE Release(p)
      BY <1>0, <2>7 DEF Release, Op
    <2>8. CASE CreateVolume(p)
      BY <2>1, <2>8 DEF CreateVolume
    <2>9. CASE PutCreating(p) \/ PutBootstrapping(p) \/ ReadyWrite(p)
      BY <1>1, <2>1, <2>9 DEF PutCreating, PutBootstrapping, ReadyWrite, PutRow
    <2>10. CASE Stop(p)
      BY <2>1, <2>10 DEF Stop, StopContainer
    <2>11. CASE Remove(p)
      BY <2>1, <2>11 DEF Remove
    <2>12. CASE Start(p)
      BY <2>1, <2>12 DEF Start
    <2>13. CASE Ready(p)
      BY <2>1, <2>13 DEF Ready
    <2> QED
      BY <2>2, <2>3, <2>4, <2>5, <2>6, <2>7, <2>8, <2>9, <2>10, <2>11, <2>12, <2>13
  <1>4. CASE PutClusterRead(p)
    <2>1. op[p].pc = "put-read" /\ \A q \in Cli : q # p => op'[q] = op[q]
      BY <1>0, <1>4 DEF PutClusterRead
    <2> QED  BY <1>2, <2>1, OwnersStay DEF Applying
  <1>5. CASE \E pc \in Later :
              /\ op'[p].pc = pc /\ op'[p].cluster = op[p].cluster
              /\ \A q \in Cli : q # p => op'[q] = op[q]
    <2>1. Later \subseteq Applying
      BY DEF Applying, ApplyPc
    <2> QED  BY <1>2, <1>5, <2>1, OwnersStay
  <1> QED  BY <1>3, <1>4, <1>5

\* The steps of a command that owns nothing: it begins, or it deletes.
LEMMA OutsiderMoves ==
    ASSUME TypeInv, Owned, NEW p \in Cli,
           \/ StartApply(p) \/ StartDelete(p) \/ Require(p) \/ DeleteProbe(p)
           \/ DeleteStop(p) \/ DeleteRemove(p) \/ DeleteVolume(p) \/ Forget(p)
           \/ MarkRow(p)
    PROVE  Owned'
  <1>0. op \in [Cli -> Op] /\ clusters \in [Cluster -> ClusterRow \cup {NoCluster}]
    BY DEF TypeInv, TypeOK
  <1>1. op[p].pc \in {"idle", "require", "del-probe", "del-stop", "del-remove",
                      "del-volume", "forget", "mark-row"}
    BY DEF StartApply, StartDelete, Begin, Require, DeleteProbe, DeleteStop,
           StopContainer, DeleteRemove, DeleteVolume, Forget, MarkRow
  <1>2. op[p].pc \notin Applying
    BY <1>1 DEF Applying, ApplyPc
  <1>3. \A q \in Cli : q # p => op'[q] = op[q]
    BY <1>0 DEF StartApply, StartDelete, Begin, Require, DeleteProbe, DeleteStop,
           StopContainer, DeleteRemove, DeleteVolume, Forget, MarkRow, Goto, End
  <1>4. \A c \in Cluster : clusters'[c] \in {clusters[c], NoCluster}
    BY <1>0 DEF StartApply, StartDelete, Begin, Require, DeleteProbe, DeleteStop,
           StopContainer, DeleteRemove, DeleteVolume, Forget, MarkRow, registry
  <1>5. crashes' = crashes
    BY DEF StartApply, StartDelete, Begin, Require, DeleteProbe, DeleteStop,
           StopContainer, DeleteRemove, DeleteVolume, Forget, MarkRow, bounds
  <1> QED  BY <1>2, <1>3, <1>4, <1>5, Absent, OwnersStay

\* put_cluster makes its own command the owner; on a key violation the row is
\* another command's, and so is its phase.
LEMMA OwnerComes ==
    ASSUME TypeInv, Owned, NEW p \in Cli, PutClusterWrite(p)
    PROVE  Owned'
  <1>0. /\ op \in [Cli -> Op] /\ op[p].cluster \in Cluster
        /\ clusters \in [Cluster -> ClusterRow \cup {NoCluster}]
        /\ op[p].pc = "put-write" /\ crashes' = crashes
    BY DEF TypeInv, TypeOK, Op, PutClusterWrite, bounds
  <1>1. op[p].pc \notin Applying
    BY <1>0 DEF Applying
  <1>2. CASE End(p) /\ UNCHANGED clusters
    <2>1. \A q \in Cli : q # p => op'[q] = op[q]
      BY <1>0, <1>2 DEF End
    <2> QED  BY <1>0, <1>1, <1>2, <2>1, OwnersStay
  <1>3. CASE /\ Goto(p, "lookup")
             /\ \A c \in Cluster : c # op[p].cluster => clusters'[c] = clusters[c]
    <2>1. /\ op'[p].pc = "lookup" /\ op'[p].cluster = op[p].cluster
          /\ \A q \in Cli : q # p => op'[q] = op[q]
      BY <1>0, <1>3 DEF Goto, Op
    <2>2. "lookup" \in Applying
      BY DEF Applying, ApplyPc
    <2> SUFFICES ASSUME crashes = 0, NEW c \in Cluster,
                        clusters'[c].phase = "applying"
                 PROVE  \E q \in Cli : op'[q].cluster = c /\ op'[q].pc \in Applying
      BY <1>0 DEF Owned
    <2>3. CASE c = op[p].cluster
      BY <2>1, <2>2, <2>3
    <2>4. CASE c # op[p].cluster
      <3>1. PICK q \in Cli : op[q].cluster = c /\ op[q].pc \in Applying
        BY <1>3, <2>4 DEF Owned
      <3>2. op'[q] = op[q]
        BY <2>1, <2>4, <3>1
      <3> QED  BY <3>1, <3>2
    <2> QED  BY <2>3, <2>4
  <1> QED  BY <1>0, <1>2, <1>3 DEF PutClusterWrite

\* The last write of a command takes the phase off "applying" with its owner.
LEMMA OwnerGoes ==
    ASSUME TypeInv, Owned, NEW p \in Cli, Finish(p) \/ Fail(p) \/ MarkCluster(p)
    PROVE  Owned'
  <1>0. /\ op \in [Cli -> Op] /\ op[p].cluster \in Cluster
        /\ clusters \in [Cluster -> ClusterRow \cup {NoCluster}]
    BY DEF TypeInv, TypeOK, Op
  <1>1. PICK phase \in {"running", "failed", "stopped"} :
          /\ SetPhase(op[p].cluster, phase) /\ End(p)
          /\ crashes' = crashes
    BY DEF Finish, Fail, MarkCluster, Conclude, bounds
  <1>2. \A q \in Cli : q # p => op'[q] = op[q]
    BY <1>0, <1>1 DEF End
  <1>3. \A c \in Cluster : c # op[p].cluster => clusters'[c] = clusters[c]
    BY <1>0, <1>1 DEF SetPhase
  <1>4. clusters'[op[p].cluster].phase # "applying"
    <2>1. CASE Recorded(op[p].cluster)
      <3>1. clusters[op[p].cluster] \in ClusterRow
        BY <1>0, <2>1 DEF Recorded
      <3>2. clusters' = [clusters EXCEPT ![op[p].cluster] =
                            [clusters[op[p].cluster] EXCEPT !.phase = phase]]
        BY <1>1, <2>1 DEF SetPhase
      <3> QED  BY <1>0, <1>1, <3>1, <3>2 DEF ClusterRow
    <2>2. CASE ~Recorded(op[p].cluster)
      BY <1>1, <2>2, Absent DEF SetPhase, Recorded
    <2> QED  BY <2>1, <2>2
  <1> SUFFICES ASSUME crashes = 0, NEW c \in Cluster, clusters'[c].phase = "applying"
               PROVE  \E q \in Cli : op'[q].cluster = c /\ op'[q].pc \in Applying
    BY <1>1 DEF Owned
  <1>5. c # op[p].cluster /\ clusters[c].phase = "applying"
    BY <1>3, <1>4
  <1>6. PICK q \in Cli : op[q].cluster = c /\ op[q].pc \in Applying
    BY <1>5 DEF Owned
  <1>7. op'[q] = op[q]
    BY <1>2, <1>5, <1>6
  <1> QED  BY <1>6, <1>7

LEMMA OwnerFails ==
    ASSUME TypeInv, Owned, NEW p \in Cli, PodmanFails(p)
    PROVE  Owned'
  <1>0. op \in [Cli -> Op] /\ UNCHANGED <<clusters, crashes>>
    BY DEF TypeInv, TypeOK, PodmanFails, registry, bounds
  <1>1. "fail" \in Applying
    BY DEF Applying, ApplyPc
  <1>2. CASE Goto(p, "fail")
    <2>1. /\ op'[p].pc = "fail" /\ op'[p].cluster = op[p].cluster
          /\ \A q \in Cli : q # p => op'[q] = op[q]
      BY <1>0, <1>2 DEF Goto, Op
    <2> QED  BY <1>0, <1>1, <2>1, OwnersStay
  <1>3. CASE op[p].pc \in {"del-probe", "del-remove", "del-volume"} /\ End(p)
    <2>1. op[p].pc \notin Applying /\ \A q \in Cli : q # p => op'[q] = op[q]
      BY <1>0, <1>3 DEF End, Applying, ApplyPc
    <2> QED  BY <1>0, <2>1, OwnersStay
  <1> QED  BY <1>2, <1>3 DEF PodmanFails

\* What boot recovery and the containers do is nothing to the phase; a kill
\* ends what is promised.
LEMMA WorldOwned ==
    ASSUME TypeInv, Owned,
           \/ \E p \in Cli : CliDies(p)
           \/ \E c \in Cluster : \/ FrontCluster(c) \/ UnfrontCluster(c)
                                 \/ BecomesReady(c) \/ InstanceExits(c)
           \/ RunOnce \/ DaemonStep \/ DaemonDies \/ Reboot
           \/ UNCHANGED vars
    PROVE  Owned'
  <1>0. crashes \in Nat
    BY DEF TypeInv, TypeOK
  <1>1. UNCHANGED <<clusters, op, crashes>> \/ crashes' = crashes + 1
    <2>1. CASE \E p \in Cli : CliDies(p)
      BY <2>1 DEF CliDies
    <2>2. CASE \E c \in Cluster : \/ FrontCluster(c) \/ UnfrontCluster(c)
                                  \/ BecomesReady(c) \/ InstanceExits(c)
      BY <2>2 DEF FrontCluster, UnfrontCluster, BecomesReady, InstanceExits,
                  registry, bounds
    <2>3. CASE DaemonStep
      BY <2>3 DEF DaemonStep, ListClusters, ResumeCluster, ResumeDone, ResumeProbe,
                  ResumeStart, ResumeReady, ResumeReadyRead, ResumeReadyWrite,
                  registry, bounds
    <2>4. CASE RunOnce \/ DaemonDies \/ Reboot \/ UNCHANGED vars
      BY <2>4 DEF RunOnce, DaemonDies, Reboot, vars, registry, bounds
    <2> QED  BY <2>1, <2>2, <2>3, <2>4
  <1>2. CASE crashes' = crashes + 1
    BY <1>0, <1>2 DEF Owned
  <1>3. CASE UNCHANGED <<clusters, op, crashes>>
    BY <1>3 DEF Owned
  <1> QED  BY <1>1, <1>2, <1>3

LEMMA OwnedNext == TypeInv /\ Owned /\ [Next]_vars => Owned'
  <1> SUFFICES ASSUME TypeInv, Owned, [Next]_vars PROVE Owned'
    OBVIOUS
  <1>1. CASE \E p \in Cli : \/ StartApply(p) \/ StartDelete(p)
                            \/ ApplyStep(p) \/ DeleteStep(p) \/ PodmanFails(p)
    BY <1>1, OwnerMoves, OutsiderMoves, OwnerComes, OwnerGoes, OwnerFails
       DEF ApplyStep, DeleteStep
  <1>2. CASE ~\E p \in Cli : \/ StartApply(p) \/ StartDelete(p)
                             \/ ApplyStep(p) \/ DeleteStep(p) \/ PodmanFails(p)
    BY <1>2, WorldOwned DEF Next
  <1> QED  BY <1>1, <1>2

\* However many applies and deletes overlap and whatever podman does to them,
\* a cluster is never left "applying" by a command that ended by itself.
THEOREM AppliesAnswerForIt == Spec => []ApplyingHasAnOwner
  <1>1. Init => Owned
    BY Absent DEF Init, Owned
  <1>2. Owned => ApplyingHasAnOwner
    BY DEF Owned, ApplyingHasAnOwner, Applying
  <1> QED  BY <1>1, <1>2, OwnedNext, TypeInit, TypeNext, PTL DEF Spec

=============================================================================
