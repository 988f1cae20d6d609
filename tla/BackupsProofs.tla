---------------------------- MODULE BackupsProofs ----------------------------
(***************************************************************************)
(* Proofs about Backups: its type invariant for every value of the         *)
(* constants, and its safety invariants for commands that take turns.      *)
(***************************************************************************)
EXTENDS Backups, TLAPS

-----------------------------------------------------------------------------
(* The inductive invariant: what has which type.                           *)

BackupPc == {"before", "start", "wait", "after", "report"}
ChoosePc == {"check", "choose"}
ApplyPc  == {"put", "secrets", "box", "wait", "rotate", "conclude", "report"}
DeletePc == {"box", "stopped", "volume", "forget"}

PcState  == {"idle"} \cup BackupPc \cup ChoosePc \cup ApplyPc \cup DeletePc

OpState ==
    [kind : {"idle", "backup", "restore", "apply", "delete"}, pc : PcState,
     cluster : Cluster \cup {NoCluster}, boot : Boots, image : Nat,
     wait : BOOLEAN, recreate : BOOLEAN, named : BOOLEAN,
     todo : SUBSET Role, rotate : SUBSET Role,
     seen : Nat, label : Nat, made : Nat, own : BOOLEAN, fair : BOOLEAN]

RowState == [phase : {"none", "applying", "running", "failed", "stopped"}, image : Nat]
BoxState == [state : {"none", "booting", "restoring", "recovering", "up", "down"},
             boot : Boots, image : Nat, creds : Passwords, tried : BOOLEAN]
VolState == [state : {"none", "empty", "restoring", "partial", "whole"},
             origin : Nat, version : Nat, pw : Passwords, boot : Boots,
             replays : BOOLEAN]
JobState == [cluster : Cluster, owner : Cli \cup {0},
             state : {"running", "ok", "failed"}, label : Nat]

\* A bootstrap names a backup that is there and finished in time.
Backs(b) == /\ b.from \in Cluster
            /\ b.label \in DOMAIN repo[b.from]
            /\ repo[b.from][b.label].stop <= b.at

\* What a command carries, by its kind and where it is.
Shape(o) ==
    /\ o.kind # "idle" => o.cluster \in Cluster
    /\ o.kind = "backup" => o.pc \in BackupPc
    /\ o.kind = "restore" =>
          /\ o.pc \in ChoosePc \cup ApplyPc
          /\ o.boot.from \in Cluster /\ o.boot.from # o.cluster
          /\ o.pc \in ApplyPc => Backs(o.boot)
          /\ o.pc \in ChoosePc => (o.named <=> o.image # 0)
    /\ o.kind = "apply" =>
          o.pc \in ApplyPc /\ o.boot = Initdb /\ o.wait /\ o.rotate = {}
    /\ o.kind = "delete" => o.pc \in DeletePc

BootOf(c) == /\ box[c].boot = Initdb \/ Backs(box[c].boot)
             /\ box[c].state = "restoring" => box[c].boot # Initdb

TypeInv == /\ TypeOK
           /\ op \in [Cli -> OpState]
           /\ \A i \in Cli : Shape(op[i])
           /\ \A c \in Cluster : BootOf(c)

-----------------------------------------------------------------------------
(* The inductive invariant: commands that take turns.                      *)

Solo == \A i, j \in Cli : op[i].kind # "idle" /\ op[j].kind # "idle" => i = j

\* The n-th backup of the cluster is its newest, newer than those seen, and
\* no other is on its way.
Made(c, seen, n) == /\ n = Len(repo[c]) /\ n > seen
                    /\ \A j \in jobs : j.cluster = c => j.state # "running"

\* A job that has an owner is the one its owner waits for.
JobsInv ==
    /\ \A j, k \in jobs : /\ j.state = "running" /\ k.state = "running"
                          /\ j.cluster = k.cluster
                          => j = k
    /\ \A j, k \in jobs : j.owner = k.owner /\ j.owner # 0 => j = k
    /\ \A j \in jobs : j.owner # 0 =>
          /\ At(j.owner, "backup", "wait") /\ op[j.owner].cluster = j.cluster
          /\ j.state = "ok" => Made(j.cluster, op[j.owner].seen, j.label)

BackupInv(o) ==
    o.kind = "backup" =>
        /\ o.pc \in {"start", "wait"} => o.seen <= Len(repo[o.cluster])
        /\ o.pc = "after" => Made(o.cluster, o.seen, o.made)
        /\ o.pc = "report" => o.label = o.made

\* An apply and what it has secured: the row it wrote, the secrets, the
\* container.
ApplyInv(o) ==
    LET c == o.cluster IN
    o.kind \in {"apply", "restore"} =>
        /\ o.kind = "apply" /\ o.pc = "put" /\ Known(c) => o.image = row[c].image
        /\ o.pc \in ApplyPc \ {"put"} => Known(c) /\ row[c].image = o.image
        /\ o.pc = "secrets" => \A r \in Role \ o.todo : secret[c][r] # 0
        /\ o.pc \in {"box", "wait", "rotate", "conclude"} =>
              \A r \in Role : secret[c][r] # 0
        /\ o.pc \in {"wait", "rotate", "conclude", "report"} =>
              box[c].state # "none" /\ box[c].boot = o.boot
        /\ o.pc = "rotate" => o.wait
        /\ o.pc \in {"rotate", "conclude"} /\ o.wait => Whole(c)
        /\ o.pc = "conclude" /\ o.wait => o.rotate = {}

\* A restore has its cluster to itself, and puts the backup it chose there.
RestoreInv(o) ==
    LET c == o.cluster  Chosen == repo[o.boot.from][o.boot.label] IN
    o.kind = "restore" =>
        /\ o.pc \in {"choose", "put"} => ~Known(c)
        /\ o.pc \in {"put", "secrets"} /\ ~o.named /\ o.own =>
              Chosen.version = o.image
        /\ o.pc = "secrets" => volume[c].state = "none" /\ box[c].state = "none"
        /\ o.pc = "box" => volume[c].state = "empty" /\ box[c].state = "none"
        /\ o.pc \in {"wait", "rotate", "conclude", "report"} =>
              /\ volume[c].state # "none"
              /\ Whole(c) => /\ volume[c].boot = o.boot
                             /\ volume[c].origin = Chosen.origin

\* An apply that found nothing: its secrets become those of the roles.
FreshInv(o) ==
    LET c == o.cluster IN
    o.kind = "apply" /\ o.fair =>
        /\ o.pc = "secrets" =>
              volume[c].state \in {"none", "empty"} /\ box[c].state = "none"
        /\ o.pc = "box" => volume[c].state = "empty" /\ box[c].state = "none"
        /\ o.pc \in {"wait", "rotate", "conclude"} =>
              /\ volume[c].state \in {"empty", "whole"}
              /\ box[c].creds = secret[c]
              /\ Whole(c) => volume[c].pw = secret[c]

\* A restore whose source's secrets are those of the backup or missing: every
\* secret it does not have to give to its role is the role's already.
FairInv(o) ==
    LET c == o.cluster
        s == o.boot.from
        pw == repo[s][o.boot.label].pw
    IN
    o.kind = "restore" /\ o.fair =>
        /\ o.pc = "put" => \A r \in Role : secret[c][r] = 0
        /\ o.pc \in {"put", "secrets"} => \A r \in Role : secret[s][r] \in {0, pw[r]}
        /\ o.pc = "secrets" =>
              /\ \A r \in o.todo : secret[c][r] = 0
              /\ \A r \in Role \ (o.todo \cup o.rotate) : secret[c][r] = pw[r]
        /\ o.pc \in {"box", "wait"} => \A r \in Role \ o.rotate : secret[c][r] = pw[r]
        /\ \/ o.pc = "wait" /\ Whole(c)
           \/ o.pc \in {"rotate", "conclude"} /\ o.wait
           => \A r \in Role \ o.rotate : volume[c].pw[r] = secret[c][r]

DeleteInv(o) ==
    o.kind = "delete" =>
        /\ o.pc \in {"volume", "forget"} => box[o.cluster].state = "none"
        /\ o.pc = "forget" => volume[o.cluster].state = "none"

OpInv(o) == /\ BackupInv(o) /\ ApplyInv(o) /\ RestoreInv(o)
            /\ FreshInv(o) /\ FairInv(o) /\ DeleteInv(o)

\* A cluster's container and data fit its row and one another.
Fits(c) ==
    /\ ~Known(c) => volume[c].state = "none" /\ box[c].state = "none"
    /\ box[c].state # "none" => box[c].image = row[c].image
    /\ box[c].state = "restoring" => volume[c].state = "restoring"
    /\ box[c].state \in {"recovering", "up"} =>
          Whole(c) /\ volume[c].version = box[c].image

\* A stanza and its backups are of one database, and move with its version.
Lineage(c) ==
    /\ Whole(c) => volume[c].origin \in 1..minted
    /\ Whole(c) /\ volume[c].boot = Initdb =>
          /\ volume[c].version = row[c].image
          /\ stanza[c].origin = volume[c].origin =>
                stanza[c].version = volume[c].version
    /\ stanza[c].origin <= minted
    /\ \A k \in DOMAIN repo[c] : /\ repo[c][k].origin = stanza[c].origin
                                 /\ repo[c][k].origin \in 1..minted

\* What was reported as a success can be logged into.
Sound(c) == c \in sound => /\ Whole(c) /\ secret[c] = volume[c].pw
                           /\ \A r \in Role : secret[c][r] # 0

World == \A c \in Cluster : Fits(c) /\ Lineage(c) /\ Sound(c)

SerialInv == /\ TypeInv /\ Solo /\ JobsInv
             /\ \A i \in Cli : OpInv(op[i])
             /\ World

-----------------------------------------------------------------------------
(* Lemmas about the values and the updates the actions share.              *)

LEMMA Values ==
    /\ Initdb \in Boots /\ NoPassword \in Passwords
    /\ NoRow \in RowState /\ NoBox \in BoxState /\ NoData \in VolState
    /\ NoStanza \in [origin : Nat, version : Nat]
    /\ Idle \in OpState /\ Idle.kind = "idle" /\ Idle.pc = "idle"
  <1>1. Initdb \in Boots /\ NoPassword \in Passwords
    BY DEF Initdb, Boots, NoPassword, Passwords
  <1>2. NoRow \in RowState /\ NoStanza \in [origin : Nat, version : Nat]
    BY DEF NoRow, RowState, NoStanza
  <1>3. NoBox \in BoxState /\ NoData \in VolState
    BY <1>1 DEF NoBox, BoxState, NoData, VolState
  <1>4. Idle \in OpState /\ Idle.kind = "idle" /\ Idle.pc = "idle"
    BY <1>1 DEF Idle, OpState, PcState
  <1> QED  BY <1>1, <1>2, <1>3, <1>4

LEMMA TypeParts ==
    TypeOK <=> /\ row \in [Cluster -> RowState]
               /\ secret \in [Cluster -> Passwords]
               /\ box \in [Cluster -> BoxState]
               /\ volume \in [Cluster -> VolState]
               /\ jobs \subseteq JobState
               /\ repo \in [Cluster -> Seq(BackupOf)]
               /\ stanza \in [Cluster -> [origin : Nat, version : Nat]]
               /\ sound \subseteq Cluster
               /\ minted \in Nat /\ now \in Nat /\ ops \in Nat /\ kills \in Nat
  BY DEF TypeOK, RowState, BoxState, VolState, JobState

LEMMA TypeNext ==
    ASSUME row' \in [Cluster -> RowState], secret' \in [Cluster -> Passwords],
           box' \in [Cluster -> BoxState], volume' \in [Cluster -> VolState],
           jobs' \subseteq JobState, repo' \in [Cluster -> Seq(BackupOf)],
           stanza' \in [Cluster -> [origin : Nat, version : Nat]],
           sound' \subseteq Cluster, minted' \in Nat, now' \in Nat,
           ops' \in Nat, kills' \in Nat
    PROVE  TypeOK'
  BY DEF TypeOK, RowState, BoxState, VolState, JobState

\* A repository only ever gets longer.
Grown == \A c \in Cluster : \A k \in DOMAIN repo[c] :
            k \in DOMAIN repo'[c] /\ repo'[c][k] = repo[c][k]

LEMMA BacksKept ==
    ASSUME Grown, NEW b, Backs(b)
    PROVE  Backs(b)'
  BY DEF Grown, Backs

LEMMA ShapeKept ==
    ASSUME Grown, NEW o, Shape(o)
    PROVE  Shape(o)'
  BY BacksKept DEF Shape

\* The step of one command.
Moves(i, r) == /\ op' \in [Cli -> OpState]
               /\ op'[i] = r
               /\ \A j \in Cli : j # i => op'[j] = op[j]

LEMMA Moved ==
    ASSUME op \in [Cli -> OpState], NEW i \in Cli, NEW r \in OpState,
           op' = [op EXCEPT ![i] = r]
    PROVE  Moves(i, r)
  BY DEF Moves

LEMMA ShapesKept ==
    ASSUME TypeInv, Grown, NEW i \in Cli, NEW r \in OpState, Moves(i, r), Shape(r)'
    PROVE  op' \in [Cli -> OpState] /\ \A j \in Cli : Shape(op[j])'
  <1>1. op' \in [Cli -> OpState]
    BY DEF Moves
  <1>2. ASSUME NEW j \in Cli PROVE Shape(op[j])'
    <2>1. CASE j = i
      <3>1. op'[j] = r
        BY <2>1 DEF Moves
      <3> QED  BY <3>1 DEF Shape, Backs
    <2>2. CASE j # i
      <3>1. PICK o : o = op[j]
        OBVIOUS
      <3>2. Shape(o)'
        BY <3>1, ShapeKept DEF TypeInv
      <3>3. op'[j] = o
        BY <2>2, <3>1 DEF Moves
      <3> QED  BY <3>2, <3>3 DEF Shape, Backs
    <2> QED  BY <2>1, <2>2
  <1> QED  BY <1>1, <1>2

\* Bootstraps of containers that a step leaves alone.
LEMMA BootKept ==
    ASSUME TypeInv, Grown, NEW c \in Cluster, box'[c].boot = box[c].boot,
           box'[c].state = "restoring" => box[c].boot # Initdb
    PROVE  BootOf(c)'
  <1>1. PICK b : b = box[c].boot
    OBVIOUS
  <1>2. b = Initdb \/ Backs(b)'
    BY <1>1, BacksKept DEF TypeInv, BootOf
  <1> QED  BY <1>1, <1>2 DEF BootOf, Backs

LEMMA GotoOp ==
    ASSUME op \in [Cli -> OpState], NEW i \in Cli, NEW pc \in PcState, Goto(i, pc)
    PROVE  \E r \in OpState : /\ Moves(i, r)
                              /\ r = [op[i] EXCEPT !.pc = pc]
  <1>1. PICK r : r = [op[i] EXCEPT !.pc = pc]
    OBVIOUS
  <1>2. r \in OpState
    BY <1>1 DEF OpState
  <1>3. op' = [op EXCEPT ![i] = r]
    BY <1>1 DEF Goto
  <1> QED  BY <1>1, <1>2, <1>3, Moved

LEMMA EndOp ==
    ASSUME op \in [Cli -> OpState], NEW i \in Cli, End(i)
    PROVE  Moves(i, Idle) /\ Idle \in OpState
  BY Values, Moved DEF End

\* A slot that is free has its shape.
LEMMA IdleShape == Shape(Idle)'
  BY DEF Shape, Idle

-----------------------------------------------------------------------------
(* What each step of a command makes of what the command carries.          *)

LEMMA BeginOp ==
    ASSUME op \in [Cli -> OpState], NEW i \in Cli, NEW o, Begin(i, o), o \in OpState
    PROVE  Moves(i, o)
  BY Moved DEF Begin

LEMMA BackupOp ==
    ASSUME TypeInv, NEW i \in Cli, Backup(i)
    PROVE  \E r \in OpState :
             /\ Moves(i, r) /\ Begin(i, r)
             /\ r.kind = "backup" /\ r.pc = "before" /\ r.cluster \in Cluster
  <1>1. PICK c \in Cluster : Begin(i, [Idle EXCEPT !.kind = "backup", !.pc = "before",
                                                   !.cluster = c])
    BY DEF Backup
  <1>2. PICK r : r = [Idle EXCEPT !.kind = "backup", !.pc = "before", !.cluster = c]
    OBVIOUS
  <1>3. r \in OpState /\ r.kind = "backup" /\ r.pc = "before" /\ r.cluster = c
    BY <1>2, Values DEF OpState, PcState, BackupPc
  <1>4. Begin(i, r)
    BY <1>1, <1>2
  <1> QED  BY <1>3, <1>4, BeginOp DEF TypeInv

LEMMA RestoreOp ==
    ASSUME TypeInv, NEW i \in Cli, Restore(i)
    PROVE  \E r \in OpState :
             /\ Moves(i, r) /\ Begin(i, r)
             /\ r.kind = "restore" /\ r.pc = "check" /\ r.cluster \in Cluster
             /\ r.boot.from \in Cluster /\ r.boot.from # r.cluster
             /\ r.named <=> r.image # 0
  <1>1. PICK s \in Cluster, t \in Cluster, at \in 0..now, image \in Version \cup {0},
             wait \in BOOLEAN :
          /\ s # t
          /\ wait \/ CanFail("hasty")
          /\ Begin(i, [Idle EXCEPT !.kind = "restore", !.pc = "check", !.cluster = t,
                           !.boot = [from |-> s, label |-> 0, at |-> at],
                           !.image = image, !.named = image # 0, !.wait = wait])
    BY Zenon DEF Restore
  <1>2. PICK r : r = [Idle EXCEPT !.kind = "restore", !.pc = "check", !.cluster = t,
                           !.boot = [from |-> s, label |-> 0, at |-> at],
                           !.image = image, !.named = image # 0, !.wait = wait]
    OBVIOUS
  <1>3. at \in Nat /\ image \in Nat
    BY BackupsOK DEF TypeInv, TypeOK
  <1>4. PICK b : b = [from |-> s, label |-> 0, at |-> at]
    OBVIOUS
  <1>5. b \in Boots /\ b.from = s
    BY <1>3, <1>4 DEF Boots
  <1>6. r = [Idle EXCEPT !.kind = "restore", !.pc = "check", !.cluster = t, !.boot = b,
                         !.image = image, !.named = image # 0, !.wait = wait]
    BY <1>2, <1>4
  <1>7. r \in OpState
    BY <1>3, <1>5, <1>6, Values, ZenonT(60) DEF OpState, PcState, ChoosePc
  <1>8. /\ r.kind = "restore" /\ r.pc = "check" /\ r.cluster = t
        /\ r.boot = b /\ r.image = image /\ r.named = (image # 0)
    BY <1>6, Values DEF OpState
  <1>9. Begin(i, r)
    BY <1>1, <1>2
  <1> QED  BY <1>1, <1>5, <1>7, <1>8, <1>9, BeginOp DEF TypeInv

LEMMA ApplyOp ==
    ASSUME TypeInv, NEW i \in Cli, Apply(i)
    PROVE  \E r \in OpState :
             /\ Moves(i, r) /\ Begin(i, r)
             /\ r.kind = "apply" /\ r.pc = "put" /\ r.cluster \in Cluster
             /\ r.boot = Initdb /\ r.wait = TRUE /\ r.rotate = {} /\ r.fair = FALSE
             /\ Known(r.cluster) => r.image = row[r.cluster].image
  <1>1. PICK c \in Cluster, v \in Version, recreate \in BOOLEAN :
          /\ Known(c) => v = row[c].image
          /\ Begin(i, [Idle EXCEPT !.kind = "apply", !.pc = "put", !.cluster = c,
                                   !.image = v, !.recreate = recreate])
    BY DEF Apply
  <1>2. PICK r : r = [Idle EXCEPT !.kind = "apply", !.pc = "put", !.cluster = c,
                                  !.image = v, !.recreate = recreate]
    OBVIOUS
  <1>3. v \in Nat
    BY BackupsOK
  <1>4. r \in OpState
    BY <1>2, <1>3, Values DEF OpState, PcState, ApplyPc
  <1>5. /\ r.kind = "apply" /\ r.pc = "put" /\ r.cluster = c /\ r.image = v
        /\ r.boot = Initdb /\ r.wait = TRUE /\ r.rotate = {} /\ r.fair = FALSE
    BY <1>2 DEF Idle
  <1>6. Begin(i, r)
    BY <1>1, <1>2
  <1> QED  BY <1>1, <1>4, <1>5, <1>6, BeginOp DEF TypeInv

LEMMA DeleteOp ==
    ASSUME TypeInv, NEW i \in Cli, Delete(i)
    PROVE  \E r \in OpState :
             /\ Moves(i, r) /\ Begin(i, r)
             /\ r.kind = "delete" /\ r.pc = "box" /\ r.cluster \in Cluster
  <1>1. PICK c \in Cluster, purge \in BOOLEAN :
          Begin(i, [Idle EXCEPT !.kind = "delete", !.pc = "box", !.cluster = c,
                                !.recreate = purge])
    BY DEF Delete
  <1>2. PICK r : r = [Idle EXCEPT !.kind = "delete", !.pc = "box", !.cluster = c,
                                  !.recreate = purge]
    OBVIOUS
  <1>3. r \in OpState /\ r.kind = "delete" /\ r.pc = "box" /\ r.cluster = c
    BY <1>2, Values DEF OpState, PcState, DeletePc
  <1>4. Begin(i, r)
    BY <1>1, <1>2
  <1> QED  BY <1>3, <1>4, BeginOp DEF TypeInv

LEMMA InfoBeforeOp ==
    ASSUME TypeInv, NEW i \in Cli, InfoBefore(i)
    PROVE  \E r \in OpState :
             /\ Moves(i, r)
             /\ \/ r = Idle
                \/ r = [op[i] EXCEPT !.pc = "start", !.seen = Len(repo[op[i].cluster])]
  <1> DEFINE c == op[i].cluster
  <1>0. op[i] \in OpState /\ c \in Cluster
    BY DEF TypeInv, Shape, InfoBefore, At
  <1>1. PICK r : r = [op[i] EXCEPT !.pc = "start", !.seen = Len(repo[c])]
    OBVIOUS
  <1>2. Len(repo[c]) \in Nat
    BY <1>0 DEF TypeInv, TypeOK
  <1>3. r \in OpState
    BY <1>0, <1>1, <1>2 DEF OpState, PcState, BackupPc
  <1>4. op' = [op EXCEPT ![i] = r] \/ End(i)
    BY <1>1 DEF InfoBefore, NotAsked
  <1> QED  BY <1>1, <1>3, <1>4, Moved, EndOp DEF TypeInv

LEMMA WaitJobOp ==
    ASSUME TypeInv, NEW i \in Cli, WaitJob(i)
    PROVE  \E j \in jobs, r \in OpState :
             /\ Moves(i, r) /\ j.owner = i
             /\ \/ /\ j.state = "ok" /\ jobs' = jobs \ {j}
                   /\ r = [op[i] EXCEPT !.pc = "after", !.made = j.label]
                \/ r = Idle /\ jobs' = jobs \ {j}
                \/ r = Idle /\ jobs' = (jobs \ {j}) \cup {[j EXCEPT !.owner = 0]}
  <1>0. op[i] \in OpState /\ op \in [Cli -> OpState]
    BY DEF TypeInv
  <1>1. PICK j \in jobs :
          /\ j.owner = i
          /\ \/ /\ j.state = "ok"
                /\ op' = [op EXCEPT ![i].pc = "after", ![i].made = j.label]
                /\ jobs' = jobs \ {j}
             \/ /\ End(i)
                /\ jobs' = jobs \ {j}
             \/ /\ End(i)
                /\ jobs' = (jobs \ {j}) \cup {[j EXCEPT !.owner = 0]}
    BY DEF WaitJob
  <1>2. PICK r : r = [op[i] EXCEPT !.pc = "after", !.made = j.label]
    OBVIOUS
  <1>3. j.label \in Nat
    BY DEF TypeInv, TypeOK
  <1>4. r \in OpState
    BY <1>0, <1>2, <1>3 DEF OpState, PcState, BackupPc
  <1>5. CASE End(i)
    BY <1>0, <1>1, <1>5, EndOp
  <1>6. CASE op' = [op EXCEPT ![i].pc = "after", ![i].made = j.label]
    <2>1. op' = [op EXCEPT ![i] = r]
      BY <1>2, <1>6
    <2>2. Moves(i, r)
      BY <1>0, <1>4, <2>1, Moved
    <2>3. CASE j.state = "ok" /\ jobs' = jobs \ {j}
      BY <1>1, <1>2, <1>4, <2>2, <2>3
    <2> QED  BY <1>0, <1>1, <2>3, EndOp
  <1> QED  BY <1>1, <1>5, <1>6

LEMMA InfoAfterOp ==
    ASSUME TypeInv, NEW i \in Cli, InfoAfter(i)
    PROVE  \E r \in OpState :
             /\ Moves(i, r)
             /\ \/ r = Idle
                \/ r = [op[i] EXCEPT !.pc = "report",
                            !.label = IF Len(repo[op[i].cluster]) > op[i].seen
                                      THEN Len(repo[op[i].cluster]) ELSE 0]
  <1> DEFINE c == op[i].cluster
             n == IF Len(repo[c]) > op[i].seen THEN Len(repo[c]) ELSE 0
  <1>0. op[i] \in OpState /\ c \in Cluster
    BY DEF TypeInv, Shape, InfoAfter, At
  <1>1. PICK r : r = [op[i] EXCEPT !.pc = "report", !.label = n]
    OBVIOUS
  <1>2. n \in Nat
    BY <1>0 DEF TypeInv, TypeOK
  <1>3. r \in OpState
    BY <1>0, <1>1, <1>2 DEF OpState, PcState, BackupPc
  <1>4. op' = [op EXCEPT ![i] = r] \/ End(i)
    BY <1>1 DEF InfoAfter, NotAsked
  <1> QED  BY <1>1, <1>3, <1>4, Moved, EndOp DEF TypeInv


\* What a restore remembers of the state it chose its backup in.
Own(s, k) == /\ Whole(s) /\ volume[s].boot = Initdb
             /\ repo[s][k].origin = volume[s].origin
FairTo(c, s, k) == /\ secret[c] = NoPassword
                   /\ \A r \in Role : secret[s][r] \in {0, repo[s][k].pw[r]}

Chose(i, k, r) ==
    LET o == op[i]  s == op[i].boot.from IN
    r = [o EXCEPT !.pc = "put", !.boot = [o.boot EXCEPT !.label = k],
                  !.image = IF o.image = 0 THEN row[s].image ELSE o.image,
                  !.own = Own(s, k), !.fair = FairTo(o.cluster, s, k)]

LEMMA ChooseOp ==
    ASSUME TypeInv, NEW i \in Cli, Choose(i)
    PROVE  \E r \in OpState :
             /\ Moves(i, r)
             /\ \/ r = Idle
                \/ \E k \in BackupForTarget(op[i].boot.from, op[i].boot.at) :
                     /\ Known(op[i].boot.from)
                     /\ ImageAllows(op[i].boot.from, k, op[i].image)
                     /\ Chose(i, k, r)
  <1> DEFINE s == op[i].boot.from
  <1>0. op[i] \in OpState /\ op \in [Cli -> OpState] /\ s \in Cluster
    BY DEF TypeInv, Shape, Choose, At
  <1>1. CASE End(i)
    BY <1>0, <1>1, EndOp
  <1>2. ASSUME NEW k \in BackupForTarget(s, op[i].boot.at), Known(s),
               ImageAllows(s, k, op[i].image),
               op' = [op EXCEPT ![i].pc = "put", ![i].boot.label = k,
                      ![i].image = IF @ = 0 THEN row[s].image ELSE @,
                      ![i].own = /\ Whole(s) /\ volume[s].boot = Initdb
                                 /\ repo[s][k].origin = volume[s].origin,
                      ![i].fair = /\ secret[op[i].cluster] = NoPassword
                                  /\ \A r \in Role : secret[s][r] \in {0, repo[s][k].pw[r]}]
        PROVE  \E r \in OpState : Moves(i, r) /\ Chose(i, k, r)
    <2>1. PICK b : b = [op[i].boot EXCEPT !.label = k]
      OBVIOUS
    <2>2. PICK v : v = IF op[i].image = 0 THEN row[s].image ELSE op[i].image
      OBVIOUS
    <2>3. k \in Nat
      <3>1. repo[s] \in Seq(BackupOf) /\ k \in DOMAIN repo[s]
        BY <1>0, <1>2 DEF TypeInv, TypeOK, BackupForTarget
      <3> QED  BY <3>1
    <2>4. b \in Boots
      BY <1>0, <2>1, <2>3 DEF OpState, Boots
    <2>5. v \in Nat
      BY <1>0, <2>2 DEF OpState, TypeInv, TypeOK
    <2>6. PICK x \in BOOLEAN, y \in BOOLEAN :
            x = Own(s, k) /\ y = FairTo(op[i].cluster, s, k)
      BY Zenon DEF Own, FairTo
    <2>7. PICK r : r = [op[i] EXCEPT !.pc = "put", !.boot = b, !.image = v,
                                     !.own = x, !.fair = y]
      OBVIOUS
    <2>8. r \in OpState
      BY <1>0, <2>4, <2>5, <2>6, <2>7, ZenonT(60) DEF OpState, PcState, ApplyPc
    <2>9. op' = [op EXCEPT ![i] = r]
      <3>1. op' = [op EXCEPT ![i].pc = "put", ![i].boot.label = k,
                      ![i].image = IF @ = 0 THEN row[s].image ELSE @,
                      ![i].own = Own(s, k),
                      ![i].fair = FairTo(op[i].cluster, s, k)]
        BY <1>2, Zenon DEF Own, FairTo
      <3>2. op' = [op EXCEPT ![i].pc = "put", ![i].boot.label = k,
                      ![i].image = IF @ = 0 THEN row[s].image ELSE @,
                      ![i].own = x, ![i].fair = y]
        BY <2>6, <3>1
      <3> HIDE DEF s
      <3> QED  BY <2>1, <2>2, <2>7, <3>2, ZenonT(60)
    <2>10. Chose(i, k, r)
      BY <2>1, <2>2, <2>6, <2>7, ZenonT(60) DEF Chose
    <2> QED  BY <1>0, <2>8, <2>9, <2>10, Moved
  <1> QED  BY <1>1, <1>2 DEF Choose, Asked, NotAsked

\* What an apply remembers of the state it wrote its row in.
Fresh(c) == volume[c].state \in {"none", "empty"} /\ box[c].state = "none"

PutRow(i, r) ==
    LET o == op[i]  c == op[i].cluster IN
    /\ r = [o EXCEPT !.pc = "secrets", !.todo = Role,
                     !.fair = IF o.kind = "apply" THEN Fresh(c) ELSE o.fair]
    /\ ~(Whole(c) /\ volume[c].version # o.image)
    /\ row' = [row EXCEPT ![c] = [phase |-> "applying", image |-> o.image]]

LEMMA PutClusterOp ==
    ASSUME TypeInv, NEW i \in Cli, PutCluster(i)
    PROVE  \E r \in OpState :
             /\ Moves(i, r)
             /\ \/ r = Idle /\ UNCHANGED row
                \/ PutRow(i, r)
  <1>0. op[i] \in OpState /\ op \in [Cli -> OpState]
    BY DEF TypeInv
  <1>1. PICK y \in BOOLEAN :
          y = IF op[i].kind = "apply" THEN Fresh(op[i].cluster) ELSE op[i].fair
    <2>1. CASE op[i].kind = "apply"
      BY <2>1, Zenon DEF Fresh
    <2>2. CASE op[i].kind # "apply"
      BY <1>0, <2>2 DEF OpState
    <2> QED  BY <2>1, <2>2
  <1>2. PICK r : r = [op[i] EXCEPT !.pc = "secrets", !.todo = Role, !.fair = y]
    OBVIOUS
  <1>3. r \in OpState
    BY <1>0, <1>2 DEF OpState, PcState, ApplyPc
  <1>4. \/ op' = [op EXCEPT ![i] = r] /\ PutRow(i, r)
        \/ End(i) /\ UNCHANGED row
    BY <1>1, <1>2 DEF PutCluster, Fresh, PutRow
  <1> QED  BY <1>0, <1>3, <1>4, Moved, EndOp

\* What ensure_secrets makes of one role.
Failed(i, q) == q = Idle /\ row' = [row EXCEPT ![op[i].cluster].phase = "failed"]

Ensured(i, r, q) ==
    LET o == op[i]  c == op[i].cluster  s == op[i].boot.from IN
    \/ Failed(i, q) /\ UNCHANGED <<secret, minted>>
    \/ /\ q = [o EXCEPT !.todo = o.todo \ {r}]
       /\ secret[c][r] # 0 /\ UNCHANGED <<row, secret, minted>>
    \/ /\ q = [o EXCEPT !.todo = o.todo \ {r}]
       /\ secret[c][r] = 0 /\ s # NoCluster /\ secret[s][r] # 0
       /\ secret' = [secret EXCEPT ![c][r] = secret[s][r]]
       /\ UNCHANGED <<row, minted>>
    \/ /\ q = [o EXCEPT !.todo = o.todo \ {r},
                        !.rotate = IF s # NoCluster THEN o.rotate \cup {r} ELSE o.rotate]
       /\ secret[c][r] = 0 /\ (s # NoCluster => secret[s][r] = 0)
       /\ secret' = [secret EXCEPT ![c][r] = minted + 1]
       /\ minted' = minted + 1 /\ UNCHANGED row

LEMMA EnsureSecretOp ==
    ASSUME TypeInv, NEW i \in Cli, NEW r \in Role, EnsureSecret(i, r)
    PROVE  \E q \in OpState : Moves(i, q) /\ Ensured(i, r, q)
  <1> DEFINE c == op[i].cluster
             s == op[i].boot.from
             R == IF s # NoCluster THEN op[i].rotate \cup {r} ELSE op[i].rotate
  <1>0. op[i] \in OpState /\ op \in [Cli -> OpState]
    BY DEF TypeInv
  <1>1. PICK q1 : q1 = [op[i] EXCEPT !.todo = op[i].todo \ {r}]
    OBVIOUS
  <1>2. PICK q2 : q2 = [op[i] EXCEPT !.todo = op[i].todo \ {r}, !.rotate = R]
    OBVIOUS
  <1>3. q1 \in OpState /\ q2 \in OpState
    BY <1>0, <1>1, <1>2 DEF OpState
  <1>4. op' = [op EXCEPT ![i].todo = @ \ {r}] => Moves(i, q1)
    <2>1. op' = [op EXCEPT ![i].todo = @ \ {r}] => op' = [op EXCEPT ![i] = q1]
      BY <1>1
    <2> QED  BY <1>0, <1>3, <2>1, Moved
  <1>5. op' = [op EXCEPT ![i].todo = @ \ {r},
                         ![i].rotate = IF s # NoCluster THEN @ \cup {r} ELSE @]
        => Moves(i, q2)
    <2>1. op' = [op EXCEPT ![i].todo = @ \ {r},
                           ![i].rotate = IF s # NoCluster THEN @ \cup {r} ELSE @]
          => op' = [op EXCEPT ![i] = q2]
      BY <1>2
    <2> QED  BY <1>0, <1>3, <2>1, Moved
  <1>6. End(i) => Moves(i, Idle) /\ Idle \in OpState
    BY <1>0, EndOp
  <1>7. \/ /\ End(i) /\ UNCHANGED <<secret, minted>>
           /\ row' = [row EXCEPT ![c].phase = "failed"]
        \/ /\ op' = [op EXCEPT ![i].todo = @ \ {r}]
           /\ secret[c][r] # 0 /\ UNCHANGED <<row, secret, minted>>
        \/ /\ op' = [op EXCEPT ![i].todo = @ \ {r}]
           /\ secret[c][r] = 0 /\ s # NoCluster /\ secret[s][r] # 0
           /\ secret' = [secret EXCEPT ![c][r] = secret[s][r]]
           /\ UNCHANGED <<row, minted>>
        \/ /\ op' = [op EXCEPT ![i].todo = @ \ {r},
                         ![i].rotate = IF s # NoCluster THEN @ \cup {r} ELSE @]
           /\ secret[c][r] = 0 /\ ~(s # NoCluster /\ secret[s][r] # 0)
           /\ secret' = [secret EXCEPT ![c][r] = minted + 1]
           /\ minted' = minted + 1 /\ UNCHANGED row
    BY Zenon DEF EnsureSecret, FailApply
  <1> QED  BY <1>1, <1>2, <1>3, <1>4, <1>5, <1>6, <1>7 DEF Ensured, Failed

Rotated(i, r, q) ==
    LET o == op[i]  c == op[i].cluster IN
    \/ Failed(i, q) /\ UNCHANGED volume
    \/ /\ q = [o EXCEPT !.rotate = o.rotate \ {r}]
       /\ secret[c][r] # 0 /\ box[c].state = "up" /\ UNCHANGED row
       /\ volume' = [volume EXCEPT ![c].pw[r] = secret[c][r]]

LEMMA RotateRoleOp ==
    ASSUME TypeInv, NEW i \in Cli, NEW r \in Role, RotateRole(i, r)
    PROVE  \E q \in OpState : Moves(i, q) /\ Rotated(i, r, q)
  <1> DEFINE c == op[i].cluster
  <1>0. op[i] \in OpState /\ op \in [Cli -> OpState]
    BY DEF TypeInv
  <1>1. PICK q : q = [op[i] EXCEPT !.rotate = op[i].rotate \ {r}]
    OBVIOUS
  <1>2. q \in OpState
    BY <1>0, <1>1 DEF OpState
  <1>3. op' = [op EXCEPT ![i].rotate = @ \ {r}] => Moves(i, q)
    <2>1. op' = [op EXCEPT ![i].rotate = @ \ {r}] => op' = [op EXCEPT ![i] = q]
      BY <1>1
    <2> QED  BY <1>0, <1>2, <2>1, Moved
  <1>4. End(i) => Moves(i, Idle) /\ Idle \in OpState
    BY <1>0, EndOp
  <1>5. \/ /\ End(i) /\ UNCHANGED volume
           /\ row' = [row EXCEPT ![c].phase = "failed"]
        \/ /\ op' = [op EXCEPT ![i].rotate = @ \ {r}]
           /\ secret[c][r] # 0 /\ box[c].state = "up" /\ UNCHANGED row
           /\ volume' = [volume EXCEPT ![c].pw[r] = secret[c][r]]
    BY Zenon DEF RotateRole, FailApply
  <1> QED  BY <1>1, <1>2, <1>3, <1>4, <1>5 DEF Rotated, Failed

\* The steps that only move on, or end the command.
LEMMA StepOp ==
    ASSUME op \in [Cli -> OpState], NEW i \in Cli, NEW pc \in PcState,
           Goto(i, pc) \/ End(i)
    PROVE  \E r \in OpState :
             Moves(i, r) /\ (r = Idle \/ r = [op[i] EXCEPT !.pc = pc])
  BY GotoOp, EndOp


-----------------------------------------------------------------------------
(* The type invariant.                                                     *)

LEMMA RepoKept ==
    ASSUME UNCHANGED repo
    PROVE  Grown
  BY DEF Grown

LEMMA CommandTyped ==
    ASSUME TypeInv, NEW i \in Cli, NEW r \in OpState, Moves(i, r), Shape(r)', TypeOK',
           UNCHANGED <<box, repo>>
    PROVE  TypeInv'
  <1>1. Grown
    BY RepoKept
  <1>2. op' \in [Cli -> OpState] /\ \A j \in Cli : Shape(op[j])'
    BY <1>1, ShapesKept
  <1>3. \A c \in Cluster : BootOf(c)'
    BY <1>1, BootKept DEF TypeInv, BootOf
  <1> QED  BY <1>2, <1>3 DEF TypeInv

\* A command that carries on as it was, but for its place among the steps.
LEMMA ShapeMoved ==
    ASSUME TypeInv, Grown, NEW i \in Cli, NEW pc \in PcState,
           NEW r, r = [op[i] EXCEPT !.pc = pc],
           \/ op[i].kind = "idle"
           \/ op[i].kind = "backup" /\ pc \in BackupPc
           \/ op[i].kind = "restore" /\ op[i].pc \in ChoosePc /\ pc \in ChoosePc
           \/ op[i].kind \in {"apply", "restore"} /\ op[i].pc \in ApplyPc /\ pc \in ApplyPc
           \/ op[i].kind = "delete" /\ pc \in DeletePc
    PROVE  Shape(r)'
  <1>1. PICK o \in OpState : o = op[i]
    BY DEF TypeInv
  <1>2. Shape(o)'
    BY <1>1, ShapeKept DEF TypeInv
  <1>3. /\ r.kind = o.kind /\ r.pc = pc /\ r.cluster = o.cluster /\ r.boot = o.boot
        /\ r.named = o.named /\ r.image = o.image /\ r.wait = o.wait
        /\ r.rotate = o.rotate
    BY <1>1 DEF OpState
  <1>4. ApplyPc \cap ChoosePc = {}
    BY DEF ApplyPc, ChoosePc
  <1>5. o.kind = "restore" /\ o.pc \in ApplyPc => Backs(o.boot)'
    BY <1>2 DEF Shape
  <1> QED  BY <1>1, <1>2, <1>3, <1>4, <1>5 DEF Shape

LEMMA BeginTyped ==
    ASSUME TypeInv, NEW i \in Cli,
           Backup(i) \/ Restore(i) \/ Apply(i) \/ Delete(i)
    PROVE  TypeInv'
  <1>1. PICK r \in OpState : Moves(i, r) /\ Begin(i, r) /\ Shape(r)'
    <2>1. CASE Backup(i)
      BY <2>1, BackupOp DEF Shape, BackupPc
    <2>2. CASE Restore(i)
      <3>1. PICK r \in OpState :
             /\ Moves(i, r) /\ Begin(i, r)
             /\ r.kind = "restore" /\ r.pc = "check" /\ r.cluster \in Cluster
             /\ r.boot.from \in Cluster /\ r.boot.from # r.cluster
             /\ r.named <=> r.image # 0
        BY <2>2, RestoreOp
      <3>2. Shape(r)'
        BY <3>1 DEF Shape, ChoosePc, ApplyPc
      <3> QED  BY <3>1, <3>2
    <2>3. CASE Apply(i)
      BY <2>3, ApplyOp DEF Shape, ApplyPc
    <2>4. CASE Delete(i)
      BY <2>4, DeleteOp DEF Shape, DeletePc
    <2> QED  BY <2>1, <2>2, <2>3, <2>4
  <1>2. TypeOK' /\ UNCHANGED <<box, repo>>
    BY <1>1 DEF Begin, TypeInv, TypeOK, containers, repository, counters
  <1> QED  BY <1>1, <1>2, CommandTyped

LEMMA BackupTyped ==
    ASSUME TypeInv, NEW i \in Cli,
           InfoBefore(i) \/ StartJob(i) \/ WaitJob(i) \/ InfoAfter(i)
    PROVE  TypeInv'
  <1>0. /\ op[i] \in OpState /\ op \in [Cli -> OpState] /\ op[i].kind = "backup"
        /\ op[i].cluster \in Cluster
        /\ UNCHANGED <<row, secret, box, volume, repository, counters, bounds>>
        /\ jobs \subseteq JobState
    BY TypeParts DEF InfoBefore, StartJob, WaitJob, InfoAfter, At, TypeInv, Shape
  <1>1. TypeOK' \/ jobs' \notin SUBSET JobState
    BY <1>0, TypeParts DEF TypeInv, TypeOK, repository, counters, bounds, JobState
  <1>2. UNCHANGED <<box, repo>>
    BY <1>0 DEF repository
  <1>3. \A state \in {"running", "failed"}, w \in Cli \cup {0} :
          [cluster |-> op[i].cluster, owner |-> w, state |-> state, label |-> 0] \in JobState
    BY <1>0 DEF JobState
  <1>4. CASE InfoBefore(i)
    <2>1. PICK r \in OpState :
             /\ Moves(i, r)
             /\ \/ r = Idle
                \/ r = [op[i] EXCEPT !.pc = "start", !.seen = Len(repo[op[i].cluster])]
      BY <1>4, InfoBeforeOp
    <2>2. Shape(r)'
      BY <1>0, <2>1, IdleShape, ZenonT(60) DEF OpState, Shape, BackupPc
    <2>3. jobs' \subseteq JobState
      BY <1>0, <1>3, <1>4 DEF InfoBefore, Asked, NotAsked
    <2> QED  BY <1>1, <1>2, <2>1, <2>2, <2>3, CommandTyped
  <1>5. CASE StartJob(i)
    <2>1. Goto(i, "wait") \/ End(i)
      BY <1>5 DEF StartJob, Fails
    <2>2. "wait" \in PcState /\ "wait" \in BackupPc
      BY DEF PcState, BackupPc
    <2>3. PICK r \in OpState :
             Moves(i, r) /\ (r = Idle \/ r = [op[i] EXCEPT !.pc = "wait"])
      BY <1>0, <2>1, <2>2, StepOp
    <2>4. Shape(r)'
      BY <1>0, <1>2, <2>2, <2>3, IdleShape, ShapeMoved, RepoKept
    <2>5. jobs' \subseteq JobState
      <3>1. \A x : jobs' = jobs \cup {x} /\ x \in JobState => jobs' \subseteq JobState
        BY <1>0
      <3>2. \/ jobs' = jobs
            \/ \E x \in JobState : jobs' = jobs \cup {x}
        <4>1. [[cluster |-> op[i].cluster, owner |-> i, state |-> "failed", label |-> 0]
                 EXCEPT !.owner = 0]
              = [cluster |-> op[i].cluster, owner |-> 0, state |-> "failed", label |-> 0]
          OBVIOUS
        <4> QED  BY <1>0, <1>3, <1>5, <4>1 DEF StartJob
      <3> QED  BY <1>0, <3>1, <3>2
    <2> QED  BY <1>1, <1>2, <2>3, <2>4, <2>5, CommandTyped
  <1>6. CASE WaitJob(i)
    <2>1. PICK j \in jobs, r \in OpState :
             /\ Moves(i, r) /\ j.owner = i
             /\ \/ /\ j.state = "ok" /\ jobs' = jobs \ {j}
                   /\ r = [op[i] EXCEPT !.pc = "after", !.made = j.label]
                \/ r = Idle /\ jobs' = jobs \ {j}
                \/ r = Idle /\ jobs' = (jobs \ {j}) \cup {[j EXCEPT !.owner = 0]}
      BY <1>6, WaitJobOp
    <2>2. Shape(r)'
      BY <1>0, <2>1, IdleShape, ZenonT(60) DEF OpState, Shape, BackupPc
    <2>3. j \in JobState /\ [j EXCEPT !.owner = 0] \in JobState
      BY <1>0, <2>1 DEF JobState
    <2>4. jobs' \subseteq JobState
      BY <1>0, <2>1, <2>3
    <2> QED  BY <1>1, <1>2, <2>1, <2>2, <2>4, CommandTyped
  <1>7. CASE InfoAfter(i)
    <2>1. PICK r \in OpState :
             /\ Moves(i, r)
             /\ \/ r = Idle
                \/ r = [op[i] EXCEPT !.pc = "report",
                            !.label = IF Len(repo[op[i].cluster]) > op[i].seen
                                      THEN Len(repo[op[i].cluster]) ELSE 0]
      BY <1>7, InfoAfterOp
    <2>2. Shape(r)'
      BY <1>0, <2>1, IdleShape, ZenonT(60) DEF OpState, Shape, BackupPc
    <2>3. jobs' \subseteq JobState
      BY <1>0, <1>3, <1>7 DEF InfoAfter, Asked, NotAsked
    <2> QED  BY <1>1, <1>2, <2>1, <2>2, <2>3, CommandTyped
  <1> QED  BY <1>4, <1>5, <1>6, <1>7


LEMMA ApplyPcs ==
    /\ ChoosePc \subseteq PcState /\ ApplyPc \subseteq PcState /\ DeletePc \subseteq PcState
    /\ "choose" \in ChoosePc
    /\ {"put", "secrets", "box", "wait", "rotate", "conclude", "report"} = ApplyPc
    /\ {"box", "stopped", "volume", "forget"} = DeletePc
    /\ ApplyPc \cap ChoosePc = {}
  BY DEF PcState, ChoosePc, ApplyPc, DeletePc

LEMMA ChooseTyped ==
    ASSUME TypeInv, NEW i \in Cli, CheckNames(i) \/ Choose(i)
    PROVE  TypeInv'
  <1>0. /\ op[i] \in OpState /\ op \in [Cli -> OpState]
        /\ op[i].kind = "restore" /\ op[i].pc \in ChoosePc
        /\ op[i].boot.from \in Cluster /\ op[i].boot.from # op[i].cluster
        /\ op[i].cluster \in Cluster
        /\ UNCHANGED <<row, secret, box, volume, repository, counters, bounds>>
        /\ jobs \subseteq JobState
    BY TypeParts DEF CheckNames, Choose, At, TypeInv, Shape, ChoosePc, containers
  <1>1. UNCHANGED <<box, repo>>
    BY <1>0 DEF repository
  <1>2. TypeOK'
    <2>1. jobs' \subseteq JobState
      <3>1. [cluster |-> op[i].boot.from, owner |-> 0, state |-> "failed", label |-> 0]
              \in JobState
        BY <1>0 DEF JobState
      <3> QED  BY <1>0, <3>1 DEF CheckNames, Choose, Asked, NotAsked, containers
    <2> QED  BY <1>0, <2>1, TypeParts, TypeNext DEF TypeInv, repository, counters, bounds
  <1>3. CASE CheckNames(i)
    <2>1. PICK r \in OpState :
             Moves(i, r) /\ (r = Idle \/ r = [op[i] EXCEPT !.pc = "choose"])
      BY <1>0, <1>3, ApplyPcs, StepOp DEF CheckNames
    <2>2. Shape(r)'
      BY <1>0, <1>1, <2>1, IdleShape, ShapeMoved, ApplyPcs, RepoKept
    <2> QED  BY <1>1, <1>2, <2>1, <2>2, CommandTyped
  <1>4. CASE Choose(i)
    <2>1. PICK r \in OpState :
             /\ Moves(i, r)
             /\ \/ r = Idle
                \/ \E k \in BackupForTarget(op[i].boot.from, op[i].boot.at) : Chose(i, k, r)
      BY <1>4, ChooseOp
    <2>2. CASE r = Idle
      BY <1>1, <1>2, <2>1, <2>2, IdleShape, CommandTyped
    <2>3. ASSUME NEW k \in BackupForTarget(op[i].boot.from, op[i].boot.at),
                 Chose(i, k, r)
          PROVE  Shape(r)'
      <3>1. /\ r.kind = "restore" /\ r.pc = "put" /\ r.cluster = op[i].cluster
            /\ r.boot = [op[i].boot EXCEPT !.label = k]
        BY <1>0, <2>3 DEF OpState, Chose
      <3>2. /\ r.boot.from = op[i].boot.from /\ r.boot.label = k
            /\ r.boot.at = op[i].boot.at
        BY <1>0, <3>1 DEF OpState, Boots
      <3>3. Backs(r.boot)'
        BY <1>0, <1>1, <3>2 DEF Backs, BackupForTarget
      <3> QED  BY <1>0, <3>1, <3>2, <3>3 DEF Shape, ApplyPc, ChoosePc
    <2> QED  BY <1>1, <1>2, <2>1, <2>2, <2>3, CommandTyped
  <1> QED  BY <1>3, <1>4

\* What an apply and a restore share from put_cluster on.
LEMMA AppliesShape ==
    ASSUME TypeInv, NEW i \in Cli, NEW pc, Applying(i, pc), pc \in ApplyPc
    PROVE  /\ op[i] \in OpState /\ op \in [Cli -> OpState]
           /\ op[i].kind \in {"apply", "restore"} /\ op[i].pc = pc
           /\ op[i].cluster \in Cluster
           /\ op[i].kind = "restore" => /\ op[i].boot.from \in Cluster
                                        /\ op[i].boot.from # op[i].cluster
                                        /\ Backs(op[i].boot)
           /\ op[i].kind = "apply" => /\ op[i].boot = Initdb /\ op[i].wait
                                      /\ op[i].rotate = {}
  BY DEF TypeInv, Shape, Applying

\* record_apply_failure and set_cluster_phase.
LEMMA PhaseTyped ==
    ASSUME TypeOK, NEW c \in Cluster,
           NEW phase \in {"none", "applying", "running", "failed", "stopped"},
           row' = [row EXCEPT ![c].phase = phase]
    PROVE  /\ row' \in [Cluster -> RowState]
           /\ row'[c].phase = phase /\ row'[c].image = row[c].image
           /\ \A d \in Cluster : d # c => row'[d] = row[d]
  <1>1. row \in [Cluster -> RowState]
    BY TypeParts
  <1>2. PICK r : r = [row[c] EXCEPT !.phase = phase]
    OBVIOUS
  <1>3. r \in RowState /\ r.phase = phase /\ r.image = row[c].image
    BY <1>1, <1>2 DEF RowState
  <1>4. row' = [row EXCEPT ![c] = r]
    BY <1>2
  <1> QED  BY <1>1, <1>3, <1>4

\* The steps of an apply that only move it on.
LEMMA ApplyMoves ==
    ASSUME TypeInv, NEW i \in Cli, NEW at \in ApplyPc, NEW pc \in ApplyPc,
           Applying(i, at), Goto(i, pc) \/ End(i), UNCHANGED <<box, repo>>, TypeOK'
    PROVE  TypeInv'
  <1>0. /\ op[i] \in OpState /\ op \in [Cli -> OpState] /\ op[i].pc \in ApplyPc
        /\ op[i].kind \in {"apply", "restore"}
    BY AppliesShape
  <1>1. PICK r \in OpState :
             Moves(i, r) /\ (r = Idle \/ r = [op[i] EXCEPT !.pc = pc])
    BY <1>0, ApplyPcs, StepOp
  <1>2. Shape(r)'
    BY <1>0, <1>1, IdleShape, ShapeMoved, ApplyPcs, RepoKept
  <1> QED  BY <1>1, <1>2, CommandTyped

LEMMA SecretsTyped ==
    ASSUME TypeInv, NEW i \in Cli,
           PutCluster(i) \/ \E r \in Role : EnsureSecret(i, r) \/ RotateRole(i, r)
    PROVE  TypeInv'
  <1> DEFINE c == op[i].cluster
             s == op[i].boot.from
  <1>00. TypeOK /\ op \in [Cli -> OpState]
    BY DEF TypeInv
  <1>1. CASE PutCluster(i)
    <2>0. Applying(i, "put") /\ "put" \in ApplyPc
      BY <1>1 DEF PutCluster, ApplyPc
    <2>1. PICK r \in OpState :
             /\ Moves(i, r)
             /\ \/ r = Idle /\ UNCHANGED row
                \/ PutRow(i, r)
      BY <1>1, PutClusterOp
    <2>2. Shape(r)'
      <3>1. CASE r = Idle
        BY <3>1, IdleShape
      <3>2. CASE PutRow(i, r)
        <4>1. /\ r.kind = op[i].kind /\ r.pc = "secrets" /\ r.cluster = c
              /\ r.boot = op[i].boot /\ r.wait = op[i].wait /\ r.rotate = op[i].rotate
          BY <1>00, <3>2 DEF OpState, PutRow
        <4>2. r.kind = "restore" => Backs(r.boot)'
          BY <1>1, <2>0, <4>1, AppliesShape DEF PutCluster, Backs, repository
        <4> QED  BY <2>0, <4>1, <4>2, AppliesShape DEF Shape, ApplyPc, ChoosePc
      <3> QED  BY <2>1, <3>1, <3>2
    <2>3. row' \in [Cluster -> RowState]
      <3>1. [phase |-> "applying", image |-> op[i].image] \in RowState
        BY <2>0, AppliesShape DEF OpState, RowState
      <3> QED  BY <1>00, <2>1, <3>1, TypeParts DEF PutRow
    <2>4. TypeOK'
      BY <1>00, <1>1, <2>3, TypeParts, TypeNext
         DEF PutCluster, containers, repository, counters, bounds
    <2>5. UNCHANGED <<box, repo>>
      BY <1>1 DEF PutCluster, containers, repository
    <2> QED  BY <2>1, <2>2, <2>4, <2>5, CommandTyped
  <1>2. ASSUME NEW r \in Role, EnsureSecret(i, r) PROVE TypeInv'
    <2>0. Applying(i, "secrets") /\ "secrets" \in ApplyPc /\ c \in Cluster
      BY <1>2, AppliesShape, ApplyPcs DEF EnsureSecret
    <2>1. PICK q \in OpState : Moves(i, q) /\ Ensured(i, r, q)
      BY <1>2, EnsureSecretOp
    <2>2. Shape(q)'
      <3>1. CASE q = Idle
        BY <3>1, IdleShape
      <3>2. CASE q # Idle
        <4>0. s # NoCluster => op[i].kind # "apply"
          BY <2>0, AppliesShape DEF Initdb
        <4>1. /\ q.kind = op[i].kind /\ q.pc = op[i].pc /\ q.cluster = c
              /\ q.boot = op[i].boot /\ q.wait = op[i].wait
              /\ q.kind = "apply" => q.rotate = op[i].rotate
          BY <1>00, <2>1, <3>2, <4>0, ZenonT(60) DEF OpState, Ensured, Failed
        <4>2. q.kind = "restore" => Backs(q.boot)'
          BY <1>2, <2>0, <4>1, AppliesShape DEF EnsureSecret, Backs, repository
        <4> QED  BY <2>0, <4>1, <4>2, AppliesShape DEF Shape, ApplyPc, ChoosePc
      <3> QED  BY <3>1, <3>2
    <2>3. row' \in [Cluster -> RowState]
      BY <1>00, <2>0, <2>1, PhaseTyped, TypeParts DEF Ensured, Failed
    <2>4. secret' \in [Cluster -> Passwords] /\ minted' \in Nat
      <3>1. secret \in [Cluster -> [Role -> Nat]] /\ minted \in Nat
        BY <1>00, TypeParts DEF Passwords
      <3>2. s # NoCluster => s \in Cluster
        BY <2>0, AppliesShape DEF Initdb
      <3> QED  BY <2>0, <2>1, <3>1, <3>2 DEF Passwords, Ensured
    <2>5. TypeOK'
      BY <1>00, <1>2, <2>3, <2>4, TypeParts, TypeNext DEF EnsureSecret, repository, bounds
    <2>6. UNCHANGED <<box, repo>>
      BY <1>2 DEF EnsureSecret, repository
    <2> QED  BY <2>1, <2>2, <2>5, <2>6, CommandTyped
  <1>3. ASSUME NEW r \in Role, RotateRole(i, r) PROVE TypeInv'
    <2>0. Applying(i, "rotate") /\ "rotate" \in ApplyPc /\ c \in Cluster
      BY <1>3, AppliesShape, ApplyPcs DEF RotateRole
    <2>1. PICK q \in OpState : Moves(i, q) /\ Rotated(i, r, q)
      BY <1>3, RotateRoleOp
    <2>2. Shape(q)'
      <3>1. CASE q = Idle
        BY <3>1, IdleShape
      <3>2. CASE q = [op[i] EXCEPT !.rotate = op[i].rotate \ {r}]
        <4>1. /\ q.kind = op[i].kind /\ q.pc = op[i].pc /\ q.cluster = c
              /\ q.boot = op[i].boot /\ q.wait = op[i].wait
              /\ q.rotate = op[i].rotate \ {r}
          BY <1>00, <3>2 DEF OpState
        <4>2. q.kind = "restore" => Backs(q.boot)'
          BY <1>3, <2>0, <4>1, AppliesShape DEF RotateRole, Backs, repository
        <4> QED  BY <2>0, <4>1, <4>2, AppliesShape DEF Shape, ApplyPc, ChoosePc
      <3> QED  BY <2>1, <3>1, <3>2 DEF Rotated, Failed
    <2>3. row' \in [Cluster -> RowState]
      BY <1>00, <2>0, <2>1, PhaseTyped, TypeParts DEF Rotated, Failed
    <2>4. volume' \in [Cluster -> VolState]
      <3>0. volume \in [Cluster -> VolState] /\ secret \in [Cluster -> [Role -> Nat]]
        BY <1>00, TypeParts DEF Passwords
      <3>1. volume[c] \in VolState /\ secret[c][r] \in Nat
        BY <2>0, <3>0
      <3>2. volume[c].pw \in [Role -> Nat]
        BY <3>1 DEF VolState, Passwords
      <3>3. PICK p \in Passwords : p = [volume[c].pw EXCEPT ![r] = secret[c][r]]
        BY <3>1, <3>2 DEF Passwords
      <3>4. PICK v : v = [volume[c] EXCEPT !.pw = p]
        OBVIOUS
      <3>5. v \in VolState
        BY <3>1, <3>4 DEF VolState
      <3>6. volume' = [volume EXCEPT ![c].pw[r] = secret[c][r]]
              => volume' = [volume EXCEPT ![c] = v]
        BY <3>3, <3>4
      <3> QED  BY <2>0, <2>1, <3>0, <3>5, <3>6 DEF Rotated
    <2>5. TypeOK'
      BY <1>00, <1>3, <2>3, <2>4, TypeParts, TypeNext DEF RotateRole, repository, counters, bounds
    <2>6. UNCHANGED <<box, repo>>
      BY <1>3 DEF RotateRole, repository
    <2> QED  BY <2>1, <2>2, <2>5, <2>6, CommandTyped
  <1> QED  BY <1>1, <1>2, <1>3


\* One cluster's volume or container changes.
LEMMA VolSet ==
    ASSUME TypeOK, NEW c \in Cluster, NEW v \in VolState,
           volume' = [volume EXCEPT ![c] = v]
    PROVE  /\ volume' \in [Cluster -> VolState] /\ volume'[c] = v
           /\ \A d \in Cluster : d # c => volume'[d] = volume[d]
  BY TypeParts

LEMMA BoxSet ==
    ASSUME TypeOK, NEW c \in Cluster, NEW b \in BoxState, box' = [box EXCEPT ![c] = b]
    PROVE  /\ box' \in [Cluster -> BoxState] /\ box'[c] = b
           /\ \A d \in Cluster : d # c => box'[d] = box[d]
  BY TypeParts

VolStates == {"none", "empty", "restoring", "partial", "whole"}
BoxStates == {"none", "booting", "restoring", "recovering", "up", "down"}

\* All that is in volume c but its state.
SameData(c) == /\ volume'[c].origin = volume[c].origin
               /\ volume'[c].version = volume[c].version
               /\ volume'[c].pw = volume[c].pw /\ volume'[c].boot = volume[c].boot
               /\ volume'[c].replays = volume[c].replays
               /\ \A d \in Cluster : d # c => volume'[d] = volume[d]

LEMMA VolStateSet ==
    ASSUME TypeOK, NEW c \in Cluster, NEW x \in VolStates,
           volume' = [volume EXCEPT ![c].state = x]
    PROVE  /\ volume' \in [Cluster -> VolState]
           /\ volume'[c].state = x /\ SameData(c)
  <1>1. volume[c] \in VolState
    BY TypeParts
  <1>2. PICK v : v = [volume[c] EXCEPT !.state = x]
    OBVIOUS
  <1>3. /\ v \in VolState /\ v.state = x
        /\ v.origin = volume[c].origin /\ v.version = volume[c].version
        /\ v.pw = volume[c].pw /\ v.boot = volume[c].boot
        /\ v.replays = volume[c].replays
    BY <1>1, <1>2 DEF VolState, VolStates
  <1>4. volume' = [volume EXCEPT ![c] = v]
    BY <1>2
  <1> QED  BY <1>3, <1>4, VolSet DEF SameData

LEMMA CutShortVol ==
    ASSUME TypeOK, NEW c \in Cluster, volume' = CutShort(c)
    PROVE  /\ volume' \in [Cluster -> VolState]
           /\ volume'[c].state = IF volume[c].state = "restoring" THEN "partial"
                                 ELSE volume[c].state
           /\ SameData(c)
  <1>1. volume[c] \in VolState
    BY TypeParts
  <1>2. PICK x \in VolStates :
          x = IF volume[c].state = "restoring" THEN "partial" ELSE volume[c].state
    BY <1>1 DEF VolState, VolStates
  <1>3. volume' = [volume EXCEPT ![c].state = x]
    BY <1>2 DEF CutShort
  <1> QED  BY <1>2, <1>3, VolStateSet

\* All that is in container c but its state and whether the stanza was tried.
SameSpec(c) == /\ box'[c].boot = box[c].boot /\ box'[c].image = box[c].image
               /\ box'[c].creds = box[c].creds
               /\ \A d \in Cluster : d # c => box'[d] = box[d]

LEMMA BoxStateSet ==
    ASSUME TypeOK, NEW c \in Cluster, NEW x \in BoxStates, NEW y \in BOOLEAN,
           \/ box' = [box EXCEPT ![c].state = x]
           \/ box' = [box EXCEPT ![c].state = x, ![c].tried = y]
           \/ box' = [box EXCEPT ![c].tried = y] /\ box[c].state = x
    PROVE  /\ box' \in [Cluster -> BoxState]
           /\ box'[c].state = x /\ SameSpec(c)
  <1>1. box[c] \in BoxState
    BY TypeParts
  <1>2. PICK b1 : b1 = [box[c] EXCEPT !.state = x]
    OBVIOUS
  <1>3. PICK b2 : b2 = [box[c] EXCEPT !.state = x, !.tried = y]
    OBVIOUS
  <1>4. PICK b3 : b3 = [box[c] EXCEPT !.tried = y]
    OBVIOUS
  <1>5. /\ b1 \in BoxState /\ b1.state = x
        /\ b1.boot = box[c].boot /\ b1.image = box[c].image /\ b1.creds = box[c].creds
    BY <1>1, <1>2 DEF BoxState, BoxStates
  <1>6. /\ b2 \in BoxState /\ b2.state = x
        /\ b2.boot = box[c].boot /\ b2.image = box[c].image /\ b2.creds = box[c].creds
    BY <1>1, <1>3 DEF BoxState, BoxStates
  <1>7. /\ b3 \in BoxState /\ b3.state = box[c].state
        /\ b3.boot = box[c].boot /\ b3.image = box[c].image /\ b3.creds = box[c].creds
    BY <1>1, <1>4 DEF BoxState
  <1>8. \/ box' = [box EXCEPT ![c] = b1]
        \/ box' = [box EXCEPT ![c] = b2]
        \/ box' = [box EXCEPT ![c] = b3] /\ box[c].state = x
    BY <1>2, <1>3, <1>4
  <1> QED  BY <1>5, <1>6, <1>7, <1>8, BoxSet DEF SameSpec

LEMMA InstanceTyped ==
    ASSUME TypeInv, NEW i \in Cli,
           CreateVolume(i) \/ RefuseInstance(i) \/ WaitReady(i) \/ Conclude(i)
    PROVE  TypeInv'
  <1> DEFINE c == op[i].cluster
  <1>00. TypeOK
    BY DEF TypeInv
  <1>0. PICK at \in ApplyPc : Applying(i, at)
    BY ApplyPcs DEF CreateVolume, RefuseInstance, WaitReady, Conclude
  <1>1. c \in Cluster
    BY <1>0, AppliesShape
  <1>2. \E pc \in ApplyPc : Goto(i, pc) \/ End(i)
    BY ApplyPcs DEF CreateVolume, RefuseInstance, WaitReady, Conclude, FailApply
  <1>3. UNCHANGED <<secret, box, jobs, repository, minted, bounds>>
    BY DEF CreateVolume, RefuseInstance, WaitReady, Conclude, containers, counters
  <1>4. row' \in [Cluster -> RowState]
    <2>1. \/ UNCHANGED row
          \/ row' = [row EXCEPT ![c].phase = "failed"]
          \/ row' = [row EXCEPT ![c].phase = "running"]
      BY DEF CreateVolume, RefuseInstance, WaitReady, Conclude, FailApply
    <2> QED  BY <1>00, <1>1, <2>1, PhaseTyped, TypeParts
  <1>5. volume' \in [Cluster -> VolState]
    <2>1. CASE UNCHANGED volume
      BY <1>00, <2>1, TypeParts
    <2>2. CASE volume' = [volume EXCEPT ![c].state = IF @ = "none" THEN "empty" ELSE @]
      <3>1. PICK x \in VolStates :
              x = IF volume[c].state = "none" THEN "empty" ELSE volume[c].state
        BY <1>00, <1>1, TypeParts DEF VolState, VolStates
      <3>2. volume' = [volume EXCEPT ![c].state = x]
        BY <2>2, <3>1
      <3> QED  BY <1>00, <1>1, <3>2, VolStateSet
    <2> QED  BY <2>1, <2>2 DEF CreateVolume, RefuseInstance, WaitReady, Conclude, containers
  <1>6. sound' \subseteq Cluster
    BY <1>00, <1>1, TypeParts
       DEF CreateVolume, RefuseInstance, WaitReady, Conclude, counters
  <1>7. TypeOK'
    BY <1>00, <1>3, <1>4, <1>5, <1>6, TypeParts, TypeNext DEF repository, bounds
  <1> QED  BY <1>0, <1>2, <1>3, <1>7, ApplyMoves DEF repository

\* The container of an apply: taken over, or made anew with its bootstrap.
LEMMA BoxOfApply ==
    ASSUME TypeInv, NEW i \in Cli, AdoptInstance(i) \/ CreateInstance(i)
    PROVE  LET c == op[i].cluster IN
           /\ box' \in [Cluster -> BoxState] /\ volume' \in [Cluster -> VolState]
           /\ \A d \in Cluster : d # c => box'[d] = box[d] /\ volume'[d] = volume[d]
           /\ box'[c].boot = op[i].boot /\ box'[c].image = op[i].image
           /\ \/ /\ box[c].state # "none" /\ UNCHANGED volume
                 /\ box[c].boot = op[i].boot /\ box[c].image = op[i].image
                 /\ box'[c].creds = box[c].creds
                 /\ \/ box'[c] = box[c]
                    \/ box'[c].state = "booting"
              \/ /\ box'[c].state = "booting" /\ box'[c].creds = secret[c]
                 /\ volume'[c].state = IF volume[c].state = "restoring" THEN "partial"
                                       ELSE volume[c].state
                 /\ SameData(c)
  <1> DEFINE c == op[i].cluster
  <1>00. TypeOK
    BY DEF TypeInv
  <1>0. Applying(i, "box") /\ c \in Cluster /\ op[i] \in OpState
    BY AppliesShape, ApplyPcs DEF AdoptInstance, CreateInstance
  <1>1. CASE AdoptInstance(i)
    <2>1. box[c].boot = op[i].boot /\ box[c].image = op[i].image /\ box[c].state # "none"
      BY <1>1 DEF AdoptInstance, Same
    <2>2. UNCHANGED volume
      BY <1>1 DEF AdoptInstance
    <2>3. CASE box' = box
      BY <1>00, <2>1, <2>2, <2>3, TypeParts
    <2>4. CASE box' = [box EXCEPT ![c].state = "booting", ![c].tried = FALSE]
      <3>1. /\ box' \in [Cluster -> BoxState]
            /\ box'[c].state = "booting" /\ SameSpec(c)
        BY <1>00, <1>0, <2>4, BoxStateSet DEF BoxStates
      <3> QED  BY <1>00, <2>1, <2>2, <3>1, TypeParts DEF SameSpec
    <2> QED  BY <1>1, <2>3, <2>4 DEF AdoptInstance
  <1>2. CASE CreateInstance(i)
    <2>1. PICK b : b = [state |-> "booting", boot |-> op[i].boot, image |-> op[i].image,
                        creds |-> secret[c], tried |-> FALSE]
      OBVIOUS
    <2>2. b \in BoxState
      BY <1>00, <1>0, <2>1, TypeParts DEF BoxState, OpState
    <2>3. box' = [box EXCEPT ![c] = b] /\ volume' = CutShort(c)
      BY <1>2, <2>1 DEF CreateInstance
    <2>4. /\ box' \in [Cluster -> BoxState] /\ box'[c] = b
          /\ \A d \in Cluster : d # c => box'[d] = box[d]
      BY <1>00, <1>0, <2>2, <2>3, BoxSet
    <2>5. /\ volume' \in [Cluster -> VolState]
          /\ volume'[c].state = IF volume[c].state = "restoring" THEN "partial"
                                ELSE volume[c].state
          /\ SameData(c)
      BY <1>00, <1>0, <2>3, CutShortVol
    <2> QED  BY <2>1, <2>4, <2>5 DEF SameData
  <1> QED  BY <1>1, <1>2

LEMMA BoxOfApplyTyped ==
    ASSUME TypeInv, NEW i \in Cli, AdoptInstance(i) \/ CreateInstance(i)
    PROVE  TypeInv'
  <1> DEFINE c == op[i].cluster
  <1>00. TypeOK /\ Grown
    BY RepoKept DEF TypeInv, AdoptInstance, CreateInstance, repository
  <1>0. Applying(i, "box") /\ c \in Cluster /\ op \in [Cli -> OpState]
    BY AppliesShape, ApplyPcs DEF AdoptInstance, CreateInstance
  <1>1. PICK r \in OpState :
             Moves(i, r) /\ (r = Idle \/ r = [op[i] EXCEPT !.pc = "wait"])
    BY <1>0, StepOp, ApplyPcs DEF AdoptInstance, CreateInstance
  <1>2. Shape(r)'
    BY <1>00, <1>0, <1>1, IdleShape, ShapeMoved, ApplyPcs, AppliesShape
  <1>3. op' \in [Cli -> OpState] /\ \A j \in Cli : Shape(op[j])'
    BY <1>00, <1>1, <1>2, ShapesKept
  <1>4. ASSUME NEW d \in Cluster PROVE BootOf(d)'
    <2>1. CASE d # c
      <3>1. box'[d] = box[d]
        BY <1>0, <2>1, BoxOfApply
      <3> QED  BY <1>00, <3>1, BootKept DEF TypeInv, BootOf
    <2>2. CASE d = c
      <3>1. /\ box'[c].boot = op[i].boot
            /\ box'[c].state = "restoring" => box'[c].boot # Initdb
        BY <1>0, BoxOfApply DEF TypeInv, BootOf
      <3>2. PICK b : b = op[i].boot
        OBVIOUS
      <3>3. b = Initdb \/ Backs(b)'
        BY <1>00, <1>0, <3>2, AppliesShape, ApplyPcs, BacksKept
      <3> QED  BY <2>2, <3>1, <3>2, <3>3 DEF BootOf, Backs
    <2> QED  BY <2>1, <2>2
  <1>5. TypeOK'
    BY <1>00, BoxOfApply, TypeParts, TypeNext
       DEF AdoptInstance, CreateInstance, repository, counters, bounds
  <1> QED  BY <1>3, <1>4, <1>5 DEF TypeInv

LEMMA ReportTyped ==
    ASSUME TypeInv, NEW i \in Cli, Report(i)
    PROVE  TypeInv'
  <1>1. Moves(i, Idle) /\ Idle \in OpState
    BY EndOp DEF Report, TypeInv
  <1>2. TypeOK' /\ UNCHANGED <<box, repo>>
    BY DEF Report, TypeInv, TypeOK, containers, repository, counters, bounds
  <1> QED  BY <1>1, <1>2, IdleShape, CommandTyped


\* The steps of a delete, but for its container.
LEMMA DeleteTyped ==
    ASSUME TypeInv, NEW i \in Cli,
           MarkStopped(i) \/ DeleteVolume(i) \/ ForgetCluster(i)
    PROVE  TypeInv'
  <1> DEFINE c == op[i].cluster
  <1>0. /\ TypeOK /\ op \in [Cli -> OpState] /\ c \in Cluster
        /\ op[i].kind = "delete"
    BY DEF MarkStopped, DeleteVolume, ForgetCluster, At, TypeInv, Shape
  <1>1. Goto(i, "forget") \/ End(i)
    BY DEF MarkStopped, DeleteVolume, ForgetCluster
  <1>2. UNCHANGED <<box, jobs, repository, minted, bounds>>
    BY DEF MarkStopped, DeleteVolume, ForgetCluster, containers, counters
  <1>3. row' \in [Cluster -> RowState]
    <2>1. CASE MarkStopped(i)
      BY <1>0, <2>1, PhaseTyped DEF MarkStopped
    <2>2. CASE ~MarkStopped(i)
      BY <1>0, <2>2, Values, TypeParts DEF DeleteVolume, ForgetCluster
    <2> QED  BY <2>1, <2>2
  <1>4. volume' \in [Cluster -> VolState]
    BY <1>0, Values, TypeParts DEF MarkStopped, DeleteVolume, ForgetCluster, containers
  <1>5. secret' \in [Cluster -> Passwords]
    BY <1>0, Values, TypeParts DEF MarkStopped, DeleteVolume, ForgetCluster, containers
  <1>6. sound' \subseteq Cluster
    BY <1>0, TypeParts DEF MarkStopped, DeleteVolume, ForgetCluster, counters
  <1>7. TypeOK'
    BY <1>0, <1>2, <1>3, <1>4, <1>5, <1>6, TypeParts, TypeNext DEF repository, bounds
  <1>8. PICK r \in OpState :
             Moves(i, r) /\ (r = Idle \/ r = [op[i] EXCEPT !.pc = "forget"])
    BY <1>0, <1>1, StepOp, ApplyPcs
  <1>9. Shape(r)' /\ UNCHANGED <<box, repo>>
    BY <1>0, <1>2, <1>8, IdleShape, ShapeMoved, ApplyPcs, RepoKept DEF repository
  <1> QED  BY <1>7, <1>8, <1>9, CommandTyped

LEMMA DeleteContainerTyped ==
    ASSUME TypeInv, NEW i \in Cli, DeleteContainer(i)
    PROVE  TypeInv'
  <1> DEFINE c == op[i].cluster
  <1>0. /\ TypeOK /\ op \in [Cli -> OpState] /\ c \in Cluster
        /\ op[i].kind = "delete" /\ Grown
    BY RepoKept DEF DeleteContainer, At, TypeInv, Shape, repository
  <1>1. \/ End(i) /\ UNCHANGED <<box, volume>>
        \/ /\ box' = [box EXCEPT ![c] = NoBox] /\ volume' = CutShort(c)
           /\ Goto(i, "volume") \/ Goto(i, "stopped")
    BY DEF DeleteContainer, Fails
  <1>2. PICK r \in OpState :
             /\ Moves(i, r)
             /\ \/ r = Idle \/ r = [op[i] EXCEPT !.pc = "volume"]
                \/ r = [op[i] EXCEPT !.pc = "stopped"]
    BY <1>0, <1>1, StepOp, ApplyPcs
  <1>3. Shape(r)'
    BY <1>0, <1>2, IdleShape, ShapeMoved, ApplyPcs
  <1>4. op' \in [Cli -> OpState] /\ \A j \in Cli : Shape(op[j])'
    BY <1>0, <1>2, <1>3, ShapesKept
  <1>5. /\ box' \in [Cluster -> BoxState] /\ volume' \in [Cluster -> VolState]
        /\ \A d \in Cluster : box'[d] = box[d] \/ box'[d] = NoBox
    BY <1>0, <1>1, Values, BoxSet, CutShortVol, TypeParts
  <1>6. ASSUME NEW d \in Cluster PROVE BootOf(d)'
    <2>1. CASE box'[d] = box[d]
      BY <1>0, <2>1, BootKept DEF TypeInv, BootOf
    <2>2. CASE box'[d] = NoBox
      BY <2>2 DEF BootOf, NoBox
    <2> QED  BY <1>5, <2>1, <2>2
  <1>7. TypeOK'
    BY <1>0, <1>5, TypeParts, TypeNext
       DEF DeleteContainer, repository, counters, bounds
  <1> QED  BY <1>4, <1>6, <1>7 DEF TypeInv

LEMMA DiesTyped ==
    ASSUME TypeInv, NEW i \in Cli, Dies(i)
    PROVE  TypeInv'
  <1>1. Moves(i, Idle) /\ Idle \in OpState
    BY EndOp DEF Dies, TypeInv
  <1>2. jobs' \subseteq JobState
    <2>1. ASSUME NEW j \in jobs PROVE j \in JobState /\ [j EXCEPT !.owner = 0] \in JobState
      <3>1. j \in JobState
        BY TypeParts DEF TypeInv
      <3> QED  BY <3>1 DEF JobState
    <2>2. jobs' = {IF j.owner = i THEN [j EXCEPT !.owner = 0] ELSE j : j \in jobs}
      BY DEF Dies
    <2> QED  BY <2>1, <2>2
  <1>3. TypeOK' /\ UNCHANGED <<box, repo>>
    BY <1>2, TypeParts, TypeNext DEF Dies, TypeInv, repository, counters
  <1> QED  BY <1>1, <1>3, IdleShape, CommandTyped

\* A step in which no command moves.
LEMMA QuietTyped ==
    ASSUME TypeInv, Grown, UNCHANGED op, TypeOK', NEW c \in Cluster, BootOf(c)',
           \A d \in Cluster : d # c => box'[d] = box[d]
    PROVE  TypeInv'
  <1>1. ASSUME NEW j \in Cli PROVE Shape(op[j])'
    <2>1. PICK o : o = op[j]
      OBVIOUS
    <2>2. Shape(o)'
      BY <2>1, ShapeKept DEF TypeInv
    <2> QED  BY <2>1, <2>2 DEF Shape, Backs
  <1>2. ASSUME NEW d \in Cluster, d # c PROVE BootOf(d)'
    BY <1>2, BootKept DEF TypeInv, BootOf
  <1> QED  BY <1>1, <1>2 DEF TypeInv

\* The steps of an agent that only change the state of its container.
LEMMA BootTyped ==
    ASSUME TypeInv, NEW c \in Cluster,
           BootExisting(c) \/ Promote(c) \/ BoxExits(c) \/ ResumeBox(c) \/ BootRestore(c)
    PROVE  /\ TypeInv' /\ SameSpec(c)
           /\ volume' \in [Cluster -> VolState]
           /\ SameData(c) \/ Promote(c)
  <1>0. TypeOK /\ Grown /\ UNCHANGED <<op, row, secret, jobs, repository, counters, ops>>
    BY RepoKept DEF TypeInv, BootExisting, Promote, BoxExits, ResumeBox, BootRestore,
                    repository, bounds
  <1>1. /\ box' \in [Cluster -> BoxState] /\ SameSpec(c)
        /\ box'[c].state = "restoring" => box[c].boot # Initdb
    <2>1. CASE BootExisting(c)
      <3>1. PICK x \in BoxStates \ {"restoring"} :
              x = IF ~Whole(c) \/ volume[c].version # box[c].image THEN "down"
                  ELSE IF volume[c].replays THEN "recovering" ELSE "up"
        BY DEF BoxStates
      <3>2. box' = [box EXCEPT ![c].state = x]
        BY <2>1, <3>1 DEF BootExisting
      <3> QED  BY <1>0, <3>1, <3>2, BoxStateSet
    <2>2. CASE Promote(c)
      BY <1>0, <2>2, BoxStateSet DEF Promote, BoxStates
    <2>3. CASE BoxExits(c)
      BY <1>0, <2>3, BoxStateSet DEF BoxExits, BoxStates
    <2>4. CASE ResumeBox(c)
      BY <1>0, <2>4, BoxStateSet DEF ResumeBox, BoxStates
    <2>5. CASE BootRestore(c)
      BY <1>0, <2>5, BoxStateSet DEF BootRestore, BoxStates
    <2> QED  BY <2>1, <2>2, <2>3, <2>4, <2>5
  <1>2. /\ volume' \in [Cluster -> VolState]
        /\ SameData(c) \/ Promote(c)
    <2>1. CASE UNCHANGED volume
      BY <1>0, <2>1, TypeParts DEF SameData
    <2>2. CASE Promote(c)
      <3>1. volume[c] \in VolState
        BY <1>0, TypeParts
      <3>2. PICK v : v = [volume[c] EXCEPT !.replays = FALSE]
        OBVIOUS
      <3>3. v \in VolState /\ volume' = [volume EXCEPT ![c] = v]
        BY <2>2, <3>1, <3>2 DEF Promote, VolState
      <3> QED  BY <1>0, <2>2, <3>3, VolSet
    <2>3. CASE BoxExits(c)
      BY <1>0, <2>3, CutShortVol DEF BoxExits
    <2>4. CASE BootRestore(c)
      BY <1>0, <2>4, VolStateSet DEF BootRestore, VolStates
    <2> QED  BY <2>1, <2>2, <2>3, <2>4 DEF BootExisting, ResumeBox
  <1>3. BootOf(c)'
    BY <1>0, <1>1, BootKept DEF SameSpec
  <1>4. kills' \in Nat
    BY <1>0, TypeParts DEF BootExisting, Promote, BoxExits, ResumeBox, BootRestore, bounds
  <1>5. TypeOK'
    BY <1>0, <1>1, <1>2, <1>4, TypeParts, TypeNext DEF repository, counters
  <1> QED  BY <1>0, <1>1, <1>2, <1>3, <1>5, QuietTyped DEF SameSpec


LEMMA BootInitdbTyped ==
    ASSUME TypeInv, NEW c \in Cluster, BootInitdb(c)
    PROVE  /\ TypeInv' /\ SameSpec(c) /\ box'[c].state = "up"
           /\ volume'[c] = [state |-> "whole", origin |-> minted + 1,
                            version |-> box[c].image, pw |-> box[c].creds,
                            boot |-> Initdb, replays |-> FALSE]
           /\ \A d \in Cluster : d # c => volume'[d] = volume[d] /\ stanza'[d] = stanza[d]
           /\ minted' = minted + 1
           /\ stanza'[c] = IF stanza[c] = NoStanza
                           THEN [origin |-> minted + 1, version |-> box[c].image]
                           ELSE stanza[c]
  <1>0. /\ TypeOK /\ Grown /\ minted \in Nat /\ box[c] \in BoxState
        /\ UNCHANGED <<row, secret, jobs, repo, now, op, sound, bounds>>
    BY RepoKept, TypeParts DEF TypeInv, BootInitdb
  <1>1. /\ box' \in [Cluster -> BoxState]
        /\ box'[c].state = "up" /\ SameSpec(c)
    BY <1>0, BoxStateSet DEF BootInitdb, BoxStates
  <1>2. PICK v : v = [state |-> "whole", origin |-> minted + 1, version |-> box[c].image,
                      pw |-> box[c].creds, boot |-> Initdb, replays |-> FALSE]
    OBVIOUS
  <1>3. v \in VolState
    BY <1>0, <1>2, Values DEF BoxState, VolState
  <1>4. /\ volume' \in [Cluster -> VolState] /\ volume'[c] = v
        /\ \A d \in Cluster : d # c => volume'[d] = volume[d]
    <2>1. volume' = [volume EXCEPT ![c] = v]
      BY <1>2 DEF BootInitdb
    <2> QED  BY <1>0, <1>3, <2>1, VolSet
  <1>5. /\ stanza' \in [Cluster -> [origin : Nat, version : Nat]]
        /\ \A d \in Cluster : d # c => stanza'[d] = stanza[d]
        /\ stanza'[c] = IF stanza[c] = NoStanza
                        THEN [origin |-> minted + 1, version |-> box[c].image]
                        ELSE stanza[c]
    <2>1. PICK t : t = [origin |-> minted + 1, version |-> box[c].image]
      OBVIOUS
    <2>2. t \in [origin : Nat, version : Nat]
      BY <1>0, <2>1 DEF BoxState
    <2>3. stanza' = IF stanza[c] = NoStanza THEN [stanza EXCEPT ![c] = t] ELSE stanza
      BY <2>1 DEF BootInitdb
    <2> QED  BY <1>0, <2>1, <2>2, <2>3, TypeParts
  <1>6. BootOf(c)'
    BY <1>0, <1>1, BootKept DEF SameSpec
  <1>7. minted' = minted + 1
    BY DEF BootInitdb
  <1>8. TypeOK'
    BY <1>0, <1>1, <1>4, <1>5, <1>7, TypeParts, TypeNext DEF bounds
  <1> QED  BY <1>0, <1>1, <1>2, <1>4, <1>5, <1>6, <1>7, <1>8, QuietTyped DEF SameSpec

LEMMA RestoreEndsTyped ==
    ASSUME TypeInv, NEW c \in Cluster, RestoreEnds(c)
    PROVE  LET b == box[c].boot IN
           /\ TypeInv' /\ SameSpec(c)
           /\ Backs(b) /\ repo[b.from][b.label] \in BackupOf
           /\ volume'[c] = [state |-> "whole", origin |-> repo[b.from][b.label].origin,
                            version |-> repo[b.from][b.label].version,
                            pw |-> repo[b.from][b.label].pw, boot |-> b,
                            replays |-> TRUE]
           /\ box'[c].state = IF volume'[c].version = box[c].image THEN "recovering"
                              ELSE "down"
           /\ \A d \in Cluster : d # c => volume'[d] = volume[d]
  <1> DEFINE b == box[c].boot
  <1>0. /\ TypeOK /\ Grown /\ box[c] \in BoxState
        /\ UNCHANGED <<row, secret, jobs, repository, op, counters, bounds>>
    BY RepoKept, TypeParts DEF TypeInv, RestoreEnds, repository
  <1>1. Backs(b)
    BY DEF RestoreEnds, TypeInv, BootOf
  <1>2. PICK k \in BackupOf : k = repo[b.from][b.label]
    <2>1. repo[b.from] \in Seq(BackupOf) /\ b.label \in DOMAIN repo[b.from]
      BY <1>0, <1>1, TypeParts DEF Backs
    <2> QED  BY <2>1
  <1>3. PICK v : v = [state |-> "whole", origin |-> k.origin, version |-> k.version,
                      pw |-> k.pw, boot |-> b, replays |-> TRUE]
    OBVIOUS
  <1>4. v \in VolState
    BY <1>0, <1>2, <1>3 DEF BackupOf, BoxState, VolState
  <1>5. /\ volume' \in [Cluster -> VolState] /\ volume'[c] = v
        /\ \A d \in Cluster : d # c => volume'[d] = volume[d]
    <2>1. volume' = [volume EXCEPT ![c] = v]
      BY <1>2, <1>3 DEF RestoreEnds
    <2> QED  BY <1>0, <1>4, <2>1, VolSet
  <1>6. /\ box' \in [Cluster -> BoxState] /\ SameSpec(c)
        /\ box'[c].state = IF volume'[c].version = box[c].image THEN "recovering" ELSE "down"
    <2>1. PICK x \in BoxStates \ {"restoring"} :
            x = IF volume'[c].version = box[c].image THEN "recovering" ELSE "down"
      BY DEF BoxStates
    <2>2. box' = [box EXCEPT ![c].state = x]
      BY <2>1 DEF RestoreEnds
    <2> QED  BY <1>0, <2>1, <2>2, BoxStateSet
  <1>7. BootOf(c)'
    BY <1>0, <1>6, BootKept DEF SameSpec
  <1>8. TypeOK'
    BY <1>0, <1>5, <1>6, TypeParts, TypeNext DEF repository, counters, bounds
  <1> QED  BY <1>0, <1>1, <1>2, <1>3, <1>5, <1>6, <1>7, <1>8, QuietTyped DEF SameSpec

LEMMA EnsureStanzaTyped ==
    ASSUME TypeInv, NEW c \in Cluster, EnsureStanza(c)
    PROVE  /\ TypeInv' /\ SameSpec(c) /\ box'[c].state = box[c].state
           /\ \A d \in Cluster : d # c => stanza'[d] = stanza[d]
           /\ stanza'[c] = IF box[c].state = "up" /\ stanza[c] = NoStanza
                           THEN [origin |-> volume[c].origin, version |-> volume[c].version]
                           ELSE stanza[c]
  <1>0. /\ TypeOK /\ Grown /\ box[c] \in BoxState /\ volume[c] \in VolState
        /\ UNCHANGED <<row, secret, volume, jobs, repo, now, op, counters, bounds>>
    BY RepoKept, TypeParts DEF TypeInv, EnsureStanza
  <1>1. /\ box' \in [Cluster -> BoxState]
        /\ box'[c].state = box[c].state /\ SameSpec(c)
    <2>1. PICK x \in BoxStates : x = box[c].state
      BY <1>0 DEF BoxState, BoxStates
    <2>2. box' = [box EXCEPT ![c].tried = TRUE]
      BY DEF EnsureStanza
    <2> QED  BY <1>0, <2>1, <2>2, BoxStateSet
  <1>2. /\ stanza' \in [Cluster -> [origin : Nat, version : Nat]]
        /\ \A d \in Cluster : d # c => stanza'[d] = stanza[d]
        /\ stanza'[c] = IF box[c].state = "up" /\ stanza[c] = NoStanza
                        THEN [origin |-> volume[c].origin, version |-> volume[c].version]
                        ELSE stanza[c]
    <2>1. PICK t : t = [origin |-> volume[c].origin, version |-> volume[c].version]
      OBVIOUS
    <2>2. t \in [origin : Nat, version : Nat]
      BY <1>0, <2>1 DEF VolState
    <2>3. stanza' = IF box[c].state = "up" /\ stanza[c] = NoStanza
                    THEN [stanza EXCEPT ![c] = t] ELSE stanza
      BY <2>1 DEF EnsureStanza
    <2> QED  BY <1>0, <2>1, <2>2, <2>3, TypeParts
  <1>3. BootOf(c)'
    BY <1>0, <1>1, BootKept DEF TypeInv, BootOf, SameSpec
  <1>4. TypeOK'
    BY <1>0, <1>1, <1>2, TypeParts, TypeNext DEF counters, bounds
  <1> QED  BY <1>0, <1>1, <1>2, <1>3, <1>4, QuietTyped DEF SameSpec

\* One version up, in the volume, the image, the row and the stanza.
LEMMA UpgradedTyped ==
    ASSUME TypeInv, NEW c \in Cluster, Upgraded(c)
    PROVE  /\ TypeInv'
           /\ volume'[c].version = volume[c].version + 1
           /\ volume'[c].state = volume[c].state /\ volume'[c].origin = volume[c].origin
           /\ volume'[c].boot = volume[c].boot /\ volume'[c].pw = volume[c].pw
           /\ box'[c].image = box[c].image + 1 /\ box'[c].state = box[c].state
           /\ row'[c].image = row[c].image + 1 /\ row'[c].phase = row[c].phase
           /\ stanza'[c].origin = stanza[c].origin
           /\ stanza[c].origin = volume[c].origin =>
                 stanza'[c].version = volume[c].version + 1
           /\ \A d \in Cluster : d # c =>
                 /\ volume'[d] = volume[d] /\ box'[d] = box[d]
                 /\ row'[d] = row[d] /\ stanza'[d] = stanza[d]
  <1>0. /\ TypeOK /\ Grown /\ box[c] \in BoxState /\ volume[c] \in VolState
        /\ row[c] \in RowState /\ stanza[c] \in [origin : Nat, version : Nat]
        /\ box[c].state = "up" /\ ops \in Nat
        /\ UNCHANGED <<secret, jobs, repo, now, op, counters, kills>> /\ ops' = ops + 1
    BY RepoKept, TypeParts DEF TypeInv, Upgraded
  <1>1. PICK v : v = [volume[c] EXCEPT !.version = volume[c].version + 1]
    OBVIOUS
  <1>2. /\ v \in VolState /\ v.version = volume[c].version + 1
        /\ v.state = volume[c].state /\ v.origin = volume[c].origin
        /\ v.boot = volume[c].boot /\ v.pw = volume[c].pw
    BY <1>0, <1>1 DEF VolState
  <1>3. volume' = [volume EXCEPT ![c] = v]
    BY <1>1 DEF Upgraded
  <1>4. PICK b : b = [box[c] EXCEPT !.image = box[c].image + 1, !.boot = Initdb]
    OBVIOUS
  <1>5. /\ b \in BoxState /\ b.image = box[c].image + 1 /\ b.boot = Initdb
        /\ b.state = box[c].state
    <2>1. Initdb \in Boots /\ box[c].image + 1 \in Nat
      BY <1>0, Values DEF BoxState
    <2> QED  BY <1>0, <1>4, <2>1 DEF BoxState
  <1>6. box' = [box EXCEPT ![c] = b]
    BY <1>4 DEF Upgraded
  <1>7. PICK r : r = [row[c] EXCEPT !.image = row[c].image + 1]
    OBVIOUS
  <1>8. r \in RowState /\ r.image = row[c].image + 1 /\ r.phase = row[c].phase
    BY <1>0, <1>7 DEF RowState
  <1>9. row' = [row EXCEPT ![c] = r]
    BY <1>7 DEF Upgraded
  <1>10. PICK t : t = [stanza[c] EXCEPT !.version = volume[c].version + 1]
    OBVIOUS
  <1>11. /\ t \in [origin : Nat, version : Nat] /\ t.version = volume[c].version + 1
         /\ t.origin = stanza[c].origin
    BY <1>0, <1>10 DEF VolState
  <1>12. stanza' = IF stanza[c].origin = volume[c].origin
                   THEN [stanza EXCEPT ![c] = t] ELSE stanza
    BY <1>10 DEF Upgraded
  <1>13. /\ volume' \in [Cluster -> VolState] /\ volume'[c] = v
         /\ \A d \in Cluster : d # c => volume'[d] = volume[d]
    BY <1>0, <1>2, <1>3, VolSet
  <1>14. /\ box' \in [Cluster -> BoxState] /\ box'[c] = b
         /\ \A d \in Cluster : d # c => box'[d] = box[d]
    BY <1>0, <1>5, <1>6, BoxSet
  <1>15. /\ row' \in [Cluster -> RowState] /\ row'[c] = r
         /\ \A d \in Cluster : d # c => row'[d] = row[d]
    BY <1>0, <1>8, <1>9, TypeParts
  <1>16. /\ stanza' \in [Cluster -> [origin : Nat, version : Nat]]
         /\ stanza'[c].origin = stanza[c].origin
         /\ stanza[c].origin = volume[c].origin =>
                 stanza'[c].version = volume[c].version + 1
         /\ \A d \in Cluster : d # c => stanza'[d] = stanza[d]
    BY <1>0, <1>11, <1>12, TypeParts
  <1>17. TypeOK'
    BY <1>0, <1>13, <1>14, <1>15, <1>16, TypeParts, TypeNext DEF counters
  <1>18. BootOf(c)'
    BY <1>0, <1>5, <1>14 DEF BootOf
  <1>19. TypeInv'
    BY <1>0, <1>14, <1>17, <1>18, QuietTyped
  <1> QED  BY <1>2, <1>5, <1>8, <1>13, <1>14, <1>15, <1>16, <1>19

LEMMA SecretsLostTyped ==
    ASSUME TypeInv, NEW c \in Cluster, SecretsLost(c)
    PROVE  TypeInv'
  <1>0. /\ TypeOK /\ Grown
        /\ UNCHANGED <<row, box, volume, jobs, repository, op, minted, kills>>
    BY RepoKept DEF TypeInv, SecretsLost, repository
  <1>1. TypeOK'
    BY <1>0, Values, TypeParts, TypeNext DEF SecretsLost, repository
  <1>2. BootOf(c)'
    BY <1>0, BootKept DEF TypeInv, BootOf
  <1> QED  BY <1>0, <1>1, <1>2, QuietTyped

\* A job that made a backup appends it, of the database that is up.
Appended(c) ==
    /\ Len(repo'[c]) = Len(repo[c]) + 1
    /\ LET k == repo'[c][Len(repo[c]) + 1] IN
       /\ k.origin = volume[c].origin /\ k.stop = now + 1
       /\ k.version = volume[c].version /\ k.pw = volume[c].pw
    /\ \A k \in DOMAIN repo'[c] : k \in DOMAIN repo[c] \/ k = Len(repo[c]) + 1
    /\ \A d \in Cluster : d # c => repo'[d] = repo[d]

LEMMA JobEndsTyped ==
    ASSUME TypeInv, NEW j \in jobs, JobEnds(j)
    PROVE  /\ TypeInv' /\ Grown /\ j \in JobState
           /\ \/ /\ Appended(j.cluster)
                 /\ box[j.cluster].state = "up" /\ Whole(j.cluster)
                 /\ stanza[j.cluster].origin = volume[j.cluster].origin
                 /\ jobs' = (jobs \ {j}) \cup
                      {[j EXCEPT !.state = "ok", !.label = Len(repo[j.cluster]) + 1]}
              \/ UNCHANGED repo /\ jobs' = (jobs \ {j}) \cup {[j EXCEPT !.state = "failed"]}
  <1> DEFINE c == j.cluster
             k == [origin |-> volume[c].origin, version |-> volume[c].version,
                   pw |-> volume[c].pw, stop |-> now + 1]
  <1>0. /\ TypeOK /\ j \in JobState /\ c \in Cluster /\ volume[c] \in VolState
        /\ repo[c] \in Seq(BackupOf) /\ now \in Nat
        /\ UNCHANGED <<row, secret, box, volume, stanza, op, counters, bounds>>
    BY TypeParts DEF TypeInv, JobEnds, JobState
  <1>1. k \in BackupOf
    BY <1>0 DEF VolState, BackupOf
  <1>2. /\ [j EXCEPT !.state = "failed"] \in JobState
        /\ [j EXCEPT !.state = "ok", !.label = Len(repo[c]) + 1] \in JobState
    <2>1. PICK n \in Nat : n = Len(repo[c]) + 1
      BY <1>0
    <2>2. [j EXCEPT !.state = "ok", !.label = n] \in JobState
      BY <1>0 DEF JobState
    <2>3. [j EXCEPT !.state = "failed"] \in JobState
      BY <1>0 DEF JobState
    <2> QED  BY <2>1, <2>2, <2>3
  <1>3. CASE UNCHANGED repo /\ jobs' = (jobs \ {j}) \cup {[j EXCEPT !.state = "failed"]}
    <2>1. jobs' \subseteq JobState /\ now' \in Nat
      <3>1. jobs' \subseteq JobState
        BY <1>0, <1>2, <1>3, TypeParts
      <3>2. now' = now \/ now' = now + 1
        BY DEF JobEnds
      <3> QED  BY <1>0, <3>1, <3>2
    <2>2. TypeOK'
      BY <1>0, <1>3, <2>1, TypeParts, TypeNext DEF counters, bounds
    <2>3. Grown
      BY <1>3, RepoKept
    <2>4. BootOf(c)'
      BY <1>0, <2>3, BootKept DEF TypeInv, BootOf
    <2> QED  BY <1>0, <1>3, <2>2, <2>3, <2>4, QuietTyped
  <1>4. ASSUME /\ box[c].state = "up" /\ Whole(c)
               /\ stanza[c] = [origin |-> volume[c].origin, version |-> volume[c].version]
               /\ repo' = [repo EXCEPT ![c] = Append(@, k)] /\ now' = now + 1
               /\ jobs' = (jobs \ {j}) \cup
                      {[j EXCEPT !.state = "ok", !.label = Len(repo[c]) + 1]}
        PROVE  TypeInv' /\ Grown /\ Appended(c) /\ stanza[c].origin = volume[c].origin
    <2>1. PICK h : h = Append(repo[c], k)
      OBVIOUS
    <2>2. /\ h \in Seq(BackupOf) /\ Len(h) = Len(repo[c]) + 1
          /\ \A n \in DOMAIN repo[c] : n \in DOMAIN h /\ h[n] = repo[c][n]
          /\ h[Len(repo[c]) + 1] = k
          /\ \A n \in DOMAIN h : n \in DOMAIN repo[c] \/ n = Len(repo[c]) + 1
      <3> HIDE DEF k
      <3> QED  BY <1>0, <1>1, <2>1
    <2>3. repo' = [repo EXCEPT ![c] = h]
      BY <1>4, <2>1
    <2>4. /\ repo' \in [Cluster -> Seq(BackupOf)] /\ repo'[c] = h
          /\ \A d \in Cluster : d # c => repo'[d] = repo[d]
      BY <1>0, <2>2, <2>3, TypeParts
    <2>5. Grown
      BY <2>2, <2>4 DEF Grown
    <2>6. jobs' \subseteq JobState /\ now' \in Nat
      BY <1>0, <1>2, <1>4, TypeParts
    <2>7. TypeOK'
      BY <1>0, <2>4, <2>6, TypeParts, TypeNext DEF counters, bounds
    <2>8. BootOf(c)'
      BY <1>0, <2>5, BootKept DEF TypeInv, BootOf
    <2>9. Appended(c)
      BY <2>2, <2>4 DEF Appended
    <2> QED  BY <1>0, <1>4, <2>5, <2>7, <2>8, <2>9, QuietTyped
  <1> QED  BY <1>0, <1>3, <1>4 DEF JobEnds

LEMMA TypeInit == Init => TypeInv
  <1> SUFFICES ASSUME Init PROVE TypeInv
    OBVIOUS
  <1>1. TypeOK
    <2>1. <<>> \in Seq(BackupOf)
      OBVIOUS
    <2> QED  BY <2>1, Values, TypeParts DEF Init
  <1>2. op \in [Cli -> OpState] /\ \A i \in Cli : op[i] = Idle
    BY Values DEF Init
  <1>3. \A i \in Cli : Shape(op[i])
    BY <1>2 DEF Shape, Idle
  <1>4. \A c \in Cluster : BootOf(c)
    BY DEF Init, BootOf, NoBox
  <1> QED  BY <1>1, <1>2, <1>3, <1>4 DEF TypeInv

LEMMA TypeStep ==
    ASSUME TypeInv, [Next]_vars
    PROVE  TypeInv'
  <1>1. CASE UNCHANGED vars
    BY <1>1 DEF vars, containers, repository, counters, bounds, TypeInv, TypeOK, Shape,
                BootOf, Backs
  <1>2. ASSUME NEW i \in Cli, BackupStep(i) \/ ApplyStep(i) \/ DeleteStep(i) \/ Dies(i)
        PROVE  TypeInv'
    BY <1>2, BeginTyped, BackupTyped, ChooseTyped, SecretsTyped, InstanceTyped,
       BoxOfApplyTyped, ReportTyped, DeleteTyped, DeleteContainerTyped, DiesTyped
       DEF BackupStep, ApplyStep, DeleteStep
  <1>3. ASSUME NEW c \in Cluster,
               Agent(c) \/ Upgraded(c) \/ SecretsLost(c) \/ BoxExits(c) \/ ResumeBox(c)
        PROVE  TypeInv'
    BY <1>3, BootTyped, BootInitdbTyped, RestoreEndsTyped, EnsureStanzaTyped,
       UpgradedTyped, SecretsLostTyped DEF Agent
  <1>4. ASSUME NEW j \in jobs, JobEnds(j) PROVE TypeInv'
    BY <1>4, JobEndsTyped
  <1> QED  BY <1>1, <1>2, <1>3, <1>4 DEF Next, Environment

\* Every variable has its type, whatever overlaps and whatever fails; in
\* particular a bootstrap always names a backup that is there.
THEOREM Typing == Spec => []TypeOK
  <1>1. TypeInv => TypeOK
    BY DEF TypeInv
  <1> QED  BY <1>1, TypeInit, TypeStep, PTL DEF Spec


-----------------------------------------------------------------------------
(* Commands that take turns: what the steps share.                         *)

LEMMA FreeOwesNothing ==
    ASSUME NEW o, o.kind = "idle"
    PROVE  OpInv(o)'
  BY DEF OpInv, BackupInv, ApplyInv, RestoreInv, FreshInv, FairInv, DeleteInv

\* What a command carries is what the invariant is about.
LEMMA Carried ==
    ASSUME NEW j \in Cli, NEW o, op'[j] = o, OpInv(o)'
    PROVE  OpInv(op[j])'
  <1>1. BackupInv(op[j])'
    BY DEF OpInv, BackupInv, Made
  <1>2. ApplyInv(op[j])'
    BY DEF OpInv, ApplyInv, Known, Whole
  <1>3. RestoreInv(op[j])'
    BY DEF OpInv, RestoreInv, Known, Whole
  <1>4. FreshInv(op[j])'
    BY DEF OpInv, FreshInv, Whole
  <1>5. FairInv(op[j])'
    BY DEF OpInv, FairInv, Whole
  <1>6. DeleteInv(op[j])'
    BY DEF OpInv, DeleteInv
  <1> QED  BY <1>1, <1>2, <1>3, <1>4, <1>5, <1>6 DEF OpInv

LEMMA Others ==
    ASSUME SerialInv, NEW i \in Cli, op[i].kind # "idle"
    PROVE  \A j \in Cli : j # i => op[j].kind = "idle"
  BY DEF SerialInv, Solo

\* The command whose step it is is the only one that can owe anything.
LEMMA CommandSerial ==
    ASSUME SerialInv, NEW i \in Cli, NEW r \in OpState, Moves(i, r),
           \A j \in Cli : j # i => op[j].kind = "idle",
           OpInv(r)', TypeInv', JobsInv', World'
    PROVE  SerialInv'
  <1>1. \A j \in Cli : j # i => op'[j].kind = "idle"
    BY DEF Moves
  <1>2. Solo'
    BY <1>1 DEF Solo
  <1>3. ASSUME NEW j \in Cli PROVE OpInv(op[j])'
    <2>1. CASE j = i
      BY <2>1, Carried DEF Moves
    <2>2. CASE j # i
      <3>1. PICK o : o = op'[j]
        OBVIOUS
      <3>2. OpInv(o)'
        BY <1>1, <2>2, <3>1, FreeOwesNothing
      <3> QED  BY <3>1, <3>2, Carried
    <2> QED  BY <2>1, <2>2
  <1> QED  BY <1>2, <1>3 DEF SerialInv

\* Jobs that nobody waits for.
LEMMA NoOwner ==
    ASSUME SerialInv, NEW i \in Cli,
           \A j \in Cli : j # i => op[j].kind = "idle", ~At(i, "backup", "wait")
    PROVE  \A j \in jobs : j.owner = 0
  <1>1. ASSUME NEW j \in jobs, j.owner # 0 PROVE FALSE
    <2>1. j.owner \in Cli
      BY <1>1 DEF SerialInv, TypeInv, TypeOK
    <2>2. At(j.owner, "backup", "wait")
      BY <1>1 DEF SerialInv, JobsInv
    <2> QED  BY <2>1, <2>2 DEF At
  <1> QED  BY <1>1

LEMMA JobsUnowned ==
    ASSUME SerialInv, \A j \in jobs : j.owner = 0,
           \A j \in jobs' : j \in jobs \/ (j.owner = 0 /\ j.state = "failed")
    PROVE  JobsInv'
  <1>1. \A j \in jobs' : j.owner = 0
    OBVIOUS
  <1>2. \A j \in jobs' : j.state = "running" => j \in jobs
    OBVIOUS
  <1> QED  BY <1>1, <1>2 DEF SerialInv, JobsInv

\* A cluster that a step leaves alone, but for its phase.
LEMMA ClusterKept ==
    ASSUME SerialInv, NEW d \in Cluster, minted' \in Nat, minted <= minted',
           row'[d].image = row[d].image, Known(d) => Known(d)',
           secret'[d] = secret[d], box'[d] = box[d], volume'[d] = volume[d],
           repo'[d] = repo[d], stanza'[d] = stanza[d], d \in sound' => d \in sound
    PROVE  Fits(d)' /\ Lineage(d)' /\ Sound(d)'
  <1>1. Fits(d) /\ Lineage(d) /\ Sound(d)
    BY DEF SerialInv, World
  <1>2. Fits(d)'
    BY <1>1 DEF Fits, Known, Whole
  <1>3. Lineage(d)'
    <2>1. minted \in Nat /\ stanza[d].origin \in Nat
      BY DEF SerialInv, TypeInv, TypeOK
    <2> QED  BY <1>1, <2>1 DEF Lineage, Whole
  <1>4. Sound(d)'
    BY <1>1 DEF Sound, Whole
  <1> QED  BY <1>2, <1>3, <1>4

LEMMA WorldKept ==
    ASSUME SerialInv, UNCHANGED <<secret, box, volume, repo, stanza, minted>>,
           sound' \subseteq sound,
           \A d \in Cluster : /\ row'[d].image = row[d].image
                              /\ Known(d) => Known(d)'
    PROVE  World'
  <1>1. minted \in Nat
    BY DEF SerialInv, TypeInv, TypeOK
  <1> QED  BY <1>1, ClusterKept DEF World

\* An information job leaves at most a container that has failed.
LEMMA AskedJobs ==
    ASSUME SerialInv, \A j \in jobs : j.owner = 0, NEW i, NEW c,
           Asked(i, c) \/ NotAsked(i, c)
    PROVE  JobsInv'
  <1>1. \A j \in jobs' : j \in jobs \/ (j.owner = 0 /\ j.state = "failed")
    <2>1. PICK x : x = [cluster |-> c, owner |-> 0, state |-> "failed", label |-> 0]
      OBVIOUS
    <2>2. x.owner = 0 /\ x.state = "failed"
      BY <2>1
    <2>3. UNCHANGED jobs \/ jobs' = jobs \cup {x}
      BY <2>1 DEF Asked, NotAsked
    <2> QED  BY <2>2, <2>3
  <1> QED  BY <1>1, JobsUnowned

-----------------------------------------------------------------------------
(* backup.                                                                 *)

LEMMA BeginSerial ==
    ASSUME Overlap = FALSE, SerialInv, NEW i \in Cli,
           Backup(i) \/ Restore(i) \/ Apply(i) \/ Delete(i)
    PROVE  SerialInv'
  <1>0. TypeInv /\ TypeInv'
    BY BeginTyped DEF SerialInv
  <1>1. PICK r \in OpState : Moves(i, r) /\ Begin(i, r) /\ OpInv(r)'
    <2>1. CASE Backup(i)
      BY <1>0, <2>1, BackupOp
         DEF OpInv, BackupInv, ApplyInv, RestoreInv, FreshInv, FairInv, DeleteInv
    <2>2. CASE Restore(i)
      <3>1. PICK r \in OpState : /\ Moves(i, r) /\ Begin(i, r)
                                 /\ r.kind = "restore" /\ r.pc = "check"
        BY <1>0, <2>2, RestoreOp
      <3>2. OpInv(r)'
        BY <3>1
           DEF OpInv, BackupInv, ApplyInv, RestoreInv, FreshInv, FairInv, DeleteInv, ApplyPc
      <3> QED  BY <3>1, <3>2
    <2>3. CASE Apply(i)
      <3>1. PICK r \in OpState :
             /\ Moves(i, r) /\ Begin(i, r)
             /\ r.kind = "apply" /\ r.pc = "put"
             /\ Known(r.cluster) => r.image = row[r.cluster].image
        BY <1>0, <2>3, ApplyOp
      <3>2. UNCHANGED row
        BY <3>1 DEF Begin
      <3>3. OpInv(r)'
        BY <3>1, <3>2
           DEF OpInv, BackupInv, ApplyInv, RestoreInv, FreshInv, FairInv, DeleteInv,
               ApplyPc, Known
      <3> QED  BY <3>1, <3>3
    <2>4. CASE Delete(i)
      BY <1>0, <2>4, DeleteOp
         DEF OpInv, BackupInv, ApplyInv, RestoreInv, FreshInv, FairInv, DeleteInv
    <2> QED  BY <2>1, <2>2, <2>3, <2>4
  <1>2. \A j \in Cli : op[j].kind = "idle"
    BY <1>1 DEF Begin, MayBegin
  <1>3. UNCHANGED <<row, jobs, secret, box, volume, repo, stanza, minted, sound>>
    BY <1>1 DEF Begin, containers, repository, counters
  <1>4. World'
    BY <1>3, WorldKept DEF Known
  <1>5. JobsInv'
    <2>1. \A j \in jobs : j.owner = 0
      BY <1>1, <1>2, NoOwner DEF At, Begin
    <2>2. \A j \in jobs' : j \in jobs \/ (j.owner = 0 /\ j.state = "failed")
      BY <1>3
    <2> QED  BY <2>1, <2>2, JobsUnowned
  <1> QED  BY <1>0, <1>1, <1>2, <1>4, <1>5, CommandSerial

LEMMA BackupSerial ==
    ASSUME SerialInv, NEW i \in Cli,
           InfoBefore(i) \/ StartJob(i) \/ WaitJob(i) \/ InfoAfter(i)
    PROVE  SerialInv'
  <1> DEFINE c == op[i].cluster
  <1>0. /\ TypeInv /\ TypeInv' /\ op[i] \in OpState
        /\ UNCHANGED <<row, secret, box, volume, repo, stanza, minted, sound>>
        /\ op[i].kind = "backup" /\ c \in Cluster /\ repo[c] \in Seq(BackupOf)
    BY BackupTyped, TypeParts
       DEF SerialInv, TypeInv, Shape, InfoBefore, StartJob, WaitJob, InfoAfter, At,
           repository, counters
  <1>1. \A j \in Cli : j # i => op[j].kind = "idle"
    BY <1>0, Others
  <1>2. World'
    BY <1>0, WorldKept DEF Known
  <1>3. BackupInv(op[i]) /\ JobsInv
    BY DEF SerialInv, OpInv
  <1>4. \A r : r.kind = "backup" /\ BackupInv(r)' => OpInv(r)'
    BY DEF OpInv, ApplyInv, RestoreInv, FreshInv, FairInv, DeleteInv
  <1>5. OpInv(Idle)'
    BY Values, FreeOwesNothing
  <1>6. CASE InfoBefore(i)
    <2>1. PICK r \in OpState :
             /\ Moves(i, r)
             /\ \/ r = Idle
                \/ r = [op[i] EXCEPT !.pc = "start", !.seen = Len(repo[c])]
      BY <1>0, <1>6, InfoBeforeOp
    <2>2. r = Idle \/ /\ r.kind = "backup" /\ r.pc = "start"
                      /\ r.cluster = c /\ r.seen = Len(repo[c])
      BY <1>0, <2>1 DEF OpState
    <2>3. OpInv(r)'
      BY <1>0, <1>4, <1>5, <2>2 DEF BackupInv
    <2>4. \A j \in jobs : j.owner = 0
      BY <1>1, <1>6, NoOwner DEF InfoBefore, At
    <2>5. JobsInv'
      BY <1>6, <2>4, AskedJobs DEF InfoBefore
    <2> QED  BY <1>0, <1>1, <1>2, <2>1, <2>3, <2>5, CommandSerial
  <1>7. CASE StartJob(i)
    <2>1. Goto(i, "wait") \/ End(i)
      BY <1>7 DEF StartJob, Fails
    <2>2. "wait" \in PcState
      BY DEF PcState, BackupPc
    <2>3. PICK r \in OpState :
             Moves(i, r) /\ (r = Idle \/ r = [op[i] EXCEPT !.pc = "wait"])
      BY <1>0, <2>1, <2>2, StepOp DEF TypeInv
    <2>4. op[i].pc = "start"
      BY <1>7 DEF StartJob, At
    <2>5. r = Idle \/ /\ r.kind = "backup" /\ r.pc = "wait"
                      /\ r.cluster = c /\ r.seen = op[i].seen
      BY <1>0, <2>3 DEF OpState
    <2>6. OpInv(r)'
      BY <1>0, <1>3, <1>4, <1>5, <2>4, <2>5 DEF BackupInv
    <2>7. \A j \in jobs : j.owner = 0
      BY <1>1, <2>4, NoOwner DEF At
    <2>8. JobsInv'
      <3>1. CASE End(i)
        <4>1. i # 0 /\ op'[i].kind = "idle"
          BY <1>0, <3>1, BackupsOK, EndOp, Values DEF Moves, TypeInv
        <4>2. ~Goto(i, "wait")
          <5>1. Goto(i, "wait") => op'[i].pc = "wait"
            BY <1>0 DEF Goto, TypeInv, OpState
          <5>2. op'[i].pc = "idle"
            BY <1>0, <3>1, EndOp, Values DEF Moves, TypeInv
          <5> QED  BY <5>1, <5>2
        <4>3. \/ UNCHANGED jobs
              \/ jobs' = jobs \cup {[[cluster |-> c, owner |-> i, state |-> "failed",
                                      label |-> 0] EXCEPT !.owner = 0]}
          BY <1>7, <4>2 DEF StartJob
        <4>4. PICK x : x = [[cluster |-> c, owner |-> i, state |-> "failed",
                             label |-> 0] EXCEPT !.owner = 0]
          OBVIOUS
        <4>5. x.owner = 0 /\ x.state = "failed"
          BY <4>4
        <4>6. \A j \in jobs' : j \in jobs \/ (j.owner = 0 /\ j.state = "failed")
          BY <4>3, <4>4, <4>5
        <4> QED  BY <2>7, <4>6, JobsUnowned
      <3>2. CASE Goto(i, "wait") /\ ~End(i)
        <4>1. PICK state \in {"failed", "running"} :
                /\ state = IF \E j \in jobs : j.cluster = c /\ j.state = "running"
                           THEN "failed" ELSE "running"
                /\ jobs' = jobs \cup {[cluster |-> c, owner |-> i, state |-> state,
                                       label |-> 0]}
          BY <1>7, <3>2 DEF StartJob, Fails
        <4>2. PICK x : x = [cluster |-> c, owner |-> i, state |-> state, label |-> 0]
          OBVIOUS
        <4>3. /\ x.cluster = c /\ x.owner = i /\ x.state = state /\ state # "ok"
              /\ i # 0 /\ jobs' = jobs \cup {x}
              /\ x.state = "running" =>
                    \A j \in jobs : j.cluster = c => j.state # "running"
          BY <4>1, <4>2, BackupsOK
        <4>4. /\ op'[i].kind = "backup" /\ op'[i].pc = "wait" /\ op'[i].cluster = c
          <5>1. \E s \in OpState : Moves(i, s) /\ s = [op[i] EXCEPT !.pc = "wait"]
            BY <1>0, <2>2, <3>2, GotoOp DEF TypeInv
          <5> QED  BY <1>0, <5>1 DEF Moves, OpState
        <4>5. \A j, k \in jobs' : /\ j.state = "running" /\ k.state = "running"
                                  /\ j.cluster = k.cluster
                                  => j = k
          BY <1>3, <4>3 DEF JobsInv
        <4>6. \A j, k \in jobs' : j.owner = k.owner /\ j.owner # 0 => j = k
          BY <2>7, <4>3
        <4>7. \A j \in jobs' : j.owner # 0 => j = x
          BY <2>7, <4>3
        <4> QED  BY <4>3, <4>4, <4>5, <4>6, <4>7 DEF JobsInv, At
      <3> QED  BY <2>1, <3>1, <3>2
    <2> QED  BY <1>0, <1>1, <1>2, <2>3, <2>6, <2>8, CommandSerial
  <1>8. CASE WaitJob(i)
    <2>1. PICK j \in jobs, r \in OpState :
             /\ Moves(i, r) /\ j.owner = i
             /\ \/ /\ j.state = "ok" /\ jobs' = jobs \ {j}
                   /\ r = [op[i] EXCEPT !.pc = "after", !.made = j.label]
                \/ r = Idle /\ jobs' = jobs \ {j}
                \/ r = Idle /\ jobs' = (jobs \ {j}) \cup {[j EXCEPT !.owner = 0]}
      BY <1>0, <1>8, WaitJobOp
    <2>2. i # 0 /\ j \in JobState
      BY <1>0, BackupsOK, TypeParts DEF TypeInv
    <2>3. \A k \in jobs : k # j => k.owner = 0
      <3>1. ASSUME NEW k \in jobs, k # j, k.owner # 0 PROVE FALSE
        <4>1. k.owner \in Cli
          BY <3>1 DEF SerialInv, TypeInv, TypeOK
        <4>2. op[k.owner].kind = "backup"
          BY <1>3, <3>1 DEF JobsInv, At
        <4>3. k.owner = i
          BY <1>1, <4>1, <4>2
        <4> QED  BY <1>3, <2>1, <2>2, <3>1, <4>3 DEF JobsInv
      <3> QED  BY <3>1
    <2>4. OpInv(r)'
      <3>1. CASE r = Idle
        BY <1>5, <3>1
      <3>2. CASE /\ j.state = "ok" /\ jobs' = jobs \ {j}
                 /\ r = [op[i] EXCEPT !.pc = "after", !.made = j.label]
        <4>1. Made(c, op[i].seen, j.label)
          BY <1>3, <2>1, <2>2, <3>2 DEF JobsInv
        <4>3. /\ r.kind = "backup" /\ r.pc = "after" /\ r.cluster = c
              /\ r.seen = op[i].seen /\ r.made = j.label
          BY <1>0, <3>2 DEF OpState
        <4>4. BackupInv(r)'
          BY <1>0, <3>2, <4>1, <4>3 DEF BackupInv, Made
        <4> QED  BY <1>4, <4>3, <4>4
      <3> QED  BY <2>1, <3>1, <3>2
    <2>5. JobsInv'
      <3>1. \A k \in jobs' : k.owner = 0 /\ (k.state = "running" =>
              \E l \in jobs : l.state = "running" /\ l.cluster = k.cluster
                              /\ k = [l EXCEPT !.owner = 0])
        <4>1. ASSUME NEW k \in jobs, k # j PROVE k = [k EXCEPT !.owner = 0]
          <5>1. k \in JobState /\ k.owner = 0
            BY <1>0, <2>3, <4>1, TypeParts DEF TypeInv
          <5> QED  BY <5>1 DEF JobState
        <4>2. /\ [j EXCEPT !.owner = 0].owner = 0
              /\ [j EXCEPT !.owner = 0].state = j.state
              /\ [j EXCEPT !.owner = 0].cluster = j.cluster
          BY <2>2 DEF JobState
        <4>3. \A k \in jobs' : (k \in jobs /\ k # j) \/ k = [j EXCEPT !.owner = 0]
          BY <2>1
        <4> QED  BY <2>3, <4>1, <4>2, <4>3
      <3>2. \A k, l \in jobs' : /\ k.state = "running" /\ l.state = "running"
                                /\ k.cluster = l.cluster
                                => k = l
        <4>1. ASSUME NEW k \in jobs', NEW l \in jobs', k.state = "running",
                     l.state = "running", k.cluster = l.cluster
              PROVE  k = l
          <5>1. PICK m \in jobs : m.state = "running" /\ m.cluster = k.cluster
                                  /\ k = [m EXCEPT !.owner = 0]
            BY <3>1, <4>1
          <5>2. PICK n \in jobs : n.state = "running" /\ n.cluster = l.cluster
                                  /\ l = [n EXCEPT !.owner = 0]
            BY <3>1, <4>1
          <5>3. m = n
            BY <1>3, <4>1, <5>1, <5>2 DEF JobsInv
          <5> QED  BY <5>1, <5>2, <5>3
        <4> QED  BY <4>1
      <3> QED  BY <3>1, <3>2 DEF JobsInv
    <2> QED  BY <1>0, <1>1, <1>2, <2>1, <2>4, <2>5, CommandSerial
  <1>9. CASE InfoAfter(i)
    <2>0. op[i].pc = "after" /\ Made(c, op[i].seen, op[i].made)
      BY <1>0, <1>3, <1>9 DEF InfoAfter, At, BackupInv
    <2>1. PICK r \in OpState :
             /\ Moves(i, r)
             /\ \/ r = Idle
                \/ r = [op[i] EXCEPT !.pc = "report",
                            !.label = IF Len(repo[c]) > op[i].seen
                                      THEN Len(repo[c]) ELSE 0]
      BY <1>0, <1>9, InfoAfterOp
    <2>2. IF Len(repo[c]) > op[i].seen THEN Len(repo[c]) = op[i].made ELSE FALSE
      BY <2>0 DEF Made
    <2>3. r = Idle \/ /\ r.kind = "backup" /\ r.pc = "report"
                      /\ r.label = op[i].made /\ r.made = op[i].made
      BY <1>0, <2>1, <2>2 DEF OpState
    <2>4. OpInv(r)'
      BY <1>4, <1>5, <2>3 DEF BackupInv
    <2>5. \A j \in jobs : j.owner = 0
      BY <1>1, <2>0, NoOwner DEF At
    <2>6. JobsInv'
      BY <1>9, <2>5, AskedJobs DEF InfoAfter
    <2> QED  BY <1>0, <1>1, <1>2, <2>1, <2>4, <2>6, CommandSerial
  <1> QED  BY <1>6, <1>7, <1>8, <1>9


-----------------------------------------------------------------------------
(* apply and restore, as commands that take turns.                         *)

\* What an apply has to go on.
LEMMA ApplyView ==
    ASSUME SerialInv, NEW i \in Cli, NEW pc \in ApplyPc, Applying(i, pc)
    PROVE  LET c == op[i].cluster IN
           /\ TypeInv /\ TypeOK /\ op[i] \in OpState /\ c \in Cluster
           /\ op[i].kind \in {"apply", "restore"} /\ op[i].pc = pc
           /\ op[i].kind = "restore" => /\ op[i].boot.from \in Cluster
                                        /\ op[i].boot.from # c /\ Backs(op[i].boot)
           /\ op[i].kind = "apply" => /\ op[i].boot = Initdb /\ op[i].wait
                                      /\ op[i].rotate = {}
           /\ ApplyInv(op[i]) /\ RestoreInv(op[i]) /\ FreshInv(op[i]) /\ FairInv(op[i])
           /\ Fits(c) /\ Lineage(c) /\ Sound(c)
  <1>1. TypeInv /\ OpInv(op[i]) /\ World
    BY DEF SerialInv
  <1> QED  BY <1>1, AppliesShape DEF OpInv, World, TypeInv

LEMMA ApplySerial ==
    ASSUME SerialInv, NEW i \in Cli, op[i].kind # "idle", ~At(i, "backup", "wait"),
           NEW r \in OpState, Moves(i, r), OpInv(r)', UNCHANGED jobs, TypeInv', World'
    PROVE  SerialInv'
  <1>1. \A j \in Cli : j # i => op[j].kind = "idle"
    BY Others
  <1>2. \A j \in jobs : j.owner = 0
    BY <1>1, NoOwner
  <1>3. JobsInv'
    BY <1>2, JobsUnowned
  <1> QED  BY <1>1, <1>3, CommandSerial

\* What is owed at the next step of an apply is owed of the same fields.
LEMMA NextStep ==
    ASSUME NEW o \in OpState, NEW pc, NEW r, r = [o EXCEPT !.pc = pc]
    PROVE  /\ r.pc = pc /\ r.kind = o.kind /\ r.cluster = o.cluster /\ r.boot = o.boot
           /\ r.image = o.image /\ r.wait = o.wait /\ r.named = o.named
           /\ r.todo = o.todo /\ r.rotate = o.rotate /\ r.own = o.own
           /\ r.fair = o.fair /\ r.recreate = o.recreate
  BY DEF OpState

LEMMA ApplyOwes ==
    ASSUME NEW r, r.kind \in {"apply", "restore"},
           ApplyInv(r)', RestoreInv(r)', FreshInv(r)', FairInv(r)'
    PROVE  OpInv(r)'
  BY DEF OpInv, BackupInv, DeleteInv

\* A phase that is recorded is no cluster's end.
LEMMA PhaseWorld ==
    ASSUME SerialInv, NEW c \in Cluster,
           NEW phase \in {"applying", "running", "failed", "stopped"},
           row' = [row EXCEPT ![c].phase = phase]
    PROVE  \A d \in Cluster : /\ row'[d].image = row[d].image
                              /\ Known(d) => Known(d)'
  <1>1. TypeOK
    BY DEF SerialInv, TypeInv
  <1> QED  BY <1>1, PhaseTyped DEF Known

LEMMA ChooseSerial ==
    ASSUME SerialInv, NEW i \in Cli, CheckNames(i) \/ Choose(i)
    PROVE  SerialInv'
  <1> DEFINE c == op[i].cluster
             s == op[i].boot.from
  <1>0. /\ TypeInv /\ TypeInv' /\ op[i] \in OpState /\ op \in [Cli -> OpState]
        /\ UNCHANGED <<row, secret, box, volume, repo, stanza, minted, sound>>
        /\ op[i].kind = "restore" /\ op[i].pc \in ChoosePc
        /\ c \in Cluster /\ s \in Cluster /\ s # c
        /\ op[i].named <=> op[i].image # 0
    BY ChooseTyped
       DEF SerialInv, TypeInv, Shape, CheckNames, Choose, At, ChoosePc, repository,
           counters, containers
  <1>1. World'
    BY <1>0, WorldKept DEF Known
  <1>2. \A j \in Cli : j # i => op[j].kind = "idle"
    BY <1>0, Others
  <1>3. \A j \in jobs : j.owner = 0
    BY <1>0, <1>2, NoOwner DEF At
  <1>4. OpInv(Idle)'
    BY Values, FreeOwesNothing
  <1>5. CASE CheckNames(i)
    <2>1. UNCHANGED jobs /\ ((Goto(i, "choose") /\ ~Known(c)) \/ End(i))
      BY <1>5 DEF CheckNames, containers
    <2>2. CASE End(i)
      <3>1. Moves(i, Idle) /\ Idle \in OpState
        BY <1>0, <2>2, EndOp
      <3> QED  BY <1>0, <1>1, <1>4, <2>1, <3>1, ApplySerial DEF At
    <2>3. CASE Goto(i, "choose") /\ ~Known(c)
      <3>1. PICK r \in OpState : Moves(i, r) /\ r = [op[i] EXCEPT !.pc = "choose"]
        BY <1>0, <2>3, GotoOp, ApplyPcs
      <3>2. r.kind = "restore" /\ r.pc = "choose" /\ r.cluster = c
        BY <1>0, <3>1, NextStep
      <3>3. OpInv(r)'
        <4>1. ApplyInv(r)' /\ FreshInv(r)' /\ FairInv(r)'
          BY <3>2 DEF ApplyInv, FreshInv, FairInv, ApplyPc
        <4>2. RestoreInv(r)'
          BY <1>0, <2>1, <2>3, <3>2 DEF RestoreInv, Known
        <4> QED  BY <3>2, <4>1, <4>2, ApplyOwes
      <3> QED  BY <1>0, <1>1, <2>1, <3>1, <3>3, ApplySerial DEF At
    <2> QED  BY <2>1, <2>2, <2>3
  <1>6. CASE Choose(i)
    <2>1. PICK r \in OpState :
             /\ Moves(i, r)
             /\ \/ r = Idle
                \/ \E k \in BackupForTarget(s, op[i].boot.at) :
                     Known(s) /\ ImageAllows(s, k, op[i].image) /\ Chose(i, k, r)
      BY <1>0, <1>6, ChooseOp
    <2>2. JobsInv'
      BY <1>3, <1>6, AskedJobs DEF Choose
    <2>3. ASSUME NEW k \in BackupForTarget(s, op[i].boot.at), Known(s),
                 ImageAllows(s, k, op[i].image), Chose(i, k, r)
          PROVE  OpInv(r)'
      <3>1. PICK b : b = [op[i].boot EXCEPT !.label = k]
        OBVIOUS
      <3>2. b.from = s /\ b.label = k
        BY <1>0, <3>1 DEF OpState, Boots
      <3>3. /\ r.kind = "restore" /\ r.pc = "put" /\ r.cluster = c /\ r.boot = b
            /\ r.image = IF op[i].image = 0 THEN row[s].image ELSE op[i].image
            /\ r.named = op[i].named
            /\ r.own = Own(s, k) /\ r.fair = FairTo(c, s, k)
        BY <1>0, <2>3, <3>1, ZenonT(60) DEF OpState, Chose
      <3>4. ApplyInv(r)' /\ FreshInv(r)'
        BY <3>3 DEF ApplyInv, FreshInv, ApplyPc
      <3>5. FairInv(r)'
        <4>1. /\ r.fair => \A x \in Role : secret[c][x] = 0
              /\ r.fair => \A x \in Role : secret[s][x] \in {0, repo[s][k].pw[x]}
          BY <3>3, ZenonT(60) DEF FairTo, NoPassword
        <4> HIDE DEF c, s
        <4> QED  BY <1>0, <3>2, <3>3, <4>1, ZenonT(60) DEF FairInv
      <3>6. RestoreInv(r)'
        <4>1. ~Known(c)
          BY <1>0, <1>6 DEF SerialInv, OpInv, RestoreInv, Choose, At
        <4>2. ASSUME ~op[i].named, Own(s, k)
              PROVE  repo[s][k].version = r.image
          <5>1. op[i].image = 0 /\ r.image = row[s].image
            BY <1>0, <3>3, <4>2
          <5>2. repo[s][k].version = stanza[s].version
            BY <2>3, <5>1 DEF ImageAllows
          <5>3. k \in DOMAIN repo[s]
            BY <2>3 DEF BackupForTarget
          <5>4. Lineage(s)
            BY <1>0 DEF SerialInv, World
          <5> QED  BY <4>2, <5>1, <5>2, <5>3, <5>4 DEF Own, Lineage
        <4> QED  BY <1>0, <3>2, <3>3, <4>1, <4>2 DEF RestoreInv, Known
      <3> QED  BY <3>3, <3>4, <3>5, <3>6, ApplyOwes
    <2>4. OpInv(r)'
      BY <1>4, <2>1, <2>3
    <2> QED  BY <1>0, <1>1, <1>2, <2>1, <2>2, <2>4, CommandSerial
  <1> QED  BY <1>5, <1>6


LEMMA PutClusterSerial ==
    ASSUME SerialInv, NEW i \in Cli, PutCluster(i)
    PROVE  SerialInv'
  <1>r. PICK o, c : o = op[i] /\ c = op[i].cluster
    OBVIOUS
  <1> USE <1>r
  <1>0. /\ Applying(i, "put") /\ "put" \in ApplyPc /\ TypeInv'
        /\ UNCHANGED <<secret, box, volume, jobs, repo, stanza, minted, sound>>
    BY SecretsTyped, ApplyPcs
       DEF SerialInv, PutCluster, containers, repository, counters
  <1>1. /\ TypeInv /\ TypeOK /\ o \in OpState /\ c \in Cluster
        /\ o.kind \in {"apply", "restore"} /\ o.pc = "put"
        /\ o.kind = "restore" => o.boot.from \in Cluster /\ o.boot.from # c
        /\ ApplyInv(o) /\ RestoreInv(o) /\ FairInv(o) /\ Fits(c) /\ Lineage(c) /\ Sound(c)
    BY <1>0, ApplyView
  <1>2. PICK r \in OpState :
           Moves(i, r) /\ ((r = Idle /\ UNCHANGED row) \/ PutRow(i, r))
    BY <1>1, PutClusterOp
  <1>3. CASE r = Idle /\ UNCHANGED row
    <2>1. World'
      BY <1>0, <1>3, WorldKept DEF Known
    <2>2. OpInv(r)'
      BY <1>3, Values, FreeOwesNothing
    <2> QED  BY <1>0, <1>1, <1>2, <2>1, <2>2, ApplySerial DEF At
  <1>4. CASE PutRow(i, r)
    <2>1. /\ r.kind = o.kind /\ r.pc = "secrets" /\ r.cluster = c /\ r.boot = o.boot
          /\ r.image = o.image /\ r.named = o.named /\ r.own = o.own /\ r.todo = Role
          /\ r.fair <=> IF o.kind = "apply" THEN Fresh(c) ELSE o.fair
      BY <1>1, <1>4 DEF PutRow, OpState
    <2>2. /\ row'[c].phase = "applying" /\ row'[c].image = o.image
          /\ \A d \in Cluster : d # c => row'[d] = row[d]
      BY <1>1, <1>4, TypeParts DEF PutRow
    <2>3. ~Known(c) => volume[c].state = "none" /\ box[c].state = "none"
      BY <1>1 DEF Fits
    <2>4. Known(c) => o.image = row[c].image
      BY <1>1 DEF ApplyInv, RestoreInv
    <2>5. World'
      <3>1. minted \in Nat
        BY <1>1 DEF TypeOK
      <3>2. ASSUME NEW d \in Cluster, d # c \/ Known(c)
            PROVE  Fits(d)' /\ Lineage(d)' /\ Sound(d)'
        <4>1. row'[d].image = row[d].image /\ (Known(d) => Known(d)')
          BY <2>2, <2>4, <3>2 DEF Known
        <4> QED  BY <1>0, <3>1, <4>1, ClusterKept
      <3>3. ASSUME ~Known(c) PROVE Fits(c)' /\ Lineage(c)' /\ Sound(c)'
        <4>1. Fits(c)'
          BY <1>0, <2>2, <2>3, <3>3 DEF Fits, Known, Whole
        <4>2. Lineage(c)'
          BY <1>0, <1>1, <2>3, <3>3 DEF Lineage, Whole
        <4>3. Sound(c)'
          BY <1>0, <1>1 DEF Sound, Whole
        <4> QED  BY <4>1, <4>2, <4>3
      <3> QED  BY <3>2, <3>3 DEF World
    <2>6. OpInv(r)'
      <3>1. ApplyInv(r)'
        BY <1>1, <2>1, <2>2 DEF ApplyInv, Known
      <3>2. RestoreInv(r)'
        BY <1>0, <1>1, <2>1, <2>3 DEF RestoreInv
      <3>3. FreshInv(r)'
        BY <1>0, <1>1, <2>1 DEF FreshInv, Fresh
      <3>4. FairInv(r)'
        <4>1. o.kind = "restore" /\ o.fair =>
                /\ \A y \in Role : secret[c][y] = 0
                /\ \A y \in Role :
                      secret[o.boot.from][y] \in {0, repo[o.boot.from][o.boot.label].pw[y]}
          BY <1>1 DEF FairInv
        <4>2. r.kind = "restore" /\ r.fair => o.kind = "restore" /\ o.fair
          BY <2>1
        <4> QED  BY <1>0, <2>1, <4>1, <4>2 DEF FairInv
      <3> QED  BY <1>1, <2>1, <3>1, <3>2, <3>3, <3>4, ApplyOwes
    <2> QED  BY <1>0, <1>1, <1>2, <2>5, <2>6, ApplySerial DEF At
  <1> QED  BY <1>2, <1>3, <1>4

\* A secret that was not there is no concern of a success reported before.
LEMMA SecretSet ==
    ASSUME SerialInv, NEW c \in Cluster, NEW x \in Role, secret[c][x] = 0,
           NEW n \in Nat, secret' = [secret EXCEPT ![c][x] = n],
           minted' \in Nat, minted <= minted',
           UNCHANGED <<row, box, volume, repo, stanza, sound>>
    PROVE  /\ World' /\ secret'[c][x] = n
           /\ \A y \in Role : y # x => secret'[c][y] = secret[c][y]
           /\ \A d \in Cluster : d # c => secret'[d] = secret[d]
  <1>1. /\ TypeOK /\ secret \in [Cluster -> [Role -> Nat]]
        /\ Fits(c) /\ Lineage(c) /\ Sound(c)
    BY DEF SerialInv, World, TypeInv, TypeOK, Passwords
  <1>2. /\ secret'[c][x] = n
        /\ \A y \in Role : y # x => secret'[c][y] = secret[c][y]
        /\ \A d \in Cluster : d # c => secret'[d] = secret[d]
    BY <1>1
  <1>3. \A d \in Cluster : d # c => Fits(d)' /\ Lineage(d)' /\ Sound(d)'
    BY <1>2, ClusterKept DEF Known
  <1>4. Fits(c)'
    BY <1>1 DEF Fits, Known, Whole
  <1>5. Lineage(c)'
    <2>1. minted \in Nat /\ stanza[c].origin \in Nat
      BY <1>1 DEF TypeOK
    <2> QED  BY <1>1, <2>1 DEF Lineage, Whole
  <1>6. Sound(c)'
    BY <1>1 DEF Sound
  <1> QED  BY <1>2, <1>3, <1>4, <1>5, <1>6 DEF World

LEMMA EnsureSecretSerial ==
    ASSUME SerialInv, NEW i \in Cli, NEW x \in Role, EnsureSecret(i, x)
    PROVE  SerialInv'
  <1>r. PICK o, c, s : o = op[i] /\ c = op[i].cluster /\ s = op[i].boot.from
    OBVIOUS
  <1> USE <1>r
  <1>0. /\ Applying(i, "secrets") /\ "secrets" \in ApplyPc /\ TypeInv' /\ x \in o.todo
        /\ UNCHANGED <<box, volume, jobs, repo, stanza, sound>>
    BY SecretsTyped, ApplyPcs DEF SerialInv, EnsureSecret, repository
  <1>1. /\ TypeInv /\ TypeOK /\ o \in OpState /\ c \in Cluster
        /\ o.kind \in {"apply", "restore"} /\ o.pc = "secrets"
        /\ o.kind = "restore" => s \in Cluster /\ s # c
        /\ o.kind = "apply" => o.boot = Initdb
        /\ ApplyInv(o) /\ RestoreInv(o) /\ FreshInv(o) /\ FairInv(o)
    BY <1>0, ApplyView
  <1>2. PICK q \in OpState : Moves(i, q) /\ Ensured(i, x, q)
    BY <1>1, EnsureSecretOp
  <1>3. CASE Failed(i, q) /\ UNCHANGED <<secret, minted>>
    <2>1. World'
      <3>1. \A d \in Cluster : row'[d].image = row[d].image /\ (Known(d) => Known(d)')
        BY <1>1, <1>3, PhaseWorld DEF Failed
      <3> QED  BY <1>0, <1>3, <3>1, WorldKept
    <2>2. OpInv(q)'
      BY <1>3, Values, FreeOwesNothing DEF Failed
    <2> QED  BY <1>0, <1>1, <1>2, <2>1, <2>2, ApplySerial DEF At
  <1>4. CASE ~(Failed(i, q) /\ UNCHANGED <<secret, minted>>)
    <2>1. PICK R \in SUBSET Role :
            /\ q = [o EXCEPT !.todo = o.todo \ {x}, !.rotate = R]
            /\ UNCHANGED row
            /\ \/ R = o.rotate /\ secret[c][x] # 0 /\ UNCHANGED <<secret, minted>>
               \/ /\ R = o.rotate /\ secret[c][x] = 0 /\ UNCHANGED minted
                  /\ s # NoCluster /\ secret[s][x] # 0
                  /\ secret' = [secret EXCEPT ![c][x] = secret[s][x]]
               \/ /\ R = IF s # NoCluster THEN o.rotate \cup {x} ELSE o.rotate
                  /\ secret[c][x] = 0 /\ minted' = minted + 1
                  /\ secret' = [secret EXCEPT ![c][x] = minted + 1]
      <3>1. \A y : [o EXCEPT !.todo = y] = [o EXCEPT !.todo = y, !.rotate = o.rotate]
        BY <1>1 DEF OpState
      <3>2. o.rotate \in SUBSET Role
        BY <1>1 DEF OpState
      <3>3. CASE /\ q = [o EXCEPT !.todo = o.todo \ {x}]
                 /\ secret[c][x] # 0 /\ UNCHANGED <<row, secret, minted>>
        BY <3>1, <3>2, <3>3
      <3>4. CASE /\ q = [o EXCEPT !.todo = o.todo \ {x}]
                 /\ secret[c][x] = 0 /\ s # NoCluster /\ secret[s][x] # 0
                 /\ secret' = [secret EXCEPT ![c][x] = secret[s][x]]
                 /\ UNCHANGED <<row, minted>>
        BY <3>1, <3>2, <3>4
      <3>5. CASE /\ q = [o EXCEPT !.todo = o.todo \ {x},
                            !.rotate = IF s # NoCluster THEN o.rotate \cup {x} ELSE o.rotate]
                 /\ secret[c][x] = 0 /\ secret' = [secret EXCEPT ![c][x] = minted + 1]
                 /\ minted' = minted + 1 /\ UNCHANGED row
        BY <3>2, <3>5
      <3> QED  BY <1>2, <1>4, <3>3, <3>4, <3>5, Zenon DEF Ensured
    <2>2. /\ q.kind = o.kind /\ q.pc = "secrets" /\ q.cluster = c /\ q.boot = o.boot
          /\ q.image = o.image /\ q.named = o.named /\ q.own = o.own
          /\ q.todo = o.todo \ {x} /\ q.rotate = R /\ q.fair = o.fair
      BY <1>1, <2>1 DEF OpState
    <2>3. /\ World' /\ secret'[c][x] # 0
          /\ \A y \in Role : y # x => secret'[c][y] = secret[c][y]
          /\ \A d \in Cluster : d # c => secret'[d] = secret[d]
      <3>0. minted \in Nat /\ secret \in [Cluster -> [Role -> Nat]]
        BY <1>1 DEF TypeOK, Passwords
      <3>1. CASE secret[c][x] # 0 /\ UNCHANGED <<secret, minted>>
        <4>1. World'
          BY <1>0, <2>1, <3>1, WorldKept DEF Known
        <4> QED  BY <3>1, <4>1
      <3>2. ASSUME NEW n \in Nat, n # 0, secret' = [secret EXCEPT ![c][x] = n],
                   secret[c][x] = 0, minted' \in Nat, minted <= minted'
            PROVE  /\ World' /\ secret'[c][x] # 0
                   /\ \A y \in Role : y # x => secret'[c][y] = secret[c][y]
                   /\ \A d \in Cluster : d # c => secret'[d] = secret[d]
        <4>1. c \in Cluster /\ UNCHANGED <<row, box, volume, repo, stanza, sound>>
          BY <1>0, <1>1, <2>1
        <4>2. /\ World' /\ secret'[c][x] = n
              /\ \A y \in Role : y # x => secret'[c][y] = secret[c][y]
              /\ \A d \in Cluster : d # c => secret'[d] = secret[d]
          BY <3>2, <4>1, SecretSet
        <4> QED  BY <3>2, <4>2
      <3>3. CASE /\ secret[c][x] = 0 /\ UNCHANGED minted
                 /\ s # NoCluster /\ secret[s][x] # 0
                 /\ secret' = [secret EXCEPT ![c][x] = secret[s][x]]
        <4>1. s \in Cluster
          BY <1>1, <3>3 DEF Initdb
        <4>2. PICK n \in Nat : n = secret[s][x]
          BY <3>0, <4>1
        <4>3. n # 0 /\ secret' = [secret EXCEPT ![c][x] = n]
          BY <3>3, <4>2
        <4>4. minted' \in Nat /\ minted <= minted'
          BY <3>0, <3>3
        <4> QED  BY <3>2, <3>3, <4>3, <4>4
      <3>4. CASE /\ secret[c][x] = 0 /\ minted' = minted + 1
                 /\ secret' = [secret EXCEPT ![c][x] = minted + 1]
        <4>1. PICK n \in Nat : n = minted + 1
          BY <3>0
        <4>2. n # 0 /\ secret' = [secret EXCEPT ![c][x] = n]
          BY <3>0, <3>4, <4>1
        <4>3. minted' \in Nat /\ minted <= minted'
          BY <3>0, <3>4
        <4> QED  BY <3>2, <3>4, <4>2, <4>3
      <3> QED  BY <2>1, <3>1, <3>3, <3>4
    <2>4. OpInv(q)'
      <3>1. ApplyInv(q)'
        <4>1. \A y \in Role \ q.todo : secret'[c][y] # 0
          BY <1>1, <2>2, <2>3 DEF ApplyInv
        <4> QED  BY <1>1, <2>1, <2>2, <4>1 DEF ApplyInv, Known, ApplyPc
      <3>2. RestoreInv(q)'
        BY <1>0, <1>1, <2>1, <2>2 DEF RestoreInv
      <3>3. FreshInv(q)'
        BY <1>0, <1>1, <2>2 DEF FreshInv
      <3>4. FairInv(q)'
        <4>1. ASSUME o.kind = "restore", o.fair
              PROVE  /\ \A y \in q.todo : secret'[c][y] = 0
                     /\ \A y \in Role \ (q.todo \cup q.rotate) :
                           secret'[c][y] = repo[s][o.boot.label].pw[y]
                     /\ \A y \in Role :
                           secret'[s][y] \in {0, repo[s][o.boot.label].pw[y]}
          <5>1. /\ \A y \in Role : secret[s][y] \in {0, repo[s][o.boot.label].pw[y]}
                /\ \A y \in o.todo : secret[c][y] = 0
                /\ \A y \in Role \ (o.todo \cup o.rotate) :
                      secret[c][y] = repo[s][o.boot.label].pw[y]
            BY <1>1, <4>1 DEF FairInv
          <5>2. s # NoCluster /\ o.todo \subseteq Role /\ secret'[s] = secret[s]
            BY <1>1, <2>3, <4>1, BackupsOK DEF OpState
          <5>3. secret[c][x] = 0
            BY <1>0, <5>1
          <5>4. \/ R = o.rotate \cup {x}
                \/ /\ R = o.rotate
                   /\ secret'[c][x] = repo[s][o.boot.label].pw[x]
            <6>1. secret \in [Cluster -> [Role -> Nat]]
              BY <1>1 DEF TypeOK, Passwords
            <6>2. secret' = [secret EXCEPT ![c][x] = secret[s][x]] =>
                     secret'[c][x] = secret[s][x]
              BY <1>1, <6>1
            <6>3. secret[s][x] # 0 => secret[s][x] = repo[s][o.boot.label].pw[x]
              BY <5>1
            <6> QED  BY <2>1, <5>2, <5>3, <6>2, <6>3
          <5> HIDE <1>r
          <5>5. /\ q.todo = o.todo \ {x} /\ q.rotate = R
                /\ \A y \in Role : y # x => secret'[c][y] = secret[c][y]
            BY <2>2, <2>3
          <5>6. \A y \in q.todo : secret'[c][y] = 0
            BY <5>1, <5>2, <5>5
          <5>7. \A y \in Role \ (q.todo \cup q.rotate) :
                           secret'[c][y] = repo[s][o.boot.label].pw[y]
            BY <5>1, <5>4, <5>5
          <5> QED  BY <5>1, <5>2, <5>6, <5>7
        <4>2. q.kind = "restore" /\ q.fair => o.kind = "restore" /\ o.fair
          BY <2>2
        <4>3. /\ q.pc = "secrets" /\ q.cluster = c /\ q.boot = o.boot
              /\ o.boot.from = s /\ repo' = repo
          BY <1>0, <2>2
        <4> HIDE <1>r
        <4> QED  BY <4>1, <4>2, <4>3 DEF FairInv
      <3> QED  BY <1>1, <2>2, <3>1, <3>2, <3>3, <3>4, ApplyOwes
    <2> QED  BY <1>0, <1>1, <1>2, <2>3, <2>4, ApplySerial DEF At
  <1> QED  BY <1>3, <1>4

LEMMA RotateRoleSerial ==
    ASSUME SerialInv, NEW i \in Cli, NEW x \in Role, RotateRole(i, x)
    PROVE  SerialInv'
  <1>r. PICK o, c : o = op[i] /\ c = op[i].cluster
    OBVIOUS
  <1> USE <1>r
  <1>0. /\ Applying(i, "rotate") /\ "rotate" \in ApplyPc /\ TypeInv' /\ x \in o.rotate
        /\ UNCHANGED <<secret, box, jobs, repo, stanza, minted, sound>>
    BY SecretsTyped, ApplyPcs DEF SerialInv, RotateRole, repository, counters
  <1>1. /\ TypeInv /\ TypeOK /\ o \in OpState /\ c \in Cluster
        /\ o.kind = "restore" /\ o.pc = "rotate"
        /\ ApplyInv(o) /\ RestoreInv(o) /\ FreshInv(o) /\ FairInv(o)
        /\ Fits(c) /\ Lineage(c) /\ Sound(c)
    BY <1>0, ApplyView
  <1>2. PICK q \in OpState : Moves(i, q) /\ Rotated(i, x, q)
    BY <1>1, RotateRoleOp
  <1>3. CASE Failed(i, q) /\ UNCHANGED volume
    <2>1. World'
      <3>1. \A d \in Cluster : row'[d].image = row[d].image /\ (Known(d) => Known(d)')
        BY <1>1, <1>3, PhaseWorld DEF Failed
      <3> QED  BY <1>0, <1>3, <3>1, WorldKept
    <2>2. OpInv(q)'
      BY <1>3, Values, FreeOwesNothing DEF Failed
    <2> QED  BY <1>0, <1>1, <1>2, <2>1, <2>2, ApplySerial DEF At
  <1>4. CASE /\ q = [o EXCEPT !.rotate = o.rotate \ {x}]
             /\ secret[c][x] # 0 /\ box[c].state = "up" /\ UNCHANGED row
             /\ volume' = [volume EXCEPT ![c].pw[x] = secret[c][x]]
    <2>1. /\ q.kind = "restore" /\ q.pc = "rotate" /\ q.cluster = c /\ q.boot = o.boot
          /\ q.image = o.image /\ q.wait = o.wait
          /\ q.rotate = o.rotate \ {x} /\ q.fair = o.fair
      BY <1>1, <1>4 DEF OpState
    <2>2. /\ volume[c] \in VolState /\ volume \in [Cluster -> VolState]
          /\ volume[c].pw \in [Role -> Nat] /\ secret[c] \in [Role -> Nat]
      BY <1>1, TypeParts DEF VolState, Passwords
    <2>3. PICK w : w = [volume[c].pw EXCEPT ![x] = secret[c][x]]
      OBVIOUS
    <2>4. PICK v : v = [volume[c] EXCEPT !.pw = w]
      OBVIOUS
    <2>5. volume' = [volume EXCEPT ![c] = v]
      BY <1>4, <2>3, <2>4
    <2>6. /\ volume'[c] = v /\ v.pw = w /\ v.state = volume[c].state
          /\ v.origin = volume[c].origin /\ v.version = volume[c].version
          /\ v.boot = volume[c].boot
          /\ \A d \in Cluster : d # c => volume'[d] = volume[d]
      BY <1>1, <2>2, <2>4, <2>5 DEF VolState
    <2>7. /\ w[x] = secret[c][x] /\ \A y \in Role : y # x => w[y] = volume[c].pw[y]
          /\ secret[c] = volume[c].pw => w = secret[c]
      BY <2>2, <2>3
    <2>8. World'
      <3>1. \A d \in Cluster : d # c => Fits(d)' /\ Lineage(d)' /\ Sound(d)'
        <4>1. minted \in Nat
          BY <1>1 DEF TypeOK
        <4> QED  BY <1>0, <1>4, <2>6, <4>1, ClusterKept DEF Known
      <3>2. Fits(c)'
        BY <1>0, <1>1, <1>4, <2>6 DEF Fits, Known, Whole
      <3>3. Lineage(c)'
        BY <1>0, <1>1, <1>4, <2>6 DEF Lineage, Whole
      <3>4. Sound(c)'
        BY <1>0, <1>1, <2>6, <2>7 DEF Sound, Whole
      <3> QED  BY <3>1, <3>2, <3>3, <3>4 DEF World
    <2>9. OpInv(q)'
      <3>1. ApplyInv(q)'
        BY <1>0, <1>1, <1>4, <2>1, <2>6 DEF ApplyInv, Known, Whole, ApplyPc
      <3>2. RestoreInv(q)'
        BY <1>0, <1>1, <2>1, <2>6 DEF RestoreInv, Whole
      <3>3. FreshInv(q)'
        BY <2>1 DEF FreshInv
      <3>4. FairInv(q)'
        <4>1. q.fair /\ q.wait =>
                \A y \in Role \ o.rotate : volume[c].pw[y] = secret[c][y]
          BY <1>1, <2>1 DEF FairInv
        <4>2. q.fair /\ q.wait =>
                \A y \in Role \ q.rotate : w[y] = secret[c][y]
          BY <2>1, <2>7, <4>1
        <4>3. q.wait
          BY <1>1, <2>1 DEF ApplyInv
        <4> QED  BY <1>0, <2>1, <2>6, <4>2, <4>3 DEF FairInv
      <3> QED  BY <2>1, <3>1, <3>2, <3>3, <3>4, ApplyOwes
    <2> QED  BY <1>0, <1>1, <1>2, <2>8, <2>9, ApplySerial DEF At
  <1> QED  BY <1>2, <1>3, <1>4 DEF Rotated


\* The end of an apply that failed.
LEMMA FailSerial ==
    ASSUME SerialInv, NEW i \in Cli, NEW pc \in ApplyPc, Applying(i, pc), FailApply(i),
           TypeInv', UNCHANGED <<secret, box, volume, jobs, repo, stanza, minted, sound>>
    PROVE  SerialInv'
  <1>1. /\ op[i].cluster \in Cluster /\ op[i].kind \in {"apply", "restore"}
        /\ op \in [Cli -> OpState]
    BY ApplyView DEF TypeInv
  <1>2. Moves(i, Idle) /\ Idle \in OpState
    BY <1>1, EndOp DEF FailApply
  <1>3. OpInv(Idle)'
    BY Values, FreeOwesNothing
  <1>4. World'
    <2>1. \A d \in Cluster : row'[d].image = row[d].image /\ (Known(d) => Known(d)')
      BY <1>1, PhaseWorld DEF FailApply
    <2> QED  BY <2>1, WorldKept
  <1> QED  BY <1>1, <1>2, <1>3, <1>4, ApplySerial DEF At

LEMMA CreateVolumeSerial ==
    ASSUME SerialInv, NEW i \in Cli, CreateVolume(i)
    PROVE  SerialInv'
  <1>r. PICK o, c : o = op[i] /\ c = op[i].cluster
    OBVIOUS
  <1>0. /\ Applying(i, "secrets") /\ "secrets" \in ApplyPc /\ TypeInv'
        /\ UNCHANGED <<secret, box, jobs, repo, stanza, minted, sound>>
    BY InstanceTyped, ApplyPcs DEF SerialInv, CreateVolume, repository, counters
  <1>1. /\ TypeInv /\ TypeOK /\ o \in OpState /\ c \in Cluster /\ o.cluster = c
        /\ o.kind \in {"apply", "restore"} /\ o.pc = "secrets"
        /\ ApplyInv(o) /\ RestoreInv(o) /\ FreshInv(o) /\ FairInv(o)
        /\ Fits(c) /\ Lineage(c) /\ Sound(c)
    BY <1>r, <1>0, ApplyView
  <1>2. CASE FailApply(i) /\ UNCHANGED volume
    BY <1>0, <1>2, FailSerial
  <1>3. CASE /\ volume' = [volume EXCEPT ![c].state = IF @ = "none" THEN "empty" ELSE @]
             /\ Goto(i, "box") /\ UNCHANGED row
    <2>0. "box" \in PcState /\ op \in [Cli -> OpState]
      BY <1>1, ApplyPcs DEF TypeInv
    <2>1. PICK r \in OpState : Moves(i, r) /\ r = [o EXCEPT !.pc = "box"]
      BY <1>r, <1>3, <2>0, GotoOp
    <2>2. /\ r.pc = "box" /\ r.kind = o.kind /\ r.cluster = c /\ r.boot = o.boot
          /\ r.image = o.image /\ r.wait = o.wait
          /\ r.rotate = o.rotate /\ r.fair = o.fair
      BY <1>1, <2>1, NextStep
    <2>3. o.todo = {}
      BY <1>r DEF CreateVolume
    <2>4. /\ volume'[c].state = IF volume[c].state = "none" THEN "empty"
                                ELSE volume[c].state
          /\ SameData(c) /\ \A d \in Cluster : d # c => volume'[d] = volume[d]
      <3>1. PICK x \in VolStates :
              x = IF volume[c].state = "none" THEN "empty" ELSE volume[c].state
        BY <1>1, TypeParts DEF VolState, VolStates
      <3>2. volume' = [volume EXCEPT ![c].state = x]
        BY <1>3, <3>1
      <3>3. volume \in [Cluster -> VolState]
        BY <1>1, TypeParts
      <3>4. \A d \in Cluster : d # c => volume'[d] = volume[d]
        BY <3>2, <3>3
      <3>5. volume'[c].state = x /\ SameData(c)
        BY <1>1, <3>2, VolStateSet
      <3> QED  BY <3>1, <3>4, <3>5
    <2>5. World'
      <3>1. \A d \in Cluster : d # c => Fits(d)' /\ Lineage(d)' /\ Sound(d)'
        <4>1. minted \in Nat
          BY <1>1 DEF TypeOK
        <4> QED  BY <1>0, <1>3, <2>4, <4>1, ClusterKept DEF Known
      <3>2. Known(c)
        BY <1>1 DEF ApplyInv, ApplyPc
      <3>3. Fits(c)'
        BY <1>0, <1>1, <1>3, <2>4, <3>2 DEF Fits, Known, Whole, SameData
      <3>4. Lineage(c)'
        BY <1>0, <1>1, <1>3, <2>4 DEF Lineage, Whole, SameData
      <3>5. Sound(c)'
        BY <1>0, <1>1, <2>4 DEF Sound, Whole, SameData
      <3> QED  BY <3>1, <3>3, <3>4, <3>5 DEF World
    <2>6. OpInv(r)'
      <3>1. ApplyInv(r)'
        <4>1. /\ Known(c) /\ row[c].image = o.image
              /\ \A x \in Role : secret[c][x] # 0
          BY <1>1, <2>3 DEF ApplyInv, ApplyPc
        <4> QED  BY <1>0, <1>3, <2>2, <4>1 DEF ApplyInv, Known, ApplyPc
      <3>2. RestoreInv(r)'
        BY <1>0, <1>1, <2>2, <2>4 DEF RestoreInv
      <3>3. FreshInv(r)'
        BY <1>0, <1>1, <2>2, <2>4 DEF FreshInv
      <3>4. FairInv(r)'
        <4>1. o.kind = "restore" /\ o.fair =>
                 \A x \in Role \ o.rotate :
                    secret[c][x] = repo[o.boot.from][o.boot.label].pw[x]
          BY <1>1, <2>3 DEF FairInv
        <4> QED  BY <1>0, <2>2, <4>1 DEF FairInv
      <3> QED  BY <1>1, <2>2, <3>1, <3>2, <3>3, <3>4, ApplyOwes
    <2> QED  BY <1>r, <1>0, <1>1, <2>1, <2>5, <2>6, ApplySerial DEF At
  <1> QED  BY <1>r, <1>2, <1>3 DEF CreateVolume

LEMMA RefuseSerial ==
    ASSUME SerialInv, NEW i \in Cli, RefuseInstance(i)
    PROVE  SerialInv'
  <1>1. Applying(i, "box") /\ "box" \in ApplyPc /\ FailApply(i) /\ TypeInv'
    BY InstanceTyped, ApplyPcs DEF SerialInv, RefuseInstance
  <1>2. UNCHANGED <<secret, box, volume, jobs, repo, stanza, minted, sound>>
    BY DEF RefuseInstance, containers, repository, counters
  <1> QED  BY <1>1, <1>2, FailSerial

LEMMA BoxOfApplySerial ==
    ASSUME SerialInv, NEW i \in Cli, AdoptInstance(i) \/ CreateInstance(i)
    PROVE  SerialInv'
  <1>r. PICK o, c : o = op[i] /\ c = op[i].cluster
    OBVIOUS
  <1>0. /\ Applying(i, "box") /\ "box" \in ApplyPc /\ TypeInv' /\ Goto(i, "wait")
        /\ UNCHANGED <<row, secret, jobs, repo, stanza, minted, sound>>
    BY BoxOfApplyTyped, ApplyPcs
       DEF SerialInv, AdoptInstance, CreateInstance, repository, counters
  <1>1. /\ TypeInv /\ TypeOK /\ o \in OpState /\ c \in Cluster /\ o.cluster = c
        /\ o.kind \in {"apply", "restore"} /\ o.pc = "box"
        /\ ApplyInv(o) /\ RestoreInv(o) /\ FreshInv(o) /\ FairInv(o)
        /\ Fits(c) /\ Lineage(c) /\ Sound(c)
    BY <1>r, <1>0, ApplyView
  <1>2. /\ \A d \in Cluster : d # c => box'[d] = box[d] /\ volume'[d] = volume[d]
        /\ box'[c].boot = o.boot /\ box'[c].image = o.image
        /\ \/ /\ box[c].state # "none" /\ volume'[c] = volume[c]
              /\ box'[c] = box[c] \/ box'[c].state = "booting"
           \/ /\ box'[c].state = "booting" /\ box'[c].creds = secret[c]
              /\ volume'[c].state = IF volume[c].state = "restoring" THEN "partial"
                                    ELSE volume[c].state
              /\ SameData(c)
    BY <1>r, <1>1, BoxOfApply
  <1>3. "wait" \in PcState /\ op \in [Cli -> OpState]
    BY <1>1, ApplyPcs DEF TypeInv
  <1>4. PICK r \in OpState : Moves(i, r) /\ r = [o EXCEPT !.pc = "wait"]
    BY <1>r, <1>0, <1>3, GotoOp
  <1>5. /\ r.pc = "wait" /\ r.kind = o.kind /\ r.cluster = c /\ r.boot = o.boot
        /\ r.image = o.image /\ r.wait = o.wait
        /\ r.rotate = o.rotate /\ r.fair = o.fair
    BY <1>1, <1>4, NextStep
  <1>6. /\ Known(c) /\ row[c].image = o.image /\ \A x \in Role : secret[c][x] # 0
    BY <1>1 DEF ApplyInv, ApplyPc
  <1>7. World'
    <2>1. \A d \in Cluster : d # c => Fits(d)' /\ Lineage(d)' /\ Sound(d)'
      <3>1. minted \in Nat
        BY <1>1 DEF TypeOK
      <3> QED  BY <1>0, <1>2, <3>1, ClusterKept DEF Known
    <2>2. Whole(c)' = Whole(c) /\ SameData(c)
      BY <1>2 DEF Whole, SameData
    <2>3. Fits(c)'
      <3>1. CASE box'[c].state = "booting"
        BY <1>0, <1>2, <1>6, <3>1 DEF Fits, Known
      <3>2. CASE box'[c] = box[c] /\ volume'[c] = volume[c]
        BY <1>0, <1>1, <3>2 DEF Fits, Known, Whole
      <3> QED  BY <1>2, <3>1, <3>2
    <2>4. Lineage(c)'
      BY <1>0, <1>1, <2>2 DEF Lineage, SameData
    <2>5. Sound(c)'
      BY <1>0, <1>1, <2>2 DEF Sound, SameData
    <2> QED  BY <2>1, <2>3, <2>4, <2>5 DEF World
  <1>8. OpInv(r)'
    <2>1. box'[c].state # "none"
      BY <1>2
    <2>2. ApplyInv(r)'
      BY <1>0, <1>2, <1>5, <1>6, <2>1 DEF ApplyInv, Known, ApplyPc
    <2>3. RestoreInv(r)'
      <3>1. o.kind = "restore" => volume'[c].state = "empty"
        BY <1>1, <1>2 DEF RestoreInv
      <3> QED  BY <1>5, <3>1 DEF RestoreInv, Whole
    <2>4. FreshInv(r)'
      <3>1. o.kind = "apply" /\ o.fair =>
               volume'[c].state = "empty" /\ box'[c].creds = secret[c]
        BY <1>1, <1>2 DEF FreshInv
      <3> QED  BY <1>0, <1>5, <3>1 DEF FreshInv, Whole
    <2>5. FairInv(r)'
      <3>1. o.kind = "restore" /\ o.fair =>
               /\ volume'[c].state = "empty"
               /\ \A x \in Role \ o.rotate :
                    secret[c][x] = repo[o.boot.from][o.boot.label].pw[x]
        BY <1>1, <1>2 DEF FairInv, RestoreInv
      <3> QED  BY <1>0, <1>5, <3>1 DEF FairInv, Whole
    <2> QED  BY <1>1, <1>5, <2>2, <2>3, <2>4, <2>5, ApplyOwes
  <1> QED  BY <1>r, <1>0, <1>1, <1>4, <1>7, <1>8, ApplySerial DEF At

LEMMA WaitReadySerial ==
    ASSUME SerialInv, NEW i \in Cli, WaitReady(i)
    PROVE  SerialInv'
  <1>r. PICK o, c : o = op[i] /\ c = op[i].cluster
    OBVIOUS
  <1>0. /\ Applying(i, "wait") /\ "wait" \in ApplyPc /\ TypeInv'
        /\ UNCHANGED <<secret, box, volume, jobs, repo, stanza, minted, sound>>
    BY InstanceTyped, ApplyPcs
       DEF SerialInv, WaitReady, containers, repository, counters
  <1>1. /\ TypeInv /\ TypeOK /\ o \in OpState /\ c \in Cluster /\ o.cluster = c
        /\ o.kind \in {"apply", "restore"} /\ o.pc = "wait"
        /\ ApplyInv(o) /\ RestoreInv(o) /\ FreshInv(o) /\ FairInv(o) /\ Fits(c)
    BY <1>r, <1>0, ApplyView
  <1>2. CASE FailApply(i)
    BY <1>0, <1>2, FailSerial
  <1>3. ASSUME NEW pc \in {"rotate", "conclude"},
               pc = IF o.wait /\ o.rotate # {} THEN "rotate" ELSE "conclude",
               Goto(i, pc), UNCHANGED row, o.wait => box[c].state \in {"recovering", "up"}
        PROVE  SerialInv'
    <2>0. pc \in PcState /\ op \in [Cli -> OpState]
      BY <1>1, <1>3, ApplyPcs DEF TypeInv
    <2>1. PICK r \in OpState : Moves(i, r) /\ r = [o EXCEPT !.pc = pc]
      BY <1>r, <1>3, <2>0, GotoOp
    <2>2. /\ r.pc = pc /\ r.kind = o.kind /\ r.cluster = c /\ r.boot = o.boot
          /\ r.image = o.image /\ r.wait = o.wait
          /\ r.rotate = o.rotate /\ r.fair = o.fair
      BY <1>1, <2>1, NextStep
    <2>3. World'
      BY <1>0, <1>3, WorldKept DEF Known
    <2>4. o.wait => Whole(c)
      BY <1>1, <1>3 DEF Fits
    <2>5. OpInv(r)'
      <3>1. ApplyInv(r)'
        <4>1. /\ Known(c) /\ row[c].image = o.image
              /\ \A x \in Role : secret[c][x] # 0
              /\ box[c].state # "none" /\ box[c].boot = o.boot
          BY <1>1 DEF ApplyInv, ApplyPc
        <4> QED  BY <1>0, <1>1, <1>3, <2>2, <2>4, <4>1 DEF ApplyInv, Known, Whole, ApplyPc
      <3>2. RestoreInv(r)'
        BY <1>0, <1>1, <2>2, <1>3 DEF RestoreInv, Whole
      <3>3. FreshInv(r)'
        BY <1>0, <1>1, <2>2, <1>3 DEF FreshInv, Whole
      <3>4. FairInv(r)'
        <4>1. o.kind = "restore" /\ o.fair /\ o.wait =>
                 \A x \in Role \ o.rotate : volume[c].pw[x] = secret[c][x]
          BY <1>1, <2>4 DEF FairInv
        <4> QED  BY <1>0, <1>3, <2>2, <4>1 DEF FairInv
      <3> QED  BY <1>1, <2>2, <3>1, <3>2, <3>3, <3>4, ApplyOwes
    <2> QED  BY <1>r, <1>0, <1>1, <2>1, <2>3, <2>5, ApplySerial DEF At
  <1> QED  BY <1>r, <1>2, <1>3 DEF WaitReady

LEMMA ConcludeSerial ==
    ASSUME SerialInv, NEW i \in Cli, Conclude(i)
    PROVE  SerialInv'
  <1>r. PICK o, c : o = op[i] /\ c = op[i].cluster
    OBVIOUS
  <1>0. PICK pc \in {"rotate", "conclude"} :
          Applying(i, pc) /\ (pc = "rotate" => op[i].rotate = {})
    BY DEF Conclude
  <1>1. /\ TypeInv /\ TypeOK /\ o \in OpState /\ c \in Cluster /\ o.cluster = c
        /\ o.kind \in {"apply", "restore"} /\ o.pc = pc
        /\ ApplyInv(o) /\ RestoreInv(o) /\ FreshInv(o) /\ FairInv(o)
        /\ Fits(c) /\ Lineage(c) /\ Sound(c)
    BY <1>r, <1>0, ApplyPcs, ApplyView
  <1>2. /\ row' = [row EXCEPT ![c].phase = "running"] /\ Goto(i, "report") /\ TypeInv'
        /\ UNCHANGED <<secret, box, volume, jobs, repo, stanza, minted>>
        /\ sound' = IF o.wait /\ o.fair THEN sound \cup {c} ELSE sound
    BY <1>r, <1>1, InstanceTyped DEF Conclude, containers, repository
  <1>3. "report" \in PcState /\ op \in [Cli -> OpState]
    BY <1>1, ApplyPcs DEF TypeInv
  <1>4. PICK r \in OpState : Moves(i, r) /\ r = [o EXCEPT !.pc = "report"]
    BY <1>r, <1>2, <1>3, GotoOp
  <1>5. /\ r.pc = "report" /\ r.kind = o.kind /\ r.cluster = c /\ r.boot = o.boot
        /\ r.image = o.image /\ r.wait = o.wait
    BY <1>1, <1>4, NextStep
  <1>6. \A d \in Cluster : row'[d].image = row[d].image /\ (Known(d) => Known(d)')
    BY <1>1, <1>2, PhaseWorld
  <1>7. ASSUME o.wait, o.fair
        PROVE  /\ Whole(c) /\ \A x \in Role : secret[c][x] # 0
               /\ secret[c] = volume[c].pw
    <2>1. Whole(c) /\ \A x \in Role : secret[c][x] # 0
      BY <1>1, <1>7 DEF ApplyInv
    <2>2. o.rotate = {}
      BY <1>r, <1>0, <1>1, <1>7 DEF ApplyInv
    <2>3. \A x \in Role : volume[c].pw[x] = secret[c][x]
      <3>1. CASE o.kind = "apply"
        BY <1>1, <1>7, <2>1, <3>1 DEF FreshInv
      <3>2. CASE o.kind = "restore"
        BY <1>1, <1>7, <2>2, <3>2 DEF FairInv
      <3> QED  BY <1>1, <3>1, <3>2
    <2>4. secret[c] \in [Role -> Nat] /\ volume[c].pw \in [Role -> Nat]
      BY <1>1, TypeParts DEF VolState, Passwords
    <2> QED  BY <2>1, <2>3, <2>4
  <1>8. World'
    <2>0. minted \in Nat
      BY <1>1 DEF TypeOK
    <2>1. ASSUME NEW d \in Cluster, d # c \/ ~(o.wait /\ o.fair)
          PROVE  Fits(d)' /\ Lineage(d)' /\ Sound(d)'
      <3>1. d \in sound' => d \in sound
        BY <1>2, <2>1
      <3> QED  BY <1>2, <1>6, <2>0, <3>1, ClusterKept
    <2>2. ASSUME o.wait, o.fair PROVE Fits(c)' /\ Lineage(c)' /\ Sound(c)'
      <3>1. Fits(c)'
        BY <1>1, <1>2, <1>6 DEF Fits, Whole
      <3>2. Lineage(c)'
        BY <1>1, <1>2, <1>6 DEF Lineage, Whole
      <3>3. Sound(c)'
        BY <1>2, <1>7, <2>2 DEF Sound, Whole
      <3> QED  BY <3>1, <3>2, <3>3
    <2> QED  BY <2>1, <2>2 DEF World
  <1>9. OpInv(r)'
    <2>1. /\ Known(c)' /\ row'[c].image = o.image
          /\ box[c].state # "none" /\ box[c].boot = o.boot
      BY <1>1, <1>6 DEF ApplyInv, ApplyPc
    <2>2. ApplyInv(r)'
      BY <1>2, <1>5, <2>1 DEF ApplyInv
    <2>3. RestoreInv(r)'
      BY <1>1, <1>2, <1>5 DEF RestoreInv, Whole
    <2>4. FreshInv(r)' /\ FairInv(r)'
      BY <1>5 DEF FreshInv, FairInv
    <2> QED  BY <1>1, <1>5, <2>2, <2>3, <2>4, ApplyOwes
  <1> QED  BY <1>r, <1>1, <1>2, <1>4, <1>8, <1>9, ApplySerial DEF At

LEMMA ReportSerial ==
    ASSUME SerialInv, NEW i \in Cli, Report(i)
    PROVE  SerialInv'
  <1>1. /\ TypeInv' /\ op \in [Cli -> OpState] /\ op[i].pc = "report"
        /\ UNCHANGED <<row, secret, box, volume, jobs, repo, stanza, minted, sound>>
    BY ReportTyped DEF SerialInv, TypeInv, Report, containers, repository, counters
  <1>2. World'
    BY <1>1, WorldKept DEF Known
  <1>3. Moves(i, Idle) /\ Idle \in OpState /\ OpInv(Idle)'
    BY <1>1, EndOp, Values, FreeOwesNothing DEF Report
  <1>4. CASE op[i].kind # "idle"
    BY <1>1, <1>2, <1>3, <1>4, ApplySerial DEF At
  <1>5. CASE op[i].kind = "idle"
    <2>1. ASSUME NEW j \in Cli PROVE op'[j].kind = op[j].kind /\ (op'[j] = op[j] \/ op'[j] = Idle)
      BY <1>3, <1>5, Values DEF Moves
    <2>2. Solo'
      BY <2>1 DEF SerialInv, Solo
    <2>3. JobsInv'
      <3>1. ASSUME NEW j \in Cli, op[j].kind = "backup" PROVE op'[j] = op[j]
        BY <1>3, <1>5, <3>1 DEF Moves
      <3>2. JobsInv /\ \A j \in jobs : j.owner # 0 => j.owner \in Cli
        BY DEF SerialInv, TypeInv, TypeOK
      <3> QED  BY <1>1, <3>1, <3>2 DEF JobsInv, At, Made
    <2>4. ASSUME NEW j \in Cli PROVE OpInv(op[j])'
      <3>1. CASE op'[j] = Idle
        BY <1>3, <3>1, Carried
      <3>2. CASE op'[j] = op[j]
        <4>1. PICK p : p = op[j]
          OBVIOUS
        <4>2. OpInv(p)
          BY <4>1 DEF SerialInv
        <4>3. OpInv(p)'
          BY <1>1, <4>2 DEF OpInv, BackupInv, ApplyInv, RestoreInv, FreshInv, FairInv,
                             DeleteInv, Made, Known, Whole
        <4> QED  BY <3>2, <4>1, <4>3, Carried
      <3> QED  BY <2>1, <3>1, <3>2
    <2> QED  BY <1>1, <1>2, <2>2, <2>3, <2>4 DEF SerialInv
  <1> QED  BY <1>4, <1>5


-----------------------------------------------------------------------------
(* delete, and a command that dies, when commands take turns.              *)

LEMMA EndSerial ==
    ASSUME SerialInv, NEW i \in Cli, op[i].kind # "idle", ~At(i, "backup", "wait"),
           End(i), UNCHANGED jobs, TypeInv', World'
    PROVE  SerialInv'
  <1>1. op \in [Cli -> OpState]
    BY DEF SerialInv, TypeInv
  <1>2. Moves(i, Idle) /\ Idle \in OpState /\ OpInv(Idle)'
    BY <1>1, EndOp, Values, FreeOwesNothing
  <1> QED  BY <1>2, ApplySerial

LEMMA DeleteOwes ==
    ASSUME NEW r, r.kind = "delete", DeleteInv(r)'
    PROVE  OpInv(r)'
  BY DEF OpInv, BackupInv, ApplyInv, RestoreInv, FreshInv, FairInv

LEMMA DeleteView ==
    ASSUME SerialInv, NEW i \in Cli, op[i].kind = "delete"
    PROVE  /\ TypeInv /\ TypeOK /\ op[i] \in OpState /\ op \in [Cli -> OpState]
           /\ op[i].cluster \in Cluster /\ DeleteInv(op[i])
           /\ Fits(op[i].cluster) /\ Lineage(op[i].cluster) /\ Sound(op[i].cluster)
  <1>1. TypeInv /\ OpInv(op[i]) /\ World
    BY DEF SerialInv
  <1> QED  BY <1>1 DEF OpInv, World, TypeInv, Shape

LEMMA MarkStoppedSerial ==
    ASSUME SerialInv, NEW i \in Cli, MarkStopped(i)
    PROVE  SerialInv'
  <1>1. /\ op[i].kind = "delete" /\ End(i) /\ TypeInv'
        /\ row' = [row EXCEPT ![op[i].cluster].phase = "stopped"]
        /\ UNCHANGED <<secret, box, volume, jobs, repo, stanza, minted, sound>>
    BY DeleteTyped DEF SerialInv, MarkStopped, At, containers, repository, counters
  <1>2. World'
    <2>1. \A d \in Cluster : row'[d].image = row[d].image /\ (Known(d) => Known(d)')
      BY <1>1, DeleteView, PhaseWorld
    <2> QED  BY <1>1, <2>1, WorldKept
  <1> QED  BY <1>1, <1>2, EndSerial DEF At

LEMMA DeleteContainerSerial ==
    ASSUME SerialInv, NEW i \in Cli, DeleteContainer(i)
    PROVE  SerialInv'
  <1>r. PICK o, c : o = op[i] /\ c = op[i].cluster
    OBVIOUS
  <1>0. /\ o.kind = "delete" /\ TypeInv'
        /\ UNCHANGED <<row, secret, jobs, repo, stanza, minted, sound>>
    BY <1>r, DeleteContainerTyped
       DEF SerialInv, DeleteContainer, At, repository, counters
  <1>1. /\ TypeOK /\ o \in OpState /\ op \in [Cli -> OpState] /\ c \in Cluster
        /\ o.cluster = c /\ Fits(c) /\ Lineage(c) /\ Sound(c)
    BY <1>r, <1>0, DeleteView
  <1>2. CASE End(i) /\ UNCHANGED <<box, volume>>
    <2>1. World'
      BY <1>0, <1>2, WorldKept DEF Known
    <2> QED  BY <1>r, <1>0, <1>2, <2>1, EndSerial DEF At
  <1>3. ASSUME NEW pc \in {"volume", "stopped"}, Goto(i, pc),
               box' = [box EXCEPT ![c] = NoBox], volume' = CutShort(c)
        PROVE  SerialInv'
    <2>1. /\ box'[c] = NoBox /\ \A d \in Cluster : d # c => box'[d] = box[d]
      BY <1>1, <1>3, Values, BoxSet
    <2>2. /\ volume'[c].state = IF volume[c].state = "restoring" THEN "partial"
                                ELSE volume[c].state
          /\ SameData(c) /\ \A d \in Cluster : d # c => volume'[d] = volume[d]
      <3>1. \A d \in Cluster : d # c => volume'[d] = volume[d]
        BY <1>1, <1>3, TypeParts DEF CutShort
      <3> QED  BY <1>1, <1>3, <3>1, CutShortVol
    <2>3. PICK r \in OpState : Moves(i, r) /\ r = [o EXCEPT !.pc = pc]
      BY <1>r, <1>1, <1>3, GotoOp, ApplyPcs
    <2>4. r.pc = pc /\ r.kind = "delete" /\ r.cluster = c
      BY <1>0, <1>1, <2>3, NextStep
    <2>5. OpInv(r)'
      BY <1>3, <2>1, <2>4, DeleteOwes DEF DeleteInv, NoBox
    <2>6. World'
      <3>1. \A d \in Cluster : d # c => Fits(d)' /\ Lineage(d)' /\ Sound(d)'
        <4>1. minted \in Nat
          BY <1>1 DEF TypeOK
        <4> QED  BY <1>0, <2>1, <2>2, <4>1, ClusterKept DEF Known
      <3>2. Whole(c)' = Whole(c)
        BY <2>2 DEF Whole
      <3>3. Fits(c)'
        BY <1>0, <1>1, <2>1, <2>2 DEF Fits, Known, NoBox
      <3>4. Lineage(c)'
        BY <1>0, <1>1, <2>2, <3>2 DEF Lineage, SameData
      <3>5. Sound(c)'
        BY <1>0, <1>1, <2>2, <3>2 DEF Sound, SameData
      <3> QED  BY <3>1, <3>3, <3>4, <3>5 DEF World
    <2> QED  BY <1>r, <1>0, <2>3, <2>5, <2>6, ApplySerial DEF At
  <1> QED  BY <1>r, <1>2, <1>3 DEF DeleteContainer, Fails

LEMMA DeleteVolumeSerial ==
    ASSUME SerialInv, NEW i \in Cli, DeleteVolume(i)
    PROVE  SerialInv'
  <1>r. PICK o, c : o = op[i] /\ c = op[i].cluster
    OBVIOUS
  <1>0. /\ o.kind = "delete" /\ o.pc = "volume" /\ TypeInv'
        /\ UNCHANGED <<row, secret, box, jobs, repo, stanza, minted>>
    BY <1>r, DeleteTyped DEF SerialInv, DeleteVolume, At, repository
  <1>1. /\ TypeOK /\ o \in OpState /\ op \in [Cli -> OpState] /\ c \in Cluster
        /\ o.cluster = c /\ DeleteInv(o) /\ Fits(c) /\ Lineage(c) /\ Sound(c)
    BY <1>r, <1>0, DeleteView
  <1>2. CASE End(i) /\ UNCHANGED <<volume, sound>>
    <2>1. World'
      BY <1>0, <1>2, WorldKept DEF Known
    <2> QED  BY <1>r, <1>0, <1>2, <2>1, EndSerial DEF At
  <1>3. CASE /\ Goto(i, "forget") /\ volume' = [volume EXCEPT ![c] = NoData]
             /\ sound' = sound \ {c}
    <2>1. /\ volume'[c] = NoData /\ \A d \in Cluster : d # c => volume'[d] = volume[d]
      BY <1>1, <1>3, Values, VolSet
    <2>2. PICK r \in OpState : Moves(i, r) /\ r = [o EXCEPT !.pc = "forget"]
      BY <1>r, <1>1, <1>3, GotoOp, ApplyPcs
    <2>3. r.pc = "forget" /\ r.kind = "delete" /\ r.cluster = c
      BY <1>0, <1>1, <2>2, NextStep
    <2>4. box[c].state = "none"
      BY <1>0, <1>1 DEF DeleteInv
    <2>5. OpInv(r)'
      BY <1>0, <2>1, <2>3, <2>4, DeleteOwes DEF DeleteInv, NoData
    <2>6. World'
      <3>1. \A d \in Cluster : d # c => Fits(d)' /\ Lineage(d)' /\ Sound(d)'
        <4>1. minted \in Nat
          BY <1>1 DEF TypeOK
        <4> QED  BY <1>0, <1>3, <2>1, <4>1, ClusterKept DEF Known
      <3>2. ~Whole(c)' /\ volume'[c].state = "none"
        BY <2>1 DEF Whole, NoData
      <3>3. Fits(c)'
        BY <1>0, <2>4, <3>2 DEF Fits
      <3>4. Lineage(c)'
        BY <1>0, <1>1, <3>2 DEF Lineage
      <3>5. Sound(c)'
        BY <1>3 DEF Sound
      <3> QED  BY <3>1, <3>3, <3>4, <3>5 DEF World
    <2> QED  BY <1>r, <1>0, <2>2, <2>5, <2>6, ApplySerial DEF At
  <1> QED  BY <1>r, <1>2, <1>3 DEF DeleteVolume

LEMMA ForgetClusterSerial ==
    ASSUME SerialInv, NEW i \in Cli, ForgetCluster(i)
    PROVE  SerialInv'
  <1>r. PICK o, c : o = op[i] /\ c = op[i].cluster
    OBVIOUS
  <1>0. /\ o.kind = "delete" /\ o.pc = "forget" /\ TypeInv' /\ End(i)
        /\ UNCHANGED <<box, volume, jobs, repo, stanza, minted, sound>>
        /\ row' = [row EXCEPT ![c] = NoRow]
        /\ secret' = [secret EXCEPT ![c] = NoPassword] \/ UNCHANGED secret
    BY <1>r, DeleteTyped DEF SerialInv, ForgetCluster, At, repository, counters
  <1>1. /\ TypeOK /\ c \in Cluster /\ o.cluster = c
        /\ DeleteInv(o) /\ Lineage(c) /\ Sound(c)
    BY <1>r, <1>0, DeleteView
  <1>2. /\ volume[c].state = "none" /\ box[c].state = "none"
    BY <1>0, <1>1 DEF DeleteInv
  <1>3. \A d \in Cluster : d # c => row'[d] = row[d] /\ secret'[d] = secret[d]
    BY <1>0, <1>1, TypeParts
  <1>4. World'
    <2>1. \A d \in Cluster : d # c => Fits(d)' /\ Lineage(d)' /\ Sound(d)'
      <3>1. minted \in Nat
        BY <1>1 DEF TypeOK
      <3> QED  BY <1>0, <1>3, <3>1, ClusterKept DEF Known
    <2>2. Fits(c)'
      BY <1>0, <1>2 DEF Fits
    <2>3. Lineage(c)'
      BY <1>0, <1>1, <1>2 DEF Lineage, Whole
    <2>4. Sound(c)'
      BY <1>0, <1>1, <1>2 DEF Sound, Whole
    <2> QED  BY <2>1, <2>2, <2>3, <2>4 DEF World
  <1> QED  BY <1>r, <1>0, <1>4, EndSerial DEF At

LEMMA DiesSerial ==
    ASSUME SerialInv, NEW i \in Cli, Dies(i)
    PROVE  SerialInv'
  <1>1. /\ op[i].kind # "idle" /\ End(i) /\ TypeInv' /\ op \in [Cli -> OpState]
        /\ jobs' = {IF j.owner = i THEN [j EXCEPT !.owner = 0] ELSE j : j \in jobs}
        /\ UNCHANGED <<row, secret, box, volume, repo, stanza, minted, sound>>
    BY DiesTyped DEF SerialInv, TypeInv, Dies, repository, counters
  <1>2. \A j \in Cli : j # i => op[j].kind = "idle"
    BY <1>1, Others
  <1>3. World'
    BY <1>1, WorldKept DEF Known
  <1>4. Moves(i, Idle) /\ Idle \in OpState /\ OpInv(Idle)'
    BY <1>1, EndOp, Values, FreeOwesNothing
  <1>5. ASSUME NEW j \in jobs PROVE j \in JobState /\ (j.owner = i \/ j.owner = 0)
    <2>1. j \in JobState
      BY TypeParts DEF SerialInv, TypeInv
    <2>2. j.owner # 0 => j.owner \in Cli /\ op[j.owner].kind = "backup"
      BY <2>1 DEF JobState, SerialInv, JobsInv, At
    <2> QED  BY <1>2, <2>1, <2>2
  <1>6. ASSUME NEW k \in jobs'
        PROVE  \E j \in jobs : k = [j EXCEPT !.owner = 0] /\ k.owner = 0
                               /\ k.state = j.state /\ k.cluster = j.cluster
    <2>1. PICK j \in jobs : k = IF j.owner = i THEN [j EXCEPT !.owner = 0] ELSE j
      BY <1>1
    <2>2. j.owner # i => j = [j EXCEPT !.owner = 0]
      BY <1>5 DEF JobState
    <2>3. k = [j EXCEPT !.owner = 0]
      BY <2>1, <2>2
    <2>4. k.owner = 0 /\ k.state = j.state /\ k.cluster = j.cluster
      BY <1>5, <2>3 DEF JobState
    <2> QED  BY <2>3, <2>4
  <1>7. JobsInv'
    <2>1. \A k \in jobs' : k.owner = 0
      BY <1>6
    <2>2. ASSUME NEW k \in jobs', NEW l \in jobs', k.state = "running",
                 l.state = "running", k.cluster = l.cluster
          PROVE  k = l
      <3>1. PICK m \in jobs : k = [m EXCEPT !.owner = 0] /\ m.state = "running"
                              /\ m.cluster = k.cluster
        BY <1>6, <2>2
      <3>2. PICK n \in jobs : l = [n EXCEPT !.owner = 0] /\ n.state = "running"
                              /\ n.cluster = l.cluster
        BY <1>6, <2>2
      <3>3. m = n
        BY <2>2, <3>1, <3>2 DEF SerialInv, JobsInv
      <3> QED  BY <3>1, <3>2, <3>3
    <2> QED  BY <2>1, <2>2 DEF JobsInv
  <1> QED  BY <1>1, <1>2, <1>3, <1>4, <1>7, CommandSerial


-----------------------------------------------------------------------------
(* The agents and PostgreSQL, when commands take turns.                    *)

\* A step in which no command moves and no job ends.
LEMMA QuietSerial ==
    ASSUME SerialInv, UNCHANGED <<op, jobs, repo>>, TypeInv', World',
           \A i \in Cli : \A o : o = op[i] => OpInv(o)'
    PROVE  SerialInv'
  <1>1. Solo'
    BY DEF SerialInv, Solo
  <1>2. JobsInv'
    BY DEF SerialInv, JobsInv, At, Made
  <1>3. ASSUME NEW i \in Cli PROVE OpInv(op[i])'
    <2>1. PICK o : o = op[i]
      OBVIOUS
    <2> QED  BY <2>1, Carried
  <1> QED  BY <1>1, <1>2, <1>3 DEF SerialInv

\* The data of a cluster stay what they are, ...
StaysSo(c) ==
    /\ Whole(c)' = Whole(c)
    /\ volume'[c].boot = volume[c].boot /\ volume'[c].origin = volume[c].origin
    /\ volume'[c].pw = volume[c].pw
    /\ volume[c].state = "empty" => volume'[c].state = "empty" \/ box[c].boot # Initdb

\* ... or become those its container was made to put there.
Fills(c) ==
    LET b == box[c].boot IN
    /\ ~Whole(c) /\ Whole(c)' /\ volume'[c].boot = b
    /\ b = Initdb => volume'[c].pw = box[c].creds
    /\ b # Initdb => /\ volume'[c].origin = repo[b.from][b.label].origin
                     /\ volume'[c].pw = repo[b.from][b.label].pw

\* What an agent may do to the cluster whose container it runs in.
Runs(c) ==
    /\ UNCHANGED <<op, row, secret, jobs, repo>>
    /\ SameSpec(c) /\ box[c].state # "none" /\ box'[c].state # "none"
    /\ \A d \in Cluster : d # c => volume'[d] = volume[d]
    /\ volume[c].state # "none" => volume'[c].state # "none"
    /\ StaysSo(c) \/ Fills(c)

LEMMA OwedElsewhere ==
    ASSUME NEW o, OpInv(o), UNCHANGED <<row, secret, jobs, repo>>,
           box'[o.cluster] = box[o.cluster], volume'[o.cluster] = volume[o.cluster]
    PROVE  OpInv(o)'
  <1>1. BackupInv(o)' /\ DeleteInv(o)'
    BY DEF OpInv, BackupInv, DeleteInv, Made
  <1>2. ApplyInv(o)'
    BY DEF OpInv, ApplyInv, Known, Whole
  <1>3. RestoreInv(o)'
    BY DEF OpInv, RestoreInv, Known, Whole
  <1>4. FreshInv(o)'
    BY DEF OpInv, FreshInv, Whole
  <1>5. FairInv(o)'
    BY DEF OpInv, FairInv, Whole
  <1> QED  BY <1>1, <1>2, <1>3, <1>4, <1>5 DEF OpInv

LEMMA OwedHere ==
    ASSUME NEW c \in Cluster, Runs(c), NEW o, o.cluster = c, Shape(o), OpInv(o)
    PROVE  OpInv(o)'
  <1>0. /\ UNCHANGED <<row, secret, jobs, repo>>
        /\ box'[c].boot = box[c].boot /\ box'[c].creds = box[c].creds
        /\ box[c].state # "none" /\ box'[c].state # "none"
        /\ volume[c].state # "none" => volume'[c].state # "none"
        /\ Whole(c) => /\ Whole(c)' /\ volume'[c].boot = volume[c].boot
                       /\ volume'[c].origin = volume[c].origin
                       /\ volume'[c].pw = volume[c].pw
    BY DEF Runs, SameSpec, StaysSo, Fills
  <1>1. CASE o.kind \notin {"apply", "restore"}
    <2>1. BackupInv(o)'
      BY <1>0 DEF OpInv, BackupInv, Made
    <2>2. DeleteInv(o)'
      BY <1>0 DEF OpInv, DeleteInv
    <2> QED  BY <1>1, <2>1, <2>2 DEF OpInv, ApplyInv, RestoreInv, FreshInv, FairInv
  <1>2. ASSUME o.kind \in {"apply", "restore"}
        PROVE  ApplyInv(o)' /\ (Whole(c)' /\ o.pc \in {"wait", "rotate", "conclude", "report"}
                                => Whole(c) \/ (Fills(c) /\ box[c].boot = o.boot))
    <2>1. ApplyInv(o)
      BY DEF OpInv
    <2>2. ApplyInv(o)'
      BY <1>0, <2>1 DEF ApplyInv, Known
    <2>3. Whole(c)' => Whole(c) \/ Fills(c)
      BY DEF Runs, StaysSo
    <2> QED  BY <1>2, <2>1, <2>2, <2>3 DEF ApplyInv
  <1>3. CASE o.kind = "apply"
    <2>1. o.boot = Initdb /\ FreshInv(o)
      BY <1>3 DEF Shape, OpInv
    <2>2. ASSUME o.fair PROVE FreshInv(o)'
      <3>1. CASE o.pc \in {"secrets", "box"}
        BY <1>0, <1>3, <2>1, <2>2, <3>1 DEF FreshInv
      <3>2. CASE o.pc \in {"wait", "rotate", "conclude"}
        <4>1. volume[c].state \in {"empty", "whole"} /\ box[c].creds = secret[c]
          BY <1>3, <2>1, <2>2, <3>2 DEF FreshInv
        <4>2. box[c].boot = Initdb
          BY <1>3, <2>1, <3>2 DEF OpInv, ApplyInv
        <4>3. volume'[c].state \in {"empty", "whole"}
          <5>1. CASE Whole(c)
            BY <1>0, <5>1 DEF Whole
          <5>2. CASE volume[c].state = "empty"
            BY <4>2, <5>2 DEF Runs, StaysSo, Fills, Whole
          <5> QED  BY <4>1, <5>1, <5>2 DEF Whole
        <4>4. Whole(c)' => volume'[c].pw = secret[c]
          <5>1. CASE Whole(c)
            BY <1>0, <1>3, <2>1, <2>2, <3>2, <5>1 DEF FreshInv
          <5>2. CASE Fills(c)
            BY <4>1, <4>2, <5>2 DEF Fills
          <5> QED  BY <1>2, <1>3, <3>2, <5>1, <5>2
        <4> QED  BY <1>0, <3>2, <4>1, <4>3, <4>4 DEF FreshInv
      <3>3. CASE o.pc \notin {"secrets", "box", "wait", "rotate", "conclude"}
        BY <3>3 DEF FreshInv
      <3> QED  BY <3>1, <3>2, <3>3
    <2>3. FreshInv(o)'
      BY <2>2 DEF FreshInv
    <2>4. RestoreInv(o)' /\ FairInv(o)'
      BY <1>3 DEF RestoreInv, FairInv
    <2> QED  BY <1>2, <1>3, <2>3, <2>4, ApplyOwes
  <1>4. CASE o.kind = "restore"
    <2>0. /\ RestoreInv(o) /\ FairInv(o) /\ o.boot # Initdb
          /\ o.kind \in {"apply", "restore"}
      BY <1>4, BackupsOK DEF Shape, OpInv, Initdb
    <2>1. RestoreInv(o)'
      <3>1. CASE o.pc \in {"wait", "rotate", "conclude", "report"}
        <4>1. /\ volume[c].state # "none"
              /\ Whole(c) => /\ volume[c].boot = o.boot
                             /\ volume[c].origin = repo[o.boot.from][o.boot.label].origin
          BY <1>4, <2>0, <3>1 DEF RestoreInv
        <4>2. Whole(c)' => /\ volume'[c].boot = o.boot
                           /\ volume'[c].origin = repo[o.boot.from][o.boot.label].origin
          <5>1. CASE Whole(c)
            BY <1>0, <4>1, <5>1
          <5>2. CASE Fills(c) /\ box[c].boot = o.boot
            BY <2>0, <5>2 DEF Fills
          <5> QED  BY <1>2, <2>0, <3>1, <5>1, <5>2
        <4> QED  BY <1>0, <3>1, <4>1, <4>2 DEF RestoreInv
      <3>2. CASE o.pc \notin {"wait", "rotate", "conclude", "report"}
        BY <1>0, <1>4, <2>0, <3>2 DEF RestoreInv, Known
      <3> QED  BY <3>1, <3>2
    <2>2. FairInv(o)'
      <3>1. ASSUME o.fair,
                   \/ o.pc = "wait" /\ Whole(c)'
                   \/ o.pc \in {"rotate", "conclude"} /\ o.wait
            PROVE  \A r \in Role \ o.rotate : volume'[c].pw[r] = secret[c][r]
        <4>1. CASE Whole(c)
          <5>1. \A r \in Role \ o.rotate : volume[c].pw[r] = secret[c][r]
            BY <1>4, <2>0, <3>1, <4>1 DEF FairInv
          <5> QED  BY <1>0, <4>1, <5>1
        <4>2. CASE ~Whole(c)
          <5>1. o.pc = "wait" /\ Whole(c)'
            BY <2>0, <3>1, <4>2 DEF OpInv, ApplyInv
          <5>2. Fills(c) /\ box[c].boot = o.boot
            BY <1>2, <2>0, <4>2, <5>1
          <5>3. volume'[c].pw = repo[o.boot.from][o.boot.label].pw
            BY <2>0, <5>2 DEF Fills
          <5>4. \A r \in Role \ o.rotate :
                   secret[c][r] = repo[o.boot.from][o.boot.label].pw[r]
            BY <1>4, <2>0, <3>1, <5>1 DEF FairInv
          <5> QED  BY <5>3, <5>4
        <4> QED  BY <4>1, <4>2
      <3> QED  BY <1>0, <1>4, <2>0, <3>1 DEF FairInv
    <2>3. FreshInv(o)'
      BY <1>4 DEF FreshInv
    <2> QED  BY <1>2, <1>4, <2>1, <2>2, <2>3, ApplyOwes
  <1> QED  BY <1>1, <1>3, <1>4

LEMMA RunsSerial ==
    ASSUME SerialInv, NEW c \in Cluster, Runs(c), TypeInv', World'
    PROVE  SerialInv'
  <1>1. ASSUME NEW i \in Cli, NEW o, o = op[i] PROVE OpInv(o)'
    <2>1. OpInv(o) /\ Shape(o)
      BY <1>1 DEF SerialInv, TypeInv
    <2>2. CASE o.kind = "idle"
      BY <2>2, FreeOwesNothing
    <2>3. CASE o.kind # "idle" /\ o.cluster = c
      BY <2>1, <2>3, OwedHere
    <2>4. CASE o.kind # "idle" /\ o.cluster # c
      <3>1. o.cluster \in Cluster
        BY <2>1, <2>4 DEF Shape
      <3> QED  BY <2>1, <2>4, <3>1, OwedElsewhere DEF Runs, SameSpec
    <2> QED  BY <2>2, <2>3, <2>4
  <1> QED  BY <1>1, QuietSerial DEF Runs


\* The steps of a container that leave the database and its stanza alone.
LEMMA BootSerial ==
    ASSUME SerialInv, NEW c \in Cluster,
           BootExisting(c) \/ Promote(c) \/ BoxExits(c) \/ ResumeBox(c) \/ BootRestore(c)
    PROVE  SerialInv'
  <1>0. /\ TypeInv /\ TypeOK /\ TypeInv' /\ SameSpec(c)
        /\ Fits(c) /\ Lineage(c) /\ Sound(c) /\ minted \in Nat
        /\ UNCHANGED <<op, row, secret, jobs, repo, stanza, minted, sound>>
    BY BootTyped DEF SerialInv, World, TypeInv, TypeOK, BootExisting, Promote, BoxExits,
                     ResumeBox, BootRestore, repository, counters
  <1>1. /\ box[c].state # "none" /\ box'[c].state # "none"
        /\ box'[c].state = "restoring" => volume'[c].state = "restoring"
        /\ box'[c].state \in {"recovering", "up"} =>
              Whole(c) /\ volume[c].version = box[c].image
    <2>0. box \in [Cluster -> BoxState] /\ volume \in [Cluster -> VolState]
      BY <1>0, TypeParts
    <2>1. CASE BootExisting(c)
      <3>1. PICK x : x = IF ~Whole(c) \/ volume[c].version # box[c].image THEN "down"
                         ELSE IF volume[c].replays THEN "recovering" ELSE "up"
        OBVIOUS
      <3>2. box[c].state = "booting" /\ box' = [box EXCEPT ![c].state = x]
        BY <2>1, <3>1 DEF BootExisting
      <3>3. box'[c].state = x
        BY <2>0, <3>2 DEF BoxState
      <3> QED  BY <3>1, <3>2, <3>3
    <2>2. CASE Promote(c)
      <3>1. box[c].state = "recovering" /\ box'[c].state = "up"
        BY <2>0, <2>2 DEF Promote, BoxState
      <3> QED  BY <1>0, <3>1 DEF Fits
    <2>3. CASE BoxExits(c)
      <3>1. box[c].state # "none" /\ box'[c].state = "down"
        BY <2>0, <2>3 DEF BoxExits, Live, BoxState
      <3> QED  BY <3>1
    <2>4. CASE ResumeBox(c)
      <3>1. box[c].state = "down" /\ box'[c].state = "booting"
        BY <2>0, <2>4 DEF ResumeBox, BoxState
      <3> QED  BY <3>1
    <2>5. CASE BootRestore(c)
      <3>1. box[c].state = "booting" /\ box'[c].state = "restoring"
        BY <2>0, <2>5 DEF BootRestore, BoxState
      <3>2. volume'[c].state = "restoring"
        BY <2>0, <2>5 DEF BootRestore, VolState
      <3> QED  BY <3>1, <3>2
    <2> QED  BY <2>1, <2>2, <2>3, <2>4, <2>5
  <1>2. /\ \A d \in Cluster : d # c => volume'[d] = volume[d]
        /\ volume'[c].boot = volume[c].boot /\ volume'[c].origin = volume[c].origin
        /\ volume'[c].pw = volume[c].pw /\ volume'[c].version = volume[c].version
        /\ \/ volume'[c].state = volume[c].state
           \/ volume[c].state = "restoring" /\ volume'[c].state = "partial"
           \/ /\ volume[c].state = "empty" /\ volume'[c].state = "restoring"
              /\ box[c].boot # Initdb
    <2>0. volume \in [Cluster -> VolState]
      BY <1>0, TypeParts
    <2>1. CASE UNCHANGED volume
      BY <2>1
    <2>2. CASE Promote(c)
      <3>1. PICK v : v = [volume[c] EXCEPT !.replays = FALSE]
        OBVIOUS
      <3>2. volume' = [volume EXCEPT ![c] = v]
        BY <2>2, <3>1 DEF Promote
      <3> QED  BY <2>0, <3>1, <3>2 DEF VolState
    <2>3. CASE BoxExits(c)
      <3>1. /\ volume'[c].state = IF volume[c].state = "restoring" THEN "partial"
                                  ELSE volume[c].state
            /\ SameData(c)
        BY <1>0, <2>3, CutShortVol DEF BoxExits
      <3> QED  BY <3>1 DEF SameData
    <2>4. CASE BootRestore(c)
      <3>1. volume'[c].state = "restoring" /\ SameData(c)
        BY <1>0, <2>4, VolStateSet DEF BootRestore, VolStates
      <3> QED  BY <2>4, <3>1 DEF SameData, BootRestore
    <2> QED  BY <2>1, <2>2, <2>3, <2>4 DEF BootExisting, ResumeBox
  <1>3. Whole(c)' = Whole(c)
    BY <1>2 DEF Whole
  <1>4. Runs(c)
    BY <1>0, <1>1, <1>2, <1>3 DEF Runs, StaysSo
  <1>5. World'
    <2>1. \A d \in Cluster : d # c => Fits(d)' /\ Lineage(d)' /\ Sound(d)'
      BY <1>0, <1>2, ClusterKept DEF Known, SameSpec
    <2>2. Fits(c)'
      <3>1. Known(c)
        BY <1>0, <1>1 DEF Fits
      <3> QED  BY <1>0, <1>1, <1>2, <1>3, <3>1 DEF Fits, Known, SameSpec
    <2>3. Lineage(c)'
      BY <1>0, <1>2, <1>3 DEF Lineage
    <2>4. Sound(c)'
      BY <1>0, <1>2, <1>3 DEF Sound
    <2> QED  BY <2>1, <2>2, <2>3, <2>4 DEF World
  <1> QED  BY <1>0, <1>4, <1>5, RunsSerial

\* A stanza that is not there has no backups.
LEMMA NoStanzaNoBackup ==
    ASSUME NEW c \in Cluster, Lineage(c), stanza[c] = NoStanza
    PROVE  \A k \in DOMAIN repo[c] : FALSE
  BY DEF Lineage, NoStanza

LEMMA BootInitdbSerial ==
    ASSUME SerialInv, NEW c \in Cluster, BootInitdb(c)
    PROVE  SerialInv'
  <1>0. /\ TypeInv /\ minted \in Nat /\ stanza[c].origin \in Nat
        /\ Fits(c) /\ Lineage(c) /\ Sound(c)
        /\ UNCHANGED <<row, secret, jobs, repo, op, sound>>
        /\ box[c].state = "booting" /\ volume[c].state = "empty" /\ box[c].boot = Initdb
    BY DEF SerialInv, World, TypeInv, TypeOK, BootInitdb
  <1>1. PICK v : v = [state |-> "whole", origin |-> minted + 1, version |-> box[c].image,
                      pw |-> box[c].creds, boot |-> Initdb, replays |-> FALSE]
    OBVIOUS
  <1>2. /\ TypeInv' /\ SameSpec(c) /\ box'[c].state = "up" /\ volume'[c] = v
        /\ \A d \in Cluster : d # c => volume'[d] = volume[d] /\ stanza'[d] = stanza[d]
        /\ minted' = minted + 1
        /\ stanza'[c] = IF stanza[c] = NoStanza
                        THEN [origin |-> minted + 1, version |-> box[c].image]
                        ELSE stanza[c]
    BY <1>0, <1>1, BootInitdbTyped
  <1>3. /\ v.state = "whole" /\ v.origin = minted + 1 /\ v.version = box[c].image
        /\ v.pw = box[c].creds /\ v.boot = Initdb
    BY <1>1
  <1>4. ~Whole(c) /\ Whole(c)'
    BY <1>0, <1>2, <1>3 DEF Whole
  <1>5. Runs(c)
    BY <1>0, <1>2, <1>3, <1>4 DEF Runs, Fills
  <1>6. World'
    <2>1. ASSUME NEW d \in Cluster, d # c PROVE Fits(d)' /\ Lineage(d)' /\ Sound(d)'
      <3>1. minted' \in Nat /\ minted <= minted'
        BY <1>0, <1>2
      <3>2. /\ row'[d].image = row[d].image /\ (Known(d) => Known(d)')
            /\ secret'[d] = secret[d] /\ repo'[d] = repo[d] /\ sound' = sound
        BY <1>0 DEF Known
      <3>3. box'[d] = box[d] /\ volume'[d] = volume[d] /\ stanza'[d] = stanza[d]
        BY <1>2, <2>1 DEF SameSpec
      <3> QED  BY <3>1, <3>2, <3>3, ClusterKept
    <2>2. Known(c) /\ box[c].image = row[c].image
      BY <1>0 DEF Fits
    <2>3. Fits(c)'
      BY <1>0, <1>2, <1>3, <1>4, <2>2 DEF Fits, Known, SameSpec
    <2>4. Lineage(c)'
      <3>1. minted + 1 \in 1..minted' /\ \A n : n \in 1..minted => n \in 1..minted'
        BY <1>0, <1>2
      <3>2. CASE stanza[c] = NoStanza
        <4>1. stanza'[c].origin = minted + 1 /\ stanza'[c].version = box[c].image
          BY <1>2, <3>2
        <4>2. \A k \in DOMAIN repo[c] : FALSE
          BY <1>0, <3>2, NoStanzaNoBackup
        <4> QED  BY <1>0, <1>2, <1>3, <2>2, <3>1, <4>1, <4>2 DEF Lineage
      <3>3. CASE stanza[c] # NoStanza
        <4>1. stanza'[c] = stanza[c]
          BY <1>2, <3>3
        <4>2. /\ stanza[c].origin <= minted
              /\ \A k \in DOMAIN repo[c] : /\ repo[c][k].origin = stanza[c].origin
                                           /\ repo[c][k].origin \in 1..minted
          BY <1>0 DEF Lineage
        <4>3. stanza[c].origin # minted + 1 /\ stanza[c].origin <= minted'
          BY <1>0, <1>2, <4>2
        <4> QED  BY <1>0, <1>2, <1>3, <2>2, <3>1, <4>1, <4>2, <4>3 DEF Lineage
      <3> QED  BY <3>2, <3>3
    <2>5. Sound(c)'
      BY <1>0, <1>4 DEF Sound
    <2> QED  BY <2>1, <2>3, <2>4, <2>5 DEF World
  <1> QED  BY <1>2, <1>5, <1>6, RunsSerial

LEMMA RestoreEndsSerial ==
    ASSUME SerialInv, NEW c \in Cluster, RestoreEnds(c)
    PROVE  SerialInv'
  <1>0. /\ TypeInv /\ minted \in Nat /\ Fits(c) /\ Lineage(c) /\ Sound(c)
        /\ UNCHANGED <<row, secret, jobs, repo, stanza, op, sound, minted>>
        /\ box[c].state = "restoring"
    BY DEF SerialInv, World, TypeInv, TypeOK, RestoreEnds, repository, counters
  <1>1. PICK b, k : b = box[c].boot /\ k = repo[b.from][b.label]
    <2>1. PICK b : b = box[c].boot
      OBVIOUS
    <2>2. PICK k : k = repo[b.from][b.label]
      OBVIOUS
    <2> QED  BY <2>1, <2>2
  <1>2. PICK v : v = [state |-> "whole", origin |-> k.origin, version |-> k.version,
                      pw |-> k.pw, boot |-> b, replays |-> TRUE]
    OBVIOUS
  <1>3. /\ TypeInv' /\ SameSpec(c) /\ Backs(b) /\ volume'[c] = v
        /\ box'[c].state = IF v.version = box[c].image THEN "recovering" ELSE "down"
        /\ \A d \in Cluster : d # c => volume'[d] = volume[d]
    BY <1>0, <1>1, <1>2, RestoreEndsTyped
  <1>4. /\ v.state = "whole" /\ v.origin = k.origin /\ v.pw = k.pw /\ v.boot = b
    BY <1>2
  <1>5. b # Initdb
    BY <1>0, <1>1 DEF TypeInv, BootOf
  <1>6. volume[c].state = "restoring" /\ Known(c) /\ box[c].image = row[c].image
    BY <1>0 DEF Fits
  <1>7. ~Whole(c) /\ Whole(c)'
    BY <1>3, <1>4, <1>6 DEF Whole
  <1>8. Runs(c)
    BY <1>0, <1>1, <1>3, <1>4, <1>5, <1>7 DEF Runs, Fills
  <1>9. World'
    <2>1. \A d \in Cluster : d # c => Fits(d)' /\ Lineage(d)' /\ Sound(d)'
      BY <1>0, <1>3, ClusterKept DEF Known, SameSpec
    <2>2. Fits(c)'
      BY <1>0, <1>3, <1>6, <1>7 DEF Fits, Known, SameSpec
    <2>3. Lineage(c)'
      <3>1. k.origin \in 1..minted
        BY <1>1, <1>3 DEF SerialInv, World, Lineage, Backs
      <3> QED  BY <1>0, <1>3, <1>4, <1>5, <3>1 DEF Lineage
    <2>4. Sound(c)'
      BY <1>0, <1>7 DEF Sound
    <2> QED  BY <2>1, <2>2, <2>3, <2>4 DEF World
  <1> QED  BY <1>3, <1>8, <1>9, RunsSerial

LEMMA EnsureStanzaSerial ==
    ASSUME SerialInv, NEW c \in Cluster, EnsureStanza(c)
    PROVE  SerialInv'
  <1>0. /\ TypeInv /\ minted \in Nat /\ Fits(c) /\ Lineage(c) /\ Sound(c)
        /\ UNCHANGED <<row, secret, volume, jobs, repo, op, sound, minted>>
        /\ box[c].state \in {"recovering", "up"}
    BY DEF SerialInv, World, TypeInv, TypeOK, EnsureStanza, counters
  <1>1. /\ TypeInv' /\ SameSpec(c) /\ box'[c].state = box[c].state
        /\ \A d \in Cluster : d # c => stanza'[d] = stanza[d]
        /\ stanza'[c] = IF box[c].state = "up" /\ stanza[c] = NoStanza
                        THEN [origin |-> volume[c].origin, version |-> volume[c].version]
                        ELSE stanza[c]
    BY <1>0, EnsureStanzaTyped
  <1>2. Whole(c)' = Whole(c) /\ Whole(c)
    BY <1>0 DEF Fits, Whole
  <1>3. Runs(c)
    BY <1>0, <1>1, <1>2 DEF Runs, StaysSo
  <1>4. World'
    <2>1. \A d \in Cluster : d # c => Fits(d)' /\ Lineage(d)' /\ Sound(d)'
      BY <1>0, <1>1, ClusterKept DEF Known, SameSpec
    <2>2. Fits(c)'
      BY <1>0, <1>1, <1>2 DEF Fits, Known, SameSpec
    <2>3. Lineage(c)'
      <3>1. CASE box[c].state = "up" /\ stanza[c] = NoStanza
        <4>1. stanza'[c].origin = volume[c].origin /\ stanza'[c].version = volume[c].version
          BY <1>1, <3>1
        <4>2. \A k \in DOMAIN repo[c] : FALSE
          BY <1>0, <3>1, NoStanzaNoBackup
        <4>3. volume[c].origin \in 1..minted
          BY <1>0, <1>2 DEF Lineage
        <4> QED  BY <1>0, <1>2, <4>1, <4>2, <4>3 DEF Lineage
      <3>2. CASE stanza'[c] = stanza[c]
        BY <1>0, <1>2, <3>2 DEF Lineage
      <3> QED  BY <1>1, <3>1, <3>2
    <2>4. Sound(c)'
      BY <1>0, <1>2 DEF Sound
    <2> QED  BY <2>1, <2>2, <2>3, <2>4 DEF World
  <1> QED  BY <1>1, <1>3, <1>4, RunsSerial

\* What happens only between two commands.
LEMMA BetweenSerial ==
    ASSUME Overlap = FALSE, SerialInv, MayBegin, UNCHANGED <<op, jobs, repo>>,
           TypeInv', World'
    PROVE  SerialInv'
  <1>1. \A i \in Cli : \A o : o = op[i] => OpInv(o)'
    BY FreeOwesNothing DEF MayBegin
  <1> QED  BY <1>1, QuietSerial

LEMMA UpgradedSerial ==
    ASSUME Overlap = FALSE, SerialInv, NEW c \in Cluster, Upgraded(c)
    PROVE  SerialInv'
  <1>0. /\ TypeInv /\ minted \in Nat /\ Fits(c) /\ Lineage(c) /\ Sound(c)
        /\ UNCHANGED <<secret, jobs, repo, op, sound, minted>> /\ MayBegin
        /\ box[c].state = "up" /\ Known(c)
    BY DEF SerialInv, World, TypeInv, TypeOK, Upgraded, counters, Known
  <1>1. /\ TypeInv'
        /\ volume'[c].version = volume[c].version + 1
        /\ volume'[c].state = volume[c].state /\ volume'[c].origin = volume[c].origin
        /\ volume'[c].boot = volume[c].boot /\ volume'[c].pw = volume[c].pw
        /\ box'[c].image = box[c].image + 1 /\ box'[c].state = "up"
        /\ row'[c].image = row[c].image + 1 /\ row'[c].phase = row[c].phase
        /\ stanza'[c].origin = stanza[c].origin
        /\ stanza[c].origin = volume[c].origin =>
              stanza'[c].version = volume[c].version + 1
        /\ \A d \in Cluster : d # c => /\ volume'[d] = volume[d] /\ box'[d] = box[d]
                                       /\ row'[d] = row[d] /\ stanza'[d] = stanza[d]
    BY <1>0, UpgradedTyped
  <1>2. Whole(c) /\ Whole(c)' /\ volume[c].version = box[c].image
        /\ box[c].image = row[c].image
    BY <1>0, <1>1 DEF Fits, Whole
  <1>3. World'
    <2>1. \A d \in Cluster : d # c => Fits(d)' /\ Lineage(d)' /\ Sound(d)'
      BY <1>0, <1>1, ClusterKept DEF Known
    <2>2. Fits(c)'
      BY <1>0, <1>1, <1>2 DEF Fits, Known
    <2>3. Lineage(c)'
      BY <1>0, <1>1, <1>2 DEF Lineage
    <2>4. Sound(c)'
      BY <1>0, <1>1, <1>2 DEF Sound
    <2> QED  BY <2>1, <2>2, <2>3, <2>4 DEF World
  <1> QED  BY <1>0, <1>1, <1>3, BetweenSerial

LEMMA SecretsLostSerial ==
    ASSUME Overlap = FALSE, SerialInv, NEW c \in Cluster, SecretsLost(c)
    PROVE  SerialInv'
  <1>0. /\ TypeInv' /\ minted \in Nat /\ Fits(c) /\ Lineage(c)
        /\ UNCHANGED <<row, box, volume, jobs, repo, stanza, op, minted>> /\ MayBegin
        /\ sound' = sound \ {c}
        /\ secret' = [secret EXCEPT ![c] = NoPassword]
        /\ secret \in [Cluster -> Passwords]
    BY SecretsLostTyped
       DEF SerialInv, World, TypeInv, TypeOK, SecretsLost, repository
  <1>1. World'
    <2>1. \A d \in Cluster : d # c => Fits(d)' /\ Lineage(d)' /\ Sound(d)'
      <3>1. \A d \in Cluster : d # c => secret'[d] = secret[d]
        BY <1>0
      <3> QED  BY <1>0, <3>1, ClusterKept DEF Known
    <2>2. Fits(c)'
      BY <1>0 DEF Fits, Known, Whole
    <2>3. Lineage(c)'
      BY <1>0 DEF Lineage, Whole
    <2>4. Sound(c)'
      BY <1>0 DEF Sound
    <2> QED  BY <2>1, <2>2, <2>3, <2>4 DEF World
  <1> QED  BY <1>0, <1>1, BetweenSerial


\* The end of a job leaves what every command was promised.
LEMMA OwedAtJobsEnd ==
    ASSUME TypeInv, NEW o, Shape(o), OpInv(o), Grown,
           UNCHANGED <<row, secret, box, volume>>,
           o.kind = "backup" => /\ o.pc \in {"start", "wait"} => o.seen <= Len(repo'[o.cluster])
                                /\ o.pc = "after" => Made(o.cluster, o.seen, o.made)'
    PROVE  OpInv(o)'
  <1>1. BackupInv(o)'
    BY DEF OpInv, BackupInv
  <1>2. ApplyInv(o)' /\ FreshInv(o)' /\ DeleteInv(o)'
    BY DEF OpInv, ApplyInv, FreshInv, DeleteInv, Known, Whole
  <1>3. CASE o.kind # "restore" \/ o.pc \notin ApplyPc
    <2>1. RestoreInv(o)'
      BY <1>3 DEF OpInv, RestoreInv, Known, ApplyPc
    <2>2. FairInv(o)'
      BY <1>3 DEF FairInv, ApplyPc
    <2> QED  BY <1>1, <1>2, <2>1, <2>2 DEF OpInv
  <1>4. CASE o.kind = "restore" /\ o.pc \in ApplyPc
    <2>1. repo'[o.boot.from][o.boot.label] = repo[o.boot.from][o.boot.label]
      BY <1>4 DEF Shape, Backs, Grown
    <2>2. RestoreInv(o)'
      BY <2>1, ZenonT(60) DEF OpInv, RestoreInv, Known, Whole
    <2>3. FairInv(o)'
      BY <2>1 DEF OpInv, FairInv, Whole
    <2> QED  BY <1>1, <1>2, <2>2, <2>3 DEF OpInv
  <1> QED  BY <1>3, <1>4

LEMMA JobEndsSerial ==
    ASSUME SerialInv, NEW j \in jobs, JobEnds(j)
    PROVE  SerialInv'
  <1>r. PICK c : c = j.cluster
    OBVIOUS
  <1>0. /\ TypeInv /\ TypeOK /\ minted \in Nat /\ JobsInv /\ j.state = "running"
        /\ UNCHANGED <<row, secret, box, volume, stanza, op, sound, minted>>
    BY DEF SerialInv, TypeInv, TypeOK, JobEnds, counters
  <1>1. PICK h : h = Len(repo[c]) + 1
    OBVIOUS
  <1>2. PICK m : \/ m = [j EXCEPT !.state = "ok", !.label = h] /\ Appended(c)
                    /\ Whole(c) /\ stanza[c].origin = volume[c].origin
                    /\ jobs' = (jobs \ {j}) \cup {m}
                 \/ m = [j EXCEPT !.state = "failed"] /\ UNCHANGED repo
                    /\ jobs' = (jobs \ {j}) \cup {m}
    BY <1>r, <1>0, <1>1, JobEndsTyped
  <1>3. /\ TypeInv' /\ Grown /\ j \in JobState /\ c \in Cluster
        /\ repo[c] \in Seq(BackupOf)
    BY <1>r, <1>0, JobEndsTyped, TypeParts DEF JobState
  <1>4. /\ m.cluster = c /\ m.owner = j.owner /\ m.state \in {"ok", "failed"}
        /\ m.state = "ok" => m.label = h /\ Appended(c)
        /\ jobs' = (jobs \ {j}) \cup {m}
    BY <1>r, <1>1, <1>2, <1>3 DEF JobState
  <1>5. /\ \A k \in jobs' : k.state = "running" => k \in jobs /\ k # j
        /\ \A k \in jobs' : k.cluster = c => k.state # "running"
    BY <1>r, <1>0, <1>4 DEF JobsInv
  <1>6. \A d \in Cluster : d # c => repo'[d] = repo[d]
    BY <1>2 DEF Appended
  <1>7. ASSUME NEW d \in Cluster, NEW seen, NEW n, Made(d, seen, n)
        PROVE  Made(d, seen, n)'
    <2>1. d # c
      BY <1>r, <1>0, <1>7 DEF Made
    <2>2. repo'[d] = repo[d]
      BY <1>6, <2>1
    <2>3. \A k \in jobs' : k.cluster = d => k.state # "running"
      BY <1>5, <1>7 DEF Made
    <2> QED  BY <1>7, <2>2, <2>3 DEF Made
  <1>8. Solo'
    BY <1>0 DEF SerialInv, Solo
  <1>9. JobsInv'
    <2>1. \A k, l \in jobs' : /\ k.state = "running" /\ l.state = "running"
                              /\ k.cluster = l.cluster
                              => k = l
      BY <1>0, <1>5 DEF JobsInv
    <2>2. \A k, l \in jobs' : k.owner = l.owner /\ k.owner # 0 => k = l
      BY <1>0, <1>4 DEF JobsInv
    <2>3. ASSUME NEW k \in jobs', k.owner # 0
          PROVE  /\ At(k.owner, "backup", "wait")' /\ op'[k.owner].cluster = k.cluster
                 /\ k.state = "ok" => Made(k.cluster, op[k.owner].seen, k.label)'
      <3>0. PICK w, s : w = k.owner /\ s = op[w].seen
        <4>1. PICK w : w = k.owner
          OBVIOUS
        <4>2. PICK s : s = op[w].seen
          OBVIOUS
        <4> QED  BY <4>1, <4>2
      <3>1. CASE k \in jobs
        <4>1. /\ At(w, "backup", "wait") /\ op[w].cluster = k.cluster
              /\ k.state = "ok" => Made(k.cluster, s, k.label)
          BY <1>0, <2>3, <3>0, <3>1 DEF JobsInv
        <4>2. k.cluster \in Cluster
          BY <1>0, <3>1 DEF TypeOK
        <4>3. k.state = "ok" => Made(k.cluster, s, k.label)'
          BY <1>7, <4>1, <4>2
        <4> QED  BY <1>0, <3>0, <4>1, <4>3 DEF At, Made
      <3>2. CASE k = m
        <4>1. At(w, "backup", "wait") /\ op[w].cluster = c /\ w \in Cli
          <5>1. j.owner = w /\ w # 0
            BY <1>4, <2>3, <3>0, <3>2
          <5> QED  BY <1>r, <1>0, <1>3, <5>1 DEF JobsInv, JobState
        <4>2. m.state = "ok" => Made(c, s, h)'
          <5>1. s <= Len(repo[c]) /\ s \in Nat
            <6>1. op[w] \in OpState /\ BackupInv(op[w])
              BY <1>0, <4>1 DEF SerialInv, OpInv, TypeInv
            <6> QED  BY <3>0, <4>1, <6>1 DEF At, BackupInv, OpState
          <5>2. m.state = "ok" => Len(repo'[c]) = h
            BY <1>1, <1>4 DEF Appended
          <5>3. h > s
            BY <1>1, <1>3, <5>1
          <5> QED  BY <1>5, <5>2, <5>3 DEF Made
        <4> QED  BY <1>0, <1>4, <3>0, <3>2, <4>1, <4>2 DEF At, Made
      <3> QED  BY <1>4, <3>1, <3>2
    <2> QED  BY <2>1, <2>2, <2>3 DEF JobsInv
  <1>10. ASSUME NEW i \in Cli PROVE OpInv(op[i])'
    <2>1. PICK o : o = op[i]
      OBVIOUS
    <2>2. o \in OpState /\ OpInv(o) /\ Shape(o)
      BY <2>1 DEF SerialInv, TypeInv
    <2>3. ASSUME o.kind = "backup"
          PROVE  /\ o.pc \in {"start", "wait"} => o.seen <= Len(repo'[o.cluster])
                 /\ o.pc = "after" => Made(o.cluster, o.seen, o.made)'
      <3>1. o.cluster \in Cluster /\ BackupInv(o)
        BY <2>2, <2>3 DEF Shape, OpInv
      <3>2. Len(repo[o.cluster]) <= Len(repo'[o.cluster])
        <4>1. repo[o.cluster] \in Seq(BackupOf)
          BY <1>0, <3>1, TypeParts
        <4>2. CASE o.cluster # c \/ UNCHANGED repo
          BY <1>6, <3>1, <4>1, <4>2
        <4>3. CASE o.cluster = c /\ Appended(c)
          BY <4>1, <4>3 DEF Appended
        <4> QED  BY <1>2, <4>2, <4>3
      <3>3. o.pc \in {"start", "wait"} => o.seen <= Len(repo'[o.cluster])
        <4>1. PICK a : a = Len(repo[o.cluster])
          OBVIOUS
        <4>2. a \in Nat /\ Len(repo'[o.cluster]) \in Nat /\ o.seen \in Nat
          <5>1. repo \in [Cluster -> Seq(BackupOf)] /\ repo' \in [Cluster -> Seq(BackupOf)]
            BY <1>0, <1>3 DEF TypeInv, TypeOK
          <5> QED  BY <2>2, <3>1, <4>1, <5>1 DEF OpState
        <4>3. o.pc \in {"start", "wait"} => o.seen <= a
          BY <2>3, <3>1, <4>1 DEF BackupInv
        <4> QED  BY <3>2, <4>1, <4>2, <4>3
      <3>4. o.pc = "after" => Made(o.cluster, o.seen, o.made)'
        BY <1>7, <2>3, <3>1 DEF BackupInv
      <3> QED  BY <3>3, <3>4
    <2>4. OpInv(o)'
      BY <1>0, <1>3, <2>2, <2>3, OwedAtJobsEnd
    <2> QED  BY <1>0, <2>1, <2>4, Carried
  <1>11. World'
    <2>1. \A d \in Cluster : d # c => Fits(d)' /\ Lineage(d)' /\ Sound(d)'
      BY <1>0, <1>6, ClusterKept DEF Known
    <2>2. Fits(c) /\ Lineage(c) /\ Sound(c)
      BY <1>3 DEF SerialInv, World
    <2>3. Fits(c)' /\ Sound(c)'
      BY <1>0, <2>2 DEF Fits, Sound, Known, Whole
    <2>4. Lineage(c)'
      <3>1. CASE UNCHANGED repo
        BY <1>0, <2>2, <3>1 DEF Lineage, Whole
      <3>2. CASE Appended(c) /\ Whole(c) /\ stanza[c].origin = volume[c].origin
        <4>1. ASSUME NEW k \in DOMAIN repo'[c]
              PROVE  repo'[c][k].origin = stanza[c].origin /\ repo'[c][k].origin \in 1..minted
          <5>1. CASE k \in DOMAIN repo[c]
            BY <1>3, <2>2, <5>1 DEF Lineage, Grown
          <5>2. CASE k = Len(repo[c]) + 1
            BY <2>2, <3>2, <5>2 DEF Lineage, Appended
          <5> QED  BY <3>2, <4>1, <5>1, <5>2 DEF Appended
        <4> QED  BY <1>0, <2>2, <4>1 DEF Lineage, Whole
      <3> QED  BY <1>2, <3>1, <3>2
    <2> QED  BY <2>1, <2>3, <2>4 DEF World
  <1> QED  BY <1>3, <1>8, <1>9, <1>10, <1>11 DEF SerialInv

-----------------------------------------------------------------------------
(* The safety invariants, when commands take turns.                        *)

LEMMA SerialInit == Init => SerialInv
  <1> SUFFICES ASSUME Init PROVE SerialInv
    OBVIOUS
  <1>1. TypeInv
    BY TypeInit
  <1>2. \A i \in Cli : op[i].kind = "idle"
    BY Values DEF Init
  <1>3. Solo /\ JobsInv
    BY <1>2 DEF Init, Solo, JobsInv
  <1>4. \A i \in Cli : OpInv(op[i])
    BY <1>2 DEF OpInv, BackupInv, ApplyInv, RestoreInv, FreshInv, FairInv, DeleteInv
  <1>5. ASSUME NEW c \in Cluster PROVE Fits(c) /\ Lineage(c) /\ Sound(c)
    <2>1. /\ row[c] = NoRow /\ box[c] = NoBox /\ volume[c] = NoData
          /\ stanza[c] = NoStanza /\ repo[c] = <<>> /\ sound = {} /\ minted = 0
      BY DEF Init
    <2>2. /\ NoBox.state = "none" /\ NoData.state = "none" /\ NoStanza.origin = 0
      BY DEF NoBox, NoData, NoStanza
    <2> QED  BY <2>1, <2>2 DEF Fits, Lineage, Sound, Whole
  <1> QED  BY <1>1, <1>3, <1>4, <1>5 DEF SerialInv, World

LEMMA SerialKept ==
    ASSUME SerialInv, UNCHANGED vars
    PROVE  SerialInv'
  <1>1. UNCHANGED <<row, secret, box, volume, jobs, repo, stanza, now, op, minted, sound,
                    ops, kills>>
    BY DEF vars, containers, repository, counters, bounds
  <1>2. TypeInv'
    BY <1>1, TypeStep DEF SerialInv
  <1>3. World'
    BY <1>1, WorldKept DEF Known
  <1>4. ASSUME NEW i \in Cli, NEW o, o = op[i] PROVE OpInv(o)'
    BY <1>1, <1>4, OwedElsewhere DEF SerialInv
  <1> QED  BY <1>1, <1>2, <1>3, <1>4, QuietSerial

LEMMA SerialStep ==
    ASSUME Overlap = FALSE, SerialInv, [Next]_vars
    PROVE  SerialInv'
  <1>1. CASE UNCHANGED vars
    BY <1>1, SerialKept
  <1>2. ASSUME NEW i \in Cli, BackupStep(i) PROVE SerialInv'
    BY <1>2, BeginSerial, BackupSerial DEF BackupStep
  <1>3. ASSUME NEW i \in Cli, ApplyStep(i) PROVE SerialInv'
    BY <1>3, BeginSerial, ChooseSerial, PutClusterSerial, EnsureSecretSerial,
       CreateVolumeSerial, BoxOfApplySerial, RefuseSerial, WaitReadySerial,
       RotateRoleSerial, ConcludeSerial, ReportSerial DEF ApplyStep
  <1>4. ASSUME NEW i \in Cli, DeleteStep(i) PROVE SerialInv'
    BY <1>4, BeginSerial, DeleteContainerSerial, MarkStoppedSerial, DeleteVolumeSerial,
       ForgetClusterSerial DEF DeleteStep
  <1>5. ASSUME NEW i \in Cli, Dies(i) PROVE SerialInv'
    BY <1>5, DiesSerial
  <1>6. ASSUME NEW c \in Cluster,
               Agent(c) \/ Upgraded(c) \/ SecretsLost(c) \/ BoxExits(c) \/ ResumeBox(c)
        PROVE  SerialInv'
    BY <1>6, BootSerial, BootInitdbSerial, RestoreEndsSerial, EnsureStanzaSerial,
       UpgradedSerial, SecretsLostSerial DEF Agent
  <1>7. ASSUME NEW j \in jobs, JobEnds(j) PROVE SerialInv'
    BY <1>7, JobEndsSerial
  <1> QED  BY <1>1, <1>2, <1>3, <1>4, <1>5, <1>6, <1>7 DEF Next, Environment

LEMMA Serial ==
    ASSUME Overlap = FALSE
    PROVE  Spec => []SerialInv
  BY SerialInit, SerialStep, PTL DEF Spec

\* run_backup: the label in a backup's report is that of the backup its own
\* job made, whatever jobs given up on finish meanwhile.
THEOREM OwnBackup ==
    ASSUME Overlap = FALSE
    PROVE  Spec => []ReportsOwnBackup
  <1>1. SerialInv => ReportsOwnBackup
    BY DEF SerialInv, OpInv, BackupInv, ReportsOwnBackup, At
  <1> QED  BY <1>1, Serial, PTL

\* restore_cluster: a restore that reports success has put the backup it
\* names, and nothing else, into the cluster it was told to make.
THEOREM AsAsked ==
    ASSUME Overlap = FALSE
    PROVE  Spec => []RestoredAsAsked
  <1>1. ASSUME SerialInv PROVE RestoredAsAsked
    <2>1. ASSUME NEW i \in Cli, At(i, "restore", "report")
          PROVE  LET c == op[i].cluster  b == op[i].boot IN
                 /\ Whole(c) => /\ volume[c].boot = b
                                /\ volume[c].origin = repo[b.from][b.label].origin
                 /\ repo[b.from][b.label].stop <= b.at
      <3>1. Shape(op[i]) /\ RestoreInv(op[i])
        BY <1>1 DEF SerialInv, TypeInv, OpInv
      <3>2. Backs(op[i].boot)
        BY <2>1, <3>1 DEF Shape, At, ApplyPc
      <3> QED  BY <2>1, <3>1, <3>2 DEF RestoreInv, At, Backs
    <2> QED  BY <2>1 DEF RestoredAsAsked
  <1> QED  BY <1>1, Serial, PTL

\* restore_cluster's image: no backup is restored into an image of another
\* version that the operator did not name.
THEOREM Reads ==
    ASSUME Overlap = FALSE
    PROVE  Spec => []ImageReadsBackup
  <1>1. SerialInv => ImageReadsBackup
    BY DEF SerialInv, OpInv, RestoreInv, ImageReadsBackup, At
  <1> QED  BY <1>1, Serial, PTL

\* rotate_restored_roles: what was created or restored with success can be
\* logged into with the secrets kept for it.
THEOREM LogsIn ==
    ASSUME Overlap = FALSE
    PROVE  Spec => []Reachable
  <1>1. SerialInv => Reachable
    <2> SUFFICES ASSUME SerialInv PROVE Reachable
      OBVIOUS
    <2>1. sound \subseteq Cluster
      BY DEF SerialInv, TypeInv, TypeOK
    <2> QED  BY <2>1 DEF SerialInv, World, Sound, Reachable
  <1> QED  BY <1>1, Serial, PTL

=============================================================================
