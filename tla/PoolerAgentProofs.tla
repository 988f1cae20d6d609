-------------------------- MODULE PoolerAgentProofs --------------------------
(***************************************************************************)
(* Proofs about PoolerAgent: for any number of clusters, pools, requests   *)
(* and restarts, every hold has a task that will release it.               *)
(***************************************************************************)
EXTENDS PoolerAgent, TLAPS

\* Only a deadline sleeps and only a PAUSE arms one; the slot for the deadline
\* is kept free until then; a task visits pools of its own cluster only.
Disciplined ==
    /\ \A t \in Task :
          /\ task[t].pc = "arm" => task[t].verb = "PAUSE"
          /\ task[t].pc = "bump" => task[t].verb = "RESUME"
          /\ task[t].left \subseteq PoolsOf(task[t].cluster)
          /\ task[t].pc = "asleep" => task[t].gen \leq holds[task[t].cluster]
    /\ \A r \in Request :
          /\ task[<<r, "handler">>].pc # "asleep"
          /\ task[<<r, "deadline">>].pc # "arm"
          /\ task[<<r, "deadline">>].verb = "RESUME"
          /\ /\ task[<<r, "handler">>].pc # "idle"
             /\ task[<<r, "handler">>].verb = "PAUSE"
             => task[<<r, "deadline">>].pc = "idle"

Inv ==
    /\ TypeOK
    /\ Disciplined
    /\ paused \subseteq live
    /\ OneLiveDeadline
    /\ Covered

-----------------------------------------------------------------------------
\* A task has one of two kinds, and the two of a request are different tasks.
LEMMA Tasks ==
    /\ \A t \in Task : \E r \in Request : t = <<r, "handler">> \/ t = <<r, "deadline">>
    /\ \A r \in Request : <<r, "handler">> \in Task /\ <<r, "deadline">> \in Task
    /\ \A r, s \in Request : <<r, "handler">> # <<s, "deadline">>
    /\ \A r, s \in Request : <<r, "handler">> = <<s, "handler">> => r = s
    /\ \A r, s \in Request : <<r, "deadline">> = <<s, "deadline">> => r = s
  BY DEF Task, Kind

\* What a step of one task shares with every other: the rest are as before.
LEMMA Moved ==
    ASSUME task \in [Task -> TaskState], NEW t \in Task, NEW s \in TaskState,
           task' = [task EXCEPT ![t] = s]
    PROVE  /\ task' \in [Task -> TaskState]
           /\ task'[t] = s
           /\ \A u \in Task : u # t => task'[u] = task[u]
  OBVIOUS

\* The end of a task.
LEMMA DoneIs ==
    ASSUME task \in [Task -> TaskState], NEW t \in Task
    PROVE  /\ Done(t) \in TaskState
           /\ Done(t).pc = "idle" /\ Done(t).left = {}
           /\ Done(t).verb = task[t].verb /\ Done(t).cluster = task[t].cluster
  BY DEF Done, TaskState

-----------------------------------------------------------------------------
(* The steps of one task.                                                  *)

\* A task that moves on, for the same cluster and with the same verb, keeps
\* the discipline; generations only go up, so no stale deadline comes back.
LEMMA MovesOn ==
    ASSUME TypeOK, Disciplined, OneLiveDeadline,
           NEW t \in Task, NEW s \in TaskState, task' = [task EXCEPT ![t] = s],
           task[t].pc # "idle", s.pc # "asleep",
           s.verb = task[t].verb, s.cluster = task[t].cluster,
           s.pc = "arm" => task[t].pc = "execute" /\ s.verb = "PAUSE",
           s.pc = "bump" => s.verb = "RESUME",
           s.left \subseteq PoolsOf(s.cluster),
           holds' \in [Cluster -> Nat], \A c \in Cluster : holds[c] \leq holds'[c]
    PROVE  Disciplined' /\ OneLiveDeadline'
  <1>1. /\ task' \in [Task -> TaskState] /\ task'[t] = s
        /\ \A u \in Task : u # t => task'[u] = task[u]
    BY Moved DEF TypeOK
  <1>2. \A u \in Task : task[u].cluster \in Cluster /\ task[u].gen \in Nat
    BY DEF TypeOK, TaskState
  <1>3. \A c \in Cluster : holds[c] \in Nat /\ holds'[c] \in Nat
    BY DEF TypeOK
  <1>4. \A u \in Task :
          /\ task'[u].pc = "arm" => task'[u].verb = "PAUSE"
          /\ task'[u].pc = "bump" => task'[u].verb = "RESUME"
          /\ task'[u].left \subseteq PoolsOf(task'[u].cluster)
          /\ task'[u].pc = "asleep" => task'[u].gen \leq holds'[task'[u].cluster]
    <2> TAKE u \in Task
    <2>1. CASE u = t
      BY <1>1, <2>1 DEF Disciplined
    <2>2. CASE u # t
      BY <1>1, <1>2, <1>3, <2>2 DEF Disciplined
    <2> QED  BY <2>1, <2>2
  <1>5. \A r \in Request :
          /\ task'[<<r, "handler">>].pc # "asleep"
          /\ task'[<<r, "deadline">>].pc # "arm"
          /\ task'[<<r, "deadline">>].verb = "RESUME"
          /\ /\ task'[<<r, "handler">>].pc # "idle"
             /\ task'[<<r, "handler">>].verb = "PAUSE"
             => task'[<<r, "deadline">>].pc = "idle"
    <2> TAKE r \in Request
    <2> DEFINE h == <<r, "handler">>
               d == <<r, "deadline">>
    <2>1. h \in Task /\ d \in Task /\ h # d
      BY Tasks
    <2>2. /\ task[h].pc # "asleep" /\ task[d].pc # "arm" /\ task[d].verb = "RESUME"
          /\ task[h].pc # "idle" /\ task[h].verb = "PAUSE" => task[d].pc = "idle"
      BY DEF Disciplined
    <2> HIDE DEF h, d
    <2>3. /\ task'[h].pc # "asleep" /\ task'[d].pc # "arm" /\ task'[d].verb = "RESUME"
          /\ task'[h].pc # "idle" /\ task'[h].verb = "PAUSE" => task'[d].pc = "idle"
      <3>1. CASE t = h
        BY <1>1, <2>1, <2>2, <3>1
      <3>2. CASE t = d
        BY <1>1, <2>1, <2>2, <3>2
      <3>3. CASE t # h /\ t # d
        BY <1>1, <2>1, <2>2, <3>3
      <3> QED  BY <3>1, <3>2, <3>3
    <2> QED  BY <2>3 DEF h, d
  <1>6. OneLiveDeadline'
    <2> SUFFICES ASSUME NEW u \in Task, NEW v \in Task,
                        task'[u].pc = "asleep", task'[v].pc = "asleep",
                        task'[u].cluster = task'[v].cluster,
                        task'[u].gen = holds'[task'[u].cluster],
                        task'[v].gen = holds'[task'[v].cluster]
                 PROVE  u = v
      BY DEF OneLiveDeadline
    <2>1. task'[u] = task[u] /\ task'[v] = task[v]
      BY <1>1
    <2>2. /\ task[u].gen \leq holds[task[u].cluster]
          /\ task[v].gen \leq holds[task[v].cluster]
      BY <2>1 DEF Disciplined
    <2>3. /\ task[u].gen = holds[task[u].cluster]
          /\ task[v].gen = holds[task[v].cluster]
      BY <1>2, <1>3, <2>1, <2>2
    <2> QED  BY <2>1, <2>3 DEF OneLiveDeadline
  <1> QED  BY <1>4, <1>5, <1>6 DEF Disciplined

\* What holds of the pools: a pool some other task is to release still has
\* that task, as long as its cluster's generation stands.
LEMMA OthersRelease ==
    ASSUME TypeOK, NEW t \in Task, NEW u \in Task, u # t, NEW p \in Pool, Releases(u, p),
           task'[u] = task[u], holds'[ClusterOf[p]] = holds[ClusterOf[p]]
    PROVE  Releases(u, p)'
  BY DEF Releases

\* A release outdates the hold and becomes the task that resumes the cluster.
LEMMA BumpInv ==
    ASSUME Inv, NEW t \in Task, Bump(t)
    PROVE  Inv'
  <1> DEFINE s == [task[t] EXCEPT !.pc = "connect"]
             c == task[t].cluster
  <1>0. TypeOK /\ Disciplined /\ OneLiveDeadline /\ c \in Cluster
    BY DEF Inv, TypeOK, TaskState
  <1>1. /\ s \in TaskState /\ s.pc = "connect" /\ s.verb = task[t].verb
        /\ s.cluster = c /\ s.left = task[t].left
    BY <1>0 DEF TypeOK, TaskState
  <1>2. task' = [task EXCEPT ![t] = s] /\ task[t].pc = "bump" /\ s.verb = "RESUME"
    BY <1>0, <1>1 DEF Bump, Disciplined
  <1>3. /\ holds' = [holds EXCEPT ![c] = holds[c] + 1] /\ holds' \in [Cluster -> Nat]
        /\ \A k \in Cluster : k # c => holds'[k] = holds[k]
        /\ \A k \in Cluster : holds[k] \leq holds'[k]
    BY <1>0 DEF Bump, TypeOK
  <1>4. UNCHANGED <<doorman, failed, bounds>>
    BY DEF Bump
  <1> HIDE DEF s
  <1>5. Disciplined' /\ OneLiveDeadline'
    BY <1>0, <1>1, <1>2, <1>3, MovesOn DEF Disciplined
  <1>6. /\ task' \in [Task -> TaskState] /\ task'[t] = s
        /\ \A u \in Task : u # t => task'[u] = task[u]
    BY <1>0, <1>1, <1>2, Moved DEF TypeOK
  <1>7. Covered'
    <2> SUFFICES ASSUME NEW p \in paused', ClusterOf[p] \notin failed'
                 PROVE  \E u \in Task : Releases(u, p)'
      BY DEF Covered, Releases
    <2>1. p \in paused /\ p \in Pool /\ ClusterOf[p] \notin failed /\ ClusterOf[p] \in Cluster
      BY <1>0, <1>4, SpecOK DEF doorman, TypeOK
    <2>2. PICK u \in Task : Releases(u, p)
      BY <2>1 DEF Inv, Covered
    <2>3. CASE ClusterOf[p] = c
      BY <1>1, <1>2, <1>6, <2>3 DEF Releases
    <2>4. CASE ClusterOf[p] # c
      <3>1. u # t
        BY <2>2, <2>4 DEF Releases
      <3> QED  BY <1>0, <1>3, <1>6, <2>1, <2>2, <2>4, <3>1, OthersRelease
    <2> QED  BY <2>3, <2>4
  <1>8. TypeOK'
    BY <1>0, <1>3, <1>4, <1>6 DEF TypeOK, doorman, bounds
  <1> QED  BY <1>4, <1>5, <1>7, <1>8 DEF Inv, doorman

\* A RESUME that cannot connect is reported; a PAUSE that cannot holds nothing.
LEMMA ConnectInv ==
    ASSUME Inv, NEW t \in Task, Connect(t)
    PROVE  Inv'
  <1> DEFINE c == task[t].cluster
             open == [task[t] EXCEPT !.pc = "execute", !.left = PoolsOf(c)]
  <1>0. /\ TypeOK /\ Disciplined /\ OneLiveDeadline /\ c \in Cluster
        /\ task[t].verb \in {"PAUSE", "RESUME"} /\ task[t].pc = "connect"
    BY DEF Inv, TypeOK, TaskState, Connect
  <1>1. /\ open \in TaskState /\ open.pc = "execute" /\ open.verb = task[t].verb
        /\ open.cluster = c /\ open.left = PoolsOf(c)
    BY <1>0 DEF TypeOK, TaskState, PoolsOf
  <1>2. PICK s \in {open, Done(t)} :
          /\ task' = [task EXCEPT ![t] = s]
          /\ s = open => failed' = failed
          /\ s # open => failed' = IF task[t].verb = "RESUME" THEN failed \cup {c} ELSE failed
    <2>1. Done(t) # open
      BY <1>0, <1>1, DoneIs DEF TypeOK
    <2>2. \/ task' = [task EXCEPT ![t] = open] /\ UNCHANGED failed
          \/ /\ task' = [task EXCEPT ![t] = Done(t)]
             /\ failed' = IF task[t].verb = "RESUME" THEN failed \cup {c} ELSE failed
      BY DEF Connect
    <2> HIDE DEF open
    <2> QED  BY <2>1, <2>2
  <1>3. /\ s \in TaskState /\ s.verb = task[t].verb /\ s.cluster = c
        /\ s.pc \in {"execute", "idle"} /\ s.left \subseteq PoolsOf(c)
        /\ s = open \/ s.pc = "idle"
    BY <1>0, <1>1, <1>2, DoneIs DEF TypeOK
  <1>4. UNCHANGED <<doorman, holds, bounds>>
    BY DEF Connect
  <1>5. failed' \in SUBSET Cluster
    BY <1>0, <1>2 DEF TypeOK
  <1> HIDE DEF open
  <1>6. \A k \in Cluster : holds[k] \leq holds'[k]
    BY <1>0, <1>4 DEF TypeOK
  <1>7. Disciplined' /\ OneLiveDeadline'
    BY <1>0, <1>2, <1>3, <1>4, <1>6, MovesOn DEF TypeOK
  <1>8. /\ task' \in [Task -> TaskState] /\ task'[t] = s
        /\ \A u \in Task : u # t => task'[u] = task[u]
    BY <1>0, <1>2, <1>3, Moved DEF TypeOK
  <1>9. Covered'
    <2> SUFFICES ASSUME NEW p \in paused', ClusterOf[p] \notin failed'
                 PROVE  \E u \in Task : Releases(u, p)'
      BY DEF Covered, Releases
    <2>1. p \in paused /\ p \in Pool /\ ClusterOf[p] \notin failed /\ ClusterOf[p] \in Cluster
      BY <1>0, <1>2, <1>4, SpecOK DEF doorman, TypeOK
    <2>2. PICK u \in Task : Releases(u, p)
      BY <2>1 DEF Inv, Covered
    <2>3. CASE u = t
      <3>1. task[t].verb = "RESUME" /\ ClusterOf[p] = c
        BY <1>0, <2>2, <2>3 DEF Releases
      <3>2. s = open
        BY <1>2, <3>1
      <3>3. p \in PoolsOf(c)
        BY <2>1, <3>1 DEF PoolsOf
      <3> QED  BY <1>1, <1>8, <3>1, <3>2, <3>3 DEF Releases
    <2>4. CASE u # t
      BY <1>0, <1>4, <1>8, <2>1, <2>2, <2>4, OthersRelease
    <2> QED  BY <2>3, <2>4
  <1>10. TypeOK'
    BY <1>0, <1>4, <1>5, <1>8 DEF TypeOK, doorman, bounds
  <1> QED  BY <1>4, <1>7, <1>9, <1>10 DEF Inv, doorman

\* Both outcomes of one command on the console.
LEMMA ExecuteInv ==
    ASSUME Inv, NEW t \in Task, NEW p \in Pool, Execute(t, p) \/ ExecuteFails(t, p)
    PROVE  Inv'
  <1> DEFINE c == task[t].cluster
             rest == [task[t] EXCEPT !.left = @ \ {p}]
             arming == [task[t] EXCEPT !.pc = "arm", !.left = {}]
  <1>0. /\ TypeOK /\ Disciplined /\ OneLiveDeadline /\ c \in Cluster
        /\ task[t].verb \in {"PAUSE", "RESUME"} /\ task[t].pc = "execute"
        /\ p \in task[t].left /\ task[t].left \subseteq PoolsOf(c) /\ ClusterOf[p] = c
        /\ paused \subseteq live
    BY DEF Inv, TypeOK, TaskState, Execute, ExecuteFails, Disciplined, PoolsOf
  <1>1. /\ rest \in TaskState /\ rest.pc = "execute" /\ rest.verb = task[t].verb
        /\ rest.cluster = c /\ rest.left = task[t].left \ {p}
    BY <1>0 DEF TypeOK, TaskState
  <1>2. /\ arming \in TaskState /\ arming.pc = "arm" /\ arming.verb = task[t].verb
        /\ arming.cluster = c /\ arming.left = {}
    BY <1>0 DEF TypeOK, TaskState
  <1>3. PICK s \in {rest, arming, Done(t)} :
          /\ task' = [task EXCEPT ![t] = s]
          /\ s = arming => task[t].verb = "PAUSE"
          /\ Execute(t, p) => s = After(t, p)
    <2>1. /\ After(t, p) \in {rest, arming, Done(t)}
          /\ After(t, p) = arming => task[t].verb = "PAUSE"
      <3>1. rest # arming /\ Done(t) # arming
        BY <1>0, <1>1, <1>2, DoneIs DEF TypeOK
      <3>2. After(t, p) = IF task[t].left # {p} THEN rest
                          ELSE IF task[t].verb = "PAUSE" THEN arming ELSE Done(t)
        BY DEF After
      <3> HIDE DEF rest, arming
      <3> QED  BY <3>1, <3>2
    <2>2. \/ Execute(t, p) /\ task' = [task EXCEPT ![t] = After(t, p)]
          \/ ~Execute(t, p) /\ task' = [task EXCEPT ![t] = Done(t)]
      BY DEF Execute, ExecuteFails
    <2>3. Done(t) # arming
      BY <1>0, <1>2, DoneIs DEF TypeOK
    <2> HIDE DEF rest, arming
    <2> QED  BY <2>1, <2>2, <2>3
  <1>4. /\ s \in TaskState /\ s.verb = task[t].verb /\ s.cluster = c
        /\ s.pc \in {"execute", "arm", "idle"} /\ s.left \subseteq PoolsOf(c)
        /\ s.pc = "arm" => s.verb = "PAUSE"
    BY <1>0, <1>1, <1>2, <1>3, DoneIs DEF TypeOK
  <1>5. Execute(t, p) =>
           /\ task[t].verb = "PAUSE" => s.pc \in {"execute", "arm"}
           /\ task[t].verb = "RESUME" /\ task[t].left # {p} =>
                s.pc = "execute" /\ s.left = task[t].left \ {p}
    BY <1>1, <1>2, <1>3 DEF After
  <1>6. UNCHANGED <<live, holds, bounds>>
    BY DEF Execute, ExecuteFails
  <1>7. /\ failed' \in SUBSET Cluster /\ failed \subseteq failed'
        /\ ExecuteFails(t, p) => c \in failed'
        /\ Execute(t, p) \/ ExecuteFails(t, p)
    BY <1>0 DEF TypeOK, Execute, ExecuteFails
  <1>8. /\ paused' \subseteq paused \cup {p} /\ paused' \subseteq live
        /\ Execute(t, p) /\ task[t].verb = "RESUME" => p \notin paused'
    BY <1>0 DEF Execute, ExecuteFails, Apply
  <1> HIDE DEF rest, arming
  <1>9. \A k \in Cluster : holds[k] \leq holds'[k]
    BY <1>0, <1>6 DEF TypeOK
  <1>10. Disciplined' /\ OneLiveDeadline'
    BY <1>0, <1>3, <1>4, <1>6, <1>9, MovesOn DEF TypeOK
  <1>11. /\ task' \in [Task -> TaskState] /\ task'[t] = s
         /\ \A u \in Task : u # t => task'[u] = task[u]
    BY <1>0, <1>3, <1>4, Moved DEF TypeOK
  <1>12. Covered'
    <2> SUFFICES ASSUME NEW q \in paused', ClusterOf[q] \notin failed'
                 PROVE  \E u \in Task : Releases(u, q)'
      BY DEF Covered, Releases
    <2>1. q \in Pool /\ q \in paused \cup {p} /\ ClusterOf[q] \notin failed
      BY <1>0, <1>7, <1>8 DEF TypeOK
    <2>2. CASE q \notin paused
      <3>1. q = p /\ Execute(t, p) /\ task[t].verb = "PAUSE"
        BY <1>0, <1>7, <1>8, <2>1, <2>2
      <3> QED  BY <1>0, <1>4, <1>5, <1>11, <3>1 DEF Releases
    <2>3. CASE q \in paused
      <3>1. PICK u \in Task : Releases(u, q)
        BY <2>1, <2>3 DEF Inv, Covered
      <3>2. CASE u = t
        <4>1. ClusterOf[q] = c /\ Execute(t, p)
          BY <1>7, <3>1, <3>2 DEF Releases
        <4>2. task[t].verb = "RESUME" => q \in task[t].left /\ q # p
          BY <1>0, <1>8, <3>1, <3>2, <4>1 DEF Releases
        <4>3. task[t].verb = "RESUME" => s.pc = "execute" /\ q \in s.left
          BY <1>5, <4>1, <4>2
        <4> QED  BY <1>0, <1>4, <1>5, <1>11, <4>1, <4>3 DEF Releases
      <3>3. CASE u # t
        BY <1>0, <1>6, <1>11, <2>1, <3>1, <3>3, OthersRelease
      <3> QED  BY <3>2, <3>3
    <2> QED  BY <2>2, <2>3
  <1>13. TypeOK'
    BY <1>0, <1>6, <1>7, <1>8, <1>11 DEF TypeOK, bounds
  <1> QED  BY <1>6, <1>8, <1>10, <1>12, <1>13 DEF Inv

\* A deadline that is current goes on to resume, one that is not held nothing.
LEMMA FireInv ==
    ASSUME Inv, NEW r \in Request, Fire(r)
    PROVE  Inv'
  <1> DEFINE t == <<r, "deadline">>
             c == task[t].cluster
             going == [task[t] EXCEPT !.pc = "bump"]
  <1>0. /\ TypeOK /\ Disciplined /\ OneLiveDeadline /\ t \in Task /\ c \in Cluster
        /\ task[t].verb = "RESUME" /\ task[t].pc = "asleep"
    BY Tasks DEF Inv, TypeOK, TaskState, Fire, Disciplined
  <1>1. /\ going \in TaskState /\ going.pc = "bump" /\ going.verb = "RESUME"
        /\ going.cluster = c /\ going.left = task[t].left
    BY <1>0 DEF TypeOK, TaskState
  <1>2. PICK s \in {going, Done(t)} :
          /\ task' = [task EXCEPT ![t] = s]
          /\ task[t].gen = holds[c] => s = going
    BY <1>0 DEF Fire, TypeOK
  <1>3. /\ s \in TaskState /\ s.verb = task[t].verb /\ s.cluster = c
        /\ s.pc \in {"bump", "idle"} /\ s.left \subseteq PoolsOf(c)
    BY <1>0, <1>1, <1>2, DoneIs DEF TypeOK, Disciplined
  <1>4. UNCHANGED <<doorman, holds, failed, bounds>>
    BY DEF Fire
  <1> HIDE DEF going, t
  <1>5. \A k \in Cluster : holds[k] \leq holds'[k]
    BY <1>0, <1>4 DEF TypeOK
  <1>6. Disciplined' /\ OneLiveDeadline'
    BY <1>0, <1>2, <1>3, <1>4, <1>5, MovesOn DEF TypeOK
  <1>7. /\ task' \in [Task -> TaskState] /\ task'[t] = s
        /\ \A u \in Task : u # t => task'[u] = task[u]
    BY <1>0, <1>2, <1>3, Moved DEF TypeOK
  <1>8. Covered'
    <2> SUFFICES ASSUME NEW p \in paused', ClusterOf[p] \notin failed'
                 PROVE  \E u \in Task : Releases(u, p)'
      BY DEF Covered, Releases
    <2>1. p \in paused /\ p \in Pool /\ ClusterOf[p] \notin failed
      BY <1>0, <1>4 DEF doorman, TypeOK
    <2>2. PICK u \in Task : Releases(u, p)
      BY <2>1 DEF Inv, Covered
    <2>3. CASE u = t
      <3>1. ClusterOf[p] = c /\ task[t].gen = holds[c]
        BY <1>0, <2>2, <2>3 DEF Releases
      <3> QED  BY <1>0, <1>1, <1>2, <1>7, <3>1 DEF Releases
    <2>4. CASE u # t
      BY <1>0, <1>4, <1>7, <2>1, <2>2, <2>4, OthersRelease
    <2> QED  BY <2>3, <2>4
  <1>9. TypeOK'
    BY <1>0, <1>4, <1>7 DEF TypeOK, doorman, bounds
  <1> QED  BY <1>4, <1>6, <1>8, <1>9 DEF Inv, doorman

-----------------------------------------------------------------------------
(* A request arrives.                                                      *)

\* A request starts in the slot of a request that is over.
LEMMA AcceptInv ==
    ASSUME Inv, NEW r \in Request, NEW c \in Cluster, NEW verb, NEW pc,
           <<verb, pc>> \in {<<"PAUSE", "connect">>, <<"RESUME", "bump">>},
           Accept(r, c, verb, pc)
    PROVE  Inv'
  <1> DEFINE h == <<r, "handler">>
             d == <<r, "deadline">>
             s == [pc |-> pc, verb |-> verb, cluster |-> c, left |-> {}, gen |-> 0]
  <1>0. /\ TypeOK /\ Disciplined /\ OneLiveDeadline
        /\ h \in Task /\ d \in Task /\ h # d
        /\ task[h].pc = "idle" /\ task[d].pc = "idle"
    BY Tasks DEF Inv, Accept, Free, Kind
  <1>1. /\ s \in TaskState /\ s.pc \in {"connect", "bump"} /\ s.left = {}
        /\ s.pc = "bump" => s.verb = "RESUME"
    BY DEF TaskState
  <1>2. /\ task' = [task EXCEPT ![h] = s]
        /\ UNCHANGED <<doorman, holds, failed, restarts>> /\ asked' = asked + 1
    BY DEF Accept
  <1> HIDE DEF s
  <1>3. /\ task' \in [Task -> TaskState] /\ task'[h] = s
        /\ \A u \in Task : u # h => task'[u] = task[u]
    BY <1>0, <1>1, <1>2, Moved DEF TypeOK
  <1>4. TypeOK'
    BY <1>0, <1>2, <1>3 DEF TypeOK, doorman
  <1>5. \A u \in Task :
          /\ task'[u].pc = "arm" => task'[u].verb = "PAUSE"
          /\ task'[u].pc = "bump" => task'[u].verb = "RESUME"
          /\ task'[u].left \subseteq PoolsOf(task'[u].cluster)
          /\ task'[u].pc = "asleep" => task'[u].gen \leq holds'[task'[u].cluster]
    <2> TAKE u \in Task
    <2>1. CASE u = h
      BY <1>1, <1>3, <2>1
    <2>2. CASE u # h
      BY <1>0, <1>2, <1>3, <2>2 DEF Disciplined
    <2> QED  BY <2>1, <2>2
  <1>6. \A q \in Request :
          /\ task'[<<q, "handler">>].pc # "asleep"
          /\ task'[<<q, "deadline">>].pc # "arm"
          /\ task'[<<q, "deadline">>].verb = "RESUME"
          /\ /\ task'[<<q, "handler">>].pc # "idle"
             /\ task'[<<q, "handler">>].verb = "PAUSE"
             => task'[<<q, "deadline">>].pc = "idle"
    <2> TAKE q \in Request
    <2> DEFINE g == <<q, "handler">>
               e == <<q, "deadline">>
    <2>1. g \in Task /\ e \in Task /\ e # h /\ (g = h => e = d)
      BY Tasks
    <2>2. /\ task[g].pc # "asleep" /\ task[e].pc # "arm" /\ task[e].verb = "RESUME"
          /\ task[g].pc # "idle" /\ task[g].verb = "PAUSE" => task[e].pc = "idle"
      BY <1>0 DEF Disciplined
    <2> HIDE DEF g, e, h, d
    <2>3. /\ task'[g].pc # "asleep" /\ task'[e].pc # "arm" /\ task'[e].verb = "RESUME"
          /\ task'[g].pc # "idle" /\ task'[g].verb = "PAUSE" => task'[e].pc = "idle"
      <3>1. CASE g = h
        BY <1>0, <1>1, <1>3, <2>1, <2>2, <3>1
      <3>2. CASE g # h
        BY <1>3, <2>1, <2>2, <3>2
      <3> QED  BY <3>1, <3>2
    <2> QED  BY <2>3 DEF g, e
  <1>7. OneLiveDeadline'
    <2> SUFFICES ASSUME NEW u \in Task, NEW v \in Task,
                        task'[u].pc = "asleep", task'[v].pc = "asleep",
                        task'[u].cluster = task'[v].cluster,
                        task'[u].gen = holds'[task'[u].cluster],
                        task'[v].gen = holds'[task'[v].cluster]
                 PROVE  u = v
      BY DEF OneLiveDeadline
    <2>1. task'[u] = task[u] /\ task'[v] = task[v]
      BY <1>1, <1>3
    <2> QED  BY <1>0, <1>2, <2>1 DEF OneLiveDeadline
  <1>8. Covered'
    <2> SUFFICES ASSUME NEW p \in paused', ClusterOf[p] \notin failed'
                 PROVE  \E u \in Task : Releases(u, p)'
      BY DEF Covered, Releases
    <2>1. p \in paused /\ p \in Pool /\ ClusterOf[p] \notin failed
      BY <1>0, <1>2 DEF doorman, TypeOK
    <2>2. PICK u \in Task : Releases(u, p)
      BY <2>1 DEF Inv, Covered
    <2>3. u # h
      BY <1>0, <2>2 DEF Releases
    <2> QED  BY <1>0, <1>2, <1>3, <2>1, <2>2, <2>3, OthersRelease
  <1>9. Disciplined'
    BY <1>5, <1>6 DEF Disciplined
  <1> QED  BY <1>2, <1>4, <1>7, <1>8, <1>9 DEF Inv, doorman

-----------------------------------------------------------------------------
(* A hold is armed: its handler is done, its deadline takes over.          *)

\* The hold passes from its handler to its deadline, and outdates the one before.
LEMMA ArmInv ==
    ASSUME Inv, NEW r \in Request, Arm(r)
    PROVE  Inv'
  <1> DEFINE h == <<r, "handler">>
             d == <<r, "deadline">>
             c == task[h].cluster
             g == holds[c] + 1
             s == [pc |-> "asleep", verb |-> "RESUME", cluster |-> c,
                   left |-> {}, gen |-> g]
  <1>0. /\ TypeOK /\ Disciplined /\ OneLiveDeadline
        /\ h \in Task /\ d \in Task /\ h # d /\ c \in Cluster
        /\ task[h].pc = "arm" /\ task[h].verb = "PAUSE" /\ task[d].pc = "idle"
    BY Tasks DEF Inv, Arm, TypeOK, TaskState, Disciplined
  <1>1. /\ g \in Nat /\ s \in TaskState /\ s.pc = "asleep" /\ s.verb = "RESUME"
        /\ s.cluster = c /\ s.left = {} /\ s.gen = g
    BY <1>0 DEF TaskState, TypeOK
  <1>2. /\ task' = [task EXCEPT ![h] = Done(h), ![d] = s]
        /\ holds' = [holds EXCEPT ![c] = g]
        /\ UNCHANGED <<doorman, failed, bounds>>
    BY DEF Arm
  <1> HIDE DEF s, h, d
  <1>3. /\ task' \in [Task -> TaskState] /\ task'[d] = s /\ task'[h] = Done(h)
        /\ \A u \in Task : u \notin {h, d} => task'[u] = task[u]
    BY <1>0, <1>1, <1>2, DoneIs DEF TypeOK
  <1>4. /\ holds' \in [Cluster -> Nat] /\ holds'[c] = g /\ holds[c] < g
        /\ \A k \in Cluster : k # c => holds'[k] = holds[k]
        /\ \A k \in Cluster : holds[k] \leq holds'[k]
    BY <1>0, <1>1, <1>2 DEF TypeOK
  <1>5. /\ Done(h).pc = "idle" /\ Done(h).left = {}
    BY <1>0, DoneIs DEF TypeOK
  <1>6. \A u \in Task : task[u].cluster \in Cluster /\ task[u].gen \in Nat
    BY <1>0 DEF TypeOK, TaskState
  <1>7. TypeOK'
    BY <1>0, <1>2, <1>3, <1>4 DEF TypeOK, doorman, bounds
  <1>8. \A u \in Task :
          /\ task'[u].pc = "arm" => task'[u].verb = "PAUSE"
          /\ task'[u].pc = "bump" => task'[u].verb = "RESUME"
          /\ task'[u].left \subseteq PoolsOf(task'[u].cluster)
          /\ task'[u].pc = "asleep" => task'[u].gen \leq holds'[task'[u].cluster]
    <2> TAKE u \in Task
    <2>1. CASE u = h
      BY <1>3, <1>5, <2>1
    <2>2. CASE u = d
      BY <1>1, <1>3, <1>4, <2>2
    <2>3. CASE u \notin {h, d}
      <3>1. /\ task[u].pc = "arm" => task[u].verb = "PAUSE"
            /\ task[u].pc = "bump" => task[u].verb = "RESUME"
            /\ task[u].left \subseteq PoolsOf(task[u].cluster)
            /\ task[u].pc = "asleep" => task[u].gen \leq holds[task[u].cluster]
        BY <1>0 DEF Disciplined
      <3>2. /\ holds[task[u].cluster] \leq holds'[task[u].cluster]
            /\ holds[task[u].cluster] \in Nat /\ holds'[task[u].cluster] \in Nat
        BY <1>0, <1>4, <1>6 DEF TypeOK
      <3> QED  BY <1>3, <1>6, <2>3, <3>1, <3>2
    <2> QED  BY <2>1, <2>2, <2>3
  <1>9. \A q \in Request :
          /\ task'[<<q, "handler">>].pc # "asleep"
          /\ task'[<<q, "deadline">>].pc # "arm"
          /\ task'[<<q, "deadline">>].verb = "RESUME"
          /\ /\ task'[<<q, "handler">>].pc # "idle"
             /\ task'[<<q, "handler">>].verb = "PAUSE"
             => task'[<<q, "deadline">>].pc = "idle"
    <2> TAKE q \in Request
    <2> DEFINE a == <<q, "handler">>
               e == <<q, "deadline">>
    <2>1. a \in Task /\ e \in Task /\ e # h /\ a # d /\ (a = h <=> e = d)
      BY Tasks DEF h, d
    <2>2. /\ task[a].pc # "asleep" /\ task[e].pc # "arm" /\ task[e].verb = "RESUME"
          /\ task[a].pc # "idle" /\ task[a].verb = "PAUSE" => task[e].pc = "idle"
      BY <1>0 DEF Disciplined
    <2> HIDE DEF a, e
    <2>3. /\ task'[a].pc # "asleep" /\ task'[e].pc # "arm" /\ task'[e].verb = "RESUME"
          /\ task'[a].pc # "idle" /\ task'[a].verb = "PAUSE" => task'[e].pc = "idle"
      <3>1. CASE a = h
        BY <1>1, <1>3, <1>5, <2>1, <3>1
      <3>2. CASE a # h
        BY <1>3, <2>1, <2>2, <3>2
      <3> QED  BY <3>1, <3>2
    <2> QED  BY <2>3 DEF a, e
  <1>10. \A u \in Task :
           /\ task'[u].pc = "asleep"
           /\ task'[u].gen = holds'[task'[u].cluster]
           /\ u # d
           => /\ task[u].pc = "asleep" /\ task'[u] = task[u] /\ task[u].cluster # c
              /\ task[u].gen = holds[task[u].cluster]
    <2> SUFFICES ASSUME NEW u \in Task, task'[u].pc = "asleep", u # d,
                        task'[u].gen = holds'[task'[u].cluster]
                 PROVE  /\ task[u].pc = "asleep" /\ task'[u] = task[u]
                        /\ task[u].cluster # c
                        /\ task[u].gen = holds[task[u].cluster]
      OBVIOUS
    <2>1. task'[u] = task[u]
      BY <1>3, <1>5
    <2>2. task[u].gen \leq holds[task[u].cluster]
      BY <1>0, <2>1 DEF Disciplined
    <2>3. task[u].cluster # c
      BY <1>0, <1>4, <1>6, <2>1, <2>2 DEF TypeOK
    <2> QED  BY <1>4, <1>6, <2>1, <2>3
  <1>11. OneLiveDeadline'
    <2> SUFFICES ASSUME NEW u \in Task, NEW v \in Task,
                        task'[u].pc = "asleep", task'[v].pc = "asleep",
                        task'[u].cluster = task'[v].cluster,
                        task'[u].gen = holds'[task'[u].cluster],
                        task'[v].gen = holds'[task'[v].cluster]
                 PROVE  u = v
      BY DEF OneLiveDeadline
    <2>1. CASE u = d
      BY <1>1, <1>3, <1>10, <2>1
    <2>2. CASE v = d
      BY <1>1, <1>3, <1>10, <2>2
    <2>3. CASE u # d /\ v # d
      BY <1>0, <1>10, <2>3 DEF OneLiveDeadline
    <2> QED  BY <2>1, <2>2, <2>3
  <1>12. Covered'
    <2> SUFFICES ASSUME NEW p \in paused', ClusterOf[p] \notin failed'
                 PROVE  \E u \in Task : Releases(u, p)'
      BY DEF Covered, Releases
    <2>1. p \in paused /\ p \in Pool /\ ClusterOf[p] \notin failed /\ ClusterOf[p] \in Cluster
      BY <1>0, <1>2, SpecOK DEF doorman, TypeOK
    <2>2. PICK u \in Task : Releases(u, p)
      BY <2>1 DEF Inv, Covered
    <2>3. CASE ClusterOf[p] = c
      BY <1>0, <1>1, <1>3, <1>4, <2>3 DEF Releases
    <2>4. CASE ClusterOf[p] # c
      <3>1. u \notin {h, d}
        BY <1>0, <2>2, <2>4 DEF Releases
      <3> QED  BY <1>0, <1>3, <1>4, <2>1, <2>2, <2>4, <3>1, OthersRelease
    <2> QED  BY <2>3, <2>4
  <1>13. Disciplined'
    BY <1>8, <1>9 DEF Disciplined
  <1> QED  BY <1>2, <1>7, <1>11, <1>12, <1>13 DEF Inv, doorman

-----------------------------------------------------------------------------
(* The steps that move no task, and the whole specification.               *)

\* Before anything is asked for there is nothing to show.
LEMMA InitInv == Init => Inv
  <1> SUFFICES ASSUME Init PROVE Inv
    OBVIOUS
  <1>1. NoTask \in TaskState /\ NoTask.pc = "idle" /\ NoTask.left = {}
        /\ NoTask.verb = "RESUME"
    BY SpecOK DEF NoTask, TaskState
  <1> HIDE DEF NoTask
  <1>2. \A t \in Task : task[t] = NoTask
    BY DEF Init
  <1>3. TypeOK
    BY <1>1 DEF Init, TypeOK
  <1>4. Disciplined
    BY <1>1, <1>2, Tasks DEF Disciplined
  <1>5. OneLiveDeadline /\ Covered
    BY <1>1, <1>2 DEF Init, OneLiveDeadline, Covered
  <1> QED  BY <1>3, <1>4, <1>5 DEF Init, Inv

\* A restart forgets the holds together with the pools they held.
LEMMA RestartInv ==
    ASSUME Inv, Restart
    PROVE  Inv'
  <1>1. NoTask \in TaskState /\ NoTask.pc = "idle" /\ NoTask.left = {}
        /\ NoTask.verb = "RESUME"
    BY SpecOK DEF NoTask, TaskState
  <1>2. /\ task' \in [Task -> TaskState] /\ \A t \in Task : task'[t] = NoTask
        /\ holds' \in [Cluster -> Nat]
        /\ live' = {} /\ paused' = {} /\ failed' = {}
        /\ restarts' \in Nat /\ asked' \in Nat
    <2>1. NoTask \in TaskState /\ asked \in Nat /\ restarts \in Nat
      BY <1>1 DEF Inv, TypeOK
    <2> HIDE DEF NoTask
    <2> QED  BY <2>1 DEF Restart
  <1> HIDE DEF NoTask
  <1>3. TypeOK'
    BY <1>2 DEF TypeOK
  <1>4. Disciplined'
    BY <1>1, <1>2, Tasks DEF Disciplined
  <1>5. OneLiveDeadline' /\ Covered'
    BY <1>1, <1>2 DEF OneLiveDeadline, Covered
  <1> QED  BY <1>2, <1>3, <1>4, <1>5 DEF Inv

\* What a hold rests on does not depend on which clients are connected.
LEMMA SameTasks ==
    ASSUME Inv, UNCHANGED <<paused, holds, task, failed>>,
           live' \in SUBSET Pool, live \subseteq live', asked' \in Nat, restarts' \in Nat
    PROVE  Inv'
  BY DEF Inv, TypeOK, Disciplined, OneLiveDeadline, Covered, Releases

\* Every action of the agent, of pg_doorman and of the container.
LEMMA NextInv ==
    ASSUME Inv, [Next]_vars
    PROVE  Inv'
  <1>1. ASSUME NEW r \in Request, NEW c \in Cluster, Pause(r, c) \/ Resume(r, c)
        PROVE  Inv'
    BY <1>1, AcceptInv DEF Pause, Resume
  <1>2. ASSUME NEW r \in Request, Arm(r) \/ Fire(r)
        PROVE  Inv'
    BY <1>2, ArmInv, FireInv
  <1>3. ASSUME NEW t \in Task, Step(t)
        PROVE  Inv'
    BY <1>3, BumpInv, ConnectInv, ExecuteInv DEF Step
  <1>4. ASSUME NEW p \in Pool, ClientConnects(p)
        PROVE  Inv'
    BY <1>4, SameTasks DEF ClientConnects, Inv, TypeOK, bounds
  <1>5. CASE Restart
    BY <1>5, RestartInv
  <1>6. CASE UNCHANGED vars
    BY <1>6, SameTasks DEF vars, Inv, TypeOK
  <1> QED  BY <1>1, <1>2, <1>3, <1>4, <1>5, <1>6 DEF Next

\* The invariant holds of every behaviour.
LEMMA InvIsInvariant == Spec => []Inv
  <1>1. Inv /\ [Next]_vars => Inv'
    BY NextInv
  <1> QED  BY <1>1, InitInv, PTL DEF Spec

\* Every variable of the agent keeps its type, whatever requests arrive.
THEOREM Typing == Spec => []TypeOK
  <1>1. Inv => TypeOK
    BY DEF Inv
  <1> QED  BY <1>1, InvIsInvariant, PTL

\* However the requests, deadlines and restarts of `handle`, `pause` and
\* `resume` interleave, a pool that holds its clients has a task that will
\* release it, unless the agent has reported an error for that very cluster.
THEOREM HoldsAreCovered == Spec => []Covered
  <1>1. Inv => Covered
    BY DEF Inv
  <1> QED  BY <1>1, InvIsInvariant, PTL

\* The generation `pause` hands to its timer leaves at most one timer of each
\* cluster that will find it current.
THEOREM OneTimerCounts == Spec => []OneLiveDeadline
  <1>1. Inv => OneLiveDeadline
    BY DEF Inv
  <1> QED  BY <1>1, InvIsInvariant, PTL

=============================================================================
