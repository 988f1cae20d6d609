----------------------------- MODULE PoolerAgent -----------------------------
(***************************************************************************)
(* The agent that is PID 1 of a pooler container: the PAUSE and RESUME     *)
(* requests of its control socket, and the deadline every hold carries.    *)
(*                                                                         *)
(* Each request runs as a tokio task of its own on a multi-threaded        *)
(* runtime, and each hold spawns one more, its deadline.  Tasks share only *)
(* the per-cluster hold generations, behind a mutex that is held for one   *)
(* read or one increment, and pg_doorman's admin console, where every      *)
(* command is sent and awaited by itself.  Those are the steps.            *)
(***************************************************************************)
EXTENDS Naturals, FiniteSets

CONSTANTS
    Cluster,       \* the clusters this pooler fronts
    Pool,          \* its pools
    ClusterOf,     \* the cluster each pool leads to
    Request,       \* control requests whose task or deadline is alive
    MaxRequests,   \* bound: requests made
    MaxRestarts    \* bound: restarts of the container

PoolsOf(c) == {p \in Pool : ClusterOf[p] = c}

ASSUME SpecOK ==
    /\ Cluster # {}
    /\ ClusterOf \in [Pool -> Cluster]
    /\ \A c \in Cluster : PoolsOf(c) # {}
    /\ MaxRequests \in Nat
    /\ MaxRestarts \in Nat

VARIABLES
    live,       \* pg_doorman: the pools some client has connected to
    paused,     \* pg_doorman: the pools that hold their clients
    holds,      \* hold generation of each cluster, 0 before the first
    task,       \* the tasks of each request: its handler and its deadline
    failed,     \* clusters on which the agent has reported an error
    asked,      \* requests made so far
    restarts    \* restarts so far

doorman == <<live, paused>>
bounds  == <<asked, restarts>>
vars    == <<live, paused, holds, task, failed, asked, restarts>>

Kind == {"handler", "deadline"}
Task == Request \X Kind

TaskState == [pc: {"idle", "asleep", "bump", "connect", "execute", "arm"},
              verb: {"PAUSE", "RESUME"}, cluster: Cluster,
              left: SUBSET Pool, gen: Nat]

Done(t) == [task[t] EXCEPT !.pc = "idle", !.left = {}, !.gen = 0]

-----------------------------------------------------------------------------
(* Requests arrive from `podman exec`: a holder's, or an operator's at the *)
(* command line, at any time.                                              *)

Free(r) == \A k \in Kind : task[<<r, k>>].pc = "idle"

Accept(r, c, verb, pc) ==
    /\ Free(r)
    /\ asked < MaxRequests
    /\ asked' = asked + 1
    /\ task' = [task EXCEPT ![<<r, "handler">>] =
                   [pc |-> pc, verb |-> verb, cluster |-> c, left |-> {}, gen |-> 0]]
    /\ UNCHANGED <<doorman, holds, failed, restarts>>

\* Mutant: a PAUSE ends the hold before it, and then connects.
PauseBumps(r, c) == Accept(r, c, "PAUSE", "bump")

Pause(r, c)  == Accept(r, c, "PAUSE", "connect")
Resume(r, c) == Accept(r, c, "RESUME", "bump")

-----------------------------------------------------------------------------
(* The steps of a task.                                                    *)

\* Mutant: the generation is a count of holds, and a release takes one away.
HoldsCounted(t) ==
    /\ task[t].pc = "bump"
    /\ holds' = [holds EXCEPT ![task[t].cluster] = @ - 1]
    /\ task'  = [task EXCEPT ![t].pc = "connect"]
    /\ UNCHANGED <<doorman, failed, bounds>>

\* resume: bumped before the command, so that the deadline of the hold that
\* is being released finds a generation that is not its own.
Bump(t) ==
    /\ task[t].pc = "bump"
    /\ holds' = [holds EXCEPT ![task[t].cluster] = @ + 1]
    /\ task'  = [task EXCEPT ![t].pc = "connect"]
    /\ UNCHANGED <<doorman, failed, bounds>>

\* for_each_pool: connect to the admin console, then one command per pool.
\* A PAUSE that cannot connect has done nothing.
Connect(t) ==
    /\ task[t].pc = "connect"
    /\ \/ /\ task' = [task EXCEPT ![t].pc = "execute",
                                  ![t].left = PoolsOf(task[t].cluster)]
          /\ UNCHANGED failed
       \/ /\ task' = [task EXCEPT ![t] = Done(t)]
          /\ failed' = IF task[t].verb = "RESUME" THEN failed \cup {task[t].cluster}
                                                 ELSE failed
    /\ UNCHANGED <<doorman, holds, bounds>>

Apply(verb, p) == IF verb = "PAUSE" THEN paused \cup {p} ELSE paused \ {p}

After(t, p) ==
    IF task[t].left # {p} THEN [task[t] EXCEPT !.left = @ \ {p}]
    ELSE IF task[t].verb = "PAUSE" THEN [task[t] EXCEPT !.pc = "arm", !.left = {}]
    ELSE Done(t)

\* A pool without clients is not there yet, and is passed over.
Execute(t, p) ==
    /\ task[t].pc = "execute"
    /\ p \in task[t].left
    /\ paused' = IF p \in live THEN Apply(task[t].verb, p) ELSE paused
    /\ task'   = [task EXCEPT ![t] = After(t, p)]
    /\ UNCHANGED <<live, holds, failed, bounds>>

\* The console answers with an error, or not at all: the command may have
\* been carried out.  The pools that are left are not visited.
ExecuteFails(t, p) ==
    /\ task[t].pc = "execute"
    /\ p \in task[t].left \cap live
    /\ paused' \in {paused, Apply(task[t].verb, p)}
    /\ task'   = [task EXCEPT ![t] = Done(t)]
    /\ failed' = failed \cup {task[t].cluster}
    /\ UNCHANGED <<live, holds, bounds>>

\* Mutant: the deadline is given the generation from before the increment.
ArmStale(r) ==
    LET t == <<r, "handler">>
        c == task[t].cluster
    IN  /\ task[t].pc = "arm"
        /\ holds' = [holds EXCEPT ![c] = @ + 1]
        /\ task'  = [task EXCEPT
                       ![t] = Done(t),
                       ![<<r, "deadline">>] =
                          [pc |-> "asleep", verb |-> "RESUME", cluster |-> c,
                           left |-> {}, gen |-> holds[c]]]
        /\ UNCHANGED <<doorman, failed, bounds>>

\* Mutant: a hold takes the generation the cluster already has.
ArmWithoutBump(r) ==
    LET t == <<r, "handler">>
        c == task[t].cluster
    IN  /\ task[t].pc = "arm"
        /\ task' = [task EXCEPT
                      ![t] = Done(t),
                      ![<<r, "deadline">>] =
                         [pc |-> "asleep", verb |-> "RESUME", cluster |-> c,
                          left |-> {}, gen |-> holds[c]]]
        /\ UNCHANGED <<doorman, holds, failed, bounds>>

\* The rest of `pause`: a new generation, a deadline for it, the reply.
Arm(r) ==
    LET t == <<r, "handler">>
        c == task[t].cluster
    IN  /\ task[t].pc = "arm"
        /\ holds' = [holds EXCEPT ![c] = @ + 1]
        /\ task'  = [task EXCEPT
                       ![t] = Done(t),
                       ![<<r, "deadline">>] =
                          [pc |-> "asleep", verb |-> "RESUME", cluster |-> c,
                           left |-> {}, gen |-> holds[c] + 1]]
        /\ UNCHANGED <<doorman, failed, bounds>>

\* The budget is spent.  A deadline whose generation is not the cluster's
\* any more does nothing; otherwise it resumes the cluster.
Fire(r) ==
    LET t == <<r, "deadline">>
    IN  /\ task[t].pc = "asleep"
        /\ task' = [task EXCEPT ![t] =
                      IF @.gen = holds[@.cluster] THEN [@ EXCEPT !.pc = "bump"]
                                                  ELSE Done(t)]
        /\ UNCHANGED <<doorman, holds, failed, bounds>>

-----------------------------------------------------------------------------
(* pg_doorman, and the container.                                          *)

\* A pool is created, not paused, by the first client that connects to it.
ClientConnects(p) ==
    /\ p \notin live
    /\ live' = live \cup {p}
    /\ UNCHANGED <<paused, holds, task, failed, bounds>>

NoTask == [pc |-> "idle", verb |-> "RESUME", cluster |-> CHOOSE c \in Cluster : TRUE,
           left |-> {}, gen |-> 0]

\* When pg_doorman exits the agent exits with it, and everything it knew.
Restart ==
    /\ restarts < MaxRestarts
    /\ restarts' = restarts + 1
    /\ live'   = {}
    /\ paused' = {}
    /\ holds'  = [c \in Cluster |-> 0]
    /\ task'   = [t \in Task |-> NoTask]
    /\ failed' = {}
    /\ UNCHANGED asked

-----------------------------------------------------------------------------
Init ==
    /\ live = {} /\ paused = {}
    /\ holds = [c \in Cluster |-> 0]
    /\ task = [t \in Task |-> NoTask]
    /\ failed = {}
    /\ asked = 0 /\ restarts = 0

Step(t) ==
    \/ Bump(t) \/ Connect(t)
    \/ \E p \in Pool : Execute(t, p) \/ ExecuteFails(t, p)

Next ==
    \/ \E r \in Request : \/ \E c \in Cluster : Pause(r, c) \/ Resume(r, c)
                          \/ Arm(r) \/ Fire(r)
    \/ \E t \in Task : Step(t)
    \/ \E p \in Pool : ClientConnects(p)
    \/ Restart

Spec == Init /\ [][Next]_vars

\* The runtime schedules every task, a sleep ends, and the console answers or
\* times out; no request is ever promised.
Fairness ==
    /\ \A t \in Task : WF_vars(Step(t))
    /\ \A r \in Request : WF_vars(Arm(r)) /\ WF_vars(Fire(r))

FairSpec == Spec /\ Fairness

-----------------------------------------------------------------------------
(* Properties.                                                             *)

\* Generations count up from 0, and a task only knows the pools of a cluster.
TypeOK ==
    /\ live   \in SUBSET Pool
    /\ paused \in SUBSET Pool
    /\ holds  \in [Cluster -> Nat]
    /\ task   \in [Task -> TaskState]
    /\ failed \in SUBSET Cluster
    /\ asked \in Nat /\ restarts \in Nat

\* The tasks that will see to it that a paused pool is released: a PAUSE that
\* has still to arm its deadline, a deadline of the current generation, or a
\* RESUME that has still to visit the pool.
Releases(t, p) ==
    /\ task[t].cluster = ClusterOf[p]
    /\ \/ task[t].verb = "PAUSE" /\ task[t].pc \in {"execute", "arm"}
       \/ task[t].pc = "asleep" /\ task[t].gen = holds[task[t].cluster]
       \/ task[t].verb = "RESUME" /\ task[t].pc \in {"bump", "connect"}
       \/ task[t].verb = "RESUME" /\ task[t].pc = "execute" /\ p \in task[t].left

\* However pauses, resumes and deadlines of all clusters interleave, a pool
\* that holds its clients has a task that will release it; the only exception
\* is a cluster for which the agent has reported an error, and that error
\* costs no other cluster its deadline.
Covered ==
    \A p \in paused : ClusterOf[p] \notin failed =>
        \E t \in Task : Releases(t, p)

\* "A deadline that fires mid-resume sees a stale generation and does not
\* issue a second one": of all the deadlines of a cluster one at most is
\* current, so the others do nothing.
OneLiveDeadline ==
    \A t, u \in Task :
        /\ task[t].pc = "asleep" /\ task[u].pc = "asleep"
        /\ task[t].cluster = task[u].cluster
        /\ task[t].gen = holds[task[t].cluster]
        /\ task[u].gen = holds[task[u].cluster]
        => t = u

\* "Always deadlined: PID 1 releases the hold when the budget expires", with
\* nobody there to resume it.
EveryHoldEnds ==
    \A p \in Pool :
        p \in paused ~> (p \notin paused \/ ClusterOf[p] \in failed)

=============================================================================
