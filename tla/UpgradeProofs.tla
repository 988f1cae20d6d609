--------------------------- MODULE UpgradeProofs ---------------------------
(***************************************************************************)
(* Proofs about Upgrade, for any versions and any number of commands and   *)
(* kills: who works on the volume, what is never lost from it, that it     *)
(* implements its lineage, and that images, data and manifest agree.       *)
(***************************************************************************)
EXTENDS Upgrade, TLAPS

\* Two data directories that differ in what running a server changes only.
Like(d, e) ==
    /\ d.kind = e.kind
    /\ d.origin = e.origin
    /\ d.version = e.version
    /\ d.bootable = e.bootable
    /\ d.intact = e.intact

-----------------------------------------------------------------------------
(* The values the steps assign, and the shape they have.                   *)

LEMMA Shapes ==
    /\ Absent \in Contents /\ Absent.kind = "absent"
    /\ Empty \in Contents /\ Empty.kind = "empty"
    /\ NoContainer \in Container /\ NoContainer.pc = "none"
    /\ NoJob \in Job /\ NoJob.pc = "none"
    /\ NoCommand \in Host /\ NoCommand.pc = "idle"
  BY DEF Absent, Empty, Contents, NoContainer, Container, NoJob, Job,
         NoCommand, Host

LEMMA FreshIs ==
    ASSUME NEW v \in Nat
    PROVE  /\ Fresh(v) \in Contents
           /\ Fresh(v).kind = "cluster" /\ Fresh(v).intact
           /\ Fresh(v).version = v
  BY DEF Fresh, Contents

LEMMA StartedIs ==
    ASSUME NEW v \in Nat
    PROVE  Started(v) \in Container /\ Started(v).pc = "layout" /\ Started(v).image = v
  BY DEF Started, Container, AgentPc

LEMMA ExitedIs ==
    ASSUME NEW v \in Nat
    PROVE  [pc |-> "exited", image |-> v] \in Container
  BY DEF Container

\* What a server, the include line and the roles change.
LEMMA Variants ==
    ASSUME NEW d \in Contents, NEW b \in BOOLEAN
    PROVE  /\ [d EXCEPT !.clean = b] \in Contents /\ Like([d EXCEPT !.clean = b], d)
           /\ [d EXCEPT !.clean = d.clean] = d
           /\ [d EXCEPT !.managed = b] \in Contents /\ Like([d EXCEPT !.managed = b], d)
           /\ [d EXCEPT !.roles = b] \in Contents /\ Like([d EXCEPT !.roles = b], d)
  BY DEF Contents, Like

\* What --link and a successor's server change.
LEMMA Losses ==
    ASSUME NEW d \in Contents
    PROVE  LET disabled == [d EXCEPT !.bootable = FALSE]
               spoilt   == [d EXCEPT !.intact = FALSE]
           IN  /\ disabled \in Contents
               /\ disabled.kind = d.kind /\ disabled.origin = d.origin
               /\ disabled.version = d.version /\ disabled.intact = d.intact
               /\ disabled.clean = d.clean
               /\ spoilt \in Contents
  BY DEF Contents

LEMMA Reborn ==
    ASSUME NEW v \in Nat, NEW n \in Nat
    PROVE  LET d == [Fresh(v) EXCEPT !.origin = n]
           IN  /\ d \in Contents /\ d.kind = "cluster" /\ d.intact
               /\ d.version = v /\ d.origin = n
  BY DEF Fresh, Contents

LEMMA CutShort ==
    ASSUME NEW v \in Nat
    PROVE  LET d == [Empty EXCEPT !.kind = "partial", !.version = v]
           IN  d \in Contents /\ d.kind = "partial"
  BY DEF Empty, Absent, Contents

LEMMA Transferred ==
    ASSUME NEW v \in Nat, NEW n \in Nat, NEW r \in BOOLEAN, NEW i \in BOOLEAN
    PROVE  LET d == [Fresh(v) EXCEPT !.origin = n, !.roles = r, !.intact = i]
           IN  /\ d \in Contents /\ d.kind = "cluster" /\ d.intact = i
               /\ d.version = v /\ d.origin = n
  BY DEF Fresh, Contents

LEMMA Fields ==
    /\ \A d \in Contents :
         /\ d.kind \in {"absent", "empty", "partial", "cluster"}
         /\ d.origin \in Nat /\ d.version \in Nat /\ d.bootable \in BOOLEAN
         /\ d.intact \in BOOLEAN /\ d.clean \in BOOLEAN /\ d.roles \in BOOLEAN
    /\ \A c \in Container : c.image \in Nat
    /\ \A j \in Job : j.from \in Nat /\ j.to \in Nat /\ j.moved \in Contents
    /\ \A h \in Host : h.from \in Nat /\ h.to \in Nat
  BY DEF Contents, Container, Job, Host

LEMMA StopsLike ==
    ASSUME pgdata \in Contents
    PROVE  /\ \A d \in Halted : d \in Contents /\ Like(d, pgdata)
           /\ container.pc = "none" => \A d \in Halted : d = pgdata
           /\ \A pc : \A d \in KilledIn(pc) : d \in Contents /\ Like(d, pgdata)
           /\ \A pc : pc = "none" => \A d \in KilledIn(pc) : d = pgdata
  BY Variants, Fields DEF Halted, KilledIn

\* The moves of the host, of the agent and of the job.
LEMMA GotoIs ==
    ASSUME host \in Host, NEW pc \in UpgradePc \cup ApplyPc \cup {"idle"}, Goto(pc)
    PROVE  /\ host' \in Host /\ host'.pc = pc
           /\ host'.from = host.from /\ host'.to = host.to
  BY DEF Goto, Host

LEMMA AgentIs ==
    ASSUME container \in Container, NEW pc \in AgentPc \cup {"none", "exited"}, Agent(pc)
    PROVE  /\ container' \in Container /\ container'.pc = pc
           /\ container'.image = container.image
  BY DEF Agent, Container

LEMMA JobAtIs ==
    ASSUME job \in Job, NEW pc \in JobPc \cup {"none", "done", "failed"}, JobAt(pc)
    PROVE  /\ job' \in Job /\ job'.pc = pc
           /\ job'.from = job.from /\ job'.to = job.to /\ job'.moved = job.moved
  BY DEF JobAt, Job

LEMMA MovesOut ==
    ASSUME job \in Job, pgdata \in Contents
    PROVE  LET j == [job EXCEPT !.pc = "swap", !.moved = pgdata]
           IN  /\ j \in Job /\ j.pc = "swap"
               /\ j.from = job.from /\ j.to = job.to /\ j.moved = pgdata
  BY DEF Job, JobPc

LEMMA NewJob ==
    ASSUME host \in Host
    PROVE  LET j == [NoJob EXCEPT !.pc = "open", !.from = host.from, !.to = host.to,
                                  !.link = host.link, !.check = host.check]
           IN  j \in Job /\ j.pc = "open" /\ j.from = host.from /\ j.to = host.to
  BY Shapes DEF Job, JobPc, Host, NoJob

LEMMA NewUpgrade ==
    ASSUME NEW f \in Nat, NEW v \in Nat, NEW l \in BOOLEAN, NEW c \in BOOLEAN
    PROVE  LET h == [NoCommand EXCEPT !.pc = "stage", !.from = f, !.to = v,
                                      !.link = l, !.check = c]
           IN  h \in Host /\ h.pc = "stage" /\ h.from = f /\ h.to = v
  BY DEF Host, NoCommand, UpgradePc

LEMMA NewApply ==
    ASSUME NEW v \in Nat, NEW r \in BOOLEAN
    PROVE  LET h == [NoCommand EXCEPT !.pc = "check", !.to = v, !.recreate = r]
           IN  h \in Host /\ h.pc = "check" /\ h.to = v
  BY DEF Host, NoCommand, ApplyPc

-----------------------------------------------------------------------------
(* Types.                                                                  *)

LEMMA TypingStep ==
    ASSUME TypeOK, [Next]_vars
    PROVE  TypeOK'
  <1> USE UpgradeOK DEF TypeOK
  <1>1. CASE Open
    BY <1>1, AgentIs, Shapes, Fields
    DEF Open, HasVersion, registry, bounds, AgentPc
  <1>2. CASE InitdbBegins
    <2>1. container.image \in Nat
      BY Fields
    <2>2. pgdata' \in Contents
      BY <1>2, <2>1, CutShort DEF InitdbBegins, AgentStep
    <2>3. container' \in Container
      BY <1>2, AgentIs DEF InitdbBegins, AgentStep, AgentPc
    <2> QED
      BY <1>2, <2>2, <2>3 DEF InitdbBegins, AgentStep, registry, bounds
  <1>3. CASE InitdbEnds
    BY <1>3, AgentIs, FreshIs, Reborn, Fields
    DEF InitdbEnds, AgentStep, registry, bounds, AgentPc
  <1>4. CASE InitdbFails
    BY <1>4, AgentIs, Shapes, Fields
    DEF InitdbFails, CanFail, AgentStep, registry, bounds, AgentPc
  <1>5. CASE AppendIncludeDir
    BY <1>5, AgentIs, Variants, Fields
    DEF AppendIncludeDir, AgentStep, registry, bounds, AgentPc
  <1>6. CASE CreateRoles
    BY <1>6, AgentIs, Variants, Fields
    DEF CreateRoles, AgentStep, Serves, registry, bounds, AgentPc
  <1>7. CASE RolesFail
    BY <1>7, AgentIs, Fields
    DEF RolesFail, CanFail, AgentStep, registry, bounds, AgentPc
  <1>8. CASE Spawn
    <2>1. pgdata' \in Contents
      BY <1>8, Variants DEF Spawn
    <2>2. \A d \in aside : Spoilt(d) \in Contents
      BY Losses DEF Spoilt
    <2>3. aside' \subseteq Contents
      BY <1>8, <2>2 DEF Spawn
    <2>4. container' \in Container
      BY <1>8, AgentIs DEF Spawn, AgentPc
    <2> QED
      BY <1>8, <2>1, <2>3, <2>4 DEF Spawn, registry, bounds
  <1>9. CASE JobOpens
    BY <1>9, JobAtIs, Shapes, Fields
    DEF JobOpens, HasVersion, registry, bounds, JobPc
  <1>10. CASE JobInitdb
    BY <1>10, JobAtIs, FreshIs, Fields
    DEF JobInitdb, registry, bounds, JobPc
  <1>11. CASE PgUpgradeChecks
    BY <1>11, JobAtIs, Shapes, Losses, Fields
    DEF PgUpgradeChecks, Serves, registry, bounds, JobPc
  <1>12. CASE PgUpgradeTransfers
    BY <1>12, JobAtIs, FreshIs, Transferred, Fields
    DEF PgUpgradeTransfers, registry, bounds, JobPc
  <1>13. CASE MoveAside
    BY <1>13, Shapes, MovesOut, Fields
    DEF MoveAside, registry, bounds
  <1>14. CASE MoveIntoPlace
    BY <1>14, JobAtIs, Shapes, Fields
    DEF MoveIntoPlace, Vacant, registry, bounds, JobPc
  <1>15. CASE PutBack
    BY <1>15, JobAtIs, Fields
    DEF PutBack, CanFail, Vacant, registry, bounds, JobPc
  <1>16. CASE Finish
    BY <1>16, JobAtIs, Variants, Fields
    DEF Finish, registry, bounds, JobPc
  <1>17. CASE JobFails
    BY <1>17, JobAtIs, Shapes, Fields
    DEF JobFails, CanFail, registry, bounds, JobPc
  <1>18. CASE BeginUpgrade
    <2>1. PICK v \in Version, l \in Links, c \in BOOLEAN :
            host' = [NoCommand EXCEPT !.pc = "stage", !.from = pgdata.version,
                                      !.to = v, !.link = l, !.check = c]
      BY <1>18 DEF BeginUpgrade
    <2>2. host' \in Host
      BY <2>1, NewUpgrade, Fields
    <2> QED
      BY <1>18, <2>2 DEF BeginUpgrade, volume, registry
  <1>19. CASE Stage
    BY <1>19, GotoIs, Shapes, Fields
    DEF Stage, AsStaged, CanFail, End, volume, registry, bounds, HasVersion,
        UpgradePc, ApplyPc
  <1>20. CASE Fence
    BY <1>20, GotoIs, Fields
    DEF Fence, SetPhase, volume, bounds, UpgradePc, ApplyPc, Phase
  <1>21. CASE AcquireHold
    BY <1>21, GotoIs, Shapes, Fields
    DEF AcquireHold, CanFail, End, volume, registry, bounds, UpgradePc,
        ApplyPc
  <1>22. CASE StopInstance
    BY <1>22, GotoIs, Shapes, StopsLike, Fields
    DEF StopInstance, CanFail, registry, bounds, UpgradePc, ApplyPc
  <1>23. CASE CreateJob
    BY <1>23, GotoIs, Shapes, NewJob, Fields
    DEF CreateJob, CanFail, volume, registry, bounds, UpgradePc, ApplyPc
  <1>24. CASE JobEnds
    BY <1>24, GotoIs, Shapes, Fields
    DEF JobEnds, CanFail, volume, registry, bounds, UpgradePc, ApplyPc
  <1>25. CASE JobOutlivesWait
    BY <1>25, GotoIs, Fields
    DEF JobOutlivesWait, JobAtWork, CanFail, volume, registry, bounds, JobPc,
        UpgradePc, ApplyPc
  <1>26. CASE Back
    BY <1>26, GotoIs, Shapes, StartedIs, StopsLike, ExitedIs, Fields
    DEF Back, StartInstance, StartFails, End, bounds, CanFail, UpgradePc,
        ApplyPc, Phase
  <1>27. CASE BackReady
    BY <1>27, GotoIs, Fields
    DEF BackReady, IsReady, GivesUp, volume, registry, bounds, AgentAtWork,
        CanFail, AgentPc, UpgradePc, ApplyPc
  <1>28. CASE BackPhase
    BY <1>28, Shapes, Fields
    DEF BackPhase, SetPhase, End, volume, bounds, Phase
  <1>29. CASE Again
    BY <1>29, GotoIs, Shapes, StartedIs, StopsLike, ExitedIs, Fields
    DEF Again, StartInstance, StartFails, End, registry, bounds, CanFail,
        UpgradePc, ApplyPc
  <1>30. CASE AgainReady
    BY <1>30, GotoIs, Shapes, Fields
    DEF AgainReady, IsReady, GivesUp, End, volume, registry, bounds,
        AgentAtWork, CanFail, AgentPc, UpgradePc, ApplyPc
  <1>31. CASE RecordTarget
    BY <1>31, GotoIs, Fields
    DEF RecordTarget, volume, bounds, UpgradePc, ApplyPc, Phase
  <1>32. CASE StartTarget
    BY <1>32, GotoIs, Shapes, StartedIs, StopsLike, ExitedIs, Fields
    DEF StartTarget, StartInstance, StartFails, End, registry, bounds,
        CanFail, UpgradePc, ApplyPc
  <1>33. CASE TargetReady
    BY <1>33, GotoIs, Shapes, Fields
    DEF TargetReady, IsReady, GivesUp, End, volume, registry, bounds,
        AgentAtWork, CanFail, AgentPc, UpgradePc, ApplyPc
  <1>34. CASE EndUpgrade
    BY <1>34, Shapes, Fields
    DEF EndUpgrade, SetPhase, End, volume, bounds, Phase
  <1>35. CASE BeginApply
    <2>1. PICK v \in Version, r \in BOOLEAN :
            host' = [NoCommand EXCEPT !.pc = "check", !.to = v, !.recreate = r]
      BY <1>35 DEF BeginApply
    <2>2. host' \in Host
      BY <2>1, NewApply
    <2> QED
      BY <1>35, <2>2 DEF BeginApply, volume, registry
  <1>36. CASE ApplyChecks
    BY <1>36, GotoIs, Shapes, Fields
    DEF ApplyChecks, ImagePasses, CanFail, End, volume, registry, bounds,
        AgentAtWork, HasVersion, AgentPc, UpgradePc, ApplyPc
  <1>37. CASE PutCluster
    BY <1>37, GotoIs, Fields
    DEF PutCluster, volume, bounds, UpgradePc, ApplyPc, Phase
  <1>38. CASE Converge
    BY <1>38, GotoIs, Shapes, StartedIs, StopsLike, ExitedIs, Fields
    DEF Converge, AgentAtWork, StartInstance, End, StartFails, bounds,
        AgentPc, CanFail, UpgradePc, ApplyPc, Phase
  <1>39. CASE ApplyReady
    BY <1>39, GotoIs, Shapes, Fields
    DEF ApplyReady, IsReady, CanFail, GivesUp, End, volume, bounds,
        AgentAtWork, AgentPc, UpgradePc, ApplyPc, Phase
  <1>40. CASE Applied
    BY <1>40, Shapes, Fields
    DEF Applied, SetPhase, End, volume, bounds, Phase
  <1>41. CASE BootStarts
    BY <1>41, AgentIs, Fields
    DEF BootStarts, volume, registry, bounds, AgentPc
  <1>42. CASE KillAgent
    BY <1>42, AgentIs, StopsLike, Fields
    DEF KillAgent, AgentAtWork, CanFail, AgentKill, registry, AgentPc
  <1>43. CASE KillJob
    BY <1>43, JobAtIs, Fields
    DEF KillJob, JobAtWork, CanFail, JobKill, volume, registry, JobPc
  <1>44. CASE CommandDies
    BY <1>44, Shapes, Fields
    DEF CommandDies, CanFail, CommandKill, End, volume, registry, JobAtWork,
        AgentPc, JobPc
  <1>45. CASE Reboot
    BY <1>45, AgentIs, Shapes, StopsLike, Fields
    DEF Reboot, CanFail, AgentAtWork, AgentKill, JobAtWork, JobKill, End,
        registry, AgentPc, JobPc
  <1>46. CASE UNCHANGED vars
    BY <1>46 DEF vars
  <1> QED BY <1>1, <1>2, <1>3, <1>4, <1>5, <1>6, <1>7, <1>8, <1>9, <1>10,
      <1>11, <1>12, <1>13, <1>14, <1>15, <1>16, <1>17, <1>18, <1>19, <1>20,
      <1>21, <1>22, <1>23, <1>24, <1>25, <1>26, <1>27, <1>28, <1>29, <1>30,
      <1>31, <1>32, <1>33, <1>34, <1>35, <1>36, <1>37, <1>38, <1>39, <1>40,
      <1>41, <1>42, <1>43, <1>44, <1>45, <1>46
    DEF Next, AgentNext, JobNext, HostNext

\* Every variable keeps its type, whatever fails.
THEOREM Typing == Spec => []TypeOK
  <1>1. Init => TypeOK
    BY Shapes DEF Init, TypeOK, Phase
  <1> QED
    BY <1>1, TypingStep, PTL DEF Spec

-----------------------------------------------------------------------------
(* One writer per volume.                                                  *)

\* The job works while its upgrade waits for it, with the instance gone; a
\* job that outlives the wait, or the command, is what breaks this.
Turns ==
    /\ JobAtWork => host.pc = "wait"
    /\ host.pc \in {"job", "wait"} => container.pc = "none"

Outlived == "timeout" \in Faults \/ "death" \in Faults

LEMMA TurnsStep ==
    ASSUME TypeOK, Turns, [Next]_vars, ~Outlived
    PROVE  Turns'
  <1> USE UpgradeOK DEF TypeOK, Turns, Outlived, JobAtWork, JobPc
  <1>1. CASE Open
    BY <1>1, AgentIs, Shapes, Fields
    DEF Open, HasVersion, registry, bounds, AgentPc
  <1>2. CASE InitdbBegins
    BY <1>2, AgentIs, Shapes, CutShort, Fields
    DEF InitdbBegins, AgentStep, Vacant, registry, bounds, AgentPc
  <1>3. CASE InitdbEnds
    BY <1>3, AgentIs, Reborn, Fields
    DEF InitdbEnds, AgentStep, registry, bounds, AgentPc
  <1>4. CASE InitdbFails
    BY <1>4, AgentIs, Shapes, Fields
    DEF InitdbFails, CanFail, AgentStep, registry, bounds, AgentPc
  <1>5. CASE AppendIncludeDir
    BY <1>5, AgentIs, Fields
    DEF AppendIncludeDir, AgentStep, registry, bounds, AgentPc
  <1>6. CASE CreateRoles
    BY <1>6, AgentIs, Fields
    DEF CreateRoles, AgentStep, Serves, registry, bounds, AgentPc
  <1>7. CASE RolesFail
    BY <1>7, AgentIs, Fields
    DEF RolesFail, CanFail, AgentStep, registry, bounds, AgentPc
  <1>8. CASE Spawn
    BY <1>8, AgentIs, Fields
    DEF Spawn, Serves, Spoilt, registry, bounds, AgentPc
  <1>9. CASE JobOpens
    BY <1>9, JobAtIs, Shapes, Fields
    DEF JobOpens, HasVersion, registry, bounds, JobPc, AgentPc
  <1>10. CASE JobInitdb
    BY <1>10, JobAtIs, Fields
    DEF JobInitdb, registry, bounds, JobPc, AgentPc
  <1>11. CASE PgUpgradeChecks
    BY <1>11, JobAtIs, Shapes, Fields
    DEF PgUpgradeChecks, Serves, registry, bounds, JobPc, AgentPc
  <1>12. CASE PgUpgradeTransfers
    BY <1>12, JobAtIs, Fields
    DEF PgUpgradeTransfers, registry, bounds, JobPc, AgentPc
  <1>13. CASE MoveAside
    BY <1>13, Shapes, MovesOut, Fields
    DEF MoveAside, registry, bounds, AgentPc
  <1>14. CASE MoveIntoPlace
    BY <1>14, JobAtIs, Shapes, Fields
    DEF MoveIntoPlace, Vacant, registry, bounds, JobPc, AgentPc
  <1>15. CASE PutBack
    BY <1>15, JobAtIs, Fields
    DEF PutBack, CanFail, Vacant, registry, bounds, JobPc, AgentPc
  <1>16. CASE Finish
    BY <1>16, JobAtIs, Fields
    DEF Finish, registry, bounds, JobPc, AgentPc
  <1>17. CASE JobFails
    BY <1>17, JobAtIs, Shapes, Fields
    DEF JobFails, CanFail, registry, bounds, JobPc, AgentPc
  <1>18. CASE BeginUpgrade
    <2>1. PICK v \in Version, l \in Links, c \in BOOLEAN :
            host' = [NoCommand EXCEPT !.pc = "stage", !.from = pgdata.version,
                                      !.to = v, !.link = l, !.check = c]
      BY <1>18 DEF BeginUpgrade
    <2>2. host'.pc = "stage"
      BY <2>1 DEF NoCommand
    <2> QED
      BY <1>18, <2>2 DEF BeginUpgrade, volume, registry
  <1>19. CASE Stage
    BY <1>19, GotoIs, Shapes, Fields
    DEF Stage, AsStaged, CanFail, End, volume, registry, bounds, HasVersion,
        UpgradePc, ApplyPc, AgentPc
  <1>20. CASE Fence
    BY <1>20, GotoIs, Fields
    DEF Fence, SetPhase, volume, bounds, UpgradePc, ApplyPc, AgentPc
  <1>21. CASE AcquireHold
    BY <1>21, GotoIs, Shapes, Fields
    DEF AcquireHold, CanFail, End, volume, registry, bounds, UpgradePc,
        ApplyPc, AgentPc
  <1>22. CASE StopInstance
    BY <1>22, GotoIs, Shapes, Fields
    DEF StopInstance, CanFail, registry, bounds, UpgradePc, ApplyPc, AgentPc
  <1>23. CASE CreateJob
    BY <1>23, GotoIs, Shapes, NewJob, Fields
    DEF CreateJob, CanFail, volume, registry, bounds, UpgradePc, ApplyPc,
        AgentPc
  <1>24. CASE JobEnds
    BY <1>24, GotoIs, Shapes, Fields
    DEF JobEnds, CanFail, volume, registry, bounds, UpgradePc, ApplyPc,
        AgentPc
  <1>25. CASE JobOutlivesWait
    BY <1>25, GotoIs, Fields
    DEF JobOutlivesWait, JobAtWork, CanFail, volume, registry, bounds, JobPc,
        UpgradePc, ApplyPc, AgentPc
  <1>26. CASE Back
    BY <1>26, GotoIs, Shapes, StartedIs, Fields
    DEF Back, StartInstance, StartFails, End, bounds, CanFail, UpgradePc,
        ApplyPc, AgentPc
  <1>27. CASE BackReady
    BY <1>27, GotoIs, Fields
    DEF BackReady, IsReady, GivesUp, volume, registry, bounds, AgentAtWork,
        CanFail, AgentPc, UpgradePc, ApplyPc
  <1>28. CASE BackPhase
    BY <1>28, Shapes, Fields
    DEF BackPhase, SetPhase, End, volume, bounds, AgentPc
  <1>29. CASE Again
    BY <1>29, GotoIs, Shapes, StartedIs, Fields
    DEF Again, StartInstance, StartFails, End, registry, bounds, CanFail,
        UpgradePc, ApplyPc, AgentPc
  <1>30. CASE AgainReady
    BY <1>30, GotoIs, Shapes, Fields
    DEF AgainReady, IsReady, GivesUp, End, volume, registry, bounds,
        AgentAtWork, CanFail, AgentPc, UpgradePc, ApplyPc
  <1>31. CASE RecordTarget
    BY <1>31, GotoIs, Fields
    DEF RecordTarget, volume, bounds, UpgradePc, ApplyPc, AgentPc
  <1>32. CASE StartTarget
    BY <1>32, GotoIs, Shapes, StartedIs, Fields
    DEF StartTarget, StartInstance, StartFails, End, registry, bounds,
        CanFail, UpgradePc, ApplyPc, AgentPc
  <1>33. CASE TargetReady
    BY <1>33, GotoIs, Shapes, Fields
    DEF TargetReady, IsReady, GivesUp, End, volume, registry, bounds,
        AgentAtWork, CanFail, AgentPc, UpgradePc, ApplyPc
  <1>34. CASE EndUpgrade
    BY <1>34, Shapes, Fields
    DEF EndUpgrade, SetPhase, End, volume, bounds, AgentPc
  <1>35. CASE BeginApply
    <2>1. PICK v \in Version, r \in BOOLEAN :
            host' = [NoCommand EXCEPT !.pc = "check", !.to = v, !.recreate = r]
      BY <1>35 DEF BeginApply
    <2>2. host'.pc = "check"
      BY <2>1 DEF NoCommand
    <2> QED
      BY <1>35, <2>2 DEF BeginApply, volume, registry
  <1>36. CASE ApplyChecks
    BY <1>36, GotoIs, Shapes, Fields
    DEF ApplyChecks, ImagePasses, CanFail, End, volume, registry, bounds,
        AgentAtWork, HasVersion, AgentPc, UpgradePc, ApplyPc
  <1>37. CASE PutCluster
    BY <1>37, GotoIs, Fields
    DEF PutCluster, volume, bounds, UpgradePc, ApplyPc, AgentPc
  <1>38. CASE Converge
    BY <1>38, GotoIs, Shapes, StartedIs, Fields
    DEF Converge, AgentAtWork, StartInstance, End, StartFails, bounds,
        AgentPc, CanFail, UpgradePc, ApplyPc
  <1>39. CASE ApplyReady
    BY <1>39, GotoIs, Shapes, Fields
    DEF ApplyReady, IsReady, CanFail, GivesUp, End, volume, bounds,
        AgentAtWork, AgentPc, UpgradePc, ApplyPc
  <1>40. CASE Applied
    BY <1>40, Shapes, Fields
    DEF Applied, SetPhase, End, volume, bounds, AgentPc
  <1>41. CASE BootStarts
    BY <1>41, AgentIs, Fields
    DEF BootStarts, volume, registry, bounds, AgentPc
  <1>42. CASE KillAgent
    BY <1>42, AgentIs, Fields
    DEF KillAgent, AgentAtWork, CanFail, AgentKill, registry, AgentPc
  <1>43. CASE KillJob
    BY <1>43, JobAtIs, Fields
    DEF KillJob, JobAtWork, CanFail, JobKill, volume, registry, JobPc,
        AgentPc
  <1>44. CASE CommandDies
    BY <1>44, Shapes, Fields
    DEF CommandDies, CanFail, CommandKill, End, volume, registry, JobAtWork,
        AgentPc, JobPc
  <1>45. CASE Reboot
    BY <1>45, AgentIs, Shapes, Fields
    DEF Reboot, CanFail, AgentAtWork, AgentKill, JobAtWork, JobKill, End,
        registry, AgentPc, JobPc
  <1>46. CASE UNCHANGED vars
    BY <1>46 DEF vars
  <1> QED BY <1>1, <1>2, <1>3, <1>4, <1>5, <1>6, <1>7, <1>8, <1>9, <1>10,
      <1>11, <1>12, <1>13, <1>14, <1>15, <1>16, <1>17, <1>18, <1>19, <1>20,
      <1>21, <1>22, <1>23, <1>24, <1>25, <1>26, <1>27, <1>28, <1>29, <1>30,
      <1>31, <1>32, <1>33, <1>34, <1>35, <1>36, <1>37, <1>38, <1>39, <1>40,
      <1>41, <1>42, <1>43, <1>44, <1>45, <1>46
    DEF Next, AgentNext, JobNext, HostNext

\* As long as no job outlives the command that waits for it, the job and the
\* instance's agent are never at work on the volume at the same time.
THEOREM OneAtATime == ~Outlived => (Spec => []OneWriter)
  <1> SUFFICES ASSUME ~Outlived PROVE Spec => []OneWriter
    OBVIOUS
  <1>1. Init => Turns
    BY DEF Init, Turns, JobAtWork, JobPc, NoJob, NoCommand
  <1>2. TypeOK /\ Turns /\ [Next]_vars => Turns'
    BY TurnsStep
  <1>3. Turns => OneWriter
    BY DEF Turns, OneWriter, AgentAtWork, AgentPc
  <1> QED
    BY <1>1, <1>2, <1>3, Typing, PTL DEF Spec

-----------------------------------------------------------------------------
(* What the commands of the host, kills and reboots do to the volume.      *)

\* Nothing but stop a server in it.
Untouched ==
    /\ pgdata' \in Contents /\ Like(pgdata', pgdata)
    /\ container.pc = "none" => pgdata' = pgdata
    /\ new' = new /\ aside' = aside /\ births' = births

\* And to the job: leave it, end it, or begin one.
JobSettles ==
    \/ job' = job
    \/ /\ job'.pc \notin JobPc
       /\ job.pc # "swap" \/ host.pc = "job" \/ "swap-kill" \in Faults
    \/ /\ host.pc = "job" /\ job'.pc = "open"
       /\ job'.from = host.from /\ job'.to = host.to

Outside == HostNext \/ BootStarts \/ KillAgent \/ KillJob \/ CommandDies \/ Reboot

LEMMA OutsideIs ==
    ASSUME TypeOK, Outside
    PROVE  Untouched /\ JobSettles
  <1> USE DEF TypeOK, Untouched, JobSettles
  <1>0. Like(pgdata, pgdata)
    BY DEF Like
  <1>1. CASE BeginUpgrade
    BY <1>1, <1>0
    DEF BeginUpgrade, volume
  <1>2. CASE Stage
    BY <1>2, <1>0
    DEF Stage, volume
  <1>3. CASE Fence
    BY <1>3, <1>0
    DEF Fence, SetPhase, volume
  <1>4. CASE AcquireHold
    BY <1>4, <1>0
    DEF AcquireHold, volume
  <1>5. CASE StopInstance
    BY <1>5, <1>0, StopsLike
    DEF StopInstance
  <1>6. CASE CreateJob
    BY <1>6, <1>0, NewJob, Shapes
    DEF CreateJob, volume, JobPc
  <1>7. CASE JobEnds
    BY <1>7, <1>0, Shapes
    DEF JobEnds, volume, JobPc
  <1>8. CASE JobOutlivesWait
    BY <1>8, <1>0
    DEF JobOutlivesWait, JobAtWork, volume
  <1>9. CASE Back
    BY <1>9, <1>0, StopsLike
    DEF Back, StartInstance, StartFails
  <1>10. CASE BackReady
    BY <1>10, <1>0
    DEF BackReady, volume
  <1>11. CASE BackPhase
    BY <1>11, <1>0
    DEF BackPhase, SetPhase, volume
  <1>12. CASE Again
    BY <1>12, <1>0, StopsLike
    DEF Again, StartInstance, StartFails
  <1>13. CASE AgainReady
    BY <1>13, <1>0
    DEF AgainReady, volume
  <1>14. CASE RecordTarget
    BY <1>14, <1>0
    DEF RecordTarget, volume
  <1>15. CASE StartTarget
    BY <1>15, <1>0, StopsLike
    DEF StartTarget, StartInstance, StartFails
  <1>16. CASE TargetReady
    BY <1>16, <1>0
    DEF TargetReady, volume
  <1>17. CASE EndUpgrade
    BY <1>17, <1>0
    DEF EndUpgrade, SetPhase, volume
  <1>18. CASE BeginApply
    BY <1>18, <1>0
    DEF BeginApply, volume
  <1>19. CASE ApplyChecks
    BY <1>19, <1>0
    DEF ApplyChecks, volume
  <1>20. CASE PutCluster
    BY <1>20, <1>0
    DEF PutCluster, volume
  <1>21. CASE Converge
    BY <1>21, <1>0, StopsLike
    DEF Converge, StartInstance, StartFails
  <1>22. CASE ApplyReady
    BY <1>22, <1>0
    DEF ApplyReady, volume
  <1>23. CASE Applied
    BY <1>23, <1>0
    DEF Applied, SetPhase, volume
  <1>24. CASE BootStarts
    BY <1>24, <1>0
    DEF BootStarts, volume
  <1>25. CASE KillAgent
    BY <1>25, <1>0, StopsLike
    DEF KillAgent, AgentAtWork, AgentPc
  <1>26. CASE KillJob
    BY <1>26, <1>0, JobAtIs
    DEF KillJob, JobAtWork, JobKill, CanFail, volume, JobPc
  <1>27. CASE CommandDies
    BY <1>27, <1>0
    DEF CommandDies, volume, JobAtWork
  <1>28. CASE Reboot
    BY <1>28, <1>0, StopsLike, Shapes
    DEF Reboot, JobAtWork, JobKill, CanFail, JobPc, AgentAtWork, AgentPc
  <1> QED BY <1>1, <1>2, <1>3, <1>4, <1>5, <1>6, <1>7, <1>8, <1>9, <1>10,
      <1>11, <1>12, <1>13, <1>14, <1>15, <1>16, <1>17, <1>18, <1>19, <1>20,
      <1>21, <1>22, <1>23, <1>24, <1>25, <1>26, <1>27, <1>28
    DEF Outside, HostNext

-----------------------------------------------------------------------------
(* The database is kept.                                                   *)

\* A complete data directory holds its database whole.
Sound(d) == d.kind = "cluster" => d.intact

Original(d) == Holds(d) /\ d.origin = 1

\* The first database is in PGDATA or was moved aside: never only in the
\* place that the next job clears.  What makes it so: every complete directory
\* is sound, since a transfer never reads from under a running server.
Kept ==
    /\ Sound(pgdata) /\ Sound(new)
    /\ job.pc = "swap" => Sound(job.moved)
    /\ job.pc = "transfer" => pgdata.kind = "cluster" /\ pgdata.clean
    /\ births > 0 => Original(pgdata) \/ \E d \in aside : Original(d)

LEMMA LikeKept ==
    ASSUME NEW d, NEW e, Like(d, e)
    PROVE  /\ Sound(d) <=> Sound(e)
           /\ Original(d) <=> Original(e)
  BY DEF Like, Sound, Original, Holds

LEMMA KeptStep ==
    ASSUME TypeOK, Turns, Kept, [Next]_vars, ~Outlived
    PROVE  Kept'
  <1> USE UpgradeOK DEF TypeOK
  <1>0. JobAtWork => ~AgentAtWork
    BY DEF Turns, AgentAtWork, AgentPc
  <1>a. CASE Outside
    <2>1. Untouched /\ JobSettles
      BY <1>a, OutsideIs
    <2>2. job'.pc \in {"swap", "transfer"} => job' = job
      BY <2>1 DEF JobSettles, JobPc
    <2>3. job.pc = "transfer" => pgdata' = pgdata
      BY <2>1 DEF Untouched, Turns, JobAtWork, JobPc
    <2> QED
      BY <2>1, <2>2, <2>3, LikeKept DEF Kept, Untouched
  <1>1. CASE Open
    BY <1>1, <1>0, AgentIs, Shapes, Fields
    DEF Open, HasVersion, registry, bounds, Kept, Sound, Original, Holds,
        Like, JobAtWork, AgentAtWork, JobPc, AgentPc
  <1>2. CASE InitdbBegins
    BY <1>2, <1>0, AgentIs, Shapes, CutShort, Fields
    DEF InitdbBegins, AgentStep, Vacant, registry, bounds, Kept, Sound,
        Original, Holds, Like, JobAtWork, AgentAtWork, JobPc, AgentPc
  <1>3. CASE InitdbEnds
    <2>1. CASE pgdata.kind = "partial"
      <3>0. container.image \in Nat /\ births + 1 \in Nat
        BY Fields
      <3> DEFINE d == [Fresh(container.image) EXCEPT !.origin = births + 1]
      <3>a. d.kind = "cluster" /\ d.intact /\ d.origin = births + 1
        BY DEF Fresh
      <3>b. pgdata' = d /\ births' = births + 1
        BY <1>3, <2>1 DEF InitdbEnds, AgentStep
      <3> HIDE DEF d
      <3>1. /\ pgdata'.kind = "cluster" /\ pgdata'.intact
            /\ pgdata'.origin = births + 1 /\ births' = births + 1
        BY <3>a, <3>b
      <3>2. births = 0 => Original(pgdata')
        BY <3>1 DEF Original, Holds
      <3>3. ~Original(pgdata) /\ job.pc # "transfer"
        BY <2>1 DEF Original, Holds, Kept
      <3> QED
        BY <1>3, <3>1, <3>2, <3>3 DEF InitdbEnds, AgentStep, Kept, Sound
    <2>2. CASE pgdata.kind # "partial"
      BY <1>3, <2>2 DEF InitdbEnds, AgentStep, Kept, Sound
    <2> QED
      BY <2>1, <2>2
  <1>4. CASE InitdbFails
    BY <1>4, <1>0, AgentIs, Shapes, Fields
    DEF InitdbFails, CanFail, AgentStep, registry, bounds, Kept, Sound,
        Original, Holds, Like, JobAtWork, AgentAtWork, JobPc, AgentPc
  <1>5. CASE AppendIncludeDir
    <2>0. Like(pgdata, pgdata) /\ Like([pgdata EXCEPT !.managed = TRUE], pgdata)
      BY Variants DEF Like
    <2>1. Like(pgdata', pgdata)
      BY <1>5, <2>0 DEF AppendIncludeDir, AgentStep
    <2>2. job.pc # "transfer"
      BY <1>5, <1>0 DEF AppendIncludeDir, AgentStep, AgentAtWork, AgentPc, JobAtWork, JobPc
    <2> QED
      BY <1>5, <2>1, <2>2, LikeKept DEF AppendIncludeDir, AgentStep, Kept
  <1>6. CASE CreateRoles
    <2>1. Like(pgdata', pgdata)
      BY <1>6, Variants DEF CreateRoles, AgentStep, Like
    <2>2. job.pc # "transfer"
      BY <1>6, <1>0 DEF CreateRoles, AgentStep, AgentAtWork, AgentPc, JobAtWork, JobPc
    <2> QED
      BY <1>6, <2>1, <2>2, LikeKept DEF CreateRoles, AgentStep, Kept
  <1>7. CASE RolesFail
    BY <1>7, <1>0, AgentIs, Fields
    DEF RolesFail, CanFail, AgentStep, registry, bounds, Kept, Sound,
        Original, Holds, Like, JobAtWork, AgentAtWork, JobPc, AgentPc
  <1>8. CASE Spawn
    <2>1. Like(pgdata', pgdata)
      BY <1>8, Variants DEF Spawn, Like
    <2>2. job.pc # "transfer"
      BY <1>8, <1>0 DEF Spawn, AgentAtWork, AgentPc, JobAtWork, JobPc
    <2>3. ASSUME NEW d \in aside, Original(d), ~Original(pgdata)
          PROVE  d \in aside'
      <3>1. CASE Serves(pgdata, container.image)
        <4>1. pgdata.origin # 1
          BY <2>3, <3>1 DEF Serves, Kept, Sound, Original, Holds
        <4>2. Spoilt(d) = d
          BY <2>3, <4>1 DEF Spoilt, Original
        <4> QED
          BY <1>8, <3>1, <4>2 DEF Spawn
      <3>2. CASE ~Serves(pgdata, container.image)
        BY <1>8, <3>2 DEF Spawn
      <3> QED
        BY <3>1, <3>2
    <2> QED
      BY <1>8, <2>1, <2>2, <2>3, LikeKept DEF Spawn, Kept
  <1>9. CASE JobOpens
    BY <1>9, <1>0, JobAtIs, Shapes, Fields
    DEF JobOpens, HasVersion, registry, bounds, Kept, Sound, Original, Holds,
        Like, JobAtWork, AgentAtWork, JobPc, AgentPc
  <1>10. CASE JobInitdb
    BY <1>10, <1>0, JobAtIs, FreshIs, Fields
    DEF JobInitdb, registry, bounds, Kept, Sound, Original, Holds, Like,
        JobAtWork, AgentAtWork, JobPc, AgentPc
  <1>11. CASE PgUpgradeChecks
    BY <1>11, <1>0, JobAtIs, Shapes, Losses, Fields
    DEF PgUpgradeChecks, Serves, registry, bounds, Kept, Sound, Original,
        Holds, Like, JobAtWork, AgentAtWork, JobPc, AgentPc
  <1>12. CASE PgUpgradeTransfers
    <2>1. pgdata.intact /\ pgdata.clean
      BY <1>12 DEF PgUpgradeTransfers, Kept, Sound
    <2>2. new'.intact
      BY <1>12, <2>1, Transferred, Fields DEF PgUpgradeTransfers
    <2>3. job'.pc = "aside"
      BY <1>12, JobAtIs DEF PgUpgradeTransfers, JobPc
    <2> QED
      BY <1>12, <2>2, <2>3 DEF PgUpgradeTransfers, Kept, Sound
  <1>13. CASE MoveAside
    BY <1>13, <1>0, Shapes, MovesOut, Fields
    DEF MoveAside, registry, bounds, Kept, Sound, Original, Holds, Like,
        JobAtWork, AgentAtWork, JobPc, AgentPc
  <1>14. CASE MoveIntoPlace
    BY <1>14, <1>0, JobAtIs, Shapes, Fields
    DEF MoveIntoPlace, Vacant, registry, bounds, Kept, Sound, Original,
        Holds, Like, JobAtWork, AgentAtWork, JobPc, AgentPc
  <1>15. CASE PutBack
    BY <1>15, <1>0, JobAtIs, Fields
    DEF PutBack, CanFail, Vacant, registry, bounds, Kept, Sound, Original,
        Holds, Like, JobAtWork, AgentAtWork, JobPc, AgentPc
  <1>16. CASE Finish
    BY <1>16, <1>0, JobAtIs, Variants, Fields
    DEF Finish, registry, bounds, Kept, Sound, Original, Holds, Like,
        JobAtWork, AgentAtWork, JobPc, AgentPc
  <1>17. CASE JobFails
    BY <1>17, <1>0, JobAtIs, Shapes, Fields
    DEF JobFails, CanFail, registry, bounds, Kept, Sound, Original, Holds,
        Like, JobAtWork, AgentAtWork, JobPc, AgentPc
  <1>18. CASE UNCHANGED vars
    BY <1>18 DEF vars, Kept, Sound, Original, Holds
  <1> QED BY <1>a, <1>1, <1>2, <1>3, <1>4, <1>5, <1>6, <1>7, <1>8, <1>9,
      <1>10, <1>11, <1>12, <1>13, <1>14, <1>15, <1>16, <1>17, <1>18
    DEF Next, Outside, AgentNext, JobNext

\* As long as no job outlives its command, the first database made in a
\* volume stays whole in one of its directories: through failed, killed and
\* repeated upgrades, with --link too, and even after an interrupted swap
\* has let a new database be made beside it.
THEOREM NeverLost == ~Outlived => (Spec => []DataKept)
  <1> SUFFICES ASSUME ~Outlived PROVE Spec => []DataKept
    OBVIOUS
  <1>1. Init => Turns /\ Kept
    BY Shapes DEF Init, Turns, JobAtWork, JobPc, NoCommand, Kept, Sound, Absent
  <1>2. TypeOK /\ Turns /\ Kept /\ [Next]_vars => Turns' /\ Kept'
    BY TurnsStep, KeptStep
  <1>3. Kept => DataKept
    BY DEF Kept, DataKept, Original
  <1> QED
    BY <1>1, <1>2, <1>3, Typing, PTL DEF Spec

-----------------------------------------------------------------------------
(* The database is kept by copies, whatever fails.                         *)

Copies == TRUE \notin Links

\* Only --link takes a pg_control away, and here nobody asks for it.
Unlinked == ~host.link /\ ~job.link

Whole(d) == d.kind = "cluster" => d.bootable

\* A server spoils what was moved aside only where the pg_control is gone, so
\* that the first database stays whole: in PGDATA, or aside, but never only
\* where the next job clears, even if a job works beside a server and what it
\* builds is worth nothing.
Spared ==
    /\ Whole(pgdata) /\ Whole(new)
    /\ job.pc = "swap" => Whole(job.moved)
    /\ \A d \in aside : Whole(d)
    /\ births > 0 => Original(pgdata) \/ \E d \in aside : Original(d)

LEMMA LinksKept ==
    ASSUME TypeOK
    PROVE  /\ \A pc : Goto(pc) => host'.link = host.link
           /\ End => ~host'.link
           /\ \A pc : JobAt(pc) => job'.link = job.link
           /\ ~NoJob.link
  BY DEF Goto, End, NoCommand, JobAt, NoJob, TypeOK, Host, Job

LEMMA UnlinkedStep ==
    ASSUME Copies, TypeOK, Unlinked, [Next]_vars
    PROVE  Unlinked'
  <1>1. CASE Open
    BY <1>1, LinksKept
    DEF Open, Unlinked
  <1>2. CASE InitdbBegins
    BY <1>2, LinksKept
    DEF InitdbBegins, AgentStep, Unlinked
  <1>3. CASE InitdbEnds
    BY <1>3, LinksKept
    DEF InitdbEnds, AgentStep, Unlinked
  <1>4. CASE InitdbFails
    BY <1>4, LinksKept
    DEF InitdbFails, AgentStep, Unlinked
  <1>5. CASE AppendIncludeDir
    BY <1>5, LinksKept
    DEF AppendIncludeDir, AgentStep, Unlinked
  <1>6. CASE CreateRoles
    BY <1>6, LinksKept
    DEF CreateRoles, AgentStep, Unlinked
  <1>7. CASE RolesFail
    BY <1>7, LinksKept
    DEF RolesFail, AgentStep, Unlinked
  <1>8. CASE Spawn
    BY <1>8, LinksKept
    DEF Spawn, Unlinked
  <1>9. CASE JobOpens
    BY <1>9, LinksKept
    DEF JobOpens, Unlinked
  <1>10. CASE JobInitdb
    BY <1>10, LinksKept
    DEF JobInitdb, Unlinked
  <1>11. CASE PgUpgradeChecks
    BY <1>11, LinksKept
    DEF PgUpgradeChecks, Unlinked
  <1>12. CASE PgUpgradeTransfers
    BY <1>12, LinksKept
    DEF PgUpgradeTransfers, Unlinked
  <1>13. CASE MoveIntoPlace
    BY <1>13, LinksKept
    DEF MoveIntoPlace, Unlinked
  <1>14. CASE PutBack
    BY <1>14, LinksKept
    DEF PutBack, Unlinked
  <1>15. CASE Finish
    BY <1>15, LinksKept
    DEF Finish, Unlinked
  <1>16. CASE JobFails
    BY <1>16, LinksKept
    DEF JobFails, Unlinked
  <1>17. CASE Stage
    BY <1>17, LinksKept
    DEF Stage, Unlinked
  <1>18. CASE Fence
    BY <1>18, LinksKept
    DEF Fence, Unlinked
  <1>19. CASE AcquireHold
    BY <1>19, LinksKept
    DEF AcquireHold, Unlinked
  <1>20. CASE StopInstance
    BY <1>20, LinksKept
    DEF StopInstance, Unlinked
  <1>21. CASE CreateJob
    <2>1. [NoJob EXCEPT !.pc = "open", !.from = host.from, !.to = host.to,
                        !.link = host.link, !.check = host.check].link = host.link
      BY DEF NoJob
    <2>2. host'.link = host.link
      BY <1>21, LinksKept DEF CreateJob
    <2> QED
      BY <1>21, <2>1, <2>2, LinksKept DEF CreateJob, Unlinked
  <1>22. CASE JobEnds
    BY <1>22, LinksKept
    DEF JobEnds, Unlinked
  <1>23. CASE JobOutlivesWait
    BY <1>23, LinksKept
    DEF JobOutlivesWait, Unlinked
  <1>24. CASE Back
    BY <1>24, LinksKept
    DEF Back, Unlinked
  <1>25. CASE BackReady
    BY <1>25, LinksKept
    DEF BackReady, Unlinked
  <1>26. CASE BackPhase
    BY <1>26, LinksKept
    DEF BackPhase, Unlinked
  <1>27. CASE Again
    BY <1>27, LinksKept
    DEF Again, Unlinked
  <1>28. CASE AgainReady
    BY <1>28, LinksKept
    DEF AgainReady, Unlinked
  <1>29. CASE RecordTarget
    BY <1>29, LinksKept
    DEF RecordTarget, Unlinked
  <1>30. CASE StartTarget
    BY <1>30, LinksKept
    DEF StartTarget, Unlinked
  <1>31. CASE TargetReady
    BY <1>31, LinksKept
    DEF TargetReady, Unlinked
  <1>32. CASE EndUpgrade
    BY <1>32, LinksKept
    DEF EndUpgrade, Unlinked
  <1>33. CASE ApplyChecks
    BY <1>33, LinksKept
    DEF ApplyChecks, Unlinked
  <1>34. CASE PutCluster
    BY <1>34, LinksKept
    DEF PutCluster, Unlinked
  <1>35. CASE Converge
    BY <1>35, LinksKept
    DEF Converge, Unlinked
  <1>36. CASE ApplyReady
    BY <1>36, LinksKept
    DEF ApplyReady, Unlinked
  <1>37. CASE Applied
    BY <1>37, LinksKept
    DEF Applied, Unlinked
  <1>38. CASE BootStarts
    BY <1>38, LinksKept
    DEF BootStarts, Unlinked
  <1>39. CASE KillAgent
    BY <1>39, LinksKept
    DEF KillAgent, Unlinked
  <1>40. CASE KillJob
    BY <1>40, LinksKept
    DEF KillJob, Unlinked
  <1>41. CASE CommandDies
    BY <1>41, LinksKept
    DEF CommandDies, Unlinked
  <1>42. CASE Reboot
    BY <1>42, LinksKept
    DEF Reboot, Unlinked
  <1>43. CASE MoveAside
    <2>1. job'.link = job.link
      BY <1>43 DEF MoveAside, TypeOK, Job
    <2> QED
      BY <1>43, <2>1 DEF MoveAside, Unlinked
  <1>44. CASE BeginUpgrade
    <2>1. PICK v \in Version, l \in Links, c \in BOOLEAN :
            host' = [NoCommand EXCEPT !.pc = "stage", !.from = pgdata.version,
                                      !.to = v, !.link = l, !.check = c]
      BY <1>44 DEF BeginUpgrade
    <2>2. l = FALSE
      BY UpgradeOK DEF Copies
    <2>3. ~host'.link
      BY <2>1, <2>2 DEF NoCommand
    <2> QED
      BY <1>44, <2>3 DEF BeginUpgrade, Unlinked
  <1>45. CASE BeginApply
    BY <1>45 DEF BeginApply, NoCommand, Unlinked
  <1>46. CASE UNCHANGED vars
    BY <1>46 DEF vars, Unlinked
  <1> QED BY <1>1, <1>2, <1>3, <1>4, <1>5, <1>6, <1>7, <1>8, <1>9, <1>10,
      <1>11, <1>12, <1>13, <1>14, <1>15, <1>16, <1>17, <1>18,
      <1>19, <1>20, <1>21, <1>22, <1>23, <1>24, <1>25, <1>26,
      <1>27, <1>28, <1>29, <1>30, <1>31, <1>32, <1>33, <1>34,
      <1>35, <1>36, <1>37, <1>38, <1>39, <1>40, <1>41, <1>42,
      <1>43, <1>44, <1>45, <1>46
    DEF Next, AgentNext, JobNext, HostNext

LEMMA LikeSpared ==
    ASSUME NEW d, NEW e, Like(d, e)
    PROVE  Whole(d) <=> Whole(e)
  BY DEF Like, Whole

LEMMA SparedStep ==
    ASSUME TypeOK, Unlinked, Spared, [Next]_vars
    PROVE  Spared'
  <1> USE UpgradeOK DEF TypeOK
  <1>a. CASE Outside
    <2>1. Untouched /\ JobSettles
      BY <1>a, OutsideIs
    <2>2. job'.pc = "swap" => job' = job
      BY <2>1 DEF JobSettles, JobPc
    <2>3. Whole(pgdata') /\ (Original(pgdata) => Original(pgdata'))
      BY <2>1, LikeKept, LikeSpared DEF Untouched, Spared
    <2> QED
      BY <2>1, <2>2, <2>3 DEF Spared, Untouched
  <1>1. CASE Open
    BY <1>1, Shapes DEF Open, Spared, Whole, Original, Holds
  <1>2. CASE InitdbBegins
    <2>1. container.image \in Nat
      BY Fields
    <2>2. pgdata' = pgdata \/ pgdata'.kind = "partial"
      BY <1>2, <2>1, CutShort DEF InitdbBegins, AgentStep
    <2>3. pgdata' = pgdata \/ ~Original(pgdata)
      BY <1>2 DEF InitdbBegins, AgentStep, Vacant, Original, Holds
    <2> QED
      BY <1>2, <2>2, <2>3 DEF InitdbBegins, AgentStep, Spared, Whole
  <1>3. CASE InitdbEnds
    <2>1. CASE pgdata.kind = "partial"
      <3> DEFINE d == [Fresh(container.image) EXCEPT !.origin = births + 1]
      <3>a. d.kind = "cluster" /\ d.intact /\ d.bootable /\ d.origin = births + 1
        BY DEF Fresh
      <3>b. pgdata' = d /\ births' = births + 1
        BY <1>3, <2>1 DEF InitdbEnds, AgentStep
      <3> HIDE DEF d
      <3>1. /\ pgdata'.kind = "cluster" /\ pgdata'.intact /\ pgdata'.bootable
            /\ pgdata'.origin = births + 1
        BY <3>a, <3>b
      <3>2. births = 0 => Original(pgdata')
        BY <3>1 DEF Original, Holds
      <3>3. ~Original(pgdata)
        BY <2>1 DEF Original, Holds
      <3>4. Whole(pgdata')
        BY <3>1 DEF Whole
      <3>5. births = 0 \/ births > 0
        OBVIOUS
      <3> QED
        BY <1>3, <3>2, <3>3, <3>4, <3>5 DEF InitdbEnds, AgentStep, Spared
    <2>2. CASE pgdata.kind # "partial"
      BY <1>3, <2>2 DEF InitdbEnds, AgentStep, Spared
    <2> QED
      BY <2>1, <2>2
  <1>4. CASE InitdbFails
    BY <1>4, Shapes
    DEF InitdbFails, AgentStep, Spared, Whole, Original, Holds
  <1>5. CASE AppendIncludeDir
    <2>0. Like(pgdata, pgdata) /\ Like([pgdata EXCEPT !.managed = TRUE], pgdata)
      BY Variants DEF Like
    <2>1. Like(pgdata', pgdata)
      BY <1>5, <2>0 DEF AppendIncludeDir, AgentStep
    <2> QED
      BY <1>5, <2>1, LikeKept, LikeSpared DEF AppendIncludeDir, AgentStep, Spared
  <1>6. CASE CreateRoles
    <2>1. Like(pgdata', pgdata)
      BY <1>6, Variants DEF CreateRoles, AgentStep, Like
    <2> QED
      BY <1>6, <2>1, LikeKept, LikeSpared DEF CreateRoles, AgentStep, Spared
  <1>7. CASE RolesFail
    BY <1>7 DEF RolesFail, AgentStep, Spared
  <1>8. CASE Spawn
    <2>1. Like(pgdata', pgdata)
      BY <1>8, Variants DEF Spawn, Like
    <2>2. Whole(pgdata') /\ (Original(pgdata) => Original(pgdata'))
      BY <2>1, LikeKept, LikeSpared DEF Spared
    <2>3. \A d \in aside : Whole(Spoilt(d)) /\ (Original(d) => Spoilt(d) = d)
      BY Fields DEF Spoilt, Spared, Whole, Original, Holds, Contents
    <2>4. CASE Serves(pgdata, container.image)
      <3>1. aside' = {Spoilt(d) : d \in aside}
        BY <1>8, <2>4 DEF Spawn
      <3>2. \A d \in aside' : Whole(d)
        BY <3>1, <2>3
      <3>3. \A d \in aside : Original(d) => d \in aside'
        BY <3>1, <2>3
      <3> QED
        BY <1>8, <2>2, <3>2, <3>3 DEF Spawn, Spared
    <2>5. CASE ~Serves(pgdata, container.image)
      BY <1>8, <2>5, <2>2 DEF Spawn, Spared
    <2> QED
      BY <2>4, <2>5
  <1>9. CASE JobOpens
    BY <1>9, JobAtIs, Shapes
    DEF JobOpens, JobPc, Spared, Whole, Original, Holds
  <1>10. CASE JobInitdb
    <2>1. Whole(new')
      BY <1>10 DEF JobInitdb, Fresh, Whole
    <2> QED
      BY <1>10, <2>1, JobAtIs DEF JobInitdb, JobPc, Spared
  <1>11. CASE PgUpgradeChecks
    <2>1. pgdata' = pgdata /\ Whole(new')
      BY <1>11, Shapes DEF PgUpgradeChecks, Unlinked, Spared, Whole
    <2> QED
      BY <1>11, <2>1, JobAtIs DEF PgUpgradeChecks, JobPc, Spared
  <1>12. CASE PgUpgradeTransfers
    <2>1. Whole(new')
      BY <1>12 DEF PgUpgradeTransfers, Fresh, Whole
    <2> QED
      BY <1>12, <2>1, JobAtIs DEF PgUpgradeTransfers, JobPc, Spared
  <1>13. CASE MoveAside
    BY <1>13, MovesOut, Shapes DEF MoveAside, Spared, Whole
  <1>14. CASE MoveIntoPlace
    <2>1. ~Original(pgdata)
      BY <1>14 DEF MoveIntoPlace, Vacant, Original, Holds
    <2> QED
      BY <1>14, <2>1, JobAtIs, Shapes DEF MoveIntoPlace, JobPc, Spared, Whole
  <1>15. CASE PutBack
    <2>1. Vacant(pgdata) => ~Original(pgdata)
      BY DEF Vacant, Original, Holds
    <2> QED
      BY <1>15, <2>1, JobAtIs DEF PutBack, JobPc, Spared
  <1>16. CASE Finish
    <2>1. Like(pgdata', pgdata)
      BY <1>16, Variants DEF Finish
    <2> QED
      BY <1>16, <2>1, JobAtIs, LikeKept, LikeSpared DEF Finish, JobPc, Spared
  <1>17. CASE JobFails
    BY <1>17, JobAtIs, Shapes DEF JobFails, JobPc, Spared, Whole
  <1>18. CASE UNCHANGED vars
    BY <1>18 DEF vars, Spared
  <1> QED BY <1>a, <1>1, <1>2, <1>3, <1>4, <1>5, <1>6, <1>7, <1>8, <1>9,
      <1>10, <1>11, <1>12, <1>13, <1>14, <1>15, <1>16, <1>17, <1>18
    DEF Next, Outside, AgentNext, JobNext

\* Upgrades that copy never lose the first database, whatever fails: jobs
\* that outlive their command and work beside an instance, kills at any
\* point, and reboots included.
THEOREM CopiesNeverLose == Copies => (Spec => []DataKept)
  <1> SUFFICES ASSUME Copies PROVE Spec => []DataKept
    OBVIOUS
  <1>1. Init => Unlinked /\ Spared
    BY Shapes DEF Init, NoCommand, NoJob, Unlinked, Spared, Whole
  <1>2. TypeOK /\ Unlinked /\ Spared /\ [Next]_vars => Unlinked' /\ Spared'
    BY UnlinkedStep, SparedStep
  <1>3. Spared => DataKept
    BY DEF Spared, DataKept, Original
  <1> QED
    BY <1>1, <1>2, <1>3, Typing, PTL DEF Spec

-----------------------------------------------------------------------------
(* The volume implements its lineage.                                      *)

\* What the host gives its containers: versions that there are, and to an
\* upgrade a later one.
Steered ==
    /\ host.pc \in UpgradePc => host.from < host.to
    /\ host.pc # "idle" => host.to \in Version
    /\ host.pc \in UpgradePc \cup {"converge", "ready", "applied"} => phase # "none"
    /\ phase # "none" => image \in Version
    /\ container.pc # "none" => container.image \in Version
    /\ JobAtWork => job.from < job.to /\ job.to \in Version

LEMMA SteeredStep ==
    ASSUME TypeOK, Steered, [Next]_vars
    PROVE  Steered'
  <1> USE UpgradeOK DEF TypeOK, Steered, JobAtWork
  <1>1. CASE Open
    BY <1>1, AgentIs, Shapes, Fields
    DEF Open, HasVersion, registry, bounds, AgentPc
  <1>2. CASE InitdbBegins
    BY <1>2, AgentIs, Shapes, CutShort, Fields
    DEF InitdbBegins, AgentStep, Vacant, registry, bounds, AgentPc
  <1>3. CASE InitdbEnds
    BY <1>3, AgentIs, Reborn, Fields
    DEF InitdbEnds, AgentStep, registry, bounds, AgentPc
  <1>4. CASE InitdbFails
    BY <1>4, AgentIs, Shapes, Fields
    DEF InitdbFails, CanFail, AgentStep, registry, bounds, AgentPc
  <1>5. CASE AppendIncludeDir
    BY <1>5, AgentIs, Fields
    DEF AppendIncludeDir, AgentStep, registry, bounds, AgentPc
  <1>6. CASE CreateRoles
    BY <1>6, AgentIs, Fields
    DEF CreateRoles, AgentStep, Serves, registry, bounds, AgentPc
  <1>7. CASE RolesFail
    BY <1>7, AgentIs, Fields
    DEF RolesFail, CanFail, AgentStep, registry, bounds, AgentPc
  <1>8. CASE Spawn
    BY <1>8, AgentIs, Fields
    DEF Spawn, Serves, Spoilt, registry, bounds, AgentPc
  <1>9. CASE JobOpens
    BY <1>9, JobAtIs, Shapes, Fields
    DEF JobOpens, HasVersion, registry, bounds, JobPc, AgentPc
  <1>10. CASE JobInitdb
    BY <1>10, JobAtIs, Fields
    DEF JobInitdb, registry, bounds, JobPc, AgentPc
  <1>11. CASE PgUpgradeChecks
    BY <1>11, JobAtIs, Shapes, Fields
    DEF PgUpgradeChecks, Serves, registry, bounds, JobPc, AgentPc
  <1>12. CASE PgUpgradeTransfers
    BY <1>12, JobAtIs, Fields
    DEF PgUpgradeTransfers, registry, bounds, JobPc, AgentPc
  <1>13. CASE MoveAside
    BY <1>13, Shapes, MovesOut, Fields
    DEF MoveAside, registry, bounds, JobPc
  <1>14. CASE MoveIntoPlace
    BY <1>14, JobAtIs, Shapes, Fields
    DEF MoveIntoPlace, Vacant, registry, bounds, JobPc, AgentPc
  <1>15. CASE PutBack
    BY <1>15, JobAtIs, Fields
    DEF PutBack, CanFail, Vacant, registry, bounds, JobPc, AgentPc
  <1>16. CASE Finish
    BY <1>16, JobAtIs, Fields
    DEF Finish, registry, bounds, JobPc, AgentPc
  <1>17. CASE JobFails
    BY <1>17, JobAtIs, Shapes, Fields
    DEF JobFails, CanFail, registry, bounds, JobPc, AgentPc
  <1>18. CASE BeginUpgrade
    <2>1. PICK v \in Version, l \in Links, c \in BOOLEAN :
            /\ v > pgdata.version
            /\ host' = [NoCommand EXCEPT !.pc = "stage", !.from = pgdata.version,
                                         !.to = v, !.link = l, !.check = c]
      BY <1>18 DEF BeginUpgrade
    <2>2. host'.from = pgdata.version /\ host'.to = v
      BY <2>1 DEF NoCommand
    <2> QED
      BY <1>18, <2>1, <2>2, Fields DEF BeginUpgrade, volume, registry
  <1>19. CASE Stage
    BY <1>19, GotoIs, Shapes, Fields
    DEF Stage, AsStaged, CanFail, End, volume, registry, bounds, HasVersion,
        UpgradePc, ApplyPc, AgentPc
  <1>20. CASE Fence
    BY <1>20, GotoIs, Fields
    DEF Fence, SetPhase, volume, bounds, UpgradePc, ApplyPc, AgentPc
  <1>21. CASE AcquireHold
    BY <1>21, GotoIs, Shapes, Fields
    DEF AcquireHold, CanFail, End, volume, registry, bounds, UpgradePc,
        ApplyPc, AgentPc
  <1>22. CASE StopInstance
    BY <1>22, GotoIs, Shapes, Fields
    DEF StopInstance, CanFail, registry, bounds, UpgradePc, ApplyPc, AgentPc
  <1>23. CASE CreateJob
    BY <1>23, GotoIs, Shapes, NewJob, Fields
    DEF CreateJob, volume, registry, bounds, UpgradePc, ApplyPc, JobPc
  <1>24. CASE JobEnds
    BY <1>24, GotoIs, Shapes, Fields
    DEF JobEnds, volume, registry, bounds, UpgradePc, ApplyPc, JobPc
  <1>25. CASE JobOutlivesWait
    BY <1>25, GotoIs, Fields
    DEF JobOutlivesWait, JobAtWork, CanFail, volume, registry, bounds, JobPc,
        UpgradePc, ApplyPc, AgentPc
  <1>26. CASE Back
    BY <1>26, GotoIs, Shapes, StartedIs, ExitedIs, Fields
    DEF Back, StartInstance, StartFails, End, bounds, CanFail, UpgradePc,
        ApplyPc, AgentPc
  <1>27. CASE BackReady
    BY <1>27, GotoIs, Fields
    DEF BackReady, IsReady, GivesUp, volume, registry, bounds, AgentAtWork,
        CanFail, AgentPc, UpgradePc, ApplyPc
  <1>28. CASE BackPhase
    BY <1>28, Shapes, Fields
    DEF BackPhase, SetPhase, End, volume, bounds, UpgradePc
  <1>29. CASE Again
    BY <1>29, GotoIs, Shapes, StartedIs, ExitedIs, Fields
    DEF Again, StartInstance, StartFails, End, registry, bounds, CanFail,
        UpgradePc, ApplyPc, AgentPc
  <1>30. CASE AgainReady
    BY <1>30, GotoIs, Shapes, Fields
    DEF AgainReady, IsReady, GivesUp, End, volume, registry, bounds,
        AgentAtWork, CanFail, AgentPc, UpgradePc, ApplyPc
  <1>31. CASE RecordTarget
    BY <1>31, GotoIs, Fields
    DEF RecordTarget, volume, bounds, UpgradePc, ApplyPc, AgentPc
  <1>32. CASE StartTarget
    BY <1>32, GotoIs, Shapes, StartedIs, ExitedIs, Fields
    DEF StartTarget, StartInstance, StartFails, End, registry, bounds,
        CanFail, UpgradePc, ApplyPc, AgentPc
  <1>33. CASE TargetReady
    BY <1>33, GotoIs, Shapes, Fields
    DEF TargetReady, IsReady, GivesUp, End, volume, registry, bounds,
        AgentAtWork, CanFail, AgentPc, UpgradePc, ApplyPc
  <1>34. CASE EndUpgrade
    BY <1>34, Shapes, Fields
    DEF EndUpgrade, SetPhase, End, volume, bounds, UpgradePc
  <1>35. CASE BeginApply
    <2>1. PICK v \in Version, r \in BOOLEAN :
            host' = [NoCommand EXCEPT !.pc = "check", !.to = v, !.recreate = r]
      BY <1>35 DEF BeginApply
    <2>2. host'.pc = "check" /\ host'.to = v
      BY <2>1, NewApply
    <2> QED
      BY <1>35, <2>2 DEF BeginApply, volume, registry, UpgradePc
  <1>36. CASE ApplyChecks
    BY <1>36, GotoIs, Shapes, Fields
    DEF ApplyChecks, ImagePasses, CanFail, End, volume, registry, bounds,
        AgentAtWork, HasVersion, AgentPc, UpgradePc, ApplyPc
  <1>37. CASE PutCluster
    BY <1>37, GotoIs, Fields
    DEF PutCluster, volume, bounds, UpgradePc, ApplyPc, AgentPc
  <1>38. CASE Converge
    BY <1>38, GotoIs, Shapes, StartedIs, ExitedIs, Fields
    DEF Converge, AgentAtWork, StartInstance, End, StartFails, bounds,
        AgentPc, CanFail, UpgradePc, ApplyPc
  <1>39. CASE ApplyReady
    BY <1>39, GotoIs, Shapes, Fields
    DEF ApplyReady, IsReady, CanFail, GivesUp, End, volume, bounds,
        AgentAtWork, AgentPc, UpgradePc, ApplyPc
  <1>40. CASE Applied
    BY <1>40, Shapes, Fields
    DEF Applied, SetPhase, End, volume, bounds, UpgradePc
  <1>41. CASE BootStarts
    BY <1>41, AgentIs, Fields
    DEF BootStarts, volume, registry, bounds, AgentPc
  <1>42. CASE KillAgent
    BY <1>42, AgentIs, Fields
    DEF KillAgent, AgentAtWork, CanFail, AgentKill, registry, AgentPc
  <1>43. CASE KillJob
    BY <1>43, JobAtIs, Fields
    DEF KillJob, JobAtWork, CanFail, JobKill, volume, registry, JobPc,
        AgentPc
  <1>44. CASE CommandDies
    BY <1>44, Shapes, Fields
    DEF CommandDies, End, volume, registry, UpgradePc
  <1>45. CASE Reboot
    BY <1>45, AgentIs, Shapes, Fields
    DEF Reboot, AgentAtWork, End, registry, UpgradePc, AgentPc, JobPc
  <1>46. CASE UNCHANGED vars
    BY <1>46 DEF vars
  <1> QED BY <1>1, <1>2, <1>3, <1>4, <1>5, <1>6, <1>7, <1>8, <1>9, <1>10,
      <1>11, <1>12, <1>13, <1>14, <1>15, <1>16, <1>17, <1>18, <1>19, <1>20,
      <1>21, <1>22, <1>23, <1>24, <1>25, <1>26, <1>27, <1>28, <1>29, <1>30,
      <1>31, <1>32, <1>33, <1>34, <1>35, <1>36, <1>37, <1>38, <1>39, <1>40,
      <1>41, <1>42, <1>43, <1>44, <1>45, <1>46
    DEF Next, AgentNext, JobNext, HostNext

-----------------------------------------------------------------------------
\* What the volume holds at each step of an upgrade, when nothing cuts the
\* swap in two: one database at most, in PGDATA but for the moment between the
\* two renames; what replaces it is that database at a later version.
Lineal ==
    /\ births = 0 => /\ pgdata.kind # "cluster" /\ new.kind = "absent"
                     /\ job.pc \notin JobPc \ {"open"}
    /\ births > 0 => /\ births = 1
                     /\ job.pc # "swap" => Original(pgdata)
                     /\ job.pc = "swap" => pgdata.kind = "absent" /\ Original(job.moved)
    /\ job.pc \in {"initdb", "check", "transfer", "aside"} => pgdata.version = job.from
    /\ job.pc \in {"aside", "swap"} => Original(new) /\ new.version = job.to
    /\ job.pc = "swap" => job.moved.version = job.from

Uncut == ~Outlived /\ "swap-kill" \notin Faults

\* The commands of the host, kills and reboots leave what the volume holds.
LEMMA OutsideLineal ==
    ASSUME TypeOK, Turns, Uncut, Outside
    PROVE  /\ Like(pgdata', pgdata) /\ new' = new /\ births' = births
           /\ JobAtWork => pgdata' = pgdata
           /\ job.pc = "swap" => job' = job
           /\ job'.pc \in JobPc \ {"open"} => job' = job
  <1>1. Untouched /\ JobSettles
    BY OutsideIs
  <1>2. JobAtWork => container.pc = "none" /\ host.pc # "job"
    BY DEF Turns
  <1> QED
    BY <1>1, <1>2 DEF Untouched, JobSettles, Uncut, JobAtWork, JobPc

\* So does an agent that changes what a server, the include line and the
\* roles do.
LEMMA LikeLineal ==
    ASSUME Lineal, Like(pgdata', pgdata), UNCHANGED <<new, births, job>>,
           job.pc \notin JobPc
    PROVE  Lineal'
  BY LikeKept DEF Lineal, Like, JobPc

LEMMA LinealStep ==
    ASSUME TypeOK, Turns, Kept, Lineal, [Next]_vars, Uncut
    PROVE  Lineal'
  <1> USE UpgradeOK DEF TypeOK
  <1>0. JobAtWork => ~AgentAtWork
    BY DEF Turns, AgentAtWork, AgentPc
  <1>a. CASE Outside
    <2>1. Original(pgdata') <=> Original(pgdata)
      BY <1>a, OutsideLineal, LikeKept
    <2> QED
      BY <1>a, <2>1, OutsideLineal DEF Lineal, Like, JobPc, JobAtWork
  <1>1. CASE Open
    BY <1>1, <1>0, AgentIs, Shapes, Fields
    DEF Open, HasVersion, registry, bounds, JobPc, AgentPc, JobAtWork,
        AgentAtWork, Lineal, Original, Holds, Like
  <1>2. CASE InitdbBegins
    BY <1>2, <1>0, AgentIs, Shapes, CutShort, Fields
    DEF InitdbBegins, AgentStep, Vacant, registry, bounds, JobPc, AgentPc,
        JobAtWork, AgentAtWork, Lineal, Original, Holds, Like
  <1>3. CASE InitdbEnds
    <2>1. CASE pgdata.kind = "partial"
      <3> DEFINE d == [Fresh(container.image) EXCEPT !.origin = births + 1]
      <3>1. d.kind = "cluster" /\ d.intact /\ d.origin = births + 1
        BY DEF Fresh
      <3>2. pgdata' = d /\ births' = births + 1 /\ UNCHANGED <<new, job>>
        BY <1>3, <2>1 DEF InitdbEnds, AgentStep
      <3> HIDE DEF d
      <3>3. job.pc \notin JobPc
        BY <1>3, <1>0 DEF InitdbEnds, AgentStep, AgentAtWork, AgentPc, JobAtWork
      <3>4. births = 0
        BY <2>1, <3>3 DEF Lineal, Original, Holds, JobPc
      <3>5. Original(pgdata') /\ births' = 1
        BY <3>1, <3>2, <3>4 DEF Original, Holds
      <3> QED
        BY <3>2, <3>3, <3>5 DEF Lineal, JobPc
    <2>2. CASE pgdata.kind # "partial"
      BY <1>3, <2>2 DEF InitdbEnds, AgentStep, Lineal
    <2> QED
      BY <2>1, <2>2
  <1>4. CASE InitdbFails
    BY <1>4, <1>0, AgentIs, Shapes, Fields
    DEF InitdbFails, CanFail, AgentStep, registry, bounds, JobPc, AgentPc,
        JobAtWork, AgentAtWork, Lineal, Original, Holds, Like
  <1>5. CASE AppendIncludeDir
    <2>1. Like(pgdata, pgdata) /\ Like([pgdata EXCEPT !.managed = TRUE], pgdata)
      BY Variants DEF Like
    <2>2. Like(pgdata', pgdata)
      BY <1>5, <2>1 DEF AppendIncludeDir, AgentStep
    <2>3. job.pc \notin JobPc
      BY <1>5, <1>0 DEF AppendIncludeDir, AgentStep, AgentAtWork, AgentPc, JobAtWork
    <2> QED
      BY <1>5, <2>2, <2>3, LikeLineal DEF AppendIncludeDir, AgentStep
  <1>6. CASE CreateRoles
    <2>1. Like(pgdata', pgdata)
      BY <1>6, Variants DEF CreateRoles, AgentStep, Like
    <2>2. job.pc \notin JobPc
      BY <1>6, <1>0 DEF CreateRoles, AgentStep, AgentAtWork, AgentPc, JobAtWork
    <2> QED
      BY <1>6, <2>1, <2>2, LikeLineal DEF CreateRoles, AgentStep
  <1>7. CASE RolesFail
    BY <1>7, <1>0, AgentIs, Fields
    DEF RolesFail, CanFail, AgentStep, registry, bounds, JobPc, AgentPc,
        JobAtWork, AgentAtWork, Lineal, Original, Holds, Like
  <1>8. CASE Spawn
    <2>1. Like(pgdata', pgdata)
      BY <1>8, Variants DEF Spawn, Like
    <2>2. job.pc \notin JobPc
      BY <1>8, <1>0 DEF Spawn, AgentAtWork, AgentPc, JobAtWork
    <2> QED
      BY <1>8, <2>1, <2>2, LikeLineal DEF Spawn
  <1>9. CASE JobOpens
    BY <1>9, JobAtIs, Shapes, Fields
    DEF JobOpens, HasVersion, registry, bounds, JobPc, Lineal, Kept, Sound,
        Original, Holds
  <1>10. CASE JobInitdb
    BY <1>10, JobAtIs, FreshIs, Fields
    DEF JobInitdb, registry, bounds, JobPc, Lineal, Kept, Sound, Original,
        Holds
  <1>11. CASE PgUpgradeChecks
    BY <1>11, JobAtIs, Shapes, Losses, Fields
    DEF PgUpgradeChecks, Serves, registry, bounds, JobPc, Lineal, Kept,
        Sound, Original, Holds
  <1>12. CASE PgUpgradeTransfers
    <2>1. pgdata.intact /\ pgdata.clean /\ pgdata.origin = 1
      BY <1>12 DEF PgUpgradeTransfers, Kept, Sound, Lineal, Original, JobPc
    <2>2. /\ new'.kind = "cluster" /\ new'.intact
          /\ new'.version = job.to /\ new'.origin = 1
      <3> DEFINE d == [Fresh(job.to) EXCEPT !.origin = pgdata.origin,
                                            !.roles  = pgdata.roles,
                                            !.intact = pgdata.intact /\ pgdata.clean]
      <3>1. d.kind = "cluster" /\ d.intact /\ d.version = job.to /\ d.origin = 1
        BY <2>1 DEF Fresh
      <3>2. new' = d
        BY <1>12 DEF PgUpgradeTransfers
      <3> QED
        BY <3>1, <3>2
    <2>3. job'.pc = "aside" /\ job'.from = job.from /\ job'.to = job.to
      BY <1>12, JobAtIs DEF PgUpgradeTransfers, JobPc
    <2> QED
      BY <1>12, <2>2, <2>3 DEF PgUpgradeTransfers, Lineal, Original, Holds, JobPc
  <1>13. CASE MoveAside
    BY <1>13, Shapes, MovesOut, Fields
    DEF MoveAside, registry, bounds, JobPc, Lineal, Kept, Sound, Original,
        Holds
  <1>14. CASE MoveIntoPlace
    BY <1>14, JobAtIs, Shapes, Fields
    DEF MoveIntoPlace, Vacant, registry, bounds, JobPc, Lineal, Kept, Sound,
        Original, Holds
  <1>15. CASE PutBack
    BY <1>15, JobAtIs, Fields
    DEF PutBack, CanFail, Vacant, registry, bounds, JobPc, Lineal, Kept,
        Sound, Original, Holds
  <1>16. CASE Finish
    BY <1>16, JobAtIs, Variants, Fields
    DEF Finish, registry, bounds, JobPc, Lineal, Kept, Sound, Original, Holds
  <1>17. CASE JobFails
    BY <1>17, JobAtIs, Shapes, Fields
    DEF JobFails, CanFail, registry, bounds, JobPc, Lineal, Kept, Sound,
        Original, Holds
  <1>18. CASE UNCHANGED vars
    BY <1>18 DEF vars, Lineal, Original, Holds
  <1> QED BY <1>a, <1>1, <1>2, <1>3, <1>4, <1>5, <1>6, <1>7, <1>8, <1>9,
      <1>10, <1>11, <1>12, <1>13, <1>14, <1>15, <1>16, <1>17, <1>18
    DEF Next, Outside, AgentNext, JobNext

-----------------------------------------------------------------------------
\* The database the volume holds, before a step and after it.
LEMMA DatabaseIs ==
    ASSUME births \in Nat, Lineal
    PROVE  /\ births = 0 => Database = [origin |-> 0, version |-> 0]
           /\ births > 0 => /\ job.pc # "swap" => Database = Id(pgdata)
                            /\ job.pc = "swap" => Database = Id(job.moved)
  BY DEF Lineal, Original, Holds, Database, JobPc

LEMMA DatabaseBecomes ==
    ASSUME births' \in Nat, Lineal'
    PROVE  /\ births' = 0 => Database' = [origin |-> 0, version |-> 0]
           /\ births' > 0 => /\ job'.pc # "swap" => Database' = Id(pgdata')
                             /\ job'.pc = "swap" => Database' = Id(job'.moved)
  BY DEF Lineal, Original, Holds, Database, JobPc

\* A step creates it, brings it to a later version, or leaves it alone.
LEMMA DatabaseStep ==
    ASSUME TypeOK, TypeOK', Turns, Lineal, Lineal', Steered, [Next]_vars, Uncut
    PROVE  [Promise!Next]_Database
  <1> USE DEF TypeOK
  <1>0. JobAtWork => ~AgentAtWork
    BY DEF Turns, AgentAtWork, AgentPc
  <1>a. CASE births = 0 /\ births' = 0
    BY <1>a, DatabaseIs, DatabaseBecomes
  <1>b. ASSUME births' = births, job'.pc # "swap", job.pc # "swap", Like(pgdata', pgdata)
        PROVE  Database' = Database
    BY <1>b, DatabaseIs, DatabaseBecomes DEF Id, Like
  <1>c. CASE Outside
    <2>1. CASE job.pc = "swap"
      BY <1>c, <2>1, OutsideLineal, DatabaseIs, DatabaseBecomes DEF JobAtWork, JobPc
    <2>2. CASE job.pc # "swap"
      BY <1>c, <1>b, <2>2, OutsideLineal DEF JobPc
    <2> QED
      BY <2>1, <2>2
  <1> SUFFICES ASSUME births > 0 \/ births' > 0, ~Outside PROVE [Promise!Next]_Database
    BY <1>a, <1>c
  <1>d. births > 0 /\ job.pc # "swap" => Original(pgdata)
    BY DEF Lineal
  <1>e. /\ Like(pgdata, pgdata)
        /\ Like([pgdata EXCEPT !.clean = FALSE], pgdata)
        /\ Like([pgdata EXCEPT !.managed = TRUE], pgdata)
        /\ Like([pgdata EXCEPT !.roles = TRUE], pgdata)
    BY Variants DEF Like
  <1>1. CASE Open
    <2>1. births' = births /\ job.pc # "swap" /\ job'.pc # "swap"
      BY <1>1, <1>0
      DEF Open, AgentAtWork, AgentPc, JobAtWork, JobPc
    <2>2. Like(pgdata', pgdata)
      BY <1>1, <1>d, <2>1
      DEF Open, HasVersion, Original, Holds, Like
    <2> QED
      BY <1>b, <2>1, <2>2
  <1>2. CASE InitdbBegins
    <2>1. births' = births /\ job.pc # "swap" /\ job'.pc # "swap"
      BY <1>2, <1>0
      DEF InitdbBegins, AgentStep, AgentAtWork, AgentPc, JobAtWork, JobPc
    <2>2. Like(pgdata', pgdata)
      BY <1>2, <1>d, <2>1
      DEF InitdbBegins, AgentStep, Vacant, Original, Holds, Like
    <2> QED
      BY <1>b, <2>1, <2>2
  <1>3. CASE InitdbEnds
    <2>1. CASE pgdata.kind = "partial"
      <3> DEFINE v == container.image
                 d == [Fresh(v) EXCEPT !.origin = births + 1]
      <3>1. Id(d) = [origin |-> births + 1, version |-> v]
        BY DEF Id, Fresh
      <3>2. pgdata' = d /\ births' = births + 1 /\ job' = job /\ container.pc = "initdb-ends"
        BY <1>3, <2>1 DEF InitdbEnds, AgentStep
      <3> HIDE DEF d, v
      <3>3. job.pc \notin JobPc
        BY <3>2, <1>0 DEF AgentAtWork, AgentPc, JobAtWork
      <3>4. births = 0
        BY <1>d, <2>1, <3>3 DEF Original, Holds, JobPc
      <3>5. Database = Promise!None /\ Database' = [origin |-> 1, version |-> v]
        BY <3>1, <3>2, <3>3, <3>4, DatabaseIs, DatabaseBecomes DEF Promise!None, JobPc
      <3>6. v \in Version
        BY <3>2 DEF Steered, v
      <3> QED
        BY <3>5, <3>6 DEF Promise!Next, Promise!Born
    <2>2. CASE pgdata.kind # "partial"
      <3>1. births' = births /\ job.pc # "swap" /\ job'.pc # "swap" /\ pgdata' = pgdata
        BY <1>3, <1>0, <2>2 DEF InitdbEnds, AgentStep, AgentAtWork, AgentPc, JobAtWork, JobPc
      <3> QED
        BY <1>b, <3>1 DEF Like
    <2> QED
      BY <2>1, <2>2
  <1>4. CASE InitdbFails
    <2>1. births' = births /\ job.pc # "swap" /\ job'.pc # "swap"
      BY <1>4, <1>0
      DEF InitdbFails, AgentStep, AgentAtWork, AgentPc, JobAtWork, JobPc
    <2>2. Like(pgdata', pgdata)
      BY <1>4, <1>d, <2>1
      DEF InitdbFails, AgentStep, Original, Holds, Like
    <2> QED
      BY <1>b, <2>1, <2>2
  <1>5. CASE AppendIncludeDir
    <2>1. births' = births /\ job.pc # "swap" /\ job'.pc # "swap"
      BY <1>5, <1>0
      DEF AppendIncludeDir, AgentStep, AgentAtWork, AgentPc, JobAtWork, JobPc
    <2>2. Like(pgdata', pgdata)
      BY <1>5, <1>e DEF AppendIncludeDir, AgentStep
    <2> QED
      BY <1>b, <2>1, <2>2
  <1>6. CASE CreateRoles
    <2>1. births' = births /\ job.pc # "swap" /\ job'.pc # "swap"
      BY <1>6, <1>0
      DEF CreateRoles, AgentStep, AgentAtWork, AgentPc, JobAtWork, JobPc
    <2>2. Like(pgdata', pgdata)
      BY <1>6, <1>e DEF CreateRoles, AgentStep
    <2> QED
      BY <1>b, <2>1, <2>2
  <1>7. CASE RolesFail
    <2>1. births' = births /\ job.pc # "swap" /\ job'.pc # "swap"
      BY <1>7, <1>0
      DEF RolesFail, AgentStep, AgentAtWork, AgentPc, JobAtWork, JobPc
    <2>2. Like(pgdata', pgdata)
      BY <1>7, <1>d, <2>1
      DEF RolesFail, AgentStep, Original, Holds, Like
    <2> QED
      BY <1>b, <2>1, <2>2
  <1>8. CASE Spawn
    <2>1. births' = births /\ job.pc # "swap" /\ job'.pc # "swap"
      BY <1>8, <1>0
      DEF Spawn, AgentAtWork, AgentPc, JobAtWork, JobPc
    <2>2. Like(pgdata', pgdata)
      BY <1>8, <1>e DEF Spawn
    <2> QED
      BY <1>b, <2>1, <2>2
  <1>9. CASE JobOpens
    <2>1. births' = births /\ job.pc # "swap" /\ job'.pc # "swap"
      BY <1>9, JobAtIs
      DEF JobOpens, JobPc
    <2>2. Like(pgdata', pgdata)
      BY <1>9, <1>d, <2>1
      DEF JobOpens, HasVersion, Original, Holds, Like
    <2> QED
      BY <1>b, <2>1, <2>2
  <1>10. CASE JobInitdb
    <2>1. births' = births /\ job.pc # "swap" /\ job'.pc # "swap"
      BY <1>10, JobAtIs
      DEF JobInitdb, JobPc
    <2>2. Like(pgdata', pgdata)
      BY <1>10, <1>d, <2>1
      DEF JobInitdb, Original, Holds, Like
    <2> QED
      BY <1>b, <2>1, <2>2
  <1>11. CASE PgUpgradeChecks
    <2>1. /\ births' = births /\ job.pc # "swap" /\ job'.pc # "swap"
          /\ pgdata' \in {pgdata, [pgdata EXCEPT !.bootable = FALSE]}
      BY <1>11, JobAtIs DEF PgUpgradeChecks, JobPc
    <2>2. Id(pgdata') = Id(pgdata)
      BY <2>1, Losses DEF Id
    <2> QED
      BY <2>1, <2>2, DatabaseIs, DatabaseBecomes
  <1>12. CASE PgUpgradeTransfers
    <2>1. births' = births /\ job.pc # "swap" /\ job'.pc # "swap"
      BY <1>12, JobAtIs
      DEF PgUpgradeTransfers, JobPc
    <2>2. Like(pgdata', pgdata)
      BY <1>12, <1>d, <2>1
      DEF PgUpgradeTransfers, Original, Holds, Like
    <2> QED
      BY <1>b, <2>1, <2>2
  <1>13. CASE MoveAside
    <2>1. births' = births /\ job.pc = "aside" /\ job'.pc = "swap" /\ job'.moved = pgdata
      BY <1>13, MovesOut DEF MoveAside
    <2> QED
      BY <2>1, DatabaseIs, DatabaseBecomes
  <1>14. CASE MoveIntoPlace
    <2>1. /\ births' = births /\ job.pc = "swap" /\ job'.pc = "finish"
          /\ pgdata' = new
      BY <1>14, JobAtIs DEF MoveIntoPlace, JobPc
    <2>2. Database = Id(job.moved) /\ Database' = Id(new)
      BY <2>1, DatabaseIs, DatabaseBecomes
    <2>3. /\ Database = [origin |-> 1, version |-> job.from]
          /\ Database' = [origin |-> 1, version |-> job.to]
      BY <2>1, <2>2 DEF Lineal, Original, Id
    <2>4. job.to > job.from /\ job.to \in Version
      BY <2>1, Fields DEF Steered, JobAtWork, JobPc
    <2>5. Database # Promise!None
      BY <2>3 DEF Promise!None
    <2>6. Database' = [Database EXCEPT !.version = job.to] /\ job.to > Database.version
      BY <2>3, <2>4
    <2> QED
      BY <2>4, <2>5, <2>6 DEF Promise!Next, Promise!Upgraded
  <1>15. CASE PutBack
    <2>1. /\ births' = births /\ births > 0 /\ job.pc = "swap" /\ job'.pc = "failed"
          /\ pgdata' = job.moved
      BY <1>15, JobAtIs DEF PutBack, Vacant, Lineal, JobPc
    <2> QED
      BY <2>1, DatabaseIs, DatabaseBecomes
  <1>16. CASE Finish
    <2>1. births' = births /\ job.pc # "swap" /\ job'.pc # "swap"
      BY <1>16, JobAtIs
      DEF Finish, JobPc
    <2>2. Like(pgdata', pgdata)
      BY <1>16, <1>d, <2>1, Variants
      DEF Finish, Original, Holds, Like
    <2> QED
      BY <1>b, <2>1, <2>2
  <1>17. CASE JobFails
    <2>1. births' = births /\ job.pc # "swap" /\ job'.pc # "swap"
      BY <1>17, JobAtIs
      DEF JobFails, JobPc
    <2>2. Like(pgdata', pgdata)
      BY <1>17, <1>d, <2>1
      DEF JobFails, Original, Holds, Like
    <2> QED
      BY <1>b, <2>1, <2>2
  <1>18. CASE UNCHANGED vars
    BY <1>18 DEF vars, Database, Holds, Id
  <1> QED BY <1>1, <1>2, <1>3, <1>4, <1>5, <1>6, <1>7, <1>8, <1>9, <1>10,
      <1>11, <1>12, <1>13, <1>14, <1>15, <1>16, <1>17, <1>18
    DEF Next, Outside, AgentNext, JobNext

\* The volume implements its lineage, as long as no job outlives its command
\* and no swap is cut in two: the database is created once, and an upgrade,
\* finished, failed, killed or repeated, leaves it or brings it to a later
\* version; no start of the instance puts an empty one in its place.
THEOREM Implements == Uncut => (Spec => KeepsItsLineage)
  <1> SUFFICES ASSUME Uncut PROVE Spec => KeepsItsLineage
    OBVIOUS
  <1> DEFINE IInv == Turns /\ Kept /\ Lineal /\ Steered
  <1>1. Init => IInv
    BY Shapes DEF Init, Turns, Kept, Sound, Lineal, Steered, JobAtWork, JobPc, UpgradePc
  <1>2. TypeOK /\ IInv /\ [Next]_vars => IInv'
    BY TurnsStep, KeptStep, LinealStep, SteeredStep DEF Uncut
  <1>3. Init => Promise!Init
    BY Shapes DEF Init, Promise!Init, Promise!None, Database, Holds
  <1>4. TypeOK /\ TypeOK' /\ IInv /\ IInv' /\ [Next]_vars => [Promise!Next]_Database
    BY DatabaseStep
  <1> QED
    BY <1>1, <1>2, <1>3, <1>4, Typing, PTL DEF Spec, KeepsItsLineage, Promise!Spec

-----------------------------------------------------------------------------
(* Images fit the data.                                                    *)

\* What breaks it: whatever breaks the lineage, an upgrade that fails when the
\* data are in their place already, and a wait that ends while the agent is
\* at work.
Orderly == Uncut /\ "late" \notin Faults /\ "impatient" \notin Faults

Of(v)   == HasVersion(pgdata) /\ pgdata.version = v
Fits(v) == HasVersion(pgdata) => pgdata.version = v

\* An agent that creates a database, or is going to.
Creating ==
    \/ container.pc \in {"initdb", "initdb-ends", "include", "roles"}
    \/ container.pc = "layout" /\ ~HasVersion(pgdata)

\* The manifest names the version of the data, but for an upgrade whose data
\* are in place: until it records its target the phase says that it is there.
Recorded ==
    /\ phase # "upgrading" => Fits(image)
    /\ phase = "running" => HasVersion(pgdata)

\* Only an apply has a database created, and it waits for that.
Fitted ==
    /\ container.pc # "none" => Fits(container.image)
    /\ container.pc \in {"initdb-ends", "include", "roles", "spawn", "serving"}
         => HasVersion(pgdata)
    /\ Creating => host.pc = "ready"

Applies ==
    /\ host.pc \in {"put", "converge", "ready", "applied"} => Fits(host.to)
    /\ host.pc \in {"converge", "ready", "applied"} =>
         phase = "applying" /\ image = host.to
    /\ host.pc \in {"ready", "applied"} =>
         container.pc # "none" /\ container.image = host.to
    /\ host.pc = "applied" => HasVersion(pgdata)

\* Before the window the data are of the old version, after it of the new one.
Window == {"hold", "stop", "job", "back", "back-ready", "back-phase", "again",
           "again-ready"}

Upgrades ==
    /\ host.pc \in Window \cup {"fence"} => Of(host.from) /\ image = host.from
    /\ host.pc \in Window \cup {"wait", "record", "start", "start-ready", "upgraded"}
         => phase = "upgrading"
    /\ host.pc \in {"record", "start"} => container.pc = "none"
    /\ host.pc \in {"record", "start", "start-ready"} => Of(host.to)
    /\ host.pc \in {"start", "start-ready"} => image = host.to
    /\ host.pc = "upgraded" => Of(image)

\* In it the job is at the point that it is waited for at.
Waits ==
    host.pc = "wait" =>
        /\ image = host.from
        /\ job.pc # "none"
        /\ job.from = host.from /\ job.to = host.to /\ job.check = host.check
        /\ job.pc \in {"open", "initdb", "check", "transfer", "aside", "failed"}
             => Of(host.from)
        /\ job.pc \in {"transfer", "aside", "swap", "finish"} => ~host.check
        /\ job.pc \in {"aside", "swap"} => HasVersion(new) /\ new.version = host.to
        /\ job.pc = "swap" => /\ Vacant(pgdata)
                              /\ HasVersion(job.moved)
                              /\ job.moved.version = host.from
        /\ job.pc = "finish" => Of(host.to)
        /\ job.pc = "done" => Of(IF host.check THEN host.from ELSE host.to)

Matched == Recorded /\ Fitted /\ Applies /\ Upgrades /\ Waits

LEMMA LikeFits ==
    ASSUME Like(pgdata', pgdata)
    PROVE  /\ HasVersion(pgdata)' <=> HasVersion(pgdata)
           /\ pgdata'.version = pgdata.version
           /\ Vacant(pgdata)' <=> Vacant(pgdata)
  BY DEF Like, HasVersion, Vacant


\* For the images, a step that leaves the version of the data.
SameData ==
    /\ HasVersion(pgdata)' <=> HasVersion(pgdata)
    /\ HasVersion(pgdata) => pgdata'.version = pgdata.version

LEMMA JobAtKeeps ==
    ASSUME job \in Job, NEW pc \in JobPc \cup {"none", "done", "failed"}, JobAt(pc)
    PROVE  job'.check = job.check /\ job'.link = job.link
  BY DEF JobAt, Job

LEMMA GotoKeeps ==
    ASSUME host \in Host, NEW pc \in UpgradePc \cup ApplyPc \cup {"idle"}, Goto(pc)
    PROVE  host'.check = host.check /\ host'.recreate = host.recreate
  BY DEF Goto, Host

\* What a step of the agent means for the version of the data.
LEMMA AgentDoes ==
    ASSUME TypeOK, Fitted, AgentNext
    PROVE  /\ UNCHANGED <<new, host, job, phase, image>>
           /\ container.pc \in AgentPc
           /\ container'.pc # "none" /\ container'.image = container.image
           /\ \/ /\ SameData
                 /\ container'.pc \in {"roles", "spawn", "serving", "exited"}
                 /\ container'.pc = "roles" => container.pc = "include"
                 /\ container'.pc # "exited" => HasVersion(pgdata)
              \/ /\ SameData
                 /\ container.pc = "layout" /\ ~HasVersion(pgdata)
                 /\ container'.pc = "initdb"
              \/ /\ container.pc \in {"initdb", "initdb-ends"}
                 /\ HasVersion(pgdata)' /\ pgdata'.version = container.image
                 /\ container'.pc \in {"initdb-ends", "include"}
              \/ /\ container.pc = "initdb-ends"
                 /\ ~HasVersion(pgdata)'
                 /\ container'.pc = "exited"
  <1> USE DEF TypeOK, SameData
  <1>0. Like(pgdata, pgdata)
    BY DEF Like
  <1>1. CASE Open
    <2>1. SameData
      BY <1>1, Shapes DEF Open, HasVersion
    <2>2. CASE HasVersion(pgdata)
      <3>1. Agent("spawn")
        BY <1>1, <2>2 DEF Open
      <3> QED
        BY <1>1, <2>1, <2>2, <3>1, AgentIs DEF Open, registry, AgentPc
    <2>3. CASE ~HasVersion(pgdata)
      <3>1. Agent("initdb")
        BY <1>1, <2>3 DEF Open
      <3> QED
        BY <1>1, <2>1, <2>3, <3>1, AgentIs DEF Open, registry, AgentPc
    <2> QED BY <2>2, <2>3
  <1>2. CASE InitdbBegins
    <2>2. CASE Vacant(pgdata)
      <3>1. HasVersion(pgdata)' /\ pgdata'.version = container.image
        BY <1>2, <2>2, Fields, CutShort DEF InitdbBegins, AgentStep, HasVersion, Empty, Absent
      <3>2. container'.pc = "initdb-ends" /\ container'.image = container.image
        BY <1>2, <2>2, AgentIs DEF InitdbBegins, AgentStep, AgentPc
      <3> QED
        BY <1>2, <3>1, <3>2 DEF InitdbBegins, AgentStep, registry, AgentPc
    <2>3. CASE ~Vacant(pgdata)
      BY <1>2, <2>3, AgentIs DEF InitdbBegins, AgentStep, registry, AgentPc
    <2> QED BY <2>2, <2>3
  <1>3. CASE InitdbEnds
    <2>2. CASE pgdata.kind = "partial"
      <3>1. HasVersion(pgdata)' /\ pgdata'.version = container.image
        <4> DEFINE v == container.image
        <4>1. v \in Nat /\ births + 1 \in Nat
          BY Fields
        <4>2. pgdata' = [Fresh(v) EXCEPT !.origin = births + 1]
          BY <1>3, <2>2 DEF InitdbEnds, AgentStep
        <4> HIDE DEF v
        <4>3. pgdata'.kind = "cluster" /\ pgdata'.version = v
          BY <4>1, <4>2, Reborn
        <4> QED BY <4>3 DEF HasVersion, v
      <3>2. container'.pc = "include" /\ container'.image = container.image
        BY <1>3, <2>2, AgentIs DEF InitdbEnds, AgentStep, AgentPc
      <3> QED
        BY <1>3, <3>1, <3>2 DEF InitdbEnds, AgentStep, registry, AgentPc
    <2>3. CASE pgdata.kind # "partial"
      BY <1>3, <2>3, AgentIs DEF InitdbEnds, AgentStep, registry, AgentPc
    <2> QED BY <2>2, <2>3
  <1>4. CASE InitdbFails
    BY <1>4, AgentIs, Shapes DEF InitdbFails, AgentStep, HasVersion, registry, AgentPc
  <1>5. CASE AppendIncludeDir
    <2>1. SameData
      <3>1. Like(pgdata', pgdata)
        BY <1>5, <1>0, Variants DEF AppendIncludeDir, AgentStep
      <3> QED BY <3>1, LikeFits
    <2>2. /\ container'.image = container.image
          /\ \/ container'.pc = "roles" /\ pgdata.kind = "cluster"
             \/ container'.pc = "exited"
      BY <1>5, AgentIs DEF AppendIncludeDir, AgentStep, AgentPc
    <2> QED
      BY <1>5, <2>1, <2>2 DEF AppendIncludeDir, AgentStep, HasVersion, registry, AgentPc
  <1>6. CASE CreateRoles
    <2>1. SameData
      <3>1. Like(pgdata', pgdata)
        BY <1>6, <1>0, Variants DEF CreateRoles, AgentStep
      <3> QED BY <3>1, LikeFits
    <2>2. /\ container'.image = container.image
          /\ \/ container'.pc = "spawn" /\ pgdata.kind = "cluster"
             \/ container'.pc = "exited"
      BY <1>6, AgentIs DEF CreateRoles, AgentStep, Serves, AgentPc
    <2> QED
      BY <1>6, <2>1, <2>2 DEF CreateRoles, AgentStep, HasVersion, registry, AgentPc
  <1>7. CASE RolesFail
    BY <1>7, AgentIs DEF RolesFail, AgentStep, registry, AgentPc
  <1>8. CASE Spawn
    <2>1. SameData
      <3>1. Like(pgdata', pgdata)
        BY <1>8, <1>0, Variants DEF Spawn
      <3> QED BY <3>1, LikeFits
    <2>2. /\ container'.image = container.image
          /\ \/ container'.pc = "serving" /\ pgdata.kind = "cluster"
             \/ container'.pc = "exited"
      BY <1>8, AgentIs DEF Spawn, Serves, AgentPc
    <2> QED
      BY <1>8, <2>1, <2>2 DEF Spawn, HasVersion, registry, AgentPc
  <1> QED BY <1>1, <1>2, <1>3, <1>4, <1>5, <1>6, <1>7, <1>8 DEF AgentNext

LEMMA AgentMatched ==
    ASSUME TypeOK, Turns, Matched, AgentNext
    PROVE  Matched'
  <1>1. host.pc \notin {"wait", "record", "start"}
    BY AgentDoes DEF Turns, Matched, Upgrades, AgentPc
  <1> QED
    BY <1>1, AgentDoes
    DEF Matched, Recorded, Fitted, Applies, Upgrades, Waits, Of, Fits, Creating,
        SameData, Window, AgentPc

LEMMA JobMatched ==
    ASSUME TypeOK, Turns, Matched, JobNext, Orderly
    PROVE  Matched'
  <1> USE DEF TypeOK
  <1>0. /\ job.pc \in JobPc
        /\ UNCHANGED <<container, host, phase, image>>
    BY DEF JobNext, JobOpens, JobInitdb, PgUpgradeChecks, PgUpgradeTransfers,
           MoveAside, MoveIntoPlace, PutBack, Finish, JobFails, JobPc, registry
  <1>00. host.pc = "wait" /\ container.pc = "none" /\ phase = "upgrading"
    BY <1>0 DEF Turns, JobAtWork, Matched, Upgrades
  <1> SUFFICES Waits'
    BY <1>0, <1>00
    DEF Matched, Recorded, Fitted, Applies, Upgrades, Creating, Window
  <1> USE <1>0, <1>00 DEF Matched, Waits, Of
  <1>1. CASE JobOpens
    BY <1>1, JobAtIs, JobAtKeeps DEF JobOpens, HasVersion, JobPc
  <1>2. CASE JobInitdb
    BY <1>2, JobAtIs, JobAtKeeps DEF JobInitdb, JobPc
  <1>3. CASE PgUpgradeChecks
    BY <1>3, JobAtIs, JobAtKeeps, Losses DEF PgUpgradeChecks, HasVersion, JobPc
  <1>4. CASE PgUpgradeTransfers
    <2>1. HasVersion(new') /\ new'.version = job.to
      <3>1. /\ pgdata.origin \in Nat /\ job.to \in Nat /\ pgdata.roles \in BOOLEAN
            /\ (pgdata.intact /\ pgdata.clean) \in BOOLEAN
        BY Fields
      <3>2. PICK v \in Nat, n \in Nat, r \in BOOLEAN, i \in BOOLEAN :
              /\ v = job.to
              /\ new' = [Fresh(v) EXCEPT !.origin = n, !.roles = r, !.intact = i]
        BY <1>4, <3>1 DEF PgUpgradeTransfers
      <3>3. new'.kind = "cluster" /\ new'.version = job.to
        BY <3>2 DEF Fresh
      <3> QED BY <3>3 DEF HasVersion
    <2> QED
      BY <1>4, <2>1, JobAtIs, JobAtKeeps DEF PgUpgradeTransfers, JobPc
  <1>5. CASE MoveAside
    <2>1. job'.check = job.check
      BY <1>5 DEF MoveAside, Job
    <2> QED
      BY <1>5, <2>1, Shapes, MovesOut DEF MoveAside, Vacant, JobPc
  <1>6. CASE MoveIntoPlace
    BY <1>6, JobAtIs, JobAtKeeps DEF MoveIntoPlace, JobPc
  <1>7. CASE PutBack
    BY <1>7, JobAtIs, JobAtKeeps DEF PutBack, JobPc
  <1>8. CASE Finish
    <2>1. Like(pgdata', pgdata)
      BY <1>8, Variants DEF Finish
    <2> QED
      BY <1>8, <2>1, LikeFits, JobAtIs, JobAtKeeps DEF Finish, JobPc
  <1>9. CASE JobFails
    BY <1>9, JobAtIs, JobAtKeeps DEF JobFails, CanFail, Orderly, JobPc
  <1> QED BY <1>1, <1>2, <1>3, <1>4, <1>5, <1>6, <1>7, <1>8, <1>9 DEF JobNext

\* What host, kills and reboots change.
LEMMA OutsideMatched ==
    ASSUME TypeOK, Turns, Matched, Outside, Orderly
    PROVE  Matched'
  <1> USE DEF TypeOK
  <1>0. SameData /\ new' = new
    BY OutsideIs, LikeFits DEF Untouched, SameData
  <1> USE <1>0 DEF SameData, Matched, Recorded, Fitted, Applies, Upgrades, Waits, Of, Fits,
          Creating, Window
  <1>1. CASE BeginUpgrade
    BY <1>1, GotoIs, GotoKeeps, AgentIs, JobAtIs, JobAtKeeps, StartedIs, Shapes, Fields
    DEF BeginUpgrade, volume, registry, UpgradePc, ApplyPc, AgentPc, JobPc
  <1>2. CASE Stage
    BY <1>2, GotoIs, GotoKeeps, AgentIs, JobAtIs, JobAtKeeps, StartedIs, Shapes, Fields
    DEF Stage, AsStaged, End, volume, registry, UpgradePc, ApplyPc, AgentPc, JobPc
  <1>3. CASE Fence
    BY <1>3, GotoIs, GotoKeeps, AgentIs, JobAtIs, JobAtKeeps, StartedIs, Shapes, Fields
    DEF Fence, SetPhase, volume, UpgradePc, ApplyPc, AgentPc, JobPc
  <1>4. CASE AcquireHold
    BY <1>4, GotoIs, GotoKeeps, AgentIs, JobAtIs, JobAtKeeps, StartedIs, Shapes, Fields
    DEF AcquireHold, End, volume, registry, UpgradePc, ApplyPc, AgentPc, JobPc
  <1>5. CASE StopInstance
    BY <1>5, GotoIs, GotoKeeps, AgentIs, JobAtIs, JobAtKeeps, StartedIs, Shapes, Fields
    DEF StopInstance, registry, UpgradePc, ApplyPc, AgentPc, JobPc
  <1>6. CASE CreateJob
    <2>1. CASE Goto("wait")
      <3>1. job' = [NoJob EXCEPT !.pc = "open", !.from = host.from, !.to = host.to,
                                 !.link = host.link, !.check = host.check]
        BY <1>6, <2>1, GotoIs DEF CreateJob, UpgradePc, ApplyPc, Goto, Host
      <3>2. /\ job'.pc = "open" /\ job'.from = host.from /\ job'.to = host.to
            /\ job'.check = host.check
        BY <3>1, NewJob DEF NoJob
      <3> QED
        BY <1>6, <2>1, <3>2, GotoIs, GotoKeeps DEF CreateJob, volume, registry, UpgradePc
    <2>2. CASE Goto("back")
      BY <1>6, <2>2, GotoIs DEF CreateJob, volume, registry, UpgradePc
    <2> QED BY <1>6, <2>1, <2>2 DEF CreateJob
  <1>7. CASE JobEnds
    <2>1. CASE job.pc = "done" /\ host.check /\ Goto("again")
      BY <1>7, <2>1, GotoIs DEF JobEnds, volume, registry, UpgradePc
    <2>2. CASE job.pc = "done" /\ ~host.check /\ Goto("record")
      BY <1>7, <2>2, GotoIs DEF JobEnds, Turns, volume, registry, UpgradePc
    <2>3. CASE job.pc = "failed" /\ Goto("back")
      BY <1>7, <2>3, GotoIs DEF JobEnds, volume, registry, UpgradePc
    <2> QED BY <1>7, <2>1, <2>2, <2>3 DEF JobEnds, CanFail, Orderly
  <1>8. CASE JobOutlivesWait
    BY <1>8, GotoIs, GotoKeeps, AgentIs, JobAtIs, JobAtKeeps, StartedIs, Shapes, Fields
    DEF JobOutlivesWait, CanFail, volume, registry, Orderly, Uncut, Outlived, UpgradePc, ApplyPc, AgentPc, JobPc
  <1>9. CASE Back
    BY <1>9, GotoIs, GotoKeeps, AgentIs, JobAtIs, JobAtKeeps, StartedIs, Shapes, Fields
    DEF Back, StartInstance, StartFails, End, UpgradePc, ApplyPc, AgentPc, JobPc
  <1>10. CASE BackReady
    BY <1>10, GotoIs, GotoKeeps, AgentIs, JobAtIs, JobAtKeeps, StartedIs, Shapes, Fields
    DEF BackReady, volume, registry, UpgradePc, ApplyPc, AgentPc, JobPc
  <1>11. CASE BackPhase
    BY <1>11, GotoIs, GotoKeeps, AgentIs, JobAtIs, JobAtKeeps, StartedIs, Shapes, Fields
    DEF BackPhase, SetPhase, End, volume, UpgradePc, ApplyPc, AgentPc, JobPc
  <1>12. CASE Again
    BY <1>12, GotoIs, GotoKeeps, AgentIs, JobAtIs, JobAtKeeps, StartedIs, Shapes, Fields
    DEF Again, StartInstance, StartFails, End, registry, UpgradePc, ApplyPc, AgentPc, JobPc
  <1>13. CASE AgainReady
    BY <1>13, GotoIs, GotoKeeps, AgentIs, JobAtIs, JobAtKeeps, StartedIs, Shapes, Fields
    DEF AgainReady, End, volume, registry, UpgradePc, ApplyPc, AgentPc, JobPc
  <1>14. CASE RecordTarget
    BY <1>14, GotoIs, GotoKeeps, AgentIs, JobAtIs, JobAtKeeps, StartedIs, Shapes, Fields
    DEF RecordTarget, volume, UpgradePc, ApplyPc, AgentPc, JobPc
  <1>15. CASE StartTarget
    BY <1>15, GotoIs, GotoKeeps, AgentIs, JobAtIs, JobAtKeeps, StartedIs, Shapes, Fields
    DEF StartTarget, StartInstance, StartFails, End, registry, UpgradePc, ApplyPc, AgentPc, JobPc
  <1>16. CASE TargetReady
    BY <1>16, GotoIs, GotoKeeps, AgentIs, JobAtIs, JobAtKeeps, StartedIs, Shapes, Fields
    DEF TargetReady, End, volume, registry, UpgradePc, ApplyPc, AgentPc, JobPc
  <1>17. CASE EndUpgrade
    BY <1>17, GotoIs, GotoKeeps, AgentIs, JobAtIs, JobAtKeeps, StartedIs, Shapes, Fields
    DEF EndUpgrade, SetPhase, End, volume, UpgradePc, ApplyPc, AgentPc, JobPc
  <1>18. CASE BeginApply
    BY <1>18, GotoIs, GotoKeeps, AgentIs, JobAtIs, JobAtKeeps, StartedIs, Shapes, Fields
    DEF BeginApply, volume, registry, UpgradePc, ApplyPc, AgentPc, JobPc
  <1>19. CASE ApplyChecks
    BY <1>19, GotoIs, Shapes, Fields
    DEF ApplyChecks, ImagePasses, AgentAtWork, End, volume, registry, UpgradePc, ApplyPc, AgentPc
  <1>20. CASE PutCluster
    BY <1>20, GotoIs, GotoKeeps, AgentIs, JobAtIs, JobAtKeeps, StartedIs, Shapes, Fields
    DEF PutCluster, volume, UpgradePc, ApplyPc, AgentPc, JobPc
  <1>21. CASE Converge
    BY <1>21, GotoIs, GotoKeeps, AgentIs, JobAtIs, JobAtKeeps, StartedIs, Shapes, Fields
    DEF Converge, AgentAtWork, StartInstance, StartFails, End, UpgradePc, ApplyPc, AgentPc, JobPc
  <1>22. CASE ApplyReady
    BY <1>22, GotoIs, GotoKeeps, AgentIs, JobAtIs, JobAtKeeps, StartedIs, Shapes, Fields
    DEF ApplyReady, IsReady, GivesUp, AgentAtWork, CanFail, End, volume, Orderly, UpgradePc, ApplyPc, AgentPc, JobPc
  <1>23. CASE Applied
    BY <1>23, GotoIs, GotoKeeps, AgentIs, JobAtIs, JobAtKeeps, StartedIs, Shapes, Fields
    DEF Applied, SetPhase, End, volume, UpgradePc, ApplyPc, AgentPc, JobPc
  <1>24. CASE BootStarts
    BY <1>24, GotoIs, GotoKeeps, AgentIs, JobAtIs, JobAtKeeps, StartedIs, Shapes, Fields
    DEF BootStarts, volume, registry, UpgradePc, ApplyPc, AgentPc, JobPc
  <1>25. CASE KillAgent
    BY <1>25, AgentIs DEF KillAgent, AgentAtWork, registry, Turns, AgentPc
  <1>26. CASE KillJob
    BY <1>26, JobAtIs, JobAtKeeps
    DEF KillJob, JobAtWork, JobKill, CanFail, volume, registry, Orderly, Uncut, JobPc
  <1>27. CASE CommandDies
    BY <1>27, GotoIs, GotoKeeps, AgentIs, JobAtIs, JobAtKeeps, StartedIs, Shapes, Fields
    DEF CommandDies, CommandKill, CanFail, End, volume, registry, Orderly, Uncut, Outlived, UpgradePc, ApplyPc, AgentPc, JobPc
  <1>28. CASE Reboot
    BY <1>28, GotoIs, GotoKeeps, AgentIs, JobAtIs, JobAtKeeps, StartedIs, Shapes, Fields
    DEF Reboot, End, registry, AgentAtWork, UpgradePc, ApplyPc, AgentPc, JobPc
  <1> QED BY <1>1, <1>2, <1>3, <1>4, <1>5, <1>6, <1>7, <1>8, <1>9, <1>10, <1>11, <1>12, <1>13, <1>14, <1>15, <1>16, <1>17, <1>18, <1>19, <1>20, <1>21, <1>22, <1>23, <1>24, <1>25, <1>26, <1>27, <1>28
    DEF Outside, HostNext

LEMMA MatchedStep ==
    ASSUME TypeOK, Turns, Matched, [Next]_vars, Orderly
    PROVE  Matched'
  <1>1. CASE AgentNext
    BY <1>1, AgentMatched
  <1>2. CASE JobNext
    BY <1>2, JobMatched
  <1>3. CASE Outside
    BY <1>3, OutsideMatched
  <1>4. CASE UNCHANGED vars
    BY <1>4 DEF vars, Matched, Recorded, Fitted, Applies, Upgrades, Waits, Of, Fits,
                Creating
  <1> QED BY <1>1, <1>2, <1>3, <1>4 DEF Next, Outside

LEMMA Matching == Orderly => (Spec => []Matched)
  <1> SUFFICES ASSUME Orderly PROVE Spec => []Matched
    OBVIOUS
  <1>1. Init => Turns /\ Matched
    BY DEF Init, Turns, JobAtWork, JobPc, NoJob, NoCommand, NoContainer, Absent,
           HasVersion, Matched, Recorded, Fitted, Applies, Upgrades, Waits, Of, Fits,
           Creating, Window
  <1>2. TypeOK /\ Turns /\ [Next]_vars => Turns'
    BY TurnsStep DEF Orderly, Uncut
  <1>3. TypeOK /\ Turns /\ Matched /\ [Next]_vars => Matched'
    BY MatchedStep
  <1> QED
    BY <1>1, <1>2, <1>3, Typing, PTL DEF Spec

\* Whatever fails and is retried in an orderly way, no command of the host
\* starts an image on data of another major version.
THEOREM RightImage == Orderly => (Spec => []ImageFitsData)
  <1>1. Matched => ImageFitsData
    BY DEF Matched, Fitted, Fits, ImageFitsData
  <1> QED
    BY <1>1, Matching, PTL

\* And a cluster that the registry says is running has a manifest whose image
\* reads its data.
THEOREM RightRecord == Orderly => (Spec => []RecordFitsData)
  <1>1. Matched => RecordFitsData
    BY DEF Matched, Recorded, Fits, RecordFitsData
  <1> QED
    BY <1>1, Matching, PTL

-----------------------------------------------------------------------------
(* Managed, and reachable.                                                 *)

\* A complete database is set up, but for the agent and the job that are at
\* it: which no kill interrupts.
Finished(d) == d.kind = "cluster" => d.managed /\ d.roles

SetUp ==
    /\ pgdata.kind = "cluster" =>
         /\ container.pc # "include" /\ job.pc # "finish" => pgdata.managed
         /\ container.pc \notin {"include", "roles"} => pgdata.roles
         /\ container.pc \in {"include", "roles"} => pgdata.bootable
    /\ container.pc = "serving" => pgdata.kind = "cluster"
    /\ job.pc \in {"transfer", "aside"} => pgdata.kind = "cluster"
    /\ job.pc \in {"aside", "swap"} => new.roles
    /\ job.pc = "swap" => Finished(job.moved)

\* What commands, kills and reboots leave of the settings and the roles...
LEMMA OutsideLeaves ==
    ASSUME TypeOK, Outside
    PROVE  pgdata'.managed = pgdata.managed /\ pgdata'.roles = pgdata.roles
  <1>1. \A b \in BOOLEAN : LET d == [pgdata EXCEPT !.clean = b]
                           IN  d.managed = pgdata.managed /\ d.roles = pgdata.roles
    BY DEF TypeOK, Contents
  <1>2. pgdata.clean \in BOOLEAN
    BY Fields DEF TypeOK
  <1>3. /\ \A d \in Halted : d.managed = pgdata.managed /\ d.roles = pgdata.roles
        /\ \A pc : \A d \in KilledIn(pc) :
               d.managed = pgdata.managed /\ d.roles = pgdata.roles
    BY <1>1, <1>2 DEF Halted, KilledIn
  <1> QED
    BY <1>3 DEF Outside, HostNext, volume, registry, SetPhase, StartInstance,
        StartFails, BeginUpgrade, Stage, Fence, AcquireHold, StopInstance,
        CreateJob, JobEnds, JobOutlivesWait, Back, BackReady, BackPhase, Again,
        AgainReady, RecordTarget, StartTarget, TargetReady, EndUpgrade,
        BeginApply, ApplyChecks, PutCluster, Converge, ApplyReady, Applied,
        BootStarts, KillAgent, KillJob, CommandDies, Reboot

\* ... and of what the agent is doing.
LEMMA OutsideAgent ==
    ASSUME TypeOK, Outside
    PROVE  /\ container'.pc \in {"include", "roles", "serving"}
                => container'.pc = container.pc
           /\ /\ "boot-kill" \notin Faults
              /\ container.pc \in {"include", "roles"}
              /\ host.pc = "ready"
              => container'.pc = container.pc
  <1>1. CASE \/ BeginUpgrade \/ Stage \/ Fence \/ AcquireHold
             \/ CreateJob \/ JobEnds \/ JobOutlivesWait \/ BackReady
             \/ BackPhase \/ AgainReady \/ RecordTarget \/ TargetReady
             \/ EndUpgrade \/ BeginApply \/ ApplyChecks \/ PutCluster
             \/ ApplyReady \/ Applied \/ KillJob \/ CommandDies
    BY <1>1 DEF SetPhase, BeginUpgrade, Stage, Fence, AcquireHold, CreateJob,
        JobEnds, JobOutlivesWait, BackReady, BackPhase, AgainReady,
        RecordTarget, TargetReady, EndUpgrade, BeginApply, ApplyChecks,
        PutCluster, ApplyReady, Applied, KillJob, CommandDies
  <1>2. CASE StopInstance
    BY <1>2, Shapes DEF StopInstance, Started
  <1>3. CASE Back
    BY <1>3, Shapes DEF Back, Started, StartInstance, StartFails
  <1>4. CASE Again
    BY <1>4, Shapes DEF Again, Started, StartInstance, StartFails
  <1>5. CASE StartTarget
    BY <1>5, Shapes DEF StartTarget, Started, StartInstance, StartFails
  <1>6. CASE Converge
    BY <1>6, Shapes DEF Converge, Started, StartInstance, StartFails, AgentAtWork, AgentPc
  <1>7. CASE BootStarts
    BY <1>7, AgentIs DEF BootStarts, AgentPc, TypeOK
  <1>8. CASE KillAgent
    BY <1>8, AgentIs DEF KillAgent, AgentKill, CanFail, TypeOK
  <1>9. CASE Reboot
    BY <1>9, AgentIs DEF Reboot, AgentKill, CanFail, AgentAtWork, AgentPc, TypeOK
  <1> QED BY <1>1, <1>2, <1>3, <1>4, <1>5, <1>6, <1>7, <1>8, <1>9 DEF Outside,
      HostNext

\* A job that finishes goes on.
LEMMA OutsideJob ==
    ASSUME TypeOK, Turns, Outside, Orderly
    PROVE  job.pc = "finish" => job'.pc = "finish"
  <1>1. CASE \/ BeginUpgrade \/ Stage \/ Fence \/ AcquireHold
             \/ StopInstance \/ JobOutlivesWait \/ Back \/ BackReady
             \/ BackPhase \/ Again \/ AgainReady \/ RecordTarget
             \/ StartTarget \/ TargetReady \/ EndUpgrade \/ BeginApply
             \/ ApplyChecks \/ PutCluster \/ Converge \/ ApplyReady
             \/ Applied \/ BootStarts \/ KillAgent \/ CommandDies
    BY <1>1 DEF SetPhase, BeginUpgrade, Stage, Fence, AcquireHold,
        StopInstance, JobOutlivesWait, Back, BackReady, BackPhase, Again,
        AgainReady, RecordTarget, StartTarget, TargetReady, EndUpgrade,
        BeginApply, ApplyChecks, PutCluster, Converge, ApplyReady, Applied,
        BootStarts, KillAgent, CommandDies
  <1>2. CASE CreateJob
    BY <1>2 DEF CreateJob, Turns, JobAtWork, JobPc
  <1>3. CASE JobEnds
    BY <1>3 DEF JobEnds
  <1>4. CASE KillJob
    BY <1>4 DEF KillJob, JobKill, CanFail, Orderly
  <1>5. CASE Reboot
    BY <1>5 DEF Reboot, JobKill, CanFail, JobAtWork, JobPc, Orderly
  <1> QED BY <1>1, <1>2, <1>3, <1>4, <1>5 DEF Outside, HostNext

LEMMA SetUpStep ==
    ASSUME TypeOK, Turns, Matched, SetUp, [Next]_vars, Orderly, "boot-kill" \notin Faults
    PROVE  SetUp'
  <1> USE DEF TypeOK
  <1>0. JobAtWork => host.pc = "wait" /\ container.pc = "none"
    BY DEF Turns
  <1>1. CASE Open
    BY <1>1, <1>0, Shapes, AgentIs DEF Open, SetUp, JobAtWork, JobPc, HasVersion, AgentPc
  <1>2. CASE InitdbBegins
    <2>1. /\ UNCHANGED <<new, job>>
          /\ container.pc = "initdb" /\ container'.pc \in {"initdb-ends", "exited"}
          /\ pgdata'.kind = "partial" \/ pgdata' = pgdata
      BY <1>2, CutShort, Fields, AgentIs DEF InitdbBegins, AgentStep, AgentPc
    <2> QED
      BY <1>0, <2>1 DEF SetUp, JobAtWork, JobPc
  <1>3. CASE InitdbEnds
    BY <1>3, <1>0, Fields, AgentIs
    DEF InitdbEnds, AgentStep, Fresh, SetUp, JobAtWork, JobPc, AgentPc
  <1>4. CASE InitdbFails
    BY <1>4, <1>0, Shapes, AgentIs
    DEF InitdbFails, AgentStep, SetUp, JobAtWork, JobPc, AgentPc
  <1>5. CASE AppendIncludeDir
    BY <1>5, <1>0, AgentIs
    DEF AppendIncludeDir, AgentStep, Contents, SetUp, JobAtWork, JobPc, AgentPc
  <1>6. CASE CreateRoles
    BY <1>6, <1>0, AgentIs
    DEF CreateRoles, AgentStep, Serves, Contents, SetUp, Matched, Fitted, Fits,
        HasVersion, JobAtWork, JobPc, AgentPc
  <1>7. CASE RolesFail
    BY <1>7 DEF RolesFail, CanFail
  <1>8. CASE Spawn
    BY <1>8, <1>0, AgentIs
    DEF Spawn, Serves, Contents, SetUp, JobAtWork, JobPc, AgentPc
  <1>9. CASE JobOpens
    BY <1>9, <1>0, JobAtIs
    DEF JobOpens, SetUp, Matched, Waits, Of, HasVersion, JobAtWork, JobPc
  <1>10. CASE JobInitdb
    BY <1>10, <1>0, JobAtIs DEF JobInitdb, SetUp, JobAtWork, JobPc
  <1>11. CASE PgUpgradeChecks
    BY <1>11, <1>0, JobAtIs
    DEF PgUpgradeChecks, Serves, Contents, SetUp, JobAtWork, JobPc
  <1>12. CASE PgUpgradeTransfers
    BY <1>12, <1>0, JobAtIs
    DEF PgUpgradeTransfers, Fresh, SetUp, JobAtWork, JobPc
  <1>13. CASE MoveAside
    BY <1>13, <1>0, MovesOut, Shapes
    DEF MoveAside, SetUp, Finished, JobAtWork, JobPc
  <1>14. CASE MoveIntoPlace
    BY <1>14, <1>0, JobAtIs DEF MoveIntoPlace, SetUp, JobAtWork, JobPc
  <1>15. CASE PutBack
    BY <1>15, <1>0, JobAtIs
    DEF PutBack, SetUp, Finished, Matched, Waits, JobAtWork, JobPc
  <1>16. CASE Finish
    BY <1>16, <1>0, JobAtIs DEF Finish, Contents, SetUp, JobAtWork, JobPc
  <1>17. CASE JobFails
    BY <1>17, <1>0, JobAtIs
    DEF JobFails, CanFail, Orderly, SetUp, JobAtWork, JobPc
  <1>18. CASE Outside
    <2>1. /\ new' = new
          /\ pgdata'.kind = pgdata.kind /\ pgdata'.bootable = pgdata.bootable
          /\ pgdata'.managed = pgdata.managed /\ pgdata'.roles = pgdata.roles
      BY <1>18, OutsideIs, OutsideLeaves DEF Untouched, Like
    <2>2. /\ container'.pc \in {"include", "roles", "serving"}
               => container'.pc = container.pc
          /\ container.pc \in {"include", "roles"} => container'.pc = container.pc
      BY <1>18, OutsideAgent DEF Matched, Fitted, Creating
    <2>3. /\ job'.pc \in {"transfer", "aside", "swap"} => job' = job
          /\ job.pc = "finish" => job'.pc = "finish"
      BY <1>18, OutsideIs, OutsideJob DEF JobSettles, JobPc
    <2> QED
      BY <2>1, <2>2, <2>3 DEF SetUp
  <1>19. CASE UNCHANGED vars
    BY <1>19 DEF vars, SetUp
  <1> QED BY <1>1, <1>2, <1>3, <1>4, <1>5, <1>6, <1>7, <1>8, <1>9, <1>10, <1>11,
      <1>12, <1>13, <1>14, <1>15, <1>16, <1>17, <1>18, <1>19
    DEF Next, AgentNext, JobNext, Outside

\* An instance that serves clients has its managed settings in force and its
\* roles, after upgrades that failed and were retried as after its creation.
THEOREM Reaches ==
    Orderly /\ "boot-kill" \notin Faults => (Spec => []ManagedAndReachable)
  <1> SUFFICES ASSUME Orderly, "boot-kill" \notin Faults
               PROVE  Spec => []ManagedAndReachable
    OBVIOUS
  <1>1. Init => Turns /\ SetUp
    BY DEF Init, Turns, JobAtWork, JobPc, NoJob, NoCommand, NoContainer, Absent, SetUp
  <1>2. TypeOK /\ Turns /\ [Next]_vars => Turns'
    BY TurnsStep DEF Orderly, Uncut
  <1>3. TypeOK /\ Turns /\ Matched /\ SetUp /\ [Next]_vars => SetUp'
    BY SetUpStep
  <1>4. Turns /\ SetUp => ManagedAndReachable
    BY DEF Turns, SetUp, ManagedAndReachable, JobAtWork, JobPc
  <1> QED
    BY <1>1, <1>2, <1>3, <1>4, Typing, Matching, PTL DEF Spec

-----------------------------------------------------------------------------
(* What clients are served.                                                *)

LEMMA ServingStep ==
    ASSUME TypeOK, Turns, container.pc = "serving" => pgdata.kind = "cluster",
           [Next]_vars
    PROVE  container'.pc = "serving" => pgdata'.kind = "cluster"
  <1> USE DEF TypeOK
  <1>1. CASE Spawn
    BY <1>1, AgentIs DEF Spawn, Serves, Contents, AgentPc
  <1>2. CASE AgentNext /\ ~Spawn
    BY <1>2, AgentIs
    DEF AgentNext, Open, InitdbBegins, InitdbEnds, InitdbFails, AppendIncludeDir,
        CreateRoles, RolesFail, AgentStep, AgentPc
  <1>3. CASE JobNext
    <2>1. UNCHANGED container /\ job.pc \in JobPc
      BY <1>3 DEF JobNext, JobOpens, JobInitdb, PgUpgradeChecks, PgUpgradeTransfers,
                  MoveAside, MoveIntoPlace, PutBack, Finish, JobFails, JobPc
    <2> QED
      BY <2>1 DEF Turns, JobAtWork
  <1>4. CASE Outside
    BY <1>4, OutsideIs, OutsideAgent DEF Untouched, Like
  <1>5. CASE UNCHANGED vars
    BY <1>5 DEF vars
  <1> QED BY <1>1, <1>2, <1>3, <1>4, <1>5 DEF Next, Outside

\* As long as no swap is cut in two and no job outlives its command, clients
\* are only ever served the database the cluster was created with, whole.
THEOREM ServesOne == Uncut => (Spec => []ServesTheDatabase)
  <1> SUFFICES ASSUME Uncut PROVE Spec => []ServesTheDatabase
    OBVIOUS
  <1> DEFINE Serving == container.pc = "serving" => pgdata.kind = "cluster"
             IInv == Turns /\ Kept /\ Lineal /\ Serving
  <1>1. Init => IInv
    BY Shapes DEF Init, Turns, Kept, Sound, Lineal, JobAtWork, JobPc
  <1>2. TypeOK /\ IInv /\ [Next]_vars => IInv'
    BY TurnsStep, KeptStep, LinealStep, ServingStep DEF Uncut
  <1>3. TypeOK /\ IInv => ServesTheDatabase
    BY DEF TypeOK, Turns, Lineal, Original, ServesTheDatabase, JobAtWork, JobPc
  <1> QED
    BY <1>1, <1>2, <1>3, Typing, PTL DEF Spec

=============================================================================
