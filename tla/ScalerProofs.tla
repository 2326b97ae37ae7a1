---------------------------- MODULE ScalerProofs ----------------------------
(***************************************************************************)
(* Theorems of the scaler, for every set of jobs, names, addresses and     *)
(* faults and every value of MaxRunners.                                   *)
(***************************************************************************)
EXTENDS Scaler, FiniteSetTheorems, TLAPS

(* The two counts that reconcileRunnerCount compares are numbers, and      *)
(* GitHub's is bounded by the number of jobs.                              *)
LEMMA Counts ==
  ASSUME TypeOK
  PROVE  /\ ActiveCount(runners) \in Nat
         /\ TotalAssignedJobs \in 0..Cardinality(Jobs)
<1>1. ActiveCount(runners) \in Nat
  <2>1. ActiveRunners(runners) \subseteq RunnerNames
    BY DEF ActiveRunners
  <2> QED BY <2>1, ScalerAssumption, FS_Subset, FS_CardinalityType DEF ActiveCount
<1>2. TotalAssignedJobs \in 0..Cardinality(Jobs)
  <2> DEFINE A == {j \in Jobs : job[j] \in {"assigned", "running"}}
  <2>1. A \subseteq Jobs
    OBVIOUS
  <2>2. /\ Cardinality(A) \in Nat /\ Cardinality(Jobs) \in Nat
        /\ Cardinality(A) <= Cardinality(Jobs)
    BY <2>1, ScalerAssumption, FS_Subset, FS_CardinalityType
  <2> QED BY <2>2 DEF TotalAssignedJobs
<1> QED BY <1>1, <1>2

(* Every variable is initialised in its type. *)
LEMMA TypeInit == Init => TypeOK
<1>1. Cardinality(Jobs) \in Nat
  BY ScalerAssumption, FS_CardinalityType
<1> QED
  BY <1>1, ScalerAssumption
  DEF Init, TypeOK, DockerInit, GitHubInit, NewStore, Absent, NoContainer, Container,
      ContainerState, JobState, NoEvents, Events, NoMessage, Message, NoCall, Call,
      NoReconcile, NoUsage, RunnerInfo, RunnerStatus, PC, CallPC

(* The Docker operations keep the type of the containers. *)
LEMMA DockerTypes ==
  ASSUME docker \in [RunnerNames -> Container], NEW n \in RunnerNames, NEW id
  PROVE  /\ CreateContainer(n) => docker' \in [RunnerNames -> Container]
         /\ StartContainer(n) => docker' \in [RunnerNames -> Container]
         /\ StopContainer(n, id) => docker' \in [RunnerNames -> Container]
         /\ RemoveContainer(n, id) => docker' \in [RunnerNames -> Container]
<1>1. docker[n] \in Container
  OBVIOUS
<1>2. ASSUME NEW c \in Container, docker' = [docker EXCEPT ![n] = c]
      PROVE  docker' \in [RunnerNames -> Container]
  BY <1>2
<1>3. CreateContainer(n) => docker' \in [RunnerNames -> Container]
  <2>1. docker[n].id + 1 \in Nat
    BY <1>1 DEF Container
  <2>2. [docker[n] EXCEPT !.state = "created", !.id = docker[n].id + 1] \in Container
    BY <1>1, <2>1 DEF Container, ContainerState
  <2> QED BY <1>2, <2>2 DEF CreateContainer
<1>4. StartContainer(n) => docker' \in [RunnerNames -> Container]
  <2>1. \A ip \in IPs : [docker[n] EXCEPT !.state = "idle", !.ip = ip] \in Container
    BY <1>1 DEF Container, ContainerState
  <2> QED BY <1>2, <2>1 DEF StartContainer, FreeIPs
<1>5. StopContainer(n, id) => docker' \in [RunnerNames -> Container]
  <2>1. [docker[n] EXCEPT !.state = "exited", !.ip = NoIP] \in Container
    BY <1>1 DEF Container, ContainerState
  <2> QED BY <1>2, <2>1 DEF StopContainer
<1>6. RemoveContainer(n, id) => docker' \in [RunnerNames -> Container]
  <2>1. [docker[n] EXCEPT !.state = "none", !.ip = NoIP, !.job = NoJob] \in Container
    BY <1>1 DEF Container, ContainerState
  <2> QED BY <1>2, <2>1 DEF RemoveContainer
<1> QED BY <1>3, <1>4, <1>5, <1>6

(* Events keep their type when one is added or handled. *)
LEMMA EventTypes ==
  ASSUME NEW e \in Events, NEW S
  PROVE  /\ S \subseteq Jobs => [e EXCEPT !.assigned = S] \in Events
         /\ S \subseteq Jobs \X RunnerNames => [e EXCEPT !.started = S] \in Events
         /\ S \subseteq Jobs \X (RunnerNames \cup {NoRunner})
              => [e EXCEPT !.completed = S] \in Events
  BY DEF Events

(* A job that ends with its container keeps its type, and so does the      *)
(* event that tells.                                                       *)
LEMMA JobStoppedTypes ==
  ASSUME TypeOK, NEW n \in RunnerNames, JobStopped(n)
  PROVE  job' \in [Jobs -> JobState] /\ outbox' \in Events
<1>1. /\ docker[n] \in Container /\ outbox \in Events /\ job \in [Jobs -> JobState]
      /\ outbox.completed \subseteq Jobs \X (RunnerNames \cup {NoRunner})
  BY DEF TypeOK, Events
<1>2. CASE docker[n].state = "busy"
  <2>1. docker[n].job \in Jobs
    BY <1>1, <1>2 DEF Container
  <2>2. outbox.completed \cup {<<docker[n].job, n>>}
          \subseteq Jobs \X (RunnerNames \cup {NoRunner})
    BY <1>1, <2>1
  <2>3. /\ job' = [job EXCEPT ![docker[n].job] = "done"]
        /\ outbox' = [outbox EXCEPT !.completed = @ \cup {<<docker[n].job, n>>}]
    BY <1>2 DEF JobStopped
  <2>4. outbox' \in Events
    BY <1>1, <2>2, <2>3, EventTypes
  <2> QED BY <1>1, <2>1, <2>3, <2>4 DEF JobState
<1>3. CASE docker[n].state # "busy"
  BY <1>1, <1>3 DEF JobStopped
<1> QED BY <1>2, <1>3

(* The calls of internal/runner keep the types. *)
LEMMA TypeProvisioner ==
  ASSUME TypeOK, StartRunner \/ StopRunner
  PROVE  TypeOK'
<1>1. UNCHANGED <<inbox, nextID, ctx, runners, loopVars, metricVars, lastMessageID, capacity>>
  BY DEF StartRunner, StopRunner, ContainerDiscard, ContainerStop, ContainerRemove, githubVars
<1>2. pc \in CallPC /\ call.name \in RunnerNames
  BY DEF TypeOK, CallPC, StartRunner, StopRunner, ContainerCreate, ContainerCreateFails,
         ContainerStart, ContainerStartFails, ContainerDiscard, ContainerInspect, ContainerInspectFails,
         ContainerStop, ContainerRemove
<1>3. docker' \in [RunnerNames -> Container]
  <2>1. docker \in [RunnerNames -> Container]
    BY DEF TypeOK
  <2> QED
    BY <1>2, <2>1, DockerTypes
    DEF StartRunner, StopRunner, ContainerCreate, ContainerCreateFails, ContainerStart,
        ContainerStartFails, ContainerDiscard, ContainerInspect, ContainerInspectFails, ContainerStop,
        ContainerRemove
<1>4. call' \in Call /\ pc' \in PC /\ (pc' \in CallPC => call'.name \in RunnerNames)
  <2>1. docker[call.name] \in Container /\ call \in Call
    BY <1>2 DEF TypeOK
  <2> QED
    BY <1>2, <2>1
    DEF Call, Container, NoCall, PC, CallPC, StartRunner, StopRunner, ContainerCreate,
        ContainerCreateFails, ContainerStart, ContainerStartFails, ContainerDiscard, ContainerInspect,
        ContainerInspectFails, ContainerStop, ContainerRemove
<1>5. job' \in [Jobs -> JobState] /\ outbox' \in Events
  <2>1. UNCHANGED <<job, outbox>> \/ JobStopped(call.name)
    BY DEF StartRunner, StopRunner, ContainerDiscard, ContainerStop, ContainerRemove, githubVars
  <2> QED BY <1>2, <2>1, JobStoppedTypes DEF TypeOK
<1> QED
  BY <1>1, <1>3, <1>4, <1>5 DEF TypeOK, loopVars, metricVars

(* GitHub and the runners keep the types. *)
LEMMA TypeEnvironment ==
  ASSUME TypeOK, Environment
  PROVE  TypeOK'
<1> DEFINE Typed == /\ docker \in [RunnerNames -> Container] /\ job \in [Jobs -> JobState]
                    /\ outbox \in Events /\ inbox \subseteq Message
                    /\ nextID \in Nat \ {0}
<1>1. Typed
  BY DEF TypeOK
<1>2. ASSUME NEW j \in Jobs, AssignJob(j) PROVE Typed'
  <2>1. outbox.assigned \cup {j} \subseteq Jobs
    BY <1>1 DEF Events
  <2> QED BY <1>1, <1>2, <2>1, EventTypes DEF AssignJob, JobState
<1>3. ASSUME NEW j \in Jobs, CancelJob(j) PROVE Typed'
  <2>1. outbox.completed \cup {<<j, NoRunner>>} \subseteq Jobs \X (RunnerNames \cup {NoRunner})
    BY <1>1 DEF Events
  <2> QED BY <1>1, <1>3, <2>1, EventTypes DEF CancelJob, JobState
<1>4. ASSUME MakeMessage PROVE Typed'
  <2>1. PICK stats \in 0..Cardinality(Jobs) \cup {NoStats} :
          inbox' = inbox \cup {[id |-> nextID, events |-> outbox, stats |-> stats]}
    BY <1>4, Counts DEF MakeMessage
  <2>2. [id |-> nextID, events |-> outbox, stats |-> stats] \in Message
    BY <1>1 DEF Message
  <2>3. NoEvents \in Events
    BY DEF NoEvents, Events
  <2> QED BY <1>1, <1>4, <2>1, <2>2, <2>3 DEF MakeMessage
<1>5. ASSUME NEW n \in RunnerNames, NEW j \in Jobs, RunnerTakesJob(n, j) PROVE Typed'
  <2>1. outbox.started \cup {<<j, n>>} \subseteq Jobs \X RunnerNames
    BY <1>1 DEF Events
  <2>2. [docker[n] EXCEPT !.state = "busy", !.job = j] \in Container
    BY <1>1 DEF Container, ContainerState
  <2> QED BY <1>1, <1>5, <2>1, <2>2, EventTypes DEF RunnerTakesJob, JobState
<1>6. ASSUME NEW n \in RunnerNames, NEW state \in {"grace", "exited"},
             NEW ip \in IPs \cup {NoIP}, JobEnds(n, state, ip)
      PROVE  Typed'
  <2>1. docker[n] \in Container /\ docker[n].job \in Jobs
    BY <1>1, <1>6 DEF JobEnds, Container
  <2>2. outbox.completed \cup {<<docker[n].job, n>>}
          \subseteq Jobs \X (RunnerNames \cup {NoRunner})
    BY <1>1, <2>1 DEF Events
  <2>3. [docker[n] EXCEPT !.state = state, !.ip = ip] \in Container
    BY <2>1 DEF Container, ContainerState
  <2> QED BY <1>1, <1>6, <2>2, <2>3, EventTypes DEF JobEnds, JobState
<1>7. ASSUME NEW n \in RunnerNames, GraceEnds(n) \/ RunnerQuits(n) PROVE Typed'
  <2>1. docker[n] \in Container
    BY <1>1
  <2>2. /\ [docker[n] EXCEPT !.state = "exited", !.ip = NoIP] \in Container
        /\ [docker[n] EXCEPT !.state = "grace"] \in Container
    BY <2>1 DEF Container, ContainerState
  <2> QED BY <1>1, <1>7, <2>2 DEF GraceEnds, RunnerQuits, githubVars
<1>8. ASSUME NEW n \in RunnerNames, RunnerFinishesJob(n) \/ RunnerKilled(n) PROVE Typed'
  <2>1. docker[n].ip \in IPs \cup {NoIP}
    BY <1>1 DEF Container
  <2> QED BY <1>6, <1>8, <2>1 DEF RunnerFinishesJob, RunnerKilled
<1>9. Typed' /\ UNCHANGED <<ctx, scalerVars>>
  BY <1>2, <1>3, <1>4, <1>5, <1>7, <1>8 DEF Environment
<1> QED
  BY <1>9 DEF TypeOK, scalerVars, loopVars, metricVars

(* The store's operations keep its type. *)
LEMMA StoreTypes ==
  ASSUME NEW store \in [RunnerNames -> RunnerInfo], NEW n \in RunnerNames,
         NEW id \in Nat, NEW ip \in IPs \cup {NoIP}
  PROVE  /\ AddRunner(store, n, id, ip) \in [RunnerNames -> RunnerInfo]
         /\ \A j \in Jobs : MarkBusy(store, n, j) \in [RunnerNames -> RunnerInfo]
         /\ MarkCompleted(store, n) \in [RunnerNames -> RunnerInfo]
         /\ Remove(store, n) \in [RunnerNames -> RunnerInfo]
<1>1. store[n] \in RunnerInfo
  OBVIOUS
<1>2. Absent \in RunnerInfo
  BY DEF Absent, RunnerInfo, RunnerStatus
<1>3. [status |-> "idle", id |-> id, ip |-> ip, started |-> NoJob] \in RunnerInfo
  BY DEF RunnerInfo, RunnerStatus
<1>4. \A j \in Jobs : MarkBusy(store, n, j) \in [RunnerNames -> RunnerInfo]
  BY <1>1 DEF MarkBusy, RunnerInfo, RunnerStatus
<1>5. MarkCompleted(store, n) \in [RunnerNames -> RunnerInfo]
  BY <1>1 DEF MarkCompleted, RunnerInfo, RunnerStatus
<1> QED BY <1>2, <1>3, <1>4, <1>5 DEF AddRunner, Remove

(* The steps of Run outside internal/runner keep the types. *)
LEMMA TypeScaler ==
  ASSUME TypeOK, ScalerStep
  PROVE  TypeOK'
<1>1. ActiveCount(runners) \in Nat /\ Cardinality(Jobs) \in Nat /\ MaxRunners \in Nat
  BY Counts, ScalerAssumption, FS_CardinalityType
<1> USE DEF loopVars, metricVars, githubVars
<1>2. ASSUME RunReturns PROVE TypeOK'
  BY <1>2 DEF RunReturns, TypeOK, PC, CallPC
<1>3. ASSUME Poll PROVE TypeOK'
  <2>1. AvailableCapacity \in 0..MaxRunners
    BY <1>1 DEF AvailableCapacity
  <2> QED BY <1>3, <2>1 DEF Poll, TypeOK, PC, CallPC
<1>4. ASSUME GetMessage PROVE TypeOK'
  BY <1>1, <1>4 DEF GetMessage, Undelivered, TypeOK, PC, CallPC
<1>5. ASSUME GetMessageNothing PROVE TypeOK'
  BY <1>1, <1>5 DEF GetMessageNothing, TypeOK, PC, CallPC
<1>6. ASSUME DeleteMessage PROVE TypeOK'
  BY <1>6 DEF DeleteMessage, TypeOK, PC, CallPC, Message
<1>7. ASSUME GenerateJitRunnerConfig PROVE TypeOK'
  BY <1>7 DEF GenerateJitRunnerConfig, TypeOK, PC, CallPC, Call, NoCall
<1>8. ASSUME RunnerProvisioned PROVE TypeOK'
  <2>1. AddRunner(runners, call.name, call.id, call.ip) \in [RunnerNames -> RunnerInfo]
    BY <1>8, StoreTypes DEF RunnerProvisioned, TypeOK, CallPC, Call
  <2> QED BY <1>8, <2>1 DEF RunnerProvisioned, TypeOK, PC, CallPC, Call, NoCall
<1>9. ASSUME NEW j \in Jobs, HandleJobAssigned(j) PROVE TypeOK'
  <2>1. msg' \in Message
    BY <1>9, EventTypes DEF HandleJobAssigned, TypeOK, Message, Events
  <2>2. RunnerName(ProfileOf[j], j) \in RunnerNames
    BY ScalerAssumption
  <2> QED
    BY <1>9, <2>1, <2>2
    DEF HandleJobAssigned, ProvisionRunner, TypeOK, PC, CallPC, Call, NoCall
<1>10. ASSUME NEW j \in Jobs, NEW n \in RunnerNames, HandleJobStarted(j, n) PROVE TypeOK'
  <2>1. msg' \in Message
    BY <1>10, EventTypes DEF HandleJobStarted, TypeOK, Message, Events
  <2>2. runners' \in [RunnerNames -> RunnerInfo]
    BY <1>10, StoreTypes DEF HandleJobStarted, TypeOK
  <2> QED BY <1>10, <2>1, <2>2 DEF HandleJobStarted, TypeOK
<1>11. ASSUME NEW j \in Jobs, NEW n \in RunnerNames \cup {NoRunner},
              HandleJobCompleted(j, n)
       PROVE  TypeOK'
  <2>1. msg' \in Message
    BY <1>11, EventTypes DEF HandleJobCompleted, TypeOK, Message, Events
  <2> DEFINE Typed == /\ runners \in [RunnerNames -> RunnerInfo]
                      /\ call \in Call /\ pc \in PC
                      /\ pc \in CallPC => call.name \in RunnerNames
  <2>2. Typed'
    <3>1. ASSUME UNCHANGED <<runners, call, pc>> PROVE Typed'
      BY <3>1 DEF TypeOK
    <3>2. ASSUME n \in RunnerNames, runners' = MarkCompleted(runners, n),
                 call' = [NoCall EXCEPT !.name = n, !.id = runners[n].id],
                 pc' \in {"collectCPU", "stop"}
          PROVE  Typed'
      <4>1. runners' \in [RunnerNames -> RunnerInfo]
        BY <3>2, StoreTypes DEF TypeOK
      <4>2. runners[n].id \in Nat
        BY <3>2 DEF TypeOK, RunnerInfo
      <4>3. call' = [name |-> n, id |-> runners[n].id, ip |-> NoIP, ret |-> "dispatch"]
        BY <3>2 DEF NoCall
      <4>4. call'.name \in RunnerNames /\ call' \in Call
        <5>1. n \in RunnerNames
          BY <3>2
        <5> QED BY <4>2, <4>3, <5>1 DEF Call
      <4>5. pc' \in PC
        BY <3>2 DEF PC
      <4> QED BY <4>1, <4>4, <4>5
    <3> QED BY <1>11, <3>1, <3>2 DEF HandleJobCompleted
  <2> QED BY <1>11, <2>1, <2>2 DEF HandleJobCompleted, TypeOK
<1>12. ASSUME Collect PROVE TypeOK'
  BY <1>12 DEF Collect, ExecRead, TypeOK, PC, CallPC
<1>13. ASSUME Record PROVE TypeOK'
  <2>1. call.name \in RunnerNames /\ docker[call.name] \in Container
          /\ runners[call.name] \in RunnerInfo
    BY <1>13 DEF Record, TypeOK, CallPC
  <2>2. [jobName |-> JobName(call.name), cpu |-> usage.cpu, mem |-> usage.mem,
         ran |-> docker[call.name].job, timed |-> runners[call.name].started]
          \in MetricsRecord
    BY <2>1 DEF MetricsRecord, JobName, Container, RunnerInfo, TypeOK
  <2>3. records' \subseteq MetricsRecord
    BY <1>13, <2>2 DEF Record, TypeOK
  <2> QED BY <1>13, <2>3 DEF Record, TypeOK, PC, CallPC, NoUsage
<1>14. ASSUME RunnerForgotten PROVE TypeOK'
  <2>1. Remove(runners, call.name) \in [RunnerNames -> RunnerInfo]
    BY <1>14, StoreTypes DEF RunnerForgotten, TypeOK, CallPC, Call
  <2> QED BY <1>14, <2>1 DEF RunnerForgotten, TypeOK, PC, CallPC, Call, NoCall
<1>15. ASSUME Reconcile PROVE TypeOK'
  <2>1. rec' \in [i : Nat, deficit : 0..Cardinality(Jobs), left : SUBSET Jobs]
    BY <1>1, <1>15, ScalerAssumption DEF Reconcile, TypeOK, Message
  <2>2. msg' \in Message
    BY <1>1, <1>15 DEF Reconcile, NoMessage, NoEvents, Message, Events
  <2> QED BY <1>15, <2>1, <2>2 DEF Reconcile, TypeOK, PC, CallPC
<1>16. ASSUME ReconcileRunner PROVE TypeOK'
  <2> DEFINE Rec == [i : Nat, deficit : 0..Cardinality(Jobs), left : SUBSET Jobs]
  <2>0. rec \in Rec
    BY DEF TypeOK
  <2>1. /\ rec.i \in Nat /\ rec.deficit \in 0..Cardinality(Jobs) /\ rec.left \subseteq Jobs
        /\ rec.i < rec.deficit
    BY <1>16, <2>0 DEF ReconcileRunner
  <2>2. PICK n \in RunnerNames : ProvisionRunner(n, "reconcile")
    <3>1. rec.i \in 0..Cardinality(Jobs)
      BY <1>1, <2>1
    <3> QED BY <1>16, <2>1, <3>1, ScalerAssumption DEF ReconcileRunner
  <2>3. rec' \in Rec
    <3>1. ASSUME NEW S \in SUBSET Jobs
          PROVE  [rec EXCEPT !.i = rec.i + 1, !.left = S] \in Rec
      <4>1. rec.i + 1 \in Nat
        BY <2>1
      <4> HIDE DEF Rec
      <4> DEFINE D == 0..Cardinality(Jobs)
      <4>2. rec \in [i : Nat, deficit : D, left : SUBSET Jobs]
        BY <2>0 DEF Rec
      <4> HIDE DEF D
      <4>3. [rec EXCEPT !.i = rec.i + 1, !.left = S] \in [i : Nat, deficit : D, left : SUBSET Jobs]
        BY <4>1, <4>2
      <4> QED BY <4>3 DEF Rec, D
    <3>2. rec' = [rec EXCEPT !.i = rec.i + 1, !.left = rec.left]
            \/ \E j \in Jobs : rec' = [rec EXCEPT !.i = rec.i + 1, !.left = rec.left \ {j}]
      BY <1>16, <2>0, <2>1 DEF ReconcileRunner
    <3> QED BY <2>1, <3>1, <3>2
  <2> QED
    BY <1>16, <2>2, <2>3
    DEF ReconcileRunner, ProvisionRunner, TypeOK, PC, CallPC, Call, NoCall
<1>17. ASSUME ReconcileDone PROVE TypeOK'
  BY <1>1, <1>17 DEF ReconcileDone, TypeOK, PC, CallPC, NoReconcile
<1> QED
  BY <1>2, <1>3, <1>4, <1>5, <1>6, <1>7, <1>8, <1>9, <1>10, <1>11, <1>12, <1>13, <1>14,
     <1>15, <1>16, <1>17, TypeProvisioner DEF ScalerStep

LEMMA TypeStep ==
  ASSUME TypeOK, [Next]_vars
  PROVE  TypeOK'
<1>1. ASSUME UNCHANGED vars PROVE TypeOK'
  BY <1>1 DEF vars, scalerVars, loopVars, metricVars, githubVars, TypeOK
<1>2. ASSUME CancelContext PROVE TypeOK'
  BY <1>2 DEF CancelContext, scalerVars, loopVars, metricVars, githubVars, TypeOK
<1> QED BY <1>1, <1>2, TypeScaler, TypeEnvironment DEF Next

(* The types hold in every state the program reaches. *)
THEOREM TypeCorrect == Spec => []TypeOK
<1>1. TypeOK /\ [Next]_vars => TypeOK'
  BY TypeStep
<1> QED BY <1>1, TypeInit, PTL DEF Spec
-----------------------------------------------------------------------------
(* StoreMatchesDocker is not inductive by itself: AddRunner and Remove     *)
(* act on call, read several steps before.  What is known of call: while a *)
(* runner is provisioned its container exists and its name is not in the   *)
(* store, and while one is stopped call is the store's entry.              *)
Provisioning == {"start", "discard", "inspect", "add"}
Stopping == {"collectCPU", "collectMem", "record", "stop", "remove", "forget"}

StoreInv ==
  /\ StoreMatchesDocker
  /\ pc \in Provisioning =>
       ~Tracked(runners, call.name) /\ Exists(call.name, call.id)
  /\ pc \in Stopping =>
       runners[call.name].status = "completed" /\ runners[call.name].id = call.id

LEMMA StoreInit == Init => StoreInv
  BY DEF Init, StoreInv, StoreMatchesDocker, Provisioning, Stopping, NewStore, Absent, Tracked

(* GitHub and the runners neither remove nor create a container.           *)
LEMMA StoreEnvironment ==
  ASSUME TypeOK, StoreInv, Environment
  PROVE  StoreInv'
<1>1. UNCHANGED <<runners, pc, call>>
  BY DEF Environment, scalerVars
<1>2. ASSUME NEW n \in RunnerNames, NEW id, Exists(n, id) PROVE Exists(n, id)'
  <2>1. /\ docker' \in [RunnerNames -> Container]
        /\ docker'[n].id = docker[n].id
        /\ docker[n].state # "none" => docker'[n].state # "none"
    <3> DEFINE Moves(m, c) == /\ docker' = [docker EXCEPT ![m] = c]
                              /\ c.id = docker[m].id
                              /\ c.state # "none" /\ docker[m].state # "none"
    <3>1. docker \in [RunnerNames -> Container] /\ docker' \in [RunnerNames -> Container]
      BY TypeEnvironment DEF TypeOK
    <3>2. UNCHANGED docker \/ \E m \in RunnerNames : \E c \in Container : Moves(m, c)
      <4>1. ASSUME NEW m \in RunnerNames, NEW j \in Jobs, RunnerTakesJob(m, j)
            PROVE  Moves(m, docker'[m])
        BY <3>1, <4>1 DEF RunnerTakesJob, Container
      <4>2. ASSUME NEW m \in RunnerNames, NEW state \in {"grace", "exited"}, NEW ip,
                   JobEnds(m, state, ip)
            PROVE  Moves(m, docker'[m])
        BY <3>1, <4>2 DEF JobEnds, Container
      <4>3. ASSUME NEW m \in RunnerNames, GraceEnds(m) \/ RunnerQuits(m)
            PROVE  Moves(m, docker'[m])
        <5>1. CASE GraceEnds(m)
          <6>1. docker' = [docker EXCEPT ![m] = [docker[m] EXCEPT !.state = "exited", !.ip = NoIP]]
            BY <5>1 DEF GraceEnds
          <6>2. docker[m].state = "grace" /\ docker[m] \in Container
            BY <3>1, <5>1 DEF GraceEnds
          <6> QED BY <3>1, <6>1, <6>2 DEF Container
        <5>2. CASE RunnerQuits(m)
          <6>1. docker' = [docker EXCEPT ![m] = [docker[m] EXCEPT !.state = "grace"]]
            BY <5>2 DEF RunnerQuits
          <6>2. docker[m].state = "idle" /\ docker[m] \in Container
            BY <3>1, <5>2 DEF RunnerQuits
          <6> QED BY <3>1, <6>1, <6>2 DEF Container
        <5> QED BY <4>3, <5>1, <5>2
      <4>4. ASSUME NEW m \in RunnerNames, RunnerFinishesJob(m) \/ RunnerKilled(m)
            PROVE  Moves(m, docker'[m])
        BY <4>2, <4>4 DEF RunnerFinishesJob, RunnerKilled
      <4>5. ASSUME NEW j \in Jobs, AssignJob(j) \/ CancelJob(j) \/ MakeMessage
            PROVE  UNCHANGED docker
        BY <4>5 DEF AssignJob, CancelJob, MakeMessage
      <4> HIDE DEF Moves
      <4> QED BY <3>1, <4>1, <4>3, <4>4, <4>5 DEF Environment, MakeMessage
    <3> QED BY <3>1, <3>2
  <2> QED BY <1>2, <2>1 DEF Exists
<1> QED
  BY <1>1, <1>2 DEF StoreInv, StoreMatchesDocker, TypeOK, CallPC, Provisioning

(* The calls of StartRunner and StopRunner act on the container of call.   *)
LEMMA StoreProvisioner ==
  ASSUME TypeOK, StoreInv, StartRunner \/ StopRunner
  PROVE  StoreInv'
<1>0. PICK n \in RunnerNames : n = call.name
  BY DEF TypeOK, CallPC, StartRunner, StopRunner, ContainerCreate, ContainerCreateFails,
         ContainerStart, ContainerStartFails, ContainerDiscard, ContainerInspect, ContainerInspectFails,
         ContainerStop, ContainerRemove
<1>1. /\ docker \in [RunnerNames -> Container] /\ call.name = n
      /\ call \in Call /\ runners' = runners
  BY <1>0 DEF TypeOK, CallPC, StartRunner, StopRunner, ContainerCreate, ContainerCreateFails,
         ContainerStart, ContainerStartFails, ContainerDiscard, ContainerInspect, ContainerInspectFails,
         ContainerStop, ContainerRemove
<1>2. ASSUME \A m \in RunnerNames \ {n} : docker'[m] = docker[m],
             Tracked(runners, n) => Exists(n, runners[n].id)' \/ (pc' = "forget" /\ call'.name = n),
             pc # "forget"
      PROVE  StoreMatchesDocker'
  <2> SUFFICES ASSUME NEW m \in RunnerNames, Tracked(runners, m)
               PROVE  Exists(m, runners[m].id)' \/ (pc' = "forget" /\ m = call'.name)
    BY <1>1 DEF StoreMatchesDocker, Tracked
  <2>1. CASE m = n
    BY <1>2, <2>1
  <2>2. CASE m # n
    BY <1>1, <1>2, <2>2 DEF StoreInv, StoreMatchesDocker, Exists
  <2> QED BY <2>1, <2>2
<1>3. pc # "forget" /\ (Tracked(runners, n) => Exists(n, runners[n].id))
  BY <1>1 DEF StoreInv, StoreMatchesDocker, StartRunner, StopRunner, ContainerCreate,
         ContainerCreateFails, ContainerStart, ContainerStartFails, ContainerDiscard, ContainerInspect,
         ContainerInspectFails, ContainerStop, ContainerRemove
<1>4. ASSUME ContainerCreate PROVE StoreInv'
  <2>1. /\ docker[n].state = "none" /\ ~Tracked(runners, n)
        /\ docker' = [docker EXCEPT ![n] = [@ EXCEPT !.state = "created",
                                                     !.id = docker[n].id + 1]]
        /\ call' = [call EXCEPT !.id = docker[n].id + 1] /\ pc' = "start"
    BY <1>1, <1>3, <1>4 DEF ContainerCreate, CreateContainer, Exists
  <2>2. call'.name = n /\ call'.id = docker[n].id + 1
    BY <1>1, <2>1 DEF Call
  <2>3. docker'[n].state = "created" /\ docker'[n].id = docker[n].id + 1
    BY <1>1, <2>1 DEF Container
  <2> QED
    BY <1>1, <1>2, <1>3, <2>1, <2>2, <2>3 DEF StoreInv, Exists, Tracked, Provisioning, Stopping
<1>5. ASSUME ContainerCreateFails PROVE StoreInv'
  <2>1. \/ UNCHANGED docker
        \/ /\ docker[n].state = "none"
           /\ \A m \in RunnerNames \ {n} : docker'[m] = docker[m]
    BY <1>1, <1>5 DEF ContainerCreateFails, CreateContainer
  <2>2. pc' \in {"dispatch", "reconcile"}
    BY <1>1, <1>5 DEF ContainerCreateFails, Call
  <2>3. Tracked(runners, n) => Exists(n, runners[n].id)'
    BY <1>1, <1>3, <2>1 DEF Exists
  <2>4. StoreMatchesDocker'
    BY <1>2, <1>3, <2>1, <2>3
  <2> QED BY <2>2, <2>4 DEF StoreInv, Provisioning, Stopping
<1>6. ASSUME ContainerStart PROVE StoreInv'
  <2>1. /\ \A m \in RunnerNames : m # n => docker'[m] = docker[m]
        /\ docker'[n].id = docker[n].id /\ docker'[n].state = "idle"
        /\ call' = call /\ pc = "start" /\ pc' = "inspect"
    BY <1>1, <1>6 DEF ContainerStart, StartContainer, Container
  <2> QED
    BY <1>1, <1>2, <1>3, <2>1 DEF StoreInv, Exists, Tracked, Provisioning, Stopping
<1>7. ASSUME ContainerStartFails PROVE StoreInv'
  <2>1. /\ \A m \in RunnerNames \ {n} : docker'[m] = docker[m]
        /\ docker'[n].id = docker[n].id
        /\ docker[n].state # "none" => docker'[n].state # "none"
        /\ call' = call /\ pc = "start" /\ pc' = "discard"
    BY <1>1, <1>7 DEF ContainerStartFails, StartContainer, Container
  <2> QED
    BY <1>1, <1>2, <1>3, <2>1 DEF StoreInv, Exists, Tracked, Provisioning, Stopping
<1>12. ASSUME ContainerDiscard PROVE StoreInv'
  <2>1. /\ \A m \in RunnerNames \ {n} : docker'[m] = docker[m]
        /\ pc = "discard" /\ pc' \in {"dispatch", "reconcile"}
    BY <1>1, <1>12 DEF ContainerDiscard, RemoveContainer, Call
  <2>2. ~Tracked(runners, n)
    BY <1>1, <2>1 DEF StoreInv, Provisioning
  <2> QED BY <1>1, <1>2, <1>3, <2>1, <2>2 DEF StoreInv, Provisioning, Stopping
<1>8. ASSUME ContainerInspect PROVE StoreInv'
  <2>1. /\ docker' = docker /\ call'.name = n /\ call'.id = call.id
        /\ pc = "inspect" /\ pc' = "add"
    BY <1>1, <1>8 DEF ContainerInspect, Call
  <2> QED
    BY <1>1, <1>2, <1>3, <2>1 DEF StoreInv, Exists, Tracked, Provisioning, Stopping
<1>9. ASSUME ContainerInspectFails PROVE StoreInv'
  <2>1. docker' = docker /\ pc' \in {"dispatch", "reconcile"}
    BY <1>1, <1>9 DEF ContainerInspectFails, Call
  <2>2. StoreMatchesDocker'
    BY <1>1, <1>2, <1>3, <2>1 DEF Exists
  <2> QED BY <2>1, <2>2 DEF StoreInv, Provisioning, Stopping
<1>10. ASSUME ContainerStop PROVE StoreInv'
  <2>1. /\ \A m \in RunnerNames : m # n => docker'[m] = docker[m]
        /\ docker'[n].id = docker[n].id
        /\ docker[n].state # "none" => docker'[n].state # "none"
        /\ call' = call /\ pc = "stop" /\ pc' = "remove"
    BY <1>1, <1>10 DEF ContainerStop, StopContainer, Container
  <2> QED
    BY <1>1, <1>2, <1>3, <2>1 DEF StoreInv, Exists, Tracked, Provisioning, Stopping
<1>11. ASSUME ContainerRemove PROVE StoreInv'
  <2>1. /\ \A m \in RunnerNames \ {n} : docker'[m] = docker[m]
        /\ call' = call /\ pc = "remove" /\ pc' = "forget"
    BY <1>1, <1>11 DEF ContainerRemove, RemoveContainer
  <2> QED BY <1>1, <1>2, <1>3, <2>1 DEF StoreInv, Provisioning, Stopping
<1> QED
  BY <1>4, <1>5, <1>6, <1>7, <1>8, <1>9, <1>10, <1>11, <1>12 DEF StartRunner, StopRunner

(* The other steps of Run change neither a container nor another name's    *)
(* entry.                                                                  *)
LEMMA StoreScaler ==
  ASSUME TypeOK, StoreInv, ScalerStep, ~StartRunner, ~StopRunner
  PROVE  StoreInv'
<1> USE DEF Provisioning, Stopping
<1>1. docker' = docker /\ runners \in [RunnerNames -> RunnerInfo] /\ call \in Call
  BY DEF TypeOK, ScalerStep, RunReturns, Poll, GetMessage, GetMessageNothing, DeleteMessage,
         GenerateJitRunnerConfig, RunnerProvisioned, HandleJobAssigned, HandleJobStarted,
         HandleJobCompleted, Collect, Record, RunnerForgotten, Reconcile, ReconcileRunner,
         ReconcileDone
<1>2. ASSUME runners' = runners, pc # "forget", pc' # "forget",
             pc' \in Provisioning \cup Stopping => call' = call,
             pc' \in Provisioning => pc \in Provisioning,
             pc' \in Stopping => pc \in Stopping
      PROVE  StoreInv'
  BY <1>1, <1>2 DEF StoreInv, StoreMatchesDocker, Exists, Tracked
<1>3. ASSUME RunReturns \/ Poll \/ GetMessage \/ GetMessageNothing \/ DeleteMessage
             \/ Reconcile \/ ReconcileRunner \/ ReconcileDone
      PROVE  StoreInv'
  BY <1>2, <1>3
  DEF RunReturns, Poll, GetMessage, GetMessageNothing, DeleteMessage, Reconcile,
      ReconcileRunner, ProvisionRunner, ReconcileDone
<1>4. ASSUME GenerateJitRunnerConfig PROVE StoreInv'
  BY <1>1, <1>2, <1>4 DEF GenerateJitRunnerConfig, Call
<1>5. ASSUME RunnerProvisioned PROVE StoreInv'
  <2>1. /\ runners' = AddRunner(runners, call.name, call.id, call.ip)
        /\ pc = "add" /\ pc' \in {"dispatch", "reconcile"} /\ call.name \in RunnerNames
    BY <1>1, <1>5 DEF RunnerProvisioned, TypeOK, CallPC, Call
  <2>2. runners'[call.name].id = call.id
          /\ \A m \in RunnerNames : m # call.name => runners'[m] = runners[m]
    BY <1>1, <2>1 DEF AddRunner
  <2> QED BY <1>1, <2>1, <2>2 DEF StoreInv, StoreMatchesDocker, Exists, Tracked
<1>6. ASSUME NEW j \in Jobs, HandleJobAssigned(j) PROVE StoreInv'
  BY <1>2, <1>6 DEF HandleJobAssigned, ProvisionRunner
<1>7. ASSUME NEW j \in Jobs, NEW n \in RunnerNames, HandleJobStarted(j, n) PROVE StoreInv'
  <2>1. /\ pc = "dispatch" /\ pc' = "dispatch"
        /\ \A m \in RunnerNames : /\ runners'[m].id = runners[m].id
                                  /\ Tracked(runners', m) <=> Tracked(runners, m)
    BY <1>1, <1>7 DEF HandleJobStarted, MarkBusy, Tracked, RunnerInfo
  <2> QED BY <1>1, <2>1 DEF StoreInv, StoreMatchesDocker, Exists
<1>8. ASSUME NEW j \in Jobs, NEW n \in RunnerNames \cup {NoRunner}, HandleJobCompleted(j, n)
      PROVE  StoreInv'
  <2>1. CASE UNCHANGED <<runners, call, pc>>
    BY <1>2, <1>8, <2>1 DEF HandleJobCompleted
  <2>2. CASE /\ n \in RunnerNames /\ Tracked(runners, n)
             /\ runners' = MarkCompleted(runners, n)
             /\ call' = [NoCall EXCEPT !.name = n, !.id = runners[n].id]
             /\ pc' \in {"collectCPU", "stop"}
    <3>1. \A m \in RunnerNames : /\ runners'[m].id = runners[m].id
                                 /\ Tracked(runners', m) <=> Tracked(runners, m)
      BY <1>1, <2>2 DEF MarkCompleted, Tracked, RunnerInfo
    <3>2. runners'[n].status = "completed"
      BY <1>1, <2>2 DEF MarkCompleted, RunnerInfo
    <3>3. call'.name = n /\ call'.id = runners[n].id
      BY <2>2 DEF NoCall
    <3>4. pc = "dispatch"
      BY <1>8 DEF HandleJobCompleted
    <3> QED
      BY <1>1, <2>2, <3>1, <3>2, <3>3, <3>4 DEF StoreInv, StoreMatchesDocker, Exists
  <2> QED BY <1>8, <2>1, <2>2 DEF HandleJobCompleted
<1>9. ASSUME Collect \/ Record PROVE StoreInv'
  BY <1>2, <1>9 DEF Collect, Record
<1>10. ASSUME RunnerForgotten PROVE StoreInv'
  <2>1. /\ runners' = Remove(runners, call.name) /\ pc' = "dispatch"
        /\ call.name \in RunnerNames
    BY <1>10 DEF RunnerForgotten, TypeOK, CallPC
  <2>2. ~Tracked(runners', call.name)
          /\ \A m \in RunnerNames : m # call.name => runners'[m] = runners[m]
    BY <1>1, <2>1 DEF Remove, Absent, Tracked
  <2> QED BY <1>1, <2>1, <2>2 DEF StoreInv, StoreMatchesDocker, Exists, Tracked
<1> QED
  BY <1>3, <1>4, <1>5, <1>6, <1>7, <1>8, <1>9, <1>10 DEF ScalerStep

LEMMA StoreStep ==
  ASSUME TypeOK, StoreInv, [Next]_vars
  PROVE  StoreInv'
<1>1. ASSUME UNCHANGED <<docker, runners, pc, call>> PROVE StoreInv'
  BY <1>1 DEF StoreInv, StoreMatchesDocker, Tracked, Exists
<1> QED
  BY <1>1, StoreScaler, StoreProvisioner, StoreEnvironment
  DEF Next, vars, CancelContext, scalerVars, ScalerStep

(* Whatever fails, an entry of the store is a container that exists.       *)
THEOREM StoreCorrect == Spec => []StoreMatchesDocker
<1>1. TypeOK /\ StoreInv /\ [Next]_vars => StoreInv'
  BY StoreStep
<1>2. StoreInv => StoreMatchesDocker
  BY DEF StoreInv
<1> QED BY <1>1, <1>2, StoreInit, TypeCorrect, PTL DEF Spec
=============================================================================
