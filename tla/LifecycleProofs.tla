-------------------------- MODULE LifecycleProofs --------------------------
(***************************************************************************)
(* What ties the events on their way (module DeliveryProofs) to the state  *)
(* of GitHub, of Docker and of the store, and the theorems that follow     *)
(* from it, for every number of jobs, runners and addresses.  What is      *)
(* known of a container by its name needs that an error of ContainerStart  *)
(* means what it says; the rest holds under every fault.                   *)
(***************************************************************************)
EXTENDS DeliveryProofs

(* A container whose start failed does not run: no answer of a start is    *)
(* lost.  (Otherwise it may take a job, and be discarded under it; what    *)
(* GitHub tells of it then meets the next runner of that name.)            *)
Certain == "startlost" \notin Faults

(* GitHub tells everything once. *)
Unique ==
  /\ \A j \in Jobs : \A a, b \in AssignedAt[j] : a = b
  /\ \A j \in Jobs, n \in RunnerNames :
       /\ \A a, b \in StartedAt[j][n] : a = b
       /\ \A a, b \in CompletedAt[j][n] : a = b

(* And in the order in which it happens. *)
InOrder ==
  \A j \in Jobs :
    /\ \A n \in RunnerNames : \A a \in AssignedAt[j], s \in StartedAt[j][n] : a <= s
    /\ \A n \in RunnerNames \cup {NoRunner} :
         \A a \in AssignedAt[j], c \in CompletedAt[j][n] : a <= c
    /\ \A n \in RunnerNames : \A s \in StartedAt[j][n], c \in CompletedAt[j][n] : s <= c

(* A container has a job from when it takes it until it is removed, and no *)
(* other ever has that job.                                                *)
RunnerInv ==
  /\ \A n \in RunnerNames :
       /\ docker[n].state \in {"none", "created", "idle"} => docker[n].job = NoJob
       /\ docker[n].job # NoJob =>
            job[docker[n].job] = IF docker[n].state = "busy" THEN "running" ELSE "done"
  /\ \A n, m \in RunnerNames : docker[n].job = docker[m].job /\ docker[n].job # NoJob => n = m

(* An event names the container of its job, which is still there. *)
EventsNamed ==
  \A j \in Jobs, n \in RunnerNames :
    /\ StartedAt[j][n] # {} => docker[n].job = j
    /\ CompletedAt[j][n] # {} => docker[n].job = j /\ docker[n].state \in {"grace", "exited"}

(* Something tells of the job j that does not wait for a runner any more. *)
Told(j) ==
  \/ \E n \in RunnerNames : StartedAt[j][n] # {}
  \/ \E n \in RunnerNames \cup {NoRunner} : CompletedAt[j][n] # {}

(* What the handlers know of a job, and what is still on the way. *)
JobKnown(j) ==
  /\ job[j] = "queued" => AssignedAt[j] = {} /\ j \notin handled
  /\ job[j] # "queued" => (AssignedAt[j] = {} <=> j \in handled)
  /\ job[j] \in {"queued", "assigned"} =>
       \A n \in RunnerNames : docker[n].job # j /\ StartedAt[j][n] = {}
  /\ job[j] # "done" => \A n \in RunnerNames \cup {NoRunner} : CompletedAt[j][n] = {}
  /\ j \in handled /\ job[j] = "assigned" => j \in pending
  /\ j \in pending \/ AssignedAt[j] # {} => job[j] = "assigned" \/ Told(j)

JobInv == \A j \in Jobs : JobKnown(j)

(* What the store knows of a runner, and what is still on the way. *)
StoreLife ==
  /\ \A n \in RunnerNames :
       /\ runners[n].status = "idle" =>
            docker[n].job = NoJob \/ StartedAt[docker[n].job][n] # {}
       /\ runners[n].status = "busy" =>
            /\ docker[n].job # NoJob /\ runners[n].started = docker[n].job
            /\ \A j \in Jobs : StartedAt[j][n] = {}
       /\ runners[n].status = "completed" => n = call.name /\ pc \in Stopping
  /\ pc = "start" \/ (pc = "discard" /\ Live) => docker[call.name].state = "created"
  /\ pc \in {"inspect", "add"} =>
       docker[call.name].job = NoJob \/ StartedAt[docker[call.name].job][call.name] # {}
  /\ pc \in Stopping =>
       /\ docker[call.name].state \in {"grace", "exited", "none"}
       /\ pc # "forget" =>
            docker[call.name].job # NoJob /\ runners[call.name].started = docker[call.name].job
       /\ \A j \in Jobs : StartedAt[j][call.name] = {} /\ CompletedAt[j][call.name] = {}

LifeInv ==
  /\ Unique /\ InOrder /\ RunnerInv /\ JobInv
  /\ Certain => EventsNamed /\ StoreLife

(* At the start nothing is on its way. *)
LEMMA LifeInit == Init => LifeInv
<1> SUFFICES ASSUME Init PROVE LifeInv
  OBVIOUS
<1>1. Undelivered = {} /\ msg.events = NoEvents /\ Draft.events = NoEvents
  BY DEF Init, GitHubInit, Undelivered, Draft, NoMessage
<1>2. \A m \in Line : m.events = NoEvents
  BY <1>1 DEF Line
<1>3. /\ \A j \in Jobs : AssignedAt[j] = {}
      /\ \A j \in Jobs, n \in RunnerNames : StartedAt[j][n] = {}
      /\ \A j \in Jobs, n \in RunnerNames \cup {NoRunner} : CompletedAt[j][n] = {}
  BY <1>2 DEF AssignedAt, StartedAt, CompletedAt, AssignedIn, StartedIn, CompletedIn, NoEvents
<1>4. /\ \A n \in RunnerNames : docker[n] = NoContainer /\ runners[n] = Absent
      /\ \A j \in Jobs : job[j] = "queued"
      /\ pending = {} /\ handled = {} /\ pc = "poll"
  BY DEF Init, GitHubInit, DockerInit, NewStore
<1>5. Unique /\ InOrder
  BY <1>3 DEF Unique, InOrder
<1>6. RunnerInv
  BY <1>4, ScalerAssumption DEF RunnerInv, NoContainer
<1>7. JobInv
  BY <1>3, <1>4, ScalerAssumption DEF JobInv, JobKnown, NoContainer
<1>8. EventsNamed /\ StoreLife
  BY <1>3, <1>4 DEF EventsNamed, StoreLife, NoContainer, Absent, Stopping
<1> QED BY <1>5, <1>6, <1>7, <1>8 DEF LifeInv
-----------------------------------------------------------------------------
(* The environment. *)

(* The variables that the environment leaves alone. *)
LEMMA ScalerWaits ==
  ASSUME UNCHANGED <<ctx, scalerVars>>
  PROVE  UNCHANGED <<ctx, msg, lastMessageID, runners, pending, handled, records, pc, call>>
  BY DEF scalerVars, loopVars, metricVars

(* A queued job is known to nobody. *)
LEMMA LifeAssignJob ==
  ASSUME TypeOK, LineInv, LifeInv, NEW j \in Jobs, AssignJob(j), UNCHANGED <<ctx, scalerVars>>
  PROVE  LifeInv'
<1>1. /\ UNCHANGED <<docker, ctx, runners, pending, handled, pc, call>>
      /\ job[j] = "queued" /\ job'[j] = "assigned"
      /\ \A k \in Jobs : k # j => job'[k] = job[k]
  BY ScalerWaits DEF AssignJob, TypeOK
<1>2. JobGains(AssignedAt', AssignedAt, j, nextID) /\ UNCHANGED <<StartedAt, CompletedAt>>
  BY EventAdded, ScalerWaits DEF AssignJob
<1>3. /\ AssignedAt[j] = {} /\ j \notin handled
      /\ \A n \in RunnerNames : docker[n].job # j
  BY <1>1 DEF LifeInv, JobInv, JobKnown
<1>4. /\ \A n \in RunnerNames : StartedAt[j][n] = {}
      /\ \A n \in RunnerNames \cup {NoRunner} : CompletedAt[j][n] = {}
  BY <1>1 DEF LifeInv, JobInv, JobKnown
<1>a. AssignedAt'[j] = {nextID} /\ \A k \in Jobs : k # j => AssignedAt'[k] = AssignedAt[k]
  BY <1>2, <1>3 DEF JobGains
<1>5. Unique' /\ InOrder'
  BY <1>2, <1>4, <1>a DEF LifeInv, Unique, InOrder
<1>6. RunnerInv'
  BY <1>1, <1>2, <1>3 DEF LifeInv, RunnerInv, TypeOK, Container
<1>7. JobInv'
  <2>1. JobKnown(j)'
    BY <1>1, <1>2, <1>3, <1>4, <1>a DEF JobKnown, LifeInv, JobInv
  <2>2. ASSUME NEW k \in Jobs, k # j PROVE JobKnown(k)'
    BY <1>1, <1>2, <1>a, <2>2 DEF JobKnown, LifeInv, JobInv, Told
  <2> QED BY <2>1, <2>2 DEF JobInv
<1>8. ASSUME Certain PROVE EventsNamed' /\ StoreLife'
  BY <1>1, <1>2, <1>8 DEF LifeInv, EventsNamed, StoreLife, Live
<1> QED BY <1>5, <1>6, <1>7, <1>8 DEF LifeInv, Certain

(* A job that is cancelled has no container. *)
LEMMA LifeCancelJob ==
  ASSUME TypeOK, LineInv, LifeInv, NEW j \in Jobs, CancelJob(j), UNCHANGED <<ctx, scalerVars>>
  PROVE  LifeInv'
<1>1. /\ UNCHANGED <<docker, ctx, runners, pending, handled, pc, call>>
      /\ job[j] = "assigned" /\ job'[j] = "done"
      /\ \A k \in Jobs : k # j => job'[k] = job[k]
  BY ScalerWaits DEF CancelJob, TypeOK
<1>2. /\ RunGains(CompletedAt', CompletedAt, RunnerNames \cup {NoRunner}, j, NoRunner, nextID)
      /\ UNCHANGED <<AssignedAt, StartedAt>>
  BY EventAdded, ScalerWaits DEF CancelJob
<1>3. /\ AssignedAt \in [Jobs -> SUBSET (0..nextID)]
      /\ \A n \in RunnerNames : docker[n].job # j
  BY <1>1, EventIDs DEF LifeInv, JobInv, JobKnown
<1>4. /\ \A k \in Jobs, n \in RunnerNames : CompletedAt'[k][n] = CompletedAt[k][n]
      /\ \A k \in Jobs : k # j => CompletedAt'[k][NoRunner] = CompletedAt[k][NoRunner]
      /\ CompletedAt'[j][NoRunner] = {nextID}
  <2>1. CompletedAt[j][NoRunner] = {} /\ NoRunner \notin RunnerNames
    BY <1>1, ScalerAssumption DEF LifeInv, JobInv, JobKnown
  <2> QED BY <1>2, <2>1 DEF RunGains
<1>5. Unique' /\ InOrder'
  BY <1>2, <1>3, <1>4 DEF LifeInv, Unique, InOrder
<1>6. RunnerInv'
  BY <1>1, <1>2, <1>3, <1>4 DEF LifeInv, RunnerInv, TypeOK, Container
<1>7. JobInv'
  <2>1. JobKnown(j)'
    <3>1. Told(j)'
      BY <1>4 DEF Told
    <3> QED BY <1>1, <1>2, <3>1 DEF JobKnown, LifeInv, JobInv
  <2>2. ASSUME NEW k \in Jobs, k # j PROVE JobKnown(k)'
    <3>1. Told(k)' = Told(k)
      BY <1>2, <1>4, <2>2 DEF Told
    <3> QED BY <1>1, <1>2, <1>4, <2>2, <3>1 DEF JobKnown, LifeInv, JobInv
  <2> QED BY <2>1, <2>2 DEF JobInv
<1>8. ASSUME Certain PROVE EventsNamed' /\ StoreLife'
  <2>1. pc \in Stopping => call.name \in RunnerNames
    BY DEF TypeOK, Stopping, CallPC
  <2> QED BY <1>1, <1>2, <1>4, <1>8, <2>1 DEF LifeInv, EventsNamed, StoreLife, Live
<1> QED BY <1>5, <1>6, <1>7, <1>8 DEF LifeInv, Certain

(* A job is taken by a container that has none; its JobStarted is the      *)
(* first event of the container.                                           *)
LEMMA LifeRunnerTakesJob ==
  ASSUME TypeOK, LineInv, LifeInv, NEW n \in RunnerNames, NEW j \in Jobs, RunnerTakesJob(n, j),
         UNCHANGED <<ctx, scalerVars>>
  PROVE  LifeInv'
<1>1. /\ UNCHANGED <<ctx, runners, pending, handled, pc, call>>
      /\ job[j] = "assigned" /\ job'[j] = "running"
      /\ \A k \in Jobs : k # j => job'[k] = job[k]
      /\ docker[n].state = "idle" /\ docker'[n].state = "busy" /\ docker'[n].job = j
      /\ \A m \in RunnerNames : m # n => docker'[m] = docker[m]
  BY ScalerWaits DEF RunnerTakesJob, TypeOK, Container
<1>2. /\ RunGains(StartedAt', StartedAt, RunnerNames, j, n, nextID)
      /\ UNCHANGED <<AssignedAt, CompletedAt>>
  BY EventAdded, ScalerWaits DEF RunnerTakesJob
<1>3. /\ AssignedAt \in [Jobs -> SUBSET (0..nextID)]
      /\ \A m \in RunnerNames : docker[m].job # j
      /\ docker[n].job = NoJob
  BY <1>1, EventIDs DEF LifeInv, JobInv, JobKnown, RunnerInv
<1>4. \A m \in RunnerNames : StartedAt[j][m] = {} /\ CompletedAt[j][m] = {}
  BY <1>1 DEF LifeInv, JobInv, JobKnown
<1>5. /\ StartedAt'[j][n] = {nextID}
      /\ \A k \in Jobs, m \in RunnerNames : k # j \/ m # n => StartedAt'[k][m] = StartedAt[k][m]
  BY <1>2, <1>4 DEF RunGains
<1>6. Unique' /\ InOrder'
  BY <1>2, <1>3, <1>4, <1>5 DEF LifeInv, Unique, InOrder
<1>7. RunnerInv'
  <2>1. \A m \in RunnerNames :
          /\ docker'[m].state \in {"none", "created", "idle"} => docker'[m].job = NoJob
          /\ docker'[m].job # NoJob =>
               job'[docker'[m].job] = IF docker'[m].state = "busy" THEN "running" ELSE "done"
    BY <1>1, <1>3 DEF LifeInv, RunnerInv, TypeOK, Container
  <2>2. \A m, l \in RunnerNames :
          docker'[m].job = docker'[l].job /\ docker'[m].job # NoJob => m = l
    BY <1>1, <1>3 DEF LifeInv, RunnerInv
  <2> QED BY <2>1, <2>2 DEF RunnerInv
<1>10. ASSUME Certain PROVE EventsNamed'
  <2>1. \A k \in Jobs : StartedAt[k][n] = {} /\ CompletedAt[k][n] = {}
    BY <1>3, <1>10, ScalerAssumption DEF LifeInv, EventsNamed
  <2> QED BY <1>1, <1>2, <1>5, <1>10, <2>1 DEF LifeInv, EventsNamed
<1>8. JobInv'
  <2>1. JobKnown(j)'
    <3>1. Told(j)'
      BY <1>5 DEF Told
    <3> QED BY <1>1, <1>2, <3>1 DEF JobKnown, LifeInv, JobInv
  <2>2. ASSUME NEW k \in Jobs, k # j PROVE JobKnown(k)'
    <3>1. Told(k)' = Told(k)
      BY <1>2, <1>5, <2>2 DEF Told
    <3> QED BY <1>1, <1>2, <1>5, <2>2, <3>1 DEF JobKnown, LifeInv, JobInv
  <2> QED BY <2>1, <2>2 DEF JobInv
<1>9. ASSUME Certain PROVE StoreLife'
  <2> USE <1>9
  <2>1. pc \in Stopping \/ pc \in {"start", "discard", "inspect", "add"} => call.name \in RunnerNames
    BY DEF TypeOK, Stopping, CallPC
  <2>2. runners[n].status # "busy"
    BY <1>3 DEF LifeInv, StoreLife
  <2>3. pc \in Stopping \cup {"start"} \/ (pc = "discard" /\ Live) => call.name # n
    BY <1>1 DEF LifeInv, StoreLife
  <2>4. /\ \A m \in RunnerNames \ {n} : /\ docker'[m] = docker[m]
                                        /\ \A k \in Jobs : StartedAt'[k][m] = StartedAt[k][m]
        /\ docker'[n].job = j /\ StartedAt'[j][n] # {}
    BY <1>1, <1>5
  <2>5. \A m \in RunnerNames :
          /\ runners[m].status = "idle" =>
               docker'[m].job = NoJob \/ StartedAt'[docker'[m].job][m] # {}
          /\ runners[m].status = "busy" =>
               /\ docker'[m].job # NoJob /\ runners[m].started = docker'[m].job
               /\ \A k \in Jobs : StartedAt'[k][m] = {}
          /\ runners[m].status = "completed" => m = call.name /\ pc \in Stopping
    <3>1. ASSUME NEW m \in RunnerNames \ {n}, docker[m].job # NoJob, StartedAt[docker[m].job][m] # {}
          PROVE  StartedAt'[docker'[m].job][m] # {}
      BY <2>4, <3>1 DEF TypeOK, Container
    <3> QED BY <2>2, <2>4, <3>1 DEF LifeInv, StoreLife
  <2>6. pc = "start" \/ (pc = "discard" /\ Live) => docker'[call.name].state = "created"
    BY <2>1, <2>3, <2>4 DEF LifeInv, StoreLife
  <2>7. pc \in {"inspect", "add"} =>
          docker'[call.name].job = NoJob \/ StartedAt'[docker'[call.name].job][call.name] # {}
    <3>1. CASE pc \in {"inspect", "add"} /\ call.name = n
      BY <2>4, <3>1
    <3>2. CASE pc \in {"inspect", "add"} /\ call.name # n
      <4>1. call.name \in RunnerNames \ {n} /\ docker[call.name] \in Container
        BY <2>1, <3>2 DEF TypeOK
      <4>2. docker[call.name].job = NoJob \/ StartedAt[docker[call.name].job][call.name] # {}
        BY <3>2 DEF LifeInv, StoreLife
      <4> QED BY <2>4, <4>1, <4>2 DEF Container
    <3> QED BY <3>1, <3>2
  <2>8. pc \in Stopping =>
          /\ docker'[call.name].state \in {"grace", "exited", "none"}
          /\ pc # "forget" => /\ docker'[call.name].job # NoJob
                              /\ runners[call.name].started = docker'[call.name].job
          /\ \A k \in Jobs : StartedAt'[k][call.name] = {} /\ CompletedAt'[k][call.name] = {}
    BY <1>2, <2>1, <2>3, <2>4 DEF LifeInv, StoreLife
  <2> QED BY <1>1, <2>5, <2>6, <2>7, <2>8 DEF StoreLife, Live
<1> QED BY <1>6, <1>7, <1>8, <1>9, <1>10 DEF LifeInv, Certain

(* The JobCompleted of the job of a container is its last event.  The      *)
(* container ends with its job, or is stopped or removed under it.         *)
LEMMA LifeJobDone ==
  ASSUME TypeOK, LineInv, LifeInv, NEW n \in RunnerNames, docker[n].state = "busy",
         JobStopped(n), UNCHANGED <<inbox, nextID, msg, lastMessageID, pending, handled>>,
         \A m \in RunnerNames : m # n => docker'[m] = docker[m],
         \/ docker'[n].state \in {"grace", "exited"} /\ docker'[n].job = docker[n].job
         \/ docker'[n].state = "none" /\ docker'[n].job = NoJob
  PROVE  /\ Unique' /\ InOrder' /\ RunnerInv' /\ JobInv'
         /\ docker[n].job \in Jobs /\ CompletedAt'[docker[n].job][n] # {}
         /\ \A l \in Jobs, m \in RunnerNames \cup {NoRunner} :
              l # docker[n].job \/ m # n => CompletedAt'[l][m] = CompletedAt[l][m]
         /\ UNCHANGED <<AssignedAt, StartedAt>>
<1> DEFINE j == docker[n].job
<1>1. /\ j \in Jobs /\ job[j] = "running" /\ job'[j] = "done"
      /\ \A k \in Jobs : k # j => job'[k] = job[k]
  <2>1. j \in Jobs
    BY DEF TypeOK, Container
  <2>2. job[j] = "running"
    BY <2>1, ScalerAssumption DEF LifeInv, RunnerInv
  <2> QED BY <2>1, <2>2 DEF JobStopped, TypeOK
<1>2. /\ RunGains(CompletedAt', CompletedAt, RunnerNames \cup {NoRunner}, j, n, nextID)
      /\ UNCHANGED <<AssignedAt, StartedAt>>
  <2>1. outbox' = [outbox EXCEPT !.completed = @ \cup {<<j, n>>}]
    BY DEF JobStopped
  <2> QED BY <1>1, <2>1, EventAdded
<1>3. PICK k \in Jobs : k = j
  BY <1>1
<1> HIDE DEF j
<1>4. /\ AssignedAt \in [Jobs -> SUBSET (0..nextID)]
      /\ StartedAt \in [Jobs -> [RunnerNames -> SUBSET (0..nextID)]]
      /\ \A m \in RunnerNames \cup {NoRunner} : CompletedAt[k][m] = {}
      /\ \A m \in RunnerNames : docker[m].job = k => m = n
  <2>1. \A m \in RunnerNames \cup {NoRunner} : CompletedAt[k][m] = {}
    BY <1>1, <1>3 DEF LifeInv, JobInv, JobKnown
  <2>2. \A m \in RunnerNames : docker[m].job = k => m = n
    BY <1>3, ScalerAssumption DEF LifeInv, RunnerInv, j
  <2> QED BY <2>1, <2>2, EventIDs
<1>5. /\ CompletedAt'[k][n] = {nextID}
      /\ \A l \in Jobs, m \in RunnerNames \cup {NoRunner} :
           l # k \/ m # n => CompletedAt'[l][m] = CompletedAt[l][m]
  BY <1>2, <1>3, <1>4 DEF RunGains
<1>6. Unique' /\ InOrder'
  <2>1. Unique'
    BY <1>2, <1>5 DEF LifeInv, Unique
  <2>2. /\ \A a \in AssignedAt[k] : a <= nextID
        /\ \A m \in RunnerNames : \A s \in StartedAt[k][m] : s <= nextID
    BY <1>4
  <2>3. \A l \in Jobs, m \in RunnerNames \cup {NoRunner} :
          /\ \A a \in AssignedAt[l], c \in CompletedAt'[l][m] : a <= c
          /\ m \in RunnerNames => \A s \in StartedAt[l][m], c \in CompletedAt'[l][m] : s <= c
    BY <1>5, <2>2 DEF LifeInv, InOrder
  <2> QED BY <1>2, <2>1, <2>3 DEF LifeInv, InOrder
<1>7. RunnerInv'
  <2>0. \A m \in RunnerNames : docker'[m].job \in {docker[m].job, NoJob}
    BY DEF j
  <2>1. ASSUME NEW m \in RunnerNames
        PROVE  /\ docker'[m].state \in {"none", "created", "idle"} => docker'[m].job = NoJob
               /\ docker'[m].job # NoJob =>
                    job'[docker'[m].job] = IF docker'[m].state = "busy" THEN "running" ELSE "done"
    <3>1. CASE m = n
      BY <1>1, <3>1 DEF j
    <3>2. CASE m # n
      BY <1>1, <1>3, <1>4, <3>2 DEF LifeInv, RunnerInv, TypeOK, Container
    <3> QED BY <3>1, <3>2
  <2>2. \A m, l \in RunnerNames :
          docker'[m].job = docker'[l].job /\ docker'[m].job # NoJob => m = l
    BY <2>0 DEF LifeInv, RunnerInv
  <2> QED BY <2>1, <2>2 DEF RunnerInv
<1>8. JobInv'
  <2>1. JobKnown(k)'
    <3>1. Told(k)'
      BY <1>5 DEF Told
    <3> QED BY <1>1, <1>2, <1>3, <3>1 DEF JobKnown, LifeInv, JobInv
  <2>2. ASSUME NEW l \in Jobs, l # k PROVE JobKnown(l)'
    <3>1. Told(l)' = Told(l)
      BY <1>2, <1>5, <2>2 DEF Told
    <3>2. /\ \A m \in RunnerNames : docker'[m].job \in {docker[m].job, NoJob}
          /\ job'[l] = job[l]
          /\ \A m \in RunnerNames \cup {NoRunner} : CompletedAt'[l][m] = CompletedAt[l][m]
      BY <1>1, <1>3, <1>5, <2>2 DEF j
    <3> QED BY <1>2, <3>1, <3>2, ScalerAssumption DEF JobKnown, LifeInv, JobInv
  <2> QED BY <2>1, <2>2 DEF JobInv
<1> QED BY <1>1, <1>2, <1>3, <1>5, <1>6, <1>7, <1>8 DEF j

LEMMA LifeJobEnds ==
  ASSUME TypeOK, LineInv, LifeInv, NEW n \in RunnerNames, NEW state \in {"grace", "exited"},
         NEW ip, JobEnds(n, state, ip), UNCHANGED <<ctx, scalerVars>>
  PROVE  LifeInv'
<1>1. /\ UNCHANGED <<ctx, runners, pending, handled, pc, call, inbox, nextID, msg, lastMessageID>>
      /\ docker[n].state = "busy" /\ docker'[n].state = state
      /\ docker'[n].job = docker[n].job /\ JobStopped(n)
      /\ \A m \in RunnerNames : m # n => docker'[m] = docker[m]
  BY ScalerWaits DEF JobEnds, JobStopped, TypeOK, Container
<1>2. /\ Unique' /\ InOrder' /\ RunnerInv' /\ JobInv'
      /\ \A l \in Jobs, m \in RunnerNames \cup {NoRunner} :
           l # docker[n].job \/ m # n => CompletedAt'[l][m] = CompletedAt[l][m]
      /\ UNCHANGED <<AssignedAt, StartedAt>>
  BY <1>1, LifeJobDone
<1>3. ASSUME Certain PROVE EventsNamed' /\ StoreLife'
  <2>1. pc \in Stopping \/ pc \in {"start", "discard", "inspect", "add"} => call.name \in RunnerNames
    BY DEF TypeOK, Stopping, CallPC
  <2>2. pc \in Stopping \cup {"start"} \/ (pc = "discard" /\ Live) => call.name # n
    BY <1>1, <1>3 DEF LifeInv, StoreLife
  <2>3. \A m \in RunnerNames : docker'[m].job = docker[m].job
    BY <1>1
  <2>4. EventsNamed'
    BY <1>1, <1>2, <1>3, <2>3 DEF LifeInv, EventsNamed
  <2>5. StoreLife'
    BY <1>1, <1>2, <1>3, <2>1, <2>2, <2>3 DEF LifeInv, StoreLife, Live
  <2> QED BY <2>4, <2>5
<1> QED BY <1>2, <1>3 DEF LifeInv, Certain

(* A container whose job is done, or that has none, ends. *)
LEMMA LifeEnds ==
  ASSUME TypeOK, LineInv, LifeInv, NEW n \in RunnerNames, GraceEnds(n) \/ RunnerQuits(n),
         UNCHANGED <<ctx, scalerVars>>
  PROVE  LifeInv'
<1>1. /\ UNCHANGED <<job, ctx, runners, pending, handled, pc, call>>
      /\ docker[n].state \in {"idle", "grace"} /\ docker'[n].job = docker[n].job
      /\ docker[n].state = "idle" => docker'[n].state = "grace"
      /\ docker[n].state = "grace" => docker'[n].state = "exited"
      /\ \A m \in RunnerNames : m # n => docker'[m] = docker[m]
  <2>1. docker \in [RunnerNames -> Container] /\ docker[n] \in Container
    BY DEF TypeOK
  <2>2. UNCHANGED <<job, ctx, runners, pending, handled, pc, call>>
    BY ScalerWaits DEF GraceEnds, RunnerQuits, githubVars
  <2>3. CASE GraceEnds(n)
    BY <2>1, <2>2, <2>3 DEF GraceEnds, Container
  <2>4. CASE RunnerQuits(n)
    BY <2>1, <2>2, <2>4 DEF RunnerQuits, Container
  <2> QED BY <2>3, <2>4
<1>2. UNCHANGED <<AssignedAt, StartedAt, CompletedAt>>
  BY EventsKept, ScalerWaits DEF events, GraceEnds, RunnerQuits, githubVars
<1>3. \A m \in RunnerNames :
        /\ docker'[m].job = docker[m].job
        /\ docker'[m].state = "busy" <=> docker[m].state = "busy"
        /\ docker'[m].state \in {"none", "created", "idle"} => docker'[m].state = docker[m].state
        /\ docker[m].state \in {"grace", "exited"} => docker'[m].state \in {"grace", "exited"}
        /\ docker[m].state \in {"none", "created"} => docker'[m].state = docker[m].state
  BY <1>1
<1>4. Unique' /\ InOrder' /\ JobInv'
  BY <1>1, <1>2, <1>3 DEF LifeInv, Unique, InOrder, JobInv, JobKnown, Told
<1>5. RunnerInv'
  BY <1>1, <1>2, <1>3 DEF LifeInv, RunnerInv
<1>6. ASSUME Certain PROVE EventsNamed' /\ StoreLife'
  <2>1. pc \in Stopping \/ pc \in {"start", "discard", "inspect", "add"} => call.name \in RunnerNames
    BY DEF TypeOK, Stopping, CallPC
  <2>2. EventsNamed'
    BY <1>2, <1>3, <1>6 DEF LifeInv, EventsNamed
  <2> QED BY <1>1, <1>2, <1>3, <1>6, <2>1, <2>2 DEF LifeInv, StoreLife, Live
<1> QED BY <1>4, <1>5, <1>6 DEF LifeInv, Certain

(* LifeInv is about nothing else. *)
LEMMA LifeFrame ==
  ASSUME LifeInv, UNCHANGED <<docker, job, runners, pending, handled, pc, call, events>>,
         Live' => Live
  PROVE  LifeInv'
  BY DEF LifeInv, Unique, InOrder, RunnerInv, JobInv, JobKnown, Told, EventsNamed, StoreLife,
     events, Certain

LEMMA LifeEnvironment ==
  ASSUME TypeOK, LineInv, LifeInv, Environment
  PROVE  LifeInv'
<1>1. UNCHANGED <<ctx, scalerVars>>
  BY DEF Environment
<1>2. CASE MakeMessage
  <2>1. UNCHANGED events
    BY <1>1, <1>2, EventsKept, ScalerWaits
  <2> QED BY <1>1, <1>2, <2>1, LifeFrame, ScalerWaits DEF MakeMessage, Live
<1>3. CASE \E n \in RunnerNames : RunnerFinishesJob(n) \/ RunnerKilled(n)
  BY <1>1, <1>3, LifeJobEnds DEF RunnerFinishesJob, RunnerKilled
<1> QED
  BY <1>1, <1>2, <1>3, LifeAssignJob, LifeCancelJob, LifeRunnerTakesJob, LifeEnds
  DEF Environment
-----------------------------------------------------------------------------
(* The scaler. *)

(* Steps that only move the scaler on. *)
LEMMA LifeMoves ==
  ASSUME LifeInv, UNCHANGED <<docker, job, runners, pending, handled, events>>,
         \/ pc \notin Stopping /\ pc' \notin Stopping \cup {"start", "discard", "inspect", "add"}
         \/ pc \in Stopping /\ pc' \in Stopping /\ call' = call /\ pc # "forget"
  PROVE  LifeInv'
<1>1. Unique' /\ InOrder' /\ RunnerInv' /\ JobInv'
  BY DEF LifeInv, Unique, InOrder, RunnerInv, JobInv, JobKnown, Told, events
<1>2. ASSUME Certain PROVE EventsNamed' /\ StoreLife'
  BY <1>2 DEF LifeInv, EventsNamed, StoreLife, events, Stopping
<1> QED BY <1>1, <1>2 DEF LifeInv, Certain

(* A container that does not run a job is created, started, stopped or     *)
(* removed.                                                                *)
LEMMA LifeContainer ==
  ASSUME LifeInv, NEW n \in RunnerNames, UNCHANGED <<job, pending, handled, events>>,
         \/ docker' = docker
         \/ /\ docker[n].state # "busy" /\ docker'[n].state # "busy"
            /\ docker'[n].job \in {docker[n].job, NoJob}
            /\ docker'[n].state \in {"none", "created", "idle"} => docker'[n].job = NoJob
            /\ \A m \in RunnerNames : m # n => docker'[m] = docker[m]
  PROVE  Unique' /\ InOrder' /\ RunnerInv' /\ JobInv'
<1>1. UNCHANGED <<AssignedAt, StartedAt, CompletedAt>>
  BY DEF events
<1>2. \A m \in RunnerNames :
        /\ docker'[m].job \in {docker[m].job, NoJob}
        /\ docker'[m].state = "busy" <=> docker[m].state = "busy"
  OBVIOUS
<1>3. Unique' /\ InOrder' /\ JobInv'
  BY <1>1, <1>2, ScalerAssumption DEF LifeInv, Unique, InOrder, JobInv, JobKnown, Told
<1>4. RunnerInv'
  BY <1>1, <1>2 DEF LifeInv, RunnerInv
<1> QED BY <1>3, <1>4

(* StartRunner only touches a container without a job. *)
LEMMA LifeProvisions ==
  ASSUME TypeOK, LifeInv, Certain, NEW n \in RunnerNames, UNCHANGED <<runners, ctx, events>>,
         \/ docker' = docker
         \/ /\ docker[n].state \in {"none", "created"}
            /\ docker'[n].state \in {"none", "created", "idle"} /\ docker'[n].job = NoJob
            /\ \A m \in RunnerNames : m # n => docker'[m] = docker[m],
         pc \notin Stopping, pc' \notin Stopping,
         pc' = "start" \/ (pc' = "discard" /\ Live) => docker'[call'.name].state = "created",
         pc' \in {"inspect", "add"} =>
           docker'[call'.name].job = NoJob
             \/ StartedAt[docker'[call'.name].job][call'.name] # {}
  PROVE  EventsNamed' /\ StoreLife'
<1>1. UNCHANGED <<AssignedAt, StartedAt, CompletedAt>>
  BY DEF events
<1>2. \A m \in RunnerNames :
        /\ docker'[m].job = docker[m].job
        /\ docker[m].state \in {"grace", "exited"} => docker'[m].state = docker[m].state
  BY DEF LifeInv, RunnerInv
<1>3. EventsNamed'
  BY <1>1, <1>2 DEF LifeInv, EventsNamed
<1>4. StoreLife'
  BY <1>1, <1>2 DEF LifeInv, StoreLife, Live
<1> QED BY <1>3, <1>4

(* The calls of Docker, container by container. *)
LEMMA DockerEffects ==
  ASSUME docker \in [RunnerNames -> Container], NEW n \in RunnerNames, NEW id
  PROVE  /\ CreateContainer(n) \/ StartContainer(n) \/ StopContainer(n, id) \/ RemoveContainer(n, id)
              => \A m \in RunnerNames : m # n => docker'[m] = docker[m]
         /\ CreateContainer(n) =>
              /\ docker[n].state = "none" /\ docker'[n].state = "created"
              /\ docker'[n].job = docker[n].job
         /\ StartContainer(n) =>
              /\ docker[n].state = "created" /\ docker'[n].state = "idle"
              /\ docker'[n].job = docker[n].job
         /\ StopContainer(n, id) =>
              \/ docker' = docker /\ docker[n].state # "busy"
              \/ docker'[n].state = "exited" /\ docker'[n].job = docker[n].job
         /\ RemoveContainer(n, id) => docker'[n].state = "none" /\ docker'[n].job = NoJob
<1>1. docker[n] \in Container
  OBVIOUS
<1>2. ASSUME CreateContainer(n) \/ StartContainer(n)
      PROVE  /\ \A m \in RunnerNames : m # n => docker'[m] = docker[m]
             /\ docker'[n].job = docker[n].job
  BY <1>1, <1>2 DEF CreateContainer, StartContainer, Container
<1>3. /\ CreateContainer(n) => docker[n].state = "none" /\ docker'[n].state = "created"
      /\ StartContainer(n) => docker[n].state = "created" /\ docker'[n].state = "idle"
  BY <1>1 DEF CreateContainer, StartContainer, Container
<1>4. ASSUME StopContainer(n, id)
      PROVE  /\ \A m \in RunnerNames : m # n => docker'[m] = docker[m]
             /\ \/ docker' = docker /\ docker[n].state # "busy"
                \/ docker'[n].state = "exited" /\ docker'[n].job = docker[n].job
  BY <1>1, <1>4 DEF StopContainer, Container, Running
<1>5. ASSUME RemoveContainer(n, id)
      PROVE  /\ \A m \in RunnerNames : m # n => docker'[m] = docker[m]
             /\ docker'[n].state = "none" /\ docker'[n].job = NoJob
  BY <1>1, <1>5 DEF RemoveContainer, Container
<1> QED BY <1>2, <1>3, <1>4, <1>5

(* A forced removal may end the job of a container that was thought not to *)
(* run, or of the one that now has the name of a runner to be stopped.     *)
LEMMA LifeCalls ==
  ASSUME TypeOK, LineInv, LifeInv, StartRunner \/ StopRunner
  PROVE  Unique' /\ InOrder' /\ RunnerInv' /\ JobInv'
<1>1. /\ UNCHANGED <<pending, handled, inbox, nextID, msg, lastMessageID>>
      /\ docker \in [RunnerNames -> Container] /\ call.name \in RunnerNames
  BY DEF StartRunner, StopRunner, ContainerCreate, ContainerCreateFails, ContainerStart,
     ContainerStartFails, ContainerDiscard, ContainerInspect, ContainerInspectFails, ContainerStop,
     ContainerRemove, githubVars, loopVars, TypeOK, CallPC
<1>2. PICK n \in RunnerNames : n = call.name
  BY <1>1
<1>3. docker[n].state \in {"none", "created", "idle"} => docker[n].job = NoJob
  BY DEF LifeInv, RunnerInv
<1>4. ASSUME UNCHANGED <<job, outbox>>,
             \/ docker' = docker
             \/ CreateContainer(n) \/ StartContainer(n)
             \/ docker[n].state # "busy" /\ \E id : StopContainer(n, id) \/ RemoveContainer(n, id)
      PROVE  Unique' /\ InOrder' /\ RunnerInv' /\ JobInv'
  <2>1. UNCHANGED events
    BY <1>1, <1>4, EventsKept
  <2>2. \/ docker' = docker
        \/ /\ docker[n].state # "busy" /\ docker'[n].state # "busy"
           /\ docker'[n].job \in {docker[n].job, NoJob}
           /\ docker'[n].state \in {"none", "created", "idle"} => docker'[n].job = NoJob
           /\ \A m \in RunnerNames : m # n => docker'[m] = docker[m]
    BY <1>1, <1>3, <1>4, DockerEffects
  <2> QED BY <1>1, <1>4, <2>1, <2>2, LifeContainer
<1>5. CASE ~ContainerDiscard /\ StartRunner
  BY <1>2, <1>4, <1>5 DEF StartRunner, ContainerCreate, ContainerCreateFails, ContainerStart,
     ContainerStartFails, ContainerInspect, ContainerInspectFails, githubVars
<1>6. CASE ContainerDiscard \/ StopRunner
  <2>1. \/ UNCHANGED <<docker, job, outbox>>
        \/ JobStopped(n) /\ \E id : StopContainer(n, id) \/ RemoveContainer(n, id)
    BY <1>2, <1>6 DEF ContainerDiscard, StopRunner, ContainerStop, ContainerRemove
  <2>2. CASE JobStopped(n) /\ docker[n].state = "busy" /\ \E id : StopContainer(n, id) \/ RemoveContainer(n, id)
    <3>1. /\ \A m \in RunnerNames : m # n => docker'[m] = docker[m]
          /\ \/ docker'[n].state = "exited" /\ docker'[n].job = docker[n].job
             \/ docker'[n].state = "none" /\ docker'[n].job = NoJob
      BY <1>1, <2>2, DockerEffects
    <3> QED BY <1>1, <2>2, <3>1, LifeJobDone
  <2>3. CASE JobStopped(n) /\ docker[n].state # "busy" /\ \E id : StopContainer(n, id) \/ RemoveContainer(n, id)
    BY <1>4, <2>3 DEF JobStopped
  <2>4. CASE UNCHANGED <<docker, job, outbox>>
    BY <1>4, <2>4
  <2> QED BY <2>1, <2>2, <2>3, <2>4
<1> QED BY <1>5, <1>6

(* Unless a start that failed succeeded, StartRunner only touches a        *)
(* container that has no job.                                              *)
LEMMA LifeStartRunner ==
  ASSUME TypeOK, LineInv, LifeInv, Certain, StartRunner
  PROVE  EventsNamed' /\ StoreLife'
<1>2. /\ pc \in {"create", "start", "discard", "inspect"} /\ call.name \in RunnerNames
      /\ docker \in [RunnerNames -> Container] /\ call \in Call
  BY DEF StartRunner, ContainerCreate, ContainerCreateFails, ContainerStart, ContainerStartFails,
         ContainerDiscard, ContainerInspect, ContainerInspectFails, TypeOK, CallPC
<1>3. PICK n \in RunnerNames : n = call.name
  BY <1>2
<1>4. docker[n] \in Container /\ call.ret \notin Stopping /\ pc \notin Stopping
  BY <1>2 DEF Call, Stopping
<1>11. ContainerDiscard =>
         \/ UNCHANGED <<docker, job, outbox>>
         \/ /\ docker[n].state = "created" /\ RemoveContainer(n, call.id)
            /\ UNCHANGED <<job, outbox>>
  BY <1>3 DEF ContainerDiscard, JobStopped, LifeInv, StoreLife
<1>1. UNCHANGED <<runners, ctx, events>>
  BY <1>11, EventsKept DEF StartRunner, ContainerDiscard, githubVars, loopVars
<1>5. CASE ContainerCreate
  <2>1. /\ docker[n].state = "none" /\ docker[n].job = NoJob
        /\ docker'[n].state = "created" /\ docker'[n].job = NoJob
        /\ \A m \in RunnerNames : m # n => docker'[m] = docker[m]
        /\ pc' = "start" /\ call'.name = n
    BY <1>2, <1>3, <1>5, DockerEffects DEF ContainerCreate, Call, LifeInv, RunnerInv
  <2> QED BY <1>1, <1>4, <2>1, LifeProvisions DEF Stopping
<1>6. CASE ContainerCreateFails
  <2>1. \/ docker' = docker
        \/ /\ docker[n].state = "none" /\ docker[n].job = NoJob
           /\ docker'[n].state = "created" /\ docker'[n].job = NoJob
           /\ \A m \in RunnerNames : m # n => docker'[m] = docker[m]
    BY <1>2, <1>3, <1>6, DockerEffects DEF ContainerCreateFails, LifeInv, RunnerInv
  <2>2. pc' \in {"dispatch", "reconcile"}
    BY <1>2, <1>6 DEF ContainerCreateFails, Call
  <2> QED BY <1>1, <1>4, <2>1, <2>2, LifeProvisions DEF Stopping
<1>7. CASE ContainerStart
  <2>1. /\ docker[n].state = "created" /\ docker[n].job = NoJob
        /\ docker'[n].state = "idle" /\ docker'[n].job = NoJob
        /\ \A m \in RunnerNames : m # n => docker'[m] = docker[m]
        /\ pc' = "inspect" /\ call' = call
    BY <1>2, <1>3, <1>7, DockerEffects DEF ContainerStart, LifeInv, RunnerInv
  <2> QED BY <1>1, <1>3, <1>4, <2>1, LifeProvisions DEF Stopping
<1>8. CASE ContainerStartFails
  <2>1. /\ docker[n].state = "created" /\ docker[n].job = NoJob
        /\ pc' = "discard" /\ call' = call
    BY <1>3, <1>8 DEF ContainerStartFails, LifeInv, StoreLife, RunnerInv
  <2>2. \/ docker' = docker
        \/ /\ docker'[n].state = "idle" /\ docker'[n].job = NoJob /\ ~Live
           /\ \A m \in RunnerNames : m # n => docker'[m] = docker[m]
    BY <1>2, <1>3, <1>8, <2>1, DockerEffects DEF ContainerStartFails, MayFail, Certain
  <2> QED BY <1>1, <1>3, <1>4, <2>1, <2>2, LifeProvisions DEF Stopping
<1>12. CASE ContainerDiscard
  <2>1. \/ docker' = docker
        \/ /\ docker[n].state = "created"
           /\ docker'[n].state = "none" /\ docker'[n].job = NoJob
           /\ \A m \in RunnerNames : m # n => docker'[m] = docker[m]
    BY <1>2, <1>11, <1>12, DockerEffects
  <2>2. pc' \in {"dispatch", "reconcile"}
    BY <1>2, <1>12 DEF ContainerDiscard, Call
  <2> QED BY <1>1, <1>4, <2>1, <2>2, LifeProvisions DEF Stopping
<1>9. CASE ContainerInspect
  <2>1. docker' = docker /\ pc = "inspect" /\ pc' = "add" /\ call'.name = n
    BY <1>2, <1>3, <1>9 DEF ContainerInspect, Call
  <2>2. docker[n].job = NoJob \/ StartedAt[docker[n].job][n] # {}
    BY <1>3, <2>1 DEF LifeInv, StoreLife
  <2> QED BY <1>1, <1>4, <2>1, <2>2, LifeProvisions DEF Stopping
<1>10. CASE ContainerInspectFails
  <2>1. docker' = docker /\ pc' \in {"dispatch", "reconcile"}
    BY <1>2, <1>10 DEF ContainerInspectFails, Call
  <2> QED BY <1>1, <1>4, <2>1, LifeProvisions DEF Stopping
<1> QED BY <1>5, <1>6, <1>7, <1>8, <1>9, <1>10, <1>12 DEF StartRunner

(* Then StopRunner only touches a container whose job is done and told. *)
LEMMA LifeStopRunner ==
  ASSUME TypeOK, LineInv, StoreInv, LifeInv, Certain, StopRunner
  PROVE  EventsNamed' /\ StoreLife'
<1>2. /\ pc \in {"stop", "remove"} /\ pc' \in {"remove", "forget"} /\ (pc = "stop" => pc' = "remove")
      /\ pc = "remove" => pc' = "forget"
      /\ call.name \in RunnerNames /\ docker \in [RunnerNames -> Container]
  BY DEF StopRunner, ContainerStop, ContainerRemove, TypeOK, CallPC
<1>3. PICK n \in RunnerNames : n = call.name
  BY <1>2
<1>4. /\ docker[n] \in Container /\ docker[n].state \in {"grace", "exited", "none"}
      /\ docker[n].job # NoJob /\ runners[n].started = docker[n].job
      /\ \A k \in Jobs : StartedAt[k][n] = {} /\ CompletedAt[k][n] = {}
      /\ runners[n].status = "completed"
  BY <1>2, <1>3 DEF LifeInv, StoreLife, StoreInv, Stopping
<1>1. UNCHANGED <<runners, call, events>>
  <2>1. UNCHANGED <<job, outbox>>
    BY <1>3, <1>4 DEF StopRunner, ContainerStop, ContainerRemove, JobStopped
  <2> QED BY <2>1, EventsKept DEF StopRunner, ContainerStop, ContainerRemove, loopVars
<1>5. \/ docker' = docker
      \/ /\ docker'[n].state = "exited" /\ docker'[n].job = docker[n].job
         /\ \A m \in RunnerNames : m # n => docker'[m] = docker[m]
      \/ /\ docker'[n].state = "none" /\ docker'[n].job = NoJob /\ pc' = "forget"
         /\ \A m \in RunnerNames : m # n => docker'[m] = docker[m]
  BY <1>2, <1>3, DockerEffects DEF StopRunner, ContainerStop, ContainerRemove
<1>6. UNCHANGED <<AssignedAt, StartedAt, CompletedAt>>
  BY <1>1 DEF events
<1>7. /\ \A m \in RunnerNames : m # n => docker'[m] = docker[m]
      /\ docker'[n].state \in {"none", "exited", "grace"}
      /\ pc' # "forget" => docker'[n].job = docker[n].job
  BY <1>2, <1>4, <1>5
<1>10. EventsNamed'
  BY <1>4, <1>6, <1>7 DEF LifeInv, EventsNamed
<1>11. StoreLife'
  BY <1>1, <1>2, <1>3, <1>4, <1>6, <1>7 DEF LifeInv, StoreLife, Stopping
<1> QED BY <1>10, <1>11

(* A runner is added when all it did is still to be told; it is forgotten  *)
(* when there is nothing more to tell.                                     *)
LEMMA LifeRunnerProvisioned ==
  ASSUME TypeOK, LineInv, StoreInv, LifeInv, RunnerProvisioned
  PROVE  LifeInv'
<1>1. UNCHANGED <<docker, job, pending, handled, events>>
  BY EventsKept DEF RunnerProvisioned, githubVars, loopVars
<1>2. /\ pc = "add" /\ pc' \in {"dispatch", "reconcile"} /\ call.name \in RunnerNames
  BY DEF RunnerProvisioned, TypeOK, CallPC, Call
<1>3. PICK n \in RunnerNames : n = call.name
  BY <1>2
<1>4. /\ runners'[n].status = "idle"
      /\ \A m \in RunnerNames : m # n => runners'[m] = runners[m]
  BY <1>3 DEF RunnerProvisioned, AddRunner, TypeOK
<1>5. Unique' /\ InOrder' /\ RunnerInv' /\ JobInv'
  BY <1>1 DEF LifeInv, Unique, InOrder, RunnerInv, JobInv, JobKnown, Told, events
<1>6. ASSUME Certain PROVE EventsNamed' /\ StoreLife'
  <2>1. docker[n].job = NoJob \/ StartedAt[docker[n].job][n] # {}
    BY <1>2, <1>3, <1>6 DEF LifeInv, StoreLife
  <2>2. EventsNamed'
    BY <1>1, <1>6 DEF LifeInv, EventsNamed, events
  <2> QED BY <1>1, <1>2, <1>4, <1>6, <2>1, <2>2 DEF LifeInv, StoreLife, events, Stopping
<1> QED BY <1>5, <1>6 DEF LifeInv, Certain

LEMMA LifeRunnerForgotten ==
  ASSUME TypeOK, LineInv, LifeInv, RunnerForgotten
  PROVE  LifeInv'
<1>1. UNCHANGED <<docker, job, pending, handled, events>>
  BY EventsKept DEF RunnerForgotten, githubVars, loopVars
<1>2. /\ pc = "forget" /\ pc' = "dispatch" /\ call.name \in RunnerNames
  BY DEF RunnerForgotten, TypeOK, CallPC
<1>3. PICK n \in RunnerNames : n = call.name
  BY <1>2
<1>4. /\ runners'[n].status = "absent"
      /\ \A m \in RunnerNames : m # n => runners'[m] = runners[m]
  BY <1>3 DEF RunnerForgotten, Remove, Absent, TypeOK
<1>5. Unique' /\ InOrder' /\ RunnerInv' /\ JobInv'
  BY <1>1 DEF LifeInv, Unique, InOrder, RunnerInv, JobInv, JobKnown, Told, events
<1>6. ASSUME Certain PROVE EventsNamed' /\ StoreLife'
  <2>1. EventsNamed'
    BY <1>1, <1>6 DEF LifeInv, EventsNamed, events
  <2> QED BY <1>1, <1>2, <1>3, <1>4, <1>6, <2>1 DEF LifeInv, StoreLife, events, Stopping
<1> QED BY <1>5, <1>6 DEF LifeInv, Certain

(* Fewer events are still unique and in order. *)
LEMMA FewerEvents ==
  ASSUME Unique, InOrder,
         \A j \in Jobs : AssignedAt'[j] \subseteq AssignedAt[j],
         \A j \in Jobs, n \in RunnerNames : StartedAt'[j][n] \subseteq StartedAt[j][n],
         \A j \in Jobs, n \in RunnerNames \cup {NoRunner} : CompletedAt'[j][n] \subseteq CompletedAt[j][n]
  PROVE  Unique' /\ InOrder'
  BY DEF Unique, InOrder

(* The handlers of the three events take the last one of its kind.         *)
LEMMA LifeHandleJobAssigned ==
  ASSUME TypeOK, LineInv, LifeInv, NEW j \in Jobs, HandleJobAssigned(j)
  PROVE  LifeInv'
<1>1. /\ UNCHANGED <<docker, job, runners>> /\ pc = "dispatch" /\ pc' = "jit"
      /\ pending' = pending \cup {j} /\ handled' = handled \cup {j}
      /\ j \in msg.events.assigned
  BY DEF HandleJobAssigned, ProvisionRunner, githubVars
<1>2. JobLoses(AssignedAt', AssignedAt, j, msg.id) /\ UNCHANGED <<StartedAt, CompletedAt>>
  BY <1>1, EventHandled DEF HandleJobAssigned, githubVars
<1>3. msg.id \in AssignedAt[j]
  BY <1>1, FirstInLine
<1>4. AssignedAt'[j] = {} /\ \A k \in Jobs : k # j => AssignedAt'[k] = AssignedAt[k]
  BY <1>2, <1>3 DEF JobLoses, LifeInv, Unique
<1>5. Unique' /\ InOrder'
  BY <1>2, <1>4, FewerEvents DEF LifeInv
<1>6. RunnerInv'
  BY <1>1, <1>2 DEF LifeInv, RunnerInv
<1>7. JobInv'
  <2>1. ASSUME NEW k \in Jobs PROVE Told(k)' = Told(k)
    BY <1>2 DEF Told
  <2>2. JobKnown(j)'
    BY <1>1, <1>2, <1>3, <1>4, <2>1 DEF JobKnown, LifeInv, JobInv
  <2>3. ASSUME NEW k \in Jobs, k # j PROVE JobKnown(k)'
    BY <1>1, <1>2, <1>4, <2>1, <2>3 DEF JobKnown, LifeInv, JobInv
  <2> QED BY <2>2, <2>3 DEF JobInv
<1>8. ASSUME Certain PROVE EventsNamed' /\ StoreLife'
  BY <1>1, <1>2, <1>8 DEF LifeInv, EventsNamed, StoreLife, Stopping
<1> QED BY <1>5, <1>6, <1>7, <1>8 DEF LifeInv, Certain

LEMMA LifeHandleJobStarted ==
  ASSUME TypeOK, LineInv, LifeInv, NEW j \in Jobs, NEW n \in RunnerNames, HandleJobStarted(j, n)
  PROVE  LifeInv'
<1>1. /\ UNCHANGED <<docker, job, handled, call>> /\ pc = "dispatch" /\ pc' = "dispatch"
      /\ pending' = pending \ {j} /\ runners' = MarkBusy(runners, n, j)
      /\ msg.events.assigned = {} /\ <<j, n>> \in msg.events.started
  BY DEF HandleJobStarted, githubVars
<1>2. RunLoses(StartedAt', StartedAt, RunnerNames, j, n, msg.id) /\ UNCHANGED <<AssignedAt, CompletedAt>>
  BY <1>1, EventHandled DEF HandleJobStarted, githubVars
<1>3. msg.id \in StartedAt[j][n]
  BY <1>1, FirstInLine
<1>4. /\ StartedAt'[j][n] = {}
      /\ \A k \in Jobs, m \in RunnerNames : k # j \/ m # n => StartedAt'[k][m] = StartedAt[k][m]
  BY <1>2, <1>3 DEF RunLoses, LifeInv, Unique
<1>5. AssignedAt[j] = {}
  <2>1. \A a \in AssignedAt[j] : a <= msg.id /\ msg.id <= a /\ a \in Nat /\ msg.id \in Nat
    BY <1>1, <1>3, FirstInLine, EventIDs DEF LifeInv, InOrder, TypeOK, Message
  <2>2. msg.id \notin AssignedAt[j]
    BY <1>1, FirstInLine
  <2> QED BY <2>1, <2>2
<1>6. job[j] \notin {"queued", "assigned"}
  BY <1>3 DEF LifeInv, JobInv, JobKnown
<1>7. Unique' /\ InOrder'
  BY <1>2, <1>4, FewerEvents DEF LifeInv
<1>8. RunnerInv'
  BY <1>1 DEF LifeInv, RunnerInv
<1>9. JobInv'
  <2>1. JobKnown(j)'
    BY <1>1, <1>2, <1>5, <1>6 DEF JobKnown, LifeInv, JobInv
  <2>2. ASSUME NEW k \in Jobs, k # j PROVE JobKnown(k)'
    <3>1. Told(k)' = Told(k)
      BY <1>2, <1>4, <2>2 DEF Told
    <3> QED BY <1>1, <1>2, <1>4, <2>2, <3>1 DEF JobKnown, LifeInv, JobInv
  <2> QED BY <2>1, <2>2 DEF JobInv
<1>10. ASSUME Certain PROVE EventsNamed' /\ StoreLife'
  <2>0. /\ docker[n].job = j /\ j # NoJob
        /\ \A k \in Jobs : StartedAt'[k][n] = {}
    BY <1>3, <1>4, <1>10, ScalerAssumption DEF LifeInv, EventsNamed
  <2>1. /\ \A m \in RunnerNames : m # n => runners'[m] = runners[m]
        /\ runners'[n].status \in {"absent", "busy"}
        /\ runners'[n].status = "busy" => runners'[n].started = j
    <3>1. runners[n] \in RunnerInfo
      BY DEF TypeOK
    <3> QED BY <1>1, <3>1 DEF MarkBusy, Tracked, RunnerInfo, TypeOK
  <2>2. ASSUME NEW m \in RunnerNames, m # n
        PROVE  /\ \A k \in Jobs : StartedAt'[k][m] = StartedAt[k][m]
               /\ docker[m].job = NoJob \/ docker[m].job \in Jobs
    BY <1>4, <2>2 DEF TypeOK, Container
  <2>3. \A m \in RunnerNames :
          /\ runners'[m].status = "idle" =>
               docker[m].job = NoJob \/ StartedAt'[docker[m].job][m] # {}
          /\ runners'[m].status = "busy" =>
               /\ docker[m].job # NoJob /\ runners'[m].started = docker[m].job
               /\ \A k \in Jobs : StartedAt'[k][m] = {}
          /\ runners'[m].status # "completed"
    BY <1>1, <1>10, <2>0, <2>1, <2>2 DEF LifeInv, StoreLife, Stopping
  <2>4. EventsNamed'
    BY <1>1, <1>2, <1>4, <1>10 DEF LifeInv, EventsNamed
  <2> QED BY <1>1, <2>3, <2>4 DEF StoreLife, Stopping
<1> QED BY <1>7, <1>8, <1>9, <1>10 DEF LifeInv, Certain

LEMMA LifeHandleJobCompleted ==
  ASSUME TypeOK, LineInv, StoreInv, LifeInv, NEW j \in Jobs, NEW n \in RunnerNames \cup {NoRunner},
         HandleJobCompleted(j, n)
  PROVE  /\ LifeInv'
         /\ Certain /\ n \in RunnerNames /\ Tracked(runners, n) => runners[n].status = "busy"
<1>1. /\ UNCHANGED <<docker, job, handled>> /\ pc = "dispatch" /\ pending' = pending \ {j}
      /\ msg.events.assigned = {} /\ msg.events.started = {} /\ <<j, n>> \in msg.events.completed
  BY DEF HandleJobCompleted, githubVars
<1>2. /\ RunLoses(CompletedAt', CompletedAt, RunnerNames \cup {NoRunner}, j, n, msg.id)
      /\ UNCHANGED <<AssignedAt, StartedAt>>
  BY <1>1, EventHandled DEF HandleJobCompleted, githubVars
<1>3. msg.id \in CompletedAt[j][n]
  BY <1>1, FirstInLine
<1>4. /\ n \in RunnerNames => CompletedAt'[j][n] = {}
      /\ CompletedAt'[j][n] \subseteq CompletedAt[j][n]
      /\ \A k \in Jobs, m \in RunnerNames \cup {NoRunner} :
           k # j \/ m # n => CompletedAt'[k][m] = CompletedAt[k][m]
  <2>1. /\ CompletedAt'[j][n] = CompletedAt[j][n] \ {msg.id}
        /\ \A k \in Jobs, m \in RunnerNames \cup {NoRunner} :
             k # j \/ m # n => CompletedAt'[k][m] = CompletedAt[k][m]
    BY <1>2 DEF RunLoses
  <2>2. n \in RunnerNames => \A c \in CompletedAt[j][n] : c = msg.id
    BY <1>3 DEF LifeInv, Unique
  <2> QED BY <2>1, <2>2
<1>5. AssignedAt[j] = {} /\ (n \in RunnerNames => StartedAt[j][n] = {})
  <2>1. \A a \in AssignedAt[j] : a <= msg.id /\ msg.id <= a /\ a \in Nat /\ msg.id \in Nat
    BY <1>1, <1>3, FirstInLine, EventIDs DEF LifeInv, InOrder, TypeOK, Message
  <2>2. ASSUME n \in RunnerNames
        PROVE  \A s \in StartedAt[j][n] : s <= msg.id /\ msg.id <= s /\ s \in Nat /\ msg.id \in Nat
    BY <1>1, <1>3, <2>2, FirstInLine, EventIDs DEF LifeInv, InOrder, TypeOK, Message
  <2>3. msg.id \notin AssignedAt[j] /\ (n \in RunnerNames => msg.id \notin StartedAt[j][n])
    BY <1>1, FirstInLine
  <2> QED BY <2>1, <2>2, <2>3
<1>6. job[j] \notin {"queued", "assigned"} /\ j # NoJob
  <2>1. job[j] = "done"
    BY <1>3 DEF LifeInv, JobInv, JobKnown
  <2> QED BY <2>1, ScalerAssumption
<1>7. ASSUME Certain, n \in RunnerNames
      PROVE  /\ docker[n].job = j /\ docker[n].state \in {"grace", "exited"}
             /\ \A k \in Jobs : StartedAt'[k][n] = {} /\ CompletedAt'[k][n] = {}
  BY <1>2, <1>3, <1>4, <1>5, <1>7 DEF LifeInv, EventsNamed
<1>8. Unique' /\ InOrder'
  BY <1>2, <1>4, FewerEvents DEF LifeInv
<1>9. RunnerInv'
  BY <1>1 DEF LifeInv, RunnerInv
<1>10. JobInv'
  <2>1. JobKnown(j)'
    BY <1>1, <1>2, <1>4, <1>5, <1>6 DEF JobKnown, LifeInv, JobInv
  <2>2. ASSUME NEW k \in Jobs, k # j PROVE JobKnown(k)'
    <3>1. Told(k)' = Told(k)
      BY <1>2, <1>4, <2>2 DEF Told
    <3> QED BY <1>1, <1>2, <1>4, <2>2, <3>1 DEF JobKnown, LifeInv, JobInv
  <2> QED BY <2>1, <2>2 DEF JobInv
<1>13. Certain => EventsNamed'
  BY <1>1, <1>2, <1>4 DEF LifeInv, EventsNamed
<1>11. CASE Certain /\ n \in RunnerNames /\ Tracked(runners, n)
  <2>1. runners[n].status = "busy" /\ runners[n].started = docker[n].job
    BY <1>1, <1>5, <1>6, <1>7, <1>11
    DEF LifeInv, StoreLife, Tracked, Stopping, TypeOK, RunnerInfo, RunnerStatus
  <2>2. /\ runners' = MarkCompleted(runners, n) /\ call'.name = n
        /\ pc' \in {"collectCPU", "stop"}
    BY <1>11 DEF HandleJobCompleted, NoCall
  <2>3. /\ runners'[n].status = "completed" /\ runners'[n].started = runners[n].started
        /\ \A m \in RunnerNames : m # n => runners'[m] = runners[m]
    <3>1. runners[n] \in RunnerInfo
      BY <1>11 DEF TypeOK
    <3> QED BY <1>11, <2>1, <2>2, <3>1 DEF MarkCompleted, RunnerInfo, TypeOK
  <2>4. StoreLife'
    BY <1>1, <1>2, <1>6, <1>7, <1>11, <2>1, <2>2, <2>3 DEF LifeInv, StoreLife, Stopping
  <2> QED BY <1>8, <1>9, <1>10, <1>11, <1>13, <2>1, <2>4 DEF LifeInv
<1>12. CASE Certain /\ ~(n \in RunnerNames /\ Tracked(runners, n))
  <2>1. UNCHANGED <<runners, call, pc>>
    BY <1>12 DEF HandleJobCompleted
  <2>2. StoreLife'
    BY <1>1, <1>2, <1>12, <2>1 DEF LifeInv, StoreLife, Stopping
  <2> QED BY <1>8, <1>9, <1>10, <1>12, <1>13, <2>2 DEF LifeInv
<1>14. CASE ~Certain
  BY <1>8, <1>9, <1>10, <1>14 DEF LifeInv, Certain
<1> QED BY <1>11, <1>12, <1>14

LEMMA LifeScaler ==
  ASSUME TypeOK, LineInv, StoreInv, LifeInv, ScalerStep
  PROVE  LifeInv'
<1>1. CASE RunReturns \/ Poll \/ GetMessageNothing \/ GenerateJitRunnerConfig \/ ReconcileRunner
             \/ ReconcileDone
  <2>1. UNCHANGED <<docker, job, runners, pending, handled, events>>
    BY <1>1, EventsKept DEF RunReturns, Poll, GetMessageNothing, GenerateJitRunnerConfig,
       ReconcileRunner, ReconcileDone, githubVars, loopVars
  <2>2. pc \notin Stopping /\ pc' \notin Stopping \cup {"start", "discard", "inspect", "add"}
    BY <1>1 DEF RunReturns, Poll, GetMessageNothing, GenerateJitRunnerConfig,
       ReconcileRunner, ReconcileDone, ProvisionRunner, TypeOK, Call, Stopping
  <2> QED BY <2>1, <2>2, LifeMoves
<1>2. CASE GetMessage \/ DeleteMessage \/ Reconcile
  <2>1. UNCHANGED <<docker, job, runners, pending, handled, events>>
    BY <1>2, EventsKept DEF GetMessage, DeleteMessage, Reconcile, githubVars, loopVars
  <2>2. pc \notin Stopping /\ pc' \notin Stopping \cup {"start", "discard", "inspect", "add"}
    BY <1>2 DEF GetMessage, DeleteMessage, Reconcile, Stopping
  <2> QED BY <2>1, <2>2, LifeMoves
<1>3. CASE Collect \/ Record
  <2>1. UNCHANGED <<docker, job, runners, pending, handled, events>>
    BY <1>3, EventsKept DEF Collect, Record, githubVars, loopVars
  <2>2. pc \in Stopping /\ pc' \in Stopping /\ call' = call /\ pc # "forget"
    BY <1>3 DEF Collect, Record, Stopping
  <2> QED BY <2>1, <2>2, LifeMoves
<1>4. CASE \E j \in Jobs : \/ HandleJobAssigned(j)
                           \/ \E n \in RunnerNames : HandleJobStarted(j, n)
                           \/ \E n \in RunnerNames \cup {NoRunner} : HandleJobCompleted(j, n)
  BY <1>4, LifeHandleJobAssigned, LifeHandleJobStarted, LifeHandleJobCompleted
<1>5. CASE StartRunner \/ StopRunner
  BY <1>5, LifeCalls, LifeStartRunner, LifeStopRunner DEF LifeInv, Certain
<1> QED
  BY <1>1, <1>2, <1>3, <1>4, <1>5, LifeRunnerProvisioned, LifeRunnerForgotten DEF ScalerStep
-----------------------------------------------------------------------------
(* All of it is invariant. *)
Invariant == TypeOK /\ StoreInv /\ LineInv /\ LifeInv

LEMMA InvariantHolds == Spec => []Invariant
<1>1. Init => Invariant
  BY TypeInit, StoreInit, LineInit, LifeInit DEF Invariant
<1>2. Invariant /\ [Next]_vars => Invariant'
  <2>1. ASSUME Invariant, UNCHANGED vars PROVE Invariant'
    <3>1. UNCHANGED <<docker, job, inbox, outbox, nextID, runners, msg, pending, handled, pc, call,
                      lastMessageID, ctx, rec, usage, records, capacity>>
      BY <2>1 DEF vars, scalerVars, loopVars, metricVars, githubVars
    <3>2. TypeOK' /\ StoreInv' /\ LineInv'
      BY <2>1, <3>1 DEF Invariant, TypeOK, StoreInv, StoreMatchesDocker, Tracked, Exists, LineInv,
         Undelivered, Caller
    <3> QED BY <2>1, <3>1, <3>2, EventsKept, LifeFrame DEF Invariant, Live
  <2>2. ASSUME Invariant, CancelContext PROVE Invariant'
    <3>1. /\ UNCHANGED <<docker, job, inbox, outbox, nextID, runners, msg, pending, handled, pc,
                         call, lastMessageID, rec, usage, records, capacity>>
          /\ ctx' = "cancelled"
      BY <2>2 DEF CancelContext, scalerVars, loopVars, metricVars, githubVars
    <3>2. TypeOK' /\ StoreInv' /\ LineInv'
      BY <2>2, <3>1 DEF Invariant, TypeOK, StoreInv, StoreMatchesDocker, Tracked, Exists, LineInv,
         Undelivered, Caller
    <3> QED BY <2>2, <3>1, <3>2, EventsKept, LifeFrame DEF Invariant, Live
  <2>3. ASSUME Invariant, Environment PROVE Invariant'
    BY <2>3, TypeEnvironment, StoreEnvironment, LineEnvironment, LifeEnvironment DEF Invariant
  <2>4. ASSUME Invariant, ScalerStep PROVE Invariant'
    BY <2>4, TypeScaler, StoreScaler, StoreProvisioner, LineScaler, LifeScaler DEF Invariant, ScalerStep
  <2> QED BY <2>1, <2>2, <2>3, <2>4 DEF Next
<1> QED BY <1>1, <1>2, PTL DEF Spec

(* pendingJobs is accurate: what reconcileRunnerCount takes its profiles   *)
(* from holds every handled job that waits, and a job that does not wait   *)
(* only while the event that says so is on its way.                        *)
THEOREM PendingCorrect == Spec => []PendingAccurate
<1>1. Invariant => PendingAccurate
  <2> SUFFICES ASSUME Invariant, NEW j \in Jobs
               PROVE  /\ j \in handled /\ job[j] = "assigned" => j \in pending
                      /\ j \in pending =>
                           \/ job[j] = "assigned"
                           \/ \E n \in RunnerNames : OnTheWay(<<j, n>>, "started")
                           \/ \E n \in RunnerNames \cup {NoRunner} : OnTheWay(<<j, n>>, "completed")
    BY DEF PendingAccurate
  <2>1. ASSUME NEW n \in RunnerNames, StartedAt[j][n] # {} PROVE OnTheWay(<<j, n>>, "started")
    <3>1. \E m \in Line : <<j, n>> \in m.events.started
      BY <2>1 DEF StartedAt, StartedIn
    <3> QED BY <3>1 DEF Line, Draft, OnTheWay
  <2>2. ASSUME NEW n \in RunnerNames \cup {NoRunner}, CompletedAt[j][n] # {}
        PROVE  OnTheWay(<<j, n>>, "completed")
    <3>1. \E m \in Line : <<j, n>> \in m.events.completed
      BY <2>2 DEF CompletedAt, CompletedIn
    <3> QED BY <3>1 DEF Line, Draft, OnTheWay
  <2> QED BY <2>1, <2>2 DEF Invariant, LifeInv, JobInv, JobKnown, Told
<1> QED BY <1>1, InvariantHolds, PTL

(* The scaler never stops or removes a container that executes a job,      *)
(* whatever the order of the events and whatever failed, unless a start    *)
(* that failed had started the container: then the clean-up removes it     *)
(* under the job it was given, and a completion of that job that comes     *)
(* late stops the next runner of that name.                                *)
THEOREM NeverKills ==
  ASSUME Certain
  PROVE  Spec => NeverKillsRunningJob
<1>1. ASSUME Invariant, ScalerStep, NEW n \in RunnerNames, docker[n].state = "busy"
      PROVE  docker'[n] = docker[n]
  <2>1. docker \in [RunnerNames -> Container] /\ call.name \in RunnerNames \cup {NoRunner}
    BY <1>1 DEF Invariant, TypeOK, Call
  <2>2. CASE StartRunner
    <3>1. PICK l \in RunnerNames : l = call.name
      BY <1>1, <2>2 DEF StartRunner, ContainerCreate, ContainerCreateFails, ContainerStart,
         ContainerStartFails, ContainerDiscard, ContainerInspect, ContainerInspectFails, TypeOK,
         CallPC, Invariant
    <3>2. docker' = docker \/ docker[l].state \in {"none", "created"}
      BY <1>1, <2>1, <2>2, <3>1, DockerEffects
      DEF StartRunner, ContainerCreate, ContainerCreateFails, ContainerStart, ContainerStartFails,
          ContainerDiscard, ContainerInspect, ContainerInspectFails, Invariant, LifeInv, StoreLife
    <3>3. \A m \in RunnerNames : m # l => docker'[m] = docker[m]
      BY <2>1, <2>2, <3>1, DockerEffects
      DEF StartRunner, ContainerCreate, ContainerCreateFails, ContainerStart, ContainerStartFails,
          ContainerDiscard, ContainerInspect, ContainerInspectFails
    <3> QED BY <1>1, <3>2, <3>3
  <2>3. CASE StopRunner
    <3>1. pc \in Stopping /\ call.name \in RunnerNames
      BY <1>1, <2>3 DEF StopRunner, ContainerStop, ContainerRemove, Stopping, TypeOK, CallPC, Invariant
    <3>2. PICK l \in RunnerNames : l = call.name
      BY <3>1
    <3>3. docker[l].state # "busy"
      BY <1>1, <3>1, <3>2 DEF Invariant, LifeInv, StoreLife
    <3>4. \A m \in RunnerNames : m # l => docker'[m] = docker[m]
      BY <2>1, <2>3, <3>2, DockerEffects DEF StopRunner, ContainerStop, ContainerRemove
    <3> QED BY <1>1, <3>3, <3>4
  <2>4. CASE ~StartRunner /\ ~StopRunner
    <3>1. UNCHANGED docker
      BY <1>1, <2>4 DEF ScalerStep, RunReturns, Poll, GetMessage, GetMessageNothing, DeleteMessage,
         GenerateJitRunnerConfig, RunnerProvisioned, HandleJobAssigned, HandleJobStarted,
         HandleJobCompleted, Collect, Record, RunnerForgotten, Reconcile, ReconcileRunner,
         ReconcileDone
    <3> QED BY <3>1
  <2> QED BY <2>2, <2>3, <2>4
<1>2. Invariant /\ [Next]_vars =>
        [ScalerStep => \A n \in RunnerNames : docker[n].state = "busy" => docker'[n] = docker[n]]_vars
  BY <1>1
<1> QED BY <1>2, InvariantHolds, PTL DEF Spec, NeverKillsRunningJob

(* Every row of the database is about a job that ran, and its duration     *)
(* counts from the JobStarted of that job: the JobStarted of a runner is   *)
(* handled before its JobCompleted is, unless a start that failed had      *)
(* started the container.                                                  *)
THEOREM RecordsCorrect ==
  ASSUME Certain
  PROVE  Spec => []RecordsTimed
<1>1. Init => RecordsTimed
  BY DEF Init, RecordsTimed
<1>2. Invariant /\ RecordsTimed /\ [Next]_vars => RecordsTimed'
  <2> SUFFICES ASSUME Invariant, RecordsTimed, [Next]_vars PROVE RecordsTimed'
    OBVIOUS
  <2>1. CASE Record
    <3>1. /\ pc = "record" /\ call.name \in RunnerNames /\ pc \in Stopping
      BY <2>1 DEF Record, Invariant, TypeOK, CallPC, Stopping
    <3>2. docker[call.name].job # NoJob /\ runners[call.name].started = docker[call.name].job
      BY <3>1 DEF Invariant, LifeInv, StoreLife, StoreInv
    <3>3. \A r \in records' : \/ r \in records
                              \/ r.ran = docker[call.name].job /\ r.timed = runners[call.name].started
      BY <2>1 DEF Record
    <3> QED BY <3>2, <3>3 DEF RecordsTimed
  <2>2. CASE ~Record
    <3>1. UNCHANGED records
      <4>1. CASE ScalerStep
        BY <2>2, <4>1 DEF ScalerStep, metricVars, RunReturns, Poll, GetMessage, GetMessageNothing,
           DeleteMessage, GenerateJitRunnerConfig, StartRunner, RunnerProvisioned,
           HandleJobAssigned, HandleJobStarted, HandleJobCompleted, Collect, StopRunner,
           RunnerForgotten, Reconcile, ReconcileRunner, ReconcileDone
      <4> QED BY <4>1 DEF Next, Environment, CancelContext, vars, scalerVars, metricVars
    <3> QED BY <3>1 DEF RecordsTimed
  <2> QED BY <2>1, <2>2
<1> QED BY <1>1, <1>2, InvariantHolds, PTL DEF Spec

(* A step of the store is a step of the life of one runner, or none. *)
LEMMA StoreMoves ==
  ASSUME Certain, Invariant, [Next]_vars
  PROVE  \/ \A n \in RunnerNames : runners'[n].status = runners[n].status
         \/ \E n \in RunnerNames :
              /\ <<runners[n].status, runners'[n].status>> \in Abstract!Moves
              /\ \A m \in RunnerNames : m # n => runners'[m].status = runners[m].status
<1>1. TypeOK /\ StoreInv /\ LineInv /\ LifeInv /\ runners \in [RunnerNames -> RunnerInfo]
  BY DEF Invariant, TypeOK
<1>2. CASE RunnerProvisioned
  <2>1. call.name \in RunnerNames /\ runners[call.name].status = "absent"
    BY <1>1, <1>2 DEF RunnerProvisioned, TypeOK, CallPC, StoreInv, Provisioning, Tracked
  <2>2. /\ runners'[call.name].status = "idle"
        /\ \A m \in RunnerNames : m # call.name => runners'[m] = runners[m]
    BY <1>1, <1>2, <2>1 DEF RunnerProvisioned, AddRunner
  <2> QED BY <2>1, <2>2 DEF Abstract!Moves
<1>3. CASE RunnerForgotten
  <2>1. call.name \in RunnerNames /\ runners[call.name].status = "completed"
    BY <1>1, <1>3 DEF RunnerForgotten, TypeOK, CallPC, StoreInv, Stopping
  <2>2. /\ runners'[call.name].status = "absent"
        /\ \A m \in RunnerNames : m # call.name => runners'[m] = runners[m]
    BY <1>1, <1>3, <2>1 DEF RunnerForgotten, Remove, Absent
  <2> QED BY <2>1, <2>2 DEF Abstract!Moves
<1>4. ASSUME NEW j \in Jobs, NEW n \in RunnerNames, HandleJobStarted(j, n)
      PROVE  \/ \A m \in RunnerNames : runners'[m].status = runners[m].status
             \/ /\ <<runners[n].status, runners'[n].status>> \in Abstract!Moves
                /\ \A m \in RunnerNames : m # n => runners'[m].status = runners[m].status
  <2>1. /\ runners' = MarkBusy(runners, n, j) /\ runners[n] \in RunnerInfo
        /\ runners[n].status # "completed"
    BY <1>1, <1>4 DEF HandleJobStarted, LifeInv, StoreLife, Stopping
  <2>2. /\ \A m \in RunnerNames : m # n => runners'[m] = runners[m]
        /\ runners'[n].status = IF runners[n].status = "absent" THEN "absent" ELSE "busy"
    BY <1>1, <2>1 DEF MarkBusy, Tracked, RunnerInfo
  <2> QED BY <2>1, <2>2 DEF Abstract!Moves, RunnerInfo, RunnerStatus
<1>5. ASSUME NEW j \in Jobs, NEW n \in RunnerNames \cup {NoRunner}, HandleJobCompleted(j, n)
      PROVE  \/ runners' = runners
             \/ /\ n \in RunnerNames
                /\ <<runners[n].status, runners'[n].status>> \in Abstract!Moves
                /\ \A m \in RunnerNames : m # n => runners'[m].status = runners[m].status
  <2>1. CASE n \in RunnerNames /\ Tracked(runners, n)
    <3>1. runners' = MarkCompleted(runners, n) /\ runners[n] \in RunnerInfo
      BY <1>1, <1>5, <2>1 DEF HandleJobCompleted
    <3>2. runners[n].status = "busy"
      BY <1>1, <1>5, <2>1, LifeHandleJobCompleted
    <3>3. /\ \A m \in RunnerNames : m # n => runners'[m] = runners[m]
          /\ runners'[n].status = "completed"
      BY <1>1, <2>1, <3>1 DEF MarkCompleted, RunnerInfo
    <3> QED BY <2>1, <3>2, <3>3 DEF Abstract!Moves
  <2>2. CASE ~(n \in RunnerNames /\ Tracked(runners, n))
    BY <1>5, <2>2 DEF HandleJobCompleted
  <2> QED BY <2>1, <2>2
<1>6. CASE UNCHANGED runners
  BY <1>6
<1>7. CASE ScalerStep /\ ~RunnerProvisioned /\ ~RunnerForgotten
  <2>1. \/ UNCHANGED runners
        \/ \E j \in Jobs, n \in RunnerNames : HandleJobStarted(j, n)
        \/ \E j \in Jobs, n \in RunnerNames \cup {NoRunner} : HandleJobCompleted(j, n)
    BY <1>7 DEF ScalerStep, RunReturns, Poll, GetMessage, GetMessageNothing, DeleteMessage,
       GenerateJitRunnerConfig, StartRunner, HandleJobAssigned, Collect, Record, StopRunner,
       Reconcile, ReconcileRunner, ReconcileDone
  <2> QED BY <1>4, <1>5, <1>6, <2>1
<1>8. CASE Environment \/ CancelContext \/ UNCHANGED vars
  BY <1>6, <1>8 DEF Environment, CancelContext, vars, scalerVars
<1> QED BY <1>2, <1>3, <1>7, <1>8 DEF Next

(* The scaler implements the life of a runner that module RunnerLifecycle  *)
(* states: no step of it is skipped, repeated or undone, unless a start    *)
(* that failed had started the container.                                  *)
THEOREM ImplementsLifecycle ==
  ASSUME Certain
  PROVE  Spec => FollowsLifecycle
<1>1. Init => Abstract!LifecycleInit
  BY DEF Init, NewStore, Absent, Abstract!LifecycleInit
<1> DEFINE status == [n \in RunnerNames |-> runners[n].status]
<1>2. Invariant /\ [Next]_vars => [Abstract!LifecycleNext]_status
  <2> SUFFICES ASSUME Invariant, [Next]_vars
               PROVE  Abstract!LifecycleNext \/ status' = status
    OBVIOUS
  <2>1. CASE \A n \in RunnerNames : runners'[n].status = runners[n].status
    BY <2>1
  <2>2. ASSUME NEW n \in RunnerNames,
               <<runners[n].status, runners'[n].status>> \in Abstract!Moves,
               \A m \in RunnerNames : m # n => runners'[m].status = runners[m].status
        PROVE  Abstract!LifecycleNext
    <3> DEFINE move == <<runners[n].status, runners'[n].status>>
    <3>1. status[n] = move[1] /\ status' = [status EXCEPT ![n] = move[2]]
      BY <2>2
    <3> QED BY <2>2, <3>1 DEF Abstract!LifecycleNext
  <2> QED BY <2>1, <2>2, StoreMoves
<1> QED BY <1>1, <1>2, InvariantHolds, PTL DEF Spec, FollowsLifecycle, Abstract!Lifecycle

(* A message of the line is known by its id. *)
LEMMA LineUnique ==
  ASSUME TypeOK, LineInv, NEW m1 \in Line, NEW m2 \in Line, m1.id = m2.id
  PROVE  m1 = m2
<1>1. /\ nextID \in Nat /\ lastMessageID \in Nat /\ msg.id \in Nat
      /\ \A m \in inbox : m.id \in Nat
  BY DEF TypeOK, Message
<1>2. \A m \in Line : \/ m = Draft
                      \/ m = msg /\ msg.id <= lastMessageID
                      \/ m \in inbox /\ m.id > lastMessageID
  BY DEF Line, LineInv, Undelivered
<1>3. Draft.id = nextID
  BY DEF Draft
<1> QED BY <1>1, <1>2, <1>3 DEF LineInv

(* No assignment is lost and none is handled twice, whatever polls and     *)
(* acknowledgements fail.                                                  *)
THEOREM HandledCorrect == Spec => []HandledExactlyOnce
<1>1. Invariant => HandledExactlyOnce
  <2> SUFFICES ASSUME Invariant, NEW j \in Jobs
               PROVE  AssignmentCopies(j) = IF job[j] = "queued" THEN 0 ELSE 1
    BY DEF HandledExactlyOnce
  <2>1. TypeOK /\ LineInv /\ LifeInv
    BY DEF Invariant
  <2> DEFINE H == {m \in Line : j \in m.events.assigned}
             U == {m \in Undelivered : j \in m.events.assigned}
             out == j \in outbox.assigned
             held == pc # "ack" /\ j \in msg.events.assigned
  <2>2. /\ U = H \cap Undelivered
        /\ out <=> Draft \in H
        /\ held <=> pc # "ack" /\ msg \in H
    BY DEF Line, Draft
  <2>3. AssignedAt[j] = {m.id : m \in H}
    BY DEF AssignedAt, AssignedIn
  <2>4. Draft \notin Undelivered /\ Draft # msg /\ (pc # "ack" => msg \notin Undelivered)
    BY <2>1 DEF LineInv, Draft, Undelivered, TypeOK, Message
  <2>5. AssignmentCopies(j) = (IF out THEN 1 ELSE 0) + Cardinality(U) + (IF held THEN 1 ELSE 0)
                                + (IF j \in handled THEN 1 ELSE 0)
    BY DEF AssignmentCopies
  <2>6. CASE H = {}
    <3>1. Cardinality(U) = 0 /\ ~out /\ ~held
      BY <2>2, <2>6, FS_EmptySet
    <3>2. j \in handled <=> job[j] # "queued"
      BY <2>1, <2>3, <2>6 DEF LifeInv, JobInv, JobKnown
    <3> QED BY <2>5, <3>1, <3>2
  <2>7. CASE H # {}
    <3>1. PICK m : m \in H
      BY <2>7
    <3>2. j \notin handled /\ job[j] # "queued"
      BY <2>1, <2>3, <3>1 DEF LifeInv, JobInv, JobKnown
    <3>3. H = {m}
      <4>1. \A x \in H : x.id = m.id
        BY <2>1, <2>3, <3>1 DEF LifeInv, Unique
      <4> QED BY <2>1, <3>1, <4>1, LineUnique
    <3>4. m = Draft \/ m \in Undelivered \/ (m = msg /\ m \notin Undelivered /\ pc # "ack")
      BY <2>1, <3>1 DEF Line, LineInv
    <3> HIDE DEF H, U, out, held
    <3>5. CASE m = Draft
      <4>1. out /\ ~held /\ U = {}
        BY <2>2, <2>4, <3>3, <3>5
      <4> QED BY <2>5, <3>2, <4>1, FS_EmptySet
    <3>6. CASE m \in Undelivered
      <4>1. ~out /\ ~held /\ U = {m}
        BY <2>2, <2>4, <3>3, <3>6
      <4>2. Cardinality(U) = 1
        BY <4>1, FS_Singleton
      <4> QED BY <2>5, <3>2, <4>1, <4>2
    <3>7. CASE m = msg /\ m \notin Undelivered /\ pc # "ack"
      <4>1. ~out /\ held /\ U = {}
        BY <2>2, <2>4, <3>3, <3>7
      <4> QED BY <2>5, <3>2, <4>1, FS_EmptySet
    <3> QED BY <3>4, <3>5, <3>6, <3>7
  <2> QED BY <2>6, <2>7
<1> QED BY <1>1, InvariantHolds, PTL
-----------------------------------------------------------------------------
(* When the calls to Docker that create and remove containers do what they *)
(* answer and Run is not told to stop, every container is removed after    *)
(* its job.  Polls, acknowledgements, JIT configurations, starts (also     *)
(* when only their answer is lost), stops and metrics may fail, jobs be    *)
(* cancelled and runners be killed.                                        *)
Dependable == Faults \cap {"create", "cleanup", "inspect", "remove", "shutdown"} = {}

(* Why no container is left behind: one that the store does not have is    *)
(* being provisioned, the one that is forgotten is gone, and a container   *)
(* that did its job is told of or is being stopped.                        *)
CleanUpInv ==
  /\ Live
  /\ \A n \in RunnerNames :
       /\ docker[n].state # "none" =>
            Tracked(runners, n) \/ (n = call.name /\ pc \in Provisioning)
       /\ docker[n].state \in {"grace", "exited"} /\ docker[n].job # NoJob =>
            CompletedAt[docker[n].job][n] # {} \/ (n = call.name /\ pc \in Stopping)
  /\ pc = "forget" => docker[call.name].state = "none"

LEMMA CleanUpInit == Init => CleanUpInv
  BY DEF Init, CleanUpInv, Live, DockerInit, NoContainer

(* Steps that change no container, no entry and no event. *)
LEMMA CleanUpFrame ==
  ASSUME CleanUpInv, UNCHANGED <<docker, runners, ctx, CompletedAt>>, pc' # "forget",
         \/ UNCHANGED <<pc, call>>
         \/ pc \notin Provisioning \cup Stopping
         \/ pc \in Stopping /\ pc' \in Stopping /\ call' = call
         \/ pc \in Provisioning /\ pc' \in Provisioning /\ call'.name = call.name
  PROVE  CleanUpInv'
  BY DEF CleanUpInv, Live, Provisioning, Stopping

LEMMA CleanUpEnvironment ==
  ASSUME Invariant, CleanUpInv, Environment
  PROVE  CleanUpInv'
<1>1. /\ UNCHANGED <<ctx, runners, msg, lastMessageID, pc, call>>
      /\ TypeOK /\ LineInv /\ LifeInv
  BY ScalerWaits DEF Environment, Invariant
<1>2. /\ docker \in [RunnerNames -> Container]
      /\ pc = "forget" => call.name \in RunnerNames
  BY <1>1 DEF TypeOK, CallPC
<1>3. CASE MakeMessage
  <2>1. UNCHANGED <<docker, CompletedAt>>
    BY <1>1, <1>3, EventsKept DEF MakeMessage, events
  <2> QED BY <1>1, <2>1 DEF CleanUpInv, Live
<1>4. ASSUME NEW j \in Jobs, AssignJob(j) PROVE CleanUpInv'
  <2>1. UNCHANGED <<docker, CompletedAt>>
    BY <1>1, <1>4, EventAdded DEF AssignJob
  <2> QED BY <1>1, <2>1 DEF CleanUpInv, Live
<1>5. ASSUME NEW j \in Jobs, CancelJob(j) PROVE CleanUpInv'
  <2>1. UNCHANGED docker
    BY <1>5 DEF CancelJob
  <2>2. RunGains(CompletedAt', CompletedAt, RunnerNames \cup {NoRunner}, j, NoRunner, nextID)
    BY <1>1, <1>5, EventAdded DEF CancelJob
  <2>3. \A k \in Jobs, n \in RunnerNames : CompletedAt'[k][n] = CompletedAt[k][n]
    BY <2>2, ScalerAssumption DEF RunGains
  <2> QED BY <1>1, <1>2, <2>1, <2>3 DEF CleanUpInv, Live, Container
<1>6. ASSUME NEW n \in RunnerNames, NEW j \in Jobs, RunnerTakesJob(n, j) PROVE CleanUpInv'
  <2>1. UNCHANGED CompletedAt
    BY <1>1, <1>6, EventAdded DEF RunnerTakesJob
  <2>2. /\ docker[n].state = "idle" /\ docker'[n].state = "busy"
        /\ \A m \in RunnerNames : m # n => docker'[m] = docker[m]
    BY <1>2, <1>6 DEF RunnerTakesJob, Container
  <2> QED BY <1>1, <1>2, <2>1, <2>2 DEF CleanUpInv, Live
<1>7. ASSUME NEW n \in RunnerNames, NEW state \in {"grace", "exited"}, NEW ip, JobEnds(n, state, ip)
      PROVE  CleanUpInv'
  <2>1. /\ docker[n].state = "busy" /\ docker'[n].state = state /\ docker'[n].job = docker[n].job
        /\ docker[n].job \in Jobs
        /\ \A m \in RunnerNames : m # n => docker'[m] = docker[m]
    BY <1>2, <1>7 DEF JobEnds, Container
  <2>2. RunGains(CompletedAt', CompletedAt, RunnerNames \cup {NoRunner}, docker[n].job, n, nextID)
    BY <1>1, <1>7, <2>1, EventAdded DEF JobEnds
  <2>3. /\ CompletedAt'[docker[n].job][n] # {}
        /\ \A k \in Jobs, m \in RunnerNames : m # n => CompletedAt'[k][m] = CompletedAt[k][m]
    BY <2>1, <2>2 DEF RunGains
  <2> QED BY <1>1, <1>2, <2>1, <2>3 DEF CleanUpInv, Live, Container
<1>8. ASSUME NEW n \in RunnerNames, GraceEnds(n) \/ RunnerQuits(n) PROVE CleanUpInv'
  <2>1. UNCHANGED CompletedAt
    BY <1>1, <1>8, EventsKept DEF GraceEnds, RunnerQuits, githubVars, events
  <2>2. docker[n] \in Container
    BY <1>2
  <2>3. /\ docker[n].state \in {"idle", "grace"} /\ docker'[n].state \in {"grace", "exited"}
        /\ docker'[n].job = docker[n].job
        /\ docker[n].state = "idle" => docker[n].job = NoJob
        /\ \A m \in RunnerNames : m # n => docker'[m] = docker[m]
    <3>1. CASE GraceEnds(n)
      BY <1>2, <2>2, <3>1 DEF GraceEnds, Container
    <3>2. CASE RunnerQuits(n)
      BY <1>1, <1>2, <2>2, <3>2 DEF RunnerQuits, Container, LifeInv, RunnerInv
    <3> QED BY <1>8, <3>1, <3>2
  <2> QED BY <1>1, <1>2, <2>1, <2>3 DEF CleanUpInv, Live
<1> QED
  BY <1>3, <1>4, <1>5, <1>6, <1>7, <1>8 DEF Environment, RunnerFinishesJob, RunnerKilled

(* A job that is ended by a stop or a removal is told of; nothing else is. *)
LEMMA CompletedKept ==
  ASSUME TypeOK, LineInv, LifeInv, NEW n \in RunnerNames, JobStopped(n),
         UNCHANGED <<inbox, nextID, msg, lastMessageID, pending, handled>>,
         \A m \in RunnerNames : m # n => docker'[m] = docker[m],
         \/ docker[n].state # "busy"
         \/ docker'[n].state \in {"grace", "exited"} /\ docker'[n].job = docker[n].job
         \/ docker'[n].state = "none" /\ docker'[n].job = NoJob
  PROVE  \A k \in Jobs, m \in RunnerNames : m # n => CompletedAt'[k][m] = CompletedAt[k][m]
<1>1. CASE docker[n].state = "busy"
  BY <1>1, LifeJobDone
<1>2. CASE docker[n].state # "busy"
  BY <1>2, EventsKept DEF JobStopped, events
<1> QED BY <1>1, <1>2

(* A call is only about the container of its name. *)
LEMMA CleanUpOthers ==
  ASSUME TypeOK, CleanUpInv, NEW n \in RunnerNames, UNCHANGED <<runners, ctx>>,
         \A m \in RunnerNames : m # n => docker'[m] = docker[m],
         \A k \in Jobs, m \in RunnerNames : m # n => CompletedAt'[k][m] = CompletedAt[k][m],
         n = call.name
  PROVE  /\ Live'
         /\ \A m \in RunnerNames : m # n =>
              /\ docker'[m].state # "none" => Tracked(runners', m)
              /\ docker'[m].state \in {"grace", "exited"} /\ docker'[m].job # NoJob =>
                   CompletedAt'[docker'[m].job][m] # {}
<1>1. Live'
  BY DEF CleanUpInv, Live
<1>2. ASSUME NEW m \in RunnerNames, m # n
      PROVE  /\ docker'[m].state # "none" => Tracked(runners', m)
             /\ docker'[m].state \in {"grace", "exited"} /\ docker'[m].job # NoJob =>
                  CompletedAt'[docker'[m].job][m] # {}
  <2>1. docker'[m] = docker[m] /\ runners' = runners
    BY <1>2
  <2>2. docker[m].job # NoJob => docker[m].job \in Jobs
    BY DEF TypeOK, Container
  <2>3. /\ docker[m].state # "none" => Tracked(runners, m)
        /\ docker[m].state \in {"grace", "exited"} /\ docker[m].job # NoJob =>
             CompletedAt[docker[m].job][m] # {}
    BY <1>2 DEF CleanUpInv
  <2> QED BY <1>2, <2>1, <2>2, <2>3
<1> QED BY <1>1, <1>2

LEMMA CleanUpStartRunner ==
  ASSUME Dependable, Invariant, CleanUpInv, StartRunner
  PROVE  CleanUpInv'
<1>1. /\ UNCHANGED <<runners, ctx>> /\ Live
      /\ TypeOK /\ LineInv /\ LifeInv
      /\ docker \in [RunnerNames -> Container] /\ call \in Call /\ call.name \in RunnerNames
      /\ ~MayFail("create") /\ ~MayFail("cleanup") /\ ~MayFail("inspect")
  BY DEF StartRunner, Invariant, CleanUpInv, TypeOK, CallPC,
     ContainerCreate, ContainerCreateFails, ContainerStart, ContainerStartFails, ContainerDiscard,
     ContainerInspect, ContainerInspectFails, MayFail, Dependable, Live
<1>2. PICK n \in RunnerNames : n = call.name
  BY <1>1
<1>3. ~ContainerDiscard => UNCHANGED CompletedAt
  BY <1>1, EventsKept DEF StartRunner, githubVars, loopVars, events
<1>4. ASSUME \A m \in RunnerNames : m # n => docker'[m] = docker[m],
             \A k \in Jobs, m \in RunnerNames : m # n => CompletedAt'[k][m] = CompletedAt[k][m],
             \/ docker'[n].state = "none" /\ pc' \in {"dispatch", "reconcile"}
             \/ pc' \in Provisioning /\ call'.name = n /\ docker'[n].state \in {"created", "idle"},
             pc \notin Stopping
      PROVE  CleanUpInv'
  BY <1>1, <1>2, <1>4, CleanUpOthers DEF CleanUpInv, Provisioning, Stopping
<1>5. CASE ContainerCreate
  <2>1. /\ docker[n].state = "none" /\ docker'[n].state = "created"
        /\ \A m \in RunnerNames : m # n => docker'[m] = docker[m]
        /\ pc = "create" /\ pc' = "start" /\ call'.name = n
        /\ UNCHANGED CompletedAt
    BY <1>1, <1>2, <1>3, <1>5, DockerEffects DEF ContainerCreate, ContainerDiscard, Call
  <2> QED BY <1>4, <2>1 DEF Provisioning, Stopping
<1>6. CASE ContainerCreateFails
  <2>1. /\ UNCHANGED <<docker, CompletedAt>>
        /\ pc = "create" /\ pc' \in {"dispatch", "reconcile"}
    BY <1>1, <1>3, <1>6 DEF ContainerCreateFails, ContainerDiscard, Call
  <2> QED BY <1>1, <2>1, CleanUpFrame DEF Provisioning, Stopping
<1>7. CASE ContainerStart
  <2>1. /\ docker[n].state = "created" /\ docker'[n].state = "idle"
        /\ \A m \in RunnerNames : m # n => docker'[m] = docker[m]
        /\ pc = "start" /\ pc' = "inspect" /\ call'.name = n
        /\ UNCHANGED CompletedAt
    BY <1>1, <1>2, <1>3, <1>7, DockerEffects DEF ContainerStart, ContainerDiscard
  <2> QED BY <1>4, <2>1 DEF Provisioning, Stopping
<1>8. CASE ContainerStartFails
  <2>1. /\ pc = "start" /\ pc' = "discard" /\ call' = call
        /\ docker' = docker \/ StartContainer(n)
    BY <1>2, <1>8 DEF ContainerStartFails
  <2>2. CASE docker' = docker
    BY <1>1, <1>3, <1>8, <2>1, <2>2, CleanUpFrame
    DEF ContainerStartFails, ContainerDiscard, Provisioning, Stopping
  <2>3. CASE StartContainer(n)
    <3>1. /\ docker'[n].state = "idle"
          /\ \A m \in RunnerNames : m # n => docker'[m] = docker[m]
      BY <1>1, <2>3, DockerEffects
    <3> QED
      BY <1>2, <1>3, <1>4, <1>8, <2>1, <3>1
      DEF ContainerStartFails, ContainerDiscard, Provisioning, Stopping
  <2> QED BY <2>1, <2>2, <2>3
<1>11. CASE ContainerDiscard
  <2>1. /\ RemoveContainer(n, call.id) /\ JobStopped(n)
        /\ pc = "discard" /\ pc' \in {"dispatch", "reconcile"}
        /\ UNCHANGED <<inbox, nextID, msg, lastMessageID, pending, handled>>
    BY <1>1, <1>2, <1>11 DEF ContainerDiscard, StartRunner, loopVars, Call
  <2>2. /\ docker'[n].state = "none" /\ docker'[n].job = NoJob
        /\ \A m \in RunnerNames : m # n => docker'[m] = docker[m]
    BY <1>1, <2>1, DockerEffects
  <2>3. \A k \in Jobs, m \in RunnerNames : m # n => CompletedAt'[k][m] = CompletedAt[k][m]
    BY <1>1, <2>1, <2>2, CompletedKept
  <2> QED BY <1>4, <2>1, <2>2, <2>3 DEF Stopping
<1>9. CASE ContainerInspect
  <2>1. /\ UNCHANGED <<docker, CompletedAt>>
        /\ pc = "inspect" /\ pc' = "add" /\ call'.name = call.name
    BY <1>1, <1>3, <1>9 DEF ContainerInspect, ContainerDiscard, Call
  <2> QED BY <1>1, <2>1, CleanUpFrame DEF Provisioning, Stopping
<1>10. CASE ContainerInspectFails
  BY <1>1, <1>10 DEF ContainerInspectFails
<1> QED BY <1>5, <1>6, <1>7, <1>8, <1>9, <1>10, <1>11 DEF StartRunner

LEMMA CleanUpStopRunner ==
  ASSUME Dependable, Invariant, CleanUpInv, StopRunner
  PROVE  CleanUpInv'
<1>1. /\ UNCHANGED <<runners, ctx, call, inbox, nextID, msg, lastMessageID, pending, handled>>
      /\ Live /\ ~MayFail("remove")
      /\ TypeOK /\ StoreInv /\ LineInv /\ LifeInv
      /\ pc \in {"stop", "remove"} /\ docker \in [RunnerNames -> Container] /\ call.name \in RunnerNames
  BY DEF StopRunner, loopVars, Invariant, CleanUpInv, TypeOK, CallPC,
     ContainerStop, ContainerRemove, MayFail, Dependable, Live
<1>2. PICK n \in RunnerNames : n = call.name
  BY <1>1
<1>3. Tracked(runners, n) /\ Exists(n, call.id)
  BY <1>1, <1>2 DEF StoreInv, StoreMatchesDocker, Stopping, Tracked
<1>6. \/ UNCHANGED <<docker, job, outbox>>
      \/ JobStopped(n) /\ (StopContainer(n, call.id) \/ RemoveContainer(n, call.id))
  BY <1>2 DEF StopRunner, ContainerStop, ContainerRemove
<1>7. /\ \A m \in RunnerNames : m # n => docker'[m] = docker[m]
      /\ \A k \in Jobs, m \in RunnerNames : m # n => CompletedAt'[k][m] = CompletedAt[k][m]
  <2>1. CASE UNCHANGED <<docker, job, outbox>>
    BY <1>1, <2>1, EventsKept DEF events
  <2>2. CASE JobStopped(n) /\ (StopContainer(n, call.id) \/ RemoveContainer(n, call.id))
    <3>1. /\ \A m \in RunnerNames : m # n => docker'[m] = docker[m]
          /\ \/ docker' = docker /\ docker[n].state # "busy"
             \/ docker'[n].state = "exited" /\ docker'[n].job = docker[n].job
             \/ docker'[n].state = "none" /\ docker'[n].job = NoJob
      BY <1>1, <2>2, DockerEffects
    <3> QED BY <1>1, <2>2, <3>1, CompletedKept
  <2> QED BY <1>6, <2>1, <2>2
<1>4. CASE ContainerStop
  <2>1. pc' = "remove"
    BY <1>4 DEF ContainerStop
  <2> QED
    BY <1>1, <1>2, <1>3, <1>7, <2>1, CleanUpOthers DEF CleanUpInv, Stopping, Tracked
<1>5. CASE ContainerRemove
  <2>1. RemoveContainer(n, call.id) /\ pc' = "forget"
    BY <1>1, <1>2, <1>3, <1>5 DEF ContainerRemove
  <2>2. docker'[n].state = "none"
    BY <1>1, <2>1, DockerEffects
  <2> QED
    BY <1>1, <1>2, <1>3, <1>7, <2>1, <2>2, CleanUpOthers DEF CleanUpInv, Stopping, Tracked
<1> QED BY <1>4, <1>5 DEF StopRunner

LEMMA CleanUpHandlers ==
  ASSUME Dependable, Invariant, CleanUpInv, NEW j \in Jobs,
         \/ HandleJobAssigned(j)
         \/ \E n \in RunnerNames : HandleJobStarted(j, n)
         \/ \E n \in RunnerNames \cup {NoRunner} : HandleJobCompleted(j, n)
  PROVE  CleanUpInv'
<1>1. UNCHANGED <<docker, ctx>> /\ pc = "dispatch" /\ TypeOK /\ LineInv /\ LifeInv
      /\ runners \in [RunnerNames -> RunnerInfo]
  BY DEF HandleJobAssigned, HandleJobStarted, HandleJobCompleted, Invariant, TypeOK
<1>2. CASE HandleJobAssigned(j)
  <2>1. UNCHANGED <<runners, CompletedAt>> /\ pc' = "jit"
    BY <1>1, <1>2, EventHandled DEF HandleJobAssigned, ProvisionRunner, githubVars
  <2> QED BY <1>1, <2>1, CleanUpFrame DEF Provisioning, Stopping
<1>3. ASSUME NEW n \in RunnerNames, HandleJobStarted(j, n) PROVE CleanUpInv'
  <2>1. UNCHANGED CompletedAt /\ runners' = MarkBusy(runners, n, j) /\ UNCHANGED <<pc, call>>
    BY <1>1, <1>3, EventHandled DEF HandleJobStarted, githubVars
  <2>2. \A m \in RunnerNames : Tracked(runners, m) => Tracked(runners, m)'
    BY <1>1, <2>1 DEF MarkBusy, Tracked, RunnerInfo
  <2> QED BY <1>1, <2>1, <2>2 DEF CleanUpInv, Live
<1>4. ASSUME NEW n \in RunnerNames \cup {NoRunner}, HandleJobCompleted(j, n) PROVE CleanUpInv'
  <2>1. /\ RunLoses(CompletedAt', CompletedAt, RunnerNames \cup {NoRunner}, j, n, msg.id)
        /\ <<j, n>> \in msg.events.completed
    BY <1>1, <1>4, EventHandled DEF HandleJobCompleted, githubVars
  <2>2. \A k \in Jobs, m \in RunnerNames : m # n => CompletedAt'[k][m] = CompletedAt[k][m]
    BY <2>1 DEF RunLoses
  <2>3. /\ \A m \in RunnerNames : docker[m].state # "none" => Tracked(runners, m)
        /\ \A m \in RunnerNames : docker[m].state \in {"grace", "exited"} /\ docker[m].job # NoJob =>
             CompletedAt[docker[m].job][m] # {} /\ docker[m].job \in Jobs
    BY <1>1 DEF CleanUpInv, Provisioning, Stopping, TypeOK, Container
  <2>4. CASE n \in RunnerNames /\ Tracked(runners, n)
    <3>1. /\ runners' = MarkCompleted(runners, n) /\ call'.name = n
          /\ pc' \in Stopping /\ pc' # "forget"
      BY <1>4, <2>4 DEF HandleJobCompleted, NoCall, Stopping
    <3>2. \A m \in RunnerNames : Tracked(runners, m) => Tracked(runners, m)'
      BY <1>1, <3>1 DEF MarkCompleted, Tracked, RunnerInfo
    <3> QED BY <1>1, <2>2, <2>3, <2>4, <3>1, <3>2 DEF CleanUpInv, Live
  <2>5. CASE ~(n \in RunnerNames /\ Tracked(runners, n))
    <3>1. UNCHANGED <<runners, pc, call>>
      BY <1>4, <2>5 DEF HandleJobCompleted
    <3>2. n \in RunnerNames => docker[n].state = "none"
      BY <2>3, <2>5
    <3> QED BY <1>1, <2>2, <2>3, <3>1, <3>2 DEF CleanUpInv, Live, Tracked
  <2> QED BY <2>4, <2>5
<1> QED BY <1>2, <1>3, <1>4

LEMMA CleanUpScaler ==
  ASSUME Dependable, Invariant, CleanUpInv, ScalerStep
  PROVE  CleanUpInv'
<1>1. TypeOK /\ LineInv /\ LifeInv /\ Live /\ runners \in [RunnerNames -> RunnerInfo]
  BY DEF Invariant, CleanUpInv, TypeOK
<1>2. CASE RunReturns \/ Poll \/ GetMessageNothing \/ GetMessage \/ DeleteMessage \/ Reconcile
             \/ ReconcileRunner \/ ReconcileDone \/ GenerateJitRunnerConfig \/ Collect \/ Record
  <2>1. UNCHANGED <<docker, runners, ctx, CompletedAt>>
    BY <1>1, <1>2, EventsKept DEF RunReturns, Poll, GetMessageNothing, GetMessage, DeleteMessage,
       Reconcile, ReconcileRunner, ReconcileDone, GenerateJitRunnerConfig, Collect, Record,
       githubVars, loopVars, events
  <2>2. CASE ~Collect /\ ~Record
    <3>1. pc \notin Provisioning \cup Stopping /\ pc' # "forget"
      BY <1>1, <1>2, <2>2 DEF RunReturns, Poll, GetMessageNothing, GetMessage, DeleteMessage, Reconcile,
         ReconcileRunner, ReconcileDone, GenerateJitRunnerConfig, Provisioning, Stopping,
         ProvisionRunner, TypeOK, Call
    <3> QED BY <2>1, <3>1, CleanUpFrame
  <2>3. CASE Collect \/ Record
    <3>1. pc \in Stopping /\ pc' \in Stopping /\ call' = call /\ pc' # "forget"
      BY <2>3 DEF Collect, Record, Stopping
    <3> QED BY <2>1, <3>1, CleanUpFrame
  <2> QED BY <2>2, <2>3
<1>3. CASE RunnerProvisioned
  <2>1. /\ UNCHANGED <<docker, ctx, CompletedAt>> /\ pc = "add" /\ call.name \in RunnerNames
        /\ pc' \in {"dispatch", "reconcile"} /\ runners' = AddRunner(runners, call.name, call.id, call.ip)
    BY <1>1, <1>3, EventsKept DEF RunnerProvisioned, githubVars, loopVars, events, TypeOK, CallPC, Call
  <2>2. \A m \in RunnerNames : Tracked(runners, m) \/ m = call.name => Tracked(runners, m)'
    BY <1>1, <2>1 DEF AddRunner, Tracked
  <2> QED BY <1>1, <2>1, <2>2 DEF CleanUpInv, Live, Stopping
<1>4. CASE RunnerForgotten
  <2>1. /\ UNCHANGED <<docker, ctx, CompletedAt>> /\ pc = "forget" /\ call.name \in RunnerNames
        /\ pc' = "dispatch" /\ runners' = Remove(runners, call.name)
    BY <1>1, <1>4, EventsKept DEF RunnerForgotten, githubVars, loopVars, events, TypeOK, CallPC
  <2>2. \A m \in RunnerNames : Tracked(runners, m) /\ m # call.name => Tracked(runners, m)'
    BY <1>1, <2>1 DEF Remove, Tracked
  <2> QED BY <1>1, <2>1, <2>2 DEF CleanUpInv, Live, Provisioning
<1> QED
  BY <1>2, <1>3, <1>4, CleanUpStartRunner, CleanUpStopRunner, CleanUpHandlers DEF ScalerStep

LEMMA CleanUpHolds ==
  ASSUME Dependable
  PROVE  Spec => [](Invariant /\ CleanUpInv)
<1>1. Invariant /\ CleanUpInv /\ [Next]_vars => CleanUpInv'
  <2>1. ASSUME Invariant, CleanUpInv, UNCHANGED vars PROVE CleanUpInv'
    <3>1. UNCHANGED <<docker, runners, ctx, pc, call, CompletedAt>>
      BY <2>1, EventsKept DEF vars, scalerVars, loopVars, githubVars, Invariant, events
    <3> QED BY <2>1, <3>1 DEF CleanUpInv, Live
  <2>2. ~CancelContext
    BY DEF CancelContext, Dependable
  <2> QED BY <2>1, <2>2, CleanUpEnvironment, CleanUpScaler DEF Next
<1> QED BY <1>1, CleanUpInit, InvariantHolds, PTL DEF Spec

(* Every container is known to the store or to the call in progress.       *)
THEOREM NoContainerLost ==
  ASSUME Dependable
  PROVE  Spec => []NoUntrackedContainer
<1>1. CleanUpInv => NoUntrackedContainer
  BY DEF CleanUpInv, NoUntrackedContainer
<1> QED BY <1>1, CleanUpHolds, PTL

(* "On job completion, the container is stopped and removed": at the poll  *)
(* it is gone, or its JobCompleted has not arrived.                        *)
THEOREM CompletedRemoved ==
  ASSUME Dependable
  PROVE  Spec => []CompletedContainerRemoved
<1>1. Invariant /\ CleanUpInv => CompletedContainerRemoved
  <2> SUFFICES ASSUME Invariant, CleanUpInv, pc = "poll", NEW n \in RunnerNames,
                      docker[n].job # NoJob, job[docker[n].job] = "done"
               PROVE  OnTheWay(<<docker[n].job, n>>, "completed")
    BY DEF CompletedContainerRemoved
  <2>1. docker[n] \in Container
    BY DEF Invariant, TypeOK
  <2>2. docker[n].job \in Jobs /\ docker[n].state \in {"grace", "exited"}
    BY <2>1 DEF Invariant, LifeInv, RunnerInv, Container, ContainerState
  <2>3. CompletedAt[docker[n].job][n] # {}
    BY <2>2 DEF CleanUpInv, Stopping
  <2>4. \E m \in Line : <<docker[n].job, n>> \in m.events.completed
    BY <2>2, <2>3 DEF CompletedAt, CompletedIn
  <2> QED BY <2>4 DEF Line, Draft, OnTheWay
<1> QED BY <1>1, CleanUpHolds, PTL
=============================================================================
