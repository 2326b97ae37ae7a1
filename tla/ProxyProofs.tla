---------------------------- MODULE ProxyProofs ----------------------------
(***************************************************************************)
(* Theorems of the proxy beside the scaler: what a name in its log means,  *)
(* for every number of connections, runners and addresses and under every  *)
(* fault, although a handler only knows an address.                        *)
(***************************************************************************)
EXTENDS Proxy, ScalerProofs

(* The addresses of Docker: a container has one exactly while it runs, and *)
(* no other running container has the same.                                *)
OwnAddress ==
  /\ \A n \in RunnerNames : IF Running(n) THEN docker[n].ip \in IPs ELSE docker[n].ip = NoIP
  /\ \A n, m \in RunnerNames :
       Running(n) /\ Running(m) /\ docker[n].ip = docker[m].ip => n = m

(* The addresses that were read: of an entry of the store, of the call in  *)
(* progress and of a connection.                                           *)
KnownAddress ==
  /\ \A n \in RunnerNames :
       Tracked(runners, n) /\ Running(n) /\ docker[n].id = runners[n].id
         => runners[n].ip = docker[n].ip
  /\ pc = "add" /\ Running(call.name) /\ docker[call.name].id = call.id
       => call.ip = docker[call.name].ip

SourceAddress ==
  \A c \in Conns :
    conns[c].phase = "accepted" =>
      /\ conns[c].src \in RunnerNames
      /\ conns[c].id <= docker[conns[c].src].id
      /\ conns[c].id = docker[conns[c].src].id =>
           /\ docker[conns[c].src].state # "created"
           /\ Running(conns[c].src) => conns[c].ip = docker[conns[c].src].ip

AddressInv == OwnAddress /\ KnownAddress /\ SourceAddress

(* What happens to a container in a step: it keeps its address until it    *)
(* ends; it is created; it is started.                                     *)
Calm(n) ==
  /\ docker'[n].id = docker[n].id
  /\ docker'[n].state = "created" => docker[n].state = "created"
  /\ IF Running(n)' THEN Running(n) /\ docker'[n].ip = docker[n].ip
                    ELSE docker'[n].ip = NoIP \/ docker'[n] = docker[n]

Created(n) ==
  /\ docker[n].state = "none" /\ docker'[n].state = "created"
  /\ docker'[n].id = docker[n].id + 1 /\ docker'[n].ip = docker[n].ip

Started(n) ==
  /\ docker[n].state = "created" /\ docker'[n].state = "idle"
  /\ docker'[n].id = docker[n].id /\ docker'[n].ip \in FreeIPs

LEMMA DockerCalls ==
  ASSUME docker \in [RunnerNames -> Container], NEW n \in RunnerNames, NEW id
  PROVE  /\ CreateContainer(n) \/ StartContainer(n) \/ StopContainer(n, id) \/ RemoveContainer(n, id)
              => \A m \in RunnerNames : m # n => docker'[m] = docker[m]
         /\ CreateContainer(n) => Created(n)
         /\ StartContainer(n) => Started(n)
         /\ StopContainer(n, id) \/ RemoveContainer(n, id) => Calm(n)
<1>1. docker[n] \in Container
  OBVIOUS
<1>2. ASSUME CreateContainer(n)
      PROVE  Created(n) /\ \A m \in RunnerNames : m # n => docker'[m] = docker[m]
  BY <1>1, <1>2 DEF CreateContainer, Created, Container
<1>3. ASSUME StartContainer(n)
      PROVE  Started(n) /\ \A m \in RunnerNames : m # n => docker'[m] = docker[m]
  BY <1>1, <1>3 DEF StartContainer, Started, Container
<1>4. ASSUME StopContainer(n, id)
      PROVE  Calm(n) /\ \A m \in RunnerNames : m # n => docker'[m] = docker[m]
  <2>1. CASE UNCHANGED docker
    BY <2>1 DEF Calm, Running
  <2>2. CASE docker' = [docker EXCEPT ![n] = [@ EXCEPT !.state = "exited", !.ip = NoIP]]
    BY <1>1, <2>2 DEF Calm, Running, Container
  <2> QED BY <1>4, <2>1, <2>2 DEF StopContainer
<1>5. ASSUME RemoveContainer(n, id)
      PROVE  Calm(n) /\ \A m \in RunnerNames : m # n => docker'[m] = docker[m]
  BY <1>1, <1>5 DEF RemoveContainer, Calm, Running, Container
<1> QED BY <1>2, <1>3, <1>4, <1>5

Provisions(n) ==
  /\ n = call.name
  /\ \/ pc = "create" /\ Created(n)
     \/ pc = "start" /\ Started(n)
  /\ \A m \in RunnerNames : m # n => docker'[m] = docker[m]

(* A step of the system does at most one of them to one container. *)
LEMMA Containers ==
  ASSUME TypeOK, [Next]_vars
  PROVE  (\A n \in RunnerNames : Calm(n)) \/ (\E n \in RunnerNames : Provisions(n))
<1>1. docker \in [RunnerNames -> Container]
  BY DEF TypeOK
<1>2. \A n \in RunnerNames : docker'[n] = docker[n] => Calm(n)
  BY DEF Calm, Running
<1>3. CASE StartRunner \/ StopRunner
  <2>1. pc \in CallPC /\ call.name \in RunnerNames
    BY <1>3 DEF TypeOK, CallPC, StartRunner, StopRunner, ContainerCreate, ContainerCreateFails,
       ContainerStart, ContainerStartFails, ContainerDiscard, ContainerInspect, ContainerInspectFails,
       ContainerStop, ContainerRemove
  <2>2. PICK n \in RunnerNames : n = call.name
    BY <2>1
  <2>3. \/ UNCHANGED docker
        \/ pc = "create" /\ CreateContainer(n)
        \/ pc = "start" /\ StartContainer(n)
        \/ RemoveContainer(n, call.id)
        \/ StopContainer(n, call.id)
    BY <1>3, <2>2 DEF StartRunner, StopRunner, ContainerCreate, ContainerCreateFails,
       ContainerStart, ContainerStartFails, ContainerDiscard, ContainerInspect, ContainerInspectFails,
       ContainerStop, ContainerRemove
  <2>4. CASE UNCHANGED docker
    BY <1>2, <2>4
  <2>5. CASE (pc = "create" /\ CreateContainer(n)) \/ (pc = "start" /\ StartContainer(n))
    <3>1. \A m \in RunnerNames : m # n => docker'[m] = docker[m]
      BY <1>1, <2>5, DockerCalls
    <3>2. (CreateContainer(n) => Created(n)) /\ (StartContainer(n) => Started(n))
      BY <1>1, DockerCalls
    <3> QED BY <2>2, <2>5, <3>1, <3>2 DEF Provisions
  <2>6. CASE RemoveContainer(n, call.id) \/ StopContainer(n, call.id)
    <3>1. \A m \in RunnerNames : m # n => docker'[m] = docker[m]
      BY <1>1, <2>6, DockerCalls
    <3>2. Calm(n)
      BY <1>1, <2>6, DockerCalls
    <3> QED BY <1>2, <3>1, <3>2
  <2> QED BY <2>3, <2>4, <2>5, <2>6
<1>4. CASE ScalerStep /\ ~StartRunner /\ ~StopRunner
  <2>1. UNCHANGED docker
    BY <1>4 DEF ScalerStep, RunReturns, Poll, GetMessage, GetMessageNothing, DeleteMessage,
       GenerateJitRunnerConfig, RunnerProvisioned, HandleJobAssigned, HandleJobStarted,
       HandleJobCompleted, Collect, Record, RunnerForgotten, Reconcile, ReconcileRunner,
       ReconcileDone
  <2> QED BY <1>2, <2>1
<1>5. CASE Environment
  <2>1. ASSUME NEW n \in RunnerNames, NEW j \in Jobs, RunnerTakesJob(n, j)
        PROVE  Calm(n) /\ \A m \in RunnerNames : m # n => docker'[m] = docker[m]
    BY <1>1, <2>1 DEF RunnerTakesJob, Calm, Running, Container
  <2>2. ASSUME NEW n \in RunnerNames, RunnerFinishesJob(n) \/ RunnerKilled(n) \/ GraceEnds(n)
        PROVE  Calm(n) /\ \A m \in RunnerNames : m # n => docker'[m] = docker[m]
    <3>1. docker[n] \in Container
      BY <1>1
    <3>2. CASE RunnerFinishesJob(n)
      BY <1>1, <3>1, <3>2 DEF RunnerFinishesJob, JobEnds, Calm, Running, Container
    <3>3. CASE RunnerKilled(n)
      BY <1>1, <3>1, <3>3 DEF RunnerKilled, JobEnds, Calm, Running, Container
    <3>4. CASE GraceEnds(n)
      BY <1>1, <3>1, <3>4 DEF GraceEnds, Calm, Running, Container
    <3> QED BY <2>2, <3>2, <3>3, <3>4
  <2>3. ASSUME NEW n \in RunnerNames, RunnerQuits(n)
        PROVE  Calm(n) /\ \A m \in RunnerNames : m # n => docker'[m] = docker[m]
    <3>1. docker[n] \in Container
      BY <1>1
    <3> QED BY <1>1, <2>3, <3>1 DEF RunnerQuits, Calm, Running, Container
  <2> QED BY <1>2, <1>5, <2>1, <2>2, <2>3 DEF Environment, AssignJob, CancelJob, MakeMessage
<1>6. CASE CancelContext \/ UNCHANGED vars
  BY <1>2, <1>6 DEF CancelContext, vars
<1> QED BY <1>3, <1>4, <1>5, <1>6 DEF Next
-----------------------------------------------------------------------------
LEMMA OwnAddressStep ==
  ASSUME TypeOK, OwnAddress, [Next]_vars
  PROVE  OwnAddress'
<1>1. NoIP \notin IPs /\ docker \in [RunnerNames -> Container]
  BY ScalerAssumption DEF TypeOK
<1>2. CASE \A n \in RunnerNames : Calm(n)
  <2>1. \A n \in RunnerNames :
          /\ Running(n)' => Running(n) /\ docker'[n].ip = docker[n].ip
          /\ ~Running(n)' => docker'[n].ip = NoIP \/ docker'[n] = docker[n]
    BY <1>2 DEF Calm
  <2>2. \A n \in RunnerNames : ~Running(n)' /\ docker'[n] = docker[n] => ~Running(n)
    BY DEF Running
  <2> QED BY <2>1, <2>2 DEF OwnAddress
<1>3. ASSUME NEW n \in RunnerNames, Provisions(n), Created(n)
      PROVE  OwnAddress'
  <2>1. ~Running(n) /\ ~Running(n)' /\ docker'[n].ip = docker[n].ip
    BY <1>3 DEF Created, Running
  <2>2. \A m \in RunnerNames : m # n => docker'[m] = docker[m] /\ (Running(m)' <=> Running(m))
    BY <1>3 DEF Provisions, Running
  <2> QED BY <2>1, <2>2 DEF OwnAddress
<1>4. ASSUME NEW n \in RunnerNames, Provisions(n), Started(n)
      PROVE  OwnAddress'
  <2>1. /\ docker'[n].ip \in IPs
        /\ \A m \in RunnerNames : docker[m].ip # docker'[n].ip
    BY <1>4 DEF Started, FreeIPs
  <2>2. Running(n)'
    BY <1>4 DEF Started, Running
  <2>3. \A m \in RunnerNames : m # n => docker'[m] = docker[m] /\ (Running(m)' <=> Running(m))
    BY <1>4 DEF Provisions, Running
  <2> QED BY <2>1, <2>2, <2>3 DEF OwnAddress
<1> QED BY <1>2, <1>3, <1>4, Containers DEF Provisions

(* An entry of the store keeps what it says of its container, unless it is *)
(* the one that AddRunner writes.                                          *)
Kept(n) ==
  Tracked(runners, n) /\ runners'[n].id = runners[n].id /\ runners'[n].ip = runners[n].ip

Added(n) ==
  /\ pc = "add" /\ n = call.name /\ UNCHANGED docker
  /\ runners'[n].id = call.id /\ runners'[n].ip = call.ip

LEMMA Entries ==
  ASSUME TypeOK, [Next]_vars, NEW n \in RunnerNames, Tracked(runners', n)
  PROVE  Kept(n) \/ Added(n)
<1>1. runners \in [RunnerNames -> RunnerInfo] /\ runners[n] \in RunnerInfo
  BY DEF TypeOK
<1>2. CASE UNCHANGED runners
  BY <1>2 DEF Kept, Tracked
<1>3. CASE RunnerProvisioned
  BY <1>1, <1>3 DEF RunnerProvisioned, AddRunner, Kept, Added, Tracked
<1>4. ASSUME NEW m \in RunnerNames, NEW j \in Jobs, runners' = MarkBusy(runners, m, j)
      PROVE  Kept(n)
  BY <1>1, <1>4 DEF MarkBusy, Kept, Tracked, RunnerInfo
<1>5. ASSUME NEW m \in RunnerNames, runners' = MarkCompleted(runners, m)
      PROVE  Kept(n)
  BY <1>1, <1>5 DEF MarkCompleted, Kept, Tracked, RunnerInfo
<1>6. CASE RunnerForgotten
  BY <1>1, <1>6 DEF RunnerForgotten, Remove, Absent, Kept, Tracked
<1>7. ASSUME NEW j \in Jobs, NEW m \in RunnerNames, HandleJobStarted(j, m) PROVE Kept(n)
  BY <1>4, <1>7 DEF HandleJobStarted
<1>8. ASSUME NEW j \in Jobs, NEW m \in RunnerNames \cup {NoRunner}, HandleJobCompleted(j, m)
      PROVE  Kept(n) \/ UNCHANGED runners
  BY <1>5, <1>8 DEF HandleJobCompleted
<1>9. CASE ScalerStep
  <2>1. ASSUME NEW j \in Jobs, HandleJobAssigned(j) PROVE UNCHANGED runners
    BY <2>1 DEF HandleJobAssigned
  <2>2. CASE \/ RunReturns \/ Poll \/ GetMessage \/ GetMessageNothing \/ DeleteMessage
             \/ GenerateJitRunnerConfig \/ StartRunner \/ Collect \/ Record \/ StopRunner
             \/ Reconcile \/ ReconcileRunner \/ ReconcileDone
    BY <1>2, <2>2 DEF RunReturns, Poll, GetMessage, GetMessageNothing, DeleteMessage,
       GenerateJitRunnerConfig, StartRunner, Collect, Record, StopRunner, Reconcile,
       ReconcileRunner, ReconcileDone, loopVars, metricVars
  <2> QED BY <1>2, <1>3, <1>6, <1>7, <1>8, <1>9, <2>1, <2>2 DEF ScalerStep
<1>10. CASE Environment \/ CancelContext \/ UNCHANGED vars
  BY <1>2, <1>10 DEF Environment, CancelContext, vars, scalerVars
<1> QED BY <1>9, <1>10 DEF Next

(* What is known at "add" was read at "inspect" or was known before. *)
LEMMA CallAddress ==
  ASSUME TypeOK, [Next]_vars, pc' = "add"
  PROVE  \/ pc = "add" /\ UNCHANGED call
         \/ /\ UNCHANGED docker
            /\ call'.name = call.name /\ call'.id = call.id
            /\ call'.ip = docker[call.name].ip
<1>0. call \in Call
  BY DEF TypeOK
<1>1. CASE StartRunner
  BY <1>0, <1>1 DEF StartRunner, ContainerCreate, ContainerCreateFails, ContainerStart,
     ContainerStartFails, ContainerDiscard, ContainerInspect, ContainerInspectFails, Call
<1>2. CASE ScalerStep /\ ~StartRunner
  <2>1. FALSE
    BY <1>0, <1>2 DEF ScalerStep, RunReturns, Poll, GetMessage, GetMessageNothing,
       DeleteMessage, GenerateJitRunnerConfig, RunnerProvisioned, HandleJobAssigned,
       HandleJobStarted, HandleJobCompleted, Collect, Record, RunnerForgotten, Reconcile,
       ReconcileRunner, ReconcileDone, ProvisionRunner, StopRunner, ContainerStop,
       ContainerRemove, Call
  <2> QED BY <2>1
<1>3. CASE Environment \/ CancelContext \/ UNCHANGED vars
  BY <1>3 DEF Environment, CancelContext, vars, scalerVars
<1> QED BY <1>1, <1>2, <1>3 DEF Next

LEMMA KnownAddressStep ==
  ASSUME TypeOK, StoreInv, KnownAddress, [Next]_vars
  PROVE  KnownAddress'
<1>0. docker \in [RunnerNames -> Container] /\ runners \in [RunnerNames -> RunnerInfo]
  BY DEF TypeOK
<1>1. ASSUME NEW n \in RunnerNames, Running(n)', Calm(n)
      PROVE  Running(n) /\ docker'[n].ip = docker[n].ip /\ docker'[n].id = docker[n].id
  BY <1>1 DEF Calm
<1>2. ASSUME NEW n \in RunnerNames, Tracked(runners', n), Running(n)',
             docker'[n].id = runners'[n].id
      PROVE  runners'[n].ip = docker'[n].ip
  <2>1. CASE Added(n)
    <3>1. docker' = docker /\ runners'[n].id = call.id /\ runners'[n].ip = call.ip
            /\ pc = "add" /\ n = call.name
      BY <2>1 DEF Added
    <3>2. Running(n) /\ docker[n].id = call.id
      BY <1>2, <3>1 DEF Running
    <3> QED BY <3>1, <3>2 DEF KnownAddress
  <2>2. CASE Kept(n)
    <3>1. CASE Calm(n)
      <4>1. Running(n) /\ docker'[n].ip = docker[n].ip /\ docker'[n].id = docker[n].id
        BY <1>1, <1>2, <3>1
      <4>2. /\ Tracked(runners, n) /\ runners'[n].id = runners[n].id
            /\ runners'[n].ip = runners[n].ip
        BY <2>2 DEF Kept
      <4> QED BY <1>2, <4>1, <4>2 DEF KnownAddress
    <3>2. CASE ~Calm(n)
      <4>1. PICK m \in RunnerNames : Provisions(m)
        BY <3>2, Containers
      <4>2. m = n
        BY <3>2, <4>1 DEF Provisions, Calm, Running
      <4>3. ~Created(n)
        BY <1>2 DEF Created, Running
      <4>4. pc = "start" /\ n = call.name
        BY <4>1, <4>2, <4>3 DEF Provisions
      <4> QED BY <2>2, <4>4 DEF Kept, StoreInv, Provisioning
    <3> QED BY <3>1, <3>2
  <2> QED BY <1>2, <2>1, <2>2, Entries
<1>3. ASSUME pc' = "add", Running(call.name)', docker'[call'.name].id = call'.id
      PROVE  call'.ip = docker'[call'.name].ip
  <2>1. CASE pc = "add" /\ UNCHANGED call
    <3>1. PICK n \in RunnerNames : n = call.name /\ n = call'.name
      BY <2>1 DEF TypeOK, CallPC
    <3>2. Calm(n)
      BY <2>1, <3>1, Containers DEF Provisions
    <3>3. Running(n)'
      BY <1>3, <3>1 DEF Running
    <3>4. /\ Running(n) /\ docker'[n].ip = docker[n].ip
          /\ docker'[n].id = docker[n].id
      BY <1>1, <3>1, <3>2, <3>3
    <3>5. Running(call.name) /\ docker[call.name].id = call.id
      BY <1>3, <2>1, <3>1, <3>4
    <3> QED BY <2>1, <3>1, <3>4, <3>5 DEF KnownAddress
  <2>2. CASE ~(pc = "add" /\ UNCHANGED call)
    <3>1. docker' = docker /\ call'.name = call.name /\ call'.ip = docker[call.name].ip
      BY <1>3, <2>2, CallAddress
    <3> QED BY <3>1
  <2> QED BY <2>1, <2>2
<1> QED BY <1>2, <1>3 DEF KnownAddress

(* A container that an accepted connection came from is gone, or has the   *)
(* address the connection has: a name is given to a container with a new   *)
(* id, and a container starts once.                                        *)
SourceOf(conn, containers) ==
  conn.phase = "accepted" =>
    /\ conn.src \in RunnerNames
    /\ conn.id <= containers[conn.src].id
    /\ conn.id = containers[conn.src].id =>
         /\ containers[conn.src].state # "created"
         /\ containers[conn.src].state \in {"idle", "busy", "grace"}
              => conn.ip = containers[conn.src].ip

LEMMA SourceSame ==
  ASSUME TypeOK, NEW c \in Connection, SourceOf(c, docker), [Next]_vars
  PROVE  SourceOf(c, docker')
<1> SUFFICES ASSUME c.phase = "accepted"
             PROVE  SourceOf(c, docker')
  BY DEF SourceOf
<1>1. PICK n \in RunnerNames : n = c.src
  BY DEF SourceOf
<1>2. c.id \in Nat /\ docker[n].id \in Nat
  <2>1. docker[n] \in Container
    BY DEF TypeOK
  <2> QED BY <2>1 DEF Connection, Container
<1>3. CASE Calm(n)
  BY <1>1, <1>2, <1>3 DEF SourceOf, Calm, Running
<1>4. CASE Created(n)
  BY <1>1, <1>2, <1>4 DEF SourceOf, Created
<1>5. CASE Started(n)
  BY <1>1, <1>2, <1>5 DEF SourceOf, Started
<1>6. ASSUME NEW m \in RunnerNames, Provisions(m) PROVE SourceOf(c, docker')
  <2>1. CASE m = n
    BY <1>4, <1>5, <1>6, <2>1 DEF Provisions
  <2>2. CASE m # n
    BY <1>1, <1>3, <1>6, <2>2 DEF Provisions, Calm, Running
  <2> QED BY <2>1, <2>2
<1> QED BY <1>3, <1>6, Containers

LEMMA SourceAddressStep ==
  ASSUME TypeOK, conns \in [Conns -> Connection], SourceAddress, [ProxyNext]_proxyVars
  PROVE  conns' \in [Conns -> Connection] /\ SourceAddress'
<1>1. \A c \in Conns : conns[c] \in Connection /\ SourceOf(conns[c], docker)
  BY DEF SourceAddress, SourceOf, Running
<1>2. NoConnection \in Connection /\ SourceOf(NoConnection, docker)
  BY DEF NoConnection, Connection, Ends, SourceOf
<1>3. ASSUME NEW c \in Conns, NEW d \in Connection, SourceOf(d, docker),
             conns' = [conns EXCEPT ![c] = d], UNCHANGED docker
      PROVE  conns' \in [Conns -> Connection] /\ SourceAddress'
  <2>1. \A e \in Conns : SourceOf(conns'[e], docker)
    BY <1>1, <1>3
  <2> QED BY <1>3, <2>1 DEF SourceAddress, SourceOf, Running
<1>4. ASSUME UNCHANGED conns, [Next]_vars
      PROVE  conns' \in [Conns -> Connection] /\ SourceAddress'
  <2>1. \A e \in Conns : SourceOf(conns[e], docker')
    BY <1>1, <1>4, SourceSame
  <2> QED BY <1>4, <2>1 DEF SourceAddress, SourceOf, Running
<1>5. ASSUME NEW c \in Conns, NEW n \in RunnerNames, Connect(c, n), UNCHANGED vars
      PROVE  conns' \in [Conns -> Connection] /\ SourceAddress'
  <2> DEFINE d == [NoConnection EXCEPT !.phase = "accepted", !.src = n, !.id = docker[n].id,
                                       !.ip = docker[n].ip]
  <2>1. docker[n].id \in Nat /\ docker[n].ip \in IPs \cup {NoIP}
    <3>1. docker[n] \in Container
      BY DEF TypeOK
    <3> QED BY <3>1 DEF Container
  <2>2. d \in Connection
    BY <2>1 DEF NoConnection, Connection, Ends
  <2>3. SourceOf(d, docker)
    BY <1>5, <2>1 DEF SourceOf, NoConnection, Connect, Running
  <2>4. conns' = [conns EXCEPT ![c] = d] /\ UNCHANGED docker
    BY <1>5 DEF Connect, vars
  <2> HIDE DEF d
  <2> QED BY <1>3, <2>2, <2>3, <2>4
<1>6. ASSUME NEW c \in Conns, Lookup(c), UNCHANGED vars
      PROVE  conns' \in [Conns -> Connection] /\ SourceAddress'
  <2>1. PICK name \in RunnerNames \cup {Unknown} :
          conns' = [conns EXCEPT ![c] = [conns[c] EXCEPT !.logged = name, !.phase = "forward"]]
    BY <1>6 DEF Lookup
  <2>2. [conns[c] EXCEPT !.logged = name, !.phase = "forward"] \in Connection
    BY <1>1 DEF Connection
  <2>3. SourceOf([conns[c] EXCEPT !.logged = name, !.phase = "forward"], docker)
    BY <1>1 DEF Connection, SourceOf
  <2> QED BY <1>3, <1>6, <2>1, <2>2, <2>3 DEF vars
<1>7. ASSUME NEW c \in Conns, HandlerEnds(c), UNCHANGED vars
      PROVE  conns' \in [Conns -> Connection] /\ SourceAddress'
  BY <1>2, <1>3, <1>7 DEF HandlerEnds, vars
<1>8. ASSUME NEW c \in Conns, TunnelOpens(c), UNCHANGED vars
      PROVE  conns' \in [Conns -> Connection] /\ SourceAddress'
  <2> DEFINE d == [NoConnection EXCEPT !.phase = "tunnel", !.copies = Ends, !.open = Ends]
  <2>1. d \in Connection /\ SourceOf(d, docker)
    BY <1>2 DEF NoConnection, Connection, SourceOf
  <2>2. conns' = [conns EXCEPT ![c] = d] /\ UNCHANGED docker
    BY <1>8 DEF TunnelOpens, vars
  <2> HIDE DEF d
  <2> QED BY <1>3, <2>1, <2>2
<1>9. ASSUME NEW c \in Conns, NEW e \in Ends, PeerEnds(c, e), UNCHANGED vars
      PROVE  conns' \in [Conns -> Connection] /\ SourceAddress'
  <2> DEFINE d == [conns[c] EXCEPT !.gone = conns[c].gone \cup {e}]
  <2>1. d \in Connection
    BY <1>1 DEF Connection
  <2>2. SourceOf(d, docker)
    BY <1>1 DEF Connection, SourceOf
  <2>3. conns' = [conns EXCEPT ![c] = d] /\ UNCHANGED docker
    BY <1>9 DEF PeerEnds, vars
  <2> HIDE DEF d
  <2> QED BY <1>3, <2>1, <2>2, <2>3
<1>10. ASSUME NEW c \in Conns, NEW e \in Ends, CopyEnds(c, e), UNCHANGED vars
       PROVE  conns' \in [Conns -> Connection] /\ SourceAddress'
  <2> DEFINE d == [conns[c] EXCEPT !.copies = conns[c].copies \ {e}, !.open = {}, !.gone = {}]
  <2>1. d \in Connection
    BY <1>1 DEF Connection
  <2>2. SourceOf(d, docker)
    BY <1>1, <1>10 DEF Connection, SourceOf, CopyEnds
  <2>3. \/ conns' = [conns EXCEPT ![c] = d]
        \/ conns' = [conns EXCEPT ![c] = NoConnection]
    BY <1>10 DEF CopyEnds
  <2>4. UNCHANGED docker
    BY <1>10 DEF vars
  <2> HIDE DEF d
  <2> QED BY <1>2, <1>3, <2>1, <2>2, <2>3, <2>4
<1>11. CASE UNCHANGED proxyVars
  BY <1>4, <1>11 DEF proxyVars
<1>12. CASE Next /\ UNCHANGED conns
  BY <1>4, <1>12
<1>13. CASE ProxyStep /\ UNCHANGED vars
  BY <1>5, <1>6, <1>7, <1>8, <1>9, <1>10, <1>13 DEF ProxyStep
<1> QED BY <1>11, <1>12, <1>13 DEF ProxyNext

LEMMA AddressInit ==
  ASSUME ProxyInit
  PROVE  conns \in [Conns -> Connection] /\ AddressInv
<1>1. NoConnection \in Connection /\ NoConnection.phase = "none"
  BY DEF NoConnection, Connection, Ends
<1>2. SourceAddress /\ conns \in [Conns -> Connection]
  BY <1>1 DEF ProxyInit, SourceAddress
<1>3. \A n \in RunnerNames : ~Running(n) /\ docker[n].ip = NoIP
  BY DEF ProxyInit, Init, DockerInit, NoContainer, Running
<1>4. \A n \in RunnerNames : ~Tracked(runners, n)
  BY DEF ProxyInit, Init, NewStore, Absent, Tracked
<1>5. pc # "add"
  BY DEF ProxyInit, Init
<1> QED BY <1>2, <1>3, <1>4, <1>5 DEF AddressInv, OwnAddress, KnownAddress
-----------------------------------------------------------------------------
ProxyInv == TypeOK /\ StoreInv /\ conns \in [Conns -> Connection] /\ AddressInv

LEMMA ProxyInvariant == ProxySpec => []ProxyInv
<1>1. ProxyInit => ProxyInv
  BY AddressInit, TypeInit, StoreInit DEF ProxyInv, ProxyInit
<1>2. ProxyInv /\ [ProxyNext]_proxyVars => ProxyInv'
  <2> SUFFICES ASSUME ProxyInv, [ProxyNext]_proxyVars PROVE ProxyInv'
    OBVIOUS
  <2>1. [Next]_vars
    BY DEF ProxyNext, proxyVars
  <2>2. TypeOK' /\ StoreInv'
    BY <2>1, TypeStep, StoreStep DEF ProxyInv
  <2>3. OwnAddress' /\ KnownAddress'
    BY <2>1, OwnAddressStep, KnownAddressStep DEF ProxyInv, AddressInv
  <2>4. conns' \in [Conns -> Connection] /\ SourceAddress'
    BY SourceAddressStep DEF ProxyInv, AddressInv
  <2> QED BY <2>2, <2>3, <2>4 DEF ProxyInv, AddressInv
<1> QED BY <1>1, <1>2, PTL DEF ProxySpec

(* The container that connected still has the address of the connection,   *)
(* and an entry about a running container has its address.                 *)
LEMMA AddressOfSource ==
  ASSUME ProxyInv, NEW c \in Conns, conns[c].phase = "accepted", SourceRuns(c)
  PROVE  /\ conns[c].src \in RunnerNames /\ Running(conns[c].src)
         /\ conns[c].ip = docker[conns[c].src].ip
  BY DEF ProxyInv, AddressInv, SourceAddress, SourceRuns

(* Whatever entries are stale and whichever addresses are reused, the      *)
(* proxy never logs the traffic of a running runner as another one's that  *)
(* runs too: for every number of connections and every fault.              *)
THEOREM AttributionCorrect == ProxySpec => NeverNamesAnother
<1>1. ASSUME ProxyInv, NEW c \in Conns, NEW n \in RunnerNames, Lookup(c), SourceRuns(c),
             conns'[c].logged = n, n # conns[c].src, Running(n),
             docker[n].id = runners[n].id
      PROVE  FALSE
  <2>1. conns[c].phase = "accepted" /\ conns[c] \in Connection
    BY <1>1 DEF Lookup, ProxyInv
  <2>2. n \in EntriesAt(conns[c].ip)
    <3>1. PICK name \in RunnerNames \cup {Unknown} :
            /\ Attributed(conns[c].ip, name)
            /\ conns' = [conns EXCEPT ![c] = [conns[c] EXCEPT !.logged = name,
                                                             !.phase = "forward"]]
      BY <1>1 DEF Lookup
    <3>2. conns'[c].logged = name
      BY <1>1, <2>1, <3>1 DEF ProxyInv, Connection
    <3> QED BY <1>1, <3>1, <3>2, ProxyAssumption DEF Attributed
  <2>3. runners[n].ip = docker[n].ip /\ runners[n].ip = conns[c].ip
    BY <1>1, <2>2 DEF EntriesAt, ProxyInv, AddressInv, KnownAddress
  <2> QED BY <1>1, <2>1, <2>3, AddressOfSource DEF ProxyInv, AddressInv, OwnAddress
<1>2. ProxyInv => (\A c \in Conns, n \in RunnerNames :
                      /\ Lookup(c) /\ SourceRuns(c)
                      /\ conns'[c].logged = n /\ n # conns[c].src
                      => ~(Running(n) /\ docker[n].id = runners[n].id))
  BY <1>1
<1> QED BY <1>2, ProxyInvariant, PTL DEF NeverNamesAnother

(* Once the store has a runner, no connection of it is logged as an        *)
(* unknown runner's while it runs.                                         *)
THEOREM TrackedCorrect == ProxySpec => TrackedNotUnknown
<1>1. ASSUME ProxyInv, NEW c \in Conns, Lookup(c), SourceRuns(c),
             runners[conns[c].src].status # "absent",
             runners[conns[c].src].id = conns[c].id,
             conns'[c].logged = Unknown
      PROVE  FALSE
  <2>1. conns[c].phase = "accepted" /\ conns[c] \in Connection
    BY <1>1 DEF Lookup, ProxyInv
  <2>2. conns[c].src \in EntriesAt(conns[c].ip)
    BY <1>1, <2>1, AddressOfSource
    DEF EntriesAt, SourceRuns, Tracked, ProxyInv, AddressInv, KnownAddress
  <2>3. PICK name \in RunnerNames \cup {Unknown} :
          /\ Attributed(conns[c].ip, name)
          /\ conns' = [conns EXCEPT ![c] = [conns[c] EXCEPT !.logged = name,
                                                           !.phase = "forward"]]
    BY <1>1 DEF Lookup
  <2>4. conns'[c].logged = name
    BY <1>1, <2>1, <2>3 DEF ProxyInv, Connection
  <2> QED BY <1>1, <2>2, <2>3, <2>4, ProxyAssumption DEF Attributed, EntriesAt
<1>2. ProxyInv => (\A c \in Conns :
                      /\ Lookup(c) /\ SourceRuns(c)
                      /\ runners[conns[c].src].status # "absent" /\ runners[conns[c].src].id = conns[c].id
                      => conns'[c].logged # Unknown)
  BY <1>1
<1> QED BY <1>2, ProxyInvariant, PTL DEF TrackedNotUnknown
=============================================================================
