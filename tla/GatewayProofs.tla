--------------------------- MODULE GatewayProofs ---------------------------
(***************************************************************************)
(* Theorems of the processes that run the scaler, for any number of starts *)
(* and under every fault: signals, crashes and failed calls at any point.  *)
(***************************************************************************)
EXTENDS Gateway, DeliveryProofs

(* What a process leaves has the types of a start. *)
LEMMA TypeProcessEnds ==
  ASSUME GatewayTypeOK, ProcessEnds
  PROVE  TypeOK'
<1>1. Cardinality(Jobs) \in Nat /\ MaxRunners \in Nat
  BY ScalerAssumption, FS_CardinalityType
<1>2. /\ NewStore \in [RunnerNames -> RunnerInfo] /\ NoMessage \in Message /\ NoCall \in Call
      /\ NoReconcile \in [i : Nat, deficit : 0..Cardinality(Jobs), left : SUBSET Jobs]
      /\ NoUsage \in [cpu : BOOLEAN, mem : BOOLEAN]
  BY <1>1 DEF NewStore, Absent, RunnerInfo, RunnerStatus, NoMessage, Message, NoEvents, Events,
     NoCall, Call, NoReconcile, NoUsage
<1> QED BY <1>1, <1>2 DEF ProcessEnds, GatewayTypeOK, TypeOK, githubVars, PC, CallPC

(* The deletion of a scale set keeps the types of GitHub and of Docker. *)
LEMMA TypeScaleSetDeleted ==
  ASSUME TypeOK, ScaleSetDeleted, UNCHANGED <<ctx, scalerVars>>
  PROVE  TypeOK'
<1>1. \A n \in RunnerNames : docker[n] \in Container
  BY DEF TypeOK
<1>2. \A n \in RunnerNames : [docker[n] EXCEPT !.state = "grace"] \in Container
  BY <1>1 DEF Container, ContainerState
<1>3. docker' \in [RunnerNames -> Container]
  BY <1>1, <1>2 DEF ScaleSetDeleted
<1>4. job' \in [Jobs -> JobState]
  BY DEF ScaleSetDeleted, JobState, TypeOK
<1>5. outbox' \in Events /\ inbox' \subseteq Message
  BY DEF ScaleSetDeleted, NoEvents, Events
<1> QED BY <1>3, <1>4, <1>5 DEF TypeOK, ScaleSetDeleted, scalerVars, loopVars, metricVars

(* So does the clean-up of one container. *)
LEMMA TypeStopAll ==
  ASSUME GatewayTypeOK, NEW c \in cleanup, StopAll(c[1], c[2])
  PROVE  TypeOK'
<1>1. c[1] \in RunnerNames /\ docker \in [RunnerNames -> Container]
  BY DEF GatewayTypeOK, ContainerIDs, TypeOK
<1>2. docker' \in [RunnerNames -> Container]
  BY <1>1, DockerTypes DEF StopAll
<1>3. job' \in [Jobs -> JobState] /\ outbox' \in Events
  <2>1. CASE UNCHANGED <<job, outbox>>
    BY <2>1 DEF GatewayTypeOK, TypeOK
  <2>2. CASE JobStopped(c[1]) /\ docker[c[1]].state = "busy"
    <3>1. docker[c[1]].job \in Jobs
      BY <1>1, <2>2 DEF Container
    <3>2. outbox.completed \cup {<<docker[c[1]].job, c[1]>>}
            \subseteq Jobs \X (RunnerNames \cup {NoRunner})
      BY <1>1, <3>1 DEF GatewayTypeOK, TypeOK, Events
    <3>3. /\ job' = [job EXCEPT ![docker[c[1]].job] = "done"]
          /\ outbox' = [outbox EXCEPT !.completed = @ \cup {<<docker[c[1]].job, c[1]>>}]
      BY <2>2 DEF JobStopped
    <3>4. job' \in [Jobs -> JobState]
      BY <3>1, <3>3 DEF GatewayTypeOK, TypeOK, JobState
    <3>5. outbox' \in Events
      <4> DEFINE e == <<docker[c[1]].job, c[1]>>
      <4>1. outbox' = [outbox EXCEPT !.completed = outbox.completed \cup {e}]
        BY <3>3
      <4>2. outbox.completed \cup {e} \subseteq Jobs \X (RunnerNames \cup {NoRunner})
        BY <3>2
      <4> HIDE DEF e
      <4> QED BY <4>1, <4>2, EventTypes DEF GatewayTypeOK, TypeOK
    <3> QED BY <3>4, <3>5
  <2> QED BY <2>1, <2>2 DEF StopAll, JobStopped
<1> QED
  BY <1>2, <1>3 DEF StopAll, GatewayTypeOK, TypeOK, scalerVars, loopVars, metricVars

THEOREM GatewayTypes == GatewaySpec => []GatewayTypeOK
<1>1. GatewayInit => GatewayTypeOK
  <2> SUFFICES ASSUME GatewayInit PROVE GatewayTypeOK
    OBVIOUS
  <2>1. Cardinality(Jobs) \in Nat
    BY ScalerAssumption, FS_CardinalityType
  <2>2. TypeOK
    BY <2>1, ScalerAssumption
    DEF GatewayInit, TypeOK, DockerInit, GitHubInit, NewStore, Absent, NoContainer, Container,
        ContainerState, JobState, NoEvents, Events, NoMessage, Message, NoCall, Call,
        NoReconcile, NoUsage, RunnerInfo, RunnerStatus, PC, CallPC
  <2>3. /\ main \in MainPC /\ command \in {"all", "listener"} /\ starts \in 0..MaxStarts
        /\ setID \in Nat /\ cleanup \subseteq ContainerIDs /\ scaleSet \in Nat
        /\ inherited \subseteq ContainerIDs /\ interrupted \in RunnerNames \cup {NoRunner}
    BY GatewayAssumption DEF GatewayInit, MainPC
  <2>4. signalled \in BOOLEAN /\ session \in BOOLEAN /\ abandoned \in BOOLEAN
    BY DEF GatewayInit
  <2> QED BY <2>2, <2>3, <2>4 DEF GatewayTypeOK
<1>2. GatewayTypeOK /\ [GatewayNext]_gatewayVars => GatewayTypeOK'
  <2> SUFFICES ASSUME GatewayTypeOK, [GatewayNext]_gatewayVars PROVE GatewayTypeOK'
    OBVIOUS
  <2>1. TypeOK /\ MaxStarts \in Nat /\ starts \in 0..MaxStarts
    BY GatewayAssumption DEF GatewayTypeOK
  <2>2. ASSUME UNCHANGED vars PROVE TypeOK'
    BY <2>1, <2>2 DEF TypeOK, vars, scalerVars, loopVars, metricVars, githubVars
  <2> DEFINE Typed == /\ main \in MainPC /\ command \in {"all", "listener"} /\ starts \in 0..MaxStarts
                      /\ signalled \in BOOLEAN /\ setID \in Nat /\ cleanup \subseteq ContainerIDs
                      /\ scaleSet \in Nat /\ session \in BOOLEAN /\ abandoned \in BOOLEAN
                      /\ inherited \subseteq ContainerIDs /\ interrupted \in RunnerNames \cup {NoRunner}
  <2>3. Typed
    BY DEF GatewayTypeOK
  <2>4. ASSUME UNCHANGED <<mainVars, setVars, historyVars>> PROVE Typed'
    BY <2>3, <2>4 DEF mainVars, setVars, historyVars
  <2>5. ASSUME ProcessEnds, scaleSet' \in Nat, session' \in BOOLEAN, abandoned' \in BOOLEAN
        PROVE  GatewayTypeOK'
    <3>1. Typed'
      BY <2>3, <2>5 DEF ProcessEnds, MainPC
    <3> QED BY <2>5, <3>1, TypeProcessEnds DEF GatewayTypeOK
  <2>6. ASSUME NEW next \in MainPC, Goto(next), setID' \in Nat, scaleSet' \in Nat,
               session' \in BOOLEAN, abandoned' \in BOOLEAN
        PROVE  Typed'
    BY <2>3, <2>6 DEF Goto, historyVars
  <2>7. CASE Launch
    <3>1. Present \subseteq ContainerIDs
      BY <2>1 DEF Present, ContainerIDs, TypeOK, Container
    <3>2. Typed'
      BY <2>1, <2>3, <2>7, <3>1 DEF Launch, MainPC, StartUp, setVars
    <3> QED BY <2>2, <2>7, <3>2 DEF Launch, GatewayTypeOK
  <2>8. CASE GetRunnerGroup \/ GetOrCreateScaleSet \/ RecreateScaleSet
    <3>1. Typed'
      BY <2>1, <2>3, <2>6, <2>8
      DEF GetRunnerGroup, GetOrCreateScaleSet, RecreateScaleSet, MainPC, StartUp, setVars
    <3> QED BY <2>2, <2>8, <3>1 DEF GetRunnerGroup, GetOrCreateScaleSet, RecreateScaleSet, GatewayTypeOK
  <2>9. CASE MessageSessionClient
    <3>1. Typed'
      BY <2>3, <2>6, <2>9 DEF MessageSessionClient, MainPC, StartUp
    <3> QED BY <2>2, <2>9, <3>1 DEF MessageSessionClient, GatewayTypeOK
  <2>10. CASE DeleteStaleScaleSet
    <3>1. Typed'
      <4>1. scaleSet' \in Nat /\ session' \in BOOLEAN /\ abandoned' \in BOOLEAN
        <5>1. CASE ScaleSetDeleted
          <6>1. scaleSet' = 0
            BY <5>1 DEF ScaleSetDeleted
          <6>2. session' \in BOOLEAN /\ abandoned' \in BOOLEAN
            BY <5>1 DEF ScaleSetDeleted
          <6> QED BY <6>1, <6>2
        <5>2. CASE UNCHANGED setVars
          BY <2>3, <5>2 DEF setVars
        <5> QED BY <2>10, <5>1, <5>2 DEF DeleteStaleScaleSet
      <4>2. Goto("create") /\ "create" \in MainPC /\ setID' \in Nat
        BY <2>3, <2>10 DEF DeleteStaleScaleSet, MainPC, StartUp
      <4> QED BY <2>6, <4>1, <4>2
    <3>2. TypeOK'
      <4>1. CASE ScaleSetDeleted
        BY <2>1, <2>10, <4>1, TypeScaleSetDeleted DEF DeleteStaleScaleSet
      <4>2. CASE UNCHANGED <<docker, githubVars, setVars>>
        BY <2>2, <2>10, <4>2 DEF DeleteStaleScaleSet, vars
      <4> QED BY <2>10, <4>1, <4>2 DEF DeleteStaleScaleSet
    <3> QED BY <3>1, <3>2 DEF GatewayTypeOK
  <2>11. CASE StartUpFails \/ CloseSession \/ Crash
    BY <2>3, <2>5, <2>11 DEF StartUpFails, CloseSession, Crash, setVars
  <2>12. CASE SetUpFails \/ ListenerReturns
    <3>1. Typed'
      BY <2>3, <2>6, <2>12 DEF SetUpFails, ListenerReturns, MainPC, setVars
    <3> QED BY <2>2, <2>12, <3>1 DEF SetUpFails, ListenerReturns, GatewayTypeOK
  <2>13. CASE StartScaler
    <3>1. Typed'
      BY <2>3, <2>6, <2>13 DEF StartScaler, MainPC, setVars
    <3>2. TypeOK'
      BY <2>1, <2>13 DEF StartScaler, TypeOK, githubVars, loopVars, metricVars, PC, CallPC
    <3> QED BY <3>1, <3>2 DEF GatewayTypeOK
  <2>14. CASE Signal \/ Shutdown
    <3>1. TypeOK'
      BY <2>1, <2>14 DEF Signal, Shutdown, TypeOK, githubVars, scalerVars, loopVars, metricVars
    <3>2. call.name \in RunnerNames \cup {NoRunner}
      BY <2>1 DEF TypeOK, Call
    <3>3. Typed'
      BY <2>3, <2>14, <3>2 DEF Signal, Shutdown, MainPC, setVars, historyVars
    <3> QED BY <3>1, <3>3 DEF GatewayTypeOK
  <2>15. CASE StoreAll
    <3>1. {<<n, runners[n].id>> : n \in {m \in RunnerNames : Tracked(runners, m)}} \subseteq ContainerIDs
      BY <2>1 DEF TypeOK, RunnerInfo, ContainerIDs
    <3>2. Typed'
      BY <2>3, <2>15, <3>1 DEF StoreAll, MainPC, setVars, historyVars
    <3> QED BY <2>2, <2>15, <3>2 DEF StoreAll, GatewayTypeOK
  <2>16. ASSUME NEW c \in cleanup, StopAll(c[1], c[2]) PROVE GatewayTypeOK'
    <3>1. Typed'
      BY <2>3, <2>16 DEF StopAll, setVars, historyVars
    <3> QED BY <2>16, <3>1, TypeStopAll DEF GatewayTypeOK
  <2>17. CASE (ScalerStep \/ Environment) /\ UNCHANGED <<mainVars, setVars, historyVars>>
    BY <2>1, <2>4, <2>17, TypeScaler, TypeEnvironment DEF GatewayTypeOK
  <2>18. CASE UNCHANGED gatewayVars
    BY <2>2, <2>4, <2>18 DEF gatewayVars, GatewayTypeOK
  <2> QED
    BY <2>7, <2>8, <2>9, <2>10, <2>11, <2>12, <2>13, <2>14, <2>15, <2>16, <2>17, <2>18
    DEF GatewayNext, MainStep
<1> QED BY <1>1, <1>2, PTL DEF GatewaySpec
-----------------------------------------------------------------------------
(* What main knows of GitHub's scale set at each of its calls.             *)
Serving == {"setup", "serve", "snapshot", "stop", "close"}

SessionInv ==
  /\ main \in {"session", "session2"} => setID = scaleSet
  /\ main \in Serving => setID = scaleSet /\ session
  /\ pc # "returned" => main \in Serving
  /\ session /\ main \in StartUp \cup {"off"} => abandoned

LEMMA SessionInvHolds == GatewaySpec => []SessionInv
<1>1. GatewayInit => SessionInv
  BY DEF GatewayInit, SessionInv, Serving
<1>2. SessionInv /\ [GatewayNext]_gatewayVars => SessionInv'
  <2> SUFFICES ASSUME SessionInv, [GatewayNext]_gatewayVars PROVE SessionInv'
    OBVIOUS
  <2> USE DEF SessionInv, Serving, StartUp, setVars
  <2>1. CASE Launch \/ GetRunnerGroup \/ GetOrCreateScaleSet \/ MessageSessionClient
    BY <2>1 DEF Launch, GetRunnerGroup, GetOrCreateScaleSet, MessageSessionClient, Goto, vars,
       scalerVars
  <2>2. CASE DeleteStaleScaleSet \/ RecreateScaleSet \/ StartUpFails
    BY <2>2 DEF DeleteStaleScaleSet, ScaleSetDeleted, RecreateScaleSet, StartUpFails, ProcessEnds,
       Goto, vars, scalerVars
  <2>3. CASE StartScaler \/ SetUpFails \/ ListenerReturns
    BY <2>3 DEF StartScaler, SetUpFails, ListenerReturns, Goto, vars, scalerVars
  <2>4. CASE Shutdown \/ StoreAll \/ Signal
    BY <2>4 DEF Shutdown, StoreAll, Signal, vars, scalerVars
  <2>5. CASE \E c \in cleanup : StopAll(c[1], c[2])
    BY <2>5 DEF StopAll, scalerVars
  <2>6. CASE CloseSession \/ Crash
    BY <2>6 DEF CloseSession, Crash, ProcessEnds, StoppedAll
  <2>7. CASE (ScalerStep \/ Environment) /\ UNCHANGED <<mainVars, setVars, historyVars>>
    <3>1. pc = "returned" => pc' = "returned"
      <4>1. CASE ScalerStep
        BY <4>1 DEF ScalerStep, RunReturns, Poll, GetMessage, GetMessageNothing, DeleteMessage,
           GenerateJitRunnerConfig, StartRunner, RunnerProvisioned, HandleJobAssigned,
           HandleJobStarted, HandleJobCompleted, Collect, Record, StopRunner, RunnerForgotten,
           Reconcile, ReconcileRunner, ReconcileDone, ContainerCreate, ContainerCreateFails,
           ContainerStart, ContainerStartFails, ContainerDiscard, ContainerInspect, ContainerInspectFails,
           ContainerStop, ContainerRemove
      <4> QED BY <2>7, <4>1 DEF Environment, scalerVars
    <3> QED BY <2>7, <3>1 DEF mainVars
  <2>8. CASE UNCHANGED gatewayVars
    BY <2>8 DEF gatewayVars, mainVars, vars, scalerVars
  <2> QED
    BY <2>1, <2>2, <2>3, <2>4, <2>5, <2>6, <2>7, <2>8 DEF GatewayNext, MainStep
<1> QED BY <1>1, <1>2, PTL DEF GatewaySpec

(* JIT configurations are requested for the scale set that exists.         *)
THEOREM ScaleSetCurrent == GatewaySpec => []CurrentScaleSet
<1>1. SessionInv => CurrentScaleSet
  BY DEF SessionInv, CurrentScaleSet, Serving
<1> QED BY <1>1, SessionInvHolds, PTL

(* A set that is deleted has no open session but one that a process left:  *)
(* it crashed with it, or failed to close it.  With no session open, an    *)
(* error was misread for a conflict.                                       *)
THEOREM OnlyAbandonedDeleted == GatewaySpec => DeletesOnlyAbandoned
<1>1. SessionInv /\ [GatewayNext]_gatewayVars 
        => [DeleteStaleScaleSet /\ session => abandoned]_gatewayVars
  BY DEF SessionInv, DeleteStaleScaleSet, StartUp
<1> QED BY <1>1, SessionInvHolds, PTL DEF GatewaySpec, DeletesOnlyAbandoned
-----------------------------------------------------------------------------
(* What GitHub and the processes still have to say.  A process starts at   *)
(* message 0, so that a letter that was received but not deleted is read   *)
(* again by the next one: Letters has all of the inbox.                    *)
Letters == inbox \cup {msg, Draft}

AssignedBy == AssignedIn(Letters)
EndedBy == CompletedIn(Letters)

(* The JobAssigned of j is still to be made or to be handled.              *)
Coming(j) == job[j] = "queued" \/ AssignedBy[j] # {}

(* A JobCompleted is on its way that names the runner n.                   *)
Told(n) == \E k \in Jobs : EndedBy[k][n] # {}

(* The container n has, or is about to have, a runner that takes jobs.     *)
Going(n) ==
  \/ docker[n].state \in {"idle", "busy"}
  \/ docker[n].state = "created" /\ pc \in {"start", "discard"} /\ call.name = n

(* A process without a scaler has nothing in memory; the ids of messages   *)
(* grow; while the context lives, a message is deleted before it is        *)
(* handled.                                                                *)
MailInv ==
  /\ main \notin {"serve", "snapshot", "stop", "close"} =>
       pc = "returned" /\ handled = {} /\ msg = NoMessage
  /\ msg.id < nextID /\ lastMessageID < nextID
  /\ \A m \in inbox : m.id > 0 /\ m.id < nextID
  /\ Live /\ pc # "ack" => \A m \in inbox : m.id # msg.id
  /\ main \in {"snapshot", "stop"} => ~Live

(* Only a job whose JobAssigned this process handled gets a runner of its  *)
(* own, and a container it has not started yet nobody else touches.        *)
CallInv ==
  /\ pending \subseteq handled /\ rec.left \subseteq handled
  /\ pc \in ProvisionPC => \A j \in Jobs : call.name = OwnRunner(j) => j \in handled
  /\ pc \in {"start", "discard"} /\ Live => docker[call.name].state = "created"

(* A job is assigned once, its runner is made after that, and what is told *)
(* of a runner is told when it takes jobs no more.  As long as the context *)
(* lives, the process that handled the JobAssigned reads one JobCompleted  *)
(* of the runner at most, and removes the container after it.              *)
JobSafe(j) ==
  LET n == OwnRunner(j)
  IN /\ job[j] = "queued" => AssignedBy[j] = {}
     /\ \A a, b \in AssignedBy[j] : a = b
     /\ Going(n) \/ Told(n) => ~Coming(j)
     /\ Told(n) => ~Going(n)
     /\ pc \in Stopping /\ call.name = n => ~Going(n)
     /\ Live /\ j \in handled =>
          /\ ~Coming(j)
          /\ \A k, l \in Jobs : \A a \in EndedBy[k][n], b \in EndedBy[l][n] : k = l /\ a = b
          /\ docker[n].state = "none" => ~Told(n)
          /\ pc \in Stopping /\ call.name = n => ~Told(n)

RestartInv == MailInv /\ CallInv /\ \A j \in Jobs : JobSafe(j)

(* What is left of the letters. *)
Fewer ==
  /\ \A j \in Jobs : AssignedBy'[j] \subseteq AssignedBy[j]
  /\ \A k \in Jobs, n \in RunnerNames : EndedBy'[k][n] \subseteq EndedBy[k][n]

(* Every letter was one before, with at least the same events. *)
LEMMA FewerLetters ==
  ASSUME NEW L1, NEW L2,
         \A m \in L1 : m.events = NoEvents
                         \/ \E x \in L2 : /\ x.id = m.id
                                          /\ m.events.assigned \subseteq x.events.assigned
                                          /\ m.events.completed \subseteq x.events.completed
  PROVE  /\ \A j \in Jobs : AssignedIn(L1)[j] \subseteq AssignedIn(L2)[j]
         /\ \A k \in Jobs, n \in RunnerNames : CompletedIn(L1)[k][n] \subseteq CompletedIn(L2)[k][n]
<1>1. ASSUME NEW j \in Jobs
      PROVE  {m.id : m \in {x \in L1 : j \in x.events.assigned}}
               \subseteq {m.id : m \in {x \in L2 : j \in x.events.assigned}}
  BY DEF NoEvents
<1>2. ASSUME NEW e
      PROVE  {m.id : m \in {x \in L1 : e \in x.events.completed}}
               \subseteq {m.id : m \in {x \in L2 : e \in x.events.completed}}
  BY DEF NoEvents
<1>3. \A j \in Jobs : AssignedIn(L1)[j] \subseteq AssignedIn(L2)[j]
  BY <1>1 DEF AssignedIn
<1>4. \A k \in Jobs, n \in RunnerNames : CompletedIn(L1)[k][n] \subseteq CompletedIn(L2)[k][n]
  BY <1>2 DEF CompletedIn
<1> QED BY <1>3, <1>4

(* No letter is new: nothing is sent, or what is sent was in the draft. *)
LEMMA LettersKept ==
  ASSUME TypeOK, UNCHANGED <<inbox, outbox, nextID, msg>> \/ (MakeMessage /\ msg' = msg)
                   \/ GetMessage \/ DeleteMessage
                   \/ (UNCHANGED <<inbox, outbox, nextID>> /\ msg' = NoMessage)
                   \/ (ScaleSetDeleted /\ msg' = msg)
  PROVE  Fewer
<1> DEFINE Covers(L1, L2) ==
      \A m \in L1 : m.events = NoEvents
                      \/ \E x \in L2 : /\ x.id = m.id
                                       /\ m.events.assigned \subseteq x.events.assigned
                                       /\ m.events.completed \subseteq x.events.completed
<1>1. ASSUME Covers(Letters', Letters) PROVE Fewer
  BY <1>1, FewerLetters DEF Fewer, AssignedBy, EndedBy
<1>2. ASSUME \A m \in Letters' : m \in Letters \/ m.events = NoEvents PROVE Covers(Letters', Letters)
  BY <1>2
<1>3. CASE UNCHANGED <<inbox, outbox, nextID, msg>>
  BY <1>1, <1>2, <1>3 DEF Letters, Draft
<1>4. CASE MakeMessage /\ msg' = msg
  <2>1. PICK stats : inbox' = inbox \cup {[id |-> nextID, events |-> outbox, stats |-> stats]}
    BY <1>4 DEF MakeMessage
  <2> DEFINE m == [id |-> nextID, events |-> outbox, stats |-> stats]
  <2>2. m.id = Draft.id /\ m.events = Draft.events
    BY DEF Draft
  <2>3. Draft'.events = NoEvents
    BY <1>4 DEF MakeMessage, Draft
  <2>4. inbox' = inbox \cup {m}
    BY <2>1
  <2> HIDE DEF m
  <2>5. Letters' = inbox \cup {m, msg, Draft'} /\ Letters = inbox \cup {msg, Draft}
    BY <1>4, <2>4 DEF Letters
  <2>6. Covers(Letters', Letters)
    BY <2>2, <2>3, <2>5
  <2> QED BY <1>1, <2>6
<1>5. CASE GetMessage \/ DeleteMessage
  <2>1. Letters' \subseteq Letters
    BY <1>5 DEF GetMessage, DeleteMessage, Undelivered, Letters, Draft, githubVars, loopVars
  <2> QED BY <1>1, <1>2, <2>1
<1>6. CASE UNCHANGED <<inbox, outbox, nextID>> /\ msg' = NoMessage
  <2>1. \A m \in Letters' : m \in Letters \/ m.events = NoEvents
    BY <1>6 DEF Letters, Draft, NoMessage
  <2> QED BY <1>1, <1>2, <2>1
<1>7. CASE ScaleSetDeleted /\ msg' = msg
  <2>1. Draft'.events = NoEvents /\ Letters' = {msg, Draft'}
    BY <1>7 DEF ScaleSetDeleted, Letters, Draft
  <2>2. \A m \in Letters' : m \in Letters \/ m.events = NoEvents
    BY <2>1 DEF Letters
  <2> QED BY <1>1, <1>2, <2>2
<1> QED BY <1>3, <1>4, <1>5, <1>6, <1>7

(* A new event goes into the draft. *)
LEMMA LetterGrows ==
  ASSUME TypeOK, UNCHANGED <<inbox, nextID, msg>>, NEW j \in Jobs
  PROVE  /\ outbox' = [outbox EXCEPT !.assigned = @ \cup {j}]
              => JobGains(AssignedBy', AssignedBy, j, nextID) /\ EndedBy' = EndedBy
         /\ \A n \in RunnerNames \cup {NoRunner} :
              outbox' = [outbox EXCEPT !.completed = @ \cup {<<j, n>>}]
                => /\ RunGains(EndedBy', EndedBy, RunnerNames \cup {NoRunner}, j, n, nextID)
                   /\ AssignedBy' = AssignedBy
         /\ \A n \in RunnerNames :
              outbox' = [outbox EXCEPT !.started = @ \cup {<<j, n>>}]
                => AssignedBy' = AssignedBy /\ EndedBy' = EndedBy
<1> DEFINE rest == inbox \cup {msg}
           d == Draft
           d2 == Draft'
<1>1. Letters = rest \cup {d} /\ Letters' = rest \cup {d2}
  BY DEF Letters
<1>2. /\ d.id = nextID /\ d.events = outbox /\ d2.id = d.id /\ d2.events = outbox'
      /\ outbox \in Events
  BY DEF Draft, TypeOK
<1> HIDE DEF rest, d, d2
<1>3. ASSUME outbox' = [outbox EXCEPT !.assigned = @ \cup {j}]
      PROVE  JobGains(AssignedBy', AssignedBy, j, nextID) /\ EndedBy' = EndedBy
  <2>1. /\ Gains(d2.events.assigned, d.events.assigned, j)
        /\ d2.events.completed = d.events.completed
    BY <1>2, <1>3 DEF Events, Gains
  <2>2. JobGains(AssignedIn(rest \cup {d2}), AssignedIn(rest \cup {d}), j, d.id)
    BY <1>2, <2>1, AssignedGains
  <2>3. CompletedIn(rest \cup {d2}) = CompletedIn(rest \cup {d})
    BY <1>2, <2>1, OneChanges
  <2> QED BY <1>1, <1>2, <2>2, <2>3 DEF AssignedBy, EndedBy
<1>4. ASSUME NEW n \in RunnerNames \cup {NoRunner},
             outbox' = [outbox EXCEPT !.completed = @ \cup {<<j, n>>}]
      PROVE  /\ RunGains(EndedBy', EndedBy, RunnerNames \cup {NoRunner}, j, n, nextID)
             /\ AssignedBy' = AssignedBy
  <2>1. /\ Gains(d2.events.completed, d.events.completed, <<j, n>>)
        /\ d2.events.assigned = d.events.assigned
    BY <1>2, <1>4 DEF Events, Gains
  <2>2. RunGains(CompletedIn(rest \cup {d2}), CompletedIn(rest \cup {d}),
               RunnerNames \cup {NoRunner}, j, n, d.id)
    BY <1>2, <2>1, CompletedGains
  <2>3. AssignedIn(rest \cup {d2}) = AssignedIn(rest \cup {d})
    BY <1>2, <2>1, OneChanges
  <2> QED BY <1>1, <1>2, <2>2, <2>3 DEF AssignedBy, EndedBy
<1>5. ASSUME NEW n \in RunnerNames, outbox' = [outbox EXCEPT !.started = @ \cup {<<j, n>>}]
      PROVE  AssignedBy' = AssignedBy /\ EndedBy' = EndedBy
  <2>1. d2.events.assigned = d.events.assigned /\ d2.events.completed = d.events.completed
    BY <1>2, <1>5 DEF Events
  <2> QED BY <1>1, <1>2, <2>1, OneChanges DEF AssignedBy, EndedBy
<1> QED BY <1>3, <1>4, <1>5

(* An event that is handled leaves the message; while the context lives no *)
(* other letter has it.                                                    *)
LEMMA LetterRead ==
  ASSUME TypeOK, MailInv, pc = "dispatch", UNCHANGED <<inbox, outbox, nextID>>, NEW j \in Jobs
  PROVE  /\ msg' = [msg EXCEPT !.events.assigned = @ \ {j}]
              => Fewer /\ (Live => JobLoses(AssignedBy', AssignedBy, j, msg.id))
         /\ \A n \in RunnerNames :
              msg' = [msg EXCEPT !.events.started = @ \ {<<j, n>>}] => Fewer
         /\ \A n \in RunnerNames \cup {NoRunner} :
              msg' = [msg EXCEPT !.events.completed = @ \ {<<j, n>>}]
                => /\ Fewer
                   /\ Live => RunLoses(EndedBy', EndedBy, RunnerNames \cup {NoRunner}, j, n, msg.id)
<1> DEFINE rest == inbox \cup {Draft}
           d == msg
           d2 == msg'
<1>1. Letters = rest \cup {d} /\ Letters' = rest \cup {d2}
  BY DEF Letters, Draft
<1>2. /\ Live => OnlyOne(rest, d)
      /\ d = msg /\ d2 = msg' /\ d \in Message /\ d.events \in Events
  BY DEF Draft, MailInv, TypeOK, Message, OnlyOne
<1> HIDE DEF rest, d, d2
<1>3. ASSUME d2.id = d.id, d2.events.assigned \subseteq d.events.assigned,
             d2.events.completed \subseteq d.events.completed
      PROVE  Fewer
  BY <1>1, <1>3, FewerLetters DEF Fewer, AssignedBy, EndedBy
<1>4. ASSUME msg' = [msg EXCEPT !.events.assigned = @ \ {j}]
      PROVE  Fewer /\ (Live => JobLoses(AssignedBy', AssignedBy, j, msg.id))
  <2>1. /\ Loses(d2.events.assigned, d.events.assigned, j) /\ d2.id = d.id
        /\ d2.events.completed = d.events.completed
    BY <1>2, <1>4 DEF Events, Message, Loses
  <2>2. Live => JobLoses(AssignedIn(rest \cup {d2}), AssignedIn(rest \cup {d}), j, d.id)
    BY <1>2, <2>1, AssignedLoses
  <2>3. Fewer
    BY <1>3, <2>1 DEF Loses
  <2> QED BY <1>1, <1>2, <2>2, <2>3 DEF AssignedBy
<1>5. ASSUME NEW n \in RunnerNames, msg' = [msg EXCEPT !.events.started = @ \ {<<j, n>>}]
      PROVE  Fewer
  <2>1. /\ d2.id = d.id /\ d2.events.assigned = d.events.assigned
        /\ d2.events.completed = d.events.completed
    BY <1>2, <1>5 DEF Events, Message
  <2> QED BY <1>3, <2>1
<1>6. ASSUME NEW n \in RunnerNames \cup {NoRunner},
             msg' = [msg EXCEPT !.events.completed = @ \ {<<j, n>>}]
      PROVE  /\ Fewer
             /\ Live => RunLoses(EndedBy', EndedBy, RunnerNames \cup {NoRunner}, j, n, msg.id)
  <2>1. /\ Loses(d2.events.completed, d.events.completed, <<j, n>>) /\ d2.id = d.id
        /\ d2.events.assigned = d.events.assigned
    BY <1>2, <1>6 DEF Events, Message, Loses
  <2>2. Live => RunLoses(CompletedIn(rest \cup {d2}), CompletedIn(rest \cup {d}),
                         RunnerNames \cup {NoRunner}, j, n, d.id)
    BY <1>2, <2>1, CompletedLoses
  <2>3. Fewer
    BY <1>3, <2>1 DEF Loses
  <2> QED BY <1>1, <1>2, <2>2, <2>3 DEF EndedBy
<1> QED BY <1>4, <1>5, <1>6
-----------------------------------------------------------------------------
(* What the theorems below assume, as long as the context lives: a message *)
(* is deleted, else the next process reads it again; a start that fails    *)
(* started nothing, else its runner may execute a job when it is           *)
(* discarded, or tell of one after the next runner has its name.  And the  *)
(* names of reconcileRunnerCount are not those of jobs, whose ids GitHub   *)
(* makes.                                                                  *)
Acknowledged ==
  Faults \cap {"ack", "startlost"} = {} /\ \A i \in Nat : ReconcileID(i) \notin Jobs

(* The runners of jobs have different names. *)
LEMMA OwnRunners ==
  \A j, k \in Jobs : OwnRunner(j) \in RunnerNames /\ (OwnRunner(j) = OwnRunner(k) => j = k)
  BY ScalerAssumption DEF OwnRunner, RunnerName

LEMMA RestartInit == GatewayInit => RestartInv
<1> SUFFICES ASSUME GatewayInit PROVE RestartInv
  OBVIOUS
<1>1. MailInv /\ CallInv
  BY DEF GatewayInit, GitHubInit, MailInv, CallInv, NoMessage, Live, NoReconcile, ProvisionPC
<1>2. \A m \in Letters : m.events = NoEvents
  BY DEF GatewayInit, GitHubInit, Letters, Draft, NoMessage
<1>3. \A j \in Jobs : AssignedBy[j] = {}
  BY <1>2 DEF AssignedBy, AssignedIn, NoEvents
<1>4. ASSUME NEW j \in Jobs PROVE JobSafe(j)
  <2>1. OwnRunner(j) \in RunnerNames
    BY OwnRunners
  <2>2. \A k \in Jobs : EndedBy[k][OwnRunner(j)] = {}
    BY <1>2, <2>1 DEF EndedBy, CompletedIn, NoEvents
  <2>3. ~Going(OwnRunner(j)) /\ ~Told(OwnRunner(j)) /\ pc \notin Stopping /\ handled = {}
    BY <2>1, <2>2 DEF GatewayInit, DockerInit, NoContainer, Going, Told, Stopping
  <2> QED BY <1>3, <2>3 DEF JobSafe
<1> QED BY <1>1, <1>4 DEF RestartInv

(* The scaler runs while pc is not "returned". *)
LEMMA ScalerRuns == ScalerStep => pc # "returned"
  BY DEF ScalerStep, RunReturns, Poll, GetMessage, GetMessageNothing, DeleteMessage,
     GenerateJitRunnerConfig, StartRunner, RunnerProvisioned, HandleJobAssigned,
     HandleJobStarted, HandleJobCompleted, Collect, Record, StopRunner, RunnerForgotten,
     Reconcile, ReconcileRunner, ReconcileDone, ContainerCreate, ContainerCreateFails,
     ContainerStart, ContainerStartFails, ContainerDiscard, ContainerInspect, ContainerInspectFails,
     ContainerStop, ContainerRemove

(* What a step of main that ends no process does to the scaler. *)
LEMMA MainMoves ==
  ASSUME Launch \/ MainStep \/ Signal, ~ProcessEnds
  PROVE  /\ UNCHANGED <<runners, msg, pending, handled, rec, lastMessageID, call, nextID>>
         /\ pc' = pc \/ (StartScaler /\ main = "setup" /\ pc' = "poll")
         /\ Live' => Live
  BY DEF MainStep, Launch, GetRunnerGroup, GetOrCreateScaleSet, MessageSessionClient,
     DeleteStaleScaleSet, ScaleSetDeleted, RecreateScaleSet, StartUpFails, StartScaler,
     SetUpFails, Shutdown, StoreAll, StopAll, ListenerReturns, CloseSession, Signal, Live,
     vars, githubVars, scalerVars, loopVars

(* The messages of GitHub in a step of main. *)
LEMMA MainLetters ==
  ASSUME Launch \/ MainStep \/ Signal, ~ProcessEnds
  PROVE  \/ inbox' = inbox
         \/ DeleteStaleScaleSet /\ main = "recreate" /\ ScaleSetDeleted
  BY DEF MainStep, Launch, GetRunnerGroup, GetOrCreateScaleSet, MessageSessionClient,
     DeleteStaleScaleSet, RecreateScaleSet, StartUpFails, StartScaler,
     SetUpFails, Shutdown, StoreAll, StopAll, ListenerReturns, CloseSession, Signal,
     vars, githubVars

LEMMA MailStep ==
  ASSUME GatewayTypeOK, MailInv, "ack" \notin Faults, [GatewayNext]_gatewayVars
  PROVE  MailInv'
<1>1. /\ nextID \in Nat \ {0} /\ msg.id \in Nat /\ lastMessageID \in Nat
      /\ \A m \in inbox : m.id \in Nat
  BY DEF GatewayTypeOK, TypeOK, Message
<1>2. CASE ProcessEnds
  BY <1>1, <1>2 DEF ProcessEnds, MailInv, NoMessage, Live, githubVars
<1>3. CASE (Launch \/ MainStep \/ Signal) /\ ~ProcessEnds
  <2>1. /\ UNCHANGED <<msg, handled, lastMessageID, nextID>> /\ inbox' \subseteq inbox
    BY <1>3, MainMoves, MainLetters DEF ScaleSetDeleted
  <2>2. pc' = pc \/ (StartScaler /\ main = "setup" /\ pc' = "poll")
    BY <1>3, MainMoves
  <2>3. main' \notin {"serve", "snapshot", "stop", "close"}
          => main \notin {"serve", "snapshot", "stop", "close"} /\ pc' = pc
    BY <1>3, <2>2 DEF MainStep, Launch, GetRunnerGroup, GetOrCreateScaleSet, MessageSessionClient,
       DeleteStaleScaleSet, RecreateScaleSet, StartUpFails, StartScaler, Goto,
       SetUpFails, Shutdown, StoreAll, StopAll, ListenerReturns, CloseSession, Signal
  <2>4. Live' /\ pc' # "ack" => \A m \in inbox' : m.id # msg'.id
    <3>1. Live' => Live
      BY <1>3, MainMoves
    <3>2. CASE pc' = pc
      BY <2>1, <3>1, <3>2 DEF MailInv
    <3>3. CASE main = "setup"
      BY <2>1, <3>1, <3>3 DEF MailInv
    <3> QED BY <2>2, <3>2, <3>3
  <2>5. main' \in {"snapshot", "stop"} => ~Live'
    BY <1>3 DEF MailInv, MainStep, Launch, GetRunnerGroup, GetOrCreateScaleSet, Live,
       MessageSessionClient, DeleteStaleScaleSet, RecreateScaleSet, StartUpFails, StartScaler, Goto,
       SetUpFails, Shutdown, StoreAll, StopAll, ListenerReturns, CloseSession, Signal, vars
  <2> QED BY <2>1, <2>3, <2>4, <2>5 DEF MailInv
<1>4. CASE Environment /\ UNCHANGED <<mainVars, setVars, historyVars>>
  <2>1. UNCHANGED <<main, pc, ctx, handled, msg, lastMessageID>>
    BY <1>4 DEF Environment, scalerVars, loopVars, mainVars
  <2>2. CASE MakeMessage
    <3>1. PICK stats : inbox' = inbox \cup {[id |-> nextID, events |-> outbox, stats |-> stats]}
      BY <2>2 DEF MakeMessage
    <3>2. \A m \in inbox' : m \in inbox \/ m.id = nextID
      BY <3>1
    <3>3. nextID' = nextID + 1
      BY <2>2 DEF MakeMessage
    <3> QED BY <1>1, <2>1, <3>2, <3>3 DEF MailInv, Live
  <2>3. CASE ~MakeMessage
    <3>1. UNCHANGED <<inbox, nextID>>
      BY <1>4, <2>3 DEF Environment, AssignJob, CancelJob, RunnerTakesJob, RunnerFinishesJob,
         RunnerKilled, JobEnds, GraceEnds, RunnerQuits, githubVars
    <3> QED BY <2>1, <3>1 DEF MailInv, Live
  <2> QED BY <2>2, <2>3
<1>5. CASE ScalerStep /\ UNCHANGED <<mainVars, setVars, historyVars>>
  <2>1. main' = main /\ ctx' = ctx /\ nextID' = nextID
    BY <1>5 DEF mainVars, ScalerStep, RunReturns, Poll, GetMessage, GetMessageNothing, DeleteMessage,
       GenerateJitRunnerConfig, StartRunner, RunnerProvisioned, HandleJobAssigned,
       HandleJobStarted, HandleJobCompleted, Collect, Record, StopRunner, RunnerForgotten,
       Reconcile, ReconcileRunner, ReconcileDone, ContainerDiscard, ContainerStop,
       ContainerRemove, githubVars
  <2>2. main \in {"serve", "snapshot", "stop", "close"}
    BY <1>5, ScalerRuns DEF MailInv
  <2>3. CASE GetMessage
    BY <1>1, <2>1, <2>2, <2>3 DEF GetMessage, Undelivered, MailInv, Live, githubVars
  <2>4. CASE DeleteMessage
    <3>1. /\ pc = "ack" /\ msg' = msg /\ lastMessageID' = msg.id /\ inbox' \subseteq inbox
          /\ Live => inbox' = {m \in inbox : m.id # msg.id}
      BY <2>4 DEF DeleteMessage, loopVars, MayFail
    <3> QED BY <1>1, <2>1, <2>2, <3>1 DEF MailInv, Live
  <2>5. CASE Reconcile
    <3>1. msg' = NoMessage /\ UNCHANGED <<inbox, lastMessageID>>
      BY <2>5 DEF Reconcile, githubVars
    <3> QED BY <1>1, <2>1, <2>2, <3>1 DEF MailInv, Live, NoMessage
  <2>6. CASE ~GetMessage /\ ~DeleteMessage /\ ~Reconcile
    <3>1. /\ UNCHANGED <<inbox, lastMessageID>> /\ pc # "ack"
          /\ msg'.id = msg.id
      <4>1. msg \in Message
        BY DEF GatewayTypeOK, TypeOK
      <4>2. UNCHANGED <<inbox, lastMessageID>> /\ pc # "ack"
        BY <1>5, <2>6 DEF ScalerStep, RunReturns, Poll, GetMessageNothing,
         GenerateJitRunnerConfig, StartRunner, RunnerProvisioned, HandleJobAssigned,
         HandleJobStarted, HandleJobCompleted, Collect, Record, StopRunner, RunnerForgotten,
         ReconcileRunner, ReconcileDone, githubVars, ContainerCreate,
         ContainerCreateFails, ContainerStart, ContainerStartFails, ContainerDiscard, ContainerInspect,
         ContainerInspectFails, ContainerStop, ContainerRemove
      <4>3. msg'.id = msg.id
        <5>1. CASE \E j \in Jobs :
                     HandleJobAssigned(j) \/ (\E n \in RunnerNames : HandleJobStarted(j, n))
                       \/ \E n \in RunnerNames \cup {NoRunner} : HandleJobCompleted(j, n)
          BY <4>1, <5>1 DEF HandleJobAssigned, HandleJobStarted, HandleJobCompleted, Message
        <5> QED BY <1>5, <2>6, <5>1 DEF ScalerStep, RunReturns, Poll, GetMessageNothing,
         GenerateJitRunnerConfig, StartRunner, RunnerProvisioned, Collect, Record, StopRunner,
         RunnerForgotten, ReconcileRunner, ReconcileDone, loopVars
      <4> QED BY <4>2, <4>3
    <3> QED BY <1>1, <2>1, <2>2, <3>1 DEF MailInv, Live
  <2> QED BY <2>3, <2>4, <2>5, <2>6
<1>6. CASE UNCHANGED gatewayVars
  BY <1>6 DEF gatewayVars, vars, githubVars, scalerVars, loopVars, mainVars, MailInv, Live
<1>7. Crash => ProcessEnds
  BY DEF Crash
<1> QED BY <1>2, <1>3, <1>4, <1>5, <1>6, <1>7 DEF GatewayNext
-----------------------------------------------------------------------------
(* The container n lives on: it is neither made nor removed nor started.   *)
Aged(n) ==
  /\ docker'[n].id = docker[n].id
  /\ docker'[n].state = "none" <=> docker[n].state = "none"
  /\ docker'[n].state = "created" <=> docker[n].state = "created"
  /\ docker'[n].state \in {"idle", "busy"} => docker[n].state \in {"idle", "busy"}

(* The container n, if its id is this one, takes no jobs any more. *)
Ended(n, id) ==
  /\ docker[n].id = id /\ docker'[n].id = id
  /\ \/ docker'[n].state = "none"
     \/ docker'[n].state = "exited" /\ docker[n].state \notin {"none", "created"}

LEMMA EnvironmentAges ==
  ASSUME docker \in [RunnerNames -> Container], Environment, NEW n \in RunnerNames
  PROVE  Aged(n)
<1>1. CASE UNCHANGED docker
  BY <1>1 DEF Aged
<1>2. ASSUME NEW m \in RunnerNames, NEW j \in Jobs, RunnerTakesJob(m, j) PROVE Aged(n)
  <2>1. /\ docker[m].state = "idle"
        /\ docker' = [docker EXCEPT ![m] = [docker[m] EXCEPT !.state = "busy", !.job = j]]
    BY <1>2 DEF RunnerTakesJob
  <2>2. docker[m] \in Container
    OBVIOUS
  <2> QED BY <2>1, <2>2 DEF Aged, Container
<1>3. ASSUME NEW m \in RunnerNames, NEW st \in {"grace", "exited"}, NEW ip, JobEnds(m, st, ip)
      PROVE  Aged(n)
  <2>1. /\ docker[m].state = "busy"
        /\ docker' = [docker EXCEPT ![m] = [docker[m] EXCEPT !.state = st, !.ip = ip]]
    BY <1>3 DEF JobEnds
  <2>2. docker[m] \in Container
    OBVIOUS
  <2> QED BY <2>1, <2>2 DEF Aged, Container
<1>4. ASSUME NEW m \in RunnerNames, RunnerFinishesJob(m) \/ RunnerKilled(m) PROVE Aged(n)
  BY <1>3, <1>4 DEF RunnerFinishesJob, RunnerKilled
<1>5. ASSUME NEW m \in RunnerNames, GraceEnds(m) PROVE Aged(n)
  <2>1. docker[m] \in Container
    OBVIOUS
  <2> QED BY <1>5, <2>1 DEF GraceEnds, Aged, Container
<1>6. ASSUME NEW m \in RunnerNames, RunnerQuits(m) PROVE Aged(n)
  <2>1. docker[m] \in Container
    OBVIOUS
  <2> QED BY <1>6, <2>1 DEF RunnerQuits, Aged, Container
<1>7. \/ UNCHANGED docker
      \/ \E m \in RunnerNames, j \in Jobs : RunnerTakesJob(m, j)
      \/ \E m \in RunnerNames : RunnerFinishesJob(m) \/ RunnerKilled(m) \/ GraceEnds(m) \/ RunnerQuits(m)
  BY DEF Environment, AssignJob, CancelJob, MakeMessage
<1> QED BY <1>1, <1>2, <1>4, <1>5, <1>6, <1>7

LEMMA DeletionAges ==
  ASSUME docker \in [RunnerNames -> Container], ScaleSetDeleted, NEW n \in RunnerNames
  PROVE  Aged(n) /\ docker'[n].state \notin {"idle", "busy"}
<1>1. docker[n] \in Container
  OBVIOUS
<1> QED BY <1>1 DEF ScaleSetDeleted, Aged, Container

LEMMA StopEnds ==
  ASSUME docker \in [RunnerNames -> Container], NEW n \in RunnerNames, NEW id,
         StopContainer(n, id) \/ RemoveContainer(n, id)
  PROVE  /\ \A m \in RunnerNames : m # n => docker'[m] = docker[m]
         /\ (docker' = docker /\ ~Running(n) /\ StopContainer(n, id)) \/ Ended(n, id)
<1>1. docker[n] \in Container
  OBVIOUS
<1>2. CASE RemoveContainer(n, id)
  <2>1. docker' = [docker EXCEPT ![n] = [@ EXCEPT !.state = "none", !.ip = NoIP, !.job = NoJob]]
        /\ docker[n].id = id
    BY <1>2 DEF RemoveContainer, Exists
  <2>2. docker'[n].state = "none" /\ docker'[n].id = id
    BY <1>1, <2>1 DEF Container
  <2> QED BY <2>1, <2>2 DEF Ended
<1>3. CASE StopContainer(n, id) /\ Running(n)
  <2>1. docker' = [docker EXCEPT ![n] = [@ EXCEPT !.state = "exited", !.ip = NoIP]]
        /\ docker[n].id = id /\ docker[n].state \notin {"none", "created"}
    BY <1>3 DEF StopContainer, Exists, Running
  <2>2. docker'[n].state = "exited" /\ docker'[n].id = id
    BY <1>1, <2>1 DEF Container
  <2> QED BY <2>1, <2>2 DEF Ended
<1>4. CASE StopContainer(n, id) /\ ~Running(n)
  BY <1>4 DEF StopContainer
<1> QED BY <1>2, <1>3, <1>4

LEMMA CreateMakes ==
  ASSUME docker \in [RunnerNames -> Container], NEW n \in RunnerNames, CreateContainer(n)
  PROVE  /\ \A m \in RunnerNames : m # n => docker'[m] = docker[m]
         /\ docker[n].state = "none" /\ docker'[n].state = "created"
         /\ docker'[n].id = docker[n].id + 1
<1>1. docker[n] \in Container
  OBVIOUS
<1> QED BY <1>1 DEF CreateContainer, Container

LEMMA StartMakes ==
  ASSUME docker \in [RunnerNames -> Container], NEW n \in RunnerNames, StartContainer(n)
  PROVE  /\ \A m \in RunnerNames : m # n => docker'[m] = docker[m]
         /\ docker[n].state = "created" /\ docker'[n].state = "idle"
         /\ docker'[n].id = docker[n].id
<1>1. docker[n] \in Container
  OBVIOUS
<1> QED BY <1>1 DEF StartContainer, Container

(* The containers in a step of main or of a signal. *)
LEMMA MainContainers ==
  ASSUME docker \in [RunnerNames -> Container], Launch \/ MainStep \/ Signal
  PROVE  \/ docker' = docker
         \/ DeleteStaleScaleSet /\ ScaleSetDeleted
         \/ \E c \in cleanup : StopAll(c[1], c[2])
  BY DEF MainStep, Launch, GetRunnerGroup, GetOrCreateScaleSet, MessageSessionClient,
     DeleteStaleScaleSet, RecreateScaleSet, StartUpFails, StartScaler, ProcessEnds,
     SetUpFails, Shutdown, StoreAll, ListenerReturns, CloseSession, Signal, vars

LEMMA CallStep ==
  ASSUME GatewayTypeOK, MailInv, CallInv, Acknowledged, [GatewayNext]_gatewayVars
  PROVE  CallInv'
<1>1. docker \in [RunnerNames -> Container] /\ call \in Call /\ (pc \in CallPC => call.name \in RunnerNames)
  BY DEF GatewayTypeOK, TypeOK
<1>2. CASE ProcessEnds
  BY <1>2 DEF ProcessEnds, CallInv, NoReconcile, ProvisionPC
<1>3. ASSUME UNCHANGED <<pending, handled, rec, call>>, pc' = pc \/ pc' = "poll", Live' => Live,
             Live' /\ pc \in {"start", "discard"} => Aged(call.name)
      PROVE  CallInv'
  BY <1>3 DEF CallInv, ProvisionPC, Aged
<1>4. CASE (Launch \/ MainStep \/ Signal) /\ ~ProcessEnds
  <2>1. ASSUME Live', pc \in {"start", "discard"} PROVE Aged(call.name)
    <3>1. call.name \in RunnerNames /\ Live
      BY <1>1, <1>4, <2>1, MainMoves DEF CallPC
    <3>2. CASE docker' = docker
      BY <3>2 DEF Aged
    <3>3. CASE ScaleSetDeleted
      BY <1>1, <3>1, <3>3, DeletionAges
    <3>4. CASE \E c \in cleanup : StopAll(c[1], c[2])
      BY <3>1, <3>4 DEF StopAll, MailInv
    <3> QED BY <1>1, <1>4, <3>2, <3>3, <3>4, MainContainers
  <2> QED BY <1>3, <1>4, <2>1, MainMoves
<1>5. CASE Environment /\ UNCHANGED <<mainVars, setVars, historyVars>>
  <2>1. pc \in {"start", "discard"} => Aged(call.name)
    BY <1>1, <1>5, EnvironmentAges DEF CallPC
  <2> QED BY <1>3, <1>5, <2>1 DEF Environment, scalerVars, loopVars, Live
<1>6. CASE ScalerStep
  <2>1. CASE RunReturns \/ Poll \/ GetMessage \/ GetMessageNothing \/ DeleteMessage \/ Reconcile
    BY <2>1 DEF RunReturns, Poll, GetMessage, GetMessageNothing, DeleteMessage, Reconcile, CallInv,
       loopVars, ProvisionPC
  <2>2. CASE GenerateJitRunnerConfig \/ RunnerProvisioned
    <3>1. call.ret \in {"dispatch", "reconcile"}
      BY <1>1 DEF Call
    <3> QED
      BY <2>2, <3>1 DEF GenerateJitRunnerConfig, RunnerProvisioned, CallInv, loopVars, ProvisionPC
  <2>3. CASE StartRunner
    <3>1. call.ret \in {"dispatch", "reconcile"} /\ UNCHANGED <<pending, rec, handled>>
      BY <1>1, <2>3 DEF Call, StartRunner, loopVars
    <3>2. /\ pc \in {"create", "start", "discard", "inspect"} /\ call.name \in RunnerNames
          /\ pc' \in {"start", "discard", "inspect", "add"} => call'.name = call.name
          /\ pc' \in {"start", "discard", "inspect", "add"} \cup {"dispatch", "reconcile"}
      BY <1>1, <2>3, <3>1 DEF StartRunner, ContainerCreate, ContainerCreateFails, ContainerStart,
         ContainerStartFails, ContainerDiscard, ContainerInspect, ContainerInspectFails, Call, CallPC
    <3>3. pc' \in {"start", "discard"} /\ Live => docker'[call.name].state = "created"
      <4>1. pc' = "start" => CreateContainer(call.name)
        BY <2>3, <3>1 DEF StartRunner, ContainerCreate, ContainerCreateFails, ContainerStart,
           ContainerStartFails, ContainerDiscard, ContainerInspect, ContainerInspectFails
      <4>2. pc' = "discard" /\ Live => docker' = docker /\ pc = "start"
        BY <2>3, <3>1 DEF StartRunner, ContainerCreate, ContainerCreateFails, ContainerStart,
           ContainerStartFails, ContainerDiscard, ContainerInspect, ContainerInspectFails,
           Acknowledged, MayFail
      <4> QED BY <1>1, <3>2, <4>1, <4>2, CreateMakes DEF CallInv
    <3>4. Live' = Live
      BY <2>3 DEF StartRunner, Live
    <3> QED BY <3>1, <3>2, <3>3, <3>4 DEF CallInv, ProvisionPC
  <2>4. ASSUME NEW j \in Jobs, HandleJobAssigned(j) PROVE CallInv'
    <3>1. /\ pending' = pending \cup {j} /\ handled' = handled \cup {j} /\ rec' = rec
          /\ call'.name = OwnRunner(j) /\ pc' = "jit"
      BY <2>4 DEF HandleJobAssigned, ProvisionRunner, OwnRunner, NoCall
    <3> QED BY <3>1, OwnRunners DEF CallInv
  <2>5. ASSUME NEW j \in Jobs, (\E n \in RunnerNames : HandleJobStarted(j, n))
                                 \/ \E n \in RunnerNames \cup {NoRunner} : HandleJobCompleted(j, n)
        PROVE  CallInv'
    <3>1. /\ pending' \subseteq pending /\ UNCHANGED <<handled, rec>>
          /\ pc' \in {"dispatch", "collectCPU", "stop"}
      BY <2>5 DEF HandleJobStarted, HandleJobCompleted
    <3> QED BY <3>1 DEF CallInv, ProvisionPC
  <2>6. CASE Collect \/ Record \/ StopRunner \/ RunnerForgotten
    BY <2>6 DEF Collect, Record, StopRunner, RunnerForgotten, ContainerStop, ContainerRemove, CallInv,
       loopVars, ProvisionPC
  <2>7. CASE ReconcileRunner
    <3>1. rec \in [i : Nat, deficit : 0..Cardinality(Jobs), left : SUBSET Jobs]
      BY DEF GatewayTypeOK, TypeOK
    <3>2. /\ UNCHANGED <<pending, handled>> /\ rec'.left \subseteq rec.left /\ pc' = "jit"
          /\ \/ \E j \in rec.left : call'.name = OwnRunner(j)
             \/ call'.name = RunnerName(DefaultProfile, ReconcileID(rec.i))
      <4>1. \A n, ret : ProvisionRunner(n, ret) => call'.name = n /\ pc' = "jit"
        BY DEF ProvisionRunner, NoCall
      <4>2. CASE \E j \in rec.left :
                   /\ rec' = [rec EXCEPT !.i = @ + 1, !.left = @ \ {j}]
                   /\ ProvisionRunner(RunnerName(ProfileOf[j], j), "reconcile")
        <5>1. PICK j \in rec.left :
                /\ rec' = [rec EXCEPT !.i = @ + 1, !.left = @ \ {j}]
                /\ ProvisionRunner(RunnerName(ProfileOf[j], j), "reconcile")
          BY <4>2
        <5>2. rec'.left = rec.left \ {j}
          BY <3>1, <5>1
        <5>3. call'.name = OwnRunner(j) /\ pc' = "jit"
          BY <4>1, <5>1 DEF OwnRunner
        <5> QED BY <2>7, <5>2, <5>3 DEF ReconcileRunner
      <4>3. CASE /\ rec' = [rec EXCEPT !.i = @ + 1]
                 /\ ProvisionRunner(RunnerName(DefaultProfile, ReconcileID(rec.i)), "reconcile")
        BY <2>7, <3>1, <4>1, <4>3 DEF ReconcileRunner
      <4> QED BY <2>7, <4>2, <4>3 DEF ReconcileRunner
    <3>3. \A j \in Jobs : RunnerName(DefaultProfile, ReconcileID(rec.i)) # OwnRunner(j)
      BY <3>1 DEF Acknowledged, RunnerName, OwnRunner
    <3> QED BY <3>1, <3>2, <3>3, OwnRunners DEF CallInv
  <2>8. CASE ReconcileDone
    BY <2>8 DEF ReconcileDone, CallInv, NoReconcile, ProvisionPC
  <2> QED
    BY <1>6, <2>1, <2>2, <2>3, <2>4, <2>5, <2>6, <2>7, <2>8 DEF ScalerStep
<1>7. CASE UNCHANGED gatewayVars
  BY <1>7 DEF gatewayVars, vars, scalerVars, loopVars, CallInv, Live
<1>8. Crash => ProcessEnds
  BY DEF Crash
<1> QED BY <1>2, <1>4, <1>5, <1>6, <1>7, <1>8 DEF GatewayNext
-----------------------------------------------------------------------------
(* A step that tells nothing new of j or its runner and starts no runner.  *)
LEMMA JobKept ==
  ASSUME NEW j \in Jobs, NEW n, n = OwnRunner(j), JobSafe(j),
         AssignedBy'[j] \subseteq AssignedBy[j],
         \A k \in Jobs : EndedBy'[k][n] \subseteq EndedBy[k][n],
         job'[j] = "queued" => job[j] = "queued",
         Going(n)' => Going(n),
         Live' /\ j \in handled' => Live /\ j \in handled,
         Live' /\ j \in handled' /\ docker'[n].state = "none" => docker[n].state = "none" \/ ~Told(n),
         pc' \in Stopping /\ call'.name = n => pc \in Stopping /\ call.name = n
  PROVE  JobSafe(j)'
<1>1. (Told(n)' => Told(n)) /\ (Coming(j)' => Coming(j))
  BY DEF Told, Coming
<1>2. /\ job'[j] = "queued" => AssignedBy'[j] = {}
      /\ \A a, b \in AssignedBy'[j] : a = b
  BY DEF JobSafe
<1>3. /\ Going(n)' \/ Told(n)' => ~Coming(j)'
      /\ Told(n)' => ~Going(n)'
      /\ pc' \in Stopping /\ call'.name = n => ~Going(n)'
  BY <1>1 DEF JobSafe
<1>4. Live' /\ j \in handled' =>
        /\ ~Coming(j)'
        /\ \A k, l \in Jobs : \A a \in EndedBy'[k][n], b \in EndedBy'[l][n] : k = l /\ a = b
        /\ docker'[n].state = "none" => ~Told(n)'
        /\ pc' \in Stopping /\ call'.name = n => ~Told(n)'
  BY <1>1 DEF JobSafe
<1>5. n = OwnRunner(j)'
  BY DEF OwnRunner, RunnerName
<1> QED BY <1>2, <1>3, <1>4, <1>5 DEF JobSafe

(* The job of a container ends, and what is left of it takes no jobs. *)
LEMMA JobAtEnd ==
  ASSUME NEW j \in Jobs, JobSafe(j), NEW k \in Jobs, NEW m \in RunnerNames,
         docker[m].state = "busy", docker'[m].state \in {"grace", "exited", "none"},
         docker'[m].state = "none" => ~Live \/ (pc \in Stopping /\ call.name = m),
         \A l \in RunnerNames : l # m => docker'[l] = docker[l],
         RunGains(EndedBy', EndedBy, RunnerNames \cup {NoRunner}, k, m, nextID),
         AssignedBy' = AssignedBy, job'[j] = "queued" => job[j] = "queued",
         UNCHANGED <<ctx, call, handled>>, pc' = pc \/ {pc, pc'} \subseteq Stopping
  PROVE  JobSafe(j)'
<1>1. PICK n \in RunnerNames : n = OwnRunner(j) /\ n = OwnRunner(j)'
  BY OwnRunners DEF OwnRunner, RunnerName
<1>2. CASE n # m
  <2>1. \A l \in Jobs : EndedBy'[l][n] = EndedBy[l][n]
    BY <1>1, <1>2 DEF RunGains
  <2>2. docker'[n] = docker[n]
    BY <1>1, <1>2
  <2>3. Going(n)' => Going(n)
    BY <2>2 DEF Going, Stopping
  <2> QED BY <1>1, <2>1, <2>2, <2>3, JobKept DEF Live
<1>3. CASE n = m
  <2>1. Going(n) /\ ~Going(n)'
    BY <1>3 DEF Going
  <2>2. ~Told(n) /\ ~Coming(j) /\ ~(pc \in Stopping /\ call.name = n)
    BY <1>1, <2>1 DEF JobSafe
  <2>3. \A l \in Jobs : \A a \in EndedBy'[l][n] : l = k /\ a = nextID
    <3>1. \A l \in Jobs : EndedBy[l][n] = {}
      BY <2>2 DEF Told
    <3>2. \A l \in Jobs : l # k => EndedBy'[l][n] = EndedBy[l][n]
      BY <1>1 DEF RunGains
    <3>3. EndedBy'[k][n] = EndedBy[k][n] \cup {nextID}
      BY <1>3 DEF RunGains
    <3> HIDE DEF EndedBy
    <3> QED BY <3>1, <3>2, <3>3
  <2>4. ~Coming(j)'
    BY <2>2 DEF Coming
  <2>5. Live' = Live
    BY DEF Live
  <2>6. \A l, i \in Jobs : \A a \in EndedBy'[l][n], b \in EndedBy'[i][n] : l = i /\ a = b
    BY <2>3
  <2> QED BY <1>1, <1>3, <2>1, <2>2, <2>4, <2>5, <2>6 DEF JobSafe, Coming
<1> QED BY <1>2, <1>3

(* A process that ends takes nothing with it but what was in memory. *)
LEMMA JobProcessEnds ==
  ASSUME GatewayTypeOK, NEW j \in Jobs, JobSafe(j), ProcessEnds
  PROVE  JobSafe(j)'
<1>1. PICK n \in RunnerNames : n = OwnRunner(j)
  BY OwnRunners
<1>2. Fewer
  BY LettersKept DEF ProcessEnds, githubVars, GatewayTypeOK
<1>3. docker' = docker /\ job' = job /\ handled' = {} /\ pc' = "returned"
  BY DEF ProcessEnds, githubVars
<1> QED BY <1>1, <1>2, <1>3, JobKept DEF Fewer, Going, Stopping

(* With the scale set all letters go, and no runner of it takes jobs.      *)
LEMMA JobScaleSetDeleted ==
  ASSUME GatewayTypeOK, MailInv, NEW j \in Jobs, ScaleSetDeleted, main = "recreate",
         UNCHANGED <<ctx, scalerVars>>
  PROVE  JobSafe(j)'
<1>1. PICK n \in RunnerNames : n = OwnRunner(j) /\ n = OwnRunner(j)'
  BY OwnRunners DEF OwnRunner, RunnerName
<1>2. /\ msg' = NoMessage /\ handled' = {} /\ pc' = "returned"
      /\ Draft'.events = NoEvents /\ inbox' = {}
  BY DEF MailInv, ScaleSetDeleted, scalerVars, loopVars, Draft
<1>3. \A m \in Letters' : m.events = NoEvents
  BY <1>2 DEF Letters, NoMessage
<1>4. AssignedBy'[j] = {} /\ \A k \in Jobs : EndedBy'[k][n] = {}
  BY <1>3 DEF AssignedBy, AssignedIn, EndedBy, CompletedIn, NoEvents
<1>5. docker'[n].state \notin {"idle", "busy"}
  BY DeletionAges DEF GatewayTypeOK, TypeOK
<1>6. ~Going(n)' /\ ~Told(n)' /\ pc' \notin Stopping
  BY <1>2, <1>4, <1>5 DEF Going, Told, Stopping
<1> QED BY <1>1, <1>2, <1>4, <1>6 DEF JobSafe

(* Who stops or removes m, and ends its job, is StopAll, when the context  *)
(* is done, or StopRunner.                                                 *)
LEMMA JobWhenStopped ==
  ASSUME TypeOK, NEW j \in Jobs, JobSafe(j), NEW m \in RunnerNames, NEW id,
         RemoveContainer(m, id) \/ StopContainer(m, id), JobStopped(m),
         UNCHANGED <<inbox, nextID, msg, ctx, call, handled>>,
         pc' = pc \/ {pc, pc'} \subseteq Stopping, ~Live \/ (pc \in Stopping /\ call.name = m)
  PROVE  JobSafe(j)'
<1>1. PICK n \in RunnerNames : n = OwnRunner(j)
  BY OwnRunners
<1>2. docker \in [RunnerNames -> Container] /\ job \in [Jobs -> JobState] /\ Live' = Live
  BY DEF TypeOK, Live
<1>3. /\ \A l \in RunnerNames : l # m => docker'[l] = docker[l]
      /\ (docker' = docker /\ ~Running(m)) \/ Ended(m, id)
  BY <1>2, StopEnds
<1>4. CASE docker[m].state # "busy"
  <2>1. UNCHANGED <<job, outbox>>
    BY <1>4 DEF JobStopped
  <2>2. Fewer
    BY <2>1, LettersKept
  <2>3. Going(n)' => Going(n)
    BY <1>3 DEF Going, Ended, Stopping
  <2>4. Live /\ j \in handled /\ docker'[n].state = "none" => docker[n].state = "none" \/ ~Told(n)
    BY <1>1, <1>3 DEF JobSafe
  <2> QED BY <1>1, <1>2, <2>1, <2>2, <2>3, <2>4, JobKept DEF Fewer
<1>5. CASE docker[m].state = "busy"
  <2>1. docker[m].job \in Jobs
    <3>1. docker[m] \in Container
      BY <1>2
    <3> QED BY <1>5, <3>1 DEF Container
  <2>2. PICK k \in Jobs : k = docker[m].job
    BY <2>1
  <2>3. /\ job' = [job EXCEPT ![k] = "done"]
        /\ outbox' = [outbox EXCEPT !.completed = @ \cup {<<k, m>>}]
    BY <1>5, <2>2 DEF JobStopped
  <2>4. /\ RunGains(EndedBy', EndedBy, RunnerNames \cup {NoRunner}, k, m, nextID)
        /\ AssignedBy' = AssignedBy
    BY <2>3, LetterGrows
  <2>5. docker'[m].state \in {"grace", "exited", "none"}
    BY <1>3, <1>5 DEF Ended, Running
  <2>6. job'[j] = "queued" => job[j] = "queued"
    BY <1>2, <2>3
  <2> QED BY <1>3, <1>5, <2>4, <2>5, <2>6, JobAtEnd
<1> QED BY <1>4, <1>5

LEMMA JobStopAll ==
  ASSUME GatewayTypeOK, MailInv, NEW j \in Jobs, JobSafe(j), NEW c \in cleanup, StopAll(c[1], c[2])
  PROVE  JobSafe(j)'
<1>1. PICK n \in RunnerNames : n = OwnRunner(j)
  BY OwnRunners
<1>2. PICK m \in RunnerNames : m = c[1]
  BY DEF GatewayTypeOK, ContainerIDs
<1>3. UNCHANGED <<inbox, nextID, msg, pc, ctx, call, handled>> /\ ~Live /\ TypeOK
  BY DEF StopAll, MailInv, scalerVars, loopVars, GatewayTypeOK
<1>4. CASE UNCHANGED <<docker, job, outbox>>
  BY <1>1, <1>3, <1>4, JobKept, LettersKept DEF Fewer, Going, Live
<1>5. CASE (RemoveContainer(m, c[2]) \/ StopContainer(m, c[2])) /\ JobStopped(m)
  BY <1>3, <1>5, JobWhenStopped
<1> QED BY <1>2, <1>4, <1>5 DEF StopAll

(* The steps of main and the signal. *)
LEMMA JobMain ==
  ASSUME GatewayTypeOK, MailInv, NEW j \in Jobs, JobSafe(j), Launch \/ MainStep \/ Signal,
         ~ProcessEnds
  PROVE  JobSafe(j)'
<1>1. PICK n \in RunnerNames : n = OwnRunner(j)
  BY OwnRunners
<1>2. CASE DeleteStaleScaleSet /\ ScaleSetDeleted
  BY <1>2, JobScaleSetDeleted DEF DeleteStaleScaleSet
<1>3. CASE \E c \in cleanup : StopAll(c[1], c[2])
  BY <1>3, JobStopAll
<1>4. CASE /\ ~(DeleteStaleScaleSet /\ ScaleSetDeleted)
           /\ ~\E c \in cleanup : StopAll(c[1], c[2])
  <2>1. UNCHANGED <<docker, githubVars>>
    BY <1>4 DEF MainStep, Launch, GetRunnerGroup, GetOrCreateScaleSet, MessageSessionClient,
       DeleteStaleScaleSet, RecreateScaleSet, StartUpFails, StartScaler, ProcessEnds,
       SetUpFails, Shutdown, StoreAll, ListenerReturns, CloseSession, Signal, vars
  <2>2. UNCHANGED <<handled, msg, call>> /\ (pc' = pc \/ pc' = "poll") /\ (Live' => Live)
    BY MainMoves
  <2>3. Fewer
    BY <2>1, <2>2, LettersKept DEF githubVars, GatewayTypeOK
  <2>4. job' = job
    BY <2>1 DEF githubVars
  <2> QED BY <1>1, <2>1, <2>2, <2>3, <2>4, JobKept DEF Fewer, Going, Stopping
<1> QED BY <1>2, <1>3, <1>4

(* GitHub and the runners. *)
LEMMA JobEnvironment ==
  ASSUME GatewayTypeOK, NEW j \in Jobs, JobSafe(j), Environment
  PROVE  JobSafe(j)'
<1>1. PICK n \in RunnerNames : n = OwnRunner(j) /\ n = OwnRunner(j)'
  BY OwnRunners DEF OwnRunner, RunnerName
<1>2. /\ UNCHANGED <<msg, pc, ctx, call, handled>>
      /\ docker \in [RunnerNames -> Container] /\ job \in [Jobs -> JobState] /\ TypeOK
      /\ Live' = Live
  BY DEF Environment, scalerVars, loopVars, GatewayTypeOK, TypeOK, Live
<1>3. Aged(n)
  BY <1>2, EnvironmentAges
<1>4. ASSUME AssignedBy'[j] \subseteq AssignedBy[j],
             \A k \in Jobs : EndedBy'[k][n] \subseteq EndedBy[k][n],
             job'[j] = "queued" => job[j] = "queued"
      PROVE  JobSafe(j)'
  BY <1>1, <1>2, <1>3, <1>4, JobKept DEF Aged, Going
<1>5. ASSUME NEW i \in Jobs, AssignJob(i) PROVE JobSafe(j)'
  <2>1. /\ JobGains(AssignedBy', AssignedBy, i, nextID) /\ EndedBy' = EndedBy
        /\ job[i] = "queued" /\ job' = [job EXCEPT ![i] = "assigned"] /\ docker' = docker
    BY <1>2, <1>5, LetterGrows DEF AssignJob
  <2>2. CASE i # j
    BY <1>2, <1>4, <2>1, <2>2 DEF JobGains
  <2>3. CASE i = j
    <3>1. Coming(j) /\ AssignedBy[j] = {}
      BY <2>1, <2>3 DEF Coming, JobSafe
    <3>2. ~Going(n) /\ ~Told(n) /\ ~(Live /\ j \in handled)
      BY <1>1, <3>1 DEF JobSafe
    <3>3. ~Going(n)' /\ ~Told(n)'
      BY <1>2, <2>1, <3>2 DEF Going, Told
    <3>4. job'[j] = "assigned" /\ AssignedBy'[j] = {nextID}
      BY <1>2, <2>1, <2>3, <3>1 DEF JobGains
    <3> QED BY <1>1, <1>2, <3>2, <3>3, <3>4 DEF JobSafe
  <2> QED BY <2>2, <2>3
<1>6. ASSUME NEW i \in Jobs, CancelJob(i) PROVE JobSafe(j)'
  <2>1. /\ RunGains(EndedBy', EndedBy, RunnerNames \cup {NoRunner}, i, NoRunner, nextID)
        /\ AssignedBy' = AssignedBy /\ job' = [job EXCEPT ![i] = "done"]
    BY <1>2, <1>6, LetterGrows DEF CancelJob
  <2>2. \A k \in Jobs : EndedBy'[k][n] = EndedBy[k][n]
    BY <2>1, ScalerAssumption DEF RunGains
  <2> QED BY <1>2, <1>4, <2>1, <2>2
<1>7. CASE MakeMessage
  BY <1>1, <1>2, <1>4, <1>7, LettersKept DEF Fewer, MakeMessage
<1>8. ASSUME NEW m \in RunnerNames, NEW i \in Jobs, RunnerTakesJob(m, i) PROVE JobSafe(j)'
  <2>1. AssignedBy' = AssignedBy /\ EndedBy' = EndedBy /\ job' = [job EXCEPT ![i] = "running"]
    BY <1>2, <1>8, LetterGrows DEF RunnerTakesJob
  <2> QED BY <1>2, <1>4, <2>1
<1>9. ASSUME NEW m \in RunnerNames, NEW st \in {"grace", "exited"}, NEW ip, JobEnds(m, st, ip)
      PROVE  JobSafe(j)'
  <2>1. /\ docker[m].state = "busy"
        /\ docker' = [docker EXCEPT ![m] = [docker[m] EXCEPT !.state = st, !.ip = ip]]
        /\ job' = [job EXCEPT ![docker[m].job] = "done"]
        /\ outbox' = [outbox EXCEPT !.completed = @ \cup {<<docker[m].job, m>>}]
        /\ UNCHANGED <<inbox, nextID>>
    BY <1>9 DEF JobEnds
  <2>2. docker[m] \in Container
    BY <1>2
  <2>3. PICK k \in Jobs : k = docker[m].job
    BY <2>1, <2>2 DEF Container
  <2>4. outbox' = [outbox EXCEPT !.completed = @ \cup {<<k, m>>}]
    BY <2>1, <2>3
  <2>5. /\ RunGains(EndedBy', EndedBy, RunnerNames \cup {NoRunner}, k, m, nextID)
        /\ AssignedBy' = AssignedBy
    BY <1>2, <2>1, <2>4, LetterGrows
  <2>6. /\ docker'[m].state \in {"grace", "exited"}
        /\ \A l \in RunnerNames : l # m => docker'[l] = docker[l]
    BY <1>2, <2>1, <2>2 DEF Container
  <2>7. job'[j] = "queued" => job[j] = "queued"
    BY <1>2, <2>1, <2>3
  <2> QED BY <1>2, <2>1, <2>5, <2>6, <2>7, JobAtEnd
<1>10. ASSUME NEW m \in RunnerNames, RunnerFinishesJob(m) \/ RunnerKilled(m) PROVE JobSafe(j)'
  BY <1>9, <1>10 DEF RunnerFinishesJob, RunnerKilled
<1>11. ASSUME NEW m \in RunnerNames, GraceEnds(m) \/ RunnerQuits(m) PROVE JobSafe(j)'
  <2>1. UNCHANGED githubVars
    BY <1>11 DEF GraceEnds, RunnerQuits
  <2>2. Fewer
    BY <1>2, <2>1, LettersKept DEF githubVars
  <2> QED BY <1>1, <1>4, <2>1, <2>2 DEF Fewer, githubVars
<1> QED BY <1>5, <1>6, <1>7, <1>8, <1>10, <1>11 DEF Environment

(* The calls of Docker.  A container is made for a job that this process   *)
(* handled, when nothing is told of an earlier one.                        *)
LEMMA JobContainers ==
  ASSUME GatewayTypeOK, MailInv, CallInv, Acknowledged, NEW j \in Jobs, JobSafe(j),
         StartRunner \/ StopRunner
  PROVE  JobSafe(j)'
<1>1. PICK n \in RunnerNames : n = OwnRunner(j) /\ n = OwnRunner(j)'
  BY OwnRunners DEF OwnRunner, RunnerName
<1>2. /\ UNCHANGED <<inbox, nextID, ctx, handled, msg>> /\ Live' = Live
      /\ docker \in [RunnerNames -> Container] /\ TypeOK
      /\ call \in Call /\ (pc \in CallPC => call.name \in RunnerNames)
  BY DEF StartRunner, StopRunner, ContainerDiscard, ContainerStop, ContainerRemove, loopVars,
     githubVars, GatewayTypeOK, TypeOK, Live
<1>3. UNCHANGED <<job, outbox>> => Fewer
  BY <1>2, LettersKept
<1>4. ASSUME UNCHANGED <<job, outbox>>, Going(n)' => Going(n),
             Live /\ j \in handled /\ docker'[n].state = "none" => docker[n].state = "none" \/ ~Told(n),
             pc' \in Stopping => pc \in Stopping /\ call' = call
      PROVE  JobSafe(j)'
  BY <1>1, <1>2, <1>3, <1>4, JobKept DEF Fewer
<1>5. PICK m \in RunnerNames : m = call.name
  BY <1>2 DEF StartRunner, StopRunner, CallPC, ContainerCreate, ContainerCreateFails,
     ContainerStart, ContainerStartFails, ContainerDiscard, ContainerInspect, ContainerInspectFails,
     ContainerStop, ContainerRemove
<1>6. call.ret \in {"dispatch", "reconcile"}
  BY <1>2 DEF Call
<1>7. ContainerStop \/ ContainerRemove \/ ContainerDiscard \/ UNCHANGED <<job, outbox>>
  BY DEF StartRunner, StopRunner, githubVars
<1>8. CASE ContainerCreate
  <2>1. /\ \A l \in RunnerNames : l # m => docker'[l] = docker[l]
        /\ docker[m].state = "none" /\ docker'[m].state = "created"
        /\ pc = "create" /\ pc' = "start" /\ Live /\ call'.name = m
    BY <1>2, <1>5, <1>8, CreateMakes DEF ContainerCreate, Call
  <2>2. UNCHANGED <<job, outbox>>
    BY <1>7, <2>1 DEF ContainerStop, ContainerRemove, ContainerDiscard
  <2>3. CASE n # m
    BY <1>4, <2>1, <2>2, <2>3 DEF Going, Stopping
  <2>4. CASE n = m
    <3>1. j \in handled
      BY <1>1, <1>5, <2>1, <2>4 DEF CallInv, ProvisionPC
    <3>2. ~Coming(j) /\ ~Told(n)
      BY <1>1, <2>1, <2>4, <3>1 DEF JobSafe
    <3>3. ~Coming(j)' /\ ~Told(n)' /\ pc' \notin Stopping
      BY <1>1, <1>2, <1>3, <2>1, <2>2, <3>2 DEF Fewer, Coming, Told, Stopping
    <3>4. job'[j] = "queued" => AssignedBy'[j] = {}
      BY <3>3 DEF Coming
    <3>5. \A a, b \in AssignedBy'[j] : a = b
      BY <3>3 DEF Coming
    <3>6. \A k, l \in Jobs : \A a \in EndedBy'[k][n], b \in EndedBy'[l][n] : k = l /\ a = b
      BY <3>3 DEF Told
    <3> QED BY <1>1, <3>3, <3>4, <3>5, <3>6 DEF JobSafe
  <2> QED BY <2>3, <2>4
<1>9. CASE ContainerCreateFails
  <2>1. pc' \notin Stopping \cup {"start", "discard"} /\ pc = "create"
    BY <1>6, <1>9 DEF ContainerCreateFails, Stopping
  <2>2. UNCHANGED <<job, outbox>>
    BY <1>7, <2>1 DEF ContainerStop, ContainerRemove, ContainerDiscard
  <2>3. docker' = docker \/ CreateContainer(m)
    BY <1>5, <1>9 DEF ContainerCreateFails
  <2>4. docker' = docker \/ /\ \A l \in RunnerNames : l # m => docker'[l] = docker[l]
                            /\ docker'[m].state = "created"
    BY <1>2, <2>3, CreateMakes
  <2> QED BY <1>4, <2>1, <2>2, <2>4 DEF Going
<1>10. CASE ContainerStart \/ ContainerStartFails
  <2>1. /\ pc = "start" /\ pc' \in {"inspect", "discard"} /\ pc' \notin Stopping /\ call' = call
        /\ UNCHANGED <<job, outbox>>
    BY <1>7, <1>10 DEF ContainerStart, ContainerStartFails, ContainerStop, ContainerRemove,
       ContainerDiscard, Stopping
  <2>2. docker' = docker \/ StartContainer(m)
    BY <1>5, <1>10 DEF ContainerStart, ContainerStartFails
  <2>3. CASE docker' = docker
    BY <1>4, <2>1, <2>3 DEF Going
  <2>4. CASE StartContainer(m)
    <3>1. /\ \A l \in RunnerNames : l # m => docker'[l] = docker[l]
          /\ docker[m].state = "created" /\ docker'[m].state = "idle"
      BY <1>2, <2>4, StartMakes
    <3> QED BY <1>4, <1>5, <2>1, <3>1 DEF Going
  <2> QED BY <2>2, <2>3, <2>4
<1>11. CASE ContainerDiscard
  <2>1. pc = "discard" /\ pc' \notin Stopping \cup {"start", "discard"}
    BY <1>6, <1>11 DEF ContainerDiscard, Stopping
  <2>2. CASE UNCHANGED <<docker, job, outbox>>
    BY <1>4, <2>1, <2>2 DEF Going
  <2>3. CASE Live /\ RemoveContainer(m, call.id) /\ JobStopped(m)
    <3>1. /\ \A l \in RunnerNames : l # m => docker'[l] = docker[l]
          /\ docker[m].state = "created"
      BY <1>2, <1>5, <2>1, <2>3, StopEnds DEF CallInv
    <3>2. docker'[m].state = "none" /\ UNCHANGED <<job, outbox>>
      BY <1>2, <2>3, <3>1 DEF RemoveContainer, JobStopped
    <3>3. n = m => ~Told(n)
      BY <1>1, <1>5, <2>1, <3>1 DEF Going, JobSafe
    <3>4. Going(n)' => Going(n)
      BY <2>1, <3>1, <3>2 DEF Going
    <3>5. docker'[n].state = "none" => docker[n].state = "none" \/ ~Told(n)
      BY <3>1, <3>3
    <3> QED BY <1>4, <2>1, <3>2, <3>4, <3>5
  <2> QED BY <1>5, <1>11, <2>2, <2>3 DEF ContainerDiscard
<1>12. CASE ContainerInspect \/ ContainerInspectFails
  <2>1. docker' = docker /\ pc = "inspect" /\ pc' \notin Stopping \cup {"start", "discard"}
    BY <1>6, <1>12 DEF ContainerInspect, ContainerInspectFails, Stopping
  <2>2. UNCHANGED <<job, outbox>>
    BY <1>7, <2>1 DEF ContainerStop, ContainerRemove, ContainerDiscard
  <2> QED BY <1>4, <2>1, <2>2 DEF Going
<1>13. CASE ContainerStop \/ ContainerRemove
  <2>1. {pc, pc'} \subseteq Stopping /\ call' = call
    BY <1>13 DEF ContainerStop, ContainerRemove, Stopping
  <2>2. \/ UNCHANGED <<docker, job, outbox>>
        \/ (StopContainer(m, call.id) \/ RemoveContainer(m, call.id)) /\ JobStopped(m)
    BY <1>5, <1>13 DEF ContainerStop, ContainerRemove
  <2>3. CASE UNCHANGED <<docker, job, outbox>>
    BY <1>4, <2>1, <2>3 DEF Going, Stopping
  <2>4. CASE (StopContainer(m, call.id) \/ RemoveContainer(m, call.id)) /\ JobStopped(m)
    BY <1>2, <1>5, <2>1, <2>4, JobWhenStopped
  <2> QED BY <2>2, <2>3, <2>4
<1> QED BY <1>8, <1>9, <1>10, <1>11, <1>12, <1>13 DEF StartRunner, StopRunner

(* The JobAssigned is the only one; nothing is told of a runner before it. *)
LEMMA JobHandleJobAssigned ==
  ASSUME GatewayTypeOK, MailInv, NEW j \in Jobs, JobSafe(j), NEW i \in Jobs, HandleJobAssigned(i)
  PROVE  JobSafe(j)'
<1>1. PICK n \in RunnerNames : n = OwnRunner(j) /\ n = OwnRunner(j)'
  BY OwnRunners DEF OwnRunner, RunnerName
<1>2. /\ docker' = docker /\ job' = job /\ Live' = Live /\ TypeOK
      /\ UNCHANGED <<inbox, outbox, nextID>> /\ handled' = handled \cup {i} /\ pc' = "jit"
      /\ pc = "dispatch" /\ i \in msg.events.assigned
      /\ msg' = [msg EXCEPT !.events.assigned = @ \ {i}]
  BY DEF HandleJobAssigned, ProvisionRunner, githubVars, Live, GatewayTypeOK
<1>3. Fewer /\ (Live => JobLoses(AssignedBy', AssignedBy, i, msg.id))
  BY <1>2, LetterRead
<1>4. CASE i # j \/ ~Live
  BY <1>1, <1>2, <1>3, <1>4, JobKept DEF Fewer, Going, Stopping
<1>5. CASE i = j /\ Live
  <2>1. msg.id \in AssignedBy[j]
    BY <1>2, <1>5 DEF AssignedBy, AssignedIn, Letters
  <2>2. AssignedBy'[j] = {} /\ job[j] # "queued" /\ Coming(j)
    BY <1>3, <1>5, <2>1 DEF JobSafe, JobLoses, Coming
  <2>3. ~Going(n) /\ ~Told(n)
    BY <1>1, <2>2 DEF JobSafe
  <2>4. ~Going(n)' /\ ~Told(n)' /\ ~Coming(j)' /\ pc' \notin Stopping
    BY <1>1, <1>2, <1>3, <2>2, <2>3 DEF Fewer, Going, Told, Coming, Stopping
  <2>5. \A k, l \in Jobs : \A a \in EndedBy'[k][n], b \in EndedBy'[l][n] : k = l /\ a = b
    BY <2>4 DEF Told
  <2> QED BY <1>1, <1>2, <2>2, <2>4, <2>5 DEF JobSafe
<1> QED BY <1>4, <1>5

(* The JobCompleted of a runner is the last that is told of it.            *)
LEMMA JobHandleJobCompleted ==
  ASSUME GatewayTypeOK, MailInv, NEW j \in Jobs, JobSafe(j), NEW k \in Jobs,
         NEW m \in RunnerNames \cup {NoRunner}, HandleJobCompleted(k, m)
  PROVE  JobSafe(j)'
<1>1. PICK n \in RunnerNames : n = OwnRunner(j) /\ n = OwnRunner(j)'
  BY OwnRunners DEF OwnRunner, RunnerName
<1>2. /\ docker' = docker /\ job' = job /\ Live' = Live /\ TypeOK /\ handled' = handled
      /\ UNCHANGED <<inbox, outbox, nextID>> /\ pc = "dispatch" /\ <<k, m>> \in msg.events.completed
      /\ msg' = [msg EXCEPT !.events.completed = @ \ {<<k, m>>}]
      /\ (pc' \in {"collectCPU", "stop"} /\ call'.name = m) \/ pc' = pc
  BY DEF HandleJobCompleted, NoCall, githubVars, Live, GatewayTypeOK
<1>3. Fewer /\ (Live => RunLoses(EndedBy', EndedBy, RunnerNames \cup {NoRunner}, k, m, msg.id))
  BY <1>2, LetterRead
<1>4. CASE n # m
  BY <1>1, <1>2, <1>3, <1>4, JobKept DEF Fewer, Going, Stopping
<1>5. CASE n = m
  <2>1. msg.id \in EndedBy[k][n]
    BY <1>1, <1>2, <1>5 DEF EndedBy, CompletedIn, Letters
  <2>2. Told(n) /\ ~Going(n) /\ ~Coming(j)
    BY <1>1, <2>1 DEF Told, JobSafe
  <2>3. ~Going(n)' /\ ~Coming(j)'
    BY <1>1, <1>2, <1>3, <2>2 DEF Fewer, Going, Coming
  <2>4. ASSUME Live, j \in handled PROVE ~Told(n)'
    <3>1. \A l \in Jobs : \A a \in EndedBy[l][n] : l = k /\ a = msg.id
      BY <1>1, <2>1, <2>4 DEF JobSafe
    <3>2. \A l \in Jobs : EndedBy'[l][n] = IF l = k THEN EndedBy[l][n] \ {msg.id} ELSE EndedBy[l][n]
      BY <1>1, <1>3, <1>5, <2>4 DEF RunLoses
    <3> QED BY <3>1, <3>2 DEF Told
  <2>5. (Live /\ j \in handled)
          => \A l, i \in Jobs : \A a \in EndedBy'[l][n], b \in EndedBy'[i][n] : l = i /\ a = b
    BY <2>4 DEF Told
  <2>6. \A a, b \in AssignedBy'[j] : a = b
    BY <2>3 DEF Coming
  <2>7. job'[j] = "queued" => AssignedBy'[j] = {}
    BY <2>3 DEF Coming
  <2> QED BY <1>1, <1>2, <2>3, <2>4, <2>5, <2>6, <2>7 DEF JobSafe
<1> QED BY <1>4, <1>5

LEMMA JobScaler ==
  ASSUME GatewayTypeOK, MailInv, CallInv, Acknowledged, NEW j \in Jobs, JobSafe(j), ScalerStep
  PROVE  JobSafe(j)'
<1>1. PICK n \in RunnerNames : n = OwnRunner(j)
  BY OwnRunners
<1>2. TypeOK /\ call \in Call
  BY DEF GatewayTypeOK, TypeOK
<1>3. ASSUME docker' = docker, job' = job, ctx' = ctx, handled' = handled, Fewer,
             pc' \notin {"start", "discard"}, pc' \in Stopping => pc \in Stopping /\ call' = call
      PROVE  JobSafe(j)'
  BY <1>1, <1>3, JobKept DEF Fewer, Going, Live
<1>4. CASE RunReturns \/ Poll \/ GetMessage \/ GetMessageNothing \/ DeleteMessage \/ Reconcile
  <2>1. /\ docker' = docker /\ job' = job /\ ctx' = ctx /\ handled' = handled
        /\ pc' \notin Stopping \cup {"start", "discard"}
    BY <1>4 DEF RunReturns, Poll, GetMessage, GetMessageNothing, DeleteMessage, Reconcile, loopVars,
       githubVars, Stopping
  <2>2. Fewer
    BY <1>2, <1>4, LettersKept DEF RunReturns, Poll, GetMessageNothing, Reconcile, githubVars, loopVars
  <2> QED BY <1>3, <2>1, <2>2
<1>5. CASE GenerateJitRunnerConfig \/ RunnerProvisioned \/ ReconcileRunner \/ ReconcileDone
             \/ Collect \/ Record \/ RunnerForgotten
  <2>1. /\ UNCHANGED <<docker, githubVars, ctx, handled, msg>>
        /\ pc' \notin {"start", "discard"} /\ (pc' \in Stopping => pc \in Stopping /\ call' = call)
    <3>1. call.ret \in {"dispatch", "reconcile"}
      BY <1>2 DEF Call
    <3> QED BY <1>5, <3>1 DEF GenerateJitRunnerConfig, RunnerProvisioned, ReconcileRunner,
       ReconcileDone, Collect, Record, RunnerForgotten, ProvisionRunner, loopVars, Stopping
  <2>2. Fewer
    BY <1>2, <2>1, LettersKept DEF githubVars
  <2> QED BY <1>3, <2>1, <2>2 DEF githubVars
<1>6. ASSUME NEW i \in Jobs, NEW m \in RunnerNames, HandleJobStarted(i, m) PROVE JobSafe(j)'
  <2>1. /\ UNCHANGED <<docker, githubVars, ctx, handled, pc, call>> /\ pc = "dispatch"
        /\ msg' = [msg EXCEPT !.events.started = @ \ {<<i, m>>}]
    BY <1>6 DEF HandleJobStarted
  <2>2. Fewer
    BY <1>2, <2>1, LetterRead DEF githubVars
  <2> QED BY <1>3, <2>1, <2>2 DEF githubVars, Stopping
<1> QED
  BY <1>4, <1>5, <1>6, JobContainers, JobHandleJobAssigned, JobHandleJobCompleted DEF ScalerStep

LEMMA RestartStep ==
  ASSUME GatewayTypeOK, RestartInv, Acknowledged, [GatewayNext]_gatewayVars
  PROVE  RestartInv'
<1>1. MailInv' /\ CallInv'
  BY MailStep, CallStep DEF RestartInv, Acknowledged
<1>2. ASSUME NEW j \in Jobs PROVE JobSafe(j)'
  <2>1. JobSafe(j) /\ MailInv /\ CallInv
    BY DEF RestartInv
  <2>2. CASE ProcessEnds
    BY <2>1, <2>2, JobProcessEnds
  <2>3. CASE (Launch \/ MainStep \/ Signal) /\ ~ProcessEnds
    BY <2>1, <2>3, JobMain
  <2>4. CASE ScalerStep \/ Environment
    BY <2>1, <2>4, JobScaler, JobEnvironment
  <2>5. CASE UNCHANGED gatewayVars
    <3>1. PICK n \in RunnerNames : n = OwnRunner(j)
      BY OwnRunners
    <3>2. UNCHANGED vars
      BY <2>5 DEF gatewayVars
    <3>3. Fewer
      BY <3>2, LettersKept DEF vars, githubVars, scalerVars, loopVars, GatewayTypeOK
    <3> QED BY <2>1, <3>1, <3>2, <3>3, JobKept DEF Fewer, Going, Live, vars, githubVars, scalerVars,
               loopVars
  <2>6. Crash => ProcessEnds
    BY DEF Crash
  <2> QED BY <2>2, <2>3, <2>4, <2>5, <2>6 DEF GatewayNext
<1> QED BY <1>1, <1>2 DEF RestartInv

LEMMA RestartHolds ==
  ASSUME Acknowledged
  PROVE  GatewaySpec => [](GatewayTypeOK /\ RestartInv)
<1>1. GatewayInit => RestartInv
  BY RestartInit
<1>2. GatewayTypeOK /\ RestartInv /\ [GatewayNext]_gatewayVars => RestartInv'
  BY RestartStep
<1> QED BY <1>1, <1>2, GatewayTypes, PTL DEF GatewaySpec

(* A container that has a runner that takes jobs is stopped or removed by  *)
(* nobody but the clean-up of main and the deletion of the scale set.      *)
LEMMA BusyStays ==
  ASSUME GatewayTypeOK, RestartInv, [GatewayNext]_gatewayVars, NEW j \in Jobs, NEW n,
         n = OwnRunner(j), docker[n].state = "busy"
  PROVE  \/ docker'[n] = docker[n] \/ RunnerFinishesJob(n) \/ RunnerKilled(n)
         \/ StopAll(n, docker[n].id) \/ DeleteStaleScaleSet
<1>1. n \in RunnerNames /\ Going(n) /\ docker \in [RunnerNames -> Container] /\ docker[n] \in Container
  BY OwnRunners DEF Going, GatewayTypeOK, TypeOK
<1>2. CASE Launch \/ MainStep \/ Signal \/ Crash
  <2>1. ASSUME NEW c \in cleanup, StopAll(c[1], c[2])
        PROVE  docker'[n] = docker[n] \/ StopAll(n, docker[n].id)
    <3>1. c[1] \in RunnerNames
      BY DEF GatewayTypeOK, ContainerIDs
    <3>2. docker' = docker \/ StopContainer(c[1], c[2]) \/ RemoveContainer(c[1], c[2])
      BY <2>1 DEF StopAll
    <3>3. CASE c[1] # n
      BY <1>1, <3>1, <3>2, <3>3, StopEnds
    <3>4. CASE c[1] = n /\ docker' # docker
      BY <2>1, <3>2, <3>4 DEF StopContainer, RemoveContainer, Exists
    <3> QED BY <3>3, <3>4
  <2>2. Crash => docker' = docker
    BY DEF Crash, ProcessEnds
  <2> QED BY <1>1, <1>2, <2>1, <2>2, MainContainers
<1>3. CASE Environment
  <2>1. CASE \E m \in RunnerNames : RunnerFinishesJob(m) \/ RunnerKilled(m)
    BY <1>1, <2>1 DEF RunnerFinishesJob, RunnerKilled, JobEnds
  <2>2. CASE \E m \in RunnerNames : GraceEnds(m) \/ RunnerQuits(m)
    BY <1>1, <2>2 DEF GraceEnds, RunnerQuits
  <2>3. CASE \E m \in RunnerNames, i \in Jobs : RunnerTakesJob(m, i)
    BY <1>1, <2>3 DEF RunnerTakesJob
  <2>4. CASE MakeMessage \/ \E i \in Jobs : AssignJob(i) \/ CancelJob(i)
    BY <2>4 DEF MakeMessage, AssignJob, CancelJob
  <2> QED BY <1>3, <2>1, <2>2, <2>3, <2>4 DEF Environment
<1>4. CASE ScalerStep
  <2>1. CASE StartRunner \/ StopRunner
    <3>1. PICK m \in RunnerNames : m = call.name
      <4>1. pc \in CallPC => call.name \in RunnerNames
        BY DEF GatewayTypeOK, TypeOK
      <4> QED BY <2>1, <4>1 DEF StartRunner, StopRunner, CallPC, ContainerCreate,
         ContainerCreateFails, ContainerStart, ContainerStartFails, ContainerDiscard, ContainerInspect,
         ContainerInspectFails, ContainerStop, ContainerRemove
    <3>2. \/ docker' = docker \/ CreateContainer(m) \/ StartContainer(m)
          \/ pc = "discard" /\ Live /\ RemoveContainer(m, call.id)
          \/ pc \in {"stop", "remove"} /\ (StopContainer(m, call.id) \/ RemoveContainer(m, call.id))
      BY <2>1, <3>1 DEF StartRunner, StopRunner, ContainerCreate,
         ContainerCreateFails, ContainerStart, ContainerStartFails, ContainerDiscard, ContainerInspect,
         ContainerInspectFails, ContainerStop, ContainerRemove
    <3>3. pc = "discard" /\ Live => n # m
      BY <3>1 DEF RestartInv, CallInv
    <3>4. pc \in {"stop", "remove"} => n # m
      BY <1>1, <3>1 DEF RestartInv, JobSafe, Stopping
    <3>5. CreateContainer(m) \/ StartContainer(m) => docker'[n] = docker[n]
      BY <1>1, CreateMakes, StartMakes
    <3>6. n # m /\ (StopContainer(m, call.id) \/ RemoveContainer(m, call.id)) => docker'[n] = docker[n]
      BY <1>1, StopEnds
    <3> QED BY <3>2, <3>3, <3>4, <3>5, <3>6
  <2>2. CASE ~StartRunner /\ ~StopRunner
    <3>1. docker' = docker
      BY <1>4, <2>2 DEF ScalerStep, RunReturns, Poll, GetMessage, GetMessageNothing, DeleteMessage,
         GenerateJitRunnerConfig, RunnerProvisioned, HandleJobAssigned,
         HandleJobStarted, HandleJobCompleted, Collect, Record, RunnerForgotten,
         Reconcile, ReconcileRunner, ReconcileDone
    <3> QED BY <3>1
  <2> QED BY <2>1, <2>2
<1>5. CASE UNCHANGED gatewayVars
  BY <1>5 DEF gatewayVars, vars
<1> QED BY <1>2, <1>3, <1>4, <1>5 DEF GatewayNext

(* JobsSurviveRestart: whatever a process did before it ended, and however *)
(* late its events come, no later one stops the runner of a job while it   *)
(* executes one, if a message is acknowledged and a failed start is one    *)
(* while the context lives.                                                *)
THEOREM JobsSurvive ==
  ASSUME Acknowledged
  PROVE  GatewaySpec => JobsSurviveRestart
<1>1. ASSUME GatewayTypeOK, RestartInv, [GatewayNext]_gatewayVars
      PROVE  \A j \in Jobs :
               LET n == OwnRunner(j)
               IN docker[n].state = "busy"
                    => \/ docker'[n] = docker[n] \/ RunnerFinishesJob(n) \/ RunnerKilled(n)
                       \/ StopAll(n, docker[n].id) \/ DeleteStaleScaleSet
  BY <1>1, BusyStays
<1> QED BY <1>1, RestartHolds, PTL DEF GatewaySpec, JobsSurviveRestart
-----------------------------------------------------------------------------
(* What the clean-up of the combined command assumes besides: no container *)
(* is made, started or left over that its call does not report, and        *)
(* ContainerStop and ContainerRemove do not both fail.                     *)
CleansUp ==
  Faults \cap {"create", "cleanup", "inspect"} = {} /\ ~({"stop", "remove"} \subseteq Faults)

Alive(n) == docker[n].state \in {"created", "idle", "busy"}

(* The container <<n, i>> is not waiting to be started, nor a later one.   *)
Begun(n, i) == i <= docker[n].id /\ (i = docker[n].id => docker[n].state # "created")

(* What the combined command knows of its own containers: every entry of   *)
(* the store, and so of the list of StopAll, was started, and from the     *)
(* cancellation on only the interrupted provisioning goes on.              *)
AccountInv ==
  /\ main \in {"snapshot", "stop"} => command = "all"
  /\ main \notin {"snapshot", "stop"} => interrupted = NoRunner /\ (command = "all" => Live)
  /\ \A n \in RunnerNames : Tracked(runners, n) => Begun(n, runners[n].id)
  /\ \A c \in cleanup : Begun(c[1], c[2])
  /\ pc \in {"start", "discard", "inspect", "add"} => docker[call.name].id = call.id
  /\ pc \in {"inspect", "add"} => docker[call.name].state # "created"
  /\ main \in {"snapshot", "stop"} /\ pc \in {"create", "start", "discard", "inspect", "add"}
       => call.name = interrupted

(* A container of this process that can run a job is in the store, or in   *)
(* the hands of the scaler, and then on the list of StopAll.               *)
Accounted(j) ==
  LET n == OwnRunner(j)
  IN command = "all" /\ main \notin {"off", "close"} /\ Alive(n) =>
       \/ <<n, docker[n].id>> \in inherited \/ n = interrupted
       \/ main \in {"serve", "snapshot"} /\ Tracked(runners, n) /\ runners[n].id = docker[n].id
       \/ main = "serve" /\ pc \in {"start", "discard", "inspect", "add"} /\ call.name = n
       \/ main = "stop" /\ <<n, docker[n].id>> \in cleanup

(* The container n is the same after the step, and nobody revives it.      *)
Lasts(n) ==
  /\ docker'[n].id = docker[n].id
  /\ docker'[n].state = "created" => docker[n].state = "created"
  /\ Alive(n)' => Alive(n)

(* Containers are made by ContainerCreate alone. *)
LEMMA DockerStep ==
  ASSUME GatewayTypeOK, [GatewayNext]_gatewayVars, NEW n \in RunnerNames
  PROVE  \/ Lasts(n)
         \/ /\ ContainerCreate \/ ContainerCreateFails
            /\ n = call.name /\ docker'[n].id = docker[n].id + 1
            /\ docker'[n].state = "created"
<1>1. docker \in [RunnerNames -> Container] /\ docker[n] \in Container
  BY DEF GatewayTypeOK, TypeOK
<1>2. ASSUME docker'[n] = docker[n] PROVE Lasts(n)
  BY <1>2 DEF Lasts, Alive
<1>3. ASSUME Aged(n) PROVE Lasts(n)
  BY <1>3 DEF Aged, Lasts, Alive
<1>4. ASSUME NEW m \in RunnerNames, NEW id, StopContainer(m, id) \/ RemoveContainer(m, id)
      PROVE  Lasts(n)
  BY <1>1, <1>2, <1>4, StopEnds DEF Ended, Lasts, Alive
<1>5. CASE Launch \/ MainStep \/ Signal \/ Crash
  <2>1. CASE docker' = docker
    BY <1>2, <2>1
  <2>2. CASE ScaleSetDeleted
    BY <1>1, <1>3, <2>2, DeletionAges
  <2>3. ASSUME NEW c \in cleanup, StopAll(c[1], c[2]) PROVE Lasts(n)
    <3>1. c[1] \in RunnerNames
      BY DEF GatewayTypeOK, ContainerIDs
    <3>2. docker' = docker \/ StopContainer(c[1], c[2]) \/ RemoveContainer(c[1], c[2])
      BY <2>3 DEF StopAll
    <3> QED BY <1>2, <1>4, <3>1, <3>2
  <2>4. Crash => docker' = docker
    BY DEF Crash, ProcessEnds
  <2> QED BY <1>1, <1>5, <2>1, <2>2, <2>3, <2>4, MainContainers
<1>6. CASE Environment
  BY <1>1, <1>3, <1>6, EnvironmentAges
<1>7. CASE ScalerStep
  <2>1. CASE StartRunner \/ StopRunner
    <3>1. PICK m \in RunnerNames : m = call.name
      <4>1. pc \in CallPC => call.name \in RunnerNames
        BY DEF GatewayTypeOK, TypeOK
      <4> QED BY <2>1, <4>1 DEF StartRunner, StopRunner, CallPC, ContainerCreate,
         ContainerCreateFails, ContainerStart, ContainerStartFails, ContainerDiscard, ContainerInspect,
         ContainerInspectFails, ContainerStop, ContainerRemove
    <3>2. \/ docker' = docker \/ StartContainer(m)
          \/ (ContainerCreate \/ ContainerCreateFails) /\ CreateContainer(m)
          \/ StopContainer(m, call.id) \/ RemoveContainer(m, call.id)
      BY <2>1, <3>1 DEF StartRunner, StopRunner, ContainerCreate,
         ContainerCreateFails, ContainerStart, ContainerStartFails, ContainerDiscard, ContainerInspect,
         ContainerInspectFails, ContainerStop, ContainerRemove
    <3>3. StartContainer(m) => Lasts(n)
      BY <1>1, <1>2, StartMakes DEF Lasts, Alive
    <3>4. CreateContainer(m) => Lasts(n) \/ /\ n = m /\ docker'[n].id = docker[n].id + 1
                                            /\ docker'[n].state = "created"
      BY <1>1, <1>2, CreateMakes
    <3> QED BY <1>2, <1>4, <3>1, <3>2, <3>3, <3>4
  <2>2. CASE ~StartRunner /\ ~StopRunner
    <3>1. docker' = docker
      BY <1>7, <2>2 DEF ScalerStep, RunReturns, Poll, GetMessage, GetMessageNothing, DeleteMessage,
         GenerateJitRunnerConfig, RunnerProvisioned, HandleJobAssigned,
         HandleJobStarted, HandleJobCompleted, Collect, Record, RunnerForgotten,
         Reconcile, ReconcileRunner, ReconcileDone
    <3> QED BY <1>2, <3>1
  <2> QED BY <2>1, <2>2
<1>8. CASE UNCHANGED gatewayVars
  BY <1>2, <1>8 DEF gatewayVars, vars
<1> QED BY <1>5, <1>6, <1>7, <1>8 DEF GatewayNext

(* What was started stays so. *)
LEMMA BegunStays ==
  ASSUME GatewayTypeOK, [GatewayNext]_gatewayVars, NEW n \in RunnerNames, NEW i \in Nat, Begun(n, i)
  PROVE  Begun(n, i)'
<1>1. docker[n].id \in Nat
  BY DEF GatewayTypeOK, TypeOK, Container
<1> QED BY <1>1, DockerStep DEF Begun, Lasts

(* What the scaler does with its store and its call. *)
LEMMA ScalerMoves ==
  ASSUME TypeOK, ScalerStep
  PROVE  /\ ctx' = ctx
         /\ \/ runners' = runners
            \/ pc = "add" /\ runners' = AddRunner(runners, call.name, call.id, call.ip)
                 /\ pc' \in {"dispatch", "reconcile"}
            \/ pc = "forget" /\ runners' = Remove(runners, call.name) /\ pc' = "dispatch"
            \/ /\ pc = "dispatch" /\ pc' \notin {"create", "start", "discard", "inspect", "add"}
               /\ \A n \in RunnerNames :
                    /\ Tracked(runners', n) <=> Tracked(runners, n)
                    /\ runners'[n].id = runners[n].id
         /\ \/ pc' \notin {"create", "start", "discard", "inspect", "add"}
            \/ pc = "jit" /\ Live /\ pc' = "create" /\ docker' = docker
            \/ pc = "create" /\ pc' = "start" /\ Live /\ CreateContainer(call.name)
                 /\ call' = [call EXCEPT !.id = docker[call.name].id + 1]
            \/ pc = "start" /\ pc' = "inspect" /\ StartContainer(call.name) /\ call' = call
            \/ pc = "start" /\ pc' = "discard" /\ call' = call
            \/ pc = "inspect" /\ pc' = "add" /\ docker' = docker
                 /\ call'.name = call.name /\ call'.id = call.id
<1>1. call \in Call /\ call.ret \in {"dispatch", "reconcile"} /\ runners \in [RunnerNames -> RunnerInfo]
  BY DEF TypeOK, Call
<1>2. CASE StartRunner
  BY <1>1, <1>2 DEF StartRunner, ContainerCreate, ContainerCreateFails, ContainerStart,
     ContainerStartFails, ContainerDiscard, ContainerInspect, ContainerInspectFails, Call
<1>3. CASE GenerateJitRunnerConfig \/ RunnerProvisioned \/ RunnerForgotten
  BY <1>1, <1>3 DEF GenerateJitRunnerConfig, RunnerProvisioned, RunnerForgotten
<1>4. ASSUME NEW j \in Jobs, NEW m \in RunnerNames, HandleJobStarted(j, m)
      PROVE  /\ ctx' = ctx /\ pc = "dispatch" /\ pc' = "dispatch"
             /\ \A n \in RunnerNames : /\ Tracked(runners', n) <=> Tracked(runners, n)
                                       /\ runners'[n].id = runners[n].id
  <2>1. runners[m] \in RunnerInfo
    BY <1>1
  <2> QED BY <1>1, <1>4, <2>1 DEF HandleJobStarted, MarkBusy, Tracked, RunnerInfo
<1>5. ASSUME NEW j \in Jobs, NEW m \in RunnerNames \cup {NoRunner}, HandleJobCompleted(j, m)
      PROVE  /\ ctx' = ctx /\ pc = "dispatch" /\ pc' \in {"dispatch", "collectCPU", "stop"}
             /\ \A n \in RunnerNames : /\ Tracked(runners', n) <=> Tracked(runners, n)
                                       /\ runners'[n].id = runners[n].id
  <2>1. /\ ctx' = ctx /\ pc = "dispatch" /\ pc' \in {"dispatch", "collectCPU", "stop"}
        /\ runners' = runners \/ (m \in RunnerNames /\ runners' = MarkCompleted(runners, m))
    BY <1>5 DEF HandleJobCompleted
  <2>2. m \in RunnerNames => runners[m] \in RunnerInfo
    BY <1>1
  <2> QED BY <1>1, <2>1, <2>2 DEF MarkCompleted, Tracked, RunnerInfo
<1>6. CASE \/ RunReturns \/ Poll \/ GetMessage \/ GetMessageNothing \/ DeleteMessage
           \/ (\E j \in Jobs : HandleJobAssigned(j))
           \/ Collect \/ Record \/ StopRunner \/ Reconcile \/ ReconcileRunner \/ ReconcileDone
  <2>1. ctx' = ctx /\ runners' = runners
    BY <1>6 DEF RunReturns, Poll, GetMessage, GetMessageNothing, DeleteMessage, HandleJobAssigned,
       Collect, Record, StopRunner, Reconcile, ReconcileRunner, ReconcileDone
  <2>2. pc' \notin {"create", "start", "discard", "inspect", "add"}
    BY <1>6 DEF RunReturns, Poll, GetMessage, GetMessageNothing, DeleteMessage, HandleJobAssigned,
       Collect, Record, StopRunner, Reconcile, ReconcileRunner, ReconcileDone, ProvisionRunner,
       ContainerStop, ContainerRemove
  <2> QED BY <2>1, <2>2
<1> QED
  BY <1>2, <1>3, <1>4, <1>5, <1>6 DEF ScalerStep

(* What main does with its list and its locals. *)
LEMMA MainKeepsAccount ==
  ASSUME Launch \/ MainStep \/ Signal, ~ProcessEnds, AccountInv
  PROVE  /\ main' \in {"snapshot", "stop"} => command' = "all"
         /\ main' \notin {"snapshot", "stop"} => interrupted' = NoRunner /\ (command' = "all" => Live')
         /\ main' \in {"snapshot", "stop"} /\ pc' \in {"create", "start", "discard", "inspect", "add"}
              => call'.name = interrupted'
         /\ \/ cleanup' \subseteq cleanup
            \/ cleanup' = {<<n, runners[n].id>> : n \in {m \in RunnerNames : Tracked(runners, m)}}
<1>1. CASE Shutdown
  BY <1>1 DEF Shutdown, AccountInv, InProvision, scalerVars
<1>2. CASE StoreAll
  BY <1>2 DEF StoreAll, AccountInv, vars, scalerVars, historyVars
<1>3. CASE \E c \in cleanup : StopAll(c[1], c[2])
  BY <1>3 DEF StopAll, AccountInv, scalerVars, historyVars
<1>4. CASE Signal
  BY <1>4 DEF Signal, AccountInv, scalerVars, historyVars, Live
<1>5. CASE Launch
  BY <1>5 DEF Launch, AccountInv, vars, Live
<1>6. CASE GetRunnerGroup \/ GetOrCreateScaleSet \/ MessageSessionClient \/ DeleteStaleScaleSet
             \/ RecreateScaleSet \/ StartScaler \/ SetUpFails \/ ListenerReturns
  <2>1. /\ UNCHANGED <<command, cleanup, interrupted, ctx>>
        /\ main \notin {"snapshot", "stop"} /\ main' \notin {"snapshot", "stop"}
    BY <1>6 DEF GetRunnerGroup, GetOrCreateScaleSet, MessageSessionClient, DeleteStaleScaleSet,
       RecreateScaleSet, StartScaler, SetUpFails, ListenerReturns, Goto, historyVars, vars
  <2> QED BY <2>1 DEF AccountInv, Live
<1>7. CASE StartUpFails \/ CloseSession
  BY <1>7 DEF StartUpFails, CloseSession
<1> QED BY <1>1, <1>2, <1>3, <1>4, <1>5, <1>6, <1>7 DEF MainStep

LEMMA AccountStep ==
  ASSUME GatewayTypeOK, MailInv, AccountInv, [GatewayNext]_gatewayVars
  PROVE  AccountInv'
<1>1. /\ docker \in [RunnerNames -> Container] /\ call \in Call /\ TypeOK
      /\ pc \in CallPC => call.name \in RunnerNames
      /\ runners \in [RunnerNames -> RunnerInfo] /\ cleanup \subseteq RunnerNames \X Nat
  BY DEF GatewayTypeOK, TypeOK, ContainerIDs
<1>2. ASSUME ~ContainerCreate, ~ContainerCreateFails, NEW n \in RunnerNames PROVE Lasts(n)
  BY <1>2, DockerStep
<1>3. ASSUME NEW n \in RunnerNames, NEW i \in Nat, Tracked(runners, n), i = runners[n].id
      PROVE  Begun(n, i)'
  BY <1>3, BegunStays DEF AccountInv
<1>4. ASSUME NEW n \in RunnerNames, NEW i \in Nat, <<n, i>> \in cleanup PROVE Begun(n, i)'
  <2>1. Begun(n, i)
    <3>1. Begun(<<n, i>>[1], <<n, i>>[2])
      BY <1>4 DEF AccountInv
    <3> QED BY <3>1
  <2> QED BY <2>1, BegunStays
<1> DEFINE Store == \A n \in RunnerNames : Tracked(runners, n) => Begun(n, runners[n].id)
           List == \A c \in cleanup : Begun(c[1], c[2])
<1>5. ASSUME \A n \in RunnerNames : Tracked(runners', n) => Tracked(runners, n) /\ runners'[n].id = runners[n].id
      PROVE  Store'
  <2> SUFFICES ASSUME NEW n \in RunnerNames, Tracked(runners, n)'
               PROVE  Begun(n, runners[n].id)'
    OBVIOUS
  <2>1. Tracked(runners, n) /\ runners'[n].id = runners[n].id
    BY <1>5 DEF Tracked
  <2>2. PICK i \in Nat : i = runners[n].id /\ i = runners'[n].id
    BY <1>1, <2>1 DEF RunnerInfo
  <2>3. Begun(n, i)'
    BY <1>3, <2>1, <2>2
  <2> QED BY <2>2, <2>3 DEF Begun
<1>6. ASSUME cleanup' \subseteq cleanup PROVE List'
  <2> SUFFICES ASSUME NEW c \in cleanup' PROVE Begun(c[1], c[2])'
    OBVIOUS
  <2>1. PICK n \in RunnerNames, i \in Nat : c = <<n, i>>
    BY <1>1, <1>6
  <2>2. Begun(n, i)'
    BY <1>4, <1>6, <2>1
  <2> QED BY <2>1, <2>2 DEF Begun
<1>7. CASE ProcessEnds
  <2>1. \A n \in RunnerNames : ~Tracked(runners', n)
    BY <1>7 DEF ProcessEnds, NewStore, Absent, Tracked
  <2>2. Store' /\ List'
    BY <1>5, <1>7, <2>1 DEF ProcessEnds, Tracked
  <2> QED BY <1>7, <2>2 DEF ProcessEnds, AccountInv, Live
<1>8. CASE (Launch \/ MainStep \/ Signal) /\ ~ProcessEnds
  <2>1. UNCHANGED <<runners, call>> /\ (pc' = pc \/ pc' = "poll")
    BY <1>8, MainMoves
  <2>2. Store'
    BY <1>5, <2>1 DEF Tracked
  <2>3. List'
    <3>1. CASE cleanup' \subseteq cleanup
      BY <1>6, <3>1
    <3>2. CASE cleanup' = {<<n, runners[n].id>> : n \in {m \in RunnerNames : Tracked(runners, m)}}
      <4> SUFFICES ASSUME NEW c \in cleanup' PROVE Begun(c[1], c[2])'
        OBVIOUS
      <4>1. PICK n \in RunnerNames : c = <<n, runners[n].id>> /\ Tracked(runners, n)
        BY <3>2
      <4>2. PICK i \in Nat : i = runners[n].id
        BY <1>1 DEF RunnerInfo
      <4>3. Begun(n, i)'
        BY <1>3, <4>1, <4>2
      <4> QED BY <4>1, <4>2, <4>3 DEF Begun
    <3> QED BY <1>8, <3>1, <3>2, MainKeepsAccount
  <2>4. pc \in {"start", "discard", "inspect", "add"} => Lasts(call.name)
    BY <1>1, <1>2 DEF CallPC, ContainerCreate, ContainerCreateFails
  <2>5. /\ pc' \in {"start", "discard", "inspect", "add"} => docker'[call'.name].id = call'.id
        /\ pc' \in {"inspect", "add"} => docker'[call'.name].state # "created"
    BY <2>1, <2>4 DEF AccountInv, Lasts
  <2> QED BY <1>8, <2>2, <2>3, <2>5, MainKeepsAccount DEF AccountInv
<1>9. CASE (Environment \/ UNCHANGED vars) /\ UNCHANGED <<mainVars, setVars, historyVars>>
  <2>1. UNCHANGED <<runners, call, pc, ctx, main, command, interrupted, cleanup>>
    BY <1>9 DEF Environment, vars, scalerVars, mainVars, historyVars
  <2>2. Store' /\ List'
    BY <1>5, <1>6, <2>1 DEF Tracked
  <2>3. pc \in {"start", "discard", "inspect", "add"} => Lasts(call.name)
    BY <1>1, <1>2 DEF CallPC, ContainerCreate, ContainerCreateFails
  <2> QED BY <2>1, <2>2, <2>3 DEF AccountInv, Lasts, Live
<1>10. CASE ScalerStep /\ UNCHANGED <<mainVars, setVars, historyVars>>
  <2>1. UNCHANGED <<ctx, main, command, interrupted, cleanup>>
    BY <1>1, <1>10, ScalerMoves DEF mainVars, historyVars
  <2>2. pc \in {"start", "discard", "inspect", "add"} => Lasts(call.name)
    BY <1>1, <1>2 DEF CallPC, ContainerCreate, ContainerCreateFails
  <2>3. Store'
    <3>1. CASE runners' = runners
      BY <1>5, <3>1
    <3>2. CASE pc = "add" /\ runners' = AddRunner(runners, call.name, call.id, call.ip)
      <4> SUFFICES ASSUME NEW n \in RunnerNames, Tracked(runners, n)'
                   PROVE  Begun(n, runners[n].id)'
        OBVIOUS
      <4>1. call.name \in RunnerNames /\ docker[call.name].id \in Nat
        BY <1>1, <3>2 DEF CallPC, Container
      <4>2. CASE n = call.name
        <5>1. runners'[n].id = call.id
          BY <1>1, <3>2, <4>1, <4>2 DEF AddRunner
        <5>2. docker'[n].id = call.id /\ docker'[n].state # "created"
          BY <2>2, <3>2, <4>2 DEF AccountInv, Lasts
        <5> QED BY <4>1, <4>2, <5>1, <5>2, <3>2 DEF Begun, AccountInv
      <4>3. CASE n # call.name
        <5>1. Tracked(runners, n) /\ runners'[n] = runners[n]
          BY <1>1, <3>2, <4>3 DEF AddRunner, Tracked
        <5>2. PICK i \in Nat : i = runners[n].id
          BY <1>1 DEF RunnerInfo
        <5>3. Begun(n, i)'
          BY <1>3, <5>1, <5>2
        <5> QED BY <5>1, <5>2, <5>3 DEF Begun
      <4> QED BY <4>2, <4>3
    <3>3. CASE runners' = Remove(runners, call.name)
      <4>1. \A n \in RunnerNames : Tracked(runners', n) => Tracked(runners, n) /\ runners'[n].id = runners[n].id
        BY <1>1, <3>3 DEF Remove, Absent, Tracked
      <4> QED BY <1>5, <4>1
    <3>4. CASE \A n \in RunnerNames : /\ Tracked(runners', n) <=> Tracked(runners, n)
                                      /\ runners'[n].id = runners[n].id
      BY <1>5, <3>4
    <3> QED BY <1>1, <1>10, <3>1, <3>2, <3>3, <3>4, ScalerMoves
  <2>4. List'
    BY <1>6, <2>1
  <2>5. CASE pc' \notin {"create", "start", "discard", "inspect", "add"}
    BY <2>1, <2>3, <2>4, <2>5 DEF AccountInv, Live
  <2>6. CASE pc = "jit" /\ Live /\ pc' = "create"
    BY <2>1, <2>3, <2>4, <2>6 DEF AccountInv, MailInv, Live
  <2>7. CASE /\ pc = "create" /\ pc' = "start" /\ Live /\ CreateContainer(call.name)
             /\ call' = [call EXCEPT !.id = docker[call.name].id + 1]
    <3>1. call.name \in RunnerNames /\ call'.name = call.name /\ call'.id = docker[call.name].id + 1
      BY <1>1, <2>7 DEF CallPC, Call
    <3>2. docker'[call.name].id = docker[call.name].id + 1
      BY <1>1, <2>7, <3>1, CreateMakes
    <3> QED BY <2>1, <2>3, <2>4, <2>7, <3>1, <3>2 DEF AccountInv, Live
  <2>8. CASE pc = "start" /\ pc' = "inspect" /\ StartContainer(call.name) /\ call' = call
    <3>1. docker'[call.name].id = docker[call.name].id /\ docker'[call.name].state = "idle"
      BY <1>1, <2>8, StartMakes DEF CallPC
    <3> QED BY <2>1, <2>3, <2>4, <2>8, <3>1 DEF AccountInv, Live
  <2>9. CASE pc = "start" /\ pc' = "discard" /\ call' = call
    BY <2>1, <2>2, <2>3, <2>4, <2>9 DEF AccountInv, Lasts, Live
  <2>10. CASE /\ pc = "inspect" /\ pc' = "add" /\ docker' = docker
              /\ call'.name = call.name /\ call'.id = call.id
    BY <2>1, <2>3, <2>4, <2>10 DEF AccountInv, Live
  <2> QED BY <1>1, <1>10, <2>5, <2>6, <2>7, <2>8, <2>9, <2>10, ScalerMoves
<1>11. Crash => ProcessEnds
  BY DEF Crash
<1> QED BY <1>7, <1>8, <1>9, <1>10, <1>11 DEF GatewayNext, gatewayVars

(* A step that loses no account of a container. *)
LEMMA AccountKept ==
  ASSUME NEW j \in Jobs, NEW n, n = OwnRunner(j), Accounted(j), Lasts(n),
         UNCHANGED <<command, main, inherited, interrupted>>,
         Alive(n)' /\ main \in {"serve", "snapshot"} /\ Tracked(runners, n) /\ runners[n].id = docker[n].id
           => Tracked(runners', n) /\ runners'[n].id = docker[n].id,
         Alive(n)' /\ main = "serve" /\ pc \in {"start", "discard", "inspect", "add"} /\ call.name = n
           => \/ pc' \in {"start", "discard", "inspect", "add"} /\ call'.name = n
              \/ Tracked(runners', n) /\ runners'[n].id = docker[n].id,
         Alive(n)' /\ main = "stop" /\ <<n, docker[n].id>> \in cleanup
           => <<n, docker[n].id>> \in cleanup'
  PROVE  Accounted(j)'
<1>1. n = OwnRunner(j)' /\ docker'[n].id = docker[n].id /\ (Alive(n)' => Alive(n))
  BY DEF OwnRunner, RunnerName, Lasts
<1>2. Tracked(runners, n)' = Tracked(runners', n)
  BY DEF Tracked
<1> QED BY <1>1, <1>2 DEF Accounted

LEMMA AccountedMain ==
  ASSUME GatewayTypeOK, AccountInv, CleansUp, NEW j \in Jobs, Accounted(j),
         Launch \/ MainStep \/ Signal, ~ProcessEnds, [GatewayNext]_gatewayVars
  PROVE  Accounted(j)'
<1>1. PICK n \in RunnerNames : n = OwnRunner(j) /\ n = OwnRunner(j)'
  BY OwnRunners DEF OwnRunner, RunnerName
<1>2. /\ docker \in [RunnerNames -> Container] /\ cleanup \subseteq RunnerNames \X Nat
      /\ runners \in [RunnerNames -> RunnerInfo]
      /\ UNCHANGED <<runners, call>> /\ (pc' = pc \/ (main = "setup" /\ pc' = "poll"))
  BY MainMoves DEF GatewayTypeOK, TypeOK, ContainerIDs
<1>3. CASE Launch
  <2>1. docker' = docker /\ inherited' = Present
    BY <1>3 DEF Launch, vars
  <2>2. Alive(n)' => <<n, docker'[n].id>> \in inherited'
    BY <2>1 DEF Alive, Present
  <2> QED BY <1>1, <2>2 DEF Accounted
<1>4. CASE ~Launch
  <2>1. Lasts(n)
    <3>1. call.ret \in {"dispatch", "reconcile"}
      BY DEF GatewayTypeOK, TypeOK, Call
    <3> QED BY <1>2, <3>1, DockerStep DEF ContainerCreate, ContainerCreateFails
  <2>2. CASE Shutdown
    <3>1. /\ main = "serve" /\ main' = "snapshot" /\ inherited' = inherited /\ command' = command
          /\ interrupted' = IF InProvision THEN call.name ELSE NoRunner
      BY <2>2 DEF Shutdown
    <3>2. interrupted = NoRunner /\ n # NoRunner
      BY <3>1, ScalerAssumption DEF AccountInv
    <3>3. pc \in {"start", "discard", "inspect", "add"} /\ call.name = n => n = interrupted'
      BY <3>1 DEF InProvision
    <3> QED BY <1>1, <1>2, <2>1, <3>1, <3>2, <3>3 DEF Accounted, Lasts, Tracked
  <2>3. CASE StoreAll
    <3>1. /\ main = "snapshot" /\ main' = "stop" /\ UNCHANGED <<inherited, interrupted, command>>
          /\ cleanup' = {<<l, runners[l].id>> : l \in {m \in RunnerNames : Tracked(runners, m)}}
      BY <2>3 DEF StoreAll, historyVars
    <3>2. Tracked(runners, n) => <<n, runners[n].id>> \in cleanup'
      BY <1>1, <3>1
    <3> QED BY <1>1, <1>2, <2>1, <3>1, <3>2 DEF Accounted, Lasts, Tracked
  <2>4. ASSUME NEW c \in cleanup, StopAll(c[1], c[2]) PROVE Accounted(j)'
    <3>1. PICK m \in RunnerNames, i \in Nat : c = <<m, i>> /\ m = c[1] /\ i = c[2]
      BY <1>2
    <3>2. /\ main = "stop" /\ UNCHANGED <<main, command, inherited, interrupted>>
          /\ cleanup' = cleanup \ {<<m, i>>}
          /\ \/ RemoveContainer(m, i) \/ StopContainer(m, i)
             \/ ~Exists(m, i) /\ docker' = docker
      BY <2>4, <3>1 DEF StopAll, CleansUp, historyVars
    <3>3. m = n /\ i = docker[n].id => ~Alive(n)'
      <4> SUFFICES ASSUME m = n, i = docker[n].id, Alive(n)' PROVE FALSE
        OBVIOUS
      <4>1. Alive(n) /\ docker[n].state # "created"
        BY <2>1, <2>4, <3>1 DEF Lasts, AccountInv, Begun
      <4>2. Exists(m, i) /\ Running(m)
        BY <4>1 DEF Alive, Exists, Running
      <4>3. Ended(m, i)
        BY <1>2, <3>2, <4>2, StopEnds
      <4> QED BY <4>3 DEF Ended, Alive
    <3> QED BY <1>1, <1>2, <2>1, <3>1, <3>2, <3>3, AccountKept
  <2>5. CASE Signal
    <3>1. UNCHANGED <<main, command, inherited, interrupted, cleanup, pc>>
      BY <2>5 DEF Signal, historyVars, scalerVars
    <3> QED BY <1>1, <1>2, <2>1, <3>1, AccountKept
  <2>6. CASE GetRunnerGroup \/ GetOrCreateScaleSet \/ MessageSessionClient \/ DeleteStaleScaleSet
             \/ RecreateScaleSet \/ StartScaler \/ SetUpFails \/ ListenerReturns
    <3>1. /\ UNCHANGED <<command, interrupted, inherited>>
          /\ \/ main \notin {"off", "close", "serve", "snapshot", "stop"}
             \/ main = "serve" /\ main' = "close"
      BY <2>6 DEF GetRunnerGroup, GetOrCreateScaleSet, MessageSessionClient, DeleteStaleScaleSet,
         RecreateScaleSet, StartScaler, SetUpFails, ListenerReturns, Goto, StartUp, historyVars
    <3> QED BY <1>1, <2>1, <3>1 DEF Accounted, Lasts
  <2>7. CASE StartUpFails \/ CloseSession
    BY <2>7 DEF StartUpFails, CloseSession
  <2> QED BY <1>4, <2>2, <2>3, <2>4, <2>5, <2>6, <2>7 DEF MainStep
<1> QED BY <1>3, <1>4

(* The scaler makes a container for the call it is in, and forgets one     *)
(* that takes no jobs any more.                                            *)
LEMMA AccountedScaler ==
  ASSUME GatewayTypeOK, RestartInv, AccountInv, CleansUp, NEW j \in Jobs, Accounted(j),
         ScalerStep, UNCHANGED <<mainVars, setVars, historyVars>>, [GatewayNext]_gatewayVars
  PROVE  Accounted(j)'
<1>1. PICK n \in RunnerNames : n = OwnRunner(j) /\ n = OwnRunner(j)'
  BY OwnRunners DEF OwnRunner, RunnerName
<1>2. /\ docker \in [RunnerNames -> Container] /\ runners \in [RunnerNames -> RunnerInfo]
      /\ TypeOK /\ call \in Call /\ (pc \in CallPC => call.name \in RunnerNames)
      /\ UNCHANGED <<command, main, inherited, interrupted, cleanup>>
  BY DEF GatewayTypeOK, TypeOK, mainVars, historyVars
<1>3. main = "serve" /\ command = "all" => Live
  BY DEF AccountInv
<1>4. command = "all" /\ main \notin {"off", "close", "serve"} => main \in {"snapshot", "stop"}
  BY ScalerRuns DEF RestartInv, MailInv
<1>5. CASE command # "all" \/ main \in {"off", "close"} \/ ~Alive(n)'
  BY <1>1, <1>2, <1>5 DEF Accounted
<1>6. CASE command = "all" /\ main \notin {"off", "close"} /\ Alive(n)'
  <2>1. CASE ~Lasts(n)
    <3>1. (ContainerCreate \/ ContainerCreateFails) /\ n = call.name /\ docker' # docker
      BY <2>1, DockerStep DEF Lasts, Alive
    <3>2. CASE main = "serve"
      <4>1. Live /\ ContainerCreate
        BY <1>3, <1>6, <3>1, <3>2 DEF CleansUp, ContainerCreateFails, MayFail
      <4>2. pc' = "start" /\ call'.name = n
        BY <1>2, <3>1, <4>1 DEF ContainerCreate, Call
      <4> QED BY <1>1, <1>2, <3>2, <4>2 DEF Accounted
    <3>3. CASE main # "serve"
      <4>1. n = interrupted
        BY <1>4, <1>6, <3>1, <3>3 DEF AccountInv, ContainerCreate, ContainerCreateFails
      <4> QED BY <1>1, <1>2, <4>1 DEF Accounted
    <3> QED BY <3>2, <3>3
  <2>2. CASE Lasts(n)
    <3>1. ASSUME Tracked(runners, n), runners[n].id = docker[n].id
          PROVE  Tracked(runners', n) /\ runners'[n].id = docker[n].id
      <4>1. CASE runners' = runners
        BY <3>1, <4>1
      <4>2. CASE pc = "add" /\ runners' = AddRunner(runners, call.name, call.id, call.ip)
        BY <1>2, <3>1, <4>2 DEF AddRunner, Tracked, AccountInv
      <4>3. CASE pc = "forget" /\ runners' = Remove(runners, call.name)
        <5>1. n # call.name
          <6> SUFFICES ASSUME n = call.name PROVE FALSE
            OBVIOUS
          <6>1. ~Going(n)
            BY <1>1, <4>3 DEF RestartInv, JobSafe, Stopping
          <6>2. docker[n].state # "created"
            BY <3>1 DEF AccountInv, Begun
          <6> QED BY <1>6, <2>2, <6>1, <6>2 DEF Lasts, Alive, Going
        <5> QED BY <1>2, <3>1, <4>3, <5>1 DEF Remove, Tracked
      <4>4. CASE \A m \in RunnerNames : /\ Tracked(runners', m) <=> Tracked(runners, m)
                                        /\ runners'[m].id = runners[m].id
        BY <3>1, <4>4
      <4> QED BY <1>2, <4>1, <4>2, <4>3, <4>4, ScalerMoves
    <3>2. ASSUME main = "serve", pc \in {"start", "discard", "inspect", "add"}, call.name = n
          PROVE  \/ pc' \in {"start", "discard", "inspect", "add"} /\ call'.name = n
                 \/ Tracked(runners', n) /\ runners'[n].id = docker[n].id
      <4>1. Live /\ ~MayFail("cleanup") /\ ~MayFail("inspect")
        BY <1>3, <1>6, <3>2 DEF CleansUp, MayFail
      <4>2. CASE ContainerStart \/ ContainerStartFails \/ ContainerInspect
        BY <1>2, <3>2, <4>2 DEF ContainerStart, ContainerStartFails, ContainerInspect, Call
      <4>3. CASE ContainerDiscard
        <5>1. RemoveContainer(n, call.id)
          BY <3>2, <4>1, <4>3 DEF ContainerDiscard
        <5>2. docker'[n].state = "none"
          BY <1>2, <5>1 DEF RemoveContainer
        <5> QED BY <1>6, <5>2 DEF Alive
      <4>4. CASE RunnerProvisioned
        BY <1>2, <3>2, <4>4 DEF RunnerProvisioned, AddRunner, Tracked, AccountInv
      <4>5. CASE /\ ~ContainerStart /\ ~ContainerInspect /\ ~ContainerStartFails
                 /\ ~ContainerDiscard /\ ~RunnerProvisioned
        <5>1. pc \notin {"start", "discard", "inspect", "add"}
          BY <4>1, <4>5 DEF ScalerStep, RunReturns, Poll, GetMessage, GetMessageNothing, DeleteMessage,
             GenerateJitRunnerConfig, HandleJobAssigned, HandleJobStarted, HandleJobCompleted,
             Collect, Record, RunnerForgotten, Reconcile, ReconcileRunner, ReconcileDone,
             StartRunner, StopRunner, ContainerCreate, ContainerCreateFails,
             ContainerInspectFails, ContainerStop, ContainerRemove
        <5> QED BY <3>2, <5>1
      <4> QED BY <4>2, <4>3, <4>4, <4>5
    <3> QED BY <1>1, <1>2, <2>2, <3>1, <3>2, AccountKept
  <2> QED BY <2>1, <2>2
<1> QED BY <1>5, <1>6

LEMMA AccountedStep ==
  ASSUME GatewayTypeOK, RestartInv, AccountInv, CleansUp, NEW j \in Jobs, Accounted(j),
         [GatewayNext]_gatewayVars
  PROVE  Accounted(j)'
<1>1. CASE ProcessEnds
  BY <1>1 DEF ProcessEnds, Accounted
<1>2. CASE (Launch \/ MainStep \/ Signal) /\ ~ProcessEnds
  BY <1>2, AccountedMain
<1>3. CASE ScalerStep /\ UNCHANGED <<mainVars, setVars, historyVars>>
  BY <1>3, AccountedScaler
<1>4. CASE (Environment \/ UNCHANGED vars) /\ UNCHANGED <<mainVars, setVars, historyVars>>
  <2>1. PICK n \in RunnerNames : n = OwnRunner(j)
    BY OwnRunners
  <2>2. UNCHANGED <<command, main, inherited, interrupted, cleanup, runners, pc, call>>
    BY <1>4 DEF Environment, vars, scalerVars, mainVars, historyVars
  <2>3. Lasts(n)
    <3>1. docker \in [RunnerNames -> Container]
      BY DEF GatewayTypeOK, TypeOK
    <3>2. CASE Environment
      BY <3>1, <3>2, EnvironmentAges DEF Aged, Lasts, Alive
    <3>3. CASE UNCHANGED vars
      BY <3>3 DEF vars, Lasts, Alive
    <3> QED BY <1>4, <3>2, <3>3
  <2> QED BY <2>1, <2>2, <2>3, AccountKept
<1>5. Crash => ProcessEnds
  BY DEF Crash
<1> QED BY <1>1, <1>2, <1>3, <1>4, <1>5 DEF GatewayNext, gatewayVars

(* CleanedUp: the list that main takes while the goroutine of Run goes on  *)
(* misses no container of a job but the one whose provisioning was         *)
(* interrupted, however the two go on together.                            *)
THEOREM CleanUpComplete ==
  ASSUME Acknowledged, CleansUp
  PROVE  GatewaySpec => []CleanedUp
<1> DEFINE Account == AccountInv /\ \A j \in Jobs : Accounted(j)
<1>1. GatewayInit => Account
  <2> SUFFICES ASSUME GatewayInit PROVE Account
    OBVIOUS
  <2>1. \A n \in RunnerNames : ~Tracked(runners, n)
    BY DEF GatewayInit, NewStore, Absent, Tracked
  <2> QED BY <2>1 DEF GatewayInit, AccountInv, Accounted, Live
<1>2. GatewayTypeOK /\ RestartInv /\ Account /\ [GatewayNext]_gatewayVars => Account'
  <2> SUFFICES ASSUME GatewayTypeOK, RestartInv, Account, [GatewayNext]_gatewayVars
               PROVE  Account'
    OBVIOUS
  <2>1. AccountInv'
    BY AccountStep DEF RestartInv
  <2>2. ASSUME NEW j \in Jobs PROVE Accounted(j)'
    BY AccountedStep
  <2> QED BY <2>1, <2>2
<1>3. Account => CleanedUp
  <2> SUFFICES ASSUME Account, StoppedAll, NEW j \in Jobs, Alive(OwnRunner(j))
               PROVE  <<OwnRunner(j), docker[OwnRunner(j)].id>> \in inherited
                        \/ OwnRunner(j) = interrupted
    BY DEF CleanedUp, Alive
  <2> QED BY DEF StoppedAll, AccountInv, Accounted
<1> HIDE DEF Account
<1> QED BY <1>1, <1>2, <1>3, RestartHolds, PTL DEF GatewaySpec
=============================================================================
