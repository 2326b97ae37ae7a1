--------------------------- MODULE CountingProofs ---------------------------
(***************************************************************************)
(* The counts that reconcileRunnerCount and the capacity rest on: how many *)
(* runners the store has, how many jobs GitHub counts, and how many jobs   *)
(* the handlers know of.  For every number of jobs, runners and addresses; *)
(* each theorem names the faults it excludes.                              *)
(***************************************************************************)
EXTENDS LifecycleProofs

Names == RunnerNames \cup {NoRunner}

(* A job ends once, and is told of once; a job that is done and was not    *)
(* handled yet has its JobCompleted on the way.                            *)
EndInv ==
  \A j \in Jobs :
    /\ \A n \in Names : CompletedAt[j][n] # {} => job[j] = "done"
    /\ \A n, m \in Names : \A a \in CompletedAt[j][n], b \in CompletedAt[j][m] : n = m /\ a = b
    /\ job[j] = "done" /\ j \notin handled => \E n \in Names : CompletedAt[j][n] # {}

(* The jobs that were assigned by the message with this id, and whose end  *)
(* comes in a later one: those that GitHub counted in that message.        *)
Open(id) ==
  {j \in Jobs :
     /\ job[j] # "queued" /\ \A a \in AssignedAt[j] : a <= id
     /\ job[j] = "done" => \E n \in Names : \E c \in CompletedAt[j][n] : c > id}

StatsInv ==
  \A m \in Undelivered \cup {msg} : m.stats # NoStats => m.stats = Cardinality(Open(m.id))

Active == ActiveRunners(runners)

One(b) == IF b THEN 1 ELSE 0

(* A container runs only when StartRunner says that it was started. *)
Known == Faults \cap {"startlost", "inspect"} = {}

(* And a job that GitHub counted has a runner when it ends. *)
Reliable == Known /\ "canceljob" \notin Faults

(* A JobCompleted that names n is on its way, or may still come. *)
MayEnd(n) == docker[n].state \in {"idle", "busy"} \/ \E j \in Jobs : CompletedAt[j][n] # {}

(* Every container that may run a job is in the store, or will be when its *)
(* provisioning ends, before an event of it arrives.                       *)
KnownInv ==
  /\ "canceljob" \notin Faults => \A j \in Jobs : CompletedAt[j][NoRunner] = {}
  /\ Live =>
       \A n \in RunnerNames :
         MayEnd(n) => Tracked(runners, n) \/ (n = call.name /\ pc \in Provisioning)
  /\ \A j \in Jobs, n \in RunnerNames :
       <<j, n>> \in msg.events.completed => Tracked(runners, n)

(* Not more runners than jobs: those that are active, the one that is      *)
(* being provisioned, and those that reconcileRunnerCount will add.  A     *)
(* JobCompleted takes a runner away with its job.                          *)
SurplusInv ==
  /\ rec.i <= rec.deficit
  /\ Caller # "reconcile" => rec = NoReconcile
  /\ Cardinality(Active) + One(pc \in ProvisionPC) + (rec.deficit - rec.i)
       <= Cardinality(Outstanding)

(* Not fewer runners than jobs: when provisioning never fails, every       *)
(* handled job has a runner for it, and nothing is left to reconcile.      *)
EnoughAddresses == ~IsFiniteSet(IPs) \/ Cardinality(IPs) >= Cardinality(Jobs)

Provides ==
  /\ Faults \cap {"jit", "create", "start", "startlost", "inspect", "shutdown"} = {}
  /\ EnoughAddresses

Own(j) == RunnerName(ProfileOf[j], j)

NamesInv ==
  /\ \A n \in RunnerNames :
       /\ docker[n].state # "none" => \E j \in handled : n = Own(j)
       /\ docker[n].state \in {"none", "created", "exited"} => docker[n].ip = NoIP
  /\ pc \in ProvisionPC => \E j \in handled : call.name = Own(j)
  /\ pc \in {"jit", "create"} => docker[call.name].state = "none"

DeficitInv ==
  /\ Live /\ pc # "discard" /\ Caller # "reconcile" /\ rec = NoReconcile
  /\ Cardinality(Outstanding) <= Cardinality(Active) + One(pc \in ProvisionPC)

StatsSent ==
  /\ \A m \in Undelivered : m.stats # NoStats
  /\ Caller \notin {"poll", "wait", "reconcile", "returned"} => msg.stats # NoStats

(* The jobs whose JobAssigned was not handled, the runners that are        *)
(* active, and the one that is being provisioned or stopped fill no more   *)
(* than MaxRunners slots.                                                  *)
Waiting == {j \in Jobs : AssignedAt[j] # {}}

SlotsInv ==
  /\ Cardinality(Active) + One(pc \in CallPC) + Cardinality(Waiting) <= MaxRunners
  /\ IF pc = "wait" THEN capacity <= AvailableCapacity ELSE capacity = 0
-----------------------------------------------------------------------------
(* What a step means for the jobs, by what is told of them. *)

JobAssigned(j) ==
  /\ AssignJob(j) /\ UNCHANGED <<ctx, scalerVars>>
  /\ job[j] = "queued" /\ job' = [job EXCEPT ![j] = "assigned"]
  /\ JobGains(AssignedAt', AssignedAt, j, nextID)
  /\ UNCHANGED <<CompletedAt, handled>>

JobEnded(j, n) ==
  /\ job[j] \in {"assigned", "running"} /\ job' = [job EXCEPT ![j] = "done"]
  /\ n = NoRunner => "canceljob" \in Faults
  /\ RunGains(CompletedAt', CompletedAt, Names, j, n, nextID)
  /\ UNCHANGED <<AssignedAt, handled>>

AssignmentHandled(j) ==
  /\ HandleJobAssigned(j)
  /\ AssignedAt[j] = {msg.id} /\ AssignedAt'[j] = {}
  /\ \A k \in Jobs : k # j => AssignedAt'[k] = AssignedAt[k]
  /\ handled' = handled \cup {j}
  /\ UNCHANGED <<job, CompletedAt>>

CompletionHandled(j, n) ==
  /\ HandleJobCompleted(j, n)
  /\ AssignedAt[j] = {} /\ msg.id \in CompletedAt[j][n]
  /\ RunLoses(CompletedAt', CompletedAt, Names, j, n, msg.id)
  /\ UNCHANGED <<job, AssignedAt, handled>>

NothingTold ==
  /\ \A j \in Jobs : job'[j] = job[j] \/ (job[j] = "assigned" /\ job'[j] = "running")
  /\ UNCHANGED <<AssignedAt, CompletedAt, handled>>
  /\ \A j \in Jobs : ~HandleJobAssigned(j)
  /\ \A j \in Jobs, n \in Names : ~HandleJobCompleted(j, n)

(* A handler takes its event from the message. *)
LEMMA HandlersTake ==
  ASSUME TypeOK, UNCHANGED msg
  PROVE  /\ \A j \in Jobs : ~HandleJobAssigned(j)
         /\ \A j \in Jobs, n \in Names : ~HandleJobCompleted(j, n)
<1>1. msg \in Message /\ msg.events \in Events
  BY DEF TypeOK, Message
<1>2. ASSUME NEW j \in Jobs, HandleJobAssigned(j) PROVE FALSE
  <2>1. j \in msg.events.assigned /\ msg'.events.assigned = msg.events.assigned \ {j}
    BY <1>1, <1>2 DEF HandleJobAssigned, Message, Events
  <2> QED BY <2>1
<1>3. ASSUME NEW j \in Jobs, NEW n \in Names, HandleJobCompleted(j, n) PROVE FALSE
  <2>1. /\ <<j, n>> \in msg.events.completed
        /\ msg'.events.completed = msg.events.completed \ {<<j, n>>}
    BY <1>1, <1>3 DEF HandleJobCompleted, Message, Events
  <2> QED BY <2>1
<1> QED BY <1>2, <1>3

(* The job of a container ends by itself, or by a stop or a removal. *)
LEMMA RunnerEnded ==
  ASSUME TypeOK, LineInv, LifeInv, NEW n \in RunnerNames, docker[n].state = "busy",
         JobStopped(n), UNCHANGED <<inbox, nextID, msg, lastMessageID, handled>>
  PROVE  \E j \in Jobs : JobEnded(j, n)
<1>1. docker[n] \in Container
  BY DEF TypeOK
<1>2. docker[n].job \in Jobs /\ job[docker[n].job] = "running"
  BY <1>1, ScalerAssumption DEF Container, LifeInv, RunnerInv
<1> QED BY <1>2, EventAdded, ScalerAssumption DEF JobStopped, JobEnded, Names

LEMMA JobStepEnvironment ==
  ASSUME Invariant, Environment
  PROVE  \/ \E j \in Jobs : JobAssigned(j)
         \/ \E j \in Jobs, n \in Names : JobEnded(j, n)
         \/ NothingTold
<1>1. /\ UNCHANGED <<ctx, runners, msg, lastMessageID, pc, call, handled>>
      /\ TypeOK /\ LineInv /\ LifeInv
  BY ScalerWaits DEF Environment, Invariant
<1>2. /\ \A j \in Jobs : ~HandleJobAssigned(j)
      /\ \A j \in Jobs, n \in Names : ~HandleJobCompleted(j, n)
  BY <1>1, HandlersTake
<1>3. CASE MakeMessage
  BY <1>1, <1>2, <1>3, EventsKept DEF MakeMessage, events, NothingTold
<1>4. ASSUME NEW j \in Jobs, AssignJob(j) PROVE JobAssigned(j)
  BY <1>1, <1>4, EventAdded DEF AssignJob, JobAssigned, Environment
<1>5. ASSUME NEW j \in Jobs, CancelJob(j) PROVE \E n \in Names : JobEnded(j, n)
  BY <1>1, <1>5, EventAdded DEF CancelJob, JobEnded, Names
<1>6. ASSUME NEW n \in RunnerNames, NEW j \in Jobs, RunnerTakesJob(n, j) PROVE NothingTold
  BY <1>1, <1>2, <1>6, EventAdded DEF RunnerTakesJob, NothingTold, TypeOK
<1>7. ASSUME NEW n \in RunnerNames, NEW state, NEW ip, JobEnds(n, state, ip)
      PROVE  \E j \in Jobs : JobEnded(j, n)
  BY <1>1, <1>7, RunnerEnded DEF JobEnds, JobStopped
<1>8. ASSUME NEW n \in RunnerNames, GraceEnds(n) \/ RunnerQuits(n) PROVE NothingTold
  BY <1>1, <1>2, <1>8, EventsKept DEF GraceEnds, RunnerQuits, githubVars, events, NothingTold
<1> QED
  BY <1>3, <1>4, <1>5, <1>6, <1>7, <1>8 DEF Environment, RunnerFinishesJob, RunnerKilled, Names

LEMMA JobStep ==
  ASSUME Invariant, [Next]_vars
  PROVE  /\ \/ \E j \in Jobs : JobAssigned(j) \/ AssignmentHandled(j)
            \/ \E j \in Jobs, n \in Names : JobEnded(j, n) \/ CompletionHandled(j, n)
            \/ NothingTold
         /\ \A j \in Jobs : HandleJobAssigned(j) => AssignmentHandled(j)
         /\ \A j \in Jobs, n \in Names : HandleJobCompleted(j, n) => CompletionHandled(j, n)
<1>1. TypeOK /\ LineInv /\ LifeInv
  BY DEF Invariant
<1>2. ASSUME NEW j \in Jobs, HandleJobAssigned(j) PROVE AssignmentHandled(j)
  <2>1. /\ pc = "dispatch" /\ j \in msg.events.assigned /\ handled' = handled \cup {j}
        /\ UNCHANGED <<job, inbox, outbox, nextID, lastMessageID>>
    BY <1>2 DEF HandleJobAssigned, githubVars
  <2>2. JobLoses(AssignedAt', AssignedAt, j, msg.id) /\ UNCHANGED CompletedAt
    BY <1>1, <1>2, <2>1, EventHandled DEF HandleJobAssigned
  <2>3. msg.id \in AssignedAt[j] /\ \A a, b \in AssignedAt[j] : a = b
    BY <1>1, <2>1, FirstInLine DEF LifeInv, Unique
  <2> QED BY <1>2, <2>1, <2>2, <2>3 DEF JobLoses, AssignmentHandled
<1>3. ASSUME NEW j \in Jobs, NEW n \in Names, HandleJobCompleted(j, n) PROVE CompletionHandled(j, n)
  <2>1. /\ pc = "dispatch" /\ msg.events.assigned = {} /\ <<j, n>> \in msg.events.completed
        /\ UNCHANGED <<job, inbox, outbox, nextID, lastMessageID, handled>>
    BY <1>3 DEF HandleJobCompleted, githubVars
  <2>2. RunLoses(CompletedAt', CompletedAt, Names, j, n, msg.id) /\ UNCHANGED AssignedAt
    BY <1>1, <1>3, <2>1, EventHandled DEF HandleJobCompleted, Names
  <2>3. msg.id \in CompletedAt[j][n]
    BY <1>1, <2>1, FirstInLine DEF Names
  <2>4. \A a \in AssignedAt[j] : a <= msg.id /\ msg.id <= a /\ a \in Nat /\ msg.id \in Nat
    BY <1>1, <2>1, <2>3, FirstInLine, EventIDs DEF LifeInv, InOrder, TypeOK, Message, Names
  <2>5. msg.id \notin AssignedAt[j]
    BY <1>1, <2>1, FirstInLine
  <2> QED BY <1>3, <2>1, <2>2, <2>3, <2>4, <2>5 DEF CompletionHandled
<1>4. ASSUME \A j \in Jobs : ~HandleJobAssigned(j),
             \A j \in Jobs, n \in Names : ~HandleJobCompleted(j, n),
             UNCHANGED <<job, handled>>, UNCHANGED events
      PROVE  NothingTold
  BY <1>4 DEF NothingTold, events
<1>5. ASSUME ScalerStep, \A j \in Jobs : ~HandleJobAssigned(j),
             \A j \in Jobs, n \in Names : ~HandleJobCompleted(j, n)
      PROVE  NothingTold \/ \E j \in Jobs, n \in Names : JobEnded(j, n)
  <2>1. ASSUME NEW j \in Jobs, NEW n \in RunnerNames, HandleJobStarted(j, n) PROVE NothingTold
    <3>1. UNCHANGED <<AssignedAt, CompletedAt, job, handled>>
      BY <1>1, <2>1, EventHandled DEF HandleJobStarted, githubVars
    <3> QED BY <1>5, <3>1 DEF NothingTold
  <2>2. CASE ~\E j \in Jobs, n \in RunnerNames : HandleJobStarted(j, n)
    <3>1. CASE GetMessage \/ DeleteMessage \/ Reconcile
      <4>1. UNCHANGED <<job, handled>>
        BY <3>1 DEF GetMessage, DeleteMessage, Reconcile, githubVars, loopVars
      <4>2. UNCHANGED events
        BY <1>1, <3>1, EventsKept
      <4> QED BY <1>4, <1>5, <4>1, <4>2
    <3>2. ASSUME UNCHANGED <<job, handled, inbox, outbox, nextID, msg, lastMessageID>>
          PROVE  NothingTold
      <4>1. UNCHANGED events
        BY <1>1, <3>2, EventsKept
      <4> QED BY <1>4, <1>5, <3>2, <4>1
    <3>3. CASE (ContainerDiscard /\ StartRunner) \/ StopRunner
      <4>1. /\ UNCHANGED <<inbox, nextID, msg, lastMessageID, handled>> /\ call.name \in RunnerNames
            /\ UNCHANGED <<job, outbox>> \/ JobStopped(call.name)
        BY <1>1, <3>3 DEF StartRunner, StopRunner, ContainerDiscard, ContainerStop, ContainerRemove,
           loopVars, TypeOK, CallPC
      <4>2. CASE docker[call.name].state = "busy" /\ JobStopped(call.name)
        BY <1>1, <4>1, <4>2, RunnerEnded DEF Names
      <4>3. CASE ~(docker[call.name].state = "busy" /\ JobStopped(call.name))
        BY <3>2, <4>1, <4>3 DEF JobStopped
      <4> QED BY <4>2, <4>3
    <3>4. CASE /\ ~(GetMessage \/ DeleteMessage \/ Reconcile)
               /\ ~((ContainerDiscard /\ StartRunner) \/ StopRunner)
      BY <1>5, <2>2, <3>2, <3>4 DEF ScalerStep, Names, RunReturns, Poll, GetMessageNothing,
         GenerateJitRunnerConfig, StartRunner, RunnerProvisioned, Collect, Record,
         RunnerForgotten, ReconcileRunner, ReconcileDone, githubVars, loopVars
    <3> QED BY <3>1, <3>3, <3>4
  <2> QED BY <2>1, <2>2
<1>6. CASE CancelContext \/ UNCHANGED vars
  <2>1. UNCHANGED <<job, handled, inbox, outbox, nextID, msg, lastMessageID>>
    BY <1>6 DEF CancelContext, vars, scalerVars, loopVars, githubVars
  <2>2. UNCHANGED events
    BY <1>1, <2>1, EventsKept
  <2>3. /\ \A j \in Jobs : ~HandleJobAssigned(j)
        /\ \A j \in Jobs, n \in Names : ~HandleJobCompleted(j, n)
    BY <1>1, <2>1, HandlersTake
  <2> QED BY <1>4, <2>1, <2>2, <2>3
<1> QED BY <1>2, <1>3, <1>5, <1>6, JobStepEnvironment DEF Next
-----------------------------------------------------------------------------
LEMMA EndInit == Init => EndInv
<1> SUFFICES ASSUME Init PROVE EndInv
  OBVIOUS
<1>1. \A j \in Jobs : job[j] = "queued"
  BY DEF Init, GitHubInit
<1>2. \A j \in Jobs, n \in Names : CompletedAt[j][n] = {}
  BY <1>1, LifeInit DEF LifeInv, JobInv, JobKnown, Names
<1> QED BY <1>1, <1>2 DEF EndInv

LEMMA EndStep ==
  ASSUME Invariant, EndInv, [Next]_vars
  PROVE  EndInv'
<1>1. job \in [Jobs -> JobState] /\ \A j \in Jobs : AssignedAt[j] # {} => j \notin handled
  BY DEF Invariant, TypeOK, LifeInv, JobInv, JobKnown
<1>2. ASSUME NEW j \in Jobs, JobAssigned(j) PROVE EndInv'
  BY <1>1, <1>2 DEF EndInv, JobAssigned
<1>3. ASSUME NEW j \in Jobs, NEW n \in Names, JobEnded(j, n) PROVE EndInv'
  <2>1. \A m \in Names : CompletedAt[j][m] = {}
    BY <1>3 DEF EndInv, JobEnded
  <2>2. /\ \A m \in Names : CompletedAt'[j][m] = IF m = n THEN {nextID} ELSE {}
        /\ \A k \in Jobs, m \in Names : k # j => CompletedAt'[k][m] = CompletedAt[k][m]
        /\ \A k \in Jobs : job'[k] = IF k = j THEN "done" ELSE job[k]
        /\ handled' = handled
    BY <1>1, <1>3, <2>1 DEF JobEnded, RunGains
  <2>3. ASSUME NEW k \in Jobs
        PROVE  /\ \A m \in Names : CompletedAt'[k][m] # {} => job'[k] = "done"
               /\ \A l, m \in Names : \A a \in CompletedAt'[k][l], b \in CompletedAt'[k][m] :
                    l = m /\ a = b
               /\ job'[k] = "done" /\ k \notin handled' => \E m \in Names : CompletedAt'[k][m] # {}
    <3>1. CASE k = j
      BY <2>2, <3>1
    <3>2. CASE k # j
      BY <2>2, <3>2 DEF EndInv
    <3> QED BY <3>1, <3>2
  <2> QED BY <2>3 DEF EndInv
<1>4. ASSUME NEW j \in Jobs, AssignmentHandled(j) PROVE EndInv'
  BY <1>4 DEF EndInv, AssignmentHandled
<1>5. ASSUME NEW j \in Jobs, NEW n \in Names, CompletionHandled(j, n) PROVE EndInv'
  <2>1. /\ \A k \in Jobs, m \in Names : CompletedAt'[k][m] \subseteq CompletedAt[k][m]
        /\ \A k \in Jobs, m \in Names : k # j => CompletedAt'[k][m] = CompletedAt[k][m]
        /\ UNCHANGED <<job, handled>>
    BY <1>5 DEF CompletionHandled, RunLoses
  <2>2. j \in handled
    BY <1>5 DEF CompletionHandled, EndInv, Invariant, LifeInv, JobInv, JobKnown
  <2> QED BY <2>1, <2>2 DEF EndInv
<1>6. CASE NothingTold
  BY <1>6 DEF NothingTold, EndInv
<1> QED BY <1>2, <1>3, <1>4, <1>5, <1>6, JobStep
-----------------------------------------------------------------------------
(* Outstanding, in terms of the messages that tell of a completion. *)
Untold(j) == job[j] = "done" => \E n \in Names : CompletedAt[j][n] # {}

LEMMA OutstandingTold == TypeOK => Outstanding = {j \in handled : Untold(j)}
<1> SUFFICES ASSUME TypeOK PROVE Outstanding = {j \in handled : Untold(j)}
  OBVIOUS
<1>1. ASSUME NEW j \in Jobs, NEW n \in Names
      PROVE  OnTheWay(<<j, n>>, "completed") <=> CompletedAt[j][n] # {}
  <2>1. CompletedAt[j][n] = {m.id : m \in {x \in Line : <<j, n>> \in x.events.completed}}
    BY DEF CompletedAt, CompletedIn, Names
  <2>2. CompletedAt[j][n] # {} <=> \E m \in Line : <<j, n>> \in m.events.completed
    BY <2>1
  <2>3. (\E m \in Line : <<j, n>> \in m.events.completed)
          <=> \/ <<j, n>> \in outbox.completed
              \/ \E m \in Undelivered : <<j, n>> \in m.events.completed
              \/ <<j, n>> \in msg.events.completed
    <3>1. Draft.events = outbox
      BY DEF Draft
    <3> QED BY <3>1 DEF Line
  <2>4. OnTheWay(<<j, n>>, "completed")
          <=> \/ <<j, n>> \in outbox.completed
              \/ \E m \in Undelivered : <<j, n>> \in m.events.completed
              \/ <<j, n>> \in msg.events.completed
    BY DEF OnTheWay
  <2> QED BY <2>2, <2>3, <2>4
<1> QED BY <1>1 DEF Outstanding, Names, TypeOK, Untold

(* Which jobs are outstanding: a job is from its handled JobAssigned to    *)
(* its handled JobCompleted.                                               *)
LEMMA OutstandingStep ==
  ASSUME Invariant, EndInv, [Next]_vars
  PROVE  /\ \A j \in Jobs : HandleJobAssigned(j) =>
              j \notin Outstanding /\ Outstanding' = Outstanding \cup {j}
         /\ \A j \in Jobs, n \in Names : HandleJobCompleted(j, n) =>
              j \in Outstanding /\ Outstanding' = Outstanding \ {j}
         /\ \/ Outstanding' = Outstanding
            \/ \E j \in Jobs : HandleJobAssigned(j)
            \/ \E j \in Jobs, n \in Names : HandleJobCompleted(j, n)
<1>1. /\ TypeOK /\ TypeOK' /\ job \in [Jobs -> JobState] /\ handled \subseteq Jobs
      /\ \A j \in Jobs : AssignedAt[j] # {} => j \notin handled /\ job[j] # "queued"
      /\ \A j \in Jobs : AssignedAt[j] = {} /\ job[j] # "queued" => j \in handled
      /\ \A j \in Jobs : job[j] = "queued" => j \notin handled
  BY TypeStep DEF Invariant, TypeOK, LifeInv, JobInv, JobKnown
<1> DEFINE told(j) == \E n \in Names : CompletedAt[j][n] # {}
<1>2. /\ Outstanding = {j \in handled : job[j] = "done" => told(j)}
      /\ Outstanding' = {j \in handled' : job'[j] = "done" => told(j)'}
  <2>1. (TypeOK => Outstanding = {j \in handled : Untold(j)})'
    BY OutstandingTold, PTL
  <2> QED BY <1>1, <2>1, OutstandingTold DEF Untold, Names
<1>3. ASSUME NEW j \in Jobs, AssignmentHandled(j)
      PROVE  j \notin Outstanding /\ Outstanding' = Outstanding \cup {j}
  <2>1. j \notin handled /\ (job[j] = "done" => told(j))
    BY <1>1, <1>3 DEF AssignmentHandled, EndInv
  <2> QED BY <1>2, <1>3, <2>1 DEF AssignmentHandled
<1>4. ASSUME NEW j \in Jobs, NEW n \in Names, CompletionHandled(j, n)
      PROVE  j \in Outstanding /\ Outstanding' = Outstanding \ {j}
  <2>1. /\ \A k \in Jobs : k # j => (told(k)' <=> told(k))
        /\ UNCHANGED <<job, handled>>
    BY <1>4 DEF CompletionHandled, RunLoses
  <2>2. /\ told(j) /\ j \in handled /\ job[j] = "done"
    BY <1>1, <1>4 DEF CompletionHandled, EndInv
  <2>3. ~told(j)'
    <3>1. \A m \in Names : CompletedAt'[j][m] = IF m = n THEN CompletedAt[j][m] \ {msg.id} ELSE CompletedAt[j][m]
      BY <1>4 DEF CompletionHandled, RunLoses
    <3>2. \A m \in Names : \A c \in CompletedAt[j][m] : m = n /\ c = msg.id
      BY <1>4 DEF CompletionHandled, EndInv
    <3> QED BY <3>1, <3>2
  <2> HIDE DEF told
  <2> QED BY <1>1, <1>2, <2>1, <2>2, <2>3
<1>5. ASSUME NEW j \in Jobs, JobAssigned(j) PROVE Outstanding' = Outstanding
  <2>1. /\ \A k \in Jobs : k # j => job'[k] = job[k]
        /\ j \notin handled /\ UNCHANGED <<CompletedAt, handled>>
    BY <1>1, <1>5 DEF JobAssigned
  <2> QED BY <1>1, <1>2, <2>1
<1>6. ASSUME NEW j \in Jobs, NEW n \in Names, JobEnded(j, n) PROVE Outstanding' = Outstanding
  <2>1. /\ \A k \in Jobs : k # j => job'[k] = job[k] /\ (told(k)' <=> told(k))
        /\ handled' = handled /\ job[j] # "done" /\ told(j)'
    BY <1>1, <1>6 DEF JobEnded, RunGains
  <2> HIDE DEF told
  <2> QED BY <1>1, <1>2, <2>1
<1>7. ASSUME NothingTold PROVE Outstanding' = Outstanding
  <2>1. \A k \in Jobs : job'[k] = "done" <=> job[k] = "done"
    BY <1>1, <1>7 DEF NothingTold
  <2>2. handled' = handled /\ CompletedAt' = CompletedAt
    BY <1>7 DEF NothingTold
  <2>3. \A k \in Jobs : told(k)' <=> told(k)
    BY <2>2
  <2> HIDE DEF told
  <2> QED BY <1>1, <1>2, <2>1, <2>2, <2>3
<1> QED BY <1>3, <1>4, <1>5, <1>6, <1>7, JobStep DEF AssignmentHandled, CompletionHandled
-----------------------------------------------------------------------------
(* The statistics. *)

(* What a message counted stays true of it until it is handled: what was   *)
(* assigned or ended since has a later id.                                 *)
LEMMA OpenKept ==
  ASSUME Invariant, EndInv, [Next]_vars, NEW id \in Nat, msg.id <= id, id < nextID
  PROVE  Open(id)' = Open(id)
<1>1. /\ TypeOK /\ LineInv /\ job \in [Jobs -> JobState] /\ nextID \in Nat /\ msg.id \in Nat
      /\ AssignedAt \in [Jobs -> SUBSET (0..nextID)]
      /\ CompletedAt \in [Jobs -> [Names -> SUBSET (0..nextID)]]
  BY EventIDs DEF Invariant, TypeOK, Message, Names
<1> DEFINE assigned(j) == job[j] # "queued" /\ \A a \in AssignedAt[j] : a <= id
           later(j) == \E n \in Names : \E c \in CompletedAt[j][n] : c > id
           open(j) == assigned(j) /\ (job[j] = "done" => later(j))
<1>2. Open(id) = {j \in Jobs : open(j)} /\ Open(id)' = {j \in Jobs : open(j)'}
  BY DEF Open
<1>3. SUFFICES ASSUME NEW k \in Jobs PROVE open(k)' <=> open(k)
  BY <1>2
<1>4. ASSUME NEW j \in Jobs, JobAssigned(j) PROVE open(k)' <=> open(k)
  <2>1. k # j => open(k)' = open(k)
    BY <1>1, <1>4 DEF JobAssigned, JobGains
  <2>2. k = j => job[k] = "queued" /\ nextID \in AssignedAt'[k]
    BY <1>4 DEF JobAssigned, JobGains
  <2>3. ~(nextID <= id)
    BY <1>1
  <2> QED BY <2>1, <2>2, <2>3
<1>5. ASSUME NEW j \in Jobs, NEW n \in Names, JobEnded(j, n) PROVE open(k)' <=> open(k)
  <2>1. /\ AssignedAt' = AssignedAt
        /\ k # j => job'[k] = job[k] /\ \A m \in Names : CompletedAt'[k][m] = CompletedAt[k][m]
        /\ k = j => nextID \in CompletedAt'[k][n] /\ job[k] \in {"assigned", "running"} /\ job'[k] = "done"
    <3>1. k # j => \A m \in Names : CompletedAt'[k][m] = CompletedAt[k][m]
      BY <1>5 DEF JobEnded, RunGains
    <3> QED BY <1>1, <1>5, <3>1 DEF JobEnded, RunGains
  <2> QED BY <1>1, <2>1
<1>6. ASSUME NEW j \in Jobs, AssignmentHandled(j) PROVE open(k)' <=> open(k)
  <2>1. /\ UNCHANGED <<job, CompletedAt>>
        /\ k # j => AssignedAt'[k] = AssignedAt[k]
        /\ k = j => AssignedAt[k] = {msg.id} /\ AssignedAt'[k] = {}
    BY <1>6 DEF AssignmentHandled
  <2> QED BY <1>1, <2>1
<1>7. ASSUME NEW j \in Jobs, NEW n \in Names, CompletionHandled(j, n) PROVE open(k)' <=> open(k)
  <2>1. /\ UNCHANGED <<job, AssignedAt>>
        /\ \A m \in Names : CompletedAt'[k][m] = IF k = j /\ m = n THEN CompletedAt[k][m] \ {msg.id}
                                                 ELSE CompletedAt[k][m]
    BY <1>7 DEF CompletionHandled, RunLoses
  <2>2. \A m \in Names : \A c \in CompletedAt[k][m] : c > id => c # msg.id
    BY <1>1
  <2>3. later(k)' <=> later(k)
    BY <2>1, <2>2
  <2> QED BY <2>1, <2>3
<1>8. ASSUME NothingTold PROVE open(k)' <=> open(k)
  <2>1. UNCHANGED <<AssignedAt, CompletedAt>> /\ (job'[k] = job[k] \/ (job[k] = "assigned" /\ job'[k] = "running"))
    BY <1>8 DEF NothingTold
  <2> QED BY <2>1
<1> QED BY <1>4, <1>5, <1>6, <1>7, <1>8, JobStep

(* The next message counts the jobs that are assigned or running. *)
LEMMA OpenNow ==
  ASSUME Invariant
  PROVE  Open(nextID) = {j \in Jobs : job[j] \in {"assigned", "running"}}
<1>1. /\ job \in [Jobs -> JobState] /\ nextID \in Nat
      /\ AssignedAt \in [Jobs -> SUBSET (0..nextID)]
      /\ CompletedAt \in [Jobs -> [Names -> SUBSET (0..nextID)]]
  BY EventIDs DEF Invariant, TypeOK, Names
<1> QED BY <1>1 DEF Open, JobState

(* When its events are handled, a message has counted the outstanding jobs. *)
LEMMA OpenHandled ==
  ASSUME Invariant, pc = "dispatch", msg.events = NoEvents
  PROVE  Open(msg.id) = Outstanding
<1>1. /\ TypeOK /\ LineInv /\ msg.id \in Nat /\ handled \subseteq Jobs
      /\ AssignedAt \in [Jobs -> SUBSET (0..nextID)]
      /\ CompletedAt \in [Jobs -> [Names -> SUBSET (0..nextID)]]
  BY EventIDs DEF Invariant, TypeOK, Message, Names
<1>2. ASSUME NEW j \in Jobs
      PROVE  /\ \A a \in AssignedAt[j] : a > msg.id
             /\ \A n \in Names : \A c \in CompletedAt[j][n] : c > msg.id
  <2>1. /\ msg.id \notin AssignedAt[j] /\ \A a \in AssignedAt[j] : msg.id <= a
        /\ \A n \in Names : msg.id \notin CompletedAt[j][n] /\ \A c \in CompletedAt[j][n] : msg.id <= c
    BY <1>1, FirstInLine DEF NoEvents, Names
  <2>a. msg.id \in Nat
    BY <1>1
  <2>2. AssignedAt[j] \subseteq Nat /\ \A n \in Names : CompletedAt[j][n] \subseteq Nat
    BY <1>1
  <2>3. ASSUME NEW n \in Names, NEW c \in CompletedAt[j][n] PROVE c > msg.id
    <3>1. c \in Nat /\ msg.id <= c /\ c # msg.id
      BY <2>1, <2>2
    <3> QED BY <2>a, <3>1
  <2>4. ASSUME NEW a \in AssignedAt[j] PROVE a > msg.id
    <3>1. a \in Nat /\ msg.id <= a /\ a # msg.id
      BY <2>1, <2>2
    <3> QED BY <2>a, <3>1
  <2> QED BY <2>3, <2>4
<1>3. \A j \in Jobs : j \in handled <=> job[j] # "queued" /\ AssignedAt[j] = {}
  BY DEF Invariant, LifeInv, JobInv, JobKnown
<1>4. \A j \in Jobs : AssignedAt[j] = {} <=> \A a \in AssignedAt[j] : a <= msg.id
  BY <1>1, <1>2
<1>5. \A j \in Jobs : (\E n \in Names : \E c \in CompletedAt[j][n] : c > msg.id)
                        <=> \E n \in Names : CompletedAt[j][n] # {}
  BY <1>2
<1> QED BY <1>1, <1>3, <1>4, <1>5, OutstandingTold DEF Open, Untold

LEMMA StatsInit == Init => StatsInv
  BY DEF Init, GitHubInit, StatsInv, Undelivered, NoMessage

LEMMA StatsStep ==
  ASSUME Invariant, EndInv, StatsInv, [Next]_vars
  PROVE  StatsInv'
<1>1. /\ TypeOK /\ LineInv /\ nextID \in Nat \ {0} /\ msg.id \in Nat /\ lastMessageID \in Nat
      /\ \A m \in inbox : m.id \in Nat
  BY DEF Invariant, TypeOK, Message
<1>2. \A m \in Undelivered \cup {msg} : m.id \in Nat /\ msg.id <= m.id /\ m.id < nextID
  BY <1>1 DEF LineInv, Undelivered
<1>3. \A m \in Undelivered \cup {msg} : Open(m.id)' = Open(m.id)
  BY <1>2, OpenKept
<1>4. ASSUME NEW m \in (Undelivered \cup {msg})', m.stats # NoStats,
             \E x \in Undelivered \cup {msg} : x.id = m.id /\ x.stats = m.stats
      PROVE  m.stats = Cardinality(Open(m.id)')
  BY <1>3, <1>4 DEF StatsInv
<1>5. CASE MakeMessage /\ UNCHANGED <<msg, lastMessageID>>
  <2>1. PICK stats \in {TotalAssignedJobs, NoStats} :
          inbox' = inbox \cup {[id |-> nextID, events |-> outbox, stats |-> stats]}
    BY <1>5 DEF MakeMessage
  <2>a. PICK m : m = [id |-> nextID, events |-> outbox, stats |-> stats]
    OBVIOUS
  <2>2. Undelivered' \subseteq Undelivered \cup {m}
    BY <1>5, <2>1, <2>a DEF Undelivered
  <2>3. m.stats # NoStats => m.stats = Cardinality(Open(m.id)')
    <3>1. UNCHANGED <<AssignedAt, CompletedAt, job>>
      BY <1>1, <1>5, EventsKept DEF events, MakeMessage
    <3>2. Open(m.id)' = Open(m.id)
      BY <3>1 DEF Open
    <3> QED BY <2>1, <2>a, <3>2, OpenNow DEF TotalAssignedJobs
  <2>4. \A x \in (Undelivered \cup {msg})' : x = m \/ x \in Undelivered \cup {msg}
    BY <1>5, <2>2
  <2> QED BY <1>4, <2>3, <2>4 DEF StatsInv
<1>6. CASE /\ \A m \in inbox' : m \in inbox
           /\ lastMessageID <= lastMessageID' /\ lastMessageID' \in Nat
           /\ \/ msg'.id = msg.id /\ msg'.stats = msg.stats
              \/ msg' \in Undelivered
              \/ msg' = NoMessage
  <2>1. \A m \in Undelivered' : m \in Undelivered
    BY <1>1, <1>6 DEF Undelivered
  <2>2. NoMessage.stats = NoStats
    BY DEF NoMessage
  <2> QED BY <1>4, <1>6, <2>1, <2>2 DEF StatsInv
<1>7. CASE (Environment /\ ~MakeMessage) \/ CancelContext \/ UNCHANGED vars
  <2>1. UNCHANGED <<inbox, msg, lastMessageID>>
    BY <1>7 DEF Environment, CancelContext, vars, scalerVars, loopVars, githubVars, AssignJob, CancelJob,
       RunnerTakesJob, RunnerFinishesJob, RunnerKilled, JobEnds, GraceEnds, RunnerQuits
  <2> QED BY <1>1, <1>6, <2>1
<1>8. CASE ScalerStep
  <2>1. ASSUME NEW j \in Jobs, \/ HandleJobAssigned(j)
                               \/ \E n \in RunnerNames : HandleJobStarted(j, n)
                               \/ \E n \in RunnerNames \cup {NoRunner} : HandleJobCompleted(j, n)
        PROVE  StatsInv'
    <3>1. msg'.id = msg.id /\ msg'.stats = msg.stats
      BY <1>1, <2>1 DEF HandleJobAssigned, HandleJobStarted, HandleJobCompleted, TypeOK, Message
    <3>2. UNCHANGED <<inbox, lastMessageID>>
      BY <2>1 DEF HandleJobAssigned, HandleJobStarted, HandleJobCompleted, githubVars
    <3> QED BY <1>1, <1>6, <3>1, <3>2
  <2>2. CASE GetMessage
    BY <1>1, <1>6, <2>2 DEF GetMessage, githubVars
  <2>3. CASE DeleteMessage
    <3>1. lastMessageID <= msg.id
      BY <1>1, <2>3 DEF DeleteMessage, LineInv, Undelivered
    <3> QED BY <1>1, <1>6, <2>3, <3>1 DEF DeleteMessage, loopVars
  <2>4. CASE Reconcile
    BY <1>1, <1>6, <2>4 DEF Reconcile, githubVars
  <2>5. CASE RunReturns \/ Poll \/ GetMessageNothing \/ GenerateJitRunnerConfig \/ StartRunner
               \/ RunnerProvisioned \/ Collect \/ Record \/ StopRunner \/ RunnerForgotten
               \/ ReconcileRunner \/ ReconcileDone
    <3>1. UNCHANGED <<inbox, msg, lastMessageID>>
      BY <2>5 DEF RunReturns, Poll, GetMessageNothing, GenerateJitRunnerConfig, StartRunner,
         RunnerProvisioned, Collect, Record, StopRunner, ContainerDiscard, ContainerStop,
         ContainerRemove, RunnerForgotten, ReconcileRunner, ReconcileDone, githubVars, loopVars
    <3> QED BY <1>1, <1>6, <3>1
  <2> QED BY <1>8, <2>1, <2>2, <2>3, <2>4, <2>5 DEF ScalerStep
<1> QED BY <1>5, <1>7, <1>8, ScalerWaits DEF Next, Environment

LEMMA StatsHold == Spec => [](Invariant /\ EndInv /\ StatsInv)
<1>1. Invariant /\ EndInv /\ [Next]_vars => EndInv'
  BY EndStep
<1>2. Invariant /\ EndInv /\ StatsInv /\ [Next]_vars => StatsInv'
  BY StatsStep
<1> QED BY <1>1, <1>2, EndInit, StatsInit, InvariantHolds, PTL DEF Spec
-----------------------------------------------------------------------------
(* The counts, step by step. *)

LEMMA Finite ==
  ASSUME TypeOK
  PROVE  /\ IsFiniteSet(Active) /\ Cardinality(Active) \in Nat
         /\ IsFiniteSet(Outstanding) /\ Cardinality(Outstanding) \in Nat
<1>1. Active \subseteq RunnerNames /\ Outstanding \subseteq Jobs
  BY DEF Active, ActiveRunners, Outstanding, TypeOK
<1> QED BY <1>1, ScalerAssumption, FS_Subset, FS_CardinalityType

(* The active runners change when one is added to the store and when the   *)
(* JobCompleted of one is handled.                                         *)
LEMMA ActiveStep ==
  ASSUME Certain, Invariant, [Next]_vars
  PROVE  /\ RunnerProvisioned => call.name \notin Active /\ Active' = Active \cup {call.name}
         /\ \A j \in Jobs, n \in RunnerNames : HandleJobCompleted(j, n) /\ Tracked(runners, n)
              => n \in Active /\ Active' = Active \ {n}
         /\ \/ Active' = Active
            \/ RunnerProvisioned
            \/ \E j \in Jobs, n \in RunnerNames : HandleJobCompleted(j, n) /\ Tracked(runners, n)
<1>1. TypeOK /\ StoreInv /\ LineInv /\ LifeInv /\ runners \in [RunnerNames -> RunnerInfo]
  BY DEF Invariant, TypeOK
<1>2. ASSUME RunnerProvisioned
      PROVE  call.name \notin Active /\ Active' = Active \cup {call.name}
  <2>1. call.name \in RunnerNames /\ runners[call.name].status = "absent"
    BY <1>1, <1>2 DEF RunnerProvisioned, TypeOK, CallPC, StoreInv, Provisioning, Tracked
  <2>2. /\ runners'[call.name].status = "idle"
        /\ \A m \in RunnerNames : m # call.name => runners'[m] = runners[m]
    BY <1>1, <1>2, <2>1 DEF RunnerProvisioned, AddRunner
  <2> QED BY <2>1, <2>2 DEF Active, ActiveRunners
<1>3. ASSUME NEW j \in Jobs, NEW n \in RunnerNames, HandleJobCompleted(j, n), Tracked(runners, n)
      PROVE  n \in Active /\ Active' = Active \ {n}
  <2>1. runners[n].status = "busy"
    BY <1>1, <1>3, LifeHandleJobCompleted
  <2>2. /\ runners'[n].status = "completed"
        /\ \A m \in RunnerNames : m # n => runners'[m] = runners[m]
    BY <1>1, <1>3 DEF HandleJobCompleted, MarkCompleted, RunnerInfo
  <2> QED BY <2>1, <2>2 DEF Active, ActiveRunners
<1>4. ASSUME UNCHANGED runners PROVE Active' = Active
  BY <1>4 DEF Active, ActiveRunners
<1>5. ASSUME NEW j \in Jobs, NEW n \in RunnerNames, HandleJobStarted(j, n) PROVE Active' = Active
  <2>1. runners' = MarkBusy(runners, n, j) /\ runners[n].status # "completed"
    BY <1>1, <1>5 DEF HandleJobStarted, LifeInv, StoreLife, Stopping
  <2>2. /\ \A m \in RunnerNames : m # n => runners'[m] = runners[m]
        /\ runners'[n].status = IF runners[n].status = "absent" THEN "absent" ELSE "busy"
    BY <1>1, <2>1 DEF MarkBusy, Tracked, RunnerInfo
  <2>3. runners[n].status \in {"absent", "idle", "busy"}
    BY <1>1, <2>1 DEF RunnerInfo, RunnerStatus
  <2> QED BY <2>2, <2>3 DEF Active, ActiveRunners
<1>6. ASSUME RunnerForgotten PROVE Active' = Active
  <2>1. call.name \in RunnerNames /\ runners[call.name].status = "completed"
    BY <1>1, <1>6 DEF RunnerForgotten, TypeOK, CallPC, StoreInv, Stopping
  <2>2. /\ runners'[call.name].status = "absent"
        /\ \A m \in RunnerNames : m # call.name => runners'[m] = runners[m]
    BY <1>1, <1>6, <2>1 DEF RunnerForgotten, Remove, Absent
  <2> QED BY <2>1, <2>2 DEF Active, ActiveRunners
<1>7. ASSUME ScalerStep, ~RunnerProvisioned, ~RunnerForgotten
      PROVE  \/ Active' = Active
             \/ \E j \in Jobs, n \in RunnerNames : HandleJobCompleted(j, n) /\ Tracked(runners, n)
  <2>1. \/ UNCHANGED runners
        \/ \E j \in Jobs, n \in RunnerNames : HandleJobStarted(j, n)
        \/ \E j \in Jobs, n \in RunnerNames : HandleJobCompleted(j, n) /\ Tracked(runners, n)
    BY <1>7 DEF ScalerStep, RunReturns, Poll, GetMessage, GetMessageNothing, DeleteMessage,
       GenerateJitRunnerConfig, StartRunner, HandleJobAssigned, HandleJobCompleted, Collect, Record,
       StopRunner, Reconcile, ReconcileRunner, ReconcileDone
  <2> QED BY <1>4, <1>5, <2>1
<1>8. ASSUME Environment \/ CancelContext \/ UNCHANGED vars PROVE Active' = Active
  BY <1>4, <1>8 DEF Environment, CancelContext, vars, scalerVars
<1> QED BY <1>2, <1>3, <1>6, <1>7, <1>8 DEF Next

LEMMA OneMore ==
  ASSUME NEW S, IsFiniteSet(S), NEW x
  PROVE  /\ x \notin S => Cardinality(S \cup {x}) = Cardinality(S) + 1
         /\ x \in S => Cardinality(S \ {x}) = Cardinality(S) - 1
<1>1. Cardinality(S \cup {x}) = IF x \in S THEN Cardinality(S) ELSE Cardinality(S) + 1
  BY FS_AddElement
<1>2. Cardinality(S \ {x}) = IF x \in S THEN Cardinality(S) - 1 ELSE Cardinality(S)
  BY FS_RemoveElement
<1> QED BY <1>1, <1>2

(* The two counts.  At most one of these steps happens at a time. *)
LEMMA CountStep ==
  ASSUME Certain, Invariant, EndInv, [Next]_vars
  PROVE  /\ Cardinality(Active') = IF RunnerProvisioned THEN Cardinality(Active) + 1
                                   ELSE IF \E j \in Jobs, n \in RunnerNames :
                                             HandleJobCompleted(j, n) /\ Tracked(runners, n)
                                        THEN Cardinality(Active) - 1
                                   ELSE Cardinality(Active)
         /\ Cardinality(Outstanding') = IF \E j \in Jobs : HandleJobAssigned(j)
                                        THEN Cardinality(Outstanding) + 1
                                        ELSE IF \E j \in Jobs, n \in Names : HandleJobCompleted(j, n)
                                        THEN Cardinality(Outstanding) - 1
                                        ELSE Cardinality(Outstanding)
<1>1. /\ IsFiniteSet(Active) /\ Cardinality(Active) \in Nat
      /\ IsFiniteSet(Outstanding) /\ Cardinality(Outstanding) \in Nat
  BY Finite DEF Invariant
<1>3. ~RunnerProvisioned \/ \A j \in Jobs, n \in Names : ~HandleJobCompleted(j, n)
  BY DEF RunnerProvisioned, HandleJobCompleted
<1>4. \A j \in Jobs : HandleJobAssigned(j) => \A k \in Jobs, n \in Names : ~HandleJobCompleted(k, n)
  BY DEF HandleJobAssigned, HandleJobCompleted
<1>5. /\ RunnerProvisioned => Cardinality(Active') = Cardinality(Active) + 1
      /\ \A j \in Jobs, n \in RunnerNames : HandleJobCompleted(j, n) /\ Tracked(runners, n)
           => Cardinality(Active') = Cardinality(Active) - 1
  BY <1>1, ActiveStep, OneMore
<1>6. /\ \A j \in Jobs : HandleJobAssigned(j) => Cardinality(Outstanding') = Cardinality(Outstanding) + 1
      /\ \A j \in Jobs, n \in Names : HandleJobCompleted(j, n)
           => Cardinality(Outstanding') = Cardinality(Outstanding) - 1
  BY <1>1, OutstandingStep, OneMore
<1>7. \/ Active' = Active
      \/ RunnerProvisioned
      \/ \E j \in Jobs, n \in RunnerNames : HandleJobCompleted(j, n) /\ Tracked(runners, n)
  BY ActiveStep
<1>8. \/ Outstanding' = Outstanding
      \/ \E j \in Jobs : HandleJobAssigned(j)
      \/ \E j \in Jobs, n \in Names : HandleJobCompleted(j, n)
  BY OutstandingStep
<1> QED BY <1>3, <1>4, <1>5, <1>6, <1>7, <1>8 DEF Names

(* The steps that move neither the counts nor rec. *)
Quiet ==
  /\ ~RunnerProvisioned /\ ~Reconcile /\ ~ReconcileRunner /\ ~ReconcileDone
  /\ \A j \in Jobs : ~HandleJobAssigned(j)
  /\ \A j \in Jobs, n \in Names : ~HandleJobCompleted(j, n)

LEMMA QuietStep ==
  ASSUME TypeOK, Quiet, [Next]_vars
  PROVE  /\ rec' = rec
         /\ pc' \in ProvisionPC => pc \in ProvisionPC
         /\ pc' \in CallPC => pc \in CallPC
         /\ Caller' = "reconcile" <=> Caller = "reconcile"
<1>1. call \in Call
  BY DEF TypeOK
<1>2. ASSUME UNCHANGED <<rec, pc, call>>
      PROVE  /\ rec' = rec
             /\ pc' \in ProvisionPC => pc \in ProvisionPC
             /\ pc' \in CallPC => pc \in CallPC
             /\ Caller' = "reconcile" <=> Caller = "reconcile"
  BY <1>2 DEF Caller
<1>3. CASE RunReturns \/ Poll \/ GetMessage \/ GetMessageNothing \/ DeleteMessage \/ Collect \/ Record
             \/ RunnerForgotten
  BY <1>3 DEF RunReturns, Poll, GetMessage, GetMessageNothing, DeleteMessage, Collect, Record,
     RunnerForgotten, loopVars, ProvisionPC, CallPC, Caller
<1>4. CASE GenerateJitRunnerConfig
  BY <1>1, <1>4 DEF GenerateJitRunnerConfig, loopVars, ProvisionPC, CallPC, Caller, Call
<1>5. CASE StartRunner
  <2>1. /\ rec' = rec /\ pc \in {"create", "start", "discard", "inspect"}
        /\ pc' = call.ret \/ (pc' \in ProvisionPC /\ call'.ret = call.ret)
    BY <1>1, <1>5 DEF StartRunner, ContainerCreate, ContainerCreateFails, ContainerStart,
       ContainerStartFails, ContainerDiscard, ContainerInspect, ContainerInspectFails, loopVars, ProvisionPC, Call
  <2> QED BY <1>1, <2>1 DEF ProvisionPC, CallPC, Caller, Call
<1>6. CASE StopRunner
  BY <1>6 DEF StopRunner, ContainerStop, ContainerRemove, loopVars, ProvisionPC, CallPC, Caller
<1>7. CASE \E j \in Jobs, n \in RunnerNames : HandleJobStarted(j, n)
  BY <1>2, <1>7 DEF HandleJobStarted
<1>8. CASE Environment \/ CancelContext \/ UNCHANGED vars
  BY <1>2, <1>8 DEF Environment, CancelContext, vars, scalerVars, loopVars
<1> QED BY <1>3, <1>4, <1>5, <1>6, <1>7, <1>8 DEF Quiet, Next, ScalerStep, Names
-----------------------------------------------------------------------------
(* Every runner that may work is known. *)

LEMMA KnownInit == Init => KnownInv
<1> SUFFICES ASSUME Init PROVE KnownInv
  OBVIOUS
<1>1. /\ \A j \in Jobs : job[j] = "queued" 
      /\ \A n \in RunnerNames : docker[n].state = "none" /\ docker[n].job = NoJob
      /\ msg.events.completed = {}
  BY DEF Init, GitHubInit, DockerInit, NoContainer, NoMessage, NoEvents
<1>2. \A j \in Jobs, n \in Names : CompletedAt[j][n] = {}
  BY <1>1, EndInit DEF EndInv
<1> QED BY <1>1, <1>2 DEF KnownInv, MayEnd, Names

(* Nothing new has to be known, and what is known stays so. *)
LEMMA KnownFrame ==
  ASSUME KnownInv,
         "canceljob" \notin Faults =>
           \A j \in Jobs : CompletedAt'[j][NoRunner] \subseteq CompletedAt[j][NoRunner],
         msg'.events.completed \subseteq msg.events.completed,
         Live' => Live /\ \A n \in RunnerNames : MayEnd(n)' => MayEnd(n),
         \A n \in RunnerNames : Tracked(runners, n) => Tracked(runners, n)',
         \A n \in RunnerNames : n = call.name /\ pc \in Provisioning =>
            Tracked(runners, n)' \/ (n = call'.name /\ pc' \in Provisioning)
  PROVE  KnownInv'
<1>1. "canceljob" \notin Faults => \A j \in Jobs : CompletedAt'[j][NoRunner] = {}
  BY DEF KnownInv
<1>2. \A j \in Jobs, n \in RunnerNames : <<j, n>> \in msg'.events.completed => Tracked(runners, n)'
  BY DEF KnownInv
<1>3. ASSUME Live', NEW n \in RunnerNames, MayEnd(n)'
      PROVE  Tracked(runners, n)' \/ (n = call'.name /\ pc' \in Provisioning)
  BY <1>3 DEF KnownInv
<1> QED BY <1>1, <1>2, <1>3 DEF KnownInv

LEMMA KnownEnvironment ==
  ASSUME Known, Invariant, KnownInv, Environment
  PROVE  KnownInv'
<1>1. /\ UNCHANGED <<ctx, runners, msg, lastMessageID, pc, call>>
      /\ TypeOK /\ LineInv /\ LifeInv
      /\ docker \in [RunnerNames -> Container]
  BY ScalerWaits DEF Environment, Invariant, TypeOK
<1>2. ASSUME "canceljob" \notin Faults =>
               \A j \in Jobs : CompletedAt'[j][NoRunner] \subseteq CompletedAt[j][NoRunner],
             \A n \in RunnerNames : MayEnd(n)' => MayEnd(n)
      PROVE  KnownInv'
  <2>1. \A n \in RunnerNames : Tracked(runners, n) => Tracked(runners, n)'
    BY <1>1 DEF Tracked
  <2>2. Live' => Live
    BY <1>1 DEF Live
  <2> QED BY <1>1, <1>2, <2>1, <2>2, KnownFrame
<1>3. ASSUME UNCHANGED CompletedAt,
             \A n \in RunnerNames : docker'[n].state \in {"idle", "busy"} => docker[n].state \in {"idle", "busy"}
      PROVE  KnownInv'
  BY <1>2, <1>3 DEF MayEnd
<1>4. CASE MakeMessage
  <2>1. UNCHANGED <<docker, CompletedAt>>
    BY <1>1, <1>4, EventsKept DEF MakeMessage, events
  <2> QED BY <1>3, <2>1
<1>5. ASSUME NEW j \in Jobs, AssignJob(j) PROVE KnownInv'
  <2>1. UNCHANGED <<docker, CompletedAt>>
    BY <1>1, <1>5, EventAdded DEF AssignJob
  <2> QED BY <1>3, <2>1
<1>6. ASSUME NEW j \in Jobs, CancelJob(j) PROVE KnownInv'
  <2>1. RunGains(CompletedAt', CompletedAt, RunnerNames \cup {NoRunner}, j, NoRunner, nextID)
    BY <1>1, <1>6, EventAdded DEF CancelJob
  <2>2. \A k \in Jobs, n \in RunnerNames : CompletedAt'[k][n] = CompletedAt[k][n]
    BY <2>1, ScalerAssumption DEF RunGains
  <2>3. "canceljob" \in Faults /\ UNCHANGED docker
    BY <1>6 DEF CancelJob
  <2> QED BY <1>2, <2>2, <2>3 DEF MayEnd
<1>7. ASSUME NEW n \in RunnerNames, NEW j \in Jobs, RunnerTakesJob(n, j) PROVE KnownInv'
  <2>1. UNCHANGED CompletedAt
    BY <1>1, <1>7, EventAdded DEF RunnerTakesJob
  <2>2. docker[n].state = "idle" /\ \A m \in RunnerNames : m # n => docker'[m] = docker[m]
    BY <1>1, <1>7 DEF RunnerTakesJob
  <2> QED BY <1>3, <2>1, <2>2
<1>8. ASSUME NEW n \in RunnerNames, NEW state \in {"grace", "exited"}, NEW ip, JobEnds(n, state, ip)
      PROVE  KnownInv'
  <2>1. /\ docker[n].state = "busy" /\ docker[n].job \in Jobs
        /\ \A m \in RunnerNames : m # n => docker'[m] = docker[m]
    BY <1>1, <1>8 DEF JobEnds, Container
  <2>2. RunGains(CompletedAt', CompletedAt, RunnerNames \cup {NoRunner}, docker[n].job, n, nextID)
    BY <1>1, <1>8, <2>1, EventAdded DEF JobEnds
  <2>3. \A k \in Jobs, m \in RunnerNames \cup {NoRunner} : m # n => CompletedAt'[k][m] = CompletedAt[k][m]
    BY <2>2 DEF RunGains
  <2> QED BY <1>2, <2>1, <2>3, ScalerAssumption DEF MayEnd
<1>9. ASSUME NEW n \in RunnerNames, GraceEnds(n) \/ RunnerQuits(n) PROVE KnownInv'
  <2>1. UNCHANGED CompletedAt
    BY <1>1, <1>9, EventsKept DEF GraceEnds, RunnerQuits, githubVars, events
  <2>2. /\ docker'[n].state \in {"grace", "exited"}
        /\ \A m \in RunnerNames : m # n => docker'[m] = docker[m]
    <3>1. docker[n] \in Container
      BY <1>1
    <3> QED BY <1>1, <1>9, <3>1 DEF GraceEnds, RunnerQuits, Container
  <2> QED BY <1>3, <2>1, <2>2
<1> QED
  BY <1>4, <1>5, <1>6, <1>7, <1>8, <1>9 DEF Environment, RunnerFinishesJob, RunnerKilled

(* A container that is started is being provisioned, and provisioning      *)
(* fails only when it is gone.                                             *)
LEMMA KnownStartRunner ==
  ASSUME Known, Invariant, KnownInv, StartRunner
  PROVE  KnownInv'
<1>0. /\ UNCHANGED <<runners, ctx, msg>> /\ pc \in {"create", "start", "discard", "inspect"}
      /\ TypeOK /\ LineInv /\ LifeInv /\ EventsNamed /\ StoreLife
      /\ docker \in [RunnerNames -> Container] /\ call \in Call /\ call.name \in RunnerNames
      /\ Live => ~MayFail("startlost") /\ ~MayFail("inspect")
  BY DEF StartRunner, loopVars, Invariant, TypeOK, CallPC, ContainerCreate, ContainerCreateFails,
     ContainerStart, ContainerStartFails, ContainerDiscard, ContainerInspect,
     ContainerInspectFails, MayFail, Known, Certain, LifeInv
<1>1. PICK n \in RunnerNames : n = call.name
  BY <1>0
<1>2. ContainerDiscard =>
        \/ UNCHANGED <<docker, job, outbox>>
        \/ /\ docker[n].state = "created" /\ RemoveContainer(n, call.id)
           /\ UNCHANGED <<job, outbox>>
  BY <1>0, <1>1 DEF ContainerDiscard, JobStopped, StoreLife
<1>3. UNCHANGED CompletedAt
  BY <1>0, <1>2, EventsKept DEF StartRunner, ContainerDiscard, githubVars, loopVars, events
<1>5. ASSUME \A m \in RunnerNames : m # n => docker'[m] = docker[m],
             Live => \/ docker' = docker /\ pc \notin Provisioning
                     \/ /\ docker'[n].state \in {"none", "created"}
                        /\ docker[n].state \in {"none", "created"}
                     \/ pc' \in Provisioning /\ call'.name = n
      PROVE  KnownInv'
  <2>1. \A m \in RunnerNames : Tracked(runners, m) <=> Tracked(runners, m)'
    BY <1>0 DEF Tracked
  <2>2. docker[n].state \in {"none", "created"} => \A j \in Jobs : CompletedAt[j][n] = {}
    BY <1>0 DEF EventsNamed
  <2>3. Live' => Live
    BY <1>0 DEF Live
  <2>4. ASSUME Live', NEW m \in RunnerNames, MayEnd(m)'
        PROVE  Tracked(runners, m)' \/ (m = call'.name /\ pc' \in Provisioning)
    <3>1. CASE m # n
      BY <1>0, <1>1, <1>3, <1>5, <2>1, <2>3, <2>4, <3>1 DEF KnownInv, MayEnd
    <3>2. CASE m = n
      BY <1>0, <1>1, <1>3, <1>5, <2>1, <2>2, <2>3, <2>4, <3>2 DEF KnownInv, MayEnd
    <3> QED BY <3>1, <3>2
  <2>5. /\ "canceljob" \notin Faults => \A j \in Jobs : CompletedAt'[j][NoRunner] = {}
        /\ \A j \in Jobs, m \in RunnerNames : <<j, m>> \in msg'.events.completed => Tracked(runners, m)'
    BY <1>0, <1>3, <2>1 DEF KnownInv
  <2> QED BY <2>4, <2>5 DEF KnownInv
<1>6. CASE ContainerCreate
  BY <1>0, <1>1, <1>5, <1>6, DockerEffects DEF ContainerCreate
<1>7. CASE ContainerCreateFails
  BY <1>0, <1>1, <1>5, <1>7, DockerEffects DEF ContainerCreateFails, Provisioning
<1>8. CASE ContainerStart
  <2>1. pc' \in Provisioning /\ call'.name = n /\ StartContainer(n)
    BY <1>1, <1>8 DEF ContainerStart, Provisioning
  <2> QED BY <1>0, <1>5, <2>1, DockerEffects
<1>9. CASE ContainerStartFails
  <2>1. docker[n].state = "created"
    BY <1>0, <1>1, <1>9 DEF ContainerStartFails, StoreLife
  <2>2. UNCHANGED docker \/ (~Live /\ StartContainer(n))
    BY <1>0, <1>1, <1>9 DEF ContainerStartFails
  <2> QED BY <1>0, <1>5, <2>1, <2>2, DockerEffects
<1>12. CASE ContainerDiscard
  <2>1. Live => docker[n].state = "created"
    BY <1>0, <1>1, <1>12 DEF ContainerDiscard, StoreLife
  <2>2. UNCHANGED docker \/ RemoveContainer(n, call.id)
    BY <1>2, <1>12
  <2> QED BY <1>0, <1>5, <2>1, <2>2, DockerEffects
<1>10. CASE ContainerInspect
  BY <1>0, <1>1, <1>5, <1>10 DEF ContainerInspect, Provisioning, Call
<1>11. CASE ContainerInspectFails
  BY <1>0, <1>5, <1>11 DEF ContainerInspectFails
<1> QED BY <1>6, <1>7, <1>8, <1>9, <1>10, <1>11, <1>12 DEF StartRunner

LEMMA KnownHandlers ==
  ASSUME Known, Invariant, KnownInv, NEW j \in Jobs,
         \/ HandleJobAssigned(j)
         \/ \E n \in RunnerNames : HandleJobStarted(j, n)
         \/ \E n \in Names : HandleJobCompleted(j, n)
  PROVE  KnownInv'
<1>1. /\ UNCHANGED <<docker, ctx>> /\ pc = "dispatch" /\ TypeOK /\ LineInv
      /\ runners \in [RunnerNames -> RunnerInfo]
      /\ msg \in Message /\ msg.events \in Events
  BY DEF HandleJobAssigned, HandleJobStarted, HandleJobCompleted, Invariant, TypeOK, Message
<1>2. ASSUME \A k \in Jobs, n \in Names : CompletedAt'[k][n] \subseteq CompletedAt[k][n],
             msg'.events.completed \subseteq msg.events.completed,
             \A n \in RunnerNames : Tracked(runners, n) => Tracked(runners, n)'
      PROVE  KnownInv'
  <2>1. Live' => Live
    BY <1>1 DEF Live
  <2>2. \A n \in RunnerNames : MayEnd(n)' => MayEnd(n)
    BY <1>1, <1>2 DEF MayEnd, Names
  <2> QED BY <1>1, <1>2, <2>1, <2>2, KnownFrame DEF Provisioning, Names
<1>3. CASE HandleJobAssigned(j)
  <2>1. UNCHANGED CompletedAt /\ msg'.events.completed = msg.events.completed
    BY <1>1, <1>3, EventHandled DEF HandleJobAssigned, githubVars, Message, Events
  <2>2. \A n \in RunnerNames : Tracked(runners, n) => Tracked(runners, n)'
    BY <1>3 DEF HandleJobAssigned, Tracked
  <2> QED BY <1>2, <2>1, <2>2
<1>4. ASSUME NEW n \in RunnerNames, HandleJobStarted(j, n) PROVE KnownInv'
  <2>1. UNCHANGED CompletedAt /\ msg'.events.completed = msg.events.completed
    BY <1>1, <1>4, EventHandled DEF HandleJobStarted, githubVars, Message, Events
  <2>2. \A m \in RunnerNames : Tracked(runners, m) => Tracked(runners, m)'
    BY <1>1, <1>4 DEF HandleJobStarted, MarkBusy, Tracked, RunnerInfo
  <2> QED BY <1>2, <2>1, <2>2
<1>5. ASSUME NEW n \in Names, HandleJobCompleted(j, n) PROVE KnownInv'
  <2>1. RunLoses(CompletedAt', CompletedAt, Names, j, n, msg.id)
    BY <1>1, <1>5, EventHandled DEF HandleJobCompleted, githubVars, Names
  <2>2. \A k \in Jobs, m \in Names : CompletedAt'[k][m] \subseteq CompletedAt[k][m]
    BY <2>1 DEF RunLoses
  <2>3. msg'.events.completed \subseteq msg.events.completed
    BY <1>1, <1>5 DEF HandleJobCompleted, Message, Events
  <2>4. \A m \in RunnerNames : Tracked(runners, m) => Tracked(runners, m)'
    <3>1. runners' = runners \/ (n \in RunnerNames /\ runners' = MarkCompleted(runners, n))
      BY <1>5 DEF HandleJobCompleted
    <3> QED BY <1>1, <3>1 DEF MarkCompleted, Tracked, RunnerInfo
  <2> QED BY <1>2, <2>2, <2>3, <2>4
<1> QED BY <1>3, <1>4, <1>5

LEMMA KnownScaler ==
  ASSUME Known, Invariant, KnownInv, ScalerStep
  PROVE  KnownInv'
<1>1. /\ TypeOK /\ LineInv /\ LifeInv
      /\ runners \in [RunnerNames -> RunnerInfo] /\ docker \in [RunnerNames -> Container]
  BY DEF Invariant, TypeOK
<1>2. ASSUME UNCHANGED <<ctx, CompletedAt>>,
             \A n \in RunnerNames :
               docker'[n].state \in {"idle", "busy"} => docker[n].state \in {"idle", "busy"},
             msg'.events.completed \subseteq msg.events.completed,
             \A n \in RunnerNames : Tracked(runners, n) => Tracked(runners, n)',
             pc \notin Provisioning
      PROVE  KnownInv'
  BY <1>2, KnownFrame DEF Live, MayEnd
<1>3. CASE RunReturns \/ Poll \/ GetMessageNothing \/ DeleteMessage \/ Reconcile
             \/ ReconcileRunner \/ ReconcileDone \/ GenerateJitRunnerConfig \/ Collect \/ Record
  <2>1. UNCHANGED <<docker, runners, ctx, CompletedAt>>
    BY <1>1, <1>3, EventsKept DEF RunReturns, Poll, GetMessageNothing, DeleteMessage,
       Reconcile, ReconcileRunner, ReconcileDone, GenerateJitRunnerConfig, Collect, Record,
       githubVars, loopVars, events
  <2>2. /\ pc \notin Provisioning
        /\ msg' = msg \/ msg' = NoMessage
    BY <1>3 DEF RunReturns, Poll, GetMessageNothing, DeleteMessage, Reconcile,
       ReconcileRunner, ReconcileDone, GenerateJitRunnerConfig, Collect, Record, Provisioning, loopVars
  <2>3. NoMessage.events.completed = {}
    BY DEF NoMessage, NoEvents
  <2> QED BY <1>2, <2>1, <2>2, <2>3 DEF Tracked
<1>4. CASE GetMessage
  <2>1. UNCHANGED <<docker, runners, ctx, call, CompletedAt>> /\ Live /\ pc = "wait" /\ msg' \in Undelivered
    BY <1>1, <1>4, EventsKept DEF GetMessage, githubVars, events
  <2>2. ASSUME NEW j \in Jobs, NEW n \in RunnerNames, <<j, n>> \in msg'.events.completed
        PROVE  Tracked(runners, n)'
    <3>1. msg' \in Line
      BY <2>1 DEF Line
    <3>2. CompletedAt[j][n] # {}
      BY <2>2, <3>1 DEF CompletedAt, CompletedIn
    <3> QED BY <2>1, <3>2 DEF KnownInv, MayEnd, Provisioning, Tracked
  <2>3. /\ "canceljob" \notin Faults => \A j \in Jobs : CompletedAt'[j][NoRunner] = {}
        /\ \A n \in RunnerNames : MayEnd(n)' => Tracked(runners, n)'
    BY <2>1 DEF KnownInv, MayEnd, Provisioning, Tracked
  <2> QED BY <2>2, <2>3 DEF KnownInv
<1>5. CASE StopRunner
  <2>0. /\ UNCHANGED <<runners, ctx, inbox, nextID, lastMessageID, msg>>
        /\ pc \notin Provisioning /\ pc \in Stopping \ {"forget"} /\ call.name \in RunnerNames
    BY <1>1, <1>5 DEF StopRunner, ContainerStop, ContainerRemove, loopVars, Provisioning, Stopping,
       TypeOK, CallPC
  <2>2. PICK n \in RunnerNames : n = call.name
    BY <2>0
  <2>4. docker[n].state # "busy"
    BY <1>1, <2>0, <2>2 DEF Known, Certain, LifeInv, StoreLife
  <2>5. UNCHANGED <<job, outbox>>
    BY <1>5, <2>2, <2>4 DEF StopRunner, ContainerStop, ContainerRemove, JobStopped
  <2>1. UNCHANGED <<runners, ctx, msg, CompletedAt>> /\ pc \notin Provisioning
    BY <1>1, <2>0, <2>5, EventsKept DEF events
  <2>3. /\ docker' = docker \/ docker'[n].state \in {"none", "exited"}
        /\ \A m \in RunnerNames : m # n => docker'[m] = docker[m]
    BY <1>1, <1>5, <2>2, DockerEffects DEF StopRunner, ContainerStop, ContainerRemove
  <2> QED BY <1>2, <2>1, <2>3 DEF Tracked
<1>6. CASE RunnerProvisioned
  <2>1. /\ UNCHANGED <<docker, ctx, msg, CompletedAt>> /\ call.name \in RunnerNames
        /\ runners' = AddRunner(runners, call.name, call.id, call.ip)
    BY <1>1, <1>6, EventsKept DEF RunnerProvisioned, githubVars, loopVars, events, TypeOK, CallPC
  <2>2. \A m \in RunnerNames : Tracked(runners, m) \/ m = call.name => Tracked(runners, m)'
    BY <1>1, <2>1 DEF AddRunner, Tracked
  <2> QED BY <2>1, <2>2, KnownFrame DEF Live, MayEnd
<1>7. CASE RunnerForgotten
  <2>1. /\ UNCHANGED <<docker, ctx, msg, CompletedAt>> /\ pc = "forget" /\ call.name \in RunnerNames
        /\ runners' = Remove(runners, call.name)
    BY <1>1, <1>7, EventsKept DEF RunnerForgotten, githubVars, loopVars, events, TypeOK, CallPC
  <2>2. PICK n \in RunnerNames : n = call.name
    BY <2>1
  <2>3. \A m \in RunnerNames : Tracked(runners, m) /\ m # n => Tracked(runners, m)'
    BY <1>1, <2>1, <2>2 DEF Remove, Tracked
  <2>4. docker[n].state \in {"grace", "exited", "none"} /\ \A j \in Jobs : CompletedAt[j][n] = {}
    BY <1>1, <2>1, <2>2 DEF Known, Certain, LifeInv, StoreLife, Stopping
  <2>5. \A j \in Jobs : <<j, n>> \notin msg.events.completed
    BY <1>1, <2>1, <2>4, FirstInLine
  <2>6. ASSUME Live', NEW m \in RunnerNames, MayEnd(m)' PROVE Tracked(runners, m)'
    <3>1. MayEnd(m) /\ m # n /\ Live
      BY <2>1, <2>4, <2>6 DEF MayEnd, Live
    <3> QED BY <2>1, <2>3, <3>1 DEF KnownInv, Provisioning
  <2>7. \A j \in Jobs, m \in RunnerNames : <<j, m>> \in msg'.events.completed => Tracked(runners, m)'
    BY <2>1, <2>3, <2>5 DEF KnownInv
  <2> QED BY <2>1, <2>6, <2>7 DEF KnownInv
<1> QED
  BY <1>3, <1>4, <1>5, <1>6, <1>7, KnownStartRunner, KnownHandlers DEF ScalerStep, Names

LEMMA KnownStep ==
  ASSUME Known, Invariant, KnownInv, [Next]_vars
  PROVE  KnownInv'
<1>1. ASSUME CancelContext \/ UNCHANGED vars PROVE KnownInv'
  <2>1. UNCHANGED <<docker, runners, msg, pc, call, CompletedAt>> /\ (Live' => Live)
    BY <1>1, EventsKept DEF CancelContext, vars, scalerVars, loopVars, githubVars, Invariant, events, Live
  <2> QED BY <2>1, KnownFrame DEF MayEnd, Tracked
<1> QED BY <1>1, KnownEnvironment, KnownScaler DEF Next
-----------------------------------------------------------------------------
(* Not more runners than jobs. *)

LEMMA SurplusInit == Init => SurplusInv
<1> SUFFICES ASSUME Init PROVE SurplusInv
  OBVIOUS
<1>1. Active = {} /\ Outstanding = {} /\ pc = "poll" /\ rec = NoReconcile
  BY DEF Init, NewStore, Absent, Active, ActiveRunners, Outstanding
<1>2. Cardinality({}) = 0
  BY FS_EmptySet
<1> QED BY <1>1, <1>2 DEF SurplusInv, NoReconcile, ProvisionPC, One

LEMMA ReconcileAlone ==
  Reconcile \/ ReconcileRunner \/ ReconcileDone
    => /\ ~RunnerProvisioned
       /\ \A j \in Jobs : ~HandleJobAssigned(j)
       /\ \A j \in Jobs, n \in Names : ~HandleJobCompleted(j, n)
<1>1. Reconcile => msg.events.assigned = {} /\ msg.events.completed = {} /\ pc = "dispatch"
  BY DEF Reconcile, NoEvents
<1>2. ReconcileRunner \/ ReconcileDone => pc = "reconcile"
  BY DEF ReconcileRunner, ReconcileDone
<1>3. /\ RunnerProvisioned => pc = "add"
      /\ \A j \in Jobs : HandleJobAssigned(j) => pc = "dispatch" /\ j \in msg.events.assigned
      /\ \A j \in Jobs, n \in Names :
           HandleJobCompleted(j, n) => pc = "dispatch" /\ <<j, n>> \in msg.events.completed
  BY DEF RunnerProvisioned, HandleJobAssigned, HandleJobCompleted
<1> QED BY <1>1, <1>2, <1>3

LEMMA SurplusStep ==
  ASSUME Reliable, Invariant, EndInv, StatsInv, KnownInv, SurplusInv, [Next]_vars
  PROVE  SurplusInv'
<1>1. /\ TypeOK /\ LineInv /\ LifeInv /\ call \in Call /\ Certain
      /\ Cardinality(Active) \in Nat /\ Cardinality(Outstanding) \in Nat
      /\ rec.i \in Nat /\ rec.deficit \in Nat
  <2>1. rec.i \in Nat /\ rec.deficit \in 0..Cardinality(Jobs) /\ call \in Call
    BY DEF Invariant, TypeOK
  <2>2. Cardinality(Jobs) \in Nat
    BY ScalerAssumption, FS_CardinalityType
  <2> QED BY <2>1, <2>2, Finite DEF Invariant, Reliable, Known, Certain
<1> DEFINE a == Cardinality(Active)
           o == Cardinality(Outstanding)
<1>2. CASE Quiet
  <2>1. a' = a /\ o' = o
    BY <1>1, <1>2, CountStep DEF Quiet, Names
  <2>2. /\ rec' = rec
        /\ Caller' = "reconcile" <=> Caller = "reconcile"
        /\ pc' \in ProvisionPC => pc \in ProvisionPC
    BY <1>1, <1>2, QuietStep
  <2> QED BY <1>1, <2>1, <2>2 DEF SurplusInv, One
<1>3. ASSUME NEW j \in Jobs, HandleJobAssigned(j) PROVE SurplusInv'
  <2>1. /\ pc = "dispatch" /\ rec' = rec /\ Caller' # "reconcile" /\ pc \notin ProvisionPC
        /\ Caller # "reconcile"
    BY <1>3 DEF HandleJobAssigned, ProvisionRunner, NoCall, Caller, ProvisionPC
  <2>2. a' = a /\ o' = o + 1
    BY <1>1, <1>3, CountStep DEF HandleJobAssigned, HandleJobCompleted, RunnerProvisioned, Names
  <2> QED BY <1>1, <2>1, <2>2 DEF SurplusInv, One
<1>4. ASSUME NEW j \in Jobs, NEW n \in Names, HandleJobCompleted(j, n) PROVE SurplusInv'
  <2>1. /\ pc = "dispatch" /\ rec' = rec /\ pc' \in {"dispatch", "collectCPU", "stop"}
        /\ <<j, n>> \in msg.events.completed
    BY <1>4 DEF HandleJobCompleted
  <2>2. n \in RunnerNames /\ Tracked(runners, n)
    <3>1. msg.id \in CompletedAt[j][n]
      BY <1>1, <2>1, FirstInLine DEF Names
    <3> QED BY <2>1, <3>1 DEF Reliable, KnownInv, Names
  <2>3. a' = a - 1 /\ o' = o - 1
    BY <1>1, <1>4, <2>2, CountStep DEF HandleJobAssigned, HandleJobCompleted, RunnerProvisioned
  <2> QED BY <1>1, <2>1, <2>3 DEF SurplusInv, One, Caller, ProvisionPC
<1>5. CASE RunnerProvisioned
  <2>1. /\ pc = "add" /\ rec' = rec /\ pc' = call.ret
    BY <1>5 DEF RunnerProvisioned, loopVars
  <2>2. a' = a + 1 /\ o' = o
    BY <1>1, <1>5, CountStep DEF HandleJobAssigned, HandleJobCompleted, RunnerProvisioned, Names
  <2>3. Caller' = Caller
    BY <1>1, <2>1 DEF Caller, ProvisionPC, Call
  <2> QED BY <1>1, <2>1, <2>2, <2>3 DEF SurplusInv, One, ProvisionPC, Call
<1>6. CASE Reconcile \/ ReconcileRunner \/ ReconcileDone
  <2>1. a' = a /\ o' = o
    <3>1. /\ ~RunnerProvisioned
          /\ \A j \in Jobs : ~HandleJobAssigned(j)
          /\ \A j \in Jobs, n \in Names : ~HandleJobCompleted(j, n)
      BY <1>6, ReconcileAlone
    <3> QED BY <1>1, <3>1, CountStep DEF Names
  <2>2. CASE Reconcile
    <3>1. /\ pc = "dispatch" /\ msg.events = NoEvents /\ Caller # "reconcile"
      BY <2>2 DEF Reconcile, Caller, ProvisionPC
    <3>2. CASE rec' = rec /\ pc' = "poll"
      BY <1>1, <2>1, <3>1, <3>2 DEF SurplusInv, One, Caller, ProvisionPC
    <3>3. CASE ~(rec' = rec /\ pc' = "poll")
      <4>1. /\ msg.stats # NoStats /\ msg.stats > a /\ pc' = "reconcile"
            /\ rec' = [i |-> 0, deficit |-> msg.stats - a, left |-> pending]
        BY <2>2, <3>3 DEF Reconcile, ActiveCount, Active
      <4>2. msg.stats = o
        BY <3>1, <4>1, OpenHandled DEF StatsInv
      <4> QED BY <1>1, <2>1, <4>1, <4>2 DEF SurplusInv, One, Caller, ProvisionPC
    <3> QED BY <3>2, <3>3
  <2>3. CASE ReconcileRunner
    <3>1. /\ pc = "reconcile" /\ pc' = "jit" /\ call'.ret = "reconcile"
          /\ rec.i < rec.deficit /\ rec'.i = rec.i + 1 /\ rec'.deficit = rec.deficit
      BY <1>1, <2>3 DEF ReconcileRunner, ProvisionRunner, NoCall, TypeOK
    <3> QED BY <1>1, <2>1, <3>1 DEF SurplusInv, One, Caller, ProvisionPC
  <2>4. CASE ReconcileDone
    <3>1. pc = "reconcile" /\ pc' = "poll" /\ rec.i = rec.deficit /\ rec' = NoReconcile
      BY <2>4 DEF ReconcileDone
    <3> QED BY <1>1, <2>1, <3>1 DEF SurplusInv, One, Caller, ProvisionPC, NoReconcile
  <2> QED BY <1>6, <2>2, <2>3, <2>4
<1> QED BY <1>2, <1>3, <1>4, <1>5, <1>6 DEF Quiet

(* Whatever else fails, no container that runs is forgotten: the store     *)
(* forgets a runner only when its job is done, and a container that could  *)
(* not be discarded was not started.                                       *)
THEOREM ForgottenStopped ==
  ASSUME Known
  PROVE  Spec => []ForgottenCannotWork
<1>1. Invariant /\ KnownInv /\ [Next]_vars => KnownInv'
  BY KnownStep
<1>2. KnownInv => ForgottenCannotWork
  BY DEF KnownInv, ForgottenCannotWork, MayEnd
<1> QED BY <1>1, <1>2, KnownInit, InvariantHolds, PTL DEF Spec

(* There are never more active runners than jobs to run.  "startlost" and  *)
(* "inspect" leave a container to GitHub that the store does not have, and *)
(* a job that is cancelled leaves a runner without a job.                  *)
THEOREM NeverTooManyRunners ==
  ASSUME Reliable
  PROVE  Spec => []NoSurplus
<1>1. Invariant /\ KnownInv /\ [Next]_vars => KnownInv'
  BY KnownStep DEF Reliable
<1>2. Invariant /\ EndInv /\ StatsInv /\ KnownInv /\ SurplusInv /\ [Next]_vars => SurplusInv'
  BY SurplusStep
<1>3. Invariant /\ SurplusInv => NoSurplus
  <2> SUFFICES ASSUME Invariant, SurplusInv PROVE NoSurplus
    OBVIOUS
  <2>1. Cardinality(Active) \in Nat /\ Cardinality(Outstanding) \in Nat
    BY Finite DEF Invariant
  <2>2. rec.i \in Nat /\ rec.deficit \in Nat
    BY ScalerAssumption, FS_CardinalityType DEF Invariant, TypeOK
  <2> QED BY <2>1, <2>2 DEF SurplusInv, One, NoSurplus, ActiveCount, Active
<1> QED BY <1>1, <1>2, <1>3, KnownInit, SurplusInit, StatsHold, PTL DEF Spec
-----------------------------------------------------------------------------
(* Not fewer runners than jobs. *)

(* No two jobs have a runner of the same name. *)
LEMMA OwnNames == \A j, k \in Jobs : /\ Own(j) \in RunnerNames /\ Own(j)[2] = j
                                     /\ Own(j) = Own(k) => j = k
  BY ScalerAssumption DEF Own, RunnerName

(* Whoever holds an address is the runner of a handled job, so that the    *)
(* next container gets one too.                                            *)
LEMMA AddressFree ==
  ASSUME Certain, TypeOK, LifeInv, NamesInv, EnoughAddresses, pc = "start"
  PROVE  FreeIPs # {}
<1> SUFFICES ASSUME FreeIPs = {} PROVE FALSE
  OBVIOUS
<1>1. docker \in [RunnerNames -> Container] /\ handled \subseteq Jobs
  BY DEF TypeOK
<1>2. PICK c \in Jobs : call.name = Own(c) /\ docker[Own(c)].ip = NoIP
  BY <1>1, OwnNames DEF NamesInv, ProvisionPC, LifeInv, StoreLife
<1> DEFINE R == {n \in RunnerNames : docker[n].ip # NoIP}
           g == [n \in R |-> docker[n].ip]
           h == [n \in R |-> n[2]]
<1>3. IsFiniteSet(R) /\ Cardinality(R) \in Nat
  BY ScalerAssumption, FS_Subset, FS_CardinalityType
<1>4. IsFiniteSet(IPs) /\ Cardinality(IPs) <= Cardinality(R) /\ Cardinality(IPs) \in Nat
  <2>1. \A ip \in IPs : \E n \in R : docker[n].ip = ip
    BY ScalerAssumption DEF FreeIPs
  <2>2. \A n \in R : docker[n].ip \in IPs
    BY <1>1 DEF Container
  <2>3. g \in Surjection(R, IPs)
    BY <2>1, <2>2 DEF Surjection
  <2> HIDE DEF g
  <2> QED BY <1>3, <2>3, FS_Surjection, FS_CardinalityType
<1>5. Cardinality(R) <= Cardinality(Jobs) - 1 /\ Cardinality(Jobs) \in Nat
  <2>1. ASSUME NEW n \in R PROVE \E j \in Jobs \ {c} : n = Own(j) /\ n[2] = j
    <3>1. docker[n].state # "none"
      BY DEF NamesInv
    <3>2. PICK j \in handled : n = Own(j)
      BY <3>1 DEF NamesInv
    <3>3. j # c
      BY <1>2, <3>2
    <3> QED BY <1>1, <3>2, <3>3, OwnNames
  <2>2. h \in Injection(R, Jobs \ {c})
    <3>1. h \in [R -> Jobs \ {c}]
      BY <2>1
    <3>2. \A n, m \in R : h[n] = h[m] => n = m
      BY <2>1
    <3> QED BY <3>1, <3>2 DEF Injection, IsInjective
  <2>3. IsFiniteSet(Jobs \ {c}) /\ Cardinality(Jobs \ {c}) = Cardinality(Jobs) - 1
    BY ScalerAssumption, FS_RemoveElement
  <2> HIDE DEF h
  <2>4. Cardinality(R) <= Cardinality(Jobs \ {c})
    BY <2>2, <2>3, FS_Injection
  <2> QED BY <2>3, <2>4, ScalerAssumption, FS_CardinalityType
<1> QED BY <1>3, <1>4, <1>5 DEF EnoughAddresses

(* So that StartRunner does not fail. *)
LEMMA NothingFails ==
  ASSUME Provides, Invariant, NamesInv, Live, pc # "discard"
  PROVE  /\ ~ContainerCreateFails /\ ~ContainerStartFails /\ ~ContainerDiscard
         /\ ~ContainerInspectFails
         /\ GenerateJitRunnerConfig => pc' = "create" /\ call' = call
<1>1. /\ ~MayFail("jit") /\ ~MayFail("create") /\ ~MayFail("start") /\ ~MayFail("startlost")
      /\ ~MayFail("inspect")
      /\ TypeOK /\ LifeInv /\ Certain
  BY DEF MayFail, Provides, Invariant, Certain
<1>2. pc = "create" => docker[call.name].state = "none"
  BY DEF NamesInv
<1>3. pc = "start" => FreeIPs # {}
  BY <1>1, AddressFree DEF Provides
<1> QED
  BY <1>1, <1>2, <1>3 DEF ContainerCreateFails, ContainerStartFails, ContainerDiscard, ContainerInspectFails,
     GenerateJitRunnerConfig

LEMMA DeficitInit == Init => NamesInv /\ DeficitInv
<1> SUFFICES ASSUME Init PROVE NamesInv /\ DeficitInv
  OBVIOUS
<1>1. /\ Active = {} /\ Outstanding = {} /\ pc = "poll" /\ rec = NoReconcile /\ Live
      /\ \A n \in RunnerNames : docker[n].state = "none" /\ docker[n].ip = NoIP
  BY DEF Init, NewStore, Absent, Active, ActiveRunners, Outstanding, DockerInit, NoContainer, Live
<1> QED BY <1>1, FS_EmptySet DEF NamesInv, DeficitInv, ProvisionPC, Caller, One

LEMMA AddressEffects ==
  ASSUME docker \in [RunnerNames -> Container], NEW n \in RunnerNames, NEW id
  PROVE  /\ CreateContainer(n) => docker'[n].ip = docker[n].ip
         /\ StopContainer(n, id) => docker' = docker \/ docker'[n].ip = NoIP
         /\ RemoveContainer(n, id) => docker'[n].ip = NoIP
<1>1. docker[n] \in Container
  OBVIOUS
<1>2. CreateContainer(n) => docker'[n].ip = docker[n].ip
  BY <1>1 DEF CreateContainer, Container
<1>3. StopContainer(n, id) => docker' = docker \/ docker'[n].ip = NoIP
  BY <1>1 DEF StopContainer, Container
<1>4. RemoveContainer(n, id) => docker'[n].ip = NoIP
  BY <1>1 DEF RemoveContainer, Container
<1> QED BY <1>2, <1>3, <1>4

(* What a change of one container has to respect. *)
LEMMA NamesFrame ==
  ASSUME NamesInv, handled' = handled, NEW n \in RunnerNames,
         docker' = docker
           \/ /\ \A m \in RunnerNames : m # n => docker'[m] = docker[m]
              /\ docker[n].state # "none" \/ \E j \in handled : n = Own(j)
              /\ docker'[n].state \in {"none", "created", "exited"} => docker'[n].ip = NoIP
              /\ pc' \in {"jit", "create"} => call'.name # n,
         pc' \in ProvisionPC => pc \in ProvisionPC /\ call'.name = call.name /\ call.name \in RunnerNames,
         pc' \in {"jit", "create"} => pc \in {"jit", "create"}
  PROVE  NamesInv'
<1>1. CASE docker' = docker
  BY <1>1 DEF NamesInv, ProvisionPC, Own
<1>2. CASE docker' # docker
  <2>1. ASSUME NEW m \in RunnerNames
        PROVE  /\ docker'[m].state # "none" => \E j \in handled : m = Own(j)
               /\ docker'[m].state \in {"none", "created", "exited"} => docker'[m].ip = NoIP
    BY <1>2 DEF NamesInv
  <2>2. pc' \in {"jit", "create"} => docker'[call'.name].state = "none"
    BY <1>2 DEF NamesInv, ProvisionPC
  <2>3. pc' \in ProvisionPC => \E j \in handled : call'.name = Own(j)
    BY DEF NamesInv
  <2> QED BY <2>1, <2>2, <2>3 DEF NamesInv, Own
<1> QED BY <1>1, <1>2

LEMMA NamesEnvironment ==
  ASSUME Invariant, NamesInv, Environment
  PROVE  NamesInv'
<1>1. /\ UNCHANGED <<handled, pc, call>> /\ LifeInv
      /\ docker \in [RunnerNames -> Container] /\ (pc \in ProvisionPC => call.name \in RunnerNames)
  BY ScalerWaits DEF Environment, Invariant, TypeOK, ProvisionPC, CallPC
<1>2. PICK l \in RunnerNames : TRUE
  BY ScalerAssumption, FS_CardinalityType
<1>3. CASE UNCHANGED docker
  BY <1>1, <1>2, <1>3, NamesFrame
<1>4. ASSUME NEW n \in RunnerNames, docker[n].state \in {"idle", "busy", "grace"},
             \A m \in RunnerNames : m # n => docker'[m] = docker[m],
             docker'[n].state \in {"busy", "grace"} \/ docker'[n].ip = NoIP
      PROVE  NamesInv'
  BY <1>1, <1>4, NamesFrame DEF NamesInv
<1>5. ASSUME NEW n \in RunnerNames, NEW j \in Jobs, RunnerTakesJob(n, j) PROVE NamesInv'
  <2>1. /\ docker[n].state = "idle" /\ docker'[n].state = "busy"
        /\ \A m \in RunnerNames : m # n => docker'[m] = docker[m]
    BY <1>1, <1>5 DEF RunnerTakesJob, Container
  <2> QED BY <1>4, <2>1
<1>6. ASSUME NEW n \in RunnerNames, RunnerFinishesJob(n) \/ RunnerKilled(n) \/ GraceEnds(n) \/ RunnerQuits(n)
      PROVE  NamesInv'
  <2>0. docker[n] \in Container
    BY <1>1
  <2> DEFINE Leaves ==
               /\ docker[n].state \in {"idle", "busy", "grace"}
               /\ docker'[n].state = "grace" \/ docker'[n].ip = NoIP
               /\ \A m \in RunnerNames : m # n => docker'[m] = docker[m]
  <2>1. RunnerFinishesJob(n) => Leaves
    BY <1>1, <2>0 DEF RunnerFinishesJob, JobEnds, Container
  <2>2. RunnerKilled(n) => Leaves
    BY <1>1, <2>0 DEF RunnerKilled, JobEnds, Container
  <2>3. GraceEnds(n) => Leaves
    BY <1>1, <2>0 DEF GraceEnds, Container
  <2>4. RunnerQuits(n) => Leaves
    BY <1>1, <2>0 DEF RunnerQuits, Container
  <2>5. Leaves
    BY <1>6, <2>1, <2>2, <2>3, <2>4
  <2> QED BY <1>4, <2>5
<1>7. CASE MakeMessage \/ \E j \in Jobs : AssignJob(j) \/ CancelJob(j)
  <2>1. UNCHANGED docker
    BY <1>7 DEF MakeMessage, AssignJob, CancelJob
  <2> QED BY <1>3, <2>1
<1> QED BY <1>5, <1>6, <1>7 DEF Environment

LEMMA NamesStartRunner ==
  ASSUME Provides, Live, pc # "discard", Invariant, NamesInv, StartRunner
  PROVE  NamesInv' /\ pc' \in ProvisionPC \ {"discard"}
<1>1. /\ handled' = handled /\ pc \in {"create", "start", "inspect"}
      /\ docker \in [RunnerNames -> Container] /\ call \in Call /\ call.name \in RunnerNames
      /\ ContainerCreate \/ ContainerStart \/ ContainerInspect
  BY NothingFails DEF StartRunner, loopVars, Invariant, TypeOK, CallPC, ContainerCreate,
     ContainerStart, ContainerInspect
<1>2. PICK n \in RunnerNames : n = call.name
  BY <1>1
<1>3. \E j \in handled : n = Own(j)
  BY <1>1, <1>2 DEF NamesInv, ProvisionPC
<1>4. CASE ContainerCreate
  <2>1. /\ docker'[n].ip = docker[n].ip /\ docker[n].state = "none"
        /\ \A m \in RunnerNames : m # n => docker'[m] = docker[m]
    BY <1>1, <1>2, <1>4, DockerEffects, AddressEffects DEF ContainerCreate
  <2>2. pc' = "start" /\ call'.name = call.name /\ docker[n].ip = NoIP
    BY <1>1, <1>4, <2>1 DEF ContainerCreate, Call, NamesInv
  <2> QED BY <1>1, <1>2, <1>3, <2>1, <2>2, NamesFrame DEF ProvisionPC
<1>5. CASE ContainerStart
  <2>1. /\ docker'[n].state = "idle"
        /\ \A m \in RunnerNames : m # n => docker'[m] = docker[m]
        /\ pc' = "inspect" /\ call'.name = call.name
    BY <1>1, <1>2, <1>5, DockerEffects DEF ContainerStart
  <2> QED BY <1>1, <1>2, <1>3, <2>1, NamesFrame DEF ProvisionPC
<1>6. CASE ContainerInspect
  <2>1. docker' = docker /\ pc' = "add" /\ call'.name = call.name
    BY <1>1, <1>6 DEF ContainerInspect, Call
  <2> QED BY <1>1, <1>2, <2>1, NamesFrame DEF ProvisionPC
<1> QED BY <1>1, <1>4, <1>5, <1>6

LEMMA NamesScaler ==
  ASSUME Provides, Live, pc # "discard", Caller # "reconcile", Invariant, EndInv, NamesInv, ScalerStep
  PROVE  NamesInv'
<1>1. /\ docker \in [RunnerNames -> Container] /\ call \in Call
      /\ pc \in CallPC => call.name \in RunnerNames
  BY DEF Invariant, TypeOK
<1>2. CASE \E j \in Jobs : HandleJobAssigned(j)
  <2>1. PICK j \in Jobs : HandleJobAssigned(j)
    BY <1>2
  <2>2. /\ UNCHANGED docker /\ handled' = handled \cup {j}
        /\ pc' = "jit" /\ call'.name = Own(j)
    BY <2>1 DEF HandleJobAssigned, ProvisionRunner, NoCall, Own
  <2>3. j \notin handled
    <3>1. AssignedAt[j] # {}
      BY <2>1, JobStep DEF AssignmentHandled, Next
    <3> QED BY <3>1 DEF Invariant, LifeInv, JobInv, JobKnown
  <2>4. docker[Own(j)].state = "none"
    BY <2>3, OwnNames DEF NamesInv, Invariant, TypeOK
  <2> QED BY <2>2, <2>4 DEF NamesInv, Own
<1>3. CASE StartRunner
  BY <1>3, NamesStartRunner
<1>4. CASE StopRunner
  <2>1. /\ handled' = handled /\ pc' \in {"remove", "forget"} /\ call.name \in RunnerNames
    BY <1>1, <1>4 DEF StopRunner, ContainerStop, ContainerRemove, loopVars, CallPC
  <2>2. PICK n \in RunnerNames : n = call.name
    BY <2>1
  <2>3. docker' = docker \/ StopContainer(n, call.id) \/ RemoveContainer(n, call.id)
    BY <1>4, <2>2 DEF StopRunner, ContainerStop, ContainerRemove
  <2>4. docker' = docker \/ docker[n].state # "none"
    BY <2>3 DEF StopContainer, RemoveContainer, Exists
  <2>5. docker' = docker
          \/ (docker'[n].ip = NoIP /\ \A m \in RunnerNames : m # n => docker'[m] = docker[m])
    BY <1>1, <2>3, DockerEffects, AddressEffects
  <2> QED BY <2>1, <2>4, <2>5, NamesFrame DEF ProvisionPC
<1>5. CASE GenerateJitRunnerConfig
  <2>1. UNCHANGED <<docker, handled, call>> /\ pc = "jit" /\ pc' = "create"
    BY <1>5, NothingFails DEF GenerateJitRunnerConfig, loopVars
  <2> QED BY <2>1 DEF NamesInv, ProvisionPC, Own
<1>6. ASSUME UNCHANGED <<docker, handled>>, pc' \notin ProvisionPC PROVE NamesInv'
  BY <1>6 DEF NamesInv, ProvisionPC, Own
<1>7. CASE RunReturns \/ Poll \/ GetMessage \/ GetMessageNothing \/ DeleteMessage \/ RunnerProvisioned
             \/ Collect \/ Record \/ RunnerForgotten \/ Reconcile \/ ReconcileDone
  <2>1. UNCHANGED <<docker, handled>>
    BY <1>7 DEF RunReturns, Poll, GetMessage, GetMessageNothing, DeleteMessage, RunnerProvisioned,
       Collect, Record, RunnerForgotten, Reconcile, ReconcileDone, loopVars
  <2>2. pc' \notin ProvisionPC
    BY <1>1, <1>7 DEF RunReturns, Poll, GetMessage, GetMessageNothing, DeleteMessage, RunnerProvisioned,
       Collect, Record, RunnerForgotten, Reconcile, ReconcileDone, ProvisionPC, Call
  <2> QED BY <1>6, <2>1, <2>2
<1>8. ASSUME NEW j \in Jobs, NEW n \in Names, HandleJobStarted(j, n) \/ HandleJobCompleted(j, n)
      PROVE  NamesInv'
  <2>1. UNCHANGED <<docker, handled>> /\ pc = "dispatch"
    BY <1>8 DEF HandleJobStarted, HandleJobCompleted
  <2>2. pc' \notin ProvisionPC
    BY <1>8, <2>1 DEF HandleJobStarted, HandleJobCompleted, ProvisionPC
  <2> QED BY <1>6, <2>1, <2>2
<1>9. ~ReconcileRunner
  BY DEF ReconcileRunner, Caller, ProvisionPC
<1> QED BY <1>2, <1>3, <1>4, <1>5, <1>7, <1>8, <1>9 DEF ScalerStep, Names

LEMMA NamesStep ==
  ASSUME Provides, Live, pc # "discard", Caller # "reconcile", Invariant, EndInv, NamesInv, [Next]_vars
  PROVE  NamesInv'
<1>1. ASSUME CancelContext \/ UNCHANGED vars PROVE NamesInv'
  <2>1. UNCHANGED <<docker, handled, pc, call>>
    BY <1>1 DEF CancelContext, vars, scalerVars, loopVars
  <2> QED BY <2>1 DEF NamesInv, Own
<1> QED BY <1>1, NamesEnvironment, NamesScaler DEF Next

LEMMA DeficitStep ==
  ASSUME Provides, Invariant, EndInv, StatsInv, NamesInv, DeficitInv, [Next]_vars
  PROVE  DeficitInv'
<1>1. /\ TypeOK /\ LineInv /\ call \in Call /\ Live /\ Caller # "reconcile" /\ rec = NoReconcile
      /\ pc # "discard" /\ Certain
      /\ Cardinality(Active) \in Nat /\ Cardinality(Outstanding) \in Nat
  BY Finite DEF Invariant, TypeOK, DeficitInv, Provides, Certain
<1> DEFINE a == Cardinality(Active)
           o == Cardinality(Outstanding)
<1>2. Live'
  <2>1. ~CancelContext
    BY DEF CancelContext, Provides
  <2>2. ctx' = ctx
    BY <2>1 DEF Next, ScalerStep, RunReturns, Poll, GetMessage, GetMessageNothing, DeleteMessage,
       GenerateJitRunnerConfig, StartRunner, RunnerProvisioned, HandleJobAssigned, HandleJobStarted,
       HandleJobCompleted, Collect, Record, StopRunner, RunnerForgotten, Reconcile, ReconcileRunner,
       ReconcileDone, Environment, vars
  <2> QED BY <1>1, <2>2 DEF Live
<1>3. CASE Quiet
  <2>1. a' = a /\ o' = o
    BY <1>1, <1>3, CountStep DEF Quiet, Names
  <2>2. /\ rec' = rec
        /\ Caller' # "reconcile"
    BY <1>1, <1>3, QuietStep
  <2>3. (pc \in ProvisionPC => pc' \in ProvisionPC) /\ pc' # "discard"
    <3>1. CASE StartRunner
      BY <1>1, <3>1, NamesStartRunner
    <3>2. CASE ScalerStep /\ ~StartRunner /\ pc \in ProvisionPC
      <4>1. GenerateJitRunnerConfig
        BY <1>3, <3>2 DEF Quiet, Names, ProvisionPC, ScalerStep, RunReturns, Poll, GetMessage,
           GetMessageNothing, DeleteMessage, HandleJobStarted, Collect, Record, StopRunner,
           ContainerStop, ContainerRemove, RunnerForgotten
      <4> QED BY <1>1, <4>1, NothingFails DEF ProvisionPC
    <3>4. CASE ScalerStep /\ ~StartRunner /\ pc \notin ProvisionPC
      BY <1>3, <3>4 DEF Quiet, Names, ProvisionPC, ScalerStep, RunReturns, Poll, GetMessage,
         GetMessageNothing, DeleteMessage, GenerateJitRunnerConfig, HandleJobStarted, Collect, Record,
         StopRunner, ContainerStop, ContainerRemove, RunnerForgotten
    <3>3. CASE Environment \/ CancelContext \/ UNCHANGED vars
      BY <1>1, <3>3 DEF Environment, CancelContext, vars, scalerVars
    <3> QED BY <3>1, <3>2, <3>3, <3>4 DEF Next
  <2> QED BY <1>1, <1>2, <2>1, <2>2, <2>3 DEF DeficitInv, One
<1>4. ASSUME NEW j \in Jobs, HandleJobAssigned(j) PROVE DeficitInv'
  <2>1. /\ pc = "dispatch" /\ rec' = rec /\ Caller' # "reconcile" /\ pc' = "jit"
    BY <1>4 DEF HandleJobAssigned, ProvisionRunner, NoCall, Caller, ProvisionPC
  <2>2. a' = a /\ o' = o + 1
    BY <1>1, <1>4, CountStep DEF HandleJobAssigned, HandleJobCompleted, RunnerProvisioned, Names
  <2> QED BY <1>1, <1>2, <2>1, <2>2 DEF DeficitInv, One, ProvisionPC
<1>5. ASSUME NEW j \in Jobs, NEW n \in Names, HandleJobCompleted(j, n) PROVE DeficitInv'
  <2>1. pc = "dispatch" /\ rec' = rec /\ pc' \in {"dispatch", "collectCPU", "stop"}
    BY <1>5 DEF HandleJobCompleted
  <2>2. a' \in {a, a - 1} /\ o' = o - 1
    BY <1>1, <1>5, CountStep DEF HandleJobAssigned, HandleJobCompleted, RunnerProvisioned
  <2> QED BY <1>1, <1>2, <2>1, <2>2 DEF DeficitInv, One, Caller, ProvisionPC
<1>6. CASE RunnerProvisioned
  <2>1. /\ pc = "add" /\ rec' = rec /\ pc' = call.ret
    BY <1>6 DEF RunnerProvisioned, loopVars
  <2>2. a' = a + 1 /\ o' = o
    BY <1>1, <1>6, CountStep DEF HandleJobAssigned, HandleJobCompleted, RunnerProvisioned, Names
  <2>3. Caller' = Caller
    BY <1>1, <2>1 DEF Caller, ProvisionPC, Call
  <2> QED BY <1>1, <1>2, <2>1, <2>2, <2>3 DEF DeficitInv, One, ProvisionPC, Call
<1>7. CASE Reconcile \/ ReconcileRunner \/ ReconcileDone
  <2>1. Reconcile
    BY <1>1, <1>7 DEF ReconcileRunner, ReconcileDone, Caller, ProvisionPC
  <2>2. a' = a /\ o' = o
    <3>1. /\ ~RunnerProvisioned
          /\ \A j \in Jobs : ~HandleJobAssigned(j)
          /\ \A j \in Jobs, n \in Names : ~HandleJobCompleted(j, n)
      BY <2>1, ReconcileAlone
    <3> QED BY <1>1, <3>1, CountStep DEF Names
  <2>3. pc = "dispatch" /\ msg.events = NoEvents
    BY <2>1 DEF Reconcile
  <2>4. msg.stats # NoStats => msg.stats = o
    BY <2>3, OpenHandled DEF StatsInv
  <2>5. o <= a
    BY <1>1, <2>3 DEF DeficitInv, One, ProvisionPC
  <2>6. rec' = rec /\ pc' = "poll"
    BY <1>1, <2>1, <2>4, <2>5 DEF Reconcile, ActiveCount, Active
  <2> QED BY <1>1, <1>2, <2>2, <2>5, <2>6 DEF DeficitInv, One, Caller, ProvisionPC
<1> QED BY <1>3, <1>4, <1>5, <1>6, <1>7 DEF Quiet

LEMMA DeficitHolds ==
  ASSUME Provides
  PROVE  Spec => [](Invariant /\ EndInv /\ StatsInv /\ NamesInv /\ DeficitInv)
<1>1. Invariant /\ EndInv /\ NamesInv /\ DeficitInv /\ [Next]_vars => NamesInv'
  BY NamesStep DEF DeficitInv
<1>2. Invariant /\ EndInv /\ StatsInv /\ NamesInv /\ DeficitInv /\ [Next]_vars => DeficitInv'
  BY DeficitStep
<1> QED BY <1>1, <1>2, DeficitInit, StatsHold, PTL DEF Spec

(* When GitHub's count is compared with the store's, it is not the greater *)
(* one: as long as provisioning does not fail, reconcileRunnerCount never  *)
(* starts a runner.                                                        *)
THEOREM NothingToReconcile ==
  ASSUME Provides
  PROVE  Spec => []NoDeficit
<1>1. Invariant /\ StatsInv /\ DeficitInv => NoDeficit
  <2> SUFFICES ASSUME Invariant, StatsInv, DeficitInv, pc = "dispatch", msg.events = NoEvents,
                      msg.stats # NoStats
               PROVE  msg.stats <= ActiveCount(runners)
    BY DEF NoDeficit
  <2>1. msg.stats = Cardinality(Outstanding)
    BY OpenHandled DEF StatsInv
  <2>2. Cardinality(Outstanding) \in Nat /\ Cardinality(Active) \in Nat
    BY Finite DEF Invariant
  <2> QED BY <2>1, <2>2 DEF DeficitInv, One, ProvisionPC, ActiveCount, Active
<1> QED BY <1>1, DeficitHolds, PTL
-----------------------------------------------------------------------------
(* The statistics and the store agree. *)

LEMMA StatsSentInit == Init => StatsSent
  BY DEF Init, GitHubInit, StatsSent, Undelivered, Caller, ProvisionPC

LEMMA StatsSentStep ==
  ASSUME "nostats" \notin Faults, Invariant, StatsSent, [Next]_vars
  PROVE  StatsSent'
<1> DEFINE Away == {"poll", "wait", "reconcile", "returned"}
<1>1. /\ TypeOK /\ LineInv /\ call \in Call /\ lastMessageID \in Nat
      /\ \A m \in inbox : m.id \in Nat
  BY DEF Invariant, TypeOK, Message
<1>2. ASSUME inbox' \subseteq inbox, lastMessageID <= lastMessageID', lastMessageID' \in Nat,
             \/ Caller' \in Away
             \/ Caller \notin Away /\ msg'.stats = msg.stats
             \/ msg' \in Undelivered
      PROVE  StatsSent'
  <2>1. Undelivered' \subseteq Undelivered
    BY <1>1, <1>2 DEF Undelivered
  <2> QED BY <1>2, <2>1 DEF StatsSent
<1>3. CASE Environment
  <2>1. UNCHANGED <<msg, pc, call, lastMessageID>>
    BY <1>3, ScalerWaits DEF Environment
  <2>2. CASE MakeMessage
    <3>1. TotalAssignedJobs # NoStats
      BY <1>1, Counts, ScalerAssumption, FS_CardinalityType
    <3>2. inbox' = inbox \cup {[id |-> nextID, events |-> outbox, stats |-> TotalAssignedJobs]}
      BY <1>3, <2>2 DEF MakeMessage
    <3>3. \A m \in Undelivered' : m \in Undelivered \/ m.stats = TotalAssignedJobs
      BY <2>1, <3>2 DEF Undelivered
    <3> QED BY <2>1, <3>1, <3>3 DEF StatsSent, Caller
  <2>3. CASE ~MakeMessage
    <3>1. UNCHANGED inbox
      BY <1>3, <2>3 DEF Environment, githubVars, AssignJob, CancelJob, RunnerTakesJob,
         RunnerFinishesJob, RunnerKilled, JobEnds, GraceEnds, RunnerQuits
    <3> QED BY <1>1, <2>1, <3>1 DEF StatsSent, Caller, Undelivered
  <2> QED BY <2>2, <2>3
<1>4. ASSUME UNCHANGED <<inbox, lastMessageID, msg>>, Caller' \in Away \/ Caller \notin Away
      PROVE  StatsSent'
  BY <1>1, <1>2, <1>4
<1>5. CASE CancelContext \/ UNCHANGED vars
  <2>1. UNCHANGED <<inbox, lastMessageID, msg, pc, call>>
    BY <1>5 DEF CancelContext, vars, scalerVars, loopVars, githubVars
  <2> QED BY <1>4, <2>1 DEF Caller
<1>6. CASE ScalerStep
  <2>1. ASSUME NEW j \in Jobs, \/ HandleJobAssigned(j)
                               \/ \E n \in RunnerNames : HandleJobStarted(j, n)
                               \/ \E n \in RunnerNames \cup {NoRunner} : HandleJobCompleted(j, n)
        PROVE  StatsSent'
    <3>1. msg'.stats = msg.stats
      BY <1>1, <2>1 DEF HandleJobAssigned, HandleJobStarted, HandleJobCompleted, TypeOK, Message
    <3>2. UNCHANGED <<inbox, lastMessageID>> /\ pc = "dispatch"
      BY <2>1 DEF HandleJobAssigned, HandleJobStarted, HandleJobCompleted, githubVars
    <3> QED BY <1>1, <1>2, <3>1, <3>2 DEF Caller, ProvisionPC
  <2>2. CASE GetMessage
    BY <1>1, <1>2, <2>2 DEF GetMessage, githubVars
  <2>3. CASE DeleteMessage
    <3>1. lastMessageID <= msg.id /\ msg.id \in Nat
      BY <1>1, <2>3 DEF DeleteMessage, LineInv, Undelivered
    <3> QED BY <1>1, <1>2, <2>3, <3>1 DEF DeleteMessage, loopVars, Caller, ProvisionPC
  <2>4. CASE Reconcile
    BY <1>1, <1>2, <2>4 DEF Reconcile, githubVars, Caller, ProvisionPC
  <2>5. CASE RunReturns \/ Poll \/ GetMessageNothing \/ ReconcileDone \/ ReconcileRunner \/ Collect \/ Record
               \/ StopRunner \/ RunnerForgotten
    <3>1. UNCHANGED <<inbox, lastMessageID, msg>> /\ (Caller' \in Away \/ Caller \notin Away)
      BY <1>1, <2>5 DEF RunReturns, Poll, GetMessageNothing, ReconcileDone, ReconcileRunner,
         ProvisionRunner, NoCall, Collect, Record, StopRunner, ContainerStop, ContainerRemove,
         RunnerForgotten, githubVars, loopVars, Caller, ProvisionPC
    <3> QED BY <1>4, <3>1
  <2>6. CASE GenerateJitRunnerConfig \/ StartRunner \/ RunnerProvisioned
    <3>1. /\ UNCHANGED <<inbox, lastMessageID, msg>> /\ pc \in ProvisionPC
          /\ pc' = call.ret \/ (pc' \in ProvisionPC /\ call'.ret = call.ret)
      BY <1>1, <2>6 DEF GenerateJitRunnerConfig, StartRunner, RunnerProvisioned, ContainerCreate,
         ContainerCreateFails, ContainerStart, ContainerStartFails, ContainerDiscard, ContainerInspect,
         ContainerInspectFails, githubVars, loopVars, ProvisionPC, Call
    <3>2. Caller' = Caller
      BY <1>1, <3>1 DEF Caller, ProvisionPC, Call
    <3> QED BY <1>4, <3>1, <3>2
  <2> QED BY <1>6, <2>1, <2>2, <2>3, <2>4, <2>5, <2>6 DEF ScalerStep
<1> QED BY <1>3, <1>5, <1>6 DEF Next

(* As long as nothing of this fails, the two counts are equal whenever the *)
(* scaler compares them, in whatever order runners took the jobs and the   *)
(* events came, for every number of jobs.                                  *)
THEOREM StatisticsMatch ==
  ASSUME Reliable, Provides, "nostats" \notin Faults
  PROVE  Spec => []StatisticsAgree
<1>1. Invariant /\ StatsSent /\ [Next]_vars => StatsSent'
  BY StatsSentStep
<1>2. Invariant /\ StatsInv /\ NoSurplus /\ DeficitInv /\ StatsSent => StatisticsAgree
  <2> SUFFICES ASSUME Invariant, StatsInv, NoSurplus, DeficitInv, StatsSent, pc = "dispatch",
                      msg.events = NoEvents
               PROVE  msg.stats = ActiveCount(runners)
    BY DEF StatisticsAgree
  <2>1. msg.stats = Cardinality(Outstanding)
    BY OpenHandled DEF StatsInv, StatsSent, Caller, ProvisionPC
  <2>2. Cardinality(Outstanding) \in Nat /\ Cardinality(Active) \in Nat
    BY Finite DEF Invariant
  <2> QED BY <2>1, <2>2 DEF NoSurplus, DeficitInv, One, ProvisionPC, ActiveCount, Active
<1> QED BY <1>1, <1>2, StatsSentInit, NeverTooManyRunners, DeficitHolds, PTL DEF Spec
-----------------------------------------------------------------------------
(* The slots. *)

LEMMA WaitingStep ==
  ASSUME Invariant, [Next]_vars
  PROVE  /\ \A j \in Jobs : HandleJobAssigned(j) => j \in Waiting /\ Waiting' = Waiting \ {j}
         /\ \/ Waiting' = Waiting
            \/ \E j \in Jobs : HandleJobAssigned(j)
            \/ \E j \in Jobs : JobAssigned(j) /\ j \notin Waiting /\ Waiting' = Waiting \cup {j}
<1>1. \A j \in Jobs : job[j] = "queued" => AssignedAt[j] = {}
  BY DEF Invariant, LifeInv, JobInv, JobKnown
<1>2. ASSUME NEW j \in Jobs, HandleJobAssigned(j)
      PROVE  j \in Waiting /\ Waiting' = Waiting \ {j}
  <2>1. /\ AssignedAt[j] # {} /\ AssignedAt'[j] = {}
        /\ \A k \in Jobs : k # j => AssignedAt'[k] = AssignedAt[k]
    BY <1>2, JobStep DEF AssignmentHandled
  <2> QED BY <2>1 DEF Waiting
<1>3. ASSUME NEW j \in Jobs, JobAssigned(j)
      PROVE  j \notin Waiting /\ Waiting' = Waiting \cup {j}
  <2>1. /\ AssignedAt[j] = {} /\ AssignedAt'[j] # {}
        /\ \A k \in Jobs : k # j => AssignedAt'[k] = AssignedAt[k]
    BY <1>1, <1>3 DEF JobAssigned, JobGains
  <2> QED BY <2>1 DEF Waiting
<1>4. ASSUME UNCHANGED AssignedAt PROVE Waiting' = Waiting
  BY <1>4 DEF Waiting
<1> QED
  BY <1>2, <1>3, <1>4, JobStep
  DEF AssignmentHandled, JobEnded, CompletionHandled, NothingTold

(* While a poll is outstanding, GitHub has all the jobs that wait. *)
LEMMA AllAtGitHub ==
  ASSUME TypeOK, LineInv, pc = "wait"
  PROVE  Waiting = UndeliveredAssigned
<1>1. msg.events.assigned = {} /\ Draft.events = outbox
  BY DEF LineInv, Caller, ProvisionPC, NoMessage, NoEvents, Draft
<1>2. ASSUME NEW j \in Jobs
      PROVE  AssignedAt[j] # {} <=> \E m \in Line : j \in m.events.assigned
  <2>1. AssignedAt[j] = {m.id : m \in {x \in Line : j \in x.events.assigned}}
    BY DEF AssignedAt, AssignedIn
  <2> QED BY <2>1
<1>3. UndeliveredAssigned \subseteq Jobs
  BY DEF UndeliveredAssigned, Undelivered, TypeOK, Message, Events
<1>4. \A j \in Jobs : (\E m \in Line : j \in m.events.assigned) <=> j \in UndeliveredAssigned
  BY <1>1 DEF Line, UndeliveredAssigned
<1> QED BY <1>2, <1>3, <1>4 DEF Waiting

LEMMA SlotsInit == Init => SlotsInv
<1> SUFFICES ASSUME Init PROVE SlotsInv
  OBVIOUS
<1>1. Active = {} /\ pc = "poll" /\ capacity = 0
  BY DEF Init, GitHubInit, NewStore, Absent, Active, ActiveRunners
<1>2. Waiting = {}
  BY LifeInit DEF Init, GitHubInit, LifeInv, JobInv, JobKnown, Waiting
<1> QED BY <1>1, <1>2, FS_EmptySet, ScalerAssumption DEF SlotsInv, CallPC, One

LEMMA CapacityStep ==
  ASSUME Invariant, SlotsInv, [Next]_vars
  PROVE  IF pc' = "wait" THEN capacity' <= AvailableCapacity' ELSE capacity' = 0
<1>1. CASE Poll
  <2>1. /\ UNCHANGED runners
        /\ capacity' = AvailableCapacity /\ pc' = "wait" /\ AvailableCapacity \in Nat
    BY <1>1, Counts, ScalerAssumption DEF Poll, AvailableCapacity, Invariant
  <2> QED BY <2>1 DEF AvailableCapacity, ActiveCount, ActiveRunners
<1>2. CASE GetMessage \/ GetMessageNothing
  BY <1>2 DEF GetMessage, GetMessageNothing
<1>3. CASE ScalerStep /\ ~Poll /\ ~GetMessage /\ ~GetMessageNothing
  <2>1. capacity' = capacity /\ pc # "wait" /\ pc' # "wait"
    BY <1>3 DEF ScalerStep, RunReturns, DeleteMessage, GenerateJitRunnerConfig, StartRunner,
       RunnerProvisioned, HandleJobAssigned, HandleJobStarted, HandleJobCompleted, Collect, Record,
       StopRunner, RunnerForgotten, Reconcile, ReconcileRunner, ReconcileDone, ProvisionRunner,
       ContainerCreate, ContainerCreateFails, ContainerStart, ContainerStartFails, ContainerDiscard, ContainerInspect,
       ContainerInspectFails, ContainerStop, ContainerRemove, Invariant, TypeOK, Call
  <2> QED BY <2>1 DEF SlotsInv
<1>4. CASE Environment \/ CancelContext \/ UNCHANGED vars
  <2>1. UNCHANGED <<capacity, pc, runners>>
    BY <1>4 DEF Environment, CancelContext, vars, scalerVars
  <2> QED BY <2>1 DEF SlotsInv, AvailableCapacity, ActiveCount, ActiveRunners
<1> QED BY <1>1, <1>2, <1>3, <1>4 DEF Next

LEMMA SlotsStep ==
  ASSUME Certain, Invariant, EndInv, DeficitInv, SlotsInv, [Next]_vars
  PROVE  SlotsInv'
<1>1. /\ TypeOK /\ LineInv /\ call \in Call /\ MaxRunners \in Nat /\ capacity \in Nat
      /\ Cardinality(Active) \in Nat
      /\ Caller # "reconcile"
  BY Finite, ScalerAssumption DEF Invariant, TypeOK, DeficitInv
<1>2. IsFiniteSet(Waiting) /\ Cardinality(Waiting) \in Nat
  BY ScalerAssumption, FS_Subset, FS_CardinalityType DEF Waiting
<1> DEFINE a == Cardinality(Active)
           w == Cardinality(Waiting)
<1>3. SUFFICES a' + One(pc' \in CallPC) + w' <= MaxRunners
  BY CapacityStep DEF SlotsInv
<1>4. (\E j \in Jobs : JobAssigned(j) /\ Waiting' = Waiting \cup {j} /\ j \notin Waiting)
        \/ (\E j \in Jobs : HandleJobAssigned(j)) \/ w' = w
  BY WaitingStep
<1>5. ASSUME NEW j \in Jobs, JobAssigned(j), Waiting' = Waiting \cup {j}, j \notin Waiting
      PROVE  a' + One(pc' \in CallPC) + w' <= MaxRunners
  <2>1. UNCHANGED <<pc, runners>> /\ Cardinality(UndeliveredAssigned) < capacity
    BY <1>5 DEF JobAssigned, AssignJob, scalerVars
  <2>2. Cardinality(UndeliveredAssigned) \in Nat
    <3>1. UndeliveredAssigned \subseteq Jobs
      BY <1>1 DEF UndeliveredAssigned, Undelivered, TypeOK, Message, Events
    <3> QED BY <3>1, ScalerAssumption, FS_Subset, FS_CardinalityType
  <2>3. pc = "wait" /\ w < AvailableCapacity
    <3>1. pc = "wait"
      BY <1>1, <2>1, <2>2 DEF SlotsInv
    <3>2. w = Cardinality(UndeliveredAssigned)
      BY <1>1, <3>1, AllAtGitHub
    <3>3. capacity <= AvailableCapacity /\ AvailableCapacity \in Nat
      BY <1>1, <3>1, Counts DEF SlotsInv, AvailableCapacity
    <3> QED BY <1>1, <1>2, <2>1, <3>1, <3>2, <3>3
  <2>4. a' = a
    BY <2>1 DEF Active, ActiveRunners
  <2>5. w' = w + 1
    BY <1>2, <1>5, OneMore
  <2>6. w < MaxRunners - a
    BY <1>1, <1>2, <2>3 DEF AvailableCapacity, ActiveCount, Active
  <2>7. pc' \notin CallPC
    BY <2>1, <2>3 DEF CallPC
  <2> QED BY <1>1, <1>2, <2>4, <2>5, <2>6, <2>7 DEF One
<1>6. ASSUME NEW j \in Jobs, HandleJobAssigned(j)
      PROVE  a' + One(pc' \in CallPC) + w' <= MaxRunners
  <2>1. pc = "dispatch" /\ pc' = "jit"
    BY <1>6 DEF HandleJobAssigned, ProvisionRunner
  <2>2. a' = a
    BY <1>6, CountStep DEF HandleJobAssigned, HandleJobCompleted, RunnerProvisioned
  <2>3. w' = w - 1
    BY <1>2, <1>6, WaitingStep, OneMore
  <2> QED BY <1>1, <1>2, <2>1, <2>2, <2>3 DEF SlotsInv, CallPC, One
<1>7. ASSUME w' = w PROVE a' + One(pc' \in CallPC) + w' <= MaxRunners
  <2>1. CASE RunnerProvisioned
    <3>1. pc = "add" /\ pc' \in {"dispatch", "reconcile"}
      BY <1>1, <2>1 DEF RunnerProvisioned, Call
    <3>2. a' = a + 1
      BY <2>1, CountStep
    <3> QED BY <1>1, <1>2, <1>7, <3>1, <3>2 DEF SlotsInv, CallPC, One
  <2>2. CASE \E j \in Jobs, n \in RunnerNames : HandleJobCompleted(j, n) /\ Tracked(runners, n)
    <3>1. pc = "dispatch" /\ pc' \in {"collectCPU", "stop"}
      BY <2>2 DEF HandleJobCompleted
    <3>2. a' = a - 1
      BY <2>2, <3>1, CountStep DEF RunnerProvisioned
    <3> QED BY <1>1, <1>2, <1>7, <3>1, <3>2 DEF SlotsInv, CallPC, One
  <2>3. ASSUME ~RunnerProvisioned,
               ~\E j \in Jobs, n \in RunnerNames : HandleJobCompleted(j, n) /\ Tracked(runners, n),
               ~\E j \in Jobs : HandleJobAssigned(j)
        PROVE  a' + One(pc' \in CallPC) + w' <= MaxRunners
    <3>1. a' = a
      BY <2>3, CountStep
    <3>2. pc' \in CallPC => pc \in CallPC
      <4>1. CASE Quiet
        BY <1>1, <4>1, QuietStep
      <4>2. CASE Reconcile \/ ReconcileRunner \/ ReconcileDone
        BY <1>1, <4>2 DEF Reconcile, ReconcileRunner, ReconcileDone, Caller, ProvisionPC, CallPC
      <4>3. ASSUME NEW j \in Jobs, NEW n \in Names, HandleJobCompleted(j, n) PROVE pc' = pc
        BY <2>3, <4>3 DEF HandleJobCompleted
      <4> QED BY <2>3, <4>1, <4>2, <4>3 DEF Quiet
    <3> QED BY <1>1, <1>2, <1>7, <3>1, <3>2 DEF SlotsInv, One
  <2> QED BY <1>6, <2>1, <2>2, <2>3
<1> QED BY <1>4, <1>5, <1>6, <1>7

(* There are never more containers than max_runners, for every value of    *)
(* max_runners and every number of jobs, although the capacity is computed *)
(* before the poll and the jobs are assigned in it.                        *)
THEOREM NeverOverCapacity ==
  ASSUME Dependable, Provides
  PROVE  Spec => []CapacityRespected
<1>1. Invariant /\ EndInv /\ DeficitInv /\ SlotsInv /\ [Next]_vars => SlotsInv'
  BY SlotsStep DEF Provides, Certain
<1>2. Invariant /\ CleanUpInv /\ SlotsInv => CapacityRespected
  <2> SUFFICES ASSUME Invariant, CleanUpInv, SlotsInv PROVE CapacityRespected
    OBVIOUS
  <2> DEFINE C == {n \in RunnerNames : docker[n].state # "none"}
             S == Active \cup (IF pc \in CallPC THEN {call.name} ELSE {})
  <2>1. C \subseteq S
    <3> SUFFICES ASSUME NEW n \in RunnerNames, docker[n].state # "none"
                 PROVE  n \in Active \/ (n = call.name /\ pc \in CallPC)
      OBVIOUS
    <3>1. Tracked(runners, n) \/ (n = call.name /\ pc \in Provisioning)
      BY DEF CleanUpInv
    <3>2. Tracked(runners, n) => n \in Active \/ runners[n].status = "completed"
      BY DEF Tracked, Active, ActiveRunners, Invariant, TypeOK, RunnerInfo, RunnerStatus
    <3>3. runners[n].status = "completed" => n = call.name /\ pc \in Stopping
      BY DEF Provides, Certain, Invariant, LifeInv, StoreLife
    <3> QED BY <3>1, <3>2, <3>3 DEF Provisioning, Stopping, CallPC
  <2>2. /\ IsFiniteSet(Active) /\ Cardinality(Active) \in Nat /\ MaxRunners \in Nat
        /\ Cardinality(Waiting) \in Nat
    BY Finite, ScalerAssumption, FS_Subset, FS_CardinalityType DEF Invariant, Waiting
  <2>3. /\ IsFiniteSet(S) /\ Cardinality(S) \in Nat
        /\ Cardinality(S) <= Cardinality(Active) + One(pc \in CallPC)
    <3>1. CASE pc \in CallPC
      <4>1. S = Active \cup {call.name} /\ One(pc \in CallPC) = 1
        BY <3>1 DEF One
      <4> HIDE DEF S
      <4>2. IsFiniteSet(S) /\ Cardinality(S) \in Nat
        BY <2>2, <4>1, FS_AddElement, FS_CardinalityType
      <4>3. Cardinality(S) = Cardinality(Active) \/ Cardinality(S) = Cardinality(Active) + 1
        BY <2>2, <4>1, FS_AddElement
      <4> QED BY <2>2, <4>1, <4>2, <4>3
    <3>2. CASE pc \notin CallPC
      <4>1. S = Active
        BY <3>2
      <4> HIDE DEF S
      <4> QED BY <2>2, <3>2, <4>1 DEF One
    <3> QED BY <3>1, <3>2
  <2>4. Cardinality(C) <= Cardinality(S) /\ Cardinality(C) \in Nat
    <3> HIDE DEF C, S
    <3> QED BY <2>1, <2>3, FS_Subset, FS_CardinalityType
  <2>5. Cardinality(S) <= MaxRunners
    <3> HIDE DEF S
    <3> QED BY <2>2, <2>3 DEF SlotsInv, One
  <2> QED BY <2>2, <2>3, <2>4, <2>5 DEF CapacityRespected
<1> QED BY <1>1, <1>2, SlotsInit, CleanUpHolds, DeficitHolds, PTL DEF Spec
=============================================================================
