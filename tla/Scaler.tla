------------------------------- MODULE Scaler -------------------------------
(***************************************************************************)
(* internal/scaler: the goroutine that runs Scaler.Run.  It polls GitHub,  *)
(* acknowledges a message, handles its JobAssigned, JobStarted and         *)
(* JobCompleted events in that order, and reconciles the number of runners *)
(* with the statistics of the message.  Everything it calls blocks, so it  *)
(* is one process; GitHub, Docker and the runners move at each of its      *)
(* steps.  pc names the call the goroutine is about to make.               *)
(***************************************************************************)
EXTENDS Provisioner

CONSTANTS MaxRunners,      \* cfg.Runner.MaxRunners
          Profiles,        \* the names of cfg.Profiles
          DefaultProfile,  \* cfg.DefaultProfile
          ProfileOf,       \* what Classify answers for each job
          Adaptive         \* cfg.Adaptive.Enabled

VARIABLES runners,  \* the state.Store
          msg,      \* the message being handled, less what is done of it
          pending,  \* pendingJobs
          rec,      \* locals of reconcileRunnerCount
          usage,    \* locals of Collect: which figures were read
          records,  \* rows of the metrics database
          handled   \* history: jobs whose JobAssigned was handled

loopVars == <<msg, pending, rec, handled>>
metricVars == <<usage, records>>
scalerVars == <<runners, loopVars, metricVars, pc, call, lastMessageID, capacity>>
vars == <<docker, githubVars, ctx, scalerVars>>

RunnerName(profile, jobID) == <<profile, jobID>>

ReconcileID(i) == <<"reconcile", i>>

(* JobName of the runner: of the job it was provisioned for. *)
JobName(n) == IF n[2] \in Jobs THEN n[2] ELSE "unknown-reconcile"

ASSUME ScalerAssumption ==
  /\ IsFiniteSet(Jobs) /\ IsFiniteSet(RunnerNames)
  /\ MaxRunners \in Nat \ {0}
  /\ ProfileOf \in [Jobs -> Profiles] /\ DefaultProfile \in Profiles
  /\ Adaptive \in BOOLEAN
  /\ \A j \in Jobs : RunnerName(ProfileOf[j], j) \in RunnerNames
  /\ \A i \in 0..Cardinality(Jobs) :
       RunnerName(DefaultProfile, ReconcileID(i)) \in RunnerNames
  /\ NoRunner \notin RunnerNames /\ NoStats \notin Nat
  /\ NoIP \notin IPs /\ NoJob \notin Jobs

PC == {"poll", "wait", "ack", "dispatch", "jit", "create", "start", "discard",
       "inspect", "add", "collectCPU", "collectMem", "record", "stop", "remove", "forget", "reconcile",
       "returned"}

CallPC == {"jit", "create", "start", "discard", "inspect", "add", "collectCPU", "collectMem",
           "record", "stop", "remove", "forget"}

NoReconcile == [i |-> 0, deficit |-> 0, left |-> {}]
NoUsage == [cpu |-> FALSE, mem |-> FALSE]

(* ran is the job the row should have been about, timed the job whose      *)
(* JobStarted its duration counts from; the code has neither.              *)
MetricsRecord == [jobName : Jobs \cup {"unknown-reconcile"}, cpu : BOOLEAN, mem : BOOLEAN,
                  ran : Jobs \cup {NoJob}, timed : Jobs \cup {NoJob}]

Init ==
  /\ DockerInit
  /\ GitHubInit
  /\ pc = "poll" /\ ctx = "live" /\ call = NoCall
  /\ runners = NewStore
  /\ msg = NoMessage
  /\ pending = {}
  /\ rec = NoReconcile
  /\ usage = NoUsage
  /\ records = {}
  /\ handled = {}
-----------------------------------------------------------------------------
(* The loop of Run. *)

(* Mutant: Run waits for the pending jobs before it returns. *)
RunReturnsDrained ==
  /\ pc = "poll" /\ ~Live /\ pending = {}
  /\ pc' = "returned"
  /\ UNCHANGED <<docker, githubVars, ctx, runners, loopVars, metricVars, call,
                 lastMessageID, capacity>>

RunReturns ==
  /\ pc = "poll" /\ ~Live
  /\ pc' = "returned"
  /\ UNCHANGED <<docker, githubVars, ctx, runners, loopVars, metricVars, call,
                 lastMessageID, capacity>>

(* Mutants: no lower bound, all slots whatever runs, one slot too few. *)
CapacityUnclamped == MaxRunners - ActiveCount(runners)
CapacityIgnoresActive == MaxRunners
CapacityOffByOne ==
  IF MaxRunners > ActiveCount(runners) + 1 THEN MaxRunners - ActiveCount(runners) - 1 ELSE 0

AvailableCapacity ==
  IF MaxRunners > ActiveCount(runners) THEN MaxRunners - ActiveCount(runners) ELSE 0

Poll ==
  /\ pc = "poll" /\ Live
  /\ capacity' = AvailableCapacity
  /\ pc' = "wait"
  /\ UNCHANGED <<docker, githubVars, ctx, runners, loopVars, metricVars, call,
                 lastMessageID>>

GetMessage ==
  /\ pc = "wait" /\ Live
  /\ \E m \in Undelivered :
       /\ \A other \in Undelivered : m.id <= other.id
       /\ msg' = m
  /\ capacity' = 0
  /\ pc' = "ack"
  /\ UNCHANGED <<docker, githubVars, ctx, runners, pending, rec, handled, metricVars,
                 call, lastMessageID>>

(* 202 after the long poll, an error, or the end of the context. *)
GetMessageNothing ==
  /\ pc = "wait"
  /\ Undelivered = {} \/ MayFail("getmessage")
  /\ capacity' = 0
  /\ pc' = IF Live THEN "poll" ELSE "returned"
  /\ UNCHANGED <<docker, githubVars, ctx, runners, loopVars, metricVars, call,
                 lastMessageID>>

(* Mutant: lastMessageID moves on only when the acknowledgement succeeds. *)
DeleteMessageKeepsID ==
  /\ pc = "ack"
  /\ \/ Live /\ inbox' = {m \in inbox : m.id # msg.id} /\ lastMessageID' = msg.id
     \/ MayFail("ack") /\ UNCHANGED <<inbox, lastMessageID>>
  /\ pc' = "dispatch"
  /\ UNCHANGED <<docker, job, outbox, nextID, ctx, runners, loopVars, metricVars, call,
                 capacity>>

(* The message is acknowledged before it is handled; a failure is logged,  *)
(* but lastMessageID moves on, so that it is not delivered again.          *)
DeleteMessage ==
  /\ pc = "ack"
  /\ \/ Live /\ inbox' = {m \in inbox : m.id # msg.id}
     \/ MayFail("ack") /\ UNCHANGED inbox
  /\ lastMessageID' = msg.id
  /\ pc' = "dispatch"
  /\ UNCHANGED <<docker, job, outbox, nextID, ctx, runners, loopVars, metricVars, call,
                 capacity>>
-----------------------------------------------------------------------------
(* provisionRunner: JIT config, StartRunner (module Provisioner), AddRunner. *)

ProvisionRunner(n, ret) ==
  /\ call' = [NoCall EXCEPT !.name = n, !.ret = ret]
  /\ pc' = "jit"

GenerateJitRunnerConfig ==
  /\ pc = "jit"
  /\ \/ Live /\ pc' = "create" /\ UNCHANGED call
     \/ MayFail("jit") /\ pc' = call.ret /\ call' = NoCall
  /\ UNCHANGED <<docker, githubVars, ctx, runners, loopVars, metricVars, lastMessageID,
                 capacity>>

StartRunner ==
  /\ \/ /\ \/ ContainerCreate \/ ContainerCreateFails
           \/ ContainerStart \/ ContainerStartFails
           \/ ContainerInspect \/ ContainerInspectFails
        /\ UNCHANGED githubVars
     \/ ContainerDiscard
  /\ UNCHANGED <<ctx, runners, loopVars, metricVars, lastMessageID, capacity>>

RunnerProvisioned ==
  /\ pc = "add"
  /\ runners' = AddRunner(runners, call.name, call.id, call.ip)
  /\ pc' = call.ret
  /\ call' = NoCall
  /\ UNCHANGED <<docker, githubVars, ctx, loopVars, metricVars, lastMessageID, capacity>>
-----------------------------------------------------------------------------
(* The three event handlers. *)

HandleJobAssigned(j) ==
  /\ pc = "dispatch"
  /\ j \in msg.events.assigned
  /\ msg' = [msg EXCEPT !.events.assigned = @ \ {j}]
  /\ pending' = pending \cup {j}
  /\ handled' = handled \cup {j}
  /\ ProvisionRunner(RunnerName(ProfileOf[j], j), "dispatch")
  /\ UNCHANGED <<docker, githubVars, ctx, runners, rec, metricVars, lastMessageID, capacity>>

(* Mutant: the started events are handled before the assigned ones. *)
HandleJobStartedFirst(j, n) ==
  /\ pc = "dispatch"
  /\ <<j, n>> \in msg.events.started
  /\ msg' = [msg EXCEPT !.events.started = @ \ {<<j, n>>}]
  /\ runners' = MarkBusy(runners, n, j)
  /\ pending' = pending \ {j}
  /\ UNCHANGED <<docker, githubVars, ctx, rec, handled, metricVars, pc, call,
                 lastMessageID, capacity>>

HandleJobStarted(j, n) ==
  /\ pc = "dispatch"
  /\ msg.events.assigned = {}
  /\ <<j, n>> \in msg.events.started
  /\ msg' = [msg EXCEPT !.events.started = @ \ {<<j, n>>}]
  /\ runners' = MarkBusy(runners, n, j)
  /\ pending' = pending \ {j}
  /\ UNCHANGED <<docker, githubVars, ctx, rec, handled, metricVars, pc, call,
                 lastMessageID, capacity>>

(* Mutant: the started events are handled after the completed ones. *)
HandleJobCompletedFirst(j, n) ==
  /\ pc = "dispatch"
  /\ msg.events.assigned = {}
  /\ <<j, n>> \in msg.events.completed
  /\ msg' = [msg EXCEPT !.events.completed = @ \ {<<j, n>>}]
  /\ pending' = pending \ {j}
  /\ \/ /\ n \in RunnerNames /\ Tracked(runners, n)
        /\ runners' = MarkCompleted(runners, n)
        /\ call' = [NoCall EXCEPT !.name = n, !.id = runners[n].id]
        /\ pc' = IF Adaptive THEN "collectCPU" ELSE "stop"
     \/ /\ n \in RunnerNames => ~Tracked(runners, n)
        /\ UNCHANGED <<runners, call, pc>>
  /\ UNCHANGED <<docker, githubVars, ctx, rec, handled, metricVars, lastMessageID, capacity>>

(* Mutant: the runner provisioned for j is stopped, not the one that ran it. *)
HandleJobCompletedOwnRunner(j, n) ==
  LET own == RunnerName(ProfileOf[j], j)
  IN /\ pc = "dispatch"
     /\ msg.events.assigned = {} /\ msg.events.started = {}
     /\ <<j, n>> \in msg.events.completed
     /\ msg' = [msg EXCEPT !.events.completed = @ \ {<<j, n>>}]
     /\ pending' = pending \ {j}
     /\ IF Tracked(runners, own)
        THEN /\ runners' = MarkCompleted(runners, own)
             /\ call' = [NoCall EXCEPT !.name = own, !.id = runners[own].id]
             /\ pc' = "stop"
        ELSE UNCHANGED <<runners, call, pc>>
     /\ UNCHANGED <<docker, githubVars, ctx, rec, handled, metricVars, lastMessageID,
                    capacity>>

(* A job without a runner, or of a runner the store does not know, needs   *)
(* no clean-up; otherwise metrics are collected and the runner is stopped. *)
HandleJobCompleted(j, n) ==
  /\ pc = "dispatch"
  /\ msg.events.assigned = {} /\ msg.events.started = {}
  /\ <<j, n>> \in msg.events.completed
  /\ msg' = [msg EXCEPT !.events.completed = @ \ {<<j, n>>}]
  /\ pending' = pending \ {j}
  /\ \/ /\ n \in RunnerNames /\ Tracked(runners, n)
        /\ runners' = MarkCompleted(runners, n)
        /\ call' = [NoCall EXCEPT !.name = n, !.id = runners[n].id]
        /\ pc' = IF Adaptive THEN "collectCPU" ELSE "stop"
     \/ /\ n \in RunnerNames => ~Tracked(runners, n)
        /\ UNCHANGED <<runners, call, pc>>
  /\ UNCHANGED <<docker, githubVars, ctx, rec, handled, metricVars, lastMessageID, capacity>>

(* Collect reads the files of the cgroup with docker exec, which needs a   *)
(* running container: first the CPU time, then the memory peak.            *)
ExecRead(field) ==
  \/ /\ Live /\ Running(call.name) /\ Exists(call.name, call.id)
     /\ usage' = [usage EXCEPT ![field] = TRUE]
  \/ /\ MayFail("metrics") \/ ~Running(call.name) \/ ~Exists(call.name, call.id)
     /\ UNCHANGED usage

Collect ==
  /\ \/ pc = "collectCPU" /\ ExecRead("cpu") /\ pc' = "collectMem"
     \/ pc = "collectMem" /\ ExecRead("mem") /\ pc' = "record"
  /\ UNCHANGED <<docker, githubVars, ctx, runners, loopVars, records, call, lastMessageID,
                 capacity>>

Record ==
  /\ pc = "record"
  /\ \/ /\ usage # NoUsage
        /\ records' = records \cup
             {[jobName |-> JobName(call.name), cpu |-> usage.cpu, mem |-> usage.mem,
               ran |-> docker[call.name].job, timed |-> runners[call.name].started]}
     \/ /\ usage = NoUsage \/ "metrics" \in Faults
        /\ UNCHANGED records
  /\ usage' = NoUsage
  /\ pc' = "stop"
  /\ UNCHANGED <<docker, githubVars, ctx, runners, loopVars, call, lastMessageID, capacity>>

StopRunner ==
  /\ ContainerStop \/ ContainerRemove
  /\ UNCHANGED <<ctx, runners, loopVars, metricVars, lastMessageID, capacity>>

(* Whatever StopRunner returned, the runner is forgotten. *)
RunnerForgotten ==
  /\ pc = "forget"
  /\ runners' = Remove(runners, call.name)
  /\ pc' = "dispatch"
  /\ call' = NoCall
  /\ UNCHANGED <<docker, githubVars, ctx, loopVars, metricVars, lastMessageID, capacity>>
-----------------------------------------------------------------------------
(* reconcileRunnerCount *)

(* Mutant: the active runners are not subtracted. *)
ReconcileWholeCount ==
  /\ pc = "dispatch"
  /\ msg.events = NoEvents
  /\ \/ /\ msg.stats # NoStats /\ msg.stats > ActiveCount(runners)
        /\ rec' = [i |-> 0, deficit |-> msg.stats, left |-> pending]
        /\ pc' = "reconcile"
     \/ /\ msg.stats # NoStats => msg.stats <= ActiveCount(runners)
        /\ pc' = "poll"
        /\ UNCHANGED rec
  /\ msg' = NoMessage
  /\ UNCHANGED <<docker, githubVars, ctx, runners, pending, handled, metricVars, call,
                 lastMessageID, capacity>>

Reconcile ==
  /\ pc = "dispatch"
  /\ msg.events = NoEvents
  /\ \/ /\ msg.stats # NoStats /\ msg.stats > ActiveCount(runners)
        /\ rec' = [i |-> 0, deficit |-> msg.stats - ActiveCount(runners), left |-> pending]
        /\ pc' = "reconcile"
     \/ /\ msg.stats # NoStats => msg.stats <= ActiveCount(runners)
        /\ pc' = "poll"
        /\ UNCHANGED rec
  /\ msg' = NoMessage
  /\ UNCHANGED <<docker, githubVars, ctx, runners, pending, handled, metricVars, call,
                 lastMessageID, capacity>>

(* The next pending job, in any order; then runners for unknown jobs. *)
ReconcileRunner ==
  /\ pc = "reconcile"
  /\ rec.i < rec.deficit
  /\ \/ \E j \in rec.left :
          /\ rec' = [rec EXCEPT !.i = @ + 1, !.left = @ \ {j}]
          /\ ProvisionRunner(RunnerName(ProfileOf[j], j), "reconcile")
     \/ /\ rec.left = {}
        /\ rec' = [rec EXCEPT !.i = @ + 1]
        /\ ProvisionRunner(RunnerName(DefaultProfile, ReconcileID(rec.i)), "reconcile")
  /\ UNCHANGED <<docker, githubVars, ctx, runners, msg, pending, handled, metricVars,
                 lastMessageID, capacity>>

ReconcileDone ==
  /\ pc = "reconcile"
  /\ rec.i = rec.deficit
  /\ rec' = NoReconcile
  /\ pc' = "poll"
  /\ UNCHANGED <<docker, githubVars, ctx, runners, msg, pending, handled, metricVars, call,
                 lastMessageID, capacity>>
-----------------------------------------------------------------------------
ScalerStep ==
  \/ RunReturns \/ Poll \/ GetMessage \/ GetMessageNothing \/ DeleteMessage
  \/ GenerateJitRunnerConfig \/ StartRunner \/ RunnerProvisioned
  \/ \E j \in Jobs : HandleJobAssigned(j)
  \/ \E j \in Jobs, n \in RunnerNames : HandleJobStarted(j, n)
  \/ \E j \in Jobs, n \in RunnerNames \cup {NoRunner} : HandleJobCompleted(j, n)
  \/ Collect \/ Record \/ StopRunner \/ RunnerForgotten
  \/ Reconcile \/ ReconcileRunner \/ ReconcileDone

(* GitHub and the runners; nothing of the scaler changes. *)
Environment ==
  /\ \/ \E j \in Jobs : AssignJob(j) \/ CancelJob(j)
     \/ MakeMessage
     \/ \E n \in RunnerNames, j \in Jobs : RunnerTakesJob(n, j)
     \/ \E n \in RunnerNames :
          RunnerFinishesJob(n) \/ RunnerKilled(n) \/ GraceEnds(n) \/ RunnerQuits(n)
  /\ UNCHANGED <<ctx, scalerVars>>

(* SIGINT or SIGTERM: main cancels the context of Run. *)
CancelContext ==
  /\ "shutdown" \in Faults /\ Live
  /\ ctx' = "cancelled"
  /\ UNCHANGED <<docker, githubVars, scalerVars>>

Next == ScalerStep \/ Environment \/ CancelContext

Spec == Init /\ [][Next]_vars

(***************************************************************************)
(* Fairness.  The goroutine runs, and a poll that finds a message does not *)
(* fail for ever; GitHub sends what it has to tell, gives waiting jobs to  *)
(* idle runners, and assigns a job that finds capacity again and again     *)
(* (capacity is announced only while a poll is outstanding); a job ends    *)
(* and so does "sleep 15".  Nothing makes a queued job be cancelled, a     *)
(* runner die or the context end.                                          *)
(***************************************************************************)
FairSpec ==
  /\ Spec
  /\ WF_vars(ScalerStep) /\ SF_vars(GetMessage)
  /\ WF_vars(MakeMessage /\ UNCHANGED <<ctx, scalerVars>>)
  /\ \A j \in Jobs :
       /\ SF_vars(AssignJob(j) /\ UNCHANGED <<ctx, scalerVars>>)
       /\ WF_vars(\E n \in RunnerNames :
                    RunnerTakesJob(n, j) /\ UNCHANGED <<ctx, scalerVars>>)
  /\ \A n \in RunnerNames :
       /\ WF_vars(RunnerFinishesJob(n) /\ UNCHANGED <<ctx, scalerVars>>)
       /\ WF_vars(GraceEnds(n) /\ UNCHANGED <<ctx, scalerVars>>)
-----------------------------------------------------------------------------
(* Every variable has its type, and a call in progress names a runner. *)
TypeOK ==
  /\ docker \in [RunnerNames -> Container]
  /\ job \in [Jobs -> JobState]
  /\ outbox \in Events
  /\ inbox \subseteq Message
  /\ nextID \in Nat \ {0} /\ lastMessageID \in Nat /\ capacity \in 0..MaxRunners
  /\ pc \in PC /\ ctx \in {"live", "cancelled"} /\ call \in Call
  /\ pc \in CallPC => call.name \in RunnerNames
  /\ runners \in [RunnerNames -> RunnerInfo]
  /\ msg \in Message
  /\ pending \subseteq Jobs /\ handled \subseteq Jobs
  /\ rec \in [i : Nat, deficit : 0..Cardinality(Jobs), left : SUBSET Jobs]
  /\ usage \in [cpu : BOOLEAN, mem : BOOLEAN]
  /\ records \subseteq MetricsRecord

(* The events that the scaler has not handled yet, wherever they are. *)
OnTheWay(e, kind) ==
  \/ e \in outbox[kind]
  \/ \E m \in Undelivered : e \in m.events[kind]
  \/ e \in msg.events[kind]

(* The places that hold the JobAssigned of j.  A message that is being     *)
(* acknowledged is still GitHub's too, and counts once.                    *)
AssignmentCopies(j) ==
  (IF j \in outbox.assigned THEN 1 ELSE 0)
    + Cardinality({m \in Undelivered : j \in m.events.assigned})
    + (IF pc # "ack" /\ j \in msg.events.assigned THEN 1 ELSE 0)
    + (IF j \in handled THEN 1 ELSE 0)

(* No job assignment is lost and none is handled twice, although the       *)
(* message is acknowledged before it is handled, polls and                 *)
(* acknowledgements fail, and an unacknowledged message stays with GitHub. *)
HandledExactlyOnce ==
  \A j \in Jobs : AssignmentCopies(j) = IF job[j] = "queued" THEN 0 ELSE 1

(* pendingJobs is what reconcileRunnerCount takes its profiles from: it    *)
(* holds every handled job that waits for a runner, and a job that does    *)
(* not wait any more only while the event that says so is on its way.      *)
PendingAccurate ==
  \A j \in Jobs :
    /\ j \in handled /\ job[j] = "assigned" => j \in pending
    /\ j \in pending =>
         \/ job[j] = "assigned"
         \/ \E n \in RunnerNames : OnTheWay(<<j, n>>, "started")
         \/ \E n \in RunnerNames \cup {NoRunner} : OnTheWay(<<j, n>>, "completed")

(* An entry of the store names a container that exists, whatever call      *)
(* failed before; only between the removal of the container and            *)
(* store.Remove is it behind.  So a name in the store is never given to a  *)
(* second container, and StopRunner never acts on another's container.     *)
StoreMatchesDocker ==
  \A n \in RunnerNames :
    Tracked(runners, n) =>
      \/ Exists(n, runners[n].id)
      \/ pc = "forget" /\ n = call.name

(* When all events of a message are handled, the store counts as many      *)
(* active runners as GitHub counted jobs: as long as nothing fails,        *)
(* reconciliation never starts a runner, in whatever order the runners     *)
(* took the jobs and the events came.                                      *)
StatisticsAgree ==
  pc = "dispatch" /\ msg.events = NoEvents => msg.stats = ActiveCount(runners)

(* GitHub's count never exceeds the store's: no runner is started twice    *)
(* for a job, although cancelled jobs and killed runners leave the two     *)
(* counts apart.                                                           *)
NoDeficit ==
  pc = "dispatch" /\ msg.events = NoEvents /\ msg.stats # NoStats
    => msg.stats <= ActiveCount(runners)

(* The handled jobs whose completion was not handled. *)
Outstanding ==
  {j \in handled :
     job[j] = "done" =>
       \E n \in RunnerNames \cup {NoRunner} : OnTheWay(<<j, n>>, "completed")}

(* Reconciliation looks at pending jobs and counts, not at max_runners,    *)
(* and tries again in every message what failed before.  Still there are   *)
(* never more active runners than jobs to run: a retry and a late          *)
(* statistic never start a second runner for a job.                        *)
NoSurplus == ActiveCount(runners) <= Cardinality(Outstanding)

(* There are never more containers than cfg.Runner.MaxRunners, although    *)
(* the capacity is computed before the poll and jobs are assigned in it.   *)
CapacityRespected ==
  Cardinality({n \in RunnerNames : docker[n].state # "none"}) <= MaxRunners

(* Every container is known to the store or to the call in progress, so    *)
(* that somebody will remove it.                                           *)
NoUntrackedContainer ==
  \A n \in RunnerNames :
    docker[n].state # "none" => Tracked(runners, n) \/ n = call.name

(* A container that can be given a job, or has one, is in the store or in  *)
(* the call in progress, so that its JobCompleted will find it, although   *)
(* failed starts leave containers behind and the store forgets runners     *)
(* that could neither be stopped nor removed.                              *)
ForgottenCannotWork ==
  Live => \A n \in RunnerNames :
            docker[n].state \in {"idle", "busy"} => Tracked(runners, n) \/ n = call.name

(* "On job completion, the container is stopped and removed": back at the  *)
(* poll, a container whose job is done is there only when its JobCompleted *)
(* has not arrived.                                                        *)
CompletedContainerRemoved ==
  pc = "poll" =>
    \A n \in RunnerNames :
      docker[n].job # NoJob /\ job[docker[n].job] = "done"
        => OnTheWay(<<docker[n].job, n>>, "completed")

(* A row of the metrics database is about a job that ran, and its duration *)
(* counts from the handling of the JobStarted of that very job: never from *)
(* Go's zero time, nor from the start of another job under that name.  (It *)
(* is not the job's wall clock: both events may be handled late, or in one *)
(* message; module Adjuster says what becomes of the figures.)             *)
RecordsTimed == \A r \in records : r.ran # NoJob /\ r.timed = r.ran

(* The scaler never stops or removes a container that executes a job.      *)
NeverKillsRunningJob ==
  [][ScalerStep => \A n \in RunnerNames :
                     docker[n].state = "busy" => docker'[n] = docker[n]]_vars

(* The store implements the abstract life of a runner. *)
Abstract == INSTANCE RunnerLifecycle
              WITH Names <- RunnerNames, status <- [n \in RunnerNames |-> runners[n].status]

(* Every entry of the store moves from idle to busy to completed and       *)
(* disappears; no step is skipped, repeated or undone by an event that     *)
(* comes late, and AddRunner never overwrites an entry.                    *)
FollowsLifecycle == Abstract!Lifecycle

(* Every job is done in the end, also when there are more jobs than        *)
(* MaxRunners and the capacity has to come back, unless Run is told to     *)
(* stop.                                                                   *)
EveryJobCompletes == \A j \in Jobs : <>(job[j] = "done" \/ ~Live)

(* A handled job does not wait for ever: it gets a runner. *)
AssignedJobGetsRunner ==
  \A j \in Jobs : j \in handled ~> job[j] \in {"running", "done"}

(* No container stays, unless Run is told to stop. *)
ContainersGoAway ==
  \A n \in RunnerNames : docker[n].state # "none" ~> docker[n].state = "none" \/ ~Live

(* Run returns after the context is cancelled, whatever it was doing. *)
ShutdownReturns == ~Live ~> pc = "returned"

(* "Because the JobDisplayName matches the phase-1 history, the adjuster   *)
(* overrides the baseline" (design document, line 251): a row is filed     *)
(* under the name of the job that ran.                                     *)
RecordsOfOwnJob == \A r \in records : r.jobName = r.ran
=============================================================================
