------------------------------ MODULE Gateway ------------------------------
(***************************************************************************)
(* cmd/all and cmd/listener: the processes that run the scaler, one after  *)
(* the other, on the same Docker host and the same scale set.  main is the *)
(* main goroutine: it sets up the scale set and its message session,       *)
(* starts Scaler.Run and shuts everything down on a signal.  A process may *)
(* crash at any point; what it kept in memory is gone then, its containers *)
(* and what GitHub holds for it are not.                                   *)
(*                                                                         *)
(* The goroutine of Run is that of module Scaler; there is none while pc   *)
(* is "returned".  Both commands share run() up to three points: cmd/all   *)
(* looks at signals only when it serves and cleans up its containers,      *)
(* cmd/listener cancels the context at once and leaves them.               *)
(***************************************************************************)
EXTENDS Scaler

CONSTANT MaxStarts  \* bound: how often a process is started

VARIABLES main,         \* where main is
          command,      \* the command of this installation
          starts,       \* processes started so far
          signalled,    \* SIGINT or SIGTERM has arrived
          setID,        \* the id of the scale set that main has in scaleSet
          cleanup,      \* containers that StopAll has still to stop
          scaleSet,     \* GitHub's: the start that created the set, 0 when there is none
          session,      \* GitHub's: the set has an open message session
          abandoned,    \* history: a process went and left that session open
          inherited,    \* history: the containers that were there when main started
          interrupted   \* history: the runner being provisioned at the cancellation

mainVars == <<main, command, starts, signalled, setID, cleanup>>
setVars == <<scaleSet, session, abandoned>>
historyVars == <<inherited, interrupted>>
gatewayVars == <<vars, mainVars, setVars, historyVars>>

ASSUME GatewayAssumption == MaxStarts \in Nat

(* The calls of main, in their order. *)
StartUp == {"group", "scaleset", "session", "recreate", "create", "session2"}
MainPC == StartUp \cup {"off", "setup", "serve", "snapshot", "stop", "close"}

ContainerIDs == RunnerNames \X Nat

Present == {<<n, docker[n].id>> : n \in {m \in RunnerNames : docker[m].state # "none"}}

GatewayInit ==
  /\ DockerInit /\ GitHubInit
  /\ pc = "returned" /\ ctx = "live" /\ call = NoCall
  /\ runners = NewStore /\ msg = NoMessage /\ pending = {} /\ handled = {}
  /\ rec = NoReconcile /\ usage = NoUsage /\ records = {}
  /\ main = "off" /\ command \in {"all", "listener"} /\ starts = 0
  /\ signalled = FALSE /\ setID = 0 /\ cleanup = {}
  /\ scaleSet = 0 /\ session = FALSE /\ abandoned = FALSE
  /\ inherited = {} /\ interrupted = NoRunner

(* The process is gone, with everything it kept in memory. *)
ProcessEnds ==
  /\ pc' = "returned" /\ ctx' = "live" /\ call' = NoCall
  /\ runners' = NewStore /\ msg' = NoMessage /\ pending' = {} /\ handled' = {}
  /\ rec' = NoReconcile /\ usage' = NoUsage
  /\ lastMessageID' = 0 /\ capacity' = 0
  /\ main' = "off" /\ signalled' = FALSE /\ setID' = 0 /\ cleanup' = {}
  /\ inherited' = {} /\ interrupted' = NoRunner
  /\ UNCHANGED <<docker, githubVars, records, command, starts>>

Goto(next) ==
  /\ main' = next
  /\ UNCHANGED <<command, starts, signalled, cleanup, historyVars>>
-----------------------------------------------------------------------------
(* Start-up. *)

Launch ==
  /\ main = "off" /\ starts < MaxStarts
  /\ main' = "group"
  /\ starts' = starts + 1
  /\ inherited' = Present
  /\ UNCHANGED <<vars, setVars, command, signalled, setID, cleanup, interrupted>>

GetRunnerGroup ==
  /\ main = "group" /\ Live
  /\ Goto("scaleset")
  /\ UNCHANGED <<vars, setID, setVars>>

GetOrCreateScaleSet ==
  /\ main = "scaleset" /\ Live
  /\ scaleSet' = IF scaleSet = 0 THEN starts ELSE scaleSet
  /\ setID' = scaleSet'
  /\ Goto("session")
  /\ UNCHANGED <<vars, session, abandoned>>

(* 409 Conflict when the session of an earlier process is still open; but  *)
(* any error whose text contains "409" or "Conflict" is taken for that.    *)
MessageSessionClient ==
  /\ main \in {"session", "session2"} /\ Live
  /\ \/ /\ ~session
        /\ session' = TRUE /\ abandoned' = FALSE
        /\ Goto("setup")
     \/ /\ main = "session"
        /\ session \/ "conflict" \in Faults
        /\ Goto("recreate")
        /\ UNCHANGED <<session, abandoned>>
  /\ UNCHANGED <<vars, setID, scaleSet>>

(* External: with the scale set go its session, its messages and its       *)
(* runners; a running job ends, a job that waited for a runner is queued.  *)
ScaleSetDeleted ==
  /\ scaleSet' = 0 /\ session' = FALSE /\ abandoned' = FALSE
  /\ inbox' = {} /\ outbox' = NoEvents
  /\ docker' = [n \in RunnerNames |->
                  IF docker[n].state \in {"idle", "busy"}
                  THEN [docker[n] EXCEPT !.state = "grace"] ELSE docker[n]]
  /\ job' = [j \in Jobs |-> CASE job[j] = "assigned" -> "queued"
                              [] job[j] = "running" -> "done"
                              [] OTHER -> job[j]]
  /\ UNCHANGED nextID

(* The error of the deletion is ignored. *)
DeleteStaleScaleSet ==
  /\ main = "recreate"
  /\ \/ Live /\ ScaleSetDeleted
     \/ MayFail("startup") /\ UNCHANGED <<docker, githubVars, setVars>>
  /\ Goto("create")
  /\ UNCHANGED <<ctx, scalerVars, setID>>

(* Mutant: scaleSet, err := in the inner scope. *)
RecreateScaleSetShadowed ==
  /\ main = "create" /\ Live /\ scaleSet = 0
  /\ scaleSet' = starts
  /\ Goto("session2")
  /\ UNCHANGED <<vars, setID, session, abandoned>>

RecreateScaleSet ==
  /\ main = "create" /\ Live /\ scaleSet = 0
  /\ scaleSet' = starts /\ setID' = starts
  /\ Goto("session2")
  /\ UNCHANGED <<vars, session, abandoned>>

(* A call fails, or the name of the set is still taken; run returns.  A    *)
(* lost answer is a crash after the call.                                  *)
StartUpFails ==
  /\ main \in StartUp
  /\ MayFail("startup") \/ (main = "create" /\ scaleSet # 0)
  /\ ProcessEnds
  /\ UNCHANGED setVars

(* Mutant: os.Exit, which runs no deferred calls. *)
SetUpFailsExits ==
  /\ main = "setup" /\ MayFail("setup")
  /\ ProcessEnds
  /\ UNCHANGED setVars

(* The session is closed, since its Close is deferred already. *)
SetUpFails ==
  /\ main = "setup" /\ MayFail("setup")
  /\ Goto("close")
  /\ UNCHANGED <<vars, setID, setVars>>

(* runner.New pulls the image and makes the network, NewStore opens the    *)
(* database; then Run is started.                                          *)
StartScaler ==
  /\ main = "setup"
  /\ Live
  /\ pc' = "poll"
  /\ Goto("serve")
  /\ UNCHANGED <<docker, githubVars, ctx, call, runners, loopVars, metricVars,
                 lastMessageID, capacity, setID, setVars>>
-----------------------------------------------------------------------------
(* The end of a process. *)

Signal ==
  /\ main # "off" /\ ~signalled
  /\ signalled' = TRUE
  /\ ctx' = IF command = "listener" THEN "cancelled" ELSE ctx
  /\ UNCHANGED <<docker, githubVars, scalerVars, main, command, starts, setID, cleanup,
                 setVars, historyVars>>

InProvision == pc \in {"jit", "create", "start", "discard", "inspect", "add"}

(* Mutant: cancel is only deferred. *)
ShutdownWithoutCancel ==
  /\ main = "serve" /\ command = "all" /\ signalled
  /\ main' = "snapshot"
  /\ interrupted' = IF InProvision THEN call.name ELSE NoRunner
  /\ UNCHANGED <<vars, command, starts, signalled, setID, cleanup, setVars, inherited>>

(* The combined command: the select of main and cancel.  Run never returns *)
(* before that.  Closing the proxy is no step of this model.               *)
Shutdown ==
  /\ main = "serve" /\ command = "all" /\ signalled
  /\ main' = "snapshot"
  /\ ctx' = "cancelled"
  /\ interrupted' = IF InProvision THEN call.name ELSE NoRunner
  /\ UNCHANGED <<docker, githubVars, scalerVars, command, starts, signalled, setID,
                 cleanup, setVars, inherited>>

(* store.All: the goroutine of Run goes on meanwhile. *)
StoreAll ==
  /\ main = "snapshot"
  /\ main' = "stop"
  /\ cleanup' = {<<n, runners[n].id>> : n \in {m \in RunnerNames : Tracked(runners, m)}}
  /\ UNCHANGED <<vars, command, starts, signalled, setID, setVars, historyVars>>

(* StopRunner for the next container of StopAll, on a context of its own;  *)
(* the removal is forced, errors are logged.                               *)
StopAll(n, id) ==
  /\ main = "stop"
  /\ \/ RemoveContainer(n, id) /\ JobStopped(n)
     \/ "remove" \in Faults /\ StopContainer(n, id) /\ JobStopped(n)
     \/ /\ {"stop", "remove"} \subseteq Faults \/ ~Exists(n, id)
        /\ UNCHANGED <<docker, job, outbox>>
  /\ cleanup' = cleanup \ {<<n, id>>}
  /\ UNCHANGED <<inbox, nextID, ctx, scalerVars, main, command, starts, signalled, setID,
                 setVars, historyVars>>

(* The listener returns what Run returned. *)
ListenerReturns ==
  /\ main = "serve" /\ command = "listener" /\ pc = "returned"
  /\ Goto("close")
  /\ UNCHANGED <<vars, setID, setVars>>

StoppedAll == main = "stop" /\ cleanup = {}

(* The deferred Close; its error is ignored. *)
CloseSession ==
  /\ main = "close" \/ StoppedAll
  /\ \/ session' = FALSE /\ UNCHANGED abandoned
     \/ "close" \in Faults /\ abandoned' = TRUE /\ UNCHANGED session
  /\ ProcessEnds
  /\ UNCHANGED scaleSet

Crash ==
  /\ "crash" \in Faults /\ main # "off"
  /\ abandoned' = session
  /\ ProcessEnds
  /\ UNCHANGED <<scaleSet, session>>
-----------------------------------------------------------------------------
MainStep ==
  \/ GetRunnerGroup \/ GetOrCreateScaleSet \/ MessageSessionClient
  \/ DeleteStaleScaleSet \/ RecreateScaleSet \/ StartUpFails
  \/ StartScaler \/ SetUpFails
  \/ Shutdown \/ StoreAll \/ \E c \in cleanup : StopAll(c[1], c[2])
  \/ ListenerReturns \/ CloseSession

GatewayNext ==
  \/ Launch \/ MainStep \/ Signal \/ Crash
  \/ (ScalerStep \/ Environment) /\ UNCHANGED <<mainVars, setVars, historyVars>>

GatewaySpec == GatewayInit /\ [][GatewayNext]_gatewayVars

-----------------------------------------------------------------------------
(* Every variable has its type, those of the scaler too. *)
GatewayTypeOK ==
  /\ TypeOK
  /\ main \in MainPC /\ command \in {"all", "listener"} /\ starts \in 0..MaxStarts
  /\ signalled \in BOOLEAN /\ setID \in Nat /\ cleanup \subseteq ContainerIDs
  /\ scaleSet \in Nat /\ session \in BOOLEAN /\ abandoned \in BOOLEAN
  /\ inherited \subseteq ContainerIDs /\ interrupted \in RunnerNames \cup {NoRunner}

(* JIT configurations are requested for the scale set that exists, also    *)
(* after a stale session made main delete it and create another.           *)
CurrentScaleSet == pc \in PC \ {"returned"} => setID = scaleSet /\ session

(* The deletion of a scale set ends its jobs.  A session that is open then *)
(* is one with which an earlier process crashed or that it failed to       *)
(* close: a process that ended by a signal or a failed start-up never      *)
(* costs the next one its scale set.  (When no session is open, an error   *)
(* was misread for a conflict.)                                            *)
DeletesOnlyAbandoned ==
  [][DeleteStaleScaleSet /\ session => abandoned]_gatewayVars

(* The runner provisioned for j.  The properties below leave out the       *)
(* runners "reconcile-<i>": every process gives these names again, and the *)
(* JobCompleted of an earlier process's runner, when it comes late, makes  *)
(* the scaler stop the new one, or forget it when the context is done.     *)
OwnRunner(j) == RunnerName(ProfileOf[j], j)

(* "Cleanup running containers" (cmd/all): once StopAll is done, no        *)
(* container of this process can run a job any more, but the one whose     *)
(* provisioning the cancellation interrupted, whatever the goroutine of    *)
(* Run did while main took the list and worked through it.                 *)
CleanedUp ==
  StoppedAll =>
    \A j \in Jobs :
      LET n == OwnRunner(j)
      IN docker[n].state \in {"created", "idle", "busy"}
           => <<n, docker[n].id>> \in inherited \/ n = interrupted

(* A running job ends by itself, by the clean-up of the combined command   *)
(* or with its scale set.  In particular the goroutine of Run never stops  *)
(* a container under its job, although the runner names and the messages   *)
(* of an earlier process are still around.                                 *)
JobsSurviveRestart ==
  [][\A j \in Jobs :
       LET n == OwnRunner(j)
       IN docker[n].state = "busy"
            => \/ docker'[n] = docker[n] \/ RunnerFinishesJob(n) \/ RunnerKilled(n)
               \/ StopAll(n, docker[n].id) \/ DeleteStaleScaleSet]_gatewayVars
=============================================================================
