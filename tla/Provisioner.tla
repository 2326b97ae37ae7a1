---------------------------- MODULE Provisioner ----------------------------
(***************************************************************************)
(* internal/runner: the Docker calls of StartRunner and StopRunner, one    *)
(* action per call and outcome, run by the goroutine of the scaler.        *)
(* pc is that goroutine's program counter, call the arguments and locals   *)
(* of the method it is in.  A call on a cancelled context fails.  What a   *)
(* stop or a removal does to a running job is GitHub's (JobStopped).       *)
(*                                                                         *)
(* A profile whose CPUs or memory do not parse fails before the first call *)
(* and leaves nothing behind: it is the failure without effect of          *)
(* ContainerCreate.                                                        *)
(***************************************************************************)
EXTENDS GitHubService

VARIABLES pc, ctx, call

(* ret is where the scaler goes on after a failure, or after AddRunner. *)
Call == [name : RunnerNames \cup {NoRunner}, id : Nat, ip : IPs \cup {NoIP},
         ret : {"dispatch", "reconcile"}]

NoCall == [name |-> NoRunner, id |-> 0, ip |-> NoIP, ret |-> "dispatch"]

Live == ctx = "live"

MayFail(fault) == fault \in Faults \/ ~Live
-----------------------------------------------------------------------------
(* StartRunner: create, start, inspect; discard after a failed start. *)

ContainerCreate ==
  /\ pc = "create"
  /\ Live
  /\ CreateContainer(call.name)
  /\ call' = [call EXCEPT !.id = docker[call.name].id + 1]
  /\ pc' = "start"

(* Mutant: the container in the way is removed. *)
ContainerCreateReplaces ==
  /\ pc = "create"
  /\ MayFail("create") \/ docker[call.name].state # "none"
  /\ RemoveContainer(call.name, docker[call.name].id)
  /\ pc' = call.ret
  /\ call' = NoCall

(* A name in use, or a lost answer: the container may exist all the same.  *)
ContainerCreateFails ==
  /\ pc = "create"
  /\ \/ MayFail("create") /\ CreateContainer(call.name)
     \/ (MayFail("create") \/ docker[call.name].state # "none") /\ UNCHANGED docker
  /\ pc' = call.ret
  /\ call' = NoCall

ContainerStart ==
  /\ pc = "start"
  /\ Live
  /\ StartContainer(call.name)
  /\ pc' = "inspect"
  /\ UNCHANGED call

(* The start fails, or only its answer is lost: then the container runs,   *)
(* and may be given a job before it is discarded.                          *)
ContainerStartFails ==
  /\ pc = "start"
  /\ \/ (MayFail("start") \/ FreeIPs = {}) /\ UNCHANGED docker
     \/ MayFail("startlost") /\ StartContainer(call.name)
  /\ pc' = "discard"
  /\ UNCHANGED call

(* The clean-up of the failed start, forced; its error is ignored. *)
ContainerDiscard ==
  /\ pc = "discard"
  /\ \/ Live /\ RemoveContainer(call.name, call.id) /\ JobStopped(call.name)
     \/ MayFail("cleanup") /\ UNCHANGED <<docker, job, outbox>>
  /\ pc' = call.ret
  /\ call' = NoCall
  /\ UNCHANGED <<inbox, nextID>>

(* Mutant: the address is read of a network the container is not in. *)
ContainerInspectNoAddress ==
  /\ pc = "inspect"
  /\ Live
  /\ pc' = "add"
  /\ UNCHANGED <<docker, call>>

ContainerInspect ==
  /\ pc = "inspect"
  /\ Live
  /\ call' = [call EXCEPT !.ip = docker[call.name].ip]
  /\ pc' = "add"
  /\ UNCHANGED docker

(* StartRunner returns the error; the container keeps running. *)
ContainerInspectFails ==
  /\ pc = "inspect"
  /\ MayFail("inspect")
  /\ pc' = call.ret
  /\ call' = NoCall
  /\ UNCHANGED docker
-----------------------------------------------------------------------------
(* StopRunner: stop, then remove; a failed stop is only logged. *)

(* Mutant: StopRunner returns after ContainerStop. *)
ContainerStopOnly ==
  /\ pc = "stop"
  /\ Exists(call.name, call.id)
  /\ StopContainer(call.name, call.id) /\ JobStopped(call.name)
  /\ pc' = "forget"
  /\ UNCHANGED <<inbox, nextID, call>>

ContainerStop ==
  /\ pc = "stop"
  /\ \/ Live /\ StopContainer(call.name, call.id) /\ JobStopped(call.name)
     \/ /\ MayFail("stop") \/ ~Exists(call.name, call.id)
        /\ UNCHANGED <<docker, job, outbox>>
  /\ pc' = "remove"
  /\ UNCHANGED <<inbox, nextID, call>>

ContainerRemove ==
  /\ pc = "remove"
  /\ \/ Live /\ RemoveContainer(call.name, call.id) /\ JobStopped(call.name)
     \/ /\ MayFail("remove") \/ ~Exists(call.name, call.id)
        /\ UNCHANGED <<docker, job, outbox>>
  /\ pc' = "forget"
  /\ UNCHANGED <<inbox, nextID, call>>
=============================================================================
