------------------------------- MODULE Docker -------------------------------
(***************************************************************************)
(* The Docker daemon, as far as internal/runner and internal/metrics use   *)
(* it: containers with unique names, one address on the bridge network     *)
(* while they run, and the runner process inside (its command is           *)
(* "run.sh; sleep 15").  External: modelled from the calls the code makes. *)
(*                                                                         *)
(*   none      no container has this name                                  *)
(*   created   ContainerCreate returned, not started                       *)
(*   idle      running, run.sh waits for a job                             *)
(*   busy      running, run.sh executes a job                              *)
(*   grace     running, run.sh has ended, "sleep 15" is left               *)
(*   exited    stopped, its address is released, its name is not           *)
(*                                                                         *)
(* docker[n] is the container now called n; id counts the containers that  *)
(* have had that name, so <<n, id>> identifies a container for ever.       *)
(***************************************************************************)
EXTENDS RunnerStore

VARIABLE docker

ContainerState == {"none", "created", "idle", "busy", "grace", "exited"}

Container ==
  {c \in [state : ContainerState, id : Nat, ip : IPs \cup {NoIP}, job : Jobs \cup {NoJob}] :
     c.state = "busy" => c.job \in Jobs}

NoContainer == [state |-> "none", id |-> 0, ip |-> NoIP, job |-> NoJob]

DockerInit == docker = [n \in RunnerNames |-> NoContainer]

Exists(n, id) == docker[n].state # "none" /\ docker[n].id = id

Running(n) == docker[n].state \in {"idle", "busy", "grace"}

FreeIPs == IPs \ {docker[n].ip : n \in RunnerNames}

(* ContainerCreate refuses a name that is in use. *)
CreateContainer(n) ==
  /\ docker[n].state = "none"
  /\ docker' = [docker EXCEPT ![n] = [@ EXCEPT !.state = "created",
                                                !.id = docker[n].id + 1]]

StartContainer(n) ==
  /\ docker[n].state = "created"
  /\ \E ip \in FreeIPs :
       docker' = [docker EXCEPT ![n] = [@ EXCEPT !.state = "idle", !.ip = ip]]

(* ContainerStop kills the processes and releases the address. *)
StopContainer(n, id) ==
  /\ Exists(n, id)
  /\ docker' = IF Running(n)
               THEN [docker EXCEPT ![n] = [@ EXCEPT !.state = "exited", !.ip = NoIP]]
               ELSE docker

(* ContainerRemove with Force, of a running container too. *)
RemoveContainer(n, id) ==
  /\ Exists(n, id)
  /\ docker' = [docker EXCEPT ![n] = [@ EXCEPT !.state = "none", !.ip = NoIP, !.job = NoJob]]
=============================================================================
