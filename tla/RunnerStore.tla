---------------------------- MODULE RunnerStore ----------------------------
(***************************************************************************)
(* internal/state: the table of runners shared by the scaler and the       *)
(* proxy.  Every method of the Go type takes the store's mutex, so each    *)
(* operator below is one atomic step on a value of the table.              *)
(*                                                                         *)
(* The Go map has no entry for an unknown name; here that entry is Absent. *)
(* RunnerInfo's Profile, JobID and JobName are functions of the runner's   *)
(* name ("runner-<profile>-<jobID>") and are not repeated in the entry.    *)
(***************************************************************************)
EXTENDS Naturals, FiniteSets

CONSTANTS RunnerNames,  \* the names a runner can be given
          IPs,          \* addresses of the bridge network
          NoIP,         \* the empty ContainerIP
          Jobs,         \* job IDs of the workflow jobs
          NoJob

RunnerStatus == {"idle", "busy", "completed"}

(* started is the job whose JobStarted set StartedAt (Go's zero time until *)
(* then).                                                                  *)
RunnerInfo == [status : RunnerStatus \cup {"absent"}, id : Nat,
               ip : IPs \cup {NoIP}, started : Jobs \cup {NoJob}]

Absent == [status |-> "absent", id |-> 0, ip |-> NoIP, started |-> NoJob]

NewStore == [n \in RunnerNames |-> Absent]

Tracked(store, n) == store[n].status # "absent"

(* AddRunner overwrites whatever entry the name had. *)
AddRunner(store, n, id, ip) ==
  [store EXCEPT ![n] = [status |-> "idle", id |-> id, ip |-> ip, started |-> NoJob]]

MarkBusy(store, n, j) ==
  IF Tracked(store, n)
  THEN [store EXCEPT ![n].status = "busy", ![n].started = j]
  ELSE store

MarkCompleted(store, n) ==
  IF Tracked(store, n) THEN [store EXCEPT ![n].status = "completed"] ELSE store

Remove(store, n) == [store EXCEPT ![n] = Absent]

(* Mutant: runners that wait for a job are not counted. *)
ActiveRunnersBusyOnly(store) == {n \in RunnerNames : store[n].status = "busy"}

ActiveRunners(store) == {n \in RunnerNames : store[n].status \in {"idle", "busy"}}

ActiveCount(store) == Cardinality(ActiveRunners(store))
=============================================================================
