--------------------------- MODULE GitHubService ---------------------------
(***************************************************************************)
(* GitHub's scale set service and the runner processes that talk to it.    *)
(* External: modelled from how internal/scaler uses the session client and *)
(* from what it says of it:                                                *)
(*  - a poll announces a capacity, GitHub assigns at most so many jobs     *)
(*    while the poll is outstanding;                                       *)
(*  - a message carries all events since the previous one and the          *)
(*    statistics of the moment it is made; it is kept until it is deleted; *)
(*  - any idle runner may be given any assigned job ("JIT configs don't    *)
(*    lock runners to specific jobs").                                     *)
(* The arrays of a message are sets here: the scaler takes their elements  *)
(* in any order.                                                           *)
(***************************************************************************)
EXTENDS Docker

CONSTANTS NoRunner,   \* the empty RunnerName of a job that never ran
          NoStats,    \* a message without statistics
          Faults,     \* the failures that may happen
          MaxWaiting  \* bound: messages GitHub holds that were not delivered yet

VARIABLES job,       \* the life of each job
          outbox,    \* events of which no message was made yet
          inbox,     \* messages not deleted yet
          nextID,    \* id of the next message
          capacity,  \* announced by the outstanding poll, 0 when there is none
          lastMessageID \* the last message the scaler received (a local of Run)

githubVars == <<job, outbox, inbox, nextID>>

JobState == {"queued", "assigned", "running", "done"}

Events == [assigned : SUBSET Jobs,
           started : SUBSET (Jobs \X RunnerNames),
           completed : SUBSET (Jobs \X (RunnerNames \cup {NoRunner}))]

Message == [id : Nat, events : Events, stats : 0..Cardinality(Jobs) \cup {NoStats}]

NoEvents == [assigned |-> {}, started |-> {}, completed |-> {}]

NoMessage == [id |-> 0, events |-> NoEvents, stats |-> NoStats]

GitHubInit ==
  /\ job = [j \in Jobs |-> "queued"]
  /\ outbox = NoEvents
  /\ inbox = {}
  /\ nextID = 1
  /\ capacity = 0
  /\ lastMessageID = 0

(* GetMessage(lastMessageID) returns the oldest message after that one. *)
Undelivered == {m \in inbox : m.id > lastMessageID}

UndeliveredAssigned == outbox.assigned \cup UNION {m.events.assigned : m \in Undelivered}

(* Statistics.TotalAssignedJobs *)
TotalAssignedJobs == Cardinality({j \in Jobs : job[j] \in {"assigned", "running"}})
-----------------------------------------------------------------------------
AssignJob(j) ==
  /\ job[j] = "queued"
  /\ Cardinality(UndeliveredAssigned) < capacity
  /\ job' = [job EXCEPT ![j] = "assigned"]
  /\ outbox' = [outbox EXCEPT !.assigned = @ \cup {j}]
  /\ UNCHANGED <<docker, inbox, nextID>>

(* A job that is cancelled before a runner has it completes without one. *)
CancelJob(j) ==
  /\ "canceljob" \in Faults
  /\ job[j] = "assigned"
  /\ job' = [job EXCEPT ![j] = "done"]
  /\ outbox' = [outbox EXCEPT !.completed = @ \cup {<<j, NoRunner>>}]
  /\ UNCHANGED <<docker, inbox, nextID>>

MakeMessage ==
  /\ outbox # NoEvents
  /\ Cardinality(Undelivered) < MaxWaiting
  /\ \E stats \in {TotalAssignedJobs}
                  \cup (IF "nostats" \in Faults THEN {NoStats} ELSE {}) :
       inbox' = inbox \cup {[id |-> nextID, events |-> outbox, stats |-> stats]}
  /\ nextID' = nextID + 1
  /\ outbox' = NoEvents
  /\ UNCHANGED <<docker, job>>

RunnerTakesJob(n, j) ==
  /\ docker[n].state = "idle"
  /\ job[j] = "assigned"
  /\ docker' = [docker EXCEPT ![n] = [@ EXCEPT !.state = "busy", !.job = j]]
  /\ job' = [job EXCEPT ![j] = "running"]
  /\ outbox' = [outbox EXCEPT !.started = @ \cup {<<j, n>>}]
  /\ UNCHANGED <<inbox, nextID>>

(* The job of n ends, and n with it: a JIT runner runs one job. *)
JobEnds(n, state, ip) ==
  /\ docker[n].state = "busy"
  /\ docker' = [docker EXCEPT ![n] = [@ EXCEPT !.state = state, !.ip = ip]]
  /\ job' = [job EXCEPT ![docker[n].job] = "done"]
  /\ outbox' = [outbox EXCEPT !.completed = @ \cup {<<docker[n].job, n>>}]
  /\ UNCHANGED <<inbox, nextID>>

RunnerFinishesJob(n) == JobEnds(n, "grace", docker[n].ip)

(* A container killed under its job; GitHub reports the job as failed. *)
RunnerKilled(n) == "kill" \in Faults /\ JobEnds(n, "exited", NoIP)

(* A job ends when its container is stopped or removed. *)
JobStopped(n) ==
  IF docker[n].state = "busy"
  THEN /\ job' = [job EXCEPT ![docker[n].job] = "done"]
       /\ outbox' = [outbox EXCEPT !.completed = @ \cup {<<docker[n].job, n>>}]
  ELSE UNCHANGED <<job, outbox>>

GraceEnds(n) ==
  /\ docker[n].state = "grace"
  /\ docker' = [docker EXCEPT ![n] = [@ EXCEPT !.state = "exited", !.ip = NoIP]]
  /\ UNCHANGED githubVars

(* The runner process ends before it is given a job.  No event tells.      *)
RunnerQuits(n) ==
  /\ "quit" \in Faults
  /\ docker[n].state = "idle"
  /\ docker' = [docker EXCEPT ![n].state = "grace"]
  /\ UNCHANGED githubVars
=============================================================================
