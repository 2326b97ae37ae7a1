------------------------------ MODULE Adjuster ------------------------------
(***************************************************************************)
(* internal/metrics: the adaptive loop for one job name.  A runner is      *)
(* allocated what Adjust makes of the last rows of the database; when its  *)
(* job is done, allocation and usage become the next row.  Several runners *)
(* of the same job may run at once, so that rows arrive out of order.      *)
(*                                                                         *)
(* CPU and memory are adjusted independently by the same rule; the module  *)
(* is about one of them.  The unit is what formatCPU and formatMemory can  *)
(* express: a hundredth of a CPU, or a byte.  Factor and thresholds are    *)
(* fractions, and the arithmetic up to the formatting is exact.            *)
(***************************************************************************)
EXTENDS Integers, Sequences, SequencesExt

CONSTANTS Resource,        \* "cpu" or "memory"
          Baseline,        \* profile.CPUs or profile.Memory
          ProfileMax,      \* its MaxCPUs or MaxMemory, 0 when there is none
          GlobalMax,       \* MaxCPUs or MaxMemory; the empty string parses to 0
          HistoryWindow,
          ScaleUpPct, ScaleDownPct,
          ScaleNum, ScaleDen,  \* ScaleFactor = ScaleNum / ScaleDen
          Runners,         \* runners of the job that run at a time
          NotRunning,
          Demands,         \* what the job would use if it could
          Windows,         \* how long a run works, and how long it is measured for
          Faults           \* "metrics", "history"

VARIABLES rows,     \* the rows GetHistory returns, most recent first
          running,  \* the allocation of each runner
          demand

vars == <<rows, running, demand>>

ASSUME AdjusterAssumption ==
  /\ Resource \in {"cpu", "memory"}
  /\ Baseline \in Nat \ {0} /\ ProfileMax \in Nat /\ GlobalMax \in Nat
  /\ HistoryWindow \in Nat \ {0}
  /\ ScaleUpPct \in 1..100 /\ ScaleDownPct \in 0..(ScaleUpPct - 1)
  /\ ScaleDen \in Nat \ {0} /\ ScaleNum \in Nat /\ ScaleNum > ScaleDen
  /\ Demands \subseteq Nat /\ Windows \subseteq Nat \X (Nat \ {0})
  /\ NotRunning \notin Nat

Row == [allocated : Nat, used : Nat]

Init ==
  /\ rows = <<>>
  /\ running = [r \in Runners |-> NotRunning]
  /\ demand \in Demands
-----------------------------------------------------------------------------
(* Adjust.  A fraction is a pair <<numerator, denominator>>.               *)

(* The utilization of a row is added; a row without an allocation has none. *)
Added(sum, row) ==
  IF row.allocated > 0
  THEN <<sum[1] * row.allocated + row.used * sum[2], sum[2] * row.allocated>>
  ELSE sum

(* The sums of the first rows, for each number of them. *)
Sums(history) ==
  LET sum[i \in 0..Len(history)] ==
        IF i = 0 THEN <<0, 1>> ELSE Added(sum[i - 1], history[i])
  IN sum

Utilization(history) == Sums(history)[Len(history)]

(* Mutant: the average is taken over one row too many. *)
BelowDividesByMore(history) ==
  100 * Utilization(history)[1]
    < ScaleDownPct * (Len(history) + 1) * Utilization(history)[2]

Above(history) ==
  100 * Utilization(history)[1] > ScaleUpPct * Len(history) * Utilization(history)[2]

Below(history) ==
  100 * Utilization(history)[1] < ScaleDownPct * Len(history) * Utilization(history)[2]

(* Mutant: the factor is always applied to the baseline. *)
LastAllocatedIsBaseline(history) == Baseline

LastAllocated(history) == IF history[1].allocated = 0 THEN Baseline ELSE history[1].allocated

(* The ceiling of the profile counts when it is lower. *)
Ceiling == IF ProfileMax # 0 /\ ProfileMax < GlobalMax THEN ProfileMax ELSE GlobalMax

Scaled(history) ==
  CASE Above(history) -> <<LastAllocated(history) * ScaleNum, ScaleDen>>
    [] ~Above(history) /\ Below(history) -> <<LastAllocated(history) * ScaleDen, ScaleNum>>
    [] OTHER -> <<LastAllocated(history), 1>>

AtLeast(v, floor) == IF v[1] < floor * v[2] THEN <<floor, 1>> ELSE v
AtMost(v, ceiling) == IF v[1] > ceiling * v[2] THEN <<ceiling, 1>> ELSE v

(* Mutant: there is no floor. *)
ClampedAbove(v) == AtMost(v, Ceiling)

Clamped(v) == AtMost(AtLeast(v, Baseline), Ceiling)

(* formatCPU rounds to the nearest hundredth (to either one at a tie: the  *)
(* float decides), formatMemory cuts to whole bytes.                       *)
Formatted(v) ==
  {q \in 0..Ceiling :
     IF Resource = "cpu"
     THEN 2 * q * v[2] <= 2 * v[1] + v[2] /\ 2 * v[1] - v[2] <= 2 * q * v[2]
     ELSE q * v[2] <= v[1] /\ v[1] < (q + 1) * v[2]}

Adjust(history) ==
  IF Len(history) < HistoryWindow
  THEN {Baseline}
  ELSE UNION {Formatted(v) : v \in {Clamped(w) : w \in {Scaled(history)}}}
-----------------------------------------------------------------------------
(* provisionRunner: the baseline when the history cannot be read.  A       *)
(* memory of "0" does not parse, and no runner is started.                 *)
Provision(r) ==
  /\ running[r] = NotRunning
  /\ \E a \in Adjust(rows) \cup (IF "history" \in Faults THEN {Baseline} ELSE {}) :
       /\ Resource = "memory" => a # 0
       /\ running' = [running EXCEPT ![r] = a]
  /\ UNCHANGED <<rows, demand>>

(* A job uses no more than its allocation; zero CPUs are no limit.         *)
Usage(allocated) == IF allocated = 0 \/ demand < allocated THEN demand ELSE allocated

(* The CPU figure is the CPU time of the container divided by the time     *)
(* since its JobStarted was handled, w[1] and w[2]: a multiple of the      *)
(* usage when the start is handled late (with the completion at the        *)
(* extreme), a fraction when the completion is.  Memory is a peak.         *)
Recorded(allocated, w) ==
  IF Resource = "cpu" THEN (Usage(allocated) * w[1]) \div w[2] ELSE Usage(allocated)

(* What a row may say of a run; a figure that Collect could not read is 0  *)
(* in the row when it could read the other one.                            *)
Figures(allocated) ==
  {Recorded(allocated, w) : w \in Windows} \cup (IF "metrics" \in Faults THEN {0} ELSE {})

(* Mutant: GetHistory has no LIMIT. *)
RecordUnlimited(r) ==
  /\ running[r] # NotRunning
  /\ \E used \in Figures(running[r]) :
       rows' = <<[allocated |-> running[r], used |-> used]>> \o rows
  /\ running' = [running EXCEPT ![r] = NotRunning]
  /\ UNCHANGED demand

(* GetHistory after the row is inserted. *)
WithRow(allocated, used) ==
  LET all == <<[allocated |-> allocated, used |-> used]>> \o rows
  IN IF Len(all) > HistoryWindow THEN Front(all) ELSE all

(* handleJobCompleted *)
Record(r) ==
  /\ running[r] # NotRunning
  /\ \E used \in Figures(running[r]) : rows' = WithRow(running[r], used)
  /\ running' = [running EXCEPT ![r] = NotRunning]
  /\ UNCHANGED demand

(* No figure was read, or the insert failed: there is no row.              *)
RecordFails(r) ==
  /\ "metrics" \in Faults
  /\ running[r] # NotRunning
  /\ running' = [running EXCEPT ![r] = NotRunning]
  /\ UNCHANGED <<rows, demand>>

WorkloadChanges == demand' \in Demands /\ UNCHANGED <<rows, running>>

Next ==
  \/ \E r \in Runners : Provision(r) \/ Record(r) \/ RecordFails(r)
  \/ WorkloadChanges

Spec == Init /\ [][Next]_vars

(* The job is run again and again, and every run ends. *)
FairSpec == Spec /\ \A r \in Runners : WF_vars(Provision(r)) /\ WF_vars(Record(r))
-----------------------------------------------------------------------------
(* Every variable has its type; GetHistory returns at most its limit.      *)
TypeOK ==
  /\ rows \in Seq(Row) /\ Len(rows) <= HistoryWindow
  /\ running \in [Runners -> Nat \cup {NotRunning}]
  /\ demand \in Demands

(* "The baseline is the floor; MaxCPUs/MaxMemory are the ceiling"          *)
(* (adjuster.go:33), after rounding too, whatever rows the runners leave,  *)
(* in whatever order.                                                      *)
WithinBounds ==
  \A r \in Runners : running[r] # NotRunning => running[r] \in Baseline..Ceiling

(* A run that was recorded with all it had, or with more, is never         *)
(* followed by a smaller allocation, although the decision is by the       *)
(* average of the window.                                                  *)
SaturatedNeverShrinks ==
  [][\A r \in Runners :
       /\ Provision(r)
       /\ Len(rows) = HistoryWindow /\ rows[1].used >= rows[1].allocated
       => running'[r] >= rows[1].allocated]_vars

(* The recorded load is within the thresholds, or the allocation is at a   *)
(* bound.                                                                  *)
Adequate(a, w) ==
  /\ 100 * Recorded(a, w) <= ScaleUpPct * a \/ a = Ceiling
  /\ 100 * Recorded(a, w) >= ScaleDownPct * a \/ a = Baseline

(* A run ends without the row that tells what it used, measured over w. *)
Unreported(r, w) ==
  /\ running[r] # NotRunning /\ running'[r] = NotRunning
  /\ rows' # WithRow(running[r], Recorded(running[r], w))

(* When the job's demand stays the same, its runs are all measured in the  *)
(* same proportion of the time they work and, unless the window is one     *)
(* row, do not overlap any more, then the allocations are adequate for     *)
(* what is recorded in the end and stay so, whatever was recorded before:  *)
(* the loop neither oscillates nor stops short.                            *)
Settles ==
  \A w \in Windows :
    <>[][/\ demand' = demand /\ \A r \in Runners : ~Unreported(r, w)
         /\ HistoryWindow > 1 =>
              \A r1, r2 \in Runners : r1 # r2 =>
                running'[r1] = NotRunning \/ running'[r2] = NotRunning]_vars
      => <>[](\A r \in Runners : running[r] # NotRunning => Adequate(running[r], w))
=============================================================================
