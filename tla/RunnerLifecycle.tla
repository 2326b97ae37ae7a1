-------------------------- MODULE RunnerLifecycle --------------------------
(***************************************************************************)
(* What the store promises of every runner ("tracks each runner's full     *)
(* lifecycle: idle, busy, completed"): it appears idle, is busy once, is   *)
(* completed once, and disappears only then.  A name may be used again,    *)
(* but never by two runners at a time.                                     *)
(***************************************************************************)
CONSTANT Names
VARIABLE status

LifecycleInit == status = [n \in Names |-> "absent"]

Moves == {<<"absent", "idle">>, <<"idle", "busy">>, <<"busy", "completed">>,
          <<"completed", "absent">>}

LifecycleNext ==
  \E n \in Names, move \in Moves :
    /\ status[n] = move[1]
    /\ status' = [status EXCEPT ![n] = move[2]]

Lifecycle == LifecycleInit /\ [][LifecycleNext]_status
=============================================================================
