---------------------------- MODULE MCUpdatePolicy ----------------------------
(* A small instance of UpdatePolicy for TLC.                               *)
EXTENDS UpdatePolicy, TLC

Sym == Permutations(Slots)

(* Two heartbeats in flight, two changes and a restart are combined with   *)
(* the threads that only pass on a cancellation; the threads that start    *)
(* and run the workers are combined with one heartbeat and one change.     *)
NoWorkers ==
  /\ \A k \in Kinds : ~active[k]
  /\ \A t \in Starters : starter[t].pc \in {"idle", "suspend"}

OneChange ==
  /\ serverRev <= 1 /\ next_request <= 1 /\ generation <= 1 /\ restarts = 0
  /\ \E t \in Starters : starter[t].pc = "idle"

Focus == NoWorkers \/ OneChange
=============================================================================
