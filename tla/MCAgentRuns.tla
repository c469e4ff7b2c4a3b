---------------------------- MODULE MCAgentRuns ----------------------------
(***************************************************************************)
(* AgentRuns with two inputs and two workers.  A run belongs to one of the *)
(* Parts, to keep the two histories apart:                                 *)
(*   attempts  a run asks the model as often as it may; no worker is lost  *)
(*   memory    it asks once at most; workers die, the memory is deleted    *)
(***************************************************************************)
EXTENDS AgentRuns, TLC

CONSTANTS Parts, i1, i2, w1, w2

VARIABLE part

PartsInit == Init /\ part \in Parts

PartsNext ==
  /\ Next
  /\ part = "attempts" => UNCHANGED <<faults, forgotten>>
  /\ part = "memory" => \A i \in Inputs : spend'[i] <= spend[i] + 1
  /\ UNCHANGED part

PartsSpec == PartsInit /\ [][PartsNext]_<<part, vars>>

Interchangeable == Permutations(RunIds) \cup Permutations(Workers)
=============================================================================
