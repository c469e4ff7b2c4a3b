--------------------------- MODULE MCVoiceBudget ---------------------------
(***************************************************************************)
(* A small instance of VoiceBudget, for a deployment that offers           *)
(* transcription or readback: a day has two minutes, a month two days, so  *)
(* that a run crosses the end of both.                                     *)
(***************************************************************************)
EXTENDS VoiceBudget, TLC

PerUser == [transcription |-> [day |-> 1, month |-> 2], readback |-> [day |-> 2, month |-> 3]]
PerProject == [transcription |-> [day |-> 2, month |-> 3], readback |-> [day |-> 3, month |-> 4]]

OneAtATime == {{"transcription"}, {"readback"}}

Interchangeable == Permutations(Users) \cup Permutations(Requests)
============================================================================
