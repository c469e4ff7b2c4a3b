------------------------ MODULE MCTabCollaboration ------------------------
(***************************************************************************)
(* TabCollaboration with one tab of two seats and two requests at a time.  *)
(* A run takes one of the Parts and sends only what that part is about.    *)
(*   invites  two invite links; the URL of an invite may name another tab  *)
(*            than the seat's; one browser saves, once, and the owner      *)
(*            chooses the other seat as payer                              *)
(*   drafts   two browsers of the owner that save, payers chosen by owner  *)
(*            and guest, and a review that freezes the tab                 *)
(***************************************************************************)
EXTENDS TabCollaboration, TLC

CONSTANTS Parts, owner, guest, t1, t2, s1, s2, d1, d2, a1, a2, k1, k2, r1, c1, c2

VARIABLE part

MCOwnerOf == [t \in {t1, t2} |-> owner]
MCSeatTab == [s \in {s1, s2} |-> t1]
MCDocSeats == [d \in {d1, d2} |-> IF d = d1 THEN {s1} ELSE {s1, s2}]
MCDocPayer == [d \in {d1, d2} |-> s1]
MCDeviceUser == [d \in {a1, a2} |-> owner]
MCDeviceTab == [d \in {a1, a2} |-> t1]
MCRunDevice == [r \in {r1} |-> a1]

PartsInit == Init /\ part \in Parts

\* What is sent in a part.
Sent(request) ==
  CASE part = "invites" ->
         /\ request.op # "freeze"
         /\ request.op = "save" => /\ request.device = a1 /\ request.doc = d1
                                   /\ request.base.revision = 0
         /\ request.op = "choose" => request.user = owner /\ request.seat = s2
    [] part = "drafts" -> request.op \notin {"invite", "join"}

PartsNext ==
  /\ Next
  /\ \A c \in Calls : call'[c] # NoCall => Sent(call'[c])
  /\ part = "invites" => UNCHANGED review /\ device'[a2] = device[a2]
  /\ UNCHANGED part

PartsSpec == PartsInit /\ [][PartsNext]_<<part, vars>>

Interchangeable == Permutations({c1, c2}) \cup Permutations({k1, k2})
============================================================================
