------------------------ MODULE SettlementLifecycle ------------------------
(***************************************************************************)
(* What the server promises about one frozen plan, with no handlers, no    *)
(* retries and no races: it is recorded for one owner and one signed body  *)
(* before anything else, broadcast as one execution, its money moves at    *)
(* most once, and its journaled outcome is true.  Module SubmissionJournal *)
(* implements it as long as KeeperHub remembers its keys and nobody sends  *)
(* the signed plan to the contract by themselves.                          *)
(***************************************************************************)
EXTENDS SettlementDomain

VARIABLES
  plan,        \* plan[k]: what is recorded of the plan
  moved        \* moved[k]: how often its money moved on chain

lifecycleVars == <<plan, moved>>

Unrecorded == [outcome |-> "absent"]
Recorded(k) == plan[k] # Unrecorded

LifecycleInit ==
  /\ plan = [k \in Keys |-> Unrecorded]
  /\ moved = [k \in Keys |-> 0]

Record(k) ==
  /\ ~Recorded(k)
  /\ \E p \in Principals, b \in Bodies :
       plan' = [plan EXCEPT ![k] = [outcome |-> "prepared", owner |-> p,
                                    body |-> b, execution |-> NoExecution]]
  /\ UNCHANGED moved

\* The plan is known to be broadcast, as an execution no other plan has.
Accept(k) ==
  /\ plan[k].outcome = "prepared"
  /\ \E e \in Executions :
       /\ \A j \in Keys : Recorded(j) => plan[j].execution # e
       /\ plan' = [plan EXCEPT ![k].outcome = "accepted", ![k].execution = e]
  /\ UNCHANGED moved

\* Money moves once, only for a recorded plan, never for one that failed.
Move(k) ==
  /\ Recorded(k)
  /\ plan[k].outcome # "failed"
  /\ moved[k] = 0
  /\ moved' = [moved EXCEPT ![k] = 1]
  /\ UNCHANGED plan

\* The outcome becomes known, or is known to be unknown so far.
Conclude(k, outcome) ==
  /\ plan[k].outcome = "accepted"
  /\ outcome = "verified_settled" => moved[k] = 1
  /\ outcome = "failed" => moved[k] = 0
  /\ plan' = [plan EXCEPT ![k].outcome = outcome]
  /\ UNCHANGED moved

Reconcile(k) ==
  /\ plan[k].outcome \in {"completed_unverified", "timeout"}
  /\ moved[k] = 1
  /\ plan' = [plan EXCEPT ![k].outcome = "verified_settled"]
  /\ UNCHANGED moved

LifecycleNext ==
  \E k \in Keys :
    \/ Record(k) \/ Accept(k) \/ Move(k) \/ Reconcile(k)
    \/ \E outcome \in {"completed_unverified", "verified_settled", "failed",
                       "timeout"} : Conclude(k, outcome)

LifecycleSpec == LifecycleInit /\ [][LifecycleNext]_lifecycleVars
=============================================================================
