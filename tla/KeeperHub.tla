------------------------------ MODULE KeeperHub ------------------------------
(***************************************************************************)
(* KeeperHub's Direct Execution API and the chain behind it, as the code   *)
(* under src/ uses them.  KeeperHub is EXTERNAL: its actions are what      *)
(* packages/keeperhub/src/client.ts, types.ts and verify.ts are written    *)
(* for.  The settlement contract's part, executed[settlementId], is the    *)
(* repository's own.                                                       *)
(*                                                                         *)
(* A job is an accepted execution.  Its body and principal are history:    *)
(* what the handler that posted it had in hand.                            *)
(***************************************************************************)
EXTENDS SettlementDomain

CONSTANTS
  KeysExpire,      \* may KeeperHub forget an Idempotency-Key?
  OthersExecute    \* may a holder of the signed plan send it by themselves?

ASSUME HubAssumption ==
  /\ KeysExpire \in BOOLEAN
  /\ OthersExecute \in BOOLEAN

VARIABLES
  keyed,       \* keyed[k]: the execution KeeperHub remembers for the key
  jobs,        \* jobs[e]: the execution, or NoJob
  settled      \* settled[k]: how often the plan was settled on chain

hubVars == <<keyed, jobs, settled>>

NoJob == [status |-> "unused"]
Job == [status : {"pending", "completed", "failed"},
        tx : {"none", "success", "reverted"},
        key : Keys, body : Bodies, principal : Principals]

HubTypeOK ==
  /\ keyed \in [Keys -> Executions \cup {NoExecution}]
  /\ jobs \in [Executions -> Job \cup {NoJob}]
  /\ settled \in [Keys -> Nat]

HubInit ==
  /\ keyed = [k \in Keys |-> NoExecution]
  /\ jobs = [e \in Executions |-> NoJob]
  /\ settled = [k \in Keys |-> 0]

Unused(e) == jobs[e].status = "unused"

\* POST /api/execute/contract-call with a key KeeperHub does not remember.
OpenJob(k, b, p, e) ==
  /\ keyed[k] = NoExecution
  /\ Unused(e)
  /\ jobs' = [jobs EXCEPT ![e] = [status |-> "pending", tx |-> "none",
                                  key |-> k, body |-> b, principal |-> p]]
  /\ keyed' = [keyed EXCEPT ![k] = e]
  /\ UNCHANGED settled

\* The key's retention ends.
ForgetKey(k) ==
  /\ KeysExpire
  /\ keyed[k] # NoExecution
  /\ keyed' = [keyed EXCEPT ![k] = NoExecution]
  /\ UNCHANGED <<jobs, settled>>

\* executeSettlement refuses a settlementId it has executed.
MayExecute(k) == settled[k] = 0

\* The job's transaction is mined: executeSettlement takes effect as a whole
\* or reverts as a whole, and it may revert for reasons of its own (an expired
\* or used USDC authorization, a short balance).  A transaction whose receipt
\* KeeperHub gave up on (status completed, receipt timeout) may still land.
Settle(e) ==
  /\ jobs[e].status \in {"pending", "completed"}
  /\ jobs[e].tx = "none"
  /\ MayExecute(jobs[e].key)
  /\ settled' = [settled EXCEPT ![jobs[e].key] = @ + 1]
  /\ jobs' = [jobs EXCEPT ![e].tx = "success"]
  /\ UNCHANGED keyed

Revert(e) ==
  /\ jobs[e].status \in {"pending", "completed"}
  /\ jobs[e].tx = "none"
  /\ jobs' = [jobs EXCEPT ![e].tx = "reverted"]
  /\ UNCHANGED <<keyed, settled>>

\* executeSettlement has no access control: it checks the signatures, never
\* the sender.
SettleElsewhere(k) ==
  /\ OthersExecute
  /\ MayExecute(k)
  /\ settled' = [settled EXCEPT ![k] = @ + 1]
  /\ UNCHANGED <<keyed, jobs>>

\* KeeperHub closes the job.  It reports failure only of a job whose
\* transaction did not succeed, and broadcasts nothing for it afterwards.
Complete(e) ==
  /\ jobs[e].status = "pending"
  /\ jobs' = [jobs EXCEPT ![e].status = "completed"]
  /\ UNCHANGED <<keyed, settled>>

Fail(e) ==
  /\ jobs[e].status = "pending"
  /\ jobs[e].tx # "success"
  /\ jobs' = [jobs EXCEPT ![e].status = "failed"]
  /\ UNCHANGED <<keyed, settled>>

HubStep ==
  \/ \E k \in Keys : ForgetKey(k) \/ SettleElsewhere(k)
  \/ \E e \in Executions : Settle(e) \/ Revert(e) \/ Complete(e) \/ Fail(e)

(***************************************************************************)
(* What GET /api/execute/{id}/status may answer, as one word per class of  *)
(* answers classifyExecution tells apart for a single-transaction job:     *)
(*   pending     not terminal                                              *)
(*   failed      status failed or cancelled                                *)
(*   success     completed, the receipt re-fetched, verified, success      *)
(*   reverted    completed, the receipt re-fetched, verified, reverted     *)
(*   unverified  completed, no receipt yet or one not verified             *)
(*   missing     completed, the receipt is timeout or not_found            *)
(***************************************************************************)
Views == {"pending", "failed", "success", "reverted", "unverified", "missing"}

View(e) ==
  IF jobs[e].status # "completed" THEN {jobs[e].status}
  ELSE {"unverified", "missing"}
         \cup (IF jobs[e].tx = "none" THEN {} ELSE {jobs[e].tx})

\* The view that hides nothing.
Truth(e) == IF jobs[e].status = "completed" THEN jobs[e].tx ELSE jobs[e].status
=============================================================================
