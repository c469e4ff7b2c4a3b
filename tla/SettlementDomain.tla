-------------------------- MODULE SettlementDomain --------------------------
(***************************************************************************)
(* The vocabulary shared by the modules about submission and settlement.   *)
(*                                                                         *)
(* A KEY is one KeeperHub idempotency key.  The code derives it from the   *)
(* task, chain, contract and settlementId (packages/keeperhub/src/         *)
(* idempotency.ts), and settlementId itself commits to the ledger hash,    *)
(* the debits and the payouts, so a key stands for one frozen plan: plan   *)
(* hash, ledger hash, chain and contract are functions of the key.  It     *)
(* does not depend on the principal, on the signed body (other signatures  *)
(* or validity windows over the same plan) nor on the simulation.          *)
(***************************************************************************)
EXTENDS Naturals

CONSTANTS
  Keys,          \* idempotency keys: one per frozen plan on the V2 contract
  Principals,    \* API principals: a signed-in user or a bearer client
  Bodies,        \* signed settlement bodies (hash of body = the body)
  Simulations,   \* successful simulation records KeeperHub can return
  NoSimulation,
  Executions,    \* KeeperHub execution ids
  NoExecution,
  Requests,      \* request handlers that may run at the same time
  Observers,     \* status handlers that may run at the same time
  Flows,         \* first-party settlement_flow_records rows
  NoFlow,        \* attached_flow is null: the REST and MCP channels
  Capability     \* the authority of a signed proof capability

ASSUME DomainAssumption ==
  /\ NoExecution \notin Executions
  /\ NoSimulation \notin Simulations
  /\ NoFlow \notin Flows
  /\ Capability \notin Principals

\* The execution_record KeeperHub returned, as far as anything tells two of
\* them apart: the execution id and the idempotentReplay flag.
Acceptances == [id : Executions, replay : BOOLEAN]
NoAcceptance == [id |-> NoExecution, replay |-> FALSE]
=============================================================================
