---------------------------- MODULE FlowRecords ----------------------------
(***************************************************************************)
(* The first-party settlement flow's own records: settlement_flow_records, *)
(* settlement_flow_events, tabs.status, settlements.status and the debtor  *)
(* approvals, and the SECURITY DEFINER functions that write them           *)
(* (supabase/migrations/20260811073000_durable_first_party_settlement_     *)
(* flow.sql; freeze as redefined by 20260811154647_..., the decision of a  *)
(* debtor in 20260811003158_...).  Each function is one transaction that   *)
(* holds the flow's row lock, so each is one atomic operation here, with   *)
(* the condition under which it raises instead.                            *)
(*                                                                         *)
(* A FLOW is one attested agent run: its id, ledger id and settlement id   *)
(* are derived from the run, and its receipt fixes the tab and, through    *)
(* the ledger hash, the idempotency key.                                   *)
(***************************************************************************)
EXTENDS SettlementDomain, FiniteSets

CONSTANTS
  Tabs,         \* shared tabs
  TabOf,        \* TabOf[f]: the tab of the run the flow comes from
  KeyOf,        \* KeyOf[f]: the idempotency key of the frozen plan
  NoBody,       \* signed_body_hash is null
  MayWithdraw   \* may debtors revoke, may their authorizations expire?

\* The receipt id is part of the ledger, and a receipt belongs to one tab: two
\* runs freeze the same plan only on the same tab.
ASSUME FlowAssumption ==
  /\ TabOf \in [Flows -> Tabs]
  /\ KeyOf \in [Flows -> Keys]
  /\ \A f, g \in Flows : KeyOf[f] = KeyOf[g] => TabOf[f] = TabOf[g]
  /\ NoBody \notin Bodies
  /\ MayWithdraw \in BOOLEAN

VARIABLES
  flows,       \* flows[f]: the flow's row (and its settlements row), or NoRow
  trail,       \* trail[f]: the rows of settlement_flow_events
  tabs,        \* tabs[t]: tabs.status
  approvals    \* approvals[f]: "none", "signed" by all debtors, "withdrawn"

recordVars == <<flows, trail, tabs, approvals>>

Outcomes == {"completed_unverified", "verified_settled", "failed", "timeout"}
FlowStates == {"frozen", "simulated", "submitted"} \cup Outcomes
TabStates == {"open", "frozen", "signing", "settling", "verified_settled",
              "failed"}

NoRow == [state |-> "unfrozen", revision |-> 0]
Row == [state : FlowStates, revision : 1..5, body : Bodies \cup {NoBody},
        acceptance : Acceptances \cup {NoAcceptance},
        settlement : {"draft", "simulated", "submitted"} \cup Outcomes]
TrailEvent ==
  [revision : 1..5, state : FlowStates,
   kind : {"frozen", "simulated", "submitted", "terminal", "reconciled"}]

RecordsTypeOK ==
  /\ flows \in [Flows -> Row \cup {NoRow}]
  /\ trail \in [Flows -> SUBSET TrailEvent]
  /\ tabs \in [Tabs -> TabStates]
  /\ approvals \in [Flows -> {"none", "signed", "withdrawn"}]

RecordsInit ==
  /\ flows = [f \in Flows |-> NoRow]
  /\ trail = [f \in Flows |-> {}]
  /\ tabs = [t \in Tabs |-> "open"]
  /\ approvals = [f \in Flows |-> "none"]

Frozen(f) == flows[f].state # "unfrozen"
Submitted(f) == flows[f].state \in {"submitted"} \cup Outcomes

\* The revisions and states the table's check constraint allows, with what
\* each requires and forbids.
FlowShape(row) ==
  \/ /\ row.revision = 1 /\ row.state = "frozen"
     /\ row.body = NoBody /\ row.acceptance = NoAcceptance
  \/ /\ row.revision = 2 /\ row.state = "simulated"
     /\ row.body # NoBody /\ row.acceptance = NoAcceptance
  \/ /\ \/ row.revision = 3 /\ row.state = "submitted"
        \/ row.revision = 4 /\ row.state \in Outcomes
        \/ row.revision = 5 /\ row.state = "verified_settled"
     /\ row.body # NoBody /\ row.acceptance # NoAcceptance

\* What every transition writes: the flow's row, its event, the tab.
Write(f, row, kind, tab) ==
  /\ flows' = [flows EXCEPT ![f] = row]
  /\ trail' = [trail EXCEPT ![f] = @ \cup
       {[revision |-> row.revision, kind |-> kind, state |-> row.state]}]
  /\ tabs' = [tabs EXCEPT ![TabOf[f]] = tab]

(***************************************************************************)
(* freeze_reviewed_settlement_flow.  A flow that is there already is       *)
(* returned; another run of a tab that is no longer open is refused.       *)
(***************************************************************************)
\* Seeded fault: the tab's status is not looked at.
MayFreezeAnyTab(f) == ~Frozen(f)

MayFreeze(f) == ~Frozen(f) /\ tabs[TabOf[f]] = "open"

Freeze(f) ==
  /\ MayFreeze(f)
  /\ Write(f, [state |-> "frozen", revision |-> 1, body |-> NoBody,
               acceptance |-> NoAcceptance, settlement |-> "draft"],
           "frozen", "frozen")
  /\ UNCHANGED approvals

(***************************************************************************)
(* record_reviewed_settlement_simulation.  The body is signed by every     *)
(* debtor, and none of them said no before.                                *)
(***************************************************************************)
\* Seeded fault: the flow's state is not compared.
RecordSimulationAgain(f, b) ==
  IF Frozen(f) /\ approvals[f] # "withdrawn"
  THEN /\ Write(f, [flows[f] EXCEPT !.state = "simulated", !.revision = 2,
                                    !.body = b, !.settlement = "simulated"],
                "simulated", "signing")
       /\ approvals' = [approvals EXCEPT ![f] = "signed"]
  ELSE UNCHANGED recordVars

RecordSimulation(f, b) ==
  IF flows[f].state = "frozen" /\ approvals[f] # "withdrawn"
  THEN /\ Write(f, [flows[f] EXCEPT !.state = "simulated", !.revision = 2,
                                    !.body = b, !.settlement = "simulated"],
                "simulated", "signing")
       /\ approvals' = [approvals EXCEPT ![f] = "signed"]
  ELSE UNCHANGED recordVars

\* A debtor revokes (record_approval_decision), or the validity of a signed
\* USDC authorization ends.  The rows of settlement_approvals are made by
\* record_reviewed_settlement_simulation and by nothing else, as 'signed': before
\* the simulation there is none to reject or revoke.
Withdraw(f) ==
  /\ MayWithdraw
  /\ approvals[f] = "signed"
  /\ approvals' = [approvals EXCEPT ![f] = "withdrawn"]
  /\ UNCHANGED <<flows, trail, tabs>>

\* The flow check of the submission journal's read and prepare functions:
\* FLOW_SUBMISSION_BINDING_MISMATCH otherwise.
Bound(f, b) == flows[f].state = "simulated" /\ flows[f].body = b

\* assert_reviewed_settlement_approvals
ApprovalsSigned(f, b) == Bound(f, b) /\ approvals[f] = "signed"

(***************************************************************************)
(* record_reviewed_settlement_execution.  A flow already submitted is      *)
(* returned or refused, and stays what it is.                              *)
(***************************************************************************)
RecordExecution(f, b, acc) ==
  IF Bound(f, b)
  THEN /\ Write(f, [flows[f] EXCEPT !.state = "submitted", !.revision = 3,
                                    !.acceptance = acc,
                                    !.settlement = "submitted"],
                "submitted", "settling")
       /\ UNCHANGED approvals
  ELSE UNCHANGED recordVars

(***************************************************************************)
(* record_reviewed_settlement_terminal: only out of 'submitted'; anything  *)
(* but a verified settlement leaves the tab 'failed'.                      *)
(***************************************************************************)
RecordTerminal(f, target) ==
  IF flows[f].state = "submitted"
  THEN /\ Write(f, [flows[f] EXCEPT !.state = target, !.revision = 4,
                                    !.settlement = target],
                "terminal",
                IF target = "verified_settled" THEN target ELSE "failed")
       /\ UNCHANGED approvals
  ELSE UNCHANGED recordVars

\* Seeded fault: the reconciliation forgets settlements.status.
ReconcileFlowOnly(f) ==
  IF flows[f].state \in {"completed_unverified", "timeout"}
  THEN /\ Write(f, [flows[f] EXCEPT !.state = "verified_settled",
                                    !.revision = 5],
                "reconciled", "verified_settled")
       /\ UNCHANGED approvals
  ELSE UNCHANGED recordVars

\* Seeded fault: an unproven completion is taken for final.
ReconcileTimeoutOnly(f) ==
  IF flows[f].state = "timeout"
  THEN /\ Write(f, [flows[f] EXCEPT !.state = "verified_settled",
                                    !.revision = 5,
                                    !.settlement = "verified_settled"],
                "reconciled", "verified_settled")
       /\ UNCHANGED approvals
  ELSE UNCHANGED recordVars

\* reconcile_reviewed_settlement_proof
ReconcileFlow(f) ==
  IF flows[f].state \in {"completed_unverified", "timeout"}
  THEN /\ Write(f, [flows[f] EXCEPT !.state = "verified_settled",
                                    !.revision = 5,
                                    !.settlement = "verified_settled"],
                "reconciled", "verified_settled")
       /\ UNCHANGED approvals
  ELSE UNCHANGED recordVars

(***************************************************************************)
(* Correctness of the records by themselves.                               *)
(***************************************************************************)
\* settlements.status of a flow in this state: "draft" until it is simulated.
SettlementFor(state) == IF state = "frozen" THEN "draft" ELSE state

\* The copies agree, whoever wrote last: row and events as verifiedFlow
\* demands (a row it rejects can never be read again), one event for each
\* revision and no more; settlements.status is the flow's state; and the tab
\* shows the outcome of the one flow that froze it.
CopiesAgree ==
  \A f \in Flows :
    /\ Frozen(f) => /\ FlowShape(flows[f])
                    /\ flows[f].settlement = SettlementFor(flows[f].state)
    /\ {v.revision : v \in trail[f]} = 1..flows[f].revision
    /\ Cardinality(trail[f]) = flows[f].revision
    /\ \A v \in trail[f] :
         v.revision = flows[f].revision => v.state = flows[f].state
    /\ flows[f].state = "frozen" => tabs[TabOf[f]] = "frozen"
    /\ flows[f].state = "simulated" => tabs[TabOf[f]] = "signing"
    /\ flows[f].state = "submitted" => tabs[TabOf[f]] = "settling"
    /\ flows[f].state \in Outcomes =>
         tabs[TabOf[f]] = IF flows[f].state = "verified_settled"
                          THEN "verified_settled" ELSE "failed"

\* A tab is frozen by one run, once: no second run can freeze a tab whose plan
\* may be paid already.
OneFlowPerTab ==
  \A f, g \in Flows : Frozen(f) /\ Frozen(g) /\ TabOf[f] = TabOf[g] => f = g
=============================================================================
