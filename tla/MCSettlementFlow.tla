-------------------------- MODULE MCSettlementFlow --------------------------
EXTENDS SettlementFlow, TLC

\* All runs are of one tab and froze the same plan.
OneTab == [f \in Flows |-> CHOOSE t \in Tabs : TRUE]
OnePlan == [f \in Flows |-> CHOOSE k \in Keys : TRUE]

FlowSymmetry == Permutations(Executions) \cup Permutations(Requests)
                  \cup Permutations(Bodies) \cup Permutations(Flows)
=============================================================================
