------------------------- MODULE MCSubmissionJournal -------------------------
EXTENDS SubmissionJournal, TLC

\* Names of executions, simulations and slots carry no meaning.
Symmetry == Permutations(Executions) \cup Permutations(Simulations)
              \cup Permutations(Requests) \cup Permutations(Bodies)
=============================================================================
