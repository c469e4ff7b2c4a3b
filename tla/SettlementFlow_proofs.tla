------------------------ MODULE SettlementFlow_proofs ------------------------
(***************************************************************************)
(* The first-party channel uses the submission journal as any client       *)
(* does: SettlementFlow implements SubmissionJournal, for every value of   *)
(* the constants, and so everything proved of that module holds of the     *)
(* two together. The second part is about the records themselves: the      *)
(* event tables tell the same story as the rows they belong to (the        *)
(* submission journal and the first-party flow), a tab shows what became   *)
(* of the one flow that froze it, and a flow only moves forward.           *)
(***************************************************************************)
EXTENDS SettlementFlow, SubmissionJournal_proofs, FiniteSetTheorems

LEMMA RequestRefines ==
  ASSUME NEW r \in Requests, Request(r)
  PROVE  [Next]_vars
<1>1. CASE \E f \in Flows, p \in Principals, b \in Bodies : Execute(r, f, p, b)
  <2>1. PICK f \in Flows, p \in Principals, b \in Bodies :
          Start(r, KeyOf[f], p, b, f)
    BY <1>1 DEF Execute
  <2>2. KeyOf[f] \in Keys
    BY FlowAssumption
  <2>3. Submit(r)
    BY <2>1, <2>2 DEF Submit
  <2> QED BY <2>3 DEF Next
<1>2. CASE SubmitPlain(r)
  <2>1. Submit(r)
    BY <1>2 DEF SubmitPlain, Submit
  <2> QED BY <2>1 DEF Next
<1>3. CASE RequestProgress(r) /\ Forget(r)
  <2>1. Handle(r)
    BY <1>3 DEF RequestProgress, JournalRead, JournalPrepare, JournalRecheck,
                Handle
  <2> QED BY <2>1 DEF Next
<1>4. CASE RequestFault(r) /\ Forget(r)
  <2>1. Handle(r)
    BY <1>4 DEF RequestFault, Handle
  <2> QED BY <2>1 DEF Next
<1>5. CASE AssertApprovals(r)
  BY <1>5 DEF AssertApprovals, JournalStays
<1>6. CASE PersistExecution(r)
  BY <1>6 DEF PersistExecution, JournalStays
<1>7. CASE CrashBeforeFlow(r)
  BY <1>7 DEF CrashBeforeFlow, JournalStays
<1> QED
  BY <1>1, <1>2, <1>3, <1>4, <1>5, <1>6, <1>7 DEF Request

LEMMA StatusRefines ==
  ASSUME NEW o \in Observers, Status(o)
  PROVE  [Next]_vars
<1>1. CASE \E f \in Flows, p \in Principals, view \in Views,
              independent \in BOOLEAN : FlowPoll(o, f, p, view, independent)
  <2>1. PICK f \in Flows, p \in Principals, view \in Views,
             independent \in BOOLEAN : Poll(o, KeyOf[f], p, view, independent)
    BY <1>1 DEF FlowPoll
  <2>2. KeyOf[f] \in Keys
    BY FlowAssumption
  <2>3. Observe(o)
    BY <2>1, <2>2 DEF Observe
  <2> QED BY <2>3 DEF Next
<1>2. CASE FlowObserve(o)
  <2>1. Observe(o)
    BY <1>2 DEF FlowObserve, Observe
  <2> QED BY <2>1 DEF Next
<1>3. CASE WriteOutcome(o)
  BY <1>3 DEF WriteOutcome, JournalStays
<1>4. CASE CrashFlowPoll(o)
  BY <1>4 DEF CrashFlowPoll, JournalStays
<1>5. CASE CrashObserve(o)
  <2>1. Observe(o)
    BY <1>5 DEF CrashObserve, Observe
  <2> QED BY <2>1 DEF Next
<1>6. CASE PlainPoll(o)
  <2>1. Observe(o)
    BY <1>6 DEF PlainPoll, Observe
  <2> QED BY <2>1 DEF Next
<1> QED
  BY <1>1, <1>2, <1>3, <1>4, <1>5, <1>6 DEF Status

LEMMA StepRefines ==
  ASSUME [FlowNext]_flowVars
  PROVE  [Next]_vars
<1>1. CASE \E f \in Flows : Channel(f)
  BY <1>1 DEF Channel, FreezeFlow, SimulateFlow, PersistSimulation,
              WithdrawApproval, JournalStays
<1>2. CASE \E r \in Requests : Request(r)
  BY <1>2, RequestRefines
<1>3. CASE \E o \in Observers : Status(o)
  BY <1>3, StatusRefines
<1>4. CASE FlowEnvironment
  BY <1>4 DEF FlowEnvironment, Next
<1>5. CASE UNCHANGED flowVars
  BY <1>5 DEF flowVars
<1> QED
  BY <1>1, <1>2, <1>3, <1>4, <1>5 DEF FlowNext

\* Whatever the routes of the first-party flow do, freeze, simulate, execute
\* and status, in any interleaving with REST, MCP and each other: on the
\* journal, KeeperHub and the chain it is a behaviour of SubmissionJournal.
THEOREM FlowImplementsJournal == FlowSpec => ImplementsJournal
<1>1. FlowInit => Init
  BY DEF FlowInit
<1>2. [FlowNext]_flowVars => [Next]_vars
  BY StepRefines
<1> QED
  BY <1>1, <1>2, PTL DEF FlowSpec, ImplementsJournal, Spec

\* So what it broadcasts, too, was journaled first.
THEOREM FlowBroadcasts == FlowSpec => []BroadcastJournaled
<1>1. FlowSpec => Spec
  BY FlowImplementsJournal DEF ImplementsJournal
<1> QED BY <1>1, Broadcasts, PTL

(***************************************************************************)
(* Type correctness.                                                       *)
(***************************************************************************)
LEMMA WriteType ==
  ASSUME RecordsTypeOK, NEW f \in Flows, NEW row \in Row,
         NEW kind \in {"frozen", "simulated", "submitted", "terminal",
                       "reconciled"},
         NEW tab \in TabStates, Write(f, row, kind, tab),
         approvals' \in [Flows -> {"none", "signed", "withdrawn"}]
  PROVE  RecordsTypeOK'
<1>1. flows' \in [Flows -> Row \cup {NoRow}]
  BY DEF Write, RecordsTypeOK
<1>2. [revision |-> row.revision, kind |-> kind, state |-> row.state]
        \in TrailEvent
  BY DEF Row, TrailEvent
<1>3. trail' \in [Flows -> SUBSET TrailEvent]
  BY <1>2 DEF Write, RecordsTypeOK
<1>4. TabOf[f] \in Tabs
  BY FlowAssumption
<1>5. tabs' \in [Tabs -> TabStates]
  BY <1>4 DEF Write, RecordsTypeOK
<1> QED BY <1>1, <1>3, <1>5 DEF RecordsTypeOK

\* A flow whose state is not "unfrozen" has a row.
LEMMA FlowRowType ==
  ASSUME RecordsTypeOK, NEW f \in Flows, Frozen(f)
  PROVE  flows[f] \in Row
BY DEF RecordsTypeOK, Frozen, NoRow

LEMMA FreezeType ==
  ASSUME RecordsTypeOK, NEW f \in Flows, Freeze(f)
  PROVE  RecordsTypeOK'
<1> DEFINE row == [state |-> "frozen", revision |-> 1, body |-> NoBody,
                   acceptance |-> NoAcceptance, settlement |-> "draft"]
<1>1. row \in Row
  BY DEF Row, FlowStates
<1>2. /\ Write(f, row, "frozen", "frozen")
      /\ approvals' \in [Flows -> {"none", "signed", "withdrawn"}]
  BY DEF Freeze, RecordsTypeOK
<1> HIDE DEF row
<1> QED BY <1>1, <1>2, WriteType DEF TabStates

LEMMA RecordSimulationType ==
  ASSUME RecordsTypeOK, NEW f \in Flows, NEW b \in Bodies, RecordSimulation(f, b)
  PROVE  RecordsTypeOK'
<1>1. CASE flows[f].state = "frozen" /\ approvals[f] # "withdrawn"
  <2> DEFINE row == [flows[f] EXCEPT !.state = "simulated", !.revision = 2,
                                     !.body = b, !.settlement = "simulated"]
  <2>1. flows[f] \in Row
    BY <1>1, FlowRowType DEF Frozen
  <2>2. row \in Row
    <3> DEFINE r1 == [flows[f] EXCEPT !.state = "simulated"]
    <3>1. r1 \in Row
      BY <2>1 DEF Row, FlowStates
    <3> HIDE DEF r1
    <3> DEFINE r2 == [r1 EXCEPT !.revision = 2]
    <3>2. r2 \in Row
      BY <3>1 DEF Row
    <3> HIDE DEF r2
    <3> DEFINE r3 == [r2 EXCEPT !.body = b]
    <3>3. r3 \in Row
      BY <3>2 DEF Row
    <3> HIDE DEF r3
    <3>4. [r3 EXCEPT !.settlement = "simulated"] \in Row
      BY <3>3 DEF Row
    <3> QED BY <3>4 DEF r1, r2, r3
  <2>3. /\ Write(f, row, "simulated", "signing")
        /\ approvals' \in [Flows -> {"none", "signed", "withdrawn"}]
    BY <1>1 DEF RecordSimulation, RecordsTypeOK
  <2> HIDE DEF row
  <2> QED BY <2>2, <2>3, WriteType DEF TabStates
<1>2. CASE ~(flows[f].state = "frozen" /\ approvals[f] # "withdrawn")
  BY <1>2 DEF RecordSimulation, RecordsTypeOK, recordVars
<1> QED BY <1>1, <1>2

LEMMA RecordExecutionType ==
  ASSUME RecordsTypeOK, NEW f \in Flows, NEW b, NEW acc \in Acceptances,
         RecordExecution(f, b, acc)
  PROVE  RecordsTypeOK'
<1>1. CASE Bound(f, b)
  <2> DEFINE row == [flows[f] EXCEPT !.state = "submitted", !.revision = 3,
                                     !.acceptance = acc,
                                     !.settlement = "submitted"]
  <2>1. flows[f] \in Row
    BY <1>1, FlowRowType DEF Frozen, Bound
  <2>2. row \in Row
    <3> DEFINE r1 == [flows[f] EXCEPT !.state = "submitted"]
    <3>1. r1 \in Row
      BY <2>1 DEF Row, FlowStates
    <3> HIDE DEF r1
    <3> DEFINE r2 == [r1 EXCEPT !.revision = 3]
    <3>2. r2 \in Row
      BY <3>1 DEF Row
    <3> HIDE DEF r2
    <3> DEFINE r3 == [r2 EXCEPT !.acceptance = acc]
    <3>3. r3 \in Row
      BY <3>2 DEF Row
    <3> HIDE DEF r3
    <3>4. [r3 EXCEPT !.settlement = "submitted"] \in Row
      BY <3>3 DEF Row
    <3> QED BY <3>4 DEF r1, r2, r3
  <2>3. /\ Write(f, row, "submitted", "settling")
        /\ approvals' \in [Flows -> {"none", "signed", "withdrawn"}]
    BY <1>1 DEF RecordExecution, RecordsTypeOK
  <2> HIDE DEF row
  <2> QED BY <2>2, <2>3, WriteType DEF TabStates
<1>2. CASE ~Bound(f, b)
  BY <1>2 DEF RecordExecution, RecordsTypeOK, recordVars
<1> QED BY <1>1, <1>2

LEMMA OutcomeRowType ==
  ASSUME NEW row \in Row, NEW target \in Outcomes, NEW rev \in 1..5
  PROVE  [row EXCEPT !.state = target, !.revision = rev, !.settlement = target]
           \in Row
<1> DEFINE r1 == [row EXCEPT !.state = target]
<1>1. r1 \in Row
  BY DEF Row, FlowStates
<1> HIDE DEF r1
<1> DEFINE r2 == [r1 EXCEPT !.revision = rev]
<1>2. r2 \in Row
  BY <1>1 DEF Row
<1> HIDE DEF r2
<1>3. [r2 EXCEPT !.settlement = target] \in Row
  BY <1>2 DEF Row
<1> QED BY <1>3 DEF r1, r2

LEMMA RecordTerminalType ==
  ASSUME RecordsTypeOK, NEW f \in Flows, NEW target \in Outcomes,
         RecordTerminal(f, target)
  PROVE  RecordsTypeOK'
<1>1. CASE flows[f].state = "submitted"
  <2> DEFINE row == [flows[f] EXCEPT !.state = target, !.revision = 4,
                                     !.settlement = target]
             tab == IF target = "verified_settled" THEN target ELSE "failed"
  <2>1. flows[f] \in Row
    BY <1>1, FlowRowType DEF Frozen
  <2>2. row \in Row
    <3>1. 4 \in 1..5
      OBVIOUS
    <3> QED BY <2>1, <3>1, OutcomeRowType
  <2>3. /\ Write(f, row, "terminal", tab)
        /\ approvals' \in [Flows -> {"none", "signed", "withdrawn"}]
    BY <1>1 DEF RecordTerminal, RecordsTypeOK
  <2>4. tab \in TabStates
    BY DEF TabStates
  <2> HIDE DEF row, tab
  <2> QED BY <2>2, <2>3, <2>4, WriteType
<1>2. CASE flows[f].state # "submitted"
  BY <1>2 DEF RecordTerminal, RecordsTypeOK, recordVars
<1> QED BY <1>1, <1>2

LEMMA ReconcileFlowType ==
  ASSUME RecordsTypeOK, NEW f \in Flows, ReconcileFlow(f)
  PROVE  RecordsTypeOK'
<1>1. CASE flows[f].state \in {"completed_unverified", "timeout"}
  <2> DEFINE row == [flows[f] EXCEPT !.state = "verified_settled",
                                     !.revision = 5,
                                     !.settlement = "verified_settled"]
  <2>1. flows[f] \in Row
    BY <1>1, FlowRowType DEF Frozen
  <2>2. row \in Row
    <3>1. 5 \in 1..5 /\ "verified_settled" \in Outcomes
      BY DEF Outcomes
    <3> QED BY <2>1, <3>1, OutcomeRowType
  <2>3. /\ Write(f, row, "reconciled", "verified_settled")
        /\ approvals' \in [Flows -> {"none", "signed", "withdrawn"}]
    BY <1>1 DEF ReconcileFlow, RecordsTypeOK
  <2> HIDE DEF row
  <2> QED BY <2>2, <2>3, WriteType DEF TabStates
<1>2. CASE flows[f].state \notin {"completed_unverified", "timeout"}
  BY <1>2 DEF ReconcileFlow, RecordsTypeOK, recordVars
<1> QED BY <1>1, <1>2

(***************************************************************************)
(* What a step of the journal does to a row: RowMoves, with JournalKeeps.  *)
(***************************************************************************)
RowMoves ==
  \A k \in Keys :
    Exists(k) =>
      /\ intents[k].flow # NoFlow => intents'[k].flow = intents[k].flow
      /\ \/ intents'[k].state = intents[k].state
         \/ intents[k].state = "prepared" /\ intents'[k].state = "accepted"
         \/ /\ MayAdvance(intents[k].state, intents'[k].state)
            /\ intents'[k].state \in Terminal

\* No step but a request's own read or prepare attaches a flow to a row.
NothingAttached ==
  \A k \in Keys :
    Exists(k)' /\ intents'[k].flow # NoFlow =>
      Exists(k) /\ intents'[k].flow = intents[k].flow

LEMMA ReadRetryAttaches ==
  ASSUME JournalTypeOK, NEW k \in Keys, NEW p, NEW b, NEW a \in Requests,
         NEW f \in Flows \cup {NoFlow}, ReadRetry(k, p, b, a, f)
  PROVE  /\ RowMoves
         /\ Exists(k) => intents'[k].flow = f /\ intents'[k].body = b
<1>1. \A j \in Keys : (j # k \/ ~Exists(k)) => intents'[j] = intents[j]
  BY DEF ReadRetry, JournalTypeOK
<1>2. ASSUME Exists(k)
      PROVE  /\ intents'[k].flow = f /\ intents'[k].body = b
             /\ intents'[k].state = intents[k].state
             /\ intents[k].flow # NoFlow => f = intents[k].flow
  <2> DEFINE n == Renewed(intents[k], a)
  <2>1. intents[k] \in Intent
    BY <1>2, RowType
  <2>2. Binds(intents[k], p, b, f)
    BY <1>2 DEF ReadRetry, RetryConflict
  <2>3. /\ n \in Intent /\ n.flow = intents[k].flow
        /\ n.body = intents[k].body /\ n.state = intents[k].state
    BY <2>1 DEF Renewed, Intent
  <2>4. intents'[k] = Attached(n, f)
    BY <1>2 DEF ReadRetry, JournalTypeOK
  <2> HIDE DEF n
  <2> QED BY <2>2, <2>3, <2>4 DEF Attached, Intent, Binds
<1> QED BY <1>1, <1>2 DEF RowMoves

LEMMA PrepareAttaches ==
  ASSUME JournalTypeOK, NEW k \in Keys, NEW p \in Principals, NEW b \in Bodies,
         NEW a \in Requests, NEW s \in Simulations,
         NEW f \in Flows \cup {NoFlow}, Prepare(k, p, b, a, s, f)
  PROVE  /\ RowMoves
         /\ intents'[k].flow = f /\ intents'[k].body = b
         /\ \A j \in Keys : j # k => intents'[j] = intents[j]
<1> DEFINE row == PreparedRow(k, p, b, a, s, f)
           att == Attached(row, f)
<1>1. row \in Intent
  BY RowType DEF PreparedRow, Intent, IntentStates
<1>2. /\ row.body = b /\ row.flow \in {NoFlow, f}
      /\ Exists(k) => row = intents[k]
  BY DEF PreparedRow, Prepare, PrepareConflict, Binds
<1>3. intents'[k] = Renewed(att, a)
  BY DEF Prepare, JournalTypeOK
<1>4. \A j \in Keys : j # k => intents'[j] = intents[j]
  BY DEF Prepare, JournalTypeOK
<1> HIDE DEF row
<1>5. /\ att \in Intent /\ att.flow = f /\ att.body = b
      /\ att.state = row.state
  BY <1>1, <1>2 DEF Attached, Intent
<1> HIDE DEF att
<1>6. /\ intents'[k].flow = f /\ intents'[k].body = b
      /\ intents'[k].state = row.state
  BY <1>3, <1>5 DEF Renewed, Intent
<1> QED BY <1>2, <1>4, <1>6 DEF RowMoves

LEMMA AcceptanceMoves ==
  ASSUME JournalTypeOK, NEW k \in Keys, NEW p, NEW b, NEW acc \in Acceptances,
         RecordAcceptance(k, p, b, acc)
  PROVE  RowMoves /\ NothingAttached
<1>1. Exists(k) /\ intents[k] \in Intent
  BY RowType DEF RecordAcceptance, AcceptanceConflict
<1>2. CASE intents[k].state = "prepared"
  <2>1. /\ intents'[k].state = "accepted"
        /\ intents'[k].flow = intents[k].flow
        /\ \A j \in Keys : j # k => intents'[j] = intents[j]
    BY <1>1, <1>2 DEF RecordAcceptance, JournalTypeOK, Intent
  <2> QED BY <1>1, <1>2, <2>1 DEF RowMoves, NothingAttached, Exists
<1>3. CASE intents[k].state # "prepared"
  BY <1>3 DEF RecordAcceptance, journalVars, RowMoves, NothingAttached, Exists
<1> QED BY <1>2, <1>3

LEMMA ObservationMoves ==
  ASSUME JournalTypeOK, NEW k \in Keys, NEW target \in Terminal, Exists(k),
         RecordObservation(k, target)
  PROVE  /\ RowMoves /\ NothingAttached
         /\ intents'[k].state \in {target, "verified_settled"}
         /\ intents'[k].state # target => intents'[k].state = intents[k].state
<1>1. intents[k] \in Intent
  BY RowType
<1>2. CASE MayAdvance(intents[k].state, target)
  <2>1. /\ intents'[k].state = target
        /\ intents'[k].flow = intents[k].flow
        /\ \A j \in Keys : j # k => intents'[j] = intents[j]
    BY <1>1, <1>2 DEF RecordObservation, JournalTypeOK, Intent
  <2> QED BY <1>2, <2>1 DEF RowMoves, NothingAttached, Exists
<1>3. CASE ~MayAdvance(intents[k].state, target)
  <2>1. intents' = intents
    BY <1>3 DEF RecordObservation, journalVars
  <2>2. intents[k].state \in {target, "verified_settled"}
    BY <1>3 DEF RecordObservation, ObservationConflict
  <2> QED BY <2>1, <2>2 DEF RowMoves, NothingAttached, Exists
<1> QED BY <1>2, <1>3

LEMMA NothingMoves ==
  ASSUME UNCHANGED intents
  PROVE  RowMoves /\ NothingAttached
BY DEF RowMoves, NothingAttached, Exists

(***************************************************************************)
(* The agreements that a step does not disturb.                            *)
(***************************************************************************)
Agreement == FlowTypeOK /\ SubmissionInvariant /\ FlowInvariant

FlowsKeep ==
  \A f \in Flows :
    /\ flows[f].revision >= 2 => /\ flows'[f].revision >= 2
                                 /\ flows'[f].body = flows[f].body
    /\ Submitted(f) => Submitted(f)'

LEMMA FlowRowFrame ==
  ASSUME Agreement, JournalKeeps, RowMoves,
         NEW f \in Flows, flows'[f] = flows[f]
  PROVE  FlowRowOK(f)'
<1> SUFFICES ASSUME NEW k, k = KeyOf[f], Submitted(f)
             PROVE  /\ intents'[k].state # "absent" /\ intents'[k].state # "prepared"
                    /\ intents'[k].flow = f
                    /\ intents'[k].body = flows[f].body
                    /\ intents'[k].acceptance = flows[f].acceptance
                    /\ flows[f].state \in {"verified_settled", "failed"} =>
                         intents'[k].state = flows[f].state
                    /\ flows[f].state \in {"completed_unverified", "timeout"} =>
                         intents'[k].state \in {flows[f].state, "verified_settled"}
  BY DEF FlowRowOK, Submitted
<1>1. /\ intents[k].state # "absent" /\ intents[k].state # "prepared"
      /\ intents[k].flow = f
      /\ intents[k].body = flows[f].body
      /\ intents[k].acceptance = flows[f].acceptance
      /\ flows[f].state \in {"verified_settled", "failed"} =>
           intents[k].state = flows[f].state
      /\ flows[f].state \in {"completed_unverified", "timeout"} =>
           intents[k].state \in {flows[f].state, "verified_settled"}
  BY DEF Agreement, FlowInvariant, FlowFollowsJournal, FlowRowOK
<1>2. k \in Keys /\ Exists(k) /\ f # NoFlow
  BY <1>1, FlowAssumption, DomainAssumption DEF Exists
<1>3. intents[k].acceptance # NoAcceptance
  BY <1>1, <1>2 DEF Agreement, SubmissionInvariant, RowOK, RevisionAllows
<1>4. /\ intents'[k].flow = f /\ intents'[k].body = intents[k].body
      /\ intents'[k].acceptance = intents[k].acceptance
      /\ intents[k].state \in {"verified_settled", "failed"} =>
           intents'[k].state = intents[k].state
      /\ \/ intents'[k].state = intents[k].state
         \/ /\ MayAdvance(intents[k].state, intents'[k].state)
            /\ intents'[k].state \in Terminal
  BY <1>1, <1>2, <1>3 DEF JournalKeeps, RowMoves
<1>5. intents'[k].state # "absent" /\ intents'[k].state # "prepared"
  BY <1>1, <1>4 DEF Terminal
<1> QED BY <1>1, <1>4, <1>5 DEF MayAdvance

LEMMA ReviewedFrame ==
  ASSUME Agreement, JournalKeeps, FlowsKeep, NothingAttached
  PROVE  AttachedAsReviewed'
<1> SUFFICES ASSUME NEW k \in Keys, NEW f, f = intents'[k].flow,
                    Exists(k)', f # NoFlow
             PROVE  KeyOf[f] = k /\ flows'[f].revision >= 2
                    /\ flows'[f].body = intents'[k].body
  BY DEF AttachedAsReviewed
<1>1. Exists(k) /\ intents[k].flow = f /\ f \in Flows
  BY RowType DEF NothingAttached, Agreement, FlowTypeOK, TypeOK, Intent
<1>2. /\ KeyOf[f] = k /\ flows[f].revision >= 2
      /\ flows[f].body = intents[k].body
  BY <1>1 DEF Agreement, FlowInvariant, AttachedAsReviewed
<1> QED BY <1>1, <1>2 DEF FlowsKeep, JournalKeeps

LEMMA RequestFrame ==
  ASSUME Agreement, JournalKeeps, RowMoves,
         NEW r \in Requests, req'[r] = req[r], seen'[r] = seen[r]
  PROVE  FlowRequestOK(r)'
<1>1. FlowRequestOK(r) /\ HandlerOK(r)
  BY DEF Agreement, FlowInvariant, SubmissionInvariant
<1>2. req[r].pc # "idle" => req[r] \in Handler
  BY HandlerType DEF Agreement, FlowTypeOK, TypeOK
<1>3. ASSUME req[r].pc \in {"recheck", "post", "accept", "done"}, Attaches(r)
      PROVE  intents'[req[r].key].flow = req[r].flow
  <2>1. /\ Exists(req[r].key) /\ req[r].key \in Keys
        /\ intents[req[r].key].flow = req[r].flow
    BY <1>1, <1>2, <1>3 DEF HandlerOK, FlowRequestOK, Handler
  <2> QED BY <1>3, <2>1 DEF RowMoves, Attaches
<1> QED BY <1>1, <1>3 DEF FlowRequestOK, Attaches, Free

LEMMA StatusFrame ==
  ASSUME Agreement, JournalKeeps, RowMoves, FlowsKeep,
         NEW o \in Observers, watch'[o] = watch[o],
         flowWatch'[o] = flowWatch[o]
  PROVE  FlowStatusOK(o)'
<1> SUFFICES ASSUME NEW w, w = flowWatch[o], w.pc # "idle"
             PROVE  FlowStatusOK(o)'
  BY DEF FlowStatusOK
<1>1. w \in FlowWatcher
  BY DEF Agreement, FlowTypeOK, NotWatching
<1>2. FlowStatusOK(o)
  BY DEF Agreement, FlowInvariant
<1>3. Submitted(w.flow)'
  BY <1>1, <1>2 DEF FlowStatusOK, FlowsKeep, FlowWatcher
<1>4. ASSUME w.pc = "write", NEW k, k = KeyOf[w.flow]
      PROVE  /\ intents'[k].state \in {w.target, "verified_settled"}
             /\ w.target = "failed" => intents'[k].state = "failed"
  <2>1. /\ intents[k].state \in {w.target, "verified_settled"}
        /\ w.target = "failed" => intents[k].state = "failed"
    BY <1>2, <1>4 DEF FlowStatusOK
  <2>2. k \in Keys /\ w.target \in Outcomes
    BY <1>1, <1>4, FlowAssumption DEF FlowWatcher
  <2>3. Exists(k)
    BY <2>1, <2>2 DEF Exists, Outcomes
  <2>4. \/ intents'[k].state = intents[k].state
        \/ intents[k].state = "prepared" /\ intents'[k].state = "accepted"
        \/ MayAdvance(intents[k].state, intents'[k].state)
    BY <2>2, <2>3 DEF RowMoves
  <2> QED BY <2>1, <2>2, <2>4 DEF MayAdvance, Outcomes
<1> QED BY <1>2, <1>3, <1>4 DEF FlowStatusOK

(***************************************************************************)
(* The functions that write a flow's row, on a journal that stays as it    *)
(* is: FlowMoves(f) is what each owes to the invariant.                    *)
(***************************************************************************)
FlowMoves(f) ==
  /\ \A g \in Flows \ {f} : flows'[g] = flows[g]
  /\ FlowsKeep
  /\ Frozen(f)' => FlowShape(flows'[f])
  /\ FlowRowOK(f)'

LEMMA RecordsStep ==
  ASSUME Agreement, UNCHANGED vars, NEW f \in Flows, FlowMoves(f),
         \A r \in Requests : FlowRequestOK(r)',
         \A o \in Observers : FlowStatusOK(o)'
  PROVE  FlowInvariant'
<1>1. JournalKeeps /\ RowMoves /\ NothingAttached
  <2>1. UNCHANGED <<hubVars, journalVars, intents>>
    BY DEF vars, hubVars, journalVars
  <2> QED BY <2>1, LocalKeeps, NothingMoves DEF Agreement, FlowTypeOK
<1>2. \A g \in Flows : FlowRowOK(g)'
  BY <1>1, FlowRowFrame DEF FlowMoves
<1>3. \A g \in Flows : Frozen(g)' => FlowShape(flows'[g])
  BY DEF FlowMoves, Agreement, FlowInvariant, Frozen
<1>4. AttachedAsReviewed'
  BY <1>1, ReviewedFrame DEF FlowMoves
<1> QED BY <1>2, <1>3, <1>4 DEF FlowInvariant, FlowFollowsJournal

LEMMA NoFlowMoves ==
  ASSUME Agreement, UNCHANGED <<vars, recordVars>>, NEW f \in Flows
  PROVE  FlowMoves(f)
<1>1. flows' = flows /\ intents' = intents
  BY DEF vars, recordVars
<1> QED BY <1>1 DEF FlowMoves, FlowsKeep, Agreement, FlowInvariant,
             FlowFollowsJournal, FlowRowOK, Submitted, Frozen

LEMMA WriteMoves ==
  ASSUME RecordsTypeOK, NEW f \in Flows, NEW row, NEW kind, NEW tab,
         Write(f, row, kind, tab)
  PROVE  flows'[f] = row /\ \A g \in Flows \ {f} : flows'[g] = flows[g]
BY DEF Write, RecordsTypeOK

LEMMA FreezeMoves ==
  ASSUME Agreement, UNCHANGED vars, NEW f \in Flows, Freeze(f)
  PROVE  FlowMoves(f)
<1> DEFINE row == [state |-> "frozen", revision |-> 1, body |-> NoBody,
                   acceptance |-> NoAcceptance, settlement |-> "draft"]
<1>1. flows'[f] = row /\ \A g \in Flows \ {f} : flows'[g] = flows[g]
  BY WriteMoves DEF Freeze, Agreement, FlowTypeOK
<1>2. flows[f] = NoRow
  BY DEF Freeze, MayFreeze, Frozen, Agreement, FlowTypeOK, RecordsTypeOK,
         Row, FlowStates, Outcomes
<1>3. FlowsKeep
  BY <1>1, <1>2 DEF FlowsKeep, NoRow, Submitted, Outcomes
<1>4. FlowShape(flows'[f]) /\ ~Submitted(f)'
  BY <1>1 DEF FlowShape, Submitted, Outcomes
<1> QED BY <1>1, <1>3, <1>4 DEF FlowMoves, FlowRowOK

\* The row of a flow in a given state, as the table's check allows it.
LEMMA RowShape ==
  ASSUME Agreement, NEW f \in Flows, Frozen(f)
  PROVE  /\ flows[f] \in Row /\ FlowShape(flows[f])
         /\ flows[f].state = "frozen" =>
              flows[f].revision = 1 /\ flows[f].acceptance = NoAcceptance
         /\ flows[f].state = "simulated" =>
              flows[f].revision = 2 /\ flows[f].body # NoBody
         /\ flows[f].state = "submitted" =>
              /\ flows[f].revision = 3 /\ flows[f].body # NoBody
              /\ flows[f].acceptance # NoAcceptance
         /\ flows[f].state \in Outcomes =>
              /\ flows[f].revision \in {4, 5} /\ flows[f].body # NoBody
              /\ flows[f].acceptance # NoAcceptance
<1>1. flows[f] \in Row /\ FlowShape(flows[f])
  BY FlowRowType DEF Agreement, FlowTypeOK, FlowInvariant
<1> QED BY <1>1 DEF FlowShape, Outcomes

LEMMA SimulationMoves ==
  ASSUME Agreement, UNCHANGED vars, NEW f \in Flows, NEW b \in Bodies,
         RecordSimulation(f, b)
  PROVE  FlowMoves(f)
<1>1. CASE flows[f].state = "frozen" /\ approvals[f] # "withdrawn"
  <2> DEFINE row == [flows[f] EXCEPT !.state = "simulated", !.revision = 2,
                                     !.body = b, !.settlement = "simulated"]
  <2>1. /\ flows[f] \in Row
        /\ flows[f].revision = 1 /\ flows[f].acceptance = NoAcceptance
    BY <1>1, RowShape DEF Frozen
  <2>2. flows'[f] = row /\ \A g \in Flows \ {f} : flows'[g] = flows[g]
    BY <1>1, WriteMoves DEF RecordSimulation, Agreement, FlowTypeOK
  <2>3. /\ row.state = "simulated" /\ row.revision = 2 /\ row.body = b
        /\ row.acceptance = NoAcceptance
    BY <2>1 DEF Row
  <2> HIDE DEF row
  <2>4. FlowsKeep
    BY <1>1, <2>1, <2>2 DEF FlowsKeep, Submitted, Outcomes
  <2>5. FlowShape(flows'[f]) /\ ~Submitted(f)'
    BY <2>2, <2>3, FlowAssumption DEF FlowShape, Submitted, Outcomes
  <2> QED BY <2>2, <2>4, <2>5 DEF FlowMoves, FlowRowOK
<1>2. CASE ~(flows[f].state = "frozen" /\ approvals[f] # "withdrawn")
  BY <1>2, NoFlowMoves DEF RecordSimulation
<1> QED BY <1>1, <1>2

\* persistAcceptedExecution writes what the journal already holds.
LEMMA ExecutionMoves ==
  ASSUME Agreement, UNCHANGED vars, NEW f \in Flows, NEW b \in Bodies,
         NEW acc \in Acceptances, RecordExecution(f, b, acc),
         Exists(KeyOf[f]), intents[KeyOf[f]].flow = f,
         intents[KeyOf[f]].body = b, intents[KeyOf[f]].acceptance = acc,
         acc # NoAcceptance
  PROVE  FlowMoves(f)
<1>1. CASE Bound(f, b)
  <2> DEFINE row == [flows[f] EXCEPT !.state = "submitted", !.revision = 3,
                                     !.acceptance = acc,
                                     !.settlement = "submitted"]
  <2>1. /\ flows[f] \in Row /\ flows[f].revision = 2
        /\ flows[f].state = "simulated" /\ flows[f].body = b
    BY <1>1, RowShape DEF Frozen, Bound
  <2>2. flows'[f] = row /\ \A g \in Flows \ {f} : flows'[g] = flows[g]
    BY <1>1, WriteMoves DEF RecordExecution, Agreement, FlowTypeOK
  <2>3. /\ row.state = "submitted" /\ row.revision = 3 /\ row.body = b
        /\ row.acceptance = acc
    BY <2>1 DEF Row
  <2> HIDE DEF row
  <2>4. FlowsKeep
    BY <2>1, <2>2, <2>3 DEF FlowsKeep, Submitted, Outcomes
  <2>5. FlowShape(flows'[f])
    BY <2>2, <2>3, FlowAssumption DEF FlowShape
  <2>6. /\ intents[KeyOf[f]].state # "absent"
        /\ intents[KeyOf[f]].state # "prepared"
    BY FlowAssumption
       DEF Agreement, SubmissionInvariant, RowOK, RevisionAllows, Exists, Terminal
  <2>7. FlowRowOK(f)'
    BY <2>2, <2>3, <2>6 DEF FlowRowOK, vars
  <2> QED BY <2>2, <2>4, <2>5, <2>7 DEF FlowMoves
<1>2. CASE ~Bound(f, b)
  BY <1>2, NoFlowMoves DEF RecordExecution
<1> QED BY <1>1, <1>2

\* An outcome that the journal holds, or that it has corrected to verified.
LEMMA TerminalMoves ==
  ASSUME Agreement, UNCHANGED vars, NEW f \in Flows, NEW target \in Outcomes,
         RecordTerminal(f, target),
         intents[KeyOf[f]].state \in {target, "verified_settled"},
         target = "failed" => intents[KeyOf[f]].state = "failed"
  PROVE  FlowMoves(f)
<1>1. CASE flows[f].state = "submitted"
  <2> DEFINE row == [flows[f] EXCEPT !.state = target, !.revision = 4,
                                     !.settlement = target]
  <2>1. /\ flows[f] \in Row /\ flows[f].revision = 3
        /\ flows[f].body # NoBody /\ flows[f].acceptance # NoAcceptance
    BY <1>1, RowShape DEF Frozen
  <2>2. flows'[f] = row /\ \A g \in Flows \ {f} : flows'[g] = flows[g]
    BY <1>1, WriteMoves DEF RecordTerminal, Agreement, FlowTypeOK
  <2>3. /\ row.state = target /\ row.revision = 4 /\ row.body = flows[f].body
        /\ row.acceptance = flows[f].acceptance
    BY <2>1 DEF Row
  <2> HIDE DEF row
  <2>4. FlowsKeep
    BY <2>1, <2>2, <2>3 DEF FlowsKeep, Submitted
  <2>5. FlowShape(flows'[f])
    BY <2>1, <2>2, <2>3 DEF FlowShape
  <2>6. FlowRowOK(f) /\ Submitted(f)
    BY <1>1 DEF Agreement, FlowInvariant, FlowFollowsJournal, Submitted
  <2>7. FlowRowOK(f)'
    BY <2>2, <2>3, <2>6 DEF FlowRowOK, vars
  <2> QED BY <2>2, <2>4, <2>5, <2>7 DEF FlowMoves
<1>2. CASE flows[f].state # "submitted"
  BY <1>2, NoFlowMoves DEF RecordTerminal
<1> QED BY <1>1, <1>2

LEMMA ReconcileMoves ==
  ASSUME Agreement, UNCHANGED vars, NEW f \in Flows, ReconcileFlow(f),
         intents[KeyOf[f]].state = "verified_settled"
  PROVE  FlowMoves(f)
<1>1. CASE flows[f].state \in {"completed_unverified", "timeout"}
  <2> DEFINE row == [flows[f] EXCEPT !.state = "verified_settled",
                                     !.revision = 5,
                                     !.settlement = "verified_settled"]
  <2>1. /\ flows[f] \in Row
        /\ flows[f].body # NoBody /\ flows[f].acceptance # NoAcceptance
    BY <1>1, RowShape DEF Frozen, Outcomes
  <2>2. flows'[f] = row /\ \A g \in Flows \ {f} : flows'[g] = flows[g]
    BY <1>1, WriteMoves DEF ReconcileFlow, Agreement, FlowTypeOK
  <2>3. /\ row.state = "verified_settled" /\ row.revision = 5
        /\ row.body = flows[f].body /\ row.acceptance = flows[f].acceptance
    BY <2>1 DEF Row
  <2> HIDE DEF row
  <2>4. FlowsKeep
    BY <2>2, <2>3 DEF FlowsKeep, Submitted, Outcomes
  <2>5. FlowShape(flows'[f])
    BY <2>1, <2>2, <2>3 DEF FlowShape
  <2>6. FlowRowOK(f) /\ Submitted(f)
    BY <1>1 DEF Agreement, FlowInvariant, FlowFollowsJournal, Submitted, Outcomes
  <2>7. FlowRowOK(f)'
    BY <2>2, <2>3, <2>6 DEF FlowRowOK, vars
  <2> QED BY <2>2, <2>4, <2>5, <2>7 DEF FlowMoves
<1>2. CASE flows[f].state \notin {"completed_unverified", "timeout"}
  BY <1>2, NoFlowMoves DEF ReconcileFlow
<1> QED BY <1>1, <1>2

(***************************************************************************)
(* Type and invariant, one lemma per action.                               *)
(***************************************************************************)
AddedTypeOK ==
  /\ RecordsTypeOK
  /\ seen \in [Requests -> Snapshots]
  /\ simulated \subseteq Flows \X Bodies
  /\ flowWatch \in [Observers -> FlowWatcher \cup {NotWatching}]
  /\ flowFaults \in 0..MaxFlowFaults

LEMMA FlowFaultsType ==
  ASSUME flowFaults \in 0..MaxFlowFaults, FlowFault \/ NoFlowFault
  PROVE  flowFaults' \in 0..MaxFlowFaults
BY FlowFaultsAssumption DEF FlowFault, NoFlowFault

LEMMA RecordsStayType ==
  ASSUME RecordsTypeOK, RecordsStay
  PROVE  RecordsTypeOK' /\ FlowsKeep
BY DEF RecordsTypeOK, RecordsStay, recordVars, FlowsKeep, Submitted

\* Handlers that did not move, on a journal that stays as it is.
LEMMA HandlersFrame ==
  ASSUME Agreement, UNCHANGED vars, FlowsKeep
  PROVE  /\ \A r \in Requests : seen'[r] = seen[r] => FlowRequestOK(r)'
         /\ \A o \in Observers : flowWatch'[o] = flowWatch[o] => FlowStatusOK(o)'
<1>1. JournalKeeps /\ RowMoves /\ req' = req /\ watch' = watch
  <2>1. UNCHANGED <<hubVars, journalVars, intents, req, watch>>
    BY DEF vars, hubVars, journalVars
  <2> QED BY <2>1, LocalKeeps, NothingMoves DEF Agreement, FlowTypeOK
<1> QED BY <1>1, RequestFrame, StatusFrame

LEMMA ChannelKeeps ==
  ASSUME Agreement, NEW f \in Flows, Channel(f)
  PROVE  AddedTypeOK' /\ FlowInvariant'
<1>1. /\ UNCHANGED vars /\ UNCHANGED <<seen, flowWatch, flowFaults>>
      /\ RecordsTypeOK
  BY DEF Channel, FreezeFlow, SimulateFlow, PersistSimulation,
         WithdrawApproval, JournalStays, HandlersStay, NoFlowFault,
         Agreement, FlowTypeOK
<1>2. simulated' \subseteq Flows \X Bodies
  <2>1. simulated \subseteq Flows \X Bodies
    BY DEF Agreement, FlowTypeOK
  <2>2. \/ simulated' \subseteq simulated
        \/ \E b \in Bodies : simulated' = simulated \cup {<<f, b>>}
    BY DEF Channel, FreezeFlow, SimulateFlow, PersistSimulation,
           WithdrawApproval, HandlersStay
  <2>3. \A b \in Bodies : <<f, b>> \in Flows \X Bodies
    OBVIOUS
  <2> QED BY <2>1, <2>2, <2>3
<1>3. FlowMoves(f) /\ RecordsTypeOK'
  <2>1. CASE FreezeFlow(f)
    BY <1>1, <2>1, FreezeMoves, FreezeType DEF FreezeFlow
  <2>2. ASSUME NEW b \in Bodies, SimulateFlow(f, b)
        PROVE  FlowMoves(f) /\ RecordsTypeOK'
    BY <1>1, <2>2, NoFlowMoves, RecordsStayType DEF SimulateFlow, RecordsStay
  <2>3. ASSUME NEW b \in Bodies, PersistSimulation(f, b)
        PROVE  FlowMoves(f) /\ RecordsTypeOK'
    BY <1>1, <2>3, SimulationMoves, RecordSimulationType DEF PersistSimulation
  <2>4. CASE WithdrawApproval(f)
    <3>1. RecordsTypeOK'
      BY <1>1, <2>4 DEF WithdrawApproval, Withdraw, RecordsTypeOK
    <3>2. flows' = flows /\ intents' = intents
      BY <1>1, <2>4 DEF WithdrawApproval, Withdraw, vars
    <3> QED BY <3>1, <3>2
         DEF FlowMoves, FlowsKeep, Agreement, FlowInvariant,
             FlowFollowsJournal, FlowRowOK, Submitted, Frozen
  <2> QED BY <2>1, <2>2, <2>3, <2>4 DEF Channel
<1>4. /\ \A r \in Requests : FlowRequestOK(r)'
      /\ \A o \in Observers : FlowStatusOK(o)'
  BY <1>1, <1>3, HandlersFrame DEF FlowMoves
<1>5. FlowInvariant'
  BY <1>1, <1>3, <1>4, RecordsStep
<1> QED BY <1>1, <1>2, <1>3, <1>5 DEF AddedTypeOK, Agreement, FlowTypeOK

\* A step of one request's handler that writes no flow record.
LEMMA RequestStep ==
  ASSUME Agreement, JournalKeeps, RowMoves, RecordsStay, NEW r \in Requests,
         \A s \in Requests \ {r} : req'[s] = req[s] /\ seen'[s] = seen[s],
         FlowRequestOK(r)', AttachedAsReviewed',
         UNCHANGED <<watch, flowWatch>>
  PROVE  FlowInvariant'
<1>1. flows' = flows /\ FlowsKeep
  BY RecordsStayType DEF RecordsStay, recordVars, Agreement, FlowTypeOK
<1>2. \A f \in Flows : FlowRowOK(f)' /\ (Frozen(f)' => FlowShape(flows'[f]))
  BY <1>1, FlowRowFrame DEF Agreement, FlowInvariant, Frozen
<1>3. \A s \in Requests : FlowRequestOK(s)'
  BY RequestFrame
<1>4. \A o \in Observers : FlowStatusOK(o)'
  BY <1>1, StatusFrame
<1> QED BY <1>2, <1>3, <1>4 DEF FlowInvariant, FlowFollowsJournal

LEMMA StartStep ==
  ASSUME Agreement, NEW r \in Requests,
         \/ \E f \in Flows, p \in Principals, b \in Bodies : Execute(r, f, p, b)
         \/ SubmitPlain(r)
  PROVE  AddedTypeOK' /\ FlowInvariant'
<1>1. PICK k \in Keys, p \in Principals, b \in Bodies, f \in Flows \cup {NoFlow} :
        /\ Start(r, k, p, b, f)
        /\ f # NoFlow => k = KeyOf[f]
        /\ IF f = NoFlow THEN seen'[r] = "none"
                         ELSE seen'[r] \in {"frozen", "simulated"}
        /\ \A s \in Requests \ {r} : seen'[s] = seen[s]
        /\ seen' \in [Requests -> Snapshots]
  <2>1. seen \in [Requests -> Snapshots]
    BY DEF Agreement, FlowTypeOK
  <2>2. ASSUME NEW f \in Flows, NEW p \in Principals, NEW b \in Bodies,
               Execute(r, f, p, b)
        PROVE  /\ KeyOf[f] \in Keys /\ f # NoFlow
               /\ Start(r, KeyOf[f], p, b, f)
               /\ seen'[r] \in {"frozen", "simulated"}
               /\ \A s \in Requests \ {r} : seen'[s] = seen[s]
               /\ seen' \in [Requests -> Snapshots]
    BY <2>1, <2>2, FlowAssumption, DomainAssumption DEF Execute, Snapshots
  <2>3. CASE SubmitPlain(r)
    BY <2>1, <2>3, DomainAssumption DEF SubmitPlain, Free, HandlersStay
  <2> QED BY <2>2, <2>3
<1>2. /\ req'[r].pc = "read" /\ req'[r].key = k /\ req'[r].flow = f
      /\ \A s \in Requests \ {r} : req'[s] = req[s]
      /\ UNCHANGED <<hubVars, journalVars, watch>>
  BY <1>1 DEF Start, Agreement, FlowTypeOK, TypeOK
<1>3. RecordsStay /\ NoFlowFault /\ UNCHANGED <<simulated, flowWatch>>
  BY DEF Execute, SubmitPlain, HandlersStay
<1>4. JournalKeeps /\ RowMoves /\ NothingAttached
  <2>1. UNCHANGED intents
    BY <1>2 DEF journalVars
  <2> QED BY <1>2, <2>1, LocalKeeps, NothingMoves DEF Agreement, FlowTypeOK
<1>5. RecordsTypeOK' /\ FlowsKeep
  BY <1>3, RecordsStayType DEF Agreement, FlowTypeOK
<1>6. FlowRequestOK(r)'
  BY <1>1, <1>2 DEF FlowRequestOK, Attaches, Free
<1>7. AttachedAsReviewed'
  BY <1>4, <1>5, ReviewedFrame
<1>8. FlowInvariant'
  BY <1>1, <1>2, <1>3, <1>4, <1>6, <1>7, RequestStep
<1>9. flowFaults' \in 0..MaxFlowFaults
  BY <1>3, FlowFaultsType DEF Agreement, FlowTypeOK
<1> QED BY <1>1, <1>3, <1>5, <1>8, <1>9 DEF AddedTypeOK, Agreement, FlowTypeOK

\* What a handler keeps for itself until it ends.
SlotKeeps(r) ==
  /\ \A s \in Requests \ {r} : req'[s] = req[s]
  /\ \/ req'[r].pc = "idle"
     \/ /\ req'[r].pc # "idle" /\ req'[r].key = req[r].key
        /\ req'[r].flow = req[r].flow /\ req'[r].body = req[r].body

LEMMA HandlerKeeps ==
  ASSUME TypeOK, NEW r \in Requests, Handle(r)
  PROVE  /\ req[r].pc # "idle" /\ req[r] \in Handler
         /\ UNCHANGED watch
         /\ SlotKeeps(r)
<1>1. req[r].pc # "idle"
  BY DEF Handle, ReadPrior, ReadRefused, Simulate, SimulationReverts,
         PrepareIntent, PrepareRefused, Recheck, RecheckRefused, PostAnswered,
         PostFails, PersistAcceptance, AcceptanceRefused, Lapse, Crash, At
<1>2. req[r] \in Handler
  BY <1>1, HandlerType DEF TypeOK
<1>3. UNCHANGED watch
  BY DEF Handle, ReadPrior, ReadRefused, Simulate, SimulationReverts,
         PrepareIntent, PrepareRefused, Recheck, RecheckRefused, PostAnswered,
         PostFails, PersistAcceptance, AcceptanceRefused, Lapse, Crash
<1> SUFFICES SlotKeeps(r)
  BY <1>1, <1>2, <1>3
<1>4. ASSUME Reject(r) PROVE SlotKeeps(r)
  BY <1>4 DEF Reject, TypeOK, Idle, SlotKeeps
<1>5. ASSUME NEW step \in Steps \ {"idle"}, Goto(r, step) PROVE SlotKeeps(r)
  BY <1>2, <1>5 DEF Goto, TypeOK, Handler, SlotKeeps
<1>6. ASSUME NEW h \in Handler, req' = [req EXCEPT ![r] = h],
             h.pc # "idle", h.key = req[r].key, h.flow = req[r].flow,
             h.body = req[r].body
      PROVE  SlotKeeps(r)
  BY <1>6 DEF TypeOK, SlotKeeps
<1>7. CASE ReadPrior(r)
  <2> DEFINE q == req[r]
             i == intents[q.key]
  <2>1. req' = [req EXCEPT ![r] =
          IF ~Exists(q.key) THEN [q EXCEPT !.pc = "simulate"]
          ELSE IF i.acceptance # NoAcceptance
               THEN [q EXCEPT !.pc = "done", !.accepted = i.acceptance,
                              !.simulation = i.simulation]
          ELSE [q EXCEPT !.pc = "recheck", !.simulation = i.simulation]]
    BY <1>7 DEF ReadPrior
  <2>2. Exists(q.key) => i \in Intent
    BY <1>2, RowType DEF TypeOK, Handler
  <2>3. CASE ~Exists(q.key)
    <3>1. [q EXCEPT !.pc = "simulate"] \in Handler
      BY <1>2 DEF Handler, Steps
    <3> QED BY <1>2, <1>6, <2>1, <2>3, <3>1 DEF Handler
  <2>4. CASE Exists(q.key) /\ i.acceptance # NoAcceptance
    <3> DEFINE h == [q EXCEPT !.pc = "done", !.accepted = i.acceptance,
                              !.simulation = i.simulation]
    <3>1. /\ h \in Handler /\ h.pc = "done" /\ h.key = q.key
          /\ h.flow = q.flow /\ h.body = q.body
      BY <1>2, <2>2, <2>4 DEF Handler, Steps, Intent
    <3> QED BY <1>6, <2>1, <2>4, <3>1
  <2>5. CASE Exists(q.key) /\ i.acceptance = NoAcceptance
    <3> DEFINE h == [q EXCEPT !.pc = "recheck", !.simulation = i.simulation]
    <3>1. /\ h \in Handler /\ h.pc = "recheck" /\ h.key = q.key
          /\ h.flow = q.flow /\ h.body = q.body
      BY <1>2, <2>2, <2>5 DEF Handler, Steps, Intent
    <3> QED BY <1>6, <2>1, <2>5, <3>1
  <2> QED BY <2>3, <2>4, <2>5
<1>8. CASE Simulate(r)
  <2>1. PICK s \in Simulations :
          req' = [req EXCEPT ![r].pc = "prepare", ![r].simulation = s]
    BY <1>8 DEF Simulate
  <2> DEFINE h == [req[r] EXCEPT !.pc = "prepare", !.simulation = s]
  <2>2. /\ h \in Handler /\ h.pc = "prepare" /\ h.key = req[r].key
        /\ h.flow = req[r].flow /\ h.body = req[r].body
    BY <1>2 DEF Handler, Steps
  <2>3. req' = [req EXCEPT ![r] = h]
    BY <1>2, <2>1 DEF TypeOK
  <2> HIDE DEF h
  <2> QED BY <1>6, <2>2, <2>3
<1>9. CASE PostAnswered(r)
  <2>1. PICK acc : acc \in Acceptances /\
          req' = [req EXCEPT ![r].pc = "accept", ![r].accepted = acc]
    BY <1>2, <1>9 DEF PostAnswered, Acceptances, TypeOK, HubTypeOK, Handler
  <2> DEFINE h == [req[r] EXCEPT !.pc = "accept", !.accepted = acc]
  <2>2. /\ h \in Handler /\ h.pc = "accept" /\ h.key = req[r].key
        /\ h.flow = req[r].flow /\ h.body = req[r].body
    BY <1>2, <2>1 DEF Handler, Steps
  <2>3. req' = [req EXCEPT ![r] = h]
    BY <1>2, <2>1 DEF TypeOK
  <2> HIDE DEF h
  <2> QED BY <1>6, <2>2, <2>3
<1>10. CASE Lapse(r)
  <2>1. [req[r] EXCEPT !.lapsed = TRUE] \in Handler
    BY <1>2 DEF Handler
  <2> QED BY <1>1, <1>2, <1>6, <1>10, <2>1 DEF Lapse, Handler
<1>11. CASE PrepareIntent(r) \/ Recheck(r) \/ PersistAcceptance(r)
  <2>1. Reject(r) \/ \E step \in Steps \ {"idle"} : Goto(r, step)
    <3>1. "recheck" \in Steps /\ "post" \in Steps /\ "done" \in Steps
      BY DEF Steps
    <3> QED BY <1>11, <3>1 DEF PrepareIntent, Recheck, PersistAcceptance
  <2> QED BY <1>4, <1>5, <2>1
<1>12. CASE \/ ReadRefused(r) \/ SimulationReverts(r) \/ PrepareRefused(r)
            \/ RecheckRefused(r) \/ PostFails(r) \/ AcceptanceRefused(r)
            \/ Crash(r)
  <2>1. Reject(r)
    BY <1>12 DEF ReadRefused, SimulationReverts, PrepareRefused,
                 RecheckRefused, PostFails, AcceptanceRefused, Crash
  <2> QED BY <1>4, <2>1
<1> QED BY <1>7, <1>8, <1>9, <1>10, <1>11, <1>12 DEF Handle

\* A row that a request attached to its flow is the flow's reviewed one.
LEMMA AttachStep ==
  ASSUME Agreement, JournalKeeps, RecordsStay, NEW r \in Requests,
         req[r] \in Handler, req[r].pc # "idle", FlowBinds(r),
         NEW k \in Keys, k = req[r].key,
         \A j \in Keys \ {k} : intents'[j] = intents[j],
         Exists(k)' => /\ intents'[k].flow = req[r].flow
                       /\ intents'[k].body = req[r].body
  PROVE  AttachedAsReviewed'
<1>1. flows' = flows
  BY DEF RecordsStay, recordVars
<1>2. FlowRequestOK(r) /\ AttachedAsReviewed
  BY DEF Agreement, FlowInvariant
<1>3. ASSUME NEW j \in Keys \ {k}, Exists(j)', intents'[j].flow # NoFlow
      PROVE  /\ KeyOf[intents'[j].flow] = j
             /\ flows'[intents'[j].flow].revision >= 2
             /\ flows'[intents'[j].flow].body = intents'[j].body
  BY <1>1, <1>2, <1>3 DEF AttachedAsReviewed, Exists
<1>4. ASSUME NEW f, f = req[r].flow, f # NoFlow
      PROVE  /\ KeyOf[f] = k /\ flows[f].revision >= 2
             /\ flows[f].body = req[r].body
  <2>1. f \in Flows /\ Attaches(r)
    BY <1>4 DEF Handler, Attaches
  <2>2. flows[f].state = "simulated" /\ flows[f].body = req[r].body
    BY <1>4, <2>1 DEF FlowBinds, Bound
  <2>3. flows[f].revision = 2
    BY <2>1, <2>2, RowShape DEF Frozen
  <2> QED BY <1>2, <1>4, <2>1, <2>2, <2>3 DEF FlowRequestOK
<1> SUFFICES ASSUME NEW j \in Keys, Exists(j)', NEW g, g = intents'[j].flow,
                    g # NoFlow
             PROVE  /\ KeyOf[g] = j /\ flows'[g].revision >= 2
                    /\ flows'[g].body = intents'[j].body
  BY DEF AttachedAsReviewed
<1>5. CASE j = k
  BY <1>1, <1>4, <1>5
<1> QED BY <1>3, <1>5

\* What a handler's step owes to the invariant besides leaving the flow's own
\* rows alone.
StepOwes(r) ==
  /\ RowMoves /\ AttachedAsReviewed'
  /\ req'[r].pc \in {"recheck", "post", "accept", "done"} /\ Attaches(r) =>
       intents'[req[r].key].flow = req[r].flow
  /\ req'[r].pc \in {"post", "accept"} /\ Attaches(r) => seen[r] = "cleared"

LEMMA ReadPriorOwes ==
  ASSUME Agreement, JournalKeeps, RecordsStay, NEW r \in Requests,
         ReadPrior(r), FlowBinds(r)
  PROVE  StepOwes(r)
<1> SUFFICES ASSUME NEW k, k = req[r].key, NEW p, p = req[r].principal,
                    NEW b, b = req[r].body, NEW f, f = req[r].flow
             PROVE  StepOwes(r)
  OBVIOUS
<1>1. TypeOK /\ req[r].pc = "read"
  BY DEF ReadPrior, At, Agreement, FlowTypeOK
<1>2. req[r] \in Handler
  BY <1>1, HandlerType DEF TypeOK
<1>3. k \in Keys /\ f \in Flows \cup {NoFlow}
  BY <1>2 DEF Handler
<1>4. ReadRetry(k, p, b, r, f)
  BY DEF ReadPrior
<1>5. /\ RowMoves
      /\ Exists(k) => intents'[k].flow = f /\ intents'[k].body = b
  BY <1>1, <1>3, <1>4, ReadRetryAttaches DEF TypeOK
<1>6. /\ \A j \in Keys \ {k} : intents'[j] = intents[j]
      /\ Exists(k)' => intents'[k].flow = f /\ intents'[k].body = b
  BY <1>1, <1>3, <1>4, <1>5 DEF ReadRetry, Exists, TypeOK, JournalTypeOK
<1>7. AttachedAsReviewed'
  BY <1>1, <1>2, <1>3, <1>5, <1>6, AttachStep
<1>8. /\ req'[r].pc \notin {"post", "accept"}
      /\ ~Exists(k) => req'[r].pc = "simulate"
  BY <1>1, <1>2 DEF ReadPrior, TypeOK, Handler
<1> QED BY <1>5, <1>7, <1>8 DEF StepOwes

LEMMA PrepareIntentOwes ==
  ASSUME Agreement, JournalKeeps, RecordsStay, NEW r \in Requests,
         PrepareIntent(r), FlowBinds(r)
  PROVE  StepOwes(r)
<1> SUFFICES ASSUME NEW k, k = req[r].key, NEW p, p = req[r].principal,
                    NEW b, b = req[r].body, NEW f, f = req[r].flow,
                    NEW s, s = req[r].simulation
             PROVE  StepOwes(r)
  OBVIOUS
<1>1. TypeOK /\ req[r].pc = "prepare"
  BY DEF PrepareIntent, At, Agreement, FlowTypeOK
<1>2. req[r] \in Handler
  BY <1>1, HandlerType DEF TypeOK
<1>3. /\ k \in Keys /\ f \in Flows \cup {NoFlow}
      /\ p \in Principals /\ b \in Bodies
  BY <1>2 DEF Handler
<1>4. s \in Simulations
  BY <1>1 DEF Agreement, SubmissionInvariant, HandlerOK, At
<1>5. Prepare(k, p, b, r, s, f)
  BY DEF PrepareIntent
<1>6. /\ RowMoves /\ intents'[k].flow = f /\ intents'[k].body = b
      /\ \A j \in Keys : j # k => intents'[j] = intents[j]
  BY <1>1, <1>3, <1>4, <1>5, PrepareAttaches DEF TypeOK
<1>7. AttachedAsReviewed'
  BY <1>1, <1>2, <1>3, <1>6, AttachStep
<1>8. req'[r].pc \notin {"post", "accept"}
  BY <1>1, <1>2 DEF PrepareIntent, Goto, Reject, Idle, TypeOK, Handler
<1> QED BY <1>6, <1>7, <1>8 DEF StepOwes

LEMMA AcceptanceOwes ==
  ASSUME Agreement, JournalKeeps, RecordsStay, NEW r \in Requests,
         PersistAcceptance(r)
  PROVE  StepOwes(r)
<1> SUFFICES ASSUME NEW k, k = req[r].key, NEW p, p = req[r].principal,
                    NEW b, b = req[r].body, NEW acc, acc = req[r].accepted
             PROVE  StepOwes(r)
  OBVIOUS
<1>1. TypeOK /\ req[r].pc = "accept"
  BY DEF PersistAcceptance, At, Agreement, FlowTypeOK
<1>2. req[r] \in Handler /\ k \in Keys
  BY <1>1, HandlerType DEF TypeOK, Handler
<1>3. acc \in Acceptances /\ Exists(k)
  BY <1>1 DEF Agreement, SubmissionInvariant, HandlerOK, At
<1>4. RecordAcceptance(k, p, b, acc)
  BY DEF PersistAcceptance
<1>5. RowMoves /\ NothingAttached
  BY <1>1, <1>2, <1>3, <1>4, AcceptanceMoves DEF TypeOK
<1>6. AttachedAsReviewed'
  BY <1>5, RecordsStayType, ReviewedFrame DEF Agreement, FlowTypeOK
<1>7. Attaches(r) => intents[k].flow = req[r].flow
  BY <1>1 DEF Agreement, FlowInvariant, FlowRequestOK
<1>8. Attaches(r) => intents'[k].flow = req[r].flow
  BY <1>2, <1>3, <1>5, <1>7 DEF RowMoves, Attaches
<1>9. req'[r].pc = "done"
  BY <1>1, <1>2 DEF PersistAcceptance, Goto, TypeOK, Handler
<1> QED BY <1>5, <1>6, <1>8, <1>9 DEF StepOwes

\* The steps that write nothing to the journal.
LEMMA OtherStepOwes ==
  ASSUME Agreement, JournalKeeps, RecordsStay, NEW r \in Requests,
         \/ ReadRefused(r) \/ Simulate(r) \/ SimulationReverts(r)
         \/ PrepareRefused(r) \/ JournalRecheck(r) \/ PostAnswered(r)
         \/ AcceptanceRefused(r) \/ RequestFault(r)
  PROVE  StepOwes(r)
<1>1. UNCHANGED intents
  BY DEF ReadRefused, Simulate, SimulationReverts, PrepareRefused,
         JournalRecheck, Recheck, RecheckRefused, PostAnswered,
         AcceptanceRefused, RequestFault, PostFails, Lapse, Crash, journalVars
<1>2. RowMoves /\ AttachedAsReviewed'
  BY <1>1, NothingMoves, RecordsStayType, ReviewedFrame DEF Agreement, FlowTypeOK
<1>3. TypeOK /\ FlowRequestOK(r)
  BY DEF Agreement, FlowTypeOK, FlowInvariant
<1>4. req[r].pc # "idle" => req[r] \in Handler
  BY <1>3, HandlerType DEF TypeOK
<1>5. CASE Simulate(r)
  BY <1>2, <1>3, <1>4, <1>5 DEF Simulate, At, StepOwes, TypeOK, Handler
<1>6. CASE PostAnswered(r)
  <2>1. req[r].pc = "post"
    BY <1>6 DEF PostAnswered, At
  <2>2. /\ Attaches(r) => seen[r] = "cleared"
        /\ Attaches(r) => intents[req[r].key].flow = req[r].flow
    BY <1>3, <2>1 DEF FlowRequestOK
  <2> QED BY <1>1, <1>2, <2>2 DEF StepOwes
<1>7. CASE JournalRecheck(r) /\ Recheck(r)
  <2>1. /\ req[r].pc = "recheck"
        /\ RecheckRefused(r) \/ (Attaches(r) => seen[r] = "cleared")
    BY <1>7 DEF JournalRecheck, Recheck, At
  <2>2. req'[r].pc = "post"
    BY <1>3, <1>4, <1>7, <2>1 DEF Recheck, Goto, TypeOK, Handler
  <2>3. ~RecheckRefused(r)
    BY <1>3, <2>2 DEF RecheckRefused, Reject, Idle, TypeOK
  <2>4. Attaches(r) => intents[req[r].key].flow = req[r].flow
    BY <1>3, <2>1 DEF FlowRequestOK
  <2> QED BY <1>1, <1>2, <2>1, <2>3, <2>4 DEF StepOwes
<1>8. CASE Lapse(r)
  <2>1. req'[r].pc = req[r].pc /\ req[r].pc # "idle"
    BY <1>3, <1>4, <1>8 DEF Lapse, TypeOK, Handler
  <2> QED BY <1>1, <1>2, <1>3, <2>1 DEF StepOwes, FlowRequestOK
<1>9. CASE Reject(r)
  <2>1. req'[r].pc = "idle"
    BY <1>3, <1>9 DEF Reject, Idle, TypeOK
  <2> QED BY <1>2, <2>1 DEF StepOwes
<1> QED BY <1>5, <1>6, <1>7, <1>8, <1>9
     DEF ReadRefused, SimulationReverts, PrepareRefused, JournalRecheck,
         RecheckRefused, AcceptanceRefused, RequestFault, PostFails, Crash

LEMMA HandlerStep ==
  ASSUME Agreement, JournalKeeps, NEW r \in Requests,
         RequestProgress(r) \/ RequestFault(r), Forget(r)
  PROVE  AddedTypeOK' /\ FlowInvariant'
<1>1. RecordsStay /\ NoFlowFault /\ UNCHANGED <<simulated, flowWatch>>
  BY DEF Forget
<1>2. /\ seen \in [Requests -> Snapshots] /\ TypeOK /\ FlowRequestOK(r)
      /\ simulated \subseteq Flows \X Bodies
      /\ flowWatch \in [Observers -> FlowWatcher \cup {NotWatching}]
  BY DEF Agreement, FlowTypeOK, FlowInvariant
<1>3. /\ seen' \in [Requests -> Snapshots]
      /\ \A s \in Requests \ {r} : seen'[s] = seen[s]
      /\ seen'[r] = IF req'[r].pc = "idle" THEN "none" ELSE seen[r]
  BY <1>2 DEF Forget, Snapshots
<1>4. StepOwes(r)
  BY <1>1, ReadPriorOwes, PrepareIntentOwes, AcceptanceOwes, OtherStepOwes
     DEF RequestProgress, JournalRead, JournalPrepare
<1>5. Handle(r)
  BY DEF RequestProgress, RequestFault, JournalRead, JournalPrepare,
         JournalRecheck, Handle
<1>6. /\ req[r].pc # "idle" /\ UNCHANGED watch
      /\ SlotKeeps(r)
  BY <1>2, <1>5, HandlerKeeps
<1>7. FlowRequestOK(r)'
  <2>1. CASE req'[r].pc = "idle"
    BY <1>3, <2>1 DEF FlowRequestOK, Free
  <2>2. CASE req'[r].pc # "idle"
    <3>1. /\ req'[r].key = req[r].key /\ req'[r].flow = req[r].flow
          /\ seen'[r] = seen[r]
      BY <1>3, <1>6, <2>2 DEF SlotKeeps
    <3> QED BY <1>2, <1>4, <1>6, <2>2, <3>1
         DEF FlowRequestOK, StepOwes, Attaches, Free
  <2> QED BY <2>1, <2>2
<1>8. FlowInvariant'
  BY <1>1, <1>3, <1>4, <1>6, <1>7, RequestStep DEF StepOwes, SlotKeeps
<1>9. RecordsTypeOK' /\ flowFaults' \in 0..MaxFlowFaults
  BY <1>1, RecordsStayType, FlowFaultsType DEF Agreement, FlowTypeOK
<1> QED BY <1>1, <1>2, <1>3, <1>8, <1>9 DEF AddedTypeOK

LEMMA RequestKeeps ==
  ASSUME Agreement, JournalKeeps, NEW r \in Requests, Request(r)
  PROVE  AddedTypeOK' /\ FlowInvariant'
<1> DEFINE f == req[r].flow
<1>1. /\ TypeOK /\ RecordsTypeOK /\ FlowRequestOK(r) /\ HandlerOK(r)
      /\ seen \in [Requests -> Snapshots]
      /\ simulated \subseteq Flows \X Bodies
      /\ flowWatch \in [Observers -> FlowWatcher \cup {NotWatching}]
  BY DEF Agreement, FlowTypeOK, FlowInvariant, SubmissionInvariant
<1>2. CASE \/ \E g \in Flows, p \in Principals, b \in Bodies : Execute(r, g, p, b)
           \/ SubmitPlain(r)
  BY <1>2, StartStep
<1>3. CASE (RequestProgress(r) \/ RequestFault(r)) /\ Forget(r)
  BY <1>3, HandlerStep
<1>4. ASSUME req[r].pc # "idle", Attaches(r), NEW n \in Snapshots,
             seen' = [seen EXCEPT ![r] = n],
             req[r].pc \notin {"post", "accept"},
             UNCHANGED vars, UNCHANGED <<simulated, flowWatch>>,
             FlowFault \/ NoFlowFault,
             FlowMoves(f), RecordsTypeOK'
      PROVE  AddedTypeOK' /\ FlowInvariant'
  <2>1. f \in Flows
    BY <1>1, <1>4, HandlerType DEF Attaches, Handler, TypeOK
  <2>2. req' = req /\ intents' = intents
    BY <1>4 DEF vars
  <2>3. FlowRequestOK(r)'
    BY <1>1, <1>4, <2>2 DEF FlowRequestOK, Attaches, Free
  <2>4. \A s \in Requests \ {r} : seen'[s] = seen[s]
    BY <1>1, <1>4
  <2>5. /\ \A s \in Requests : FlowRequestOK(s)'
        /\ \A o \in Observers : FlowStatusOK(o)'
    BY <1>4, <2>3, <2>4, HandlersFrame DEF FlowMoves
  <2>6. FlowInvariant'
    BY <1>4, <2>1, <2>5, RecordsStep
  <2>7. flowFaults' \in 0..MaxFlowFaults
    BY <1>4, FlowFaultsType DEF Agreement, FlowTypeOK
  <2> QED BY <1>1, <1>4, <2>6, <2>7 DEF AddedTypeOK
<1>5. CASE AssertApprovals(r)
  <2>1. /\ req[r].pc = "recheck" /\ Attaches(r)
        /\ seen' = [seen EXCEPT ![r] = "cleared"]
        /\ UNCHANGED vars /\ RecordsStay /\ NoFlowFault
        /\ UNCHANGED <<simulated, flowWatch>>
    BY <1>5 DEF AssertApprovals, At, JournalStays
  <2>2. f \in Flows /\ "cleared" \in Snapshots
    BY <1>1, <2>1, HandlerType DEF Attaches, Handler, TypeOK, Snapshots
  <2>3. FlowMoves(f) /\ RecordsTypeOK'
    BY <1>1, <2>1, <2>2, NoFlowMoves, RecordsStayType DEF RecordsStay
  <2> HIDE DEF f
  <2> QED BY <1>4, <2>1, <2>2, <2>3
<1>6. CASE PersistExecution(r) \/ CrashBeforeFlow(r)
  <2>1. /\ req[r].pc = "done" /\ ~Free(r)
        /\ seen' = [seen EXCEPT ![r] = "none"]
        /\ UNCHANGED vars /\ (FlowFault \/ NoFlowFault)
        /\ UNCHANGED <<simulated, flowWatch>>
    BY <1>6 DEF PersistExecution, CrashBeforeFlow, At, JournalStays
  <2>2. /\ Attaches(r) /\ req[r].key = KeyOf[f]
        /\ intents[req[r].key].flow = f
    BY <1>1, <2>1 DEF FlowRequestOK
  <2>3. /\ f \in Flows /\ req[r] \in Handler /\ "none" \in Snapshots
    BY <1>1, <2>1, <2>2, HandlerType DEF Attaches, Handler, TypeOK, Snapshots
  <2>4. FlowMoves(f) /\ RecordsTypeOK'
    <3>1. CASE RecordsStay
      BY <1>1, <2>1, <2>3, <3>1, NoFlowMoves, RecordsStayType DEF RecordsStay
    <3>2. CASE RecordExecution(f, req[r].body, req[r].accepted)
      <4>1. /\ Exists(req[r].key) /\ intents[req[r].key].body = req[r].body
            /\ intents[req[r].key].acceptance = req[r].accepted
            /\ req[r].accepted # NoAcceptance
        BY <1>1, <2>1 DEF HandlerOK, At
      <4>2. req[r].accepted \in Acceptances /\ req[r].body \in Bodies
        BY <2>3, <4>1 DEF Handler
      <4> HIDE DEF f
      <4> QED BY <1>1, <2>1, <2>2, <2>3, <3>2, <4>1, <4>2, ExecutionMoves,
                 RecordExecutionType
    <3> QED BY <1>6, <3>1, <3>2 DEF PersistExecution, CrashBeforeFlow
  <2> HIDE DEF f
  <2> QED BY <1>4, <2>1, <2>2, <2>3, <2>4
<1> QED BY <1>2, <1>3, <1>5, <1>6 DEF Request

(***************************************************************************)
(* The status route.                                                       *)
(***************************************************************************)
LEMMA StatusStep ==
  ASSUME Agreement, JournalKeeps, RowMoves, NothingAttached, RecordsStay,
         NEW o \in Observers, UNCHANGED <<req, seen>>,
         \A x \in Observers \ {o} : /\ watch'[x] = watch[x]
                                    /\ flowWatch'[x] = flowWatch[x],
         FlowStatusOK(o)'
  PROVE  FlowInvariant'
<1>1. flows' = flows /\ FlowsKeep
  BY RecordsStayType DEF RecordsStay, recordVars, Agreement, FlowTypeOK
<1>2. \A f \in Flows : FlowRowOK(f)' /\ (Frozen(f)' => FlowShape(flows'[f]))
  BY <1>1, FlowRowFrame DEF Agreement, FlowInvariant, Frozen
<1>3. \A r \in Requests : FlowRequestOK(r)'
  BY RequestFrame
<1>4. \A x \in Observers : FlowStatusOK(x)'
  BY <1>1, StatusFrame
<1> QED BY <1>1, <1>2, <1>3, <1>4, ReviewedFrame DEF FlowInvariant, FlowFollowsJournal

LEMMA AddedStays ==
  ASSUME Agreement, RecordsStay, FlowFault \/ NoFlowFault,
         UNCHANGED <<seen, simulated>>,
         flowWatch' \in [Observers -> FlowWatcher \cup {NotWatching}]
  PROVE  AddedTypeOK'
<1>1. RecordsTypeOK' /\ flowFaults' \in 0..MaxFlowFaults
  BY RecordsStayType, FlowFaultsType DEF Agreement, FlowTypeOK
<1> QED BY <1>1 DEF AddedTypeOK, Agreement, FlowTypeOK

LEMMA FlowWatcherType ==
  ASSUME Agreement, NEW o \in Observers, flowWatch[o].pc # "idle"
  PROVE  flowWatch[o] \in FlowWatcher
BY DEF Agreement, FlowTypeOK, NotWatching

LEMMA FlowPollKeeps ==
  ASSUME Agreement, NEW o \in Observers, NEW f \in Flows, NEW p \in Principals,
         NEW view \in Views, NEW independent \in BOOLEAN,
         FlowPoll(o, f, p, view, independent)
  PROVE  AddedTypeOK' /\ FlowInvariant'
<1> DEFINE target == ObservationTarget(view, independent)
           w == [pc |-> "observe", flow |-> f, from |-> flows[f].state,
                 target |-> target]
           v == [pc |-> "record", key |-> KeyOf[f], view |-> view,
                 independent |-> independent]
<1>1. /\ flows[f].state \in {"submitted", "completed_unverified", "timeout"}
      /\ flowWatch' = [flowWatch EXCEPT ![o] =
           IF target = "none" THEN NotWatching ELSE w]
      /\ watch' = [watch EXCEPT ![o] =
           IF target = "none" THEN NotWatching ELSE v]
      /\ RecordsStay /\ NoFlowFault
      /\ UNCHANGED <<seen, simulated, req, hubVars, journalVars>>
  BY DEF FlowPoll, Poll
<1>2. target = "none" \/ target \in Outcomes
  BY ObservationTargetType DEF Terminal, Outcomes
<1>3. target # "none" => w \in FlowWatcher
  BY <1>1, <1>2 DEF FlowWatcher
<1>4. /\ watch \in [Observers -> Watcher \cup {NotWatching}]
      /\ flowWatch \in [Observers -> FlowWatcher \cup {NotWatching}]
  BY DEF Agreement, FlowTypeOK, TypeOK
<1>5. /\ w.pc = "observe" /\ w.flow = f /\ w.target = target
      /\ v.pc = "record" /\ v.key = KeyOf[f] /\ v.view = view
      /\ v.independent = independent
  OBVIOUS
<1>6. target = ObservationTarget(view, independent)
  OBVIOUS
<1> HIDE DEF w, v, target
<1>7. AddedTypeOK'
  <2>1. flowWatch' \in [Observers -> FlowWatcher \cup {NotWatching}]
    BY <1>1, <1>3, <1>4
  <2> QED BY <1>1, <2>1, AddedStays
<1>8. JournalKeeps /\ RowMoves /\ NothingAttached
  BY <1>1, LocalKeeps, NothingMoves DEF Agreement, FlowTypeOK, journalVars
<1>9. FlowStatusOK(o)'
  <2>1. CASE target = "none"
    <3>1. flowWatch'[o].pc = "idle"
      BY <1>1, <1>4, <2>1 DEF NotWatching
    <3> QED BY <3>1 DEF FlowStatusOK
  <2>2. CASE target # "none"
    <3>1. flowWatch'[o] = w /\ watch'[o] = v /\ flows' = flows
      BY <1>1, <1>4, <2>2 DEF RecordsStay, recordVars
    <3>2. Submitted(f)'
      BY <1>1, <3>1 DEF Submitted, Outcomes
    <3> QED BY <1>5, <1>6, <3>1, <3>2 DEF FlowStatusOK
  <2> QED BY <2>1, <2>2
<1>10. \A x \in Observers \ {o} : /\ watch'[x] = watch[x]
                                  /\ flowWatch'[x] = flowWatch[x]
  BY <1>1, <1>4
<1> QED BY <1>1, <1>7, <1>8, <1>9, <1>10, StatusStep

\* What an observation does to the journal.
LEMMA RecordPollMoves ==
  ASSUME Agreement, NEW o \in Observers, RecordPoll(o),
         NEW k, k = watch[o].key,
         NEW target, target = ObservationTarget(watch[o].view, watch[o].independent)
  PROVE  /\ RowMoves /\ NothingAttached
         /\ \A x \in Observers \ {o} : watch'[x] = watch[x]
         /\ UNCHANGED req
<1>1. /\ TypeOK /\ watch[o].pc = "record" /\ ObservationOK(o)
  BY DEF Agreement, FlowTypeOK, SubmissionInvariant, RecordPoll
<1>2. watch[o] \in Watcher
  BY <1>1, WatcherType DEF TypeOK
<1>3. k \in Keys /\ target \in Terminal
  BY <1>2, ObservationTargetType DEF Watcher
<1>4. Exists(k)
  BY <1>1, <1>3, ExecutionType DEF ObservationOK, TypeOK
<1>5. (\A x \in Observers \ {o} : watch'[x] = watch[x]) /\ UNCHANGED req
  BY <1>1 DEF RecordPoll, TypeOK
<1>6. CASE UNCHANGED journalVars
           /\ (~EvidenceSupports(target, watch[o].view, watch[o].independent)
                 \/ ObservationConflict(k, target))
  BY <1>5, <1>6, NothingMoves DEF journalVars
<1>7. CASE RecordObservation(k, target)
  <2>1. RowMoves /\ NothingAttached
    BY <1>1, <1>3, <1>4, <1>7, ObservationMoves DEF TypeOK
  <2> QED BY <1>5, <2>1
<1> QED BY <1>6, <1>7 DEF RecordPoll

LEMMA FlowObserveKeeps ==
  ASSUME Agreement, JournalKeeps, NEW o \in Observers, FlowObserve(o)
  PROVE  AddedTypeOK' /\ FlowInvariant'
<1> SUFFICES ASSUME NEW w, w = flowWatch[o], NEW k, k = watch[o].key,
                    NEW supported \in BOOLEAN,
                    supported <=>
                      /\ EvidenceSupports(w.target, watch[o].view,
                                          watch[o].independent)
                      /\ intents'[k].state = w.target
             PROVE  AddedTypeOK' /\ FlowInvariant'
  OBVIOUS
<1>1. /\ w.pc = "observe" /\ RecordPoll(o)
      /\ flowWatch' = [flowWatch EXCEPT ![o] =
           IF supported THEN [w EXCEPT !.pc = "write"] ELSE NotWatching]
      /\ RecordsStay /\ NoFlowFault /\ UNCHANGED <<seen, simulated>>
  BY DEF FlowObserve
<1>2. w \in FlowWatcher
  BY <1>1, FlowWatcherType
<1>3. /\ Submitted(w.flow) /\ k = KeyOf[w.flow]
      /\ w.target = ObservationTarget(watch[o].view, watch[o].independent)
  BY <1>1 DEF Agreement, FlowInvariant, FlowStatusOK
<1>4. /\ RowMoves /\ NothingAttached
      /\ \A x \in Observers \ {o} : watch'[x] = watch[x]
      /\ UNCHANGED req
      /\ supported => /\ intents'[k].state \in {w.target, "verified_settled"}
                      /\ w.target = "failed" => intents'[k].state = "failed"
  BY <1>1, <1>3, RecordPollMoves
<1>5. [w EXCEPT !.pc = "write"] \in FlowWatcher
  BY <1>2 DEF FlowWatcher
<1>6. flowWatch \in [Observers -> FlowWatcher \cup {NotWatching}]
  BY DEF Agreement, FlowTypeOK
<1>7. AddedTypeOK'
  <2>1. flowWatch' \in [Observers -> FlowWatcher \cup {NotWatching}]
    BY <1>1, <1>5, <1>6
  <2> QED BY <1>1, <2>1, AddedStays
<1>8. FlowStatusOK(o)'
  <2>1. CASE ~supported
    <3>1. flowWatch'[o].pc = "idle"
      BY <1>1, <1>6, <2>1 DEF NotWatching
    <3> QED BY <3>1 DEF FlowStatusOK
  <2>2. CASE supported
    <3>1. /\ flowWatch'[o].pc = "write" /\ flowWatch'[o].flow = w.flow
          /\ flowWatch'[o].target = w.target
      BY <1>1, <1>2, <1>6, <2>2 DEF FlowWatcher
    <3>2. Submitted(w.flow)'
      BY <1>1, <1>3 DEF Submitted, RecordsStay, recordVars
    <3> QED BY <1>3, <1>4, <2>2, <3>1, <3>2 DEF FlowStatusOK
  <2> QED BY <2>1, <2>2
<1>9. \A x \in Observers \ {o} : flowWatch'[x] = flowWatch[x]
  BY <1>1, <1>6
<1> QED BY <1>1, <1>4, <1>7, <1>8, <1>9, StatusStep

\* The flow's own row, written after the journal's.
LEMMA WriteOutcomeKeeps ==
  ASSUME Agreement, NEW o \in Observers, WriteOutcome(o) \/ CrashFlowPoll(o)
  PROVE  AddedTypeOK' /\ FlowInvariant'
<1> SUFFICES ASSUME NEW w, w = flowWatch[o], NEW f, f = w.flow
             PROVE  AddedTypeOK' /\ FlowInvariant'
  OBVIOUS
<1>1. /\ w.pc = "write" /\ flowWatch' = [flowWatch EXCEPT ![o] = NotWatching]
      /\ UNCHANGED vars /\ (FlowFault \/ NoFlowFault)
      /\ UNCHANGED <<seen, simulated>>
  BY DEF WriteOutcome, CrashFlowPoll, JournalStays
<1>2. w \in FlowWatcher /\ f \in Flows /\ w.target \in Outcomes
  BY <1>1, FlowWatcherType DEF FlowWatcher
<1>3. /\ intents[KeyOf[f]].state \in {w.target, "verified_settled"}
      /\ w.target = "failed" => intents[KeyOf[f]].state = "failed"
  BY <1>1 DEF Agreement, FlowInvariant, FlowStatusOK
<1>4. RecordsTypeOK /\ flowWatch \in [Observers -> FlowWatcher \cup {NotWatching}]
  BY DEF Agreement, FlowTypeOK
<1>5. FlowMoves(f) /\ RecordsTypeOK'
  <2>1. CASE RecordsStay
    BY <1>1, <1>2, <1>4, <2>1, NoFlowMoves, RecordsStayType DEF RecordsStay
  <2>2. CASE RecordTerminal(f, w.target)
    BY <1>1, <1>2, <1>3, <1>4, <2>2, TerminalMoves, RecordTerminalType
  <2>3. CASE ReconcileFlow(f) /\ w.target = "verified_settled"
    BY <1>1, <1>2, <1>3, <1>4, <2>3, ReconcileMoves, ReconcileFlowType
  <2> QED BY <2>1, <2>2, <2>3 DEF WriteOutcome, CrashFlowPoll
<1>6. FlowStatusOK(o)'
  <2>1. flowWatch'[o].pc = "idle"
    BY <1>1, <1>4 DEF NotWatching
  <2> QED BY <2>1 DEF FlowStatusOK
<1>7. \A x \in Observers \ {o} : flowWatch'[x] = flowWatch[x]
  BY <1>1, <1>4
<1>8. /\ \A r \in Requests : FlowRequestOK(r)'
      /\ \A x \in Observers : FlowStatusOK(x)'
  BY <1>1, <1>5, <1>6, <1>7, HandlersFrame DEF FlowMoves
<1>9. FlowInvariant'
  BY <1>1, <1>2, <1>5, <1>8, RecordsStep
<1>10. /\ flowWatch' \in [Observers -> FlowWatcher \cup {NotWatching}]
       /\ flowFaults' \in 0..MaxFlowFaults
  BY <1>1, <1>4, FlowFaultsType DEF Agreement, FlowTypeOK
<1> QED BY <1>1, <1>5, <1>9, <1>10 DEF AddedTypeOK, Agreement, FlowTypeOK

\* A status handler of the flow that dies, and the handlers of REST and MCP.
LEMMA PlainStatusKeeps ==
  ASSUME Agreement, JournalKeeps, NEW o \in Observers,
         CrashObserve(o) \/ PlainPoll(o)
  PROVE  AddedTypeOK' /\ FlowInvariant'
<1>1. /\ watch \in [Observers -> Watcher \cup {NotWatching}]
      /\ flowWatch \in [Observers -> FlowWatcher \cup {NotWatching}]
  BY DEF Agreement, FlowTypeOK, TypeOK
<1>2. /\ flowWatch' = [flowWatch EXCEPT ![o] = NotWatching]
      /\ RecordsStay /\ (FlowFault \/ NoFlowFault)
      /\ UNCHANGED <<seen, simulated>>
  BY <1>1 DEF CrashObserve, PlainPoll, HandlersStay
<1>3. /\ RowMoves /\ NothingAttached /\ UNCHANGED req
      /\ \A x \in Observers \ {o} : watch'[x] = watch[x]
  <2>1. CASE RecordPoll(o)
    BY <2>1, RecordPollMoves
  <2>2. CASE \/ CrashPoll(o)
             \/ \E k \in Keys, authority \in Principals \cup {Capability},
                   view \in Views, independent \in BOOLEAN :
                  Poll(o, k, authority, view, independent)
    BY <1>1, <2>2, NothingMoves DEF CrashPoll, Poll, journalVars
  <2> QED BY <2>1, <2>2 DEF CrashObserve, PlainPoll
<1>4. FlowStatusOK(o)'
  <2>1. flowWatch'[o].pc = "idle"
    BY <1>1, <1>2 DEF NotWatching
  <2> QED BY <2>1 DEF FlowStatusOK
<1>5. /\ \A x \in Observers \ {o} : flowWatch'[x] = flowWatch[x]
      /\ flowWatch' \in [Observers -> FlowWatcher \cup {NotWatching}]
  BY <1>1, <1>2
<1>6. FlowInvariant'
  BY <1>2, <1>3, <1>4, <1>5, StatusStep
<1> QED BY <1>2, <1>5, <1>6, AddedStays

LEMMA StatusKeeps ==
  ASSUME Agreement, JournalKeeps, NEW o \in Observers, Status(o)
  PROVE  AddedTypeOK' /\ FlowInvariant'
BY FlowPollKeeps, FlowObserveKeeps, WriteOutcomeKeeps, PlainStatusKeeps DEF Status

(***************************************************************************)
(* The invariance.                                                         *)
(***************************************************************************)
LEMMA NothingFlows ==
  ASSUME Agreement, UNCHANGED <<intents, req, watch, addedVars>>
  PROVE  AddedTypeOK' /\ FlowInvariant'
<1>1. UNCHANGED <<flows, trail, tabs, approvals, seen, simulated, flowWatch,
                  flowFaults>>
  BY DEF addedVars, recordVars
<1>2. AddedTypeOK'
  BY <1>1 DEF AddedTypeOK, Agreement, FlowTypeOK, RecordsTypeOK
<1>3. FlowInvariant'
  BY <1>1 DEF Agreement, FlowInvariant, FlowFollowsJournal, FlowRowOK,
     Submitted, AttachedAsReviewed, Exists, FlowRequestOK, Free, Attaches,
     FlowStatusOK, Frozen
<1> QED BY <1>2, <1>3

LEMMA FlowStep ==
  ASSUME Agreement, [FlowNext]_flowVars
  PROVE  Agreement'
<1>1. TypeOK /\ SubmissionInvariant /\ [Next]_vars
  BY StepRefines DEF Agreement, FlowTypeOK
<1>2. TypeOK' /\ SubmissionInvariant' /\ JournalKeeps
  BY <1>1, TypeStep, InvariantStep
<1>3. AddedTypeOK' /\ FlowInvariant'
  <2>1. CASE FlowEnvironment
    BY <2>1, NothingFlows DEF FlowEnvironment, Environment, journalVars,
       RecordsStay, HandlersStay, NoFlowFault, addedVars
  <2>2. CASE UNCHANGED flowVars
    BY <2>2, NothingFlows DEF flowVars, vars
  <2> QED BY <1>2, <2>1, <2>2, ChannelKeeps, RequestKeeps, StatusKeeps
          DEF FlowNext
<1> QED BY <1>2, <1>3 DEF Agreement, FlowTypeOK, AddedTypeOK

LEMMA FlowStart ==
  ASSUME FlowInit
  PROVE  Agreement
<1>1. TypeOK /\ SubmissionInvariant
  BY InitEstablishes DEF FlowInit
<1>2. RecordsTypeOK /\ \A f \in Flows : ~Frozen(f) /\ ~Submitted(f)
  BY DEF FlowInit, RecordsInit, RecordsTypeOK, TabStates, Frozen, Submitted,
         NoRow, Outcomes
<1>3. /\ \A r \in Requests : req[r].pc = "idle" /\ seen[r] = "none"
      /\ \A o \in Observers : flowWatch[o].pc = "idle"
      /\ \A k \in Keys : ~Exists(k)
  BY DEF FlowInit, Init, JournalInit, Idle, NotWatching, Exists, NoIntent
<1>4. FlowTypeOK
  BY <1>1, <1>2, FlowFaultsAssumption DEF FlowTypeOK, FlowInit, Snapshots
<1> QED BY <1>1, <1>2, <1>3, <1>4
     DEF Agreement, FlowInvariant, FlowFollowsJournal, FlowRowOK,
         AttachedAsReviewed, FlowRequestOK, Free, FlowStatusOK

\* Types and agreements hold in every reachable state of the first-party
\* channel beside REST and MCP.
THEOREM FlowInvariance == FlowSpec => []Agreement
<1>1. FlowInit => Agreement
  BY FlowStart
<1>2. Agreement /\ [FlowNext]_flowVars => Agreement'
  BY FlowStep
<1> QED BY <1>1, <1>2, PTL DEF FlowSpec

\* The variables of the channel have their types.
THEOREM FlowTypeCorrect == FlowSpec => []FlowTypeOK
<1>1. Agreement => FlowTypeOK
  BY DEF Agreement
<1> QED BY <1>1, FlowInvariance, PTL

\* The agreements of flow rows, handlers' snapshots and journal rows.
THEOREM FlowInvariantHolds == FlowSpec => []FlowInvariant
<1>1. Agreement => FlowInvariant
  BY DEF Agreement
<1> QED BY <1>1, FlowInvariance, PTL

\* Whatever interleaves or dies between the two writes, a flow says of its
\* execution what the journal said first.
THEOREM FlowFollows == FlowSpec => []FlowFollowsJournal
<1>1. Agreement => FlowFollowsJournal
  BY DEF Agreement, FlowInvariant
<1> QED BY <1>1, FlowInvariance, PTL

\* A journal row is attached only to a flow that was simulated and signed with
\* the row's own body.
THEOREM FlowReviewed == FlowSpec => []AttachedAsReviewed
<1>1. Agreement => AttachedAsReviewed
  BY DEF Agreement, FlowInvariant
<1> QED BY <1>1, FlowInvariance, PTL

\* Every broadcast of the first-party channel went through the approval check,
\* with the body its flow was reviewed with.
THEOREM FlowPostsReviewed == FlowSpec => []PostedAsReviewed
<1>1. Agreement => PostedAsReviewed
  <2> SUFFICES ASSUME Agreement, NEW r \in Requests,
                      req[r].pc \in {"post", "accept"}, Attaches(r)
               PROVE  /\ seen[r] = "cleared"
                      /\ flows[req[r].flow].body = req[r].body
    BY DEF PostedAsReviewed
  <2>1. FlowRequestOK(r) /\ HandlerOK(r) /\ AttachedAsReviewed
    BY DEF Agreement, FlowInvariant, SubmissionInvariant
  <2>2. req[r].key \in Keys
    BY HandlerType DEF Agreement, FlowTypeOK, TypeOK, Handler
  <2>3. /\ seen[r] = "cleared" /\ intents[req[r].key].flow = req[r].flow
        /\ Exists(req[r].key) /\ intents[req[r].key].body = req[r].body
    BY <2>1 DEF FlowRequestOK, HandlerOK
  <2> QED BY <2>1, <2>2, <2>3 DEF AttachedAsReviewed, Attaches
<1> QED BY <1>1, FlowInvariance, PTL

-----------------------------------------------------------------------------
(***************************************************************************)
(* The submission journal: events[k] tells the history of intents[k].      *)
(***************************************************************************)
Told(k) ==
  /\ IsFiniteSet(events[k])
  /\ {v.revision : v \in events[k]} = 1..intents[k].revision
  /\ Cardinality(events[k]) = intents[k].revision
  /\ \A v \in events[k] :
       v.revision = intents[k].revision => v.state = intents[k].state

\* A transaction adds the event of the next revision, or neither event nor
\* revision nor state.
Continues(k) ==
  \/ /\ events'[k] = events[k]
     /\ intents'[k].revision = intents[k].revision
     /\ intents'[k].state = intents[k].state
  \/ \E v : /\ events'[k] = events[k] \cup {v}
            /\ v.revision = intents[k].revision + 1
            /\ intents'[k].revision = v.revision
            /\ intents'[k].state = v.state

\* Counting: a new revision is a new event.
LEMMA TellsOn ==
  ASSUME NEW k, Told(k), intents[k].revision \in Nat, Continues(k)
  PROVE  Told(k)'
<1>1. CASE /\ events'[k] = events[k]
           /\ intents'[k].revision = intents[k].revision
           /\ intents'[k].state = intents[k].state
  BY <1>1 DEF Told
<1>2. ASSUME NEW v, events'[k] = events[k] \cup {v},
             v.revision = intents[k].revision + 1,
             intents'[k].revision = v.revision,
             intents'[k].state = v.state
      PROVE  Told(k)'
  <2>1. \A u \in events[k] : u.revision \in 1..intents[k].revision
    BY DEF Told
  <2>2. v \notin events[k]
    BY <1>2, <2>1
  <2>3. /\ IsFiniteSet(events'[k])
        /\ Cardinality(events'[k]) = intents'[k].revision
    BY <1>2, <2>2, FS_AddElement DEF Told
  <2>4. {u.revision : u \in events'[k]} = 1..intents'[k].revision
    <3>1. {u.revision : u \in events'[k]}
            = {u.revision : u \in events[k]} \cup {v.revision}
      BY <1>2
    <3>2. 1..(intents[k].revision + 1)
            = 1..intents[k].revision \cup {intents[k].revision + 1}
      OBVIOUS
    <3> QED BY <1>2, <3>1, <3>2 DEF Told
  <2>5. \A u \in events'[k] :
          u.revision = intents'[k].revision => u.state = intents'[k].state
    BY <1>2, <2>1
  <2> QED BY <2>3, <2>4, <2>5 DEF Told
<1> QED BY <1>1, <1>2 DEF Continues

\* The revision of a row, or of the absence of one.
LEMMA RevisionType ==
  ASSUME JournalTypeOK, NEW k \in Keys
  PROVE  intents[k].revision \in Nat
BY DEF JournalTypeOK, Intent, NoIntent

LEMMA ReadRetryContinues ==
  ASSUME JournalTypeOK, NEW k \in Keys, NEW p, NEW b, NEW a \in Requests,
         NEW f \in Flows \cup {NoFlow}, ReadRetry(k, p, b, a, f)
  PROVE  \A j \in Keys : Continues(j)
<1>1. \A j \in Keys : Exists(j) =>
        /\ intents'[j].state = intents[j].state
        /\ intents'[j].revision = intents[j].revision
  BY ReadRetryKeeps
<1>2. \A j \in Keys : ~Exists(j) => intents'[j] = intents[j]
  BY DEF ReadRetry, JournalTypeOK
<1>3. events' = events
  BY DEF ReadRetry
<1> QED BY <1>1, <1>2, <1>3 DEF Continues

LEMMA PrepareContinues ==
  ASSUME JournalTypeOK, NEW k \in Keys, NEW p \in Principals, NEW b \in Bodies,
         NEW a \in Requests, NEW s \in Simulations,
         NEW f \in Flows \cup {NoFlow}, Prepare(k, p, b, a, s, f), Told(k)
  PROVE  \A j \in Keys : Continues(j)
<1> DEFINE v == [revision |-> 1, kind |-> "prepared", state |-> "prepared"]
<1>1. /\ Exists(k) => /\ intents'[k].state = intents[k].state
                      /\ intents'[k].revision = intents[k].revision
      /\ ~Exists(k) => /\ intents'[k].state = "prepared"
                       /\ intents'[k].revision = 1
      /\ \A j \in Keys : j # k => intents'[j] = intents[j]
  BY PrepareKeeps
<1>2. \A j \in Keys : j # k => events'[j] = events[j]
  BY DEF Prepare, JournalTypeOK
<1>3. {u.revision : u \in events[k]} = 1..intents[k].revision
  BY DEF Told
<1>4. CASE Exists(k)
  <2>1. intents[k].revision \in 1..4
    BY <1>4, RowType DEF Intent
  <2>2. \E u \in events[k] : u.revision = 1
    <3>1. 1 \in {u.revision : u \in events[k]}
      BY <1>3, <2>1
    <3> QED BY <3>1
  <2>3. events'[k] = events[k]
    BY <2>2 DEF Prepare
  <2> QED BY <1>1, <1>2, <1>4, <2>3 DEF Continues
<1>5. CASE ~Exists(k)
  <2>1. intents[k].revision = 0
    BY <1>5 DEF JournalTypeOK, Exists, NoIntent, Intent, IntentStates, Terminal
  <2>2. ~\E u \in events[k] : u.revision = 1
    <3>1. 1 \notin {u.revision : u \in events[k]}
      BY <1>3, <2>1
    <3> QED BY <3>1
  <2>3. PreparedRow(k, p, b, a, s, f).revision = 1
    BY <1>5 DEF PreparedRow
  <2>4. events'[k] = events[k] \cup {v}
    BY <2>2, <2>3 DEF Prepare, JournalTypeOK
  <2>5. /\ v.revision = intents[k].revision + 1
        /\ intents'[k].revision = v.revision /\ intents'[k].state = v.state
    BY <1>1, <1>5, <2>1
  <2> HIDE DEF v
  <2> QED BY <1>1, <1>2, <2>4, <2>5 DEF Continues
<1> QED BY <1>4, <1>5

LEMMA AcceptanceContinues ==
  ASSUME JournalTypeOK, \A j \in Keys : RowOK(j), NEW k \in Keys, NEW p, NEW b,
         NEW acc \in Acceptances, RecordAcceptance(k, p, b, acc)
  PROVE  \A j \in Keys : Continues(j)
<1> DEFINE v == [revision |-> 2, kind |-> "accepted", state |-> "accepted"]
<1>1. CASE intents[k].state = "prepared"
  <2>1. /\ Exists(k) /\ intents[k] \in Intent
    BY RowType DEF RecordAcceptance, AcceptanceConflict
  <2>2. intents[k].revision = 1
    BY <1>1, <2>1 DEF RowOK, RevisionAllows, Terminal
  <2>3. /\ intents'[k].state = "accepted" /\ intents'[k].revision = 2
        /\ \A j \in Keys : j # k => intents'[j] = intents[j]
    BY <1>1, <2>1 DEF RecordAcceptance, JournalTypeOK, Intent
  <2>4. /\ events'[k] = events[k] \cup {v}
        /\ \A j \in Keys : j # k => events'[j] = events[j]
    BY <1>1 DEF RecordAcceptance, JournalTypeOK
  <2>5. /\ v.revision = intents[k].revision + 1
        /\ intents'[k].revision = v.revision /\ intents'[k].state = v.state
    BY <2>2, <2>3
  <2> HIDE DEF v
  <2> QED BY <2>3, <2>4, <2>5 DEF Continues
<1>2. CASE intents[k].state # "prepared"
  BY <1>2 DEF RecordAcceptance, journalVars, Continues
<1> QED BY <1>1, <1>2

LEMMA ObservationContinues ==
  ASSUME JournalTypeOK, \A j \in Keys : RowOK(j), NEW k \in Keys,
         NEW target \in Terminal, Exists(k), RecordObservation(k, target)
  PROVE  \A j \in Keys : Continues(j)
<1> DEFINE rev == IF intents[k].state = "accepted" THEN 3 ELSE 4
           v == [revision |-> rev, state |-> target,
                 kind |-> IF rev = 3 THEN "terminal" ELSE "reconciled"]
<1>1. CASE MayAdvance(intents[k].state, target)
  <2>1. intents[k] \in Intent /\ RevisionAllows(intents[k])
    BY RowType DEF RowOK
  <2>2. intents[k].revision + 1 = rev
    BY <1>1, <2>1 DEF MayAdvance, RevisionAllows, Terminal
  <2>3. /\ intents'[k].state = target /\ intents'[k].revision = rev
        /\ \A j \in Keys : j # k => intents'[j] = intents[j]
    BY <1>1, <2>1 DEF RecordObservation, JournalTypeOK, Intent
  <2>4. /\ events'[k] = events[k] \cup {v}
        /\ \A j \in Keys : j # k => events'[j] = events[j]
    BY <1>1 DEF RecordObservation, JournalTypeOK
  <2>5. v.revision = rev /\ v.state = target
    OBVIOUS
  <2> HIDE DEF v, rev
  <2> QED BY <2>2, <2>3, <2>4, <2>5 DEF Continues
<1>2. CASE ~MayAdvance(intents[k].state, target)
  BY <1>2 DEF RecordObservation, journalVars, Continues
<1> QED BY <1>1, <1>2

\* Only four functions write the journal, whoever calls them.
LEMMA TellingStep ==
  ASSUME TypeOK, SubmissionInvariant, [Next]_vars, \A k \in Keys : Told(k)
  PROVE  \A k \in Keys : Told(k)'
<1>1. JournalTypeOK /\ \A j \in Keys : RowOK(j)
  BY DEF TypeOK, SubmissionInvariant
<1> SUFFICES \A k \in Keys : Continues(k)
  BY <1>1, RevisionType, TellsOn
<1>2. CASE UNCHANGED journalVars
  BY <1>2 DEF journalVars, Continues
<1>3. ASSUME NEW r \in Requests, ReadPrior(r) \/ PrepareIntent(r)
             \/ PersistAcceptance(r)
      PROVE  \A k \in Keys : Continues(k)
  <2> SUFFICES ASSUME NEW q, q = req[r], q \in Handler, HandlerOK(r)
               PROVE  \A k \in Keys : Continues(k)
    <3>1. req[r].pc # "idle"
      BY <1>3 DEF ReadPrior, PrepareIntent, PersistAcceptance, At
    <3>2. req[r] \in Handler
      BY <3>1, HandlerType DEF TypeOK
    <3> QED BY <3>2 DEF SubmissionInvariant
  <2>1. /\ q.key \in Keys /\ q.principal \in Principals /\ q.body \in Bodies
        /\ q.flow \in Flows \cup {NoFlow}
    BY DEF Handler
  <2>2. CASE ReadPrior(r)
    <3>1. ReadRetry(q.key, q.principal, q.body, r, q.flow)
      BY <2>2 DEF ReadPrior
    <3> QED BY <1>1, <2>1, <3>1, ReadRetryContinues
  <2>3. CASE PrepareIntent(r)
    <3>1. /\ Prepare(q.key, q.principal, q.body, r, q.simulation, q.flow)
          /\ q.simulation \in Simulations
      BY <2>3 DEF PrepareIntent, HandlerOK
    <3> QED BY <1>1, <2>1, <3>1, PrepareContinues
  <2>4. CASE PersistAcceptance(r)
    <3>1. /\ RecordAcceptance(q.key, q.principal, q.body, q.accepted)
          /\ q.accepted \in Acceptances
      BY <2>4 DEF PersistAcceptance, HandlerOK
    <3> QED BY <1>1, <2>1, <3>1, AcceptanceContinues
  <2> QED BY <1>3, <2>2, <2>3, <2>4
<1>4. ASSUME NEW o \in Observers, RecordPoll(o)
      PROVE  \A k \in Keys : Continues(k)
  <2> SUFFICES ASSUME NEW k, k = watch[o].key,
                      NEW target, target = ObservationTarget(watch[o].view,
                                                       watch[o].independent),
                      RecordObservation(k, target)
               PROVE  \A j \in Keys : Continues(j)
    BY <1>2, <1>4 DEF RecordPoll
  <2>1. watch[o].pc = "record"
    BY <1>4 DEF RecordPoll
  <2>2. watch[o] \in Watcher /\ ObservationOK(o)
    BY <2>1, WatcherType DEF TypeOK, SubmissionInvariant
  <2>3. k \in Keys /\ target \in Terminal
    BY <2>2, ObservationTargetType DEF Watcher
  <2>4. Exists(k)
    BY <1>1, <2>1, <2>2, <2>3, ExecutionType DEF ObservationOK
  <2> QED BY <1>1, <2>3, <2>4, ObservationContinues
<1>5. \/ UNCHANGED journalVars
      \/ \E r \in Requests : \/ ReadPrior(r) \/ PrepareIntent(r)
                             \/ PersistAcceptance(r)
      \/ \E o \in Observers : RecordPoll(o)
  <2>1. ASSUME NEW r \in Requests, Submit(r) \/ Handle(r)
        PROVE  \/ UNCHANGED journalVars
               \/ ReadPrior(r) \/ PrepareIntent(r) \/ PersistAcceptance(r)
    BY <2>1 DEF Submit, Start, Handle, ReadRefused, Simulate,
       SimulationReverts, PrepareRefused, Recheck, RecheckRefused,
       PostAnswered, PostFails, AcceptanceRefused, Lapse, Crash
  <2>2. ASSUME NEW o \in Observers, Observe(o)
        PROVE  UNCHANGED journalVars \/ RecordPoll(o)
    BY <2>2 DEF Observe, Poll, CrashPoll
  <2>3. Environment \/ UNCHANGED vars => UNCHANGED journalVars
    BY DEF Environment, vars, journalVars
  <2> QED BY <2>1, <2>2, <2>3 DEF Next
<1> QED BY <1>2, <1>3, <1>4, <1>5

LEMMA TellingStart ==
  ASSUME Init
  PROVE  \A k \in Keys : Told(k)
<1> SUFFICES ASSUME NEW k \in Keys
             PROVE  Told(k)
  OBVIOUS
<1>1. intents[k].revision = 0 /\ events[k] = {}
  BY DEF Init, JournalInit, NoIntent
<1>2. IsFiniteSet({}) /\ Cardinality({}) = 0
  BY FS_EmptySet
<1>3. {v.revision : v \in {}} = 1..0
  OBVIOUS
<1> QED BY <1>1, <1>2, <1>3 DEF Told

\* However the four writers of the journal interleave, and wherever handlers
\* die between them, the events of a plan are its row's history: one for each
\* revision, the last one in the row's state.
THEOREM Coherent == Spec => []JournalCoherent
<1> DEFINE Inv == TypeOK /\ SubmissionInvariant /\ \A k \in Keys : Told(k)
<1>1. Init => Inv
  BY InitEstablishes, TellingStart
<1>2. Inv /\ [Next]_vars => Inv'
  <2>1. ASSUME Inv, [Next]_vars PROVE Inv'
    <3>1. TypeOK' /\ SubmissionInvariant'
      BY <2>1, TypeStep, InvariantStep
    <3>2. \A k \in Keys : Told(k)'
      BY <2>1, TellingStep
    <3> QED BY <3>1, <3>2
  <2> QED BY <2>1
<1>3. Inv => JournalCoherent
  BY DEF JournalCoherent, Told, SubmissionInvariant, RowOK
<1> HIDE DEF Inv
<1> QED BY <1>1, <1>2, <1>3, PTL DEF Spec

\* Also with the first-party channel beside REST and MCP.
THEOREM FlowCoherent == FlowSpec => []JournalCoherent
<1>1. FlowSpec => Spec
  BY FlowImplementsJournal DEF ImplementsJournal
<1> QED BY <1>1, Coherent, PTL

(***************************************************************************)
(* The flow's own records: trail[f] tells the history of flows[f], and the *)
(* settlement row and the tab show its state.                              *)
(***************************************************************************)
TabFor(state) ==
  CASE state = "frozen"           -> "frozen"
    [] state = "simulated"        -> "signing"
    [] state = "submitted"        -> "settling"
    [] state = "verified_settled" -> "verified_settled"
    [] OTHER                      -> "failed"

TrailTold(f) ==
  /\ {v.revision : v \in trail[f]} = 1..flows[f].revision
  /\ IsFiniteSet(trail[f]) /\ Cardinality(trail[f]) = flows[f].revision
  /\ \A v \in trail[f] :
       v.revision = flows[f].revision => v.state = flows[f].state

\* The inductive part: a frozen flow's tab is not "open", so nobody else
\* freezes it, and so nobody else writes it.
RecordsAgree ==
  /\ \A f \in Flows : TrailTold(f)
  /\ \A f \in Flows : Frozen(f) =>
       /\ tabs[TabOf[f]] = TabFor(flows[f].state)
       /\ flows[f].settlement = SettlementFor(flows[f].state)
  /\ OneFlowPerTab

\* What a transaction on a flow writes: the row of the next revision with its
\* event and its tab, never over a final state, never over what was submitted.
Advances(f) ==
  \E row, kind, tab :
    /\ row \in Row
    /\ Write(f, row, kind, tab)
    /\ row.revision = flows[f].revision + 1
    /\ tab = TabFor(row.state) /\ row.settlement = SettlementFor(row.state)
    /\ Frozen(f) \/ tabs[TabOf[f]] = "open"
    /\ Submitted(f) => /\ row.body = flows[f].body
                       /\ row.acceptance = flows[f].acceptance
    /\ flows[f].state \notin {"verified_settled", "failed"}

NoRecordWritten == UNCHANGED <<flows, trail, tabs>>

LEMMA TabForFrozen ==
  ASSUME NEW state
  PROVE  TabFor(state) # "open"
BY DEF TabFor

LEMMA FlowRevisionType ==
  ASSUME RecordsTypeOK, NEW f \in Flows
  PROVE  flows[f].revision \in Nat
BY DEF RecordsTypeOK, Row, NoRow

\* The effect of one such transaction.
LEMMA AdvanceWrites ==
  ASSUME RecordsTypeOK, NEW f \in Flows, NEW row \in Row, NEW kind, NEW tab,
         Write(f, row, kind, tab)
  PROVE  /\ flows'[f] = row
         /\ \A g \in Flows \ {f} : flows'[g] = flows[g] /\ trail'[g] = trail[g]
         /\ trail'[f] = trail[f] \cup
              {[revision |-> row.revision, kind |-> kind, state |-> row.state]}
         /\ tabs'[TabOf[f]] = tab
         /\ \A t \in Tabs \ {TabOf[f]} : tabs'[t] = tabs[t]
         /\ Frozen(f)'
BY FlowAssumption DEF Write, RecordsTypeOK, Frozen, Row, FlowStates, Outcomes

LEMMA AdvanceAgrees ==
  ASSUME RecordsTypeOK, RecordsAgree, NEW f \in Flows, Advances(f)
  PROVE  RecordsAgree'
<1>1. PICK row, kind, tab :
        /\ row \in Row
        /\ Write(f, row, kind, tab)
        /\ row.revision = flows[f].revision + 1
        /\ tab = TabFor(row.state) /\ row.settlement = SettlementFor(row.state)
        /\ Frozen(f) \/ tabs[TabOf[f]] = "open"
  BY DEF Advances
<1> DEFINE v == [revision |-> row.revision, kind |-> kind, state |-> row.state]
<1>2. /\ flows'[f] = row /\ Frozen(f)'
      /\ \A g \in Flows \ {f} : flows'[g] = flows[g] /\ trail'[g] = trail[g]
      /\ trail'[f] = trail[f] \cup {v}
      /\ tabs'[TabOf[f]] = tab
      /\ \A t \in Tabs \ {TabOf[f]} : tabs'[t] = tabs[t]
  BY <1>1, AdvanceWrites
<1>3. v.revision = row.revision /\ v.state = row.state
  OBVIOUS
<1> HIDE DEF v
\* Nobody else has frozen this tab: its owner would show in it.
<1>4. \A g \in Flows \ {f} : Frozen(g) => TabOf[g] # TabOf[f]
  BY <1>1, TabForFrozen DEF RecordsAgree, OneFlowPerTab
<1>5. \A g \in Flows : TrailTold(g)'
  <2>1. \A g \in Flows \ {f} : TrailTold(g)'
    BY <1>2 DEF RecordsAgree, TrailTold
  <2>2. TrailTold(f)'
    <3>1. flows[f].revision \in Nat
      BY FlowRevisionType
    <3>2. \A u \in trail[f] : u.revision \in 1..flows[f].revision
      BY DEF RecordsAgree, TrailTold
    <3>3. {u.revision : u \in trail'[f]}
            = {u.revision : u \in trail[f]} \cup {v.revision}
      BY <1>2
    <3>4. 1..(flows[f].revision + 1)
            = 1..flows[f].revision \cup {flows[f].revision + 1}
      BY <3>1
    <3>5. {u.revision : u \in trail'[f]} = 1..flows'[f].revision
      BY <1>1, <1>2, <1>3, <3>3, <3>4 DEF RecordsAgree, TrailTold
    <3>6. \A u \in trail'[f] :
            u.revision = flows'[f].revision => u.state = flows'[f].state
      BY <1>1, <1>2, <1>3, <3>1, <3>2
    \* The event is of a revision the table has none of yet.
    <3>7. v \notin trail[f]
      BY <1>1, <1>3, <3>1, <3>2
    <3>8. IsFiniteSet(trail'[f]) /\ Cardinality(trail'[f]) = flows'[f].revision
      BY <1>1, <1>2, <3>7, FS_AddElement DEF RecordsAgree, TrailTold
    <3> QED BY <3>5, <3>6, <3>8 DEF TrailTold
  <2> QED BY <2>1, <2>2
<1>6. \A g \in Flows : Frozen(g)' =>
        /\ tabs'[TabOf[g]] = TabFor(flows'[g].state)
        /\ flows'[g].settlement = SettlementFor(flows'[g].state)
  <2>1. ASSUME NEW g \in Flows \ {f}, Frozen(g)'
        PROVE  /\ tabs'[TabOf[g]] = TabFor(flows'[g].state)
               /\ flows'[g].settlement = SettlementFor(flows'[g].state)
    <3>1. flows'[g] = flows[g] /\ Frozen(g) /\ TabOf[g] \in Tabs
      BY <1>2, <2>1, FlowAssumption DEF Frozen
    <3>2. tabs'[TabOf[g]] = tabs[TabOf[g]]
      BY <1>2, <1>4, <3>1
    <3> QED BY <3>1, <3>2 DEF RecordsAgree
  <2> QED BY <1>1, <1>2, <2>1
<1>7. OneFlowPerTab'
  BY <1>2, <1>4 DEF RecordsAgree, OneFlowPerTab, Frozen
<1> QED BY <1>5, <1>6, <1>7 DEF RecordsAgree

LEMMA UnwrittenAgrees ==
  ASSUME RecordsAgree, NoRecordWritten
  PROVE  RecordsAgree'
BY DEF RecordsAgree, NoRecordWritten, TrailTold, OneFlowPerTab, Frozen

(***************************************************************************)
(* Each of the five functions is such a transaction, or writes nothing.    *)
(***************************************************************************)
LEMMA FreezeAdvances ==
  ASSUME RecordsTypeOK, NEW f \in Flows, Freeze(f)
  PROVE  Advances(f)
<1> DEFINE row == [state |-> "frozen", revision |-> 1, body |-> NoBody,
                   acceptance |-> NoAcceptance, settlement |-> "draft"]
<1>1. /\ row \in Row /\ row.state = "frozen" /\ row.revision = 1
      /\ row.settlement = SettlementFor(row.state)
  BY DEF Row, FlowStates, SettlementFor
<1>2. /\ Write(f, row, "frozen", "frozen")
      /\ tabs[TabOf[f]] = "open" /\ ~Frozen(f)
  BY DEF Freeze, MayFreeze
<1>3. flows[f].revision = 0 /\ flows[f].state = "unfrozen"
  BY <1>2 DEF RecordsTypeOK, Frozen, Row, FlowStates, Outcomes, NoRow
<1> HIDE DEF row
<1> QED BY <1>1, <1>2, <1>3 DEF Advances, TabFor, Submitted, Outcomes

LEMMA SimulationAdvances ==
  ASSUME Agreement, NEW f \in Flows, NEW b \in Bodies, RecordSimulation(f, b)
  PROVE  Advances(f) \/ NoRecordWritten
<1>1. CASE flows[f].state = "frozen" /\ approvals[f] # "withdrawn"
  <2> DEFINE row == [flows[f] EXCEPT !.state = "simulated", !.revision = 2,
                                     !.body = b, !.settlement = "simulated"]
  <2>1. flows[f] \in Row /\ flows[f].revision = 1
    BY <1>1, RowShape DEF Frozen
  <2>2. Write(f, row, "simulated", "signing")
    BY <1>1 DEF RecordSimulation
  <2>3. /\ row.state = "simulated" /\ row.revision = 2
        /\ row.settlement = SettlementFor(row.state)
    BY <2>1 DEF Row, SettlementFor
  <2> HIDE DEF row
  <2>4. row \in Row
    <3>1. RecordsTypeOK'
      BY RecordSimulationType DEF Agreement, FlowTypeOK
    <3>2. flows'[f] = row
      BY <2>2, WriteMoves DEF Agreement, FlowTypeOK
    <3> QED BY <2>3, <3>1, <3>2 DEF RecordsTypeOK, NoRow
  <2> QED BY <1>1, <2>1, <2>2, <2>3, <2>4
          DEF Advances, TabFor, Frozen, Submitted, Outcomes
<1>2. CASE ~(flows[f].state = "frozen" /\ approvals[f] # "withdrawn")
  BY <1>2 DEF RecordSimulation, recordVars, NoRecordWritten
<1> QED BY <1>1, <1>2

LEMMA ExecutionAdvances ==
  ASSUME Agreement, NEW f \in Flows, NEW b \in Bodies, NEW acc \in Acceptances,
         RecordExecution(f, b, acc)
  PROVE  Advances(f) \/ NoRecordWritten
<1>1. CASE Bound(f, b)
  <2> DEFINE row == [flows[f] EXCEPT !.state = "submitted", !.revision = 3,
                                     !.acceptance = acc,
                                     !.settlement = "submitted"]
  <2>1. /\ flows[f] \in Row /\ flows[f].revision = 2
        /\ flows[f].state = "simulated"
    BY <1>1, RowShape DEF Frozen, Bound
  <2>2. Write(f, row, "submitted", "settling")
    BY <1>1 DEF RecordExecution
  <2>3. /\ row.state = "submitted" /\ row.revision = 3
        /\ row.settlement = SettlementFor(row.state)
    BY <2>1 DEF Row, SettlementFor
  <2> HIDE DEF row
  <2>4. row \in Row
    <3>1. RecordsTypeOK'
      BY RecordExecutionType DEF Agreement, FlowTypeOK
    <3>2. flows'[f] = row
      BY <2>2, WriteMoves DEF Agreement, FlowTypeOK
    <3> QED BY <2>3, <3>1, <3>2 DEF RecordsTypeOK, NoRow
  <2> QED BY <2>1, <2>2, <2>3, <2>4
          DEF Advances, TabFor, Frozen, Submitted, Outcomes
<1>2. CASE ~Bound(f, b)
  BY <1>2 DEF RecordExecution, recordVars, NoRecordWritten
<1> QED BY <1>1, <1>2

LEMMA TerminalAdvances ==
  ASSUME Agreement, NEW f \in Flows, NEW target \in Outcomes,
         RecordTerminal(f, target)
  PROVE  Advances(f) \/ NoRecordWritten
<1>1. CASE flows[f].state = "submitted"
  <2> DEFINE row == [flows[f] EXCEPT !.state = target, !.revision = 4,
                                     !.settlement = target]
             tab == IF target = "verified_settled" THEN target ELSE "failed"
  <2>1. flows[f] \in Row /\ flows[f].revision = 3
    BY <1>1, RowShape DEF Frozen
  <2>2. Write(f, row, "terminal", tab)
    BY <1>1 DEF RecordTerminal
  <2>3. /\ row.state = target /\ row.revision = 4
        /\ row.settlement = SettlementFor(row.state)
        /\ row.body = flows[f].body /\ row.acceptance = flows[f].acceptance
    BY <2>1 DEF Row, SettlementFor, Outcomes
  <2>4. tab = TabFor(target)
    BY DEF TabFor, Outcomes
  <2> HIDE DEF row, tab
  <2>5. row \in Row
    <3>1. RecordsTypeOK'
      BY RecordTerminalType DEF Agreement, FlowTypeOK
    <3>2. flows'[f] = row
      BY <2>2, WriteMoves DEF Agreement, FlowTypeOK
    <3> QED BY <2>3, <3>1, <3>2 DEF RecordsTypeOK, NoRow
  <2> QED BY <1>1, <2>1, <2>2, <2>3, <2>4, <2>5 DEF Advances, Frozen
<1>2. CASE flows[f].state # "submitted"
  BY <1>2 DEF RecordTerminal, recordVars, NoRecordWritten
<1> QED BY <1>1, <1>2

LEMMA ReconcileAdvances ==
  ASSUME Agreement, NEW f \in Flows, ReconcileFlow(f)
  PROVE  Advances(f) \/ NoRecordWritten
<1>1. CASE flows[f].state \in {"completed_unverified", "timeout"}
  <2> DEFINE row == [flows[f] EXCEPT !.state = "verified_settled",
                                     !.revision = 5,
                                     !.settlement = "verified_settled"]
  <2>1. flows[f] \in Row /\ FlowShape(flows[f])
    BY <1>1, RowShape DEF Frozen
  <2>2. flows[f].revision = 4
    BY <1>1, <2>1 DEF FlowShape
  <2>3. Write(f, row, "reconciled", "verified_settled")
    BY <1>1 DEF ReconcileFlow
  <2>4. /\ row.state = "verified_settled" /\ row.revision = 5
        /\ row.settlement = SettlementFor(row.state)
        /\ row.body = flows[f].body /\ row.acceptance = flows[f].acceptance
    BY <2>1 DEF Row, SettlementFor
  <2> HIDE DEF row
  <2>5. row \in Row
    <3>1. RecordsTypeOK'
      BY ReconcileFlowType DEF Agreement, FlowTypeOK
    <3>2. flows'[f] = row
      BY <2>3, WriteMoves DEF Agreement, FlowTypeOK
    <3> QED BY <2>4, <3>1, <3>2 DEF RecordsTypeOK, NoRow
  <2> QED BY <1>1, <2>2, <2>3, <2>4, <2>5 DEF Advances, Frozen, TabFor
<1>2. CASE flows[f].state \notin {"completed_unverified", "timeout"}
  BY <1>2 DEF ReconcileFlow, recordVars, NoRecordWritten
<1> QED BY <1>1, <1>2

\* Every step of everybody is one such transaction, or writes no flow record.
LEMMA StepAdvances ==
  ASSUME Agreement, [FlowNext]_flowVars
  PROVE  NoRecordWritten \/ \E f \in Flows : Advances(f)
<1>1. RecordsTypeOK
  BY DEF Agreement, FlowTypeOK
<1>2. RecordsStay => NoRecordWritten
  BY DEF RecordsStay, recordVars, NoRecordWritten
<1>3. ASSUME NEW f \in Flows, Channel(f)
      PROVE  NoRecordWritten \/ Advances(f)
  <2>1. WithdrawApproval(f) => NoRecordWritten
    BY DEF WithdrawApproval, Withdraw, NoRecordWritten
  <2>2. FreezeFlow(f) => Advances(f)
    BY <1>1, FreezeAdvances DEF FreezeFlow
  <2>3. ASSUME NEW b \in Bodies, SimulateFlow(f, b) \/ PersistSimulation(f, b)
        PROVE  NoRecordWritten \/ Advances(f)
    BY <1>2, <2>3, SimulationAdvances DEF SimulateFlow, PersistSimulation
  <2> QED BY <1>3, <2>1, <2>2, <2>3 DEF Channel
<1>4. ASSUME NEW r \in Requests, Request(r)
      PROVE  NoRecordWritten \/ \E f \in Flows : Advances(f)
  <2>1. CASE PersistExecution(r) /\ ~RecordsStay
    <3>1. /\ req[r].pc = "done" /\ ~Free(r)
          /\ RecordExecution(req[r].flow, req[r].body, req[r].accepted)
      BY <2>1 DEF PersistExecution, At
    <3>2. req[r] \in Handler
      BY <3>1, HandlerType DEF Agreement, FlowTypeOK, TypeOK
    <3>3. FlowRequestOK(r) /\ HandlerOK(r)
      BY DEF Agreement, FlowInvariant, SubmissionInvariant
    <3>4. /\ req[r].flow \in Flows /\ req[r].body \in Bodies
          /\ req[r].accepted \in Acceptances
      BY <3>1, <3>2, <3>3 DEF FlowRequestOK, HandlerOK, At, Attaches, Handler
    <3> QED BY <3>1, <3>4, ExecutionAdvances
  <2>2. CASE RecordsStay
    BY <1>2, <2>2
  <2> QED BY <1>4, <2>1, <2>2 DEF Request, Execute, SubmitPlain, Forget,
             AssertApprovals, CrashBeforeFlow
<1>5. ASSUME NEW o \in Observers, Status(o)
      PROVE  NoRecordWritten \/ \E f \in Flows : Advances(f)
  <2>1. CASE WriteOutcome(o) /\ ~RecordsStay
    <3> DEFINE w == flowWatch[o]
    <3>1. w.pc = "write"
      BY <2>1 DEF WriteOutcome
    <3>2. w \in FlowWatcher
      BY <3>1, FlowWatcherType
    <3>3. w.flow \in Flows /\ w.target \in Outcomes
      BY <3>2 DEF FlowWatcher
    <3>4. RecordTerminal(w.flow, w.target) \/ ReconcileFlow(w.flow)
      BY <2>1 DEF WriteOutcome
    <3> HIDE DEF w
    <3> QED BY <3>3, <3>4, TerminalAdvances, ReconcileAdvances
  <2>2. CASE RecordsStay
    BY <1>2, <2>2
  <2> QED BY <1>5, <2>1, <2>2 DEF Status, FlowPoll, FlowObserve,
             CrashFlowPoll, CrashObserve, PlainPoll
<1>6. FlowEnvironment \/ UNCHANGED flowVars => NoRecordWritten
  BY <1>2 DEF FlowEnvironment, flowVars, addedVars, RecordsStay
<1> QED BY <1>3, <1>4, <1>5, <1>6 DEF FlowNext

LEMMA RecordsAgreeStep ==
  ASSUME Agreement, RecordsAgree, [FlowNext]_flowVars
  PROVE  RecordsAgree'
BY StepAdvances, AdvanceAgrees, UnwrittenAgrees DEF Agreement, FlowTypeOK

LEMMA RecordsStart ==
  ASSUME FlowInit
  PROVE  RecordsAgree
<1>1. \A f \in Flows : /\ flows[f] = NoRow /\ trail[f] = {} /\ ~Frozen(f)
  BY DEF FlowInit, RecordsInit, Frozen, NoRow
<1>2. {v.revision : v \in {}} = 1..NoRow.revision
  BY DEF NoRow
<1>3. IsFiniteSet({}) /\ Cardinality({}) = NoRow.revision
  BY FS_EmptySet DEF NoRow
<1> QED BY <1>1, <1>2, <1>3 DEF RecordsAgree, TrailTold, OneFlowPerTab

\* Flow rows, their events and the tabs, in every reachable state.
THEOREM RecordsInvariance == FlowSpec => [](Agreement /\ RecordsAgree)
<1>1. FlowInit => Agreement /\ RecordsAgree
  BY FlowStart, RecordsStart
<1>2. Agreement /\ RecordsAgree /\ [FlowNext]_flowVars
        => (Agreement /\ RecordsAgree)'
  BY FlowStep, RecordsAgreeStep
<1> QED BY <1>1, <1>2, PTL DEF FlowSpec

\* Freeze looks at the tab only, every later function at the flow only; yet no
\* two runs ever hold the same tab.
THEOREM OneFlow == FlowSpec => []OneFlowPerTab
<1>1. Agreement /\ RecordsAgree => OneFlowPerTab
  BY DEF RecordsAgree
<1> QED BY <1>1, RecordsInvariance, PTL

\* Row, events, settlement row and tab of a flow agree whoever wrote last:
\* verifiedFlow never meets a row it rejects, each revision has its one event,
\* and settlement and tab show the state of the one flow.
THEOREM Copies == FlowSpec => []CopiesAgree
<1>1. Agreement /\ RecordsAgree => CopiesAgree
  <2> SUFFICES ASSUME Agreement, RecordsAgree, NEW f \in Flows
               PROVE
    /\ Frozen(f) => /\ FlowShape(flows[f])
                    /\ flows[f].settlement = SettlementFor(flows[f].state)
    /\ {v.revision : v \in trail[f]} = 1..flows[f].revision
    /\ Cardinality(trail[f]) = flows[f].revision
    /\ \A v \in trail[f] :
         v.revision = flows[f].revision => v.state = flows[f].state
    /\ flows[f].state = "frozen" => tabs[TabOf[f]] = "frozen"
    /\ flows[f].state = "simulated" => tabs[TabOf[f]] = "signing"
    /\ flows[f].state = "submitted" => tabs[TabOf[f]] = "settling"
    /\ flows[f].state \in Outcomes =>
         tabs[TabOf[f]] = IF flows[f].state = "verified_settled"
                          THEN "verified_settled" ELSE "failed"
    BY DEF CopiesAgree
  <2>1. /\ Frozen(f) => FlowShape(flows[f])
        /\ TrailTold(f)
        /\ Frozen(f) => /\ tabs[TabOf[f]] = TabFor(flows[f].state)
                        /\ flows[f].settlement = SettlementFor(flows[f].state)
    BY DEF Agreement, FlowInvariant, RecordsAgree
  <2>2. flows[f].state \in {"frozen", "simulated", "submitted"} \cup Outcomes
          => Frozen(f)
    BY DEF Frozen, Outcomes
  <2> QED BY <2>1, <2>2 DEF TrailTold, TabFor, Outcomes
<1> QED BY <1>1, RecordsInvariance, PTL

\* What one transaction on a flow leaves behind, for every flow.
LEMMA AdvanceKeeps ==
  ASSUME RecordsTypeOK, NEW f \in Flows, Advances(f), NEW g \in Flows
  PROVE  /\ flows'[g].revision >= flows[g].revision
         /\ Submitted(g) => /\ flows'[g].body = flows[g].body
                            /\ flows'[g].acceptance = flows[g].acceptance
         /\ Frozen(g) /\ flows[g].state \in {"verified_settled", "failed"} =>
              flows'[g] = flows[g]
         /\ trail[g] \subseteq trail'[g]
<1>1. PICK row, kind, tab :
        /\ row \in Row
        /\ Write(f, row, kind, tab)
        /\ row.revision = flows[f].revision + 1
        /\ Submitted(f) => /\ row.body = flows[f].body
                           /\ row.acceptance = flows[f].acceptance
        /\ flows[f].state \notin {"verified_settled", "failed"}
  BY DEF Advances
<1>2. /\ flows'[f] = row /\ trail[f] \subseteq trail'[f]
      /\ \A h \in Flows \ {f} : flows'[h] = flows[h] /\ trail'[h] = trail[h]
  BY <1>1, AdvanceWrites
<1>3. flows[g].revision \in Nat
  BY FlowRevisionType
<1>4. CASE g = f
  BY <1>1, <1>2, <1>3, <1>4
<1>5. CASE g # f
  BY <1>2, <1>3, <1>5
<1> QED BY <1>4, <1>5

\* No step of any route, in any interleaving, moves a flow backwards, changes
\* what was submitted, or touches a verified or failed flow again.
THEOREM FlowForward == FlowSpec => FlowMonotone
<1>1. Agreement /\ [FlowNext]_flowVars =>
        [\A f \in Flows :
           /\ flows'[f].revision >= flows[f].revision
           /\ Submitted(f) => /\ flows'[f].body = flows[f].body
                              /\ flows'[f].acceptance = flows[f].acceptance
           /\ Frozen(f) /\ flows[f].state \in {"verified_settled", "failed"} =>
                flows'[f] = flows[f]
           /\ trail[f] \subseteq trail'[f]]_flowVars
  <2> SUFFICES ASSUME Agreement, [FlowNext]_flowVars, NEW f \in Flows
               PROVE
           /\ flows'[f].revision >= flows[f].revision
           /\ Submitted(f) => /\ flows'[f].body = flows[f].body
                              /\ flows'[f].acceptance = flows[f].acceptance
           /\ Frozen(f) /\ flows[f].state \in {"verified_settled", "failed"} =>
                flows'[f] = flows[f]
           /\ trail[f] \subseteq trail'[f]
    OBVIOUS
  <2>1. RecordsTypeOK
    BY DEF Agreement, FlowTypeOK
  <2>2. CASE NoRecordWritten
    BY <2>1, <2>2, FlowRevisionType DEF NoRecordWritten
  <2>3. CASE \E g \in Flows : Advances(g)
    BY <2>1, <2>3, AdvanceKeeps
  <2> QED BY <2>2, <2>3, StepAdvances
<1> QED BY <1>1, FlowInvariance, PTL DEF FlowSpec, FlowMonotone
=============================================================================
