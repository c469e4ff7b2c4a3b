--------------------------- MODULE SettlementFlow ---------------------------
(***************************************************************************)
(* The first-party channel: the routes of apps/web/app/api/settlement-flow *)
(* (freeze, simulate, execute, status) with lib/server/settlementFlow.ts,  *)
(* which keep the flow's records (module FlowRecords) in step with the     *)
(* submission journal they share with REST and MCP (module                 *)
(* SubmissionJournal).                                                     *)
(*                                                                         *)
(* Every step is a step of SubmissionJournal, with what the flow adds to   *)
(* it, or leaves that module's state alone: the flow has its own writes,   *)
(* before and after those of the journal, and a handler may die between.   *)
(***************************************************************************)
EXTENDS SubmissionJournal, FlowRecords

CONSTANT MaxFlowFaults    \* bound on handlers that die between the two writes
ASSUME FlowFaultsAssumption == MaxFlowFaults \in Nat

VARIABLES
  seen,        \* seen[r]: the flow's state as the execute handler in r read it
  simulated,   \* successful simulations simulate handlers hold: <<flow, body>>
  flowWatch,   \* flowWatch[o]: what the flow's status handler in o holds
  flowFaults   \* how many of those deaths happened

addedVars == <<recordVars, seen, simulated, flowWatch, flowFaults>>
flowVars == <<vars, addedVars>>

\* "none": no flow, or no handler; "cleared": simulated, approvals asserted.
Snapshots == {"none", "frozen", "simulated", "cleared"}
FlowWatcher == [pc : {"observe", "write"}, flow : Flows,
                from : {"submitted", "completed_unverified", "timeout"},
                target : Outcomes]

FlowTypeOK ==
  /\ TypeOK
  /\ RecordsTypeOK
  /\ seen \in [Requests -> Snapshots]
  /\ simulated \subseteq Flows \X Bodies
  /\ flowWatch \in [Observers -> FlowWatcher \cup {NotWatching}]
  /\ flowFaults \in 0..MaxFlowFaults

FlowInit ==
  /\ Init
  /\ RecordsInit
  /\ seen = [r \in Requests |-> "none"]
  /\ simulated = {}
  /\ flowWatch = [o \in Observers |-> NotWatching]
  /\ flowFaults = 0

\* What a step leaves alone.
JournalStays == UNCHANGED vars
RecordsStay == UNCHANGED recordVars
HandlersStay == UNCHANGED <<seen, simulated, flowWatch>>
NoFlowFault == UNCHANGED flowFaults
FlowFault ==
  /\ flowFaults < MaxFlowFaults
  /\ flowFaults' = flowFaults + 1

(***************************************************************************)
(* freeze and simulate.                                                    *)
(***************************************************************************)
FreezeFlow(f) ==
  Freeze(f) /\ JournalStays /\ HandlersStay /\ NoFlowFault

\* The simulate route, up to KeeperHub's answer: it read a frozen flow, and
\* the call would not revert now.
SimulateFlow(f, b) ==
  /\ flows[f].state = "frozen"
  /\ MayExecute(KeyOf[f])
  /\ <<f, b>> \notin simulated
  /\ simulated' = simulated \cup {<<f, b>>}
  /\ JournalStays /\ RecordsStay /\ NoFlowFault
  /\ UNCHANGED <<seen, flowWatch>>

\* persistSuccessfulSimulation, which may find that another body came first.
PersistSimulation(f, b) ==
  /\ <<f, b>> \in simulated
  /\ simulated' = simulated \ {<<f, b>>}
  /\ RecordSimulation(f, b)
  /\ JournalStays /\ NoFlowFault
  /\ UNCHANGED <<seen, flowWatch>>

WithdrawApproval(f) ==
  Withdraw(f) /\ JournalStays /\ HandlersStay /\ NoFlowFault

(***************************************************************************)
(* execute: submitApprovedSettlement with durableFlow and beforeBroadcast, *)
(* then persistAcceptedExecution.  A flow submitted before is answered     *)
(* from its own row and changes nothing.                                   *)
(***************************************************************************)
Free(r) == seen[r] = "none"

Execute(r, f, p, b) ==
  /\ Free(r)
  /\ flows[f].state \in {"frozen", "simulated"}
  /\ Start(r, KeyOf[f], p, b, f)
  /\ seen' = [seen EXCEPT ![r] = flows[f].state]
  /\ RecordsStay /\ NoFlowFault
  /\ UNCHANGED <<simulated, flowWatch>>

\* REST and MCP
SubmitPlain(r) ==
  /\ Free(r)
  /\ \E k \in Keys, p \in Principals, b \in Bodies : Start(r, k, p, b, NoFlow)
  /\ RecordsStay /\ HandlersStay /\ NoFlowFault

Attaches(r) == req[r].flow # NoFlow
\* Seeded fault: the reads and the insert do not look at the flow's row.
FlowBindsUnchecked(r) == TRUE

FlowBinds(r) == Attaches(r) => Bound(req[r].flow, req[r].body)

\* assertDurableApprovalsImmediatelyBeforeExecution, on the snapshot the
\* handler took and on the row as it is now.
MayClear(r) ==
  seen[r] = "simulated" /\ ApprovalsSigned(req[r].flow, req[r].body)

AssertApprovals(r) ==
  /\ At(r, "recheck") /\ Attaches(r)
  /\ MayClear(r)
  /\ seen' = [seen EXCEPT ![r] = "cleared"]
  /\ JournalStays /\ RecordsStay /\ NoFlowFault
  /\ UNCHANGED <<simulated, flowWatch>>

\* The journal's steps, with the flow's say in them.
JournalRead(r) ==
  \/ ReadPrior(r) /\ FlowBinds(r)
  \/ /\ ReadRefused(r)
     /\ \/ req[r].lapsed \/ ~FlowBinds(r)
        \/ RetryConflict(req[r].key, req[r].principal, req[r].body, req[r].flow)

JournalPrepare(r) ==
  \/ PrepareIntent(r) /\ FlowBinds(r)
  \/ /\ PrepareRefused(r)
     /\ \/ req[r].lapsed \/ ~FlowBinds(r)
        \/ PrepareConflict(req[r].key, req[r].principal, req[r].body,
                           req[r].simulation, req[r].flow)

\* Seeded fault: a failed approval check is logged, not enforced.
JournalRecheckLogs(r) ==
  \/ Recheck(r)
  \/ RecheckRefused(r) /\ req[r].lapsed

JournalRecheck(r) ==
  \/ Recheck(r) /\ (Attaches(r) => seen[r] = "cleared")
  \/ /\ RecheckRefused(r)
     /\ IF Attaches(r) /\ seen[r] # "cleared" THEN ~MayClear(r)
                                              ELSE req[r].lapsed

\* A request that ends forgets its snapshot; a finished one still needs it.
Forget(r) ==
  /\ seen' = IF req'[r].pc = "idle" THEN [seen EXCEPT ![r] = "none"] ELSE seen
  /\ RecordsStay /\ NoFlowFault
  /\ UNCHANGED <<simulated, flowWatch>>

RequestProgress(r) ==
  \/ JournalRead(r)
  \/ Simulate(r) \/ SimulationReverts(r)
  \/ JournalPrepare(r)
  \/ JournalRecheck(r)
  \/ PostAnswered(r)
  \/ PersistAcceptance(r) \/ AcceptanceRefused(r)

RequestFault(r) == PostFails(r) \/ Lapse(r) \/ Crash(r)

\* persistAcceptedExecution.  A snapshot from before the simulation makes it
\* throw, although the acceptance is recorded.
PersistExecution(r) ==
  /\ At(r, "done") /\ ~Free(r)
  /\ IF seen[r] = "frozen" THEN RecordsStay
     ELSE RecordExecution(req[r].flow, req[r].body, req[r].accepted)
  /\ seen' = [seen EXCEPT ![r] = "none"]
  /\ JournalStays /\ NoFlowFault
  /\ UNCHANGED <<simulated, flowWatch>>

\* The handler dies between the journal's write and the flow's.
CrashBeforeFlow(r) ==
  /\ At(r, "done") /\ ~Free(r)
  /\ seen' = [seen EXCEPT ![r] = "none"]
  /\ FlowFault
  /\ JournalStays /\ RecordsStay
  /\ UNCHANGED <<simulated, flowWatch>>

(***************************************************************************)
(* status: the journal's observation first, then the flow's own row.       *)
(***************************************************************************)
FlowPoll(o, f, p, view, independent) ==
  LET target == ObservationTarget(view, independent) IN
  /\ flows[f].state \in {"submitted", "completed_unverified", "timeout"}
  /\ flowWatch[o] = NotWatching
  /\ ExecutionOf(KeyOf[f]) = flows[f].acceptance.id
  /\ Poll(o, KeyOf[f], p, view, independent)
  /\ flowWatch' = [flowWatch EXCEPT ![o] =
       IF target = "none" THEN NotWatching
       ELSE [pc |-> "observe", flow |-> f, from |-> flows[f].state,
             target |-> target]]
  /\ RecordsStay /\ NoFlowFault
  /\ UNCHANGED <<seen, simulated>>

\* Seeded fault: the flow's row is written before the journal has agreed.
FlowObserveAfterwards(o) ==
  /\ flowWatch[o].pc = "observe"
  /\ watch' = [watch EXCEPT ![o] = NotWatching]
  /\ flowWatch' = [flowWatch EXCEPT ![o].pc = "write"]
  /\ RecordsStay /\ NoFlowFault
  /\ UNCHANGED <<keyed, jobs, settled, intents, events, req, faults>>
  /\ UNCHANGED <<seen, simulated>>

\* persistDurableSettlementObservation; it throws when the function refuses, and
\* when the row that comes back is not in the observed state (it was verified
\* before): the flow is left alone.
FlowObserve(o) ==
  LET w == watch[o] IN
  /\ flowWatch[o].pc = "observe"
  /\ RecordPoll(o)
  /\ flowWatch' = [flowWatch EXCEPT ![o] =
       IF EvidenceSupports(flowWatch[o].target, w.view, w.independent)
            /\ intents'[w.key].state = flowWatch[o].target
       THEN [@ EXCEPT !.pc = "write"] ELSE NotWatching]
  /\ RecordsStay /\ NoFlowFault
  /\ UNCHANGED <<seen, simulated>>

\* persistTerminalStatus or promoteDurableSettlementProof, by the state the
\* handler read before it polled.
WriteOutcome(o) ==
  LET w == flowWatch[o] IN
  /\ w.pc = "write"
  /\ CASE w.from = "submitted" -> RecordTerminal(w.flow, w.target)
       [] w.from # "submitted" /\ w.target = "verified_settled" ->
            ReconcileFlow(w.flow)
       [] OTHER -> RecordsStay
  /\ flowWatch' = [flowWatch EXCEPT ![o] = NotWatching]
  /\ JournalStays /\ NoFlowFault
  /\ UNCHANGED <<seen, simulated>>

CrashFlowPoll(o) ==
  /\ flowWatch[o].pc = "write"
  /\ flowWatch' = [flowWatch EXCEPT ![o] = NotWatching]
  /\ FlowFault
  /\ JournalStays /\ RecordsStay
  /\ UNCHANGED <<seen, simulated>>

\* The same death before the journal's write.
CrashObserve(o) ==
  /\ CrashPoll(o)
  /\ flowWatch' = [flowWatch EXCEPT ![o] = NotWatching]
  /\ RecordsStay /\ NoFlowFault
  /\ UNCHANGED <<seen, simulated>>

\* GET /api/settle/status and the MCP tool
PlainPoll(o) ==
  /\ flowWatch[o] = NotWatching
  /\ \/ \E k \in Keys, authority \in Principals \cup {Capability},
           view \in Views, independent \in BOOLEAN :
          Poll(o, k, authority, view, independent)
     \/ RecordPoll(o)
  /\ RecordsStay /\ HandlersStay /\ NoFlowFault

(***************************************************************************)
(* The specification.                                                      *)
(***************************************************************************)
Channel(f) ==
  \/ FreezeFlow(f)
  \/ \E b \in Bodies : SimulateFlow(f, b) \/ PersistSimulation(f, b)
  \/ WithdrawApproval(f)

Request(r) ==
  \/ \E f \in Flows, p \in Principals, b \in Bodies : Execute(r, f, p, b)
  \/ SubmitPlain(r)
  \/ RequestProgress(r) /\ Forget(r)
  \/ RequestFault(r) /\ Forget(r)
  \/ AssertApprovals(r)
  \/ PersistExecution(r) \/ CrashBeforeFlow(r)

Status(o) ==
  \/ \E f \in Flows, p \in Principals, view \in Views,
        independent \in BOOLEAN : FlowPoll(o, f, p, view, independent)
  \/ FlowObserve(o) \/ WriteOutcome(o) \/ CrashFlowPoll(o)
  \/ CrashObserve(o)
  \/ PlainPoll(o)

FlowEnvironment ==
  Environment /\ RecordsStay /\ HandlersStay /\ NoFlowFault

FlowNext ==
  \/ \E f \in Flows : Channel(f)
  \/ \E r \in Requests : Request(r)
  \/ \E o \in Observers : Status(o)
  \/ FlowEnvironment

FlowSpec == FlowInit /\ [][FlowNext]_flowVars

(***************************************************************************)
(* Fairness, as in SubmissionJournal: running handlers go on, KeeperHub    *)
(* finishes, and the browser that owns the flow executes it again and      *)
(* polls it again until it reads an outcome.                               *)
(***************************************************************************)
ReExecute(f) ==
  LET k == KeyOf[f] IN
  /\ Exists(k)
  /\ \E r \in Requests : Execute(r, f, intents[k].principal, intents[k].body)

PollFlowTruth(f) ==
  LET k == KeyOf[f] IN
  /\ Exists(k)
  /\ ExecutionOf(k) # NoExecution
  /\ LET truth == Truth(ExecutionOf(k))
     IN  \E o \in Observers :
           FlowPoll(o, f, intents[k].principal, truth, truth = "success")

FairFlowSpec ==
  /\ FlowSpec
  /\ \A r \in Requests :
       /\ WF_flowVars(RequestProgress(r) /\ Forget(r))
       /\ WF_flowVars(AssertApprovals(r))
       /\ WF_flowVars(PersistExecution(r))
  /\ \A o \in Observers :
       /\ WF_flowVars(FlowObserve(o))
       /\ WF_flowVars(WriteOutcome(o))
       /\ WF_flowVars(PlainPoll(o) /\ RecordPoll(o))
  /\ \A e \in Executions :
       WF_flowVars(HubProgress(e) /\ RecordsStay /\ HandlersStay /\ NoFlowFault)
  /\ \A f \in Flows : SF_flowVars(ReExecute(f)) /\ SF_flowVars(PollFlowTruth(f))

(***************************************************************************)
(* Correctness.                                                            *)
(***************************************************************************)

\* What a submitted flow's row says of its execution, against the journal's row.
FlowRowOK(f) ==
  Submitted(f) =>
    LET i == intents[KeyOf[f]] IN
    /\ i.state # "absent" /\ i.state # "prepared"
    /\ i.flow = f
    /\ i.body = flows[f].body
    /\ i.acceptance = flows[f].acceptance
    /\ flows[f].state \in {"verified_settled", "failed"} =>
         i.state = flows[f].state
    /\ flows[f].state \in {"completed_unverified", "timeout"} =>
         i.state \in {flows[f].state, "verified_settled"}

\* The flow's own records never run ahead of the journal: what the flow says
\* of an execution, the journal said first, for this flow and this body.  Two
\* rows, written by two transactions of handlers that may die between them and
\* whose snapshots may be old.
FlowFollowsJournal == \A f \in Flows : FlowRowOK(f)

\* A submission attached to a flow is the reviewed one: the flow was simulated
\* and signed with this very body, whoever prepared the row and whatever the
\* flow's other requests did in between.
AttachedAsReviewed ==
  \A k \in Keys :
    Exists(k) /\ intents[k].flow # NoFlow =>
      /\ KeyOf[intents[k].flow] = k
      /\ flows[intents[k].flow].revision >= 2
      /\ flows[intents[k].flow].body = intents[k].body

\* No request of the first-party channel reaches KeeperHub but through the
\* approval check, on a flow whose body is the one it posts.
PostedAsReviewed ==
  \A r \in Requests :
    req[r].pc \in {"post", "accept"} /\ Attaches(r) =>
      /\ seen[r] = "cleared"
      /\ flows[req[r].flow].body = req[r].body

(***************************************************************************)
(* The inductive invariant behind these, beside SubmissionInvariant: what  *)
(* the snapshots of handlers on either side of the two writes still say.   *)
(***************************************************************************)
FlowRequestOK(r) ==
  LET q == req[r] IN
  /\ q.pc = "idle" => Free(r)
  /\ q.pc # "idle" =>
       /\ Attaches(r) => q.key = KeyOf[q.flow]
       /\ ~Free(r) => Attaches(r)
       /\ q.pc \in {"post", "accept"} /\ Attaches(r) => seen[r] = "cleared"
       /\ q.pc \in {"recheck", "post", "accept", "done"} /\ Attaches(r) =>
            intents[q.key].flow = q.flow

FlowStatusOK(o) ==
  LET w == flowWatch[o] IN
  /\ w.pc # "idle" => Submitted(w.flow)
  /\ w.pc = "observe" =>
       /\ watch[o].pc = "record" /\ watch[o].key = KeyOf[w.flow]
       /\ w.target = ObservationTarget(watch[o].view, watch[o].independent)
  /\ w.pc = "write" =>
       LET s == intents[KeyOf[w.flow]].state IN
       /\ s \in {w.target, "verified_settled"}
       /\ w.target = "failed" => s = "failed"

\* Every step of the flow's routes, and every step of REST and MCP beside
\* them, keeps flow rows, handlers' snapshots and journal rows in agreement.
FlowInvariant ==
  /\ \A f \in Flows : Frozen(f) => FlowShape(flows[f])
  /\ FlowFollowsJournal
  /\ AttachedAsReviewed
  /\ \A r \in Requests : FlowRequestOK(r)
  /\ \A o \in Observers : FlowStatusOK(o)

\* A flow only moves forward, and what was signed, submitted and verified in it
\* stays.
FlowMonotone ==
  [][\A f \in Flows :
       /\ flows'[f].revision >= flows[f].revision
       /\ Submitted(f) => /\ flows'[f].body = flows[f].body
                          /\ flows'[f].acceptance = flows[f].acceptance
       /\ Frozen(f) /\ flows[f].state \in {"verified_settled", "failed"} =>
            flows'[f] = flows[f]
       /\ trail[f] \subseteq trail'[f]]_flowVars

\* The first-party channel is a use of the submission journal like any other:
\* hidden what the flow adds, every behaviour is one of SubmissionJournal, so
\* every property of that module holds here.
ImplementsJournal == Spec

\* A submission attached to a flow does not stay behind: the browser's retries
\* end in a flow that knows its execution.
AttachedFlowSubmitted ==
  \A f \in Flows :
    (Exists(KeyOf[f]) /\ intents[KeyOf[f]].flow = f) ~> Submitted(f)

\* A submitted flow whose plan is settled on chain is in the end shown as
\* verified, although journal and flow are written one after the other and
\* either write may have been lost.
SettledFlowVerified ==
  \A f \in Flows :
    (Submitted(f) /\ settled[KeyOf[f]] = 1)
      ~> flows[f].state = "verified_settled"

\* settlementSubmission.ts, where a prepared row is retried: "Re-running
\* simulation after an accepted-but-not-yet-recorded broadcast could revert as
\* AlreadySettled and strand the execution id", so a retry reuses the stored
\* one; docs/settlement-agent-control-plane.md asks for current approvals of a
\* fresh submission only.  An execution KeeperHub took for a flow would then
\* reach the flow by retries.  The code asks them of every retry of a prepared
\* row, and an approval withdrawn meanwhile never comes back.
TakenExecutionRecorded ==
  \A f \in Flows :
    (/\ Exists(KeyOf[f]) /\ intents[KeyOf[f]].flow = f
     /\ \E e \in Executions : JobOf(KeyOf[f], e)) ~> Submitted(f)
=============================================================================
