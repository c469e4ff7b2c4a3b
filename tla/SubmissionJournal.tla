-------------------------- MODULE SubmissionJournal --------------------------
(***************************************************************************)
(* The value-moving path of the server: submitApprovedSettlement and the   *)
(* status route (apps/web/lib/server/settlementSubmission.ts,              *)
(* apps/web/app/api/settle/), run by handlers that interleave at every     *)
(* await and may die at any of them, against the durable journal (module   *)
(* SubmissionIntents) and KeeperHub with the chain (module KeeperHub).     *)
(*                                                                         *)
(* A request slot runs one handler after another.  Its approval artifact   *)
(* is valid when the handler starts and may lapse at any later step.       *)
(***************************************************************************)
EXTENDS KeeperHub, SubmissionIntents

CONSTANT MaxFaults     \* bound on crashes, lapsed approvals, failed calls
ASSUME FaultsAssumption == MaxFaults \in Nat

VARIABLES
  req,         \* req[r]: the handler in slot r and its locals
  watch,       \* watch[o]: the status handler in slot o and its locals
  faults       \* how many faults happened

vars == <<keyed, jobs, settled, intents, events, req, watch, faults>>

Steps == {"idle", "read", "simulate", "prepare", "recheck", "post", "accept",
          "done"}
Handler == [pc : Steps, key : Keys, principal : Principals, body : Bodies,
            flow : Flows \cup {NoFlow}, lapsed : BOOLEAN,
            simulation : Simulations \cup {NoSimulation},
            accepted : Acceptances \cup {NoAcceptance}]
Idle == [pc |-> "idle"]

Watcher == [pc : {"record"}, key : Keys, view : Views \ {"pending"},
            independent : BOOLEAN]
NotWatching == [pc |-> "idle"]

TypeOK ==
  /\ HubTypeOK
  /\ JournalTypeOK
  /\ req \in [Requests -> Handler \cup {Idle}]
  /\ watch \in [Observers -> Watcher \cup {NotWatching}]
  /\ faults \in 0..MaxFaults

Init ==
  /\ HubInit
  /\ JournalInit
  /\ req = [r \in Requests |-> Idle]
  /\ watch = [o \in Observers |-> NotWatching]
  /\ faults = 0

At(r, step) == req[r].pc = step
Goto(r, step) == req' = [req EXCEPT ![r].pc = step]
Reject(r) == req' = [req EXCEPT ![r] = Idle]

\* A request for a first-party flow is refused for reasons of that flow too,
\* which module SettlementFlow gives.
MayBeRefused(r) == req[r].flow # NoFlow

Fault ==
  /\ faults < MaxFaults
  /\ faults' = faults + 1
NoFault == UNCHANGED faults

(***************************************************************************)
(* submitApprovedSettlement                                                *)
(***************************************************************************)

\* A request arrives, on a slot whose last request is over.  preparedCall and
\* the first verifyBroadcastApproval pass: an approval that is not valid now,
\* or is not this principal's for this plan, ends the request with nothing
\* changed.
Start(r, k, p, b, f) ==
  /\ req[r].pc \in {"idle", "done"}
  /\ req' = [req EXCEPT ![r] =
               [pc |-> "read", key |-> k, principal |-> p, body |-> b,
                flow |-> f, lapsed |-> FALSE, simulation |-> NoSimulation,
                accepted |-> NoAcceptance]]
  /\ NoFault
  /\ UNCHANGED <<hubVars, journalVars, watch>>

\* Seeded fault: a prepared row is simulated again instead of reusing the
\* stored simulation.
ReadPriorResimulates(r) ==
  LET q == req[r] IN
  /\ At(r, "read")
  /\ ~q.lapsed
  /\ ReadRetry(q.key, q.principal, q.body, r, q.flow)
  /\ req' = [req EXCEPT ![r] =
       IF ExecutionOf(q.key) # NoExecution
       THEN [q EXCEPT !.pc = "done",
                      !.accepted = intents[q.key].acceptance,
                      !.simulation = intents[q.key].simulation]
       ELSE [q EXCEPT !.pc = "simulate"]]
  /\ NoFault
  /\ UNCHANGED <<hubVars, watch>>

\* readDurableSubmissionRetry, and what the handler does with the row: replay
\* the recorded acceptance, or go on with the stored simulation of a prepared
\* row, or start from nothing.
ReadPrior(r) ==
  LET q == req[r] IN
  /\ At(r, "read")
  /\ ~q.lapsed
  /\ ReadRetry(q.key, q.principal, q.body, r, q.flow)
  /\ req' = [req EXCEPT ![r] =
       IF ~Exists(q.key) THEN [q EXCEPT !.pc = "simulate"]
       ELSE IF intents[q.key].acceptance # NoAcceptance
            THEN [q EXCEPT !.pc = "done",
                           !.accepted = intents[q.key].acceptance,
                           !.simulation = intents[q.key].simulation]
       ELSE [q EXCEPT !.pc = "recheck",
                      !.simulation = intents[q.key].simulation]]
  /\ NoFault
  /\ UNCHANGED <<hubVars, watch>>

ReadRefused(r) ==
  LET q == req[r] IN
  /\ At(r, "read")
  /\ q.lapsed \/ MayBeRefused(r)
       \/ RetryConflict(q.key, q.principal, q.body, q.flow)
  /\ Reject(r)
  /\ NoFault
  /\ UNCHANGED <<hubVars, journalVars, watch>>

\* simulateContractCall: the exact call on the current chain state.  A plan
\* settled already reverts with AlreadyExecuted.
Simulate(r) ==
  /\ At(r, "simulate")
  /\ MayExecute(req[r].key)
  /\ \E s \in Simulations :
       req' = [req EXCEPT ![r].pc = "prepare", ![r].simulation = s]
  /\ NoFault
  /\ UNCHANGED <<hubVars, journalVars, watch>>

SimulationReverts(r) ==
  /\ At(r, "simulate")
  /\ ~MayExecute(req[r].key)
  /\ Reject(r)
  /\ NoFault
  /\ UNCHANGED <<hubVars, journalVars, watch>>

\* prepareDurableSubmission.  The row returned may be one another handler
\* prepared, and accepted, since this handler read nothing.
PrepareIntent(r) ==
  LET q == req[r] IN
  /\ At(r, "prepare")
  /\ ~q.lapsed
  /\ Prepare(q.key, q.principal, q.body, r, q.simulation, q.flow)
  /\ IF intents'[q.key].state = "prepared" THEN Goto(r, "recheck")
                                           ELSE Reject(r)
  /\ NoFault
  /\ UNCHANGED <<hubVars, watch>>

PrepareRefused(r) ==
  LET q == req[r] IN
  /\ At(r, "prepare")
  /\ q.lapsed \/ MayBeRefused(r)
       \/ PrepareConflict(q.key, q.principal, q.body, q.simulation, q.flow)
  /\ Reject(r)
  /\ NoFault
  /\ UNCHANGED <<hubVars, journalVars, watch>>

\* The approval is verified again after persistence; a lapsed one ends the
\* request, and so does an objection of the attached flow.
Recheck(r) ==
  /\ At(r, "recheck")
  /\ ~req[r].lapsed
  /\ Goto(r, "post")
  /\ NoFault
  /\ UNCHANGED <<hubVars, journalVars, watch>>

RecheckRefused(r) ==
  /\ At(r, "recheck")
  /\ req[r].lapsed \/ MayBeRefused(r)
  /\ Reject(r)
  /\ NoFault
  /\ UNCHANGED <<hubVars, journalVars, watch>>

\* Seeded fault: the call goes out without its Idempotency-Key.
PostAnsweredUnkeyed(r) ==
  LET q == req[r] IN
  /\ At(r, "post")
  /\ \E e \in Executions :
       /\ Unused(e)
       /\ jobs' = [jobs EXCEPT ![e] =
            [status |-> "pending", tx |-> "none", key |-> q.key,
             body |-> q.body, principal |-> q.principal]]
       /\ req' = [req EXCEPT ![r].pc = "accept",
                             ![r].accepted = [id |-> e, replay |-> FALSE]]
  /\ NoFault
  /\ UNCHANGED <<keyed, settled, journalVars, watch>>

\* executeContractCall, answered.  A key KeeperHub remembers is answered with
\* the execution it stands for: as the stored response of the first call, or
\* as an idempotency_conflict, which the client turns into a replay.
PostAnswered(r) ==
  LET q == req[r] IN
  /\ At(r, "post")
  /\ \/ \E e \in Executions :
          /\ OpenJob(q.key, q.body, q.principal, e)
          /\ req' = [req EXCEPT ![r].pc = "accept",
                                ![r].accepted = [id |-> e, replay |-> FALSE]]
     \/ /\ keyed[q.key] # NoExecution
        /\ \E replay \in BOOLEAN :
             req' = [req EXCEPT ![r].pc = "accept",
                       ![r].accepted = [id |-> keyed[q.key], replay |-> replay]]
        /\ UNCHANGED hubVars
  /\ NoFault
  /\ UNCHANGED <<journalVars, watch>>

\* executeContractCall throws: refused, in progress for five attempts, or the
\* answer was lost on the way although KeeperHub took the job.
PostFails(r) ==
  LET q == req[r] IN
  /\ At(r, "post")
  /\ \/ UNCHANGED hubVars
     \/ \E e \in Executions : OpenJob(q.key, q.body, q.principal, e)
  /\ Reject(r)
  /\ Fault
  /\ UNCHANGED <<journalVars, watch>>

\* persistDurableAcceptance, and the answer to the client.
PersistAcceptance(r) ==
  LET q == req[r] IN
  /\ At(r, "accept")
  /\ RecordAcceptance(q.key, q.principal, q.body, q.accepted)
  /\ Goto(r, "done")
  /\ NoFault
  /\ UNCHANGED <<hubVars, watch>>

AcceptanceRefused(r) ==
  LET q == req[r] IN
  /\ At(r, "accept")
  /\ AcceptanceConflict(q.key, q.principal, q.body, q.accepted)
  /\ Reject(r)
  /\ NoFault
  /\ UNCHANGED <<hubVars, journalVars, watch>>

\* The wallet approval runs out (60 to 900 seconds after it was issued).
Lapse(r) ==
  /\ req[r].pc \in Steps \ {"idle", "done"}
  /\ ~req[r].lapsed
  /\ req' = [req EXCEPT ![r].lapsed = TRUE]
  /\ Fault
  /\ UNCHANGED <<hubVars, journalVars, watch>>

\* The handler dies: a crash, the route's maxDuration, or a database call
\* whose answer is lost after it committed.
Crash(r) ==
  /\ req[r].pc \in Steps \ {"idle", "done"}
  /\ Reject(r)
  /\ Fault
  /\ UNCHANGED <<hubVars, journalVars, watch>>

(***************************************************************************)
(* The status route: access check, getStatus, classifyExecution, the       *)
(* independent RPC proof, then persistDurableSettlementObservation.        *)
(***************************************************************************)

\* classifyExecution, on the answers it tells apart.
Verdict(view) ==
  CASE view = "pending"                 -> "PENDING"
    [] view \in {"failed", "reverted"}  -> "FAILED"
    [] view = "success"                 -> "VERIFIED_SETTLED"
    [] OTHER                            -> "UNPROVEN"

\* settlementObservationTarget, for a job of one transaction; "none" where the
\* code returns null.
ObservationTarget(view, independent) ==
  LET verdict == Verdict(view) IN
  CASE verdict = "PENDING"                          -> "none"
    [] verdict = "VERIFIED_SETTLED" /\ independent  -> "verified_settled"
    [] verdict = "FAILED"                           -> "failed"
    [] view = "missing"                             -> "timeout"
    [] OTHER                                        -> "completed_unverified"

\* Execution id and principal of a row never change once set, so the access
\* check and the reads that follow it are one step: the answer is what they
\* saw, and it may be old when it is recorded.  The RPC proof succeeds only
\* for a transaction that emitted SettlementExecuted for this plan; it may
\* fail although there is one.
Poll(o, k, authority, view, independent) ==
  LET e == ExecutionOf(k) IN
  /\ watch[o].pc = "idle"
  /\ e # NoExecution
  /\ ObservationAccess(k, e, authority)
  /\ view \in View(e)
  /\ independent => view = "success"
  /\ watch' = [watch EXCEPT ![o] =
       IF ObservationTarget(view, independent) = "none" THEN NotWatching
       ELSE [pc |-> "record", key |-> k, view |-> view,
             independent |-> independent]]
  /\ NoFault
  /\ UNCHANGED <<hubVars, journalVars, req>>

\* The observation is recorded or refused; either way the handler is over.
RecordPoll(o) ==
  LET w == watch[o]
      target == ObservationTarget(w.view, w.independent)
  IN
  /\ w.pc = "record"
  /\ \/ /\ EvidenceSupports(target, w.view, w.independent)
        /\ RecordObservation(w.key, target)
     \/ /\ ~EvidenceSupports(target, w.view, w.independent)
             \/ ObservationConflict(w.key, target)
        /\ UNCHANGED journalVars
  /\ watch' = [watch EXCEPT ![o] = NotWatching]
  /\ NoFault
  /\ UNCHANGED <<hubVars, req>>

CrashPoll(o) ==
  /\ watch[o].pc = "record"
  /\ watch' = [watch EXCEPT ![o] = NotWatching]
  /\ Fault
  /\ UNCHANGED <<hubVars, journalVars, req>>

(***************************************************************************)
(* REST and MCP attach no flow; the first-party channel does.              *)
(***************************************************************************)
Submit(r) == \E k \in Keys, p \in Principals, b \in Bodies,
                f \in Flows \cup {NoFlow} : Start(r, k, p, b, f)

Handle(r) ==
  \/ ReadPrior(r) \/ ReadRefused(r)
  \/ Simulate(r) \/ SimulationReverts(r)
  \/ PrepareIntent(r) \/ PrepareRefused(r)
  \/ Recheck(r) \/ RecheckRefused(r)
  \/ PostAnswered(r) \/ PostFails(r)
  \/ PersistAcceptance(r) \/ AcceptanceRefused(r)
  \/ Lapse(r) \/ Crash(r)

Observe(o) ==
  \/ \E k \in Keys, authority \in Principals \cup {Capability},
        view \in Views, independent \in BOOLEAN :
       Poll(o, k, authority, view, independent)
  \/ RecordPoll(o)
  \/ CrashPoll(o)

Environment == HubStep /\ UNCHANGED <<journalVars, req, watch, faults>>

Next ==
  \/ \E r \in Requests : Submit(r) \/ Handle(r)
  \/ \E o \in Observers : Observe(o)
  \/ Environment

Spec == Init /\ [][Next]_vars

(***************************************************************************)
(* Fairness.  A handler that runs and is not killed takes its next step    *)
(* (the event loop and bounded HTTP timeouts); KeeperHub finishes a job    *)
(* it took and its transaction is mined.  Nothing in the server retries:   *)
(* the client that holds the signed body does, again and again, and the    *)
(* same client polls for the outcome and now and then gets the true one.   *)
(* Faults are finitely many (MaxFaults).                                   *)
(***************************************************************************)
Progress(r) ==
  \/ ReadPrior(r) \/ ReadRefused(r)
  \/ Simulate(r) \/ SimulationReverts(r)
  \/ PrepareIntent(r) \/ PrepareRefused(r)
  \/ Recheck(r) \/ RecheckRefused(r) \/ PostAnswered(r)
  \/ PersistAcceptance(r) \/ AcceptanceRefused(r)

\* The owner of the plan asks again, with the same signed body.
Resubmit(k) ==
  /\ Exists(k)
  /\ \E r \in Requests :
       Start(r, k, intents[k].principal, intents[k].body, NoFlow)

\* The owner polls and is told what is true, and the RPC proof works.
PollTruth(k) ==
  /\ Exists(k)
  /\ ExecutionOf(k) # NoExecution
  /\ LET truth == Truth(ExecutionOf(k))
     IN  \E o \in Observers :
           Poll(o, k, intents[k].principal, truth, truth = "success")

HubProgress(e) ==
  (Settle(e) \/ Revert(e) \/ Complete(e))
    /\ UNCHANGED <<journalVars, req, watch, faults>>

FairSpec ==
  /\ Spec
  /\ \A r \in Requests : WF_vars(Progress(r))
  /\ \A o \in Observers : WF_vars(RecordPoll(o))
  /\ \A e \in Executions : WF_vars(HubProgress(e))
  /\ \A k \in Keys : SF_vars(Resubmit(k)) /\ SF_vars(PollTruth(k))

(***************************************************************************)
(* Correctness.                                                            *)
(***************************************************************************)

\* Value moves only for what the journal holds: a KeeperHub job exists only
\* for a key whose intent was durably recorded before, by the same principal
\* and for the same signed body ("No KeeperHub call is made when durable
\* persistence is unavailable", settlementSubmission.ts).
BroadcastJournaled ==
  \A e \in Executions :
    ~Unused(e) =>
      /\ Exists(jobs[e].key)
      /\ intents[jobs[e].key].principal = jobs[e].principal
      /\ intents[jobs[e].key].body = jobs[e].body

\* What a client was told is what the journal holds, whatever raced with it.
RepliesDurable ==
  \A r \in Requests :
    At(r, "done") => /\ Exists(req[r].key)
                     /\ intents[req[r].key].acceptance = req[r].accepted
                     /\ req[r].accepted # NoAcceptance

\* A plan is journaled as verified only when it was settled on chain, by the
\* very execution the row names.
VerifiedMeansSettled ==
  \A k \in Keys :
    intents[k].state = "verified_settled" =>
      /\ settled[k] = 1
      /\ jobs[ExecutionOf(k)].tx = "success"
      /\ jobs[ExecutionOf(k)].key = k

\* A plan journaled as failed did not move money, and never will, as long as
\* KeeperHub remembers its idempotency keys and nobody goes around it.
FailedMeansUnsettled ==
  \A k \in Keys : intents[k].state = "failed" => settled[k] = 0

(***************************************************************************)
(* The inductive invariant behind these: what each handler's locals, each  *)
(* row, each pending observation, each job and each key say of the others. *)
(***************************************************************************)
Dead(e) ==
  /\ jobs[e].tx # "success"
  /\ jobs[e].tx = "reverted" \/ jobs[e].status = "failed"

JobOf(k, e) == ~Unused(e) /\ jobs[e].key = k

HandlerOK(r) ==
  LET q == req[r] IN
  /\ At(r, "prepare") => q.simulation \in Simulations
  /\ q.pc \in {"recheck", "post", "accept", "done"} =>
       /\ Exists(q.key)
       /\ intents[q.key].principal = q.principal
       /\ intents[q.key].body = q.body
  /\ At(r, "accept") => q.accepted \in Acceptances /\ JobOf(q.key, q.accepted.id)
  /\ At(r, "done") => /\ intents[q.key].acceptance = q.accepted
                      /\ q.accepted # NoAcceptance

RowOK(k) ==
  Exists(k) =>
    /\ RevisionAllows(intents[k])
    /\ ExecutionOf(k) # NoExecution => JobOf(k, ExecutionOf(k))
    /\ intents[k].state = "verified_settled" => jobs[ExecutionOf(k)].tx = "success"
    /\ intents[k].state = "failed" => Dead(ExecutionOf(k))

ObservationOK(o) ==
  LET e == ExecutionOf(watch[o].key) IN
  watch[o].pc = "record" =>
    /\ e # NoExecution
    /\ watch[o].view = "success" => jobs[e].tx = "success"
    /\ watch[o].view \in {"failed", "reverted"} => Dead(e)

JobOK(e) ==
  ~Unused(e) =>
    /\ Exists(jobs[e].key)
    /\ intents[jobs[e].key].principal = jobs[e].principal
    /\ intents[jobs[e].key].body = jobs[e].body
    /\ jobs[e].tx = "success" => /\ settled[jobs[e].key] = 1
                                 /\ jobs[e].status # "failed"
    /\ ~KeysExpire => keyed[jobs[e].key] = e

KeyOK(k) ==
  /\ settled[k] \in {0, 1}
  /\ keyed[k] # NoExecution => JobOf(k, keyed[k])
  /\ ~OthersExecute /\ settled[k] = 1 =>
       \E e \in Executions : JobOf(k, e) /\ jobs[e].tx = "success"

\* Every step of every actor keeps the five agreements, in every interleaving;
\* the properties above follow from them.
SubmissionInvariant ==
  /\ \A r \in Requests : HandlerOK(r)
  /\ \A k \in Keys : RowOK(k) /\ KeyOK(k)
  /\ \A o \in Observers : ObservationOK(o)
  /\ \A e \in Executions : JobOK(e)

\* The journal only grows: whose plan it is, the body, the simulation and the
\* acceptance never change once recorded, a revision is never taken back, and
\* verified_settled and failed are final, whatever late or repeated
\* observation arrives.
JournalMonotone ==
  [][\A k \in Keys :
       Exists(k) =>
         /\ intents'[k].principal = intents[k].principal
         /\ intents'[k].body = intents[k].body
         /\ intents'[k].simulation = intents[k].simulation
         /\ intents'[k].revision >= intents[k].revision
         /\ intents[k].acceptance # NoAcceptance =>
              intents'[k].acceptance = intents[k].acceptance
         /\ intents[k].state \in {"verified_settled", "failed"} =>
              intents'[k].state = intents[k].state]_vars

\* The handlers, the journal, KeeperHub and the chain together keep the
\* promise stated in SettlementLifecycle: every step is one step of the
\* recorded plan's life or leaves it as it is.
PlanOf(k) ==
  IF Exists(k)
  THEN [outcome |-> intents[k].state, owner |-> intents[k].principal,
        body |-> intents[k].body, execution |-> ExecutionOf(k)]
  ELSE [outcome |-> "absent"]

Lifecycle == INSTANCE SettlementLifecycle WITH
  plan <- [k \in Keys |-> PlanOf(k)],
  moved <- settled
ImplementsLifecycle == Lifecycle!LifecycleSpec

\* A prepared intent does not stay unresolved: its owner's retries end in a
\* recorded acceptance, also when the first broadcast settled the plan and
\* the answer was lost.
PreparedGetsAccepted ==
  \A k \in Keys :
    intents[k].state = "prepared" ~> ExecutionOf(k) # NoExecution

\* A plan that was settled on chain is in the end journaled as verified, also
\* after it was recorded as timed out or unproven.
SettledGetsVerified ==
  \A k \in Keys : settled[k] = 1 ~> intents[k].state = "verified_settled"

(***************************************************************************)
(* Stated in the documents and not kept by the code; see the README,       *)
(* "Disagreements".  No run expects it to hold.                            *)
(***************************************************************************)
\* docs/architecture.md, section 5, draws timeout as a final state
\* ("timeout --> [*]").  The migration promotes it to verified_settled.
TimeoutIsFinal ==
  [][\A k \in Keys :
       intents[k].state = "timeout" => intents'[k].state = "timeout"]_vars
=============================================================================
