# FINALTab in TLA+

A verification project for FINALTab: TLA+ modules translated from the source,
TLC configurations that check them on small instances, and TLAPS proofs that
hold for every size. Paths below are relative to the repository root.

FINALTab splits a receipt, freezes the split into a ledger and a settlement
plan, collects wallet consents, simulates the plan, asks for an approval,
executes it through KeeperHub on Base Sepolia, and reports it as settled only
after verifying the transaction independently. Nobody can undo a transfer, so
the part that moves value comes first here.

## 1. Inventory

| Part | State | Operations | What is hard |
|---|---|---|---|
| Durable submission journal (`supabase/migrations/20260811074000_durable_submission_intents.sql`) | `settlement_submission_intents` (one row per idempotency key, revision 1..4), `settlement_submission_events` | read retry, prepare, record acceptance, assert access, record observation: five functions, one transaction each | four writers in any order; retries; late and contradictory observations |
| Submission handler (`apps/web/lib/server/settlementSubmission.ts`, `app/api/settle/execute`) | locals across nine awaits | `submitApprovedSettlement` | stale locals, a crash between KeeperHub's answer and the write, concurrent handlers of one plan |
| Status handler (`app/api/settle/status/[id]`) | locals across four awaits | poll, classify, prove by RPC, record | an answer recorded late; a capability instead of a principal |
| KeeperHub client (`packages/keeperhub/src`) | none | simulate, execute (retry on `idempotency_in_progress`), getStatus, poll | lost answers, replays, rate limits |
| Settlement contract V2 (`contracts/contracts/FinalTabBatchSettlementV2.sol`) | `executed[settlementId]`, USDC balances, used nonces | `executeSettlement`, callable by anyone | at most once, all or nothing, exact conservation |
| First-party flow (`20260811073000_...sql`, `settlementFlow.ts`, `app/api/settlement-flow/`) | flow rows (revision 1..5), `tabs.status`, `settlements.status`, approvals | freeze, simulate, execute, status, reconcile | two journals written one after the other, approvals revoked in between |
| Tabs and collaboration (`20260811003158_...sql`, `20260812090000_...sql`, `20260813000000_...sql`, `tabCollaboration.ts`) | tabs, participants, invites, members, drafts with revisions | draft load and save, add, invite, join, choose payer, freeze | row locks taken in two orders, some by foreign keys, invite and draft races, lost answers, freeze against everything else |
| Engine (`packages/engine/src`) | none (pure) | split, reconcile, net, freeze ledger, build plan, typed data | exact cents, the same tie-breaks on both sides |
| Room: page, execution rail, wallets (`lib/flow.ts`, `components/ExecutionRail.tsx`, `Lab.tsx`) | page inputs, review, frozen plan, signatures | split, review, freeze, sign, simulate, execute, poll | the plan is derived twice from sources that change; reloads; signatures that expire |
| Agent control plane (`20260811052236_...sql`, `agentControl.ts`) | runs with stages, evidence, memory summaries | begin, work, record stage, finish, remember, forget, list | lease expiry against a slow worker, repairs, compare-and-swap of the memory |
| Voice budget (`20260811165823_...sql`, `voiceQuota.ts`, `app/api/voice`) | minute, day and month counters of user and project, reservations, leases | reserve, issue a token, read aloud | concurrent reservations at the ceilings and across month ends |
| Voice capture (`hooks/useVoiceAllocation.ts`) | resources of each start, what the component shows | start, stop, leave; callbacks of microphone, socket, timers | late grants, late messages, a stop during any wait, a service that hangs up, a page hidden and brought back |
| Narration (`20260812023200_...sql`, `v3NarrationOperator.ts`, `run-runtime-narration.mjs`) | one journal row, four local files | read, quota, reserve, synthesise, complete, fail, write | one paid call in the operation's life, crashes and lost answers |
| Command-line tools (`deploy-v2-keeperhub.mjs`, `first-flight.mjs`, `kh-proof.mjs`) | KeeperHub's jobs, their report | simulate, execute, poll, verify, record | kills and re-runs around the broadcast |
| MCP tools (`app/api/mcp/route.ts`) | none | five deterministic tools; submit and status | a plan prepared for strangers must be executable |
| Vision, API access, wallet challenges, observer, pages | mostly none | see PROJECT.json | provider fallback, rate windows |

How they interact: UI, REST and MCP all reach value through
`submitApprovedSettlement`; it alone calls KeeperHub's execute, always between
a write to the journal before and a write after. The status handlers only read
KeeperHub and the chain and write the outcome back. The first-party flow wraps
both and keeps its own rows. Agents, voice and vision never move value.

For each part the properties that make it correct:

* journal: the row never claims more than its evidence, history is never taken
  back, rows and events agree;
* submission: no broadcast without a journaled intent of the same principal and
  body; what the client is told is what is journaled; no double settlement;
  an interrupted submission can be completed;
* observation: `verified_settled` only of a plan that was paid, `failed` only
  of one that was not, and a plan that was paid ends up verified;
* contract: at most once, atomic, conserving;
* flow: never ahead of the journal, its copies of the outcome agree, only the
  reviewed and approved body is posted;
* collaboration: only members act, a used invite stays used, a frozen tab does
  not change;
* engine and room: allocations sum to the total, netting keeps everybody's position,
  what is frozen is what was reviewed and what the contract executes, all or nothing;
* agents: a live run keeps others from asking the model, a completed review stays,
  memory advances;
* voice: no ceiling exceeded, no stream without a lease, nobody recorded unseen, no
  word lost in silence when a capture is stopped;
* narration and tools: the paid or value-moving call happens once.

The hazards behind these, with the line where each bites, are in PROJECT.json.

## 2. Plan

| # | Module | Content | Status |
|---|---|---|---|
| 1 | `SettlementDomain`, `KeeperHub`, `SubmissionIntents`, `SubmissionJournal` | the value-moving path | built, checked, proved |
| 2 | `SettlementLifecycle` | abstract specification of (1) | built, checked, proved |
| 3 | `FlowRecords`, `SettlementFlow` | first-party flow beside the journal: freeze, simulate, execute, status, reconcile; extends `SubmissionJournal` and implements it | built, checked, proved |
| 4 | `TabCollaboration` | drafts, invites, participants, payer, freeze, with row locks | built, checked, proved |
| 5 | `AgentRuns` | runs, leases, stages, memory | built, checked, proved |
| 6 | `VoiceBudget`, `VoiceCapture` | reservations; the browser's capture | built, checked, proved |
| 7 | `NarrationJournal`, `KeeperHubTools` | one-shot narration; deployer, first flight, flight recorder | built, checked, proved |
| 8 | `SettlementEngine`, `SettlementTools` | the arithmetic, and the MCP tools that answer with it | built, checked, proved |
| 9 | `SettlementContract`, `SettlementRoom` | contract and token; from the split to the chain | built, checked, proved |
| 10 | `KeeperHubClient` | the client's retry loop, rate limits | open |
| 11 | composition of `SettlementRoom` with `SettlementFlow` | one flow with its money | open |

Every invariant, action property and refinement that a run checks is a theorem now;
what the runs show alone is liveness. Open: the client's retry loop (10), which would
put names to `PostAnswered` and `PostFails`, and (11), in which the room's one
transaction becomes the flow's and the journal's many, so that `PlanHonoured` and
`FlowInvariant` speak of one body.

## 3. The modules

**SettlementDomain** names the sets. A *key* is one KeeperHub idempotency key.
The code derives it from task, chain, contract and `settlementId`
(`settlementExecutionIdempotencyKey`), and `settlementId` commits to the ledger
hash, debits and payouts; so a key stands for one frozen plan and the plan, ledger,
chain and contract comparisons of the SQL are true by construction. The key
does not contain the principal, the signatures or the simulation, so these are
compared, and modelled.

**KeeperHub** is the environment: KeeperHub's idempotency map (`keyed`), its
executions (`jobs`) and `executed[]` of the contract (`settled`, a counter so
that "twice" can be said). KeeperHub itself is external; `Settle`, `Revert`,
`SettleElsewhere` and `MayExecute` are the Solidity function. `KeysExpire` lets
KeeperHub forget a key, `OthersExecute` lets a holder of the signed plan call
the contract, which has no access control. `View(e)` is what a status call may
answer, in the six classes the verdict tells apart; a completed job may look
unproven or lost even though its transaction is mined.

**SubmissionIntents** is the migration: the two tables as `intents` and
`events`, and each function as an operation with the condition under which it
raises. A function holds the row lock for its whole transaction, so each is
atomic.

**SubmissionJournal** composes them with the handlers. `req[r]` is a slot that
runs `submitApprovedSettlement`; its `pc` is the await it has reached:

| `pc` | the code at that point |
|---|---|
| `read` | `readDurableSubmissionRetry` |
| `simulate` | `simulateContractCall`, only when no row was found |
| `prepare` | `prepareDurableSubmission` |
| `recheck` | the second `verifyBroadcastApproval` |
| `post` | `executeContractCall` |
| `accept` | `persistDurableAcceptance` |
| `done` | the reply is on its way to the client |

`watch[o]` is a status handler: `Poll` reads (access, KeeperHub, RPC),
`RecordPoll` writes what was read, possibly much later. Faults: `Crash`
(process death, `maxDuration`, an answer lost after its transaction committed)
at any step, `CrashPoll`, `Lapse` (the approval expires, at any step),
`PostFails` (KeeperHub refuses, or takes the job and its answer is lost).
`MaxFaults` bounds them.

**SettlementLifecycle** is the promise without handlers or retries: `Record`,
`Accept`, `Move`, `Conclude`, `Reconcile` of one plan. `ImplementsLifecycle` is
the refinement: `plan` is read off the row, `moved` is `settled`.

**FlowRecords** is the migration `20260811073000` (with the freeze of
`20260811154647` and the debtor's decision of `20260811003158`): the flow's row
(`flows[f]`), the state of its `settlements` row (`flows[f].settlement`, a column of its
own that every writer has to move), its events (`trail`), `tabs.status`, and what the
debtors said (`approvals`). An approval is written by the reviewed simulation, as
signed, so nothing is there to withdraw before it. A flow is one attested
agent run; `TabOf` and `KeyOf` are what its receipt and its ledger fix. As in
`SubmissionIntents` each SECURITY DEFINER function is one operation.
`MayWithdraw` lets a debtor revoke, or a signed USDC authorization expire.

**SettlementFlow** composes `SubmissionJournal` and `FlowRecords` with the routes
of `app/api/settlement-flow`:

| Route | Actions |
|---|---|
| freeze | `FreezeFlow` |
| simulate | `SimulateFlow` (KeeperHub answered, the handler holds `<<flow, body>>` in `simulated`), `PersistSimulation` |
| execute | `Execute`, then the journal's own steps with the flow's say in them (`JournalRead`, `JournalPrepare`, `AssertApprovals`, `JournalRecheck`), then `PersistExecution` |
| status | `FlowPoll`, `FlowObserve` (the journal's write), `WriteOutcome` (the flow's) |
| a debtor | `WithdrawApproval` |
| REST, MCP | `SubmitPlain`, `PlainPoll`: the same slots without a flow |

`seen[r]` is the flow's state as the execute handler read it when it began, or
"cleared" after the approval check; `flowWatch[o]` is what the flow's status
handler holds beside the journal's `watch[o]`, above all the state it read before
it polled, by which it later chooses between `persistTerminalStatus` and
`promoteDurableSettlementProof`. Journal and flow are written by two
transactions: `CrashBeforeFlow` and `CrashFlowPoll` are deaths between them,
`CrashObserve` one before both, bounded by `MaxFlowFaults`; the faults of the
journal's path stay as they are. In `SubmissionJournal` a handler with a flow may be
refused for reasons outside that module (`MayBeRefused`); here the reasons are
given, and every step is one of `SubmissionJournal` or leaves its variables
alone, so that its properties carry over (`ImplementsJournal`).

**TabCollaboration** is the tab before its freeze. A request is a record in
`call` with what its sender knew when it was sent, and may run much later. The
functions are transactions at READ COMMITTED, so what matters is which row lock a
transaction holds while it waits for another: a function that needs one lock is
one step, one that holds a seat's lock and asks for the tab's (invite, join: the
trigger `assert_settlement_source_mutable` takes the tab) is two. The freeze takes them
the other way round, and so does whoever names a payer: the foreign keys of
`tab_drafts.payer_participant_id` and `tabs.payer_participant_id` lock the payer's
row FOR KEY SHARE, which waits for an invite's or a join's FOR UPDATE, after the tab has
been locked. So a save of a draft (`SaveLock`, `Save`) and the choice of a payer
(`ChoosePayerLock`, `ChoosePayer`) are two steps as well.
`AbortOne` is PostgreSQL's deadlock detector.
`device` is what a browser last saw of the draft; a save's answer may be lost
(`MaxLost`). `fate` remembers who claimed an invite or that it was replaced or
expired. Tabs, owners, seats, documents and browsers are functions of the constants
(`TabsAssumption`); `MCTabCollaboration` gives them one tab with two seats.

**AgentRuns** is the review of settlement inputs. A worker is one
`POST /api/agents/runs`; its `pc` runs `begin` (here an action of its own), `work`,
`record`, `finish`, `recall`, `remember`, `answer`. Every SQL function is a step. The
allocation stage asks the model up to `MaxAttempts` times (three in
`proposeAllocation.ts`), each of which `spend` counts, also when the handler has stopped
waiting for them.
Between two of them the worker may be slow past its lease, die, or not hear that
its transaction was committed (`StageError`, `Crash`, both `Fault`s). `run[i]` is the
row that the unique index on owner, tab and input allows, `LeaseEnds` the two minutes
after which another request may replace a running row.

**VoiceBudget** is `reserve_voice_budget`, one lock after the other (`Lock` reads the
counter it locks, `Commit` decides and writes), then the provider (`Ask`), with a
clock that goes on meanwhile. `streams` are the tokens and streams the provider
honours. `offered` are the capabilities the deployment has a provider's key for, one of
`Offerings`; what is refused before the database is asked changes nothing.

**VoiceCapture** is the hook `useVoiceAllocation`: `s[i]` are the `VoiceResources` of
the i-th start, whose `pc` names which of its five waits it is in (microphone, token,
socket, audio module, resume), `inbox[i]` the socket's messages under way, `timers`
those armed. Stop, unmount, page-hide and a new start come in between anywhere. As
in the code, the last wait is not followed by another look at a stop. The socket may be
`closing` because the browser asked for it or because the service did (`ServiceCloses`),
and a stop that meets it so ends the capture at once. `page` tells a page in view from
one hidden or unmounted, and from one that the browser's back/forward cache brought back
(`Restore`): still mounted, showing what it showed, with nothing left behind it.

**NarrationJournal** is the one-shot narration: row, operator route and local runner,
each failing on its own. `spoken` counts what the provider synthesised.

**KeeperHubTools** are the three programs that reach KeeperHub without the server.
A deployment's idempotency key is derived from the init code, a first flight's is
new every time. KeeperHub may forget a key (`ForgetKey`), after which the same deployment
is a new one to it: the deployer asks no contract whether it was deployed. `Classify` is the flight recorder's verdict over a list of receipts.

**MCClients** puts `VoiceCapture`, `NarrationJournal` and `KeeperHubTools` side by side
for one run; its constants stay constants, so that the theorems are about any number of
captures, utterances, processes and jobs.

**SettlementEngine** is `packages/engine`: `LargestRemainderSplit`, reconciliation of a
receipt with its allocation, shares to debts, netting, the canonical ledger, the
aggregation by address, `HashSettlementPlan` and what a debtor signs. A hash is the record
hashed, so two hashes are equal exactly when the contents are; what throws is `Rejected`.
`NettedTransfers` matches the largest debtor with the largest creditor over and over, as
a recursive function of the number of matches so far. `ReceiptItem` and `AllocationOver`
are what the schemas of `validation.ts` let in.

**SettlementContract** is `FinalTabBatchSettlementV2` with the EIP-3009 token:
`WellFormed` is every check of the body itself, `Outcome` the token after all pulls and
payouts, each at its place in the order, or `Reverted` as soon as one of them fails;
`ExecuteSettlement` is the transaction, which writes `executed` and the event only with
it.

**SettlementTools** are the five deterministic MCP tools; a behaviour is one call.
`McpInput` is what the route's schemas let in.

**SettlementRoom** is one tab from the split to the chain: wallets registered
(`wallet`), the page with its proposal and review, the freeze request between its
derivation (`DeriveFreeze`, the server's reads) and its transaction (`CommitFreeze`,
where the locked sources are compared once more), the flow, the rail with its
signatures, and the chain. The rail's panel enables one button at a time (`Offers`). `Reload` loses page and rail; `AnyoneExecutes` is a
stranger with the body; `Spend` moves a debtor's tokens away. The submission is
reduced to one transaction here: KeeperHub's retries, the journal and the two rows'
agreement are `SubmissionJournal`'s and `SettlementFlow`'s subject. A review is atomic
because the page takes it only if its key has not changed meanwhile; one freeze
request runs at a time, since the panel's button is disabled while one does.

**MCPlan** puts `SettlementTools` and `SettlementRoom` over one chain; as in `MCClients`
its constants stay constants, so that the theorems are about any inputs, people, receipts
and balances.

The theorems are in eight modules, each beside what it is about:
**SubmissionJournal_proofs** (the journal, its handlers and the refinement of
`SettlementLifecycle`), **SettlementFlow_proofs** (the flow's invariant, the refinement
of `SubmissionJournal`, and rows against their events, tabs and settlements),
**TabCollaboration_proofs**, **AgentRuns_proofs**, **VoiceBudget_proofs**,
**Clients_proofs** (narration, browser and command-line tools),
**SettlementEngine_proofs** (finite sums and the engine's algorithms) and **Plan_proofs**
(the contract, the MCP tools, and the room over both).

In the component modules an operator whose comment begins "Seeded fault" is not
part of the specification: it is the wrong version of the operator after it,
used to see that a property notices (PROJECT.json, "mutants").

## 4. The runs

Symmetry (where no liveness is checked) permutes executions, simulations, request
slots, bodies, flows, runs, workers, users of a budget and tokens, whose names mean
nothing; principals of the journal are not permuted because `Capability` is told
apart from them.

| Run | Bounds | Shows |
|---|---|---|
| `journal` | 1 key, 2 principals, 2 bodies, 2 simulations, 2 executions, 2 handlers, 1 observer, 2 faults | coherence of rows and events, broadcast only after journaling, failure is true, monotonicity, refinement of `SettlementLifecycle` |
| `forgetful_hub` | 1 key, 2 executions, 2 handlers, 2 faults, `KeysExpire`, `OthersExecute` | the inductive invariant; replies are durable, `verified_settled` is true, even when KeeperHub forgets and strangers execute |
| `liveness` | 1 of each, 2 handlers, 2 faults, fairness | interrupted submissions complete; paid plans become verified |
| `flow` | 1 key, 2 principals, 1 body, 2 flows of one tab and plan, 1 handler, 1 observer, 1 fault, 1 flow fault, debtors do not revoke, fairness | row, events, tab and settlement of a flow tell one story, one flow per tab, an attached submission reaches its flow, a paid flow is shown as verified |
| `flow_race` | 1 key, 1 principal, 2 bodies, 1 flow, 2 handlers, 1 observer, 1 flow fault, debtors may revoke | the inductive invariant of the flow, only the reviewed body is posted, a flow only moves forward, refinement of `SubmissionJournal` |
| `stranded_flow` | 1 of each, 1 fault, 1 flow fault, debtors may revoke, fairness | an execution KeeperHub took may stay unknown (finding) |
| `tabs` | `invites`: 2 users, 2 seats, 2 links, 2 requests, URLs of another tab; `drafts`: 2 browsers, 2 documents, 1 review, 2 revisions, 1 lost answer | invites are claimed once, one seat each, the freeze binds the last draft, no lost update |
| `agents` | 2 inputs, 2 workers, 3 runs; `attempts`: 3 of the model by each run; `memory`: 1 of them, 1 fault, 1 deletion of the memory | requests at the same time do not multiply the attempts, completed reviews stay, handler and database derive one outcome, the memory advances |
| `voice` | 3 users, 2 concurrent requests, 3 calls, 4 or 5 minutes across the end of a day and of a month | ceilings, leases, the minute guard |
| `clients` | capture: 2 starts, 2 utterances; narration: 2 handlers, 2 runners, 2 principals, 2 faults; tools: 2 processes, 2 jobs, 1 fault | nobody recorded unseen, no words lost in silence by a stop, one synthesis, one deployment for as long as its key is remembered |
| `web_liveness` | one seat and 2 requests; 1 input, 2 workers, 1 attempt, 1 fault, 1 deletion; 2 voice requests; 1 capture of 2 utterances; fairness | everything asked for ends |
| `plan` | `tools`: splits of 0..7 among up to 4, up to 3 debts, receipts of 2 lines; `room`: 3 persons, 2 wallets for one of them, 1 who spends elsewhere, 2 proposals, 4 ticks | the engine's arithmetic, prepared plans settle, and a frozen plan moves what was reviewed |

Several runs hold worlds that share no state: an action of one leaves the others as
they start, and a `part` chosen in Init never changes, so that the state space is the
sum of the parts, not their product. The properties guard on the part, and so does the
fairness of `web_liveness`: `Fair(p, Action)` is the action in a run of part p, so the
fairness of the other parts asks nothing.

Why these bounds are enough to meet the cases: two handlers are what it takes
for a race on the row (fresh against fresh, fresh against retry, two
acceptances); two principals, bodies and simulations make each of the
comparisons able to fail; two executions let a second job exist; a crash after
the post and a second one during the retry need two faults. Keys meet only in
the unique index on `execution_id`, and KeeperHub gives different keys different
executions, so one key suffices for TLC, and the proofs are for any number.
For the flow: two flows of one tab are what it takes for a second run to freeze a
tab whose plan may be paid; two bodies, for a retry or a second simulation with
another signature; two handlers (one of them possibly REST's), for a row
prepared, attached or accepted behind a handler's back. `flow_race` has none of
the journal's faults, to stay small: `flow` has them with one
handler, and the theorems about the same invariant have any number of both.
For the tabs: two requests are what a lock cycle or a lost update needs, two seats and
two links a double claim by one user; the two worlds are apart because drafts and
tokens meet only in the freeze, which waits for a locked seat either way.
For the agents: a run that loses its lease, its replacement and a third are what a
late worker needs to meet a row that is not its own; attempts and faults meet in the
proofs only, as how often a run has asked decides nothing but `spend`. Voice days have two minutes and
months two days, so that a run of five minutes crosses the end of each; ceilings are 1
to 4 units, so that each of the five can be the one that refuses. For the plan: three
persons give two debtors with one creditor, ties in remainders and in netting, and
addresses in another order than persons; four ticks let a signature of two expire
before the next debtor has signed.

Deadlock is checked in every run but four. In `forgetful_hub` KeeperHub may forget
a key after the model's two executions are used up; a handler at `post` then waits for
a third, which only the bound denies it. `clients`, `web_liveness` and `plan` end:
the starts, jobs, calls and ticks of their parts are bounded, and an answered tool
call is over.

`FailedMeansUnsettled` and `ImplementsLifecycle` are checked and proved with
both `KeysExpire` and `OthersExecute` false, and only then: with either one, a
second transaction for the plan can pay it after the first job was journaled as
failed. That the contract pays a plan once at most is its own guard, `MayExecute`; what
it is worth to the plan is `SettlementRoom`'s subject.

### Fairness

`FairSpec` assumes: a handler that runs and is not killed takes its next step
(event loop, HTTP timeouts of the client); a status answer in hand is recorded or
refused; KeeperHub finishes a job it took and its transaction is mined or
reverts (what KeeperHub's API promises, external). The server itself never
retries, so the retries are the client's: the owner asks again with the same
signed body (strong fairness, because slots can be busy) and the owner's poll
now and then gets the answer that hides nothing, with a working RPC. Both are
what the browser's polling does. No fairness is given to faults,
to lapses or to `PostFails`.

`FairFlowSpec` assumes the same of the flow's routes: running handlers take
their next step, the browser that owns the flow executes it again while it is
not submitted and polls it again while its outcome may still change (strong
fairness). Nothing is assumed of freezing, simulating, debtors, REST and MCP,
or of faults. `flow` has debtors who do not revoke, because otherwise
`AttachedFlowSubmitted` is false, which is the finding.

The other fair specifications: a request about a tab that the database has accepted is
worked on, and a row whose lock keeps being released is given to each that waits in
turn (strong fairness of `Progress`, PostgreSQL's lock queue and its deadlock
detector); nobody has to send anything. A worker of a review that lives takes its next
step, its lease runs out, and an owner who wants a review asks again (strong, since
workers can be busy). A request for voice takes its locks as they become free. In the
browser an asynchronous wait is answered or rejected, messages that arrive are
delivered, armed timers fire, and a closed socket is reported closed. Nothing is
assumed of the provider's final words, of its termination message, or that a hidden
page comes back.

### Finding

`docs/settlement-agent-control-plane.md:97` says a prepared crash-recovery retry
runs under the persisted approval expiry and that a *fresh* first-party submission
additionally requires current approvals; the comment at
`settlementSubmission.ts:332` gives the reason for reusing the simulation, not to
"strand the execution id". The code (line 356) asks for current approvals on
every broadcast of the first-party channel, a retry included. Run
`stranded_flow` shows the consequence: KeeperHub took the job, its answer was
lost, a debtor revoked, and no retry can ask KeeperHub for the execution again;
journal and flow stay at `prepared` and `simulated` although the plan may be
paid. In the same place the interface tells the debtor that a revocation does not
"block submission" (`CloudCollaborationPanel.tsx:219`), which is so for REST and
MCP and not for the first-party channel.

### Disagreements

Met while modelling, and stated at the end of their modules as properties that no run
expects to hold:

| Property | The document | The code |
|---|---|---|
| `SubmissionJournal!TimeoutIsFinal` | `docs/architecture.md:281` draws `timeout --> [*]` | the migration (line 573) promotes `timeout` to `verified_settled`, and is the better of the two: `SettledGetsVerified` fails when timeout is final (its seeded fault) |
| `TabCollaboration!SingleLockOrder` | a migration's comment promises one lock order | inviting and joining lock seat before tab; the freeze, a save that names a payer and the choice of a payer lock tab before seat. PostgreSQL aborts one of the two, and `EveryCallEnds` holds because it does |
| `TabCollaboration!RefusalChangesNothing` | "No success was recorded" (`invites/route.ts`) | an invite under another tab's URL is committed and then reported as failed |
| `AgentRuns!AskedOncePerContent` | "call Groq once per content hash" (`agentControl.ts:1049`), "dedupe without duplicating model spend" (`20260811052236`, line 237) | one run asks up to three times (`proposeAllocation.ts:31`), and the wall timeout does not stop it; `SpendBounded` is what holds |
| `AgentRuns!DedupeAnswered` | concurrent identical requests dedupe | a request that meets a live run with recorded stages cannot verify the row's attestation, which covers stage count zero, and fails |
| `AgentRuns!NeverBackwards`, `NewerPreserved` | an older run never replaces a newer summary | it does once the newer run's row, or the memory itself, was deleted |
| `VoiceBudget!OneStreamEach` | no overlapping sessions | a lease is counted from its reservation, the provider's token from its issue: the difference is the time the request takes (`StreamsLeased` bounds it) |
| `VoiceCapture!WordsNeverLost` | a stop forces "the in-flight utterance to become a final Turn" (`useVoiceAllocation.ts:331`) | a stop that meets a socket the service is closing, before its `onclose`, disposes of the capture at once and shows "idle" (line 312): an utterance under way is lost without an error |
| `VoiceCapture!NeverStuckAgain` | the tape shows "Opening…" while it is opening (`VoiceTape.tsx:137`) | `pagehide` shuts the capture down and leaves the status; a page brought back by the back/forward cache at "connecting" or "stopping" has nothing to wait for, and offers a disabled button only (lines 122 to 134) |
| `KeeperHubTools!NothingBroadcast` | exit code 3 of `first-flight.mjs` means nothing was broadcast | a job still pending ends with the same code |

## 5. What is proved

For every value of the constants: any number of keys, principals, executions, handlers
and faults; of tabs, seats, invites, browsers and requests; of reviews and workers; of
users, ceilings and calendars. What is assumed of them, all of it evaluated by TLC in a
run:

| Assumption | Says |
|---|---|
| `DomainAssumption`, `HubAssumption` | the "no value" constants are not values, the flags are Booleans |
| `FaultsAssumption`, `FlowFaultsAssumption` | bounds are natural numbers |
| `FlowAssumption` | a flow has one tab and one key, and two runs freeze the same plan only on the same tab, as the receipt id is part of the ledger |
| `TabsAssumption` | a tab has an owner, a seat a tab; a browser is signed in as one user and shows one tab; a document names its payer |
| `RunsAssumption` | the inputs whose proposal is there already are inputs; "no run" is not a run id |
| `VoiceAssumption` | the project's counter is no user's; lengths of days, months and leases, sizes and ceilings are natural numbers |
| `NarrationAssumption`, `ClientsAssumption` | "no recording" and "no capture" are not ones; bounds are natural numbers |
| `EngineAssumption` | a cent is a positive number of USDC units; an error is not a list of transfers |
| `ContractAssumption` | finitely many addresses hold USDC; the contract is one of them and holds nothing at first |
| `ToolsAssumption` | the tools' inputs are what their schemas let in; a wallet named is an address of the chain and not the settlement contract; an hour has more than twelve ticks |
| `RoomAssumption` | finitely many people; their wallets are addresses of the chain and not the contract; receipt and proposals are what their schemas let in; "not given" is not a list of weights |

| Theorem | Statement |
|---|---|
| `Invariance` | `Spec => [](TypeOK /\ SubmissionInvariant)` |
| `TypeCorrect` | `Spec => []TypeOK` |
| `Broadcasts` | `Spec => []BroadcastJournaled` |
| `Replies` | `Spec => []RepliesDurable` |
| `VerifiedIsTrue` | `Spec => []VerifiedMeansSettled` |
| `FailedIsTrue` | `Spec => []FailedMeansUnsettled`, if `~KeysExpire` and `~OthersExecute` |
| `Monotone` | `Spec => JournalMonotone` |
| `Implements` | `Spec => ImplementsLifecycle`, if `~KeysExpire` and `~OthersExecute` |
| `FlowImplementsJournal` | `FlowSpec => ImplementsJournal` |
| `FlowBroadcasts` | what that gives: `FlowSpec => []BroadcastJournaled` |
| `FlowInvariance` | `FlowSpec => [](FlowTypeOK /\ SubmissionInvariant /\ FlowInvariant)` |
| `FlowTypeCorrect`, `FlowInvariantHolds` | its parts |
| `FlowFollows` | `FlowSpec => []FlowFollowsJournal` |
| `FlowReviewed` | `FlowSpec => []AttachedAsReviewed` |
| `FlowPostsReviewed` | `FlowSpec => []PostedAsReviewed` |
| `Coherent`, `FlowCoherent` | `Spec => []JournalCoherent`, and `FlowSpec => []JournalCoherent` |
| `RecordsInvariance` | `FlowSpec => [](Agreement /\ RecordsAgree)` |
| `OneFlow` | `FlowSpec => []OneFlowPerTab` |
| `Copies` | `FlowSpec => []CopiesAgree`: row, events, tab and settlement |
| `FlowForward` | `FlowSpec => FlowMonotone` |
| `TabsInvariant` | `Spec => [](TabsInv /\ TabsHeld)` of `TabCollaboration` |
| `SeatsAreCoherent` | `Spec => []SeatsCoherent`: invites and seats |
| `FrozenIsLatest` | `Spec => []FrozenSource` |
| `NoUpdateIsLost` | `Spec => NoLostUpdate` |
| `RunsInStep` | `Spec => []Core` of `AgentRuns` |
| `RunsAreReviewed` | `Spec => []RunInvariant` |
| `SpendIsBounded` | `Spec => []SpendBounded` |
| `ReviewStays`, `SummaryMovesOn` | `Spec => ReviewKept`, `Spec => SummaryAdvances` |
| `VoiceInvariant` | `Spec => []VoiceInv` of `VoiceBudget` |
| `BudgetsAreKept` | `Spec => []BudgetsKept` |
| `StreamsAreLeased` | `Spec => []StreamsLeased` |
| `MinutesAreGuarded` | `Spec => MinuteGuard` |
| `DeploysOnce` | `PartsSpec => []DeployedOnce` of `MCClients`: a second job of one deployment only after its key was forgotten |
| `CapturesAreOwned` | `PartsSpec => []CaptureOwned` |
| `WordsAreDelivered` | `PartsSpec => WordsDelivered`, an action property: but for a stop while the service closes the socket |
| `NarrationSpokenOnce` | `Spec => []SpokenOnce` of `NarrationJournal` |
| `NarrationNeverRetryable` | `Spec => NeverRetryable` of `NarrationJournal` |
| `LargestRemainder` | the parts of a split sum to its total, are within one unit of the exact shares, and follow the order of the weights |
| `ReconciledShares` | the shares of an accepted allocation sum to the receipt's total |
| `NettedSettles` | netting ends, with fewer transfers than parties, and settles every position |
| `AggregatesTransfers` | aggregation keeps what each address gives and gets, in ascending order |
| `OutcomeMoves` | a transaction that does not revert moves its pulls and payouts and nothing else |
| `OutcomeSucceeds` | a well-formed body whose pulls the token would take one by one does not revert |
| `EngineAnswers` | `Spec => []EngineSound` of `MCPlan` |
| `PlanStaysHonoured` | `Spec => []PlanHonoured` of `MCPlan` |

None of the properties is inductive. `VerifiedMeansSettled`, say, is broken by
recording an observation unless the observation in hand is true of the job the
row names, which needs the row to name a job of its own plan, which needs the
acceptance in a handler's hand to be one, which needs KeeperHub's map to be
right. `SubmissionInvariant` says these five agreements at once: `HandlerOK` (a
handler past `prepare` works for a row with its principal and body; an
acceptance in hand is a job of its key), `RowOK` (the row satisfies the table's
check, names a job of its key, and its outcome is that job's), `ObservationOK`
(an answer in hand is still true, because success and death of a transaction
are permanent), `JobOK` (a job has a row; success means settled), `KeyOK` (the
map points to the key's jobs; unless others execute, settled means a successful
job). The proof has one lemma per action and, under it, one step per agreement
the action can disturb; the others come from frame lemmas (`Exists`, `RowOK`
and so on do not change when their variables do not). `Monotone` and
`Implements` use the invariant on the state before the step; the refinement has one
lemma per action naming the abstract action it is or that it stutters.

For the flow, `FlowFollowsJournal` is broken by a status handler that writes an
outcome the journal does not hold, or by an execute handler that writes an
acceptance the journal does not hold, unless what they hold says otherwise.
`FlowInvariant` says it: a handler past the read of a row it is attached to
works for a row with its flow (`FlowRequestOK`), an outcome in hand after the
journal's write is the journal's, or the journal has been corrected to verified,
and a failure is never corrected (`FlowStatusOK`), the flow's row has the shape
the table's check allows. The last needs `SubmissionInvariant`: an observation of a
failure is of a dead transaction, so the row it meets cannot be verified. The
proof rests on the refinement, which gives the journal's part of every step
(`TypeStep`, `InvariantStep`); what is left is `RowMoves` and `NothingAttached`,
what a journal step does to a row's flow and state, proved per SQL function,
and `FlowMoves`, what a flow function owes to the invariant, likewise; frame
lemmas carry the agreements of the slots that did not move.

For the narration, "asked at most once" is broken by a second handler that
reaches the provider, so `Narrated` says that a handler past its reservation is the
only one and that the row is reserved by its principal (`ReservationHeld`); that
nothing was spoken before it asks, and that what it then holds is what was spoken
(`SpeechFollows`); that runners and files hold the row's recording or none
(`CopiesFollow`); and that a runner at a file has written the ones before
(`InOrder`). A reservation starts from a row in state "none", where no handler is past its
reservation and nothing was spoken. The proof has one lemma per action; the ends of a
request share `Told` and `ToldCopies`.

For the records, `JournalCoherent` and `CopiesAgree` compare a row with a set of
events and count it; `CopiesAgree` also compares it with its settlement's row and its
tab. A writer either writes nothing or adds exactly the event of the
next revision (`Continues`, `Advances`); as the events so far are those of the
revisions up to the row's, the new one is not among them and the count goes up with
the revision (`TellsOn`). That each of the journal's four functions and of the flow's
five does one or the other is one lemma each. `OneFlowPerTab` holds because a tab is
frozen exactly when it has a flow, which needs to be said of every state, not only of the freeze.
`FlowMonotone` is read off `Advances` in every step.

For the tabs, a claim is two steps with other transactions between them: what
keeps it right is that the seat's lock is held, so that what was read is still so
when it is used (`SeatsHeld`; of a save and the choice of a payer, which hold the tab,
`TabsHeld` says the same), and that a token is in one place at a time, in a request,
on one seat, or decided (`TokensPlaced`). From these follow that a token has one fate
(`FateSingle`), that a user has one seat (`Seated1`) and that the seated are members
(`Membership`). `NoLostUpdate` needs that nobody knows a newer draft than the row's,
and that whoever knows the row's revision knows its document (`DraftsKnown`): then a
revision that agrees, and by `TabsHeld` still agrees when the payer's seat is free, is a
draft that was seen. `FrozenSource` needs of a freeze that
has its locks that the review it is of exists.

For the reviews, a row belongs to the run begun last for its input (`RowOK`); a
worker whose run still has the row holds what the row holds, or that and the one stage it
is about to record (`WorkerOK`), so that a worker that lost its lease never matches a
row, and one that repeats what was already recorded changes nothing. `SpendOK` charges
every attempt to a run that may not ask again, `MaxAttempts` to each; of these all but the
last were replaced, which gives `SpendBounded`. `SummaryAdvances` needs what a worker knew of
the memory when it compares and swaps (`MemoryOK`). `RunsInStep` proves the invariant
without what follows from the rest, `RunsAreReviewed` adds that.

For voice, a reservation reads up to six rows, one lock after the other, and writes at the
end. What it has read is so until it writes, because it holds the locks and no two
transactions hold one in common (`Seen`, `Apart`); then a counter of a day or month is the
number of units reserved in it, and was below its ceiling before the last
(`BudgetsInv`), and the counter of a minute is what was decided in it, up to one more
than the limit (`MinutesInv`). Leases are counted at every time, also to come (`LeasesInv`):
a reservation is refused while its user has a live one, at its own time, which may be
earlier than another's. `SpentInv` and `Entitled` say that an allowed request has a
reservation of its own which nothing has paid with yet.

For the browser, only the current capture holds the microphone or an audio graph, and
a capture that is not current has a socket that is closed or closing, with nobody
listening (`Fits`); what is granted late finds its capture aborted and lets go of it. For
`WordsDelivered`, the messages under way are part of the account: every utterance
finished is in the transcript or in the inbox, one that has begun is in the inbox or known
to be pending, and the provider's termination is its last message (`Fed`, `Kept`), so a
capture that has seen the termination with nothing awaited has all its words. One that
ends without an error otherwise was stopped before its socket opened, or while the
service was closing it, which is the case the theorem leaves out. For the
tools, a process past its POST has a job, one that verifies has seen it land, and a
second POST of a deployment with the key of the first gets the first's job while KeeperHub
remembers that key (`ToolsInv`).

For the engine, everything is a sum over a finite set, and the community modules' sum
is a fold that takes out a member it chooses. `SumUnrolled` shows once that this fold
is the obvious recursion on subsets; from it follow that a sum does not depend on the order
(`SumAdds`), sums of sums, sums by groups, exchange of two sums, renaming. The induction
these need is on finite sets and on naturals, and is done without an induction theorem:
the set of counterexamples would have a smallest member (`NatMin`, `NatInduct`,
`SetInduct`), which is a statement about a set and not about an operator. With sums in
hand:

* `LargestRemainder`: the remainders sum to the leftover times the whole, so the leftover is
  less than the number of parties; the place of a party among the remainders is a rank, and
  ranks of a strict order are 0, 1, 2, ..., each once (`Rank`, `RankRises`): exactly
  leftover parties get one unit more.
* `ReconciledShares`: every item is in one allocation (`AllocationLegal`), so summing the
  items' splits by sharer or by item gives the same (`SumTransposed`); the rest of the
  total is split over what the sharers have.
* `NettedSettles`: a match zeroes one of its two positions and changes no sum, so after n
  matches n parties or more are settled and those who are not still fit in what is
  left (`MatchProgress`); positions that sum to zero are settled together, so the last match
  settles two and there are fewer matches than parties.

For the contract, pulls and payouts are runs of token states (`Pulling`, `Paying`). Each
state is the one before with one transfer moved or is `Reverted`, and `Reverted` stays; so
a run that does not end in it has moved every prefix (`OutcomeMoves`). Conversely no
pull stands in the way of a later one: debtors are in strict order, hence different, so
what a debtor holds when its pull comes is what it held (`OutcomeSucceeds`).

`EngineSound` holds because each answer is what its tool computes of some input while the
chain is fresh (`EngineInv`), and the theorems above are about any input. For
`PreparedSettles` the plan prepared has to meet every check of the contract: sorted and
distinct parties (`AggregatesTransfers`), equal sides, positive values, the nonce and
consent of its own hash, a window that includes now.

`PlanHonoured` is about five pieces of state that change at different times. `RoomInv` says
how they agree: the page's review is of a proposal that reconciles (`PageInv`); a freeze in
flight holds what its run derives, even if the page has moved on (`FreezingInv`); a flow is
bound to a run whose wallets are still the tab's, as the freeze locked them, its plan is
derived from it and its body is that plan, signed (`FlowInv`); the rail holds a prefix of the
signatures for that plan, all of them from "signed" on (`RailInv`); and the chain has
executed that body at most, once, in time, and the balance of everybody who does not spend
elsewhere is the one at first plus what that body moved (`ChainInv`). What a run owes to
its people then follows from `ReconciledShares`, `NettedSettles` and `AggregatesTransfers`.
`FreezingInv` alone does not give `FlowInv`: a wallet may have changed since the derivation,
and it is the comparison in the freeze's transaction (`SourceUnchanged`) that
restores the agreement; without it the property fails (its mutant). TLC checked `RoomInv`
on the instance of run `plan` before it was proved.

Only model-checked, and why:

* liveness (the eventual properties of runs `liveness`, `flow`, `stranded_flow` and
  `web_liveness`): it rests on fairness and so on ENABLED, which the prover does not reach
  here;
* the disagreements above, which are refuted, not proved.

## 6. What is not modelled

Everything with status `not_modelled` in PROJECT.json, with its reason. Inside the
modelled parts:

* journal and submission: hash formats, size limits and clock freshness windows of SQL
  arguments (a refused call is a fault of the handler); signatures (an approval is
  valid or lapsed); several receipts per execution, which only `KeeperHubTools` tells
  apart; the client's in-progress loop (its outcome is `PostAnswered` or `PostFails`);
* flow: the HMAC over row and events; that a flow's row and events are read by two
  queries (one step here; the comparison of event count and revision rejects a mixed
  read and the client asks again). The derivation of ledger and plan is
  `SettlementRoom`'s, the locks of its sources `TabCollaboration`'s; the three meet in
  what a frozen flow is, and are not composed;
* tabs: receipts and allocations as uploaded rows, audit events, listings; the
  debtor's approval is in `FlowRecords`;
* agents: what a stage computes (any verdict it may give is tried); the memory's text;
* voice: amounts (small numbers), the deletion of stale rows (no decision reads them),
  the audio itself, speech playback in the browser;
* narration: bytes and hashes (a recording is a value, no two syntheses are the same);
* contract: signature recovery (an equality of signer and message), reentrancy (the
  token is fixed), gas;
* engine: ABI encoding, address checksums, parsing of decimal money;
* room: the submission's retries and the journal (one transaction here), receipts in
  another currency than USD (covered by the tools), routing and wallet connection.
