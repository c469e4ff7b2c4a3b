--------------------------- MODULE SettlementRoom ---------------------------
(***************************************************************************)
(* One tab from the split to the money: the browser's panels and execution *)
(* rail, the review and the freeze on the server, the debtors' wallets and *)
(* the contract on the chain.                                              *)
(*                                                                         *)
(* The plan is derived twice, by the browser from the page and by the      *)
(* server from what was reviewed, and is frozen only if both agree.  The   *)
(* participants' wallets may change in between, until a flow exists.       *)
(* The submission to KeeperHub and its journal are SettlementFlow's and    *)
(* SubmissionJournal's: here one transaction is sent, and lands or not.    *)
(***************************************************************************)
EXTENDS SettlementContract

CONSTANTS
  Receipt,                \* the confirmed receipt, in dollars
  Proposals,              \* who shares what, as the model may propose it
  Wallets,                \* wallets a participant may register: person -> addresses
  Spenders,               \* debtors who also spend tokens elsewhere
  Outside,                \* where they spend them
  Validity,               \* how long a wallet's signature is valid
  MaxTime,                \* bound of the clock
  None

Persons == DOMAIN Wallets
Registered == UNION {Wallets[p] : p \in Persons}

\* A proposal that names others than the tab's persons freezes nothing.
ASSUME RoomAssumption ==
  /\ Persons \subseteq Nat /\ IsFiniteSet(Persons)
  /\ Registered \subseteq Nat /\ Contract \notin Registered
  /\ Receipt.items \in Seq(ReceiptItem)
  /\ Receipt.extras \in Nat
  /\ \A proposal \in Proposals :
       /\ proposal.allocations \in Seq(AllocationOver(Persons))
       /\ proposal # None
  /\ NotGiven \notin Seq(Nat \ {0})
  /\ Registered \cup {Outside} \subseteq DOMAIN Balances
  /\ Contract # Outside
  /\ Spenders \subseteq Persons
  /\ Validity \in Nat /\ MaxTime \in Nat

\* The tab has no flow yet.
NoFlow == [state |-> "none"]

VARIABLES
  wallet,                 \* participants.wallet_address
  page,                   \* the browser's [people, proposal, review, locked]
  freezing,               \* the freeze request between its reads and its write:
                          \* None or [frozen, run, awaited]
  flow,                   \* the durable flow: NoFlow or [plan, ledgerHash, run, state, body]
  rail,                   \* the execution rail: None or [frozen, signed, stage]
  tx                      \* KeeperHub's transaction: "none", "pending", "succeeded", "reverted"

roomVars == <<wallet, page, freezing, flow, rail, tx, token, executed, chainLog, now>>

Distinct(people) == \A p, q \in DOMAIN people : people[p] = people[q] => p = q

\* The page of a tab as it loads: one whose tab is frozen edits nothing.
FreshPage == [people |-> wallet, proposal |-> None, review |-> None, locked |-> flow # NoFlow]
Locked == page.locked \/ rail # None

-----------------------------------------------------------------------------
(* The plan, as both sides derive it. *)

ReviewedShares[proposal \in Proposals] == ReconcileAllocation(Receipt, proposal)

\* The debts of an allocation; one in another currency has none to settle.
AllocatedDebts[proposal \in Proposals] ==
  IF IsSettlementCurrency(Receipt.currency)
  THEN SharesToDebts(ReviewedShares[proposal], proposal.payer) ELSE <<>>

\* What the split panel nets and publishes to the rail.
Netted[proposal \in Proposals] == NettedTransfers(AllocatedDebts[proposal])

\* The frozen ledger and plan of debts between people with these wallets.
FreezeLedger(people, debts) ==
  LET transfers == [i \in DOMAIN debts |->
        [from |-> people[debts[i].debtor], to |-> people[debts[i].creditor],
         value |-> debts[i].amount]]
      ledger == CanonicalizeLedger(people, transfers, "receipt")
      ends == AggregateSettlementTransfers(transfers)
      hash == LedgerHash(ledger)
  IN  [ledgerHash |-> hash, plan |-> HashSettlementPlan(hash, ends.debits, ends.payouts),
       debits |-> ends.debits, payouts |-> ends.payouts]

-----------------------------------------------------------------------------
(* The browser: participants, split, review. *)

\* The page loads the participants, or one is edited on it: what was derived from
\* the old ones is gone.
LoadPeople ==
  /\ ~Locked
  /\ page.people # wallet
  /\ page' = [page EXCEPT !.people = wallet, !.proposal = None, !.review = None]
  /\ UNCHANGED <<wallet, freezing, flow, rail, tx, token, executed, chainLog, now>>

\* A participant registers another wallet, on another device.
ChangeWallet ==
  \E p \in Persons : \E a \in Wallets[p] \ {wallet[p]} :
    /\ flow = NoFlow
    /\ wallet' = [wallet EXCEPT ![p] = a]
    /\ UNCHANGED <<page, freezing, flow, rail, tx, token, executed, chainLog, now>>

\* The split panel takes the model's proposal if it reconciles, and any review of
\* another one is over.
Allocate ==
  \E proposal \in Proposals :
    /\ ~Locked
    /\ ReviewedShares[proposal] # Rejected
    /\ page' = [page EXCEPT !.proposal = proposal, !.review = None]
    /\ UNCHANGED <<wallet, freezing, flow, rail, tx, token, executed, chainLog, now>>

\* The consent stage blocks a run whose sharers have no wallets of their own.
ConsentRisk(proposal) ==
  \/ ~IsSettlementCurrency(Receipt.currency)
  \/ \E p, q \in Sharers(proposal) : p # q /\ wallet[p] = wallet[q]

\* The review runs on the participants as the server has them; the page takes it
\* for its own inputs, which is its key.
Review ==
  /\ flow = NoFlow
  /\ page.proposal # None /\ page.review = None
  /\ ~ConsentRisk(page.proposal)
  /\ page' = [page EXCEPT !.review =
       [run |-> [proposal |-> page.proposal, wallets |-> wallet],
        key |-> <<page.people, page.proposal>>]]
  /\ UNCHANGED <<wallet, freezing, flow, rail, tx, token, executed, chainLog, now>>

-----------------------------------------------------------------------------
(* The freeze. *)

Reviewed == page.review # None /\ page.review.key = <<page.people, page.proposal>>

\* Seeded fault: the freeze trusts the server's earlier reads.
SourceTrusted(run) == TRUE

\* The reviewed participants are the tab's, each with a wallet of his own.
SourceUnchanged(run) == wallet = run.wallets /\ Distinct(wallet)

\* What the browser expects to be frozen, from the page.
FreezeReviewedLedger == FreezeLedger(page.people, Netted[page.proposal])

\* The rail starts over on a frozen plan, with nothing signed.
RailOn(frozen) == [frozen |-> frozen, signed |-> <<>>, stage |-> "frozen"]

\* What the server derives, from the run and the participants it read.
Derived(run) ==
  FreezeLedger(run.wallets,
    NettedTransfers(SharesToDebts(ReviewedShares[run.proposal], run.proposal.payer)))

\* The rail shows one step at a time, by its stage, and enables its button only then.
Offers(step) ==
  \/ step = "freeze" /\ rail = None /\ Reviewed /\ Netted[page.proposal] # <<>>
  \/ step = "sign" /\ rail # None /\ rail.stage = "frozen"
  \/ step = "simulate" /\ rail # None /\ rail.stage \in {"signed", "simulation_failed"}
  \/ step = "execute" /\ rail # None /\ rail.stage = "simulated"

\* The server reads the run and the participants, derives the plan and compares
\* it with the browser's; a flow frozen before is answered again.
DeriveFreeze ==
  /\ Offers("freeze") /\ freezing = None
  /\ LET run == page.review.run IN
     /\ wallet = run.wallets /\ Distinct(run.wallets)
     /\ \E derived \in {Derived(run)} :
        /\ FreezeReviewedLedger = derived
        /\ flow # NoFlow => flow.plan = derived.plan
        /\ IF flow = NoFlow
           THEN freezing' = [frozen |-> derived, run |-> run, awaited |-> TRUE] /\ rail' = rail
           ELSE freezing' = None /\ rail' = RailOn(derived)
  /\ UNCHANGED <<wallet, page, flow, tx, token, executed, chainLog, now>>

\* The write locks the tab and its sources and compares them once more.  Its
\* answer reaches the rail, or is lost and the page may ask again.
CommitFreeze ==
  /\ freezing # None
  /\ flow = NoFlow
  /\ SourceUnchanged(freezing.run)
  /\ flow' = [plan |-> freezing.frozen.plan, ledgerHash |-> freezing.frozen.ledgerHash,
              run |-> freezing.run, state |-> "frozen", body |-> None]
  /\ \/ rail' = rail
     \/ freezing.awaited /\ rail' = RailOn(freezing.frozen)
  /\ freezing' = None
  /\ UNCHANGED <<wallet, page, tx, token, executed, chainLog, now>>

\* The write is refused, or the server dies before it.
DropFreeze ==
  /\ freezing # None
  /\ freezing' = None
  /\ UNCHANGED <<wallet, page, flow, rail, tx, token, executed, chainLog, now>>

\* The page is reloaded.  The rail and its signatures are gone for good: the
\* freeze of a tab already frozen needs the review, which is gone as well.
Reload ==
  /\ page # FreshPage \/ rail # None
  /\ page' = FreshPage
  /\ rail' = None
  /\ freezing' = IF freezing = None THEN None ELSE [freezing EXCEPT !.awaited = FALSE]
  /\ UNCHANGED <<wallet, flow, tx, token, executed, chainLog, now>>

-----------------------------------------------------------------------------
(* Signing, simulation, execution. *)

\* A debtor of the page connects his wallet and signs, for Validity from now.
MaySign(debit) == \E p \in DOMAIN page.people : page.people[p] = debit.debtor
SignPreparedDebit(frozen, debit) == SignDebit(frozen.plan, debit, Contract, now + Validity)

\* One debit at a time, in the plan's order.
Sign ==
  LET next == Len(rail.signed) + 1
      debit == rail.frozen.debits[next]
  IN  /\ Offers("sign")
      /\ MaySign(debit)
      /\ rail' = [rail EXCEPT
           !.signed = Append(@, SignPreparedDebit(rail.frozen, debit)),
           !.stage = IF next = Len(rail.frozen.debits) THEN "signed" ELSE "frozen"]
      /\ UNCHANGED <<wallet, page, freezing, flow, tx, token, executed, chainLog, now>>

SettleBody(r) ==
  [id |-> r.frozen.plan, ledgerHash |-> r.frozen.ledgerHash,
   pulls |-> r.signed, payouts |-> r.frozen.payouts]

\* The shape every endpoint that takes a body parses it with.
SettleBodyLegal(body) ==
  /\ Total(body.pulls) = Total(body.payouts)
  /\ StrictlyAscending([i \in DOMAIN body.pulls |-> body.pulls[i].from])
  /\ StrictlyAscending([i \in DOMAIN body.payouts |-> body.payouts[i].creditor])

\* What the server recomputes before it asks KeeperHub.
PreparedCall(body) ==
  /\ body.id = ComputePlanHash(body)
  /\ \A i \in DOMAIN body.pulls :
        /\ body.pulls[i].to = Contract
        /\ body.pulls[i].nonce = SettlementAuthorizationNonce(
             body.id, body.pulls[i].from, body.pulls[i].value)

\* The answer to a simulation: the flow's own body passed before, any other is
\* refused, and a frozen flow takes what would not revert.
Simulation(body) ==
  IF flow.state = "frozen"
  THEN IF ~(SettleBodyLegal(body) /\ PreparedCall(body) /\ body.id = flow.plan)
       THEN "refused" ELSE IF Reverts(body) THEN "would revert" ELSE "passed"
  ELSE IF flow.state = "simulated" /\ flow.body = body THEN "passed before" ELSE "refused"

\* A revert is shown and may be tried again; a body that passes is the flow's.
Simulate ==
  /\ Offers("simulate")
  /\ LET body == SettleBody(rail)
         answer == Simulation(body)
     IN  /\ rail' = [rail EXCEPT !.stage = IF answer \in {"passed", "passed before"}
                                           THEN "simulated" ELSE "simulation_failed"]
         /\ flow' = IF answer = "passed"
                     THEN [flow EXCEPT !.state = "simulated", !.body = body] ELSE flow
  /\ UNCHANGED <<wallet, page, freezing, tx, token, executed, chainLog, now>>

Unexpired(body) == \A i \in DOMAIN body.pulls : now < body.pulls[i].validBefore

\* The approvals are current and the plan still passes: KeeperHub takes the job.
\* Otherwise the rail shows the failed simulation.
Execute ==
  /\ Offers("execute")
  /\ flow.state = "simulated"
  /\ IF Unexpired(flow.body) /\ ~Reverts(flow.body)
     THEN /\ flow' = [flow EXCEPT !.state = "submitted"]
          /\ tx' = "pending"
          /\ rail' = [rail EXCEPT !.stage = "pending"]
     ELSE /\ rail' = [rail EXCEPT !.stage = "simulation_failed"]
          /\ UNCHANGED <<flow, tx>>
  /\ UNCHANGED <<wallet, page, freezing, token, executed, chainLog, now>>

-----------------------------------------------------------------------------
(* The chain. *)

\* KeeperHub's transaction is mined: it succeeds or reverts.
Mine ==
  /\ tx = "pending"
  /\ \/ tx' = "succeeded" /\ ExecuteSettlement(flow.body)
     \/ tx' = "reverted" /\ Reverts(flow.body) /\ UNCHANGED chain
  /\ UNCHANGED <<wallet, page, freezing, flow, rail, now>>

\* Whoever has seen the body executes it: the contract asks nobody's permission.
AnyoneExecutes ==
  /\ flow # NoFlow /\ flow.body # None
  /\ ExecuteSettlement(flow.body)
  /\ UNCHANGED <<wallet, page, freezing, flow, rail, tx, now>>

\* A debtor's tokens go elsewhere.
Spend ==
  \E p \in Spenders : \E from \in Wallets[p] :
    /\ token.balance[from] > 0
    /\ SpendElsewhere(from, Outside, token.balance[from])
    /\ UNCHANGED <<wallet, page, freezing, flow, rail, tx, now>>

Tick ==
  /\ now < MaxTime
  /\ now' = now + 1
  /\ UNCHANGED <<wallet, page, freezing, flow, rail, tx, token, executed, chainLog>>

\* The receipt of KeeperHub's transaction, read from the chain: it succeeded and
\* logged the execution of this plan.
ReceiptProves(plan, ledgerHash) ==
  /\ tx = "succeeded"
  /\ \E i \in DOMAIN chainLog : /\ chainLog[i].body.id = plan
                                /\ chainLog[i].body.ledgerHash = ledgerHash

Verdict ==
  IF tx = "reverted" THEN "failed"
  ELSE IF ReceiptProves(flow.plan, flow.ledgerHash) THEN "verified_settled"
  ELSE "completed_unverified"

\* The status is polled once the transaction is final, and the flow takes it.
PollStatus ==
  /\ flow # NoFlow /\ flow.state = "submitted"
  /\ tx \in {"succeeded", "reverted"}
  /\ flow' = [flow EXCEPT !.state = Verdict]
  /\ rail' = IF rail = None THEN None ELSE [rail EXCEPT !.stage = Verdict]
  /\ UNCHANGED <<wallet, page, freezing, tx, token, executed, chainLog, now>>

-----------------------------------------------------------------------------
RoomInit ==
  /\ wallet \in {w \in [Persons -> Registered] :
                   \A p \in Persons : w[p] \in Wallets[p]}
  /\ freezing = None /\ flow = NoFlow /\ rail = None /\ tx = "none"
  /\ page = FreshPage
  /\ ChainInit

RoomNext ==
  \/ LoadPeople \/ ChangeWallet \/ Allocate \/ Review
  \/ DeriveFreeze \/ CommitFreeze \/ DropFreeze \/ Reload
  \/ Sign \/ Simulate \/ Execute
  \/ Mine \/ AnyoneExecutes \/ Spend \/ PollStatus \/ Tick

-----------------------------------------------------------------------------
(* Properties. *)

\* What a share of the reviewed proposal costs on the chain, in USDC units.
Owed(run, p) ==
  IF p \in Sharers(run.proposal) \ {run.proposal.payer}
  THEN ReviewedShares[run.proposal][p] * CentUnits ELSE 0

\* What the execution of a plan moves for a reviewed participant.
Change(run, p) ==
  IF p = run.proposal.payer THEN SumOver([q \in Persons |-> Owed(run, q)], Persons)
  ELSE -Owed(run, p)

\* "These locks close the server-read/RPC-write gap" (the freeze): a flow is
\* bound to the wallets the tab has, and to one plan of the reviewed shares.
FrozenAsReviewed ==
  flow # NoFlow =>
    /\ wallet = flow.run.wallets
    /\ \A p \in Persons : Owed(flow.run, p) > 0 =>
          \E i \in DOMAIN flow.plan.debits :
            flow.plan.debits[i] = [debtor |-> wallet[p], value |-> Owed(flow.run, p)]
    /\ Total(flow.plan.debits) = Total(flow.plan.payouts)

\* The addresses that spend tokens elsewhere, and where.
Spending == (UNION {Wallets[p] : p \in Spenders}) \cup {Outside}

\* The chain has executed at most the frozen plan, once, and moved the reviewed
\* shares between the reviewed wallets and nothing else, so nothing stays in the
\* contract.  Those who spend their tokens elsewhere lose only these.
SharesMoved ==
  /\ Len(chainLog) <= 1
  /\ chainLog # <<>> => chainLog[1].body.id = flow.plan
  /\ \A a \in DOMAIN Balances \ Spending :
        LET moved == IF chainLog = <<>> THEN [p \in Persons |-> 0]
                     ELSE [p \in Persons |-> Change(flow.run, p)]
        IN  token.balance[a] = Balances[a] + SumOver(moved, {p \in Persons : wallet[p] = a})
  /\ SumOver(token.balance, DOMAIN token.balance) = SumOver(Balances, DOMAIN Balances)

\* Every pull executed was signed by its debtor and lies within his hour.
PulledInTime ==
  \A i \in DOMAIN chainLog : \A n \in DOMAIN chainLog[i].body.pulls :
    LET p == chainLog[i].body.pulls[n]
    IN  /\ chainLog[i].at < p.validBefore
        /\ p.auth.by = p.from /\ p.consent.over.plan = flow.plan

\* A flow called settled is settled on the chain, also when others could have
\* executed the plan.
SettledOnChain ==
  flow # NoFlow /\ flow.state = "verified_settled" => flow.plan \in executed
=============================================================================
