------------------------- MODULE SettlementContract -------------------------
(***************************************************************************)
(* FinalTabBatchSettlementV2 on Base Sepolia and the EIP-3009 token it     *)
(* pulls from.  Anyone may call executeSettlement: what protects the       *)
(* debtors is that each signed both the pull of the tokens and the plan.   *)
(* A call is a transaction: it changes everything or, reverted, nothing.   *)
(*                                                                         *)
(* A body is what the caller submits:                                      *)
(*   [id, ledgerHash, pulls, payouts], id being the plan it claims to be.  *)
(***************************************************************************)
EXTENDS SettlementEngine

CONSTANTS
  Contract,               \* the settlement contract's address
  Balances                \* who holds how many tokens at the beginning

ASSUME ContractAssumption ==
  /\ DOMAIN Balances \subseteq Nat /\ IsFiniteSet(DOMAIN Balances)
  /\ Balances \in [DOMAIN Balances -> Nat]
  /\ Contract \in DOMAIN Balances /\ Balances[Contract] = 0

VARIABLES
  token,                  \* [balance, used]: balances and used authorizations
  executed,               \* the plans executed
  chainLog,               \* the SettlementExecuted events, with their time
  now                     \* block.timestamp

chain == <<token, executed, chainLog>>

\* What is left of a transaction that reverted.
Reverted == [state |-> "reverted"]

Total(s) == SumSeq([i \in DOMAIN s |-> s[i].value])

\* What was signed is what was submitted, and the debtor signed it.
SignedBy(sig, debtor, over) == sig.by = debtor /\ sig.over = over

ComputePlanHash(body) ==
  HashSettlementPlan(body.ledgerHash,
    [i \in DOMAIN body.pulls |-> [debtor |-> body.pulls[i].from,
                                  value |-> body.pulls[i].value]],
    body.payouts)

PullAllowed(plan, p) ==
  /\ p.value > 0
  /\ p.to = Contract
  /\ p.nonce = SettlementAuthorizationNonce(plan, p.from, p.value)
  /\ SignedBy(p.consent, p.from,
       SettlementConsent(plan, p.from, p.value, p.validAfter, p.validBefore))

\* Everything executeSettlement requires before it touches the token.
WellFormed(body) ==
  LET pulls == body.pulls
      payouts == body.payouts
  IN  /\ body.id \notin executed
      /\ pulls # <<>> /\ payouts # <<>>
      /\ body.id = ComputePlanHash(body)
      /\ \A i \in DOMAIN pulls : PullAllowed(body.id, pulls[i])
      /\ StrictlyAscending([i \in DOMAIN pulls |-> pulls[i].from])
      /\ \A i \in DOMAIN payouts : payouts[i].value > 0
      /\ StrictlyAscending([i \in DOMAIN payouts |-> payouts[i].creditor])
      /\ Total(pulls) = Total(payouts)

Move(t, from, to, value) ==
  LET taken == [t.balance EXCEPT ![from] = @ - value]
      given == [taken EXCEPT ![to] = @ + value]
  IN  [t EXCEPT !.balance = given]

\* The token's receiveWithAuthorization, called by the contract.  What reverted
\* before stays reverted.
ReceiveWithAuthorization(t, p) ==
  IF /\ t # Reverted
     /\ p.to = Contract
     /\ p.validAfter < now /\ now < p.validBefore
     /\ <<p.from, p.nonce>> \notin t.used
     /\ SignedBy(p.auth, p.from,
          ReceiveAuthorization(p.from, p.to, p.value, p.validAfter, p.validBefore, p.nonce))
     /\ t.balance[p.from] >= p.value
  THEN Move([t EXCEPT !.used = @ \cup {<<p.from, p.nonce>>}], p.from, p.to, p.value)
  ELSE Reverted

\* The token's transfer out of the contract.
Transfer(t, payout) ==
  IF t # Reverted /\ t.balance[Contract] >= payout.value
  THEN Move(t, Contract, payout.creditor, payout.value) ELSE Reverted

\* The token after the body's transaction, or Reverted.  One pull
\* that fails takes all of them back.
Outcome(body) ==
  LET pulled[n \in 0..Len(body.pulls)] ==
        IF n = 0 THEN token ELSE ReceiveWithAuthorization(pulled[n - 1], body.pulls[n])
      paid[n \in 0..Len(body.payouts)] ==
        IF n = 0 THEN pulled[Len(body.pulls)] ELSE Transfer(paid[n - 1], body.payouts[n])
      last == paid[Len(body.payouts)]
  IN  IF WellFormed(body) /\ last # Reverted
         /\ last.balance[Contract] = token.balance[Contract]
      THEN last ELSE Reverted

Reverts(body) == Outcome(body) = Reverted

\* executeSettlement, whoever calls it.
ExecuteSettlement(body) ==
  /\ ~Reverts(body)
  /\ token' = Outcome(body)
  /\ executed' = executed \cup {body.id}
  /\ chainLog' = Append(chainLog, [body |-> body, at |-> now])

\* A holder spends tokens elsewhere.
SpendElsewhere(from, to, value) ==
  /\ token.balance[from] >= value
  /\ token' = Move(token, from, to, value)
  /\ UNCHANGED <<executed, chainLog>>

ChainInit ==
  /\ token = [balance |-> Balances, used |-> {}]
  /\ executed = {}
  /\ chainLog = <<>>
  /\ now = 1
=============================================================================
