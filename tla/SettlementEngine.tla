-------------------------- MODULE SettlementEngine --------------------------
(***************************************************************************)
(* The arithmetic of packages/engine: from a receipt and who shares what,  *)
(* to debts, netted transfers, the canonical ledger and the plan that every*)
(* debtor signs.                                                           *)
(*                                                                         *)
(* Money is a natural number of minor units (bigint).  Participants and    *)
(* addresses are natural numbers too: the engine only compares them, to    *)
(* break ties and to sort.  A hash is the record that is hashed, so equal  *)
(* hashes mean equal contents.  What throws returns Rejected.              *)
(***************************************************************************)
EXTENDS Integers, Sequences, SequencesExt, FiniteSetsExt

CONSTANTS
  Rejected,               \* the engine threw
  NotGiven,               \* an optional field is absent
  CentUnits               \* USDC minor units to a cent: 10 ^ (6 - 2)

\* A debt, or a transfer that settles one.
Debt == [debtor : Nat, creditor : Nat, amount : Nat]

ASSUME EngineAssumption ==
  /\ CentUnits \in Nat \ {0}
  /\ Rejected \notin Seq(Debt)       \* a list of transfers is no error

SumOver(f, S) == MapThenSumSet(LAMBDA x : f[x], S)

SumSeq(s) == SumOver(s, DOMAIN s)

\* The members of a set of numbers in ascending order.
Sorted(S) ==
  [n \in 1..Cardinality(S) |-> CHOOSE x \in S : Cardinality({y \in S : y < x}) = n - 1]

StrictlyAscending(s) == \A i, j \in DOMAIN s : i < j => s[i] < s[j]

-----------------------------------------------------------------------------
(* Splitting a total. *)

IsSettlementCurrency(currency) == currency = "USD"
FiatMinorToUsdcMinor(fiatMinor) == fiatMinor * CentUnits

\* Seeded fault: the rest is dropped, each part rounded down.
FloorSplit(total, weights) ==
  LET whole == SumOver(weights, DOMAIN weights)
  IN  IF whole = 0 THEN Rejected
      ELSE [i \in DOMAIN weights |-> (total * weights[i]) \div whole]

\* The floors leave a rest of fewer units than there are weights: the highest
\* remainders take one unit each, ties going to the lowest index.
LargestRemainderSplit(total, weights) ==
  LET whole == SumOver(weights, DOMAIN weights)
      floors == [i \in DOMAIN weights |-> (total * weights[i]) \div whole]
      rem == [i \in DOMAIN weights |-> (total * weights[i]) % whole]
      leftover == total - SumOver(floors, DOMAIN weights)
      Ahead(i) == {j \in DOMAIN weights : rem[j] > rem[i] \/ (rem[j] = rem[i] /\ j < i)}
  IN  IF whole = 0 THEN Rejected
      ELSE [i \in DOMAIN weights |->
              floors[i] + IF Cardinality(Ahead(i)) < leftover THEN 1 ELSE 0]

EqualSplit(total, n) == LargestRemainderSplit(total, [i \in 1..n |-> 1])

-----------------------------------------------------------------------------
(* Receipts and the proposal who shares which item.                        *)
(*   receipt   [items, subtotal, extras, total, currency]                  *)
(*   item      [quantity, unit, line];  extras is tax + tip + service      *)
(*   proposal  [allocations, payer]                                        *)
(*   allocation [item, sharers, weights], items counted from 1             *)

\* What the schemas let through: natural amounts, at least one of an item, sharers
\* for it and positive weights.
ReceiptItem == [quantity : Nat \ {0}, unit : Nat, line : Nat]
AllocationOver(P) ==
  [item : Nat, sharers : Seq(P) \ {<<>>}, weights : Seq(Nat \ {0}) \cup {NotGiven}]

Lines(receipt) == SumSeq([i \in DOMAIN receipt.items |-> receipt.items[i].line])

ReceiptConsistent(receipt) ==
  /\ \A i \in DOMAIN receipt.items :
        receipt.items[i].unit * receipt.items[i].quantity = receipt.items[i].line
  /\ receipt.subtotal \in {NotGiven, Lines(receipt)}
  /\ receipt.total = Lines(receipt) + receipt.extras

Allocated(proposal) == {proposal.allocations[k].item : k \in DOMAIN proposal.allocations}
Sharers(proposal) == UNION {ToSet(proposal.allocations[k].sharers) :
                              k \in DOMAIN proposal.allocations}

AllocationLegal(receipt, proposal) ==
  /\ \A k \in DOMAIN proposal.allocations :
        LET a == proposal.allocations[k]
        IN  /\ a.item \in DOMAIN receipt.items
            /\ \A j \in DOMAIN proposal.allocations :
                  j # k => proposal.allocations[j].item # a.item
            /\ a.weights # NotGiven => Len(a.weights) = Len(a.sharers)
  /\ DOMAIN receipt.items \subseteq Allocated(proposal)
  /\ proposal.payer \in Sharers(proposal)

\* Each item is split over its sharers on its own; a sharer named twice takes
\* both parts.
ItemShares(receipt, proposal) ==
  LET allocations == proposal.allocations
      Split(a) == LargestRemainderSplit(receipt.items[a.item].line,
        IF a.weights = NotGiven THEN [i \in DOMAIN a.sharers |-> 1] ELSE a.weights)
      Share(a, p) == SumOver(Split(a), {i \in DOMAIN a.sharers : a.sharers[i] = p})
  IN  [p \in Sharers(proposal) |->
         SumSeq([k \in DOMAIN allocations |-> Share(allocations[k], p)])]

\* What each sharer consumed, tax, tip and service spread over the sharers, in
\* the order of their ids, in proportion to their items.
ReconcileAllocation(receipt, proposal) ==
  LET items == ItemShares(receipt, proposal)
      extras == receipt.total - SumOver(items, DOMAIN items)
      parts == LargestRemainderSplit(extras, items)
  IN  IF ~ReceiptConsistent(receipt) \/ ~AllocationLegal(receipt, proposal) THEN Rejected
      ELSE IF extras = 0 THEN items
      ELSE IF parts = Rejected THEN Rejected
      ELSE [p \in DOMAIN items |-> items[p] + parts[p]]

\* Every sharer but the payer owes the payer his share, in USDC minor units.
SharesToDebts(shares, payer) ==
  LET debtors == Sorted({p \in DOMAIN shares : p # payer /\ shares[p] > 0})
  IN  [i \in DOMAIN debtors |->
         [debtor |-> debtors[i], creditor |-> payer,
          amount |-> FiatMinorToUsdcMinor(shares[debtors[i]])]]

-----------------------------------------------------------------------------
(* Netting. *)

Parties(debts) == UNION {{debts[i].debtor, debts[i].creditor} : i \in DOMAIN debts}

DebtsLegal(debts) ==
  \A i \in DOMAIN debts : debts[i].amount > 0 /\ debts[i].debtor # debts[i].creditor

Amounts(debts) == [i \in DOMAIN debts |-> debts[i].amount]
Due(debts, p) == SumOver(Amounts(debts), {i \in DOMAIN debts : debts[i].creditor = p})
Owes(debts, p) == SumOver(Amounts(debts), {i \in DOMAIN debts : debts[i].debtor = p})

\* Positive: is owed money.
NetPositions(debts) == [p \in Parties(debts) |-> Due(debts, p) - Owes(debts, p)]

\* The one who is owed (or owes) most, ties going to the lowest id.
Largest(S, weight) ==
  CHOOSE p \in S : \A q \in S : weight[p] > weight[q] \/ (weight[p] = weight[q] /\ p <= q)

MatchLargest(state) ==
  LET net == state.net
      owing == [p \in DOMAIN net |-> -net[p]]
      debtors == {p \in DOMAIN net : net[p] < 0}
      creditors == {p \in DOMAIN net : net[p] > 0}
      d == Largest(debtors, owing)
      c == Largest(creditors, net)
      amount == Min({owing[d], net[c]})
  IN  IF debtors = {} \/ creditors = {} THEN state
      ELSE [net |-> [net EXCEPT ![d] = @ + amount, ![c] = @ - amount],
            out |-> Append(state.out, [debtor |-> d, creditor |-> c, amount |-> amount])]

\* Each match settles a debtor or a creditor for good, so as many matches as
\* there are parties are enough.
NettedTransfers(debts) ==
  LET matches == Cardinality(Parties(debts))
      after[n \in 0..matches] ==
        IF n = 0 THEN [net |-> NetPositions(debts), out |-> <<>>]
                 ELSE MatchLargest(after[n - 1])
      last == after[matches]
  IN  IF DebtsLegal(debts) /\ \A p \in DOMAIN last.net : last.net[p] = 0
      THEN last.out ELSE Rejected

-----------------------------------------------------------------------------
(* Ledger and plan. *)

\* Participants are sorted by id, transfers keep their order.
CanonicalizeLedger(participants, transfers, receiptId) ==
  LET ids == Sorted(DOMAIN participants)
  IN  [participants |-> [i \in DOMAIN ids |-> <<ids[i], participants[ids[i]]>>],
       transfers |-> transfers, receiptIds |-> <<receiptId>>]

LedgerHash(ledger) == <<"ledger", ledger>>

\* One debit to a debtor and one payout to a creditor, by ascending address.
AggregateSettlementTransfers(transfers) ==
  LET values == [i \in DOMAIN transfers |-> transfers[i].value]
      From(a) == {i \in DOMAIN transfers : transfers[i].from = a}
      To(a) == {i \in DOMAIN transfers : transfers[i].to = a}
      froms == Sorted({transfers[i].from : i \in DOMAIN transfers})
      tos == Sorted({transfers[i].to : i \in DOMAIN transfers})
  IN  [debits |-> [i \in DOMAIN froms |->
                     [debtor |-> froms[i], value |-> SumOver(values, From(froms[i]))]],
       payouts |-> [i \in DOMAIN tos |->
                     [creditor |-> tos[i], value |-> SumOver(values, To(tos[i]))]]]

HashSettlementPlan(ledgerHash, debits, payouts) ==
  [ledgerHash |-> ledgerHash, debits |-> debits, payouts |-> payouts]

SettlementAuthorizationNonce(plan, debtor, value) == <<plan, debtor, value>>

\* What a debtor's wallet signs: the pull of USDC into the settlement contract,
\* and the consent that names the whole plan.
ReceiveAuthorization(from, to, value, validAfter, validBefore, nonce) ==
  [type |-> "ReceiveWithAuthorization", from |-> from, to |-> to, value |-> value,
   validAfter |-> validAfter, validBefore |-> validBefore, nonce |-> nonce]
SettlementConsent(plan, debtor, value, validAfter, validBefore) ==
  [type |-> "SettlementConsent", plan |-> plan, debtor |-> debtor, value |-> value,
   validAfter |-> validAfter, validBefore |-> validBefore]

\* The signed pull of one debit.
SignDebit(plan, debit, contract, validBefore) ==
  LET nonce == SettlementAuthorizationNonce(plan, debit.debtor, debit.value)
  IN  [from |-> debit.debtor, to |-> contract, value |-> debit.value,
       validAfter |-> 0, validBefore |-> validBefore, nonce |-> nonce,
       auth |-> [by |-> debit.debtor,
                 over |-> ReceiveAuthorization(debit.debtor, contract, debit.value,
                                               0, validBefore, nonce)],
       consent |-> [by |-> debit.debtor,
                    over |-> SettlementConsent(plan, debit.debtor, debit.value,
                                               0, validBefore)]]
=============================================================================
