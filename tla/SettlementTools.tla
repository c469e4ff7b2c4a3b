-------------------------- MODULE SettlementTools --------------------------
(***************************************************************************)
(* The deterministic tools of the MCP endpoint: a caller brings a receipt, *)
(* shares and wallets of his own and gets a split, netted debts or a plan  *)
(* with what each debtor has to sign.  The tools keep nothing, so one call *)
(* is a behaviour.                                                         *)
(*                                                                         *)
(* An assignment gives a line's weights as a sequence of                   *)
(* [participant, weight]; a wallet is an address or NotGiven.              *)
(***************************************************************************)
EXTENDS SettlementContract

CONSTANTS
  Hour,                   \* an hour in ticks of the clock
  NoAnswer,               \* the call is not answered yet
  Totals,                 \* totals to split
  WeightLists,            \* weights to split them by
  DebtLists,              \* debts to net
  McpInputs,              \* [currency, participants, wallets, lines, assignments, stated]
  Payers,                 \* who may be named as the payer
  Expiries                \* validBefore as the caller may give it

Given(wallets) == {p \in DOMAIN wallets : wallets[p] # NotGiven}

\* What the tools' schemas let in, and that a participant's wallet is on the chain
\* and not the settlement contract.
McpInput(input) ==
  /\ input.participants \subseteq Nat /\ IsFiniteSet(input.participants)
  /\ DOMAIN input.wallets = input.participants
  /\ \A p \in Given(input.wallets) : input.wallets[p] \in DOMAIN Balances \ {Contract}
  /\ input.lines \in Seq(Nat)
  /\ input.assignments \in
       Seq([line : Nat, weights : Seq([participant : Nat, weight : Nat])])

ASSUME ToolsAssumption ==
  /\ Totals \subseteq Nat /\ WeightLists \subseteq Seq(Nat)
  /\ DebtLists \subseteq Seq(Debt) \ {<<>>}
  /\ \A input \in McpInputs : McpInput(input)
  /\ Expiries \subseteq Nat \cup {NotGiven}
  /\ Hour \in Nat /\ Hour > 12      \* five minutes are more than a tick

VARIABLE answer

Replies(tool, input, result) ==
  answer' = [tool |-> tool, input |-> input, result |-> result]

SplitEqual ==
  /\ answer = NoAnswer
  /\ \E total \in Totals, n \in {Len(w) : w \in WeightLists} :
     Replies("split_equal", [total |-> total, weights |-> [i \in 1..n |-> 1]],
             EqualSplit(total, n))

SplitWeighted ==
  /\ answer = NoAnswer
  /\ \E total \in Totals, weights \in WeightLists :
     Replies("split_weighted", [total |-> total, weights |-> weights],
             LargestRemainderSplit(total, weights))

NetDebts ==
  /\ answer = NoAnswer
  /\ \E debts \in DebtLists : Replies("net_debts", debts, NettedTransfers(debts))

-----------------------------------------------------------------------------
(* allocate_receipt: every line, tax and tip among them, has weights of its own. *)

AssignmentLegal(input, a) ==
  /\ \A i \in DOMAIN a.weights : a.weights[i].participant \in input.participants
  /\ \A i, j \in DOMAIN a.weights :
        a.weights[i].participant = a.weights[j].participant => i = j

InputLegal(input) ==
  /\ IsSettlementCurrency(input.currency)
  /\ \A p, q \in Given(input.wallets) : input.wallets[p] = input.wallets[q] => p = q
  /\ \A line \in DOMAIN input.lines : input.lines[line] > 0
  \* Each line has one assignment and each assignment a line.
  /\ Len(input.assignments) = Len(input.lines)
  /\ {input.assignments[i].line : i \in DOMAIN input.assignments} = DOMAIN input.lines
  /\ \A i \in DOMAIN input.assignments : AssignmentLegal(input, input.assignments[i])
  /\ input.stated \in {NotGiven, SumSeq(input.lines)}

\* The weights of a line over all the participants, those not named with 0.
WeightsOf(input, a) ==
  LET people == Sorted(input.participants)
  IN  [i \in DOMAIN people |->
         SumOver([n \in DOMAIN a.weights |-> a.weights[n].weight],
                 {n \in DOMAIN a.weights : a.weights[n].participant = people[i]})]

\* The shares of each line and of the receipt, in the order of the participants.
AllocateMcpReceipt(input) ==
  LET AssignmentOf(line) ==
        CHOOSE a \in ToSet(input.assignments) : a.line = line
      lines == [line \in DOMAIN input.lines |->
        LargestRemainderSplit(input.lines[line], WeightsOf(input, AssignmentOf(line)))]
      people == Sorted(input.participants)
  IN  IF ~InputLegal(input) \/ Rejected \in ToSet(lines) THEN Rejected
      ELSE [lines |-> lines,
            shares |-> [i \in DOMAIN people |->
              SumSeq([line \in DOMAIN lines |-> lines[line][i]])]]

AllocateReceipt ==
  /\ answer = NoAnswer
  /\ \E input \in McpInputs :
     Replies("allocate_receipt", input, AllocateMcpReceipt(input))

-----------------------------------------------------------------------------
(* prepare_receipt_settlement, at time 0. *)

ExpiryOf(expiry) == IF expiry = NotGiven THEN Hour ELSE expiry
ExpiryAllowed(expiry) == 12 * expiry >= Hour /\ expiry <= 24 * Hour

\* One transfer from each debtor to the payer, by the debtor's address.
TransfersTo(input, payer, shares) ==
  LET people == Sorted(input.participants)
      owing == {i \in DOMAIN people : people[i] # payer /\ shares[i] > 0}
      From(i) == input.wallets[people[i]]
      froms == Sorted({From(i) : i \in owing})
      At(n) == CHOOSE i \in owing : From(i) = froms[n]
  IN  [n \in DOMAIN froms |->
         [from |-> froms[n], to |-> input.wallets[payer],
          value |-> FiatMinorToUsdcMinor(shares[At(n)])]]

PrepareMcpReceiptSettlement(input, payer, expiry) ==
  LET allocation == AllocateMcpReceipt(input)
      transfers == TransfersTo(input, payer, allocation.shares)
      ledger == CanonicalizeLedger(input.wallets, transfers, "receipt")
      ends == AggregateSettlementTransfers(ledger.transfers)
      plan == HashSettlementPlan(LedgerHash(ledger), ends.debits, ends.payouts)
      Request(debit) == SignDebit(plan, debit, Contract, ExpiryOf(expiry))
  IN  IF \/ allocation = Rejected
         \/ Given(input.wallets) # input.participants
         \/ payer \notin input.participants
         \/ ~ExpiryAllowed(ExpiryOf(expiry))
      THEN Rejected
      ELSE IF transfers = <<>> THEN Rejected
      ELSE [settlementId |-> plan, ledgerHash |-> LedgerHash(ledger),
            debits |-> ends.debits, payouts |-> ends.payouts,
            \* As each debtor's wallet signs its request.
            signatureRequests |-> [i \in DOMAIN ends.debits |-> Request(ends.debits[i])]]

PrepareReceiptSettlement ==
  /\ answer = NoAnswer
  /\ \E input \in McpInputs, payer \in Payers, expiry \in Expiries :
     Replies("prepare_receipt_settlement", [input |-> input, payer |-> payer, expiry |-> expiry],
             PrepareMcpReceiptSettlement(input, payer, expiry))

ToolsInit == answer = NoAnswer
ToolsNext ==
  \/ SplitEqual
  \/ SplitWeighted
  \/ NetDebts
  \/ AllocateReceipt
  \/ PrepareReceiptSettlement

-----------------------------------------------------------------------------
(* What the answers promise, told by definitions of their own. *)

Answered(tool) == answer # NoAnswer /\ answer.tool = tool /\ answer.result # Rejected

\* Each part is the exact quota rounded down or up, and together they are the
\* total; of two equal weights the earlier gets no less.
Apportions(total, weights, parts) ==
  /\ SumSeq(parts) = total
  /\ \A i \in DOMAIN weights :
        LET off == parts[i] * SumSeq(weights) - total * weights[i]
        IN  -SumSeq(weights) < off /\ off < SumSeq(weights)
  /\ \A i, j \in DOMAIN weights :
        (weights[i] > weights[j] \/ (weights[i] = weights[j] /\ i < j)) => parts[i] >= parts[j]

\* split_equal and split_weighted give every cent away, each share off its exact
\* quota by less than a cent.
SplitsSound ==
  Answered("split_equal") \/ Answered("split_weighted") =>
    Apportions(answer.input.total, answer.input.weights, answer.result)

\* net_debts leaves everybody's net position as it was, with fewer transfers than
\* parties; nobody pays and is paid.  It refuses only what is no debt.
NettingSound ==
  answer # NoAnswer /\ answer.tool = "net_debts" =>
    IF answer.result = Rejected THEN ~DebtsLegal(answer.input)
    ELSE LET net == NetPositions(answer.input)
             out == answer.result
         IN  /\ DebtsLegal(answer.input)
             /\ \A i \in DOMAIN out : out[i].amount > 0
             /\ \A p \in DOMAIN net : net[p] = Due(out, p) - Owes(out, p)
             /\ {out[i].debtor : i \in DOMAIN out} \cap {out[i].creditor : i \in DOMAIN out} = {}
             /\ Len(out) < Cardinality(DOMAIN net)

\* allocate_receipt apportions each line of a receipt in dollars, so the shares sum
\* to the receipt; in another currency there is no answer.
AllocationSound ==
  Answered("allocate_receipt") =>
    LET input == answer.input
    IN  /\ input.currency = "USD"
        /\ SumSeq(answer.result.shares) = SumSeq(input.lines)
        /\ \A a \in ToSet(input.assignments) :
             Apportions(input.lines[a.line], WeightsOf(input, a), answer.result.lines[a.line])

\* A prepared plan settles on the chain at once, if its debtors have the money and
\* have signed what it asks them to, and brings the payer what the others consumed:
\* cents for cents, so of a receipt in dollars only.
PreparedSettles ==
  Answered("prepare_receipt_settlement") =>
    LET made == answer.result
        input == answer.input.input
        body == [id |-> made.settlementId, ledgerHash |-> made.ledgerHash,
                 pulls |-> made.signatureRequests, payouts |-> made.payouts]
        shares == AllocateMcpReceipt(input).shares
        people == Sorted(input.participants)
        after == Outcome(body)
        Gain(i) == IF people[i] = answer.input.payer
                   THEN SumSeq(shares) - shares[i] ELSE -shares[i]
        Holds(debit) == token.balance[debit.debtor] >= debit.value
    IN  /\ input.currency = "USD"
        /\ (\A i \in DOMAIN made.debits : Holds(made.debits[i])) =>
             /\ after # Reverted
             /\ \A i \in DOMAIN people :
                  after.balance[input.wallets[people[i]]]
                    = token.balance[input.wallets[people[i]]] + FiatMinorToUsdcMinor(Gain(i))
=============================================================================
