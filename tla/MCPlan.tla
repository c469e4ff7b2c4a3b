------------------------------- MODULE MCPlan -------------------------------
(***************************************************************************)
(* Two small worlds around the settlement plan.  A run starts in one of    *)
(* the Parts and stays there; they share the chain and no step.            *)
(*   tools  one call of a deterministic MCP tool, over many inputs         *)
(*   room   one tab of three persons, from the split to the chain          *)
(***************************************************************************)
EXTENDS SettlementRoom, SettlementTools, TLC

CONSTANT Parts

VARIABLE part

Init == part \in Parts /\ ToolsInit /\ RoomInit

Next ==
  /\ UNCHANGED part
  /\ \/ part = "tools" /\ ToolsNext /\ UNCHANGED roomVars
     \/ part = "room" /\ RoomNext /\ UNCHANGED answer

Spec == Init /\ [][Next]_<<part, answer, roomVars>>

-----------------------------------------------------------------------------
\* The engine's arithmetic, as the MCP tools answer it: splits give every cent
\* away, netting keeps everybody's position, an allocation sums to its receipt and
\* a prepared plan is one the contract executes.
EngineSound ==
  /\ SplitsSound
  /\ NettingSound
  /\ AllocationSound
  /\ PreparedSettles

\* From the split to the chain: the plan frozen is the plan reviewed, for the
\* wallets the tab has; the chain executes it once at most, moving the reviewed
\* shares and nothing else, within the hour each debtor signed; and a flow called
\* settled is settled.
PlanHonoured ==
  part = "room" =>
    /\ FrozenAsReviewed
    /\ SharesMoved
    /\ PulledInTime
    /\ SettledOnChain

-----------------------------------------------------------------------------
(* The instance TLC checks.  The chain. *)

TheContract == 90
Elsewhere == 91
Purses == (30 :> 100000) @@ (31 :> 100000) @@ (32 :> 100000) @@ (33 :> 100000)
          @@ (TheContract :> 0) @@ (Elsewhere :> 0)

(* Inputs of the tools: ids 1 .. 4, of whom 4 may be unknown.  The clock counts minutes. *)

AnHour == 60
SeqsUpTo(S, n) == UNION {[1..k -> S] : k \in 1..n}
SmallTotals == 0..7
SmallWeights == SeqsUpTo(0..3, 4)
SmallDebts == SeqsUpTo([debtor : 1..3, creditor : 1..3, amount : {0, 1, 2, 3}], 3)
Weighed(f) == [i \in DOMAIN f |-> [participant |-> f[i][1], weight |-> f[i][2]]]
Weighings ==
  {Weighed(f) : f \in {<<<<1, 1>>, <<2, 1>>, <<3, 1>>>>, <<<<3, 2>>, <<1, 1>>>>,
                       <<<<2, 3>>>>, <<<<1, 0>>>>, <<<<1, 1>>, <<1, 2>>>>, <<<<4, 1>>>>}}
Assignments == [line : 1..2, weights : Weighings]
Inputs ==
  [currency : {"USD"}, participants : {1..3},
   wallets : {<<33, 32, 31>>, <<31, 31, 32>>, <<31, NotGiven, 33>>},
   lines : {<<7>>, <<5, 2>>, <<0, 7>>}, assignments : SeqsUpTo(Assignments, 2),
   stated : {NotGiven, 7, 8}]
  \cup [currency : {"GBP"}, participants : {1..3}, wallets : {<<31, 32, 33>>},
        lines : {<<7>>}, assignments : [1..1 -> Assignments], stated : {7}]
SomePayers == {1, 3, 4}
SomeExpiries == {NotGiven, 4, 5, 24 * AnHour, 24 * AnHour + 1}

(* The room: 1 paid for 2 and 3; 2 has two wallets, 3 spends tokens elsewhere. *)

Dish(quantity, unit) == [quantity |-> quantity, unit |-> unit, line |-> quantity * unit]
Dinner == [items |-> <<Dish(1, 5), Dish(2, 2)>>, subtotal |-> 9, extras |-> 2,
           total |-> 11, currency |-> "USD"]
Shared(item, sharers) == [item |-> item, sharers |-> sharers, weights |-> NotGiven]
TwoProposals ==
  {[allocations |-> <<Shared(1, <<2, 1, 3>>), Shared(2, <<3, 1>>)>>, payer |-> 1],
   [allocations |-> <<Shared(1, <<1, 2>>), Shared(2, <<1>>)>>, payer |-> 1]}
RoomWallets == <<{31}, {32, 30}, {33}>>
TheSpender == {3}
=============================================================================
