---------------------------- MODULE Plan_proofs -----------------------------
(***************************************************************************)
(* The answers of the MCP tools and the settlement room, for any people,   *)
(* wallets, receipts, proposals and balances: what the contract's          *)
(* transaction does, that the answers are right, and that the plan which   *)
(* is frozen, signed and executed is the one that was reviewed.            *)
(***************************************************************************)
EXTENDS MCPlan, SettlementEngine_proofs


-----------------------------------------------------------------------------
(* The contract and its token. *)

\* Everybody who may hold USDC.
Addresses == DOMAIN Balances

\* The token holds a natural balance for every address, and in sum what there
\* was.
Holding(t) ==
  /\ t = [balance |-> t.balance, used |-> t.used]
  /\ DOMAIN t.balance = Addresses /\ t.balance = [a \in Addresses |-> t.balance[a]]
  /\ \A a \in Addresses : t.balance[a] \in Nat
  /\ SumOver(t.balance, Addresses) = SumOver(Balances, Addresses)

\* A body whose debtors and creditors are addresses other than the contract.
Submitted(body) ==
  /\ Len(body.pulls) \in Nat /\ DOMAIN body.pulls = 1..Len(body.pulls)
  /\ Len(body.payouts) \in Nat /\ DOMAIN body.payouts = 1..Len(body.payouts)
  /\ \A i \in DOMAIN body.pulls :
       body.pulls[i].from \in Addresses \ {Contract} /\ body.pulls[i].value \in Nat
  /\ \A i \in DOMAIN body.payouts :
       /\ body.payouts[i].creditor \in Addresses \ {Contract}
       /\ body.payouts[i].value \in Nat

\* A state of the token is no revert.
LEMMA HoldingNotReverted ==
  ASSUME NEW t, Holding(t)
  PROVE  t # Reverted
<1>1. DOMAIN t = {"balance", "used"}
  BY DEF Holding
<1>2. DOMAIN Reverted = {"state"}
  BY DEF Reverted
<1>. QED BY <1>1, <1>2

\* What a transfer changes: the two ends, by its value, and not the sum.
LEMMA MoveHolds ==
  ASSUME NEW t, Holding(t), NEW from \in Addresses, NEW to \in Addresses, from # to,
         NEW value \in Nat, t.balance[from] >= value
  PROVE  /\ Holding(Move(t, from, to, value)) /\ Move(t, from, to, value).used = t.used
         /\ Move(t, from, to, value).balance[from] = t.balance[from] - value
         /\ Move(t, from, to, value).balance[to] = t.balance[to] + value
         /\ \A a \in Addresses \ {from, to} :
              Move(t, from, to, value).balance[a] = t.balance[a]
<1>. DEFINE r == Move(t, from, to, value)
            taken == [t.balance EXCEPT ![from] = @ - value]
            b == [taken EXCEPT ![to] = @ + value]
<1>1. r = [balance |-> b, used |-> t.used]
  BY DEF Move, Holding
<1>2. /\ DOMAIN b = Addresses /\ b = [a \in Addresses |-> b[a]]
      /\ b[from] = t.balance[from] - value /\ b[to] = t.balance[to] + value
      /\ \A a \in Addresses \ {from, to} : b[a] = t.balance[a]
  BY DEF Holding
<1>3. r.balance = b /\ r.used = t.used
  BY <1>1
<1>. DEFINE f == t.balance
<1>4. \A a \in Addresses : f[a] \in Nat
  BY DEF Holding
<1>5. IsFiniteSet(Addresses)
  BY ContractAssumption DEF Addresses
<1>. HIDE DEF r, b, f
<1>6. \A a \in Addresses : b[a] \in Nat
  BY <1>2, <1>4 DEF f
<1>7. SumOver(b, Addresses) = SumOver(f, Addresses)
  <2>1. Moves(f, b, Addresses, to, from, value)
    BY <1>2, <1>4 DEF Moves, f
  <2>. QED BY <1>5, <2>1, SumMoves
<1>8. Holding(r)
  BY <1>1, <1>2, <1>3, <1>6, <1>7 DEF Holding, f
<1>. QED BY <1>2, <1>3, <1>8 DEF r

-----------------------------------------------------------------------------
(* The transaction, one call of the token after the other. *)

\* The token after each pull.
Pulling(g, body) ==
  g = [n \in 0..Len(body.pulls) |->
         IF n = 0 THEN token ELSE ReceiveWithAuthorization(g[n - 1], body.pulls[n])]

\* The token after each payout.
Paying(g, first, body) ==
  g = [n \in 0..Len(body.payouts) |->
         IF n = 0 THEN first ELSE Transfer(g[n - 1], body.payouts[n])]

\* The pulls can be run through.
LEMMA PullsExist ==
  ASSUME NEW body, Len(body.pulls) \in Nat
  PROVE  \E g : Pulling(g, body)
<1>. DEFINE Upto(g, N) == g = [n \in 0..N |->
              IF n = 0 THEN token ELSE ReceiveWithAuthorization(g[n - 1], body.pulls[n])]
            G == {N \in Nat : \E g : Upto(g, N)}
<1>1. 0 \in G
  <2>. DEFINE g == [n \in 0..0 |-> token]
  <2>1. g = [n \in 0..0 |->
               IF n = 0 THEN token ELSE ReceiveWithAuthorization(g[n - 1], body.pulls[n])]
    OBVIOUS
  <2>. HIDE DEF g
  <2>. QED BY <2>1
<1>2. \A N \in G : N + 1 \in G
  <2>. SUFFICES ASSUME NEW N \in G PROVE N + 1 \in G
    OBVIOUS
  <2>1. PICK g : Upto(g, N)
    OBVIOUS
  <2>. DEFINE h == [n \in 0..(N + 1) |->
                      IF n = 0 THEN token ELSE ReceiveWithAuthorization(g[n - 1], body.pulls[n])]
  <2>2. \A n \in 0..N : g[n] =
          IF n = 0 THEN token ELSE ReceiveWithAuthorization(g[n - 1], body.pulls[n])
    BY <2>1
  <2>3. \A n \in 0..N : h[n] = g[n]
    BY <2>2
  <2>4. h = [n \in 0..(N + 1) |->
               IF n = 0 THEN token ELSE ReceiveWithAuthorization(h[n - 1], body.pulls[n])]
    <3>. SUFFICES ASSUME NEW n \in 0..(N + 1)
                  PROVE  h[n] = IF n = 0 THEN token
                                ELSE ReceiveWithAuthorization(h[n - 1], body.pulls[n])
      OBVIOUS
    <3>1. h[n] = IF n = 0 THEN token ELSE ReceiveWithAuthorization(g[n - 1], body.pulls[n])
      OBVIOUS
    <3>. HIDE DEF h
    <3>2. n # 0 => n - 1 \in 0..N
      OBVIOUS
    <3>. QED BY <2>3, <3>1, <3>2
  <2>. HIDE DEF h
  <2>5. \E x : Upto(x, N + 1)
    BY <2>4
  <2>. QED BY <2>5
<1>3. G = Nat
  BY <1>1, <1>2, NatInduct
<1>. QED BY <1>3 DEF Pulling

\* The payouts can be run through.
LEMMA PayoutsExist ==
  ASSUME NEW first, NEW body, Len(body.payouts) \in Nat
  PROVE  \E g : Paying(g, first, body)
<1>. DEFINE Upto(g, N) == g = [n \in 0..N |->
              IF n = 0 THEN first ELSE Transfer(g[n - 1], body.payouts[n])]
            G == {N \in Nat : \E g : Upto(g, N)}
<1>1. 0 \in G
  <2>. DEFINE g == [n \in 0..0 |-> first]
  <2>1. g = [n \in 0..0 |-> IF n = 0 THEN first ELSE Transfer(g[n - 1], body.payouts[n])]
    OBVIOUS
  <2>. HIDE DEF g
  <2>. QED BY <2>1
<1>2. \A N \in G : N + 1 \in G
  <2>. SUFFICES ASSUME NEW N \in G PROVE N + 1 \in G
    OBVIOUS
  <2>1. PICK g : Upto(g, N)
    OBVIOUS
  <2>. DEFINE h == [n \in 0..(N + 1) |->
                      IF n = 0 THEN first ELSE Transfer(g[n - 1], body.payouts[n])]
  <2>2. \A n \in 0..N : g[n] = IF n = 0 THEN first ELSE Transfer(g[n - 1], body.payouts[n])
    BY <2>1
  <2>3. \A n \in 0..N : h[n] = g[n]
    BY <2>2
  <2>4. h = [n \in 0..(N + 1) |-> IF n = 0 THEN first ELSE Transfer(h[n - 1], body.payouts[n])]
    <3>. SUFFICES ASSUME NEW n \in 0..(N + 1)
                  PROVE  h[n] = IF n = 0 THEN first ELSE Transfer(h[n - 1], body.payouts[n])
      OBVIOUS
    <3>1. h[n] = IF n = 0 THEN first ELSE Transfer(g[n - 1], body.payouts[n])
      OBVIOUS
    <3>. HIDE DEF h
    <3>2. n # 0 => n - 1 \in 0..N
      OBVIOUS
    <3>. QED BY <2>3, <3>1, <3>2
  <2>. HIDE DEF h
  <2>5. \E x : Upto(x, N + 1)
    BY <2>4
  <2>. QED BY <2>5
<1>3. G = Nat
  BY <1>1, <1>2, NatInduct
<1>. QED BY <1>3 DEF Paying

\* A transaction that does not revert went through all its calls.
LEMMA OutcomeUnrolls ==
  ASSUME NEW body, Len(body.pulls) \in Nat, Len(body.payouts) \in Nat
  PROVE  \E g, h : /\ Pulling(g, body) /\ Paying(h, g[Len(body.pulls)], body)
                   /\ Outcome(body) =
                        IF /\ WellFormed(body) /\ h[Len(body.payouts)] # Reverted
                           /\ h[Len(body.payouts)].balance[Contract] = token.balance[Contract]
                        THEN h[Len(body.payouts)] ELSE Reverted
<1>. DEFINE g == CHOOSE g : g = [n \in 0..Len(body.pulls) |->
                   IF n = 0 THEN token ELSE ReceiveWithAuthorization(g[n - 1], body.pulls[n])]
            first == g[Len(body.pulls)]
            h == CHOOSE h : h = [n \in 0..Len(body.payouts) |->
                   IF n = 0 THEN first ELSE Transfer(h[n - 1], body.payouts[n])]
            last == h[Len(body.payouts)]
<1>1. Outcome(body) = IF /\ WellFormed(body) /\ last # Reverted
                         /\ last.balance[Contract] = token.balance[Contract]
                      THEN last ELSE Reverted
  BY DEF Outcome
<1>2. Pulling(g, body)
  <2>1. \E x : Pulling(x, body)
    BY PullsExist
  <2>2. g = CHOOSE x : Pulling(x, body)
    BY DEF Pulling
  <2>. HIDE DEF g
  <2>. QED BY <2>1, <2>2
<1>. HIDE DEF g, first
<1>3. Paying(h, first, body)
  <2>1. \E x : Paying(x, first, body)
    BY PayoutsExist
  <2>2. h = CHOOSE x : Paying(x, first, body)
    BY DEF Paying
  <2>. HIDE DEF h
  <2>. QED BY <2>1, <2>2
<1>. HIDE DEF h
<1>. QED BY <1>1, <1>2, <1>3 DEF first


\* What the first n records of a list come to, all of them or those of a key.
Upto(values, n) == SumOver(values, 1..n)

\* What the first n values of one key come to.
UptoOf(values, key, n, a) == SumOver(values, {i \in 1..n : key[i] = a})

\* The first n + 1 values are naturals.
Counted(values, n) == n \in Nat /\ \A i \in 1..(n + 1) : values[i] \in Nat

\* The first zero values come to nothing.
LEMMA UptoZero ==
  ASSUME NEW values, NEW key, NEW a
  PROVE  Upto(values, 0) = 0 /\ UptoOf(values, key, 0, a) = 0
<1>1. 1..0 = {} /\ {i \in 1..0 : key[i] = a} = {}
  OBVIOUS
<1>. QED BY <1>1, SumEmpty DEF Upto, UptoOf

\* One value more.
LEMMA UptoAdds ==
  ASSUME NEW values, NEW n, Counted(values, n)
  PROVE  /\ Upto(values, n) \in Nat
         /\ Upto(values, n + 1) = Upto(values, n) + values[n + 1]
<1>1. n \in Nat /\ \A i \in 1..(n + 1) : values[i] \in Nat
  BY DEF Counted
<1>2. IsFiniteSet(1..n)
  BY <1>1, FS_Interval
<1>3. 1..(n + 1) = (1..n) \cup {n + 1} /\ n + 1 \notin 1..n
  BY <1>1
<1>4. \A i \in 1..n : values[i] \in Nat
  BY <1>1
<1>5. \A i \in (1..n) \cup {n + 1} : values[i] \in Int
  BY <1>1, <1>3
<1>6. SumOver(values, (1..n) \cup {n + 1}) = SumOver(values, 1..n) + values[n + 1]
  <2>. DEFINE S == 1..n
              z == n + 1
  <2>1. IsFiniteSet(S) /\ z \notin S /\ \A i \in S \cup {z} : values[i] \in Int
    BY <1>2, <1>3, <1>5
  <2>. HIDE DEF S, z
  <2>2. SumOver(values, S \cup {z}) = SumOver(values, S) + values[z]
    BY <2>1, SumAdds
  <2>. QED BY <2>2 DEF S, z
<1>. QED BY <1>2, <1>3, <1>4, <1>6, SumNat DEF Upto

\* One value more, or one of another key.
LEMMA UptoOfAdds ==
  ASSUME NEW values, NEW n, Counted(values, n), NEW key, NEW a
  PROVE  /\ UptoOf(values, key, n, a) \in Nat
         /\ UptoOf(values, key, n + 1, a)
              = UptoOf(values, key, n, a) + (IF key[n + 1] = a THEN values[n + 1] ELSE 0)
<1>. DEFINE S == {i \in 1..n : key[i] = a}
            T == {i \in 1..(n + 1) : key[i] = a}
<1>1. n \in Nat /\ \A i \in 1..(n + 1) : values[i] \in Nat
  BY DEF Counted
<1>2. IsFiniteSet(S)
  BY <1>1, FS_Interval, FS_Subset
<1>3. \A i \in S : values[i] \in Nat
  BY <1>1
<1>4. n + 1 \notin S /\ values[n + 1] \in Nat
  BY <1>1
<1>5. T = IF key[n + 1] = a THEN S \cup {n + 1} ELSE S
  BY <1>1
<1>. HIDE DEF S, T
<1>6. SumOver(values, S) \in Nat
  BY <1>2, <1>3, SumNat
<1>7. \A i \in S \cup {n + 1} : values[i] \in Int
  BY <1>3, <1>4
<1>8. SumOver(values, S \cup {n + 1}) = SumOver(values, S) + values[n + 1]
  BY <1>2, <1>4, <1>7, SumAdds
<1>9. SumOver(values, T) = SumOver(values, S) + (IF key[n + 1] = a THEN values[n + 1] ELSE 0)
  BY <1>5, <1>6, <1>8
<1>. QED BY <1>6, <1>9 DEF UptoOf, S, T

-----------------------------------------------------------------------------
\* The values that a body pulls.
PullValues(body) == [i \in DOMAIN body.pulls |-> body.pulls[i].value]

\* The addresses that a body pulls from.
Pullers(body) == [i \in DOMAIN body.pulls |-> body.pulls[i].from]

\* The values that a body pays out.
PayoutValues(body) == [i \in DOMAIN body.payouts |-> body.payouts[i].value]

\* The addresses that a body pays.
Payees(body) == [i \in DOMAIN body.payouts |-> body.payouts[i].creditor]

\* The token after the first n pulls, and from there after the first n payouts.
Pulled(t, body, n) ==
  /\ Holding(t)
  /\ \A a \in Addresses \ {Contract} :
       t.balance[a] = token.balance[a] - UptoOf(PullValues(body), Pullers(body), n, a)
  /\ t.balance[Contract] = token.balance[Contract] + Upto(PullValues(body), n)
  /\ t.used = token.used \cup {<<body.pulls[i].from, body.pulls[i].nonce>> : i \in 1..n}
  /\ \A i \in 1..n : now < body.pulls[i].validBefore

\* The token after the first n payouts.
PaidOut(t, first, body, n) ==
  /\ Holding(t)
  /\ \A a \in Addresses \ {Contract} :
       t.balance[a] = first.balance[a] + UptoOf(PayoutValues(body), Payees(body), n, a)
  /\ t.balance[Contract] = first.balance[Contract] - Upto(PayoutValues(body), n)

\* What the token asks of a pull.
Pullable(t, p) ==
  /\ p.to = Contract
  /\ p.validAfter < now /\ now < p.validBefore
  /\ <<p.from, p.nonce>> \notin t.used
  /\ SignedBy(p.auth, p.from,
       ReceiveAuthorization(p.from, p.to, p.value, p.validAfter, p.validBefore, p.nonce))
  /\ t.balance[p.from] >= p.value

\* A pull is made when the token allows it and reverts when not.
LEMMA PullStep ==
  ASSUME Holding(token), NEW body, Submitted(body), NEW n \in Nat, n + 1 \in DOMAIN body.pulls,
         NEW t, Pulled(t, body, n)
  PROVE  LET p == body.pulls[n + 1]
             r == ReceiveWithAuthorization(t, p)
         IN  /\ Pullable(t, p) => Pulled(r, body, n + 1)
             /\ ~Pullable(t, p) => r = Reverted
<1>. DEFINE p == body.pulls[n + 1]
            r == ReceiveWithAuthorization(t, p)
            v == PullValues(body)
            key == Pullers(body)
            u == [balance |-> t.balance, used |-> t.used \cup {<<p.from, p.nonce>>}]
<1>1. Holding(t) /\ t # Reverted
  BY HoldingNotReverted DEF Pulled
<1>2. ~Pullable(t, p) => r = Reverted
  BY DEF ReceiveWithAuthorization, Pullable
<1>3. ASSUME Pullable(t, p) PROVE Pulled(r, body, n + 1)
  <2>1. [t EXCEPT !.used = @ \cup {<<p.from, p.nonce>>}] = u
    <3>1. t = [balance |-> t.balance, used |-> t.used]
      BY <1>1 DEF Holding
    <3>. QED BY <3>1
  <2>2. r = Move(u, p.from, Contract, p.value)
    BY <1>1, <1>3, <2>1 DEF ReceiveWithAuthorization, Pullable
  <2>3. /\ p.from \in Addresses \ {Contract} /\ p.value \in Nat /\ Contract \in Addresses
        /\ t.balance[p.from] >= p.value
    BY <1>3, ContractAssumption DEF Submitted, Pullable, Addresses
  <2>4. u.balance = t.balance /\ u.used = t.used \cup {<<p.from, p.nonce>>}
    OBVIOUS
  <2>5. Holding(u)
    BY <1>1 DEF Holding
  <2>6. v[n + 1] = p.value /\ key[n + 1] = p.from /\ Counted(v, n)
    BY DEF PullValues, Pullers, Submitted, Counted
  <2>7. {<<body.pulls[i].from, body.pulls[i].nonce>> : i \in 1..(n + 1)}
          = {<<body.pulls[i].from, body.pulls[i].nonce>> : i \in 1..n} \cup {<<p.from, p.nonce>>}
    <3>1. 1..(n + 1) = (1..n) \cup {n + 1}
      OBVIOUS
    <3>. QED BY <3>1
  <2>. HIDE DEF p, r, v, key, u
  <2>8. /\ Holding(r) /\ r.used = u.used
        /\ r.balance[p.from] = u.balance[p.from] - p.value
        /\ r.balance[Contract] = u.balance[Contract] + p.value
        /\ \A a \in Addresses \ {p.from, Contract} : r.balance[a] = u.balance[a]
    BY <2>2, <2>3, <2>4, <2>5, MoveHolds
  <2>9. \A a : /\ UptoOf(v, key, n, a) \in Nat
               /\ UptoOf(v, key, n + 1, a)
                    = UptoOf(v, key, n, a) + (IF key[n + 1] = a THEN v[n + 1] ELSE 0)
    BY <2>6, UptoOfAdds
  <2>10. Upto(v, n) \in Nat /\ Upto(v, n + 1) = Upto(v, n) + v[n + 1]
    BY <2>6, UptoAdds
  <2>11. \A a \in Addresses : token.balance[a] \in Nat
    BY DEF Holding
  <2>12. /\ \A a \in Addresses \ {Contract} : t.balance[a] = token.balance[a] - UptoOf(v, key, n, a)
         /\ t.balance[Contract] = token.balance[Contract] + Upto(v, n)
         /\ t.used = token.used \cup {<<body.pulls[i].from, body.pulls[i].nonce>> : i \in 1..n}
    BY DEF Pulled, v, key
  <2>13. ASSUME NEW a \in Addresses \ {Contract}
         PROVE  r.balance[a] = token.balance[a] - UptoOf(v, key, n + 1, a)
    BY <2>3, <2>4, <2>6, <2>8, <2>9, <2>11, <2>12
  <2>14. r.balance[Contract] = token.balance[Contract] + Upto(v, n + 1)
    BY <2>3, <2>4, <2>6, <2>8, <2>10, <2>11, <2>12
  <2>15. r.used = token.used \cup {<<body.pulls[i].from, body.pulls[i].nonce>> : i \in 1..(n + 1)}
    BY <2>4, <2>7, <2>8, <2>12
  <2>16. \A i \in 1..(n + 1) : now < body.pulls[i].validBefore
    <3>1. \A i \in 1..n : now < body.pulls[i].validBefore
      BY DEF Pulled
    <3>2. now < body.pulls[n + 1].validBefore
      BY <1>3 DEF Pullable, p
    <3>. QED BY <3>1, <3>2
  <2>. QED BY <2>8, <2>13, <2>14, <2>15, <2>16 DEF Pulled, v, key
<1>. QED BY <1>2, <1>3

\* A payout is made while the contract holds its value.
LEMMA PayoutStep ==
  ASSUME NEW first, Holding(first), NEW body, Submitted(body), NEW n \in Nat,
         n + 1 \in DOMAIN body.payouts, NEW t, PaidOut(t, first, body, n)
  PROVE  LET p == body.payouts[n + 1]
             r == Transfer(t, p)
         IN  /\ t.balance[Contract] >= p.value => PaidOut(r, first, body, n + 1)
             /\ ~(t.balance[Contract] >= p.value) => r = Reverted
<1>. DEFINE p == body.payouts[n + 1]
            r == Transfer(t, p)
            v == PayoutValues(body)
            key == Payees(body)
<1>1. Holding(t) /\ t # Reverted
  BY HoldingNotReverted DEF PaidOut
<1>2. ~(t.balance[Contract] >= p.value) => r = Reverted
  BY DEF Transfer
<1>3. ASSUME t.balance[Contract] >= p.value PROVE PaidOut(r, first, body, n + 1)
  <2>2. r = Move(t, Contract, p.creditor, p.value)
    BY <1>1, <1>3 DEF Transfer
  <2>3. /\ p.creditor \in Addresses \ {Contract} /\ p.value \in Nat /\ Contract \in Addresses
    BY ContractAssumption DEF Submitted, Addresses
  <2>6. v[n + 1] = p.value /\ key[n + 1] = p.creditor /\ Counted(v, n)
    BY DEF PayoutValues, Payees, Submitted, Counted
  <2>. HIDE DEF p, r, v, key
  <2>8. /\ Holding(r)
        /\ r.balance[Contract] = t.balance[Contract] - p.value
        /\ r.balance[p.creditor] = t.balance[p.creditor] + p.value
        /\ \A a \in Addresses \ {Contract, p.creditor} : r.balance[a] = t.balance[a]
    BY <1>1, <1>3, <2>2, <2>3, MoveHolds
  <2>9. \A a : /\ UptoOf(v, key, n, a) \in Nat
               /\ UptoOf(v, key, n + 1, a)
                    = UptoOf(v, key, n, a) + (IF key[n + 1] = a THEN v[n + 1] ELSE 0)
    BY <2>6, UptoOfAdds
  <2>10. Upto(v, n) \in Nat /\ Upto(v, n + 1) = Upto(v, n) + v[n + 1]
    BY <2>6, UptoAdds
  <2>11. \A a \in Addresses : first.balance[a] \in Nat
    BY DEF Holding
  <2>12. /\ \A a \in Addresses \ {Contract} : t.balance[a] = first.balance[a] + UptoOf(v, key, n, a)
         /\ t.balance[Contract] = first.balance[Contract] - Upto(v, n)
    BY DEF PaidOut, v, key
  <2>13. ASSUME NEW a \in Addresses \ {Contract}
         PROVE  r.balance[a] = first.balance[a] + UptoOf(v, key, n + 1, a)
    BY <2>3, <2>6, <2>8, <2>9, <2>11, <2>12
  <2>14. r.balance[Contract] = first.balance[Contract] - Upto(v, n + 1)
    BY <2>3, <2>6, <2>8, <2>10, <2>11, <2>12
  <2>. QED BY <2>8, <2>13, <2>14 DEF PaidOut, v, key
<1>. QED BY <1>2, <1>3

\* Before the first pull.
LEMMA NothingPulled ==
  ASSUME Holding(token), NEW body, Submitted(body)
  PROVE  Pulled(token, body, 0)
<1>1. \A a : UptoOf(PullValues(body), Pullers(body), 0, a) = 0 /\ Upto(PullValues(body), 0) = 0
  BY UptoZero
<1>2. \A a \in Addresses : token.balance[a] \in Int
  BY DEF Holding
<1>3. {<<body.pulls[i].from, body.pulls[i].nonce>> : i \in 1..0} = {}
  OBVIOUS
<1>4. Contract \in Addresses
  BY ContractAssumption DEF Addresses
<1>. QED BY <1>1, <1>2, <1>3, <1>4 DEF Pulled

\* Before the first payout.
LEMMA NothingPaid ==
  ASSUME NEW t, Holding(t), NEW body, Submitted(body)
  PROVE  PaidOut(t, t, body, 0)
<1>1. \A a : UptoOf(PayoutValues(body), Payees(body), 0, a) = 0 /\ Upto(PayoutValues(body), 0) = 0
  BY UptoZero
<1>2. \A a \in Addresses : t.balance[a] \in Int
  BY DEF Holding
<1>4. Contract \in Addresses
  BY ContractAssumption DEF Addresses
<1>. QED BY <1>1, <1>2, <1>4 DEF PaidOut

\* What is left of the pulls and payouts was made by all of them.
LEMMA AfterPulls ==
  ASSUME Holding(token), NEW body, Submitted(body), NEW g, Pulling(g, body)
  PROVE  \A n \in 0..Len(body.pulls) : g[n] = Reverted \/ Pulled(g[n], body, n)
<1>. DEFINE N == Len(body.pulls)
            G == {n \in Nat : n \in 0..N => g[n] = Reverted \/ Pulled(g[n], body, n)}
<1>1. N \in Nat
  BY DEF Submitted
<1>2. \A n \in 0..N : g[n] = IF n = 0 THEN token
                             ELSE ReceiveWithAuthorization(g[n - 1], body.pulls[n])
  BY DEF Pulling
<1>3. 0 \in G
  <2>1. g[0] = token
    BY <1>1, <1>2
  <2>. QED BY <2>1, NothingPulled
<1>4. \A n \in G : n + 1 \in G
  <2>. SUFFICES ASSUME NEW n \in G, n + 1 \in 0..N
                PROVE  g[n + 1] = Reverted \/ Pulled(g[n + 1], body, n + 1)
    BY <1>1
  <2>1. n \in Nat /\ n \in 0..N /\ n + 1 # 0 /\ n + 1 - 1 = n /\ n + 1 \in 1..N
    BY <1>1
  <2>2. g[n + 1] = ReceiveWithAuthorization(g[n], body.pulls[n + 1])
    BY <1>2, <2>1
  <2>3. n + 1 \in DOMAIN body.pulls
    BY <2>1 DEF Submitted
  <2>4. g[n] = Reverted \/ Pulled(g[n], body, n)
    BY <2>1
  <2>. HIDE DEF N, G
  <2>5. CASE g[n] = Reverted
    BY <2>2, <2>5 DEF ReceiveWithAuthorization
  <2>6. CASE Pulled(g[n], body, n)
    BY <2>1, <2>2, <2>3, <2>6, PullStep
  <2>. QED BY <2>4, <2>5, <2>6
<1>5. G = Nat
  <2>1. G \in SUBSET Nat
    OBVIOUS
  <2>. HIDE DEF G
  <2>. QED BY <1>3, <1>4, <2>1, NatInduct
<1>. QED BY <1>1, <1>5

\* What is left of the payouts was made by all of them.
LEMMA AfterPayouts ==
  ASSUME NEW first, first = Reverted \/ Holding(first), NEW body, Submitted(body),
         NEW h, Paying(h, first, body)
  PROVE  \A n \in 0..Len(body.payouts) :
           h[n] = Reverted \/ (first # Reverted /\ PaidOut(h[n], first, body, n))
<1>. DEFINE N == Len(body.payouts)
            P(n) == h[n] = Reverted \/ (first # Reverted /\ PaidOut(h[n], first, body, n))
            G == {n \in Nat : n \in 0..N => P(n)}
<1>1. N \in Nat
  BY DEF Submitted
<1>2. \A n \in 0..N : h[n] = IF n = 0 THEN first ELSE Transfer(h[n - 1], body.payouts[n])
  BY DEF Paying
<1>3. 0 \in G
  <2>1. h[0] = first
    BY <1>1, <1>2
  <2>2. first # Reverted => PaidOut(first, first, body, 0)
    BY NothingPaid
  <2>. QED BY <2>1, <2>2
<1>4. \A n \in G : n + 1 \in G
  <2>. SUFFICES ASSUME NEW n \in G, n + 1 \in 0..N
                PROVE  P(n + 1)
    BY <1>1
  <2>1. n \in Nat /\ n \in 0..N /\ n + 1 # 0 /\ n + 1 - 1 = n /\ n + 1 \in 1..N
    BY <1>1
  <2>2. h[n + 1] = Transfer(h[n], body.payouts[n + 1])
    BY <1>2, <2>1
  <2>3. n + 1 \in DOMAIN body.payouts
    BY <2>1 DEF Submitted
  <2>4. h[n] = Reverted \/ (first # Reverted /\ PaidOut(h[n], first, body, n))
    BY <2>1
  <2>. HIDE DEF N, G
  <2>5. CASE h[n] = Reverted
    BY <2>2, <2>5 DEF Transfer
  <2>6. CASE first # Reverted /\ PaidOut(h[n], first, body, n)
    BY <2>1, <2>2, <2>3, <2>6, PayoutStep
  <2>. QED BY <2>4, <2>5, <2>6
<1>5. G = Nat
  <2>1. G \in SUBSET Nat
    OBVIOUS
  <2>. HIDE DEF G
  <2>. QED BY <1>3, <1>4, <2>1, NatInduct
<1>. QED BY <1>1, <1>5


\* What a body pulls from an address.
Drawn(body, a) ==
  SumOver(PullValues(body), {i \in DOMAIN body.pulls : Pullers(body)[i] = a})

\* What a body pays an address.
Received(body, a) ==
  SumOver(PayoutValues(body), {i \in DOMAIN body.payouts : Payees(body)[i] = a})

\* A transaction of the contract that does not revert moves every pull and
\* every payout of its body and nothing else, within the time of every
\* signature, and leaves the contract with what it had:
\* FinalTabBatchSettlementV2 executeSettlement.
THEOREM OutcomeMoves ==
  ASSUME Holding(token), NEW body, Submitted(body), Outcome(body) # Reverted
  PROVE  LET after == Outcome(body)
         IN  /\ WellFormed(body) /\ Holding(after)
             /\ \A a \in Addresses \ {Contract} :
                  after.balance[a] = token.balance[a] - Drawn(body, a) + Received(body, a)
             /\ after.balance[Contract] = token.balance[Contract]
             /\ \A i \in DOMAIN body.pulls : now < body.pulls[i].validBefore
<1>1. /\ Len(body.pulls) \in Nat /\ DOMAIN body.pulls = 1..Len(body.pulls)
      /\ Len(body.payouts) \in Nat /\ DOMAIN body.payouts = 1..Len(body.payouts)
  BY DEF Submitted
<1>2. PICK g, h : /\ Pulling(g, body) /\ Paying(h, g[Len(body.pulls)], body)
                  /\ Outcome(body) =
                       IF /\ WellFormed(body) /\ h[Len(body.payouts)] # Reverted
                          /\ h[Len(body.payouts)].balance[Contract] = token.balance[Contract]
                       THEN h[Len(body.payouts)] ELSE Reverted
  BY <1>1, OutcomeUnrolls
<1>. DEFINE N == Len(body.pulls)
            M == Len(body.payouts)
            first == g[N]
            last == h[M]
<1>3. /\ WellFormed(body) /\ last # Reverted /\ Outcome(body) = last
      /\ last.balance[Contract] = token.balance[Contract]
  BY <1>2
<1>4. N \in 0..N /\ M \in 0..M
  BY <1>1
<1>5. first = Reverted \/ Pulled(first, body, N)
  BY <1>2, <1>4, AfterPulls
<1>6. first # Reverted /\ PaidOut(last, first, body, M)
  <2>1. first = Reverted \/ Holding(first)
    BY <1>5 DEF Pulled
  <2>2. Paying(h, first, body)
    BY <1>2
  <2>. HIDE DEF first
  <2>. QED BY <1>3, <1>4, <2>1, <2>2, AfterPayouts
<1>. HIDE DEF first, last
<1>7. Pulled(first, body, N)
  BY <1>5, <1>6
<1>8. \A a : /\ UptoOf(PullValues(body), Pullers(body), N, a) = Drawn(body, a)
             /\ UptoOf(PayoutValues(body), Payees(body), M, a) = Received(body, a)
  BY <1>1 DEF UptoOf, Drawn, Received
<1>9. ASSUME NEW a \in Addresses \ {Contract}
      PROVE  last.balance[a] = token.balance[a] - Drawn(body, a) + Received(body, a)
  <2>1. first.balance[a] = token.balance[a] - Drawn(body, a)
    BY <1>7, <1>8 DEF Pulled
  <2>2. last.balance[a] = first.balance[a] + Received(body, a)
    BY <1>6, <1>8 DEF PaidOut
  <2>. QED BY <2>1, <2>2
<1>10. \A i \in DOMAIN body.pulls : now < body.pulls[i].validBefore
  BY <1>1, <1>7 DEF Pulled
<1>11. Holding(last)
  BY <1>6 DEF PaidOut
<1>. QED BY <1>3, <1>9, <1>10, <1>11

\* The first values come to no more than all of them.
LEMMA UptoAll ==
  ASSUME NEW values, NEW M \in Nat, \A i \in 1..M : values[i] \in Nat, NEW n \in 0..M
  PROVE  /\ Upto(values, n) \in Nat /\ Upto(values, M) \in Nat
         /\ Upto(values, n) <= Upto(values, M)
<1>. DEFINE S == 1..n
            T == (n + 1)..M
<1>1. IsFiniteSet(S) /\ IsFiniteSet(T)
  BY FS_Interval
<1>2. S \cup T = 1..M /\ S \cap T = {}
  OBVIOUS
<1>3. \A i \in S : values[i] \in Nat
  OBVIOUS
<1>4. \A i \in T : values[i] \in Nat
  OBVIOUS
<1>5. \A i \in S \cup T : values[i] \in Int
  BY <1>3, <1>4
<1>. HIDE DEF S, T
<1>6. SumOver(values, S \cup T) = SumOver(values, S) + SumOver(values, T)
  BY <1>1, <1>2, <1>5, SumUnion
<1>7. SumOver(values, S) \in Nat /\ SumOver(values, T) \in Nat
  BY <1>1, <1>3, <1>4, SumNat
<1>8. SumOver(values, 1..M) = SumOver(values, S) + SumOver(values, T)
  BY <1>2, <1>6
<1>. QED BY <1>7, <1>8 DEF Upto, S

\* What the token asks of every pull before the first one is made.
Coverable(body) ==
  \A i \in DOMAIN body.pulls :
    LET p == body.pulls[i]
    IN  /\ p.validAfter < now /\ now < p.validBefore
        /\ <<p.from, p.nonce>> \notin token.used
        /\ SignedBy(p.auth, p.from,
             ReceiveAuthorization(p.from, p.to, p.value, p.validAfter, p.validBefore, p.nonce))
        /\ token.balance[p.from] >= p.value

\* A well-formed body executes when the token takes each of its pulls by
\* itself: no order of the calls and no balance in between can stop it.
THEOREM OutcomeSucceeds ==
  ASSUME Holding(token), NEW body, Submitted(body), WellFormed(body), Coverable(body)
  PROVE  Outcome(body) # Reverted
<1>1. /\ Len(body.pulls) \in Nat /\ DOMAIN body.pulls = 1..Len(body.pulls)
      /\ Len(body.payouts) \in Nat /\ DOMAIN body.payouts = 1..Len(body.payouts)
  BY DEF Submitted
<1>2. PICK g, h : /\ Pulling(g, body) /\ Paying(h, g[Len(body.pulls)], body)
                  /\ Outcome(body) =
                       IF /\ WellFormed(body) /\ h[Len(body.payouts)] # Reverted
                          /\ h[Len(body.payouts)].balance[Contract] = token.balance[Contract]
                       THEN h[Len(body.payouts)] ELSE Reverted
  BY <1>1, OutcomeUnrolls
<1>. DEFINE N == Len(body.pulls)
            M == Len(body.payouts)
            v == PullValues(body)
            key == Pullers(body)
            w == PayoutValues(body)
            first == g[N]
<1>3. /\ N \in Nat /\ M \in Nat
      /\ \A i \in 1..N : v[i] \in Nat /\ v[i] = body.pulls[i].value /\ key[i] = body.pulls[i].from
      /\ \A i \in 1..M : w[i] \in Nat /\ w[i] = body.payouts[i].value
  BY <1>1 DEF Submitted, PullValues, Pullers, PayoutValues
<1>4. \A i, j \in 1..N : body.pulls[i].from = body.pulls[j].from => i = j
  <2>. DEFINE s == [i \in DOMAIN body.pulls |-> body.pulls[i].from]
  <2>1. StrictlyAscending(s) /\ DOMAIN s = 1..N /\ \A i \in 1..N : s[i] = body.pulls[i].from
    BY <1>1 DEF WellFormed
  <2>2. ASSUME NEW i \in 1..N, NEW j \in 1..N, i < j PROVE s[i] # s[j]
    <3>1. s[i] < s[j]
      BY <2>1, <2>2 DEF StrictlyAscending
    <3>2. s[i] \in Nat /\ s[j] \in Nat
      BY <1>1, ContractAssumption DEF Submitted, Addresses
    <3>. HIDE DEF s
    <3>. QED BY <3>1, <3>2
  <2>. HIDE DEF s
  <2>. QED BY <1>1, <2>1, <2>2
<1>5. \A n \in 0..N : n < N => ~(\E i \in 1..n : body.pulls[i].from = body.pulls[n + 1].from)
  <2>. SUFFICES ASSUME NEW n \in 0..N, n < N, NEW i \in 1..n,
                       body.pulls[i].from = body.pulls[n + 1].from
                PROVE  FALSE
    OBVIOUS
  <2>1. i \in 1..N /\ n + 1 \in 1..N /\ i # n + 1
    BY <1>3
  <2>. QED BY <1>4, <2>1
<1>6. ASSUME NEW n \in 0..N, n < N, NEW t, Pulled(t, body, n)
      PROVE  Pullable(t, body.pulls[n + 1])
  <2>. DEFINE p == body.pulls[n + 1]
  <2>1. n + 1 \in DOMAIN body.pulls /\ n \in Nat
    BY <1>1, <1>6
  <2>2. p.to = Contract
    BY <2>1 DEF WellFormed, PullAllowed
  <2>3. /\ p.validAfter < now /\ now < p.validBefore /\ <<p.from, p.nonce>> \notin token.used
        /\ SignedBy(p.auth, p.from,
             ReceiveAuthorization(p.from, p.to, p.value, p.validAfter, p.validBefore, p.nonce))
        /\ token.balance[p.from] >= p.value
    BY <2>1 DEF Coverable
  <2>4. \A i \in 1..n : body.pulls[i].from # p.from
    BY <1>5, <1>6
  <2>5. <<p.from, p.nonce>> \notin t.used
    BY <1>6, <2>3, <2>4 DEF Pulled
  <2>6. UptoOf(v, key, n, p.from) = 0
    <3>1. {i \in 1..n : key[i] = p.from} = {}
      BY <1>3, <2>1, <2>4, <1>1
    <3>. QED BY <3>1, SumEmpty DEF UptoOf
  <2>7. p.from \in Addresses \ {Contract}
    BY <2>1 DEF Submitted
  <2>8. t.balance[p.from] = token.balance[p.from]
    <3>1. token.balance[p.from] \in Int
      BY <2>7 DEF Holding
    <3>. QED BY <1>6, <2>6, <2>7, <3>1 DEF Pulled
  <2>. QED BY <2>2, <2>3, <2>5, <2>8 DEF Pullable
<1>7. Pulled(first, body, N)
  <2>. DEFINE G == {n \in Nat : n \in 0..N => Pulled(g[n], body, n)}
  <2>1. \A n \in 0..N : g[n] = IF n = 0 THEN token
                               ELSE ReceiveWithAuthorization(g[n - 1], body.pulls[n])
    BY <1>2 DEF Pulling
  <2>2. 0 \in G
    <3>1. g[0] = token
      BY <1>3, <2>1
    <3>. QED BY <3>1, NothingPulled
  <2>3. \A n \in G : n + 1 \in G
    <3>. SUFFICES ASSUME NEW n \in G, n + 1 \in 0..N PROVE Pulled(g[n + 1], body, n + 1)
      <4>1. \A n \in G : n \in Nat
        OBVIOUS
      <4>. HIDE DEF first, v, w, key
      <4>. QED BY <4>1
    <3>1. n \in Nat /\ n \in 0..N /\ n < N /\ n + 1 # 0 /\ n + 1 - 1 = n /\ n + 1 \in 1..N
      BY <1>3
    <3>2. g[n + 1] = ReceiveWithAuthorization(g[n], body.pulls[n + 1])
      BY <2>1, <3>1
    <3>3. Pulled(g[n], body, n) /\ n + 1 \in DOMAIN body.pulls
      BY <1>1, <3>1
    <3>4. Pullable(g[n], body.pulls[n + 1])
      BY <1>6, <3>1, <3>3
    <3>. QED BY <3>1, <3>2, <3>3, <3>4, PullStep
  <2>4. G = Nat
    <3>1. G \in SUBSET Nat
      OBVIOUS
    <3>. HIDE DEF G
    <3>. QED BY <2>2, <2>3, <3>1, NatInduct
  <2>. QED BY <1>3, <2>4
<1>8. /\ Holding(first) /\ token.balance[Contract] \in Nat
      /\ first.balance[Contract] = token.balance[Contract] + Upto(v, N)
  BY <1>7, ContractAssumption DEF Pulled, Holding, Addresses
<1>9. Upto(v, N) = Upto(w, M)
  BY <1>1 DEF WellFormed, Total, SumSeq, Upto, PullValues, PayoutValues
<1>10. \A n \in 0..M : Upto(w, n) \in Nat /\ Upto(w, M) \in Nat /\ Upto(w, n) <= Upto(w, M)
  BY <1>3, UptoAll
<1>. HIDE DEF first, v, w, key
<1>11. ASSUME NEW n \in 0..M, n < M, NEW t, PaidOut(t, first, body, n)
       PROVE  t.balance[Contract] >= body.payouts[n + 1].value
  <2>1. t.balance[Contract] = first.balance[Contract] - Upto(w, n)
    BY <1>11 DEF PaidOut, w
  <2>2. Upto(w, n + 1) = Upto(w, n) + w[n + 1]
    <3>1. Counted(w, n)
      BY <1>3, <1>11 DEF Counted
    <3>. QED BY <3>1, UptoAdds
  <2>3. n + 1 \in 0..M /\ n + 1 \in 1..M
    BY <1>3, <1>11
  <2>4. w[n + 1] = body.payouts[n + 1].value /\ w[n + 1] \in Nat
    BY <1>3, <2>3
  <2>5. Upto(w, n + 1) <= Upto(w, M) /\ Upto(w, n) \in Nat /\ Upto(w, M) \in Nat
    BY <1>10, <2>3
  <2>6. first.balance[Contract] = token.balance[Contract] + Upto(w, M)
    BY <1>8, <1>9
  <2>. HIDE DEF M
  <2>. QED BY <1>8, <2>1, <2>2, <2>4, <2>5, <2>6
<1>12. PaidOut(h[M], first, body, M)
  <2>. DEFINE G == {n \in Nat : n \in 0..M => PaidOut(h[n], first, body, n)}
  <2>1. \A n \in 0..M : h[n] = IF n = 0 THEN first ELSE Transfer(h[n - 1], body.payouts[n])
    BY <1>2 DEF Paying, first
  <2>2. 0 \in G
    <3>1. h[0] = first
      BY <1>3, <2>1
    <3>. QED BY <1>8, <3>1, NothingPaid
  <2>3. \A n \in G : n + 1 \in G
    <3>. SUFFICES ASSUME NEW n \in G, n + 1 \in 0..M PROVE PaidOut(h[n + 1], first, body, n + 1)
      <4>1. \A n \in G : n \in Nat
        OBVIOUS
      <4>. HIDE DEF first, v, w, key
      <4>. QED BY <4>1
    <3>1. n \in Nat /\ n \in 0..M /\ n < M /\ n + 1 # 0 /\ n + 1 - 1 = n /\ n + 1 \in 1..M
      BY <1>3
    <3>2. h[n + 1] = Transfer(h[n], body.payouts[n + 1])
      BY <2>1, <3>1
    <3>3. PaidOut(h[n], first, body, n) /\ n + 1 \in DOMAIN body.payouts
      BY <1>1, <3>1
    <3>4. h[n].balance[Contract] >= body.payouts[n + 1].value
      BY <1>11, <3>1, <3>3
    <3>. QED BY <1>8, <3>1, <3>2, <3>3, <3>4, PayoutStep
  <2>4. G = Nat
    <3>1. G \in SUBSET Nat
      OBVIOUS
    <3>. HIDE DEF G
    <3>. QED BY <2>2, <2>3, <3>1, NatInduct
  <2>. QED BY <1>3, <2>4
<1>13. h[M] # Reverted
  BY <1>12, HoldingNotReverted DEF PaidOut
<1>14. h[M].balance[Contract] = token.balance[Contract]
  <2>1. h[M].balance[Contract] = first.balance[Contract] - Upto(w, M)
    BY <1>12 DEF PaidOut, w
  <2>2. Upto(w, M) \in Nat
    BY <1>3, <1>10
  <2>. HIDE DEF M
  <2>. QED BY <1>8, <1>9, <2>1, <2>2
<1>. QED BY <1>2, <1>13, <1>14


\* A frozen plan signed by its debtors: what the body draws and hands out is what
\* the transfers behind the plan say.
Signs(body, transfers, hash, until) ==
  LET ends == AggregateSettlementTransfers(transfers)
      plan == HashSettlementPlan(hash, ends.debits, ends.payouts)
  IN  /\ body.id = plan /\ body.ledgerHash = hash /\ body.payouts = ends.payouts
      /\ body.pulls = [i \in DOMAIN ends.debits |->
                         SignDebit(plan, ends.debits[i], Contract, until[i])]

\* Transfers between addresses other than the contract.
OnChain(transfers) ==
  /\ transfers \in Seq(Transfer3)
  /\ \A i \in DOMAIN transfers : /\ transfers[i].from \in Addresses \ {Contract}
                                 /\ transfers[i].to \in Addresses \ {Contract}

\* What the body of signed transfers draws and hands out.
LEMMA SignedBody ==
  ASSUME NEW transfers, OnChain(transfers), NEW hash, NEW until, NEW body,
         Signs(body, transfers, hash, until)
  PROVE  LET ends == AggregateSettlementTransfers(transfers)
         IN  /\ Submitted(body)
             /\ DOMAIN body.pulls = DOMAIN ends.debits
             /\ \A i \in DOMAIN body.pulls :
                  /\ body.pulls[i] = SignDebit(body.id, ends.debits[i], Contract, until[i])
                  /\ body.pulls[i].from = ends.debits[i].debtor
                  /\ body.pulls[i].value = ends.debits[i].value
             /\ \A a : Drawn(body, a) = From(transfers, a)
             /\ \A a : Received(body, a) = To(transfers, a)
             /\ body.id = ComputePlanHash(body)
<1>. DEFINE ends == AggregateSettlementTransfers(transfers)
            plan == HashSettlementPlan(hash, ends.debits, ends.payouts)
            froms == {transfers[i].from : i \in DOMAIN transfers}
            tos == {transfers[i].to : i \in DOMAIN transfers}
            debits == ends.debits
            payouts == ends.payouts
<1>1. transfers \in Seq(Transfer3)
  BY DEF OnChain
<1>2. /\ debits \in Seq([debtor : froms, value : Nat])
      /\ payouts \in Seq([creditor : tos, value : Nat])
      /\ \A a : Debited(debits, a) = From(transfers, a)
      /\ \A a : Paid(payouts, a) = To(transfers, a)
  BY <1>1, AggregatesTransfers
<1>3. froms \subseteq Addresses \ {Contract} /\ tos \subseteq Addresses \ {Contract}
  BY DEF OnChain
<1>4. /\ body.id = plan /\ body.ledgerHash = hash /\ body.payouts = payouts
      /\ body.pulls = [i \in DOMAIN debits |-> SignDebit(plan, debits[i], Contract, until[i])]
  BY DEF Signs
<1>14. plan = HashSettlementPlan(hash, debits, payouts)
  OBVIOUS
<1>. HIDE DEF ends, froms, tos, debits, payouts, plan
<1>5. /\ Len(debits) \in Nat /\ DOMAIN debits = 1..Len(debits)
      /\ Len(payouts) \in Nat /\ DOMAIN payouts = 1..Len(payouts)
      /\ debits = [i \in DOMAIN debits |-> debits[i]]
      /\ payouts = [i \in DOMAIN payouts |-> payouts[i]]
  BY <1>2
<1>6. /\ \A i \in DOMAIN debits : debits[i] \in [debtor : froms, value : Nat]
      /\ \A i \in DOMAIN payouts : payouts[i] \in [creditor : tos, value : Nat]
  BY <1>2, SeqElement
<1>7. /\ DOMAIN body.pulls = DOMAIN debits
      /\ \A i \in DOMAIN body.pulls :
           body.pulls[i] = SignDebit(plan, debits[i], Contract, until[i])
  BY <1>4
<1>8. Len(body.pulls) = Len(debits)
  BY <1>4, <1>5
<1>9. \A i \in DOMAIN body.pulls :
        body.pulls[i].from = debits[i].debtor /\ body.pulls[i].value = debits[i].value
  <2>1. \A d, u : SignDebit(plan, d, Contract, u).from = d.debtor
                  /\ SignDebit(plan, d, Contract, u).value = d.value
    BY DEF SignDebit
  <2>. QED BY <1>7, <2>1
<1>10. Submitted(body)
  <2>1. \A i \in DOMAIN body.pulls :
          body.pulls[i].from \in Addresses \ {Contract} /\ body.pulls[i].value \in Nat
    BY <1>3, <1>6, <1>7, <1>9
  <2>2. \A i \in DOMAIN body.payouts :
          body.payouts[i].creditor \in Addresses \ {Contract} /\ body.payouts[i].value \in Nat
    BY <1>3, <1>4, <1>6
  <2>. QED BY <1>4, <1>5, <1>7, <1>8, <2>1, <2>2 DEF Submitted
<1>11. ASSUME NEW a PROVE Drawn(body, a) = From(transfers, a)
  <2>1. PullValues(body) = Values(debits)
    BY <1>7, <1>9 DEF PullValues, Values
  <2>2. {i \in DOMAIN body.pulls : Pullers(body)[i] = a} = {i \in DOMAIN debits : debits[i].debtor = a}
    BY <1>7, <1>9 DEF Pullers
  <2>. QED BY <1>2, <2>1, <2>2 DEF Drawn, Debited
<1>12. ASSUME NEW a PROVE Received(body, a) = To(transfers, a)
  <2>1. PayoutValues(body) = Values(payouts)
    BY <1>4 DEF PayoutValues, Values
  <2>2. {i \in DOMAIN body.payouts : Payees(body)[i] = a} = {i \in DOMAIN payouts : payouts[i].creditor = a}
    BY <1>4 DEF Payees
  <2>. QED BY <1>2, <2>1, <2>2 DEF Received, Paid
<1>13. body.id = ComputePlanHash(body)
  <2>1. [i \in DOMAIN body.pulls |-> [debtor |-> body.pulls[i].from, value |-> body.pulls[i].value]]
          = debits
    <3>1. \A i \in DOMAIN debits : [debtor |-> debits[i].debtor, value |-> debits[i].value] = debits[i]
      BY <1>6
    <3>. QED BY <1>5, <1>7, <1>9, <3>1
  <2>. QED BY <1>4, <1>14, <2>1 DEF ComputePlanHash
<1>. QED BY <1>4, <1>7, <1>9, <1>10, <1>11, <1>12, <1>13 DEF debits, payouts, ends

-----------------------------------------------------------------------------
(* The tools. *)

\* A split that is not refused apportions its total.
LEMMA Apportioned ==
  ASSUME NEW total \in Nat, NEW n \in Nat, NEW w, DOMAIN w = 1..n, \A i \in 1..n : w[i] \in Nat,
         LargestRemainderSplit(total, w) # Rejected
  PROVE  /\ Apportions(total, w, LargestRemainderSplit(total, w))
         /\ DOMAIN LargestRemainderSplit(total, w) = 1..n
         /\ \A i \in 1..n : LargestRemainderSplit(total, w)[i] \in Nat
<1>. DEFINE D == 1..n
            parts == LargestRemainderSplit(total, w)
<1>1. SumOver(w, D) # 0
  BY DEF LargestRemainderSplit
<1>2. IsFiniteSet(D) /\ DOMAIN w = D /\ (\A i \in D : i \in Nat) /\ \A i \in D : w[i] \in Nat
  BY FS_Interval
<1>. HIDE DEF D
<1>3. /\ DOMAIN parts = D
      /\ \A i \in D : parts[i] \in Nat
      /\ SumOver(parts, D) = total
      /\ \A i \in D : /\ -SumOver(w, D) < parts[i] * SumOver(w, D) - total * w[i]
                      /\ parts[i] * SumOver(w, D) - total * w[i] < SumOver(w, D)
      /\ \A i, j \in D : (w[i] > w[j] \/ (w[i] = w[j] /\ i < j)) => parts[i] >= parts[j]
  BY <1>1, <1>2, LargestRemainder
<1>. HIDE DEF parts
<1>4. SumSeq(w) = SumOver(w, D) /\ SumSeq(parts) = SumOver(parts, D)
  BY <1>2, <1>3 DEF SumSeq
<1>5. Apportions(total, w, parts)
  BY <1>2, <1>3, <1>4 DEF Apportions
<1>. QED BY <1>3, <1>5 DEF D, parts

\* split_equal and split_weighted.
LEMMA SplitsProved ==
  ASSUME NEW total \in Nat, NEW w \in Seq(Nat), LargestRemainderSplit(total, w) # Rejected
  PROVE  Apportions(total, w, LargestRemainderSplit(total, w))
<1>1. Len(w) \in Nat /\ DOMAIN w = 1..Len(w) /\ \A i \in 1..Len(w) : w[i] \in Nat
  OBVIOUS
<1>. QED BY <1>1, Apportioned

\* What is asked of net_debts.
NetsOut(debts, out) ==
  IF out = Rejected THEN ~DebtsLegal(debts)
  ELSE LET net == NetPositions(debts)
       IN  /\ DebtsLegal(debts)
           /\ \A i \in DOMAIN out : out[i].amount > 0
           /\ \A p \in DOMAIN net : net[p] = Due(out, p) - Owes(out, p)
           /\ {out[i].debtor : i \in DOMAIN out} \cap {out[i].creditor : i \in DOMAIN out} = {}
           /\ Len(out) < Cardinality(DOMAIN net)

\* net_debts.
LEMMA NettingProved ==
  ASSUME NEW debts \in Seq(Debt) \ {<<>>}
  PROVE  NetsOut(debts, NettedTransfers(debts))
<1>. DEFINE out == NettedTransfers(debts)
            net == NetPositions(debts)
            P == Parties(debts)
<1>1. /\ ~DebtsLegal(debts) => out = Rejected
      /\ DebtsLegal(debts) =>
           /\ out \in Seq(Debt)
           /\ out = <<>> \/ Len(out) < Cardinality(P)
           /\ \A p \in P : net[p] = Due(out, p) - Owes(out, p)
           /\ \A i \in DOMAIN out :
                /\ out[i].amount > 0
                /\ out[i].debtor \in P /\ net[out[i].debtor] < 0
                /\ out[i].creditor \in P /\ net[out[i].creditor] > 0
  BY NettedSettles
<1>2. IsFiniteSet(P) /\ DOMAIN net = P /\ \A p \in P : net[p] \in Int
  BY NetsCancel
<1>3. debts[1].debtor \in P
  <2>1. 1 \in DOMAIN debts
    OBVIOUS
  <2>. QED BY <2>1 DEF Parties
<1>. HIDE DEF out, net, P
<1>4. Cardinality(P) \in Nat /\ Cardinality(P) # 0
  BY <1>2, <1>3, FS_CardinalityType, FS_EmptySet
<1>5. CASE out = Rejected
  BY <1>1, <1>5, EngineAssumption DEF out, NetsOut
<1>6. CASE out # Rejected
  <2>1. DebtsLegal(debts)
    BY <1>1, <1>6
  <2>2. out = <<>> => Len(out) = 0
    OBVIOUS
  <2>3. Len(out) < Cardinality(DOMAIN net)
    BY <1>1, <1>2, <1>4, <2>1, <2>2
  <2>4. ASSUME NEW i \in DOMAIN out, NEW j \in DOMAIN out PROVE out[i].debtor # out[j].creditor
    <3>1. net[out[i].debtor] < 0 /\ net[out[j].creditor] > 0 /\ net[out[i].debtor] \in Int
      BY <1>1, <1>2, <2>1
    <3>. QED BY <3>1
  <2>5. {out[i].debtor : i \in DOMAIN out} \cap {out[i].creditor : i \in DOMAIN out} = {}
    BY <2>4
  <2>6. NetsOut(debts, out)
    BY <1>1, <1>2, <1>6, <2>1, <2>3, <2>5 DEF net, NetsOut
  <2>. QED BY <2>6 DEF out
<1>. QED BY <1>5, <1>6


\* How an MCP input shares one line out.
Assignment == [line : Nat, weights : Seq([participant : Nat, weight : Nat])]

\* The assignment of a line.
AssignedTo(input, line) == CHOOSE a \in ToSet(input.assignments) : a.line = line

\* The parts of every line.
LineShares(input) ==
  [line \in DOMAIN input.lines |->
     LargestRemainderSplit(input.lines[line], WeightsOf(input, AssignedTo(input, line)))]

\* What every participant has to bear.
McpShares(input) ==
  [i \in DOMAIN Sorted(input.participants) |->
     SumSeq([line \in DOMAIN LineShares(input) |-> LineShares(input)[line][i]])]

\* An input that is not refused is legal, and allocated line by line.
LEMMA Allocating ==
  ASSUME NEW input, AllocateMcpReceipt(input) # Rejected
  PROVE  /\ InputLegal(input) /\ Rejected \notin ToSet(LineShares(input))
         /\ AllocateMcpReceipt(input) = [lines |-> LineShares(input), shares |-> McpShares(input)]
  BY DEF AllocateMcpReceipt, LineShares, McpShares, AssignedTo

\* What the schema lets in, for one input.
LEMMA InputTyped ==
  ASSUME NEW input \in McpInputs
  PROVE  /\ input.participants \in SUBSET Nat /\ IsFiniteSet(input.participants)
         /\ DOMAIN input.wallets = input.participants
         /\ \A p \in Given(input.wallets) : input.wallets[p] \in Addresses \ {Contract}
         /\ input.lines \in Seq(Nat) /\ input.assignments \in Seq(Assignment)
  BY ToolsAssumption DEF McpInput, Assignment, Addresses

\* The weights of a line, one for each participant.
LEMMA WeightsTyped ==
  ASSUME NEW input \in McpInputs, NEW a \in Assignment
  PROVE  /\ DOMAIN WeightsOf(input, a) = 1..Cardinality(input.participants)
         /\ \A i \in 1..Cardinality(input.participants) : WeightsOf(input, a)[i] \in Nat
<1>. DEFINE people == Sorted(input.participants)
            w == [n \in DOMAIN a.weights |-> a.weights[n].weight]
            K(i) == {n \in DOMAIN a.weights : a.weights[n].participant = people[i]}
<1>1. DOMAIN people = 1..Cardinality(input.participants)
  BY InputTyped, SortedSorts
<1>2. WeightsOf(input, a) = [i \in DOMAIN people |-> SumOver(w, K(i))]
  BY DEF WeightsOf
<1>3. IsFiniteSet(DOMAIN a.weights) /\ \A n \in DOMAIN a.weights : w[n] \in Nat
  <2>1. a.weights \in Seq([participant : Nat, weight : Nat])
    BY DEF Assignment
  <2>2. IsFiniteSet(DOMAIN a.weights)
    BY <2>1, SeqDomain
  <2>3. \A n \in DOMAIN a.weights : a.weights[n] \in [participant : Nat, weight : Nat]
    BY <2>1, SeqElement
  <2>. QED BY <2>2, <2>3
<1>4. ASSUME NEW i \in DOMAIN people PROVE SumOver(w, K(i)) \in Nat
  <2>1. IsFiniteSet(K(i)) /\ \A n \in K(i) : w[n] \in Nat
    BY <1>3, FS_Subset
  <2>. HIDE DEF w, K
  <2>. QED BY <2>1, SumNat
<1>. HIDE DEF w, K, people
<1>. QED BY <1>1, <1>2, <1>4

\* As many assignments as lines, and one for every line: none has two.
LEMMA AssignedOnce ==
  ASSUME NEW input \in McpInputs, InputLegal(input)
  PROVE  /\ \A line \in DOMAIN input.lines :
              /\ AssignedTo(input, line) \in ToSet(input.assignments)
              /\ AssignedTo(input, line) \in Assignment
         /\ \A a \in ToSet(input.assignments) :
              a.line \in DOMAIN input.lines /\ AssignedTo(input, a.line) = a
<1>. DEFINE s == input.assignments
            D == DOMAIN s
            L == DOMAIN input.lines
            f == [i \in D |-> s[i].line]
<1>1. /\ s \in Seq(Assignment) /\ input.lines \in Seq(Nat)
      /\ Len(s) = Len(input.lines) /\ {s[i].line : i \in D} = L
  BY InputTyped DEF InputLegal
<1>2. D = L /\ IsFiniteSet(D) /\ ToSet(s) = {s[i] : i \in D}
  BY <1>1, SeqDomain DEF ToSet
<1>3. f \in Surjection(D, L)
  <2>1. f \in [D -> L]
    BY <1>1
  <2>2. \A l \in L : \E i \in D : f[i] = l
    BY <1>1
  <2>. HIDE DEF f, D, L
  <2>. QED BY <2>1, <2>2 DEF Surjection
<1>4. \A i, j \in D : s[i].line = s[j].line => i = j
  <2>1. f \in Injection(D, L)
    <3>. HIDE DEF f, D, L
    <3>. QED BY <1>2, <1>3, FS_SurjSameCardinalityImpliesInj
  <2>2. \A i, j \in D : f[i] = f[j] => i = j
    <3>. HIDE DEF f, D, L
    <3>. QED BY <2>1 DEF Injection, IsInjective
  <2>. QED BY <2>2
<1>5. \A a \in ToSet(s) : a \in Assignment /\ a.line \in L
  BY <1>1, <1>2, SeqElement
<1>6. \A a, b \in ToSet(s) : a.line = b.line => a = b
  BY <1>2, <1>4
<1>7. \A l \in L : \E a \in ToSet(s) : a.line = l
  BY <1>1, <1>2
<1>. HIDE DEF s, L, D
<1>8. \A l \in L : AssignedTo(input, l) \in ToSet(s) /\ AssignedTo(input, l).line = l
  BY <1>7 DEF AssignedTo, s
<1>. QED BY <1>5, <1>6, <1>8 DEF s, L

\* allocate_receipt.
LEMMA AllocationProved ==
  ASSUME NEW input \in McpInputs, AllocateMcpReceipt(input) # Rejected
  PROVE  LET r == AllocateMcpReceipt(input)
         IN  /\ DOMAIN r.shares = 1..Cardinality(input.participants)
             /\ \A i \in DOMAIN r.shares : r.shares[i] \in Nat
             /\ SumSeq(r.shares) = SumSeq(input.lines)
             /\ \A a \in ToSet(input.assignments) :
                  Apportions(input.lines[a.line], WeightsOf(input, a), r.lines[a.line])
<1>. DEFINE L == DOMAIN input.lines
            n == Cardinality(input.participants)
            B == 1..n
            lines == LineShares(input)
            shares == McpShares(input)
<1>1. /\ InputLegal(input) /\ Rejected \notin ToSet(lines)
      /\ AllocateMcpReceipt(input) = [lines |-> lines, shares |-> shares]
  BY Allocating
<1>2. /\ input.lines \in Seq(Nat) /\ IsFiniteSet(L) /\ DOMAIN Sorted(input.participants) = B
      /\ IsFiniteSet(B) /\ n \in Nat
  <2>1. input.lines \in Seq(Nat) /\ IsFiniteSet(L)
    BY InputTyped, SeqDomain
  <2>2. DOMAIN Sorted(input.participants) = B /\ n \in Nat
    BY InputTyped, SortedSorts
  <2>3. IsFiniteSet(B)
    <3>. HIDE DEF n
    <3>. QED BY <2>2, FS_Interval
  <2>. QED BY <2>1, <2>2, <2>3
<1>3. ASSUME NEW l \in L
      PROVE  /\ Apportions(input.lines[l], WeightsOf(input, AssignedTo(input, l)), lines[l])
             /\ DOMAIN lines[l] = B /\ \A i \in B : lines[l][i] \in Nat
  <2>1. AssignedTo(input, l) \in Assignment
    BY <1>1, AssignedOnce
  <2>2. lines[l] = LargestRemainderSplit(input.lines[l], WeightsOf(input, AssignedTo(input, l)))
    BY DEF LineShares
  <2>3. lines[l] # Rejected
    <3>1. l \in DOMAIN lines
      BY DEF LineShares
    <3>. QED BY <1>1, <3>1 DEF ToSet
  <2>4. input.lines[l] \in Nat
    BY <1>2, SeqElement
  <2>. DEFINE w == WeightsOf(input, AssignedTo(input, l))
  <2>5. DOMAIN w = 1..n /\ \A i \in 1..n : w[i] \in Nat
    BY <2>1, WeightsTyped
  <2>. HIDE DEF w, n
  <2>. QED BY <1>2, <2>2, <2>3, <2>4, <2>5, Apportioned DEF w
<1>4. /\ DOMAIN shares = B
      /\ \A i \in B : shares[i] = SumOver([l \in L |-> lines[l][i]], L)
  <2>1. DOMAIN lines = L
    BY DEF LineShares
  <2>. HIDE DEF lines, L
  <2>. QED BY <1>2, <2>1 DEF McpShares, lines, SumSeq
<1>5. \A i \in B : shares[i] \in Nat
  <2>. SUFFICES ASSUME NEW i \in B PROVE shares[i] \in Nat
    OBVIOUS
  <2>. DEFINE f == [l \in L |-> lines[l][i]]
  <2>1. \A l \in L : f[l] \in Nat
    BY <1>3
  <2>. HIDE DEF f
  <2>. QED BY <1>2, <1>4, <2>1, SumNat DEF f
<1>6. SumSeq(shares) = SumSeq(input.lines)
  <2>. DEFINE t == [i \in B |-> [l \in L |-> lines[l][i]]]
              all == input.lines
  <2>1. \A l \in L : \A i \in B : lines[l][i] \in Int /\ t[i][l] = lines[l][i]
    BY <1>3
  <2>2. \A l \in L : all[l] = SumOver(lines[l], B)
    BY <1>3 DEF Apportions, SumSeq
  <2>3. \A i \in B : shares[i] = SumOver(t[i], L)
    BY <1>4
  <2>4. SumSeq(shares) = SumOver(shares, B) /\ SumSeq(all) = SumOver(all, L)
    BY <1>4 DEF SumSeq
  <2>. HIDE DEF L, B, lines, shares, t, all
  <2>5. Transposes(lines, all, L, t, shares, B)
    BY <2>1, <2>2, <2>3 DEF Transposes
  <2>6. SumOver(all, L) = SumOver(shares, B)
    BY <1>2, <2>5, SumTransposed
  <2>. QED BY <2>4, <2>6 DEF all
<1>7. \A a \in ToSet(input.assignments) :
        Apportions(input.lines[a.line], WeightsOf(input, a), lines[a.line])
  BY <1>1, <1>3, AssignedOnce
<1>. HIDE DEF lines, shares
<1>. QED BY <1>1, <1>4, <1>5, <1>6, <1>7


\* Each i of A has at most one record of D, which holds f[i]; who has none has
\* nothing.
Star(values, key, D, f, A) ==
  /\ \A k \in D : key[k] \in A /\ values[k] = f[key[k]]
  /\ \A k, l \in D : key[k] = key[l] => k = l
  /\ \A i \in A : f[i] \in Nat /\ (f[i] # 0 => \E k \in D : key[k] = i)

\* Summing the records is summing f.
LEMMA StarSums ==
  ASSUME NEW D, IsFiniteSet(D), NEW A, IsFiniteSet(A), NEW values, NEW key, NEW f,
         Star(values, key, D, f, A)
  PROVE  /\ SumOver(values, D) = SumOver(f, A)
         /\ \A i \in A : ByKey(values, key, D, i) = f[i]
<1>. DEFINE S == {i \in A : \E k \in D : key[k] = i}
            R == A \ S
            g == [k \in D |-> f[key[k]]]
<1>1. /\ \A k \in D : key[k] \in A /\ values[k] = f[key[k]]
      /\ \A k, l \in D : key[k] = key[l] => k = l
      /\ \A i \in A : f[i] \in Nat /\ (f[i] # 0 => \E k \in D : key[k] = i)
  BY DEF Star
<1>2. IsFiniteSet(S) /\ IsFiniteSet(R) /\ S \cap R = {} /\ S \cup R = A
  BY FS_Subset
<1>3. /\ \A k \in D : key[k] \in S
      /\ \A i \in S : \E k \in D : key[k] = i
      /\ \A i \in S : f[i] \in Int
      /\ \A i \in R : f[i] = 0
      /\ \A i \in S \cup R : f[i] \in Int
  BY <1>1
<1>4. \A k \in D : values[k] \in Int /\ g[k] = values[k]
  BY <1>1
<1>5. SumOver(values, D) = SumOver(f, A)
  <2>. HIDE DEF S, R
  <2>1. SumOver(g, D) = SumOver(f, S)
    BY <1>1, <1>2, <1>3, SumRenames
  <2>. HIDE DEF g
  <2>2. SumOver(values, D) = SumOver(g, D)
    BY <1>4, SumSame
  <2>3. SumOver(f, S \cup R) = SumOver(f, S) + SumOver(f, R)
    BY <1>2, <1>3, SumUnion
  <2>4. SumOver(f, R) = 0 * Cardinality(R)
    BY <1>2, <1>3, SumConst
  <2>5. Cardinality(R) \in Nat /\ SumOver(f, S) \in Int
    BY <1>2, <1>3, FS_CardinalityType, SumInt
  <2>. QED BY <1>2, <2>1, <2>2, <2>3, <2>4, <2>5
<1>6. ASSUME NEW i \in A PROVE ByKey(values, key, D, i) = f[i]
  <2>1. CASE \E k \in D : key[k] = i
    <3>1. PICK k \in D : key[k] = i
      BY <2>1
    <3>2. {l \in D : key[l] = i} = {k}
      BY <1>1, <3>1
    <3>3. values[k] = f[i] /\ values[k] \in Int
      BY <1>1, <3>1
    <3>. QED BY <3>2, <3>3, SumOne DEF ByKey
  <2>2. CASE ~(\E k \in D : key[k] = i)
    <3>1. {k \in D : key[k] = i} = {} /\ f[i] = 0
      BY <1>1, <2>2
    <3>. QED BY <3>1, SumEmpty DEF ByKey
  <2>. QED BY <2>1, <2>2
<1>. QED BY <1>5, <1>6

-----------------------------------------------------------------------------
(* prepare_receipt_settlement. *)

\* The participant at a place of the sorted list.
Person(input, i) == Sorted(input.participants)[i]

\* His wallet.
WalletOf(input, i) == input.wallets[Person(input, i)]

\* The places of those who owe the payer.
OwingTo(input, payer, shares) ==
  {i \in DOMAIN Sorted(input.participants) : Person(input, i) # payer /\ shares[i] > 0}

\* Their wallets in ascending order.
DebtorWallets(input, payer, shares) ==
  Sorted({WalletOf(input, i) : i \in OwingTo(input, payer, shares)})

\* Who owns the n-th wallet.
DebtorAt(input, payer, shares, n) ==
  CHOOSE i \in OwingTo(input, payer, shares) :
    WalletOf(input, i) = DebtorWallets(input, payer, shares)[n]

\* All the participants have a wallet of their own, the payer among them.
Settleable(input, payer) ==
  /\ input \in McpInputs /\ payer \in input.participants
  /\ Given(input.wallets) = input.participants
  /\ \A p, q \in Given(input.wallets) : input.wallets[p] = input.wallets[q] => p = q

\* The transfers of a prepared plan, in these terms.
LEMMA TransfersUnfold ==
  ASSUME NEW input, NEW payer, NEW shares
  PROVE  TransfersTo(input, payer, shares)
           = [n \in DOMAIN DebtorWallets(input, payer, shares) |->
                [from |-> DebtorWallets(input, payer, shares)[n], to |-> input.wallets[payer],
                 value |-> shares[DebtorAt(input, payer, shares, n)] * CentUnits]]
  BY DEF TransfersTo, DebtorWallets, DebtorAt, OwingTo, WalletOf, Person, FiatMinorToUsdcMinor

\* Everybody has a place and a wallet of his own.
LEMMA PersonsOrdered ==
  ASSUME NEW input, NEW payer, Settleable(input, payer)
  PROVE  LET I == 1..Cardinality(input.participants)
         IN  /\ IsFiniteSet(I) /\ DOMAIN Sorted(input.participants) = I
             /\ \A i \in I : Person(input, i) \in input.participants
             /\ \E i \in I : Person(input, i) = payer
             /\ \A i, j \in I : Person(input, i) = Person(input, j) => i = j
             /\ \A i, j \in I : WalletOf(input, i) = WalletOf(input, j) => i = j
             /\ \A i \in I : WalletOf(input, i) \in Addresses \ {Contract}
             /\ input.wallets[payer] \in Addresses \ {Contract}
<1>. DEFINE P == input.participants
            I == 1..Cardinality(P)
            s == Sorted(P)
<1>1. P \in SUBSET Nat /\ IsFiniteSet(P)
  BY InputTyped DEF Settleable
<1>2. /\ Cardinality(P) \in Nat /\ DOMAIN s = I
      /\ \A i \in DOMAIN s : s[i] \in P
      /\ \A x \in P : \E n \in DOMAIN s : s[n] = x
      /\ \A i, j \in DOMAIN s : s[i] = s[j] => i = j
  <2>. HIDE DEF P
  <2>. QED BY <1>1, SortedSorts
<1>3. IsFiniteSet(I)
  <2>. HIDE DEF P
  <2>. QED BY <1>2, FS_Interval
<1>4. \A p \in P : input.wallets[p] \in Addresses \ {Contract}
  BY InputTyped DEF Settleable
<1>5. \A p, q \in P : input.wallets[p] = input.wallets[q] => p = q
  BY DEF Settleable
<1>6. payer \in P
  BY DEF Settleable
<1>7. \A i \in I : s[i] = Person(input, i) /\ WalletOf(input, i) = input.wallets[s[i]]
  BY DEF Person, WalletOf
<1>. HIDE DEF s, P
<1>. QED BY <1>2, <1>3, <1>4, <1>5, <1>6, <1>7 DEF s, P

\* One transfer for each who owes, from his wallet to the payer's.
LEMMA TransfersMade ==
  ASSUME NEW input, NEW payer, Settleable(input, payer),
         NEW shares, \A i \in 1..Cardinality(input.participants) : shares[i] \in Nat
  PROVE  LET t == TransfersTo(input, payer, shares)
             owing == OwingTo(input, payer, shares)
         IN  /\ OnChain(t)
             /\ \A k \in DOMAIN t :
                  /\ DebtorAt(input, payer, shares, k) \in owing
                  /\ t[k].from = WalletOf(input, DebtorAt(input, payer, shares, k))
                  /\ t[k].to = input.wallets[payer]
                  /\ t[k].value = shares[DebtorAt(input, payer, shares, k)] * CentUnits
             /\ \A i \in owing : \E k \in DOMAIN t : t[k].from = WalletOf(input, i)
             /\ \A k, l \in DOMAIN t : t[k].from = t[l].from => k = l
<1>. DEFINE I == 1..Cardinality(input.participants)
            owing == OwingTo(input, payer, shares)
            S == {WalletOf(input, i) : i \in owing}
            s == DebtorWallets(input, payer, shares)
            At(k) == DebtorAt(input, payer, shares, k)
            t == TransfersTo(input, payer, shares)
<1>1. /\ IsFiniteSet(I) /\ DOMAIN Sorted(input.participants) = I
      /\ \A i \in I : WalletOf(input, i) \in Addresses \ {Contract}
      /\ input.wallets[payer] \in Addresses \ {Contract}
  BY PersonsOrdered
<1>2. owing \subseteq I /\ IsFiniteSet(owing)
  BY <1>1, FS_Subset DEF OwingTo
<1>3. S \in SUBSET Nat /\ IsFiniteSet(S) /\ S \subseteq Addresses \ {Contract}
  <2>1. IsFiniteSet(S)
    <3>. DEFINE f == [i \in owing |-> WalletOf(input, i)]
    <3>1. f \in Surjection(owing, S)
      BY DEF Surjection
    <3>. HIDE DEF f, S, owing
    <3>. QED BY <1>2, <3>1, FS_Surjection
  <2>. QED BY <1>1, <1>2, <2>1, ContractAssumption DEF Addresses
<1>4. s = Sorted(S)
  BY DEF DebtorWallets
<1>5. /\ Cardinality(S) \in Nat /\ DOMAIN s = 1..Cardinality(S)
      /\ \A k \in DOMAIN s : s[k] \in S
      /\ \A x \in S : \E k \in DOMAIN s : s[k] = x
      /\ \A k, l \in DOMAIN s : s[k] = s[l] => k = l
  <2>. HIDE DEF S, s
  <2>. QED BY <1>3, <1>4, SortedSorts
<1>6. ASSUME NEW k \in DOMAIN s PROVE At(k) \in owing /\ WalletOf(input, At(k)) = s[k]
  <2>1. \E i \in owing : WalletOf(input, i) = s[k]
    BY <1>5
  <2>. HIDE DEF owing, s
  <2>. QED BY <2>1 DEF DebtorAt, owing, s
<1>7. t = [k \in DOMAIN s |-> [from |-> s[k], to |-> input.wallets[payer],
                               value |-> shares[At(k)] * CentUnits]]
  BY TransfersUnfold
<1>8. \A i \in owing : shares[i] \in Nat
  BY <1>2
<1>. HIDE DEF s, S, owing, At, t
<1>9. /\ DOMAIN t = DOMAIN s /\ t = [k \in DOMAIN t |-> t[k]]
      /\ \A k \in DOMAIN t : t[k] = [from |-> s[k], to |-> input.wallets[payer],
                                     value |-> shares[At(k)] * CentUnits]
  BY <1>7
<1>10. \A k \in DOMAIN t : shares[At(k)] * CentUnits \in Nat
  BY <1>6, <1>8, <1>9, EngineAssumption, Product
<1>11. \A k \in DOMAIN t : s[k] \in Nat /\ input.wallets[payer] \in Nat
  BY <1>1, <1>3, <1>5, <1>9, ContractAssumption DEF Addresses
<1>12. \A k \in DOMAIN t : t[k] \in Transfer3
  BY <1>9, <1>10, <1>11 DEF Transfer3
<1>13. t \in Seq(Transfer3)
  <2>. DEFINE m == Cardinality(S)
  <2>1. m \in Nat /\ DOMAIN t = 1..m
    BY <1>5, <1>9
  <2>. HIDE DEF m
  <2>. QED BY <1>9, <1>12, <2>1, IsSeq
<1>14. \A k \in DOMAIN t : t[k].from \in Addresses \ {Contract} /\ t[k].to \in Addresses \ {Contract}
  BY <1>1, <1>3, <1>5, <1>9
<1>15. OnChain(t)
  BY <1>13, <1>14 DEF OnChain
<1>16. \A i \in owing : \E k \in DOMAIN t : t[k].from = WalletOf(input, i)
  <2>. SUFFICES ASSUME NEW i \in owing PROVE \E k \in DOMAIN t : t[k].from = WalletOf(input, i)
    OBVIOUS
  <2>1. WalletOf(input, i) \in S
    BY DEF S
  <2>2. PICK k \in DOMAIN s : s[k] = WalletOf(input, i)
    BY <1>5, <2>1
  <2>. QED BY <1>9, <2>2
<1>17. \A k, l \in DOMAIN t : t[k].from = t[l].from => k = l
  BY <1>5, <1>9
<1>18. \A k \in DOMAIN t : /\ At(k) \in owing /\ t[k].from = WalletOf(input, At(k))
                           /\ t[k].to = input.wallets[payer]
                           /\ t[k].value = shares[At(k)] * CentUnits
  BY <1>6, <1>9
<1>. QED BY <1>15, <1>16, <1>17, <1>18 DEF t, owing, At


\* What the plan brings a participant, in fiat minor units.
GainOf(input, payer, shares, i) ==
  IF Person(input, i) = payer THEN SumSeq(shares) - shares[i] ELSE -shares[i]

\* The transfers of a prepared plan bring every participant what he gains.
LEMMA TransfersGain ==
  ASSUME NEW input, NEW payer, Settleable(input, payer),
         NEW shares, DOMAIN shares = 1..Cardinality(input.participants),
         \A i \in DOMAIN shares : shares[i] \in Nat
  PROVE  LET t == TransfersTo(input, payer, shares)
         IN  \A i \in DOMAIN shares :
               To(t, WalletOf(input, i)) - From(t, WalletOf(input, i))
                 = FiatMinorToUsdcMinor(GainOf(input, payer, shares, i))
<1>. DEFINE I == DOMAIN shares
            owing == OwingTo(input, payer, shares)
            At(k) == DebtorAt(input, payer, shares, k)
            t == TransfersTo(input, payer, shares)
            D == DOMAIN t
            values == Values(t)
            key == [k \in D |-> At(k)]
            g == [i \in I |-> IF Person(input, i) = payer THEN 0 ELSE shares[i]]
            f == [i \in I |-> CentUnits * g[i]]
            W(i) == WalletOf(input, i)
<1>1. /\ IsFiniteSet(I) /\ DOMAIN Sorted(input.participants) = I
      /\ \E i \in I : Person(input, i) = payer
      /\ \A i, j \in I : Person(input, i) = Person(input, j) => i = j
      /\ \A i, j \in I : W(i) = W(j) => i = j
  BY PersonsOrdered
<1>2. /\ OnChain(t)
      /\ \A k \in D : /\ At(k) \in owing /\ t[k].from = W(At(k))
                      /\ t[k].to = input.wallets[payer]
                      /\ t[k].value = shares[At(k)] * CentUnits
      /\ \A i \in owing : \E k \in D : t[k].from = W(i)
      /\ \A k, l \in D : t[k].from = t[l].from => k = l
  <2>1. \A i \in 1..Cardinality(input.participants) : shares[i] \in Nat
    OBVIOUS
  <2>. HIDE DEF W, I, At, t, owing, D
  <2>2. /\ OnChain(t)
        /\ \A k \in DOMAIN t :
             /\ DebtorAt(input, payer, shares, k) \in owing
             /\ t[k].from = WalletOf(input, DebtorAt(input, payer, shares, k))
             /\ t[k].to = input.wallets[payer]
             /\ t[k].value = shares[DebtorAt(input, payer, shares, k)] * CentUnits
        /\ \A i \in owing : \E k \in DOMAIN t : t[k].from = WalletOf(input, i)
        /\ \A k, l \in DOMAIN t : t[k].from = t[l].from => k = l
    BY <2>1, TransfersMade DEF t, owing
  <2>. QED BY <2>2 DEF W, At, D
<1>3. \A i : i \in owing <=> i \in I /\ Person(input, i) # payer /\ shares[i] > 0
  BY <1>1 DEF OwingTo
<1>4. IsFiniteSet(D)
  <2>1. t \in Seq(Transfer3)
    BY <1>2 DEF OnChain
  <2>. QED BY <2>1, SeqDomain
<1>5. \A k \in D : values[k] = t[k].value /\ key[k] = At(k)
  BY DEF Values
<1>6. PICK x \in I : Person(input, x) = payer
  BY <1>1
<1>7. W(x) = input.wallets[payer]
  BY <1>6 DEF WalletOf
<1>8. CentUnits \in Nat /\ CentUnits # 0
  BY EngineAssumption
<1>9. \A i \in I : g[i] \in Nat /\ f[i] = CentUnits * g[i] /\ g[i] = IF i = x THEN 0 ELSE shares[i]
  BY <1>1, <1>6
<1>. HIDE DEF owing, At, t, D, values, key, g, f, W, I
<1>10. Star(values, key, D, f, I)
  <2>1. \A k \in D : key[k] \in I /\ values[k] = f[key[k]]
    <3>. SUFFICES ASSUME NEW k \in D PROVE key[k] \in I /\ values[k] = f[key[k]]
      OBVIOUS
    <3>1. At(k) \in I /\ At(k) # x /\ shares[At(k)] \in Nat
      BY <1>2, <1>3, <1>6 DEF I
    <3>2. f[At(k)] = CentUnits * shares[At(k)]
      BY <1>9, <3>1
    <3>. DEFINE m == shares[At(k)]
    <3>3. m * CentUnits = CentUnits * m
      <4>. HIDE DEF m
      <4>1. m \in Nat
        BY <3>1 DEF m
      <4>. QED BY <4>1, <1>8
    <3>. QED BY <1>2, <1>5, <3>1, <3>2, <3>3
  <2>2. \A k, l \in D : key[k] = key[l] => k = l
    BY <1>2, <1>5
  <2>3. \A i \in I : f[i] \in Nat
    BY <1>8, <1>9, Product
  <2>4. ASSUME NEW i \in I, f[i] # 0 PROVE \E k \in D : key[k] = i
    <3>1. g[i] # 0
      BY <1>8, <1>9, <2>4
    <3>2. i \in owing
      <4>1. i # x /\ g[i] = shares[i] /\ g[i] \in Nat
        BY <1>9, <3>1
      <4>. QED BY <1>1, <1>3, <1>6, <3>1, <4>1
    <3>3. PICK k \in D : t[k].from = W(i)
      BY <1>2, <3>2
    <3>4. At(k) \in I /\ W(At(k)) = W(i)
      BY <1>2, <1>3, <3>3
    <3>. QED BY <1>1, <1>5, <3>4
  <2>. QED BY <2>1, <2>2, <2>3, <2>4 DEF Star
<1>11. /\ SumOver(values, D) = SumOver(f, I)
       /\ \A i \in I : ByKey(values, key, D, i) = f[i]
  <2>1. IsFiniteSet(I)
    BY <1>1
  <2>. QED BY <1>4, <1>10, <2>1, StarSums
<1>12. ASSUME NEW i \in I PROVE From(t, W(i)) = f[i]
  <2>1. {k \in D : t[k].from = W(i)} = {k \in D : key[k] = i}
    <3>1. \A k \in D : t[k].from = W(i) <=> key[k] = i
      BY <1>1, <1>2, <1>3, <1>5
    <3>. QED BY <3>1
  <2>. QED BY <1>11, <2>1 DEF From, ByKey, values, D
<1>13. ASSUME NEW i \in I PROVE To(t, W(i)) = IF i = x THEN SumOver(f, I) ELSE 0
  <2>1. {k \in D : t[k].to = W(i)} = IF i = x THEN D ELSE {}
    <3>1. \A k \in D : t[k].to = W(i) <=> i = x
      BY <1>1, <1>2, <1>7
    <3>. QED BY <3>1
  <2>. QED BY <1>11, <2>1, SumEmpty DEF To, values, D
<1>14. SumOver(f, I) = CentUnits * (SumSeq(shares) - shares[x]) /\ SumSeq(shares) \in Int
  <2>. DEFINE R == I \ {x}
  <2>1. IsFiniteSet(R) /\ \A i \in R : i \in I
    BY <1>1, FS_Subset
  <2>2. \A i \in I : shares[i] \in Int
    BY <1>9 DEF I
  <2>12. \A i \in I : g[i] \in Int
    BY <1>9
  <2>13. IsFiniteSet(I) /\ x \in I
    BY <1>1, <1>6
  <2>3. \A i \in R : shares[i] \in Int /\ g[i] = shares[i]
    BY <1>9, <2>2
  <2>4. \A i \in I : g[i] \in Int /\ f[i] = CentUnits * g[i]
    BY <1>9
  <2>. HIDE DEF R
  <2>5. SumOver(shares, R) = SumOver(g, R) /\ SumOver(shares, R) \in Int
    BY <2>1, <2>3, SumSame, SumInt
  <2>6. SumOver(g, I) = g[x] + SumOver(g, I \ {x})
    BY <2>12, <2>13, SumTakes
  <2>7. SumOver(shares, I) = shares[x] + SumOver(shares, I \ {x})
    BY <2>2, <2>13, SumTakes
  <2>8. SumOver(f, I) = CentUnits * SumOver(g, I)
    BY <1>1, <1>8, <2>4, SumScale
  <2>9. g[x] = 0 /\ shares[x] \in Int
    BY <1>9, <2>2, <2>13
  <2>10. SumSeq(shares) = SumOver(shares, I)
    BY DEF SumSeq, I
  <2>11. SumOver(shares, I) - shares[x] = SumOver(g, I) /\ SumOver(shares, I) \in Int
    BY <2>5, <2>6, <2>7, <2>9 DEF R
  <2>. QED BY <2>8, <2>10, <2>11
<1>15. ASSUME NEW i \in I
       PROVE  To(t, W(i)) - From(t, W(i)) = FiatMinorToUsdcMinor(GainOf(input, payer, shares, i))
  <2>1. shares[i] \in Nat
    BY DEF I
  <2>2. CASE i = x
    <3>1. From(t, W(i)) = 0
      BY <1>8, <1>9, <1>12, <2>2
    <3>2. GainOf(input, payer, shares, i) = SumSeq(shares) - shares[i]
      BY <1>6, <2>2 DEF GainOf
    <3>. DEFINE m == SumSeq(shares) - shares[i]
    <3>3. m \in Int /\ To(t, W(i)) = CentUnits * m
      BY <1>13, <1>14, <2>1, <2>2
    <3>. HIDE DEF m
    <3>4. CentUnits * m - 0 = m * CentUnits
      BY <1>8, <3>3
    <3>. QED BY <3>1, <3>2, <3>3, <3>4 DEF FiatMinorToUsdcMinor, m
  <2>3. CASE i # x
    <3>1. GainOf(input, payer, shares, i) = -shares[i]
      BY <1>1, <1>6, <2>3 DEF GainOf
    <3>2. To(t, W(i)) = 0 /\ From(t, W(i)) = CentUnits * shares[i]
      BY <1>9, <1>12, <1>13, <2>3
    <3>. DEFINE m == shares[i]
    <3>3. m \in Int
      BY <2>1
    <3>. HIDE DEF m
    <3>4. 0 - CentUnits * m = (-m) * CentUnits
      BY <1>8, <3>3
    <3>. QED BY <3>1, <3>2, <3>4 DEF FiatMinorToUsdcMinor, m
  <2>. QED BY <2>2, <2>3
<1>. QED BY <1>15 DEF I, t, W


\* The ledger of a prepared plan.
PreparedLedger(input, payer) ==
  CanonicalizeLedger(input.wallets,
    TransfersTo(input, payer, AllocateMcpReceipt(input).shares), "receipt")

\* The body of a prepared plan, once it is signed.
PreparedBody(made) ==
  [id |-> made.settlementId, ledgerHash |-> made.ledgerHash,
   pulls |-> made.signatureRequests, payouts |-> made.payouts]

\* A plan that is not refused, and its signed body.
LEMMA PreparedUnfold ==
  ASSUME NEW input, NEW payer, NEW expiry,
         PrepareMcpReceiptSettlement(input, payer, expiry) # Rejected
  PROVE  LET made == PrepareMcpReceiptSettlement(input, payer, expiry)
             t == TransfersTo(input, payer, AllocateMcpReceipt(input).shares)
             ends == AggregateSettlementTransfers(t)
             hash == LedgerHash(PreparedLedger(input, payer))
         IN  /\ AllocateMcpReceipt(input) # Rejected
             /\ Given(input.wallets) = input.participants /\ payer \in input.participants
             /\ ExpiryAllowed(ExpiryOf(expiry)) /\ t # <<>>
             /\ made.debits = ends.debits
             /\ Signs(PreparedBody(made), t, hash, [i \in DOMAIN ends.debits |-> ExpiryOf(expiry)])
<1>. DEFINE t == TransfersTo(input, payer, AllocateMcpReceipt(input).shares)
            ends == AggregateSettlementTransfers(t)
            hash == LedgerHash(PreparedLedger(input, payer))
            plan == HashSettlementPlan(hash, ends.debits, ends.payouts)
            result == [settlementId |-> plan, ledgerHash |-> hash,
                       debits |-> ends.debits, payouts |-> ends.payouts,
                       signatureRequests |-> [i \in DOMAIN ends.debits |->
                         SignDebit(plan, ends.debits[i], Contract, ExpiryOf(expiry))]]
            made == PrepareMcpReceiptSettlement(input, payer, expiry)
<1>1. PreparedLedger(input, payer).transfers = t
  BY DEF PreparedLedger, CanonicalizeLedger
<1>2. /\ AllocateMcpReceipt(input) # Rejected
      /\ Given(input.wallets) = input.participants /\ payer \in input.participants
      /\ ExpiryAllowed(ExpiryOf(expiry)) /\ t # <<>>
  BY DEF PrepareMcpReceiptSettlement
<1>3. made = result
  <2>1. made = [settlementId |-> plan, ledgerHash |-> hash,
                debits |-> AggregateSettlementTransfers(PreparedLedger(input, payer).transfers).debits,
                payouts |-> AggregateSettlementTransfers(PreparedLedger(input, payer).transfers).payouts,
                signatureRequests |->
                  [i \in DOMAIN AggregateSettlementTransfers(PreparedLedger(input, payer).transfers).debits |->
                     SignDebit(plan,
                       AggregateSettlementTransfers(PreparedLedger(input, payer).transfers).debits[i],
                       Contract, ExpiryOf(expiry))]]
    BY <1>1, <1>2 DEF PrepareMcpReceiptSettlement, PreparedLedger
  <2>. QED BY <1>1, <2>1
<1>4. Signs(PreparedBody(result), t, hash, [i \in DOMAIN ends.debits |-> ExpiryOf(expiry)])
  <2>. HIDE DEF t, ends, hash
  <2>1. /\ PreparedBody(result).id = plan /\ PreparedBody(result).ledgerHash = hash
        /\ PreparedBody(result).payouts = ends.payouts
        /\ PreparedBody(result).pulls =
             [i \in DOMAIN ends.debits |->
                SignDebit(plan, ends.debits[i], Contract, ExpiryOf(expiry))]
    BY DEF PreparedBody
  <2>2. [i \in DOMAIN ends.debits |-> SignDebit(plan, ends.debits[i], Contract, ExpiryOf(expiry))]
          = [i \in DOMAIN ends.debits |-> SignDebit(plan, ends.debits[i], Contract,
               [j \in DOMAIN ends.debits |-> ExpiryOf(expiry)][i])]
    OBVIOUS
  <2>. HIDE DEF result
  <2>. QED BY <2>1, <2>2 DEF Signs, ends
<1>5. result.debits = ends.debits
  OBVIOUS
<1>. QED BY <1>2, <1>3, <1>4, <1>5


\* A sequence that is not empty has a first place.
LEMMA HasFirst ==
  ASSUME NEW S, NEW s \in Seq(S), s # <<>>
  PROVE  1 \in DOMAIN s
<1>1. Len(s) # 0
  <2>1. ASSUME Len(s) = 0 PROVE s = <<>>
    BY <2>1
  <2>. QED BY <2>1
<1>. QED BY <1>1

\* A body signed over positive transfers is one the contract accepts.
LEMMA SignedWellFormed ==
  ASSUME NEW transfers, OnChain(transfers), NEW hash, NEW until, NEW body,
         Signs(body, transfers, hash, until), transfers # <<>>,
         \A k \in DOMAIN transfers : transfers[k].value > 0, body.id \notin executed
  PROVE  WellFormed(body)
<1>. DEFINE ends == AggregateSettlementTransfers(transfers)
            froms == {transfers[i].from : i \in DOMAIN transfers}
            tos == {transfers[i].to : i \in DOMAIN transfers}
            debits == ends.debits
            payouts == ends.payouts
<1>1. transfers \in Seq(Transfer3)
  BY DEF OnChain
<1>2. /\ debits \in Seq([debtor : froms, value : Nat])
      /\ payouts \in Seq([creditor : tos, value : Nat])
      /\ StrictlyAscending([i \in DOMAIN debits |-> debits[i].debtor])
      /\ StrictlyAscending([i \in DOMAIN payouts |-> payouts[i].creditor])
      /\ SumSeq(Values(debits)) = SumSeq(Values(payouts))
      /\ \A i \in DOMAIN debits : debits[i].value > 0
      /\ \A i \in DOMAIN payouts : payouts[i].value > 0
      /\ debits # <<>> /\ payouts # <<>>
  BY <1>1, AggregatesTransfers
<1>3. /\ DOMAIN body.pulls = DOMAIN debits
      /\ \A i \in DOMAIN body.pulls :
           /\ body.pulls[i] = SignDebit(body.id, debits[i], Contract, until[i])
           /\ body.pulls[i].from = debits[i].debtor
           /\ body.pulls[i].value = debits[i].value
      /\ body.id = ComputePlanHash(body)
  BY SignedBody
<1>4. body.payouts = payouts
  BY DEF Signs
<1>. HIDE DEF ends, froms, tos, debits, payouts
<1>5. body.pulls # <<>> /\ body.payouts # <<>>
  <2>1. DOMAIN debits # {}
    <3>. DEFINE S == [debtor : froms, value : Nat]
    <3>1. debits \in Seq(S) /\ debits # <<>>
      BY <1>2
    <3>. HIDE DEF S
    <3>. QED BY <3>1, HasFirst
  <2>2. DOMAIN body.pulls # {}
    BY <1>3, <2>1
  <2>. QED BY <1>2, <1>4, <2>2
<1>6. ASSUME NEW i \in DOMAIN body.pulls PROVE PullAllowed(body.id, body.pulls[i])
  <2>1. body.pulls[i] = SignDebit(body.id, debits[i], Contract, until[i]) /\ debits[i].value > 0
    BY <1>2, <1>3
  <2>2. \A p, d, u : d.value > 0 /\ p = SignDebit(body.id, d, Contract, u) => PullAllowed(body.id, p)
    BY DEF PullAllowed, SignDebit, SignedBy
  <2>. QED BY <2>1, <2>2
<1>7. StrictlyAscending([i \in DOMAIN body.pulls |-> body.pulls[i].from])
  <2>1. [i \in DOMAIN body.pulls |-> body.pulls[i].from] = [i \in DOMAIN debits |-> debits[i].debtor]
    BY <1>3
  <2>. QED BY <1>2, <2>1
<1>8. Total(body.pulls) = Total(body.payouts)
  <2>1. [i \in DOMAIN body.pulls |-> body.pulls[i].value] = Values(debits)
    BY <1>3 DEF Values
  <2>2. [i \in DOMAIN body.payouts |-> body.payouts[i].value] = Values(payouts)
    BY <1>4 DEF Values
  <2>. QED BY <1>2, <2>1, <2>2 DEF Total
<1>. QED BY <1>2, <1>3, <1>4, <1>5, <1>6, <1>7, <1>8 DEF WellFormed

\* prepare_receipt_settlement.
LEMMA PreparedProved ==
  ASSUME Holding(token), executed = {}, token.used = {}, now = 1,
         NEW input \in McpInputs, NEW payer, NEW expiry \in Expiries,
         PrepareMcpReceiptSettlement(input, payer, expiry) # Rejected
  PROVE  LET made == PrepareMcpReceiptSettlement(input, payer, expiry)
             after == Outcome(PreparedBody(made))
             shares == AllocateMcpReceipt(input).shares
         IN  (\A i \in DOMAIN made.debits :
                token.balance[made.debits[i].debtor] >= made.debits[i].value) =>
               /\ after # Reverted
               /\ \A i \in DOMAIN Sorted(input.participants) :
                    after.balance[WalletOf(input, i)]
                      = token.balance[WalletOf(input, i)]
                        + FiatMinorToUsdcMinor(GainOf(input, payer, shares, i))
<1>. DEFINE made == PrepareMcpReceiptSettlement(input, payer, expiry)
            body == PreparedBody(made)
            shares == AllocateMcpReceipt(input).shares
            t == TransfersTo(input, payer, shares)
            ends == AggregateSettlementTransfers(t)
            hash == LedgerHash(PreparedLedger(input, payer))
            until == [i \in DOMAIN ends.debits |-> ExpiryOf(expiry)]
            n == Cardinality(input.participants)
            after == Outcome(body)
<1>1. /\ AllocateMcpReceipt(input) # Rejected
      /\ Given(input.wallets) = input.participants /\ payer \in input.participants
      /\ ExpiryAllowed(ExpiryOf(expiry)) /\ t # <<>>
      /\ made.debits = ends.debits
      /\ Signs(body, t, hash, until)
  BY PreparedUnfold
<1>2. DOMAIN shares = 1..n /\ \A i \in 1..n : shares[i] \in Nat
  BY <1>1, AllocationProved
<1>3. Settleable(input, payer)
  <2>1. InputLegal(input)
    BY <1>1, Allocating
  <2>. QED BY <1>1, <2>1 DEF Settleable, InputLegal
<1>. HIDE DEF made, body, t, hash, shares, n, until, ends, after
<1>4. /\ OnChain(t)
      /\ \A k \in DOMAIN t :
           /\ DebtorAt(input, payer, shares, k) \in OwingTo(input, payer, shares)
           /\ t[k].value = shares[DebtorAt(input, payer, shares, k)] * CentUnits
  BY <1>2, <1>3, TransfersMade DEF t, n
<1>5. /\ DOMAIN Sorted(input.participants) = 1..n
      /\ \A i \in 1..n : WalletOf(input, i) \in Addresses \ {Contract}
  BY <1>3, PersonsOrdered DEF n
<1>6. ASSUME NEW k \in DOMAIN t PROVE t[k].value > 0
  <2>. DEFINE i == DebtorAt(input, payer, shares, k)
              m == shares[i]
  <2>1. i \in 1..n /\ m > 0 /\ t[k].value = m * CentUnits
    BY <1>4, <1>5 DEF OwingTo
  <2>2. m \in Nat
    BY <1>2, <2>1
  <2>. HIDE DEF m
  <2>3. m * CentUnits > 0
    BY <2>1, <2>2, EngineAssumption
  <2>. QED BY <2>1, <2>3
<1>7. WellFormed(body)
  BY <1>1, <1>4, <1>6, SignedWellFormed
<1>8. /\ Submitted(body) /\ DOMAIN body.pulls = DOMAIN ends.debits
      /\ \A i \in DOMAIN body.pulls :
           /\ body.pulls[i] = SignDebit(body.id, ends.debits[i], Contract, until[i])
           /\ body.pulls[i].from = ends.debits[i].debtor
           /\ body.pulls[i].value = ends.debits[i].value
      /\ \A a : Drawn(body, a) = From(t, a) /\ Received(body, a) = To(t, a)
  BY <1>1, <1>4, SignedBody DEF ends
<1>9. ExpiryOf(expiry) \in Nat /\ 1 < ExpiryOf(expiry)
  <2>. DEFINE e == ExpiryOf(expiry)
  <2>1. e \in Nat
    BY ToolsAssumption DEF ExpiryOf
  <2>2. 12 * e >= Hour /\ Hour > 12 /\ Hour \in Nat
    BY <1>1, ToolsAssumption DEF ExpiryAllowed
  <2>. HIDE DEF e
  <2>3. 1 < e
    BY <2>1, <2>2
  <2>. QED BY <2>1, <2>3 DEF e
<1>10. ASSUME \A i \in DOMAIN made.debits :
                token.balance[made.debits[i].debtor] >= made.debits[i].value
       PROVE  Coverable(body)
  <2>. SUFFICES ASSUME NEW i \in DOMAIN body.pulls
                PROVE  LET p == body.pulls[i]
                       IN  /\ p.validAfter < now /\ now < p.validBefore
                           /\ <<p.from, p.nonce>> \notin token.used
                           /\ SignedBy(p.auth, p.from,
                                ReceiveAuthorization(p.from, p.to, p.value,
                                  p.validAfter, p.validBefore, p.nonce))
                           /\ token.balance[p.from] >= p.value
    BY DEF Coverable
  <2>. DEFINE p == body.pulls[i]
              d == ends.debits[i]
  <2>1. /\ p = SignDebit(body.id, d, Contract, until[i])
        /\ p.from = d.debtor /\ p.value = d.value /\ i \in DOMAIN ends.debits
    BY <1>8
  <2>2. until[i] = ExpiryOf(expiry)
    BY <2>1 DEF until
  <2>3. token.balance[d.debtor] >= d.value
    BY <1>1, <1>10, <2>1
  <2>. HIDE DEF p, d
  <2>4. /\ p.validAfter = 0 /\ p.validBefore = until[i]
        /\ SignedBy(p.auth, p.from,
             ReceiveAuthorization(p.from, p.to, p.value, p.validAfter, p.validBefore, p.nonce))
    BY <2>1 DEF SignDebit, SignedBy
  <2>5. p.validAfter < now /\ now < p.validBefore
    BY <1>9, <2>2, <2>4
  <2>6. token.balance[p.from] >= p.value
    BY <2>1, <2>3
  <2>. QED BY <2>4, <2>5, <2>6 DEF p
<1>11. ASSUME \A i \in DOMAIN made.debits :
                token.balance[made.debits[i].debtor] >= made.debits[i].value
       PROVE  /\ after # Reverted
              /\ \A i \in DOMAIN Sorted(input.participants) :
                   after.balance[WalletOf(input, i)]
                     = token.balance[WalletOf(input, i)]
                       + FiatMinorToUsdcMinor(GainOf(input, payer, shares, i))
  <2>1. after # Reverted
    BY <1>7, <1>8, <1>10, <1>11, OutcomeSucceeds DEF after
  <2>2. /\ Holding(after)
        /\ \A a \in Addresses \ {Contract} :
             after.balance[a] = token.balance[a] - Drawn(body, a) + Received(body, a)
    BY <1>8, <2>1, OutcomeMoves DEF after
  <2>3. ASSUME NEW i \in 1..n
        PROVE  after.balance[WalletOf(input, i)]
                 = token.balance[WalletOf(input, i)]
                   + FiatMinorToUsdcMinor(GainOf(input, payer, shares, i))
    <3>. DEFINE a == WalletOf(input, i)
    <3>1. To(t, a) - From(t, a) = FiatMinorToUsdcMinor(GainOf(input, payer, shares, i))
      <4>1. DOMAIN shares = 1..Cardinality(input.participants)
            /\ \A j \in DOMAIN shares : shares[j] \in Nat
        BY <1>2 DEF n
      <4>2. i \in DOMAIN shares
        BY <1>2
      <4>. QED BY <1>3, <4>1, <4>2, TransfersGain DEF t
    <3>2. a \in Addresses \ {Contract}
      BY <1>5
    <3>3. token.balance[a] \in Int
      BY <3>2 DEF Holding
    <3>4. From(t, a) \in Int /\ To(t, a) \in Int
      <4>1. t \in Seq(Transfer3)
        BY <1>4 DEF OnChain
      <4>2. IsFiniteSet(DOMAIN t)
        BY <4>1, SeqDomain
      <4>3. \A k \in DOMAIN t : Values(t)[k] \in Int
        <5>1. \A k \in DOMAIN t : t[k] \in Transfer3
          BY <4>1, SeqElement
        <5>. QED BY <5>1 DEF Values, Transfer3
      <4>. DEFINE F == {k \in DOMAIN t : t[k].from = a}
                  T == {k \in DOMAIN t : t[k].to = a}
      <4>4. /\ IsFiniteSet(F) /\ IsFiniteSet(T)
            /\ \A k \in F : Values(t)[k] \in Int
            /\ \A k \in T : Values(t)[k] \in Int
        BY <4>2, <4>3, FS_Subset
      <4>. HIDE DEF F, T, a
      <4>5. SumOver(Values(t), F) \in Int
        BY <4>4, SumInt
      <4>6. SumOver(Values(t), T) \in Int
        BY <4>4, SumInt
      <4>. QED BY <4>5, <4>6 DEF From, To, F, T
    <3>5. after.balance[a] = token.balance[a] - From(t, a) + To(t, a)
      BY <1>8, <2>2, <3>2
    <3>. HIDE DEF a
    <3>6. after.balance[a] = token.balance[a] + (To(t, a) - From(t, a))
      BY <3>3, <3>4, <3>5
    <3>. QED BY <3>1, <3>6 DEF a
  <2>. QED BY <1>5, <2>1, <2>3
<1>. QED BY <1>11 DEF made, body, after, shares


\* The answers the tools give, and the chain on which they give them.
Answer(tool, input, result) == [tool |-> tool, input |-> input, result |-> result]

\* The answer is one of split_equal's.
SplitsEqual ==
  \E total \in Totals, n \in {Len(w) : w \in WeightLists} :
    answer = Answer("split_equal", [total |-> total, weights |-> [i \in 1..n |-> 1]],
                    EqualSplit(total, n))

\* The answer is one of split_weighted's.
SplitsWeighted ==
  \E total \in Totals, weights \in WeightLists :
    answer = Answer("split_weighted", [total |-> total, weights |-> weights],
                    LargestRemainderSplit(total, weights))

\* The answer is one of net_debts'.
Nets ==
  \E debts \in DebtLists : answer = Answer("net_debts", debts, NettedTransfers(debts))

\* The answer is one of allocate_receipt's.
Allocates ==
  \E input \in McpInputs : answer = Answer("allocate_receipt", input, AllocateMcpReceipt(input))

\* The answer is one of prepare_receipt_settlement's.
Prepares ==
  \E input \in McpInputs, payer \in Payers, expiry \in Expiries :
    answer = Answer("prepare_receipt_settlement",
                    [input |-> input, payer |-> payer, expiry |-> expiry],
                    PrepareMcpReceiptSettlement(input, payer, expiry))

\* Nothing has been executed yet.
ChainFresh == token = [balance |-> Balances, used |-> {}] /\ executed = {} /\ now = 1

\* The tools answer with what the engine computes, on a fresh chain.
EngineInv ==
  /\ part # "tools" => answer = NoAnswer
  /\ part = "tools" => ChainFresh
  /\ answer = NoAnswer \/ SplitsEqual \/ SplitsWeighted \/ Nets \/ Allocates \/ Prepares

\* It holds at first.
LEMMA EngineInvInit == Init => EngineInv
  BY DEF Init, ToolsInit, RoomInit, ChainInit, EngineInv, ChainFresh

\* Every step keeps it.
LEMMA EngineInvNext ==
  ASSUME EngineInv, [Next]_<<part, answer, roomVars>>
  PROVE  EngineInv'
<1>1. CASE UNCHANGED <<part, answer, roomVars>>
  BY <1>1 DEF EngineInv, ChainFresh, SplitsEqual, SplitsWeighted, Nets, Allocates, Prepares, roomVars
<1>2. CASE UNCHANGED part /\ part = "room" /\ RoomNext /\ UNCHANGED answer
  BY <1>2 DEF EngineInv
<1>3. CASE UNCHANGED part /\ part = "tools" /\ ToolsNext /\ UNCHANGED roomVars
  <2>1. ChainFresh'
    BY <1>3 DEF EngineInv, ChainFresh, roomVars
  <2>2. SplitEqual => SplitsEqual'
    BY DEF SplitEqual, SplitsEqual, Replies, Answer
  <2>3. SplitWeighted => SplitsWeighted'
    BY DEF SplitWeighted, SplitsWeighted, Replies, Answer
  <2>4. NetDebts => Nets'
    BY DEF NetDebts, Nets, Replies, Answer
  <2>5. AllocateReceipt => Allocates'
    BY DEF AllocateReceipt, Allocates, Replies, Answer
  <2>6. PrepareReceiptSettlement => Prepares'
    BY DEF PrepareReceiptSettlement, Prepares, Replies, Answer
  <2>7. SplitsEqual' \/ SplitsWeighted' \/ Nets' \/ Allocates' \/ Prepares'
    BY <1>3, <2>2, <2>3, <2>4, <2>5, <2>6 DEF ToolsNext
  <2>. QED BY <1>3, <2>1, <2>7 DEF EngineInv
<1>. QED BY <1>1, <1>2, <1>3 DEF Next

\* Whatever the tools answer, by any of the operators, is sound.
LEMMA EngineInvSound == EngineInv => EngineSound
<1>. SUFFICES ASSUME EngineInv PROVE EngineSound
  OBVIOUS
<1>1. CASE answer = NoAnswer
  BY <1>1 DEF EngineSound, SplitsSound, NettingSound, AllocationSound, PreparedSettles, Answered
<1>2. CASE answer # NoAnswer /\ SplitsEqual
  <2>1. PICK total \in Totals, n \in {Len(w) : w \in WeightLists} :
          answer = Answer("split_equal", [total |-> total, weights |-> [i \in 1..n |-> 1]],
                          EqualSplit(total, n))
    BY <1>2 DEF SplitsEqual
  <2>. DEFINE w == [i \in 1..n |-> 1]
  <2>2. total \in Nat /\ w \in Seq(Nat)
    <3>1. n \in Nat
      BY ToolsAssumption
    <3>. QED BY <3>1, ToolsAssumption
  <2>3. EqualSplit(total, n) = LargestRemainderSplit(total, w)
    BY DEF EqualSplit
  <2>. HIDE DEF w
  <2>4. /\ answer.tool = "split_equal" /\ answer.input.total = total
        /\ answer.input.weights = w /\ answer.result = LargestRemainderSplit(total, w)
    BY <2>1, <2>3 DEF Answer, w
  <2>. HIDE <2>1
  <2>5. SplitsSound
    BY <2>2, <2>4, SplitsProved DEF SplitsSound, Answered
  <2>. QED BY <2>4, <2>5 DEF EngineSound, NettingSound, AllocationSound, PreparedSettles, Answered
<1>3. CASE answer # NoAnswer /\ SplitsWeighted
  <2>1. PICK total \in Totals, w \in WeightLists :
          answer = Answer("split_weighted", [total |-> total, weights |-> w],
                          LargestRemainderSplit(total, w))
    BY <1>3 DEF SplitsWeighted
  <2>2. total \in Nat /\ w \in Seq(Nat)
    BY ToolsAssumption
  <2>4. /\ answer.tool = "split_weighted" /\ answer.input.total = total
        /\ answer.input.weights = w /\ answer.result = LargestRemainderSplit(total, w)
    BY <2>1 DEF Answer
  <2>5. SplitsSound
    BY <2>2, <2>4, SplitsProved DEF SplitsSound, Answered
  <2>. QED BY <2>4, <2>5 DEF EngineSound, NettingSound, AllocationSound, PreparedSettles, Answered
<1>4. CASE answer # NoAnswer /\ Nets
  <2>1. PICK debts \in DebtLists : answer = Answer("net_debts", debts, NettedTransfers(debts))
    BY <1>4 DEF Nets
  <2>2. debts \in Seq(Debt) \ {<<>>}
    BY ToolsAssumption
  <2>3. answer.tool = "net_debts" /\ answer.input = debts /\ answer.result = NettedTransfers(debts)
    BY <2>1 DEF Answer
  <2>4. NetsOut(answer.input, answer.result)
    BY <2>2, <2>3, NettingProved
  <2>5. NettingSound
    BY <2>4 DEF NettingSound, NetsOut
  <2>. QED BY <2>3, <2>5 DEF EngineSound, SplitsSound, AllocationSound, PreparedSettles, Answered
<1>5. CASE answer # NoAnswer /\ Allocates
  <2>1. PICK input \in McpInputs :
          answer = Answer("allocate_receipt", input, AllocateMcpReceipt(input))
    BY <1>5 DEF Allocates
  <2>2. answer.tool = "allocate_receipt" /\ answer.input = input
        /\ answer.result = AllocateMcpReceipt(input)
    BY <2>1 DEF Answer
  <2>3. answer.result # Rejected => input.currency = "USD"
    BY <2>2, Allocating DEF InputLegal, IsSettlementCurrency
  <2>4. AllocationSound
    BY <2>2, <2>3, AllocationProved DEF AllocationSound, Answered
  <2>. QED BY <2>2, <2>4 DEF EngineSound, SplitsSound, NettingSound, PreparedSettles, Answered
<1>6. CASE answer # NoAnswer /\ Prepares
  <2>1. PICK input \in McpInputs, payer \in Payers, expiry \in Expiries :
          answer = Answer("prepare_receipt_settlement",
                          [input |-> input, payer |-> payer, expiry |-> expiry],
                          PrepareMcpReceiptSettlement(input, payer, expiry))
    BY <1>6 DEF Prepares
  <2>2. ChainFresh
    BY <1>6 DEF EngineInv
  <2>3. Holding(token) /\ executed = {} /\ token.used = {} /\ now = 1
    BY <2>2, ContractAssumption DEF ChainFresh, Holding, Addresses
  <2>. DEFINE made == PrepareMcpReceiptSettlement(input, payer, expiry)
  <2>4. /\ answer.tool = "prepare_receipt_settlement" /\ answer.result = made
        /\ answer.input.input = input /\ answer.input.payer = payer
    BY <2>1 DEF Answer
  <2>5. ASSUME made # Rejected
        PROVE  LET after == Outcome(PreparedBody(made))
                   shares == AllocateMcpReceipt(input).shares
               IN  (\A i \in DOMAIN made.debits :
                      token.balance[made.debits[i].debtor] >= made.debits[i].value) =>
                     /\ after # Reverted
                     /\ \A i \in DOMAIN Sorted(input.participants) :
                          after.balance[WalletOf(input, i)]
                            = token.balance[WalletOf(input, i)]
                              + FiatMinorToUsdcMinor(GainOf(input, payer, shares, i))
    BY <2>3, <2>5, PreparedProved
  <2>6. made # Rejected => input.currency = "USD"
    BY PreparedUnfold, Allocating DEF InputLegal, IsSettlementCurrency
  <2>. HIDE DEF made
  <2>7. PreparedSettles
    BY <2>4, <2>5, <2>6 DEF PreparedSettles, Answered, PreparedBody, WalletOf, Person, GainOf
  <2>. QED BY <2>4, <2>7 DEF EngineSound, SplitsSound, NettingSound, AllocationSound, Answered
<1>. QED BY <1>1, <1>2, <1>3, <1>4, <1>5, <1>6 DEF EngineInv

\* Whatever total, weights, debts or receipt the MCP tools are asked for, an
\* answer is right to the minor unit, and a prepared plan whose debtors are
\* covered executes and moves what the allocation says (mcp/route.ts,
\* packages/engine, FinalTabBatchSettlementV2).
THEOREM EngineAnswers == Spec => []EngineSound
<1>1. EngineInv /\ [Next]_<<part, answer, roomVars>> => EngineInv'
  BY EngineInvNext
<1>. QED BY <1>1, EngineInvInit, EngineInvSound, PTL DEF Spec


-----------------------------------------------------------------------------
(* A reviewed run and what follows from it. *)

\* A reviewed run: a proposal that reconciles, and a wallet of his own for everyone.
Run(run) ==
  /\ run.proposal \in Proposals /\ ReviewedShares[run.proposal] # Rejected
  /\ DOMAIN run.wallets = Persons
  /\ \A p \in Persons : run.wallets[p] \in Registered
  /\ \A p, q \in Persons : run.wallets[p] = run.wallets[q] => p = q

\* The debts of a reviewed run.
RunDebts(run) == SharesToDebts(ReviewedShares[run.proposal], run.proposal.payer)

\* The netted transfers between its people.
RunOut(run) == NettedTransfers(RunDebts(run))

\* The same between their wallets.
RunTransfers(run) ==
  [i \in DOMAIN RunOut(run) |->
     [from |-> run.wallets[RunOut(run)[i].debtor], to |-> run.wallets[RunOut(run)[i].creditor],
      value |-> RunOut(run)[i].amount]]

\* The hash of its ledger.
RunHash(run) == LedgerHash(CanonicalizeLedger(run.wallets, RunTransfers(run), "receipt"))

\* What the freeze derives, in these terms.
LEMMA DerivedUnfold ==
  ASSUME NEW run
  PROVE  LET ends == AggregateSettlementTransfers(RunTransfers(run))
         IN  Derived(run) = [ledgerHash |-> RunHash(run),
                             plan |-> HashSettlementPlan(RunHash(run), ends.debits, ends.payouts),
                             debits |-> ends.debits, payouts |-> ends.payouts]
  BY DEF Derived, FreezeLedger, RunTransfers, RunOut, RunDebts, RunHash

\* The reviewed shares and the debts they make.
LEMMA RunShares ==
  ASSUME NEW run, Run(run)
  PROVE  LET debts == RunDebts(run)
             payer == run.proposal.payer
         IN  /\ payer \in Persons
             /\ debts \in Seq(Debt) /\ DebtsLegal(debts)
             /\ \A p \in Persons : Owed(run, p) \in Nat
             /\ Owed(run, payer) = 0
             /\ \A i \in DOMAIN debts :
                  /\ debts[i].debtor \in Persons /\ debts[i].creditor = payer
                  /\ debts[i].amount = Owed(run, debts[i].debtor)
             /\ \A p \in Persons : Owed(run, p) # 0 => \E i \in DOMAIN debts : debts[i].debtor = p
             /\ \A i, j \in DOMAIN debts : debts[i].debtor = debts[j].debtor => i = j
<1>. DEFINE proposal == run.proposal
            payer == run.proposal.payer
            shares == ReviewedShares[proposal]
            A == Sharers(proposal)
            debts == RunDebts(run)
            owing == {p \in A : p # payer /\ shares[p] > 0}
<1>1. /\ proposal \in Proposals /\ shares # Rejected
      /\ shares = ReconcileAllocation(Receipt, proposal)
  BY DEF Run, ReviewedShares
<1>2. /\ IsFiniteSet(Persons) /\ \A p \in Persons : p \in Nat
      /\ Receipt.items \in Seq(ReceiptItem)
      /\ Receipt.extras \in Nat
  BY RoomAssumption
<1>3. proposal.allocations \in Seq(AllocationOver(Persons))
  BY <1>1, RoomAssumption
<1>. HIDE DEF proposal, shares
<1>4. /\ AllocationLegal(Receipt, proposal)
      /\ DOMAIN shares = A
      /\ \A p \in A : shares[p] \in Nat
  BY <1>1, <1>2, <1>3, ReconciledShares
<1>5. A \subseteq Persons /\ IsFiniteSet(A)
  BY <1>2, <1>3, SharersFinite
<1>6. payer \in A
  BY <1>4 DEF AllocationLegal, proposal
<1>7. debts = SharesToDebts(shares, payer)
  BY DEF RunDebts, shares, proposal
<1>. HIDE DEF A, debts, payer, owing
<1>8. /\ debts \in Seq(Debt) /\ DebtsLegal(debts)
      /\ \A i \in DOMAIN debts :
           /\ debts[i].debtor \in owing /\ debts[i].creditor = payer
           /\ debts[i].amount = shares[debts[i].debtor] * CentUnits
      /\ \A p \in owing : \E i \in DOMAIN debts : debts[i].debtor = p
      /\ \A i, j \in DOMAIN debts : debts[i].debtor = debts[j].debtor => i = j
  <2>1. \A p \in A : p \in Nat
    BY <1>2, <1>5
  <2>. QED BY <1>4, <1>5, <1>6, <1>7, <2>1, DebtsOfShares DEF owing
<1>9. \A p : Owed(run, p) = IF p \in A \ {payer} THEN shares[p] * CentUnits ELSE 0
  BY DEF Owed, A, payer, shares, proposal
<1>10. \A p \in Persons : Owed(run, p) \in Nat
  BY <1>4, <1>9, EngineAssumption, Product
<1>11. ASSUME NEW p \in Persons, Owed(run, p) # 0 PROVE \E i \in DOMAIN debts : debts[i].debtor = p
  <2>1. p \in A /\ p # payer /\ shares[p] \in Nat
    BY <1>4, <1>9, <1>11
  <2>2. shares[p] # 0
    <3>1. ASSUME shares[p] = 0 PROVE Owed(run, p) = 0
      BY <1>9, <3>1, EngineAssumption
    <3>. QED BY <1>11, <3>1
  <2>3. p \in owing
    BY <2>1, <2>2 DEF owing
  <2>. QED BY <1>8, <2>3
<1>12. \A i \in DOMAIN debts : /\ debts[i].debtor \in Persons
                               /\ debts[i].amount = Owed(run, debts[i].debtor)
  BY <1>5, <1>8, <1>9 DEF owing
<1>13. payer \in Persons /\ Owed(run, payer) = 0
  BY <1>5, <1>6, <1>9
<1>. QED BY <1>8, <1>10, <1>11, <1>12, <1>13 DEF debts, payer

\* What the debts change for everybody.
LEMMA RunChanges ==
  ASSUME NEW run, Run(run)
  PROVE  LET debts == RunDebts(run)
         IN  \A p \in Persons : /\ Change(run, p) \in Int
                                /\ Due(debts, p) - Owes(debts, p) = Change(run, p)
                                /\ Owed(run, p) # 0 => Change(run, p) = -Owed(run, p)
                                /\ Owed(run, p) = 0 => Change(run, p) >= 0
<1>. DEFINE debts == RunDebts(run)
            payer == run.proposal.payer
            D == DOMAIN debts
            values == Amounts(debts)
            key == [k \in D |-> debts[k].debtor]
            f == [p \in Persons |-> Owed(run, p)]
<1>1. /\ payer \in Persons
      /\ debts \in Seq(Debt)
      /\ \A p \in Persons : Owed(run, p) \in Nat
      /\ Owed(run, payer) = 0
      /\ \A i \in D : /\ debts[i].debtor \in Persons /\ debts[i].creditor = payer
                      /\ debts[i].amount = Owed(run, debts[i].debtor)
      /\ \A p \in Persons : Owed(run, p) # 0 => \E i \in D : debts[i].debtor = p
      /\ \A i, j \in D : debts[i].debtor = debts[j].debtor => i = j
  BY RunShares
<1>2. IsFiniteSet(D) /\ IsFiniteSet(Persons)
  BY <1>1, SeqDomain, RoomAssumption
<1>3. Star(values, key, D, f, Persons)
  BY <1>1 DEF Star, Amounts
<1>4. \A p \in Persons : f[p] \in Nat
  BY <1>1
<1>5. Change(run, payer) = SumOver(f, Persons)
  BY DEF Change
<1>6. \A p \in Persons : p # payer => Change(run, p) = -Owed(run, p)
  BY DEF Change
<1>7. \A p \in Persons : f[p] = Owed(run, p)
  OBVIOUS
<1>8. \A p : Owes(debts, p) = ByKey(values, key, D, p)
  BY DEF Owes, ByKey
<1>9. \A p : Due(debts, p) = SumOver(values, {i \in D : debts[i].creditor = p})
  BY DEF Due
<1>. HIDE DEF debts, payer, D, values, key, f
<1>10. /\ SumOver(values, D) = SumOver(f, Persons)
       /\ \A p \in Persons : ByKey(values, key, D, p) = f[p]
  BY <1>2, <1>3, StarSums
<1>11. SumOver(f, Persons) \in Nat
  BY <1>2, <1>4, SumNat
<1>12. ASSUME NEW p \in Persons PROVE Due(debts, p) = IF p = payer THEN SumOver(f, Persons) ELSE 0
  <2>1. {i \in D : debts[i].creditor = p} = IF p = payer THEN D ELSE {}
    BY <1>1
  <2>. QED BY <1>9, <1>10, <2>1, SumEmpty
<1>13. ASSUME NEW p \in Persons
       PROVE  /\ Change(run, p) \in Int
              /\ Due(debts, p) - Owes(debts, p) = Change(run, p)
              /\ Owed(run, p) # 0 => Change(run, p) = -Owed(run, p)
              /\ Owed(run, p) = 0 => Change(run, p) >= 0
  <2>1. Owes(debts, p) = Owed(run, p) /\ Owed(run, p) \in Nat
    BY <1>1, <1>7, <1>8, <1>10
  <2>2. CASE p = payer
    BY <1>1, <1>5, <1>11, <1>12, <2>1, <2>2
  <2>3. CASE p # payer
    BY <1>6, <1>12, <2>1, <2>3
  <2>. QED BY <2>2, <2>3
<1>. QED BY <1>13 DEF debts


\* Who is no debtor owes nothing.
LEMMA NoDebtOf ==
  ASSUME NEW s, NEW p, \A i \in DOMAIN s : s[i].debtor # p
  PROVE  Owes(s, p) = 0
<1>1. {i \in DOMAIN s : s[i].debtor = p} = {}
  OBVIOUS
<1>. QED BY <1>1, SumEmpty DEF Owes

\* Who is no creditor is due nothing.
LEMMA NothingDueTo ==
  ASSUME NEW s, NEW p, \A i \in DOMAIN s : s[i].creditor # p
  PROVE  Due(s, p) = 0
<1>1. {i \in DOMAIN s : s[i].creditor = p} = {}
  OBVIOUS
<1>. QED BY <1>1, SumEmpty DEF Due

\* What is due and owed are integers.
LEMMA OweInts ==
  ASSUME NEW s \in Seq(Debt), NEW p
  PROVE  Due(s, p) \in Int /\ Owes(s, p) \in Int
<1>. DEFINE t == [debtor |-> 0, creditor |-> 0, amount |-> 0]
<1>1. t \in Debt
  BY DEF Debt
<1>. HIDE DEF t
<1>. QED BY <1>1, TransferAdds

\* Netting keeps what the run changes for everybody, and only who owed pays.
LEMMA RunNets ==
  ASSUME NEW run, Run(run)
  PROVE  LET out == RunOut(run)
         IN  /\ out \in Seq(Debt)
             /\ \A i \in DOMAIN out : /\ out[i].debtor \in Persons /\ out[i].creditor \in Persons
                                      /\ out[i].amount > 0
             /\ \A p \in Persons : /\ Due(out, p) - Owes(out, p) = Change(run, p)
                                   /\ Owes(out, p) = Owed(run, p)
                                   /\ Due(out, p) \in Int /\ Owes(out, p) \in Int
<1>. DEFINE debts == RunDebts(run)
            out == RunOut(run)
            P == Parties(debts)
            first == NetPositions(debts)
<1>1. /\ debts \in Seq(Debt) /\ DebtsLegal(debts)
      /\ run.proposal.payer \in Persons
      /\ \A i \in DOMAIN debts : debts[i].debtor \in Persons /\ debts[i].creditor = run.proposal.payer
      /\ \A p \in Persons : Owed(run, p) \in Nat
  BY RunShares
<1>2. /\ out \in Seq(Debt)
      /\ \A p \in P : first[p] = Due(out, p) - Owes(out, p)
      /\ \A i \in DOMAIN out :
           /\ out[i].amount > 0
           /\ out[i].debtor \in P /\ first[out[i].debtor] < 0
           /\ out[i].creditor \in P /\ first[out[i].creditor] > 0
  BY <1>1, NettedSettles DEF RunOut
<1>3. \A p \in Persons : /\ Change(run, p) \in Int
                         /\ Due(debts, p) - Owes(debts, p) = Change(run, p)
                         /\ Owed(run, p) # 0 => Change(run, p) = -Owed(run, p)
                         /\ Owed(run, p) = 0 => Change(run, p) >= 0
  BY RunChanges
<1>4. /\ P \subseteq Persons
      /\ \A i \in DOMAIN debts : debts[i].debtor \in P /\ debts[i].creditor \in P
  BY <1>1 DEF Parties
<1>5. \A p \in P : first[p] = Change(run, p)
  BY <1>3, <1>4 DEF NetPositions
<1>. HIDE DEF debts, out, P, first
<1>6. \A i \in DOMAIN out : /\ out[i].debtor \in P /\ Change(run, out[i].debtor) < 0
                            /\ out[i].creditor \in P /\ Change(run, out[i].creditor) > 0
  BY <1>2, <1>5
<1>7. ASSUME NEW p \in Persons
      PROVE  /\ Due(out, p) - Owes(out, p) = Change(run, p)
             /\ Owes(out, p) = Owed(run, p)
             /\ Due(out, p) \in Int /\ Owes(out, p) \in Int
  <2>1. Due(out, p) \in Int /\ Owes(out, p) \in Int
    BY <1>2, OweInts
  <2>2. Due(out, p) - Owes(out, p) = Change(run, p)
    <3>1. CASE p \in P
      BY <1>2, <1>5, <3>1
    <3>2. CASE p \notin P
      <4>1. Due(debts, p) = 0 /\ Owes(debts, p) = 0
        <5>1. \A i \in DOMAIN debts : debts[i].debtor # p
          BY <1>4, <3>2
        <5>2. \A i \in DOMAIN debts : debts[i].creditor # p
          BY <1>4, <3>2
        <5>. QED BY <5>1, <5>2, NoDebtOf, NothingDueTo
      <4>2. Due(out, p) = 0 /\ Owes(out, p) = 0
        <5>1. \A i \in DOMAIN out : out[i].debtor # p
          BY <1>2, <3>2
        <5>2. \A i \in DOMAIN out : out[i].creditor # p
          BY <1>2, <3>2
        <5>. QED BY <5>1, <5>2, NoDebtOf, NothingDueTo
      <4>. QED BY <1>3, <4>1, <4>2
    <3>. QED BY <3>1, <3>2
  <2>3. Owes(out, p) = Owed(run, p)
    <3>1. CASE Owed(run, p) = 0
      <4>1. \A i \in DOMAIN out : out[i].debtor # p
        BY <1>3, <1>6, <3>1
      <4>. QED BY <3>1, <4>1, NoDebtOf
    <3>2. CASE Owed(run, p) # 0
      <4>1. Change(run, p) = -Owed(run, p) /\ Owed(run, p) \in Nat
        BY <1>1, <1>3, <3>2
      <4>2. \A i \in DOMAIN out : out[i].creditor # p
        BY <1>6, <3>2, <4>1
      <4>3. Due(out, p) = 0
        BY <4>2, NothingDueTo
      <4>. QED BY <2>1, <2>2, <4>1, <4>3
    <3>. QED BY <3>1, <3>2
  <2>. QED BY <2>1, <2>2, <2>3
<1>. QED BY <1>2, <1>4, <1>6, <1>7 DEF out

\* The transfers of a run, by wallet.
LEMMA RunMoves ==
  ASSUME NEW run, Run(run)
  PROVE  LET T == RunTransfers(run)
         IN  /\ OnChain(T)
             /\ \A i \in DOMAIN T : T[i].value > 0
             /\ \A p \in Persons :
                  /\ From(T, run.wallets[p]) = Owed(run, p)
                  /\ To(T, run.wallets[p]) - From(T, run.wallets[p]) = Change(run, p)
                  /\ From(T, run.wallets[p]) \in Int /\ To(T, run.wallets[p]) \in Int
             /\ \A a : (\A p \in Persons : run.wallets[p] # a) => From(T, a) = 0 /\ To(T, a) = 0
             /\ \A p \in Persons : Owed(run, p) # 0 => \E i \in DOMAIN T : T[i].from = run.wallets[p]
<1>. DEFINE T == RunTransfers(run)
            out == RunOut(run)
            D == DOMAIN out
            w == run.wallets
<1>1. /\ out \in Seq(Debt)
      /\ \A i \in D : /\ out[i].debtor \in Persons /\ out[i].creditor \in Persons
                      /\ out[i].amount > 0
      /\ \A p \in Persons : /\ Due(out, p) - Owes(out, p) = Change(run, p)
                            /\ Owes(out, p) = Owed(run, p)
                            /\ Due(out, p) \in Int /\ Owes(out, p) \in Int
  BY RunNets
<1>2. /\ DOMAIN T = D /\ T = [i \in DOMAIN T |-> T[i]]
      /\ \A i \in D : T[i] = [from |-> w[out[i].debtor], to |-> w[out[i].creditor],
                              value |-> out[i].amount]
  BY DEF RunTransfers
<1>3. /\ \A p \in Persons : w[p] \in Registered
      /\ \A p, q \in Persons : w[p] = w[q] => p = q
      /\ Registered \subseteq Nat /\ Registered \subseteq Addresses /\ Contract \notin Registered
  BY RoomAssumption DEF Run, Addresses
<1>4. \A i \in D : out[i] \in Debt
  BY <1>1, SeqElement
<1>. HIDE DEF T, out, D, w
<1>5. OnChain(T)
  <2>1. \A i \in DOMAIN T : T[i] \in Transfer3
    <3>. SUFFICES ASSUME NEW i \in D PROVE T[i] \in Transfer3
      BY <1>2
    <3>1. out[i].debtor \in Persons /\ out[i].creditor \in Persons
      BY <1>1
    <3>2. w[out[i].debtor] \in Nat /\ w[out[i].creditor] \in Nat
      BY <1>3, <3>1
    <3>3. out[i].amount \in Nat
      BY <1>4 DEF Debt
    <3>. QED BY <1>2, <3>2, <3>3 DEF Transfer3
  <2>2. T \in Seq(Transfer3)
    <3>. DEFINE n == Len(out)
    <3>1. n \in Nat /\ DOMAIN T = 1..n
      BY <1>1, <1>2, SeqDomain DEF D
    <3>. HIDE DEF n
    <3>. QED BY <1>2, <2>1, <3>1, IsSeq
  <2>3. \A i \in DOMAIN T : T[i].from \in Addresses \ {Contract} /\ T[i].to \in Addresses \ {Contract}
    BY <1>1, <1>2, <1>3
  <2>. QED BY <2>2, <2>3 DEF OnChain
<1>6. Values(T) = Amounts(out)
  BY <1>2 DEF Values, Amounts, D
<1>7. ASSUME NEW p \in Persons PROVE From(T, w[p]) = Owes(out, p) /\ To(T, w[p]) = Due(out, p)
  <2>1. {i \in DOMAIN T : T[i].from = w[p]} = {i \in DOMAIN out : out[i].debtor = p}
    <3>1. \A i \in D : T[i].from = w[p] <=> out[i].debtor = p
      BY <1>1, <1>2, <1>3
    <3>. QED BY <1>2, <3>1 DEF D
  <2>2. {i \in DOMAIN T : T[i].to = w[p]} = {i \in DOMAIN out : out[i].creditor = p}
    <3>1. \A i \in D : T[i].to = w[p] <=> out[i].creditor = p
      BY <1>1, <1>2, <1>3
    <3>. QED BY <1>2, <3>1 DEF D
  <2>. QED BY <1>6, <2>1, <2>2 DEF From, To, Due, Owes
<1>8. ASSUME NEW a, \A p \in Persons : w[p] # a PROVE From(T, a) = 0 /\ To(T, a) = 0
  <2>1. {i \in DOMAIN T : T[i].from = a} = {} /\ {i \in DOMAIN T : T[i].to = a} = {}
    <3>1. \A i \in DOMAIN T : /\ T[i].from = w[out[i].debtor] /\ T[i].to = w[out[i].creditor]
                              /\ out[i].debtor \in Persons /\ out[i].creditor \in Persons
      BY <1>1, <1>2
    <3>2. \A i \in DOMAIN T : T[i].from # a /\ T[i].to # a
      BY <1>8, <3>1
    <3>. QED BY <3>2
  <2>. QED BY <2>1, SumEmpty DEF From, To
<1>9. ASSUME NEW p \in Persons, Owed(run, p) # 0 PROVE \E i \in DOMAIN T : T[i].from = w[p]
  <2>1. ~(\A i \in DOMAIN out : out[i].debtor # p)
    BY <1>1, <1>9, NoDebtOf
  <2>. QED BY <1>2, <2>1 DEF D
<1>10. \A i \in DOMAIN T : T[i].value > 0
  BY <1>1, <1>2
<1>. QED BY <1>1, <1>5, <1>7, <1>8, <1>9, <1>10 DEF T, w


-----------------------------------------------------------------------------
(* The inductive invariant of the settlement room. *)

\* The server's participants and what the page and its review hold.
ReviewedRun(run) ==
  /\ run.proposal \in Proposals /\ ReviewedShares[run.proposal] # Rejected
  /\ run.wallets \in [Persons -> Registered]

\* What the server holds of the people, and the page of its review.
PageInv ==
  /\ wallet \in [Persons -> Registered]
  /\ page = [people |-> page.people, proposal |-> page.proposal,
             review |-> page.review, locked |-> page.locked]
  /\ page.proposal # None =>
       page.proposal \in Proposals /\ ReviewedShares[page.proposal] # Rejected
  /\ page.review # None => ReviewedRun(page.review.run)

\* A freeze in flight writes what its run derives.
FreezingInv ==
  freezing # None =>
    /\ freezing = [frozen |-> freezing.frozen, run |-> freezing.run, awaited |-> freezing.awaited]
    /\ Run(freezing.run) /\ freezing.frozen = Derived(freezing.run)

\* How long each pull is valid.
Until(body) == [i \in DOMAIN body.pulls |-> body.pulls[i].validBefore]

\* The body is the signed plan of the run.
BodyOf(body, run) == Signs(body, RunTransfers(run), RunHash(run), Until(body))

\* The flow is bound to its run, and its body to the plan.
FlowInv ==
  flow # NoFlow =>
    /\ flow = [plan |-> flow.plan, ledgerHash |-> flow.ledgerHash, run |-> flow.run,
               state |-> flow.state, body |-> flow.body]
    /\ Run(flow.run) /\ wallet = flow.run.wallets
    /\ flow.plan = Derived(flow.run).plan /\ flow.ledgerHash = Derived(flow.run).ledgerHash
    /\ flow.state = "frozen" => flow.body = None
    /\ flow.state # "frozen" => BodyOf(flow.body, flow.run)

\* The rail shows the flow's plan; past signing every debit of it is signed.
Signatures(r) ==
  /\ Len(r.signed) \in Nat
  /\ r.signed = [i \in 1..Len(r.signed) |->
       SignDebit(r.frozen.plan, r.frozen.debits[i], Contract, r.signed[i].validBefore)]

\* The rail shows its flow's plan, and what it holds is signed over that
\* plan; past signing every debit is signed.
RailInv ==
  rail # None =>
    /\ rail = [frozen |-> rail.frozen, signed |-> rail.signed, stage |-> rail.stage]
    /\ flow # NoFlow /\ rail.frozen = Derived(flow.run)
    /\ rail.stage = "frozen" =>
         /\ Signatures(rail)
         /\ Len(rail.frozen.debits) # 0 => Len(rail.signed) < Len(rail.frozen.debits)
    /\ rail.stage \in {"signed", "simulation_failed", "simulated"} =>
         Signatures(rail) /\ Len(rail.signed) = Len(rail.frozen.debits)

\* What the executed plan has changed for an address.
Flowed(a) ==
  IF chainLog = <<>> THEN 0
  ELSE To(RunTransfers(flow.run), a) - From(RunTransfers(flow.run), a)

\* The chain has executed the flow's body at most, within the time of its
\* signatures.
ExecutedInv ==
  chainLog # <<>> =>
    /\ Len(chainLog) = 1 /\ DOMAIN chainLog = {1}
    /\ flow # NoFlow /\ flow.state # "frozen" /\ flow.plan \in executed
    /\ chainLog[1].body = flow.body
    /\ \A n \in DOMAIN flow.body.pulls : chainLog[1].at < flow.body.pulls[n].validBefore

\* The token holds what it held at first and what the executed plan has
\* moved.
ChainInv ==
  /\ Holding(token)
  /\ tx # "none" => flow # NoFlow /\ flow.state # "frozen"
  /\ ExecutedInv
  /\ \A a \in Addresses \ Spending : token.balance[a] = Balances[a] + Flowed(a)
  /\ SettledOnChain

\* The inductive invariant of the room.
RoomInv == PageInv /\ FreezingInv /\ FlowInv /\ RailInv /\ ChainInv

\* A step that leaves the page alone.
LEMMA KeepsPage == PageInv /\ UNCHANGED <<wallet, page>> => PageInv'
  BY DEF PageInv, ReviewedRun

\* A step that leaves the freeze alone.
LEMMA KeepsFreezing == FreezingInv /\ UNCHANGED freezing => FreezingInv'
  BY DEF FreezingInv

\* A step that leaves the flow and the wallets alone.
LEMMA KeepsFlow == FlowInv /\ UNCHANGED <<wallet, flow>> => FlowInv'
  BY DEF FlowInv

\* A step that leaves the rail and its flow alone.
LEMMA KeepsRail == RailInv /\ UNCHANGED <<flow, rail>> => RailInv'
  BY DEF RailInv, Signatures

\* A step that leaves the chain and the flow alone.
LEMMA KeepsChain ==
  ChainInv /\ UNCHANGED <<token, executed, chainLog, tx, flow>> => ChainInv'
<1>. SUFFICES ASSUME ChainInv, UNCHANGED <<token, executed, chainLog, tx, flow>>
              PROVE  ChainInv'
  OBVIOUS
<1>1. Holding(token)' /\ ExecutedInv' /\ SettledOnChain'
  BY DEF ChainInv, Holding, ExecutedInv, SettledOnChain
<1>2. \A a : Flowed(a)' = Flowed(a)
  BY DEF Flowed
<1>. QED BY <1>1, <1>2 DEF ChainInv

\* The debits and payouts of a run, as they are hashed, signed and paid.
LEMMA RunEnds ==
  ASSUME NEW run, Run(run)
  PROVE  LET d == Derived(run)
             T == RunTransfers(run)
         IN  /\ d = [ledgerHash |-> RunHash(run), plan |-> d.plan,
                     debits |-> d.debits, payouts |-> d.payouts]
             /\ d.plan.debits = d.debits /\ d.plan.payouts = d.payouts
             /\ d.plan = HashSettlementPlan(RunHash(run), d.debits, d.payouts)
             /\ d.debits = AggregateSettlementTransfers(T).debits
             /\ d.payouts = AggregateSettlementTransfers(T).payouts
             /\ Len(d.debits) \in Nat /\ DOMAIN d.debits = 1..Len(d.debits)
             /\ \A p \in Persons : Owed(run, p) # 0 =>
                  \E i \in DOMAIN d.debits :
                    d.debits[i] = [debtor |-> run.wallets[p], value |-> Owed(run, p)]
             /\ Total(d.debits) = Total(d.payouts)
<1>. DEFINE T == RunTransfers(run)
            ends == AggregateSettlementTransfers(T)
            d == Derived(run)
            froms == {T[i].from : i \in DOMAIN T}
<1>1. d = [ledgerHash |-> RunHash(run),
           plan |-> HashSettlementPlan(RunHash(run), ends.debits, ends.payouts),
           debits |-> ends.debits, payouts |-> ends.payouts]
  BY DerivedUnfold
<1>2. /\ OnChain(T)
      /\ \A p \in Persons : From(T, run.wallets[p]) = Owed(run, p)
      /\ \A p \in Persons : Owed(run, p) # 0 => \E i \in DOMAIN T : T[i].from = run.wallets[p]
  BY RunMoves
<1>3. /\ ends.debits \in Seq([debtor : froms, value : Nat])
      /\ SumSeq(Values(ends.debits)) = SumSeq(Values(ends.payouts))
      /\ \A a \in froms : \E i \in DOMAIN ends.debits :
           ends.debits[i] = [debtor |-> a, value |-> From(T, a)]
  BY <1>2, AggregatesTransfers DEF OnChain
<1>. HIDE DEF T, ends, d
<1>4. Len(ends.debits) \in Nat /\ DOMAIN ends.debits = 1..Len(ends.debits)
  BY <1>3
<1>5. ASSUME NEW p \in Persons, Owed(run, p) # 0
      PROVE  \E i \in DOMAIN d.debits :
               d.debits[i] = [debtor |-> run.wallets[p], value |-> Owed(run, p)]
  <2>1. run.wallets[p] \in froms
    BY <1>2, <1>5
  <2>. QED BY <1>1, <1>2, <1>3, <2>1
<1>6. Total(d.debits) = Total(d.payouts)
  BY <1>1, <1>3 DEF Total, Values
<1>7. d.plan.debits = d.debits /\ d.plan.payouts = d.payouts
  BY <1>1 DEF HashSettlementPlan
<1>. QED BY <1>1, <1>4, <1>5, <1>6, <1>7 DEF d, ends, T

\* The plan says all that was derived with it.
LEMMA SamePlan ==
  ASSUME NEW r, Run(r), NEW s, Run(s), Derived(r).plan = Derived(s).plan
  PROVE  Derived(r) = Derived(s)
<1>1. /\ Derived(r).plan = HashSettlementPlan(RunHash(r), Derived(r).debits, Derived(r).payouts)
      /\ Derived(r) = [ledgerHash |-> RunHash(r), plan |-> Derived(r).plan,
                       debits |-> Derived(r).debits, payouts |-> Derived(r).payouts]
  BY RunEnds
<1>2. /\ Derived(s).plan = HashSettlementPlan(RunHash(s), Derived(s).debits, Derived(s).payouts)
      /\ Derived(s) = [ledgerHash |-> RunHash(s), plan |-> Derived(s).plan,
                       debits |-> Derived(s).debits, payouts |-> Derived(s).payouts]
  BY RunEnds
<1>3. \A h, d, p : LET x == HashSettlementPlan(h, d, p)
                   IN x.ledgerHash = h /\ x.debits = d /\ x.payouts = p
  BY DEF HashSettlementPlan
<1>4. /\ RunHash(r) = RunHash(s) /\ Derived(r).debits = Derived(s).debits
      /\ Derived(r).payouts = Derived(s).payouts
  BY <1>1, <1>2, <1>3
<1>. QED BY <1>1, <1>2, <1>4

\* It holds before anything is frozen.
LEMMA RoomInvInit == RoomInit => RoomInv
<1>. SUFFICES ASSUME RoomInit PROVE RoomInv
  OBVIOUS
<1>1. PageInv
  BY DEF RoomInit, PageInv, FreshPage
<1>2. FreezingInv /\ FlowInv /\ RailInv
  BY DEF RoomInit, FreezingInv, FlowInv, RailInv
<1>3. Holding(token)
  BY ContractAssumption DEF RoomInit, ChainInit, Holding, Addresses
<1>4. \A a \in Addresses \ Spending : token.balance[a] = Balances[a] + Flowed(a)
  <2>1. token.balance = Balances /\ chainLog = <<>>
    BY DEF RoomInit, ChainInit
  <2>2. \A a \in Addresses : Balances[a] \in Nat
    BY ContractAssumption DEF Addresses
  <2>. QED BY <2>1, <2>2 DEF Flowed
<1>5. ChainInv
  BY <1>3, <1>4 DEF RoomInit, ChainInit, ChainInv, ExecutedInv, SettledOnChain
<1>. QED BY <1>1, <1>2, <1>5 DEF RoomInv


-----------------------------------------------------------------------------
(* The invariant honours the plan. *)

\* A frozen plan asks everybody for what was reviewed.
LEMMA HonoursReview == RoomInv => FrozenAsReviewed
<1>. SUFFICES ASSUME RoomInv, flow # NoFlow PROVE FrozenAsReviewed
  BY DEF FrozenAsReviewed
<1>. DEFINE run == flow.run
            d == Derived(run)
<1>1. Run(run) /\ wallet = run.wallets /\ flow.plan = d.plan
  BY DEF RoomInv, FlowInv
<1>2. /\ d.plan.debits = d.debits /\ d.plan.payouts = d.payouts
      /\ \A p \in Persons : Owed(run, p) # 0 =>
           \E i \in DOMAIN d.debits :
             d.debits[i] = [debtor |-> run.wallets[p], value |-> Owed(run, p)]
      /\ Total(d.debits) = Total(d.payouts)
  BY <1>1, RunEnds
<1>3. \A p \in Persons : Owed(run, p) \in Nat
  BY <1>1, RunShares
<1>. HIDE DEF run, d
<1>4. ASSUME NEW p \in Persons, Owed(run, p) > 0
      PROVE  \E i \in DOMAIN flow.plan.debits :
               flow.plan.debits[i] = [debtor |-> wallet[p], value |-> Owed(run, p)]
  <2>1. Owed(run, p) # 0
    BY <1>3, <1>4
  <2>. QED BY <1>1, <1>2, <2>1
<1>. QED BY <1>1, <1>2, <1>4 DEF FrozenAsReviewed, run

\* The body of a flow, as its run derives it.
LEMMA FlowBody ==
  ASSUME FlowInv, flow # NoFlow, flow.state # "frozen"
  PROVE  LET body == flow.body
             T == RunTransfers(flow.run)
         IN  /\ Submitted(body) /\ body.id = flow.plan /\ body.ledgerHash = flow.ledgerHash
             /\ \A a : Drawn(body, a) = From(T, a) /\ Received(body, a) = To(T, a)
             /\ \A i \in DOMAIN body.pulls :
                  body.pulls[i].auth.by = body.pulls[i].from
                  /\ body.pulls[i].consent.over.plan = flow.plan
<1>. DEFINE body == flow.body
            run == flow.run
            T == RunTransfers(run)
            ends == AggregateSettlementTransfers(T)
<1>1. /\ Run(run) /\ flow.plan = Derived(run).plan /\ flow.ledgerHash = Derived(run).ledgerHash
      /\ Signs(body, T, RunHash(run), Until(body))
  BY DEF FlowInv, BodyOf
<1>2. OnChain(T)
  BY <1>1, RunMoves
<1>. DEFINE until == Until(body)
            hash == RunHash(run)
<1>. HIDE DEF T, until, hash, body
<1>3. /\ Submitted(body)
      /\ \A i \in DOMAIN body.pulls :
           body.pulls[i] = SignDebit(body.id, ends.debits[i], Contract, until[i])
      /\ \A a : Drawn(body, a) = From(T, a)
      /\ \A a : Received(body, a) = To(T, a)
  <2>1. Signs(body, T, hash, until)
    BY <1>1 DEF until, hash
  <2>. QED BY <1>2, <2>1, SignedBody
<1>4. body.id = flow.plan /\ body.ledgerHash = flow.ledgerHash
  <2>1. Derived(run).plan = HashSettlementPlan(RunHash(run), ends.debits, ends.payouts)
        /\ Derived(run).ledgerHash = RunHash(run)
    BY DerivedUnfold DEF T
  <2>. QED BY <1>1, <2>1 DEF Signs
<1>5. \A plan, e, u : /\ SignDebit(plan, e, Contract, u).auth.by = SignDebit(plan, e, Contract, u).from
                      /\ SignDebit(plan, e, Contract, u).consent.over.plan = plan
  BY DEF SignDebit, SettlementConsent
<1>6. \A i \in DOMAIN body.pulls : /\ body.pulls[i].auth.by = body.pulls[i].from
                                   /\ body.pulls[i].consent.over.plan = flow.plan
  BY <1>3, <1>4, <1>5
<1>. QED BY <1>3, <1>4, <1>6 DEF body, T

\* What the chain moved is what was reviewed.
LEMMA HonoursShares == RoomInv => SharesMoved
<1>. SUFFICES ASSUME RoomInv PROVE SharesMoved
  OBVIOUS
<1>1. FlowInv /\ ChainInv /\ Holding(token) /\ ExecutedInv
  BY DEF RoomInv, ChainInv
<1>2. Len(chainLog) <= 1 /\ (chainLog # <<>> => chainLog[1].body.id = flow.plan)
  <2>1. CASE chainLog = <<>>
    BY <2>1
  <2>2. CASE chainLog # <<>>
    <3>1. flow # NoFlow /\ flow.state # "frozen" /\ chainLog[1].body = flow.body /\ Len(chainLog) = 1
      BY <1>1, <2>2 DEF ExecutedInv
    <3>. QED BY <1>1, <3>1, FlowBody
  <2>. QED BY <2>1, <2>2
<1>3. ASSUME NEW a \in Addresses \ Spending
      PROVE  LET moved == IF chainLog = <<>> THEN [p \in Persons |-> 0]
                          ELSE [p \in Persons |-> Change(flow.run, p)]
             IN  SumOver(moved, {p \in Persons : wallet[p] = a}) = Flowed(a)
  <2>. DEFINE S == {p \in Persons : wallet[p] = a}
              T == RunTransfers(flow.run)
  <2>1. IsFiniteSet(S)
    BY RoomAssumption, FS_Subset
  <2>2. CASE chainLog = <<>>
    <3>. DEFINE z == [p \in Persons |-> 0]
    <3>1. \A p \in S : z[p] = 0
      OBVIOUS
    <3>. HIDE DEF z, S
    <3>2. SumOver(z, S) = 0 * Cardinality(S)
      BY <2>1, <3>1, SumConst
    <3>3. SumOver(z, S) = 0
      BY <2>1, <3>2, FS_CardinalityType
    <3>. QED BY <2>2, <3>3 DEF Flowed, z, S
  <2>3. CASE chainLog # <<>>
    <3>1. Run(flow.run) /\ wallet = flow.run.wallets
      BY <1>1, <2>3 DEF ExecutedInv, FlowInv
    <3>2. /\ \A p \in Persons : To(T, wallet[p]) - From(T, wallet[p]) = Change(flow.run, p)
          /\ (\A p \in Persons : wallet[p] # a) => From(T, a) = 0 /\ To(T, a) = 0
      BY <3>1, RunMoves
    <3>3. \A p \in Persons : Change(flow.run, p) \in Int
      BY <3>1, RunChanges
    <3>. DEFINE m == [p \in Persons |-> Change(flow.run, p)]
    <3>4. Flowed(a) = To(T, a) - From(T, a)
      BY <2>3 DEF Flowed
    <3>5. SumOver(m, S) = Flowed(a)
      <4>1. CASE \E p \in Persons : wallet[p] = a
        <5>1. PICK p \in Persons : wallet[p] = a
          BY <4>1
        <5>2. S = {p}
          BY <3>1, <5>1 DEF Run
        <5>3. m[p] = Change(flow.run, p) /\ m[p] \in Int
          BY <3>3
        <5>. HIDE DEF m, S
        <5>4. SumOver(m, {p}) = m[p]
          BY <5>3, SumOne
        <5>. QED BY <3>2, <3>4, <5>1, <5>2, <5>3, <5>4
      <4>2. CASE ~(\E p \in Persons : wallet[p] = a)
        <5>1. S = {}
          BY <4>2
        <5>2. Flowed(a) = 0
          BY <3>2, <3>4, <4>2
        <5>. QED BY <5>1, <5>2, SumEmpty
      <4>. QED BY <4>1, <4>2
    <3>. QED BY <2>3, <3>5
  <2>. QED BY <2>2, <2>3
<1>4. \A a \in DOMAIN Balances \ Spending :
        LET moved == IF chainLog = <<>> THEN [p \in Persons |-> 0]
                     ELSE [p \in Persons |-> Change(flow.run, p)]
        IN  token.balance[a] = Balances[a] + SumOver(moved, {p \in Persons : wallet[p] = a})
  BY <1>1, <1>3 DEF ChainInv, Addresses
<1>5. SumOver(token.balance, DOMAIN token.balance) = SumOver(Balances, DOMAIN Balances)
  BY <1>1 DEF Holding, Addresses
<1>. QED BY <1>2, <1>4, <1>5 DEF SharesMoved

\* And no signature was out of time.
LEMMA HonoursTime == RoomInv => PulledInTime
<1>. SUFFICES ASSUME RoomInv, NEW i \in DOMAIN chainLog, NEW n \in DOMAIN chainLog[i].body.pulls
              PROVE  LET p == chainLog[i].body.pulls[n]
                     IN  /\ chainLog[i].at < p.validBefore
                         /\ p.auth.by = p.from /\ p.consent.over.plan = flow.plan
  BY DEF PulledInTime
<1>1. chainLog # <<>> /\ FlowInv /\ ExecutedInv
  BY DEF RoomInv, ChainInv
<1>2. /\ i = 1 /\ flow # NoFlow /\ flow.state # "frozen" /\ chainLog[1].body = flow.body
      /\ \A m \in DOMAIN flow.body.pulls : chainLog[1].at < flow.body.pulls[m].validBefore
  BY <1>1 DEF ExecutedInv
<1>3. \A m \in DOMAIN flow.body.pulls :
        flow.body.pulls[m].auth.by = flow.body.pulls[m].from
        /\ flow.body.pulls[m].consent.over.plan = flow.plan
  BY <1>1, <1>2, FlowBody
<1>. QED BY <1>2, <1>3

\* The invariant says more than that the plan is honoured.
LEMMA RoomHonours == RoomInv => PlanHonoured
  BY HonoursReview, HonoursShares, HonoursTime DEF PlanHonoured, RoomInv, ChainInv


-----------------------------------------------------------------------------
(* Every step keeps the invariant. *)

\* What an appended sequence holds.
LEMMA AppendIs ==
  ASSUME NEW n \in Nat, NEW s, DOMAIN s = 1..n, s = [i \in 1..n |-> s[i]], NEW x
  PROVE  LET t == Append(s, x)
         IN  /\ Len(t) = n + 1 /\ t = [i \in 1..(n + 1) |-> t[i]]
             /\ \A i \in 1..n : t[i] = s[i]
             /\ t[n + 1] = x
<1>. DEFINE S == {s[i] : i \in 1..n} \cup {x}
<1>1. s \in Seq(S) /\ Len(s) = n /\ x \in S
  <2>1. \A i \in DOMAIN s : s[i] \in S
    OBVIOUS
  <2>2. x \in S /\ s = [i \in DOMAIN s |-> s[i]]
    OBVIOUS
  <2>. HIDE DEF S
  <2>. QED BY <2>1, <2>2, IsSeq
<1>. HIDE DEF S
<1>. QED BY <1>1

\* A reviewed run whose wallets are distinct.
LEMMA DistinctRun ==
  ASSUME NEW run, ReviewedRun(run), Distinct(run.wallets)
  PROVE  Run(run)
  BY DEF ReviewedRun, Run, Distinct

\* The page reads the participants.
LEMMA LoadPeopleKeeps ==
  ASSUME RoomInv, LoadPeople
  PROVE  RoomInv'
<1>1. PageInv'
  BY DEF RoomInv, PageInv, LoadPeople, ReviewedRun
<1>. QED BY <1>1, KeepsFreezing, KeepsFlow, KeepsRail, KeepsChain DEF RoomInv, LoadPeople

\* A participant changes his wallet.
LEMMA ChangeWalletKeeps ==
  ASSUME RoomInv, ChangeWallet
  PROVE  RoomInv'
<1>1. PageInv'
  <2>5. PICK p \in Persons : \E a \in Wallets[p] : wallet' = [wallet EXCEPT ![p] = a]
    BY DEF ChangeWallet
  <2>1. PICK a \in Wallets[p] : wallet' = [wallet EXCEPT ![p] = a]
    BY <2>5
  <2>2. a \in Registered
    BY DEF Registered
  <2>3. wallet' \in [Persons -> Registered]
    BY <2>1, <2>2 DEF RoomInv, PageInv
  <2>4. page' = page
    BY DEF ChangeWallet
  <2>. QED BY <2>3, <2>4 DEF RoomInv, PageInv, ReviewedRun
<1>2. FlowInv'
  BY DEF ChangeWallet, FlowInv
<1>. QED BY <1>1, <1>2, KeepsFreezing, KeepsRail, KeepsChain DEF RoomInv, ChangeWallet

\* The page proposes.
LEMMA AllocateKeeps ==
  ASSUME RoomInv, Allocate
  PROVE  RoomInv'
<1>1. PageInv'
  BY DEF RoomInv, PageInv, Allocate, ReviewedRun
<1>. QED BY <1>1, KeepsFreezing, KeepsFlow, KeepsRail, KeepsChain DEF RoomInv, Allocate

\* The server reviews.
LEMMA ReviewKeeps ==
  ASSUME RoomInv, Review
  PROVE  RoomInv'
<1>1. PageInv'
  <2>. DEFINE run == [proposal |-> page.proposal, wallets |-> wallet]
  <2>1. /\ wallet \in [Persons -> Registered]
        /\ page = [people |-> page.people, proposal |-> page.proposal,
                   review |-> page.review, locked |-> page.locked]
        /\ page.proposal \in Proposals /\ ReviewedShares[page.proposal] # Rejected
    BY DEF RoomInv, PageInv, Review
  <2>2. page' = [page EXCEPT !.review = [run |-> run, key |-> <<page.people, page.proposal>>]]
        /\ wallet' = wallet
    BY DEF Review
  <2>3. ReviewedRun(run)
    BY <2>1 DEF ReviewedRun
  <2>4. page' = [people |-> page.people, proposal |-> page.proposal,
                 review |-> [run |-> run, key |-> <<page.people, page.proposal>>],
                 locked |-> page.locked]
    BY <2>1, <2>2
  <2>. HIDE DEF run
  <2>5. /\ page'.people = page.people /\ page'.proposal = page.proposal
        /\ page'.review.run = run /\ page'.locked = page.locked
        /\ page' = [people |-> page'.people, proposal |-> page'.proposal,
                    review |-> page'.review, locked |-> page'.locked]
    BY <2>4
  <2>. QED BY <2>1, <2>2, <2>3, <2>5 DEF PageInv, ReviewedRun
<1>. QED BY <1>1, KeepsFreezing, KeepsFlow, KeepsRail, KeepsChain DEF RoomInv, Review

\* A rail that starts over on what its flow's run derives.
LEMMA FreshRail ==
  ASSUME NEW run, Run(run), flow' # NoFlow, flow'.run = run \/ Derived(flow'.run) = Derived(run),
         rail' = RailOn(Derived(run))
  PROVE  RailInv'
<1>. DEFINE d == Derived(run)
<1>1. Len(d.debits) \in Nat
  BY RunEnds
<1>. HIDE DEF d
<1>2. rail' = [frozen |-> d, signed |-> <<>>, stage |-> "frozen"]
  BY DEF RailOn, d
<1>3. rail'.frozen = d /\ rail'.signed = <<>> /\ rail'.stage = "frozen"
  BY <1>2
<1>4. Len(<<>>) = 0 /\ 1..0 = {}
  OBVIOUS
<1>5. rail'.signed = [i \in 1..Len(rail'.signed) |->
        SignDebit(rail'.frozen.plan, rail'.frozen.debits[i], Contract, rail'.signed[i].validBefore)]
  BY <1>3, <1>4
<1>6. Signatures(rail')
  BY <1>3, <1>4, <1>5 DEF Signatures
<1>7. rail'.frozen = Derived(flow'.run)
  BY <1>3 DEF d
<1>8. Len(rail'.frozen.debits) # 0 => Len(rail'.signed) < Len(rail'.frozen.debits)
  BY <1>1, <1>3, <1>4
<1>9. rail'.stage \notin {"signed", "simulation_failed", "simulated"}
  BY <1>3
<1>10. rail' = [frozen |-> rail'.frozen, signed |-> rail'.signed, stage |-> rail'.stage]
  BY <1>2, <1>3
<1>. QED BY <1>6, <1>7, <1>8, <1>9, <1>10 DEF RailInv

\* The freeze reads and derives.
LEMMA DeriveFreezeKeeps ==
  ASSUME RoomInv, DeriveFreeze
  PROVE  RoomInv'
<1>. DEFINE run == page.review.run
            derived == Derived(run)
<1>1. /\ page.review # None /\ Distinct(run.wallets)
      /\ flow # NoFlow => flow.plan = derived.plan
      /\ IF flow = NoFlow
         THEN freezing' = [frozen |-> derived, run |-> run, awaited |-> TRUE] /\ rail' = rail
         ELSE freezing' = None /\ rail' = RailOn(derived)
      /\ UNCHANGED <<wallet, page, flow, tx, token, executed, chainLog, now>>
  BY DEF DeriveFreeze, Offers, Reviewed
<1>2. Run(run)
  BY <1>1, DistinctRun DEF RoomInv, PageInv
<1>3. PageInv' /\ FlowInv' /\ ChainInv'
  BY <1>1, KeepsPage, KeepsFlow, KeepsChain DEF RoomInv
<1>. HIDE DEF run, derived
<1>4. CASE flow = NoFlow
  <2>1. freezing' = [frozen |-> derived, run |-> run, awaited |-> TRUE] /\ rail' = rail
    BY <1>1, <1>4
  <2>2. /\ freezing'.frozen = derived /\ freezing'.run = run
        /\ freezing' = [frozen |-> freezing'.frozen, run |-> freezing'.run,
                        awaited |-> freezing'.awaited]
    BY <2>1
  <2>3. FreezingInv'
    BY <1>2, <2>2 DEF FreezingInv, derived
  <2>4. RailInv'
    BY <1>1, <2>1, KeepsRail DEF RoomInv
  <2>. QED BY <1>3, <2>3, <2>4 DEF RoomInv
<1>5. CASE flow # NoFlow
  <2>1. freezing' = None /\ rail' = RailOn(Derived(run)) /\ flow' = flow
    BY <1>1, <1>5 DEF derived
  <2>2. FreezingInv'
    BY <2>1 DEF FreezingInv
  <2>3. Derived(flow.run) = Derived(run)
    BY <1>1, <1>2, <1>5, SamePlan DEF derived, RoomInv, FlowInv
  <2>4. RailInv'
    BY <1>2, <1>5, <2>1, <2>3, FreshRail
  <2>. QED BY <1>3, <2>2, <2>4 DEF RoomInv
<1>. QED BY <1>4, <1>5

\* The freeze writes.
LEMMA CommitFreezeKeeps ==
  ASSUME RoomInv, CommitFreeze
  PROVE  RoomInv'
<1>. DEFINE run == freezing.run
            d == Derived(run)
<1>1. /\ freezing # None /\ flow = NoFlow /\ wallet = run.wallets
      /\ freezing.frozen = d /\ Run(run)
  BY DEF CommitFreeze, SourceUnchanged, RoomInv, FreezingInv
<1>2. /\ flow' = [plan |-> d.plan, ledgerHash |-> d.ledgerHash, run |-> run,
                  state |-> "frozen", body |-> None]
      /\ rail' = rail \/ rail' = RailOn(d)
      /\ freezing' = None
      /\ UNCHANGED <<wallet, page, tx, token, executed, chainLog, now>>
  BY <1>1 DEF CommitFreeze
<1>. HIDE DEF run, d
<1>3. /\ flow'.plan = d.plan /\ flow'.ledgerHash = d.ledgerHash /\ flow'.run = run
      /\ flow'.state = "frozen" /\ flow'.body = None
      /\ flow' = [plan |-> flow'.plan, ledgerHash |-> flow'.ledgerHash, run |-> flow'.run,
                  state |-> flow'.state, body |-> flow'.body]
  BY <1>2
<1>4. flow' # NoFlow
  <2>1. "plan" \in DOMAIN flow' /\ DOMAIN NoFlow = {"state"}
    BY <1>2 DEF NoFlow
  <2>. QED BY <2>1
<1>5. FlowInv'
  BY <1>1, <1>2, <1>3 DEF FlowInv, d
<1>6. RailInv'
  <2>1. CASE rail' = rail
    <3>1. rail = None
      BY <1>1 DEF RoomInv, RailInv
    <3>. QED BY <2>1, <3>1 DEF RailInv
  <2>2. CASE rail' = RailOn(d)
    BY <1>1, <1>3, <1>4, <2>2, FreshRail DEF d
  <2>. QED BY <1>2, <2>1, <2>2
<1>7. ChainInv'
  <2>1. ChainInv /\ chainLog = <<>> /\ ~(tx # "none")
    BY <1>1 DEF RoomInv, ChainInv, ExecutedInv
  <2>2. Holding(token)' /\ ExecutedInv' /\ SettledOnChain' /\ ~(tx # "none")'
    BY <1>2, <1>3, <2>1 DEF ChainInv, Holding, ExecutedInv, SettledOnChain
  <2>3. \A a : Flowed(a)' = Flowed(a)
    BY <1>2, <2>1 DEF Flowed
  <2>4. \A a \in Addresses \ Spending : token'.balance[a] = Balances[a] + Flowed(a)'
    BY <1>2, <2>1, <2>3 DEF ChainInv
  <2>. QED BY <2>2, <2>4 DEF ChainInv
<1>8. FreezingInv' /\ PageInv'
  BY <1>2, KeepsPage DEF FreezingInv, RoomInv
<1>. QED BY <1>5, <1>6, <1>7, <1>8 DEF RoomInv

\* The freeze dies.
LEMMA DropFreezeKeeps ==
  ASSUME RoomInv, DropFreeze
  PROVE  RoomInv'
<1>1. FreezingInv'
  BY DEF DropFreeze, FreezingInv
<1>. QED BY <1>1, KeepsPage, KeepsFlow, KeepsRail, KeepsChain DEF RoomInv, DropFreeze

\* The page is loaded again.
LEMMA ReloadKeeps ==
  ASSUME RoomInv, Reload
  PROVE  RoomInv'
<1>1. PageInv'
  BY DEF RoomInv, PageInv, Reload, FreshPage
<1>2. FreezingInv'
  <2>1. CASE freezing = None
    BY <2>1 DEF Reload, FreezingInv
  <2>2. CASE freezing # None
    <3>1. /\ freezing = [frozen |-> freezing.frozen, run |-> freezing.run,
                         awaited |-> freezing.awaited]
          /\ Run(freezing.run) /\ freezing.frozen = Derived(freezing.run)
          /\ freezing' = [freezing EXCEPT !.awaited = FALSE]
      BY <2>2 DEF RoomInv, FreezingInv, Reload
    <3>2. /\ freezing'.frozen = freezing.frozen /\ freezing'.run = freezing.run
          /\ freezing' = [frozen |-> freezing'.frozen, run |-> freezing'.run,
                          awaited |-> freezing'.awaited]
      BY <3>1
    <3>. QED BY <3>1, <3>2 DEF FreezingInv
  <2>. QED BY <2>1, <2>2
<1>3. RailInv'
  BY DEF Reload, RailInv
<1>. QED BY <1>1, <1>2, <1>3, KeepsFlow, KeepsChain DEF RoomInv, Reload


\* A debtor signs.
LEMMA SignKeeps ==
  ASSUME RoomInv, Sign
  PROVE  RoomInv'
<1>. DEFINE n == Len(rail.signed)
            d == rail.frozen.debits
            last == SignDebit(rail.frozen.plan, d[n + 1], Contract, now + Validity)
            s == Append(rail.signed, last)
            stage == IF n + 1 = Len(d) THEN "signed" ELSE "frozen"
<1>1. /\ rail = [frozen |-> rail.frozen, signed |-> rail.signed, stage |-> rail.stage]
      /\ flow # NoFlow /\ rail.frozen = Derived(flow.run) /\ Run(flow.run)
      /\ Signatures(rail) /\ (Len(d) # 0 => n < Len(d))
  <2>1. rail # None /\ rail.stage = "frozen"
    BY DEF Sign, Offers
  <2>. QED BY <2>1 DEF RoomInv, RailInv, FlowInv
<1>2. rail' = [rail EXCEPT !.signed = s, !.stage = stage]
  BY DEF Sign, SignPreparedDebit
<1>3. /\ rail'.frozen = rail.frozen /\ rail'.signed = s /\ rail'.stage = stage
      /\ rail' = [frozen |-> rail'.frozen, signed |-> rail'.signed, stage |-> rail'.stage]
  BY <1>1, <1>2
<1>4. flow' = flow
  BY DEF Sign
<1>5. Len(d) \in Nat
  BY <1>1, RunEnds
<1>6. Signatures(rail') /\ Len(s) = n + 1
  <2>. DEFINE q == rail.signed
  <2>1. n \in Nat /\ q = [i \in 1..n |->
          SignDebit(rail.frozen.plan, d[i], Contract, q[i].validBefore)]
    BY <1>1 DEF Signatures
  <2>2. DOMAIN q = 1..n /\ q = [i \in 1..n |-> q[i]]
    <3>. HIDE DEF n, q, d
    <3>. QED BY <2>1
  <2>3. \A i \in 1..n : q[i] = SignDebit(rail.frozen.plan, d[i], Contract, q[i].validBefore)
    <3>. HIDE DEF n, q, d
    <3>. QED BY <2>1
  <2>. HIDE DEF last
  <2>4. /\ Len(s) = n + 1 /\ s = [i \in 1..(n + 1) |-> s[i]]
        /\ \A i \in 1..n : s[i] = q[i]
        /\ s[n + 1] = last
    <3>. DEFINE m == n
    <3>1. m \in Nat /\ DOMAIN q = 1..m /\ q = [i \in 1..m |-> q[i]]
      BY <2>1, <2>2
    <3>. HIDE DEF m, q
    <3>2. /\ Len(Append(q, last)) = m + 1
          /\ Append(q, last) = [i \in 1..(m + 1) |-> Append(q, last)[i]]
          /\ \A i \in 1..m : Append(q, last)[i] = q[i]
          /\ Append(q, last)[m + 1] = last
      BY <3>1, AppendIs
    <3>. QED BY <3>2 DEF m, q
  <2>5. \A p, e, u : SignDebit(p, e, Contract, u).validBefore = u
    BY DEF SignDebit
  <2>6. last = SignDebit(rail.frozen.plan, d[n + 1], Contract, last.validBefore)
    BY <2>5 DEF last
  <2>. HIDE DEF n, q, d, s
  <2>7. \A i \in 1..(n + 1) : s[i] = SignDebit(rail.frozen.plan, d[i], Contract, s[i].validBefore)
    <3>. SUFFICES ASSUME NEW i \in 1..(n + 1)
                  PROVE  s[i] = SignDebit(rail.frozen.plan, d[i], Contract, s[i].validBefore)
      OBVIOUS
    <3>1. CASE i = n + 1
      BY <2>4, <2>6, <3>1
    <3>2. CASE i # n + 1
      <4>1. i \in 1..n
        BY <2>1, <3>2
      <4>. QED BY <2>3, <2>4, <4>1
    <3>. QED BY <3>1, <3>2
  <2>8. s = [i \in 1..(n + 1) |-> SignDebit(rail.frozen.plan, d[i], Contract, s[i].validBefore)]
    BY <2>4, <2>7
  <2>9. Len(s) \in Nat
    BY <2>1, <2>4
  <2>10. Signatures(rail')
    BY <1>3, <2>4, <2>8, <2>9 DEF Signatures, d
  <2>. QED BY <2>4, <2>10
<1>7. n \in Nat
  BY <1>1 DEF Signatures
<1>. HIDE DEF n, s, last, d
<1>8. rail'.stage = "frozen" =>
        Signatures(rail') /\ (Len(d) # 0 => Len(rail'.signed) < Len(d))
  BY <1>1, <1>3, <1>5, <1>6, <1>7
<1>9. rail'.stage \in {"signed", "simulation_failed", "simulated"} =>
        Signatures(rail') /\ Len(rail'.signed) = Len(d)
  <2>1. n + 1 # 0
    BY <1>7
  <2>. QED BY <1>1, <1>3, <1>6, <2>1
<1>10. RailInv'
  BY <1>1, <1>3, <1>4, <1>8, <1>9 DEF RailInv, d
<1>. QED BY <1>10, KeepsPage, KeepsFreezing, KeepsFlow, KeepsChain DEF RoomInv, Sign


\* A rail in another stage is the same rail.
LEMMA RailStage ==
  ASSUME rail = [frozen |-> rail.frozen, signed |-> rail.signed, stage |-> rail.stage],
         NEW stage, rail' = [rail EXCEPT !.stage = stage]
  PROVE  /\ rail'.frozen = rail.frozen /\ rail'.signed = rail.signed /\ rail'.stage = stage
         /\ rail' = [frozen |-> rail'.frozen, signed |-> rail'.signed, stage |-> rail'.stage]
         /\ Signatures(rail') <=> Signatures(rail)
<1>1. rail' = [frozen |-> rail.frozen, signed |-> rail.signed, stage |-> stage]
  OBVIOUS
<1>2. rail'.frozen = rail.frozen /\ rail'.signed = rail.signed /\ rail'.stage = stage
  BY <1>1
<1>. QED BY <1>1, <1>2 DEF Signatures

\* A flow with another state is the same flow, of the same plan, run and body.
LEMMA FlowState ==
  ASSUME FlowInv, flow # NoFlow, NEW s, flow' = [flow EXCEPT !.state = s]
  PROVE  /\ flow'.plan = flow.plan /\ flow'.ledgerHash = flow.ledgerHash
         /\ flow'.run = flow.run /\ flow'.body = flow.body /\ flow'.state = s
         /\ flow' = [plan |-> flow'.plan, ledgerHash |-> flow'.ledgerHash, run |-> flow'.run,
                     state |-> flow'.state, body |-> flow'.body]
         /\ flow' # NoFlow
<1>1. flow = [plan |-> flow.plan, ledgerHash |-> flow.ledgerHash, run |-> flow.run,
              state |-> flow.state, body |-> flow.body]
  BY DEF FlowInv
<1>2. flow' = [plan |-> flow.plan, ledgerHash |-> flow.ledgerHash, run |-> flow.run,
               state |-> s, body |-> flow.body]
  BY <1>1
<1>3. "plan" \in DOMAIN flow' /\ DOMAIN NoFlow = {"state"}
  BY <1>2 DEF NoFlow
<1>. QED BY <1>2, <1>3

\* Past its freeze a flow may change its state only.
LEMMA FlowMoves ==
  ASSUME FlowInv, ChainInv, flow # NoFlow, flow.state # "frozen",
         NEW s, s # "frozen", flow' = [flow EXCEPT !.state = s],
         s = "verified_settled" => flow.plan \in executed,
         UNCHANGED <<wallet, token, executed, chainLog>>
  PROVE  FlowInv' /\ ChainInv'
<1>1. /\ flow'.plan = flow.plan /\ flow'.ledgerHash = flow.ledgerHash
      /\ flow'.run = flow.run /\ flow'.body = flow.body /\ flow'.state = s
      /\ flow' = [plan |-> flow'.plan, ledgerHash |-> flow'.ledgerHash, run |-> flow'.run,
                  state |-> flow'.state, body |-> flow'.body]
      /\ flow' # NoFlow
  BY FlowState
<1>2. FlowInv'
  BY <1>1 DEF FlowInv
<1>3. Holding(token)' /\ ExecutedInv' /\ SettledOnChain'
  BY <1>1 DEF ChainInv, Holding, ExecutedInv, SettledOnChain
<1>4. \A a : Flowed(a)' = Flowed(a)
  BY <1>1 DEF Flowed
<1>5. \A a \in Addresses \ Spending : token'.balance[a] = Balances[a] + Flowed(a)'
  BY <1>4 DEF ChainInv
<1>6. (tx # "none")' => flow' # NoFlow /\ flow'.state # "frozen"
  BY <1>1
<1>. QED BY <1>2, <1>3, <1>5, <1>6 DEF ChainInv

\* A fully signed rail is a body of its flow's run.
LEMMA RailBody ==
  ASSUME RoomInv, rail # None, rail.stage \in {"signed", "simulation_failed", "simulated"}
  PROVE  BodyOf(SettleBody(rail), flow.run)
<1>. DEFINE body == SettleBody(rail)
            run == flow.run
            d == Derived(run)
            T == RunTransfers(run)
            until == Until(body)
<1>1. /\ flow # NoFlow /\ Run(run) /\ rail.frozen = d
      /\ Signatures(rail) /\ Len(rail.signed) = Len(d.debits)
  BY DEF RoomInv, RailInv, FlowInv
<1>2. /\ body.id = d.plan /\ body.ledgerHash = d.ledgerHash
      /\ body.pulls = rail.signed /\ body.payouts = d.payouts
  BY <1>1 DEF SettleBody
<1>3. /\ d = [ledgerHash |-> RunHash(run), plan |-> d.plan,
              debits |-> d.debits, payouts |-> d.payouts]
      /\ d.plan = HashSettlementPlan(RunHash(run), d.debits, d.payouts)
      /\ d.debits = AggregateSettlementTransfers(T).debits
      /\ d.payouts = AggregateSettlementTransfers(T).payouts
      /\ DOMAIN d.debits = 1..Len(d.debits)
  BY <1>1, RunEnds
<1>4. d.ledgerHash = RunHash(run)
  BY <1>3
<1>5. rail.signed = [i \in 1..Len(rail.signed) |->
        SignDebit(d.plan, d.debits[i], Contract, rail.signed[i].validBefore)]
  BY <1>1 DEF Signatures
<1>6. body.pulls = [i \in DOMAIN d.debits |-> SignDebit(d.plan, d.debits[i], Contract, until[i])]
  <2>. DEFINE q == rail.signed
  <2>1. q = [i \in DOMAIN d.debits |-> SignDebit(d.plan, d.debits[i], Contract, q[i].validBefore)]
    BY <1>1, <1>3, <1>5
  <2>2. DOMAIN q = DOMAIN d.debits
    <3>. HIDE DEF q, d
    <3>. QED BY <2>1
  <2>3. until = [i \in DOMAIN d.debits |-> q[i].validBefore]
    BY <1>2, <2>2 DEF Until
  <2>4. body.pulls = q
    BY <1>2
  <2>. HIDE DEF q, d, until, body
  <2>5. \A i \in DOMAIN d.debits : until[i] = q[i].validBefore
    BY <2>3
  <2>. QED BY <2>1, <2>4, <2>5
<1>. HIDE DEF d, T, body, until
<1>. QED BY <1>2, <1>3, <1>4, <1>6 DEF BodyOf, Signs, until, T, body

\* The simulation of the signed body.
LEMMA SimulateKeeps ==
  ASSUME RoomInv, Simulate
  PROVE  RoomInv'
<1>. DEFINE body == SettleBody(rail)
            verdict == Simulation(body)
            stage == IF verdict \in {"passed", "passed before"} THEN "simulated"
                     ELSE "simulation_failed"
<1>1. /\ rail # None /\ rail.stage \in {"signed", "simulation_failed"}
      /\ rail' = [rail EXCEPT !.stage = stage]
      /\ flow' = IF verdict = "passed" THEN [flow EXCEPT !.state = "simulated", !.body = body]
                 ELSE flow
      /\ UNCHANGED <<wallet, page, freezing, tx, token, executed, chainLog, now>>
  BY DEF Simulate, Offers
<1>2. /\ rail = [frozen |-> rail.frozen, signed |-> rail.signed, stage |-> rail.stage]
      /\ flow # NoFlow /\ rail.frozen = Derived(flow.run)
      /\ Signatures(rail) /\ Len(rail.signed) = Len(rail.frozen.debits)
  BY <1>1 DEF RoomInv, RailInv
<1>3. stage \in {"simulated", "simulation_failed"}
  OBVIOUS
<1>. HIDE DEF stage
<1>4. /\ rail'.frozen = rail.frozen /\ rail'.signed = rail.signed /\ rail'.stage = stage
      /\ rail' = [frozen |-> rail'.frozen, signed |-> rail'.signed, stage |-> rail'.stage]
      /\ Signatures(rail') <=> Signatures(rail)
  BY <1>1, <1>2, RailStage
<1>5. ASSUME flow' # NoFlow, flow'.run = flow.run PROVE RailInv'
  BY <1>2, <1>3, <1>4, <1>5 DEF RailInv
<1>6. PageInv' /\ FreezingInv'
  BY <1>1, KeepsPage, KeepsFreezing DEF RoomInv
<1>7. CASE verdict = "passed"
  <2>1. flow.state = "frozen"
    BY <1>7 DEF Simulation
  <2>2. BodyOf(body, flow.run)
    BY <1>1, RailBody
  <2>. HIDE DEF body
  <2>3. flow' = [flow EXCEPT !.state = "simulated", !.body = body]
    BY <1>1, <1>7
  <2>4. FlowInv /\ ChainInv
    BY DEF RoomInv
  <2>5. flow' = [plan |-> flow.plan, ledgerHash |-> flow.ledgerHash, run |-> flow.run,
                 state |-> "simulated", body |-> body]
    BY <1>2, <2>3, <2>4 DEF FlowInv
  <2>6. /\ flow'.plan = flow.plan /\ flow'.ledgerHash = flow.ledgerHash
        /\ flow'.run = flow.run /\ flow'.body = body /\ flow'.state = "simulated"
        /\ flow' = [plan |-> flow'.plan, ledgerHash |-> flow'.ledgerHash, run |-> flow'.run,
                    state |-> flow'.state, body |-> flow'.body]
    BY <2>5
  <2>7. flow' # NoFlow
    <3>1. "plan" \in DOMAIN flow' /\ DOMAIN NoFlow = {"state"}
      BY <2>5 DEF NoFlow
    <3>. QED BY <3>1
  <2>8. FlowInv'
    BY <1>1, <1>2, <2>2, <2>4, <2>6 DEF FlowInv
  <2>9. RailInv'
    BY <1>5, <2>6, <2>7
  <2>10. ChainInv'
    <3>1. chainLog = <<>> /\ ~(tx # "none")
      BY <2>1, <2>4 DEF ChainInv, ExecutedInv
    <3>2. Holding(token)' /\ ExecutedInv' /\ SettledOnChain' /\ ~(tx # "none")'
      BY <1>1, <2>4, <2>6, <3>1 DEF ChainInv, Holding, ExecutedInv, SettledOnChain
    <3>3. \A a : Flowed(a)' = Flowed(a)
      BY <1>1, <3>1 DEF Flowed
    <3>4. \A a \in Addresses \ Spending : token'.balance[a] = Balances[a] + Flowed(a)'
      BY <1>1, <2>4, <3>3 DEF ChainInv
    <3>. QED BY <3>2, <3>4 DEF ChainInv
  <2>. QED BY <1>6, <2>8, <2>9, <2>10 DEF RoomInv
<1>8. CASE verdict # "passed"
  <2>1. flow' = flow
    BY <1>1, <1>8
  <2>2. RailInv'
    BY <1>2, <1>5, <2>1
  <2>. QED BY <1>1, <1>6, <2>1, <2>2, KeepsFlow, KeepsChain DEF RoomInv
<1>. QED BY <1>7, <1>8

\* The execution is asked for.
LEMMA ExecuteKeeps ==
  ASSUME RoomInv, Execute
  PROVE  RoomInv'
<1>1. /\ rail # None /\ rail.stage = "simulated" /\ flow.state = "simulated"
      /\ UNCHANGED <<wallet, page, freezing, token, executed, chainLog, now>>
  BY DEF Execute, Offers
<1>2. /\ rail = [frozen |-> rail.frozen, signed |-> rail.signed, stage |-> rail.stage]
      /\ flow # NoFlow /\ rail.frozen = Derived(flow.run)
      /\ Signatures(rail) /\ Len(rail.signed) = Len(rail.frozen.debits)
  BY <1>1 DEF RoomInv, RailInv
<1>3. PageInv' /\ FreezingInv'
  BY <1>1, KeepsPage, KeepsFreezing DEF RoomInv
<1>4. ASSUME NEW stage, rail' = [rail EXCEPT !.stage = stage],
             stage \in {"pending", "simulation_failed"}, flow' # NoFlow, flow'.run = flow.run
      PROVE  RailInv'
  <2>1. /\ rail'.frozen = rail.frozen /\ rail'.signed = rail.signed /\ rail'.stage = stage
        /\ rail' = [frozen |-> rail'.frozen, signed |-> rail'.signed, stage |-> rail'.stage]
        /\ Signatures(rail') <=> Signatures(rail)
    BY <1>2, <1>4, RailStage
  <2>. QED BY <1>2, <1>4, <2>1 DEF RailInv
<1>5. CASE Unexpired(flow.body) /\ ~Reverts(flow.body)
  <2>1. /\ flow' = [flow EXCEPT !.state = "submitted"]
        /\ rail' = [rail EXCEPT !.stage = "pending"]
    BY <1>5 DEF Execute, Offers
  <2>2. FlowInv' /\ ChainInv'
    BY <1>1, <1>2, <2>1, FlowMoves DEF RoomInv
  <2>3. flow' # NoFlow /\ flow'.run = flow.run
    BY <1>2, <2>1, FlowState DEF RoomInv
  <2>4. RailInv'
    BY <1>4, <2>1, <2>3
  <2>. QED BY <1>3, <2>2, <2>4 DEF RoomInv
<1>6. CASE ~(Unexpired(flow.body) /\ ~Reverts(flow.body))
  <2>1. rail' = [rail EXCEPT !.stage = "simulation_failed"] /\ UNCHANGED <<flow, tx>>
    BY <1>6 DEF Execute, Offers
  <2>2. RailInv'
    BY <1>2, <1>4, <2>1
  <2>. QED BY <1>1, <1>3, <2>1, <2>2, KeepsFlow, KeepsChain DEF RoomInv
<1>. QED BY <1>5, <1>6

\* The status is polled.
LEMMA PollStatusKeeps ==
  ASSUME RoomInv, PollStatus
  PROVE  RoomInv'
<1>1. /\ flow # NoFlow /\ flow.state = "submitted"
      /\ flow' = [flow EXCEPT !.state = Verdict]
      /\ rail' = IF rail = None THEN None ELSE [rail EXCEPT !.stage = Verdict]
      /\ UNCHANGED <<wallet, page, freezing, tx, token, executed, chainLog, now>>
  BY DEF PollStatus
<1>2. Verdict \in {"failed", "verified_settled", "completed_unverified"}
  BY DEF Verdict
<1>3. Verdict = "verified_settled" => flow.plan \in executed
  <2>1. ASSUME Verdict = "verified_settled" PROVE chainLog # <<>>
    BY <2>1 DEF Verdict, ReceiptProves
  <2>. QED BY <2>1 DEF RoomInv, ChainInv, ExecutedInv
<1>. DEFINE s == Verdict
<1>. HIDE DEF s
<1>4. FlowInv' /\ ChainInv'
  <2>1. s # "frozen" /\ flow' = [flow EXCEPT !.state = s]
        /\ (s = "verified_settled" => flow.plan \in executed)
    BY <1>1, <1>2, <1>3 DEF s
  <2>. QED BY <1>1, <2>1, FlowMoves DEF RoomInv
<1>5. flow' # NoFlow /\ flow'.run = flow.run
  <2>1. flow' = [flow EXCEPT !.state = s]
    BY <1>1 DEF s
  <2>. QED BY <1>1, <2>1, FlowState DEF RoomInv
<1>6. RailInv'
  <2>1. CASE rail = None
    BY <1>1, <2>1 DEF RailInv
  <2>2. CASE rail # None
    <3>1. /\ rail = [frozen |-> rail.frozen, signed |-> rail.signed, stage |-> rail.stage]
          /\ rail.frozen = Derived(flow.run)
      BY <2>2 DEF RoomInv, RailInv
    <3>2. rail' = [rail EXCEPT !.stage = s]
      BY <1>1, <2>2 DEF s
    <3>3. /\ rail'.frozen = rail.frozen /\ rail'.signed = rail.signed /\ rail'.stage = s
          /\ rail' = [frozen |-> rail'.frozen, signed |-> rail'.signed, stage |-> rail'.stage]
      BY <3>1, <3>2, RailStage
    <3>4. s \notin {"frozen", "signed", "simulation_failed", "simulated"}
      BY <1>2 DEF s
    <3>. QED BY <1>5, <3>1, <3>3, <3>4 DEF RailInv
  <2>. QED BY <2>1, <2>2
<1>. QED BY <1>1, <1>4, <1>6, KeepsPage, KeepsFreezing DEF RoomInv


\* The execution of the flow's body, the first and the only one.
LEMMA ExecutionKeeps ==
  ASSUME RoomInv, flow # NoFlow, flow.state # "frozen", ExecuteSettlement(flow.body),
         flow' = flow
  PROVE  ChainInv'
<1>. DEFINE body == flow.body
            run == flow.run
            T == RunTransfers(run)
            after == Outcome(body)
<1>1. FlowInv /\ ChainInv /\ Holding(token) /\ ExecutedInv
  BY DEF RoomInv, ChainInv
<1>2. /\ after # Reverted /\ token' = after /\ executed' = executed \cup {body.id}
      /\ chainLog' = Append(chainLog, [body |-> body, at |-> now])
  BY DEF ExecuteSettlement, Reverts
<1>3. /\ Submitted(body) /\ body.id = flow.plan
      /\ \A a : Drawn(body, a) = From(T, a) /\ Received(body, a) = To(T, a)
  BY <1>1, FlowBody
<1>4. /\ WellFormed(body) /\ Holding(after)
      /\ \A a \in Addresses \ {Contract} :
           after.balance[a] = token.balance[a] - Drawn(body, a) + Received(body, a)
      /\ after.balance[Contract] = token.balance[Contract]
      /\ \A i \in DOMAIN body.pulls : now < body.pulls[i].validBefore
  BY <1>1, <1>2, <1>3, OutcomeMoves
<1>5. chainLog = <<>>
  <2>1. flow.plan \notin executed
    BY <1>3, <1>4 DEF WellFormed
  <2>. QED BY <1>1, <2>1 DEF ExecutedInv
<1>6. Run(run)
  BY <1>1 DEF FlowInv
<1>7. /\ \A p \in Persons : /\ From(T, run.wallets[p]) \in Int
                            /\ To(T, run.wallets[p]) \in Int
      /\ \A a : (\A p \in Persons : run.wallets[p] # a) => From(T, a) = 0 /\ To(T, a) = 0
  BY <1>6, RunMoves
<1>. HIDE DEF body, T, after
<1>8. \A a : From(T, a) \in Int /\ To(T, a) \in Int
  BY <1>7
<1>9. From(T, Contract) = 0 /\ To(T, Contract) = 0
  <2>1. \A p \in Persons : run.wallets[p] # Contract
    BY <1>6, RoomAssumption DEF Run
  <2>. QED BY <1>7, <2>1
<1>10. chainLog' = <<[body |-> body, at |-> now]>>
  BY <1>2, <1>5
<1>11. /\ chainLog' # <<>> /\ Len(chainLog') = 1 /\ DOMAIN chainLog' = {1}
       /\ chainLog'[1].body = body /\ chainLog'[1].at = now
  BY <1>10
<1>12. Holding(token')
  BY <1>2, <1>4
<1>13. ExecutedInv'
  BY <1>2, <1>3, <1>4, <1>11 DEF ExecutedInv, body
<1>14. \A a : Flowed(a) = 0 /\ Flowed(a)' = To(T, a) - From(T, a)
  BY <1>5, <1>11 DEF Flowed, T
<1>15. ASSUME NEW a \in Addresses \ Spending PROVE token'.balance[a] = Balances[a] + Flowed(a)'
  <2>1. token.balance[a] = Balances[a] + 0 /\ Balances[a] \in Nat
    BY <1>1, <1>14, ContractAssumption DEF ChainInv, Addresses
  <2>2. CASE a = Contract
    BY <1>2, <1>4, <1>9, <1>14, <2>1, <2>2
  <2>3. CASE a # Contract
    BY <1>2, <1>3, <1>4, <1>8, <1>14, <2>1, <2>3
  <2>. QED BY <2>2, <2>3
<1>16. SettledOnChain'
  BY <1>1, <1>2 DEF ChainInv, SettledOnChain
<1>17. (tx # "none")' => flow' # NoFlow /\ flow'.state # "frozen"
  OBVIOUS
<1>18. Holding(token)'
  BY <1>12 DEF Holding
<1>. QED BY <1>13, <1>15, <1>16, <1>17, <1>18 DEF ChainInv

\* The transaction is mined.
LEMMA MineKeeps ==
  ASSUME RoomInv, Mine
  PROVE  RoomInv'
<1>1. /\ tx = "pending" /\ UNCHANGED <<wallet, page, freezing, flow, rail, now>>
      /\ \/ ExecuteSettlement(flow.body)
         \/ UNCHANGED <<token, executed, chainLog>>
  BY DEF Mine, chain
<1>2. flow # NoFlow /\ flow.state # "frozen"
  BY <1>1 DEF RoomInv, ChainInv
<1>3. PageInv' /\ FreezingInv' /\ FlowInv' /\ RailInv'
  BY <1>1, KeepsPage, KeepsFreezing, KeepsFlow, KeepsRail DEF RoomInv
<1>4. CASE ExecuteSettlement(flow.body)
  BY <1>1, <1>2, <1>3, <1>4, ExecutionKeeps DEF RoomInv
<1>5. CASE UNCHANGED <<token, executed, chainLog>>
  <2>1. Holding(token)' /\ ExecutedInv' /\ SettledOnChain'
    BY <1>1, <1>5 DEF RoomInv, ChainInv, Holding, ExecutedInv, SettledOnChain
  <2>2. \A a : Flowed(a)' = Flowed(a)
    BY <1>1, <1>5 DEF Flowed
  <2>3. \A a \in Addresses \ Spending : token'.balance[a] = Balances[a] + Flowed(a)'
    BY <1>5, <2>2 DEF RoomInv, ChainInv
  <2>4. ChainInv'
    BY <1>1, <1>2, <2>1, <2>3 DEF ChainInv
  <2>. QED BY <1>3, <2>4 DEF RoomInv
<1>. QED BY <1>1, <1>4, <1>5

\* Anyone executes the body.
LEMMA AnyoneExecutesKeeps ==
  ASSUME RoomInv, AnyoneExecutes
  PROVE  RoomInv'
<1>1. /\ flow # NoFlow /\ flow.body # None /\ ExecuteSettlement(flow.body)
      /\ UNCHANGED <<wallet, page, freezing, flow, rail, tx, now>>
  BY DEF AnyoneExecutes
<1>2. flow.state # "frozen"
  BY <1>1 DEF RoomInv, FlowInv
<1>3. ChainInv'
  BY <1>1, <1>2, ExecutionKeeps
<1>. QED BY <1>1, <1>3, KeepsPage, KeepsFreezing, KeepsFlow, KeepsRail DEF RoomInv

\* A transfer from an address to itself changes nothing.
LEMMA MoveNowhere ==
  ASSUME NEW t, Holding(t), NEW a \in Addresses, NEW value \in Int
  PROVE  Move(t, a, a, value) = t
<1>. DEFINE f == t.balance
            taken == [f EXCEPT ![a] = @ - value]
            given == [taken EXCEPT ![a] = @ + value]
<1>1. /\ t = [balance |-> f, used |-> t.used] /\ DOMAIN f = Addresses
      /\ f = [x \in Addresses |-> f[x]] /\ f[a] \in Int
  BY DEF Holding
<1>2. given = f
  <2>. HIDE DEF f
  <2>. QED BY <1>1
<1>. QED BY <1>1, <1>2 DEF Move

\* A debtor spends his USDC elsewhere.
LEMMA SpendKeeps ==
  ASSUME RoomInv, Spend
  PROVE  RoomInv'
<1>1. PICK p \in Spenders : \E from \in Wallets[p] :
        /\ token.balance[from] > 0
        /\ SpendElsewhere(from, Outside, token.balance[from])
        /\ UNCHANGED <<wallet, page, freezing, flow, rail, tx, now>>
  BY DEF Spend
<1>2. PICK from \in Wallets[p] :
        /\ token' = Move(token, from, Outside, token.balance[from])
        /\ UNCHANGED <<executed, chainLog, wallet, page, freezing, flow, rail, tx, now>>
  BY <1>1 DEF SpendElsewhere
<1>3. ChainInv /\ Holding(token)
  BY DEF RoomInv, ChainInv
<1>4. /\ from \in Spending /\ Outside \in Spending
      /\ from \in Addresses /\ Outside \in Addresses
  <2>1. p \in Persons /\ Wallets[p] \in {Wallets[q] : q \in Persons}
    BY RoomAssumption
  <2>2. from \in UNION {Wallets[q] : q \in Persons}
    BY <2>1
  <2>3. from \in Registered
    BY <2>2 DEF Registered
  <2>4. Wallets[p] \in {Wallets[q] : q \in Spenders}
    OBVIOUS
  <2>5. from \in UNION {Wallets[q] : q \in Spenders}
    BY <2>4
  <2>6. from \in Spending /\ Outside \in Spending
    BY <2>5 DEF Spending
  <2>. QED BY <2>3, <2>6, RoomAssumption DEF Addresses
<1>5. token.balance[from] \in Nat
  BY <1>3, <1>4 DEF Holding
<1>6. Holding(token') /\ \A a \in Addresses \ Spending : token'.balance[a] = token.balance[a]
  <2>1. CASE from = Outside
    <3>1. token' = token
      BY <1>2, <1>3, <1>4, <1>5, <2>1, MoveNowhere
    <3>. QED BY <1>3, <3>1
  <2>2. CASE from # Outside
    <3>. DEFINE v == token.balance[from]
    <3>1. v \in Nat /\ token.balance[from] >= v /\ token' = Move(token, from, Outside, v)
      BY <1>2, <1>5
    <3>. HIDE DEF v
    <3>2. /\ Holding(token')
          /\ \A a \in Addresses \ {from, Outside} : token'.balance[a] = token.balance[a]
      BY <1>3, <1>4, <2>2, <3>1, MoveHolds
    <3>. QED BY <1>4, <3>2
  <2>. QED BY <2>1, <2>2
<1>7. Holding(token)'
  BY <1>6 DEF Holding
<1>8. ExecutedInv' /\ SettledOnChain' /\ \A a : Flowed(a)' = Flowed(a)
  BY <1>2, <1>3 DEF ChainInv, ExecutedInv, SettledOnChain, Flowed
<1>9. \A a \in Addresses \ Spending : token'.balance[a] = Balances[a] + Flowed(a)'
  BY <1>3, <1>6, <1>8 DEF ChainInv
<1>10. ChainInv'
  BY <1>2, <1>3, <1>7, <1>8, <1>9 DEF ChainInv
<1>. QED BY <1>2, <1>10, KeepsPage, KeepsFreezing, KeepsFlow, KeepsRail DEF RoomInv

\* Every step of the room keeps the invariant.
LEMMA RoomInvNext ==
  ASSUME RoomInv, [Next]_<<part, answer, roomVars>>
  PROVE  RoomInv'
<1>1. CASE UNCHANGED roomVars
  BY <1>1, KeepsPage, KeepsFreezing, KeepsFlow, KeepsRail, KeepsChain DEF RoomInv, roomVars
<1>2. CASE RoomNext
  <2>1. CASE LoadPeople
    BY <2>1, LoadPeopleKeeps
  <2>2. CASE ChangeWallet
    BY <2>2, ChangeWalletKeeps
  <2>3. CASE Allocate
    BY <2>3, AllocateKeeps
  <2>4. CASE Review
    BY <2>4, ReviewKeeps
  <2>5. CASE DeriveFreeze
    BY <2>5, DeriveFreezeKeeps
  <2>6. CASE CommitFreeze
    BY <2>6, CommitFreezeKeeps
  <2>7. CASE DropFreeze
    BY <2>7, DropFreezeKeeps
  <2>8. CASE Reload
    BY <2>8, ReloadKeeps
  <2>9. CASE Sign
    BY <2>9, SignKeeps
  <2>10. CASE Simulate
    BY <2>10, SimulateKeeps
  <2>11. CASE Execute
    BY <2>11, ExecuteKeeps
  <2>12. CASE Mine
    BY <2>12, MineKeeps
  <2>13. CASE AnyoneExecutes
    BY <2>13, AnyoneExecutesKeeps
  <2>14. CASE Spend
    BY <2>14, SpendKeeps
  <2>15. CASE PollStatus
    BY <2>15, PollStatusKeeps
  <2>16. CASE Tick
    BY <2>16, KeepsPage, KeepsFreezing, KeepsFlow, KeepsRail, KeepsChain DEF RoomInv, Tick
  <2>. QED BY <1>2, <2>1, <2>2, <2>3, <2>4, <2>5, <2>6, <2>7, <2>8, <2>9, <2>10, <2>11, <2>12,
              <2>13, <2>14, <2>15, <2>16 DEF RoomNext
<1>. QED BY <1>1, <1>2 DEF Next, roomVars

\* For any receipt, people, wallets and proposals, however the review, the
\* freeze, the signatures, the transaction and whoever spends or executes
\* meanwhile interleave: the plan that is frozen asks everybody for what the
\* reviewed allocation says, the chain executes it once at most, moves
\* exactly that, and within the time of every signature (settlementFlow.ts,
\* ExecutionRail.tsx, FinalTabBatchSettlementV2).
THEOREM PlanStaysHonoured == Spec => []PlanHonoured
<1>1. Init => RoomInv
  BY RoomInvInit DEF Init
<1>2. RoomInv /\ [Next]_<<part, answer, roomVars>> => RoomInv'
  BY RoomInvNext
<1>. QED BY <1>1, <1>2, RoomHonours, PTL DEF Spec
=============================================================================
