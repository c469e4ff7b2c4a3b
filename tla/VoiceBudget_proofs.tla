------------------------- MODULE VoiceBudget_proofs -------------------------
(***************************************************************************)
(* Theorems about VoiceBudget, for any users, requests, ceilings, lives    *)
(* and calendar: no window is overdrawn, no user has two leases, and a     *)
(* request that is allowed is among the first of its minute.               *)
(***************************************************************************)
EXTENDS VoiceBudget, FiniteSetTheorems, SequenceTheorems, TLAPS

\* What a reservation finds when it looks for live leases in the book of reservations.
Occupied(c, book) ==
  \/ \E i \in DOMAIN book : Live(book[i], c.at) /\ book[i].user = c.user
  \/ Cardinality({i \in DOMAIN book : Live(book[i], c.at)}) >= ProjectSessions

\* A request that is under way: whose it is, and that it has not been going on for
\* longer than its platform lets it.
Started(c, now) ==
  c.pc # "idle" => /\ c.user \in Users /\ c.cap \in Capabilities /\ c.at \in Ticks
                   /\ c.at <= now /\ now <= c.at + MaxLag

\* What a transaction has read is still so: it holds the locks.
Seen(c, counters, book) ==
  c.pc = "reserve" =>
    /\ Len(c.seen) <= Len(Locks(c))
    /\ \A n \in DOMAIN c.seen :
         c.seen[n] = IF n = 6 THEN IF Occupied(c, book) THEN 1 ELSE 0 ELSE counters[Locks(c)[n]]

\* A request that was allowed has a reservation of its own, not spent yet.
Entitled(c, book, spent) ==
  c.pc = "provider" =>
    /\ c.reservation \in DOMAIN book /\ book[c.reservation].user = c.user
    /\ book[c.reservation].cap = c.cap /\ book[c.reservation].at = c.at
    /\ \A s \in spent : s.for # c.reservation

\* Two requests hold no lock in common, and no reservation.
Apart(c, d) ==
  /\ Held(c) \cap Held(d) = {}
  /\ c.pc = "provider" /\ d.pc = "provider" => c.reservation # d.reservation

RequestsInv ==
  /\ \A r \in Requests : /\ Started(request[r], clock)
                         /\ Seen(request[r], used, reservations)
                         /\ Entitled(request[r], reservations, streams \cup spoken)
  /\ \A r, q \in Requests : r # q => Apart(request[r], request[q])

\* A stream was asked for in time and opened in time; nothing was paid for twice.
SpentInv ==
  /\ \A s \in streams : /\ reservations[s.for].cap = "transcription"
                        /\ s.issued <= reservations[s.for].at + MaxLag
                        /\ s.opened <= s.issued + Redeem
  /\ \A s \in spoken : reservations[s.for].cap = "readback"
  /\ \A s, z \in streams \cup spoken : s.for = z.for => s = z

\* The counter of a minute counts what was decided in it, up to the first refusal.
MinutesInv ==
  \A k \in Minutes : used[k] = IF decided[k] <= RequestLimit THEN decided[k] ELSE RequestLimit + 1

BudgetsInv ==
  \A k \in Windows : k[3] # "minute" =>
    IsFiniteSet(Units(k)) /\ used[k] = Cardinality(Units(k)) /\ used[k] <= Limit(k)

\* Leases at any time, also one that has not come.
LeasesInv ==
  \A t \in Nat :
    /\ Cardinality(Leases(t)) <= ProjectSessions
    /\ \A i, j \in Leases(t) : reservations[i].user = reservations[j].user => i = j

VoiceInv ==
  /\ VoiceTypeOK /\ RequestsInv /\ SpentInv /\ MinutesInv /\ BudgetsInv /\ LeasesInv

(***************************************************************************)
(* The rows of a request.                                                  *)
(***************************************************************************)
LEMMA GuardApart == Guard \notin Windows
BY DEF Guard, Windows, Minutes

LEMMA RowsAre ==
  ASSUME NEW c, c.user \in Users, c.cap \in Capabilities, c.at \in Ticks
  PROVE  /\ Len(Rows(c)) = 5 /\ Rows(c) \in Seq(Windows)
         /\ Rows(c)[1] = <<c.user, c.cap, "minute", c.at>> /\ Rows(c)[1] \in Minutes
         /\ Rows(c)[2] = <<Project, c.cap, "day", Day(c.at)>>
         /\ Rows(c)[3] = <<Project, c.cap, "month", Month(c.at)>>
         /\ Rows(c)[4] = <<c.user, c.cap, "day", Day(c.at)>>
         /\ Rows(c)[5] = <<c.user, c.cap, "month", Month(c.at)>>
         /\ \A n \in 1..5 : Rows(c)[n] \in Windows
         /\ \A n \in 2..5 : Rows(c)[n] \notin Minutes /\ Rows(c)[n][3] # "minute"
<1> DEFINE d == Day(c.at)  m == Month(c.at)
<1>1. d \in {Day(t) : t \in Ticks} /\ m \in {Month(t) : t \in Ticks}
  OBVIOUS
<1>2. Rows(c) = << <<c.user, c.cap, "minute", c.at>>, <<Project, c.cap, "day", d>>,
                   <<Project, c.cap, "month", m>>, <<c.user, c.cap, "day", d>>,
                   <<c.user, c.cap, "month", m>> >>
  BY DEF Rows
<1> HIDE DEF d, m
<1>3. /\ <<c.user, c.cap, "minute", c.at>> \in Minutes
      /\ <<Project, c.cap, "day", d>> \in Windows /\ <<Project, c.cap, "month", m>> \in Windows
      /\ <<c.user, c.cap, "day", d>> \in Windows /\ <<c.user, c.cap, "month", m>> \in Windows
      /\ Minutes \subseteq Windows
  BY <1>1 DEF Minutes, Windows
<1>4. \A k \in Minutes : k[3] = "minute"
  BY DEF Minutes
<1>5. Len(Rows(c)) = 5 /\ Rows(c) \in Seq(Windows)
  BY <1>2, <1>3
<1>6. \A n \in 1..5 : Rows(c)[n] \in Windows
  BY <1>2, <1>3
<1>7. \A n \in 2..5 : Rows(c)[n][3] # "minute"
  BY <1>2
<1>8. ASSUME NEW n \in 2..5
      PROVE  Rows(c)[n] \notin Minutes
  <2>1. Rows(c)[n][3] # "minute"
    BY <1>7
  <2> HIDE DEF Minutes
  <2> QED BY <1>4, <2>1
<1>9. /\ Rows(c)[1] = <<c.user, c.cap, "minute", c.at>> /\ Rows(c)[2] = <<Project, c.cap, "day", d>>
      /\ Rows(c)[3] = <<Project, c.cap, "month", m>> /\ Rows(c)[4] = <<c.user, c.cap, "day", d>>
      /\ Rows(c)[5] = <<c.user, c.cap, "month", m>>
  BY <1>2
<1> HIDE DEF Minutes, Windows
<1> QED BY <1>3, <1>5, <1>6, <1>7, <1>8, <1>9 DEF d, m

LEMMA SixthIs ==
  ASSUME NEW S, NEW q \in Seq(S), NEW e \in S, Len(q) = 5
  PROVE  /\ Len(Append(q, e)) = 6 /\ Append(q, e)[6] = e
         /\ \A n \in 1..5 : Append(q, e)[n] = q[n]
<1> DEFINE z == Append(q, e)
<1>1. z = Append(q, e) /\ z \in Seq(S)
  BY AppendProperties
<1> HIDE DEF z
<1>2. Len(z) = Len(q) + 1 /\ z[Len(q) + 1] = e
  BY <1>1, AppendProperties
<1>3. \A n \in 1..Len(q) : z[n] = q[n]
  BY <1>1, AppendProperties, LenProperties
<1>4. Len(z) = 6 /\ z[6] = e /\ \A n \in 1..5 : z[n] = q[n]
  BY <1>2, <1>3
<1> QED BY <1>4 DEF z

LEMMA LocksAre ==
  ASSUME NEW c, c.user \in Users, c.cap \in Capabilities, c.at \in Ticks
  PROVE  /\ Len(Locks(c)) = IF c.cap = "transcription" THEN 6 ELSE 5
         /\ \A n \in 1..5 : Locks(c)[n] = Rows(c)[n]
         /\ c.cap = "transcription" => Locks(c)[6] = Guard
<1>1. Len(Rows(c)) = 5 /\ Rows(c) \in Seq(Windows \cup {Guard})
  <2>1. Len(Rows(c)) = 5 /\ Rows(c) \in Seq(Windows)
    BY RowsAre
  <2> HIDE DEF Windows
  <2> QED BY <2>1
<1> HIDE DEF Rows, Windows, Guard
<1>2. /\ Len(Append(Rows(c), Guard)) = 6 /\ Append(Rows(c), Guard)[6] = Guard
      /\ \A n \in 1..5 : Append(Rows(c), Guard)[n] = Rows(c)[n]
  BY <1>1, SixthIs
<1> QED BY <1>1, <1>2 DEF Locks

LEMMA IdleIs ==
  /\ Idle \in Handler /\ Idle.pc = "idle" /\ Held(Idle) = {}
  /\ \A now : Started(Idle, now)
  /\ \A counters, book : Seen(Idle, counters, book)
  /\ \A book, spent : Entitled(Idle, book, spent)
<1>1. Idle.pc = "idle" /\ Idle \in Handler
  BY DEF Idle, Handler
<1> QED BY <1>1 DEF Held, Started, Seen, Entitled

\* A step of one request.
LEMMA RequestUpdate ==
  ASSUME VoiceTypeOK, RequestsInv, NEW r \in Requests, NEW c \in Handler,
         request' = [request EXCEPT ![r] = c],
         Started(c, clock'), Seen(c, used', reservations'),
         Entitled(c, reservations', streams' \cup spoken'),
         \A q \in Requests : q # r =>
           /\ Started(request[q], clock') /\ Seen(request[q], used', reservations')
           /\ Entitled(request[q], reservations', streams' \cup spoken')
           /\ Apart(c, request[q])
  PROVE  RequestsInv' /\ request' \in [Requests -> Handler]
<1>1. request \in [Requests -> Handler]
  BY DEF VoiceTypeOK
<1>2. /\ request' \in [Requests -> Handler]
      /\ \A q \in Requests : request'[q] = IF q = r THEN c ELSE request[q]
  BY <1>1
<1>3. \A q \in Requests : /\ Started(request'[q], clock')
                          /\ Seen(request'[q], used', reservations')
                          /\ Entitled(request'[q], reservations', streams' \cup spoken')
  BY <1>2
<1>4. ASSUME NEW q \in Requests, NEW p \in Requests, q # p
      PROVE  Apart(request'[q], request'[p])
  <2>1. CASE q = r
    BY <1>2, <1>4, <2>1
  <2>2. CASE p = r
    <3>1. Apart(c, request[q])
      BY <1>4, <2>2
    <3> QED BY <1>2, <1>4, <2>2, <3>1 DEF Apart
  <2>3. CASE q # r /\ p # r
    BY <1>2, <1>4, <2>3 DEF RequestsInv
  <2> QED BY <2>1, <2>2, <2>3
<1> QED BY <1>2, <1>3, <1>4 DEF RequestsInv

LEMMA BooksSame ==
  ASSUME VoiceInv, UNCHANGED <<used, reservations, decided>>
  PROVE  MinutesInv' /\ BudgetsInv' /\ LeasesInv'
<1>1. MinutesInv'
  BY DEF VoiceInv, MinutesInv
<1>2. BudgetsInv'
  BY DEF VoiceInv, BudgetsInv, Units, InWindow
<1>3. LeasesInv'
  BY DEF VoiceInv, LeasesInv, Leases
<1> QED BY <1>1, <1>2, <1>3

LEMMA SpentSame ==
  ASSUME VoiceInv, UNCHANGED <<reservations, streams, spoken>>
  PROVE  SpentInv'
BY DEF VoiceInv, SpentInv

\* What a transaction is about.
LEMMA RequestOf ==
  ASSUME VoiceInv, NEW r \in Requests
  PROVE  /\ request[r] \in Handler /\ Started(request[r], clock)
         /\ Seen(request[r], used, reservations)
         /\ Entitled(request[r], reservations, streams \cup spoken)
         /\ \A q \in Requests : q # r =>
              /\ request[q] \in Handler /\ Started(request[q], clock)
              /\ Seen(request[q], used, reservations)
              /\ Entitled(request[q], reservations, streams \cup spoken)
              /\ Apart(request[r], request[q])
BY DEF VoiceInv, RequestsInv, VoiceTypeOK

LEMMA LimitIs ==
  ASSUME NEW k \in Windows, k[3] # "minute"
  PROVE  Limit(k) \in Nat
<1>1. k[2] \in Capabilities /\ k[3] \in {"day", "month"}
  BY DEF Windows, Minutes
<1>2. UserLimit[k[2]] \in [{"day", "month"} -> Nat] /\ ProjectLimit[k[2]] \in [{"day", "month"} -> Nat]
  BY <1>1, VoiceAssumption
<1>3. UserLimit[k[2]][k[3]] \in Nat /\ ProjectLimit[k[2]][k[3]] \in Nat
  BY <1>1, <1>2
<1> QED BY <1>3 DEF Limit

LEMMA VoiceInvInit ==
  ASSUME Init
  PROVE  VoiceInv
<1>1. \A r \in Requests : request[r] = Idle
  BY DEF Init
<1>2. VoiceTypeOK
  <2>1. request \in [Requests -> Handler]
    BY IdleIs DEF Init
  <2>2. reservations \in Seq(Reservation)
    BY DEF Init
  <2>3. clock \in Ticks /\ calls \in 0..MaxCalls
    BY VoiceAssumption DEF Init, Ticks
  <2>4. used \in [Windows -> Nat] /\ decided \in [Minutes -> Nat]
    BY DEF Init
  <2> QED BY <2>1, <2>2, <2>3, <2>4 DEF Init, VoiceTypeOK
<1>3. RequestsInv
  BY <1>1, IdleIs DEF RequestsInv, Apart
<1>4. SpentInv
  BY DEF Init, SpentInv
<1>5. MinutesInv
  BY VoiceAssumption DEF Init, MinutesInv, Windows
<1>6. DOMAIN reservations = {}
  BY DEF Init
<1>7. BudgetsInv
  <2>1. ASSUME NEW k \in Windows, k[3] # "minute"
        PROVE  IsFiniteSet(Units(k)) /\ used[k] = Cardinality(Units(k)) /\ used[k] <= Limit(k)
    <3>1. Units(k) = {}
      BY <1>6 DEF Units
    <3>2. used[k] = 0 /\ Cardinality(Units(k)) = 0 /\ IsFiniteSet(Units(k))
      BY <3>1, FS_EmptySet DEF Init
    <3>3. Limit(k) \in Nat
      BY <2>1, LimitIs
    <3> QED BY <3>2, <3>3
  <2> QED BY <2>1 DEF BudgetsInv
<1>8. LeasesInv
  <2>1. ASSUME NEW t \in Nat
        PROVE  Leases(t) = {} /\ Cardinality(Leases(t)) <= ProjectSessions
    <3>1. Leases(t) = {}
      BY <1>6 DEF Leases
    <3>2. Cardinality(Leases(t)) = 0
      BY <3>1, FS_EmptySet
    <3> QED BY <3>1, <3>2, VoiceAssumption
  <2> QED BY <2>1 DEF LeasesInv
<1> QED BY <1>2, <1>3, <1>4, <1>5, <1>7, <1>8 DEF VoiceInv

(***************************************************************************)
(* Requests.                                                               *)
(***************************************************************************)
LEMMA ReserveKeeps ==
  ASSUME VoiceInv, NEW r \in Requests, NEW u \in Users, NEW cap \in Capabilities,
         NEW n \in Nat, Reserve(r, u, cap, n)
  PROVE  VoiceInv'
<1> DEFINE c == [Idle EXCEPT !.pc = "reserve", !.user = u, !.cap = cap, !.units = n, !.at = clock]
<1>1. /\ request' = [request EXCEPT ![r] = c]
      /\ UNCHANGED <<offered, clock, used, reservations, streams, spoken, decided>>
      /\ calls' = calls + 1 /\ calls < MaxCalls
  BY DEF Reserve
<1>2. VoiceTypeOK /\ clock \in Ticks /\ clock \in Nat
  BY VoiceAssumption DEF VoiceInv, VoiceTypeOK, Ticks
<1>3. /\ c \in Handler /\ c.pc = "reserve" /\ c.user = u /\ c.cap = cap /\ c.at = clock
      /\ c.seen = <<>>
  <2> DEFINE a == [Idle EXCEPT !.pc = "reserve", !.user = u]
             b == [a EXCEPT !.cap = cap, !.units = n]
             d == [b EXCEPT !.at = clock]
  <2>1. a \in Handler /\ a.pc = "reserve" /\ a.user = u /\ a.seen = <<>>
    BY IdleIs DEF Handler, Idle
  <2>2. c = d
    OBVIOUS
  <2> HIDE DEF a, c
  <2>3. b \in Handler /\ b.pc = "reserve" /\ b.user = u /\ b.cap = cap /\ b.seen = <<>>
    BY <2>1 DEF Handler
  <2> HIDE DEF b
  <2>4. /\ d \in Handler /\ d.pc = "reserve" /\ d.user = u /\ d.cap = cap /\ d.at = clock
        /\ d.seen = <<>>
    BY <1>2, <2>3 DEF Handler
  <2> QED BY <2>2, <2>4
<1> HIDE DEF c
<1>4. /\ Started(c, clock) /\ Seen(c, used, reservations) /\ Held(c) = {}
      /\ Entitled(c, reservations, streams \cup spoken)
  <2>1. Started(c, clock)
    BY <1>2, <1>3, VoiceAssumption DEF Started
  <2>2. Len(c.seen) = 0 /\ DOMAIN c.seen = {}
    BY <1>3
  <2>3. Len(Locks(c)) >= 0
    BY <1>2, <1>3, LocksAre
  <2> QED BY <1>3, <2>1, <2>2, <2>3 DEF Seen, Held, Entitled
<1>5. \A q \in Requests : q # r => Apart(c, request[q])
  BY <1>3, <1>4 DEF Apart
<1>6. RequestsInv' /\ request' \in [Requests -> Handler]
  BY <1>1, <1>2, <1>3, <1>4, <1>5, RequestOf, RequestUpdate DEF VoiceInv
<1>7. VoiceTypeOK'
  BY <1>1, <1>2, <1>6, VoiceAssumption DEF VoiceTypeOK
<1> QED BY <1>1, <1>6, <1>7, BooksSame, SpentSame DEF VoiceInv

LEMMA UnavailableKeeps ==
  ASSUME VoiceInv, NEW r \in Requests, Unavailable(r)
  PROVE  VoiceInv'
<1>1. /\ request' = [request EXCEPT ![r] = Idle]
      /\ UNCHANGED <<offered, clock, used, reservations, streams, spoken, decided, calls>>
  BY DEF Unavailable
<1>2. \A q \in Requests : q # r => Apart(Idle, request[q])
  BY IdleIs DEF Apart
<1>3. RequestsInv' /\ request' \in [Requests -> Handler]
  <2> DEFINE c == Idle
  <2>1. /\ c \in Handler /\ Started(c, clock') /\ Seen(c, used', reservations')
        /\ Entitled(c, reservations', streams' \cup spoken')
        /\ request' = [request EXCEPT ![r] = c]
    BY <1>1, IdleIs
  <2>2. \A q \in Requests : q # r =>
          /\ Started(request[q], clock') /\ Seen(request[q], used', reservations')
          /\ Entitled(request[q], reservations', streams' \cup spoken')
          /\ Apart(c, request[q])
    BY <1>1, <1>2, RequestOf
  <2> HIDE DEF c
  <2> QED BY <2>1, <2>2, RequestUpdate DEF VoiceInv
<1>4. VoiceTypeOK'
  BY <1>1, <1>3 DEF VoiceInv, VoiceTypeOK
<1> QED BY <1>1, <1>3, <1>4, BooksSame, SpentSame DEF VoiceInv

LEMMA TickKeeps ==
  ASSUME VoiceInv, Tick
  PROVE  VoiceInv'
<1>1. /\ UNCHANGED <<offered, used, reservations, request, streams, spoken, decided, calls>>
      /\ clock' = clock + 1 /\ clock < LastTick /\ clock \in Ticks
      /\ \A r \in Requests : request[r].pc # "idle" => clock + 1 <= request[r].at + MaxLag
  BY DEF Tick, VoiceInv, VoiceTypeOK
<1>2. clock' \in Ticks
  BY <1>1, VoiceAssumption DEF Ticks
<1>3. RequestsInv'
  <2>1. ASSUME NEW r \in Requests
        PROVE  Started(request[r], clock')
    BY <1>1, <1>2, RequestOf, VoiceAssumption DEF Started, Ticks
  <2> QED BY <1>1, <2>1 DEF VoiceInv, RequestsInv
<1>4. VoiceTypeOK'
  BY <1>1, <1>2 DEF VoiceInv, VoiceTypeOK
<1> QED BY <1>1, <1>3, <1>4, BooksSame, SpentSame DEF VoiceInv

LEMMA OneMore ==
  ASSUME NEW S, NEW q \in Seq(S), NEW e \in S, NEW z, z = Append(q, e)
  PROVE  /\ z \in Seq(S) /\ Len(q) \in Nat /\ Len(z) = Len(q) + 1
         /\ DOMAIN q = 1..Len(q) /\ DOMAIN z = 1..(Len(q) + 1)
         /\ \A n \in DOMAIN q : n \in DOMAIN z /\ z[n] = q[n]
         /\ z[Len(q) + 1] = e
<1>1. z \in Seq(S) /\ Len(z) = Len(q) + 1 /\ z[Len(q) + 1] = e
  BY AppendProperties
<1>2. Len(q) \in Nat /\ DOMAIN q = 1..Len(q) /\ DOMAIN z = 1..Len(z)
  BY <1>1, LenProperties
<1>3. \A n \in 1..Len(q) : z[n] = q[n]
  BY AppendProperties, LenProperties
<1> QED BY <1>1, <1>2, <1>3

\* What a transaction has locked.
LEMMA HeldIs ==
  ASSUME NEW c, c.pc = "reserve"
  PROVE  Held(c) = {Locks(c)[n] : n \in DOMAIN c.seen}
BY DEF Held

LEMMA LockKeeps ==
  ASSUME VoiceInv, NEW r \in Requests, Lock(r)
  PROVE  VoiceInv'
<1> DEFINE c == request[r]
           k == Locks(c)[Len(c.seen) + 1]
           v == IF k # Guard THEN used[k] ELSE IF Busy(c) THEN 1 ELSE 0
           z == Append(c.seen, v)
           d == [c EXCEPT !.seen = z]
<1>1. /\ c.pc = "reserve" /\ Len(c.seen) < Len(Locks(c)) /\ Free(k, r)
      /\ request' = [request EXCEPT ![r] = d]
      /\ UNCHANGED <<offered, clock, used, reservations, streams, spoken, decided, calls>>
  BY DEF Lock
<1>2. /\ c \in Handler /\ Started(c, clock) /\ Seen(c, used, reservations)
      /\ used \in [Windows -> Nat]
  BY RequestOf DEF VoiceInv, VoiceTypeOK
<1>3. c.user \in Users /\ c.cap \in Capabilities /\ c.at \in Ticks /\ c.seen \in Seq(Nat)
  BY <1>1, <1>2 DEF Started, Handler
<1> HIDE DEF c
<1>4. /\ Len(Locks(c)) = IF c.cap = "transcription" THEN 6 ELSE 5
      /\ \A n \in 1..5 : Locks(c)[n] \in Windows
      /\ c.cap = "transcription" => Locks(c)[6] = Guard
  BY <1>3, LocksAre, RowsAre
<1>5. Len(c.seen) \in Nat /\ Len(c.seen) + 1 \in 1..6
  <2>1. Len(c.seen) \in Nat
    BY <1>3, LenProperties
  <2> QED BY <1>1, <1>4, <2>1
<1>6. /\ Len(c.seen) + 1 # 6 => k \in Windows /\ k # Guard
      /\ Len(c.seen) + 1 = 6 => k = Guard
  <2>1. Len(c.seen) + 1 # 6 => Len(c.seen) + 1 \in 1..5
    BY <1>5
  <2>2. Len(c.seen) + 1 = 6 => c.cap = "transcription"
    BY <1>1, <1>4, <1>5
  <2> HIDE DEF Windows, Guard
  <2> QED BY <1>4, <2>1, <2>2, GuardApart
<1>7. Busy(c) <=> Occupied(c, reservations)
  BY DEF Busy, LiveFor, Occupied
<1>8. /\ v \in Nat
      /\ v = IF Len(c.seen) + 1 = 6 THEN IF Occupied(c, reservations) THEN 1 ELSE 0 ELSE used[k]
  BY <1>2, <1>6, <1>7
<1> HIDE DEF v
<1>9. /\ z \in Seq(Nat) /\ Len(z) = Len(c.seen) + 1
      /\ DOMAIN c.seen = 1..Len(c.seen) /\ DOMAIN z = 1..(Len(c.seen) + 1)
      /\ \A n \in DOMAIN c.seen : z[n] = c.seen[n]
      /\ z[Len(c.seen) + 1] = v
  <2> DEFINE y == z
  <2>1. y = Append(c.seen, v)
    OBVIOUS
  <2> HIDE DEF y
  <2>2. /\ y \in Seq(Nat) /\ Len(y) = Len(c.seen) + 1
        /\ DOMAIN c.seen = 1..Len(c.seen) /\ DOMAIN y = 1..(Len(c.seen) + 1)
        /\ \A n \in DOMAIN c.seen : y[n] = c.seen[n]
        /\ y[Len(c.seen) + 1] = v
    BY <1>3, <1>8, <2>1, OneMore
  <2> QED BY <2>2 DEF y
<1> HIDE DEF z
<1>10. /\ d \in Handler /\ d.pc = "reserve" /\ d.user = c.user /\ d.cap = c.cap /\ d.at = c.at
       /\ d.seen = z
  BY <1>1, <1>2, <1>9 DEF Handler
<1> HIDE DEF d
<1>11. Locks(d) = Locks(c)
  BY <1>10 DEF Locks, Rows
<1>12. Occupied(d, reservations) <=> Occupied(c, reservations)
  BY <1>10 DEF Occupied
<1> HIDE DEF k
<1>13. k = Locks(c)[Len(c.seen) + 1]
  BY DEF k
<1>14. Seen(d, used, reservations)
  <2>1. Len(d.seen) <= Len(Locks(d))
    BY <1>1, <1>4, <1>5, <1>9, <1>10, <1>11
  <2>2. ASSUME NEW n \in DOMAIN d.seen
        PROVE  d.seen[n] = IF n = 6 THEN IF Occupied(d, reservations) THEN 1 ELSE 0
                           ELSE used[Locks(d)[n]]
    <3>1. CASE n \in DOMAIN c.seen
      <4>1. c.seen[n] = IF n = 6 THEN IF Occupied(c, reservations) THEN 1 ELSE 0
                        ELSE used[Locks(c)[n]]
        BY <1>1, <1>2, <3>1 DEF Seen
      <4> QED BY <1>9, <1>10, <1>11, <1>12, <3>1, <4>1
    <3>2. CASE n = Len(c.seen) + 1
      BY <1>8, <1>9, <1>10, <1>11, <1>12, <1>13, <3>2
    <3> QED BY <1>5, <1>9, <1>10, <3>1, <3>2
  <2> QED BY <2>1, <2>2 DEF Seen
<1>15. Held(d) \subseteq Held(c) \cup {k}
  <2>1. Held(d) = {Locks(c)[n] : n \in 1..(Len(c.seen) + 1)}
    BY <1>9, <1>10, <1>11, HeldIs
  <2>2. Held(c) = {Locks(c)[n] : n \in 1..Len(c.seen)}
    BY <1>1, <1>9, HeldIs
  <2>3. \A n \in 1..(Len(c.seen) + 1) : n \in 1..Len(c.seen) \/ n = Len(c.seen) + 1
    BY <1>5
  <2> QED BY <1>13, <2>1, <2>2, <2>3
<1>16. ASSUME NEW q \in Requests, q # r
       PROVE  Apart(d, request[q])
  <2>1. Apart(c, request[q])
    BY <1>16, RequestOf DEF c
  <2>2. k \notin Held(request[q])
    BY <1>1, <1>16 DEF Free
  <2> QED BY <1>10, <1>15, <2>1, <2>2 DEF Apart
<1>17. Started(d, clock) /\ Entitled(d, reservations, streams \cup spoken)
  BY <1>1, <1>2, <1>10 DEF Started, Entitled
<1>18. RequestsInv' /\ request' \in [Requests -> Handler]
  <2>1. /\ Started(d, clock') /\ Seen(d, used', reservations')
        /\ Entitled(d, reservations', streams' \cup spoken')
    BY <1>1, <1>14, <1>17
  <2>2. \A q \in Requests : q # r =>
          /\ Started(request[q], clock') /\ Seen(request[q], used', reservations')
          /\ Entitled(request[q], reservations', streams' \cup spoken')
          /\ Apart(d, request[q])
    BY <1>1, <1>16, RequestOf
  <2> QED BY <1>1, <1>10, <2>1, <2>2, RequestUpdate DEF VoiceInv
<1>19. VoiceTypeOK'
  BY <1>1, <1>18 DEF VoiceInv, VoiceTypeOK
<1> QED BY <1>1, <1>18, <1>19, BooksSame, SpentSame DEF VoiceInv

(***************************************************************************)
(* The end of a transaction, which has read all its rows.                  *)
(***************************************************************************)
LEMMA FullIs ==
  ASSUME VoiceInv, NEW r \in Requests, NEW c, c = request[r],
         c.pc = "reserve", Len(c.seen) = Len(Locks(c))
  PROVE  /\ c \in Handler /\ c.user \in Users /\ c.cap \in Capabilities /\ c.at \in Ticks
         /\ c.at <= clock /\ clock <= c.at + MaxLag /\ c.at \in Nat
         /\ \A n \in 1..5 : /\ Locks(c)[n] = Rows(c)[n] /\ Rows(c)[n] \in Held(c)
                            /\ c.seen[n] = used[Rows(c)[n]]
         /\ c.cap = "transcription" =>
              /\ Guard \in Held(c)
              /\ c.seen[Len(c.seen)] = IF Occupied(c, reservations) THEN 1 ELSE 0
<1>1. c \in Handler /\ Started(c, clock) /\ Seen(c, used, reservations)
  BY RequestOf
<1>2. /\ c.user \in Users /\ c.cap \in Capabilities /\ c.at \in Ticks
      /\ c.at <= clock /\ clock <= c.at + MaxLag
  BY <1>1 DEF Started
<1>3. c.at \in Nat
  BY <1>2, VoiceAssumption DEF Ticks
<1>4. /\ Len(Locks(c)) = IF c.cap = "transcription" THEN 6 ELSE 5
      /\ \A n \in 1..5 : Locks(c)[n] = Rows(c)[n]
      /\ c.cap = "transcription" => Locks(c)[6] = Guard
  BY <1>2, LocksAre
<1>5. DOMAIN c.seen = 1..Len(c.seen)
  <2>1. c.seen \in Seq(Nat)
    BY <1>1 DEF Handler
  <2> QED BY <2>1, LenProperties
<1>6. 1..5 \subseteq DOMAIN c.seen /\ (c.cap = "transcription" => 6 \in DOMAIN c.seen)
  BY <1>4, <1>5
<1>7. Held(c) = {Locks(c)[n] : n \in DOMAIN c.seen}
  BY HeldIs
<1>8. \A n \in DOMAIN c.seen :
        c.seen[n] = IF n = 6 THEN IF Occupied(c, reservations) THEN 1 ELSE 0 ELSE used[Locks(c)[n]]
  BY <1>1 DEF Seen
<1>9. ASSUME NEW n \in 1..5
      PROVE  /\ Locks(c)[n] = Rows(c)[n] /\ Rows(c)[n] \in Held(c)
             /\ c.seen[n] = used[Rows(c)[n]]
  <2>1. n # 6 /\ n \in DOMAIN c.seen
    BY <1>6
  <2> QED BY <1>4, <1>7, <1>8, <2>1
<1>10. ASSUME c.cap = "transcription"
       PROVE  /\ Guard \in Held(c)
              /\ c.seen[Len(c.seen)] = IF Occupied(c, reservations) THEN 1 ELSE 0
  <2>1. Len(c.seen) = 6 /\ 6 \in DOMAIN c.seen
    BY <1>4, <1>6, <1>10
  <2> QED BY <1>4, <1>7, <1>8, <1>10, <2>1
<1> QED BY <1>1, <1>2, <1>3, <1>9, <1>10

\* A request that is allowed fits in its windows, and finds no lease in its way.
LEMMA AllowedIs ==
  ASSUME VoiceInv, NEW r \in Requests, NEW c, c = request[r],
         c.pc = "reserve", Len(c.seen) = Len(Locks(c)), Allowed(c)
  PROVE  /\ used[Rows(c)[1]] + 1 <= RequestLimit
         /\ \A n \in 2..5 : used[Rows(c)[n]] + c.units <= Limit(Rows(c)[n])
         /\ c.cap = "transcription" => ~Occupied(c, reservations)
<1>1. /\ \A n \in 1..5 : Locks(c)[n] = Rows(c)[n] /\ c.seen[n] = used[Rows(c)[n]]
      /\ c.cap = "transcription" =>
           c.seen[Len(c.seen)] = IF Occupied(c, reservations) THEN 1 ELSE 0
  BY FullIs
<1>2. used[Rows(c)[1]] + 1 <= RequestLimit
  BY <1>1 DEF Allowed
<1>3. \A n \in 2..5 : used[Rows(c)[n]] + c.units <= Limit(Rows(c)[n])
  <2>1. \A n \in 2..5 : n \in 1..5 /\ Affords(c, n)
    BY DEF Allowed
  <2> QED BY <1>1, <2>1 DEF Affords
<1>4. c.cap = "transcription" => c.seen[Len(c.seen)] = 0
  BY DEF Allowed
<1> QED BY <1>1, <1>2, <1>3, <1>4

LEMMA ChargedIs ==
  ASSUME VoiceInv, NEW r \in Requests, NEW c, c = request[r],
         c.pc = "reserve", Len(c.seen) = Len(Locks(c))
  PROVE  /\ Charged(c) \in [Windows -> Nat]
         /\ \A k \in Windows :
              Charged(c)[k] =
                IF k = Rows(c)[1] THEN IF used[k] > RequestLimit THEN used[k] ELSE used[k] + 1
                ELSE IF Allowed(c) /\ \E n \in 2..5 : k = Rows(c)[n] THEN used[k] + c.units
                ELSE used[k]
<1>1. /\ c \in Handler /\ \A n \in 1..5 : Locks(c)[n] = Rows(c)[n]
  BY FullIs
<1>2. c.units \in Nat
  BY <1>1 DEF Handler
<1>3. \A n \in 2..5 : Locks(c)[n] = Rows(c)[n]
  BY <1>1
<1>4. ASSUME NEW k \in Windows
      PROVE  Charged(c)[k] =
                IF k = Rows(c)[1] THEN IF used[k] > RequestLimit THEN used[k] ELSE used[k] + 1
                ELSE IF Allowed(c) /\ \E n \in 2..5 : k = Rows(c)[n] THEN used[k] + c.units
                ELSE used[k]
  <2>1. Counted(c, k) <=> k = Rows(c)[1]
    BY <1>1 DEF Counted
  <2>2. (\E n \in 2..5 : k = Locks(c)[n]) <=> \E n \in 2..5 : k = Rows(c)[n]
    BY <1>3
  <2>3. Charged(c)[k] =
          IF Counted(c, k) THEN IF used[k] > RequestLimit THEN used[k] ELSE used[k] + 1
          ELSE IF Allowed(c) /\ \E n \in 2..5 : k = Locks(c)[n] THEN used[k] + c.units
          ELSE used[k]
    BY DEF Charged
  <2> QED BY <2>1, <2>2, <2>3
<1>5. used \in [Windows -> Nat]
  BY DEF VoiceInv, VoiceTypeOK
<1>6. \A k \in Windows : Charged(c)[k] \in Nat
  BY <1>2, <1>4, <1>5
<1>7. Charged(c) = [k \in Windows |-> Charged(c)[k]]
  BY DEF Charged
<1> QED BY <1>4, <1>6, <1>7

\* The book of reservations as an allowed request leaves it.
LEMMA BookIs ==
  ASSUME VoiceInv, NEW r \in Requests, NEW c, c = request[r],
         c.pc = "reserve", Len(c.seen) = Len(Locks(c)),
         NEW v, v = [user |-> c.user, cap |-> c.cap, units |-> c.units, at |-> c.at],
         reservations' = Append(reservations, v)
  PROVE  /\ v \in Reservation /\ v.user = c.user /\ v.cap = c.cap /\ v.at = c.at /\ v.units = c.units
         /\ reservations' \in Seq(Reservation) /\ Len(reservations) \in Nat
         /\ Len(reservations') = Len(reservations) + 1
         /\ DOMAIN reservations = 1..Len(reservations)
         /\ DOMAIN reservations' = 1..(Len(reservations) + 1)
         /\ \A i \in DOMAIN reservations :
              /\ i \in DOMAIN reservations' /\ reservations'[i] = reservations[i]
              /\ reservations[i] \in Reservation
         /\ reservations'[Len(reservations) + 1] = v
<1>1. c \in Handler /\ c.user \in Users /\ c.cap \in Capabilities /\ c.at \in Ticks
  BY FullIs
<1>2. c.units \in Nat
  BY <1>1 DEF Handler
<1>3. v \in Reservation /\ v.user = c.user /\ v.cap = c.cap /\ v.at = c.at /\ v.units = c.units
  BY <1>1, <1>2 DEF Reservation
<1>4. reservations \in Seq(Reservation)
  BY DEF VoiceInv, VoiceTypeOK
<1>5. \A i \in DOMAIN reservations : reservations[i] \in Reservation
  BY <1>4, ElementOfSeq, LenProperties
<1> HIDE DEF Reservation
<1>6. /\ reservations' \in Seq(Reservation) /\ Len(reservations) \in Nat
      /\ Len(reservations') = Len(reservations) + 1
      /\ DOMAIN reservations = 1..Len(reservations)
      /\ DOMAIN reservations' = 1..(Len(reservations) + 1)
      /\ \A i \in DOMAIN reservations :
           i \in DOMAIN reservations' /\ reservations'[i] = reservations[i]
      /\ reservations'[Len(reservations) + 1] = v
  BY <1>3, <1>4, OneMore
<1> QED BY <1>3, <1>5, <1>6

LEMMA WindowIs ==
  ASSUME NEW c, c.user \in Users, c.cap \in Capabilities, c.at \in Ticks,
         NEW v, v.user = c.user, v.cap = c.cap, v.at = c.at,
         NEW k \in Windows, k[3] # "minute"
  PROVE  InWindow(v, k) <=> \E n \in 2..5 : k = Rows(c)[n]
<1> DEFINE d == Day(c.at)  m == Month(c.at)
<1>1. /\ Rows(c)[2] = <<Project, c.cap, "day", d>> /\ Rows(c)[3] = <<Project, c.cap, "month", m>>
      /\ Rows(c)[4] = <<c.user, c.cap, "day", d>> /\ Rows(c)[5] = <<c.user, c.cap, "month", m>>
  BY RowsAre
<1>2. (\E n \in 2..5 : k = Rows(c)[n]) <=>
        k \in {Rows(c)[2], Rows(c)[3], Rows(c)[4], Rows(c)[5]}
  OBVIOUS
<1>3. /\ k[3] \in {"day", "month"} /\ k = <<k[1], k[2], k[3], k[4]>>
  BY DEF Windows, Minutes
<1>4. InWindow(v, k) <=>
        /\ k[1] \in {c.user, Project} /\ k[2] = c.cap
        /\ k[4] = IF k[3] = "day" THEN d ELSE m
  BY <1>3 DEF InWindow
<1> HIDE DEF d, m
<1>5. k \in {Rows(c)[2], Rows(c)[3], Rows(c)[4], Rows(c)[5]} <=>
        /\ k[1] \in {c.user, Project} /\ k[2] = c.cap
        /\ k[4] = IF k[3] = "day" THEN d ELSE m
  BY <1>1, <1>3
<1> QED BY <1>2, <1>4, <1>5

\* What a reservation adds to its windows.
LEMMA UnitsAre ==
  ASSUME VoiceInv, NEW r \in Requests, NEW c, c = request[r],
         c.pc = "reserve", Len(c.seen) = Len(Locks(c)),
         NEW v, v = [user |-> c.user, cap |-> c.cap, units |-> c.units, at |-> c.at],
         reservations' = Append(reservations, v), NEW k, IsFiniteSet(Units(k))
  PROVE  /\ IsFiniteSet(Units(k)')
         /\ Cardinality(Units(k)') = Cardinality(Units(k)) + IF InWindow(v, k) THEN c.units ELSE 0
<1> DEFINE l == Len(reservations) + 1
           new == {l} \X (1..c.units)
<1>1. /\ Len(reservations) \in Nat /\ DOMAIN reservations = 1..Len(reservations)
      /\ DOMAIN reservations' = 1..l /\ reservations'[l] = v /\ v.units = c.units
      /\ \A i \in DOMAIN reservations :
           i \in DOMAIN reservations' /\ reservations'[i] = reservations[i]
  BY BookIs
<1>2. c.units \in Nat
  <2>1. c \in Handler
    BY RequestOf
  <2> QED BY <2>1 DEF Handler
<1>3. \A i : i \in DOMAIN reservations' <=> i \in DOMAIN reservations \/ i = l
  BY <1>1
<1>4. l \notin DOMAIN reservations
  BY <1>1
<1> HIDE DEF l
<1>5. Units(k)' = UNION {{i} \X (1..reservations'[i].units) :
                           i \in {j \in DOMAIN reservations' : InWindow(reservations'[j], k)}}
  BY DEF Units, InWindow
<1>6. Units(k) = UNION {{i} \X (1..reservations[i].units) :
                          i \in {j \in DOMAIN reservations : InWindow(reservations[j], k)}}
  BY DEF Units
<1>7. Units(k)' = Units(k) \cup IF InWindow(v, k) THEN new ELSE {}
  <2>1. ASSUME NEW w \in Units(k)'
        PROVE  w \in Units(k) \/ (InWindow(v, k) /\ w \in new)
    <3>1. PICK i \in DOMAIN reservations' : InWindow(reservations'[i], k)
                                            /\ w \in {i} \X (1..reservations'[i].units)
      BY <1>5
    <3>2. CASE i \in DOMAIN reservations
      <4>1. InWindow(reservations[i], k) /\ w \in {i} \X (1..reservations[i].units)
        BY <1>1, <3>1, <3>2
      <4> QED BY <1>6, <3>2, <4>1
    <3>3. CASE i = l
      BY <1>1, <3>1, <3>3
    <3> QED BY <1>3, <3>2, <3>3
  <2>2. ASSUME NEW w \in Units(k)
        PROVE  w \in Units(k)'
    <3>1. PICK i \in DOMAIN reservations : InWindow(reservations[i], k)
                                           /\ w \in {i} \X (1..reservations[i].units)
      BY <1>6
    <3>2. /\ i \in DOMAIN reservations' /\ InWindow(reservations'[i], k)
          /\ w \in {i} \X (1..reservations'[i].units)
      BY <1>1, <3>1
    <3> QED BY <1>5, <3>2
  <2>3. ASSUME InWindow(v, k), NEW w \in new
        PROVE  w \in Units(k)'
    <3>1. /\ l \in DOMAIN reservations' /\ InWindow(reservations'[l], k)
          /\ w \in {l} \X (1..reservations'[l].units)
      BY <1>1, <1>3, <2>3
    <3> QED BY <1>5, <3>1
  <2> HIDE DEF new
  <2> QED BY <2>1, <2>2, <2>3
<1>8. IsFiniteSet(new) /\ Cardinality(new) = c.units
  <2> DEFINE one == {l}  n == c.units  few == 1..n
  <2>1. IsFiniteSet(one) /\ Cardinality(one) = 1
    BY FS_Singleton
  <2>2. new = one \X few /\ n \in Nat /\ few = 1..n /\ n = c.units
    BY <1>2
  <2> HIDE DEF one, few, n, new
  <2>3. n \in Int /\ 1 \in Int
    BY <2>2
  <2>4. IsFiniteSet(few) /\ Cardinality(few) = IF 1 > n THEN 0 ELSE n - 1 + 1
    BY <2>2, <2>3, FS_Interval
  <2>5. IsFiniteSet(one \X few) /\ Cardinality(one \X few) = Cardinality(one) * Cardinality(few)
    BY <2>1, <2>4, FS_Product
  <2>6. Cardinality(few) = n
    BY <2>2, <2>4
  <2>7. Cardinality(one) * Cardinality(few) = 1 * n
    BY <2>1, <2>6
  <2> QED BY <2>2, <2>5, <2>7
<1>9. Units(k) \cap new = {}
  <2>1. ASSUME NEW w \in Units(k), w \in new
        PROVE  FALSE
    <3>1. PICK i \in DOMAIN reservations : w \in {i} \X (1..reservations[i].units)
      BY <1>6
    <3>2. w[1] = i /\ w[1] = l
      BY <2>1, <3>1
    <3> QED BY <1>4, <3>2
  <2> QED BY <2>1
<1> HIDE DEF new
<1>10. /\ IsFiniteSet(Units(k) \cup new)
       /\ Cardinality(Units(k) \cup new) = Cardinality(Units(k)) + c.units
  <2>1. /\ IsFiniteSet(Units(k) \cup new)
        /\ Cardinality(Units(k) \cup new)
             = Cardinality(Units(k)) + Cardinality(new) - Cardinality(Units(k) \cap new)
    BY <1>8, FS_Union
  <2>2. Cardinality(Units(k)) \in Nat
    BY FS_CardinalityType
  <2>3. Cardinality(Units(k) \cap new) = 0
    BY <1>9, FS_EmptySet
  <2> QED BY <1>2, <1>8, <2>1, <2>2, <2>3
<1>11. CASE InWindow(v, k)
  BY <1>7, <1>10, <1>11
<1>12. CASE ~InWindow(v, k)
  <2>1. Units(k)' = Units(k)
    BY <1>7, <1>12
  <2>2. Cardinality(Units(k)) \in Nat
    BY FS_CardinalityType
  <2> QED BY <1>12, <2>1, <2>2
<1> QED BY <1>11, <1>12

LEMMA MinutesCharged ==
  ASSUME VoiceInv, NEW r \in Requests, NEW c, c = request[r],
         c.pc = "reserve", Len(c.seen) = Len(Locks(c)),
         used' = Charged(c), decided' = [decided EXCEPT ![Rows(c)[1]] = @ + 1]
  PROVE  MinutesInv'
<1>1. /\ c.user \in Users /\ c.cap \in Capabilities /\ c.at \in Ticks
  BY FullIs
<1>2. Rows(c)[1] \in Minutes /\ \A n \in 2..5 : Rows(c)[n] \notin Minutes
  BY <1>1, RowsAre
<1>3. /\ decided \in [Minutes -> Nat] /\ RequestLimit \in Nat
      /\ \A k \in Minutes :
           k \in Windows /\ used[k] = IF decided[k] <= RequestLimit THEN decided[k] ELSE RequestLimit + 1
  BY VoiceAssumption DEF VoiceInv, VoiceTypeOK, MinutesInv, Windows
<1>4. ASSUME NEW k \in Minutes
      PROVE  used'[k] = IF decided'[k] <= RequestLimit THEN decided'[k] ELSE RequestLimit + 1
  <2>1. used'[k] = IF k = Rows(c)[1] THEN IF used[k] > RequestLimit THEN used[k] ELSE used[k] + 1
                   ELSE used[k]
    <3>1. k \in Windows /\ ~ \E n \in 2..5 : k = Rows(c)[n]
      <4> HIDE DEF Minutes
      <4> QED BY <1>2, <1>3
    <3>2. Charged(c)[k] =
            IF k = Rows(c)[1] THEN IF used[k] > RequestLimit THEN used[k] ELSE used[k] + 1
            ELSE IF Allowed(c) /\ \E n \in 2..5 : k = Rows(c)[n] THEN used[k] + c.units
            ELSE used[k]
      BY <3>1, ChargedIs
    <3> QED BY <3>1, <3>2
  <2>2. decided'[k] = IF k = Rows(c)[1] THEN decided[k] + 1 ELSE decided[k]
    BY <1>2, <1>3
  <2>3. decided[k] \in Nat
    BY <1>3
  <2>4. used[k] = IF decided[k] <= RequestLimit THEN decided[k] ELSE RequestLimit + 1
    BY <1>3
  <2> HIDE DEF Minutes
  <2> QED BY <1>3, <2>1, <2>2, <2>3, <2>4
<1> QED BY <1>4 DEF MinutesInv

LEMMA BudgetsRefused ==
  ASSUME VoiceInv, NEW r \in Requests, NEW c, c = request[r],
         c.pc = "reserve", Len(c.seen) = Len(Locks(c)), ~Allowed(c),
         used' = Charged(c), reservations' = reservations
  PROVE  BudgetsInv'
<1>1. Rows(c)[1][3] = "minute"
  <2>1. /\ c.user \in Users /\ c.cap \in Capabilities /\ c.at \in Ticks
    BY FullIs
  <2> QED BY <2>1, RowsAre
<1>2. ASSUME NEW k \in Windows, k[3] # "minute"
      PROVE  IsFiniteSet(Units(k)') /\ used'[k] = Cardinality(Units(k)') /\ used'[k] <= Limit(k)
  <2>1. used'[k] = used[k]
    BY <1>1, <1>2, ChargedIs
  <2>2. Units(k)' = Units(k)
    BY DEF Units, InWindow
  <2>3. IsFiniteSet(Units(k)) /\ used[k] = Cardinality(Units(k)) /\ used[k] <= Limit(k)
    BY <1>2 DEF VoiceInv, BudgetsInv
  <2> QED BY <2>1, <2>2, <2>3
<1> QED BY <1>2 DEF BudgetsInv

LEMMA BudgetsCharged ==
  ASSUME VoiceInv, NEW r \in Requests, NEW c, c = request[r],
         c.pc = "reserve", Len(c.seen) = Len(Locks(c)), Allowed(c), used' = Charged(c),
         NEW v, v = [user |-> c.user, cap |-> c.cap, units |-> c.units, at |-> c.at],
         reservations' = Append(reservations, v)
  PROVE  BudgetsInv'
<1>1. /\ c.user \in Users /\ c.cap \in Capabilities /\ c.at \in Ticks
      /\ v.user = c.user /\ v.cap = c.cap /\ v.at = c.at
  BY FullIs
<1>2. Rows(c)[1][3] = "minute"
  BY <1>1, RowsAre
<1>3. \A n \in 2..5 : used[Rows(c)[n]] + c.units <= Limit(Rows(c)[n])
  BY AllowedIs
<1>4. ASSUME NEW k \in Windows, k[3] # "minute"
      PROVE  IsFiniteSet(Units(k)') /\ used'[k] = Cardinality(Units(k)') /\ used'[k] <= Limit(k)
  <2>1. used'[k] = IF \E n \in 2..5 : k = Rows(c)[n] THEN used[k] + c.units ELSE used[k]
    BY <1>2, <1>4, ChargedIs
  <2>2. InWindow(v, k) <=> \E n \in 2..5 : k = Rows(c)[n]
    BY <1>1, <1>4, WindowIs
  <2>3. IsFiniteSet(Units(k)) /\ used[k] = Cardinality(Units(k)) /\ used[k] <= Limit(k)
    BY <1>4 DEF VoiceInv, BudgetsInv
  <2>4. /\ IsFiniteSet(Units(k)')
        /\ Cardinality(Units(k)') = Cardinality(Units(k)) + IF InWindow(v, k) THEN c.units ELSE 0
    BY <2>3, UnitsAre
  <2>5. used[k] \in Nat
    BY DEF VoiceInv, VoiceTypeOK
  <2>6. CASE InWindow(v, k)
    <3>1. used[k] + c.units <= Limit(k)
      BY <1>3, <2>2, <2>6
    <3> QED BY <2>1, <2>2, <2>3, <2>4, <2>6, <3>1
  <2>7. CASE ~InWindow(v, k)
    BY <2>1, <2>2, <2>3, <2>4, <2>5, <2>7
  <2> QED BY <2>6, <2>7
<1> QED BY <1>4 DEF BudgetsInv

LEMMA StillDistinct ==
  ASSUME NEW O, NEW N, NEW A, NEW B, NEW l, N \subseteq O \cup {l},
         \A i, j \in O : A[i].user = A[j].user => i = j,
         \A i \in O : B[i] = A[i],
         \A i \in O : l \in N => B[i].user # B[l].user
  PROVE  \A i, j \in N : B[i].user = B[j].user => i = j
OBVIOUS

\* A lease that begins finds no other of its user, and room in the project.
LEMMA LeasesCharged ==
  ASSUME VoiceInv, NEW r \in Requests, NEW c, c = request[r],
         c.pc = "reserve", Len(c.seen) = Len(Locks(c)), Allowed(c),
         NEW v, v = [user |-> c.user, cap |-> c.cap, units |-> c.units, at |-> c.at],
         reservations' = Append(reservations, v)
  PROVE  LeasesInv'
<1> DEFINE l == Len(reservations) + 1
<1>1. /\ Len(reservations) \in Nat /\ DOMAIN reservations = 1..Len(reservations)
      /\ DOMAIN reservations' = 1..l /\ reservations'[l] = v
      /\ v.user = c.user /\ v.cap = c.cap /\ v.at = c.at
      /\ \A i \in DOMAIN reservations :
           /\ i \in DOMAIN reservations' /\ reservations'[i] = reservations[i]
           /\ reservations[i] \in Reservation
  BY BookIs
<1>2. \A i : i \in DOMAIN reservations' <=> i \in DOMAIN reservations \/ i = l
  BY <1>1
<1>3. l \notin DOMAIN reservations
  BY <1>1
<1>4. IsFiniteSet(DOMAIN reservations)
  BY <1>1, FS_Interval
<1> HIDE DEF l
<1>5. c.at \in Nat /\ Redeem \in Nat /\ Session \in Nat /\ ProjectSessions \in Nat
  BY FullIs, VoiceAssumption
<1>6. c.cap = "transcription" => ~Occupied(c, reservations)
  BY AllowedIs
<1>7. ASSUME NEW t \in Nat
      PROVE  /\ Cardinality(Leases(t)') <= ProjectSessions
             /\ \A i, j \in Leases(t)' : reservations'[i].user = reservations'[j].user => i = j
  <2>1. /\ Leases(t) = {i \in DOMAIN reservations : reservations[i].at <= t /\ Live(reservations[i], t)}
        /\ Leases(t)' = {i \in DOMAIN reservations' : reservations'[i].at <= t /\ Live(reservations'[i], t)}
    BY DEF Leases, Live, Lease
  <2>2. Leases(t)' = Leases(t) \cup IF v.at <= t /\ Live(v, t) THEN {l} ELSE {}
    BY <1>1, <1>2, <1>3, <2>1
  <2>3. /\ Cardinality(Leases(t)) <= ProjectSessions
        /\ \A i, j \in Leases(t) : reservations[i].user = reservations[j].user => i = j
    BY DEF VoiceInv, LeasesInv
  <2>4. CASE ~(v.at <= t /\ Live(v, t))
    <3>1. Leases(t)' = Leases(t)
      BY <2>2, <2>4
    <3>2. \A i \in Leases(t) : reservations'[i] = reservations[i]
      BY <1>1, <2>1
    <3>3. \A i, j \in Leases(t)' : reservations'[i].user = reservations'[j].user => i = j
      <4>1. /\ Leases(t)' \subseteq Leases(t) \cup {0}
            /\ \A i \in Leases(t) : 0 \in Leases(t)' => reservations'[i].user # reservations'[0].user
        <5>1. 0 \notin Leases(t)
          BY <1>1, <2>1
        <5> QED BY <3>1, <5>1
      <4> DEFINE O == Leases(t)  N == Leases(t)'  A == reservations  B == reservations'  o == 0
      <4>2. /\ N \subseteq O \cup {o} /\ \A i, j \in O : A[i].user = A[j].user => i = j
            /\ \A i \in O : B[i] = A[i]
            /\ \A i \in O : o \in N => B[i].user # B[o].user
        BY <2>3, <3>2, <4>1
      <4> HIDE DEF O, N, A, B, o
      <4>3. \A i, j \in N : B[i].user = B[j].user => i = j
        BY <4>2, StillDistinct
      <4> QED BY <4>3 DEF N, B
    <3> QED BY <2>3, <3>1, <3>3
  <2>5. CASE v.at <= t /\ Live(v, t)
    <3> DEFINE now == {i \in DOMAIN reservations : Live(reservations[i], c.at)}
    <3>1. c.cap = "transcription" /\ c.at <= t
      BY <1>1, <2>5 DEF Live
    <3>2. /\ \A i \in now : reservations[i].user # c.user
          /\ ~(Cardinality(now) >= ProjectSessions)
      BY <1>6, <3>1 DEF Occupied
    <3>3. Leases(t) \subseteq now
      <4>1. ASSUME NEW i \in Leases(t)
            PROVE  i \in now
        <5>1. i \in DOMAIN reservations /\ Live(reservations[i], t)
          BY <2>1
        <5>2. reservations[i].at \in Nat
          <6>1. reservations[i] \in Reservation
            BY <1>1, <5>1
          <6> QED BY <6>1, VoiceAssumption DEF Reservation, Ticks
        <5>3. Lease(reservations[i]) \in Nat
          BY <1>5, <5>2 DEF Lease
        <5>4. Live(reservations[i], c.at)
          BY <1>5, <3>1, <5>1, <5>3 DEF Live
        <5> QED BY <5>1, <5>4
      <4> HIDE DEF now
      <4> QED BY <4>1
    <3>4. IsFiniteSet(now)
      <4>1. now \subseteq DOMAIN reservations
        OBVIOUS
      <4> HIDE DEF now
      <4> QED BY <1>4, <4>1, FS_Subset
    <3>5. l \notin Leases(t)
      BY <1>3, <2>1
    <3> HIDE DEF now
    <3>6. IsFiniteSet(Leases(t)) /\ Cardinality(Leases(t)) <= Cardinality(now)
      BY <3>3, <3>4, FS_Subset
    <3>7. Cardinality(now) \in Nat /\ Cardinality(Leases(t)) \in Nat
      BY <3>4, <3>6, FS_CardinalityType
    <3>8. Leases(t)' = Leases(t) \cup {l}
      BY <2>2, <2>5
    <3>9. Cardinality(Leases(t) \cup {l}) = Cardinality(Leases(t)) + 1
      BY <3>5, <3>6, FS_AddElement
    <3>10. Cardinality(Leases(t)') <= ProjectSessions
      <4>1. Cardinality(now) < ProjectSessions
        BY <1>5, <3>2, <3>7
      <4> QED BY <1>5, <3>6, <3>7, <3>8, <3>9, <4>1
    <3>11. \A i \in Leases(t) : /\ reservations'[i] = reservations[i]
                                /\ reservations'[i].user # reservations'[l].user
      <4>1. ASSUME NEW i \in Leases(t)
            PROVE  /\ reservations'[i] = reservations[i]
                   /\ reservations'[i].user # reservations'[l].user
        <5>1. i \in DOMAIN reservations
          BY <2>1
        <5>2. reservations[i].user # c.user
          BY <3>2, <3>3
        <5> QED BY <1>1, <5>1, <5>2
      <4> QED BY <4>1
    <3>12. \A i, j \in Leases(t)' : reservations'[i].user = reservations'[j].user => i = j
      <4>1. Leases(t)' \subseteq Leases(t) \cup {l}
        BY <3>8
      <4> DEFINE O == Leases(t)  N == Leases(t)'  A == reservations  B == reservations'
      <4>2. /\ N \subseteq O \cup {l} /\ \A i, j \in O : A[i].user = A[j].user => i = j
            /\ \A i \in O : B[i] = A[i]
            /\ \A i \in O : l \in N => B[i].user # B[l].user
        BY <2>3, <3>11, <4>1
      <4> HIDE DEF O, N, A, B
      <4>3. \A i, j \in N : B[i].user = B[j].user => i = j
        BY <4>2, StillDistinct
      <4> QED BY <4>3 DEF N, B
    <3> QED BY <3>10, <3>12
  <2> QED BY <2>4, <2>5
<1> QED BY <1>7 DEF LeasesInv

LEMMA SpentCharged ==
  ASSUME VoiceInv, UNCHANGED <<streams, spoken>>,
         \A i \in DOMAIN reservations :
           i \in DOMAIN reservations' /\ reservations'[i] = reservations[i]
  PROVE  /\ SpentInv'
         /\ \A s \in streams \cup spoken :
              s.for \in DOMAIN reservations' /\ reservations'[s.for].user = s.user
<1>1. \A s \in streams \cup spoken : s.for \in DOMAIN reservations /\ reservations[s.for].user = s.user
  BY DEF VoiceInv, VoiceTypeOK
<1>2. \A s \in streams \cup spoken :
        s.for \in DOMAIN reservations' /\ reservations'[s.for] = reservations[s.for]
  BY <1>1
<1>3. SpentInv'
  BY <1>2 DEF VoiceInv, SpentInv
<1> QED BY <1>1, <1>2, <1>3

\* No transaction changes what another one has read.
LEMMA OthersSee ==
  ASSUME VoiceInv, NEW r \in Requests, NEW c, c = request[r],
         c.pc = "reserve", Len(c.seen) = Len(Locks(c)), used' = Charged(c),
         NEW q \in Requests, q # r, NEW d, d = request[q],
         Guard \in Held(d) => (Occupied(d, reservations') <=> Occupied(d, reservations))
  PROVE  Seen(d, used', reservations')
<1>1. Started(d, clock) /\ Seen(d, used, reservations) /\ Apart(c, d)
  BY RequestOf
<1>2. SUFFICES ASSUME d.pc = "reserve" PROVE Seen(d, used', reservations')
  BY DEF Seen
<1>3. d.user \in Users /\ d.cap \in Capabilities /\ d.at \in Ticks
  BY <1>1, <1>2 DEF Started
<1>4. /\ Len(d.seen) <= Len(Locks(d))
      /\ \A n \in DOMAIN d.seen :
           d.seen[n] = IF n = 6 THEN IF Occupied(d, reservations) THEN 1 ELSE 0 ELSE used[Locks(d)[n]]
  BY <1>1, <1>2 DEF Seen
<1>5. /\ Len(Locks(d)) = IF d.cap = "transcription" THEN 6 ELSE 5
      /\ \A n \in 1..5 : Locks(d)[n] \in Windows
      /\ d.cap = "transcription" => Locks(d)[6] = Guard
  <2>1. \A n \in 1..5 : Locks(d)[n] = Rows(d)[n] /\ Rows(d)[n] \in Windows
    BY <1>3, LocksAre, RowsAre
  <2>2. /\ Len(Locks(d)) = IF d.cap = "transcription" THEN 6 ELSE 5
        /\ d.cap = "transcription" => Locks(d)[6] = Guard
    BY <1>3, LocksAre
  <2> QED BY <2>1, <2>2
<1>6. \A n \in DOMAIN d.seen : Locks(d)[n] \in Held(d)
  BY <1>2, HeldIs
<1>7. \A n \in 1..5 : Rows(c)[n] \in Held(c)
  BY FullIs
<1>8. d \in Handler
  BY RequestOf
<1>9. d.seen \in Seq(Nat)
  BY <1>8 DEF Handler
<1>10. DOMAIN d.seen = 1..Len(d.seen) /\ Len(d.seen) \in Nat
  BY <1>9, LenProperties
<1>11. ASSUME NEW n \in DOMAIN d.seen
       PROVE  d.seen[n] = IF n = 6 THEN IF Occupied(d, reservations') THEN 1 ELSE 0
                          ELSE used'[Locks(d)[n]]
  <2>1. n \in 1..6
    BY <1>4, <1>5, <1>10
  <2>2. Locks(d)[n] \in Held(d)
    BY <1>6
  <2>3. CASE n = 6
    <3>1. d.cap = "transcription"
      BY <1>4, <1>5, <1>10, <2>3
    <3>2. Guard \in Held(d)
      BY <1>5, <2>2, <2>3, <3>1
    <3>3. Occupied(d, reservations') <=> Occupied(d, reservations)
      BY <3>2
    <3> QED BY <1>4, <2>3, <3>3
  <2>4. CASE n \in 1..5
    <3> DEFINE k == Locks(d)[n]
    <3>1. k \in Windows /\ k \in Held(d) /\ k \notin Held(c)
      BY <1>1, <1>5, <2>2, <2>4 DEF Apart
    <3> HIDE DEF k
    <3>2. k # Rows(c)[1] /\ ~ \E m \in 2..5 : k = Rows(c)[m]
      <4>1. \A m \in 1..5 : k # Rows(c)[m]
        BY <1>7, <3>1
      <4>2. \A m \in 2..5 : m \in 1..5
        OBVIOUS
      <4> QED BY <4>1, <4>2
    <3>3. Charged(c)[k] = used[k]
      BY <3>1, <3>2, ChargedIs
    <3>4. n # 6
      BY <2>4
    <3> QED BY <1>4, <3>3, <3>4 DEF k
  <2> QED BY <2>1, <2>3, <2>4
<1> QED BY <1>4, <1>11 DEF Seen

\* A new lease shows in what another one has read only when that one holds the guard.
LEMMA OthersOccupied ==
  ASSUME VoiceInv, NEW r \in Requests, NEW c, c = request[r],
         c.pc = "reserve", Len(c.seen) = Len(Locks(c)),
         NEW v, v = [user |-> c.user, cap |-> c.cap, units |-> c.units, at |-> c.at],
         reservations' = Append(reservations, v),
         NEW d, Guard \in Held(d), Apart(c, d)
  PROVE  Occupied(d, reservations') <=> Occupied(d, reservations)
<1> DEFINE l == Len(reservations) + 1
<1>1. c.cap # "transcription"
  BY FullIs DEF Apart
<1>2. /\ DOMAIN reservations = 1..Len(reservations) /\ Len(reservations) \in Nat
      /\ DOMAIN reservations' = 1..l
      /\ reservations'[l] = v /\ v.cap = c.cap
      /\ \A i \in DOMAIN reservations :
           i \in DOMAIN reservations' /\ reservations'[i] = reservations[i]
  BY BookIs
<1>3. \A i : i \in DOMAIN reservations' <=> i \in DOMAIN reservations \/ i = l
  BY <1>2
<1> HIDE DEF l
<1>4. ~Live(reservations'[l], d.at)
  BY <1>1, <1>2 DEF Live
<1>5. {i \in DOMAIN reservations' : Live(reservations'[i], d.at)}
        = {i \in DOMAIN reservations : Live(reservations[i], d.at)}
  <2>1. \A i : i \in DOMAIN reservations' /\ Live(reservations'[i], d.at)
                 <=> i \in DOMAIN reservations /\ Live(reservations[i], d.at)
    BY <1>2, <1>3, <1>4
  <2> QED BY <2>1
<1>6. (\E i \in DOMAIN reservations' : Live(reservations'[i], d.at) /\ reservations'[i].user = d.user)
        <=> (\E i \in DOMAIN reservations : Live(reservations[i], d.at) /\ reservations[i].user = d.user)
  BY <1>2, <1>3, <1>4
<1> QED BY <1>5, <1>6 DEF Occupied

LEMMA OthersEntitled ==
  ASSUME VoiceInv, UNCHANGED <<streams, spoken>>,
         \A i \in DOMAIN reservations :
           i \in DOMAIN reservations' /\ reservations'[i] = reservations[i],
         NEW q \in Requests
  PROVE  Entitled(request[q], reservations', streams' \cup spoken')
<1>1. Entitled(request[q], reservations, streams \cup spoken)
  BY RequestOf
<1> QED BY <1>1 DEF Entitled

\* A request that the transaction refused, or that never hears of it, is over.
LEMMA CommitIdle ==
  ASSUME VoiceInv, NEW r \in Requests, NEW c, c = request[r],
         c.pc = "reserve", Len(c.seen) = Len(Locks(c)), used' = Charged(c),
         UNCHANGED <<clock, streams, spoken>>,
         \A i \in DOMAIN reservations :
           i \in DOMAIN reservations' /\ reservations'[i] = reservations[i],
         \A q \in Requests : q # r => Seen(request[q], used', reservations'),
         request' = [request EXCEPT ![r] = Idle]
  PROVE  RequestsInv' /\ request' \in [Requests -> Handler]
<1> DEFINE e == Idle
<1>1. /\ e \in Handler /\ Started(e, clock') /\ Seen(e, used', reservations')
      /\ Entitled(e, reservations', streams' \cup spoken')
      /\ request' = [request EXCEPT ![r] = e]
  BY IdleIs
<1>2. \A q \in Requests : q # r => Apart(e, request[q])
  BY IdleIs DEF Apart
<1>3. \A q \in Requests : q # r =>
        /\ Started(request[q], clock') /\ Seen(request[q], used', reservations')
        /\ Entitled(request[q], reservations', streams' \cup spoken')
        /\ Apart(e, request[q])
  BY <1>2, RequestOf, OthersEntitled
<1> HIDE DEF e
<1> QED BY <1>1, <1>3, RequestUpdate DEF VoiceInv

LEMMA CommitHeard ==
  ASSUME VoiceInv, NEW r \in Requests, NEW c, c = request[r],
         c.pc = "reserve", Len(c.seen) = Len(Locks(c)), used' = Charged(c),
         UNCHANGED <<clock, streams, spoken>>,
         NEW v, v = [user |-> c.user, cap |-> c.cap, units |-> c.units, at |-> c.at],
         reservations' = Append(reservations, v),
         \A q \in Requests : q # r => Seen(request[q], used', reservations'),
         NEW e, e = [c EXCEPT !.pc = "provider", !.reservation = Len(reservations')],
         request' = [request EXCEPT ![r] = e]
  PROVE  RequestsInv' /\ request' \in [Requests -> Handler]
<1> DEFINE l == Len(reservations')
<1>1. /\ l \in Nat /\ DOMAIN reservations = 1..Len(reservations) /\ l = Len(reservations) + 1
      /\ Len(reservations) \in Nat /\ l \in DOMAIN reservations' /\ reservations'[l] = v
      /\ v.user = c.user /\ v.cap = c.cap /\ v.at = c.at
      /\ \A i \in DOMAIN reservations :
           i \in DOMAIN reservations' /\ reservations'[i] = reservations[i]
  BY BookIs
<1>2. l \notin DOMAIN reservations
  BY <1>1
<1>3. c \in Handler /\ Started(c, clock)
  BY RequestOf
<1>4. /\ e \in Handler /\ e.pc = "provider" /\ e.user = c.user /\ e.cap = c.cap /\ e.at = c.at
      /\ e.reservation = l
  <2>1. l \in Nat /\ e = [c EXCEPT !.pc = "provider", !.reservation = l]
    BY <1>1
  <2> HIDE DEF l
  <2> QED BY <1>3, <2>1 DEF Handler
<1> HIDE DEF l
<1>5. Started(e, clock') /\ Seen(e, used', reservations') /\ Held(e) = {}
  <2>1. e.pc # "idle" /\ e.pc # "reserve" /\ c.pc # "idle"
    BY <1>4
  <2> QED BY <1>3, <1>4, <2>1 DEF Started, Seen, Held
<1>6. Entitled(e, reservations', streams' \cup spoken')
  <2>1. \A s \in streams \cup spoken : s.for \in DOMAIN reservations
    BY DEF VoiceInv, VoiceTypeOK
  <2>2. \A s \in streams' \cup spoken' : s.for # e.reservation
    BY <1>2, <1>4, <2>1
  <2>3. /\ e.reservation \in DOMAIN reservations' /\ reservations'[e.reservation].user = e.user
        /\ reservations'[e.reservation].cap = e.cap /\ reservations'[e.reservation].at = e.at
    BY <1>1, <1>4
  <2> QED BY <2>2, <2>3 DEF Entitled
<1>7. ASSUME NEW q \in Requests, q # r
      PROVE  Apart(e, request[q])
  <2>1. Entitled(request[q], reservations, streams \cup spoken)
    BY RequestOf
  <2>2. request[q].pc = "provider" => request[q].reservation # l
    BY <1>2, <2>1 DEF Entitled
  <2> QED BY <1>4, <1>5, <2>2 DEF Apart
<1>8. \A q \in Requests : q # r =>
        /\ Started(request[q], clock') /\ Seen(request[q], used', reservations')
        /\ Entitled(request[q], reservations', streams' \cup spoken')
        /\ Apart(e, request[q])
  BY <1>1, <1>7, RequestOf, OthersEntitled
<1> QED BY <1>4, <1>5, <1>6, <1>8, RequestUpdate DEF VoiceInv

LEMMA CommitKeeps ==
  ASSUME VoiceInv, NEW r \in Requests, Commit(r)
  PROVE  VoiceInv'
<1> DEFINE c == request[r]
           v == [user |-> c.user, cap |-> c.cap, units |-> c.units, at |-> c.at]
           e == [c EXCEPT !.pc = "provider", !.reservation = Len(reservations')]
<1>1. /\ c.pc = "reserve" /\ Len(c.seen) = Len(Locks(c)) /\ used' = Charged(c)
      /\ reservations' = IF ~Allowed(c) THEN reservations ELSE Append(reservations, v)
      /\ UNCHANGED <<offered, clock, streams, spoken, calls>>
  BY DEF Commit
<1>2. decided' = [decided EXCEPT ![Locks(c)[1]] = @ + 1]
  BY DEF Commit
<1>3. \/ request' = [request EXCEPT ![r] = Idle]
      \/ Allowed(c) /\ request' = [request EXCEPT ![r] = e]
  BY DEF Commit
<1> HIDE DEF v, e
<1>4. /\ v = [user |-> c.user, cap |-> c.cap, units |-> c.units, at |-> c.at]
      /\ e = [c EXCEPT !.pc = "provider", !.reservation = Len(reservations')]
  BY DEF v, e
<1>5. c = request[r]
  OBVIOUS
<1> HIDE DEF c
<1>6. /\ c.user \in Users /\ c.cap \in Capabilities /\ c.at \in Ticks /\ Locks(c)[1] = Rows(c)[1]
  BY <1>1, <1>5, FullIs
<1>7. /\ \A i \in DOMAIN reservations :
           i \in DOMAIN reservations' /\ reservations'[i] = reservations[i]
      /\ reservations' \in Seq(Reservation)
  <2>1. CASE Allowed(c)
    <3>1. reservations' = Append(reservations, v)
      BY <1>1, <2>1
    <3> QED BY <1>1, <1>4, <1>5, <3>1, BookIs
  <2>2. CASE ~Allowed(c)
    BY <1>1, <2>2 DEF VoiceInv, VoiceTypeOK
  <2> QED BY <2>1, <2>2
<1>8. ASSUME NEW q \in Requests, q # r
      PROVE  Seen(request[q], used', reservations')
  <2> DEFINE d == request[q]
  <2>1. Apart(c, d)
    BY <1>5, <1>8, RequestOf
  <2>2. d = request[q]
    OBVIOUS
  <2> HIDE DEF d
  <2>3. Guard \in Held(d) => (Occupied(d, reservations') <=> Occupied(d, reservations))
    <3>1. CASE Allowed(c)
      <4>1. reservations' = Append(reservations, v)
        BY <1>1, <3>1
      <4> QED BY <1>1, <1>4, <1>5, <2>1, <4>1, OthersOccupied
    <3>2. CASE ~Allowed(c)
      BY <1>1, <3>2
    <3> QED BY <3>1, <3>2
  <2>4. Seen(d, used', reservations')
    BY <1>1, <1>5, <1>8, <2>2, <2>3, OthersSee
  <2> QED BY <2>2, <2>4
<1>9. RequestsInv' /\ request' \in [Requests -> Handler]
  <2>1. CASE request' = [request EXCEPT ![r] = Idle]
    BY <1>1, <1>5, <1>7, <1>8, <2>1, CommitIdle
  <2>2. CASE Allowed(c) /\ request' = [request EXCEPT ![r] = e]
    <3>1. reservations' = Append(reservations, v)
      BY <1>1, <2>2
    <3> QED BY <1>1, <1>4, <1>5, <1>8, <2>2, <3>1, CommitHeard
  <2> QED BY <1>3, <2>1, <2>2
<1>10. /\ SpentInv'
       /\ \A s \in streams' \cup spoken' :
            s.for \in DOMAIN reservations' /\ reservations'[s.for].user = s.user
  BY <1>1, <1>7, SpentCharged
<1>11. MinutesInv'
  <2>1. decided' = [decided EXCEPT ![Rows(c)[1]] = @ + 1]
    BY <1>2, <1>6
  <2> QED BY <1>1, <1>5, <2>1, MinutesCharged
<1>12. BudgetsInv'
  <2>1. CASE Allowed(c)
    <3>1. reservations' = Append(reservations, v)
      BY <1>1, <2>1
    <3> QED BY <1>1, <1>4, <1>5, <2>1, <3>1, BudgetsCharged
  <2>2. CASE ~Allowed(c)
    <3>1. reservations' = reservations
      BY <1>1, <2>2
    <3> QED BY <1>1, <1>5, <2>2, <3>1, BudgetsRefused
  <2> QED BY <2>1, <2>2
<1>13. LeasesInv'
  <2>1. CASE Allowed(c)
    <3>1. reservations' = Append(reservations, v)
      BY <1>1, <2>1
    <3> QED BY <1>1, <1>4, <1>5, <2>1, <3>1, LeasesCharged
  <2>2. CASE ~Allowed(c)
    <3>1. reservations' = reservations
      BY <1>1, <2>2
    <3> QED BY <3>1 DEF VoiceInv, LeasesInv, Leases
  <2> QED BY <2>1, <2>2
<1>14. VoiceTypeOK'
  <2>1. used' \in [Windows -> Nat]
    BY <1>1, <1>5, ChargedIs
  <2>2. decided' \in [Minutes -> Nat]
    <3>1. decided \in [Minutes -> Nat]
      BY DEF VoiceInv, VoiceTypeOK
    <3>2. Rows(c)[1] \in Minutes
      BY <1>6, RowsAre
    <3> HIDE DEF Minutes
    <3>3. decided[Rows(c)[1]] + 1 \in Nat
      BY <3>1, <3>2
    <3> QED BY <1>2, <1>6, <3>1, <3>2, <3>3
  <2>3. /\ offered' \in Offerings /\ clock' \in Ticks /\ calls' \in 0..MaxCalls
        /\ streams' \subseteq Stream /\ spoken' \subseteq Readback
    BY <1>1 DEF VoiceInv, VoiceTypeOK
  <2> QED BY <1>7, <1>9, <1>10, <2>1, <2>2, <2>3 DEF VoiceTypeOK
<1> QED BY <1>9, <1>10, <1>11, <1>12, <1>13, <1>14 DEF VoiceInv

(***************************************************************************)
(* The providers.                                                          *)
(***************************************************************************)
\* One more stream or readback, paid for by the reservation of its request.
LEMMA SpendKeeps ==
  ASSUME VoiceInv, NEW r \in Requests, NEW c, c = request[r], c.pc = "provider",
         UNCHANGED <<offered, clock, used, reservations, decided, calls>>,
         request' = [request EXCEPT ![r] = Idle],
         NEW new, streams' \cup spoken' = (streams \cup spoken) \cup new,
         \A s \in new : s.for = c.reservation /\ s.user = c.user,
         \A s, z \in new : s = z,
         streams' \subseteq Stream, spoken' \subseteq Readback,
         \A s \in streams' : s \in streams \/
           /\ s.for = c.reservation /\ c.cap = "transcription"
           /\ s.issued = clock /\ s.opened = 0,
         \A s \in spoken' : s \in spoken \/ (s.for = c.reservation /\ c.cap = "readback")
  PROVE  VoiceInv'
<1>1. /\ c \in Handler /\ Started(c, clock) /\ Entitled(c, reservations, streams \cup spoken)
      /\ \A q \in Requests : q # r => Apart(c, request[q])
  BY RequestOf
<1>2. /\ c.reservation \in DOMAIN reservations /\ reservations[c.reservation].user = c.user
      /\ reservations[c.reservation].cap = c.cap /\ reservations[c.reservation].at = c.at
      /\ \A s \in streams \cup spoken : s.for # c.reservation
  BY <1>1 DEF Entitled
<1>3. c.at <= clock /\ clock <= c.at + MaxLag
  <2>1. c.pc # "idle"
    OBVIOUS
  <2> QED BY <1>1, <2>1 DEF Started
<1>4. ASSUME NEW q \in Requests, q # r
      PROVE  Entitled(request[q], reservations', streams' \cup spoken') /\ Apart(Idle, request[q])
  <2>1. Entitled(request[q], reservations, streams \cup spoken) /\ Apart(c, request[q])
    BY <1>4, RequestOf
  <2>2. request[q].pc = "provider" => request[q].reservation # c.reservation
    BY <2>1 DEF Apart
  <2>3. Apart(Idle, request[q])
    BY IdleIs DEF Apart
  <2> QED BY <2>1, <2>2, <2>3 DEF Entitled
<1>5. RequestsInv' /\ request' \in [Requests -> Handler]
  <2> DEFINE e == Idle
  <2>1. /\ e \in Handler /\ Started(e, clock') /\ Seen(e, used', reservations')
        /\ Entitled(e, reservations', streams' \cup spoken')
        /\ request' = [request EXCEPT ![r] = e]
    BY IdleIs
  <2>2. \A q \in Requests : q # r =>
          /\ Started(request[q], clock') /\ Seen(request[q], used', reservations')
          /\ Entitled(request[q], reservations', streams' \cup spoken')
          /\ Apart(e, request[q])
    BY <1>4, RequestOf
  <2> HIDE DEF e
  <2> QED BY <2>1, <2>2, RequestUpdate DEF VoiceInv
<1>6. SpentInv
  BY DEF VoiceInv
<1>7. ASSUME NEW s \in streams'
      PROVE  /\ reservations'[s.for].cap = "transcription"
             /\ s.issued <= reservations'[s.for].at + MaxLag
             /\ s.opened <= s.issued + Redeem
  <2>1. CASE s \in streams
    BY <1>6, <2>1 DEF SpentInv
  <2>2. CASE /\ s.for = c.reservation /\ c.cap = "transcription"
             /\ s.issued = clock /\ s.opened = 0
    <3>1. clock \in Nat /\ Redeem \in Nat
      BY VoiceAssumption DEF VoiceInv, VoiceTypeOK, Ticks
    <3>2. s.opened <= s.issued + Redeem
      BY <2>2, <3>1
    <3> QED BY <1>2, <1>3, <2>2, <3>2
  <2> QED BY <2>1, <2>2
<1>8. \A s \in spoken' : reservations'[s.for].cap = "readback"
  BY <1>2, <1>6 DEF SpentInv
<1>9. ASSUME NEW s \in streams' \cup spoken', NEW z \in streams' \cup spoken', s.for = z.for
      PROVE  s = z
  <2>1. (s \in streams \cup spoken \/ s \in new) /\ (z \in streams \cup spoken \/ z \in new)
    OBVIOUS
  <2>2. s \in streams \cup spoken <=> z \in streams \cup spoken
    BY <1>2, <1>9, <2>1
  <2> QED BY <1>6, <1>9, <2>1, <2>2 DEF SpentInv
<1>10. SpentInv'
  BY <1>7, <1>8, <1>9 DEF SpentInv
<1>11. VoiceTypeOK'
  <2>1. \A s \in streams' \cup spoken' :
          s.for \in DOMAIN reservations /\ reservations[s.for].user = s.user
    BY <1>2 DEF VoiceInv, VoiceTypeOK
  <2> QED BY <1>5, <2>1 DEF VoiceInv, VoiceTypeOK
<1> QED BY <1>5, <1>10, <1>11, BooksSame DEF VoiceInv

LEMMA AskKeeps ==
  ASSUME VoiceInv, NEW r \in Requests, Ask(r)
  PROVE  VoiceInv'
<1> DEFINE c == request[r]
           s == [for |-> c.reservation, user |-> c.user, issued |-> clock, opened |-> 0, closed |-> FALSE]
           b == [for |-> c.reservation, user |-> c.user, units |-> c.units]
<1>1. /\ c.pc = "provider" /\ request' = [request EXCEPT ![r] = Idle]
      /\ UNCHANGED <<offered, clock, used, reservations, decided, calls>>
  BY DEF Ask
<1>2. PICK served \in BOOLEAN :
        /\ streams' = IF ~served \/ c.cap # "transcription" THEN streams ELSE streams \cup {s}
        /\ spoken' = IF ~served \/ c.cap # "readback" THEN spoken ELSE spoken \cup {b}
  BY DEF Ask, Own
<1>3. c \in Handler /\ c.user \in Users /\ clock \in Nat
  <2>1. c \in Handler /\ Started(c, clock)
    BY RequestOf
  <2>2. c.pc # "idle"
    BY <1>1
  <2>3. clock \in Nat
    BY VoiceAssumption DEF VoiceInv, VoiceTypeOK, Ticks
  <2> QED BY <2>1, <2>2, <2>3 DEF Started
<1>4. c = request[r]
  OBVIOUS
<1> HIDE DEF c
<1>5. /\ s \in Stream /\ s.for = c.reservation /\ s.user = c.user /\ s.issued = clock /\ s.opened = 0
      /\ b \in Readback /\ b.for = c.reservation /\ b.user = c.user
  BY <1>3 DEF Stream, Readback, Handler
<1> HIDE DEF s, b
<1>6. streams \subseteq Stream /\ spoken \subseteq Readback
  BY DEF VoiceInv, VoiceTypeOK
<1>7. CASE served /\ c.cap = "transcription"
  <2> DEFINE new == {s}
  <2>1. /\ streams' = streams \cup {s} /\ spoken' = spoken
    BY <1>2, <1>7
  <2>2. /\ streams' \cup spoken' = (streams \cup spoken) \cup new
        /\ \A z \in new : z.for = c.reservation /\ z.user = c.user
        /\ \A y, z \in new : y = z
        /\ streams' \subseteq Stream /\ spoken' \subseteq Readback
        /\ \A z \in streams' : z \in streams \/
             /\ z.for = c.reservation /\ c.cap = "transcription"
             /\ z.issued = clock /\ z.opened = 0
        /\ \A z \in spoken' : z \in spoken \/ (z.for = c.reservation /\ c.cap = "readback")
    BY <1>5, <1>6, <1>7, <2>1
  <2> HIDE DEF new
  <2> QED BY <1>1, <1>4, <2>2, SpendKeeps
<1>8. CASE served /\ c.cap = "readback"
  <2> DEFINE new == {b}
  <2>1. /\ streams' = streams /\ spoken' = spoken \cup {b}
    BY <1>2, <1>8
  <2>2. /\ streams' \cup spoken' = (streams \cup spoken) \cup new
        /\ \A z \in new : z.for = c.reservation /\ z.user = c.user
        /\ \A y, z \in new : y = z
        /\ streams' \subseteq Stream /\ spoken' \subseteq Readback
        /\ \A z \in streams' : z \in streams \/
             /\ z.for = c.reservation /\ c.cap = "transcription"
             /\ z.issued = clock /\ z.opened = 0
        /\ \A z \in spoken' : z \in spoken \/ (z.for = c.reservation /\ c.cap = "readback")
    BY <1>5, <1>6, <1>8, <2>1
  <2> HIDE DEF new
  <2> QED BY <1>1, <1>4, <2>2, SpendKeeps
<1>9. CASE ~served \/ c.cap \notin {"transcription", "readback"}
  <2> DEFINE new == {}
  <2>1. /\ streams' = streams /\ spoken' = spoken
    BY <1>2, <1>9
  <2>2. /\ streams' \cup spoken' = (streams \cup spoken) \cup new
        /\ \A z \in new : z.for = c.reservation /\ z.user = c.user
        /\ \A y, z \in new : y = z
        /\ streams' \subseteq Stream /\ spoken' \subseteq Readback
        /\ \A z \in streams' : z \in streams \/
             /\ z.for = c.reservation /\ c.cap = "transcription"
             /\ z.issued = clock /\ z.opened = 0
        /\ \A z \in spoken' : z \in spoken \/ (z.for = c.reservation /\ c.cap = "readback")
    BY <1>6, <2>1
  <2> HIDE DEF new
  <2> QED BY <1>1, <1>4, <2>2, SpendKeeps
<1> QED BY <1>7, <1>8, <1>9

\* A stream goes on.
LEMMA StreamKeeps ==
  ASSUME VoiceInv, NEW s \in streams, NEW z \in Stream,
         z.for = s.for, z.user = s.user, z.issued = s.issued, z.opened <= z.issued + Redeem,
         streams' = (streams \ {s}) \cup {z},
         UNCHANGED <<offered, clock, used, reservations, request, spoken, decided, calls>>
  PROVE  VoiceInv'
<1>1. VoiceTypeOK /\ SpentInv /\ RequestsInv
  BY DEF VoiceInv
<1>2. \A y \in streams' : y \in streams \/ y = z
  OBVIOUS
<1>3. s.for \in DOMAIN reservations /\ reservations[s.for].user = s.user
  BY <1>1 DEF VoiceTypeOK
<1>4. VoiceTypeOK'
  <2>1. \A y \in streams' \cup spoken' :
          y.for \in DOMAIN reservations' /\ reservations'[y.for].user = y.user
    BY <1>1, <1>2, <1>3 DEF VoiceTypeOK
  <2>2. streams' \subseteq Stream
    BY <1>1 DEF VoiceTypeOK
  <2> QED BY <1>1, <2>1, <2>2 DEF VoiceTypeOK
<1>5. ASSUME NEW q \in Requests
      PROVE  Entitled(request[q], reservations', streams' \cup spoken')
  <2>1. Entitled(request[q], reservations, streams \cup spoken)
    BY RequestOf
  <2>2. \A y \in streams' \cup spoken' : \E x \in streams \cup spoken : x.for = y.for
    BY <1>2
  <2> QED BY <2>1, <2>2 DEF Entitled
<1>6. RequestsInv'
  BY <1>1, <1>5 DEF RequestsInv
<1>7. /\ reservations[s.for].cap = "transcription"
      /\ s.issued <= reservations[s.for].at + MaxLag
      /\ \A x \in streams \cup spoken : x.for = s.for => x = s
  BY <1>1 DEF SpentInv
<1>8. \A x, y \in streams' \cup spoken' : x.for = y.for => x = y
  <2>1. ASSUME NEW x \in streams' \cup spoken', NEW y \in streams' \cup spoken', x.for = y.for
        PROVE  x = y
    <3>1. s \notin spoken
      BY <1>1, <1>7 DEF SpentInv
    <3>2. \A w \in streams' \cup spoken' : w = z \/ (w \in streams \cup spoken /\ w # s)
      BY <3>1
    <3>3. CASE x = z
      BY <1>7, <2>1, <3>2, <3>3
    <3>4. CASE y = z
      BY <1>7, <2>1, <3>2, <3>4
    <3>5. CASE x # z /\ y # z
      BY <1>1, <2>1, <3>2, <3>5 DEF SpentInv
    <3> QED BY <3>3, <3>4, <3>5
  <2> QED BY <2>1
<1>9. SpentInv'
  <2>1. \A y \in streams' : /\ reservations'[y.for].cap = "transcription"
                            /\ y.issued <= reservations'[y.for].at + MaxLag
                            /\ y.opened <= y.issued + Redeem
    BY <1>1, <1>2, <1>7 DEF SpentInv
  <2>2. \A y \in spoken' : reservations'[y.for].cap = "readback"
    BY <1>1 DEF SpentInv
  <2> QED BY <1>8, <2>1, <2>2 DEF SpentInv
<1> QED BY <1>4, <1>6, <1>9, BooksSame DEF VoiceInv

LEMMA OpenKeeps ==
  ASSUME VoiceInv, NEW s \in streams, Open(s) \/ Close(s)
  PROVE  VoiceInv'
<1>1. s \in Stream /\ s.opened <= s.issued + Redeem /\ clock \in Nat
  BY VoiceAssumption DEF VoiceInv, VoiceTypeOK, SpentInv, Ticks
<1>2. CASE Open(s)
  <2> DEFINE z == [s EXCEPT !.opened = clock]
  <2>1. /\ clock <= s.issued + Redeem /\ streams' = (streams \ {s}) \cup {z}
        /\ UNCHANGED <<offered, clock, used, reservations, request, spoken, decided, calls>>
    BY <1>2 DEF Open
  <2>2. z \in Stream /\ z.for = s.for /\ z.user = s.user /\ z.issued = s.issued /\ z.opened = clock
    BY <1>1 DEF Stream
  <2> HIDE DEF z
  <2> QED BY <2>1, <2>2, StreamKeeps
<1>3. CASE Close(s)
  <2> DEFINE z == [s EXCEPT !.closed = TRUE]
  <2>1. /\ streams' = (streams \ {s}) \cup {z}
        /\ UNCHANGED <<offered, clock, used, reservations, request, spoken, decided, calls>>
    BY <1>3 DEF Close
  <2>2. z \in Stream /\ z.for = s.for /\ z.user = s.user /\ z.issued = s.issued /\ z.opened = s.opened
    BY <1>1 DEF Stream
  <2> HIDE DEF z
  <2> QED BY <1>1, <2>1, <2>2, StreamKeeps
<1> QED BY <1>2, <1>3

(***************************************************************************)
(* The steps together.                                                     *)
(***************************************************************************)
LEMMA VoiceInvNext ==
  ASSUME VoiceInv, Next
  PROVE  VoiceInv'
<1>1. ASSUME NEW r \in Requests, Step(r)
      PROVE  VoiceInv'
  BY <1>1, LockKeeps, CommitKeeps, AskKeeps DEF Step
<1>2. ASSUME NEW r \in Requests, Unavailable(r)
      PROVE  VoiceInv'
  BY <1>2, UnavailableKeeps
<1>3. ASSUME NEW r \in Requests, NEW u \in Users, NEW cap \in offered,
             NEW n \in IF cap = "transcription" THEN {1} ELSE Sizes, Reserve(r, u, cap, n)
      PROVE  VoiceInv'
  <2>1. cap \in Capabilities
    BY VoiceAssumption DEF VoiceInv, VoiceTypeOK
  <2>2. n \in Nat
    BY VoiceAssumption
  <2> QED BY <1>3, <2>1, <2>2, ReserveKeeps
<1>4. ASSUME NEW s \in streams, Open(s) \/ Close(s)
      PROVE  VoiceInv'
  BY <1>4, OpenKeeps
<1>5. CASE Tick
  BY <1>5, TickKeeps
<1>6. CASE Snapshot
  <2>1. UNCHANGED <<offered, clock, used, reservations, request, streams, spoken, decided, calls>>
    BY <1>6 DEF Snapshot, vars
  <2>2. RequestsInv'
    BY <2>1 DEF VoiceInv, RequestsInv
  <2>3. VoiceTypeOK'
    BY <2>1 DEF VoiceInv, VoiceTypeOK
  <2> QED BY <2>1, <2>2, <2>3, BooksSame, SpentSame DEF VoiceInv
<1> QED BY <1>1, <1>2, <1>3, <1>4, <1>5, <1>6 DEF Next

LEMMA VoiceInvSame ==
  ASSUME VoiceInv, UNCHANGED vars
  PROVE  VoiceInv'
BY VoiceInvNext DEF Next, Snapshot

\* The inductive invariant: what the requests have read under their locks is so, what
\* was spent belongs to a reservation of its own, and the books add up.
THEOREM VoiceInvariant == Spec => []VoiceInv
<1>1. Init => VoiceInv
  BY VoiceInvInit
<1>2. VoiceInv /\ [Next]_vars => VoiceInv'
  BY VoiceInvNext, VoiceInvSame
<1> QED BY <1>1, <1>2, PTL DEF Spec

\* Whatever requests run against each other, and over the ends of days and months: a
\* user's and the project's counters of a day and of a month are the units reserved in
\* them, and reserve_voice_budget lets none exceed its ceiling.
THEOREM BudgetsAreKept == Spec => []BudgetsKept
<1>1. VoiceInv => BudgetsKept
  BY DEF VoiceInv, BudgetsInv, BudgetsKept
<1> QED BY <1>1, VoiceInvariant, PTL

LEMMA StreamsFollow ==
  ASSUME VoiceInv
  PROVE  StreamsLeased
<1>1. LeasesApart
  <2>1. \A t \in FirstTick..clock : t \in Nat
    BY VoiceAssumption DEF VoiceInv, VoiceTypeOK, Ticks
  <2> QED BY <2>1 DEF VoiceInv, LeasesInv, LeasesApart
<1>2. ASSUME NEW s \in streams, Streaming(s)
      PROVE  clock < Lease(reservations[s.for]) + MaxLag
  <2> DEFINE v == reservations[s.for]
  <2>1. /\ s.for \in DOMAIN reservations /\ s \in Stream /\ reservations \in Seq(Reservation)
        /\ clock \in Ticks
    BY DEF VoiceInv, VoiceTypeOK
  <2>2. v \in Reservation
    BY <2>1, ElementOfSeq, LenProperties
  <2>3. s.issued <= v.at + MaxLag /\ s.opened <= s.issued + Redeem
    BY DEF VoiceInv, SpentInv
  <2> HIDE DEF v
  <2>4. /\ v.at \in Nat /\ s.issued \in Nat /\ s.opened \in Nat /\ clock \in Nat
    BY <2>1, <2>2, VoiceAssumption DEF Stream, Reservation, Ticks
  <2>5. Redeem \in Nat /\ Session \in Nat /\ Session > 0 /\ MaxLag \in Nat
    BY VoiceAssumption
  <2>6. clock <= s.issued + Redeem \/ clock < s.opened + Session
    BY <1>2 DEF Streaming
  <2>7. clock < v.at + Redeem + Session + MaxLag
    BY <2>3, <2>4, <2>5, <2>6
  <2> QED BY <2>7 DEF Lease, v
<1>3. \A s, z \in streams \cup spoken : s.for = z.for => s = z
  BY DEF VoiceInv, SpentInv
<1> QED BY <1>1, <1>2, <1>3 DEF StreamsLeased

\* No user has two leases at once and the project no more than it may have; a stream
\* that a provider honours outlives its lease at most by the time the request took,
\* and no reservation pays for two of them.
THEOREM StreamsAreLeased == Spec => []StreamsLeased
<1> QED BY StreamsFollow, VoiceInvariant, PTL

LEMMA GuardSame ==
  ASSUME VoiceInv, NEW k,
         {i \in DOMAIN reservations' : InMinute(reservations'[i], k)}
           = {i \in DOMAIN reservations : InMinute(reservations[i], k)}
  PROVE  ~(Cardinality({i \in DOMAIN reservations' : InMinute(reservations'[i], k)})
             > Cardinality({i \in DOMAIN reservations : InMinute(reservations[i], k)}))
<1> DEFINE S == {i \in DOMAIN reservations : InMinute(reservations[i], k)}
<1>1. reservations \in Seq(Reservation)
  BY DEF VoiceInv, VoiceTypeOK
<1>2. DOMAIN reservations = 1..Len(reservations) /\ Len(reservations) \in Nat
  BY <1>1, LenProperties
<1>3. IsFiniteSet(DOMAIN reservations)
  BY <1>2, FS_Interval
<1>4. S \subseteq DOMAIN reservations
  OBVIOUS
<1>5. {i \in DOMAIN reservations' : InMinute(reservations'[i], k)} = S
  OBVIOUS
<1> HIDE DEF S
<1>6. IsFiniteSet(S)
  BY <1>3, <1>4, FS_Subset
<1>7. Cardinality(S) \in Nat
  BY <1>6, FS_CardinalityType
<1>8. ~(Cardinality(S) > Cardinality(S))
  BY <1>7
<1> QED BY <1>5, <1>8 DEF S

LEMMA GuardUnmoved ==
  ASSUME VoiceInv, UNCHANGED reservations
  PROVE  MinuteGuardStep
BY GuardSame DEF MinuteGuardStep

LEMMA CommitGuards ==
  ASSUME VoiceInv, NEW r \in Requests, Commit(r)
  PROVE  MinuteGuardStep
<1> DEFINE c == request[r]
           v == [user |-> c.user, cap |-> c.cap, units |-> c.units, at |-> c.at]
           l == Len(reservations) + 1
<1>1. /\ c.pc = "reserve" /\ Len(c.seen) = Len(Locks(c))
      /\ reservations' = IF ~Allowed(c) THEN reservations ELSE Append(reservations, v)
  BY DEF Commit
<1>2. c = request[r]
  OBVIOUS
<1>3. v = [user |-> c.user, cap |-> c.cap, units |-> c.units, at |-> c.at]
  OBVIOUS
<1> HIDE DEF c, v
<1>4. CASE ~Allowed(c)
  <2>1. UNCHANGED reservations
    BY <1>1, <1>4
  <2> QED BY <2>1, GuardUnmoved
<1>5. CASE Allowed(c)
  <2>1. reservations' = Append(reservations, v)
    BY <1>1, <1>5
  <2>2. /\ DOMAIN reservations = 1..Len(reservations) /\ Len(reservations) \in Nat
        /\ DOMAIN reservations' = 1..l /\ reservations'[l] = v
        /\ v.user = c.user /\ v.cap = c.cap /\ v.at = c.at
        /\ \A i \in DOMAIN reservations :
             i \in DOMAIN reservations' /\ reservations'[i] = reservations[i]
    BY <1>1, <1>2, <1>3, <2>1, BookIs
  <2>3. \A i : i \in DOMAIN reservations' <=> i \in DOMAIN reservations \/ i = l
    BY <2>2
  <2>4. c.user \in Users /\ c.cap \in Capabilities /\ c.at \in Ticks
    BY <1>1, <1>2, FullIs
  <2>5. Rows(c)[1] = <<c.user, c.cap, "minute", c.at>> /\ Rows(c)[1] \in Minutes
    BY <2>4, RowsAre
  <2> HIDE DEF l
  <2>6. ASSUME NEW k \in Minutes, k # Rows(c)[1]
        PROVE  {i \in DOMAIN reservations' : InMinute(reservations'[i], k)}
                 = {i \in DOMAIN reservations : InMinute(reservations[i], k)}
    <3>1. ~InMinute(v, k)
      BY <2>2, <2>5, <2>6 DEF InMinute
    <3>2. \A i : i \in DOMAIN reservations' /\ InMinute(reservations'[i], k)
                   <=> i \in DOMAIN reservations /\ InMinute(reservations[i], k)
      BY <2>2, <2>3, <3>1
    <3> QED BY <3>2
  <2>7. decided[Rows(c)[1]] < RequestLimit
    <3>1. used[Rows(c)[1]] + 1 <= RequestLimit
      BY <1>1, <1>2, <1>5, AllowedIs
    <3>2. /\ decided[Rows(c)[1]] \in Nat /\ RequestLimit \in Nat
      BY <2>5, VoiceAssumption DEF VoiceInv, VoiceTypeOK
    <3>3. used[Rows(c)[1]] = IF decided[Rows(c)[1]] <= RequestLimit THEN decided[Rows(c)[1]]
                             ELSE RequestLimit + 1
      BY <2>5 DEF VoiceInv, MinutesInv
    <3> QED BY <3>1, <3>2, <3>3
  <2>8. DOMAIN decided = Minutes
    BY DEF VoiceInv, VoiceTypeOK
  <2>9. ASSUME NEW k \in DOMAIN decided,
               Cardinality({i \in DOMAIN reservations' : InMinute(reservations'[i], k)})
                 > Cardinality({i \in DOMAIN reservations : InMinute(reservations[i], k)})
        PROVE  decided[k] < RequestLimit
    <3>1. CASE k = Rows(c)[1]
      BY <2>7, <3>1
    <3>2. CASE k # Rows(c)[1]
      <4>1. {i \in DOMAIN reservations' : InMinute(reservations'[i], k)}
              = {i \in DOMAIN reservations : InMinute(reservations[i], k)}
        BY <2>6, <2>8, <3>2
      <4> QED BY <2>9, <4>1, GuardSame
    <3> QED BY <3>1, <3>2
  <2> QED BY <2>9 DEF MinuteGuardStep
<1> QED BY <1>4, <1>5

LEMMA StepGuards ==
  ASSUME VoiceInv, Next
  PROVE  MinuteGuardStep
<1>1. ASSUME NEW r \in Requests, Step(r) \/ Unavailable(r)
      PROVE  MinuteGuardStep
  <2>1. Commit(r) \/ UNCHANGED reservations
    BY <1>1 DEF Step, Lock, Ask, Unavailable
  <2> QED BY <2>1, CommitGuards, GuardUnmoved
<1>2. ASSUME NEW r \in Requests, NEW u, NEW cap, NEW n, Reserve(r, u, cap, n)
      PROVE  MinuteGuardStep
  <2>1. UNCHANGED reservations
    BY <1>2 DEF Reserve
  <2> QED BY <2>1, GuardUnmoved
<1>3. ASSUME NEW s \in streams, Open(s) \/ Close(s)
      PROVE  MinuteGuardStep
  <2>1. UNCHANGED reservations
    BY <1>3 DEF Open, Close
  <2> QED BY <2>1, GuardUnmoved
<1>4. CASE Tick \/ Snapshot
  <2>1. UNCHANGED reservations
    BY <1>4 DEF Tick, Snapshot, vars
  <2> QED BY <2>1, GuardUnmoved
<1> QED BY <1>1, <1>2, <1>3, <1>4 DEF Next

\* "Denied attempts count against it": a reservation is made in a minute only while
\* fewer requests were decided in it than the limit, refused ones included.
THEOREM MinutesAreGuarded == Spec => MinuteGuard
<1>1. VoiceInv /\ [Next]_vars => [MinuteGuardStep]_vars
  BY StepGuards
<1> QED BY <1>1, VoiceInvariant, PTL DEF Spec, MinuteGuard

=============================================================================
