---------------------------- MODULE VoiceBudget ----------------------------
(***************************************************************************)
(* Paid voice: spend is reserved in the database before a provider is      *)
(* asked.  A request is one POST /api/voice/token (transcription) or       *)
(* /api/voice/speak (readback).  reserve_voice_budget takes its row locks  *)
(* one after the other and reads each counter as it locks it; the clock    *)
(* goes on meanwhile.  One tick of the clock is a minute.                  *)
(***************************************************************************)
EXTENDS Integers, Sequences, FiniteSets

CONSTANTS
  Users, Project, Requests,
  Capabilities,              \* "transcription", "readback"
  Offerings,                 \* sets of capabilities a deployment may offer
  Sizes,                     \* readback lengths
  DayTicks, MonthDays,       \* the calendar
  Redeem, Session,           \* lives of a token and of a stream
  RequestLimit,              \* per user, capability and minute
  UserLimit, ProjectLimit,   \* [capability -> [{"day", "month"} -> Nat]]
  ProjectSessions,           \* live leases of all users; a user has one
  FirstTick, LastTick, MaxLag, MaxCalls  \* bounds; MaxLag: ticks a request takes

ASSUME VoiceAssumption ==
  /\ Project \notin Users /\ Capabilities \subseteq {"transcription", "readback"}
  /\ Offerings \subseteq SUBSET Capabilities
  /\ Sizes \subseteq Nat \ {0} /\ DayTicks \in Nat \ {0} /\ MonthDays \in Nat \ {0}
  /\ Redeem \in Nat /\ Session \in Nat \ {0}
  /\ RequestLimit \in Nat /\ ProjectSessions \in Nat
  /\ UserLimit \in [Capabilities -> [{"day", "month"} -> Nat]]
  /\ ProjectLimit \in [Capabilities -> [{"day", "month"} -> Nat]]
  /\ FirstTick \in Nat \ {0} /\ LastTick \in Nat /\ FirstTick <= LastTick
  /\ MaxLag \in Nat /\ MaxCalls \in Nat

VARIABLES
  offered,       \* the capabilities with a provider's key
  clock,
  used,          \* voice_quota_windows and the four budget windows
  reservations,  \* voice_spend_reservations
  request,       \* handlers and their transactions
  streams,       \* the provider's tokens and streams, by reservation
  spoken,        \* characters the provider was asked to read, by reservation
  decided,       \* history: requests decided in a minute
  calls          \* bound: requests so far

vars == <<offered, clock, used, reservations, request, streams, spoken, decided, calls>>

Day(t) == t \div DayTicks
Month(t) == Day(t) \div MonthDays

Idle == [pc |-> "idle", user |-> Project, cap |-> "none", units |-> 0, at |-> 0,
         seen |-> <<>>, reservation |-> 0]

Ticks == FirstTick..LastTick
Minutes == Users \X Capabilities \X {"minute"} \X Ticks
Windows ==
  Minutes \cup ((Users \cup {Project}) \X Capabilities \X {"day"} \X {Day(t) : t \in Ticks})
          \cup ((Users \cup {Project}) \X Capabilities \X {"month"} \X {Month(t) : t \in Ticks})

Init ==
  /\ offered \in Offerings /\ clock = FirstTick /\ used = [k \in Windows |-> 0] /\ reservations = <<>>
  /\ request = [r \in Requests |-> Idle]
  /\ streams = {} /\ spoken = {} /\ calls = 0
  /\ decided = [k \in Minutes |-> 0]

(***************************************************************************)
(* reserve_voice_budget                                                    *)
(***************************************************************************)
Guard == <<"advisory">>

\* The rows of a request.
Rows(c) ==
  << <<c.user, c.cap, "minute", c.at>>,
     <<Project, c.cap, "day", Day(c.at)>>, <<Project, c.cap, "month", Month(c.at)>>,
     <<c.user, c.cap, "day", Day(c.at)>>, <<c.user, c.cap, "month", Month(c.at)>> >>

\* Seeded fault: the calendar rows are taken to serialize everything.
LocksUnguarded(c) == Rows(c)

\* Seeded fault: in even minutes the user's rows are locked before the project's.
LocksAnyOrder(c) ==
  LET l == Rows(c) IN
  (IF c.at % 2 = 0 THEN <<l[1], l[4], l[5], l[2], l[3]>> ELSE l)
    \o IF c.cap = "transcription" THEN <<Guard>> ELSE <<>>

\* What is locked, in this order.
Locks(c) == IF c.cap = "transcription" THEN Append(Rows(c), Guard) ELSE Rows(c)

Held(c) == IF c.pc = "reserve" THEN {Locks(c)[n] : n \in DOMAIN c.seen} ELSE {}

\* Seeded fault: the counters are read without a lock.
FreeAlways(k, r) == TRUE

Free(k, r) == \A other \in Requests \ {r} : k \notin Held(request[other])

Lease(v) == v.at + Redeem + Session

Live(v, t) == v.cap = "transcription" /\ Lease(v) > t

LiveFor(c) == {i \in DOMAIN reservations : Live(reservations[i], c.at)}

Busy(c) ==
  \/ \E i \in LiveFor(c) : reservations[i].user = c.user
  \/ Cardinality(LiveFor(c)) >= ProjectSessions

Reserve(r, u, cap, n) ==
  /\ request[r].pc = "idle" /\ calls < MaxCalls
  /\ request' = [request EXCEPT ![r] = [Idle EXCEPT !.pc = "reserve",
       !.user = u, !.cap = cap, !.units = n, !.at = clock]]
  /\ calls' = calls + 1
  /\ UNCHANGED <<offered, clock, used, reservations, streams, spoken, decided>>

\* Once a row is locked, its counter is read; after the guard, the live leases.
Lock(r) ==
  LET c == request[r]  k == Locks(c)[Len(c.seen) + 1] IN
  /\ c.pc = "reserve" /\ Len(c.seen) < Len(Locks(c))
  /\ Free(k, r)
  /\ request' = [request EXCEPT ![r].seen = Append(@,
       IF k # Guard THEN used[k] ELSE IF Busy(c) THEN 1 ELSE 0)]
  /\ UNCHANGED <<offered, clock, used, reservations, streams, spoken, decided, calls>>

Limit(k) == (IF k[1] = Project THEN ProjectLimit ELSE UserLimit)[k[2]][k[3]]

Affords(c, n) == c.seen[n] + c.units <= Limit(Locks(c)[n])

Allowed(c) ==
  /\ c.seen[1] + 1 <= RequestLimit
  /\ \A n \in 2..5 : Affords(c, n)
  /\ c.cap = "transcription" => c.seen[Len(c.seen)] = 0

\* Seeded fault: a refused request is not counted.
CountedWhenAllowed(c, k) == k = Locks(c)[1] /\ Allowed(c)

Counted(c, k) == k = Locks(c)[1]

\* The counters as the transaction leaves them.
Charged(c) ==
  [k \in Windows |->
     IF Counted(c, k) THEN IF used[k] > RequestLimit THEN used[k] ELSE used[k] + 1
     ELSE IF Allowed(c) /\ \E n \in 2..5 : k = Locks(c)[n] THEN used[k] + c.units
     ELSE used[k]]

Commit(r) ==
  LET c == request[r] IN
  /\ c.pc = "reserve" /\ Len(c.seen) = Len(Locks(c))
  /\ used' = Charged(c)
  /\ reservations' = IF ~Allowed(c) THEN reservations
       ELSE Append(reservations, [user |-> c.user, cap |-> c.cap, units |-> c.units, at |-> c.at])
  /\ \E heard \in BOOLEAN :
       request' = [request EXCEPT ![r] =
         IF heard /\ Allowed(c) THEN [c EXCEPT !.pc = "provider", !.reservation = Len(reservations')]
         ELSE Idle]
  /\ decided' = [decided EXCEPT ![Locks(c)[1]] = @ + 1]
  /\ UNCHANGED <<offered, clock, streams, spoken, calls>>

\* The database is out of reach: "no provider request was made".
Unavailable(r) ==
  /\ request[r].pc = "reserve"
  /\ request' = [request EXCEPT ![r] = Idle]
  /\ UNCHANGED <<offered, clock, used, reservations, streams, spoken, decided, calls>>

(***************************************************************************)
(* The providers.  An error or a timeout keeps the reservation, and leaves *)
(* it open whether the provider did its work.                              *)
(***************************************************************************)
Own(c) == c.reservation

Ask(r) ==
  LET c == request[r] IN
  /\ c.pc = "provider"
  /\ \E served \in BOOLEAN :
       /\ streams' = IF ~served \/ c.cap # "transcription" THEN streams
            ELSE streams \cup {[for |-> Own(c), user |-> c.user,
                                issued |-> clock, opened |-> 0, closed |-> FALSE]}
       /\ spoken' = IF ~served \/ c.cap # "readback" THEN spoken
            ELSE spoken \cup {[for |-> Own(c), user |-> c.user, units |-> c.units]}
  /\ request' = [request EXCEPT ![r] = Idle]
  /\ UNCHANGED <<offered, clock, used, reservations, decided, calls>>

Open(s) ==
  /\ s.opened = 0 /\ ~s.closed /\ clock <= s.issued + Redeem
  /\ streams' = (streams \ {s}) \cup {[s EXCEPT !.opened = clock]}
  /\ UNCHANGED <<offered, clock, used, reservations, request, spoken, decided, calls>>

Close(s) ==
  /\ ~s.closed
  /\ streams' = (streams \ {s}) \cup {[s EXCEPT !.closed = TRUE]}
  /\ UNCHANGED <<offered, clock, used, reservations, request, spoken, decided, calls>>

\* A request that is not answered in time has been ended by its platform.
Tick ==
  /\ clock < LastTick
  /\ \A r \in Requests : request[r].pc # "idle" => clock + 1 <= request[r].at + MaxLag
  /\ clock' = clock + 1
  /\ UNCHANGED <<offered, used, reservations, request, streams, spoken, decided, calls>>

\* voiceCapabilitySnapshot
Snapshot == UNCHANGED vars

Step(r) == Lock(r) \/ Commit(r) \/ Ask(r)

Next ==
  \/ \E r \in Requests :
       \/ Step(r) \/ Unavailable(r)
       \/ \E u \in Users, cap \in offered :
            \E n \in IF cap = "transcription" THEN {1} ELSE Sizes : Reserve(r, u, cap, n)
  \/ \E s \in streams : Open(s) \/ Close(s)
  \/ Tick \/ Snapshot

Spec == Init /\ [][Next]_vars
FairSpec == Spec /\ \A r \in Requests : WF_vars(Step(r))

(***************************************************************************)
(* Properties                                                              *)
(***************************************************************************)
Reservation == [user : Users, cap : Capabilities, units : Nat, at : Ticks]
Handler ==
  [pc : {"idle", "reserve", "provider"}, user : Users \cup {Project},
   cap : Capabilities \cup {"none"}, units : Nat, at : Nat, seen : Seq(Nat), reservation : Nat]
Stream == [for : Nat, user : Users, issued : Nat, opened : Nat, closed : BOOLEAN]
Readback == [for : Nat, user : Users, units : Nat]

\* Type correctness; a stream or a readback names a reservation of its user.
VoiceTypeOK ==
  /\ offered \in Offerings /\ clock \in Ticks /\ calls \in 0..MaxCalls
  /\ used \in [Windows -> Nat] /\ decided \in [Minutes -> Nat]
  /\ reservations \in Seq(Reservation) /\ request \in [Requests -> Handler]
  /\ streams \subseteq Stream /\ spoken \subseteq Readback
  /\ \A s \in streams \cup spoken :
       s.for \in DOMAIN reservations /\ reservations[s.for].user = s.user

InWindow(v, k) ==
  /\ k[1] \in {v.user, Project} /\ k[2] = v.cap
  /\ k[4] = (CASE k[3] = "day" -> Day(v.at) [] k[3] = "month" -> Month(v.at) [] OTHER -> -1)

InMinute(v, k) == k = <<v.user, v.cap, "minute", v.at>>

\* The units reserved in a window, one by one.
Units(k) ==
  UNION {{i} \X (1..reservations[i].units) :
           i \in {j \in DOMAIN reservations : InWindow(reservations[j], k)}}

\* Whoever asks at the same time, and across the ends of days and months: each of
\* the four windows counts what was reserved in it, and none exceeds its ceiling;
\* a stream or a readback names a reservation of its own user.
BudgetsKept ==
  /\ VoiceTypeOK
  /\ \A k \in Windows : k[3] # "minute" => used[k] = Cardinality(Units(k)) /\ used[k] <= Limit(k)

\* "Denied attempts count against it": whatever was refused before, and for which
\* reason, a request that is allowed is among the first of its minute.
MinuteGuardStep ==
  \A k \in DOMAIN decided :
      Cardinality({i \in DOMAIN reservations' : InMinute(reservations'[i], k)})
        > Cardinality({i \in DOMAIN reservations : InMinute(reservations[i], k)})
      => decided[k] < RequestLimit
MinuteGuard == [][MinuteGuardStep]_vars

Leases(t) == {i \in DOMAIN reservations : reservations[i].at <= t /\ Live(reservations[i], t)}

\* At no time has a user two leases, or the project more than it may have, also
\* when two requests lock the rows of different months.
LeasesApart ==
  \A t \in FirstTick..clock :
    /\ Cardinality(Leases(t)) <= ProjectSessions
    /\ \A i, j \in Leases(t) : reservations[i].user = reservations[j].user => i = j

Streaming(s) ==
  ~s.closed /\ IF s.opened = 0 THEN clock <= s.issued + Redeem ELSE clock < s.opened + Session

\* A token or stream that the provider honours outlives its lease at most by the
\* time the request took, and no reservation pays for two of them.
StreamsLeased ==
  /\ LeasesApart
  /\ \A s \in streams : Streaming(s) => clock < Lease(reservations[s.for]) + MaxLag
  /\ \A s, z \in streams \cup spoken : s.for = z.for => s = z

\* The fixed lock order: no two requests wait for each other for ever.
RequestsEnd == \A r \in Requests : request[r].pc # "idle" ~> request[r].pc = "idle"

(***************************************************************************)
(* Stated in the documents and not kept by the code; see the README,       *)
(* "Disagreements".  No run expects it to hold.                            *)
(***************************************************************************)
\* "a caller cannot mint overlapping sessions by closing a browser early."
OneStreamEach ==
  \A s, z \in streams : s.user = z.user /\ Streaming(s) /\ Streaming(z) => s = z
=============================================================================
