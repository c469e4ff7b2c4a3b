----------------------- MODULE TabCollaboration_proofs -----------------------
(***************************************************************************)
(* Theorems about shared tabs, for any number of tabs, seats, invites,     *)
(* users, browsers and requests in flight: what the properties of          *)
(* TabCollaboration say of the rows holds after every transaction, however *)
(* the transactions interleave.                                            *)
(***************************************************************************)
EXTENDS TabCollaboration, FiniteSetTheorems, TLAPS

USE TabsAssumption

Offers(c) == call[c] # NoCall /\ call[c].op = "invite"
Saves(c) == call[c] # NoCall /\ call[c].op = "save"
Freezes(c) == call[c] # NoCall /\ call[c].op = "freeze"

\* Whoever knows something of a draft knows an older one or the present one.
Knows(t, known) ==
  /\ known.revision <= draft[t].revision
  /\ known.revision = draft[t].revision => known = draft[t]

DraftsKnown ==
  /\ \A d \in Devices : Knows(DeviceTab[d], device[d])
  /\ \A c \in Calls : Saves(c) => Knows(DeviceTab[call[c].device], call[c].base)

\* A freeze is of a run that has been reviewed, and of the tab reviewed.
ReviewGiven == \A c \in Calls : Freezes(c) => review[call[c].run].doc \in Docs

ReviewsWhole == \A r \in Runs : review[r] # Unfrozen => review[r].doc \in Docs

\* A token has one fate at most.
FateSingle == \A k \in Tokens : \A x, y \in fate[k] : x = y

\* Two seats of a tab are never one user's, and who is seated is a member.
Seated1 ==
  \A s, z \in Seats :
    /\ SeatTab[s] = SeatTab[z]
    /\ seat[s].there /\ seat[z].there
    /\ seat[s].user = seat[z].user
    /\ seat[s].user # NoUser
    => s = z

Membership ==
  /\ \A s \in Seats :
       seat[s].there /\ seat[s].user # NoUser => MayEdit(seat[s].user, SeatTab[s])
  /\ \A t \in Tabs : role[t][OwnerOf[t]] = "owner"

TabsInv ==
  /\ TabTypeOK /\ TokensPlaced /\ SeatsHeld
  /\ FateSingle /\ Seated1 /\ Membership
  /\ DraftsKnown /\ ReviewsWhole /\ ReviewGiven /\ FrozenSource

LEMMA TabsInvInit ==
  ASSUME Init
  PROVE  TabsInv
<1>1. TabTypeOK
  BY DEF Init, TabTypeOK, NoSeat, NoDraft, Unfrozen, Drafted, Bound
<1>2. \A c \in Calls : call[c] = NoCall
  BY DEF Init
<1>3. \A s \in Seats : seat[s].token = NoToken /\ seat[s].user = NoUser
  BY DEF Init, NoSeat
<1>4. TokensPlaced /\ SeatsHeld /\ Seated1
  BY <1>2, <1>3 DEF TokensPlaced, SeatsHeld, Seated1, At
<1>5. FateSingle
  BY DEF Init, FateSingle
<1>6. Membership
  BY <1>3 DEF Init, Membership
<1>7. DraftsKnown
  BY <1>2 DEF Init, DraftsKnown, Knows, Saves, NoDraft
<1>8. ReviewsWhole /\ ReviewGiven
  BY <1>2 DEF Init, ReviewsWhole, ReviewGiven, Freezes
<1>9. FrozenSource
  BY DEF Init, FrozenSource, Open
<1> QED BY <1>1, <1>4, <1>5, <1>6, <1>7, <1>8, <1>9 DEF TabsInv

(***************************************************************************)
(* What becomes of the requests in a step.                                 *)
(***************************************************************************)
\* Request o goes on with what it carried.
Carried(o) ==
  /\ call[o] # NoCall /\ call'[o].op = call[o].op
  /\ call[o].op = "save" => /\ call'[o].device = call[o].device
                            /\ call'[o].base = call[o].base
  /\ call[o].op = "invite" => call'[o].token = call[o].token
  /\ call[o].op = "freeze" => call'[o].run = call[o].run

\* Every request goes on, has ended, or is a new one of kind op.
Only(op) ==
  \A o \in Calls : call'[o] # NoCall => Carried(o) \/ call'[o].op = op

LEMMA SendOnly ==
  ASSUME TabTypeOK, NEW c \in Calls, NEW request, Send(c, request)
  PROVE  /\ Only(request.op)
         /\ call'[c] = request
         /\ \A o \in Calls : o # c => call'[o] = call[o]
BY DEF TabTypeOK, Send, Only, Carried

LEMMA FinishOnly ==
  ASSUME TabTypeOK, NEW c \in Calls, NEW r, Finish(c, r), NEW op
  PROVE  /\ Only(op)
         /\ \A o \in Calls : call'[o] # NoCall => o # c /\ call'[o] = call[o]
<1>1. \A o \in Calls : call'[o] = IF o = c THEN NoCall ELSE call[o]
  BY DEF TabTypeOK, Finish
<1> QED BY <1>1 DEF Only, Carried

LEMMA SameOnly ==
  ASSUME call' = call, NEW op
  PROVE  Only(op)
BY DEF Only, Carried

(***************************************************************************)
(* What a step leaves alone keeps its part of the invariant.               *)
(***************************************************************************)
LEMMA PlacedKept ==
  ASSUME TokensPlaced, fate' = fate,
         \A s \in Seats : seat'[s].token = seat[s].token \/ seat'[s].token = NoToken,
         NEW op, op # "invite", Only(op), TabTypeOK
  PROVE  TokensPlaced'
<1>1. \A c \in Calls : Offers(c)' => Offers(c) /\ call'[c].token = call[c].token
  BY DEF Only, Offers, Carried
<1>2. \A c \in Calls : Offers(c) => call[c].token \in Tokens
  BY DEF TabTypeOK, Offers, Request, SaveRequest, AddRequest, InviteRequest,
         JoinRequest, ChooseRequest, FreezeRequest
<1>3. ASSUME NEW s \in Seats, seat'[s].token # NoToken
      PROVE  /\ fate'[seat'[s].token] = {}
             /\ \A z \in Seats : seat'[z].token = seat'[s].token => z = s
  <2>1. /\ fate[seat[s].token] = {}
        /\ \A z \in Seats : seat[z].token = seat[s].token => z = s
    BY <1>3 DEF TokensPlaced
  <2>2. seat'[s].token = seat[s].token
    BY <1>3
  <2>3. \A z \in Seats : seat'[z].token = seat'[s].token => seat[z].token = seat[s].token
    BY <1>3, <2>2
  <2> QED BY <2>1, <2>2, <2>3
<1>4. ASSUME NEW c \in Calls, Offers(c)'
      PROVE  /\ fate'[call'[c].token] = {}
             /\ \A s \in Seats : seat'[s].token # call'[c].token
             /\ \A o \in Calls :
                  Offers(o)' /\ call'[o].token = call'[c].token => o = c
  <2>1. Offers(c) /\ call'[c].token = call[c].token /\ call[c].token # NoToken
    BY <1>1, <1>2, <1>4
  <2>2. fate'[call'[c].token] = {}
    BY <2>1 DEF TokensPlaced, Offers
  <2>3. \A s \in Seats : seat'[s].token # call'[c].token
    BY <2>1 DEF TokensPlaced, Offers
  <2>4. ASSUME NEW o \in Calls, Offers(o)', call'[o].token = call'[c].token
        PROVE  o = c
    <3>1. Offers(o) /\ call[o].token = call[c].token
      BY <1>1, <2>1, <2>4
    <3> QED BY <2>1, <3>1 DEF TokensPlaced, Offers
  <2> QED BY <2>2, <2>3, <2>4
<1> QED BY <1>3, <1>4 DEF TokensPlaced, Offers

LEMMA KnownKept ==
  ASSUME DraftsKnown, draft' = draft, device' = device,
         NEW op, op # "save", Only(op)
  PROVE  DraftsKnown'
<1>1. \A c \in Calls : Saves(c)' => /\ Saves(c)
                                    /\ call'[c].device = call[c].device
                                    /\ call'[c].base = call[c].base
  BY DEF Only, Saves, Carried
<1> QED BY <1>1 DEF DraftsKnown, Knows

LEMMA GivenKept ==
  ASSUME ReviewGiven, review' = review, NEW op, op # "freeze", Only(op)
  PROVE  ReviewGiven'
<1>1. \A c \in Calls : Freezes(c)' => Freezes(c) /\ call'[c].run = call[c].run
  BY DEF Only, Freezes, Carried
<1> QED BY <1>1 DEF ReviewGiven

\* Requests that only end, or begin, keep what the others have read.
LEMMA HeldKept ==
  ASSUME SeatsHeld,
         \A o \in Calls : At(o, "invite", "tab")' \/ At(o, "join", "tab")' =>
           /\ call'[o] = call[o]
           /\ seatLock'[call[o].seat] = seatLock[call[o].seat]
           /\ seat'[call[o].seat] = seat[call[o].seat]
  PROVE  SeatsHeld'
BY DEF SeatsHeld, At

LEMMA FrozenKept ==
  ASSUME FrozenSource, flow' = flow, payer' = payer, draft' = draft,
         \A s \in Seats : seat'[s].there = seat[s].there
  PROVE  FrozenSource'
<1>1. \A t : Executable(t)' = Executable(t)
  BY DEF Executable, SeatsOf
<1> QED BY <1>1 DEF FrozenSource, Open

LEMMA WhoKept ==
  ASSUME Seated1, Membership, role' = role,
         \A s \in Seats : /\ seat'[s].there = seat[s].there
                          /\ seat'[s].user = seat[s].user
  PROVE  Seated1' /\ Membership'
<1>1. Seated1'
  BY DEF Seated1
<1>2. Membership'
  BY DEF Membership, MayEdit
<1> QED BY <1>1, <1>2

(***************************************************************************)
(* Types of what every step writes to requests and locks.                  *)
(***************************************************************************)
CallTypes ==
  /\ call \in [Calls -> Request \cup {NoCall}]
  /\ answer \in [Calls -> {"none", "ok", "refused"}]
  /\ tabLock \in [Tabs -> Calls \cup {NoCall}]
  /\ seatLock \in [Seats -> Calls \cup {NoCall}]

SeatTypes ==
  /\ seat \in [Seats -> [there : BOOLEAN, user : Users \cup {NoUser},
                         status : {"draft", "invited", "joined"},
                         token : Tokens \cup {NoToken}]]
  /\ \A s \in Seats : /\ seat[s].status = "joined" <=> seat[s].user # NoUser
                      /\ seat[s].token # NoToken => seat[s].status = "invited"

RowTypes ==
  /\ role \in [Tabs -> [Users -> {"none", "owner", "member"}]]
  /\ draft \in [Tabs -> Drafted] /\ flow \in [Tabs -> Bound]
  /\ payer \in [Tabs -> SUBSET Seats]

ClientTypes ==
  /\ device \in [Devices -> Drafted]
  /\ jar \in [Users -> Tokens \cup {NoToken}] /\ lost \in 0..MaxLost

LEMMA Types ==
  TabTypeOK <=>
    /\ CallTypes /\ SeatTypes /\ RowTypes /\ ClientTypes
    /\ review \in [Runs -> Bound]
    /\ fate \in [Tokens -> SUBSET (Users \cup {"replaced", "expired"})]
BY DEF TabTypeOK, CallTypes, SeatTypes, RowTypes, ClientTypes

LEMMA TypesNext ==
  TabTypeOK' <=>
    /\ CallTypes' /\ SeatTypes' /\ RowTypes' /\ ClientTypes'
    /\ review' \in [Runs -> Bound]
    /\ fate' \in [Tokens -> SUBSET (Users \cup {"replaced", "expired"})]
BY DEF TabTypeOK, CallTypes, SeatTypes, RowTypes, ClientTypes

LEMMA SendTypes ==
  ASSUME CallTypes, NEW c \in Calls, NEW request \in Request, Send(c, request)
  PROVE  CallTypes'
BY DEF CallTypes, Send, locks

LEMMA FinishTypes ==
  ASSUME CallTypes, NEW c \in Calls, NEW r \in {"ok", "refused"}, Finish(c, r)
  PROVE  CallTypes'
BY DEF CallTypes, Finish

LEMMA CallsSame ==
  ASSUME CallTypes, call' = call, answer' = answer, UNCHANGED locks
  PROVE  CallTypes'
BY DEF CallTypes, locks

LEMMA SeatsSame ==
  ASSUME SeatTypes, seat' = seat
  PROVE  SeatTypes'
BY DEF SeatTypes

LEMMA RowsSame ==
  ASSUME RowTypes, role' = role, draft' = draft, flow' = flow, payer' = payer
  PROVE  RowTypes'
BY DEF RowTypes

LEMMA ClientSame ==
  ASSUME ClientTypes, UNCHANGED client
  PROVE  ClientTypes'
BY DEF ClientTypes, client

\* Of which kind a request is.
LEMMA Kinds ==
  ASSUME CallTypes, NEW c \in Calls, call[c] # NoCall
  PROVE  /\ call[c] \in Request
         /\ call[c].op = "save" => call[c] \in SaveRequest
         /\ call[c].op = "add" => call[c] \in AddRequest
         /\ call[c].op = "invite" => call[c] \in InviteRequest
         /\ call[c].op = "join" => call[c] \in JoinRequest
         /\ call[c].op = "choose" => call[c] \in ChooseRequest
         /\ call[c].op = "freeze" => call[c] \in FreezeRequest
<1>1. call[c] \in Request
  BY DEF CallTypes
<1> QED BY <1>1 DEF Request, SaveRequest, AddRequest, InviteRequest, JoinRequest,
                    ChooseRequest, FreezeRequest

(***************************************************************************)
(* Steps that change no row.                                               *)
(***************************************************************************)
\* Nothing but requests, locks and cookies changes.
StillRows == UNCHANGED <<rows, device, lost, review, fate>>

LEMMA StillKeeps ==
  ASSUME TabsInv, StillRows, SeatsHeld', CallTypes',
         jar' \in [Users -> Tokens \cup {NoToken}],
         TokensPlaced', DraftsKnown', ReviewGiven'
  PROVE  TabsInv'
<1> USE DEF StillRows, rows
<1>1. /\ RowTypes /\ SeatTypes /\ ClientTypes /\ review \in [Runs -> Bound]
      /\ fate \in [Tokens -> SUBSET (Users \cup {"replaced", "expired"})]
  BY Types DEF TabsInv
<1>2. RowTypes' /\ SeatTypes'
  BY <1>1, RowsSame, SeatsSame
<1>3. ClientTypes'
  BY <1>1 DEF ClientTypes
<1>4. TabTypeOK'
  BY <1>1, <1>2, <1>3, TypesNext
<1>5. Seated1' /\ Membership' /\ FrozenSource'
  BY WhoKept, FrozenKept DEF TabsInv
<1>6. FateSingle' /\ ReviewsWhole'
  BY DEF TabsInv, FateSingle, ReviewsWhole
<1> QED BY <1>4, <1>5, <1>6 DEF TabsInv

\* A request that ends leaves the others what they have locked and read.
LEMMA FinishHeld ==
  ASSUME TabsInv, NEW c \in Calls, NEW r, Finish(c, r),
         \A o \in Calls : o # c /\ (At(o, "invite", "tab") \/ At(o, "join", "tab")) =>
           seat'[call[o].seat] = seat[call[o].seat]
  PROVE  SeatsHeld'
<1>1. ASSUME NEW o \in Calls, At(o, "invite", "tab")' \/ At(o, "join", "tab")'
      PROVE  /\ call'[o] = call[o]
             /\ seatLock'[call[o].seat] = seatLock[call[o].seat]
             /\ seat'[call[o].seat] = seat[call[o].seat]
  <2>1. o # c /\ call'[o] = call[o] /\ call[o] # NoCall
    BY <1>1, FinishOnly DEF At, TabsInv
  <2>2. At(o, "invite", "tab") \/ At(o, "join", "tab")
    BY <1>1, <2>1 DEF At
  <2>3. seatLock[call[o].seat] = o
    BY <2>2 DEF TabsInv, SeatsHeld
  <2>4. call[o].seat \in Seats
    BY <2>1, <2>2, Types, Kinds DEF TabsInv, At, InviteRequest, JoinRequest
  <2>5. seatLock'[call[o].seat] = o
    BY <2>1, <2>3, <2>4 DEF Finish
  <2> QED BY <2>1, <2>2, <2>3, <2>5
<1> QED BY <1>1, HeldKept DEF TabsInv

\* A request that ends in a refusal, or is refused and forgets its cookie.
LEMMA RefusedKeeps ==
  ASSUME TabsInv, NEW c \in Calls, NEW r \in {"ok", "refused"}, Finish(c, r),
         StillRows, jar' \in [Users -> Tokens \cup {NoToken}]
  PROVE  TabsInv'
<1>1. CallTypes'
  BY Types, FinishTypes DEF TabsInv
<1>2. Only("add") /\ \A o \in Calls : call'[o] # NoCall => o # c /\ call'[o] = call[o]
  BY FinishOnly DEF TabsInv
<1>3. TokensPlaced' /\ DraftsKnown' /\ ReviewGiven'
  <2>1. TokensPlaced'
    BY <1>2, PlacedKept, "add" # "invite" DEF TabsInv, StillRows, rows
  <2>2. DraftsKnown'
    BY <1>2, KnownKept, "add" # "save" DEF TabsInv, StillRows, rows
  <2>3. ReviewGiven'
    BY <1>2, GivenKept, "add" # "freeze" DEF TabsInv, StillRows, rows
  <2> QED BY <2>1, <2>2, <2>3
<1>4. SeatsHeld'
  BY FinishHeld DEF StillRows, rows
<1> QED BY <1>1, <1>3, <1>4, StillKeeps

LEMMA RollbackKeeps ==
  ASSUME TabsInv, NEW c \in Calls, Rollback(c)
  PROVE  TabsInv'
<1>1. Finish(c, "refused") /\ StillRows /\ jar' = jar
  BY DEF Rollback, StillRows, client
<1>2. jar \in [Users -> Tokens \cup {NoToken}]
  BY Types DEF TabsInv, ClientTypes
<1> QED BY <1>1, <1>2, RefusedKeeps

\* A new request that has read nothing yet.
LEMMA SentKeeps ==
  ASSUME TabsInv, NEW c \in Calls, NEW request \in Request, Send(c, request),
         request.step # "tab" \/ request.op \in {"save", "add", "choose", "freeze"},
         TokensPlaced', DraftsKnown', ReviewGiven'
  PROVE  TabsInv'
<1>1. /\ StillRows /\ jar' = jar /\ seatLock' = seatLock /\ call[c] = NoCall
      /\ call'[c] = request
      /\ \A o \in Calls : o # c => call'[o] = call[o]
  BY SendOnly DEF Send, StillRows, client, locks, TabsInv
<1>2. CallTypes'
  BY Types, SendTypes DEF TabsInv
<1>3. jar' \in [Users -> Tokens \cup {NoToken}]
  BY <1>1, Types DEF TabsInv, ClientTypes
<1>4. SeatsHeld'
  <2>1. ASSUME NEW o \in Calls, At(o, "invite", "tab")' \/ At(o, "join", "tab")'
        PROVE  call'[o] = call[o]
    BY <1>1, <2>1 DEF At
  <2> QED BY <1>1, <2>1, HeldKept DEF TabsInv, StillRows, rows
<1> QED BY <1>1, <1>2, <1>3, <1>4, StillKeeps

(***************************************************************************)
(* Drafts.                                                                 *)
(***************************************************************************)
LEMMA LoadDraftKeeps ==
  ASSUME TabsInv, NEW d \in Devices, LoadDraft(d)
  PROVE  TabsInv'
<1> DEFINE t == DeviceTab[d]
<1> USE DEF rows
<1>1. /\ device' = [device EXCEPT ![d] = draft[t]]
      /\ UNCHANGED <<rows, locks, jar, lost, review, call, answer, fate>>
  BY DEF LoadDraft
<1>2. /\ CallTypes /\ SeatTypes /\ RowTypes /\ ClientTypes /\ review \in [Runs -> Bound]
      /\ fate \in [Tokens -> SUBSET (Users \cup {"replaced", "expired"})]
  BY Types DEF TabsInv
<1>3. TabTypeOK'
  <2>1. ClientTypes'
    BY <1>1, <1>2 DEF ClientTypes, RowTypes
  <2>2. CallTypes' /\ SeatTypes' /\ RowTypes'
    BY <1>1, <1>2, CallsSame, SeatsSame, RowsSame
  <2> QED BY <1>1, <1>2, <2>1, <2>2, TypesNext
<1>4. Only("add")
  BY <1>1, SameOnly
<1>5. TokensPlaced'
  BY <1>1, <1>4, PlacedKept, "add" # "invite" DEF TabsInv
<1>6. SeatsHeld'
  BY <1>1, HeldKept DEF TabsInv, locks
<1>7. Seated1' /\ Membership' /\ FrozenSource'
  BY <1>1, WhoKept, FrozenKept DEF TabsInv
<1>8. ReviewGiven'
  BY <1>1, <1>4, GivenKept, "add" # "freeze" DEF TabsInv
<1>9. FateSingle' /\ ReviewsWhole'
  BY <1>1 DEF TabsInv, FateSingle, ReviewsWhole
<1>10. DraftsKnown'
  <2>1. draft[t].revision \in Int
    BY <1>2 DEF RowTypes, Drafted
  <2>2. \A b \in Devices : device'[b] = IF b = d THEN draft[t] ELSE device[b]
    BY <1>1, <1>2 DEF ClientTypes
  <2>3. \A b \in Devices : Knows(DeviceTab[b], device'[b])
    BY <2>1, <2>2 DEF TabsInv, DraftsKnown, Knows
  <2> QED BY <1>1, <2>3 DEF TabsInv, DraftsKnown, Knows, Saves
<1> QED BY <1>3, <1>5, <1>6, <1>7, <1>8, <1>9, <1>10 DEF TabsInv

LEMMA SendSaveKeeps ==
  ASSUME TabsInv, NEW c \in Calls, NEW d \in Devices, NEW doc \in Docs,
         SendSave(c, d, doc)
  PROVE  TabsInv'
<1> DEFINE request == [op |-> "save", step |-> "tab", device |-> d, doc |-> doc,
                       base |-> device[d]]
<1>1. Send(c, request) /\ device[d].revision < MaxRevision
  BY DEF SendSave
<1>2. request \in Request
  <2>1. device[d] \in Drafted
    BY Types DEF TabsInv, ClientTypes
  <2>2. device[d] \in [revision : 0..(MaxRevision - 1), doc : Docs \cup {NoDoc}]
    BY <1>1, <2>1 DEF Drafted
  <2> QED BY <2>2 DEF Request, SaveRequest
<1>3. /\ Only("save") /\ call'[c] = request
      /\ \A o \in Calls : o # c => call'[o] = call[o]
  <2>1. Only(request.op)
    BY <1>1, SendOnly DEF TabsInv
  <2> QED BY <1>1, <2>1, SendOnly DEF TabsInv
<1>4. UNCHANGED <<rows, client, review, fate>>
  BY <1>1 DEF Send
<1>5. TokensPlaced'
  BY <1>3, <1>4, PlacedKept, "save" # "invite" DEF TabsInv, rows
<1>6. ReviewGiven'
  BY <1>3, <1>4, GivenKept, "save" # "freeze" DEF TabsInv, rows
<1>7. DraftsKnown'
  <2>1. \A b \in Devices : Knows(DeviceTab[b], device[b])'
    BY <1>4 DEF TabsInv, DraftsKnown, Knows, rows, client
  <2>2. ASSUME NEW o \in Calls, Saves(o)'
        PROVE  Knows(DeviceTab[call[o].device], call[o].base)'
    <3>1. CASE o = c
      BY <1>3, <1>4, <3>1 DEF TabsInv, DraftsKnown, Knows, rows, client
    <3>2. CASE o # c
      BY <1>3, <1>4, <2>2, <3>2 DEF TabsInv, DraftsKnown, Knows, Saves, rows, client
    <3> QED BY <3>1, <3>2
  <2> QED BY <2>1, <2>2 DEF DraftsKnown
<1> QED BY <1>1, <1>2, <1>5, <1>6, <1>7, SentKeeps

\* What the sender of a save hears is the present draft, or nothing.
LEMMA HearKnows ==
  ASSUME TabsInv, NEW d \in Devices, NEW now \in Drafted, Hear(d, now), jar' = jar
  PROVE  /\ ClientTypes'
         /\ \A b \in Devices : device'[b] \in {device[b], IF b = d THEN now ELSE device[b]}
<1>1. ClientTypes
  BY Types DEF TabsInv
<1> QED BY <1>1 DEF Hear, ClientTypes

\* A save that finds its document saved already.
LEMMA SaveAgainKeeps ==
  ASSUME TabsInv, NEW c \in Calls, At(c, "save", "tab"),
         Finish(c, "ok"), Hear(call[c].device, draft[DeviceTab[call[c].device]]),
         UNCHANGED <<rows, jar, review, fate>>
  PROVE  TabsInv'
<1> DEFINE d == call[c].device
           t == DeviceTab[d]
<1> USE DEF rows
<1>1. /\ CallTypes /\ SeatTypes /\ RowTypes /\ ClientTypes /\ review \in [Runs -> Bound]
      /\ fate \in [Tokens -> SUBSET (Users \cup {"replaced", "expired"})]
  BY Types DEF TabsInv
<1>2. d \in Devices /\ t \in Tabs
  BY <1>1, Kinds DEF At, SaveRequest
<1>3. draft[t] \in Drafted
  BY <1>1, <1>2 DEF RowTypes
<1>4. /\ ClientTypes'
      /\ \A b \in Devices :
           device'[b] \in {device[b], IF b = d THEN draft[t] ELSE device[b]}
  BY <1>2, <1>3, HearKnows
<1>5. TabTypeOK'
  <2>1. CallTypes' /\ SeatTypes' /\ RowTypes'
    BY <1>1, FinishTypes, SeatsSame, RowsSame
  <2> QED BY <1>1, <1>4, <2>1, TypesNext
<1>6. Only("add") /\ \A o \in Calls : call'[o] # NoCall => o # c /\ call'[o] = call[o]
  BY FinishOnly DEF TabsInv
<1>7. TokensPlaced'
  BY <1>6, PlacedKept, "add" # "invite" DEF TabsInv
<1>8. SeatsHeld'
  BY FinishHeld
<1>9. Seated1' /\ Membership' /\ FrozenSource'
  BY WhoKept, FrozenKept DEF TabsInv
<1>10. ReviewGiven'
  BY <1>6, GivenKept, "add" # "freeze" DEF TabsInv
<1>11. FateSingle' /\ ReviewsWhole'
  BY DEF TabsInv, FateSingle, ReviewsWhole
<1>12. DraftsKnown'
  <2>1. draft[t].revision \in Int
    BY <1>3 DEF Drafted
  <2>2. \A b \in Devices : Knows(DeviceTab[b], device'[b])
    BY <1>4, <2>1 DEF TabsInv, DraftsKnown, Knows
  <2> QED BY <1>6, <2>2 DEF TabsInv, DraftsKnown, Knows, Saves
<1> QED BY <1>5, <1>7, <1>8, <1>9, <1>10, <1>11, <1>12 DEF TabsInv

\* A save that replaces the draft it was made on.
LEMMA SaveNewKeeps ==
  ASSUME TabsInv, NEW c \in Calls, At(c, "save", "payer"), NEW next,
         Open(DeviceTab[call[c].device]),
         next = [revision |-> call[c].base.revision + 1, doc |-> call[c].doc],
         draft[DeviceTab[call[c].device]].revision = call[c].base.revision,
         draft' = [draft EXCEPT ![DeviceTab[call[c].device]] = next],
         Finish(c, "ok"), Hear(call[c].device, next),
         UNCHANGED <<role, seat, flow, payer, jar, review, fate>>
  PROVE  TabsInv'
<1> DEFINE d == call[c].device
           t == DeviceTab[d]
<1>1. /\ CallTypes /\ SeatTypes /\ RowTypes /\ ClientTypes /\ review \in [Runs -> Bound]
      /\ fate \in [Tokens -> SUBSET (Users \cup {"replaced", "expired"})]
  BY Types DEF TabsInv
<1>2. call[c] \in SaveRequest
  BY <1>1, Kinds DEF At
<1>3. d \in Devices /\ t \in Tabs
  BY <1>2 DEF SaveRequest
<1>4. next \in Drafted
  <2>1. call[c].base.revision \in 0..(MaxRevision - 1) /\ call[c].doc \in Docs
    BY <1>2 DEF SaveRequest
  <2>2. call[c].base.revision + 1 \in 0..MaxRevision
    BY <2>1
  <2> QED BY <2>1, <2>2 DEF Drafted
<1>5. /\ ClientTypes'
      /\ \A b \in Devices : device'[b] \in {device[b], IF b = d THEN next ELSE device[b]}
  BY <1>3, <1>4, HearKnows
<1>6. TabTypeOK'
  <2>1. CallTypes' /\ SeatTypes'
    BY <1>1, FinishTypes, SeatsSame
  <2>2. RowTypes'
    BY <1>1, <1>4 DEF RowTypes
  <2> QED BY <1>1, <1>5, <2>1, <2>2, TypesNext
<1>7. Only("add") /\ \A o \in Calls : call'[o] # NoCall => o # c /\ call'[o] = call[o]
  BY FinishOnly DEF TabsInv
<1>8. TokensPlaced'
  BY <1>7, PlacedKept, "add" # "invite" DEF TabsInv
<1>9. SeatsHeld'
  BY FinishHeld
<1>10. Seated1' /\ Membership'
  BY WhoKept DEF TabsInv
<1>11. FrozenSource'
  <2>1. ASSUME NEW u \in Tabs, ~Open(u)'
        PROVE  /\ flow'[u].doc = draft'[u].doc
               /\ flow'[u].seats = Executable(u)'
               /\ payer'[u] = {DocPayer[flow'[u].doc]}
    <3>1. ~Open(u) /\ u # t
      BY <2>1 DEF Open
    <3>2. draft'[u] = draft[u]
      BY <1>1, <3>1 DEF RowTypes
    <3> QED BY <3>1, <3>2 DEF TabsInv, FrozenSource, Executable, SeatsOf
  <2> QED BY <2>1 DEF FrozenSource
<1>12. ReviewGiven'
  BY <1>7, GivenKept, "add" # "freeze" DEF TabsInv
<1>13. FateSingle' /\ ReviewsWhole'
  BY DEF TabsInv, FateSingle, ReviewsWhole
<1>14. DraftsKnown'
  <2>1. draft[t].revision \in Int /\ next.revision = draft[t].revision + 1
    BY <1>1, <1>3 DEF RowTypes, Drafted
  <2>2. \A u \in Tabs : draft'[u] = IF u = t THEN next ELSE draft[u]
    BY <1>1 DEF RowTypes
  <2>3. ASSUME NEW u \in Tabs, NEW known, known.revision \in Int, Knows(u, known)
        PROVE  Knows(u, known)'
    BY <2>1, <2>2, <2>3 DEF Knows
  <2>4. ASSUME NEW b \in Devices
        PROVE  Knows(DeviceTab[b], device[b])'
    <3>1. device[b].revision \in Int /\ DeviceTab[b] \in Tabs
      BY <1>1 DEF ClientTypes, Drafted
    <3>2. Knows(DeviceTab[b], device[b])
      BY DEF TabsInv, DraftsKnown
    <3>3. CASE device'[b] = device[b]
      BY <2>3, <3>1, <3>2, <3>3 DEF Knows
    <3>4. CASE b = d /\ device'[b] = next
      BY <2>1, <2>2, <1>3, <3>4 DEF Knows
    <3> QED BY <1>5, <3>3, <3>4
  <2>5. ASSUME NEW o \in Calls, Saves(o)'
        PROVE  Knows(DeviceTab[call[o].device], call[o].base)'
    <3>1. Saves(o) /\ call'[o] = call[o]
      BY <1>7, <2>5 DEF Saves
    <3>2. call[o] \in SaveRequest
      BY <1>1, <3>1, Kinds DEF Saves
    <3>3. call[o].base.revision \in Int /\ DeviceTab[call[o].device] \in Tabs
      BY <3>2 DEF SaveRequest
    <3>4. Knows(DeviceTab[call[o].device], call[o].base)
      BY <3>1 DEF TabsInv, DraftsKnown
    <3> QED BY <2>3, <3>1, <3>3, <3>4 DEF Knows
  <2> QED BY <2>4, <2>5 DEF DraftsKnown
<1> QED BY <1>6, <1>8, <1>9, <1>10, <1>11, <1>12, <1>13, <1>14 DEF TabsInv

\* A request that has taken the tab's lock and goes on to wait for a seat.
LEMMA TabLockKeeps ==
  ASSUME TabsInv, NEW c \in Calls, call[c] # NoCall,
         NEW t \in Tabs, NEW step, [call[c] EXCEPT !.step = step] \in Request,
         call[c].op \in {"save", "choose"},
         tabLock' = [tabLock EXCEPT ![t] = c],
         call' = [call EXCEPT ![c].step = step],
         UNCHANGED <<rows, client, seatLock, review, answer, fate>>
  PROVE  TabsInv'
<1> DEFINE next == [call[c] EXCEPT !.step = step]
<1>1. CallTypes /\ jar \in [Users -> Tokens \cup {NoToken}]
  BY Types DEF TabsInv, ClientTypes
<1>2. /\ call' = [call EXCEPT ![c] = next] /\ next \in Request
      /\ next.op = call[c].op
      /\ call[c].op = "save" => next.device = call[c].device /\ next.base = call[c].base
  <2>1. call[c] \in SaveRequest \/ call[c] \in ChooseRequest
    BY <1>1, Kinds
  <2> QED BY <2>1 DEF SaveRequest, ChooseRequest
<1> HIDE DEF next
<1>3. \A o \in Calls : call'[o] = IF o = c THEN next ELSE call[o]
  BY <1>1, <1>2 DEF CallTypes
<1>4. CallTypes'
  BY <1>1, <1>2 DEF CallTypes
<1>5. Only("add")
  BY <1>2, <1>3 DEF Only, Carried
<1>6. TokensPlaced' /\ DraftsKnown' /\ ReviewGiven'
  <2>1. TokensPlaced'
    BY <1>5, PlacedKept, "add" # "invite" DEF TabsInv, rows
  <2>2. DraftsKnown'
    BY <1>5, KnownKept, "add" # "save" DEF TabsInv, rows, client
  <2>3. ReviewGiven'
    BY <1>5, GivenKept, "add" # "freeze" DEF TabsInv, rows
  <2> QED BY <2>1, <2>2, <2>3
<1>7. SeatsHeld'
  <2>1. ASSUME NEW o \in Calls, At(o, "invite", "tab")' \/ At(o, "join", "tab")'
        PROVE  call'[o] = call[o]
    BY <1>2, <1>3, <2>1 DEF At
  <2> QED BY <2>1, HeldKept DEF TabsInv, rows
<1>8. StillRows /\ jar' = jar
  BY DEF StillRows, client
<1> QED BY <1>1, <1>4, <1>6, <1>7, <1>8, StillKeeps

LEMMA SaveLockKeeps ==
  ASSUME TabsInv, NEW c \in Calls, SaveLock(c)
  PROVE  TabsInv'
<1> DEFINE d == call[c].device
           t == DeviceTab[d]
<1>1. At(c, "save", "tab")
  BY DEF SaveLock
<1>2. CASE Rollback(c)
  BY <1>2, RollbackKeeps
<1>3. CASE /\ Finish(c, "ok") /\ Hear(d, draft[t])
           /\ UNCHANGED <<rows, jar, review, fate>>
  BY <1>1, <1>3, SaveAgainKeeps
<1>4. CASE /\ tabLock' = [tabLock EXCEPT ![t] = c]
           /\ call' = [call EXCEPT ![c].step = "payer"]
           /\ UNCHANGED <<rows, client, seatLock, review, answer, fate>>
  <2>1. call[c] \in SaveRequest /\ call[c] # NoCall /\ call[c].op = "save"
    BY <1>1, Types, Kinds DEF At, TabsInv
  <2>2. t \in Tabs /\ [call[c] EXCEPT !.step = "payer"] \in Request
    BY <2>1 DEF SaveRequest, Request
  <2> QED BY <1>4, <2>1, <2>2, TabLockKeeps
<1> QED BY <1>2, <1>3, <1>4 DEF SaveLock

LEMMA SaveKeeps ==
  ASSUME TabsInv, TabsHeld, NEW c \in Calls, Save(c)
  PROVE  TabsInv'
<1> DEFINE d == call[c].device
           t == DeviceTab[d]
           next == [revision |-> call[c].base.revision + 1, doc |-> call[c].doc]
<1>1. At(c, "save", "payer")
  BY DEF Save
<1>2. /\ draft' = [draft EXCEPT ![t] = next]
      /\ Finish(c, "ok") /\ Hear(d, draft'[t])
      /\ UNCHANGED <<role, seat, flow, payer, jar, review, fate>>
  BY DEF Save
<1>3. d \in Devices /\ t \in Tabs
  BY <1>1, Types, Kinds DEF At, SaveRequest, TabsInv
<1>4. draft'[t] = next
  BY <1>2, <1>3, Types DEF TabsInv, RowTypes
<1>5. Open(t) /\ draft[t].revision = call[c].base.revision
  BY <1>1 DEF TabsHeld, HoldsTab
<1> QED BY <1>1, <1>2, <1>4, <1>5, SaveNewKeeps

(***************************************************************************)
(* Participants and invites.                                               *)
(***************************************************************************)
LEMMA SendAddKeeps ==
  ASSUME TabsInv, NEW c \in Calls, NEW u \in Users, NEW s \in Seats,
         NEW self \in BOOLEAN, SendAdd(c, u, s, self)
  PROVE  TabsInv'
<1> DEFINE request == [op |-> "add", step |-> "tab", user |-> u, seat |-> s,
                       self |-> self]
<1>1. Send(c, request)
  BY DEF SendAdd
<1>2. request \in Request
  BY DEF Request, AddRequest
<1>3. Only("add") /\ UNCHANGED <<rows, client, review, fate>>
  <2>1. Only(request.op)
    BY <1>1, SendOnly DEF TabsInv
  <2> QED BY <1>1, <2>1 DEF Send
<1>4. TokensPlaced'
  BY <1>3, PlacedKept, "add" # "invite" DEF TabsInv, rows
<1>5. DraftsKnown'
  BY <1>3, KnownKept, "add" # "save" DEF TabsInv, rows, client
<1>6. ReviewGiven'
  BY <1>3, GivenKept, "add" # "freeze" DEF TabsInv, rows
<1> QED BY <1>1, <1>2, <1>4, <1>5, <1>6, SentKeeps

\* A transaction that writes the one seat s, of an open tab, and ends.
SeatWritten(c, s) ==
  /\ Finish(c, "ok") \/ Finish(c, "refused")
  /\ \A z \in Seats : z # s => seat'[z] = seat[z]
  /\ UNCHANGED <<draft, flow, payer, device, review>>
  /\ jar' \in [Users -> Tokens \cup {NoToken}] /\ lost' \in 0..MaxLost

\* What a writer of a seat has to show for itself: the rest is not touched.
LEMMA WrittenKeeps ==
  ASSUME TabsInv, NEW c \in Calls, NEW s \in Seats,
         SeatWritten(c, s), SeatTypes', Open(SeatTab[s]),
         role' \in [Tabs -> [Users -> {"none", "owner", "member"}]],
         fate' \in [Tokens -> SUBSET (Users \cup {"replaced", "expired"})],
         \A o \in Calls : o # c /\ (At(o, "invite", "tab") \/ At(o, "join", "tab")) =>
           call[o].seat # s,
         TokensPlaced', FateSingle', Seated1', Membership'
  PROVE  TabsInv'
<1>1. /\ CallTypes /\ SeatTypes /\ RowTypes /\ ClientTypes /\ review \in [Runs -> Bound]
  BY Types DEF TabsInv
<1>2. Only("add") /\ \A o \in Calls : call'[o] # NoCall => o # c /\ call'[o] = call[o]
  BY FinishOnly DEF TabsInv, SeatWritten
<1>3. TabTypeOK'
  <2>1. CallTypes'
    <3>1. CASE Finish(c, "ok")
      BY <1>1, <3>1, FinishTypes
    <3>2. CASE Finish(c, "refused")
      BY <1>1, <3>2, FinishTypes
    <3> QED BY <3>1, <3>2 DEF SeatWritten
  <2>2. RowTypes' /\ ClientTypes'
    BY <1>1 DEF SeatWritten, RowTypes, ClientTypes
  <2> QED BY <1>1, <2>1, <2>2, TypesNext DEF SeatWritten
<1>4. SeatsHeld'
  <2>1. ASSUME NEW o \in Calls, o # c, At(o, "invite", "tab") \/ At(o, "join", "tab")
        PROVE  seat'[call[o].seat] = seat[call[o].seat]
    <3>1. call[o].seat \in Seats
      BY <1>1, <2>1, Kinds DEF At, InviteRequest, JoinRequest
    <3>2. call[o].seat # s
      BY <2>1
    <3> QED BY <3>1, <3>2 DEF SeatWritten
  <2>2. CASE Finish(c, "ok")
    BY <2>1, <2>2, FinishHeld
  <2>3. CASE Finish(c, "refused")
    BY <2>1, <2>3, FinishHeld
  <2> QED BY <2>2, <2>3 DEF SeatWritten
<1>5. FrozenSource'
  <2>1. ASSUME NEW t \in Tabs, ~Open(t)'
        PROVE  /\ flow'[t].doc = draft'[t].doc
               /\ flow'[t].seats = Executable(t)'
               /\ payer'[t] = {DocPayer[flow'[t].doc]}
    <3>1. ~Open(t) /\ t # SeatTab[s]
      BY <2>1 DEF SeatWritten, Open
    <3>2. \A z \in Seats : SeatTab[z] = t => seat'[z] = seat[z]
      BY <1>1, <3>1 DEF SeatWritten, SeatTypes
    <3>3. Executable(t)' = Executable(t)
      BY <3>2 DEF Executable, SeatsOf
    <3> QED BY <3>1, <3>3 DEF TabsInv, FrozenSource, SeatWritten
  <2> QED BY <2>1 DEF FrozenSource
<1>6. DraftsKnown'
  BY <1>2, KnownKept, "add" # "save" DEF TabsInv, SeatWritten
<1>7. ReviewGiven' /\ ReviewsWhole'
  <2>1. ReviewGiven'
    BY <1>2, GivenKept, "add" # "freeze" DEF TabsInv, SeatWritten
  <2> QED BY <2>1 DEF TabsInv, ReviewsWhole, SeatWritten
<1> QED BY <1>3, <1>4, <1>5, <1>6, <1>7 DEF TabsInv

LEMMA AddKeeps ==
  ASSUME TabsInv, NEW c \in Calls, Add(c)
  PROVE  TabsInv'
<1> DEFINE u == call[c].user
           s == call[c].seat
           row == [there |-> TRUE, token |-> NoToken,
                   user |-> IF call[c].self THEN u ELSE NoUser,
                   status |-> IF call[c].self THEN "joined" ELSE "draft"]
<1>1. CASE Rollback(c)
  BY <1>1, RollbackKeeps
<1>2. CASE /\ MayEdit(u, SeatTab[s]) /\ SourceMutable(SeatTab[s]) /\ ~seat[s].there
           /\ call[c].self => ~SeatTaken(SeatTab[s], u)
           /\ seat' = [seat EXCEPT ![s] = row]
           /\ Finish(c, "ok")
           /\ UNCHANGED <<role, draft, flow, payer, client, review, fate>>
  <2>1. /\ CallTypes /\ SeatTypes /\ RowTypes /\ ClientTypes
        /\ fate \in [Tokens -> SUBSET (Users \cup {"replaced", "expired"})]
    BY Types DEF TabsInv
  <2>2. u \in Users /\ s \in Seats /\ call[c].self \in BOOLEAN
    BY <2>1, Kinds DEF Add, At, AddRequest
  <2>3. row.user \in Users \cup {NoUser} /\ (row.user # NoUser <=> call[c].self)
    BY <2>2
  <2>4. \A z \in Seats : seat'[z] = IF z = s THEN row ELSE seat[z]
    BY <1>2, <2>1, <2>2 DEF SeatTypes
  <2>5. SeatTypes'
    BY <1>2, <2>1, <2>2, <2>3, <2>4 DEF SeatTypes
  <2>6. SeatWritten(c, s)
    BY <1>2, <2>1, <2>4 DEF SeatWritten, client, ClientTypes
  <2>7. Only("add")
    BY <1>2, FinishOnly DEF TabsInv
  <2>8. TokensPlaced'
    BY <1>2, <2>4, <2>7, PlacedKept, "add" # "invite" DEF TabsInv
  <2>9. FateSingle'
    BY <1>2 DEF TabsInv, FateSingle
  <2>10. Membership'
    BY <1>2, <2>2, <2>3, <2>4 DEF TabsInv, Membership, MayEdit
  <2>11. Seated1'
    <3>1. ASSUME NEW z \in Seats, z # s, SeatTab[z] = SeatTab[s], seat[z].there,
                 seat[z].user = row.user, row.user # NoUser
          PROVE  FALSE
      <4>1. row.user = u /\ call[c].self
        BY <2>3, <3>1
      <4>2. z \in SeatsOf(SeatTab[s])
        BY <3>1 DEF SeatsOf
      <4> QED BY <1>2, <3>1, <4>1, <4>2 DEF SeatTaken
    <3>2. \A y, z \in Seats :
            /\ SeatTab[y] = SeatTab[z] /\ seat'[y].there /\ seat'[z].there
            /\ seat'[y].user = seat'[z].user /\ seat'[y].user # NoUser
            => y = z
      <4>1. ASSUME NEW y \in Seats, NEW z \in Seats,
                   SeatTab[y] = SeatTab[z], seat'[y].there, seat'[z].there,
                   seat'[y].user = seat'[z].user, seat'[y].user # NoUser
            PROVE  y = z
        <5>1. CASE y # s /\ z # s
          BY <2>4, <4>1, <5>1 DEF TabsInv, Seated1
        <5>2. CASE y = s /\ z # s
          BY <2>4, <3>1, <4>1, <5>2
        <5>3. CASE y # s /\ z = s
          BY <2>4, <3>1, <4>1, <5>3
        <5> QED BY <5>1, <5>2, <5>3
      <4> QED BY <4>1
    <3> QED BY <3>2 DEF Seated1
  <2>12. \A o \in Calls : o # c /\ (At(o, "invite", "tab") \/ At(o, "join", "tab")) =>
           call[o].seat # s
    BY <1>2 DEF TabsInv, SeatsHeld
  <2>13. /\ role' \in [Tabs -> [Users -> {"none", "owner", "member"}]]
         /\ fate' \in [Tokens -> SUBSET (Users \cup {"replaced", "expired"})]
         /\ Open(SeatTab[s])
    BY <1>2, <2>1 DEF RowTypes, SourceMutable
  <2> HIDE DEF row, s
  <2> QED BY <2>2, <2>5, <2>6, <2>8, <2>9, <2>10, <2>11, <2>12, <2>13, WrittenKeeps
<1> QED BY <1>1, <1>2 DEF Add

LEMMA SendInviteKeeps ==
  ASSUME TabsInv, NEW c \in Calls, NEW u \in Users, NEW s \in Seats, NEW k \in Tokens,
         NEW url \in Tabs, SendInvite(c, u, s, k, url)
  PROVE  TabsInv'
<1> DEFINE request == [op |-> "invite", step |-> "seat", user |-> u, seat |-> s,
                       token |-> k, url |-> url]
<1>1. /\ Send(c, request) /\ fate[k] = {}
      /\ \A z \in Seats : seat[z].token # k
      /\ ~\E o \in Calls : call[o] # NoCall /\ call[o].op = "invite" /\ call[o].token = k
  BY DEF SendInvite
<1>2. request \in Request
  BY DEF Request, InviteRequest
<1>3. /\ Only("invite") /\ UNCHANGED <<rows, client, review, fate>>
      /\ call'[c] = request
      /\ \A o \in Calls : o # c => call'[o] = call[o]
  <2>1. Only(request.op)
    BY <1>1, SendOnly DEF TabsInv
  <2> QED BY <1>1, <2>1, SendOnly DEF Send, TabsInv
<1>4. TokensPlaced'
  <2>1. \A z \in Seats : seat'[z].token # NoToken =>
          /\ fate'[seat'[z].token] = {}
          /\ \A y \in Seats : seat'[y].token = seat'[z].token => y = z
    BY <1>3 DEF TabsInv, TokensPlaced, rows
  <2>2. ASSUME NEW o \in Calls, Offers(o)'
        PROVE  /\ fate'[call'[o].token] = {}
               /\ \A z \in Seats : seat'[z].token # call'[o].token
               /\ \A b \in Calls : Offers(b)' /\ call'[b].token = call'[o].token => b = o
    <3>1. CASE o = c
      <4>1. call'[o].token = k /\ \A b \in Calls : Offers(b)' /\ b # o =>
              call'[b].token # k
        BY <1>1, <1>3, <3>1 DEF Offers
      <4> QED BY <1>1, <1>3, <4>1 DEF rows
    <3>2. CASE o # c
      <4>1. Offers(o) /\ call'[o] = call[o] /\ call[o].token # k
        BY <1>1, <1>3, <2>2, <3>2 DEF Offers
      <4>2. /\ fate[call[o].token] = {}
            /\ \A z \in Seats : seat[z].token # call[o].token
            /\ \A b \in Calls : Offers(b) /\ call[b].token = call[o].token => b = o
        BY <4>1 DEF TabsInv, TokensPlaced, Offers
      <4>3. \A b \in Calls : Offers(b)' /\ call'[b].token = call'[o].token => b = o
        BY <1>3, <4>1, <4>2 DEF Offers
      <4> QED BY <1>3, <4>1, <4>2, <4>3 DEF rows
    <3> QED BY <3>1, <3>2
  <2> QED BY <2>1, <2>2 DEF TokensPlaced, Offers
<1>5. DraftsKnown'
  BY <1>3, KnownKept, "invite" # "save" DEF TabsInv, rows, client
<1>6. ReviewGiven'
  BY <1>3, GivenKept, "invite" # "freeze" DEF TabsInv, rows
<1>7. request.step # "tab"
  OBVIOUS
<1> QED BY <1>1, <1>2, <1>4, <1>5, <1>6, <1>7, SentKeeps

\* A request takes the lock of the seat it has read.
LEMMA LockKeeps ==
  ASSUME TabsInv, NEW c \in Calls, NEW s \in Seats, NEW next \in Request,
         At(c, "invite", "seat") \/ At(c, "join", "seat"),
         next.op = call[c].op, next.token = call[c].token,
         next.step = "tab", next.seat = s,
         seatLock[s] = NoCall, seat[s].there,
         call[c].op = "invite" => seat[s].user = NoUser,
         call[c].op = "join" => seat[s].token = call[c].token,
         seatLock' = [seatLock EXCEPT ![s] = c],
         call' = [call EXCEPT ![c] = next],
         UNCHANGED <<rows, client, tabLock, review, answer, fate>>
  PROVE  TabsInv'
<1>1. CallTypes /\ jar \in [Users -> Tokens \cup {NoToken}]
  BY Types DEF TabsInv, ClientTypes
<1>2. \A o \in Calls : call'[o] = IF o = c THEN next ELSE call[o]
  BY <1>1 DEF CallTypes
<1>3. \A z \in Seats : seatLock'[z] = IF z = s THEN c ELSE seatLock[z]
  BY <1>1 DEF CallTypes
<1>4. CallTypes'
  BY <1>1 DEF CallTypes
<1>5. Only("add")
  BY <1>2 DEF Only, Carried, At
<1>6. TokensPlaced' /\ DraftsKnown' /\ ReviewGiven'
  <2>1. TokensPlaced'
    BY <1>5, PlacedKept, "add" # "invite" DEF TabsInv, rows
  <2>2. DraftsKnown'
    BY <1>5, KnownKept, "add" # "save" DEF TabsInv, rows, client
  <2>3. ReviewGiven'
    BY <1>5, GivenKept, "add" # "freeze" DEF TabsInv, rows
  <2> QED BY <2>1, <2>2, <2>3
<1>7. SeatsHeld'
  <2>1. ASSUME NEW o \in Calls, At(o, "invite", "tab")' \/ At(o, "join", "tab")'
        PROVE  /\ seatLock'[call'[o].seat] = o /\ seat'[call'[o].seat].there
               /\ call'[o].op = "invite" => seat'[call'[o].seat].user = NoUser
               /\ call'[o].op = "join" => seat'[call'[o].seat].token = call'[o].token
    <3>1. CASE o = c
      BY <1>2, <1>3, <3>1 DEF rows
    <3>2. CASE o # c
      <4>1. call'[o] = call[o] /\ call[o] # NoCall
        BY <1>2, <2>1, <3>2 DEF At
      <4>2. At(o, "invite", "tab") \/ At(o, "join", "tab")
        BY <2>1, <4>1 DEF At
      <4>3. seatLock[call[o].seat] = o /\ call[o].seat \in Seats
        BY <1>1, <4>1, <4>2, Kinds DEF TabsInv, SeatsHeld, At, InviteRequest, JoinRequest
      <4>4. call[o].seat # s
        BY <4>3
      <4> QED BY <1>3, <4>1, <4>2, <4>3, <4>4 DEF TabsInv, SeatsHeld, At, rows
    <3> QED BY <3>1, <3>2
  <2> QED BY <2>1 DEF SeatsHeld, At
<1> QED BY <1>1, <1>4, <1>6, <1>7, StillKeeps DEF StillRows, client

LEMMA InviteLockKeeps ==
  ASSUME TabsInv, NEW c \in Calls, InviteLock(c)
  PROVE  TabsInv'
<1> DEFINE s == call[c].seat
           next == [call[c] EXCEPT !.step = "tab"]
<1>1. CASE Rollback(c)
  BY <1>1, RollbackKeeps
<1>2. CASE /\ seatLock[s] = NoCall /\ seat[s].there /\ seat[s].user = NoUser
           /\ seatLock' = [seatLock EXCEPT ![s] = c]
           /\ call' = [call EXCEPT ![c].step = "tab"]
           /\ UNCHANGED <<rows, client, tabLock, review, answer, fate>>
  <2>1. call[c] \in InviteRequest /\ At(c, "invite", "seat")
    BY Types, Kinds DEF TabsInv, InviteLock, At
  <2>2. /\ next \in InviteRequest /\ s \in Seats /\ next.op = call[c].op
        /\ next.token = call[c].token /\ next.step = "tab" /\ next.seat = s
        /\ call[c].op = "invite"
    BY <2>1 DEF InviteRequest
  <2>3. call' = [call EXCEPT ![c] = next] /\ next \in Request
    BY <1>2, <2>2 DEF Request
  <2> QED BY <1>2, <2>1, <2>2, <2>3, LockKeeps
<1> QED BY <1>1, <1>2 DEF InviteLock

\* A token leaves the seat it is on, and its fate is decided.
LEMMA Retired ==
  ASSUME TabsInv, NEW s \in Seats, seat[s].token # NoToken, NEW x,
         fate' = [fate EXCEPT ![seat[s].token] = @ \cup {x}],
         x \in Users \cup {"replaced", "expired"},
         \A z \in Seats : seat'[z].token = IF z = s THEN NoToken ELSE seat[z].token,
         Only("add")
  PROVE  /\ TokensPlaced' /\ FateSingle'
         /\ fate' \in [Tokens -> SUBSET (Users \cup {"replaced", "expired"})]
<1> DEFINE k == seat[s].token
<1>1. /\ CallTypes /\ SeatTypes
      /\ fate \in [Tokens -> SUBSET (Users \cup {"replaced", "expired"})]
  BY Types DEF TabsInv
<1>2. k \in Tokens /\ fate[k] = {}
  BY <1>1 DEF TabsInv, TokensPlaced, SeatTypes
<1>3. \A l \in Tokens : fate'[l] = IF l = k THEN {x} ELSE fate[l]
  BY <1>1, <1>2
<1>4. FateSingle'
  <2>1. \A l \in Tokens : \A a, b \in fate[l] : a = b
    BY DEF TabsInv, FateSingle
  <2>2. ASSUME NEW l \in Tokens, NEW a \in fate'[l], NEW b \in fate'[l]
        PROVE  a = b
    <3>1. fate'[l] = {x} \/ fate'[l] = fate[l]
      BY <1>3
    <3>2. CASE fate'[l] = {x}
      BY <2>2, <3>2, Zenon
    <3>3. CASE fate'[l] = fate[l]
      BY <2>1, <2>2, <3>3, Zenon
    <3> QED BY <3>1, <3>2, <3>3
  <2> QED BY <2>2 DEF FateSingle
<1>5. fate' \in [Tokens -> SUBSET (Users \cup {"replaced", "expired"})]
  BY <1>1, <1>2
<1>6. \A c \in Calls : Offers(c)' =>
        /\ Offers(c) /\ call'[c].token = call[c].token
        /\ call[c].token \in Tokens /\ call[c].token # k
        /\ fate[call[c].token] = {}
        /\ \A z \in Seats : seat[z].token # call[c].token
  <2>1. ASSUME NEW c \in Calls, Offers(c)'
        PROVE  Offers(c) /\ call'[c].token = call[c].token
    BY <2>1, "add" # "invite" DEF Only, Offers, Carried
  <2>2. ASSUME NEW c \in Calls, Offers(c)
        PROVE  call[c].token \in Tokens
    BY <1>1, <2>2, Kinds DEF Offers, InviteRequest
  <2>3. ASSUME NEW c \in Calls, Offers(c)
        PROVE  /\ fate[call[c].token] = {}
               /\ \A z \in Seats : seat[z].token # call[c].token
    BY <2>3 DEF TabsInv, TokensPlaced, Offers
  <2> QED BY <2>1, <2>2, <2>3
<1>7. \A c \in Calls : Offers(c)' =>
        /\ fate'[call'[c].token] = {}
        /\ \A z \in Seats : seat'[z].token # call'[c].token
        /\ \A o \in Calls : Offers(o)' /\ call'[o].token = call'[c].token => o = c
  <2>1. ASSUME NEW c \in Calls, Offers(c)'
        PROVE  /\ fate'[call'[c].token] = {}
               /\ \A z \in Seats : seat'[z].token # call'[c].token
    <3>1. /\ call'[c].token = call[c].token /\ call[c].token \in Tokens
          /\ call[c].token # k /\ fate[call[c].token] = {}
          /\ \A z \in Seats : seat[z].token # call[c].token
      BY <1>6, <2>1
    <3>2. fate'[call[c].token] = {}
      BY <1>3, <3>1
    <3>3. \A z \in Seats : seat'[z].token # call[c].token
      BY <3>1
    <3> QED BY <3>1, <3>2, <3>3
  <2>2. ASSUME NEW c \in Calls, Offers(c)', NEW o \in Calls, Offers(o)',
               call'[o].token = call'[c].token
        PROVE  o = c
    <3>1. Offers(c) /\ Offers(o) /\ call[o].token = call[c].token
      BY <1>6, <2>2
    <3> QED BY <3>1 DEF TabsInv, TokensPlaced, Offers
  <2> QED BY <2>1, <2>2
<1>8. \A z \in Seats : seat'[z].token # NoToken =>
        /\ fate'[seat'[z].token] = {}
        /\ \A y \in Seats : seat'[y].token = seat'[z].token => y = z
  <2>1. ASSUME NEW z \in Seats, seat'[z].token # NoToken
        PROVE  /\ seat'[z].token = seat[z].token /\ seat[z].token \in Tokens
               /\ seat[z].token # k /\ fate[seat[z].token] = {}
               /\ \A y \in Seats : seat[y].token = seat[z].token => y = z
    <3>1. z # s /\ seat'[z].token = seat[z].token
      BY <2>1
    <3>2. seat[z].token \in Tokens
      BY <1>1, <2>1, <3>1 DEF SeatTypes
    <3>3. /\ fate[seat[z].token] = {}
          /\ \A y \in Seats : seat[y].token = seat[z].token => y = z
      BY <2>1, <3>1 DEF TabsInv, TokensPlaced
    <3> QED BY <3>1, <3>2, <3>3
  <2> QED BY <1>3, <2>1
<1> QED BY <1>4, <1>5, <1>7, <1>8 DEF TokensPlaced, Offers

LEMMA ExpireKeeps ==
  ASSUME TabsInv, NEW s \in Seats, Expire(s)
  PROVE  TabsInv'
<1> DEFINE k == seat[s].token
<1>1. /\ k # NoToken
      /\ seat' = [seat EXCEPT ![s].token = NoToken]
      /\ fate' = [fate EXCEPT ![k] = @ \cup {"expired"}]
      /\ UNCHANGED <<role, draft, flow, payer, locks, client, review, call, answer>>
      /\ \A c \in Calls : call[c] # NoCall /\ call[c].op = "join" => call[c].token # k
  BY DEF Expire
<1>2. /\ CallTypes /\ SeatTypes /\ RowTypes /\ ClientTypes /\ review \in [Runs -> Bound]
  BY Types DEF TabsInv
<1>3. \A z \in Seats : /\ seat'[z].there = seat[z].there
                       /\ seat'[z].user = seat[z].user
                       /\ seat'[z].status = seat[z].status
                       /\ seat'[z].token = IF z = s THEN NoToken ELSE seat[z].token
  BY <1>1, <1>2 DEF SeatTypes
<1>4. SeatTypes'
  <2>1. seat' \in [Seats -> [there : BOOLEAN, user : Users \cup {NoUser},
                             status : {"draft", "invited", "joined"},
                             token : Tokens \cup {NoToken}]]
    BY <1>1, <1>2 DEF SeatTypes
  <2> QED BY <1>2, <1>3, <2>1 DEF SeatTypes
<1>5. Only("add")
  BY <1>1, SameOnly
<1>6. /\ TokensPlaced' /\ FateSingle'
      /\ fate' \in [Tokens -> SUBSET (Users \cup {"replaced", "expired"})]
  BY <1>1, <1>3, <1>5, Retired
<1>7. TabTypeOK'
  <2>1. CallTypes' /\ RowTypes' /\ ClientTypes'
    BY <1>1, <1>2, CallsSame, RowsSame, ClientSame
  <2> QED BY <1>1, <1>2, <1>4, <1>6, <2>1, TypesNext
<1>8. SeatsHeld'
  <2>1. ASSUME NEW o \in Calls, At(o, "join", "tab")
        PROVE  call[o].seat # s
    BY <1>1, <2>1 DEF TabsInv, SeatsHeld, At
  <2>2. \A o \in Calls : At(o, "invite", "tab") \/ At(o, "join", "tab") =>
          call[o].seat \in Seats
    BY <1>2, Kinds DEF At, InviteRequest, JoinRequest
  <2> QED BY <1>1, <1>3, <2>1, <2>2 DEF TabsInv, SeatsHeld, At, locks
<1>9. Seated1' /\ Membership' /\ FrozenSource'
  BY <1>1, <1>3, WhoKept, FrozenKept DEF TabsInv
<1>10. DraftsKnown'
  BY <1>1, <1>5, KnownKept, "add" # "save" DEF TabsInv, client
<1>11. ReviewGiven' /\ ReviewsWhole'
  BY <1>1, <1>5, GivenKept, "add" # "freeze" DEF TabsInv, ReviewsWhole
<1> QED BY <1>6, <1>7, <1>8, <1>9, <1>10, <1>11 DEF TabsInv

\* A token moves from its request to a seat; the one it replaces is done with.
LEMMA InvitePlaced ==
  ASSUME TabsInv, NEW c \in Calls, At(c, "invite", "tab"), NEW s \in Seats,
         \A o \in Calls : call'[o] # NoCall => o # c /\ call'[o] = call[o],
         \A z \in Seats : seat'[z].token = IF z = s THEN call[c].token ELSE seat[z].token,
         seat[s].token = NoToken => fate' = fate,
         seat[s].token # NoToken =>
           fate' = [fate EXCEPT ![seat[s].token] = @ \cup {"replaced"}]
  PROVE  /\ TokensPlaced' /\ FateSingle'
         /\ fate' \in [Tokens -> SUBSET (Users \cup {"replaced", "expired"})]
<1> DEFINE k == call[c].token
           old == seat[s].token
<1>1. /\ CallTypes /\ SeatTypes
      /\ fate \in [Tokens -> SUBSET (Users \cup {"replaced", "expired"})]
      /\ TokensPlaced /\ FateSingle
  BY Types DEF TabsInv
<1>2. /\ k \in Tokens /\ fate[k] = {} /\ k # old
      /\ \A z \in Seats : seat[z].token # k
  <2>1. k \in Tokens
    BY <1>1, Kinds DEF At, InviteRequest
  <2> QED BY <1>1, <2>1 DEF TokensPlaced, At
<1>3. old \in Tokens \cup {NoToken} /\ (old # NoToken => fate[old] = {})
  BY <1>1 DEF TokensPlaced, SeatTypes
<1>4. \A l \in Tokens : fate'[l] = IF l = old THEN {"replaced"} ELSE fate[l]
  BY <1>1, <1>3
<1>5. fate' \in [Tokens -> SUBSET (Users \cup {"replaced", "expired"})]
  BY <1>1, <1>3
<1>6. FateSingle'
  <2>1. \A l \in Tokens : \A a, b \in fate[l] : a = b
    BY <1>1 DEF FateSingle
  <2>2. ASSUME NEW l \in Tokens, NEW a \in fate'[l], NEW b \in fate'[l]
        PROVE  a = b
    <3>1. fate'[l] = {"replaced"} \/ fate'[l] = fate[l]
      BY <1>4
    <3>2. CASE fate'[l] = {"replaced"}
      BY <2>2, <3>2, Zenon
    <3>3. CASE fate'[l] = fate[l]
      BY <2>1, <2>2, <3>3, Zenon
    <3> QED BY <3>1, <3>2, <3>3
  <2> QED BY <2>2 DEF FateSingle
<1>7. \A o \in Calls : Offers(o)' =>
        /\ o # c /\ Offers(o) /\ call'[o] = call[o]
        /\ call[o].token \in Tokens
        /\ fate[call[o].token] = {}
        /\ \A z \in Seats : seat[z].token # call[o].token
        /\ \A b \in Calls : Offers(b) /\ call[b].token = call[o].token => b = o
  <2>1. ASSUME NEW o \in Calls, Offers(o)'
        PROVE  o # c /\ Offers(o) /\ call'[o] = call[o]
    BY <2>1 DEF Offers
  <2>2. ASSUME NEW o \in Calls, Offers(o)
        PROVE  call[o].token \in Tokens
    BY <1>1, <2>2, Kinds DEF Offers, InviteRequest
  <2>3. ASSUME NEW o \in Calls, Offers(o)
        PROVE  /\ fate[call[o].token] = {}
               /\ \A z \in Seats : seat[z].token # call[o].token
               /\ \A b \in Calls : Offers(b) /\ call[b].token = call[o].token => b = o
    BY <1>1, <2>3 DEF TokensPlaced, Offers
  <2> QED BY <2>1, <2>2, <2>3
<1>8. \A o \in Calls : Offers(o)' =>
        /\ fate'[call'[o].token] = {}
        /\ \A z \in Seats : seat'[z].token # call'[o].token
        /\ \A b \in Calls : Offers(b)' /\ call'[b].token = call'[o].token => b = o
  <2>1. ASSUME NEW o \in Calls, Offers(o)'
        PROVE  /\ fate'[call'[o].token] = {}
               /\ \A z \in Seats : seat'[z].token # call'[o].token
               /\ \A b \in Calls : Offers(b)' /\ call'[b].token = call'[o].token => b = o
    <3>1. /\ o # c /\ Offers(o) /\ call'[o] = call[o] /\ call[o].token \in Tokens
          /\ fate[call[o].token] = {}
          /\ \A z \in Seats : seat[z].token # call[o].token
          /\ \A b \in Calls : Offers(b) /\ call[b].token = call[o].token => b = o
      BY <1>7, <2>1
    <3>2. call[o].token # k /\ call[o].token # old
      BY <3>1 DEF At, Offers
    <3>3. fate'[call[o].token] = {}
      BY <1>4, <3>1, <3>2
    <3>4. \A z \in Seats : seat'[z].token # call[o].token
      BY <3>1, <3>2
    <3>5. \A b \in Calls : Offers(b)' /\ call'[b].token = call[o].token => b = o
      BY <1>7, <3>1
    <3> QED BY <3>1, <3>3, <3>4, <3>5
  <2> QED BY <2>1
<1>9. \A z \in Seats : seat'[z].token # NoToken =>
        /\ fate'[seat'[z].token] = {}
        /\ \A y \in Seats : seat'[y].token = seat'[z].token => y = z
  <2>1. ASSUME NEW z \in Seats, seat'[z].token # NoToken
        PROVE  /\ fate'[seat'[z].token] = {}
               /\ \A y \in Seats : seat'[y].token = seat'[z].token => y = z
    <3>1. CASE z = s
      <4>1. seat'[z].token = k /\ fate'[k] = {}
        BY <1>2, <1>4, <3>1
      <4> QED BY <1>2, <3>1, <4>1
    <3>2. CASE z # s
      <4>1. seat'[z].token = seat[z].token /\ seat[z].token \in Tokens
        BY <1>1, <2>1, <3>2 DEF SeatTypes
      <4>2. /\ fate[seat[z].token] = {}
            /\ \A y \in Seats : seat[y].token = seat[z].token => y = z
        BY <1>1, <2>1, <4>1 DEF TokensPlaced
      <4>3. seat[z].token # old /\ seat[z].token # k
        BY <1>2, <3>2, <4>2
      <4>4. fate'[seat[z].token] = {}
        BY <1>4, <4>1, <4>2, <4>3
      <4> QED BY <4>1, <4>2, <4>3, <4>4
    <3> QED BY <3>1, <3>2
  <2> QED BY <2>1
<1> QED BY <1>5, <1>6, <1>8, <1>9 DEF TokensPlaced, Offers

\* Others that are about to write a seat are about to write another one.
LEMMA OtherSeats ==
  ASSUME TabsInv, NEW c \in Calls, At(c, "invite", "tab") \/ At(c, "join", "tab"),
         NEW o \in Calls, o # c, At(o, "invite", "tab") \/ At(o, "join", "tab")
  PROVE  call[o].seat # call[c].seat
BY DEF TabsInv, SeatsHeld

LEMMA InviteKeeps ==
  ASSUME TabsInv, NEW c \in Calls, Invite(c)
  PROVE  TabsInv'
<1> DEFINE s == call[c].seat
<1>1. CASE Rollback(c)
  BY <1>1, RollbackKeeps
<1>2. CASE /\ SourceMutable(SeatTab[s])
           /\ seat' = [seat EXCEPT ![s].status = "invited", ![s].token = call[c].token]
           /\ fate' = IF seat[s].token = NoToken THEN fate
                      ELSE [fate EXCEPT ![seat[s].token] = @ \cup {"replaced"}]
           /\ Finish(c, IF call[c].url = SeatTab[s] THEN "ok" ELSE "refused")
           /\ UNCHANGED <<role, draft, flow, payer, client, review>>
  <2>1. At(c, "invite", "tab")
    BY DEF Invite
  <2>2. CallTypes /\ SeatTypes /\ RowTypes /\ ClientTypes
    BY Types DEF TabsInv
  <2>3. s \in Seats /\ call[c].token \in Tokens
    BY <2>1, <2>2, Kinds DEF At, InviteRequest
  <2>4. seat[s].there /\ seat[s].user = NoUser
    BY <2>1 DEF TabsInv, SeatsHeld
  <2> DEFINE row == [seat[s] EXCEPT !.status = "invited", !.token = call[c].token]
  <2>5. seat' = [seat EXCEPT ![s] = row]
    BY <1>2
  <2>6. row \in [there : BOOLEAN, user : Users \cup {NoUser},
                 status : {"draft", "invited", "joined"}, token : Tokens \cup {NoToken}]
    <3>1. seat[s] \in [there : BOOLEAN, user : Users \cup {NoUser},
                       status : {"draft", "invited", "joined"},
                       token : Tokens \cup {NoToken}]
      BY <2>2, <2>3 DEF SeatTypes
    <3> HIDE DEF s
    <3> QED BY <2>3, <3>1
  <2>7. \A z \in Seats : seat'[z] = IF z = s THEN row ELSE seat[z]
    BY <2>2, <2>5 DEF SeatTypes
  <2>8. row.there = seat[s].there /\ row.user = NoUser /\ row.status = "invited"
        /\ row.token = call[c].token
    BY <2>2, <2>3, <2>4 DEF SeatTypes
  <2>9. SeatTypes'
    <3>1. seat' \in [Seats -> [there : BOOLEAN, user : Users \cup {NoUser},
                               status : {"draft", "invited", "joined"},
                               token : Tokens \cup {NoToken}]]
      BY <2>2, <2>5, <2>6 DEF SeatTypes
    <3> QED BY <2>2, <2>7, <2>8, <3>1 DEF SeatTypes
  <2>10. \A o \in Calls : call'[o] # NoCall => o # c /\ call'[o] = call[o]
    BY <1>2, FinishOnly DEF TabsInv
  <2>11. \A z \in Seats :
           /\ seat'[z].token = IF z = s THEN call[c].token ELSE seat[z].token
           /\ seat'[z].there = seat[z].there /\ seat'[z].user = seat[z].user
    BY <2>4, <2>7, <2>8
  <2> HIDE DEF s
  <2>12. /\ TokensPlaced' /\ FateSingle'
         /\ fate' \in [Tokens -> SUBSET (Users \cup {"replaced", "expired"})]
    <3>1. /\ seat[s].token = NoToken => fate' = fate
          /\ seat[s].token # NoToken =>
               fate' = [fate EXCEPT ![seat[s].token] = @ \cup {"replaced"}]
      BY <1>2
    <3>2. \A z \in Seats :
            seat'[z].token = IF z = s THEN call[c].token ELSE seat[z].token
      BY <2>11
    <3>3. s \in Seats
      BY <2>3
    <3> QED BY <2>1, <2>10, <3>1, <3>2, <3>3, InvitePlaced
  <2>13. Seated1' /\ Membership'
    BY <1>2, <2>11, WhoKept DEF TabsInv
  <2>14. SeatWritten(c, s)
    BY <1>2, <2>2, <2>7 DEF SeatWritten, client, ClientTypes
  <2>15. \A o \in Calls : o # c /\ (At(o, "invite", "tab") \/ At(o, "join", "tab")) =>
           call[o].seat # s
    BY <2>1, OtherSeats DEF s
  <2>16. /\ role' \in [Tabs -> [Users -> {"none", "owner", "member"}]]
         /\ Open(SeatTab[s])
    BY <1>2, <2>2 DEF RowTypes, SourceMutable
  <2> QED BY <2>3, <2>9, <2>12, <2>13, <2>14, <2>15, <2>16, WrittenKeeps
<1> QED BY <1>1, <1>2 DEF Invite

LEMMA HandoffKeeps ==
  ASSUME TabsInv, NEW u \in Users, NEW k \in Tokens, Handoff(u, k)
  PROVE  TabsInv'
<1>1. /\ jar' = [jar EXCEPT ![u] = k]
      /\ UNCHANGED <<rows, locks, device, lost, review, call, answer, fate>>
  BY DEF Handoff
<1>2. CallTypes /\ jar \in [Users -> Tokens \cup {NoToken}]
  BY Types DEF TabsInv, ClientTypes
<1>3. Only("add")
  BY <1>1, SameOnly
<1>4. TokensPlaced'
  BY <1>1, <1>3, PlacedKept, "add" # "invite" DEF TabsInv, rows
<1>5. DraftsKnown'
  BY <1>1, <1>3, KnownKept, "add" # "save" DEF TabsInv, rows
<1>6. ReviewGiven'
  BY <1>1, <1>3, GivenKept, "add" # "freeze" DEF TabsInv
<1>7. SeatsHeld'
  BY <1>1, HeldKept DEF TabsInv, rows, locks
<1>8. CallTypes' /\ jar' \in [Users -> Tokens \cup {NoToken}]
  BY <1>1, <1>2, CallsSame
<1> QED BY <1>1, <1>4, <1>5, <1>6, <1>7, <1>8, StillKeeps DEF StillRows

LEMMA SendJoinKeeps ==
  ASSUME TabsInv, NEW c \in Calls, NEW u \in Users, SendJoin(c, u)
  PROVE  TabsInv'
<1> DEFINE any == CHOOSE s \in Seats : TRUE
           request == [op |-> "join", step |-> "seat", user |-> u, token |-> jar[u],
                       seat |-> any]
<1>1. jar[u] # NoToken /\ Send(c, request)
  BY DEF SendJoin
<1>2. request \in Request
  <2>1. any \in Seats
    OBVIOUS
  <2>2. jar[u] \in Tokens
    BY <1>1, Types DEF TabsInv, ClientTypes
  <2> HIDE DEF any
  <2> QED BY <2>1, <2>2 DEF Request, JoinRequest
<1> HIDE DEF any
<1>3. Only("join") /\ UNCHANGED <<rows, client, review, fate>>
  <2>1. Only(request.op)
    BY <1>1, SendOnly DEF TabsInv
  <2> QED BY <1>1, <2>1 DEF Send
<1>4. TokensPlaced'
  BY <1>3, PlacedKept, "join" # "invite" DEF TabsInv, rows
<1>5. DraftsKnown'
  BY <1>3, KnownKept, "join" # "save" DEF TabsInv, rows, client
<1>6. ReviewGiven'
  BY <1>3, GivenKept, "join" # "freeze" DEF TabsInv, rows
<1>7. request.step # "tab"
  OBVIOUS
<1> QED BY <1>1, <1>2, <1>4, <1>5, <1>6, <1>7, SentKeeps

LEMMA ForgetTypes ==
  ASSUME TabsInv, NEW u \in Users, NEW k, Forget(u, k)
  PROVE  jar' \in [Users -> Tokens \cup {NoToken}]
<1>1. jar \in [Users -> Tokens \cup {NoToken}]
  BY Types DEF TabsInv, ClientTypes
<1> QED BY <1>1 DEF Forget

LEMMA JoinLockKeeps ==
  ASSUME TabsInv, NEW c \in Calls, JoinLock(c)
  PROVE  TabsInv'
<1> DEFINE u == call[c].user
           k == call[c].token
<1>1. call[c] \in JoinRequest /\ At(c, "join", "seat")
  BY Types, Kinds DEF TabsInv, JoinLock, At
<1>2. CASE /\ Finish(c, "refused") /\ Forget(u, k)
           /\ UNCHANGED <<rows, device, lost, review, fate>>
  <2>1. u \in Users
    BY <1>1 DEF JoinRequest
  <2> QED BY <1>2, <2>1, ForgetTypes, RefusedKeeps DEF StillRows
<1>3. ASSUME NEW s \in Seats, Claimable(s, k),
             seatLock' = [seatLock EXCEPT ![s] = c],
             call' = [call EXCEPT ![c].step = "tab", ![c].seat = s],
             UNCHANGED <<rows, client, tabLock, review, answer, fate>>
      PROVE  TabsInv'
  <2> DEFINE next == [call[c] EXCEPT !.step = "tab", !.seat = s]
  <2>1. /\ next \in JoinRequest /\ next.op = call[c].op
        /\ next.token = call[c].token /\ next.step = "tab" /\ next.seat = s
        /\ call[c].op = "join"
    BY <1>1 DEF JoinRequest
  <2>2. call' = [call EXCEPT ![c] = next] /\ next \in Request
    BY <1>3, <2>1 DEF Request
  <2>3. seat[s].there /\ seat[s].token = call[c].token /\ seatLock[s] = NoCall
    BY <1>3 DEF Claimable
  <2> QED BY <1>1, <1>3, <2>1, <2>2, <2>3, LockKeeps
<1> QED BY <1>2, <1>3 DEF JoinLock

LEMMA JoinKeeps ==
  ASSUME TabsInv, NEW c \in Calls, Join(c)
  PROVE  TabsInv'
<1> DEFINE s == call[c].seat
           t == SeatTab[s]
           u == call[c].user
           row == Seated(seat[s], u)
<1>1. CASE Rollback(c)
  BY <1>1, RollbackKeeps
<1>2. CASE /\ SourceMutable(t) /\ IndexAllows(t, u)
           /\ seat' = [seat EXCEPT ![s] = Seated(@, u)]
           /\ role' = [role EXCEPT ![t][u] = RoleOnceSeated(@)]
           /\ fate' = [fate EXCEPT ![call[c].token] = @ \cup {u}]
           /\ Finish(c, "ok")
           /\ \/ Forget(u, call[c].token) /\ UNCHANGED lost
              \/ lost < MaxLost /\ lost' = lost + 1 /\ UNCHANGED jar
           /\ UNCHANGED <<draft, flow, payer, device, review>>
  <2>1. At(c, "join", "tab")
    BY DEF Join
  <2>2. /\ CallTypes /\ SeatTypes /\ RowTypes /\ ClientTypes
    BY Types DEF TabsInv
  <2>3. /\ s \in Seats /\ t \in Tabs /\ u \in Users /\ call[c].token \in Tokens
    BY <2>1, <2>2, Kinds DEF At, JoinRequest
  <2>4. seat[s].there /\ seat[s].token = call[c].token
    BY <2>1 DEF TabsInv, SeatsHeld
  <2> HIDE DEF s, u
  <2>5. /\ seat[s] \in [there : BOOLEAN, user : Users \cup {NoUser},
                        status : {"draft", "invited", "joined"},
                        token : Tokens \cup {NoToken}]
    BY <2>2, <2>3 DEF SeatTypes
  <2>6. /\ row \in [there : BOOLEAN, user : Users \cup {NoUser},
                    status : {"draft", "invited", "joined"},
                    token : Tokens \cup {NoToken}]
        /\ row.there /\ row.user = u /\ row.status = "joined" /\ row.token = NoToken
    BY <2>3, <2>4, <2>5 DEF Seated
  <2>7. seat' = [seat EXCEPT ![s] = row]
    BY <1>2
  <2> HIDE DEF row
  <2>8. \A z \in Seats : seat'[z] = IF z = s THEN row ELSE seat[z]
    BY <2>2, <2>7 DEF SeatTypes
  <2>9. SeatTypes'
    <3>1. seat' \in [Seats -> [there : BOOLEAN, user : Users \cup {NoUser},
                               status : {"draft", "invited", "joined"},
                               token : Tokens \cup {NoToken}]]
      BY <2>2, <2>6, <2>7 DEF SeatTypes
    <3> QED BY <2>2, <2>3, <2>6, <2>8, <3>1 DEF SeatTypes
  <2>10. Only("add")
    BY <1>2, FinishOnly DEF TabsInv
  <2>11. /\ TokensPlaced' /\ FateSingle'
         /\ fate' \in [Tokens -> SUBSET (Users \cup {"replaced", "expired"})]
    <3>1. seat[s].token # NoToken
      BY <2>3, <2>4
    <3>2. \A z \in Seats : seat'[z].token = IF z = s THEN NoToken ELSE seat[z].token
      BY <2>6, <2>8
    <3>3. fate' = [fate EXCEPT ![seat[s].token] = @ \cup {u}]
      BY <1>2, <2>4
    <3>4. u \in Users \cup {"replaced", "expired"} /\ s \in Seats
      BY <2>3
    <3> QED BY <2>10, <3>1, <3>2, <3>3, <3>4, Retired
  <2>12. \A w \in Tabs, x \in Users :
           role'[w][x] = IF w = t /\ x = u THEN RoleOnceSeated(role[w][x]) ELSE role[w][x]
    BY <1>2, <2>2, <2>3 DEF RowTypes
  <2>13. role' \in [Tabs -> [Users -> {"none", "owner", "member"}]]
    BY <1>2, <2>2, <2>3 DEF RowTypes, RoleOnceSeated
  <2>14. ~\E z \in SeatsOf(t) : seat[z].user = u
    BY <1>2 DEF IndexAllows, SeatTaken
  <2>15. Seated1'
    <3>1. \A z \in Seats : z # s /\ SeatTab[z] = SeatTab[s] /\ seat[z].there =>
            seat[z].user # u
      BY <2>14 DEF SeatsOf
    <3>2. ASSUME NEW y \in Seats, NEW z \in Seats,
                 SeatTab[y] = SeatTab[z], seat'[y].there, seat'[z].there,
                 seat'[y].user = seat'[z].user, seat'[y].user # NoUser
          PROVE  y = z
      <4>1. CASE y # s /\ z # s
        BY <2>8, <3>2, <4>1 DEF TabsInv, Seated1
      <4>2. CASE y = s /\ z # s
        BY <2>6, <2>8, <3>1, <3>2, <4>2
      <4>3. CASE y # s /\ z = s
        BY <2>6, <2>8, <3>1, <3>2, <4>3
      <4> QED BY <4>1, <4>2, <4>3
    <3> QED BY <3>2 DEF Seated1
  <2>16. Membership'
    <3>1. ASSUME NEW w \in Tabs, NEW x \in Users, MayEdit(x, w)
          PROVE  MayEdit(x, w)'
      BY <2>12, <3>1 DEF MayEdit, RoleOnceSeated
    <3>2. role'[t][u] \in {"owner", "member"}
      BY <2>3, <2>12 DEF RoleOnceSeated
    <3>3. \A w \in Tabs : role'[w][OwnerOf[w]] = "owner"
      BY <2>12 DEF TabsInv, Membership, RoleOnceSeated
    <3>4. ASSUME NEW z \in Seats, seat'[z].there, seat'[z].user # NoUser
          PROVE  MayEdit(seat[z].user, SeatTab[z])'
      <4>1. CASE z = s
        <5>1. seat'[z].user = u
          BY <2>6, <2>8, <4>1
        <5>2. role'[SeatTab[z]][seat'[z].user] \in {"owner", "member"}
          BY <3>2, <4>1, <5>1
        <5> QED BY <5>2 DEF MayEdit
      <4>2. CASE z # s
        <5>1. seat'[z] = seat[z] /\ seat[z].there /\ seat[z].user # NoUser
          BY <2>8, <3>4, <4>2
        <5>2. seat[z].user \in Users
          BY <2>2, <5>1 DEF SeatTypes
        <5>3. MayEdit(seat[z].user, SeatTab[z])
          BY <5>1 DEF TabsInv, Membership
        <5> QED BY <3>1, <5>1, <5>2, <5>3 DEF MayEdit
      <4> QED BY <4>1, <4>2
    <3> QED BY <3>3, <3>4 DEF Membership
  <2>17. SeatWritten(c, s)
    <3>1. jar' \in [Users -> Tokens \cup {NoToken}] /\ lost' \in 0..MaxLost
      <4>1. CASE Forget(u, call[c].token) /\ UNCHANGED lost
        BY <2>2, <2>3, <4>1, ForgetTypes DEF ClientTypes
      <4>2. CASE lost < MaxLost /\ lost' = lost + 1 /\ UNCHANGED jar
        BY <2>2, <4>2 DEF ClientTypes
      <4> QED BY <1>2, <4>1, <4>2
    <3> QED BY <1>2, <2>8, <3>1 DEF SeatWritten
  <2>18. \A o \in Calls : o # c /\ (At(o, "invite", "tab") \/ At(o, "join", "tab")) =>
           call[o].seat # s
    BY <2>1, OtherSeats DEF s
  <2>19. Open(SeatTab[s])
    BY <1>2 DEF SourceMutable
  <2> QED BY <2>3, <2>9, <2>11, <2>13, <2>15, <2>16, <2>17, <2>18, <2>19, WrittenKeeps
<1> QED BY <1>1, <1>2 DEF Join

(***************************************************************************)
(* Payer, review and freeze.                                               *)
(***************************************************************************)
\* What is shared by the steps below: seats, tokens and drafts stay.
LEMMA OtherKeeps ==
  ASSUME TabsInv, CallTypes', RowTypes', review' \in [Runs -> Bound],
         Only("freeze"), SeatsHeld', FrozenSource', ReviewsWhole', ReviewGiven',
         UNCHANGED <<role, seat, draft, client, fate>>
  PROVE  TabsInv'
<1>1. /\ SeatTypes /\ ClientTypes
      /\ fate \in [Tokens -> SUBSET (Users \cup {"replaced", "expired"})]
  BY Types DEF TabsInv
<1>2. TabTypeOK'
  <2>1. SeatTypes' /\ ClientTypes'
    BY <1>1, SeatsSame, ClientSame
  <2> QED BY <1>1, <2>1, TypesNext
<1>3. TokensPlaced'
  BY PlacedKept, "freeze" # "invite" DEF TabsInv
<1>4. DraftsKnown'
  BY KnownKept, "freeze" # "save" DEF TabsInv, client
<1>5. Seated1' /\ Membership'
  BY WhoKept DEF TabsInv
<1>6. FateSingle'
  BY DEF TabsInv, FateSingle
<1> QED BY <1>2, <1>3, <1>4, <1>5, <1>6 DEF TabsInv

LEMMA SendChooseKeeps ==
  ASSUME TabsInv, NEW c \in Calls, NEW u \in Users, NEW s \in Seats, SendChoose(c, u, s)
  PROVE  TabsInv'
<1> DEFINE request == [op |-> "choose", step |-> "tab", user |-> u, seat |-> s]
<1>1. Send(c, request)
  BY DEF SendChoose
<1>2. request \in Request
  BY DEF Request, ChooseRequest
<1>3. Only("choose") /\ UNCHANGED <<rows, client, review, fate>>
  <2>1. Only(request.op)
    BY <1>1, SendOnly DEF TabsInv
  <2> QED BY <1>1, <2>1 DEF Send
<1>4. TokensPlaced'
  BY <1>3, PlacedKept, "choose" # "invite" DEF TabsInv, rows
<1>5. DraftsKnown'
  BY <1>3, KnownKept, "choose" # "save" DEF TabsInv, rows, client
<1>6. ReviewGiven'
  BY <1>3, GivenKept, "choose" # "freeze" DEF TabsInv, rows
<1> QED BY <1>1, <1>2, <1>4, <1>5, <1>6, SentKeeps

LEMMA ChoosePayerLockKeeps ==
  ASSUME TabsInv, NEW c \in Calls, ChoosePayerLock(c)
  PROVE  TabsInv'
<1> DEFINE t == SeatTab[call[c].seat]
<1>1. call[c] \in ChooseRequest /\ call[c] # NoCall /\ call[c].op = "choose"
  BY Types, Kinds DEF ChoosePayerLock, At, TabsInv
<1>2. CASE Rollback(c)
  BY <1>2, RollbackKeeps
<1>3. CASE Finish(c, "ok") /\ UNCHANGED <<rows, client, review, fate>>
  <2>1. jar \in [Users -> Tokens \cup {NoToken}]
    BY Types DEF TabsInv, ClientTypes
  <2> QED BY <1>3, <2>1, RefusedKeeps DEF StillRows, client
<1>4. CASE /\ tabLock' = [tabLock EXCEPT ![t] = c]
           /\ call' = [call EXCEPT ![c].step = "payer"]
           /\ UNCHANGED <<rows, client, seatLock, review, answer, fate>>
  <2>1. t \in Tabs /\ [call[c] EXCEPT !.step = "payer"] \in Request
    BY <1>1 DEF ChooseRequest, Request
  <2> QED BY <1>1, <1>4, <2>1, TabLockKeeps
<1> QED BY <1>2, <1>3, <1>4 DEF ChoosePayerLock

LEMMA ChoosePayerKeeps ==
  ASSUME TabsInv, TabsHeld, NEW c \in Calls, ChoosePayer(c)
  PROVE  TabsInv'
<1> DEFINE s == call[c].seat
           t == SeatTab[s]
<1>1. /\ At(c, "choose", "payer") /\ payer' = [payer EXCEPT ![t] = {s}]
      /\ Finish(c, "ok") /\ UNCHANGED <<role, seat, draft, flow, client, review, fate>>
  BY DEF ChoosePayer
<1>2. CallTypes /\ RowTypes /\ review \in [Runs -> Bound]
  BY Types DEF TabsInv
<1>3. s \in Seats /\ t \in Tabs /\ Open(t)
  <2>1. s \in Seats
    BY <1>1, <1>2, Kinds DEF At, ChooseRequest
  <2> QED BY <1>1, <2>1 DEF TabsHeld, HoldsTab
<1> HIDE DEF s, t
<1>4. CallTypes' /\ RowTypes' /\ review' \in [Runs -> Bound]
  <2>1. CallTypes'
    BY <1>1, <1>2, FinishTypes
  <2>2. RowTypes'
    BY <1>1, <1>2, <1>3 DEF RowTypes
  <2> QED BY <1>1, <1>2, <2>1, <2>2
<1>5. Only("freeze") /\ Only("add")
  BY <1>1, FinishOnly DEF TabsInv
<1>6. SeatsHeld'
  BY <1>1, FinishHeld
<1>7. FrozenSource'
  <2>1. ASSUME NEW u \in Tabs, ~Open(u)'
        PROVE  /\ flow'[u].doc = draft'[u].doc
               /\ flow'[u].seats = Executable(u)'
               /\ payer'[u] = {DocPayer[flow'[u].doc]}
    <3>1. ~Open(u) /\ u # t
      BY <1>1, <1>3, <2>1 DEF Open
    <3>2. payer'[u] = payer[u]
      BY <1>1, <1>2, <3>1 DEF RowTypes
    <3> QED BY <1>1, <3>1, <3>2 DEF TabsInv, FrozenSource, Executable, SeatsOf
  <2> QED BY <2>1 DEF FrozenSource
<1>8. ReviewGiven' /\ ReviewsWhole'
  BY <1>1, <1>5, GivenKept, "add" # "freeze" DEF TabsInv, ReviewsWhole
<1> QED BY <1>1, <1>4, <1>5, <1>6, <1>7, <1>8, OtherKeeps

LEMMA ReviewKeeps ==
  ASSUME TabsInv, NEW r \in Runs, NEW doc \in Docs, Review(r, doc)
  PROVE  TabsInv'
<1> DEFINE t == DeviceTab[RunDevice[r]]
           rev == [doc |-> doc, seats |-> Executable(t)]
<1>1. /\ review' = [review EXCEPT ![r] = rev]
      /\ UNCHANGED <<rows, locks, client, call, answer, fate>>
  BY DEF Review
<1>2. CallTypes /\ RowTypes /\ review \in [Runs -> Bound]
  BY Types DEF TabsInv
<1>3. rev \in Bound /\ rev.doc \in Docs
  BY DEF Bound, Executable, SeatsOf
<1> HIDE DEF rev
<1>4. \A x \in Runs : review'[x] = IF x = r THEN rev ELSE review[x]
  BY <1>1, <1>2
<1>5. CallTypes' /\ RowTypes' /\ review' \in [Runs -> Bound]
  <2>1. CallTypes' /\ RowTypes'
    BY <1>1, <1>2, CallsSame, RowsSame DEF rows
  <2> QED BY <1>1, <1>2, <1>3, <2>1
<1>6. Only("freeze")
  BY <1>1, SameOnly
<1>7. SeatsHeld'
  BY <1>1, HeldKept DEF TabsInv, locks, rows
<1>8. FrozenSource'
  BY <1>1, FrozenKept DEF TabsInv, rows
<1>9. ReviewsWhole'
  BY <1>3, <1>4 DEF TabsInv, ReviewsWhole, Unfrozen
<1>10. ReviewGiven'
  <2>1. ASSUME NEW c \in Calls, Freezes(c)
        PROVE  review'[call[c].run].doc \in Docs
    <3>1. call[c].run \in Runs
      BY <1>2, <2>1, Kinds DEF Freezes, FreezeRequest
    <3>2. review[call[c].run].doc \in Docs
      BY <2>1 DEF TabsInv, ReviewGiven
    <3> QED BY <1>3, <1>4, <3>1, <3>2
  <2> QED BY <1>1, <2>1 DEF ReviewGiven, Freezes
<1> QED BY <1>1, <1>5, <1>6, <1>7, <1>8, <1>9, <1>10, OtherKeeps DEF rows

LEMMA SendFreezeKeeps ==
  ASSUME TabsInv, NEW c \in Calls, NEW r \in Runs, SendFreeze(c, r)
  PROVE  TabsInv'
<1> DEFINE request == [op |-> "freeze", step |-> "tab", run |-> r,
                       tab |-> DeviceTab[RunDevice[r]],
                       user |-> DeviceUser[RunDevice[r]]]
<1>1. Send(c, request) /\ review[r] # Unfrozen
  BY DEF SendFreeze
<1>2. request \in Request
  BY DEF Request, FreezeRequest
<1>3. /\ Only("freeze") /\ UNCHANGED <<rows, client, review, fate>>
      /\ call'[c] = request
      /\ \A o \in Calls : o # c => call'[o] = call[o]
  <2>1. Only(request.op)
    BY <1>1, SendOnly DEF TabsInv
  <2> QED BY <1>1, <2>1, SendOnly DEF Send, TabsInv
<1>4. TokensPlaced'
  BY <1>3, PlacedKept, "freeze" # "invite" DEF TabsInv, rows
<1>5. DraftsKnown'
  BY <1>3, KnownKept, "freeze" # "save" DEF TabsInv, rows, client
<1>6. ReviewGiven'
  <2>1. review[r].doc \in Docs
    BY <1>1 DEF TabsInv, ReviewsWhole
  <2>2. ASSUME NEW o \in Calls, Freezes(o)'
        PROVE  review'[call'[o].run].doc \in Docs
    <3>1. CASE o = c
      BY <1>3, <2>1, <3>1
    <3>2. CASE o # c
      BY <1>3, <2>2, <3>2 DEF TabsInv, ReviewGiven, Freezes
    <3> QED BY <3>1, <3>2
  <2> QED BY <2>2 DEF ReviewGiven
<1> QED BY <1>1, <1>2, <1>4, <1>5, <1>6, SentKeeps

LEMMA FreezeLockKeeps ==
  ASSUME TabsInv, NEW c \in Calls, FreezeLock(c)
  PROVE  TabsInv'
<1>1. CASE Rollback(c)
  BY <1>1, RollbackKeeps
<1>2. CASE /\ tabLock' = [tabLock EXCEPT ![call[c].tab] = c]
           /\ call' = [call EXCEPT ![c].step = "seats"]
           /\ UNCHANGED <<rows, client, seatLock, review, answer, fate>>
  <2>1. CallTypes /\ RowTypes /\ review \in [Runs -> Bound]
    BY Types DEF TabsInv
  <2>2. call[c] \in FreezeRequest
    BY <2>1, Kinds DEF FreezeLock, At
  <2> DEFINE next == [call[c] EXCEPT !.step = "seats"]
  <2>3. /\ next \in FreezeRequest /\ next.op = call[c].op /\ next.run = call[c].run
        /\ next.step = "seats" /\ call[c].op = "freeze"
    BY <2>2 DEF FreezeRequest
  <2>4. call' = [call EXCEPT ![c] = next] /\ next \in Request
    BY <1>2, <2>3 DEF Request
  <2> HIDE DEF next
  <2>5. \A o \in Calls : call'[o] = IF o = c THEN next ELSE call[o]
    BY <2>1, <2>4 DEF CallTypes
  <2>6. CallTypes'
    BY <1>2, <2>1, <2>4 DEF CallTypes
  <2>7. Only("freeze") /\ Only("add")
    <3>1. call[c] # NoCall
      BY DEF FreezeLock, At
    <3> QED BY <2>3, <2>5, <3>1 DEF Only, Carried
  <2>8. SeatsHeld'
    <3>1. ASSUME NEW o \in Calls, At(o, "invite", "tab")' \/ At(o, "join", "tab")'
          PROVE  call'[o] = call[o]
      BY <2>3, <2>5, <3>1 DEF At
    <3> QED BY <1>2, <3>1, HeldKept DEF TabsInv, rows
  <2>9. FrozenSource' /\ RowTypes'
    BY <1>2, <2>1, FrozenKept, RowsSame DEF TabsInv, rows
  <2>10. ReviewsWhole' /\ ReviewGiven'
    BY <1>2, <2>7, GivenKept, "add" # "freeze" DEF TabsInv, ReviewsWhole
  <2> QED BY <1>2, <2>1, <2>6, <2>7, <2>8, <2>9, <2>10, OtherKeeps DEF rows
<1> QED BY <1>1, <1>2 DEF FreezeLock

LEMMA FreezeKeeps ==
  ASSUME TabsInv, NEW c \in Calls, Freeze(c)
  PROVE  TabsInv'
<1> DEFINE t == call[c].tab
           rev == review[call[c].run]
<1>1. CASE Rollback(c)
  BY <1>1, RollbackKeeps
<1>2. CASE /\ FreezeMatches(t, rev)
           /\ flow' = [flow EXCEPT ![t] = rev]
           /\ payer' = [payer EXCEPT ![t] = {DocPayer[rev.doc]}]
           /\ Finish(c, "ok")
           /\ UNCHANGED <<role, seat, draft, client, review, fate>>
  <2>1. CallTypes /\ RowTypes /\ review \in [Runs -> Bound]
    BY Types DEF TabsInv
  <2>2. call[c] # NoCall /\ call[c].op = "freeze"
    BY DEF Freeze, At
  <2>3. t \in Tabs /\ call[c].run \in Runs
    BY <2>1, <2>2, Kinds DEF FreezeRequest
  <2>4. rev \in Bound /\ rev.doc \in Docs
    BY <2>1, <2>2, <2>3 DEF TabsInv, ReviewGiven, Freezes
  <2> HIDE DEF t, rev
  <2>5. /\ \A u \in Tabs : flow'[u] = IF u = t THEN rev ELSE flow[u]
        /\ \A u \in Tabs : payer'[u] = IF u = t THEN {DocPayer[rev.doc]} ELSE payer[u]
    BY <1>2, <2>1, <2>3 DEF RowTypes
  <2>6. CallTypes' /\ RowTypes'
    <3>1. CallTypes'
      BY <1>2, <2>1, FinishTypes
    <3>2. {DocPayer[rev.doc]} \in SUBSET Seats
      BY <2>4
    <3>3. payer' \in [Tabs -> SUBSET Seats]
      BY <1>2, <2>1, <3>2 DEF RowTypes
    <3> QED BY <1>2, <2>1, <2>4, <3>1, <3>3 DEF RowTypes
  <2>7. Only("freeze") /\ Only("add")
    BY <1>2, FinishOnly DEF TabsInv
  <2>8. SeatsHeld'
    BY <1>2, FinishHeld
  <2>9. FrozenSource'
    <3>1. \A u \in Tabs : Executable(u)' = Executable(u) /\ draft'[u] = draft[u]
      BY <1>2 DEF Executable, SeatsOf
    <3>2. rev.doc = draft[t].doc /\ rev.seats = Executable(t)
      BY <1>2 DEF FreezeMatches
    <3>3. ASSUME NEW u \in Tabs, ~Open(u)'
          PROVE  /\ flow'[u].doc = draft'[u].doc
                 /\ flow'[u].seats = Executable(u)'
                 /\ payer'[u] = {DocPayer[flow'[u].doc]}
      <4>1. CASE u = t
        BY <2>3, <2>5, <3>1, <3>2, <4>1
      <4>2. CASE u # t
        BY <2>5, <3>1, <3>3, <4>2 DEF TabsInv, FrozenSource, Open
      <4> QED BY <4>1, <4>2
    <3> QED BY <3>3 DEF FrozenSource
  <2>10. ReviewsWhole' /\ ReviewGiven'
    BY <1>2, <2>7, GivenKept, "add" # "freeze" DEF TabsInv, ReviewsWhole
  <2> QED BY <1>2, <2>1, <2>6, <2>7, <2>8, <2>9, <2>10, OtherKeeps
<1> QED BY <1>1, <1>2 DEF Freeze

(***************************************************************************)
(* The invariant.                                                          *)
(***************************************************************************)
LEMMA StutterKeeps ==
  ASSUME TabsInv, UNCHANGED vars
  PROVE  TabsInv'
<1> USE DEF vars, rows, locks, client
<1>1. CallTypes /\ RowTypes /\ review \in [Runs -> Bound]
  BY Types DEF TabsInv
<1>2. CallTypes' /\ RowTypes'
  BY <1>1, CallsSame, RowsSame
<1>3. Only("freeze") /\ Only("add")
  BY SameOnly
<1>4. SeatsHeld' /\ FrozenSource'
  BY HeldKept, FrozenKept DEF TabsInv
<1>5. ReviewsWhole' /\ ReviewGiven'
  BY <1>3, GivenKept, "add" # "freeze" DEF TabsInv, ReviewsWhole
<1> QED BY <1>1, <1>2, <1>3, <1>4, <1>5, OtherKeeps

LEMMA TabsInvNext ==
  ASSUME TabsInv, TabsHeld, [Next]_vars
  PROVE  TabsInv'
<1>1. ASSUME NEW c \in Calls, Requests(c)
      PROVE  TabsInv'
  BY <1>1, SendSaveKeeps, SendAddKeeps, SendInviteKeeps, SendJoinKeeps, SendChooseKeeps,
     SendFreezeKeeps DEF Requests
<1>2. ASSUME NEW c \in Calls, Progress(c)
      PROVE  TabsInv'
  <2>1. CASE SaveLock(c) \/ Save(c) \/ Add(c)
    BY <2>1, SaveLockKeeps, SaveKeeps, AddKeeps
  <2>2. CASE InviteLock(c) \/ Invite(c)
    BY <2>2, InviteLockKeeps, InviteKeeps
  <2>3. CASE JoinLock(c) \/ Join(c)
    BY <2>3, JoinLockKeeps, JoinKeeps
  <2>4. CASE ChoosePayerLock(c) \/ ChoosePayer(c)
    BY <2>4, ChoosePayerLockKeeps, ChoosePayerKeeps
  <2>5. CASE FreezeLock(c) \/ Freeze(c)
    BY <2>5, FreezeLockKeeps, FreezeKeeps
  <2>6. CASE AbortOne(c)
    BY <2>6, RollbackKeeps DEF AbortOne
  <2> QED BY <1>2, <2>1, <2>2, <2>3, <2>4, <2>5, <2>6 DEF Progress
<1>3. ASSUME NEW d \in Devices, LoadDraft(d)
      PROVE  TabsInv'
  BY <1>3, LoadDraftKeeps
<1>4. ASSUME NEW u \in Users, NEW k \in Tokens, Handoff(u, k)
      PROVE  TabsInv'
  BY <1>4, HandoffKeeps
<1>5. ASSUME NEW r \in Runs, NEW doc \in Docs, Review(r, doc)
      PROVE  TabsInv'
  BY <1>5, ReviewKeeps
<1>6. ASSUME NEW s \in Seats, Expire(s)
      PROVE  TabsInv'
  BY <1>6, ExpireKeeps
<1>7. CASE UNCHANGED vars
  BY <1>7, StutterKeeps
<1> QED BY <1>1, <1>2, <1>3, <1>4, <1>5, <1>6, <1>7 DEF Next

(***************************************************************************)
(* What the lock of a tab keeps.                                           *)
(***************************************************************************)
\* A request that has a tab's lock and waits for a seat's.
Waits(o) ==
  At(o, "save", "payer") \/ At(o, "choose", "payer") \/ At(o, "freeze", "seats")

\* A request that waits keeps its lock, and the tab it has locked its rows.
LEMMA HoldsTabKept ==
  ASSUME TabTypeOK, NEW o \in Calls, HoldsTab(o),
         Waits(o)' =>
           /\ call'[o] = call[o]
           /\ \A t \in Tabs : tabLock[t] = o =>
                tabLock'[t] = o /\ draft'[t] = draft[t] /\ flow'[t] = flow[t]
  PROVE  HoldsTab(o)'
<1>1. CASE ~Waits(o)'
  BY <1>1 DEF HoldsTab, Waits
<1>2. CASE Waits(o)'
  <2>1. /\ call'[o] = call[o] /\ call[o] # NoCall
        /\ \A t \in Tabs : tabLock[t] = o =>
             tabLock'[t] = o /\ draft'[t] = draft[t] /\ flow'[t] = flow[t]
    BY <1>2 DEF Waits, At
  <2>2. /\ At(o, "save", "payer")' <=> At(o, "save", "payer")
        /\ At(o, "choose", "payer")' <=> At(o, "choose", "payer")
        /\ At(o, "freeze", "seats")' <=> At(o, "freeze", "seats")
    BY <2>1 DEF At
  <2>3. /\ At(o, "save", "payer") => DeviceTab[call[o].device] \in Tabs
        /\ At(o, "choose", "payer") => SeatTab[call[o].seat] \in Tabs
        /\ At(o, "freeze", "seats") => call[o].tab \in Tabs
    BY <2>1, Types, Kinds DEF At, SaveRequest, ChooseRequest, FreezeRequest
  <2> QED BY <2>1, <2>2, <2>3 DEF HoldsTab, Open
<1> QED BY <1>1, <1>2

\* A step in which nobody takes or gives up a tab's lock.
LEMMA TabsHeldSame ==
  ASSUME TabTypeOK, TabsHeld, tabLock' = tabLock, draft' = draft, flow' = flow,
         \A o \in Calls : Waits(o)' => call'[o] = call[o]
  PROVE  TabsHeld'
BY HoldsTabKept DEF TabsHeld

\* A request that ends gives up its own locks, and has written to its tab at most.
LEMMA TabsHeldFinish ==
  ASSUME TabTypeOK, TabsHeld, NEW c \in Calls, NEW r, Finish(c, r),
         \A t \in Tabs : tabLock[t] # c => draft'[t] = draft[t] /\ flow'[t] = flow[t]
  PROVE  TabsHeld'
<1>1. ASSUME NEW o \in Calls, Waits(o)'
      PROVE  /\ call'[o] = call[o]
             /\ \A t \in Tabs : tabLock[t] = o =>
                  tabLock'[t] = o /\ draft'[t] = draft[t] /\ flow'[t] = flow[t]
  <2>1. o # c /\ call'[o] = call[o]
    BY <1>1, FinishOnly DEF Waits, At
  <2>2. \A t \in Tabs : tabLock'[t] = IF tabLock[t] = c THEN NoCall ELSE tabLock[t]
    BY DEF Finish
  <2> QED BY <2>1, <2>2
<1> QED BY <1>1, HoldsTabKept DEF TabsHeld

\* A request that takes the free lock of a tab and has read what it waits with.
LEMMA TabsHeldLock ==
  ASSUME TabTypeOK, TabsHeld, NEW c \in Calls, call[c] # NoCall,
         NEW t \in Tabs, tabLock[t] = NoCall,
         tabLock' = [tabLock EXCEPT ![t] = c], draft' = draft, flow' = flow,
         NEW step, call' = [call EXCEPT ![c].step = step],
         \/ /\ call[c].op = "save" /\ DeviceTab[call[c].device] = t
            /\ Open(t) /\ draft[t].revision = call[c].base.revision
         \/ call[c].op = "choose" /\ SeatTab[call[c].seat] = t /\ Open(t)
         \/ call[c].op = "freeze" /\ call[c].tab = t
  PROVE  TabsHeld'
<1> DEFINE next == [call[c] EXCEPT !.step = step]
<1>1. CallTypes
  BY Types
<1>2. \A u \in Tabs : tabLock'[u] = IF u = t THEN c ELSE tabLock[u]
  BY <1>1 DEF CallTypes
<1>3. \A o \in Calls : call'[o] = IF o = c THEN next ELSE call[o]
  BY <1>1 DEF CallTypes
<1>4. /\ next.op = call[c].op
      /\ call[c].op = "save" => next.device = call[c].device /\ next.base = call[c].base
      /\ call[c].op = "choose" => next.seat = call[c].seat
      /\ call[c].op = "freeze" => next.tab = call[c].tab
  <2>1. call[c] \in SaveRequest \/ call[c] \in ChooseRequest \/ call[c] \in FreezeRequest
    BY <1>1, Kinds
  <2> QED BY <2>1 DEF SaveRequest, ChooseRequest, FreezeRequest
<1> HIDE DEF next
<1>5. ASSUME NEW o \in Calls, o # c
      PROVE  HoldsTab(o)'
  <2>1. call'[o] = call[o] /\ \A u \in Tabs : tabLock[u] = o => tabLock'[u] = o
    BY <1>2, <1>3, <1>5
  <2> QED BY <2>1, HoldsTabKept DEF TabsHeld
<1>6. HoldsTab(c)'
  <2>1. call'[c] = next /\ tabLock'[t] = c
    BY <1>2, <1>3
  <2>2. At(c, "save", "payer")' =>
          call[c].op = "save" /\ DeviceTab[call'[c].device] = t
            /\ call'[c].base = call[c].base
    BY <1>4, <2>1 DEF At
  <2>3. At(c, "choose", "payer")' => call[c].op = "choose" /\ SeatTab[call'[c].seat] = t
    BY <1>4, <2>1 DEF At
  <2>4. At(c, "freeze", "seats")' => call'[c].tab = t
    BY <1>4, <2>1 DEF At
  <2> QED BY <2>1, <2>2, <2>3, <2>4 DEF HoldsTab, Open
<1> QED BY <1>5, <1>6 DEF TabsHeld

LEMMA TabsHeldSent ==
  ASSUME TabTypeOK, TabsHeld, NEW c \in Calls, Requests(c)
  PROVE  TabsHeld'
<1>1. /\ UNCHANGED <<rows, locks>>
      /\ \E request : /\ call' = [call EXCEPT ![c] = request]
                      /\ request.step \in {"tab", "seat"}
  <2>1. \E request : Send(c, request) /\ request.step \in {"tab", "seat"}
    <3>1. CASE \E d \in Devices, doc \in Docs : SendSave(c, d, doc)
      BY <3>1 DEF SendSave
    <3>2. CASE \E u \in Users, s \in Seats, self \in BOOLEAN : SendAdd(c, u, s, self)
      BY <3>2 DEF SendAdd
    <3>3. CASE \E u \in Users, s \in Seats, k \in Tokens, url \in Tabs :
                 SendInvite(c, u, s, k, url)
      BY <3>3 DEF SendInvite
    <3>4. CASE \E u \in Users : SendJoin(c, u)
      BY <3>4 DEF SendJoin
    <3>5. CASE \E u \in Users, s \in Seats : SendChoose(c, u, s)
      BY <3>5 DEF SendChoose
    <3>6. CASE \E r \in Runs : SendFreeze(c, r)
      BY <3>6 DEF SendFreeze
    <3> QED BY <3>1, <3>2, <3>3, <3>4, <3>5, <3>6 DEF Requests
  <2> QED BY <2>1 DEF Send
<1>2. \A o \in Calls : Waits(o)' => call'[o] = call[o]
  BY <1>1, Types DEF Waits, At, CallTypes
<1> QED BY <1>1, <1>2, TabsHeldSame DEF rows, locks

LEMMA TabsHeldNext ==
  ASSUME TabsInv, TabsHeld, [Next]_vars
  PROVE  TabsHeld'
<1> USE DEF TabsInv
<1>1. ASSUME NEW c \in Calls, Rollback(c)
      PROVE  TabsHeld'
  BY <1>1, TabsHeldFinish DEF Rollback, rows
<1>2. ASSUME NEW c \in Calls, NEW r, Finish(c, r), draft' = draft, flow' = flow
      PROVE  TabsHeld'
  BY <1>2, TabsHeldFinish
<1>3. CallTypes /\ RowTypes
  BY Types
<1>4. ASSUME NEW c \in Calls, SaveLock(c)
      PROVE  TabsHeld'
  <2> DEFINE t == DeviceTab[call[c].device]
  <2>1. CASE /\ SaveAllowed(call[c].device, call[c].doc) /\ RevisionAgrees(t, call[c].base)
             /\ tabLock' = [tabLock EXCEPT ![t] = c]
             /\ call' = [call EXCEPT ![c].step = "payer"]
             /\ UNCHANGED <<rows, client, seatLock, review, answer, fate>>
    <3>1. call[c] # NoCall /\ call[c].op = "save" /\ tabLock[t] = NoCall
      BY <1>4 DEF SaveLock, At
    <3>2. t \in Tabs
      BY <1>3, <3>1, Kinds DEF SaveRequest
    <3>3. Open(t) /\ draft[t].revision = call[c].base.revision
      BY <2>1 DEF SaveAllowed, RevisionAgrees
    <3>4. draft' = draft /\ flow' = flow
      BY <2>1 DEF rows
    <3> QED BY <2>1, <3>1, <3>2, <3>3, <3>4, TabsHeldLock
  <2>2. CASE Finish(c, "ok") /\ UNCHANGED rows
    BY <1>2, <2>2 DEF rows
  <2> QED BY <1>1, <1>4, <2>1, <2>2 DEF SaveLock
<1>5. ASSUME NEW c \in Calls, Save(c)
      PROVE  TabsHeld'
  <2> DEFINE t == DeviceTab[call[c].device]
  <2>1. /\ At(c, "save", "payer") /\ Finish(c, "ok") /\ flow' = flow
        /\ \E next : draft' = [draft EXCEPT ![t] = next]
    BY <1>5 DEF Save
  <2>2. tabLock[t] = c
    BY <2>1 DEF TabsHeld, HoldsTab
  <2>3. \A u \in Tabs : tabLock[u] # c => draft'[u] = draft[u]
    BY <1>3, <2>1, <2>2 DEF RowTypes
  <2> QED BY <2>1, <2>3, TabsHeldFinish
<1>6. ASSUME NEW c \in Calls, Add(c) \/ Invite(c) \/ Join(c) \/ ChoosePayer(c)
      PROVE  TabsHeld'
  <2>1. (\E r : Finish(c, r)) /\ draft' = draft /\ flow' = flow
    BY <1>6 DEF Add, Invite, Join, ChoosePayer, Rollback, rows
  <2> QED BY <1>2, <2>1
<1>7. ASSUME NEW c \in Calls, InviteLock(c)
      PROVE  TabsHeld'
  <2>1. CASE /\ call' = [call EXCEPT ![c].step = "tab"]
             /\ UNCHANGED <<rows, client, tabLock, review, answer, fate>>
    <3>1. call[c] \in InviteRequest
      BY <1>3, <1>7, Kinds DEF InviteLock, At
    <3>2. \A o \in Calls : Waits(o)' => call'[o] = call[o]
      BY <1>3, <2>1, <3>1 DEF Waits, At, CallTypes, InviteRequest
    <3> QED BY <2>1, <3>2, TabsHeldSame DEF rows
  <2> QED BY <1>1, <1>7, <2>1 DEF InviteLock
<1>8. ASSUME NEW c \in Calls, JoinLock(c)
      PROVE  TabsHeld'
  <2>1. CASE /\ \E s \in Seats : call' = [call EXCEPT ![c].step = "tab", ![c].seat = s]
             /\ UNCHANGED <<rows, client, tabLock, review, answer, fate>>
    <3>1. call[c] \in JoinRequest
      BY <1>3, <1>8, Kinds DEF JoinLock, At
    <3>2. \A o \in Calls : Waits(o)' => call'[o] = call[o]
      BY <1>3, <2>1, <3>1 DEF Waits, At, CallTypes, JoinRequest
    <3> QED BY <2>1, <3>2, TabsHeldSame DEF rows
  <2>2. CASE Finish(c, "refused") /\ UNCHANGED rows
    BY <1>2, <2>2 DEF rows
  <2> QED BY <1>8, <2>1, <2>2 DEF JoinLock
<1>9. ASSUME NEW c \in Calls, ChoosePayerLock(c)
      PROVE  TabsHeld'
  <2> DEFINE t == SeatTab[call[c].seat]
  <2>1. CASE /\ SourceMutable(t) /\ tabLock' = [tabLock EXCEPT ![t] = c]
             /\ call' = [call EXCEPT ![c].step = "payer"]
             /\ UNCHANGED <<rows, client, seatLock, review, answer, fate>>
    <3>1. call[c] # NoCall /\ call[c].op = "choose" /\ tabLock[t] = NoCall
      BY <1>9 DEF ChoosePayerLock, At
    <3>2. t \in Tabs
      BY <1>3, <3>1, Kinds DEF ChooseRequest
    <3>3. Open(t) /\ draft' = draft /\ flow' = flow
      BY <2>1 DEF SourceMutable, rows
    <3> QED BY <2>1, <3>1, <3>2, <3>3, TabsHeldLock
  <2>2. CASE Finish(c, "ok") /\ UNCHANGED rows
    BY <1>2, <2>2 DEF rows
  <2> QED BY <1>1, <1>9, <2>1, <2>2 DEF ChoosePayerLock
<1>10. ASSUME NEW c \in Calls, FreezeLock(c)
       PROVE  TabsHeld'
  <2> DEFINE t == call[c].tab
  <2>1. CASE /\ tabLock' = [tabLock EXCEPT ![t] = c]
             /\ call' = [call EXCEPT ![c].step = "seats"]
             /\ UNCHANGED <<rows, client, seatLock, review, answer, fate>>
    <3>1. call[c] # NoCall /\ call[c].op = "freeze" /\ tabLock[t] = NoCall
      BY <1>10 DEF FreezeLock, At
    <3>2. t \in Tabs
      BY <1>3, <3>1, Kinds DEF FreezeRequest
    <3>3. draft' = draft /\ flow' = flow
      BY <2>1 DEF rows
    <3> QED BY <2>1, <3>1, <3>2, <3>3, TabsHeldLock
  <2> QED BY <1>1, <1>10, <2>1 DEF FreezeLock
<1>11. ASSUME NEW c \in Calls, Freeze(c)
       PROVE  TabsHeld'
  <2> DEFINE t == call[c].tab
  <2>1. CASE /\ \E rev : flow' = [flow EXCEPT ![t] = rev]
             /\ Finish(c, "ok") /\ draft' = draft
    <3>1. tabLock[t] = c
      BY <1>11 DEF Freeze, TabsHeld, HoldsTab
    <3>2. \A u \in Tabs : tabLock[u] # c => flow'[u] = flow[u]
      BY <1>3, <2>1, <3>1 DEF RowTypes
    <3> QED BY <2>1, <3>2, TabsHeldFinish
  <2> QED BY <1>1, <1>11, <2>1 DEF Freeze
<1>12. ASSUME NEW c \in Calls, AbortOne(c)
       PROVE  TabsHeld'
  BY <1>1, <1>12 DEF AbortOne
<1>13. ASSUME NEW c \in Calls, Progress(c)
       PROVE  TabsHeld'
  BY <1>4, <1>5, <1>6, <1>7, <1>8, <1>9, <1>10, <1>11, <1>12, <1>13 DEF Progress
<1>14. CASE \/ \E d \in Devices : LoadDraft(d)
            \/ \E u \in Users, k \in Tokens : Handoff(u, k)
            \/ \E r \in Runs, doc \in Docs : Review(r, doc)
            \/ \E s \in Seats : Expire(s)
            \/ UNCHANGED vars
  <2>1. call' = call /\ tabLock' = tabLock /\ draft' = draft /\ flow' = flow
    BY <1>14 DEF LoadDraft, Handoff, Review, Expire, vars, rows, locks
  <2> QED BY <2>1, TabsHeldSame
<1> QED BY <1>13, <1>14, TabsHeldSent DEF Next

\* The inductive invariant: beside what the run checks, a browser or a save
\* under way knows no draft newer than the row's, and a freeze names a review.
THEOREM TabsInvariant == Spec => [](TabsInv /\ TabsHeld)
<1>1. Init => TabsInv /\ TabsHeld
  BY TabsInvInit DEF Init, TabsHeld, HoldsTab, At
<1>2. TabsInv /\ TabsHeld /\ [Next]_vars => (TabsInv /\ TabsHeld)'
  BY TabsInvNext, TabsHeldNext
<1> QED BY <1>1, <1>2, PTL DEF Spec

\* A set whose members are all equal has one at most.
LEMMA OneAtMost ==
  ASSUME NEW S, \A x, y \in S : x = y
  PROVE  Cardinality(S) <= 1
<1>1. CASE S = {}
  BY <1>1, FS_EmptySet
<1>2. CASE S # {}
  <2>1. PICK x : x \in S
    BY <1>2
  <2>2. S = {x}
    BY <2>1
  <2>3. Cardinality({x}) = 1
    BY FS_Singleton
  <2> QED BY <2>2, <2>3
<1> QED BY <1>1, <1>2

LEMMA CoherentFromInv ==
  ASSUME TabsInv, TabsHeld
  PROVE  SeatsCoherent
<1>1. InviteClaimedOnce
  <2>1. \A k \in Tokens : \A x, y \in fate[k] : x = y
    BY DEF TabsInv, FateSingle
  <2> QED BY <2>1, OneAtMost DEF InviteClaimedOnce
<1>2. OneSeatEach
  <2>1. ASSUME NEW t \in Tabs, NEW u \in Users
        PROVE  /\ Cardinality({s \in SeatsOf(t) : seat[s].user = u}) <= 1
               /\ SeatTaken(t, u) => MayEdit(u, t)
               /\ role[t][OwnerOf[t]] = "owner"
    <3> DEFINE mine == {s \in SeatsOf(t) : seat[s].user = u}
    <3>1. \A s \in mine : /\ s \in Seats /\ SeatTab[s] = t /\ seat[s].there
                          /\ seat[s].user = u /\ u # NoUser
      BY DEF SeatsOf
    <3>2. \A s, z \in mine : s = z
      BY <3>1 DEF TabsInv, Seated1
    <3>3. Cardinality(mine) <= 1
      <4> HIDE DEF mine
      <4> QED BY <3>2, OneAtMost
    <3>4. SeatTaken(t, u) => MayEdit(u, t)
      BY <3>1 DEF TabsInv, Membership, SeatTaken
    <3> QED BY <3>3, <3>4 DEF TabsInv, Membership
  <2> QED BY <2>1 DEF OneSeatEach
<1> QED BY <1>1, <1>2 DEF SeatsCoherent, TabsInv

\* However requests interleave, lock and abort: an invite link is claimed once
\* at most, and never after it was replaced or has expired; a user has one seat
\* of a tab; whoever is seated is a member and the owner stays the owner.
THEOREM SeatsAreCoherent == Spec => []SeatsCoherent
<1>1. TabsInv /\ TabsHeld => SeatsCoherent
  BY CoherentFromInv
<1> QED BY <1>1, TabsInvariant, PTL

\* "Freezing must consume the latest collaborative intent": a frozen tab is
\* bound to the last draft saved, the participants with a wallet and the payer.
THEOREM FrozenIsLatest == Spec => []FrozenSource
<1>1. TabsInv => FrozenSource
  BY DEF TabsInv
<1> QED BY <1>1, TabsInvariant, PTL

\* Who changes a draft in a step: one save, made on the draft it replaces.
LEMMA StepSawDraft ==
  ASSUME TabsInv, TabsHeld, [Next]_vars
  PROVE  NoLostUpdateStep
<1> SUFFICES ASSUME NEW t \in Tabs, draft'[t] # draft[t]
             PROVE  \E c \in Calls : /\ At(c, "save", "payer") /\ call'[c] = NoCall
                                     /\ call[c].base = draft[t]
  BY DEF NoLostUpdateStep
<1>1. PICK c \in Calls : Save(c)
  <2>1. \A c \in Calls : Requests(c) => draft' = draft
    BY DEF Requests, SendSave, SendAdd, SendInvite, SendJoin, SendChoose, SendFreeze,
           Send, rows
  <2>2. \A c \in Calls : Progress(c) => Save(c) \/ draft' = draft
    BY DEF Progress, SaveLock, Add, InviteLock, Invite, JoinLock, Join, ChoosePayerLock,
           ChoosePayer, FreezeLock, Freeze, AbortOne, Rollback, rows
  <2>3. \/ \E d \in Devices : LoadDraft(d)
        \/ \E u \in Users, k \in Tokens : Handoff(u, k)
        \/ \E r \in Runs, doc \in Docs : Review(r, doc)
        \/ \E s \in Seats : Expire(s)
        => draft' = draft
    BY DEF LoadDraft, Handoff, Review, Expire, rows
  <2>4. UNCHANGED vars => draft' = draft
    BY DEF vars, rows
  <2> QED BY <2>1, <2>2, <2>3, <2>4 DEF Next
<1> DEFINE d == call[c].device
           u == DeviceTab[d]
<1>2. At(c, "save", "payer")
  BY <1>1 DEF Save
<1>3. /\ draft[u].revision = call[c].base.revision
      /\ draft' = [draft EXCEPT ![u] =
           [revision |-> call[c].base.revision + 1, doc |-> call[c].doc]]
      /\ Finish(c, "ok")
  BY <1>1, <1>2 DEF Save, TabsHeld, HoldsTab
<1>4. CallTypes /\ RowTypes
  BY Types DEF TabsInv
<1>5. u = t
  BY <1>3, <1>4 DEF RowTypes
<1>6. call'[c] = NoCall
  BY <1>3, <1>4 DEF Finish, CallTypes
<1>7. call[c].base = draft[t]
  <2>1. Knows(u, call[c].base)
    BY <1>2 DEF TabsInv, DraftsKnown, Saves, At
  <2> QED BY <1>3, <1>5, <2>1 DEF Knows
<1> QED BY <1>2, <1>6, <1>7

\* No lost update: a draft is replaced only by a save whose sender had seen
\* it, whatever answers were lost and in whatever order browsers save.
THEOREM NoUpdateIsLost == Spec => NoLostUpdate
<1>1. TabsInv /\ TabsHeld /\ [Next]_vars => [NoLostUpdateStep]_vars
  BY StepSawDraft
<1> QED BY <1>1, TabsInvariant, PTL DEF Spec, NoLostUpdate
=============================================================================
