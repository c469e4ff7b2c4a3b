-------------------------- MODULE TabCollaboration --------------------------
(***************************************************************************)
(* Shared tabs before the freeze: seats, invites, drafts, and the freeze   *)
(* that ends all of it.  The functions are transactions of PostgreSQL at   *)
(* READ COMMITTED; what matters is which row locks a transaction holds     *)
(* while it waits for another one, so a call that takes a seat's lock and  *)
(* then the tab's, or the tab's and then a seat's, is two steps, and one    *)
(* that needs the tab's only is one.                                       *)
(***************************************************************************)
EXTENDS Integers, FiniteSets

CONSTANTS
  Tabs, Users, OwnerOf,   \* OwnerOf[t], the user who created tab t
  Seats, SeatTab,         \* participants rows; SeatTab[s], the tab of a seat
  Walleted,               \* the seats that come with a wallet address
  Tokens,                 \* invite tokens, each made once
  Docs, DocSeats,         \* documents of a draft; the participants one names
  DocPayer,
  Devices, DeviceUser, DeviceTab,  \* browser sessions with a tab open
  Runs, RunDevice,        \* agent runs; the browser that started a run
  Calls,                  \* requests in flight
  StrayUrls,              \* may the tab in the URL not be the seat's?
  MaxRevision, MaxLost,   \* bounds: draft revisions, lost answers
  NoUser, NoToken, NoDoc, NoCall

\* A tab has an owner and a seat a tab; a browser is signed in as one user and
\* shows one tab; a document names its payer.  The No... values are SQL's NULLs.
ASSUME TabsAssumption ==
  /\ OwnerOf \in [Tabs -> Users]
  /\ Seats # {} /\ SeatTab \in [Seats -> Tabs] /\ Walleted \subseteq Seats
  /\ DocSeats \in [Docs -> SUBSET Seats] /\ DocPayer \in [Docs -> Seats]
  /\ DeviceUser \in [Devices -> Users] /\ DeviceTab \in [Devices -> Tabs]
  /\ RunDevice \in [Runs -> Devices]
  /\ MaxRevision \in Nat /\ MaxLost \in Nat
  /\ NoUser \notin Users /\ NoToken \notin Tokens
  /\ NoDoc \notin Docs /\ NoCall \notin Calls

VARIABLES
  role,      \* tab_members.role
  seat,      \* participants rows
  draft,     \* tab_drafts rows
  flow,      \* the review a frozen tab is bound to (status, ledger, flow row)
  payer,     \* tabs.payer_participant_id
  review,    \* input_snapshot of the attested runs
  tabLock, seatLock,
  call,      \* the running requests, with what each was sent
  answer,    \* the last answer of a request
  jar,       \* invite handoff cookies
  device,    \* what a browser session last saw of the draft
  fate,      \* history: who claimed a token, or that it was replaced or expired
  lost       \* answers lost so far

rows == <<role, seat, draft, flow, payer>>
locks == <<tabLock, seatLock>>
client == <<jar, device, lost>>
vars == <<rows, locks, client, review, call, answer, fate>>

NoSeat == [there |-> FALSE, user |-> NoUser, status |-> "draft", token |-> NoToken]
NoDraft == [revision |-> 0, doc |-> NoDoc]
Unfrozen == [doc |-> NoDoc, seats |-> {}]
SeatsOf(t) == {s \in Seats : SeatTab[s] = t /\ seat[s].there}
Executable(t) == SeatsOf(t) \cap Walleted
MayEdit(u, t) == role[t][u] \in {"owner", "member"}
Open(t) == flow[t] = Unfrozen

Init ==
  /\ role = [t \in Tabs |-> [u \in Users |-> IF u = OwnerOf[t] THEN "owner" ELSE "none"]]
  /\ seat = [s \in Seats |-> NoSeat]
  /\ draft = [t \in Tabs |-> NoDraft]
  /\ flow = [t \in Tabs |-> Unfrozen]
  /\ payer = [t \in Tabs |-> {}]
  /\ review = [r \in Runs |-> Unfrozen]
  /\ tabLock = [t \in Tabs |-> NoCall] /\ seatLock = [s \in Seats |-> NoCall]
  /\ call = [c \in Calls |-> NoCall] /\ answer = [c \in Calls |-> "none"]
  /\ jar = [u \in Users |-> NoToken]
  /\ device = [d \in Devices |-> NoDraft]
  /\ fate = [k \in Tokens |-> {}] /\ lost = 0

(***************************************************************************)
(* Requests.  A request carries what its sender knew, and may run much     *)
(* later.                                                                  *)
(***************************************************************************)
Send(c, request) ==
  /\ call[c] = NoCall
  /\ call' = [call EXCEPT ![c] = request]
  /\ answer' = [answer EXCEPT ![c] = "none"]
  /\ UNCHANGED <<rows, locks, client, review, fate>>

\* End of a request: COMMIT or ROLLBACK, every lock it held is free.
Finish(c, result) ==
  /\ call' = [call EXCEPT ![c] = NoCall]
  /\ answer' = [answer EXCEPT ![c] = result]
  /\ tabLock' = [t \in Tabs |-> IF tabLock[t] = c THEN NoCall ELSE tabLock[t]]
  /\ seatLock' = [s \in Seats |-> IF seatLock[s] = c THEN NoCall ELSE seatLock[s]]

Rollback(c) == Finish(c, "refused") /\ UNCHANGED <<rows, client, review, fate>>

At(c, op, step) == call[c] # NoCall /\ call[c].op = op /\ call[c].step = step

Saving(c, d) == call[c] # NoCall /\ call[c].op = "save" /\ call[c].device = d

(***************************************************************************)
(* Drafts.  The browser has one queue per tab (Lab.persistDraft); a save   *)
(* names the revision it was made on.                                      *)
(***************************************************************************)
\* GET /api/tabs/[id]/draft: reading is one statement, FOR SHARE of the tab.
LoadDraft(d) ==
  LET t == DeviceTab[d] IN
  /\ MayEdit(DeviceUser[d], t) /\ Open(t) /\ tabLock[t] = NoCall
  /\ ~\E c \in Calls : Saving(c, d)
  /\ device' = [device EXCEPT ![d] = draft[t]]
  /\ UNCHANGED <<rows, locks, jar, lost, review, call, answer, fate>>

SendSave(c, d, doc) ==
  /\ device[d].revision < MaxRevision
  /\ ~\E o \in Calls : Saving(o, d)
  /\ Send(c, [op |-> "save", step |-> "tab", device |-> d, doc |-> doc,
              base |-> device[d]])

\* What upsert_tab_draft requires of tab and document.
SaveAllowed(d, doc) ==
  LET t == DeviceTab[d] IN
  /\ MayEdit(DeviceUser[d], t) /\ Open(t)
  /\ DocSeats[doc] \cup {DocPayer[doc]} \subseteq SeatsOf(t)

\* Seeded fault: the revision a save was made on is not compared.
RevisionAgreesAlways(t, base) == TRUE

RevisionAgrees(t, base) == draft[t].revision = base.revision

\* What the sender learns; the answer may be lost on the way.
Hear(d, now) ==
  \/ device' = [device EXCEPT ![d] = now] /\ UNCHANGED lost
  \/ lost < MaxLost /\ lost' = lost + 1 /\ UNCHANGED device

\* upsert_tab_draft as far as it needs the tab only.
SaveLock(c) ==
  /\ At(c, "save", "tab")
  /\ LET d == call[c].device  t == DeviceTab[d]
         doc == call[c].doc   base == call[c].base IN
     /\ tabLock[t] = NoCall
     /\ \/ ~SaveAllowed(d, doc) /\ Rollback(c)
        \/ /\ SaveAllowed(d, doc) /\ draft[t].doc = doc
           /\ Finish(c, "ok") /\ Hear(d, draft[t])
           /\ UNCHANGED <<rows, jar, review, fate>>
        \/ /\ SaveAllowed(d, doc) /\ draft[t].doc # doc
           /\ ~RevisionAgrees(t, base) /\ Rollback(c)
        \/ /\ SaveAllowed(d, doc) /\ draft[t].doc # doc
           /\ RevisionAgrees(t, base)
           /\ tabLock' = [tabLock EXCEPT ![t] = c]
           /\ call' = [call EXCEPT ![c].step = "payer"]
           /\ UNCHANGED <<rows, client, seatLock, review, answer, fate>>

\* A row that names another payer than before shares the lock of that seat
\* (FOR KEY SHARE, by the foreign key), and waits for whoever has it FOR UPDATE.
PayerNamed(t, doc) ==
  IF draft[t].doc # NoDoc /\ DocPayer[draft[t].doc] = DocPayer[doc] THEN {} ELSE {DocPayer[doc]}

Save(c) ==
  /\ At(c, "save", "payer")
  /\ LET d == call[c].device  t == DeviceTab[d]  doc == call[c].doc IN
     /\ \A s \in PayerNamed(t, doc) : seatLock[s] = NoCall
     /\ draft' = [draft EXCEPT ![t] = [revision |-> call[c].base.revision + 1, doc |-> doc]]
     /\ Finish(c, "ok") /\ Hear(d, draft'[t])
     /\ UNCHANGED <<role, seat, flow, payer, jar, review, fate>>

(***************************************************************************)
(* Participants and invites.  Writing a participants row fires             *)
(* assert_settlement_source_mutable, which takes the tab's lock and        *)
(* refuses once the tab is frozen.                                         *)
(***************************************************************************)
SourceMutable(t) == Open(t)

SeatTaken(t, u) == \E s \in SeatsOf(t) : seat[s].user = u

SendAdd(c, u, s, self) ==
  /\ ~seat[s].there
  /\ Send(c, [op |-> "add", step |-> "tab", user |-> u, seat |-> s, self |-> self])

Add(c) ==
  /\ At(c, "add", "tab")
  /\ LET u == call[c].user  s == call[c].seat  t == SeatTab[s]
         allowed == /\ MayEdit(u, t) /\ SourceMutable(t) /\ ~seat[s].there
                    /\ call[c].self => ~SeatTaken(t, u) IN
     /\ tabLock[t] = NoCall
     /\ \/ ~allowed /\ Rollback(c)
        \/ /\ allowed
           /\ seat' = [seat EXCEPT ![s] = [there |-> TRUE, token |-> NoToken,
                user |-> IF call[c].self THEN u ELSE NoUser,
                status |-> IF call[c].self THEN "joined" ELSE "draft"]]
           /\ Finish(c, "ok")
           /\ UNCHANGED <<role, draft, flow, payer, client, review, fate>>

\* POST /api/tabs/[id]/invites makes a new token for every request.
SendInvite(c, u, s, k, url) ==
  /\ fate[k] = {} /\ \A z \in Seats : seat[z].token # k
  /\ ~\E o \in Calls : call[o] # NoCall /\ call[o].op = "invite" /\ call[o].token = k
  /\ StrayUrls \/ url = SeatTab[s]
  /\ Send(c, [op |-> "invite", step |-> "seat", user |-> u, seat |-> s,
              token |-> k, url |-> url])

\* select ... for update of the participants row, and what is asked of it.
InviteLock(c) ==
  /\ At(c, "invite", "seat")
  /\ LET s == call[c].seat IN
     /\ seatLock[s] = NoCall
     /\ IF /\ seat[s].there /\ seat[s].user = NoUser
           /\ MayEdit(call[c].user, SeatTab[s])
        THEN /\ seatLock' = [seatLock EXCEPT ![s] = c]
             /\ call' = [call EXCEPT ![c].step = "tab"]
             /\ UNCHANGED <<rows, client, tabLock, review, answer, fate>>
        ELSE Rollback(c)

\* The update.  A seat of another tab than the URL's is written all the same,
\* and the route answers databaseUnavailable.
Invite(c) ==
  /\ At(c, "invite", "tab")
  /\ LET s == call[c].seat IN
     /\ tabLock[SeatTab[s]] = NoCall
     /\ \/ ~SourceMutable(SeatTab[s]) /\ Rollback(c)
        \/ /\ SourceMutable(SeatTab[s])
           /\ seat' = [seat EXCEPT ![s].status = "invited", ![s].token = call[c].token]
           /\ fate' = IF seat[s].token = NoToken THEN fate
                      ELSE [fate EXCEPT ![seat[s].token] = @ \cup {"replaced"}]
           /\ Finish(c, IF call[c].url = SeatTab[s] THEN "ok" ELSE "refused")
           /\ UNCHANGED <<role, draft, flow, payer, client, review>>

\* Time passes.  A request that began before sees the invite as live.
Expire(s) ==
  LET k == seat[s].token IN
  /\ k # NoToken
  /\ ~\E c \in Calls : call[c] # NoCall /\ call[c].op = "join" /\ call[c].token = k
  /\ seat' = [seat EXCEPT ![s].token = NoToken]
  /\ fate' = [fate EXCEPT ![k] = @ \cup {"expired"}]
  /\ UNCHANGED <<role, draft, flow, payer, locks, client, review, call, answer>>

\* The link is opened: the token goes to an encrypted cookie of the browser.
\* An invite that has been replaced can still be opened.
Handoff(u, k) ==
  /\ \/ \E s \in Seats : seat[s].token = k
     \/ fate[k] # {}
  /\ jar' = [jar EXCEPT ![u] = k]
  /\ UNCHANGED <<rows, locks, device, lost, review, call, answer, fate>>

SendJoin(c, u) ==
  /\ jar[u] # NoToken
  /\ Send(c, [op |-> "join", step |-> "seat", user |-> u, token |-> jar[u],
              seat |-> CHOOSE s \in Seats : TRUE])

Forget(u, k) == jar' = [jar EXCEPT ![u] = IF @ = k THEN NoToken ELSE @]

\* Seeded fault: the row is read without FOR UPDATE, so that two claims of one
\* token both go on to the update.
ClaimableUnlocked(s, k) == seat[s].there /\ seat[s].token = k

\* The row a token finds, once it has no other writer: PostgreSQL evaluates
\* the condition again on the row it has waited for.
Claimable(s, k) == seat[s].there /\ seat[s].token = k /\ seatLock[s] = NoCall

JoinLock(c) ==
  /\ At(c, "join", "seat")
  /\ LET u == call[c].user  k == call[c].token IN
     \/ /\ \E s \in Seats : /\ Claimable(s, k)
                            /\ ~SeatTaken(SeatTab[s], u)
                            /\ seatLock' = [seatLock EXCEPT ![s] = c]
                            /\ call' = [call EXCEPT ![c].step = "tab", ![c].seat = s]
        /\ UNCHANGED <<rows, client, tabLock, review, answer, fate>>
     \/ /\ \/ \A s \in Seats : seat[s].token # k
           \/ \E s \in Seats : Claimable(s, k) /\ SeatTaken(SeatTab[s], u)
        /\ Finish(c, "refused") /\ Forget(u, k)
        /\ UNCHANGED <<rows, device, lost, review, fate>>

\* idx_participants_tab_user
IndexAllows(t, u) == ~SeatTaken(t, u)

Seated(row, u) == [row EXCEPT !.user = u, !.status = "joined", !.token = NoToken]

RoleOnceSeated(r) == IF r = "owner" THEN "owner" ELSE "member"

Join(c) ==
  /\ At(c, "join", "tab")
  /\ LET s == call[c].seat  t == SeatTab[s]  u == call[c].user
         allowed == SourceMutable(t) /\ IndexAllows(t, u) IN
     /\ tabLock[t] = NoCall
     /\ \/ ~allowed /\ Rollback(c)
        \/ /\ allowed
           /\ seat' = [seat EXCEPT ![s] = Seated(@, u)]
           /\ role' = [role EXCEPT ![t][u] = RoleOnceSeated(@)]
           /\ fate' = [fate EXCEPT ![call[c].token] = @ \cup {u}]
           /\ Finish(c, "ok")
           /\ \/ Forget(u, call[c].token) /\ UNCHANGED lost
              \/ lost < MaxLost /\ lost' = lost + 1 /\ UNCHANGED jar
           /\ UNCHANGED <<draft, flow, payer, device, review>>

\* The owner chooses the payer of an open tab (PATCH /api/tabs/[id]); the chosen
\* seat is one of the tab's, or nothing is sent to the database.
SendChoose(c, u, s) ==
  /\ seat[s].there
  /\ Send(c, [op |-> "choose", step |-> "tab", user |-> u, seat |-> s])

ChoosePayerLock(c) ==
  /\ At(c, "choose", "tab")
  /\ LET s == call[c].seat  t == SeatTab[s]  owns == call[c].user = OwnerOf[t] IN
     /\ tabLock[t] = NoCall
     /\ \/ /\ owns /\ payer[t] = {s}
           /\ Finish(c, "ok") /\ UNCHANGED <<rows, client, review, fate>>
        \/ /\ owns /\ payer[t] # {s} /\ SourceMutable(t)
           /\ tabLock' = [tabLock EXCEPT ![t] = c]
           /\ call' = [call EXCEPT ![c].step = "payer"]
           /\ UNCHANGED <<rows, client, seatLock, review, answer, fate>>
        \/ ~(owns /\ (payer[t] = {s} \/ SourceMutable(t))) /\ Rollback(c)

\* At the commit tabs_payer_fk shares the lock of the seat.
ChoosePayer(c) ==
  /\ At(c, "choose", "payer")
  /\ LET s == call[c].seat IN
     /\ seatLock[s] = NoCall
     /\ payer' = [payer EXCEPT ![SeatTab[s]] = {s}]
     /\ Finish(c, "ok")
     /\ UNCHANGED <<role, seat, draft, flow, client, review, fate>>

(***************************************************************************)
(* The freeze of a reviewed run.                                           *)
(***************************************************************************)
\* A run attests what one browser showed, with the tab's participants.
Review(r, doc) ==
  LET d == RunDevice[r]  t == DeviceTab[d] IN
  /\ review[r] = Unfrozen /\ MayEdit(DeviceUser[d], t)
  /\ DocSeats[doc] \cup {DocPayer[doc]} \subseteq Executable(t)
  /\ review' = [review EXCEPT ![r] = [doc |-> doc, seats |-> Executable(t)]]
  /\ UNCHANGED <<rows, locks, client, call, answer, fate>>

SendFreeze(c, r) ==
  /\ review[r] # Unfrozen
  /\ Send(c, [op |-> "freeze", step |-> "tab", run |-> r,
              tab |-> DeviceTab[RunDevice[r]], user |-> DeviceUser[RunDevice[r]]])

\* The parent tab first.
FreezeLock(c) ==
  /\ At(c, "freeze", "tab")
  /\ tabLock[call[c].tab] = NoCall
  /\ IF MayEdit(call[c].user, call[c].tab) /\ Open(call[c].tab)
     THEN /\ tabLock' = [tabLock EXCEPT ![call[c].tab] = c]
          /\ call' = [call EXCEPT ![c].step = "seats"]
          /\ UNCHANGED <<rows, client, seatLock, review, answer, fate>>
     ELSE Rollback(c)

\* Seeded fault: the trigger compares nothing with the latest draft.
FreezeMatchesReview(t, rev) == rev.seats = Executable(t)

\* The participants are those reviewed, and the review is of the latest draft.
FreezeMatches(t, rev) == rev.seats = Executable(t) /\ rev.doc = draft[t].doc

\* Then every participant of the tab; ledger, flow and tab are written last.
Freeze(c) ==
  /\ At(c, "freeze", "seats")
  /\ LET t == call[c].tab  rev == review[call[c].run] IN
     /\ \A s \in SeatsOf(t) : seatLock[s] = NoCall
     /\ \/ ~FreezeMatches(t, rev) /\ Rollback(c)
        \/ /\ FreezeMatches(t, rev)
           /\ flow' = [flow EXCEPT ![t] = rev]
           /\ payer' = [payer EXCEPT ![t] = {DocPayer[rev.doc]}]
           /\ Finish(c, "ok")
           /\ UNCHANGED <<role, seat, draft, client, review, fate>>

\* Seeded fault: the locks are none PostgreSQL knows, and nobody finds a cycle.
DeadlockedUnseen(c, o) == FALSE

\* The seats whose locks a request asks for while it holds the tab's.
SeatsAsked(c) ==
  IF At(c, "freeze", "seats") THEN SeatsOf(call[c].tab)
  ELSE IF At(c, "save", "payer") THEN PayerNamed(DeviceTab[call[c].device], call[c].doc)
  ELSE IF At(c, "choose", "payer") THEN {call[c].seat} ELSE {}

\* Two transactions that wait for each other: c for a seat of o, which asks for
\* the tab that c holds.  PostgreSQL aborts one of them.
Deadlocked(c, o) == \E s \in SeatsAsked(c) : seatLock[s] = o /\ tabLock[SeatTab[s]] = c

AbortOne(c) ==
  /\ \E o \in Calls : Deadlocked(c, o) \/ Deadlocked(o, c)
  /\ Rollback(c)

Requests(c) ==
  \/ \E d \in Devices, doc \in Docs : SendSave(c, d, doc)
  \/ \E u \in Users, s \in Seats, self \in BOOLEAN : SendAdd(c, u, s, self)
  \/ \E u \in Users, s \in Seats, k \in Tokens, url \in Tabs : SendInvite(c, u, s, k, url)
  \/ \E u \in Users : SendJoin(c, u)
  \/ \E u \in Users, s \in Seats : SendChoose(c, u, s)
  \/ \E r \in Runs : SendFreeze(c, r)

Progress(c) ==
  \/ SaveLock(c) \/ Save(c) \/ Add(c)
  \/ InviteLock(c) \/ Invite(c)
  \/ JoinLock(c) \/ Join(c)
  \/ ChoosePayerLock(c) \/ ChoosePayer(c)
  \/ FreezeLock(c) \/ Freeze(c)
  \/ AbortOne(c)

Next ==
  \/ \E c \in Calls : Requests(c) \/ Progress(c)
  \/ \E d \in Devices : LoadDraft(d)
  \/ \E u \in Users, k \in Tokens : Handoff(u, k)
  \/ \E r \in Runs, doc \in Docs : Review(r, doc)
  \/ \E s \in Seats : Expire(s)

Spec == Init /\ [][Next]_vars

\* A request the database has accepted is worked on, PostgreSQL queues those
\* that wait for a row (so a lock that keeps being released is given to each in
\* turn: strong fairness), and its deadlock detector runs.  Nobody has to send
\* anything.
FairSpec == Spec /\ \A c \in Calls : SF_vars(Progress(c))

(***************************************************************************)
(* Properties                                                              *)
(***************************************************************************)
\* What a browser knows of a draft, what a freeze binds a tab to, and what a
\* request carries.
Drafted == [revision : 0..MaxRevision, doc : Docs \cup {NoDoc}]
Bound == [doc : Docs \cup {NoDoc}, seats : SUBSET Seats]
SaveRequest ==
  [op : {"save"}, step : {"tab", "payer"}, device : Devices, doc : Docs,
   base : [revision : 0..(MaxRevision - 1), doc : Docs \cup {NoDoc}]]
AddRequest ==
  [op : {"add"}, step : {"tab"}, user : Users, seat : Seats, self : BOOLEAN]
InviteRequest ==
  [op : {"invite"}, step : {"seat", "tab"}, user : Users, seat : Seats,
   token : Tokens, url : Tabs]
JoinRequest ==
  [op : {"join"}, step : {"seat", "tab"}, user : Users, token : Tokens, seat : Seats]
ChooseRequest ==
  [op : {"choose"}, step : {"tab", "payer"}, user : Users, seat : Seats]
FreezeRequest ==
  [op : {"freeze"}, step : {"tab", "seats"}, run : Runs, tab : Tabs, user : Users]
Request ==
  SaveRequest \cup AddRequest \cup InviteRequest \cup JoinRequest \cup ChooseRequest
    \cup FreezeRequest

\* Type correctness of the rows, the locks and the requests; a seat is joined
\* when somebody holds it and has a token only while an invite is out.
TabTypeOK ==
  /\ role \in [Tabs -> [Users -> {"none", "owner", "member"}]]
  /\ seat \in [Seats -> [there : BOOLEAN, user : Users \cup {NoUser},
                         status : {"draft", "invited", "joined"},
                         token : Tokens \cup {NoToken}]]
  /\ \A s \in Seats : /\ seat[s].status = "joined" <=> seat[s].user # NoUser
                      /\ seat[s].token # NoToken => seat[s].status = "invited"
  /\ draft \in [Tabs -> Drafted] /\ device \in [Devices -> Drafted]
  /\ flow \in [Tabs -> Bound] /\ review \in [Runs -> Bound]
  /\ payer \in [Tabs -> SUBSET Seats]
  /\ tabLock \in [Tabs -> Calls \cup {NoCall}]
  /\ seatLock \in [Seats -> Calls \cup {NoCall}]
  /\ call \in [Calls -> Request \cup {NoCall}]
  /\ answer \in [Calls -> {"none", "ok", "refused"}]
  /\ jar \in [Users -> Tokens \cup {NoToken}]
  /\ fate \in [Tokens -> SUBSET (Users \cup {"replaced", "expired"})]
  /\ lost \in 0..MaxLost

\* "Freezing must consume the latest collaborative intent": what a frozen tab
\* is bound to is the last draft saved, the participants with a wallet and the
\* payer, whatever saves, joins, additions and choices were under way when the
\* freeze took the locks or ended after it.
FrozenSource ==
  \A t \in Tabs : ~Open(t) =>
    /\ flow[t].doc = draft[t].doc
    /\ flow[t].seats = Executable(t)
    /\ payer[t] = {DocPayer[flow[t].doc]}

\* Where a token is: on its way to a seat with the request that made it, then
\* on that seat and no other, and after that its fate is decided.
TokensPlaced ==
  /\ \A s \in Seats : seat[s].token # NoToken =>
       /\ fate[seat[s].token] = {}
       /\ \A z \in Seats : seat[z].token = seat[s].token => z = s
  /\ \A c \in Calls : call[c] # NoCall /\ call[c].op = "invite" =>
       /\ fate[call[c].token] = {}
       /\ \A s \in Seats : seat[s].token # call[c].token
       /\ \A o \in Calls :
            call[o] # NoCall /\ call[o].op = "invite" /\ call[o].token = call[c].token
              => o = c

\* What a request has read of a seat is still so when it writes, for it has the
\* seat's lock: a seat to be offered has nobody in it, and one to be taken still
\* has the token the request was sent with.
SeatsHeld ==
  \A c \in Calls :
    /\ At(c, "invite", "tab") \/ At(c, "join", "tab") =>
         seatLock[call[c].seat] = c /\ seat[call[c].seat].there
    /\ At(c, "invite", "tab") => seat[call[c].seat].user = NoUser
    /\ At(c, "join", "tab") => seat[call[c].seat].token = call[c].token

\* What a request has read of a tab is still so when it writes, for it has the
\* tab's lock while it waits for a seat's: the tab is not frozen, and its draft is
\* the one the save was made on.
HoldsTab(c) ==
  /\ At(c, "save", "payer") =>
       LET t == DeviceTab[call[c].device] IN
       tabLock[t] = c /\ Open(t) /\ draft[t].revision = call[c].base.revision
  /\ At(c, "choose", "payer") =>
       tabLock[SeatTab[call[c].seat]] = c /\ Open(SeatTab[call[c].seat])
  /\ At(c, "freeze", "seats") => tabLock[call[c].tab] = c
TabsHeld == \A c \in Calls : HoldsTab(c)

\* An invite link is good for one person: it is claimed once at most, and one
\* that was replaced or has expired is never claimed, by anybody's race.
InviteClaimedOnce == \A k \in Tokens : Cardinality(fate[k]) <= 1

\* A user holds one seat of a tab at most, and everybody seated is a member:
\* also when two invites of one tab are claimed by one user at the same time.
\* The owner who takes a seat remains the owner.
OneSeatEach ==
  \A t \in Tabs, u \in Users :
    /\ Cardinality({s \in SeatsOf(t) : seat[s].user = u}) <= 1
    /\ SeatTaken(t, u) => MayEdit(u, t)
    /\ role[t][OwnerOf[t]] = "owner"

\* Rows, locks and requests are of their types, and a lock keeps what its holder
\* has read; an invite link is claimed once at most and never after it was replaced
\* or has expired; nobody holds two seats of a tab, and everybody seated is a member.
SeatsCoherent ==
  TabTypeOK /\ TokensPlaced /\ SeatsHeld /\ TabsHeld /\ InviteClaimedOnce /\ OneSeatEach

\* No lost update: whoever replaces a draft had seen the draft replaced, also
\* with answers lost and two browsers of one tab saving in any order.
NoLostUpdateStep ==
  \A t \in Tabs : draft'[t] # draft[t] =>
    \E c \in Calls : /\ At(c, "save", "payer") /\ call'[c] = NoCall
                     /\ call[c].base = draft[t]
NoLostUpdate == [][NoLostUpdateStep]_vars

\* Every request is answered: transactions that wait for each other's locks
\* are found, and no other wait lasts.
EveryCallEnds == \A c \in Calls : call[c] # NoCall ~> call[c] = NoCall

(***************************************************************************)
(* Stated in the documents and not kept by the code; see the README,       *)
(* "Disagreements".  No run expects it to hold.                            *)
(***************************************************************************)
\* "Establish a single lock order for the first-party graph": no transaction
\* waits for one that waits for it.
SingleLockOrder == \A c, o \in Calls : ~Deadlocked(c, o)

\* "The durable cloud record could not be committed. No success was recorded":
\* a request answered so has changed no row.
RefusalStep ==
  \A c \in Calls :
    call[c] # NoCall /\ call'[c] = NoCall /\ answer'[c] = "refused" => UNCHANGED rows
RefusalChangesNothing == [][RefusalStep]_vars
=============================================================================
