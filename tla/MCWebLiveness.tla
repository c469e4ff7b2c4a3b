---------------------------- MODULE MCWebLiveness ----------------------------
(***************************************************************************)
(* What must end: the calls about a tab, the reviews of its owner, the     *)
(* requests for paid voice, and a microphone capture.  Four small worlds   *)
(* that share no state; a run belongs to one of them and leaves the others *)
(* as they start.                                                          *)
(***************************************************************************)
EXTENDS Integers

CONSTANTS
  Parts,
  owner, guest, t1, s1, d1, a1, k1, c1, c2, NoUser, NoToken, NoDoc, NoCall,
  i1, w1, w2, r1, r2, NoRun,
  u1, u2, Project, None

VARIABLES
  part,
  role, seat, draft, flow, payer, review, tabLock, seatLock, call, answer, jar, device,
  fate, lost,
  run, evidence, memory, worker, told, completed, asked, over, spend, faults, forgotten,
  offered, clock, used, reservations, request, streams, spoken, decided, calls,
  status, current, turns, page, s, provider, inbox

tabVars == <<role, seat, draft, flow, payer, review, tabLock, seatLock, call, answer, jar,
             device, fate, lost>>
agentVars == <<run, evidence, memory, worker, told, completed, asked, over, spend, faults,
               forgotten>>
voiceVars == <<offered, clock, used, reservations, request, streams, spoken, decided, calls>>
captureVars == <<status, current, turns, page, s, provider, inbox>>
vars == <<part, tabVars, agentVars, voiceVars, captureVars>>

\* One seat: an invite or a join holds it and asks for the tab, a freeze the
\* other way round.
Tab == INSTANCE TabCollaboration WITH
  Tabs <- {t1}, Users <- {owner, guest}, OwnerOf <- [t \in {t1} |-> owner],
  Seats <- {s1}, SeatTab <- [x \in {s1} |-> t1], Walleted <- {s1},
  Tokens <- {k1}, Docs <- {d1}, DocSeats <- [d \in {d1} |-> {s1}],
  DocPayer <- [d \in {d1} |-> s1],
  Devices <- {a1}, DeviceUser <- [d \in {a1} |-> owner], DeviceTab <- [d \in {a1} |-> t1],
  Runs <- {r1}, RunDevice <- [r \in {r1} |-> a1], Calls <- {c1, c2},
  StrayUrls <- FALSE, MaxRevision <- 1, MaxLost <- 0

Agents == INSTANCE AgentRuns WITH
  Inputs <- {i1}, Proposed <- {i1}, Workers <- {w1, w2}, RunIds <- {r1, r2},
  MaxAttempts <- 1, MaxFaults <- 1, MaxForgotten <- 1, answer <- told, clock <- completed

PerUser == [transcription |-> [day |-> 1, month |-> 2]]
PerProject == [transcription |-> [day |-> 2, month |-> 3]]

\* The last minute of a day and the first of the next, in one month.
Voice == INSTANCE VoiceBudget WITH
  Users <- {u1, u2}, Requests <- {r1, r2}, Capabilities <- {"transcription"},
  Offerings <- {{"transcription"}}, Sizes <- {1},
  DayTicks <- 2, MonthDays <- 2, Redeem <- 1, Session <- 3, RequestLimit <- 2,
  UserLimit <- PerUser, ProjectLimit <- PerProject, ProjectSessions <- 1,
  FirstTick <- 1, LastTick <- 2, MaxLag <- 1, MaxCalls <- 2

Capture == INSTANCE VoiceCapture WITH MaxSessions <- 1, MaxTurns <- 2

Init ==
  /\ part \in Parts
  /\ Tab!Init /\ Agents!Init /\ Voice!Init /\ Capture!Init

Next ==
  /\ UNCHANGED part
  /\ \/ part = "tab" /\ Tab!Next /\ UNCHANGED <<agentVars, voiceVars, captureVars>>
     \/ part = "agents" /\ Agents!Next /\ UNCHANGED <<tabVars, voiceVars, captureVars>>
     \/ part = "voice" /\ Voice!Next /\ UNCHANGED <<tabVars, agentVars, captureVars>>
     \/ part = "capture" /\ Capture!Next /\ UNCHANGED <<tabVars, agentVars, voiceVars>>

\* The fairness of the four specifications, each for the runs of its part.
Fair(p, Action) == part = p /\ Action

Fairness ==
  /\ \A c \in {c1, c2} : SF_tabVars(Fair("tab", Tab!Progress(c)))
  /\ \A w \in {w1, w2} : WF_agentVars(Fair("agents", Agents!Step(w)))
  /\ WF_agentVars(Fair("agents", Agents!LeaseEnds(i1)))
  /\ SF_agentVars(Fair("agents", \E w \in {w1, w2} : Agents!Begin(w, i1)))
  /\ \A r \in {r1, r2} : WF_voiceVars(Fair("voice", Voice!Step(r)))
  /\ WF_captureVars(Fair("capture", Capture!Answers(1)))
  /\ WF_captureVars(Fair("capture", Capture!Receive(1)))
  /\ WF_captureVars(Fair("capture", Capture!Closed(1)))
  /\ WF_captureVars(Fair("capture", Capture!SessionTimer(1)))
  /\ WF_captureVars(Fair("capture", Capture!ForceTimer(1)))
  /\ WF_captureVars(Fair("capture", Capture!CloseTimer(1)))
  /\ WF_captureVars(Fair("capture", Capture!Disconnected(1)))

Spec == Init /\ [][Next]_vars /\ Fairness

\* Every request about a tab is answered, also by transactions that lock seat
\* and tab in opposite orders.
EveryCallEnds == Tab!EveryCallEnds

\* An owner who keeps asking gets a completed review, and it is remembered,
\* although a worker died in between.
ReviewEnds == part = "agents" => Agents!ReviewEnds /\ Agents!ReviewRemembered

\* Two requests that lock the rows of different days and one month never wait for
\* each other for ever.
RequestsEnd == Voice!RequestsEnd

\* Every session the service opened ends, whatever it acknowledges, and the tape
\* does not stay at "Opening mic" or "Printing final words" while the page is in view.
SessionsEnd == Capture!SessionsEnd /\ Capture!NeverStuck
=============================================================================
