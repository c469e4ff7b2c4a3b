---------------------------- MODULE VoiceCapture ----------------------------
(***************************************************************************)
(* The browser's microphone capture (useVoiceAllocation): sessions that    *)
(* are started one after the other, each an asynchronous start that waits  *)
(* five times, and callbacks of microphone, socket and timers in between.  *)
(***************************************************************************)
EXTENDS Integers, SequencesExt

CONSTANTS
  MaxSessions, MaxTurns,  \* bounds: starts, and utterances of a session
  None

VARIABLES
  status,    \* what the component shows
  current,   \* resourcesRef
  turns,     \* finalTurnsRef: utterances by session
  page,      \* in view; hidden or unmounted; in view again with what it showed
  s,         \* VoiceResources of every start
  provider,  \* the transcription service, by session
  inbox      \* events on their way to the browser, by session

vars == <<status, current, turns, page, s, provider, inbox>>

Ids == 1..MaxSessions
Unstarted == [pc |-> "none", mic |-> FALSE, audio |-> FALSE, prompt |-> FALSE,
              socket |-> "none", attached |-> FALSE, begun |-> FALSE, expected |-> FALSE, aborted |-> FALSE,
              stopping |-> FALSE, sent |-> {}, terminated |-> FALSE, pending |-> FALSE,
              awaiting |-> FALSE, failed |-> FALSE, timers |-> {}]
Silent == [phase |-> "none", heard |-> 0, final |-> 0]

Init ==
  /\ status = "idle" /\ current = None /\ turns = {} /\ page = "shown"
  /\ s = [i \in Ids |-> Unstarted] /\ provider = [i \in Ids |-> Silent]
  /\ inbox = [i \in Ids |-> <<>>]

InView == page \in {"shown", "restored"}

\* mountedRef.  It stays TRUE on a hidden page, where nothing has anything to show.
Show(new) == status' = IF InView THEN new ELSE status

Terminates(r) == IF r.socket = "open" THEN r.sent \cup {"terminate"} ELSE r.sent

Released(r) == [r EXCEPT !.mic = FALSE, !.audio = FALSE]

\* An open socket is closed with a Terminate; what nobody reads again is forgotten.
Disposed(r, close) ==
  [Released(r) EXCEPT !.aborted = TRUE, !.timers = {}, !.attached = FALSE,
     !.pending = FALSE, !.awaiting = FALSE, !.terminated = FALSE, !.failed = FALSE,
     !.sent = {},
     !.socket = IF close /\ @ \in {"connecting", "open"} THEN "closing" ELSE @]

Without(i) == IF current = i THEN None ELSE current

ShutDown(i) == Disposed([s[i] EXCEPT !.expected = TRUE], TRUE)

(***************************************************************************)
(* Starting                                                                *)
(***************************************************************************)
Start ==
  /\ InView /\ status \in {"idle", "error"}
  /\ \E i \in Ids :
       /\ s[i].pc = "none" /\ \A j \in 1..(i - 1) : s[j].pc # "none"
       /\ s' = [j \in Ids |-> IF j = i THEN [Unstarted EXCEPT !.pc = "asking", !.prompt = TRUE]
                              ELSE IF j = current THEN ShutDown(j) ELSE s[j]]
       /\ current' = i
  /\ turns' = {} /\ status' = "connecting" /\ page' = "shown"
  /\ UNCHANGED <<provider, inbox>>

\* The start's catch: nothing is said about a capture that was stopped.
Fail(i) ==
  IF s[i].expected \/ s[i].aborted
  THEN s' = [s EXCEPT ![i].pc = "ended"] /\ UNCHANGED <<status, current>>
  ELSE /\ s' = [s EXCEPT ![i] = [Disposed(@, TRUE) EXCEPT !.pc = "ended"]]
       /\ current' = Without(i) /\ Show("error")

Superseded(i) == current # i \/ s[i].expected

\* Go on to the next wait unless stopped or replaced meanwhile.
Proceed(i, r) ==
  IF Superseded(i) THEN s' = [s EXCEPT ![i].pc = "ended"] ELSE s' = [s EXCEPT ![i] = r]

Granted(i) ==
  /\ s[i].pc = "asking" /\ s[i].prompt
  /\ s' = [s EXCEPT ![i] =
       IF Superseded(i) THEN [Released(@) EXCEPT !.pc = "ended", !.prompt = FALSE]
       ELSE [@ EXCEPT !.pc = "token", !.mic = TRUE, !.prompt = FALSE]]
  /\ UNCHANGED <<status, current, turns, page, provider, inbox>>

\* Refused, or not answered within twelve seconds; then the prompt stays open.
NotGranted(i) ==
  /\ s[i].pc = "asking" /\ Fail(i)
  /\ UNCHANGED <<turns, page, provider, inbox>>

\* Seeded fault: a stream granted after the timeout is left alone.
LateStreamKept == TRUE

LateStream == FALSE

GrantedLate(i) ==
  /\ s[i].prompt /\ s[i].pc # "asking"
  /\ s' = [s EXCEPT ![i].prompt = FALSE, ![i].mic = LateStream]
  /\ UNCHANGED <<status, current, turns, page, provider, inbox>>

\* POST /api/voice/token answers, fails or is aborted.
Token(i) ==
  /\ s[i].pc = "token"
  /\ \/ Fail(i)
     \/ /\ ~s[i].aborted
        /\ Proceed(i, [s[i] EXCEPT !.pc = "opening", !.socket = "connecting", !.attached = TRUE])
        /\ UNCHANGED <<status, current>>
  /\ UNCHANGED <<turns, page, provider, inbox>>

\* The socket opens and the service's first frame is underway: Begin, or not.
Connect(i) ==
  /\ s[i].socket = "connecting"
  /\ s' = [s EXCEPT ![i].socket = "open"]
  /\ provider' = [provider EXCEPT ![i].phase = "open"]
  /\ \E first \in {"begin", "garbage"} : inbox' = [inbox EXCEPT ![i] = Append(@, <<first>>)]
  /\ UNCHANGED <<status, current, turns, page>>

\* No socket or no Begin in time, or the capture was stopped.
NotOpened(i) ==
  /\ s[i].pc = "opening" /\ Fail(i)
  /\ UNCHANGED <<turns, page, provider, inbox>>

\* The worklet module is loaded, or not.
Module(i) ==
  /\ s[i].pc = "module"
  /\ \/ Fail(i)
     \/ Proceed(i, [s[i] EXCEPT !.pc = "resuming"]) /\ UNCHANGED <<status, current>>
  /\ UNCHANGED <<turns, page, provider, inbox>>

\* audioContext.resume: it is not asked again whether the capture was stopped,
\* and a context that is being closed may still say that it runs.
Resumed(i) ==
  /\ s[i].pc = "resuming"
  /\ \/ Fail(i)
     \/ /\ s' = [s EXCEPT ![i].pc = "running", ![i].timers = @ \cup {"session"}]
        /\ IF current = i THEN Show("listening") ELSE UNCHANGED status
        /\ UNCHANGED current
  /\ UNCHANGED <<turns, page, provider, inbox>>

(***************************************************************************)
(* Stopping                                                                *)
(***************************************************************************)
\* Seeded fault: an utterance that has begun is not waited for.
PendingIgnored(r) == FALSE

Pending(r) == r.pending

\* Seeded fault: the service is trusted to end the session.
WatchdogsTrusting == {"force"}

Watchdogs == {"force", "close"}

\* requestGracefulStop.  Without a socket, or with one that the service has begun
\* to close, nothing is waited for.
GracefulStop(i, failing) ==
  LET r == [s[i] EXCEPT !.failed = @ \/ failing]
      stopped == [Released(r) EXCEPT !.stopping = TRUE, !.expected = TRUE, !.aborted = TRUE,
                    !.awaiting = Pending(r), !.timers = @ \ {"session"}] IN
  IF current # i THEN UNCHANGED <<s, current, status>>
  ELSE IF r.stopping THEN s' = [s EXCEPT ![i] = r] /\ UNCHANGED <<current, status>>
  ELSE IF r.socket = "open"
  THEN /\ s' = [s EXCEPT ![i] = [stopped EXCEPT !.sent = @ \cup {"force"}, !.timers = Watchdogs]]
       /\ Show("stopping") /\ UNCHANGED current
  ELSE /\ s' = [s EXCEPT ![i] = Disposed(stopped, r.socket = "connecting")]
       /\ current' = Without(i)
       /\ Show(IF r.failed THEN "error" ELSE "idle")

\* The button, or the tab that disables the tape; a page that was hidden may have
\* nothing to stop.
Stop ==
  /\ InView /\ status \in {"connecting", "listening"}
  /\ IF current = None THEN status' = "idle" /\ page' = "shown" /\ UNCHANGED <<s, current>>
     ELSE GracefulStop(current, FALSE) /\ UNCHANGED page
  /\ UNCHANGED <<turns, provider, inbox>>

\* Stream or track ended, or the audio engine was suspended or closed.
CaptureLost(i) ==
  /\ s[i].mic /\ GracefulStop(i, TRUE)
  /\ UNCHANGED <<turns, page, provider, inbox>>

SessionTimer(i) ==
  /\ "session" \in s[i].timers
  /\ IF current # i \/ s[i].stopping
     THEN s' = [s EXCEPT ![i].timers = @ \ {"session"}] /\ UNCHANGED <<current, status>>
     ELSE GracefulStop(i, FALSE)
  /\ UNCHANGED <<turns, page, provider, inbox>>

ForceTimer(i) ==
  /\ "force" \in s[i].timers
  /\ s' = [s EXCEPT ![i].timers = @ \ {"force"}, ![i].sent = Terminates(s[i])]
  /\ UNCHANGED <<status, current, turns, page, provider, inbox>>

\* Twelve seconds after the stop.
CloseTimer(i) ==
  /\ "close" \in s[i].timers
  /\ IF current # i \/ s[i].terminated
     THEN s' = [s EXCEPT ![i].timers = @ \ {"close"}] /\ UNCHANGED <<status, current>>
     ELSE /\ s' = [s EXCEPT ![i] = Disposed(@, TRUE)]
          /\ current' = Without(i) /\ Show("error")
  /\ UNCHANGED <<turns, page, provider, inbox>>

\* Unmount or pagehide.  A hidden page keeps what it showed, and the browser may
\* bring it back as it was; an unmounted component is one that is not brought back.
Leave ==
  /\ InView /\ page' = "away"
  /\ s' = IF current = None THEN s ELSE [s EXCEPT ![current] = ShutDown(current)]
  /\ current' = None
  /\ UNCHANGED <<status, turns, provider, inbox>>

Restore ==
  /\ page = "away"
  /\ page' = IF status \in {"idle", "error"} THEN "shown" ELSE "restored"
  /\ UNCHANGED <<status, current, turns, s, provider, inbox>>

ClearTranscript ==
  /\ InView /\ status \in {"idle", "error"} /\ turns # {}
  /\ turns' = {}
  /\ UNCHANGED <<status, current, page, s, provider, inbox>>

(***************************************************************************)
(* The socket's events                                                     *)
(***************************************************************************)
Hears(i) == s[i].attached /\ current = i

\* Termination: the service has ended the session; the browser closes the socket.
Ended(r) ==
  [r EXCEPT !.terminated = TRUE, !.expected = TRUE,
     !.failed = @ \/ ~r.stopping \/ (r.begun /\ r.awaiting),
     !.socket = IF @ = "open" THEN "closing" ELSE @]

Receive(i) ==
  LET event == Head(inbox[i])[1]  r == s[i] IN
  /\ inbox[i] # <<>> /\ inbox' = [inbox EXCEPT ![i] = Tail(@)]
  /\ \/ ~Hears(i) /\ UNCHANGED <<s, status, current, turns>>
     \/ /\ Hears(i) /\ ~r.begun
        /\ CASE event = "begin" /\ r.pc = "opening" /\ ~r.expected ->
                  /\ s' = [s EXCEPT ![i].pc = "module", ![i].begun = TRUE, ![i].audio = TRUE]
                  /\ UNCHANGED <<status, current>>
             [] event = "termination" -> s' = [s EXCEPT ![i] = Ended(@)] /\ UNCHANGED <<status, current>>
             [] event = "garbage" /\ r.pc = "opening" -> Fail(i)
             [] OTHER -> UNCHANGED <<s, status, current>>
        /\ UNCHANGED turns
     \/ /\ Hears(i) /\ r.begun
        /\ CASE event = "speech" ->
                  /\ s' = [s EXCEPT ![i].pending = TRUE, ![i].awaiting = @ \/ r.stopping]
                  /\ UNCHANGED <<status, current>>
             [] event = "termination" -> s' = [s EXCEPT ![i] = Ended(@)] /\ UNCHANGED <<status, current>>
             [] event = "garbage" -> GracefulStop(i, TRUE)
             [] event = "final" ->
                  /\ s' = [s EXCEPT ![i] = IF r.stopping
                       THEN [r EXCEPT !.pending = FALSE, !.awaiting = FALSE,
                               !.timers = r.timers \ {"force"}, !.sent = Terminates(r)]
                       ELSE [r EXCEPT !.pending = FALSE]]
                  /\ UNCHANGED <<status, current>>
             [] OTHER -> UNCHANGED <<s, status, current>>
        /\ turns' = IF event = "final" THEN turns \cup {<<i, Head(inbox[i])[2]>>} ELSE turns
  /\ UNCHANGED <<page, provider>>

\* The service begins to close: everything before has been delivered, onclose is
\* still to come.
ServiceCloses(i) ==
  /\ s[i].socket = "open" /\ provider[i].phase = "ended" /\ inbox[i] = <<>>
  /\ s' = [s EXCEPT ![i].socket = "closing"]
  /\ UNCHANGED <<status, current, turns, page, provider, inbox>>

\* onclose, once everything before it has been delivered; without a closing
\* handshake the socket was open until then.
Closed(i) ==
  /\ s[i].socket = "closing" \/ (s[i].socket = "open" /\ provider[i].phase = "ended")
  /\ inbox[i] = <<>>
  /\ IF ~s[i].attached
     THEN s' = [s EXCEPT ![i].socket = "closed"] /\ UNCHANGED <<status, current>>
     ELSE /\ s' = [s EXCEPT ![i] = Disposed([@ EXCEPT !.socket = "closed"], FALSE)]
          /\ current' = Without(i)
          /\ Show(IF s[i].failed \/ ~(s[i].expected /\ s[i].terminated) THEN "error" ELSE "idle")
  /\ UNCHANGED <<turns, page, provider, inbox>>

(***************************************************************************)
(* The service hears what is captured, and may end or drop the session.    *)
(***************************************************************************)
Hear(i) ==
  /\ provider[i].phase = "open" /\ s[i].pc = "running" /\ s[i].mic
  /\ "terminate" \notin s[i].sent
  /\ provider[i].heard = provider[i].final /\ provider[i].heard < MaxTurns
  /\ provider' = [provider EXCEPT ![i].heard = @ + 1]
  /\ inbox' = [inbox EXCEPT ![i] = Append(@, <<"speech">>)]
  /\ UNCHANGED <<status, current, turns, page, s>>

Finalize(i) ==
  /\ provider[i].phase = "open" /\ provider[i].final < provider[i].heard
  /\ provider' = [provider EXCEPT ![i].final = @ + 1]
  /\ inbox' = [inbox EXCEPT ![i] = Append(@, <<"final", provider[i].final + 1>>)]
  /\ UNCHANGED <<status, current, turns, page, s>>

Terminate(i) ==
  /\ provider[i].phase = "open"
  /\ provider' = [provider EXCEPT ![i].phase = "ended"]
  /\ \E ending \in {<< <<"termination">> >>, << <<"garbage">> >>, <<>>} : inbox' = [inbox EXCEPT ![i] = @ \o ending]
  /\ UNCHANGED <<status, current, turns, page, s>>

\* The connection is gone.
Disconnected(i) ==
  /\ provider[i].phase = "open" /\ s[i].socket \in {"closing", "closed"}
  /\ provider' = [provider EXCEPT ![i].phase = "ended"]
  /\ UNCHANGED <<status, current, turns, page, s, inbox>>

Answers(i) == (Granted(i) \/ NotGranted(i)) \/ Token(i) \/ NotOpened(i) \/ Module(i) \/ Resumed(i)
Events(i) == Receive(i) \/ Closed(i) \/ SessionTimer(i) \/ ForceTimer(i) \/ CloseTimer(i)

Next ==
  \/ Start \/ Stop \/ Leave \/ Restore \/ ClearTranscript
  \/ \E i \in Ids :
       \/ Answers(i) \/ GrantedLate(i) \/ Connect(i) \/ CaptureLost(i) \/ Events(i)
       \/ Hear(i) \/ Finalize(i) \/ Terminate(i) \/ ServiceCloses(i) \/ Disconnected(i)

Spec == Init /\ [][Next]_vars

\* The browser answers, its timers fire and its events arrive; nothing is asked
\* of the service, nor of the speaker.
FairSpec ==
  /\ Spec
  /\ \A i \in Ids :
       /\ WF_vars(Answers(i)) /\ WF_vars(Receive(i)) /\ WF_vars(Closed(i))
       /\ WF_vars(SessionTimer(i)) /\ WF_vars(ForceTimer(i)) /\ WF_vars(CloseTimer(i))
       /\ WF_vars(Disconnected(i))

(***************************************************************************)
(* Properties                                                              *)
(***************************************************************************)
\* VoiceResources of a start, a session of the service, and what the service says.
Resources ==
  [pc : {"none", "asking", "token", "opening", "module", "resuming", "running", "ended"},
   mic : BOOLEAN, audio : BOOLEAN, prompt : BOOLEAN,
   socket : {"none", "connecting", "open", "closing", "closed"},
   attached : BOOLEAN, begun : BOOLEAN, expected : BOOLEAN, aborted : BOOLEAN,
   stopping : BOOLEAN, sent : SUBSET {"force", "terminate"}, terminated : BOOLEAN,
   pending : BOOLEAN, awaiting : BOOLEAN, failed : BOOLEAN,
   timers : SUBSET {"session", "force", "close"}]
Streams == [phase : {"none", "open", "ended"}, heard : 0..MaxTurns, final : 0..MaxTurns]
Event ==
  {<<"begin">>, <<"garbage">>, <<"speech">>, <<"termination">>}
    \cup {<<"final", n>> : n \in 1..MaxTurns}

\* Type correctness; the resources exist exactly while something is shown to be
\* going on, but for a page that was hidden.
CaptureTypeOK ==
  /\ status \in {"idle", "connecting", "listening", "stopping", "error"}
  /\ current \in Ids \cup {None} /\ turns \subseteq Ids \X (1..MaxTurns)
  /\ page \in {"shown", "away", "restored"}
  /\ s \in [Ids -> Resources]
  /\ provider \in [Ids -> Streams] /\ inbox \in [Ids -> Seq(Event)]
  /\ \A i \in Ids : provider[i].final <= provider[i].heard
  /\ page = "shown" => (current = None <=> status \in {"idle", "error"})

\* Nobody is recorded unseen: microphone and audio engine belong to the capture
\* that is shown, however late the browser granted them, and are released when it
\* stops, ends or is replaced, or the page is left.
MicrophoneReleased ==
  \A i \in Ids : s[i].mic \/ s[i].audio =>
    /\ current = i /\ page = "shown" /\ ~s[i].stopping
    /\ status \in {"connecting", "listening"}

\* No paid session without an owner: what the service keeps open for a capture
\* that is no longer the current one has been closed by the browser.
SessionsOwned ==
  \A i \in Ids : provider[i].phase = "open" /\ current # i => s[i].socket \in {"closing", "closed"}

\* The transcript is that of the latest capture, whatever arrives late.
TranscriptOfLatest == \A t \in turns, i \in Ids : s[i].pc # "none" => i <= t[1]

Delivered(i) == \A n \in 1..provider[i].heard : <<i, n>> \in turns

\* The capture ends here, and the tape shows no error.
EndsWell(i) == current = i /\ current' = None /\ page' = "shown" /\ status' = "idle"

\* Words are not lost in silence: a capture that ends without an error has
\* delivered every utterance the service had heard, unless it is stopped while the
\* service is closing the socket by itself.
WordsDelivered ==
  [][\A i \in Ids : EndsWell(i) /\ (s[i].stopping \/ s[i].socket # "closing") => Delivered(i)]_vars

\* "prevents a billable session from lingering": every session the service opened
\* ends, also when it never acknowledges anything.
SessionsEnd == \A i \in Ids : provider[i].phase = "open" ~> provider[i].phase = "ended"

Waiting == status \in {"connecting", "stopping"}

\* The tape does not stay at "Opening mic" or "Printing final words" while the page
\* is in view.
NeverStuck == page = "shown" /\ Waiting ~> page # "shown" \/ ~Waiting

(***************************************************************************)
(* Not kept by the code; see the README, "Disagreements".  No run expects  *)
(* them to hold.                                                           *)
(***************************************************************************)
\* "Force the in-flight utterance to become a final Turn": also a stop that meets a
\* socket in CLOSING ends without an error only when every word has arrived.
WordsNeverLost == [][\A i \in Ids : EndsWell(i) => Delivered(i)]_vars

\* The tape does not stay there on a page that was brought back either.
NeverStuckAgain == InView /\ Waiting ~> ~InView \/ ~Waiting
=============================================================================
