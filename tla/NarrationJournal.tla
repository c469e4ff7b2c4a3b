-------------------------- MODULE NarrationJournal --------------------------
(***************************************************************************)
(* The one-shot narration of the release video: the journal of a single    *)
(* operation, the route that may ask the speech provider once in its life, *)
(* and the local runner that fetches the recording and writes four files.  *)
(*                                                                         *)
(* Runners and handlers fail on their own: a runner that gave up waiting   *)
(* leaves its handler working, a handler that died leaves its reservation. *)
(***************************************************************************)
EXTENDS Naturals, Sequences, FiniteSets

CONSTANTS
  Handlers,    \* requests of POST /api/operator/v3-narration in flight
  Runners,     \* processes of run-runtime-narration.mjs
  Subjects,    \* principals behind the bearer tokens that hold the capability
  NoSubject,
  Recordings,  \* what the provider may return: no two syntheses are the same
  NoRecording,
  MaxFaults    \* bound on crashes and lost answers

ASSUME NarrationAssumption == NoRecording \notin Recordings /\ MaxFaults \in Nat

VARIABLES
  journal,   \* the row of the operation, by state
  spoken,    \* what the provider synthesised, in order: each was paid for
  account,   \* included characters of the provider's account, in narrations
  expired,   \* whether 2026-08-12T08:00:00Z has passed
  handler,   \* the requests
  runner,    \* the local processes
  files,     \* the four files beside the video
  faults

vars == <<journal, spoken, account, expired, handler, runner, files, faults>>

NoJournal == [state |-> "none", actor |-> NoSubject, audio |-> NoRecording]
Quiet == [pc |-> "idle", subject |-> NoSubject, got |-> NoRecording]
Resting == [pc |-> "idle", on |-> "none", audio |-> NoRecording]
FileNames == <<"audio", "ledger", "manifest", "receipt">>

Init ==
  /\ journal = NoJournal
  /\ spoken = <<>>
  /\ account \in 0..2
  /\ expired = FALSE
  /\ handler = [h \in Handlers |-> Quiet]
  /\ runner = [p \in Runners |-> Resting]
  /\ files = [f \in {FileNames[n] : n \in 1..4} |-> NoRecording]
  /\ faults = 0

----------------------------------------------------------------------------
(* The four functions of the journal.                                      *)

\* Everything but a completion with the same subject is refused.
Bound(subject) == journal.actor = subject

\* Seeded fault: a row that did not come to a recording is taken again.
AcquiresUnlessDone == journal.state # "completed"

\* Seeded fault: a failed operation may be tried again.
AcquiresAfterFailure == journal.state \in {"none", "failed"}

\* Insert if nothing is there; the row decides for whoever comes second.
Acquires == journal.state = "none"
Reserved(subject) ==
  IF Acquires THEN [NoJournal EXCEPT !.state = "reserved", !.actor = subject]
  ELSE journal

Completable(subject) == journal.state = "reserved" /\ Bound(subject)
Completed(audio) == [journal EXCEPT !.state = "completed", !.audio = audio]
Failable(subject) == journal.state = "reserved" /\ Bound(subject)
Failed == [journal EXCEPT !.state = "failed"]

----------------------------------------------------------------------------
(* The handler.  Each database call and each provider call is a step; the  *)
(* answer goes to the runner that still waits, or to nobody.               *)

Waiting(h) == {p \in Runners : runner[p].pc = "waiting" /\ runner[p].on = h}

\* The request is over: an audio is handed to the runner, anything else makes
\* it stop with a code.
Tell(h, audio) ==
  /\ handler' = [handler EXCEPT ![h] = Quiet]
  /\ runner' = [p \in Runners |->
       IF p \notin Waiting(h) THEN runner[p]
       ELSE IF audio = NoRecording THEN Resting
       ELSE [pc |-> "check", on |-> "none", audio |-> audio]]

Goto(h, pc) ==
  /\ handler' = [handler EXCEPT ![h].pc = pc]
  /\ UNCHANGED runner

\* What an existing row answers: the stored artifact, or a refusal.
Existing(row, subject) ==
  IF row.state = "completed" /\ row.actor = subject THEN row.audio ELSE NoRecording

\* A database call or the provider's answer is lost: part of what was asked
\* may have happened.
Fault == faults < MaxFaults /\ faults' = faults + 1

\* The route: bearer token, capability, body and the deadline of the operation.
Post(p, h, subject) ==
  /\ runner[p].pc = "idle" /\ handler[h].pc = "idle" /\ ~expired
  /\ runner' = [runner EXCEPT ![p] = [Resting EXCEPT !.pc = "waiting", !.on = h]]
  /\ handler' = [handler EXCEPT ![h] = [Quiet EXCEPT !.pc = "read", !.subject = subject]]
  /\ UNCHANGED <<journal, spoken, account, expired, files, faults>>

\* store.read: an expired operation, another subject's row and a lost answer
\* are errors; an existing row ends the request.
Read(h) ==
  /\ handler[h].pc = "read"
  /\ \/ /\ ~expired /\ journal.state = "none"
        /\ Goto(h, "quota")
     \/ /\ expired \/ journal.state # "none"
        /\ Tell(h, IF expired THEN NoRecording ELSE Existing(journal, handler[h].subject))
  /\ UNCHANGED <<journal, spoken, account, expired, files, faults>>

\* The account must have the narration included and be unable to extend, and
\* say so; else the request is denied.
Quota(h) ==
  /\ handler[h].pc = "quota"
  /\ \/ account >= 1 /\ Goto(h, "reserve")
     \/ Tell(h, NoRecording)
  /\ UNCHANGED <<journal, spoken, account, expired, files, faults>>

\* store.reserve.  The preflight of two minutes may be too old by now.
Reserve(h) ==
  LET subject == handler[h].subject IN
  /\ handler[h].pc = "reserve"
  /\ \/ /\ expired
        /\ Tell(h, NoRecording)
        /\ UNCHANGED <<journal, faults>>
     \/ /\ ~expired
        /\ journal' = Reserved(subject)
        /\ IF Acquires THEN Goto(h, "post")
           ELSE Tell(h, Existing(journal, subject))
        /\ UNCHANGED faults
     \/ /\ Fault
        /\ journal' \in {journal, IF expired THEN journal ELSE Reserved(subject)}
        /\ Tell(h, NoRecording)
  /\ UNCHANGED <<spoken, account, expired, files>>

\* A served recording is of no use: no body, too short or too long, or it never arrives.
Unusable(h) == Fault /\ handler' = [handler EXCEPT ![h].pc = "fail"]

\* The provider serves what the account still includes and refuses the rest.
Synthesise(h) ==
  /\ handler[h].pc = "post"
  /\ \/ /\ account >= 1
        /\ \E audio \in Recordings :
             /\ spoken' = Append(spoken, audio)
             /\ \/ /\ handler' = [handler EXCEPT ![h].pc = "complete", ![h].got = audio]
                   /\ UNCHANGED faults
                \/ Unusable(h)
        /\ account' = account - 1
     \/ /\ account = 0
        /\ handler' = [handler EXCEPT ![h].pc = "fail"]
        /\ UNCHANGED <<spoken, account, faults>>
  /\ UNCHANGED <<journal, expired, runner, files>>

\* store.complete, and the check of what came back.  The deadline of the
\* operation does not matter here.
Complete(h) ==
  LET subject == handler[h].subject
      audio == handler[h].got
  IN
  /\ handler[h].pc = "complete"
  /\ \/ /\ Completable(subject)
        /\ journal' = Completed(audio)
        /\ Tell(h, audio)
        /\ UNCHANGED faults
     \/ /\ ~Completable(subject)
        /\ Tell(h, IF Existing(journal, subject) = audio THEN audio ELSE NoRecording)
        /\ UNCHANGED <<journal, faults>>
     \/ /\ Fault
        /\ journal' \in {journal, IF Completable(subject) THEN Completed(audio) ELSE journal}
        /\ Tell(h, NoRecording)
  /\ UNCHANGED <<spoken, account, expired, files>>

\* bestEffortFailure: whether or not the row took it, the request has failed.
Fail(h) ==
  /\ handler[h].pc = "fail"
  /\ \/ /\ journal' = IF Failable(handler[h].subject) THEN Failed ELSE journal
        /\ UNCHANGED faults
     \/ /\ Fault
        /\ UNCHANGED journal
  /\ Tell(h, NoRecording)
  /\ UNCHANGED <<spoken, account, expired, files>>

HandlerDies(h) ==
  /\ handler[h].pc # "idle"
  /\ Fault
  /\ Tell(h, NoRecording)
  /\ UNCHANGED <<journal, spoken, account, expired, files>>

Handle(h) ==
  Read(h) \/ Quota(h) \/ Reserve(h) \/ Synthesise(h) \/ Complete(h) \/ Fail(h)

----------------------------------------------------------------------------
(* The runner, once it holds a verified recording.                         *)

\* Files already written must be of this recording.
Check(p) ==
  /\ runner[p].pc = "check"
  /\ runner' = [runner EXCEPT ![p] =
       IF \A f \in {"audio", "ledger", "manifest"} : files[f] \in {NoRecording, runner[p].audio}
       THEN [runner[p] EXCEPT !.pc = "audio"]
       ELSE Resting]
  /\ UNCHANGED <<journal, spoken, account, expired, handler, files, faults>>

\* Each file is replaced atomically, in this order.
Write(p) ==
  /\ \E n \in 1..4 :
       /\ runner[p].pc = FileNames[n]
       /\ files' = [files EXCEPT ![FileNames[n]] = runner[p].audio]
       /\ runner' = [runner EXCEPT ![p] =
            IF n = 4 THEN Resting ELSE [runner[p] EXCEPT !.pc = FileNames[n + 1]]]
  /\ UNCHANGED <<journal, spoken, account, expired, handler, faults>>

\* A runner is killed, or its 190 seconds are over.
RunnerDies(p) ==
  /\ runner[p].pc # "idle"
  /\ Fault
  /\ runner' = [runner EXCEPT ![p] = Resting]
  /\ UNCHANGED <<journal, spoken, account, expired, handler, files>>

----------------------------------------------------------------------------
\* Other work on the account uses characters up; nothing can extend them.
OthersSpeak ==
  /\ account > 0
  /\ account' = account - 1
  /\ UNCHANGED <<journal, spoken, expired, handler, runner, files, faults>>

Expire ==
  /\ ~expired
  /\ expired' = TRUE
  /\ UNCHANGED <<journal, spoken, account, handler, runner, files, faults>>

Next ==
  \/ \E p \in Runners, h \in Handlers, s \in Subjects : Post(p, h, s)
  \/ \E h \in Handlers : Handle(h) \/ HandlerDies(h)
  \/ \E p \in Runners : Check(p) \/ Write(p) \/ RunnerDies(p)
  \/ OthersSpeak \/ Expire

\* The provider, the database and the runner answer in the end.
Fairness ==
  /\ \A h \in Handlers : WF_vars(Handle(h))
  /\ \A p \in Runners : WF_vars(Check(p) \/ Write(p))

Spec == Init /\ [][Next]_vars /\ Fairness

(***************************************************************************)
(* Properties                                                              *)
(***************************************************************************)
NarrationTypeOK ==
  /\ journal \in [state : {"none", "reserved", "completed", "failed"},
                  actor : Subjects \cup {NoSubject}, audio : Recordings \cup {NoRecording}]
  /\ spoken \in Seq(Recordings) /\ account \in 0..2 /\ faults \in 0..MaxFaults
  /\ \A h \in Handlers : handler[h].got \in Recordings \cup {NoRecording}
  /\ \A p \in Runners : runner[p].on \in Handlers \cup {"none"}

\* The provider is asked at most once in the life of the operation, whatever
\* crashes, retries, concurrent runners or second principals there are, and
\* all that anybody is given, or has on disk, is that one recording.
SpokenOnce ==
  /\ NarrationTypeOK
  /\ Len(spoken) <= 1
  /\ \A a \in {journal.audio}
            \cup {runner[p].audio : p \in Runners}
            \cup {files[f] : f \in DOMAIN files} :
       a # NoRecording => spoken = <<a>> /\ journal.audio = a
  /\ \A n \in 1..3 : files[FileNames[n]] = NoRecording => files[FileNames[n + 1]] = NoRecording

\* The journal's row is used up by its reservation: it never becomes available
\* again, never changes hands, and an outcome recorded is never replaced by
\* another, whatever late handler writes to it.
NeverRetryable ==
  [][/\ journal.state # "none" => journal'.state # "none" /\ journal'.actor = journal.actor
     /\ journal.state \in {"completed", "failed"} => journal' = journal]_journal
=============================================================================
