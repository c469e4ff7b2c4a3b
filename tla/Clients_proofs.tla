--------------------------- MODULE Clients_proofs --------------------------
(***************************************************************************)
(* Theorems about the programs outside the server, for any number of       *)
(* requests, processes, executions, captures and utterances: the           *)
(* narration asks its provider once at most and never uses the journal's   *)
(* row again; the command-line tools deploy an init code once for as long  *)
(* as KeeperHub remembers its key, and call deployed or settled only what  *)
(* has landed; the browser tells of lost words, records nobody             *)
(* unseen and leaves no paid session behind.                               *)
(***************************************************************************)
EXTENDS MCClients, SequenceTheorems, TLAPS

(***************************************************************************)
(* The one-shot narration.                                                 *)
(***************************************************************************)
HandlerSteps == {"idle", "read", "quota", "reserve", "post", "complete", "fail"}
RunnerSteps == {"idle", "waiting", "check", "audio", "ledger", "manifest", "receipt"}
FileSet == {"audio", "ledger", "manifest", "receipt"}
MaybeAudio == Recordings \cup {NoRecording}

\* Every variable has its type.
Typed ==
  /\ journal \in [state : {"none", "reserved", "completed", "failed"},
                  actor : Subjects \cup {NoSubject}, audio : MaybeAudio]
  /\ spoken \in Seq(Recordings) /\ account \in 0..2 /\ faults \in 0..MaxFaults
  /\ handler \in [Handlers -> [pc : HandlerSteps, subject : Subjects \cup {NoSubject},
                               got : MaybeAudio]]
  /\ runner \in [Runners -> [pc : RunnerSteps, on : Handlers \cup {"none"},
                             audio : MaybeAudio]]
  /\ files \in [FileSet -> MaybeAudio]

\* A request past its reservation: the only one, and the row is its own.
Acting(h) == handler[h].pc \in {"post", "complete", "fail"}
ReservationHeld ==
  /\ \A h \in Handlers : Acting(h) =>
       journal.state = "reserved" /\ journal.actor = handler[h].subject
  /\ \A h, g \in Handlers : Acting(h) /\ Acting(g) => h = g

\* What was synthesised, by the state of the row and of the request that acts.
SpeechFollows ==
  /\ journal.state = "none" => spoken = <<>>
  /\ \A h \in Handlers : handler[h].pc = "post" => spoken = <<>>
  /\ \A h \in Handlers : handler[h].pc = "complete" =>
       handler[h].got \in Recordings /\ spoken = <<handler[h].got>>
  /\ Len(spoken) <= 1
  /\ journal.state # "completed" => journal.audio = NoRecording
  /\ journal.audio # NoRecording => spoken = <<journal.audio>>

\* Whoever has a recording has the row's; a runner that writes has one.
CopiesFollow ==
  /\ \A p \in Runners : runner[p].audio \in {NoRecording, journal.audio}
  /\ \A p \in Runners : runner[p].pc \notin {"idle", "waiting"} => runner[p].audio # NoRecording
  /\ \A f \in FileSet : files[f] \in {NoRecording, journal.audio}

\* The files are there in the order they are written.
InOrder ==
  /\ files["receipt"] # NoRecording => files["manifest"] # NoRecording
  /\ files["manifest"] # NoRecording => files["ledger"] # NoRecording
  /\ files["ledger"] # NoRecording => files["audio"] # NoRecording
  /\ \A p \in Runners :
       /\ runner[p].pc = "ledger" => files["audio"] # NoRecording
       /\ runner[p].pc = "manifest" => files["ledger"] # NoRecording
       /\ runner[p].pc = "receipt" => files["manifest"] # NoRecording

Narrated == Typed /\ ReservationHeld /\ SpeechFollows /\ CopiesFollow /\ InOrder
-----------------------------------------------------------------------------
\* The state in which nobody has asked yet satisfies the invariant.
LEMMA NarrationStarts == ASSUME Init PROVE Narrated
<1>1. {FileNames[n] : n \in 1..4} = FileSet
  BY DEF FileNames, FileSet
<1> USE NarrationAssumption DEF Init, NoJournal, Quiet, Resting
<1>2. Typed
  BY <1>1 DEF Typed, MaybeAudio, HandlerSteps, RunnerSteps
<1>3. ReservationHeld /\ SpeechFollows
  BY DEF ReservationHeld, Acting, SpeechFollows
<1>4. CopiesFollow /\ InOrder
  BY <1>1 DEF CopiesFollow, InOrder, FileSet
<1> QED BY <1>2, <1>3, <1>4 DEF Narrated

\* The end of a request: its handler is free, and a runner that waited for it
\* stops, or holds the recording it was given.
LEMMA Told ==
  ASSUME Typed, NEW h \in Handlers, NEW a \in MaybeAudio, Tell(h, a)
  PROVE  /\ handler' \in [Handlers -> [pc : HandlerSteps, subject : Subjects \cup {NoSubject},
                                       got : MaybeAudio]]
         /\ handler'[h].pc = "idle"
         /\ \A g \in Handlers : g # h => handler'[g] = handler[g]
         /\ runner' \in [Runners -> [pc : RunnerSteps, on : Handlers \cup {"none"},
                                     audio : MaybeAudio]]
         /\ \A p \in Runners :
              \/ runner'[p] = runner[p]
              \/ runner'[p] = Resting
              \/ a # NoRecording /\ runner'[p] = [pc |-> "check", on |-> "none", audio |-> a]
  BY DEF Typed, Tell, Quiet, Resting, HandlerSteps, RunnerSteps, MaybeAudio

\* Telling a runner what the row holds, or nothing, keeps its copy and the
\* files in step with the row, which has lost no recording.
LEMMA ToldCopies ==
  ASSUME Narrated, NEW h \in Handlers,
         NEW a \in {NoRecording, journal'.audio}, a \in MaybeAudio, Tell(h, a),
         journal.audio \in {NoRecording, journal'.audio}, UNCHANGED files
  PROVE  CopiesFollow' /\ InOrder'
<1>1. \A p \in Runners :
         \/ runner'[p] = runner[p]
         \/ runner'[p] = Resting
         \/ a # NoRecording /\ runner'[p] = [pc |-> "check", on |-> "none", audio |-> a]
  BY Told DEF Narrated
<1>2. CopiesFollow'
  BY <1>1 DEF Narrated, CopiesFollow, Resting
<1>3. InOrder'
  BY <1>1 DEF Narrated, InOrder, Resting
<1> QED BY <1>2, <1>3

\* The end of a request that writes no row keeps the invariant.
LEMMA ToldKeeps ==
  ASSUME Narrated, NEW h \in Handlers,
         NEW a \in {NoRecording, journal.audio}, Tell(h, a), faults' \in 0..MaxFaults,
         UNCHANGED <<journal, spoken, account, files>>
  PROVE  Narrated'
<1>1. a \in MaybeAudio
  BY DEF Narrated, Typed, MaybeAudio
<1>2. /\ handler' \in [Handlers -> [pc : HandlerSteps, subject : Subjects \cup {NoSubject},
                                    got : MaybeAudio]]
      /\ handler'[h].pc = "idle"
      /\ \A g \in Handlers : g # h => handler'[g] = handler[g]
      /\ runner' \in [Runners -> [pc : RunnerSteps, on : Handlers \cup {"none"},
                                  audio : MaybeAudio]]
  BY <1>1, Told DEF Narrated
<1>3. Typed'
  BY <1>2 DEF Narrated, Typed
<1>4. ReservationHeld'
  BY <1>2 DEF Narrated, ReservationHeld, Acting
<1>5. SpeechFollows'
  BY <1>2 DEF Narrated, SpeechFollows
<1>6. CopiesFollow' /\ InOrder'
  BY <1>1, ToldCopies
<1> QED BY <1>3, <1>4, <1>5, <1>6 DEF Narrated

\* A request that goes on to a step before its reservation keeps it too.
LEMMA NarrationGotoKeeps ==
  ASSUME Narrated, NEW h \in Handlers,
         NEW pc \in {"quota", "reserve"}, Goto(h, pc),
         UNCHANGED <<journal, spoken, account, files, faults>>
  PROVE  Narrated'
<1> USE DEF Narrated, Goto
<1>1. Typed'
  BY DEF Typed, HandlerSteps
<1>2. ReservationHeld'
  BY DEF Typed, ReservationHeld, Acting
<1>3. SpeechFollows'
  BY DEF Typed, SpeechFollows
<1>4. CopiesFollow' /\ InOrder'
  BY DEF CopiesFollow, InOrder
<1> QED BY <1>1, <1>2, <1>3, <1>4
-----------------------------------------------------------------------------
(* One lemma for each action of a request: it keeps the invariant.         *)

\* A new request starts before the row is looked at: it acts on nothing yet.
LEMMA PostKeeps ==
  ASSUME Narrated,
         NEW p \in Runners, NEW h \in Handlers, NEW u \in Subjects, Post(p, h, u)
  PROVE  Narrated'
<1> USE DEF Narrated, Post, Quiet, Resting
<1>1. Typed'
  BY DEF Typed, HandlerSteps, RunnerSteps, MaybeAudio
<1>2. ReservationHeld'
  BY DEF Typed, ReservationHeld, Acting
<1>3. SpeechFollows'
  BY DEF Typed, SpeechFollows
<1>4. CopiesFollow'
  BY DEF Typed, CopiesFollow
<1>5. InOrder'
  BY DEF Typed, InOrder
<1> QED BY <1>1, <1>2, <1>3, <1>4, <1>5

\* Reading tells the stored recording, or goes on to the quota.
LEMMA ReadKeeps ==
  ASSUME Narrated, NEW h \in Handlers, Read(h)
  PROVE  Narrated'
<1> DEFINE told == IF expired THEN NoRecording ELSE Existing(journal, handler[h].subject)
<1>1. told \in {NoRecording, journal.audio}
  BY DEF Existing
<1>2. faults' \in 0..MaxFaults /\ UNCHANGED <<journal, spoken, account, files, faults>>
  BY DEF Narrated, Typed, Read
<1>3. Goto(h, "quota") \/ Tell(h, told)
  BY DEF Read
<1> HIDE DEF told
<1> QED BY <1>1, <1>2, <1>3, ToldKeeps, NarrationGotoKeeps

\* The quota lets the request go on, or ends it.
LEMMA QuotaKeeps ==
  ASSUME Narrated, NEW h \in Handlers, Quota(h)
  PROVE  Narrated'
<1>1. faults' \in 0..MaxFaults /\ UNCHANGED <<journal, spoken, account, files, faults>>
  BY DEF Narrated, Typed, Quota
<1>2. Goto(h, "reserve") \/ Tell(h, NoRecording)
  BY DEF Quota
<1> QED BY <1>1, <1>2, ToldKeeps, NarrationGotoKeeps

\* A handler that dies leaves its reservation and whatever it paid for.
LEMMA HandlerDiesKeeps ==
  ASSUME Narrated, NEW h \in Handlers, HandlerDies(h)
  PROVE  Narrated'
<1>1. faults' \in 0..MaxFaults
  BY NarrationAssumption DEF Narrated, Typed, HandlerDies, Fault
<1> QED BY <1>1, ToldKeeps DEF HandlerDies

\* A reservation is made of an untouched row: nobody acts yet and nothing was
\* spoken, whether or not the request learns of it.
LEMMA ReserveKeeps ==
  ASSUME Narrated, NEW h \in Handlers, Reserve(h)
  PROVE  Narrated'
<1> DEFINE subject == handler[h].subject
<1> DEFINE told == Existing(journal, subject)
<1>1. /\ UNCHANGED <<spoken, account, files>>
      /\ faults' \in 0..MaxFaults
      /\ subject \in Subjects \cup {NoSubject}
      /\ told \in {NoRecording, journal.audio}
  BY NarrationAssumption DEF Narrated, Typed, Reserve, Fault, Existing
<1>2. CASE journal' = journal /\ (Tell(h, NoRecording) \/ Tell(h, told))
  <2> HIDE DEF told
  <2> QED BY <1>1, <1>2, ToldKeeps
<1>3. CASE /\ Acquires
           /\ journal' = [NoJournal EXCEPT !.state = "reserved", !.actor = subject]
           /\ Goto(h, "post") \/ Tell(h, NoRecording)
  <2>1. /\ spoken = <<>> /\ journal.audio = NoRecording
        /\ \A g \in Handlers : ~Acting(g)
    BY <1>3 DEF Narrated, SpeechFollows, ReservationHeld, Acquires
  <2>2. /\ journal'.state = "reserved" /\ journal'.actor = subject
        /\ journal'.audio = NoRecording /\ journal' \in
             [state : {"none", "reserved", "completed", "failed"},
              actor : Subjects \cup {NoSubject}, audio : MaybeAudio]
    BY <1>1, <1>3 DEF NoJournal, MaybeAudio
  <2>3. /\ handler' \in [Handlers -> [pc : HandlerSteps, subject : Subjects \cup {NoSubject},
                                      got : MaybeAudio]]
        /\ runner' \in [Runners -> [pc : RunnerSteps, on : Handlers \cup {"none"},
                                    audio : MaybeAudio]]
        /\ handler'[h].pc \in {"post", "idle"}
        /\ handler'[h].pc = "post" => handler'[h].subject = subject
        /\ \A g \in Handlers : g # h => handler'[g] = handler[g]
    <3>1. CASE Goto(h, "post")
      BY <3>1 DEF Narrated, Typed, Goto, HandlerSteps
    <3>2. CASE Tell(h, NoRecording)
      BY <3>2, Told DEF Narrated, MaybeAudio
    <3> QED BY <1>3, <3>1, <3>2
  <2>4. Typed'
    BY <1>1, <2>2, <2>3 DEF Narrated, Typed
  <2>5. ReservationHeld'
    BY <2>1, <2>2, <2>3 DEF ReservationHeld, Acting
  <2>6. SpeechFollows'
    <3>1. \A g \in Handlers : handler'[g].pc # "complete"
      BY <2>1, <2>3 DEF Acting
    <3> QED BY <1>1, <2>1, <2>2, <3>1 DEF SpeechFollows
  <2>7. CopiesFollow' /\ InOrder'
    <3>1. CASE Goto(h, "post")
      BY <1>1, <2>1, <2>2, <3>1 DEF Narrated, CopiesFollow, InOrder, Goto
    <3>2. CASE Tell(h, NoRecording)
      BY <1>1, <2>1, <2>2, <3>2, ToldCopies DEF MaybeAudio
    <3> QED BY <1>3, <3>1, <3>2
  <2> QED BY <2>4, <2>5, <2>6, <2>7 DEF Narrated
<1> HIDE DEF told
<1> QED BY <1>2, <1>3 DEF Reserve, Reserved, told

\* Only the request that holds the reservation speaks, and it speaks first.
LEMMA SynthesiseKeeps ==
  ASSUME Narrated, NEW h \in Handlers, Synthesise(h)
  PROVE  Narrated'
<1>1. /\ handler[h].pc = "post" /\ spoken = <<>> /\ Acting(h)
      /\ journal.state = "reserved" /\ journal.audio = NoRecording
      /\ journal.actor = handler[h].subject
      /\ \A g \in Handlers : g # h => ~Acting(g)
  BY DEF Synthesise, Unusable, Narrated, ReservationHeld, Acting, SpeechFollows
<1>2. UNCHANGED <<journal, expired, runner, files>> /\ faults' \in 0..MaxFaults
  BY NarrationAssumption DEF Synthesise, Unusable, Narrated, Typed, Fault
<1>3. /\ handler' \in [Handlers -> [pc : HandlerSteps, subject : Subjects \cup {NoSubject},
                                    got : MaybeAudio]]
      /\ handler'[h].pc \in {"complete", "fail"}
      /\ handler'[h].subject = handler[h].subject
      /\ \A g \in Handlers : g # h => handler'[g] = handler[g]
  <2>1. \/ handler' = [handler EXCEPT ![h].pc = "fail"]
        \/ \E audio \in Recordings :
             handler' = [handler EXCEPT ![h].pc = "complete", ![h].got = audio]
    BY DEF Synthesise, Unusable
  <2>2. CASE handler' = [handler EXCEPT ![h].pc = "fail"]
    BY <2>2 DEF Narrated, Typed, HandlerSteps
  <2>3. CASE \E audio \in Recordings :
               handler' = [handler EXCEPT ![h].pc = "complete", ![h].got = audio]
    <3>1. PICK audio \in Recordings :
               handler' = [handler EXCEPT ![h].pc = "complete", ![h].got = audio]
      BY <2>3
    <3>2. handler[h] \in [pc : HandlerSteps, subject : Subjects \cup {NoSubject},
                          got : MaybeAudio]
      BY DEF Narrated, Typed
    <3>3. handler'[h] = [pc |-> "complete", subject |-> handler[h].subject, got |-> audio]
      BY <3>1, <3>2 DEF Narrated, Typed
    <3>4. handler' = [handler EXCEPT ![h] = handler'[h]]
      BY <3>1 DEF Narrated, Typed
    <3> QED BY <3>2, <3>3, <3>4 DEF Narrated, Typed, HandlerSteps, MaybeAudio
  <2> QED BY <2>1, <2>2, <2>3
<1>4. /\ spoken' \in Seq(Recordings) /\ Len(spoken') <= 1 /\ account' \in 0..2
      /\ handler'[h].pc = "complete" =>
           handler'[h].got \in Recordings /\ spoken' = <<handler'[h].got>>
  <2>1. CASE \E audio \in Recordings :
               /\ spoken' = Append(spoken, audio) /\ account >= 1 /\ account' = account - 1
               /\ \/ handler' = [handler EXCEPT ![h].pc = "complete", ![h].got = audio]
                  \/ handler' = [handler EXCEPT ![h].pc = "fail"]
    <3>1. PICK audio \in Recordings :
               /\ spoken' = Append(spoken, audio) /\ account >= 1 /\ account' = account - 1
               /\ \/ handler' = [handler EXCEPT ![h].pc = "complete", ![h].got = audio]
                  \/ handler' = [handler EXCEPT ![h].pc = "fail"]
      BY <2>1
    <3>2. spoken' = <<audio>>
      BY <1>1, <3>1
    <3> QED BY <3>1, <3>2 DEF Narrated, Typed
  <2>2. CASE UNCHANGED <<spoken, account>> /\ handler' = [handler EXCEPT ![h].pc = "fail"]
    BY <1>1, <2>2 DEF Narrated, Typed
  <2> QED BY <2>1, <2>2 DEF Synthesise, Unusable
<1>5. Typed'
  BY <1>2, <1>3, <1>4 DEF Narrated, Typed
<1>6. ReservationHeld'
  BY <1>1, <1>2, <1>3 DEF ReservationHeld, Acting
<1>7. SpeechFollows'
  BY <1>1, <1>2, <1>3, <1>4 DEF SpeechFollows, Acting
<1>8. CopiesFollow' /\ InOrder'
  BY <1>2 DEF Narrated, CopiesFollow, InOrder
<1> QED BY <1>5, <1>6, <1>7, <1>8 DEF Narrated

\* A completion writes the recording that was spoken for this reservation.
LEMMA CompleteKeeps ==
  ASSUME Narrated, NEW h \in Handlers, Complete(h)
  PROVE  Narrated'
<1> DEFINE subject == handler[h].subject
<1> DEFINE audio == handler[h].got
<1>1. /\ journal.state = "reserved" /\ journal.actor = subject
      /\ journal.audio = NoRecording
      /\ audio \in Recordings /\ spoken = <<audio>> /\ audio # NoRecording
      /\ \A g \in Handlers : g # h => ~Acting(g)
  BY NarrationAssumption DEF Complete, Narrated, ReservationHeld, Acting, SpeechFollows
<1>2. UNCHANGED <<spoken, account, expired, files>> /\ faults' \in 0..MaxFaults
  BY NarrationAssumption DEF Complete, Narrated, Typed, Fault
<1>3. Completable(subject)
  BY <1>1 DEF Completable, Bound
<1>4. CASE journal' = journal /\ Tell(h, NoRecording)
  BY <1>2, <1>4, ToldKeeps
<1>5. CASE journal' = Completed(audio) /\ (Tell(h, audio) \/ Tell(h, NoRecording))
  <2>1. /\ journal' \in [state : {"none", "reserved", "completed", "failed"},
                         actor : Subjects \cup {NoSubject}, audio : MaybeAudio]
        /\ journal'.state = "completed" /\ journal'.audio = audio
    BY <1>1, <1>5 DEF Completed, Narrated, Typed, MaybeAudio
  <2>2. PICK told \in {audio, NoRecording} : Tell(h, told)
    BY <1>5
  <2>3. told \in MaybeAudio /\ told \in {NoRecording, journal'.audio}
    BY <1>1, <2>1, <2>2 DEF MaybeAudio
  <2>4. /\ handler' \in [Handlers -> [pc : HandlerSteps, subject : Subjects \cup {NoSubject},
                                      got : MaybeAudio]]
        /\ \A g \in Handlers : handler'[g].pc \notin {"post", "complete", "fail"}
        /\ runner' \in [Runners -> [pc : RunnerSteps, on : Handlers \cup {"none"},
                                    audio : MaybeAudio]]
    BY <1>1, <2>2, <2>3, Told DEF Narrated, Acting
  <2>5. Typed'
    BY <1>2, <2>1, <2>4 DEF Narrated, Typed
  <2>6. ReservationHeld'
    BY <2>4 DEF ReservationHeld, Acting
  <2>7. SpeechFollows'
    BY <1>1, <1>2, <2>1, <2>4 DEF Narrated, SpeechFollows
  <2>8. CopiesFollow' /\ InOrder'
    BY <1>1, <1>2, <2>2, <2>3, ToldCopies
  <2> QED BY <2>5, <2>6, <2>7, <2>8 DEF Narrated
<1> QED BY <1>3, <1>4, <1>5 DEF Complete

\* A failure recorded ends the operation; one not recorded leaves it reserved.
LEMMA NarrationFailKeeps ==
  ASSUME Narrated, NEW h \in Handlers, Fail(h)
  PROVE  Narrated'
<1>1. /\ journal.state = "reserved" /\ journal.audio = NoRecording
      /\ \A g \in Handlers : g # h => ~Acting(g)
  BY DEF Fail, Narrated, ReservationHeld, Acting, SpeechFollows
<1>2. /\ UNCHANGED <<spoken, account, expired, files>> /\ faults' \in 0..MaxFaults
      /\ Tell(h, NoRecording)
  BY NarrationAssumption DEF Fail, Narrated, Typed, Fault
<1>3. CASE journal' = journal
  BY <1>2, <1>3, ToldKeeps
<1>4. CASE journal' = Failed
  <2>1. /\ journal' \in [state : {"none", "reserved", "completed", "failed"},
                         actor : Subjects \cup {NoSubject}, audio : MaybeAudio]
        /\ journal'.state = "failed" /\ journal'.audio = NoRecording
    BY <1>1, <1>4 DEF Failed, Narrated, Typed
  <2>2. NoRecording \in MaybeAudio
    BY DEF MaybeAudio
  <2>3. /\ handler' \in [Handlers -> [pc : HandlerSteps, subject : Subjects \cup {NoSubject},
                                      got : MaybeAudio]]
        /\ \A g \in Handlers : handler'[g].pc \notin {"post", "complete", "fail"}
        /\ runner' \in [Runners -> [pc : RunnerSteps, on : Handlers \cup {"none"},
                                    audio : MaybeAudio]]
    BY <1>1, <1>2, <2>2, Told DEF Narrated, Acting
  <2>4. Typed'
    BY <1>2, <2>1, <2>3 DEF Narrated, Typed
  <2>5. ReservationHeld'
    BY <2>3 DEF ReservationHeld, Acting
  <2>6. SpeechFollows'
    BY <1>2, <2>1, <2>3 DEF Narrated, SpeechFollows
  <2>7. CopiesFollow' /\ InOrder'
    BY <1>1, <1>2, <2>1, <2>2, ToldCopies
  <2> QED BY <2>4, <2>5, <2>6, <2>7 DEF Narrated
<1> QED BY <1>3, <1>4 DEF Fail
-----------------------------------------------------------------------------
(* One lemma for each action of a runner, and the world's.                 *)

\* A runner writes only if what is there already is of its recording.
LEMMA CheckKeeps ==
  ASSUME Narrated, NEW p \in Runners, Check(p)
  PROVE  Narrated'
<1> USE DEF Narrated, Check, Resting
<1>1. Typed'
  BY DEF Typed, RunnerSteps, MaybeAudio
<1>2. ReservationHeld' /\ SpeechFollows'
  BY DEF ReservationHeld, Acting, SpeechFollows
<1>3. CopiesFollow' /\ InOrder'
  BY DEF Typed, CopiesFollow, InOrder
<1> QED BY <1>1, <1>2, <1>3

\* The next file gets the recording, after the ones before it.
LEMMA WriteKeeps ==
  ASSUME Narrated, NEW p \in Runners, Write(p)
  PROVE  Narrated'
<1> DEFINE step == runner[p].pc
<1>1. PICK n \in 1..4 :
        /\ step = FileNames[n]
        /\ files' = [files EXCEPT ![FileNames[n]] = runner[p].audio]
        /\ runner' = [runner EXCEPT ![p] =
             IF n = 4 THEN Resting ELSE [runner[p] EXCEPT !.pc = FileNames[n + 1]]]
  BY DEF Write
<1>2. UNCHANGED <<journal, spoken, account, expired, handler, faults>>
  BY DEF Write
<1>3. \/ step = "audio" /\ runner' = [runner EXCEPT ![p] = [runner[p] EXCEPT !.pc = "ledger"]]
      \/ step = "ledger" /\ runner' = [runner EXCEPT ![p] = [runner[p] EXCEPT !.pc = "manifest"]]
      \/ step = "manifest" /\ runner' = [runner EXCEPT ![p] = [runner[p] EXCEPT !.pc = "receipt"]]
      \/ step = "receipt" /\ runner' = [runner EXCEPT ![p] = Resting]
  <2>1. FileNames[1] = "audio" /\ FileNames[2] = "ledger" /\ FileNames[3] = "manifest"
        /\ FileNames[4] = "receipt"
    BY DEF FileNames
  <2>2. CASE n = 1
    <3>1. n # 4 /\ n + 1 = 2
      BY <2>2
    <3>2. FileNames[n + 1] = "ledger"
      BY <2>1, <3>1
    <3> QED BY <1>1, <2>1, <2>2, <3>1, <3>2
  <2>3. CASE n = 2
    <3>1. n # 4 /\ n + 1 = 3
      BY <2>3
    <3>2. FileNames[n + 1] = "manifest"
      BY <2>1, <3>1
    <3> QED BY <1>1, <2>1, <2>3, <3>1, <3>2
  <2>4. CASE n = 3
    <3>1. n # 4 /\ n + 1 = 4
      BY <2>4
    <3>2. FileNames[n + 1] = "receipt"
      BY <2>1, <3>1
    <3> QED BY <1>1, <2>1, <2>4, <3>1, <3>2
  <2>5. CASE n = 4
    BY <1>1, <2>1, <2>5
  <2> QED BY <2>2, <2>3, <2>4, <2>5
<1>4. files' = [files EXCEPT ![step] = runner[p].audio] /\ step \in FileSet
  BY <1>1, <1>3 DEF FileSet
<1>5. Typed'
  <2>1. files' \in [FileSet -> MaybeAudio]
    BY <1>4 DEF Narrated, Typed
  <2>2. runner' \in [Runners -> [pc : RunnerSteps, on : Handlers \cup {"none"},
                                 audio : MaybeAudio]]
    <3>1. runner[p] \in [pc : RunnerSteps, on : Handlers \cup {"none"}, audio : MaybeAudio]
      BY DEF Narrated, Typed
    <3>2. PICK now \in [pc : RunnerSteps, on : Handlers \cup {"none"}, audio : MaybeAudio] :
            runner' = [runner EXCEPT ![p] = now]
      BY <1>3, <3>1 DEF RunnerSteps, Resting, MaybeAudio
    <3> QED BY <3>2 DEF Narrated, Typed
  <2> QED BY <1>2, <2>1, <2>2 DEF Narrated, Typed
<1>6. ReservationHeld' /\ SpeechFollows'
  BY <1>2 DEF Narrated, ReservationHeld, Acting, SpeechFollows
<1>7. runner[p].audio # NoRecording /\ runner[p].audio = journal.audio
  BY <1>3 DEF Narrated, CopiesFollow
<1>8. CopiesFollow'
  <2>1. \A f \in FileSet : files'[f] \in {NoRecording, journal'.audio}
    BY <1>2, <1>4, <1>7 DEF Narrated, Typed, CopiesFollow
  <2>2. \A q \in Runners : /\ runner'[q].audio \in {NoRecording, journal'.audio}
                           /\ runner'[q].pc \notin {"idle", "waiting"}
                                => runner'[q].audio # NoRecording
    BY <1>2, <1>3, <1>7 DEF Narrated, Typed, CopiesFollow, Resting
  <2> QED BY <2>1, <2>2 DEF CopiesFollow
<1>9. InOrder'
  <2>1. \A f \in FileSet : files'[f] = IF f = step THEN runner[p].audio ELSE files[f]
    BY <1>4 DEF Narrated, Typed
  <2>2. \A q \in Runners : q # p => runner'[q] = runner[q]
    BY <1>3 DEF Narrated, Typed
  <2>3. \/ step = "audio" /\ runner'[p].pc = "ledger"
        \/ step = "ledger" /\ runner'[p].pc = "manifest"
        \/ step = "manifest" /\ runner'[p].pc = "receipt"
        \/ step = "receipt" /\ runner'[p].pc = "idle"
    BY <1>3 DEF Narrated, Typed, Resting
  <2> HIDE DEF step
  <2>4. /\ step = "ledger" => files["audio"] # NoRecording
        /\ step = "manifest" => files["ledger"] # NoRecording
        /\ step = "receipt" => files["manifest"] # NoRecording
    BY DEF Narrated, InOrder, step
  <2> QED BY <1>7, <2>1, <2>2, <2>3, <2>4 DEF Narrated, InOrder, FileSet
<1> QED BY <1>5, <1>6, <1>8, <1>9 DEF Narrated

\* A runner that dies leaves the files it wrote.
LEMMA RunnerDiesKeeps ==
  ASSUME Narrated, NEW p \in Runners, RunnerDies(p)
  PROVE  Narrated'
<1> USE DEF Narrated, RunnerDies, Resting
<1>1. Typed'
  BY NarrationAssumption DEF Typed, Fault, RunnerSteps, MaybeAudio
<1>2. ReservationHeld' /\ SpeechFollows'
  BY DEF ReservationHeld, Acting, SpeechFollows
<1>3. CopiesFollow' /\ InOrder'
  BY DEF Typed, CopiesFollow, InOrder
<1> QED BY <1>1, <1>2, <1>3

\* Neither other use of the account nor the deadline touches the operation.
LEMMA WorldKeeps ==
  ASSUME Narrated, OthersSpeak \/ Expire
  PROVE  Narrated'
<1> USE DEF Narrated, OthersSpeak, Expire
<1>1. Typed'
  BY DEF Typed
<1>2. ReservationHeld' /\ SpeechFollows'
  BY DEF ReservationHeld, Acting, SpeechFollows
<1>3. CopiesFollow' /\ InOrder'
  BY DEF CopiesFollow, InOrder
<1> QED BY <1>1, <1>2, <1>3
-----------------------------------------------------------------------------
\* What every step keeps.
LEMMA NarrationKeeps ==
  ASSUME Narrated, [Next]_vars
  PROVE  Narrated'
<1>1. CASE UNCHANGED vars
  BY <1>1 DEF vars, Narrated, Typed, ReservationHeld, Acting, SpeechFollows, CopiesFollow, InOrder
<1>2. CASE \E p \in Runners, h \in Handlers, u \in Subjects : Post(p, h, u)
  BY <1>2, PostKeeps
<1>3. CASE \E h \in Handlers : Handle(h) \/ HandlerDies(h)
  BY <1>3, ReadKeeps, QuotaKeeps, ReserveKeeps, SynthesiseKeeps, CompleteKeeps, NarrationFailKeeps,
     HandlerDiesKeeps DEF Handle
<1>4. CASE \E p \in Runners : Check(p) \/ Write(p) \/ RunnerDies(p)
  BY <1>4, CheckKeeps, WriteKeeps, RunnerDiesKeeps
<1>5. CASE OthersSpeak \/ Expire
  BY <1>5, WorldKeeps
<1> QED BY <1>1, <1>2, <1>3, <1>4, <1>5 DEF Next

\* The invariant is as strong as the property of the run.
LEMMA NarratedSuffices == ASSUME Narrated PROVE SpokenOnce
<1>1. NarrationTypeOK
  BY DEF Narrated, Typed, NarrationTypeOK, MaybeAudio
<1>2. Len(spoken) <= 1
  BY DEF Narrated, SpeechFollows
<1>3. \A a \in {journal.audio}
              \cup {runner[p].audio : p \in Runners}
              \cup {files[f] : f \in DOMAIN files} :
         a # NoRecording => spoken = <<a>> /\ journal.audio = a
  <2>1. DOMAIN files = FileSet
    BY DEF Narrated, Typed
  <2> QED BY <2>1 DEF Narrated, SpeechFollows, CopiesFollow
<1>4. \A n \in 1..3 : files[FileNames[n]] = NoRecording => files[FileNames[n + 1]] = NoRecording
  <2>1. /\ FileNames[1] = "audio" /\ FileNames[1 + 1] = "ledger"
        /\ FileNames[2 + 1] = "manifest" /\ FileNames[2] = "ledger"
        /\ FileNames[3] = "manifest" /\ FileNames[3 + 1] = "receipt"
    BY DEF FileNames
  <2>2. \A n \in 1..3 : n = 1 \/ n = 2 \/ n = 3
    OBVIOUS
  <2> QED BY <2>1, <2>2 DEF Narrated, InOrder
<1> QED BY <1>1, <1>2, <1>3, <1>4 DEF SpokenOnce

\* However many runners, requests and principals there are, and whatever is
\* lost, the provider is asked at most once in the life of the operation, and
\* that one recording is all anybody holds.
THEOREM NarrationSpokenOnce == Spec => []SpokenOnce
<1>1. Init => Narrated
  BY NarrationStarts
<1>2. Narrated /\ [Next]_vars => Narrated'
  BY NarrationKeeps
<1>3. Narrated => SpokenOnce
  BY NarratedSuffices
<1> QED BY <1>1, <1>2, <1>3, PTL DEF Spec

\* What a step may do to the row: nothing, reserve it, or record an outcome of
\* its reservation.
RowKept ==
  \/ journal' = journal
  \/ journal.state = "none"
  \/ /\ journal.state = "reserved"
     /\ \E audio \in MaybeAudio : journal' \in {Completed(audio), Failed}

\* A request that holds no reservation of its own writes no outcome.
LEMMA HandlerKeepsRow ==
  ASSUME Narrated, NEW h \in Handlers, Handle(h) \/ HandlerDies(h)
  PROVE  RowKept
<1>1. CASE Reserve(h)
  BY <1>1 DEF Reserve, Reserved, Acquires, RowKept
<1>2. CASE Complete(h)
  <2>1. handler[h].got \in MaybeAudio
    BY DEF Narrated, Typed
  <2> QED BY <1>2, <2>1 DEF Complete, Completable, RowKept
<1>3. CASE Fail(h)
  BY <1>3 DEF Fail, Failable, MaybeAudio, RowKept
<1>4. CASE Read(h) \/ Quota(h) \/ Synthesise(h) \/ HandlerDies(h)
  BY <1>4 DEF Read, Quota, Synthesise, Unusable, HandlerDies, RowKept
<1> QED BY <1>1, <1>2, <1>3, <1>4 DEF Handle

\* No late handler replaces an outcome, and no one reserves the row again.
LEMMA RowUsedUp ==
  ASSUME Narrated, [Next]_vars
  PROVE  [/\ journal.state # "none" => journal'.state # "none" /\ journal'.actor = journal.actor
          /\ journal.state \in {"completed", "failed"} => journal' = journal]_journal
<1>1. RowKept
  <2>1. CASE \E h \in Handlers : Handle(h) \/ HandlerDies(h)
    BY <2>1, HandlerKeepsRow
  <2>2. CASE UNCHANGED vars
    BY <2>2 DEF vars, RowKept
  <2>3. CASE \E p \in Runners : Check(p) \/ Write(p) \/ RunnerDies(p)
    BY <2>3 DEF Check, Write, RunnerDies, RowKept
  <2>4. CASE \E p \in Runners, h \in Handlers, u \in Subjects : Post(p, h, u)
    BY <2>4 DEF Post, RowKept
  <2>5. CASE OthersSpeak \/ Expire
    BY <2>5 DEF OthersSpeak, Expire, RowKept
  <2> QED BY <2>1, <2>2, <2>3, <2>4, <2>5 DEF Next
<1>2. CASE journal' = journal
  BY <1>2
<1>3. CASE journal.state = "none"
  BY <1>3
<1>4. CASE /\ journal.state = "reserved"
           /\ \E audio \in MaybeAudio : journal' \in {Completed(audio), Failed}
  BY <1>4 DEF Completed, Failed, Narrated, Typed
<1> QED BY <1>1, <1>2, <1>3, <1>4 DEF RowKept

\* The row of the operation is used up by its reservation, for good.
THEOREM NarrationNeverRetryable == Spec => NeverRetryable
<1>1. Init => Narrated
  BY NarrationStarts
<1>2. Narrated /\ [Next]_vars => Narrated'
  BY NarrationKeeps
<1>3. Narrated /\ [Next]_vars =>
        [/\ journal.state # "none" => journal'.state # "none" /\ journal'.actor = journal.actor
         /\ journal.state \in {"completed", "failed"} => journal' = journal]_journal
  BY RowUsedUp
<1> QED BY <1>1, <1>2, <1>3, PTL DEF Spec, NeverRetryable

-----------------------------------------------------------------------------
USE ClientsAssumption

(***************************************************************************)
(* The command-line tools.                                                 *)
(***************************************************************************)
Executions ==
  [script : {"deploy", "flight"}, status : {"pending", "completed", "failed"},
   txs : Seq({"success", "reverted"}), receipts : Seq(Tools!Receipts),
   remembered : BOOLEAN]
Processes ==
  [pc : {"idle", "simulate", "execute", "poll", "verify", "source"},
   script : {"none", "deploy", "flight"}, broadcast : BOOLEAN, posted : BOOLEAN,
   job : Nat]
Praise == {"DEPLOYED_AND_SOURCE_VERIFIED", "DEPLOYED_VERIFIED_SOURCE_PENDING_OR_FAILED",
           "VERIFIED_SETTLED"}

ToolsTyped ==
  /\ jobs \in Seq(Executions)
  /\ tool \in [Runners -> Processes]

\* A job has no transaction before it has ended; what a receipt says of one is what the chain did, or that nothing
\* is known of it.
Truthful(job) ==
  /\ job.status = "pending" => job.txs = <<>>
  /\ job.receipts # <<>> =>
       /\ DOMAIN job.receipts = DOMAIN job.txs
       /\ \A n \in DOMAIN job.txs :
            job.receipts[n] = "success" => job.txs[n] = "success"

\* A process past its POST has a job; one that verifies has seen it land.
Placed(p) ==
  /\ tool[p].pc \in {"poll", "verify", "source"} => tool[p].job \in DOMAIN jobs
  /\ tool[p].pc \in {"verify", "source"} =>
       Tools!Landed(tool[p].job) /\ tool[p].script = "deploy"
  /\ tool[p].pc = "simulate" => ~tool[p].posted
  /\ tool[p].pc # "idle" => tool[p].script # "none"

\* A deployment that is not the last has been forgotten.
OneDeployment ==
  \A j, k \in DOMAIN jobs :
    j < k /\ jobs[j].script = "deploy" /\ jobs[k].script = "deploy" => ~jobs[j].remembered

ReportTrue ==
  /\ report.result \in Praise =>
       report.job \in DOMAIN jobs /\ Tools!Landed(report.job)
  /\ report.exit = 0 /\ report.script = "deploy" =>
       report.result = "DEPLOYED_AND_SOURCE_VERIFIED" \/ ~report.posted

ToolsInv ==
  /\ ToolsTyped /\ OneDeployment /\ ReportTrue
  /\ \A j \in DOMAIN jobs : Truthful(jobs[j])
  /\ \A p \in Runners : Placed(p)

LEMMA ToolsInvInit ==
  ASSUME Tools!Init
  PROVE  ToolsInv
<1>1. jobs = <<>> /\ DOMAIN jobs = {}
  BY DEF Tools!Init
<1>2. ToolsTyped
  BY <1>1 DEF Tools!Init, Tools!Idle, ToolsTyped, Processes
<1>3. ReportTrue
  BY DEF Tools!Init, Tools!NoReport, ReportTrue, Praise
<1>4. \A p \in Runners : Placed(p)
  BY DEF Tools!Init, Tools!Idle, Placed
<1> QED BY <1>1, <1>2, <1>3, <1>4 DEF ToolsInv, OneDeployment

\* A settled verdict is a landed job.
LEMMA SettledLanded ==
  ASSUME ToolsInv, NEW j \in DOMAIN jobs, Tools!Classify(jobs[j]) = "VERIFIED_SETTLED"
  PROVE  Tools!Landed(j)
<1>1. jobs[j] \in Executions
  BY DEF ToolsInv, ToolsTyped
<1>2. /\ jobs[j].receipts # <<>>
      /\ \A n \in DOMAIN jobs[j].receipts : jobs[j].receipts[n] = "success"
  BY DEF Tools!Classify
<1>3. /\ DOMAIN jobs[j].receipts = DOMAIN jobs[j].txs
      /\ \A n \in DOMAIN jobs[j].txs : jobs[j].txs[n] = "success"
  BY <1>2 DEF ToolsInv, Truthful
<1>4. jobs[j].receipts \in Seq(Tools!Receipts) /\ jobs[j].txs \in Seq({"success", "reverted"})
  BY <1>1 DEF Executions
<1>5. 1 \in DOMAIN jobs[j].receipts
  BY <1>2, <1>4
<1>6. jobs[j].txs # <<>> /\ Tools!Range(jobs[j].txs) = {"success"}
  BY <1>3, <1>5 DEF Tools!Range
<1> QED BY <1>6 DEF Tools!Landed

\* A step of a process that leaves the executions as they are.
LEMMA ProcessKeeps ==
  ASSUME ToolsInv, jobs' = jobs, NEW p \in Runners, NEW r \in Processes,
         tool' = [tool EXCEPT ![p] = r],
         r.pc \in {"poll", "verify", "source"} => r.job \in DOMAIN jobs,
         r.pc \in {"verify", "source"} => Tools!Landed(r.job) /\ r.script = "deploy",
         r.pc = "simulate" => ~r.posted, r.pc # "idle" => r.script # "none",
         ReportTrue'
  PROVE  ToolsInv'
<1>1. ToolsTyped'
  BY DEF ToolsInv, ToolsTyped
<1>2. \A q \in Runners : tool'[q] = IF q = p THEN r ELSE tool[q]
  BY DEF ToolsInv, ToolsTyped
<1>3. \A q \in Runners : Placed(q)'
  BY <1>2 DEF ToolsInv, Placed, Tools!Landed
<1> QED BY <1>1, <1>3 DEF ToolsInv, OneDeployment, Truthful

LEMMA ReportSame ==
  ASSUME ToolsInv, jobs' = jobs, report' = report
  PROVE  ReportTrue'
BY DEF ToolsInv, ReportTrue, Tools!Landed

LEMMA GotoKeeps ==
  ASSUME ToolsInv, jobs' = jobs, NEW p \in Runners,
         NEW pc \in {"execute", "verify", "source"}, Tools!Goto(p, pc),
         tool[p].pc # "idle",
         pc = "verify" => /\ tool[p].job \in DOMAIN jobs /\ Tools!Landed(tool[p].job)
                          /\ tool[p].script = "deploy",
         pc = "source" => tool[p].pc = "verify"
  PROVE  ToolsInv'
<1> DEFINE r == [tool[p] EXCEPT !.pc = pc]
<1>1. tool[p] \in Processes /\ Placed(p) /\ tool[p].script # "none"
  BY DEF ToolsInv, ToolsTyped, Placed
<1>2. r \in Processes /\ r.pc = pc /\ r.job = tool[p].job /\ r.script = tool[p].script
  BY <1>1 DEF Processes
<1>3. tool' = [tool EXCEPT ![p] = r] /\ report' = report
  BY DEF Tools!Goto
<1>4. ReportTrue'
  BY <1>3, ReportSame
<1>5. pc \in {"verify", "source"} =>
        /\ tool[p].job \in DOMAIN jobs /\ Tools!Landed(tool[p].job)
        /\ tool[p].script = "deploy"
  BY <1>1 DEF Placed
<1> HIDE DEF r
<1> QED BY <1>1, <1>2, <1>3, <1>4, <1>5, ProcessKeeps

LEMMA IdleProcess == Tools!Idle \in Processes /\ Tools!Idle.pc = "idle"
BY DEF Tools!Idle, Processes

\* A process that ends tells the truth.
LEMMA ExitKeeps ==
  ASSUME ToolsInv, jobs' = jobs, NEW p \in Runners, NEW result, NEW code,
         Tools!Exit(p, result, code),
         result \in Praise => tool[p].job \in DOMAIN jobs /\ Tools!Landed(tool[p].job),
         code = 0 /\ tool[p].script = "deploy" =>
           result = "DEPLOYED_AND_SOURCE_VERIFIED" \/ ~tool[p].posted
  PROVE  ToolsInv'
<1>1. /\ tool' = [tool EXCEPT ![p] = Tools!Idle]
      /\ report'.result = result /\ report'.exit = code
      /\ report'.job = tool[p].job /\ report'.script = tool[p].script
      /\ report'.posted = tool[p].posted
  BY DEF Tools!Exit
<1>2. ReportTrue'
  BY <1>1 DEF ReportTrue, Tools!Landed
<1> QED BY <1>1, <1>2, IdleProcess, ProcessKeeps

LEMMA StopKeeps ==
  ASSUME ToolsInv, jobs' = jobs, NEW p \in Runners, Tools!Stop(p)
  PROVE  ToolsInv'
<1>1. Tools!Exit(p, "BLOCKED_OR_FAILED_CLOSED", 3)
  BY DEF Tools!Stop
<1>2. "BLOCKED_OR_FAILED_CLOSED" \notin Praise
  BY DEF Praise
<1> QED BY <1>1, <1>2, ExitKeeps

LEMMA RunKeeps ==
  ASSUME ToolsInv, NEW p \in Runners, NEW script \in {"deploy", "flight"},
         NEW broadcast \in BOOLEAN, Tools!Run(p, script, broadcast)
  PROVE  ToolsInv'
<1> DEFINE r == [Tools!Idle EXCEPT !.pc = "simulate", !.script = script,
                                   !.broadcast = broadcast]
<1>1. r \in Processes /\ r.pc = "simulate" /\ ~r.posted /\ r.script # "none"
  BY DEF Tools!Idle, Processes
<1>2. tool' = [tool EXCEPT ![p] = r] /\ UNCHANGED <<jobs, report>>
  BY DEF Tools!Run
<1>3. ReportTrue'
  BY <1>2, ReportSame
<1> HIDE DEF r
<1> QED BY <1>1, <1>2, <1>3, ProcessKeeps

LEMMA SimulateKeeps ==
  ASSUME ToolsInv, NEW p \in Runners, Tools!Simulate(p)
  PROVE  ToolsInv'
<1>1. tool[p].pc = "simulate" /\ jobs' = jobs /\ ~tool[p].posted
  BY DEF Tools!Simulate, ToolsInv, Placed
<1>2. CASE Tools!Goto(p, "execute")
  BY <1>1, <1>2, GotoKeeps
<1>3. CASE Tools!Exit(p, "SIMULATION_VERIFIED_NO_BROADCAST", 0)
  <2>1. "SIMULATION_VERIFIED_NO_BROADCAST" \notin Praise
    BY DEF Praise
  <2> QED BY <1>1, <1>3, <2>1, ExitKeeps
<1>4. CASE Tools!Stop(p)
  BY <1>1, <1>4, StopKeeps
<1> QED BY <1>2, <1>3, <1>4 DEF Tools!Simulate

LEMMA PollKeeps ==
  ASSUME ToolsInv, NEW p \in Runners, Tools!Poll(p)
  PROVE  ToolsInv'
<1> DEFINE job == jobs[tool[p].job]
           verdict == Tools!Classify(job)
<1>1. /\ jobs' = jobs /\ tool[p].job \in DOMAIN jobs /\ tool[p].pc = "poll"
  BY DEF Tools!Poll, ToolsInv, Placed
<1>2. verdict = "VERIFIED_SETTLED" => Tools!Landed(tool[p].job)
  BY <1>1, SettledLanded
<1>3. verdict \in {"PENDING", "FAILED", "UNPROVEN", "VERIFIED_SETTLED"}
  BY DEF Tools!Classify
<1> HIDE DEF verdict
<1>4. CASE Tools!Stop(p)
  BY <1>1, <1>4, StopKeeps
<1>5. CASE verdict = "VERIFIED_SETTLED" /\ tool[p].script = "deploy" /\ Tools!Goto(p, "verify")
  BY <1>1, <1>2, <1>5, GotoKeeps
<1>6. CASE /\ tool[p].script = "flight"
           /\ Tools!Exit(p, verdict, Tools!ExitOf(verdict))
  <2>1. verdict \in Praise => Tools!Landed(tool[p].job)
    BY <1>2, <1>3 DEF Praise
  <2> QED BY <1>1, <1>6, <2>1, ExitKeeps
<1>7. CASE Tools!Exit(p, "PENDING", 3)
  <2>1. "PENDING" \notin Praise
    BY DEF Praise
  <2> QED BY <1>1, <1>7, <2>1, ExitKeeps
<1> QED BY <1>4, <1>5, <1>6, <1>7 DEF Tools!Poll, verdict

LEMMA VerifyKeeps ==
  ASSUME ToolsInv, NEW p \in Runners, Tools!Verify(p)
  PROVE  ToolsInv'
<1>1. tool[p].pc = "verify" /\ jobs' = jobs
  BY DEF Tools!Verify
<1>2. CASE Tools!Goto(p, "source")
  BY <1>1, <1>2, GotoKeeps
<1>3. CASE Tools!Stop(p)
  BY <1>1, <1>3, StopKeeps
<1> QED BY <1>2, <1>3 DEF Tools!Verify

LEMMA SourceKeeps ==
  ASSUME ToolsInv, NEW p \in Runners, Tools!Source(p)
  PROVE  ToolsInv'
<1>1. /\ jobs' = jobs /\ tool[p].job \in DOMAIN jobs /\ Tools!Landed(tool[p].job)
  BY DEF Tools!Source, ToolsInv, Placed
<1> QED BY <1>1, ExitKeeps DEF Tools!Source

LEMMA KilledKeeps ==
  ASSUME ToolsInv, NEW p \in Runners, Tools!Killed(p)
  PROVE  ToolsInv'
<1>1. tool' = [tool EXCEPT ![p] = Tools!Idle] /\ UNCHANGED <<jobs, report>>
  BY DEF Tools!Killed
<1> QED BY <1>1, IdleProcess, ReportSame, ProcessKeeps

LEMMA RecordKeeps ==
  ASSUME ToolsInv, NEW p \in Runners, NEW j \in DOMAIN jobs, Tools!Record(p, j)
  PROVE  ToolsInv'
<1> DEFINE verdict == Tools!Classify(jobs[j])
<1>1. /\ UNCHANGED <<jobs, tool>>
      /\ report'.job = j /\ report'.result = verdict /\ report'.script = "recorder"
  BY DEF Tools!Record
<1>2. verdict \in {"PENDING", "FAILED", "UNPROVEN", "VERIFIED_SETTLED"}
  BY DEF Tools!Classify
<1>3. verdict = "VERIFIED_SETTLED" => Tools!Landed(j)
  BY SettledLanded
<1> HIDE DEF verdict
<1>4. ReportTrue'
  BY <1>1, <1>2, <1>3 DEF ReportTrue, Praise, Tools!Landed
<1> QED BY <1>1, <1>4 DEF ToolsInv, ToolsTyped, OneDeployment, Truthful, Placed,
                          Tools!Landed

(***************************************************************************)
(* KeeperHub takes a job, ends it, or fetches its receipts again.          *)
(***************************************************************************)
\* What is known of the executions only grows.
Grows ==
  /\ jobs' \in Seq(Executions) /\ DOMAIN jobs \subseteq DOMAIN jobs'
  /\ \A j \in DOMAIN jobs : Tools!Landed(j) => jobs'[j].txs = jobs[j].txs

LEMMA GrowthKeeps ==
  ASSUME ToolsInv, Grows
  PROVE  /\ report' = report => ReportTrue'
         /\ \A q \in Runners : tool'[q] = tool[q] => Placed(q)'
<1>1. \A j : j \in DOMAIN jobs /\ Tools!Landed(j) =>
        /\ j \in DOMAIN jobs'
        /\ jobs'[j].txs # <<>> /\ Tools!Range(jobs'[j].txs) = {"success"}
  BY DEF Grows, Tools!Landed
<1>2. report' = report => ReportTrue'
  BY <1>1 DEF ToolsInv, ReportTrue, Tools!Landed
<1>3. ASSUME NEW q \in Runners, tool'[q] = tool[q]
      PROVE  Placed(q)'
  <2>1. Placed(q)
    BY DEF ToolsInv
  <2>2. DOMAIN jobs \subseteq DOMAIN jobs'
    BY DEF Grows
  <2> QED BY <1>1, <1>3, <2>1, <2>2 DEF Placed, Tools!Landed
<1> QED BY <1>2, <1>3

\* One execution changes, its script does not, and a landed one not at all.
LEMMA JobKeeps ==
  ASSUME ToolsInv, NEW j \in DOMAIN jobs, NEW job \in Executions,
         jobs' = [jobs EXCEPT ![j] = job], job.script = jobs[j].script,
         job.remembered => jobs[j].remembered,
         Tools!Landed(j) => job.txs = jobs[j].txs,
         Truthful(job), UNCHANGED <<tool, report>>
  PROVE  ToolsInv'
<1>1. jobs \in Seq(Executions) /\ DOMAIN jobs = 1..Len(jobs)
  BY LenProperties DEF ToolsInv, ToolsTyped
<1>2. /\ jobs' \in Seq(Executions) /\ Len(jobs') = Len(jobs)
      /\ \A k \in 1..Len(jobs) : jobs'[k] = IF k = j THEN job ELSE jobs[k]
  BY <1>1, ExceptSeq
<1>3. DOMAIN jobs' = DOMAIN jobs
  BY <1>1, <1>2, LenProperties
<1>4. Grows
  BY <1>1, <1>2, <1>3 DEF Grows
<1>5. ReportTrue' /\ \A q \in Runners : Placed(q)'
  BY <1>4, GrowthKeeps
<1>6. ToolsTyped'
  BY <1>2 DEF ToolsInv, ToolsTyped
<1>7. \A k \in DOMAIN jobs' : /\ jobs'[k].script = jobs[k].script
                              /\ jobs'[k].remembered => jobs[k].remembered
  BY <1>1, <1>2, <1>3
<1>8. OneDeployment'
  BY <1>3, <1>7 DEF ToolsInv, OneDeployment
<1>9. \A k \in DOMAIN jobs' : Truthful(jobs'[k])
  BY <1>1, <1>2, <1>3 DEF ToolsInv
<1> QED BY <1>5, <1>6, <1>8, <1>9 DEF ToolsInv, Truthful

LEMMA FinishKeeps ==
  ASSUME ToolsInv, NEW j \in DOMAIN jobs, Tools!Finish(j)
  PROVE  ToolsInv'
<1>1. /\ jobs[j] \in Executions /\ jobs[j].status = "pending" /\ Truthful(jobs[j])
      /\ UNCHANGED <<tool, report>>
  BY DEF Tools!Finish, ToolsInv, ToolsTyped
<1>2. ~Tools!Landed(j)
  BY <1>1 DEF Truthful, Tools!Landed
<1>3. CASE jobs' = [jobs EXCEPT ![j].status = "failed"]
  <2> DEFINE job == [jobs[j] EXCEPT !.status = "failed"]
  <2>1. /\ job \in Executions /\ job.script = jobs[j].script /\ job.status = "failed"
        /\ job.remembered = jobs[j].remembered
        /\ job.receipts = jobs[j].receipts /\ job.txs = jobs[j].txs
    BY <1>1 DEF Executions
  <2>2. Truthful(job)
    BY <1>1, <2>1 DEF Truthful
  <2>3. jobs' = [jobs EXCEPT ![j] = job]
    BY <1>3
  <2> HIDE DEF job
  <2> QED BY <1>1, <1>2, <2>1, <2>2, <2>3, JobKeeps
<1>4. ASSUME NEW txs \in {<<"success">>, <<"reverted">>, <<"success", "reverted">>},
             NEW receipts \in {<<>>} \cup {r \in [DOMAIN txs -> Tools!Receipts] :
                                 \A n \in DOMAIN txs : r[n] \in Tools!Says(txs[n])},
             jobs' = [jobs EXCEPT ![j].status = "completed", ![j].txs = txs,
                                  ![j].receipts = receipts]
      PROVE  ToolsInv'
  <2> DEFINE job == [jobs[j] EXCEPT !.status = "completed", !.txs = txs,
                                    !.receipts = receipts]
  <2>1. txs \in Seq({"success", "reverted"})
    <3>1. <<"success">> \in Seq({"success", "reverted"})
      OBVIOUS
    <3>2. <<"reverted">> \in Seq({"success", "reverted"})
      OBVIOUS
    <3>3. <<"success", "reverted">> \in Seq({"success", "reverted"})
      OBVIOUS
    <3> QED BY <3>1, <3>2, <3>3
  <2>2. receipts \in Seq(Tools!Receipts)
    <3>1. DOMAIN txs = 1..Len(txs) /\ Len(txs) \in Nat
      BY <2>1, LenProperties
    <3>2. CASE receipts = <<>>
      BY <3>2
    <3>3. CASE receipts \in [DOMAIN txs -> Tools!Receipts]
      BY <3>1, <3>3
    <3> QED BY <3>2, <3>3
  <2>3. /\ job \in Executions /\ job.script = jobs[j].script
        /\ job.remembered = jobs[j].remembered
        /\ job.status = "completed" /\ job.txs = txs /\ job.receipts = receipts
    BY <1>1, <2>1, <2>2 DEF Executions
  <2>4. Truthful(job)
    <3>1. receipts # <<>> =>
            /\ DOMAIN receipts = DOMAIN txs
            /\ \A n \in DOMAIN txs : receipts[n] \in {txs[n], "unproven"}
      BY DEF Tools!Says
    <3>2. \A n \in DOMAIN txs : "success" \in {txs[n], "unproven"} =>
                                  txs[n] = "success"
      OBVIOUS
    <3> QED BY <2>3, <3>1, <3>2 DEF Truthful
  <2>5. jobs' = [jobs EXCEPT ![j] = job]
    BY <1>4
  <2> HIDE DEF job
  <2> QED BY <1>1, <1>2, <2>3, <2>4, <2>5, JobKeeps
<1> QED BY <1>3, <1>4 DEF Tools!Finish

LEMMA RefetchKeeps ==
  ASSUME ToolsInv, NEW j \in DOMAIN jobs, Tools!Refetch(j)
  PROVE  ToolsInv'
<1>1. /\ jobs[j] \in Executions /\ jobs[j].status = "completed"
      /\ UNCHANGED <<tool, report>>
      /\ jobs' = [jobs EXCEPT ![j].receipts = jobs[j].txs]
  BY DEF Tools!Refetch, ToolsInv, ToolsTyped
<1> DEFINE job == [jobs[j] EXCEPT !.receipts = jobs[j].txs]
<1>2. jobs[j].txs \in Seq(Tools!Receipts)
  <2>1. jobs[j].txs \in Seq({"success", "reverted"})
    BY <1>1 DEF Executions
  <2>2. {"success", "reverted"} \subseteq Tools!Receipts
    BY DEF Tools!Receipts
  <2> QED BY <2>1, <2>2
<1>3. /\ job \in Executions /\ job.script = jobs[j].script /\ job.status = "completed"
      /\ job.txs = jobs[j].txs /\ job.receipts = jobs[j].txs
      /\ job.remembered = jobs[j].remembered
  BY <1>1, <1>2 DEF Executions
<1>4. Truthful(job)
  BY <1>3 DEF Truthful
<1>5. jobs' = [jobs EXCEPT ![j] = job]
  BY <1>1
<1> HIDE DEF job
<1> QED BY <1>1, <1>3, <1>4, <1>5, JobKeeps

\* A key that is forgotten.
LEMMA ForgetKeyKeeps ==
  ASSUME ToolsInv, NEW j \in DOMAIN jobs, Tools!ForgetKey(j)
  PROVE  ToolsInv'
<1>1. jobs[j] \in Executions /\ Truthful(jobs[j]) /\ UNCHANGED <<tool, report>>
  BY DEF Tools!ForgetKey, ToolsInv, ToolsTyped
<1> DEFINE job == [jobs[j] EXCEPT !.remembered = FALSE]
<1>2. /\ job \in Executions /\ job.script = jobs[j].script /\ ~job.remembered
      /\ job.status = jobs[j].status
      /\ job.txs = jobs[j].txs /\ job.receipts = jobs[j].receipts
  BY <1>1 DEF Executions
<1>3. Truthful(job)
  BY <1>1, <1>2 DEF Truthful
<1>4. jobs' = [jobs EXCEPT ![j] = job]
  BY DEF Tools!ForgetKey
<1> HIDE DEF job
<1> QED BY <1>1, <1>2, <1>3, <1>4, JobKeeps

\* The POST: a job is taken only when none has the key, or its key is forgotten.
LEMMA TakenKeeps ==
  ASSUME ToolsInv, NEW p \in Runners, NEW r \in Processes,
         NEW job \in Executions, jobs' = Append(jobs, job),
         Truthful(job), job.script = "deploy" =>
           \A j \in DOMAIN jobs : jobs[j].script = "deploy" => ~jobs[j].remembered,
         tool' = [tool EXCEPT ![p] = r],
         r.pc \in {"idle", "poll"}, r.pc = "poll" => r.job = Len(jobs) + 1,
         r.pc = "poll" => r.script # "none",
         report' = report \/ ReportTrue'
  PROVE  ToolsInv'
<1>1. jobs \in Seq(Executions) /\ DOMAIN jobs = 1..Len(jobs) /\ Len(jobs) \in Nat
  BY LenProperties DEF ToolsInv, ToolsTyped
<1>2. /\ jobs' \in Seq(Executions) /\ Len(jobs') = Len(jobs) + 1
      /\ \A k \in 1..Len(jobs) : jobs'[k] = jobs[k]
      /\ jobs'[Len(jobs) + 1] = job
  BY <1>1, AppendProperties
<1>3. DOMAIN jobs' = 1..(Len(jobs) + 1)
  BY <1>2, LenProperties
<1>4. Grows
  BY <1>1, <1>2, <1>3 DEF Grows
<1>5. ReportTrue'
  BY <1>4, GrowthKeeps
<1>6. \A q \in Runners : tool'[q] = IF q = p THEN r ELSE tool[q]
  BY DEF ToolsInv, ToolsTyped
<1>7. \A q \in Runners : Placed(q)'
  <2>1. ASSUME NEW q \in Runners, q = p
        PROVE  Placed(q)'
    BY <1>1, <1>3, <1>6, <2>1 DEF Placed
  <2>2. ASSUME NEW q \in Runners, q # p
        PROVE  Placed(q)'
    BY <1>4, <1>6, <2>2, GrowthKeeps
  <2> QED BY <2>1, <2>2
<1>8. ToolsTyped'
  BY <1>2 DEF ToolsInv, ToolsTyped
<1>9. \A k \in DOMAIN jobs' : \/ k \in DOMAIN jobs /\ jobs'[k] = jobs[k]
                              \/ k = Len(jobs) + 1 /\ jobs'[k] = job
  BY <1>1, <1>2, <1>3
<1>10. OneDeployment'
  <2>1. ASSUME NEW j \in DOMAIN jobs', NEW k \in DOMAIN jobs', j < k,
               jobs'[j].script = "deploy", jobs'[k].script = "deploy"
        PROVE  ~jobs'[j].remembered
    <3>1. j \in DOMAIN jobs /\ jobs'[j] = jobs[j]
      BY <1>1, <1>3, <1>9, <2>1
    <3> QED BY <1>9, <2>1, <3>1 DEF ToolsInv, OneDeployment
  <2> QED BY <2>1 DEF OneDeployment
<1>11. \A k \in DOMAIN jobs' : Truthful(jobs'[k])
  BY <1>9 DEF ToolsInv
<1> QED BY <1>5, <1>7, <1>8, <1>10, <1>11 DEF ToolsInv, Truthful

\* What the POST does to the process: it has a job, or it ends without one.
Answered(p, r, known, job, taken) ==
  /\ tool' = [tool EXCEPT ![p] = r]
  /\ IF known # {} THEN jobs' = jobs ELSE jobs' = jobs \/ jobs' = taken
  /\ \/ /\ jobs' = taken /\ report' = report
        /\ r.pc = "poll" /\ r.job = job /\ r.script = tool[p].script
     \/ /\ r.pc = "idle"
        /\ report'.result = "BLOCKED_OR_FAILED_CLOSED" /\ report'.exit = 3

LEMMA ExecuteKeeps ==
  ASSUME ToolsInv, NEW p \in Runners, Tools!Execute(p)
  PROVE  ToolsInv'
<1> DEFINE script == tool[p].script
           known == Tools!Replayed(script)
           job == IF known # {} THEN CHOOSE j \in known : TRUE ELSE Len(jobs) + 1
           new == Append(jobs, Tools!Job(script))
           taken == IF known # {} THEN jobs ELSE new
<1>1. tool[p] \in Processes /\ script \in {"deploy", "flight"}
  BY DEF Tools!Execute, ToolsInv, ToolsTyped, Placed, Processes
<1>2. jobs \in Seq(Executions) /\ DOMAIN jobs = 1..Len(jobs) /\ Len(jobs) \in Nat
  BY LenProperties DEF ToolsInv, ToolsTyped
<1>3. known \subseteq DOMAIN jobs
  BY DEF Tools!Replayed
<1>4. IF known # {} THEN job \in DOMAIN jobs ELSE job = Len(jobs) + 1
  <2>1. known # {} => job \in known
    OBVIOUS
  <2> QED BY <1>3, <2>1
<1>5. job \in Nat
  BY <1>2, <1>4
<1> HIDE DEF job, new, known
<1>6. PICK r \in Processes : Answered(p, r, known, job, taken)
  <2> DEFINE posted == [tool[p] EXCEPT !.pc = "poll", !.job = job, !.posted = TRUE]
  <2>1. /\ posted \in Processes /\ posted.pc = "poll" /\ posted.job = job
        /\ posted.script = script
    BY <1>1, <1>5 DEF Processes
  <2>2. CASE /\ jobs' = taken /\ report' = report
             /\ tool' = [tool EXCEPT ![p].pc = "poll", ![p].job = job, ![p].posted = TRUE]
    <3>1. tool' = [tool EXCEPT ![p] = posted]
      BY <2>2
    <3> HIDE DEF posted
    <3>2. Answered(p, posted, known, job, taken)
      BY <2>1, <2>2, <3>1 DEF Answered
    <3> QED BY <2>1, <3>2
  <2>3. CASE /\ jobs' = jobs \/ jobs' = taken
             /\ tool' = [tool EXCEPT ![p] = Tools!Idle]
             /\ report'.result = "BLOCKED_OR_FAILED_CLOSED" /\ report'.exit = 3
    <3>1. Answered(p, Tools!Idle, known, job, taken)
      BY <2>3, IdleProcess DEF Answered
    <3> QED BY <3>1, IdleProcess
  <2> HIDE DEF taken
  <2>4. ASSUME jobs' = taken, report' = report,
               tool' = [tool EXCEPT ![p].pc = "poll", ![p].job = job, ![p].posted = TRUE]
        PROVE  \E r \in Processes : Answered(p, r, known, job, taken)
    BY <2>2, <2>4
  <2>5. ASSUME jobs' = taken, tool' = [tool EXCEPT ![p] = Tools!Idle],
               report' = [script |-> script, posted |-> TRUE, job |-> 0,
                          result |-> "BLOCKED_OR_FAILED_CLOSED", exit |-> 3]
        PROVE  \E r \in Processes : Answered(p, r, known, job, taken)
    BY <2>3, <2>5
  <2>6. ASSUME jobs' = jobs, Tools!Stop(p)
        PROVE  \E r \in Processes : Answered(p, r, known, job, taken)
    BY <2>3, <2>6 DEF Tools!Stop, Tools!Exit
  <2> QED BY <2>4, <2>5, <2>6 DEF Tools!Execute, taken, job, known, new
<1>7. /\ r.pc \in {"idle", "poll"}
      /\ r.pc = "poll" => r.job = job /\ r.script # "none" /\ jobs' = taken
      /\ report' = report \/ ReportTrue'
  <2>1. "BLOCKED_OR_FAILED_CLOSED" \notin Praise
    BY DEF Praise
  <2> QED BY <1>1, <1>6, <2>1 DEF Answered, ReportTrue
<1>8. tool' = [tool EXCEPT ![p] = r]
  BY <1>6 DEF Answered
<1>9. CASE jobs' = new /\ known = {}
  <2> DEFINE fresh == Tools!Job(script)
  <2>1. /\ fresh \in Executions /\ fresh.script = script /\ Truthful(fresh)
    BY <1>1 DEF Tools!Job, Executions, Truthful
  <2>2. script = "deploy" =>
          \A j \in DOMAIN jobs : jobs[j].script = "deploy" => ~jobs[j].remembered
    BY <1>9 DEF known, Tools!Replayed
  <2>3. jobs' = Append(jobs, fresh)
    BY <1>9 DEF new
  <2>4. r.pc = "poll" => r.job = Len(jobs) + 1
    BY <1>4, <1>7, <1>9
  <2> HIDE DEF fresh
  <2> QED BY <1>7, <1>8, <2>1, <2>2, <2>3, <2>4, TakenKeeps
<1>10. CASE jobs' = jobs
  <2>1. ReportTrue'
    BY <1>7, <1>10, ReportSame
  <2>2. r.pc = "poll" => r.job \in DOMAIN jobs
    <3>1. Tools!Job(script) \in Executions
      BY <1>1 DEF Tools!Job, Executions
    <3>2. Len(new) = Len(jobs) + 1
      BY <1>2, <3>1, AppendProperties DEF new
    <3> QED BY <1>2, <1>4, <1>7, <1>10, <3>2
  <2> QED BY <1>7, <1>8, <1>10, <2>1, <2>2, ProcessKeeps
<1> QED BY <1>6, <1>9, <1>10 DEF Answered

LEMMA ToolsInvNext ==
  ASSUME ToolsInv, Tools!Next
  PROVE  ToolsInv'
<1>1. CASE \E p \in Runners : \E broadcast \in BOOLEAN : Tools!Run(p, "deploy", broadcast)
  BY <1>1, RunKeeps
<1>2. CASE \E p \in Runners : Tools!Run(p, "flight", TRUE)
  BY <1>2, RunKeeps
<1>3. CASE \E p \in Runners : Tools!Step(p)
  BY <1>3, SimulateKeeps, ExecuteKeeps, PollKeeps, VerifyKeeps, SourceKeeps, KilledKeeps
     DEF Tools!Step
<1>4. CASE \E p \in Runners : \E j \in DOMAIN jobs : Tools!Record(p, j)
  BY <1>4, RecordKeeps
<1>5. CASE \E j \in DOMAIN jobs : Tools!Finish(j) \/ Tools!Refetch(j) \/ Tools!ForgetKey(j)
  BY <1>5, FinishKeeps, RefetchKeeps, ForgetKeyKeeps
<1> QED BY <1>1, <1>2, <1>3, <1>4, <1>5 DEF Tools!Next

LEMMA ToolsInvSame ==
  ASSUME ToolsInv, UNCHANGED toolVars
  PROVE  ToolsInv'
BY DEF ToolsInv, toolVars, ToolsTyped, OneDeployment, ReportTrue, Truthful, Placed,
       Tools!Landed

\* One contract for as long as KeeperHub remembers the key, and what is called
\* deployed or settled has landed
\* (scripts/deploy-v2-keeperhub.mjs, scripts/first-flight.mjs, bin/kh-proof.mjs),
\* for any number of processes, jobs, kills and lost answers.
THEOREM DeploysOnce == PartsSpec => []DeployedOnce
<1>1. PartsInit => ToolsInv
  BY ToolsInvInit DEF PartsInit
<1>2. ToolsInv /\ [PartsNext]_<<part, captureVars, vars, toolVars>> => ToolsInv'
  BY ToolsInvNext, ToolsInvSame DEF PartsNext
<1>3. ToolsInv => DeployedOnce
  BY DEF ToolsInv, OneDeployment, ReportTrue, Praise, DeployedOnce, Tools!DeployedOnce
<1> QED BY <1>1, <1>2, <1>3, PTL DEF PartsSpec

(***************************************************************************)
(* The browser's capture.                                                  *)
(***************************************************************************)
\* What the resources of a start are, given the capture that is current: a capture
\* that is not, or no longer, hears nothing, records nothing and has a socket the
\* browser has closed or never opened.
Fits(r, i, cur) ==
  /\ r.mic \/ r.audio => cur = i /\ ~r.stopping
  /\ cur # i => /\ r.socket \in {"none", "closing", "closed"} /\ ~r.attached
                /\ r.pc # "none" => r.aborted
  /\ cur = i => r.pc # "none"
  /\ r.pc \in {"none", "asking", "token"} => r.socket = "none"
  /\ r.stopping => r.expected
  /\ r.pc = "none" => r = Capture!Unstarted

\* The service opens a session only over a socket that has opened.
Opened(r, stream) == r.socket \in {"none", "connecting"} => stream.phase = "none"

\* What is shown of the current capture.
Shown ==
  /\ current # None => page = "shown"
  /\ \A i \in Capture!Ids : current = i /\ ~s[i].stopping => status \in {"connecting", "listening"}

\* Captures are started in order, and the current one is the latest.
Ordered ==
  \A i, j \in Capture!Ids : s[j].pc # "none" =>
    /\ i < j => s[i].pc # "none"
    /\ current = i => j <= i

CaptureInv ==
  /\ Capture!CaptureTypeOK /\ Capture!TranscriptOfLatest
  /\ Shown /\ Ordered
  /\ \A i \in Capture!Ids : Fits(s[i], i, current) /\ Opened(s[i], provider[i])

LEMMA CaptureInvInit ==
  ASSUME Capture!Init
  PROVE  CaptureInv
<1>1. \A i \in Capture!Ids : /\ s[i] = Capture!Unstarted /\ provider[i] = Capture!Silent
                             /\ current # i
  BY DEF Capture!Init, Capture!Ids
<1>2. Capture!CaptureTypeOK
  <2>1. Capture!Unstarted \in Capture!Resources
    BY DEF Capture!Unstarted, Capture!Resources
  <2>2. Capture!Silent \in Capture!Streams
    BY DEF Capture!Silent, Capture!Streams
  <2>3. inbox \in [Capture!Ids -> Seq(Capture!Event)]
    BY DEF Capture!Init
  <2> QED BY <2>1, <2>2, <2>3 DEF Capture!Init, Capture!CaptureTypeOK, Capture!Silent
<1>3. Capture!TranscriptOfLatest /\ Shown /\ Ordered
  BY <1>1 DEF Capture!Init, Capture!TranscriptOfLatest, Shown, Ordered, Capture!Unstarted
<1>4. \A i \in Capture!Ids : Fits(s[i], i, current) /\ Opened(s[i], provider[i])
  BY <1>1 DEF Fits, Opened, Capture!Unstarted, Capture!Silent
<1> QED BY <1>2, <1>3, <1>4 DEF CaptureInv

\* A step of one capture: its resources become r, it may cease to be the current one,
\* and the transcript gains what is said in the current one only.
LEMMA UpdateKeeps ==
  ASSUME CaptureInv, NEW i \in Capture!Ids, NEW r \in Capture!Resources,
         s' = [s EXCEPT ![i] = r], s[i].pc # "none", r.pc # "none",
         current' = current \/ (current = i /\ current' = None),
         Fits(r, i, current'), Opened(r, provider'[i]),
         \A j \in Capture!Ids : j # i => provider'[j] = provider[j],
         provider' \in [Capture!Ids -> Capture!Streams],
         provider'[i].final <= provider'[i].heard,
         inbox' \in [Capture!Ids -> Seq(Capture!Event)],
         page' = page,
         status' \in {"idle", "connecting", "listening", "stopping", "error"},
         page = "shown" => (current' = None <=> status' \in {"idle", "error"}),
         current # i => status' = status,
         current' = i /\ ~r.stopping => status' \in {"connecting", "listening"},
         turns' \subseteq turns \cup ({i} \X (1..MaxTurns)),
         current # i => turns' \subseteq turns
  PROVE  CaptureInv'
<1>1. \A j \in Capture!Ids : s'[j] = IF j = i THEN r ELSE s[j]
  BY DEF CaptureInv, Capture!CaptureTypeOK
<1>2. \A j \in Capture!Ids : s'[j].pc # "none" <=> s[j].pc # "none"
  BY <1>1
<1>3. current' \in Capture!Ids \cup {None} /\ None \notin Capture!Ids
  BY DEF CaptureInv, Capture!CaptureTypeOK, Capture!Ids
<1>4. Capture!CaptureTypeOK'
  <2>1. s' \in [Capture!Ids -> Capture!Resources]
    BY DEF CaptureInv, Capture!CaptureTypeOK
  <2>2. turns' \subseteq Capture!Ids \X (1..MaxTurns)
    BY DEF CaptureInv, Capture!CaptureTypeOK
  <2>3. \A j \in Capture!Ids : provider'[j].final <= provider'[j].heard
    BY DEF CaptureInv, Capture!CaptureTypeOK
  <2> QED BY <1>3, <2>1, <2>2, <2>3 DEF CaptureInv, Capture!CaptureTypeOK
<1>5. Ordered'
  BY <1>2, <1>3 DEF CaptureInv, Ordered
<1>6. Capture!TranscriptOfLatest'
  <2>1. \A t \in turns' : t \in turns \/ (t[1] = i /\ current = i)
    OBVIOUS
  <2>2. current = i => \A j \in Capture!Ids : s[j].pc # "none" => j <= i
    BY DEF CaptureInv, Ordered
  <2> QED BY <1>2, <2>1, <2>2 DEF CaptureInv, Capture!TranscriptOfLatest
<1>7. Shown'
  <2>1. current' # None => page' = "shown"
    BY DEF CaptureInv, Shown
  <2>2. ASSUME NEW j \in Capture!Ids, current' = j, ~s'[j].stopping
        PROVE  status' \in {"connecting", "listening"}
    <3>1. CASE j = i
      BY <1>1, <2>2, <3>1
    <3>2. CASE j # i
      BY <1>1, <1>3, <2>2, <3>2 DEF CaptureInv, Shown
    <3> QED BY <3>1, <3>2
  <2> QED BY <2>1, <2>2 DEF Shown
<1>8. ASSUME NEW j \in Capture!Ids
      PROVE  Fits(s'[j], j, current') /\ Opened(s'[j], provider'[j])
  <2>1. CASE j = i
    BY <1>1, <2>1
  <2>2. CASE j # i
    <3>1. Fits(s[j], j, current) /\ Opened(s[j], provider[j])
      BY DEF CaptureInv
    <3>2. current = j <=> current' = j
      BY <1>3, <2>2
    <3> QED BY <1>1, <2>2, <3>1, <3>2 DEF Fits, Opened
  <2> QED BY <2>1, <2>2
<1> QED BY <1>4, <1>5, <1>6, <1>7, <1>8 DEF CaptureInv, Fits, Opened

\* What is known of a capture.
LEMMA CaptureOf ==
  ASSUME CaptureInv, NEW i \in Capture!Ids
  PROVE  /\ s[i] \in Capture!Resources /\ Fits(s[i], i, current) /\ Opened(s[i], provider[i])
         /\ provider[i] \in Capture!Streams /\ provider[i].final <= provider[i].heard
         /\ inbox[i] \in Seq(Capture!Event)
         /\ i # None
         /\ status \in {"idle", "connecting", "listening", "stopping", "error"}
         /\ page = "shown" => (current = None <=> status \in {"idle", "error"})
         /\ current = i => page = "shown"
         /\ current = i /\ ~s[i].stopping => status \in {"connecting", "listening"}
BY DEF CaptureInv, Capture!CaptureTypeOK, Shown, Capture!Ids

\* A step that changes only the resources, and leaves the capture stopping or not as it was.
LEMMA QuietKeeps ==
  ASSUME CaptureInv, NEW i \in Capture!Ids, NEW r \in Capture!Resources,
         s' = [s EXCEPT ![i] = r], s[i].pc # "none", r.pc # "none",
         r.stopping = s[i].stopping,
         Fits(r, i, current), Opened(r, provider[i]),
         UNCHANGED <<status, current, page, provider>>,
         inbox' \in [Capture!Ids -> Seq(Capture!Event)],
         turns' \subseteq turns \cup ({i} \X (1..MaxTurns)),
         current # i => turns' \subseteq turns
  PROVE  CaptureInv'
<1>1. /\ provider' \in [Capture!Ids -> Capture!Streams] /\ provider'[i] = provider[i]
      /\ \A j \in Capture!Ids : j # i => provider'[j] = provider[j]
  BY DEF CaptureInv, Capture!CaptureTypeOK
<1>2. /\ status' \in {"idle", "connecting", "listening", "stopping", "error"}
      /\ page = "shown" => (current' = None <=> status' \in {"idle", "error"})
      /\ current' = i /\ ~r.stopping => status' \in {"connecting", "listening"}
      /\ provider[i].final <= provider[i].heard
  BY CaptureOf
<1> QED BY <1>1, <1>2, UpdateKeeps

\* A step of the service, or an event on its way.
LEMMA ServiceKeeps ==
  ASSUME CaptureInv, UNCHANGED <<status, current, turns, page, s>>,
         provider' \in [Capture!Ids -> Capture!Streams],
         inbox' \in [Capture!Ids -> Seq(Capture!Event)],
         \A i \in Capture!Ids : /\ provider'[i].final <= provider'[i].heard
                                /\ provider[i].phase = "none" => provider'[i].phase = "none"
  PROVE  CaptureInv'
<1>1. Capture!CaptureTypeOK'
  BY DEF CaptureInv, Capture!CaptureTypeOK
<1>2. Capture!TranscriptOfLatest' /\ Shown' /\ Ordered'
  BY DEF CaptureInv, Capture!TranscriptOfLatest, Shown, Ordered
<1>3. \A i \in Capture!Ids : Fits(s'[i], i, current') /\ Opened(s'[i], provider'[i])
  BY DEF CaptureInv, Opened
<1> QED BY <1>1, <1>2, <1>3 DEF CaptureInv, Fits, Opened

LEMMA DisposedIs ==
  ASSUME NEW r \in Capture!Resources, NEW close \in BOOLEAN
  PROVE  LET d == Capture!Disposed(r, close) IN
         /\ d \in Capture!Resources /\ d.pc = r.pc
         /\ ~d.mic /\ ~d.audio /\ ~d.attached /\ d.aborted
         /\ d.stopping = r.stopping /\ d.expected = r.expected
         /\ d.socket = IF close /\ r.socket \in {"connecting", "open"} THEN "closing"
                       ELSE r.socket
<1> DEFINE d == Capture!Disposed(r, close)
           e == [r EXCEPT !.mic = FALSE, !.audio = FALSE, !.aborted = TRUE, !.timers = {},
                   !.attached = FALSE]
           f == [e EXCEPT !.pending = FALSE, !.awaiting = FALSE, !.terminated = FALSE,
                   !.failed = FALSE, !.sent = {}]
<1>1. /\ e \in Capture!Resources /\ e.pc = r.pc
      /\ ~e.mic /\ ~e.audio /\ ~e.attached /\ e.aborted
      /\ e.stopping = r.stopping /\ e.expected = r.expected /\ e.socket = r.socket
  BY DEF Capture!Resources
<1>2. d = [f EXCEPT !.socket = IF close /\ r.socket \in {"connecting", "open"} THEN "closing"
                               ELSE r.socket]
  BY DEF Capture!Disposed, Capture!Released, Capture!Resources
<1> HIDE DEF d, e
<1>3. /\ f \in Capture!Resources /\ f.pc = r.pc
      /\ ~f.mic /\ ~f.audio /\ ~f.attached /\ f.aborted
      /\ f.stopping = r.stopping /\ f.expected = r.expected /\ f.socket = r.socket
  BY <1>1 DEF Capture!Resources
<1> HIDE DEF f
<1>4. r.socket \in {"none", "connecting", "open", "closing", "closed"}
  BY DEF Capture!Resources
<1>5. /\ d \in Capture!Resources /\ d.pc = r.pc
      /\ ~d.mic /\ ~d.audio /\ ~d.attached /\ d.aborted
      /\ d.stopping = r.stopping /\ d.expected = r.expected
      /\ d.socket = IF close /\ r.socket \in {"connecting", "open"} THEN "closing" ELSE r.socket
  BY <1>2, <1>3, <1>4 DEF Capture!Resources
<1> QED BY <1>5 DEF d

\* The current capture ends, with everything it held given back.
LEMMA EndKeeps ==
  ASSUME CaptureInv, NEW i \in Capture!Ids, NEW d \in Capture!Resources,
         s' = [s EXCEPT ![i] = d], current = i, current' = None,
         ~d.mic, ~d.audio, ~d.attached, d.aborted, d.pc # "none",
         d.socket \in {"none", "closing", "closed"}, d.socket = "none" => s[i].socket = "none",
         d.pc \in {"asking", "token"} => d.socket = "none",
         d.stopping => d.expected,
         UNCHANGED <<page, provider, turns>>,
         inbox' \in [Capture!Ids -> Seq(Capture!Event)],
         status' \in {"idle", "error"}
  PROVE  CaptureInv'
<1>1. /\ Fits(s[i], i, current) /\ Opened(s[i], provider[i]) /\ i # None
      /\ provider[i].final <= provider[i].heard
  BY CaptureOf
<1>2. Fits(d, i, current')
  BY <1>1 DEF Fits
<1>3. Opened(d, provider'[i])
  BY <1>1 DEF Opened
<1>4. /\ provider' \in [Capture!Ids -> Capture!Streams] /\ provider'[i] = provider[i]
      /\ \A j \in Capture!Ids : j # i => provider'[j] = provider[j]
  BY DEF CaptureInv, Capture!CaptureTypeOK
<1>5. current' # i /\ s[i].pc # "none"
  BY <1>1 DEF Fits
<1> QED BY <1>1, <1>2, <1>3, <1>4, <1>5, UpdateKeeps

\* A start that was stopped or replaced while it waited gives up.
LEMMA GivesUpKeeps ==
  ASSUME CaptureInv, NEW i \in Capture!Ids, s[i].pc # "none",
         s' = [s EXCEPT ![i].pc = "ended"],
         UNCHANGED <<status, current, turns, page, provider>>,
         inbox' \in [Capture!Ids -> Seq(Capture!Event)]
  PROVE  CaptureInv'
<1>1. /\ s[i] \in Capture!Resources /\ Fits(s[i], i, current) /\ Opened(s[i], provider[i])
  BY CaptureOf
<1> DEFINE r == [s[i] EXCEPT !.pc = "ended"]
<1>2. /\ r \in Capture!Resources /\ r.pc = "ended" /\ r.stopping = s[i].stopping
      /\ r.mic = s[i].mic /\ r.audio = s[i].audio /\ r.socket = s[i].socket
      /\ r.attached = s[i].attached /\ r.aborted = s[i].aborted
      /\ r.expected = s[i].expected
  BY <1>1 DEF Capture!Resources
<1>3. s' = [s EXCEPT ![i] = r]
  OBVIOUS
<1> HIDE DEF r
<1>4. Fits(r, i, current) /\ Opened(r, provider[i])
  BY <1>1, <1>2 DEF Fits, Opened
<1> QED BY <1>2, <1>3, <1>4, QuietKeeps

\* The start's catch.
LEMMA FailKeeps ==
  ASSUME CaptureInv, NEW i \in Capture!Ids, s[i].pc # "none", Capture!Fail(i),
         UNCHANGED <<turns, page, provider>>,
         inbox' \in [Capture!Ids -> Seq(Capture!Event)]
  PROVE  CaptureInv'
<1>1. /\ s[i] \in Capture!Resources /\ Fits(s[i], i, current) /\ Opened(s[i], provider[i])
      /\ current = i => page = "shown"
  BY CaptureOf
<1>2. CASE s[i].expected \/ s[i].aborted
  BY <1>2, GivesUpKeeps DEF Capture!Fail
<1>3. CASE ~s[i].expected /\ ~s[i].aborted
  <2> DEFINE e == Capture!Disposed(s[i], TRUE)
             d == [e EXCEPT !.pc = "ended"]
  <2>0. /\ e \in Capture!Resources
        /\ ~e.mic /\ ~e.audio /\ ~e.attached /\ e.aborted
        /\ e.stopping = s[i].stopping /\ e.expected = s[i].expected
        /\ e.socket = IF s[i].socket \in {"connecting", "open"} THEN "closing"
                      ELSE s[i].socket
    BY <1>1, DisposedIs
  <2> HIDE DEF e
  <2>1. /\ d \in Capture!Resources /\ d.pc = "ended"
        /\ ~d.mic /\ ~d.audio /\ ~d.attached /\ d.aborted
        /\ d.stopping = s[i].stopping /\ d.expected = s[i].expected
        /\ d.socket = IF s[i].socket \in {"connecting", "open"} THEN "closing"
                      ELSE s[i].socket
    BY <2>0 DEF Capture!Resources
  <2>2. s' = [s EXCEPT ![i] = d]
    BY <1>3 DEF Capture!Fail, e
  <2>3. current = i
    BY <1>1, <1>3 DEF Fits
  <2>4. current' = None /\ status' = "error"
    BY <1>1, <1>3, <2>3 DEF Capture!Fail, Capture!Without, Capture!Show, Capture!InView
  <2>5. /\ d.socket \in {"none", "closing", "closed"}
        /\ d.socket = "none" => s[i].socket = "none"
        /\ d.stopping => d.expected
    BY <1>1, <2>1 DEF Fits, Capture!Resources
  <2> HIDE DEF d
  <2> QED BY <2>1, <2>2, <2>3, <2>4, <2>5, EndKeeps
<1> QED BY <1>2, <1>3

\* requestGracefulStop, of the current capture.
LEMMA StopsKeep ==
  ASSUME CaptureInv, NEW i \in Capture!Ids, current = i, NEW failing \in BOOLEAN,
         Capture!GracefulStop(i, failing), UNCHANGED <<turns, page, provider>>,
         inbox' \in [Capture!Ids -> Seq(Capture!Event)]
  PROVE  CaptureInv'
<1> DEFINE r == [s[i] EXCEPT !.failed = @ \/ failing]
           stopped == [Capture!Released(r) EXCEPT !.stopping = TRUE, !.expected = TRUE,
                         !.aborted = TRUE, !.awaiting = Capture!Pending(r),
                         !.timers = @ \ {"session"}]
           forced == [stopped EXCEPT !.sent = @ \cup {"force"}, !.timers = Capture!Watchdogs]
           disposed == Capture!Disposed(stopped, r.socket = "connecting")
<1>1. /\ s[i] \in Capture!Resources /\ Fits(s[i], i, current) /\ Opened(s[i], provider[i])
      /\ page = "shown" /\ status \in {"idle", "connecting", "listening", "stopping", "error"}
      /\ i # None
  BY CaptureOf
<1>2. /\ r \in Capture!Resources /\ r.pc = s[i].pc /\ r.stopping = s[i].stopping
      /\ r.mic = s[i].mic /\ r.audio = s[i].audio /\ r.socket = s[i].socket
      /\ r.attached = s[i].attached /\ r.aborted = s[i].aborted /\ r.expected = s[i].expected
      /\ r.pending = s[i].pending
  BY <1>1 DEF Capture!Resources
<1> HIDE DEF r
<1>3. /\ stopped \in Capture!Resources /\ stopped.pc = s[i].pc /\ stopped.stopping
      /\ ~stopped.mic /\ ~stopped.audio /\ stopped.expected /\ stopped.aborted
      /\ stopped.socket = s[i].socket /\ stopped.attached = s[i].attached
  BY <1>2 DEF Capture!Resources, Capture!Released, Capture!Pending
<1> HIDE DEF stopped
<1>4. CASE s[i].stopping
  <2>1. s' = [s EXCEPT ![i] = r] /\ UNCHANGED <<current, status>>
    BY <1>2, <1>4 DEF Capture!GracefulStop, r
  <2>2. Fits(r, i, current) /\ Opened(r, provider[i]) /\ r.pc # "none"
    BY <1>1, <1>2 DEF Fits, Opened
  <2> QED BY <1>2, <2>1, <2>2, QuietKeeps
<1>5. CASE ~s[i].stopping /\ s[i].socket = "open"
  <2>1. /\ forced \in Capture!Resources /\ forced.pc = s[i].pc /\ forced.stopping
        /\ ~forced.mic /\ ~forced.audio /\ forced.expected /\ forced.aborted
        /\ forced.socket = s[i].socket /\ forced.attached = s[i].attached
    BY <1>3 DEF Capture!Resources, Capture!Watchdogs
  <2>2. s' = [s EXCEPT ![i] = forced] /\ current' = current /\ status' = "stopping"
    BY <1>1, <1>2, <1>5 DEF Capture!GracefulStop, Capture!Show, Capture!InView, r, stopped
  <2> HIDE DEF forced
  <2>3. /\ Fits(forced, i, current') /\ Opened(forced, provider[i]) /\ s[i].pc # "none"
    BY <1>1, <1>5, <2>1, <2>2 DEF Fits, Opened
  <2>4. /\ provider' \in [Capture!Ids -> Capture!Streams] /\ provider'[i] = provider[i]
        /\ \A j \in Capture!Ids : j # i => provider'[j] = provider[j]
        /\ provider[i].final <= provider[i].heard
    BY DEF CaptureInv, Capture!CaptureTypeOK
  <2> QED BY <1>1, <2>1, <2>2, <2>3, <2>4, UpdateKeeps
<1>6. CASE ~s[i].stopping /\ s[i].socket # "open"
  <2>1. /\ disposed \in Capture!Resources /\ disposed.pc = s[i].pc
        /\ ~disposed.mic /\ ~disposed.audio /\ ~disposed.attached /\ disposed.aborted
        /\ disposed.stopping /\ disposed.expected
        /\ disposed.socket = IF s[i].socket = "connecting" THEN "closing" ELSE s[i].socket
    <3> DEFINE close == r.socket = "connecting"
    <3>1. close \in BOOLEAN
      OBVIOUS
    <3>2. close /\ stopped.socket \in {"connecting", "open"} <=> s[i].socket = "connecting"
      BY <1>2, <1>3
    <3> HIDE DEF close
    <3>3. /\ Capture!Disposed(stopped, close) \in Capture!Resources
          /\ Capture!Disposed(stopped, close).pc = stopped.pc
          /\ ~Capture!Disposed(stopped, close).mic
          /\ ~Capture!Disposed(stopped, close).audio
          /\ ~Capture!Disposed(stopped, close).attached
          /\ Capture!Disposed(stopped, close).aborted
          /\ Capture!Disposed(stopped, close).stopping = stopped.stopping
          /\ Capture!Disposed(stopped, close).expected = stopped.expected
          /\ Capture!Disposed(stopped, close).socket =
               IF close /\ stopped.socket \in {"connecting", "open"} THEN "closing"
               ELSE stopped.socket
      BY <1>3, <3>1, DisposedIs
    <3> QED BY <1>3, <3>2, <3>3 DEF close
  <2>2. s' = [s EXCEPT ![i] = disposed] /\ current' = None /\ status' \in {"idle", "error"}
    BY <1>1, <1>2, <1>6
       DEF Capture!GracefulStop, Capture!Show, Capture!InView, Capture!Without, r, stopped
  <2> HIDE DEF disposed
  <2>3. /\ disposed.socket \in {"none", "closing", "closed"}
        /\ disposed.socket = "none" => s[i].socket = "none"
        /\ disposed.pc \in {"asking", "token"} => disposed.socket = "none"
        /\ disposed.pc # "none"
    BY <1>1, <1>6, <2>1 DEF Fits, Capture!Resources
  <2> QED BY <2>1, <2>2, <2>3, EndKeeps
<1> QED BY <1>4, <1>5, <1>6

LEMMA GrantedKeeps ==
  ASSUME CaptureInv, NEW i \in Capture!Ids, Capture!Granted(i)
  PROVE  CaptureInv'
<1>1. /\ s[i] \in Capture!Resources /\ Fits(s[i], i, current) /\ Opened(s[i], provider[i])
      /\ s[i].pc = "asking"
      /\ UNCHANGED <<status, current, turns, page, provider, inbox>>
      /\ inbox \in [Capture!Ids -> Seq(Capture!Event)]
  BY CaptureOf DEF Capture!Granted, CaptureInv, Capture!CaptureTypeOK
<1>2. CASE Capture!Superseded(i)
  <2> DEFINE r == [Capture!Released(s[i]) EXCEPT !.pc = "ended", !.prompt = FALSE]
  <2>1. /\ r \in Capture!Resources /\ r.pc = "ended" /\ r.stopping = s[i].stopping
        /\ ~r.mic /\ ~r.audio /\ r.socket = s[i].socket /\ r.attached = s[i].attached
        /\ r.aborted = s[i].aborted /\ r.expected = s[i].expected
    BY <1>1 DEF Capture!Resources, Capture!Released
  <2>2. s' = [s EXCEPT ![i] = r]
    BY <1>2 DEF Capture!Granted
  <2> HIDE DEF r
  <2>3. Fits(r, i, current) /\ Opened(r, provider[i])
    BY <1>1, <2>1 DEF Fits, Opened
  <2> QED BY <1>1, <2>1, <2>2, <2>3, QuietKeeps
<1>3. CASE ~Capture!Superseded(i)
  <2> DEFINE r == [s[i] EXCEPT !.pc = "token", !.mic = TRUE, !.prompt = FALSE]
  <2>1. /\ r \in Capture!Resources /\ r.pc = "token" /\ r.stopping = s[i].stopping
        /\ r.socket = s[i].socket /\ r.attached = s[i].attached
        /\ r.aborted = s[i].aborted /\ r.expected = s[i].expected
    BY <1>1 DEF Capture!Resources
  <2>2. s' = [s EXCEPT ![i] = r]
    BY <1>3 DEF Capture!Granted
  <2>3. current = i /\ ~s[i].expected
    BY <1>3 DEF Capture!Superseded
  <2> HIDE DEF r
  <2>4. Fits(r, i, current) /\ Opened(r, provider[i])
    BY <1>1, <2>1, <2>3 DEF Fits, Opened
  <2> QED BY <1>1, <2>1, <2>2, <2>4, QuietKeeps
<1> QED BY <1>2, <1>3

LEMMA GrantedLateKeeps ==
  ASSUME CaptureInv, NEW i \in Capture!Ids, Capture!GrantedLate(i)
  PROVE  CaptureInv'
<1>1. /\ s[i] \in Capture!Resources /\ Fits(s[i], i, current) /\ Opened(s[i], provider[i])
      /\ s[i].prompt
      /\ UNCHANGED <<status, current, turns, page, provider, inbox>>
      /\ inbox \in [Capture!Ids -> Seq(Capture!Event)]
  BY CaptureOf DEF Capture!GrantedLate, CaptureInv, Capture!CaptureTypeOK
<1> DEFINE r == [s[i] EXCEPT !.prompt = FALSE, !.mic = FALSE]
<1>2. /\ r \in Capture!Resources /\ r.pc = s[i].pc /\ r.stopping = s[i].stopping
      /\ r.mic = FALSE /\ r.audio = s[i].audio /\ r.socket = s[i].socket
      /\ r.attached = s[i].attached /\ r.aborted = s[i].aborted /\ r.expected = s[i].expected
  <2> DEFINE q == [s[i] EXCEPT !.prompt = FALSE]
  <2>1. /\ q \in Capture!Resources /\ q.pc = s[i].pc /\ q.stopping = s[i].stopping
        /\ q.audio = s[i].audio /\ q.socket = s[i].socket
        /\ q.attached = s[i].attached /\ q.aborted = s[i].aborted
        /\ q.expected = s[i].expected
    BY <1>1 DEF Capture!Resources
  <2>2. r = [q EXCEPT !.mic = FALSE]
    OBVIOUS
  <2> HIDE DEF q, r
  <2> QED BY <2>1, <2>2 DEF Capture!Resources
<1>3. s' = [s EXCEPT ![i] = r]
  <2>1. s \in [Capture!Ids -> Capture!Resources]
    BY DEF CaptureInv, Capture!CaptureTypeOK
  <2>2. s' = [s EXCEPT ![i].prompt = FALSE, ![i].mic = FALSE]
    BY DEF Capture!GrantedLate, Capture!LateStream
  <2> QED BY <2>1, <2>2
<1> HIDE DEF r
<1>4. s[i].pc # "none"
  BY <1>1 DEF Fits, Capture!Unstarted
<1>5. Fits(r, i, current) /\ Opened(r, provider[i])
  BY <1>1, <1>2, <1>4 DEF Fits, Opened
<1> QED BY <1>1, <1>2, <1>3, <1>4, <1>5, QuietKeeps

LEMMA TokenKeeps ==
  ASSUME CaptureInv, NEW i \in Capture!Ids, Capture!Token(i)
  PROVE  CaptureInv'
<1>1. /\ s[i] \in Capture!Resources /\ Fits(s[i], i, current) /\ Opened(s[i], provider[i])
      /\ s[i].pc = "token"
      /\ UNCHANGED <<turns, page, provider, inbox>>
      /\ inbox \in [Capture!Ids -> Seq(Capture!Event)]
  BY CaptureOf DEF Capture!Token, CaptureInv, Capture!CaptureTypeOK
<1> DEFINE r == [s[i] EXCEPT !.pc = "opening", !.socket = "connecting", !.attached = TRUE]
<1>2. /\ r \in Capture!Resources /\ r.pc = "opening" /\ r.stopping = s[i].stopping
      /\ r.mic = s[i].mic /\ r.audio = s[i].audio /\ r.socket = "connecting"
      /\ r.aborted = s[i].aborted /\ r.expected = s[i].expected
  BY <1>1 DEF Capture!Resources
<1>3. CASE Capture!Fail(i)
  BY <1>1, <1>3, FailKeeps
<1>4. CASE Capture!Proceed(i, r) /\ UNCHANGED <<status, current>>
  <2>1. CASE Capture!Superseded(i)
    BY <1>1, <1>4, <2>1, GivesUpKeeps DEF Capture!Proceed
  <2>2. CASE ~Capture!Superseded(i)
    <3>1. s' = [s EXCEPT ![i] = r] /\ current = i
      BY <1>4, <2>2 DEF Capture!Proceed, Capture!Superseded
    <3> HIDE DEF r
    <3>2. Fits(r, i, current) /\ Opened(r, provider[i])
      BY <1>1, <1>2, <3>1 DEF Fits, Opened
    <3> QED BY <1>1, <1>2, <1>4, <3>1, <3>2, QuietKeeps
  <2> QED BY <2>1, <2>2
<1> QED BY <1>3, <1>4 DEF Capture!Token

LEMMA ConnectKeeps ==
  ASSUME CaptureInv, NEW i \in Capture!Ids, Capture!Connect(i)
  PROVE  CaptureInv'
<1>1. /\ s[i] \in Capture!Resources /\ Fits(s[i], i, current) /\ Opened(s[i], provider[i])
      /\ s[i].socket = "connecting" /\ current = i
      /\ provider[i] \in Capture!Streams /\ provider[i].final <= provider[i].heard
      /\ i # None
  BY CaptureOf DEF Capture!Connect, Fits
<1>2. /\ UNCHANGED <<status, current, turns, page>>
      /\ page = "shown" => (current = None <=> status \in {"idle", "error"})
      /\ current = i /\ ~s[i].stopping => status \in {"connecting", "listening"}
      /\ status \in {"idle", "connecting", "listening", "stopping", "error"}
  BY CaptureOf DEF Capture!Connect
<1> DEFINE r == [s[i] EXCEPT !.socket = "open"]
           stream == [provider[i] EXCEPT !.phase = "open"]
<1>3. /\ r \in Capture!Resources /\ r.pc = s[i].pc /\ r.stopping = s[i].stopping
      /\ r.mic = s[i].mic /\ r.audio = s[i].audio /\ r.socket = "open"
      /\ r.aborted = s[i].aborted /\ r.expected = s[i].expected
  BY <1>1 DEF Capture!Resources
<1>4. stream \in Capture!Streams /\ stream.final <= stream.heard
  BY <1>1 DEF Capture!Streams
<1>5. s' = [s EXCEPT ![i] = r] /\ provider' = [provider EXCEPT ![i] = stream]
  BY DEF Capture!Connect
<1> HIDE DEF r, stream
<1>6. Fits(r, i, current) /\ Opened(r, stream) /\ s[i].pc # "none" /\ r.pc # "none"
  BY <1>1, <1>3 DEF Fits, Opened
<1>7. /\ provider' \in [Capture!Ids -> Capture!Streams] /\ provider'[i] = stream
      /\ \A j \in Capture!Ids : j # i => provider'[j] = provider[j]
  BY <1>4, <1>5 DEF CaptureInv, Capture!CaptureTypeOK
<1>8. inbox' \in [Capture!Ids -> Seq(Capture!Event)]
  <2>1. PICK first \in {"begin", "garbage"} :
          inbox' = [inbox EXCEPT ![i] = Append(inbox[i], <<first>>)]
    BY DEF Capture!Connect
  <2>2. <<first>> \in Capture!Event
    BY DEF Capture!Event
  <2>3. inbox \in [Capture!Ids -> Seq(Capture!Event)]
    BY DEF CaptureInv, Capture!CaptureTypeOK
  <2>4. Append(inbox[i], <<first>>) \in Seq(Capture!Event)
    BY <2>2, <2>3, AppendProperties
  <2> HIDE DEF Capture!Event
  <2> QED BY <2>1, <2>3, <2>4
<1> QED BY <1>1, <1>2, <1>3, <1>4, <1>5, <1>6, <1>7, <1>8, UpdateKeeps

LEMMA ModuleKeeps ==
  ASSUME CaptureInv, NEW i \in Capture!Ids, Capture!Module(i)
  PROVE  CaptureInv'
<1>1. /\ s[i] \in Capture!Resources /\ Fits(s[i], i, current) /\ Opened(s[i], provider[i])
      /\ s[i].pc = "module"
      /\ UNCHANGED <<turns, page, provider, inbox>>
      /\ inbox \in [Capture!Ids -> Seq(Capture!Event)]
  BY CaptureOf DEF Capture!Module, CaptureInv, Capture!CaptureTypeOK
<1> DEFINE r == [s[i] EXCEPT !.pc = "resuming"]
<1>2. /\ r \in Capture!Resources /\ r.pc = "resuming" /\ r.stopping = s[i].stopping
      /\ r.mic = s[i].mic /\ r.audio = s[i].audio /\ r.socket = s[i].socket
      /\ r.attached = s[i].attached /\ r.aborted = s[i].aborted /\ r.expected = s[i].expected
  BY <1>1 DEF Capture!Resources
<1>3. CASE Capture!Fail(i)
  BY <1>1, <1>3, FailKeeps
<1>4. CASE Capture!Proceed(i, r) /\ UNCHANGED <<status, current>>
  <2>1. CASE Capture!Superseded(i)
    BY <1>1, <1>4, <2>1, GivesUpKeeps DEF Capture!Proceed
  <2>2. CASE ~Capture!Superseded(i)
    <3>1. s' = [s EXCEPT ![i] = r]
      BY <1>4, <2>2 DEF Capture!Proceed
    <3> HIDE DEF r
    <3>2. Fits(r, i, current) /\ Opened(r, provider[i])
      BY <1>1, <1>2 DEF Fits, Opened
    <3> QED BY <1>1, <1>2, <1>4, <3>1, <3>2, QuietKeeps
  <2> QED BY <2>1, <2>2
<1> QED BY <1>3, <1>4 DEF Capture!Module

LEMMA ResumedKeeps ==
  ASSUME CaptureInv, NEW i \in Capture!Ids, Capture!Resumed(i)
  PROVE  CaptureInv'
<1>1. /\ s[i] \in Capture!Resources /\ Fits(s[i], i, current) /\ Opened(s[i], provider[i])
      /\ s[i].pc = "resuming" /\ i # None
      /\ UNCHANGED <<turns, page, provider, inbox>>
      /\ inbox \in [Capture!Ids -> Seq(Capture!Event)]
  BY CaptureOf DEF Capture!Resumed, CaptureInv, Capture!CaptureTypeOK
<1>2. CASE Capture!Fail(i)
  BY <1>1, <1>2, FailKeeps
<1>3. CASE /\ s' = [s EXCEPT ![i].pc = "running",
                             ![i].timers = s[i].timers \cup {"session"}]
           /\ IF current = i THEN Capture!Show("listening") ELSE UNCHANGED status
           /\ UNCHANGED current
  <2> DEFINE r == [s[i] EXCEPT !.pc = "running", !.timers = @ \cup {"session"}]
  <2>1. /\ r \in Capture!Resources /\ r.pc = "running" /\ r.stopping = s[i].stopping
        /\ r.mic = s[i].mic /\ r.audio = s[i].audio /\ r.socket = s[i].socket
        /\ r.attached = s[i].attached /\ r.aborted = s[i].aborted
        /\ r.expected = s[i].expected
    BY <1>1 DEF Capture!Resources
  <2>2. s' = [s EXCEPT ![i] = r]
    BY <1>1, <1>3 DEF CaptureInv, Capture!CaptureTypeOK
  <2> HIDE DEF r
  <2>3. Fits(r, i, current) /\ Opened(r, provider[i])
    BY <1>1, <2>1 DEF Fits, Opened
  <2>4. CASE current # i
    BY <1>1, <1>3, <2>1, <2>2, <2>3, <2>4, QuietKeeps
  <2>5. CASE current = i
    <3>1. page = "shown" /\ status' = "listening" /\ current' = i
      BY <1>3, <2>5, CaptureOf DEF Capture!Show, Capture!InView
    <3>2. /\ provider' \in [Capture!Ids -> Capture!Streams] /\ provider'[i] = provider[i]
          /\ \A j \in Capture!Ids : j # i => provider'[j] = provider[j]
          /\ provider[i].final <= provider[i].heard
      BY <1>1 DEF CaptureInv, Capture!CaptureTypeOK
    <3> QED BY <1>1, <2>1, <2>2, <2>3, <2>5, <3>1, <3>2, UpdateKeeps
  <2> QED BY <2>4, <2>5
<1> QED BY <1>2, <1>3 DEF Capture!Resumed

\* The page is shown again, or what it shows is stopped, with nothing held.
LEMMA PageKeeps ==
  ASSUME CaptureInv, current = None, UNCHANGED <<current, turns, s, provider, inbox>>,
         page' \in {"shown", "away", "restored"},
         status' \in {"idle", "connecting", "listening", "stopping", "error"},
         page' = "shown" => status' \in {"idle", "error"}
  PROVE  CaptureInv'
<1>1. None \notin Capture!Ids
  BY DEF Capture!Ids
<1>2. Capture!CaptureTypeOK' /\ Capture!TranscriptOfLatest'
  BY DEF CaptureInv, Capture!CaptureTypeOK, Capture!TranscriptOfLatest
<1> QED BY <1>1, <1>2 DEF CaptureInv, Shown, Ordered, Fits, Opened

LEMMA RestoreKeeps ==
  ASSUME CaptureInv, Capture!Restore
  PROVE  CaptureInv'
<1>1. /\ current = None /\ UNCHANGED <<status, current, turns, s, provider, inbox>>
      /\ page' \in {"shown", "restored"} /\ (page' = "shown" => status \in {"idle", "error"})
      /\ status \in {"idle", "connecting", "listening", "stopping", "error"}
  BY DEF Capture!Restore, CaptureInv, Shown, Capture!CaptureTypeOK
<1> QED BY <1>1, PageKeeps

LEMMA StoppedKeeps ==
  ASSUME CaptureInv, Capture!Stop
  PROVE  CaptureInv'
<1>1. CASE current = None
  <2>1. /\ page' = "shown" /\ status' = "idle"
        /\ UNCHANGED <<current, turns, s, provider, inbox>>
    BY <1>1 DEF Capture!Stop
  <2> QED BY <1>1, <2>1, PageKeeps
<1>2. CASE current # None
  <2>1. /\ current \in Capture!Ids /\ Capture!GracefulStop(current, FALSE)
        /\ UNCHANGED <<turns, page, provider, inbox>>
        /\ inbox \in [Capture!Ids -> Seq(Capture!Event)]
    BY <1>2 DEF Capture!Stop, CaptureInv, Capture!CaptureTypeOK
  <2> QED BY <2>1, StopsKeep
<1> QED BY <1>1, <1>2

\* The service begins to close the socket.
LEMMA ServiceClosesKeeps ==
  ASSUME CaptureInv, NEW i \in Capture!Ids, Capture!ServiceCloses(i)
  PROVE  CaptureInv'
<1>1. /\ s[i] \in Capture!Resources /\ Fits(s[i], i, current) /\ s[i].socket = "open"
      /\ UNCHANGED <<status, current, turns, page, provider, inbox>>
      /\ inbox \in [Capture!Ids -> Seq(Capture!Event)]
  BY CaptureOf DEF Capture!ServiceCloses, CaptureInv, Capture!CaptureTypeOK
<1> DEFINE r == [s[i] EXCEPT !.socket = "closing"]
<1>2. /\ r \in Capture!Resources /\ r.pc = s[i].pc /\ r.stopping = s[i].stopping
      /\ r.mic = s[i].mic /\ r.audio = s[i].audio /\ r.socket = "closing"
      /\ r.attached = s[i].attached /\ r.aborted = s[i].aborted /\ r.expected = s[i].expected
  BY <1>1 DEF Capture!Resources
<1>3. s' = [s EXCEPT ![i] = r]
  BY DEF Capture!ServiceCloses
<1> HIDE DEF r
<1>4. Fits(r, i, current) /\ Opened(r, provider[i]) /\ r.pc # "none"
  BY <1>1, <1>2 DEF Fits, Opened, Capture!Unstarted
<1> QED BY <1>1, <1>2, <1>3, <1>4, QuietKeeps

LEMMA CaptureLostKeeps ==
  ASSUME CaptureInv, NEW i \in Capture!Ids, Capture!CaptureLost(i)
  PROVE  CaptureInv'
<1>1. /\ current = i /\ Capture!GracefulStop(i, TRUE)
      /\ UNCHANGED <<turns, page, provider, inbox>>
      /\ inbox \in [Capture!Ids -> Seq(Capture!Event)]
  BY DEF Capture!CaptureLost, CaptureInv, Capture!CaptureTypeOK, Fits
<1> QED BY <1>1, StopsKeep

\* A timer of a capture that is over does nothing but go off.
LEMMA TimerKeeps ==
  ASSUME CaptureInv, NEW i \in Capture!Ids, NEW timer \in s[i].timers,
         NEW sent \in SUBSET {"force", "terminate"},
         s' = [s EXCEPT ![i] = [s[i] EXCEPT !.timers = s[i].timers \ {timer}, !.sent = sent]],
         UNCHANGED <<status, current, turns, page, provider, inbox>>
  PROVE  CaptureInv'
<1>1. /\ s[i] \in Capture!Resources /\ Fits(s[i], i, current) /\ Opened(s[i], provider[i])
      /\ inbox' \in [Capture!Ids -> Seq(Capture!Event)]
  BY CaptureOf DEF CaptureInv, Capture!CaptureTypeOK
<1> DEFINE r == [s[i] EXCEPT !.timers = s[i].timers \ {timer}, !.sent = sent]
<1>2. /\ r \in Capture!Resources /\ r.pc = s[i].pc /\ r.stopping = s[i].stopping
      /\ r.mic = s[i].mic /\ r.audio = s[i].audio /\ r.socket = s[i].socket
      /\ r.attached = s[i].attached /\ r.aborted = s[i].aborted /\ r.expected = s[i].expected
  BY <1>1 DEF Capture!Resources
<1> HIDE DEF r
<1>3. s[i].pc # "none"
  BY <1>1 DEF Fits, Capture!Unstarted
<1>4. Fits(r, i, current) /\ Opened(r, provider[i])
  BY <1>1, <1>2, <1>3 DEF Fits, Opened
<1> QED BY <1>1, <1>2, <1>3, <1>4, QuietKeeps DEF r

LEMMA SessionTimerKeeps ==
  ASSUME CaptureInv, NEW i \in Capture!Ids, Capture!SessionTimer(i)
  PROVE  CaptureInv'
<1>1. /\ "session" \in s[i].timers /\ s[i] \in Capture!Resources
      /\ UNCHANGED <<turns, page, provider, inbox>>
      /\ inbox \in [Capture!Ids -> Seq(Capture!Event)]
  BY CaptureOf DEF Capture!SessionTimer, CaptureInv, Capture!CaptureTypeOK
<1>2. CASE current # i \/ s[i].stopping
  <2>1. /\ s' = [s EXCEPT ![i].timers = s[i].timers \ {"session"}]
        /\ UNCHANGED <<current, status>>
    BY <1>2 DEF Capture!SessionTimer
  <2>2. [s[i] EXCEPT !.timers = s[i].timers \ {"session"}, !.sent = s[i].sent] =
          [s[i] EXCEPT !.timers = s[i].timers \ {"session"}]
    BY <1>1 DEF Capture!Resources
  <2>3. s[i].sent \in SUBSET {"force", "terminate"}
    BY <1>1 DEF Capture!Resources
  <2> QED BY <1>1, <2>1, <2>2, <2>3, TimerKeeps
<1>3. CASE ~(current # i \/ s[i].stopping)
  BY <1>1, <1>3, StopsKeep DEF Capture!SessionTimer
<1> QED BY <1>2, <1>3

LEMMA ForceTimerKeeps ==
  ASSUME CaptureInv, NEW i \in Capture!Ids, Capture!ForceTimer(i)
  PROVE  CaptureInv'
<1>1. /\ "force" \in s[i].timers /\ s[i] \in Capture!Resources
      /\ UNCHANGED <<status, current, turns, page, provider, inbox>>
      /\ s' = [s EXCEPT ![i].timers = s[i].timers \ {"force"},
                        ![i].sent = Capture!Terminates(s[i])]
  BY CaptureOf DEF Capture!ForceTimer, CaptureInv, Capture!CaptureTypeOK
<1>2. Capture!Terminates(s[i]) \in SUBSET {"force", "terminate"}
  BY <1>1 DEF Capture!Terminates, Capture!Resources
<1> HIDE DEF Capture!Terminates
<1>3. s' = [s EXCEPT ![i] = [s[i] EXCEPT !.timers = s[i].timers \ {"force"},
                                         !.sent = Capture!Terminates(s[i])]]
  BY <1>1 DEF CaptureInv, Capture!CaptureTypeOK
<1> QED BY <1>1, <1>2, <1>3, TimerKeeps

LEMMA CloseTimerKeeps ==
  ASSUME CaptureInv, NEW i \in Capture!Ids, Capture!CloseTimer(i)
  PROVE  CaptureInv'
<1>1. /\ "close" \in s[i].timers /\ s[i] \in Capture!Resources
      /\ Fits(s[i], i, current)
      /\ current = i => page = "shown"
      /\ UNCHANGED <<turns, page, provider, inbox>>
      /\ inbox \in [Capture!Ids -> Seq(Capture!Event)]
  BY CaptureOf DEF Capture!CloseTimer, CaptureInv, Capture!CaptureTypeOK
<1>2. CASE current # i \/ s[i].terminated
  <2>1. /\ s' = [s EXCEPT ![i].timers = s[i].timers \ {"close"}]
        /\ UNCHANGED <<current, status>>
    BY <1>2 DEF Capture!CloseTimer
  <2>2. [s[i] EXCEPT !.timers = s[i].timers \ {"close"}, !.sent = s[i].sent] =
          [s[i] EXCEPT !.timers = s[i].timers \ {"close"}]
    BY <1>1 DEF Capture!Resources
  <2>3. s[i].sent \in SUBSET {"force", "terminate"}
    BY <1>1 DEF Capture!Resources
  <2> QED BY <1>1, <2>1, <2>2, <2>3, TimerKeeps
<1>3. CASE ~(current # i \/ s[i].terminated)
  <2> DEFINE d == Capture!Disposed(s[i], TRUE)
  <2>2. /\ d \in Capture!Resources /\ d.pc = s[i].pc
        /\ ~d.mic /\ ~d.audio /\ ~d.attached /\ d.aborted
        /\ d.stopping = s[i].stopping /\ d.expected = s[i].expected
        /\ d.socket = IF s[i].socket \in {"connecting", "open"} THEN "closing"
                      ELSE s[i].socket
    BY <1>1, DisposedIs
  <2>3. s' = [s EXCEPT ![i] = d] /\ current = i /\ current' = None /\ status' = "error"
    BY <1>1, <1>3 DEF Capture!CloseTimer, Capture!Without, Capture!Show, Capture!InView
  <2> HIDE DEF d
  <2>4. /\ d.socket \in {"none", "closing", "closed"}
        /\ d.socket = "none" => s[i].socket = "none"
        /\ d.pc \in {"asking", "token"} => d.socket = "none"
        /\ d.stopping => d.expected
    BY <1>1, <2>2, <2>3 DEF Fits, Capture!Resources
  <2>5. d.pc # "none"
    BY <1>1, <2>2, <2>3 DEF Fits
  <2> QED BY <1>1, <2>2, <2>3, <2>4, <2>5, EndKeeps
<1> QED BY <1>2, <1>3

\* onclose.
LEMMA ClosedKeeps ==
  ASSUME CaptureInv, NEW i \in Capture!Ids, Capture!Closed(i)
  PROVE  CaptureInv'
<1>1. /\ s[i] \in Capture!Resources /\ Fits(s[i], i, current) /\ Opened(s[i], provider[i])
      /\ s[i].socket \in {"closing", "open"}
      /\ current = i => page = "shown"
      /\ UNCHANGED <<turns, page, provider, inbox>>
      /\ inbox \in [Capture!Ids -> Seq(Capture!Event)]
  BY CaptureOf DEF Capture!Closed, CaptureInv, Capture!CaptureTypeOK
<1> DEFINE r == [s[i] EXCEPT !.socket = "closed"]
<1>2. /\ r \in Capture!Resources /\ r.pc = s[i].pc /\ r.stopping = s[i].stopping
      /\ r.mic = s[i].mic /\ r.audio = s[i].audio /\ r.socket = "closed"
      /\ r.attached = s[i].attached /\ r.aborted = s[i].aborted /\ r.expected = s[i].expected
  BY <1>1 DEF Capture!Resources
<1>3. s[i].pc \notin {"none", "asking", "token"}
  BY <1>1 DEF Fits
<1>4. CASE ~s[i].attached
  <2>1. s' = [s EXCEPT ![i] = r] /\ UNCHANGED <<status, current>>
    BY <1>4 DEF Capture!Closed
  <2> HIDE DEF r
  <2>2. Fits(r, i, current) /\ Opened(r, provider[i])
    BY <1>1, <1>2, <1>3 DEF Fits, Opened
  <2> QED BY <1>1, <1>2, <1>3, <2>1, <2>2, QuietKeeps
<1>5. CASE s[i].attached
  <2> DEFINE d == Capture!Disposed(r, FALSE)
  <2>1. s' = [s EXCEPT ![i] = d]
    BY <1>5 DEF Capture!Closed
  <2> HIDE DEF r
  <2>2. /\ d \in Capture!Resources /\ d.pc = s[i].pc
        /\ ~d.mic /\ ~d.audio /\ ~d.attached /\ d.aborted
        /\ d.stopping = s[i].stopping /\ d.expected = s[i].expected
        /\ d.socket = "closed"
    BY <1>2, DisposedIs
  <2> HIDE DEF d
  <2>3. current = i
    BY <1>1, <1>5 DEF Fits
  <2>4. current' = None /\ status' \in {"error", "idle"}
    BY <1>1, <1>5, <2>3 DEF Capture!Closed, Capture!Without, Capture!Show, Capture!InView
  <2>5. d.stopping => d.expected
    BY <1>1, <2>2 DEF Fits
  <2> QED BY <1>1, <1>3, <2>1, <2>2, <2>3, <2>4, <2>5, EndKeeps
<1> QED BY <1>4, <1>5

\* The resources of the current capture, shut down for good.
LEMMA ShutDownIs ==
  ASSUME CaptureInv, NEW i \in Capture!Ids, current = i, NEW cur, cur # i
  PROVE  /\ Capture!ShutDown(i) \in Capture!Resources
         /\ Capture!ShutDown(i).pc = s[i].pc /\ s[i].pc # "none"
         /\ Fits(Capture!ShutDown(i), i, cur)
         /\ Opened(Capture!ShutDown(i), provider[i])
<1>1. /\ s[i] \in Capture!Resources /\ Fits(s[i], i, current) /\ Opened(s[i], provider[i])
  BY CaptureOf
<1> DEFINE r == [s[i] EXCEPT !.expected = TRUE]
           d == Capture!Disposed(r, TRUE)
<1>2. /\ r \in Capture!Resources /\ r.pc = s[i].pc /\ r.stopping = s[i].stopping
      /\ r.socket = s[i].socket /\ r.expected = TRUE
  BY <1>1 DEF Capture!Resources
<1> HIDE DEF r
<1>3. /\ d \in Capture!Resources /\ d.pc = s[i].pc
      /\ ~d.mic /\ ~d.audio /\ ~d.attached /\ d.aborted
      /\ d.expected /\ d.socket = IF s[i].socket \in {"connecting", "open"} THEN "closing"
                                  ELSE s[i].socket
  BY <1>2, DisposedIs
<1>4. Capture!ShutDown(i) = d
  BY DEF Capture!ShutDown, r
<1> HIDE DEF d
<1>5. s[i].pc # "none"
  BY <1>1 DEF Fits
<1>6. d.socket \in {"none", "closing", "closed"} /\ (d.socket = "none" => s[i].socket = "none")
  BY <1>1, <1>3 DEF Capture!Resources
<1>7. Fits(d, i, cur)
  BY <1>1, <1>3, <1>5, <1>6 DEF Fits
<1>8. Opened(d, provider[i])
  BY <1>1, <1>6 DEF Opened
<1> QED BY <1>3, <1>4, <1>5, <1>7, <1>8

LEMMA LeaveKeeps ==
  ASSUME CaptureInv, Capture!Leave
  PROVE  CaptureInv'
<1>1. \A j \in Capture!Ids : Fits(s[j], j, current) /\ Opened(s[j], provider[j])
  BY DEF CaptureInv
<1>2. None \notin Capture!Ids /\ current \in Capture!Ids \cup {None}
  BY DEF CaptureInv, Capture!CaptureTypeOK, Capture!Ids
<1>3. /\ current' = None /\ page' = "away" /\ UNCHANGED <<status, turns, provider, inbox>>
      /\ s \in [Capture!Ids -> Capture!Resources]
  BY DEF Capture!Leave, CaptureInv, Capture!CaptureTypeOK
<1>4. /\ s' \in [Capture!Ids -> Capture!Resources]
      /\ \A j \in Capture!Ids : /\ s'[j].pc = s[j].pc
                                /\ Fits(s'[j], j, None) /\ Opened(s'[j], provider[j])
  <2>1. CASE current = None
    <3>1. s' = s
      BY <2>1 DEF Capture!Leave
    <3> QED BY <1>1, <1>3, <2>1, <3>1
  <2>2. CASE current # None
    <3> DEFINE d == Capture!ShutDown(current)
    <3>1. current \in Capture!Ids /\ s' = [s EXCEPT ![current] = d]
      BY <1>2, <2>2 DEF Capture!Leave
    <3>2. /\ d \in Capture!Resources /\ d.pc = s[current].pc
          /\ Fits(d, current, None) /\ Opened(d, provider[current])
      BY <2>2, <3>1, ShutDownIs
    <3> HIDE DEF d
    <3>3. \A j \in Capture!Ids : s'[j] = IF j = current THEN d ELSE s[j]
      BY <1>3, <3>1
    <3>4. ASSUME NEW j \in Capture!Ids, j # current
          PROVE  Fits(s[j], j, None)
      BY <1>1, <1>2, <3>4 DEF Fits
    <3> QED BY <1>1, <1>3, <3>1, <3>2, <3>3, <3>4
  <2> QED BY <2>1, <2>2
<1>5. Capture!CaptureTypeOK'
  BY <1>3, <1>4 DEF CaptureInv, Capture!CaptureTypeOK
<1>6. Capture!TranscriptOfLatest' /\ Shown' /\ Ordered'
  BY <1>2, <1>3, <1>4 DEF CaptureInv, Capture!TranscriptOfLatest, Shown, Ordered
<1> QED BY <1>3, <1>4, <1>5, <1>6 DEF CaptureInv, Fits, Opened

LEMMA StartKeeps ==
  ASSUME CaptureInv, Capture!Start
  PROVE  CaptureInv'
<1> DEFINE fresh == [Capture!Unstarted EXCEPT !.pc = "asking", !.prompt = TRUE]
<1>1. PICK i \in Capture!Ids :
        /\ s[i].pc = "none" /\ \A j \in 1..(i - 1) : s[j].pc # "none"
        /\ s' = [j \in Capture!Ids |-> IF j = i THEN fresh
                                       ELSE IF j = current THEN Capture!ShutDown(j) ELSE s[j]]
        /\ current' = i
  BY DEF Capture!Start
<1>2. /\ fresh \in Capture!Resources /\ fresh.pc = "asking" /\ fresh.socket = "none"
      /\ ~fresh.mic /\ ~fresh.audio /\ ~fresh.stopping
  BY DEF Capture!Unstarted, Capture!Resources
<1> HIDE DEF fresh
<1>3. /\ page' = "shown" /\ turns' = {} /\ status' = "connecting"
      /\ UNCHANGED <<provider, inbox>> /\ s \in [Capture!Ids -> Capture!Resources]
  BY DEF Capture!Start, CaptureInv, Capture!CaptureTypeOK
<1>4. \A j \in Capture!Ids : Fits(s[j], j, current) /\ Opened(s[j], provider[j])
  BY DEF CaptureInv
<1>5. ASSUME NEW j \in Capture!Ids
      PROVE  /\ s'[j] \in Capture!Resources
             /\ Fits(s'[j], j, i) /\ Opened(s'[j], provider[j])
             /\ s'[j].pc # "none" <=> (j = i \/ s[j].pc # "none")
  <2>1. CASE j = i
    <3>1. s'[j] = fresh
      BY <1>1, <2>1
    <3>2. provider[i].phase = "none"
      BY <1>1, <1>4 DEF Fits, Opened
    <3> QED BY <1>2, <2>1, <3>1, <3>2 DEF Fits, Opened
  <2>2. CASE j # i /\ j = current
    <3>1. s'[j] = Capture!ShutDown(j)
      BY <1>1, <2>2
    <3> QED BY <2>2, <3>1, ShutDownIs
  <2>3. CASE j # i /\ j # current
    <3>1. s'[j] = s[j]
      BY <1>1, <2>3
    <3>2. Fits(s[j], j, i)
      BY <1>4, <2>3 DEF Fits
    <3> QED BY <1>3, <1>4, <2>3, <3>1, <3>2
  <2> QED BY <2>1, <2>2, <2>3
<1>6. Capture!CaptureTypeOK'
  <2>1. s' \in [Capture!Ids -> Capture!Resources]
    BY <1>1, <1>5
  <2>2. i # None
    BY DEF Capture!Ids
  <2> QED BY <1>1, <1>3, <2>1, <2>2 DEF CaptureInv, Capture!CaptureTypeOK
<1>7. \A j \in Capture!Ids : s[j].pc # "none" => j < i
  <2>1. ASSUME NEW j \in Capture!Ids, s[j].pc # "none", i <= j
        PROVE  FALSE
    <3>1. i < j
      BY <1>1, <2>1 DEF Capture!Ids
    <3> QED BY <1>1, <2>1, <3>1 DEF CaptureInv, Ordered
  <2> QED BY <2>1 DEF Capture!Ids
<1>8. Ordered'
  <2>1. ASSUME NEW k \in Capture!Ids, NEW j \in Capture!Ids, s'[j].pc # "none"
        PROVE  /\ k < j => s'[k].pc # "none"
               /\ current' = k => j <= k
    <3>1. j <= i
      BY <1>5, <1>7, <2>1 DEF Capture!Ids
    <3>2. k < j => k \in 1..(i - 1)
      BY <3>1 DEF Capture!Ids
    <3> QED BY <1>1, <1>5, <3>1, <3>2
  <2> QED BY <2>1 DEF Ordered
<1>9. Capture!TranscriptOfLatest' /\ Shown'
  BY <1>1, <1>3 DEF Capture!TranscriptOfLatest, Shown
<1>10. \A j \in Capture!Ids : Fits(s'[j], j, current') /\ Opened(s'[j], provider'[j])
  BY <1>1, <1>3, <1>5
<1> QED BY <1>6, <1>8, <1>9, <1>10 DEF CaptureInv, Fits, Opened

LEMMA ClearKeeps ==
  ASSUME CaptureInv, Capture!ClearTranscript
  PROVE  CaptureInv'
<1>1. turns' = {} /\ UNCHANGED <<status, current, page, s, provider, inbox>>
  BY DEF Capture!ClearTranscript
<1>2. Capture!CaptureTypeOK' /\ Capture!TranscriptOfLatest'
  BY <1>1 DEF CaptureInv, Capture!CaptureTypeOK, Capture!TranscriptOfLatest
<1> QED BY <1>1, <1>2 DEF CaptureInv, Shown, Ordered, Fits, Opened

\* A step of the service that sends the browser one event or none.
LEMMA SaysKeeps ==
  ASSUME CaptureInv, NEW i \in Capture!Ids, NEW stream \in Capture!Streams,
         NEW events \in Seq(Capture!Event),
         provider[i].phase = "open", stream.final <= stream.heard,
         provider' = [provider EXCEPT ![i] = stream],
         inbox' = [inbox EXCEPT ![i] = inbox[i] \o events],
         UNCHANGED <<status, current, turns, page, s>>
  PROVE  CaptureInv'
<1>1. /\ inbox \in [Capture!Ids -> Seq(Capture!Event)]
      /\ provider \in [Capture!Ids -> Capture!Streams]
      /\ \A j \in Capture!Ids : provider[j].final <= provider[j].heard
  BY DEF CaptureInv, Capture!CaptureTypeOK
<1> HIDE DEF Capture!Event
<1>2. inbox[i] \o events \in Seq(Capture!Event)
  BY <1>1, ConcatProperties
<1>3. inbox' \in [Capture!Ids -> Seq(Capture!Event)]
  BY <1>1, <1>2
<1>4. \A j \in Capture!Ids : provider'[j] = IF j = i THEN stream ELSE provider[j]
  BY <1>1
<1>5. provider' \in [Capture!Ids -> Capture!Streams]
  BY <1>1
<1> QED BY <1>1, <1>3, <1>4, <1>5, ServiceKeeps

LEMMA OneMore ==
  ASSUME NEW S, NEW q \in Seq(S), NEW e \in S
  PROVE  <<e>> \in Seq(S) /\ Append(q, e) = q \o <<e>>
<1>1. <<e>> \in Seq(S)
  OBVIOUS
<1> QED BY <1>1, AppendIsConcat

LEMMA HearKeeps ==
  ASSUME CaptureInv, NEW i \in Capture!Ids, Capture!Hear(i)
  PROVE  CaptureInv'
<1>1. /\ provider[i] \in Capture!Streams /\ provider[i].final <= provider[i].heard
      /\ inbox[i] \in Seq(Capture!Event) /\ provider[i].phase = "open"
      /\ provider[i].heard < MaxTurns
      /\ UNCHANGED <<status, current, turns, page, s>>
  BY CaptureOf DEF Capture!Hear
<1> DEFINE stream == [provider[i] EXCEPT !.heard = @ + 1]
<1>2. stream \in Capture!Streams /\ stream.final <= stream.heard
  BY <1>1 DEF Capture!Streams
<1>3. provider' = [provider EXCEPT ![i] = stream]
  BY DEF Capture!Hear
<1>4. <<"speech">> \in Capture!Event
  BY DEF Capture!Event
<1>5. /\ <<<<"speech">>>> \in Seq(Capture!Event)
      /\ inbox' = [inbox EXCEPT ![i] = inbox[i] \o <<<<"speech">>>>]
  <2>1. inbox' = [inbox EXCEPT ![i] = Append(inbox[i], <<"speech">>)]
    BY DEF Capture!Hear
  <2> HIDE DEF Capture!Event
  <2> QED BY <1>1, <1>4, <2>1, OneMore
<1> HIDE DEF stream
<1> QED BY <1>1, <1>2, <1>3, <1>5, SaysKeeps

LEMMA FinalizeKeeps ==
  ASSUME CaptureInv, NEW i \in Capture!Ids, Capture!Finalize(i)
  PROVE  CaptureInv'
<1>1. /\ provider[i] \in Capture!Streams /\ provider[i].final < provider[i].heard
      /\ inbox[i] \in Seq(Capture!Event) /\ provider[i].phase = "open"
      /\ UNCHANGED <<status, current, turns, page, s>>
  BY CaptureOf DEF Capture!Finalize
<1> DEFINE stream == [provider[i] EXCEPT !.final = @ + 1]
           event == <<"final", provider[i].final + 1>>
<1>2. /\ stream \in Capture!Streams /\ stream.final <= stream.heard
      /\ provider[i].final + 1 \in 1..MaxTurns
  BY <1>1 DEF Capture!Streams
<1>3. provider' = [provider EXCEPT ![i] = stream]
  BY DEF Capture!Finalize
<1>4. event \in Capture!Event
  BY <1>2 DEF Capture!Event
<1>5. inbox' = [inbox EXCEPT ![i] = Append(inbox[i], event)]
  BY DEF Capture!Finalize
<1> HIDE DEF stream, event
<1>6. <<event>> \in Seq(Capture!Event) /\ inbox' = [inbox EXCEPT ![i] = inbox[i] \o <<event>>]
  <2> HIDE DEF Capture!Event
  <2> QED BY <1>1, <1>4, <1>5, OneMore
<1> QED BY <1>1, <1>2, <1>3, <1>6, SaysKeeps

LEMMA TerminateKeeps ==
  ASSUME CaptureInv, NEW i \in Capture!Ids,
         Capture!Terminate(i) \/ Capture!Disconnected(i)
  PROVE  CaptureInv'
<1>1. /\ provider[i] \in Capture!Streams /\ provider[i].final <= provider[i].heard
      /\ inbox \in [Capture!Ids -> Seq(Capture!Event)] /\ inbox[i] \in Seq(Capture!Event)
      /\ provider[i].phase = "open"
      /\ UNCHANGED <<status, current, turns, page, s>>
  BY CaptureOf DEF Capture!Terminate, Capture!Disconnected, CaptureInv, Capture!CaptureTypeOK
<1> DEFINE stream == [provider[i] EXCEPT !.phase = "ended"]
<1>2. stream \in Capture!Streams /\ stream.final <= stream.heard
  BY <1>1 DEF Capture!Streams
<1>3. provider' = [provider EXCEPT ![i] = stream]
  BY DEF Capture!Terminate, Capture!Disconnected
<1> HIDE DEF stream
<1>4. PICK ending \in {<< <<"termination">> >>, << <<"garbage">> >>, <<>>} :
        inbox' = [inbox EXCEPT ![i] = inbox[i] \o ending]
  <2>1. CASE Capture!Terminate(i)
    BY <2>1 DEF Capture!Terminate
  <2>2. CASE Capture!Disconnected(i)
    <3>1. inbox[i] \o <<>> = inbox[i]
      BY <1>1, ConcatEmptySeq
    <3>2. inbox' = [inbox EXCEPT ![i] = inbox[i] \o <<>>]
      BY <1>1, <2>2, <3>1 DEF Capture!Disconnected
    <3> QED BY <3>2
  <2> QED BY <2>1, <2>2
<1>5. ending \in Seq(Capture!Event)
  <2>1. <<"termination">> \in Capture!Event /\ <<"garbage">> \in Capture!Event
    BY DEF Capture!Event
  <2> HIDE DEF Capture!Event
  <2>2. CASE ending = << <<"termination">> >>
    BY <2>1, <2>2
  <2>3. CASE ending = << <<"garbage">> >>
    BY <2>1, <2>3
  <2>4. CASE ending = <<>>
    BY <2>4
  <2> QED BY <2>2, <2>3, <2>4
<1> QED BY <1>1, <1>2, <1>3, <1>4, <1>5, SaysKeeps

\* An event that reaches the current capture: what it does there, besides leaving the inbox.
LEMMA ReceiveKeeps ==
  ASSUME CaptureInv, NEW i \in Capture!Ids, Capture!Receive(i)
  PROVE  CaptureInv'
<1> DEFINE event == Head(inbox[i])[1]
           n == Head(inbox[i])[2]
           r == s[i]
<1>1. /\ s[i] \in Capture!Resources /\ Fits(s[i], i, current) /\ Opened(s[i], provider[i])
      /\ inbox[i] \in Seq(Capture!Event) /\ inbox[i] # <<>>
      /\ UNCHANGED <<page, provider>>
  BY CaptureOf DEF Capture!Receive
<1>2. Head(inbox[i]) \in Capture!Event /\ inbox' \in [Capture!Ids -> Seq(Capture!Event)]
  <2>1. /\ inbox \in [Capture!Ids -> Seq(Capture!Event)]
        /\ inbox' = [inbox EXCEPT ![i] = Tail(inbox[i])]
    BY DEF Capture!Receive, CaptureInv, Capture!CaptureTypeOK
  <2> HIDE DEF Capture!Event
  <2>2. Tail(inbox[i]) \in Seq(Capture!Event) /\ Head(inbox[i]) \in Capture!Event
    BY <1>1, HeadTailProperties
  <2> QED BY <2>1, <2>2
<1>3. /\ event \in {"begin", "garbage", "speech", "termination", "final"}
      /\ event = "final" => n \in 1..MaxTurns
  BY <1>2 DEF Capture!Event
<1> HIDE DEF event, n
<1>4. CASE UNCHANGED <<s, status, current, turns>>
  <2>1. /\ provider' \in [Capture!Ids -> Capture!Streams]
        /\ \A j \in Capture!Ids : provider'[j].final <= provider'[j].heard
    BY <1>1 DEF CaptureInv, Capture!CaptureTypeOK
  <2> QED BY <1>1, <1>2, <1>4, <2>1, ServiceKeeps
<1>5. CASE ~Capture!Hears(i)
  BY <1>4, <1>5 DEF Capture!Receive
<1>6. CASE Capture!Hears(i)
  <2>1. current = i /\ s[i].pc # "none"
    BY <1>1, <1>6 DEF Capture!Hears, Fits
  <2>2. ASSUME turns' = turns, Capture!Fail(i)
        PROVE  CaptureInv'
    BY <1>1, <1>2, <2>1, <2>2, FailKeeps
  <2>3. ASSUME turns' = turns, Capture!GracefulStop(i, TRUE)
        PROVE  CaptureInv'
    BY <1>1, <1>2, <2>1, <2>3, StopsKeep
  <2>4. ASSUME turns' \subseteq turns \cup ({i} \X (1..MaxTurns)),
               NEW q \in Capture!Resources, s' = [s EXCEPT ![i] = q],
               q.pc = r.pc \/ q.pc = "module", q.stopping = r.stopping, q.mic = r.mic,
               q.audio = r.audio \/ ~r.stopping,
               q.socket = r.socket \/ (r.socket = "open" /\ q.socket = "closing"),
               r.expected => q.expected, UNCHANGED <<status, current>>
        PROVE  CaptureInv'
    <3>1. Fits(q, i, current) /\ Opened(q, provider[i]) /\ q.pc # "none"
      BY <1>1, <2>1, <2>4 DEF Fits, Opened
    <3> QED BY <1>1, <1>2, <2>1, <2>4, <3>1, QuietKeeps
  <2>5. ASSUME turns' = turns, UNCHANGED <<status, current>>,
               s' = [s EXCEPT ![i].pc = "module", ![i].begun = TRUE, ![i].audio = TRUE],
               ~r.expected
        PROVE  CaptureInv'
    <3> DEFINE q == [r EXCEPT !.pc = "module", !.begun = TRUE, !.audio = TRUE]
    <3>1. /\ q \in Capture!Resources /\ q.pc = "module" /\ q.stopping = r.stopping
          /\ q.mic = r.mic /\ q.socket = r.socket /\ q.expected = r.expected
      BY <1>1 DEF Capture!Resources
    <3>2. s' = [s EXCEPT ![i] = q]
      BY <2>5
    <3>3. ~r.stopping
      BY <1>1, <2>5 DEF Fits
    <3> HIDE DEF q
    <3> QED BY <2>4, <2>5, <3>1, <3>2, <3>3
  <2>6. ASSUME turns' = turns, UNCHANGED <<status, current>>,
               s' = [s EXCEPT ![i] = Capture!Ended(r)]
        PROVE  CaptureInv'
    <3> DEFINE q == Capture!Ended(r)
    <3>1. /\ q \in Capture!Resources /\ q.pc = r.pc /\ q.stopping = r.stopping
          /\ q.mic = r.mic /\ q.audio = r.audio /\ q.expected
          /\ q.socket = r.socket \/ (r.socket = "open" /\ q.socket = "closing")
      BY <1>1 DEF Capture!Resources, Capture!Ended
    <3> HIDE DEF q
    <3> QED BY <2>4, <2>6, <3>1 DEF q
  <2>7. ASSUME turns' = turns, UNCHANGED <<status, current>>,
               s' = [s EXCEPT ![i].pending = TRUE, ![i].awaiting = r.awaiting \/ r.stopping]
        PROVE  CaptureInv'
    <3> DEFINE q == [r EXCEPT !.pending = TRUE, !.awaiting = r.awaiting \/ r.stopping]
    <3>1. /\ q \in Capture!Resources /\ q.pc = r.pc /\ q.stopping = r.stopping
          /\ q.mic = r.mic /\ q.audio = r.audio /\ q.expected = r.expected
          /\ q.socket = r.socket
      BY <1>1 DEF Capture!Resources
    <3>2. s' = [s EXCEPT ![i] = q]
      BY <2>7
    <3> HIDE DEF q
    <3> QED BY <2>4, <2>7, <3>1, <3>2
  <2>8. ASSUME turns' = turns \cup {<<i, n>>}, event = "final", UNCHANGED <<status, current>>,
               s' = [s EXCEPT ![i] = IF r.stopping
                       THEN [r EXCEPT !.pending = FALSE, !.awaiting = FALSE,
                               !.timers = r.timers \ {"force"},
                               !.sent = Capture!Terminates(r)]
                       ELSE [r EXCEPT !.pending = FALSE]]
        PROVE  CaptureInv'
    <3> DEFINE q == IF r.stopping
                    THEN [r EXCEPT !.pending = FALSE, !.awaiting = FALSE,
                            !.timers = r.timers \ {"force"}, !.sent = Capture!Terminates(r)]
                    ELSE [r EXCEPT !.pending = FALSE]
    <3>1. Capture!Terminates(r) \in SUBSET {"force", "terminate"}
      BY <1>1 DEF Capture!Terminates, Capture!Resources
    <3> HIDE DEF Capture!Terminates
    <3>2. /\ q \in Capture!Resources /\ q.pc = r.pc /\ q.stopping = r.stopping
          /\ q.mic = r.mic /\ q.audio = r.audio /\ q.expected = r.expected
          /\ q.socket = r.socket
      BY <1>1, <3>1 DEF Capture!Resources
    <3>3. turns' \subseteq turns \cup ({i} \X (1..MaxTurns))
      BY <1>3, <2>8
    <3>4. s' = [s EXCEPT ![i] = q]
      BY <2>8
    <3> HIDE DEF q
    <3> QED BY <2>4, <2>8, <3>2, <3>3, <3>4
  <2>9. CASE ~s[i].begun
    <3>1. CASE event = "begin" /\ r.pc = "opening" /\ ~r.expected
      BY <1>6, <2>5, <2>9, <3>1 DEF Capture!Receive, event
    <3>2. CASE event = "termination"
      BY <1>6, <2>6, <2>9, <3>2 DEF Capture!Receive, event
    <3>3. CASE event = "garbage" /\ r.pc = "opening"
      BY <1>6, <2>2, <2>9, <3>3 DEF Capture!Receive, event
    <3>4. CASE /\ ~(event = "begin" /\ r.pc = "opening" /\ ~r.expected)
               /\ event # "termination" /\ ~(event = "garbage" /\ r.pc = "opening")
      BY <1>4, <1>6, <2>9, <3>4 DEF Capture!Receive, event
    <3> QED BY <3>1, <3>2, <3>3, <3>4
  <2>10. CASE s[i].begun
    <3>1. CASE event = "speech"
      BY <1>6, <2>7, <2>10, <3>1 DEF Capture!Receive, event
    <3>2. CASE event = "termination"
      BY <1>6, <2>6, <2>10, <3>2 DEF Capture!Receive, event
    <3>3. CASE event = "garbage"
      BY <1>6, <2>3, <2>10, <3>3 DEF Capture!Receive, event
    <3>4. CASE event = "final"
      BY <1>6, <2>8, <2>10, <3>4 DEF Capture!Receive, event, n
    <3>5. CASE event = "begin"
      BY <1>4, <1>6, <2>10, <3>5 DEF Capture!Receive, event
    <3> QED BY <1>3, <3>1, <3>2, <3>3, <3>4, <3>5
  <2> QED BY <2>9, <2>10
<1> QED BY <1>5, <1>6

LEMMA CaptureInvNext ==
  ASSUME CaptureInv, Capture!Next
  PROVE  CaptureInv'
<1>1. CASE \/ Capture!Start \/ Capture!Stop \/ Capture!Leave \/ Capture!Restore
           \/ Capture!ClearTranscript
  BY <1>1, StartKeeps, StoppedKeeps, LeaveKeeps, RestoreKeeps, ClearKeeps
<1>2. ASSUME NEW i \in Capture!Ids, Capture!Answers(i)
      PROVE  CaptureInv'
  <2>1. CASE Capture!NotGranted(i) \/ Capture!NotOpened(i)
    <3>1. /\ Capture!Fail(i) /\ s[i].pc # "none"
          /\ UNCHANGED <<turns, page, provider, inbox>>
          /\ inbox \in [Capture!Ids -> Seq(Capture!Event)]
      BY <2>1 DEF Capture!NotGranted, Capture!NotOpened, CaptureInv, Capture!CaptureTypeOK
    <3> QED BY <3>1, FailKeeps
  <2> QED BY <1>2, <2>1, GrantedKeeps, TokenKeeps, ModuleKeeps, ResumedKeeps
      DEF Capture!Answers
<1>3. ASSUME NEW i \in Capture!Ids, Capture!Events(i)
      PROVE  CaptureInv'
  BY <1>3, ReceiveKeeps, ClosedKeeps, SessionTimerKeeps, ForceTimerKeeps, CloseTimerKeeps
     DEF Capture!Events
<1>4. ASSUME NEW i \in Capture!Ids,
             \/ Capture!GrantedLate(i) \/ Capture!Connect(i) \/ Capture!CaptureLost(i)
             \/ Capture!Hear(i) \/ Capture!Finalize(i)
             \/ Capture!Terminate(i) \/ Capture!ServiceCloses(i) \/ Capture!Disconnected(i)
      PROVE  CaptureInv'
  BY <1>4, GrantedLateKeeps, ConnectKeeps, CaptureLostKeeps, HearKeeps, FinalizeKeeps,
     TerminateKeeps, ServiceClosesKeeps
<1> QED BY <1>1, <1>2, <1>3, <1>4 DEF Capture!Next

LEMMA CaptureInvSame ==
  ASSUME CaptureInv, UNCHANGED captureVars
  PROVE  CaptureInv'
BY DEF CaptureInv, captureVars, Capture!CaptureTypeOK, Capture!TranscriptOfLatest, Shown,
       Ordered, Fits, Opened

\* Nobody is recorded unseen and no paid session is left without an owner
\* (useVoiceAllocation), for any number of captures and utterances, however late the
\* browser grants a stream and whatever the service sends.
THEOREM CapturesAreOwned == PartsSpec => []CaptureOwned
<1>1. PartsInit => CaptureInv
  BY CaptureInvInit DEF PartsInit
<1>2. CaptureInv /\ [PartsNext]_<<part, captureVars, vars, toolVars>> => CaptureInv'
  BY CaptureInvNext, CaptureInvSame DEF PartsNext
<1>3. ASSUME CaptureInv
      PROVE  CaptureOwned
  <2>1. Capture!MicrophoneReleased
    BY <1>3 DEF CaptureInv, Shown, Fits, Capture!MicrophoneReleased, Capture!Ids
  <2>2. Capture!SessionsOwned
    BY <1>3 DEF CaptureInv, Fits, Opened, Capture!SessionsOwned
  <2> QED BY <1>3, <2>1, <2>2 DEF CaptureInv, CaptureOwned
<1> QED BY <1>1, <1>2, <1>3, PTL DEF PartsSpec

(***************************************************************************)
(* Words.  What a capture is fed: the service says nothing before it opens *)
(* or after it has ended, and hears only a capture that has begun.         *)
(***************************************************************************)
Fed(r, stream, q) ==
  /\ stream.phase = "none" => stream.heard = 0 /\ q = <<>>
  /\ stream.heard <= stream.final + 1
  /\ stream.heard > 0 \/ r.pc \in {"module", "resuming", "running"} => r.begun
  /\ \A k \in DOMAIN q : q[k][1] = "termination" => k = Len(q) /\ stream.phase = "ended"

\* An utterance without its last words: it has begun in the inbox, or is known to be pending.
Owed(r, q) ==
  \/ \E k \in DOMAIN q : /\ q[k][1] = "speech"
                         /\ \A m \in DOMAIN q : m > k => q[m][1] # "final"
  \/ r.pending /\ \A m \in DOMAIN q : q[m][1] # "final"

\* What the current capture is owed: every utterance that was finished is in the
\* transcript or on its way, an unfinished one is waited for, and a service that has
\* acknowledged the end owes nothing unless the capture has failed.
Kept(r, stream, q, i, said) ==
  /\ r.socket # "none" => r.attached /\ r.socket # "closed"
  /\ r.stopping /\ r.pending => r.awaiting
  /\ r.terminated /\ ~r.failed => stream.final = stream.heard /\ q = <<>> /\ stream.phase = "ended"
  /\ stream.final < stream.heard => Owed(r, q)
  /\ \A n \in 1..stream.final : <<i, n>> \in said \/ \E k \in DOMAIN q : q[k] = <<"final", n>>

WordsInv ==
  \A i \in Capture!Ids :
    /\ Fed(s[i], provider[i], inbox[i])
    /\ current = i => Kept(s[i], provider[i], inbox[i], i, turns)

LEMMA WordsInvInit ==
  ASSUME Capture!Init
  PROVE  WordsInv
<1>1. \A i \in Capture!Ids : /\ s[i] = Capture!Unstarted /\ provider[i] = Capture!Silent
                             /\ inbox[i] = <<>> /\ current # i
  BY DEF Capture!Init, Capture!Ids
<1> QED BY <1>1 DEF WordsInv, Fed, Capture!Unstarted, Capture!Silent

LEMMA TailIs ==
  ASSUME NEW S, NEW q \in Seq(S), q # <<>>
  PROVE  /\ Tail(q) \in Seq(S) /\ Len(q) \in Nat \ {0} /\ DOMAIN q = 1..Len(q)
         /\ DOMAIN Tail(q) = 1..(Len(q) - 1) /\ Len(Tail(q)) = Len(q) - 1
         /\ \A k \in DOMAIN Tail(q) : Tail(q)[k] = q[k + 1]
         /\ q[1] = Head(q)
BY HeadTailProperties, LenProperties

\* What is owed stays owed when an event is received: words that have begun are pending.
LEMMA OwedTail ==
  ASSUME NEW S, NEW q \in Seq(S), q # <<>>, NEW r, NEW r2, Owed(r, q),
         Head(q)[1] = "speech" => r2.pending,
         r.pending /\ Head(q)[1] # "final" => r2.pending
  PROVE  Owed(r2, Tail(q))
<1>1. /\ Len(q) \in Nat \ {0} /\ DOMAIN q = 1..Len(q)
      /\ DOMAIN Tail(q) = 1..(Len(q) - 1)
      /\ \A k \in DOMAIN Tail(q) : Tail(q)[k] = q[k + 1]
      /\ q[1] = Head(q)
  BY TailIs
<1> HIDE DEF Owed
<1>2. ASSUME NEW k \in DOMAIN q, q[k][1] = "speech",
             \A m \in DOMAIN q : m > k => q[m][1] # "final"
      PROVE  Owed(r2, Tail(q))
  <2>1. CASE k = 1
    <3>1. r2.pending
      BY <1>1, <1>2, <2>1
    <3>2. \A m \in DOMAIN Tail(q) : Tail(q)[m][1] # "final"
      <4>1. \A m \in DOMAIN Tail(q) : m + 1 \in DOMAIN q /\ m + 1 > k
        BY <1>1, <2>1
      <4> QED BY <1>1, <1>2, <4>1
    <3> QED BY <3>1, <3>2 DEF Owed
  <2>2. CASE k # 1
    <3>1. k - 1 \in DOMAIN Tail(q) /\ k - 1 + 1 = k
      BY <1>1, <2>2
    <3>2. Tail(q)[k - 1][1] = "speech"
      BY <1>1, <1>2, <3>1
    <3>3. \A m \in DOMAIN Tail(q) : m > k - 1 => m + 1 \in DOMAIN q /\ m + 1 > k
      BY <1>1, <1>2
    <3>4. \A m \in DOMAIN Tail(q) : m > k - 1 => Tail(q)[m][1] # "final"
      BY <1>1, <1>2, <3>3
    <3> QED BY <3>1, <3>2, <3>4 DEF Owed
  <2> QED BY <2>1, <2>2
<1>3. ASSUME r.pending, \A m \in DOMAIN q : q[m][1] # "final"
      PROVE  Owed(r2, Tail(q))
  <2>1. Head(q)[1] # "final"
    BY <1>1, <1>3
  <2>2. \A m \in DOMAIN Tail(q) : m + 1 \in DOMAIN q
    BY <1>1
  <2>3. \A m \in DOMAIN Tail(q) : Tail(q)[m][1] # "final"
    BY <1>1, <1>3, <2>2
  <2> QED BY <1>3, <2>1, <2>3 DEF Owed
<1> QED BY <1>2, <1>3 DEF Owed

\* An event is received, or stays on its way.
LEMMA EventTail ==
  ASSUME NEW S, NEW q \in Seq(S), q # <<>>, NEW e, NEW k \in DOMAIN q, q[k] = e
  PROVE  Head(q) = e \/ \E m \in DOMAIN Tail(q) : Tail(q)[m] = e
<1>1. /\ Len(q) \in Nat \ {0} /\ DOMAIN q = 1..Len(q)
      /\ DOMAIN Tail(q) = 1..(Len(q) - 1)
      /\ \A m \in DOMAIN Tail(q) : Tail(q)[m] = q[m + 1]
      /\ q[1] = Head(q)
  BY TailIs
<1>2. CASE k # 1
  <2>1. k - 1 \in DOMAIN Tail(q) /\ k - 1 + 1 = k
    BY <1>1, <1>2
  <2>2. Tail(q)[k - 1] = e
    BY <1>1, <2>1
  <2> QED BY <2>1, <2>2
<1> QED BY <1>1, <1>2

\* An event has left the inbox that says nothing of an utterance, or none has.
Passed(i) ==
  \/ inbox' = inbox
  \/ /\ inbox[i] # <<>> /\ inbox' = [inbox EXCEPT ![i] = Tail(inbox[i])]
     /\ provider[i].heard = 0 \/ Head(inbox[i])[1] \notin {"speech", "final"}

LEMMA FedTail ==
  ASSUME NEW S, NEW q \in Seq(S), q # <<>>, NEW r, NEW stream, Fed(r, stream, q)
  PROVE  Fed(r, stream, Tail(q))
<1>1. /\ Len(q) \in Nat \ {0} /\ DOMAIN q = 1..Len(q)
      /\ DOMAIN Tail(q) = 1..(Len(q) - 1) /\ Len(Tail(q)) = Len(q) - 1
      /\ \A k \in DOMAIN Tail(q) : Tail(q)[k] = q[k + 1]
  BY TailIs
<1>2. ASSUME NEW k \in DOMAIN Tail(q), Tail(q)[k][1] = "termination"
      PROVE  k = Len(Tail(q)) /\ stream.phase = "ended"
  <2>1. k + 1 \in DOMAIN q /\ q[k + 1][1] = "termination"
    BY <1>1, <1>2
  <2> QED BY <1>1, <1>2, <2>1 DEF Fed
<1> QED BY <1>2 DEF Fed

LEMMA KeptTail ==
  ASSUME CaptureInv, NEW i \in Capture!Ids, inbox[i] # <<>>, NEW r,
         provider[i].heard = 0 \/ Head(inbox[i])[1] \notin {"speech", "final"},
         Kept(r, provider[i], inbox[i], i, turns)
  PROVE  Kept(r, provider[i], Tail(inbox[i]), i, turns)
<1> DEFINE q == inbox[i]
           stream == provider[i]
<1>1. /\ q \in Seq(Capture!Event) /\ stream \in Capture!Streams
      /\ stream.final <= stream.heard
  BY CaptureOf
<1>2. CASE stream.heard = 0
  <2>1. stream.final = 0
    BY <1>1, <1>2 DEF Capture!Streams
  <2> QED BY <1>2, <2>1 DEF Kept
<1>3. CASE Head(q)[1] \notin {"speech", "final"}
  <2>1. stream.final < stream.heard => Owed(r, Tail(q))
    BY <1>1, <1>3, OwedTail DEF Kept
  <2>2. ASSUME NEW n \in 1..stream.final
        PROVE  <<i, n>> \in turns \/ \E k \in DOMAIN Tail(q) : Tail(q)[k] = <<"final", n>>
    <3>1. <<i, n>> \in turns \/ \E k \in DOMAIN q : q[k] = <<"final", n>>
      BY DEF Kept
    <3>2. ASSUME NEW k \in DOMAIN q, q[k] = <<"final", n>>
          PROVE  \E m \in DOMAIN Tail(q) : Tail(q)[m] = <<"final", n>>
      <4>1. Head(q) # <<"final", n>>
        BY <1>3
      <4> QED BY <1>1, <3>2, <4>1, EventTail
    <3> QED BY <3>1, <3>2
  <2> QED BY <2>1, <2>2 DEF Kept
<1> QED BY <1>2, <1>3

\* A step of one capture.
LEMMA WordsUpdate ==
  ASSUME CaptureInv, WordsInv, NEW i \in Capture!Ids, NEW r,
         s' = [s EXCEPT ![i] = r], current' = current \/ current' = None,
         \A j \in Capture!Ids : j # i => provider'[j] = provider[j] /\ inbox'[j] = inbox[j],
         turns \subseteq turns',
         Fed(r, provider'[i], inbox'[i]),
         current' = i => Kept(r, provider'[i], inbox'[i], i, turns')
  PROVE  WordsInv'
<1>1. \A j \in Capture!Ids : s'[j] = IF j = i THEN r ELSE s[j]
  BY DEF CaptureInv, Capture!CaptureTypeOK
<1>2. None \notin Capture!Ids
  BY DEF Capture!Ids
<1>3. ASSUME NEW j \in Capture!Ids
      PROVE  /\ Fed(s'[j], provider'[j], inbox'[j])
             /\ current' = j => Kept(s'[j], provider'[j], inbox'[j], j, turns')
  <2>1. CASE j = i
    BY <1>1, <2>1
  <2>2. CASE j # i
    <3>1. Fed(s[j], provider[j], inbox[j])
      BY DEF WordsInv
    <3>2. ASSUME current' = j
          PROVE  Kept(s[j], provider[j], inbox[j], j, turns')
      <4>1. Kept(s[j], provider[j], inbox[j], j, turns)
        BY <1>2, <3>2 DEF WordsInv
      <4> QED BY <4>1 DEF Kept
    <3> QED BY <1>1, <2>2, <3>1, <3>2
  <2> QED BY <2>1, <2>2
<1> QED BY <1>3 DEF WordsInv

LEMMA WordsOf ==
  ASSUME CaptureInv, WordsInv, NEW i \in Capture!Ids
  PROVE  /\ Fed(s[i], provider[i], inbox[i])
         /\ current = i => Kept(s[i], provider[i], inbox[i], i, turns)
         /\ inbox[i] \in Seq(Capture!Event) /\ provider[i] \in Capture!Streams
         /\ inbox \in [Capture!Ids -> Seq(Capture!Event)]
         /\ provider[i].final <= provider[i].heard
         /\ s[i] \in Capture!Resources
         /\ Opened(s[i], provider[i])
BY CaptureOf DEF WordsInv, CaptureInv, Capture!CaptureTypeOK

LEMMA PassedIs ==
  ASSUME CaptureInv, WordsInv, NEW i \in Capture!Ids, Passed(i), NEW r,
         Fed(r, provider[i], inbox[i])
  PROVE  /\ Fed(r, provider[i], inbox'[i])
         /\ Kept(r, provider[i], inbox[i], i, turns) =>
              Kept(r, provider[i], inbox'[i], i, turns)
         /\ \A j \in Capture!Ids : j # i => inbox'[j] = inbox[j]
<1>1. inbox[i] \in Seq(Capture!Event) /\ inbox \in [Capture!Ids -> Seq(Capture!Event)]
  BY WordsOf
<1> HIDE DEF Capture!Event
<1>2. CASE inbox' = inbox
  BY <1>2
<1>3. CASE /\ inbox[i] # <<>> /\ inbox' = [inbox EXCEPT ![i] = Tail(inbox[i])]
           /\ provider[i].heard = 0 \/ Head(inbox[i])[1] \notin {"speech", "final"}
  <2>1. inbox'[i] = Tail(inbox[i]) /\ \A j \in Capture!Ids : j # i => inbox'[j] = inbox[j]
    BY <1>1, <1>3
  <2> QED BY <1>1, <1>3, <2>1, FedTail, KeptTail
<1> QED BY <1>2, <1>3 DEF Passed

\* A capture that ceases to be the current one, or that was not.
LEMMA EndWords ==
  ASSUME CaptureInv, WordsInv, NEW i \in Capture!Ids, NEW r,
         s' = [s EXCEPT ![i] = r], current' = current \/ current' = None, current' # i,
         r.begun = s[i].begun,
         r.pc = s[i].pc \/ r.pc \notin {"module", "resuming", "running"},
         Passed(i), UNCHANGED <<provider, turns>>
  PROVE  WordsInv'
<1>1. Fed(s[i], provider[i], inbox[i])
  BY WordsOf
<1>2. Fed(r, provider[i], inbox[i])
  BY <1>1 DEF Fed
<1>3. Fed(r, provider'[i], inbox'[i]) /\ \A j \in Capture!Ids : j # i => inbox'[j] = inbox[j]
  BY <1>2, PassedIs
<1> QED BY <1>3, WordsUpdate

\* A step that what is said does not depend on.
LEMMA RestKeeps ==
  ASSUME CaptureInv, WordsInv, NEW i \in Capture!Ids, NEW r,
         s' = [s EXCEPT ![i] = r], current' = current,
         r.begun = s[i].begun, r.pending = s[i].pending, r.awaiting = s[i].awaiting,
         r.stopping = s[i].stopping, r.socket = s[i].socket, r.attached = s[i].attached,
         r.terminated = s[i].terminated, s[i].failed => r.failed,
         r.pc \in {"module", "resuming", "running"} => r.begun,
         Passed(i), UNCHANGED <<provider, turns>>
  PROVE  WordsInv'
<1>1. /\ Fed(s[i], provider[i], inbox[i])
      /\ current = i => Kept(s[i], provider[i], inbox[i], i, turns)
  BY WordsOf
<1>2. Fed(r, provider[i], inbox[i])
  BY <1>1 DEF Fed
<1>3. current = i => Kept(r, provider[i], inbox[i], i, turns)
  BY <1>1 DEF Kept, Owed
<1>4. /\ Fed(r, provider'[i], inbox'[i])
      /\ current' = i => Kept(r, provider'[i], inbox'[i], i, turns')
      /\ \A j \in Capture!Ids : j # i => inbox'[j] = inbox[j]
  BY <1>2, <1>3, PassedIs
<1> QED BY <1>4, WordsUpdate

LEMMA FailWords ==
  ASSUME CaptureInv, WordsInv, NEW i \in Capture!Ids, Capture!Fail(i),
         Passed(i), UNCHANGED <<provider, turns>>
  PROVE  WordsInv'
<1>1. s[i] \in Capture!Resources /\ i # None /\ Fits(s[i], i, current)
  BY CaptureOf
<1>2. CASE s[i].expected \/ s[i].aborted
  <2> DEFINE r == [s[i] EXCEPT !.pc = "ended"]
  <2>1. /\ r.pc = "ended" /\ r.begun = s[i].begun /\ r.pending = s[i].pending
        /\ r.awaiting = s[i].awaiting /\ r.stopping = s[i].stopping
        /\ r.socket = s[i].socket /\ r.attached = s[i].attached
        /\ r.terminated = s[i].terminated /\ r.failed = s[i].failed
    BY <1>1 DEF Capture!Resources
  <2>2. s' = [s EXCEPT ![i] = r] /\ current' = current
    BY <1>2 DEF Capture!Fail
  <2> HIDE DEF r
  <2> QED BY <2>1, <2>2, RestKeeps
<1>3. CASE ~(s[i].expected \/ s[i].aborted)
  <2> DEFINE d == [Capture!Disposed(s[i], TRUE) EXCEPT !.pc = "ended"]
  <2>1. d.pc = "ended" /\ d.begun = s[i].begun
    BY <1>1 DEF Capture!Resources, Capture!Disposed, Capture!Released
  <2>2. s' = [s EXCEPT ![i] = d] /\ current' = Capture!Without(i)
    BY <1>3 DEF Capture!Fail
  <2>3. current' # i /\ (current' = current \/ current' = None)
    BY <1>1, <2>2 DEF Capture!Without
  <2> HIDE DEF d
  <2> QED BY <2>1, <2>2, <2>3, EndWords
<1> QED BY <1>2, <1>3

LEMMA StopWords ==
  ASSUME CaptureInv, WordsInv, NEW i \in Capture!Ids, current = i, NEW failing \in BOOLEAN,
         Capture!GracefulStop(i, failing), Passed(i), UNCHANGED <<provider, turns>>
  PROVE  WordsInv'
<1> DEFINE r == [s[i] EXCEPT !.failed = @ \/ failing]
           stopped == [Capture!Released(r) EXCEPT !.stopping = TRUE, !.expected = TRUE,
                         !.aborted = TRUE, !.awaiting = Capture!Pending(r),
                         !.timers = @ \ {"session"}]
           forced == [stopped EXCEPT !.sent = @ \cup {"force"}, !.timers = Capture!Watchdogs]
           disposed == Capture!Disposed(stopped, r.socket = "connecting")
<1>1. /\ s[i] \in Capture!Resources /\ i # None /\ page = "shown" /\ Fits(s[i], i, current)
      /\ Fed(s[i], provider[i], inbox[i]) /\ Kept(s[i], provider[i], inbox[i], i, turns)
  BY CaptureOf, WordsOf
<1>2. /\ r \in Capture!Resources /\ r.pc = s[i].pc /\ r.begun = s[i].begun
      /\ r.pending = s[i].pending /\ r.awaiting = s[i].awaiting
      /\ r.stopping = s[i].stopping /\ r.socket = s[i].socket
      /\ r.attached = s[i].attached /\ r.terminated = s[i].terminated
      /\ s[i].failed => r.failed
  BY <1>1 DEF Capture!Resources
<1> HIDE DEF r
<1>3. /\ stopped \in Capture!Resources /\ stopped.pc = s[i].pc /\ stopped.begun = s[i].begun
      /\ stopped.pending = s[i].pending /\ stopped.awaiting = s[i].pending
      /\ stopped.stopping = TRUE /\ stopped.socket = s[i].socket
      /\ stopped.attached = s[i].attached /\ stopped.terminated = s[i].terminated
      /\ stopped.failed = r.failed
  BY <1>2 DEF Capture!Resources, Capture!Released, Capture!Pending
<1> HIDE DEF stopped
<1>4. CASE s[i].stopping
  <2>1. s' = [s EXCEPT ![i] = r] /\ current' = current
    BY <1>2, <1>4 DEF Capture!GracefulStop, r
  <2>2. r.pc \in {"module", "resuming", "running"} => r.begun
    BY <1>1, <1>2 DEF Fed
  <2> QED BY <1>2, <2>1, <2>2, RestKeeps
<1>5. CASE ~s[i].stopping /\ s[i].socket = "open"
  <2>1. /\ forced.pc = s[i].pc /\ forced.begun = s[i].begun
        /\ forced.pending = s[i].pending /\ forced.awaiting = s[i].pending
        /\ forced.stopping = TRUE /\ forced.socket = s[i].socket
        /\ forced.attached = s[i].attached /\ forced.terminated = s[i].terminated
        /\ forced.failed = r.failed
    BY <1>3 DEF Capture!Resources
  <2>2. s' = [s EXCEPT ![i] = forced] /\ current' = current
    BY <1>1, <1>2, <1>5 DEF Capture!GracefulStop, r, stopped
  <2> HIDE DEF forced
  <2>3. /\ Fed(forced, provider[i], inbox[i])
        /\ Kept(forced, provider[i], inbox[i], i, turns)
    BY <1>1, <1>2, <2>1 DEF Fed, Kept, Owed
  <2>4. /\ Fed(forced, provider'[i], inbox'[i])
        /\ Kept(forced, provider'[i], inbox'[i], i, turns')
        /\ \A j \in Capture!Ids : j # i => inbox'[j] = inbox[j]
    BY <2>3, PassedIs
  <2> QED BY <2>2, <2>4, WordsUpdate
<1>6. CASE ~s[i].stopping /\ s[i].socket # "open"
  <2>1. disposed.pc = s[i].pc /\ disposed.begun = s[i].begun
    BY <1>3 DEF Capture!Resources, Capture!Disposed, Capture!Released
  <2>2. s' = [s EXCEPT ![i] = disposed] /\ current' = None
    BY <1>1, <1>2, <1>6 DEF Capture!GracefulStop, Capture!Without, r, stopped
  <2> HIDE DEF disposed
  <2> QED BY <1>1, <2>1, <2>2, EndWords
<1> QED BY <1>4, <1>5, <1>6

LEMMA GivesUpWords ==
  ASSUME CaptureInv, WordsInv, NEW i \in Capture!Ids,
         s' = [s EXCEPT ![i].pc = "ended"], current' = current,
         UNCHANGED <<provider, inbox, turns>>
  PROVE  WordsInv'
<1> DEFINE r == [s[i] EXCEPT !.pc = "ended"]
<1>1. /\ r.pc = "ended" /\ r.begun = s[i].begun /\ r.pending = s[i].pending
      /\ r.awaiting = s[i].awaiting /\ r.stopping = s[i].stopping
      /\ r.socket = s[i].socket /\ r.attached = s[i].attached
      /\ r.terminated = s[i].terminated /\ r.failed = s[i].failed
  BY WordsOf DEF Capture!Resources
<1>2. s' = [s EXCEPT ![i] = r]
  OBVIOUS
<1> HIDE DEF r
<1> QED BY <1>1, <1>2, RestKeeps DEF Passed

\* The waits of a start.
LEMMA AnswersWords ==
  ASSUME CaptureInv, WordsInv, NEW i \in Capture!Ids, Capture!Answers(i)
  PROVE  WordsInv'
<1>1. /\ s[i] \in Capture!Resources /\ Fits(s[i], i, current)
      /\ Fed(s[i], provider[i], inbox[i]) /\ Opened(s[i], provider[i])
      /\ current = i => Kept(s[i], provider[i], inbox[i], i, turns)
      /\ provider[i] \in Capture!Streams /\ provider[i].final <= provider[i].heard
  BY CaptureOf, WordsOf
<1>2. CASE Capture!Fail(i) /\ UNCHANGED <<provider, inbox, turns>>
  BY <1>2, FailWords DEF Passed
<1>3. CASE Capture!Granted(i)
  <2>1. CASE Capture!Superseded(i)
    <3> DEFINE r == [Capture!Released(s[i]) EXCEPT !.pc = "ended", !.prompt = FALSE]
    <3>1. /\ r.pc = "ended" /\ r.begun = s[i].begun /\ r.pending = s[i].pending
          /\ r.awaiting = s[i].awaiting /\ r.stopping = s[i].stopping
          /\ r.socket = s[i].socket /\ r.attached = s[i].attached
          /\ r.terminated = s[i].terminated /\ r.failed = s[i].failed
      BY <1>1 DEF Capture!Resources, Capture!Released
    <3>2. s' = [s EXCEPT ![i] = r]
      BY <1>3, <2>1 DEF Capture!Granted
    <3> HIDE DEF r
    <3> QED BY <1>3, <3>1, <3>2, RestKeeps DEF Passed, Capture!Granted
  <2>2. CASE ~Capture!Superseded(i)
    <3> DEFINE r == [s[i] EXCEPT !.pc = "token", !.mic = TRUE, !.prompt = FALSE]
    <3>1. /\ r.pc = "token" /\ r.begun = s[i].begun /\ r.pending = s[i].pending
          /\ r.awaiting = s[i].awaiting /\ r.stopping = s[i].stopping
          /\ r.socket = s[i].socket /\ r.attached = s[i].attached
          /\ r.terminated = s[i].terminated /\ r.failed = s[i].failed
      BY <1>1 DEF Capture!Resources
    <3>2. s' = [s EXCEPT ![i] = r]
      BY <1>3, <2>2 DEF Capture!Granted
    <3> HIDE DEF r
    <3> QED BY <1>3, <3>1, <3>2, RestKeeps DEF Passed, Capture!Granted
  <2> QED BY <2>1, <2>2
<1>4. CASE /\ Capture!Token(i) /\ UNCHANGED current
           /\ Capture!Proceed(i, [s[i] EXCEPT !.pc = "opening", !.socket = "connecting",
                                              !.attached = TRUE])
  <2> DEFINE r == [s[i] EXCEPT !.pc = "opening", !.socket = "connecting", !.attached = TRUE]
  <2>1. /\ UNCHANGED <<provider, inbox, turns>> /\ s[i].pc = "token"
    BY <1>4 DEF Capture!Token
  <2>2. CASE Capture!Superseded(i)
    BY <1>4, <2>1, <2>2, GivesUpWords DEF Capture!Proceed
  <2>3. CASE ~Capture!Superseded(i)
    <3>1. /\ r.pc = "opening" /\ r.begun = s[i].begun /\ r.pending = s[i].pending
          /\ r.socket = "connecting" /\ r.attached = TRUE /\ r.stopping = s[i].stopping
          /\ r.awaiting = s[i].awaiting
          /\ r.terminated = s[i].terminated /\ r.failed = s[i].failed
      BY <1>1 DEF Capture!Resources
    <3>2. s' = [s EXCEPT ![i] = r] /\ current = i
      BY <1>4, <2>3 DEF Capture!Proceed, Capture!Superseded
    <3> HIDE DEF r
    <3>3. Fed(r, provider[i], inbox[i]) /\ Kept(r, provider[i], inbox[i], i, turns)
      BY <1>1, <2>1, <3>1, <3>2 DEF Fed, Kept, Owed
    <3> QED BY <1>4, <2>1, <3>2, <3>3, WordsUpdate
  <2> QED BY <2>2, <2>3
<1>5. CASE Capture!Module(i) /\ Capture!Proceed(i, [s[i] EXCEPT !.pc = "resuming"]) /\ UNCHANGED current
  <2> DEFINE r == [s[i] EXCEPT !.pc = "resuming"]
  <2>1. UNCHANGED <<provider, inbox, turns>> /\ s[i].pc = "module" /\ s[i].begun
    BY <1>1, <1>5 DEF Capture!Module, Fed
  <2>2. CASE Capture!Superseded(i)
    BY <1>5, <2>1, <2>2, GivesUpWords DEF Capture!Proceed
  <2>3. CASE ~Capture!Superseded(i)
    <3>1. /\ r.begun = s[i].begun /\ r.pending = s[i].pending
          /\ r.awaiting = s[i].awaiting /\ r.stopping = s[i].stopping
          /\ r.socket = s[i].socket /\ r.attached = s[i].attached
          /\ r.terminated = s[i].terminated /\ r.failed = s[i].failed
      BY <1>1 DEF Capture!Resources
    <3>2. s' = [s EXCEPT ![i] = r]
      BY <1>5, <2>3 DEF Capture!Proceed
    <3> HIDE DEF r
    <3> QED BY <1>5, <2>1, <3>1, <3>2, RestKeeps DEF Passed
  <2> QED BY <2>2, <2>3
<1>6. CASE /\ Capture!Resumed(i) /\ UNCHANGED current
           /\ s' = [s EXCEPT ![i].pc = "running",
                             ![i].timers = s[i].timers \cup {"session"}]
  <2> DEFINE r == [s[i] EXCEPT !.pc = "running", !.timers = @ \cup {"session"}]
  <2>1. UNCHANGED <<provider, inbox, turns>> /\ s[i].pc = "resuming" /\ s[i].begun
    BY <1>1, <1>6 DEF Capture!Resumed, Fed
  <2>2. /\ r.begun = s[i].begun /\ r.pending = s[i].pending
        /\ r.awaiting = s[i].awaiting /\ r.stopping = s[i].stopping
        /\ r.socket = s[i].socket /\ r.attached = s[i].attached
        /\ r.terminated = s[i].terminated /\ r.failed = s[i].failed
    BY <1>1 DEF Capture!Resources
  <2>3. s' = [s EXCEPT ![i] = r]
    BY <1>6 DEF CaptureInv, Capture!CaptureTypeOK
  <2> HIDE DEF r
  <2> QED BY <1>6, <2>1, <2>2, <2>3, RestKeeps DEF Passed
<1>7. CASE Capture!NotGranted(i) \/ Capture!NotOpened(i)
  BY <1>2, <1>7 DEF Capture!NotGranted, Capture!NotOpened
<1>8. CASE Capture!Token(i)
  BY <1>2, <1>4, <1>8 DEF Capture!Token
<1>9. CASE Capture!Module(i)
  BY <1>2, <1>5, <1>9 DEF Capture!Module
<1>10. CASE Capture!Resumed(i)
  BY <1>2, <1>6, <1>10 DEF Capture!Resumed
<1> QED BY <1>3, <1>7, <1>8, <1>9, <1>10 DEF Capture!Answers

LEMMA GrantedLateWords ==
  ASSUME CaptureInv, WordsInv, NEW i \in Capture!Ids, Capture!GrantedLate(i)
  PROVE  WordsInv'
<1>1. s[i] \in Capture!Resources /\ Fed(s[i], provider[i], inbox[i])
  BY WordsOf
<1> DEFINE q == [s[i] EXCEPT !.prompt = FALSE]
           r == [q EXCEPT !.mic = FALSE]
<1>2. /\ q \in Capture!Resources /\ q.pc = s[i].pc /\ q.begun = s[i].begun
      /\ q.pending = s[i].pending
      /\ q.awaiting = s[i].awaiting /\ q.stopping = s[i].stopping
      /\ q.socket = s[i].socket /\ q.attached = s[i].attached
      /\ q.terminated = s[i].terminated /\ q.failed = s[i].failed
  BY <1>1 DEF Capture!Resources
<1>3. s' = [s EXCEPT ![i] = r]
  <2>1. s \in [Capture!Ids -> Capture!Resources]
    BY DEF CaptureInv, Capture!CaptureTypeOK
  <2>2. s' = [s EXCEPT ![i].prompt = FALSE, ![i].mic = FALSE]
    BY DEF Capture!GrantedLate, Capture!LateStream
  <2> QED BY <2>1, <2>2
<1> HIDE DEF q
<1>4. /\ r.pc = q.pc /\ r.begun = q.begun /\ r.pending = q.pending
      /\ r.awaiting = q.awaiting /\ r.stopping = q.stopping
      /\ r.socket = q.socket /\ r.attached = q.attached
      /\ r.terminated = q.terminated /\ r.failed = q.failed
  BY <1>2 DEF Capture!Resources
<1> HIDE DEF r
<1>5. r.pc \in {"module", "resuming", "running"} => r.begun
  BY <1>1, <1>2, <1>4 DEF Fed
<1>6. Passed(i) /\ UNCHANGED <<provider, turns>> /\ current' = current
  BY DEF Passed, Capture!GrantedLate
<1>7. /\ r.begun = s[i].begun /\ r.pending = s[i].pending
      /\ r.awaiting = s[i].awaiting /\ r.stopping = s[i].stopping
      /\ r.socket = s[i].socket /\ r.attached = s[i].attached
      /\ r.terminated = s[i].terminated /\ r.failed = s[i].failed
  BY <1>2, <1>4
<1> QED BY <1>3, <1>5, <1>6, <1>7, RestKeeps

\* The timers.
LEMMA TimerWords ==
  ASSUME CaptureInv, WordsInv, NEW i \in Capture!Ids, NEW timers, NEW sent,
         s' = [s EXCEPT ![i] = [s[i] EXCEPT !.timers = timers, !.sent = sent]],
         UNCHANGED <<current, turns, provider, inbox>>
  PROVE  WordsInv'
<1>1. s[i] \in Capture!Resources /\ Fed(s[i], provider[i], inbox[i])
  BY WordsOf
<1> DEFINE r == [s[i] EXCEPT !.timers = timers, !.sent = sent]
<1>2. /\ r.pc = s[i].pc /\ r.begun = s[i].begun /\ r.pending = s[i].pending
      /\ r.awaiting = s[i].awaiting /\ r.stopping = s[i].stopping
      /\ r.socket = s[i].socket /\ r.attached = s[i].attached
      /\ r.terminated = s[i].terminated /\ r.failed = s[i].failed
  BY <1>1 DEF Capture!Resources
<1> HIDE DEF r
<1>3. r.pc \in {"module", "resuming", "running"} => r.begun
  BY <1>1, <1>2 DEF Fed
<1> QED BY <1>2, <1>3, RestKeeps DEF Passed, r

LEMMA TimersWords ==
  ASSUME CaptureInv, WordsInv, NEW i \in Capture!Ids,
         Capture!SessionTimer(i) \/ Capture!ForceTimer(i) \/ Capture!CloseTimer(i)
  PROVE  WordsInv'
<1>1. /\ s[i] \in Capture!Resources /\ s \in [Capture!Ids -> Capture!Resources]
      /\ i # None /\ UNCHANGED <<turns, provider, inbox>>
  BY CaptureOf DEF Capture!SessionTimer, Capture!ForceTimer, Capture!CloseTimer, CaptureInv,
                   Capture!CaptureTypeOK
<1>2. ASSUME NEW timer, s' = [s EXCEPT ![i].timers = s[i].timers \ {timer}], current' = current
      PROVE  WordsInv'
  <2>1. [s[i] EXCEPT !.timers = s[i].timers \ {timer}, !.sent = s[i].sent] =
          [s[i] EXCEPT !.timers = s[i].timers \ {timer}]
    BY <1>1 DEF Capture!Resources
  <2> QED BY <1>1, <1>2, <2>1, TimerWords
<1>3. CASE Capture!SessionTimer(i)
  <2>1. CASE current # i \/ s[i].stopping
    BY <1>2, <1>3, <2>1 DEF Capture!SessionTimer
  <2>2. CASE ~(current # i \/ s[i].stopping)
    BY <1>1, <1>3, <2>2, StopWords DEF Capture!SessionTimer, Passed
  <2> QED BY <2>1, <2>2
<1>4. CASE Capture!ForceTimer(i)
  <2> DEFINE timers == s[i].timers \ {"force"}
             sent == Capture!Terminates(s[i])
  <2>1. /\ s' = [s EXCEPT ![i] = [s[i] EXCEPT !.timers = timers, !.sent = sent]]
        /\ current' = current
    BY <1>1, <1>4 DEF Capture!ForceTimer
  <2> HIDE DEF timers, sent
  <2> QED BY <1>1, <2>1, TimerWords
<1>5. CASE Capture!CloseTimer(i)
  <2>1. CASE current # i \/ s[i].terminated
    BY <1>2, <1>5, <2>1 DEF Capture!CloseTimer
  <2>2. CASE ~(current # i \/ s[i].terminated)
    <3> DEFINE d == Capture!Disposed(s[i], TRUE)
    <3>1. d.pc = s[i].pc /\ d.begun = s[i].begun
      BY <1>1 DEF Capture!Resources, Capture!Disposed, Capture!Released
    <3>2. s' = [s EXCEPT ![i] = d] /\ current' = None
      BY <1>5, <2>2 DEF Capture!CloseTimer, Capture!Without
    <3> HIDE DEF d
    <3> QED BY <1>1, <3>1, <3>2, EndWords DEF Passed
  <2> QED BY <2>1, <2>2
<1> QED BY <1>3, <1>4, <1>5

LEMMA StartWords ==
  ASSUME CaptureInv, WordsInv, Capture!Start
  PROVE  WordsInv'
<1> DEFINE fresh == [Capture!Unstarted EXCEPT !.pc = "asking", !.prompt = TRUE]
<1>1. current = None /\ None \notin Capture!Ids /\ UNCHANGED <<provider, inbox>>
  BY DEF Capture!Start, CaptureInv, Shown, Capture!CaptureTypeOK, Capture!Ids
<1>2. PICK i \in Capture!Ids :
        /\ s[i].pc = "none" /\ current' = i
        /\ s' = [j \in Capture!Ids |-> IF j = i THEN fresh
                                       ELSE IF j = current THEN Capture!ShutDown(j) ELSE s[j]]
  BY DEF Capture!Start
<1>3. /\ fresh.pc = "asking" /\ fresh.socket = "none" /\ ~fresh.stopping /\ ~fresh.terminated
  BY DEF Capture!Unstarted
<1> HIDE DEF fresh
<1>4. \A j \in Capture!Ids : s'[j] = IF j = i THEN fresh ELSE s[j]
  BY <1>1, <1>2
<1>5. /\ provider[i].phase = "none" /\ Fed(s[i], provider[i], inbox[i])
      /\ provider[i] \in Capture!Streams /\ provider[i].final <= provider[i].heard
  BY <1>2, CaptureOf, WordsOf DEF Fits, Opened
<1>6. provider[i].heard = 0 /\ provider[i].final = 0 /\ inbox[i] = <<>>
  BY <1>5 DEF Fed, Capture!Streams
<1>7. Fed(fresh, provider[i], inbox[i]) /\ Kept(fresh, provider[i], inbox[i], i, turns')
  BY <1>3, <1>6 DEF Fed, Kept
<1>8. \A j \in Capture!Ids : Fed(s[j], provider[j], inbox[j])
  BY DEF WordsInv
<1>9. \A j \in Capture!Ids :
        /\ Fed(s'[j], provider'[j], inbox'[j])
        /\ current' = j => Kept(s'[j], provider'[j], inbox'[j], j, turns')
  BY <1>1, <1>2, <1>4, <1>7, <1>8
<1> QED BY <1>9 DEF WordsInv

LEMMA LeaveWords ==
  ASSUME CaptureInv, WordsInv, Capture!Leave
  PROVE  WordsInv'
<1>1. /\ current' = None /\ None \notin Capture!Ids /\ UNCHANGED <<turns, provider, inbox>>
      /\ current \in Capture!Ids \cup {None} /\ s \in [Capture!Ids -> Capture!Resources]
  BY DEF Capture!Leave, CaptureInv, Capture!CaptureTypeOK, Capture!Ids
<1>2. CASE current = None
  BY <1>1, <1>2 DEF Capture!Leave, WordsInv
<1>3. CASE current # None
  <2> DEFINE d == Capture!ShutDown(current)
  <2>1. current \in Capture!Ids /\ s' = [s EXCEPT ![current] = d]
    BY <1>1, <1>3 DEF Capture!Leave
  <2>2. d.pc = s[current].pc /\ d.begun = s[current].begun
    <3> DEFINE r == [s[current] EXCEPT !.expected = TRUE]
    <3>0. s[current] \in Capture!Resources
      BY <1>1, <2>1
    <3>1. r \in Capture!Resources /\ r.pc = s[current].pc /\ r.begun = s[current].begun
      BY <3>0 DEF Capture!Resources
    <3>2. d = Capture!Disposed(r, TRUE)
      BY DEF Capture!ShutDown
    <3> HIDE DEF r, d
    <3> QED BY <3>1, <3>2 DEF Capture!Resources, Capture!Disposed, Capture!Released
  <2> HIDE DEF d
  <2> QED BY <1>1, <1>3, <2>1, <2>2, EndWords DEF Passed
<1> QED BY <1>2, <1>3

LEMMA ClearWords ==
  ASSUME CaptureInv, WordsInv, Capture!ClearTranscript
  PROVE  WordsInv'
<1>1. /\ current = None /\ None \notin Capture!Ids
      /\ UNCHANGED <<s, current, provider, inbox>>
  BY DEF Capture!ClearTranscript, CaptureInv, Shown, Capture!CaptureTypeOK, Capture!Ids
<1> QED BY <1>1 DEF WordsInv

\* The service sends one event more.
LEMMA OneEvent ==
  ASSUME CaptureInv, NEW i \in Capture!Ids, NEW e \in Capture!Event,
         inbox' = [inbox EXCEPT ![i] = Append(inbox[i], e)]
  PROVE  /\ DOMAIN inbox[i] = 1..Len(inbox[i]) /\ Len(inbox[i]) \in Nat
         /\ Len(inbox'[i]) = Len(inbox[i]) + 1
         /\ DOMAIN inbox'[i] = 1..(Len(inbox[i]) + 1)
         /\ \A k \in DOMAIN inbox[i] : inbox'[i][k] = inbox[i][k]
         /\ inbox'[i][Len(inbox[i]) + 1] = e
         /\ \A j \in Capture!Ids : j # i => inbox'[j] = inbox[j]
<1>1. inbox[i] \in Seq(Capture!Event) /\ inbox \in [Capture!Ids -> Seq(Capture!Event)]
  BY CaptureOf DEF CaptureInv, Capture!CaptureTypeOK
<1> HIDE DEF Capture!Event
<1>2. /\ inbox'[i] = Append(inbox[i], e)
      /\ \A j \in Capture!Ids : j # i => inbox'[j] = inbox[j]
  BY <1>1
<1>3. Append(inbox[i], e) \in Seq(Capture!Event)
  BY <1>1, AppendProperties
<1> QED BY <1>1, <1>2, <1>3, AppendProperties, LenProperties

LEMMA ConnectWords ==
  ASSUME CaptureInv, WordsInv, NEW i \in Capture!Ids, Capture!Connect(i)
  PROVE  WordsInv'
<1>1. /\ s[i] \in Capture!Resources /\ Fits(s[i], i, current) /\ Opened(s[i], provider[i])
      /\ Fed(s[i], provider[i], inbox[i]) /\ s[i].socket = "connecting"
      /\ provider[i] \in Capture!Streams /\ provider[i].final <= provider[i].heard
      /\ provider \in [Capture!Ids -> Capture!Streams]
      /\ UNCHANGED <<current, turns>>
  BY CaptureOf, WordsOf DEF Capture!Connect, CaptureInv, Capture!CaptureTypeOK
<1>2. current = i /\ Kept(s[i], provider[i], inbox[i], i, turns)
  BY <1>1, WordsOf DEF Fits
<1> DEFINE r == [s[i] EXCEPT !.socket = "open"]
           stream == [provider[i] EXCEPT !.phase = "open"]
<1>3. /\ r.pc = s[i].pc /\ r.begun = s[i].begun /\ r.pending = s[i].pending
      /\ r.awaiting = s[i].awaiting /\ r.stopping = s[i].stopping
      /\ r.socket = "open" /\ r.attached = s[i].attached
      /\ r.terminated = s[i].terminated /\ r.failed = s[i].failed
  BY <1>1 DEF Capture!Resources
<1>4. /\ stream.phase = "open" /\ stream.heard = 0 /\ stream.final = 0
      /\ inbox[i] = <<>> /\ provider[i].phase = "none" /\ provider[i].heard = 0
  BY <1>1 DEF Capture!Streams, Opened, Fed
<1>5. /\ s' = [s EXCEPT ![i] = r] /\ provider'[i] = stream
      /\ \A j \in Capture!Ids : j # i => provider'[j] = provider[j]
  BY <1>1 DEF Capture!Connect
<1> HIDE DEF r, stream
<1>6. PICK first \in {"begin", "garbage"} :
        inbox' = [inbox EXCEPT ![i] = Append(inbox[i], <<first>>)]
  BY DEF Capture!Connect
<1>7. <<first>> \in Capture!Event
  BY DEF Capture!Event
<1>8. /\ DOMAIN inbox'[i] = {1} /\ inbox'[i][1] = <<first>>
      /\ \A j \in Capture!Ids : j # i => inbox'[j] = inbox[j]
  <2>1. Len(inbox[i]) = 0
    BY <1>4
  <2>2. /\ DOMAIN inbox'[i] = 1..(Len(inbox[i]) + 1)
        /\ inbox'[i][Len(inbox[i]) + 1] = <<first>>
        /\ \A j \in Capture!Ids : j # i => inbox'[j] = inbox[j]
    BY <1>6, <1>7, OneEvent
  <2> QED BY <2>1, <2>2
<1>9. Fed(r, stream, inbox'[i])
  BY <1>1, <1>3, <1>4, <1>8 DEF Fed
<1>10. Kept(r, stream, inbox'[i], i, turns')
  <2>1. ~(s[i].terminated /\ ~s[i].failed)
    BY <1>2, <1>4 DEF Kept
  <2> QED BY <1>2, <1>3, <1>4, <1>1, <2>1 DEF Kept
<1> QED BY <1>1, <1>5, <1>8, <1>9, <1>10, WordsUpdate

\* The service hears an utterance, or finishes one.
LEMMA SpokenWords ==
  ASSUME CaptureInv, WordsInv, NEW i \in Capture!Ids, NEW e \in Capture!Event,
         NEW stream \in Capture!Streams,
         inbox' = [inbox EXCEPT ![i] = Append(inbox[i], e)],
         provider' = [provider EXCEPT ![i] = stream],
         UNCHANGED <<current, turns, s>>,
         provider[i].phase = "open", stream.phase = "open", s[i].begun,
         \/ /\ e[1] = "speech" /\ stream.final = provider[i].final
            /\ stream.heard = stream.final + 1
         \/ /\ e = <<"final", stream.final>> /\ stream.final = provider[i].final + 1
            /\ stream.final = stream.heard
  PROVE  WordsInv'
<1>1. /\ Fed(s[i], provider[i], inbox[i])
      /\ current = i => Kept(s[i], provider[i], inbox[i], i, turns)
      /\ provider \in [Capture!Ids -> Capture!Streams]
      /\ s \in [Capture!Ids -> Capture!Resources]
      /\ provider[i] \in Capture!Streams
  BY WordsOf DEF CaptureInv, Capture!CaptureTypeOK
<1> DEFINE q == inbox[i]
           l == Len(inbox[i])
<1>2. /\ DOMAIN q = 1..l /\ l \in Nat /\ Len(inbox'[i]) = l + 1
      /\ DOMAIN inbox'[i] = 1..(l + 1)
      /\ \A k \in DOMAIN q : inbox'[i][k] = q[k]
      /\ inbox'[i][l + 1] = e
      /\ \A j \in Capture!Ids : j # i => inbox'[j] = inbox[j]
  BY OneEvent
<1>3. provider'[i] = stream /\ \A j \in Capture!Ids : j # i => provider'[j] = provider[j]
  BY <1>1
<1>4. s' = [s EXCEPT ![i] = s[i]]
  BY <1>1
<1>5. e[1] # "termination"
  OBVIOUS
<1>6. Fed(s[i], stream, inbox'[i])
  <2>1. ASSUME NEW k \in DOMAIN inbox'[i], inbox'[i][k][1] = "termination"
        PROVE  FALSE
    <3>1. k \in DOMAIN q
      BY <1>2, <1>5, <2>1
    <3>2. q[k][1] = "termination"
      BY <1>2, <2>1, <3>1
    <3> QED BY <1>1, <3>1, <3>2 DEF Fed
  <2>2. stream.phase # "none" /\ stream.heard <= stream.final + 1
    BY DEF Capture!Streams
  <2> QED BY <2>1, <2>2 DEF Fed
<1>7. ASSUME current = i
      PROVE  Kept(s[i], stream, inbox'[i], i, turns)
  <2>1. Kept(s[i], provider[i], q, i, turns) /\ ~(s[i].terminated /\ ~s[i].failed)
    BY <1>1, <1>7 DEF Kept
  <2>2. stream.final < stream.heard => Owed(s[i], inbox'[i])
    <3>1. ASSUME e[1] = "speech"
          PROVE  Owed(s[i], inbox'[i])
      <4>1. /\ l + 1 \in DOMAIN inbox'[i] /\ inbox'[i][l + 1][1] = "speech"
            /\ \A m \in DOMAIN inbox'[i] : ~(m > l + 1)
        BY <1>2, <3>1
      <4> QED BY <4>1 DEF Owed
    <3>2. stream.final < stream.heard => e[1] = "speech"
      BY DEF Capture!Streams
    <3> QED BY <3>1, <3>2
  <2>3. ASSUME NEW n \in 1..stream.final
        PROVE  <<i, n>> \in turns \/ \E k \in DOMAIN inbox'[i] : inbox'[i][k] = <<"final", n>>
    <3>1. CASE n \in 1..provider[i].final
      <4>1. <<i, n>> \in turns \/ \E k \in DOMAIN q : q[k] = <<"final", n>>
        BY <2>1, <3>1 DEF Kept
      <4>2. DOMAIN q \subseteq DOMAIN inbox'[i]
        BY <1>2
      <4> QED BY <1>2, <4>1, <4>2
    <3>2. CASE n \notin 1..provider[i].final
      <4>1. e = <<"final", n>> /\ l + 1 \in DOMAIN inbox'[i]
        BY <1>1, <1>2, <2>3, <3>2 DEF Capture!Streams
      <4> QED BY <1>2, <4>1
    <3> QED BY <3>1, <3>2
  <2> QED BY <2>1, <2>2, <2>3 DEF Kept
<1>8. Fed(s[i], provider'[i], inbox'[i])
  BY <1>3, <1>6
<1>9. current' = i => Kept(s[i], provider'[i], inbox'[i], i, turns')
  BY <1>3, <1>7
<1>10. current' = current /\ turns \subseteq turns'
  OBVIOUS
<1>11. \A j \in Capture!Ids : j # i => provider'[j] = provider[j] /\ inbox'[j] = inbox[j]
  BY <1>2, <1>3
<1> DEFINE r == s[i]
<1>12. /\ s' = [s EXCEPT ![i] = r] /\ Fed(r, provider'[i], inbox'[i])
       /\ current' = i => Kept(r, provider'[i], inbox'[i], i, turns')
  BY <1>4, <1>8, <1>9
<1> HIDE DEF r
<1> QED BY <1>10, <1>11, <1>12, WordsUpdate

LEMMA SpeakerWords ==
  ASSUME CaptureInv, WordsInv, NEW i \in Capture!Ids,
         Capture!Hear(i) \/ Capture!Finalize(i)
  PROVE  WordsInv'
<1>1. /\ provider[i] \in Capture!Streams /\ provider[i].final <= provider[i].heard
      /\ provider[i].phase = "open" /\ Fed(s[i], provider[i], inbox[i])
      /\ UNCHANGED <<current, turns, s>>
  BY WordsOf DEF Capture!Hear, Capture!Finalize
<1>2. CASE Capture!Hear(i)
  <2> DEFINE stream == [provider[i] EXCEPT !.heard = @ + 1]
             e == <<"speech">>
  <2>1. /\ provider[i].heard < MaxTurns /\ s[i].begun
    BY <1>1, <1>2 DEF Capture!Hear, Fed
  <2>2. /\ stream \in Capture!Streams /\ stream.phase = "open"
        /\ stream.final = provider[i].final /\ stream.heard = stream.final + 1
    BY <1>1, <1>2, <2>1 DEF Capture!Streams, Capture!Hear
  <2>3. e \in Capture!Event /\ e[1] = "speech"
    BY DEF Capture!Event
  <2>4. /\ inbox' = [inbox EXCEPT ![i] = Append(inbox[i], e)]
        /\ provider' = [provider EXCEPT ![i] = stream]
    BY <1>2 DEF Capture!Hear
  <2> HIDE DEF stream, e
  <2> QED BY <1>1, <2>1, <2>2, <2>3, <2>4, SpokenWords
<1>3. CASE Capture!Finalize(i)
  <2> DEFINE stream == [provider[i] EXCEPT !.final = @ + 1]
             e == <<"final", provider[i].final + 1>>
  <2>1. /\ provider[i].final < provider[i].heard
        /\ provider[i].heard \in 0..MaxTurns /\ provider[i].final \in 0..MaxTurns
    BY <1>1, <1>3 DEF Capture!Finalize, Capture!Streams
  <2>2. /\ stream \in Capture!Streams /\ stream.phase = "open"
        /\ stream.final = provider[i].final + 1 /\ stream.heard = provider[i].heard
    BY <1>1, <2>1 DEF Capture!Streams
  <2>3. e \in Capture!Event /\ e = <<"final", stream.final>>
    BY <2>1, <2>2 DEF Capture!Event
  <2>4. /\ inbox' = [inbox EXCEPT ![i] = Append(inbox[i], e)]
        /\ provider' = [provider EXCEPT ![i] = stream]
    BY <1>3 DEF Capture!Finalize
  <2>5. s[i].begun
    BY <1>1, <2>1 DEF Fed
  <2>6. stream.final = stream.heard
    BY <1>1, <2>1, <2>2 DEF Fed
  <2> HIDE DEF stream, e
  <2> QED BY <1>1, <2>1, <2>2, <2>3, <2>4, <2>5, <2>6, SpokenWords
<1> QED BY <1>2, <1>3

LEMMA EndingWords ==
  ASSUME CaptureInv, WordsInv, NEW i \in Capture!Ids,
         Capture!Terminate(i) \/ Capture!Disconnected(i)
  PROVE  WordsInv'
<1>1. /\ Fed(s[i], provider[i], inbox[i]) /\ provider[i].phase = "open"
      /\ current = i => Kept(s[i], provider[i], inbox[i], i, turns)
      /\ provider \in [Capture!Ids -> Capture!Streams]
      /\ s \in [Capture!Ids -> Capture!Resources]
      /\ inbox \in [Capture!Ids -> Seq(Capture!Event)]
      /\ UNCHANGED <<current, turns, s>>
  BY WordsOf DEF CaptureInv, Capture!CaptureTypeOK, Capture!Terminate, Capture!Disconnected
<1> DEFINE stream == [provider[i] EXCEPT !.phase = "ended"]
           q == inbox[i]
<1>2. /\ stream.phase = "ended" /\ stream.heard = provider[i].heard
      /\ stream.final = provider[i].final
  BY <1>1 DEF Capture!Streams
<1>3. provider'[i] = stream /\ \A j \in Capture!Ids : j # i => provider'[j] = provider[j]
  BY <1>1 DEF Capture!Terminate, Capture!Disconnected
<1> HIDE DEF stream
<1>4. s' = [s EXCEPT ![i] = s[i]]
  BY <1>1
<1>5. /\ Fed(s[i], stream, q)
      /\ current = i => Kept(s[i], stream, q, i, turns)
  BY <1>1, <1>2 DEF Fed, Kept
<1>6. CASE inbox' = inbox
  BY <1>1, <1>3, <1>4, <1>5, <1>6, WordsUpdate
<1>7. ASSUME NEW e \in Capture!Event, e[1] \notin {"speech", "final"},
             inbox' = [inbox EXCEPT ![i] = Append(inbox[i], e)]
      PROVE  WordsInv'
  <2> DEFINE l == Len(q)
  <2>1. /\ DOMAIN q = 1..l /\ l \in Nat /\ Len(inbox'[i]) = l + 1
        /\ DOMAIN inbox'[i] = 1..(l + 1)
        /\ \A k \in DOMAIN q : inbox'[i][k] = q[k]
        /\ inbox'[i][l + 1] = e
        /\ \A j \in Capture!Ids : j # i => inbox'[j] = inbox[j]
    BY <1>7, OneEvent
  <2>2. Fed(s[i], stream, inbox'[i])
    <3>1. ASSUME NEW k \in DOMAIN inbox'[i], inbox'[i][k][1] = "termination"
          PROVE  k = Len(inbox'[i])
      <4>1. ~(k \in DOMAIN q)
        BY <1>1, <2>1, <3>1 DEF Fed
      <4> QED BY <2>1, <4>1
    <3> QED BY <1>2, <1>5, <3>1 DEF Fed
  <2>3. ASSUME current = i
        PROVE  Kept(s[i], stream, inbox'[i], i, turns)
    <3>1. Kept(s[i], provider[i], q, i, turns) /\ ~(s[i].terminated /\ ~s[i].failed)
      BY <1>1, <2>3 DEF Kept
    <3>2. Owed(s[i], q) => Owed(s[i], inbox'[i])
      <4>1. \A m \in DOMAIN inbox'[i] : m \in DOMAIN q \/ inbox'[i][m][1] # "final"
        BY <1>7, <2>1
      <4>2. \A m \in DOMAIN q : m \in DOMAIN inbox'[i] /\ inbox'[i][m] = q[m]
        BY <2>1
      <4> QED BY <4>1, <4>2 DEF Owed
    <3>3. \A k \in DOMAIN q : k \in DOMAIN inbox'[i] /\ inbox'[i][k] = q[k]
      BY <2>1
    <3>4. \A n \in 1..stream.final :
            <<i, n>> \in turns \/ \E k \in DOMAIN inbox'[i] : inbox'[i][k] = <<"final", n>>
      BY <1>2, <3>1, <3>3 DEF Kept
    <3> QED BY <1>2, <3>1, <3>2, <3>4 DEF Kept
  <2> QED BY <1>1, <1>3, <1>4, <2>1, <2>2, <2>3, WordsUpdate
<1>8. CASE Capture!Disconnected(i)
  BY <1>6, <1>8 DEF Capture!Disconnected
<1>9. CASE Capture!Terminate(i)
  <2>1. PICK ending \in {<< <<"termination">> >>, << <<"garbage">> >>, <<>>} :
          inbox' = [inbox EXCEPT ![i] = inbox[i] \o ending]
    BY <1>9 DEF Capture!Terminate
  <2>2. CASE ending = <<>>
    <3>1. inbox[i] \o <<>> = inbox[i]
      BY <1>1, ConcatEmptySeq
    <3> QED BY <1>1, <1>6, <2>1, <2>2, <3>1
  <2>3. ASSUME NEW name \in {"termination", "garbage"}, ending = << <<name>> >>
        PROVE  WordsInv'
    <3>1. <<name>> \in Capture!Event
      BY DEF Capture!Event
    <3>2. inbox' = [inbox EXCEPT ![i] = Append(inbox[i], <<name>>)]
      <4> HIDE DEF Capture!Event
      <4> DEFINE e == <<name>>
      <4>1. inbox[i] \in Seq(Capture!Event) /\ e \in Capture!Event
        BY <1>1, <3>1
      <4>2. inbox' = [inbox EXCEPT ![i] = inbox[i] \o <<e>>]
        BY <2>1, <2>3
      <4> HIDE DEF e
      <4>3. Append(inbox[i], e) = inbox[i] \o <<e>>
        BY <4>1, OneMore
      <4>4. inbox' = [inbox EXCEPT ![i] = Append(inbox[i], e)]
        BY <4>2, <4>3
      <4> QED BY <4>4 DEF e
    <3>3. <<name>>[1] \notin {"speech", "final"}
      OBVIOUS
    <3> QED BY <1>7, <3>1, <3>2, <3>3
  <2> QED BY <2>1, <2>2, <2>3
<1> QED BY <1>8, <1>9

\* The service acknowledges the end: the last event of a session.
LEMMA EndedWords ==
  ASSUME CaptureInv, WordsInv, NEW i \in Capture!Ids, current = i,
         inbox[i] # <<>>, Head(inbox[i])[1] = "termination",
         inbox' = [inbox EXCEPT ![i] = Tail(inbox[i])],
         s' = [s EXCEPT ![i] = Capture!Ended(s[i])],
         UNCHANGED <<current, turns, provider>>
  PROVE  WordsInv'
<1> DEFINE q == inbox[i]
           r == Capture!Ended(s[i])
<1>1. /\ s[i] \in Capture!Resources /\ q \in Seq(Capture!Event)
      /\ inbox \in [Capture!Ids -> Seq(Capture!Event)]
      /\ Fed(s[i], provider[i], q) /\ Kept(s[i], provider[i], q, i, turns)
      /\ provider[i] \in Capture!Streams /\ provider[i].final <= provider[i].heard
  BY WordsOf
<1>2. /\ r.pc = s[i].pc /\ r.begun = s[i].begun /\ r.pending = s[i].pending
      /\ r.awaiting = s[i].awaiting /\ r.stopping = s[i].stopping
      /\ r.attached = s[i].attached /\ r.terminated = TRUE
      /\ r.failed = (s[i].failed \/ ~s[i].stopping \/ (s[i].begun /\ s[i].awaiting))
      /\ r.socket = IF s[i].socket = "open" THEN "closing" ELSE s[i].socket
  BY <1>1 DEF Capture!Ended, Capture!Resources
<1>3. s' = [s EXCEPT ![i] = r]
  OBVIOUS
<1> HIDE DEF r, Capture!Event
<1>4. /\ Len(q) \in Nat \ {0} /\ DOMAIN q = 1..Len(q) /\ q[1] = Head(q)
      /\ Len(Tail(q)) = Len(q) - 1 /\ Tail(q) \in Seq(Capture!Event)
  BY <1>1, TailIs
<1>5. Len(q) = 1 /\ provider[i].phase = "ended" /\ DOMAIN q = {1}
  <2>1. 1 \in DOMAIN q /\ q[1][1] = "termination"
    BY <1>4
  <2>2. Len(q) = 1 /\ provider[i].phase = "ended"
    BY <1>1, <2>1 DEF Fed
  <2>3. DOMAIN q = 1..1
    BY <1>4, <2>2
  <2> QED BY <2>2, <2>3
<1>6. Tail(q) = <<>>
  BY <1>4, <1>5, EmptySeq
<1>7. /\ inbox'[i] = Tail(q) /\ \A j \in Capture!Ids : j # i => inbox'[j] = inbox[j]
  BY <1>1
<1>8. Fed(r, provider[i], Tail(q))
  <2>1. Fed(s[i], provider[i], Tail(q))
    BY <1>1, FedTail
  <2> QED BY <1>2, <2>1 DEF Fed
<1>9. Kept(r, provider[i], Tail(q), i, turns)
  <2>1. provider[i].final < provider[i].heard => s[i].pending /\ s[i].begun
    <3>1. q[1][1] = "termination"
      BY <1>4
    <3>2. ~\E k \in DOMAIN q : q[k][1] = "speech"
      BY <1>5, <3>1
    <3>3. Owed(s[i], q) => s[i].pending
      BY <3>2 DEF Owed
    <3>4. provider[i].final < provider[i].heard => provider[i].heard > 0
      BY <1>1 DEF Capture!Streams
    <3> QED BY <1>1, <3>3, <3>4 DEF Fed, Kept
  <2>2. ~r.failed => provider[i].final = provider[i].heard
    <3>1. ~r.failed => s[i].stopping /\ ~(s[i].begun /\ s[i].awaiting)
      BY <1>2
    <3>2. s[i].stopping /\ s[i].pending => s[i].awaiting
      BY <1>1 DEF Kept
    <3>3. ~r.failed => ~(provider[i].final < provider[i].heard)
      BY <2>1, <3>1, <3>2
    <3> QED BY <1>1, <3>3 DEF Capture!Streams
  <2>3. provider[i].final < provider[i].heard => Owed(r, Tail(q))
    <3>1. \A m \in DOMAIN Tail(q) : FALSE
      BY <1>6
    <3> QED BY <1>2, <2>1, <3>1 DEF Owed
  <2>4. ASSUME NEW n \in 1..provider[i].final
        PROVE  <<i, n>> \in turns
    <3>1. <<i, n>> \in turns \/ \E k \in DOMAIN q : q[k] = <<"final", n>>
      BY <1>1 DEF Kept
    <3>2. q[1] # <<"final", n>>
      BY <1>4
    <3> QED BY <1>5, <3>1, <3>2
  <2>5. /\ r.socket # "none" => r.attached /\ r.socket # "closed"
        /\ r.stopping /\ r.pending => r.awaiting
    BY <1>1, <1>2 DEF Kept
  <2> QED BY <1>2, <1>5, <1>6, <2>2, <2>3, <2>4, <2>5 DEF Kept
<1> QED BY <1>3, <1>7, <1>8, <1>9, WordsUpdate

\* Speech has begun, or its words have arrived.
LEMMA HeardWords ==
  ASSUME CaptureInv, WordsInv, NEW i \in Capture!Ids, current = i, NEW r,
         inbox[i] # <<>>, Head(inbox[i])[1] \in {"speech", "final"},
         inbox' = [inbox EXCEPT ![i] = Tail(inbox[i])],
         s' = [s EXCEPT ![i] = r],
         r.pc = s[i].pc, r.begun = s[i].begun, r.stopping = s[i].stopping,
         r.socket = s[i].socket, r.attached = s[i].attached,
         r.terminated = s[i].terminated, r.failed = s[i].failed,
         Head(inbox[i])[1] = "speech" => r.pending,
         r.stopping /\ r.pending => r.awaiting,
         turns \subseteq turns',
         \A n \in Nat : Head(inbox[i]) = <<"final", n>> => <<i, n>> \in turns',
         UNCHANGED <<current, provider>>
  PROVE  WordsInv'
<1> DEFINE q == inbox[i]
<1>1. /\ s[i] \in Capture!Resources /\ q \in Seq(Capture!Event)
      /\ inbox \in [Capture!Ids -> Seq(Capture!Event)]
      /\ Fed(s[i], provider[i], q) /\ Kept(s[i], provider[i], q, i, turns)
      /\ provider[i] \in Capture!Streams
  BY WordsOf
<1> HIDE DEF Capture!Event
<1>2. /\ inbox'[i] = Tail(q) /\ \A j \in Capture!Ids : j # i => inbox'[j] = inbox[j]
  BY <1>1
<1>3. Fed(r, provider[i], Tail(q))
  <2>1. Fed(s[i], provider[i], Tail(q))
    BY <1>1, FedTail
  <2> QED BY <2>1 DEF Fed
<1>4. Kept(r, provider[i], Tail(q), i, turns')
  <2>1. ~(s[i].terminated /\ ~s[i].failed)
    BY <1>1 DEF Kept
  <2>2. provider[i].final < provider[i].heard => Owed(r, Tail(q))
    <3>1. provider[i].final < provider[i].heard => Owed(s[i], q)
      BY <1>1 DEF Kept
    <3>2. s[i].pending /\ Head(q)[1] # "final" => r.pending
      OBVIOUS
    <3>3. Head(q)[1] = "speech" => r.pending
      OBVIOUS
    <3> QED BY <1>1, <3>1, <3>2, <3>3, OwedTail
  <2>3. ASSUME NEW n \in 1..provider[i].final
        PROVE  <<i, n>> \in turns' \/ \E m \in DOMAIN Tail(q) : Tail(q)[m] = <<"final", n>>
    <3>1. <<i, n>> \in turns \/ \E k \in DOMAIN q : q[k] = <<"final", n>>
      BY <1>1 DEF Kept
    <3>2. n \in Nat
      BY <1>1 DEF Capture!Streams
    <3>3. CASE \E k \in DOMAIN q : q[k] = <<"final", n>>
      <4> DEFINE e == <<"final", n>>
      <4>0. PICK k \in DOMAIN q : q[k] = e
        BY <3>3
      <4> HIDE DEF e
      <4>1. Head(q) = e \/ \E m \in DOMAIN Tail(q) : Tail(q)[m] = e
        BY <1>1, <4>0, EventTail
      <4> USE DEF e
      <4> QED BY <3>2, <4>1
    <3> QED BY <3>1, <3>3
  <2> QED BY <1>1, <2>1, <2>2, <2>3 DEF Kept
<1> QED BY <1>2, <1>3, <1>4, WordsUpdate

\* An event that says nothing of an utterance, or that nobody hears, is dropped.
LEMMA DroppedWords ==
  ASSUME CaptureInv, WordsInv, NEW i \in Capture!Ids,
         UNCHANGED <<s, current, turns, provider>>,
         \/ Passed(i)
         \/ /\ ~Capture!Hears(i) /\ inbox[i] # <<>>
            /\ inbox' = [inbox EXCEPT ![i] = Tail(inbox[i])]
  PROVE  WordsInv'
<1> DEFINE r == s[i]
<1>1. /\ s \in [Capture!Ids -> Capture!Resources] /\ r.begun = s[i].begun
      /\ r.pending = s[i].pending
      /\ r.awaiting = s[i].awaiting /\ r.stopping = s[i].stopping
      /\ r.socket = s[i].socket /\ r.attached = s[i].attached
      /\ r.terminated = s[i].terminated /\ r.failed = s[i].failed
      /\ Fed(r, provider[i], inbox[i])
      /\ inbox[i] \in Seq(Capture!Event) /\ inbox \in [Capture!Ids -> Seq(Capture!Event)]
  BY WordsOf DEF CaptureInv, Capture!CaptureTypeOK
<1>2. s' = [s EXCEPT ![i] = r]
  BY <1>1
<1>3. ASSUME ~Capture!Hears(i), inbox[i] # <<>>
      PROVE  current # i
  <2>1. SUFFICES ASSUME current = i PROVE FALSE
    OBVIOUS
  <2>2. ~s[i].attached /\ Kept(s[i], provider[i], inbox[i], i, turns) /\ Opened(s[i], provider[i])
    BY <1>3, <2>1, WordsOf DEF Capture!Hears
  <2>3. provider[i].phase = "none"
    BY <2>2 DEF Kept, Opened
  <2> QED BY <1>1, <1>3, <2>3 DEF Fed
<1> HIDE DEF r, Capture!Event
<1>4. CASE Passed(i)
  <2>1. r.pc \in {"module", "resuming", "running"} => r.begun
    BY <1>1 DEF Fed
  <2> QED BY <1>1, <1>2, <1>4, <2>1, RestKeeps
<1>5. CASE /\ ~Capture!Hears(i) /\ inbox[i] # <<>>
           /\ inbox' = [inbox EXCEPT ![i] = Tail(inbox[i])]
  <2>1. current' # i
    BY <1>3, <1>5
  <2>2. /\ inbox'[i] = Tail(inbox[i]) /\ \A j \in Capture!Ids : j # i => inbox'[j] = inbox[j]
    BY <1>1, <1>5
  <2>3. Fed(r, provider[i], Tail(inbox[i]))
    BY <1>1, <1>5, FedTail
  <2> QED BY <1>2, <2>1, <2>2, <2>3, WordsUpdate
<1> QED BY <1>4, <1>5

\* The socket's events.
LEMMA ReceiveWords ==
  ASSUME CaptureInv, WordsInv, NEW i \in Capture!Ids, Capture!Receive(i)
  PROVE  WordsInv'
<1> DEFINE event == Head(inbox[i])[1]
<1>1. /\ inbox[i] # <<>> /\ inbox' = [inbox EXCEPT ![i] = Tail(inbox[i])]
      /\ UNCHANGED <<page, provider>>
  BY DEF Capture!Receive
<1>2. /\ s[i] \in Capture!Resources /\ Fed(s[i], provider[i], inbox[i])
      /\ current = i => Kept(s[i], provider[i], inbox[i], i, turns)
      /\ inbox[i] \in Seq(Capture!Event)
      /\ provider[i] \in Capture!Streams
  BY WordsOf
<1>3. CASE ~Capture!Hears(i) /\ UNCHANGED <<s, status, current, turns>>
  BY <1>1, <1>3, DroppedWords
<1>4. ASSUME Capture!Hears(i), ~s[i].begun, UNCHANGED turns,
             CASE event = "begin" /\ s[i].pc = "opening" /\ ~s[i].expected ->
                    /\ s' = [s EXCEPT ![i].pc = "module", ![i].begun = TRUE, ![i].audio = TRUE]
                    /\ UNCHANGED <<status, current>>
               [] event = "termination" ->
                    s' = [s EXCEPT ![i] = Capture!Ended(@)] /\ UNCHANGED <<status, current>>
               [] event = "garbage" /\ s[i].pc = "opening" -> Capture!Fail(i)
               [] OTHER -> UNCHANGED <<s, status, current>>
      PROVE  WordsInv'
  <2>1. Passed(i) /\ current = i
    <3>1. provider[i].heard = 0
      BY <1>2, <1>4 DEF Fed, Capture!Streams
    <3> QED BY <1>1, <1>4, <3>1 DEF Passed, Capture!Hears
  <2>2. CASE event = "begin" /\ s[i].pc = "opening" /\ ~s[i].expected
    <3> DEFINE b == [s[i] EXCEPT !.pc = "module", !.begun = TRUE]
               r == [b EXCEPT !.audio = TRUE]
    <3>1. /\ b \in Capture!Resources /\ b.pc = "module" /\ b.begun = TRUE
          /\ b.pending = s[i].pending
          /\ b.awaiting = s[i].awaiting /\ b.stopping = s[i].stopping
          /\ b.socket = s[i].socket /\ b.attached = s[i].attached
          /\ b.terminated = s[i].terminated /\ b.failed = s[i].failed
      BY <1>2 DEF Capture!Resources
    <3>2. s' = [s EXCEPT ![i].pc = "module", ![i].begun = TRUE, ![i].audio = TRUE]
          /\ UNCHANGED <<status, current>>
      BY <1>4, <2>2
    <3>3. s' = [s EXCEPT ![i] = r]
      <4>1. s \in [Capture!Ids -> Capture!Resources]
        BY DEF CaptureInv, Capture!CaptureTypeOK
      <4> QED BY <3>2, <4>1
    <3> HIDE DEF b
    <3>4. /\ r.pc = b.pc /\ r.begun = b.begun /\ r.pending = b.pending
          /\ r.awaiting = b.awaiting /\ r.stopping = b.stopping
          /\ r.socket = b.socket /\ r.attached = b.attached
          /\ r.terminated = b.terminated /\ r.failed = b.failed
      BY <3>1 DEF Capture!Resources
    <3> HIDE DEF r
    <3>5. Fed(r, provider[i], inbox[i])
      BY <1>2, <3>1, <3>4 DEF Fed
    <3>6. Kept(r, provider[i], inbox[i], i, turns)
      BY <1>2, <2>1, <3>1, <3>4 DEF Kept, Owed
    <3>7. /\ Fed(r, provider'[i], inbox'[i])
          /\ Kept(r, provider'[i], inbox'[i], i, turns')
          /\ \A j \in Capture!Ids : j # i => inbox'[j] = inbox[j]
      BY <1>1, <1>4, <2>1, <3>5, <3>6, PassedIs
    <3> QED BY <1>1, <1>4, <3>2, <3>3, <3>7, WordsUpdate
  <2>3. CASE event = "termination"
    <3>1. s' = [s EXCEPT ![i] = Capture!Ended(s[i])] /\ UNCHANGED <<status, current>>
      BY <1>4, <2>3
    <3> QED BY <1>1, <1>4, <2>1, <2>3, <3>1, EndedWords
  <2>4. CASE event = "garbage" /\ s[i].pc = "opening"
    <3>1. Capture!Fail(i)
      BY <1>4, <2>4
    <3> QED BY <1>1, <1>4, <2>1, <3>1, FailWords
  <2>5. CASE /\ ~(event = "begin" /\ s[i].pc = "opening" /\ ~s[i].expected)
             /\ event # "termination" /\ ~(event = "garbage" /\ s[i].pc = "opening")
    <3>1. UNCHANGED <<s, status, current>>
      BY <1>4, <2>5
    <3> QED BY <1>1, <1>4, <2>1, <3>1, DroppedWords
  <2> QED BY <2>2, <2>3, <2>4, <2>5
<1>5. ASSUME Capture!Hears(i), s[i].begun,
             CASE event = "speech" ->
                    /\ s' = [s EXCEPT ![i].pending = TRUE, ![i].awaiting = @ \/ s[i].stopping]
                    /\ UNCHANGED <<status, current>>
               [] event = "termination" ->
                    s' = [s EXCEPT ![i] = Capture!Ended(@)] /\ UNCHANGED <<status, current>>
               [] event = "garbage" -> Capture!GracefulStop(i, TRUE)
               [] event = "final" ->
                    /\ s' = [s EXCEPT ![i] = IF s[i].stopping
                         THEN [s[i] EXCEPT !.pending = FALSE, !.awaiting = FALSE,
                                 !.timers = s[i].timers \ {"force"},
                                 !.sent = Capture!Terminates(s[i])]
                         ELSE [s[i] EXCEPT !.pending = FALSE]]
                    /\ UNCHANGED <<status, current>>
               [] OTHER -> UNCHANGED <<s, status, current>>,
             turns' = IF event = "final" THEN turns \cup {<<i, Head(inbox[i])[2]>>} ELSE turns
      PROVE  WordsInv'
  <2>1. current = i /\ Kept(s[i], provider[i], inbox[i], i, turns)
    BY <1>2, <1>5 DEF Capture!Hears
  <2>2. CASE event = "speech"
    <3> DEFINE r == [s[i] EXCEPT !.pending = TRUE, !.awaiting = s[i].awaiting \/ s[i].stopping]
    <3>1. /\ r.pc = s[i].pc /\ r.begun = s[i].begun /\ r.stopping = s[i].stopping
          /\ r.socket = s[i].socket /\ r.attached = s[i].attached
          /\ r.terminated = s[i].terminated /\ r.failed = s[i].failed
          /\ r.pending = TRUE
      BY <1>2 DEF Capture!Resources
    <3>2. r.awaiting = (s[i].awaiting \/ s[i].stopping)
      BY <1>2 DEF Capture!Resources
    <3>3. s' = [s EXCEPT ![i] = r] /\ UNCHANGED <<current, turns>>
      <4>1. s \in [Capture!Ids -> Capture!Resources]
        BY DEF CaptureInv, Capture!CaptureTypeOK
      <4> QED BY <1>5, <2>2, <4>1
    <3> HIDE DEF r
    <3>4. \A n \in Nat : Head(inbox[i]) # <<"final", n>>
      BY <2>2
    <3>5. r.stopping /\ r.pending => r.awaiting
      BY <3>1, <3>2
    <3>6. /\ Head(inbox[i])[1] \in {"speech", "final"} /\ turns \subseteq turns'
          /\ \A n \in Nat : Head(inbox[i]) = <<"final", n>> => <<i, n>> \in turns'
          /\ Head(inbox[i])[1] = "speech" => r.pending
          /\ UNCHANGED <<current, provider>>
      BY <1>1, <2>2, <3>1, <3>3, <3>4
    <3> QED BY <1>1, <2>1, <3>1, <3>3, <3>5, <3>6, HeardWords
  <2>3. CASE event = "final"
    <3> DEFINE p == [s[i] EXCEPT !.pending = FALSE]
               a == [p EXCEPT !.awaiting = FALSE]
               f == [a EXCEPT !.timers = s[i].timers \ {"force"}]
               w == [f EXCEPT !.sent = Capture!Terminates(s[i])]
               r == IF s[i].stopping THEN w ELSE p
    <3>1. /\ p \in Capture!Resources
          /\ p.pc = s[i].pc /\ p.begun = s[i].begun /\ p.stopping = s[i].stopping
          /\ p.socket = s[i].socket /\ p.attached = s[i].attached
          /\ p.terminated = s[i].terminated /\ p.failed = s[i].failed
          /\ p.pending = FALSE
      BY <1>2 DEF Capture!Resources
    <3>2. s' = [s EXCEPT ![i] = r] /\ UNCHANGED current
      BY <1>5, <2>3
    <3> HIDE DEF p
    <3>3. /\ a \in Capture!Resources
          /\ a.pc = s[i].pc /\ a.begun = s[i].begun /\ a.stopping = s[i].stopping
          /\ a.socket = s[i].socket /\ a.attached = s[i].attached
          /\ a.terminated = s[i].terminated /\ a.failed = s[i].failed
          /\ a.pending = FALSE
      BY <3>1 DEF Capture!Resources
    <3> HIDE DEF a
    <3>4. /\ f \in Capture!Resources
          /\ f.pc = s[i].pc /\ f.begun = s[i].begun /\ f.stopping = s[i].stopping
          /\ f.socket = s[i].socket /\ f.attached = s[i].attached
          /\ f.terminated = s[i].terminated /\ f.failed = s[i].failed
          /\ f.pending = FALSE
      <4>1. s[i].timers \in SUBSET {"session", "force", "close"}
        BY <1>2 DEF Capture!Resources
      <4> QED BY <3>3, <4>1 DEF Capture!Resources
    <3> HIDE DEF f
    <3>5. /\ w.pc = s[i].pc /\ w.begun = s[i].begun /\ w.stopping = s[i].stopping
          /\ w.socket = s[i].socket /\ w.attached = s[i].attached
          /\ w.terminated = s[i].terminated /\ w.failed = s[i].failed
          /\ w.pending = FALSE
      BY <3>4 DEF Capture!Resources
    <3> HIDE DEF w
    <3>6. /\ r.pc = s[i].pc /\ r.begun = s[i].begun /\ r.stopping = s[i].stopping
          /\ r.socket = s[i].socket /\ r.attached = s[i].attached
          /\ r.terminated = s[i].terminated /\ r.failed = s[i].failed
          /\ r.pending = FALSE
      BY <3>1, <3>5
    <3> HIDE DEF r
    <3>7. \A n \in Nat : Head(inbox[i]) = <<"final", n>> => <<i, n>> \in turns'
      BY <1>5, <2>3
    <3>8. /\ Head(inbox[i])[1] \in {"speech", "final"} /\ turns \subseteq turns'
          /\ Head(inbox[i])[1] # "speech" /\ UNCHANGED <<current, provider>>
      BY <1>1, <1>5, <2>3, <3>2
    <3> QED BY <1>1, <2>1, <3>2, <3>6, <3>7, <3>8, HeardWords
  <2>4. CASE event \notin {"speech", "final"}
    <3>1. Passed(i) /\ UNCHANGED turns
      BY <1>1, <1>5, <2>4 DEF Passed
    <3>2. CASE event = "termination"
      <4>1. s' = [s EXCEPT ![i] = Capture!Ended(s[i])] /\ UNCHANGED <<status, current>>
        BY <1>5, <2>4, <3>2
      <4> QED BY <1>1, <2>1, <3>1, <3>2, <4>1, EndedWords
    <3>3. CASE event = "garbage"
      <4>1. Capture!GracefulStop(i, TRUE)
        BY <1>5, <2>4, <3>3
      <4> QED BY <1>1, <2>1, <3>1, <4>1, StopWords
    <3>4. CASE event \notin {"termination", "garbage"}
      <4>1. UNCHANGED <<s, status, current>>
        BY <1>5, <2>4, <3>4
      <4> QED BY <1>1, <3>1, <4>1, DroppedWords
    <3> QED BY <3>2, <3>3, <3>4
  <2> QED BY <2>2, <2>3, <2>4
<1> QED BY <1>3, <1>4, <1>5 DEF Capture!Receive

LEMMA ClosedWords ==
  ASSUME CaptureInv, WordsInv, NEW i \in Capture!Ids, Capture!Closed(i)
  PROVE  WordsInv'
<1>1. /\ s[i] \in Capture!Resources /\ Fits(s[i], i, current) /\ i # None
      /\ s[i].socket \in {"closing", "open"}
      /\ current = i => Kept(s[i], provider[i], inbox[i], i, turns)
      /\ UNCHANGED <<turns, page, provider, inbox>>
  BY CaptureOf, WordsOf DEF Capture!Closed
<1>2. CASE ~s[i].attached
  <2> DEFINE r == [s[i] EXCEPT !.socket = "closed"]
  <2>1. r.pc = s[i].pc /\ r.begun = s[i].begun
    BY <1>1 DEF Capture!Resources
  <2>2. s' = [s EXCEPT ![i] = r] /\ current' = current
    BY <1>2 DEF Capture!Closed
  <2>3. current # i
    BY <1>1, <1>2 DEF Kept
  <2> HIDE DEF r
  <2> QED BY <1>1, <2>1, <2>2, <2>3, EndWords DEF Passed
<1>3. CASE s[i].attached
  <2> DEFINE c == [s[i] EXCEPT !.socket = "closed"]
             d == Capture!Disposed(c, FALSE)
  <2>1. c \in Capture!Resources /\ c.pc = s[i].pc /\ c.begun = s[i].begun
    BY <1>1 DEF Capture!Resources
  <2>2. s' = [s EXCEPT ![i] = d] /\ current' = Capture!Without(i)
    BY <1>3 DEF Capture!Closed
  <2>3. current' = None /\ current' # i
    BY <1>1, <1>3, <2>2 DEF Capture!Without, Fits
  <2> HIDE DEF c
  <2>4. d.pc = c.pc /\ d.begun = c.begun
    BY <2>1 DEF Capture!Resources, Capture!Disposed, Capture!Released
  <2> HIDE DEF d
  <2> QED BY <1>1, <2>1, <2>2, <2>3, <2>4, EndWords DEF Passed
<1> QED BY <1>2, <1>3

LEMMA LostWords ==
  ASSUME CaptureInv, WordsInv, NEW i \in Capture!Ids, Capture!CaptureLost(i)
  PROVE  WordsInv'
<1>1. /\ s[i].mic /\ Fits(s[i], i, current) /\ Capture!GracefulStop(i, TRUE)
      /\ UNCHANGED <<turns, page, provider, inbox>>
  BY CaptureOf DEF Capture!CaptureLost
<1> QED BY <1>1, StopWords DEF Passed, Fits

\* Stopping a capture, or a page that was hidden and has nothing to stop.
LEMMA StoppedWords ==
  ASSUME CaptureInv, WordsInv, Capture!Stop
  PROVE  WordsInv'
<1>1. CASE current = None
  <2>1. UNCHANGED <<s, current, turns, provider, inbox>> /\ None \notin Capture!Ids
    BY <1>1 DEF Capture!Stop, Capture!Ids
  <2> QED BY <1>1, <2>1 DEF WordsInv
<1>2. CASE current # None
  <2>1. /\ current \in Capture!Ids /\ Capture!GracefulStop(current, FALSE)
        /\ UNCHANGED <<turns, page, provider, inbox>>
    BY <1>2 DEF Capture!Stop, CaptureInv, Capture!CaptureTypeOK
  <2> DEFINE i == current
  <2>2. i \in Capture!Ids /\ current = i /\ Capture!GracefulStop(i, FALSE) /\ Passed(i)
    BY <2>1 DEF Passed
  <2> HIDE DEF i
  <2> QED BY <2>1, <2>2, StopWords
<1> QED BY <1>1, <1>2

LEMMA RestoreWords ==
  ASSUME WordsInv, Capture!Restore
  PROVE  WordsInv'
BY DEF Capture!Restore, WordsInv

\* A socket that the service has begun to close has delivered what was sent.
LEMMA ServiceClosesWords ==
  ASSUME CaptureInv, WordsInv, NEW i \in Capture!Ids, Capture!ServiceCloses(i)
  PROVE  WordsInv'
<1>1. /\ s[i] \in Capture!Resources /\ s[i].socket = "open"
      /\ Fed(s[i], provider[i], inbox[i])
      /\ current = i => Kept(s[i], provider[i], inbox[i], i, turns)
      /\ UNCHANGED <<current, turns, provider, inbox>>
  BY WordsOf DEF Capture!ServiceCloses
<1> DEFINE r == [s[i] EXCEPT !.socket = "closing"]
<1>2. /\ r.pc = s[i].pc /\ r.begun = s[i].begun /\ r.pending = s[i].pending
      /\ r.awaiting = s[i].awaiting /\ r.stopping = s[i].stopping
      /\ r.socket = "closing" /\ r.attached = s[i].attached
      /\ r.terminated = s[i].terminated /\ r.failed = s[i].failed
  BY <1>1 DEF Capture!Resources
<1>3. s' = [s EXCEPT ![i] = r]
  BY DEF Capture!ServiceCloses
<1> HIDE DEF r
<1>4. Fed(r, provider[i], inbox[i])
  BY <1>1, <1>2 DEF Fed
<1>5. current = i => Kept(r, provider[i], inbox[i], i, turns)
  BY <1>1, <1>2 DEF Kept, Owed
<1> QED BY <1>1, <1>3, <1>4, <1>5, WordsUpdate

LEMMA WordsInvNext ==
  ASSUME CaptureInv, WordsInv, Capture!Next
  PROVE  WordsInv'
<1>1. CASE \/ Capture!Start \/ Capture!Stop \/ Capture!Leave \/ Capture!Restore
           \/ Capture!ClearTranscript
  BY <1>1, StartWords, StoppedWords, LeaveWords, RestoreWords, ClearWords
<1>2. ASSUME NEW i \in Capture!Ids, Capture!Answers(i)
      PROVE  WordsInv'
  BY <1>2, AnswersWords
<1>3. ASSUME NEW i \in Capture!Ids, Capture!GrantedLate(i) \/ Capture!Connect(i) \/ Capture!CaptureLost(i)
      PROVE  WordsInv'
  BY <1>3, GrantedLateWords, ConnectWords, LostWords
<1>4. ASSUME NEW i \in Capture!Ids, Capture!Events(i)
      PROVE  WordsInv'
  BY <1>4, ReceiveWords, ClosedWords, TimersWords DEF Capture!Events
<1>5. ASSUME NEW i \in Capture!Ids,
             \/ Capture!Hear(i) \/ Capture!Finalize(i) \/ Capture!Terminate(i)
             \/ Capture!ServiceCloses(i) \/ Capture!Disconnected(i)
      PROVE  WordsInv'
  BY <1>5, SpeakerWords, EndingWords, ServiceClosesWords
<1> QED BY <1>1, <1>2, <1>3, <1>4, <1>5 DEF Capture!Next

LEMMA WordsInvSame ==
  ASSUME WordsInv, UNCHANGED captureVars
  PROVE  WordsInv'
BY DEF WordsInv, captureVars, Fed, Kept, Owed

\* What a capture that ends without an error has delivered, unless it is stopped
\* while the service closes the socket.
Unhurried(i) == s[i].stopping \/ s[i].socket # "closing"

LEMMA FailShows ==
  ASSUME CaptureInv, NEW i \in Capture!Ids, Capture!Fail(i), UNCHANGED page,
         current # None, current' = None
  PROVE  status' = "error"
<1>1. page = "shown"
  BY DEF CaptureInv, Shown
<1> QED BY <1>1 DEF Capture!Fail, Capture!Show, Capture!InView

LEMMA NothingHeard ==
  ASSUME CaptureInv, WordsInv, NEW i \in Capture!Ids, s[i].socket \in {"none", "connecting"}
  PROVE  Capture!Delivered(i)
<1>1. provider[i].heard = 0
  BY WordsOf DEF Opened, Fed
<1> QED BY <1>1 DEF Capture!Delivered

LEMMA StopDelivers ==
  ASSUME CaptureInv, WordsInv, NEW i \in Capture!Ids, NEW failing \in BOOLEAN,
         Capture!GracefulStop(i, failing), UNCHANGED page,
         current \in Capture!Ids, current' = None, status' = "idle"
  PROVE  current = i /\ (Unhurried(i) => Capture!Delivered(i))
<1>1. /\ page = "shown" /\ None \notin Capture!Ids /\ s[i] \in Capture!Resources
      /\ current = i => Kept(s[i], provider[i], inbox[i], i, turns)
  BY WordsOf DEF CaptureInv, Shown, Capture!Ids
<1>2. current = i
  BY <1>1 DEF Capture!GracefulStop
<1> DEFINE r == [s[i] EXCEPT !.failed = @ \/ failing]
<1>3. /\ r.stopping = s[i].stopping /\ r.socket = s[i].socket
      /\ r.failed = (s[i].failed \/ failing)
  BY <1>1 DEF Capture!Resources
<1>4. /\ ~r.stopping /\ r.socket # "open"
      /\ Capture!Show(IF r.failed THEN "error" ELSE "idle")
  BY <1>1, <1>2 DEF Capture!GracefulStop
<1> HIDE DEF r
<1>5. ~s[i].failed /\ ~s[i].stopping
  BY <1>1, <1>3, <1>4 DEF Capture!Show, Capture!InView
<1>6. Unhurried(i) => s[i].socket \in {"none", "connecting"}
  BY <1>1, <1>2, <1>3, <1>4, <1>5 DEF Unhurried, Kept, Capture!Resources
<1> QED BY <1>2, <1>6, NothingHeard

LEMMA ClosedDelivers ==
  ASSUME CaptureInv, WordsInv, NEW i \in Capture!Ids, Capture!Closed(i),
         current \in Capture!Ids, current' = None, status' = "idle"
  PROVE  current = i /\ Capture!Delivered(i)
<1>1. /\ page = "shown" /\ None \notin Capture!Ids
      /\ current = i => Kept(s[i], provider[i], inbox[i], i, turns)
  BY WordsOf DEF CaptureInv, Shown, Capture!Ids
<1>2. current = i
  BY <1>1 DEF Capture!Closed, Capture!Without
<1>3. s[i].terminated /\ ~s[i].failed
  <2>1. s[i].attached
    BY <1>1, <1>2 DEF Capture!Closed
  <2>2. Capture!Show(IF s[i].failed \/ ~(s[i].expected /\ s[i].terminated)
                     THEN "error" ELSE "idle")
    BY <2>1 DEF Capture!Closed
  <2> QED BY <1>1, <2>2 DEF Capture!Show, Capture!InView
<1>4. provider[i].final = provider[i].heard /\ DOMAIN inbox[i] = {}
  <2>1. inbox[i] = <<>>
    BY <1>1, <1>2, <1>3 DEF Kept
  <2> QED BY <1>1, <1>2, <1>3, <2>1 DEF Kept
<1> QED BY <1>1, <1>2, <1>4 DEF Kept, Capture!Delivered

LEMMA ReceiveDelivers ==
  ASSUME CaptureInv, WordsInv, NEW i \in Capture!Ids, Capture!Receive(i),
         current \in Capture!Ids, current' = None, status' = "idle"
  PROVE  current = i /\ (Unhurried(i) => Capture!Delivered(i))
<1>1. current # None
  BY DEF Capture!Ids
<1>2. Capture!Fail(i) \/ Capture!GracefulStop(i, TRUE)
  <2> DEFINE event == Head(inbox[i])[1]
             begins == event = "begin" /\ s[i].pc = "opening" /\ ~s[i].expected
             refused == event = "garbage" /\ s[i].pc = "opening"
  <2>1. CASE ~Capture!Hears(i) /\ UNCHANGED current
    BY <1>1, <2>1
  <2>2. ASSUME CASE begins -> /\ s' = [s EXCEPT ![i].pc = "module", ![i].begun = TRUE, ![i].audio = TRUE]
                              /\ UNCHANGED <<status, current>>
                 [] event = "termination" ->
                      s' = [s EXCEPT ![i] = Capture!Ended(@)] /\ UNCHANGED <<status, current>>
                 [] refused -> Capture!Fail(i)
                 [] OTHER -> UNCHANGED <<s, status, current>>
        PROVE  Capture!Fail(i) \/ Capture!GracefulStop(i, TRUE)
    <3>1. refused /\ ~begins /\ event # "termination"
      BY <1>1, <2>2
    <3> QED BY <2>2, <3>1
  <2>3. ASSUME CASE event = "speech" ->
                      /\ s' = [s EXCEPT ![i].pending = TRUE, ![i].awaiting = @ \/ s[i].stopping]
                      /\ UNCHANGED <<status, current>>
                 [] event = "termination" ->
                      s' = [s EXCEPT ![i] = Capture!Ended(@)] /\ UNCHANGED <<status, current>>
                 [] event = "garbage" -> Capture!GracefulStop(i, TRUE)
                 [] event = "final" ->
                      /\ s' = [s EXCEPT ![i] = IF s[i].stopping
                           THEN [s[i] EXCEPT !.pending = FALSE, !.awaiting = FALSE,
                                   !.timers = s[i].timers \ {"force"},
                                   !.sent = Capture!Terminates(s[i])]
                           ELSE [s[i] EXCEPT !.pending = FALSE]]
                      /\ UNCHANGED <<status, current>>
                 [] OTHER -> UNCHANGED <<s, status, current>>
        PROVE  Capture!Fail(i) \/ Capture!GracefulStop(i, TRUE)
    <3>1. event = "garbage"
      BY <1>1, <2>3
    <3> QED BY <2>3, <3>1
  <2> QED BY <2>1, <2>2, <2>3 DEF Capture!Receive
<1>3. UNCHANGED page
  BY DEF Capture!Receive
<1> QED BY <1>1, <1>2, <1>3, FailShows, StopDelivers

LEMMA Delivers ==
  ASSUME CaptureInv, WordsInv, Capture!Next, NEW i \in Capture!Ids,
         Capture!EndsWell(i), Unhurried(i)
  PROVE  Capture!Delivered(i)
<1>1. /\ current = i /\ current # None /\ None \notin Capture!Ids
      /\ current' = None /\ page' = "shown" /\ status' = "idle"
  BY DEF Capture!EndsWell, Capture!Ids
<1>2. ASSUME NEW j \in Capture!Ids, Capture!Fail(j), UNCHANGED page
      PROVE  FALSE
  BY <1>1, <1>2, FailShows
<1>3. ASSUME NEW j \in Capture!Ids, Capture!Answers(j)
      PROVE  FALSE
  <2>1. UNCHANGED page /\ (Capture!Fail(j) \/ UNCHANGED current)
    BY <1>3 DEF Capture!Answers, Capture!Granted, Capture!NotGranted, Capture!Token,
                Capture!NotOpened, Capture!Module, Capture!Resumed
  <2> QED BY <1>1, <1>2, <2>1
<1>4. ASSUME NEW j \in Capture!Ids, NEW failing \in BOOLEAN,
             Capture!GracefulStop(j, failing), UNCHANGED page
      PROVE  Capture!Delivered(i)
  BY <1>1, <1>4, StopDelivers
<1>5. ASSUME NEW j \in Capture!Ids, Capture!Events(j)
      PROVE  Capture!Delivered(i)
  <2>1. CASE Capture!SessionTimer(j) \/ Capture!ForceTimer(j)
    BY <1>1, <1>4, <2>1 DEF Capture!SessionTimer, Capture!ForceTimer
  <2>2. CASE Capture!CloseTimer(j)
    <3>1. page = "shown"
      BY <1>1, <2>2 DEF Capture!CloseTimer
    <3>2. UNCHANGED current \/ Capture!Show("error")
      BY <2>2 DEF Capture!CloseTimer
    <3> QED BY <1>1, <3>1, <3>2 DEF Capture!Show, Capture!InView
  <2> QED BY <1>1, <1>5, <2>1, <2>2, ReceiveDelivers, ClosedDelivers DEF Capture!Events
<1>6. CASE Capture!Start \/ Capture!Leave \/ Capture!Restore \/ Capture!ClearTranscript
  BY <1>1, <1>6 DEF Capture!Start, Capture!Leave, Capture!Restore, Capture!ClearTranscript
<1>7. CASE Capture!Stop
  BY <1>1, <1>4, <1>7 DEF Capture!Stop
<1>8. ASSUME NEW j \in Capture!Ids, Capture!CaptureLost(j)
      PROVE  Capture!Delivered(i)
  BY <1>4, <1>8 DEF Capture!CaptureLost
<1>9. ASSUME NEW j \in Capture!Ids,
             \/ Capture!GrantedLate(j) \/ Capture!Connect(j)
             \/ Capture!Hear(j) \/ Capture!Finalize(j) \/ Capture!Terminate(j)
             \/ Capture!ServiceCloses(j) \/ Capture!Disconnected(j)
      PROVE  FALSE
  BY <1>1, <1>9 DEF Capture!GrantedLate, Capture!Connect, Capture!Hear, Capture!Finalize,
                    Capture!Terminate, Capture!ServiceCloses, Capture!Disconnected
<1> QED BY <1>3, <1>5, <1>6, <1>7, <1>8, <1>9 DEF Capture!Next

\* Words are not lost in silence (requestGracefulStop, the watchdogs and the socket's
\* events): a capture that ends without an error has delivered every utterance the
\* service had heard, unless it is stopped while the service is closing the socket, for
\* any number of captures and utterances.
THEOREM WordsAreDelivered == PartsSpec => WordsDelivered
<1>1. PartsInit => CaptureInv /\ WordsInv
  BY CaptureInvInit, WordsInvInit DEF PartsInit
<1>2. CaptureInv /\ WordsInv /\ [PartsNext]_<<part, captureVars, vars, toolVars>>
        => (CaptureInv /\ WordsInv)'
  BY CaptureInvNext, CaptureInvSame, WordsInvNext, WordsInvSame DEF PartsNext
<1>3. CaptureInv /\ WordsInv /\ [PartsNext]_<<part, captureVars, vars, toolVars>>
        => [\A i \in Capture!Ids :
              Capture!EndsWell(i) /\ (s[i].stopping \/ s[i].socket # "closing")
                => Capture!Delivered(i)]_(Capture!vars)
  <2> SUFFICES ASSUME CaptureInv, WordsInv,
                      [PartsNext]_<<part, captureVars, vars, toolVars>>
               PROVE  \/ UNCHANGED captureVars
                      \/ \A i \in Capture!Ids :
                           Capture!EndsWell(i) /\ Unhurried(i) => Capture!Delivered(i)
    BY DEF Capture!vars, captureVars, Unhurried
  <2>1. Capture!Next \/ UNCHANGED captureVars
    BY DEF PartsNext
  <2> QED BY <2>1, Delivers
<1> QED BY <1>1, <1>2, <1>3, PTL DEF PartsSpec, WordsDelivered, Capture!WordsDelivered

=============================================================================
