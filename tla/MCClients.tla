------------------------------ MODULE MCClients ------------------------------
(***************************************************************************)
(* Three programs outside the server: the browser's microphone capture,    *)
(* the narration of the release video, and the command-line tools.  They   *)
(* share no state; a run belongs to one of them and leaves the others as   *)
(* they start.                                                             *)
(***************************************************************************)
EXTENDS NarrationJournal, TLC

CONSTANTS
  Parts, None,
  MaxSessions, MaxTurns,   \* bounds of VoiceCapture
  MaxJobs, MaxToolFaults   \* bounds of KeeperHubTools

ASSUME ClientsAssumption ==
  /\ MaxSessions \in Nat /\ MaxTurns \in Nat /\ None \notin Nat
  /\ MaxJobs \in Nat /\ MaxToolFaults \in Nat

VARIABLES
  part,
  status, current, turns, page, s, provider, inbox,
  jobs, tool, report, toolFaults

captureVars == <<status, current, turns, page, s, provider, inbox>>
toolVars == <<jobs, tool, report, toolFaults>>

Capture == INSTANCE VoiceCapture

Tools == INSTANCE KeeperHubTools WITH
  Tools <- Runners, MaxFaults <- MaxToolFaults, faults <- toolFaults

PartsInit ==
  /\ part \in Parts
  /\ Capture!Init /\ Init /\ Tools!Init
  /\ part # "narration" => account = 0

PartsNext ==
  /\ UNCHANGED part
  /\ \/ part = "capture" /\ Capture!Next /\ UNCHANGED <<vars, toolVars>>
     \/ part = "narration" /\ Next /\ UNCHANGED <<captureVars, toolVars>>
     \/ part = "tools" /\ Tools!Next /\ UNCHANGED <<captureVars, vars>>

PartsSpec == PartsInit /\ [][PartsNext]_<<part, captureVars, vars, toolVars>>

Interchangeable ==
  Permutations(Handlers) \cup Permutations(Runners) \cup Permutations(Subjects)
    \cup Permutations(Recordings)

\* Nobody is recorded unseen, no paid session is left without an owner, and the
\* transcript is that of the latest capture, whatever is granted or arrives late.
CaptureOwned ==
  /\ Capture!CaptureTypeOK /\ Capture!MicrophoneReleased
  /\ Capture!SessionsOwned /\ Capture!TranscriptOfLatest

\* A capture that ends without an error has delivered every utterance heard, unless
\* it is stopped while the service is closing the socket by itself.
WordsDelivered == Capture!WordsDelivered

\* However often the deployer is run or killed, an init code is deployed again only
\* when KeeperHub has forgotten its key, and what is called deployed or settled has
\* landed.
DeployedOnce == Tools!DeployedOnce
=============================================================================
