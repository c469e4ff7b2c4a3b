---------------------- MODULE SubmissionJournal_proofs ----------------------
(***************************************************************************)
(* Theorems about SubmissionJournal, for every set of keys, principals,    *)
(* executions, request slots and observers, and any number of faults.      *)
(***************************************************************************)
EXTENDS SubmissionJournal, TLAPS

(***************************************************************************)
(* Which member of a union a value is.                                     *)
(***************************************************************************)
LEMMA RowType ==
  ASSUME JournalTypeOK, NEW k \in Keys, Exists(k)
  PROVE  intents[k] \in Intent
BY DEF JournalTypeOK, Exists, NoIntent

LEMMA HandlerType ==
  ASSUME req \in [Requests -> Handler \cup {Idle}],
         NEW r \in Requests, req[r].pc # "idle"
  PROVE  req[r] \in Handler
BY DEF Idle

LEMMA JobType ==
  ASSUME HubTypeOK, NEW e \in Executions, ~Unused(e)
  PROVE  jobs[e] \in Job
BY DEF HubTypeOK, Unused, NoJob

LEMMA WatcherType ==
  ASSUME watch \in [Observers -> Watcher \cup {NotWatching}],
         NEW o \in Observers, watch[o].pc # "idle"
  PROVE  watch[o] \in Watcher
BY DEF NotWatching

\* An execution the journal names is a real one, of an accepted row.
LEMMA ExecutionType ==
  ASSUME JournalTypeOK, NEW k \in Keys, ExecutionOf(k) # NoExecution
  PROVE  /\ Exists(k)
         /\ intents[k].acceptance \in Acceptances
         /\ ExecutionOf(k) \in Executions
         /\ ExecutionOf(k) = intents[k].acceptance.id
BY RowType DEF ExecutionOf, Intent, Acceptances, NoAcceptance

(***************************************************************************)
(* The components preserve their types.                                    *)
(***************************************************************************)
LEMMA OpenJobType ==
  ASSUME HubTypeOK, NEW k \in Keys, NEW b \in Bodies, NEW p \in Principals,
         NEW e \in Executions, OpenJob(k, b, p, e)
  PROVE  HubTypeOK'
BY DEF HubTypeOK, OpenJob, Job

LEMMA HubStepType ==
  ASSUME HubTypeOK, HubStep
  PROVE  HubTypeOK'
<1>1. ASSUME NEW k \in Keys, ForgetKey(k) PROVE HubTypeOK'
  BY <1>1 DEF HubTypeOK, ForgetKey
<1>2. ASSUME NEW k \in Keys, SettleElsewhere(k) PROVE HubTypeOK'
  BY <1>2 DEF HubTypeOK, SettleElsewhere
<1>3. ASSUME NEW e \in Executions, Settle(e) \/ Revert(e) \/ Complete(e) \/ Fail(e)
      PROVE  HubTypeOK'
  <2>1. jobs[e].status # "unused"
    BY <1>3 DEF Settle, Revert, Complete, Fail
  <2>2. jobs[e] \in Job
    BY <2>1, JobType DEF Unused
  <2>3. CASE Settle(e)
    BY <2>2, <2>3 DEF HubTypeOK, Settle, Job
  <2>4. CASE Revert(e)
    BY <2>2, <2>4 DEF HubTypeOK, Revert, Job
  <2>5. CASE Complete(e)
    BY <2>2, <2>5 DEF HubTypeOK, Complete, Job
  <2>6. CASE Fail(e)
    BY <2>2, <2>6 DEF HubTypeOK, Fail, Job
  <2> QED BY <1>3, <2>3, <2>4, <2>5, <2>6
<1> QED BY <1>1, <1>2, <1>3 DEF HubStep

LEMMA ReadRetryType ==
  ASSUME JournalTypeOK, NEW k \in Keys, NEW p, NEW b, NEW a \in Requests,
         NEW f \in Flows \cup {NoFlow}, ReadRetry(k, p, b, a, f)
  PROVE  JournalTypeOK'
<1>1. CASE Exists(k)
  <2>1. intents[k] \in Intent
    BY <1>1, RowType
  <2>2. Renewed(intents[k], a) \in Intent
    BY <2>1 DEF Renewed, Intent
  <2>3. Attached(Renewed(intents[k], a), f) \in Intent
    BY <2>2 DEF Attached, Intent
  <2> QED BY <1>1, <2>3 DEF JournalTypeOK, ReadRetry
<1>2. CASE ~Exists(k)
  BY <1>2 DEF JournalTypeOK, ReadRetry
<1> QED BY <1>1, <1>2

LEMMA PrepareType ==
  ASSUME JournalTypeOK, NEW k \in Keys, NEW p \in Principals, NEW b \in Bodies,
         NEW a \in Requests, NEW s \in Simulations,
         NEW f \in Flows \cup {NoFlow}, Prepare(k, p, b, a, s, f)
  PROVE  JournalTypeOK'
<1> DEFINE row == PreparedRow(k, p, b, a, s, f)
<1>1. row \in Intent
  BY RowType DEF PreparedRow, Intent, IntentStates
<1>2. Attached(row, f) \in Intent
  BY <1>1 DEF Attached, Intent
<1>3. Renewed(Attached(row, f), a) \in Intent
  BY <1>2 DEF Renewed, Intent
<1>4. [revision |-> 1, kind |-> "prepared", state |-> "prepared"] \in Event
  BY DEF Event, EventKinds, IntentStates
<1> QED BY <1>3, <1>4 DEF JournalTypeOK, Prepare

LEMMA RecordAcceptanceType ==
  ASSUME JournalTypeOK, NEW k \in Keys, NEW p, NEW b, NEW acc \in Acceptances,
         RecordAcceptance(k, p, b, acc)
  PROVE  JournalTypeOK'
<1>1. intents[k] \in Intent
  BY RowType DEF RecordAcceptance, AcceptanceConflict
<1>2. [revision |-> 2, kind |-> "accepted", state |-> "accepted"] \in Event
  BY DEF Event, EventKinds, IntentStates
<1>3. CASE intents[k].state = "prepared"
  <2>1. intents' = [intents EXCEPT ![k] =
           [intents[k] EXCEPT !.state = "accepted", !.acceptance = acc,
                              !.revision = 2]]
    BY <1>3 DEF RecordAcceptance, JournalTypeOK
  <2>2. [intents[k] EXCEPT !.state = "accepted", !.acceptance = acc,
                           !.revision = 2] \in Intent
    <3> DEFINE a == [intents[k] EXCEPT !.state = "accepted"]
    <3>1. a \in Intent
      BY <1>1 DEF Intent, IntentStates
    <3> HIDE DEF a
    <3> DEFINE c == [a EXCEPT !.acceptance = acc]
    <3>2. c \in Intent
      BY <3>1 DEF Intent
    <3> HIDE DEF c
    <3>3. [c EXCEPT !.revision = 2] \in Intent
      BY <3>2 DEF Intent
    <3> QED BY <3>3 DEF a, c
  <2> QED BY <1>2, <1>3, <2>1, <2>2 DEF JournalTypeOK, RecordAcceptance
<1>4. CASE intents[k].state # "prepared"
  BY <1>4 DEF JournalTypeOK, RecordAcceptance, journalVars
<1> QED BY <1>3, <1>4

LEMMA RecordObservationType ==
  ASSUME JournalTypeOK, NEW k \in Keys, NEW target \in Terminal,
         Exists(k), RecordObservation(k, target)
  PROVE  JournalTypeOK'
<1> DEFINE rev == IF intents[k].state = "accepted" THEN 3 ELSE 4
           new == [intents[k] EXCEPT !.state = target, !.revision = rev]
<1>1. new \in Intent
  <2>1. intents[k] \in Intent
    BY RowType
  <2>2. [intents[k] EXCEPT !.state = target] \in Intent
    BY <2>1 DEF Intent, IntentStates
  <2>3. rev \in 1..4
    OBVIOUS
  <2> QED BY <2>2, <2>3 DEF Intent
<1>2. [revision |-> rev, state |-> target,
       kind |-> IF rev = 3 THEN "terminal" ELSE "reconciled"] \in Event
  BY DEF Event, EventKinds, IntentStates
<1>3. CASE MayAdvance(intents[k].state, target)
  <2>1. intents' = [intents EXCEPT ![k] = new]
    BY <1>3 DEF RecordObservation, JournalTypeOK
  <2> QED BY <1>1, <1>2, <1>3, <2>1 DEF JournalTypeOK, RecordObservation
<1>4. CASE ~MayAdvance(intents[k].state, target)
  BY <1>4 DEF JournalTypeOK, RecordObservation, journalVars
<1> QED BY <1>3, <1>4

(***************************************************************************)
(* Type correctness, one step per action.                                  *)
(***************************************************************************)

\* What a handler's own step does to the type of its slot.
LEMMA GotoType ==
  ASSUME req \in [Requests -> Handler \cup {Idle}],
         NEW r \in Requests, req[r].pc # "idle",
         NEW step \in Steps, Goto(r, step)
  PROVE  req' \in [Requests -> Handler \cup {Idle}]
<1>1. [req[r] EXCEPT !.pc = step] \in Handler
  BY HandlerType DEF Handler
<1> QED BY <1>1 DEF Goto

LEMMA RejectType ==
  ASSUME req \in [Requests -> Handler \cup {Idle}],
         NEW r \in Requests, Reject(r)
  PROVE  req' \in [Requests -> Handler \cup {Idle}]
BY DEF Reject

LEMMA FaultsType ==
  ASSUME faults \in 0..MaxFaults, Fault \/ NoFault
  PROVE  faults' \in 0..MaxFaults
BY FaultsAssumption DEF Fault, NoFault

LEMMA ObservationTargetType ==
  ASSUME NEW view \in Views, NEW independent \in BOOLEAN
  PROVE  IF view = "pending" THEN ObservationTarget(view, independent) = "none"
                             ELSE ObservationTarget(view, independent) \in Terminal
BY DEF ObservationTarget, Verdict, Terminal, Views

LEMMA HandleType ==
  ASSUME TypeOK, SubmissionInvariant, NEW r \in Requests,
         Submit(r) \/ Handle(r)
  PROVE  TypeOK'
<1> USE DEF TypeOK
<1> DEFINE q == req[r]
<1>0. req[r].pc # "idle" => req[r] \in Handler
  BY HandlerType
<1>1. CASE Submit(r)
  <2>1. PICK k \in Keys, p \in Principals, b \in Bodies,
             f \in Flows \cup {NoFlow} : Start(r, k, p, b, f)
    BY <1>1 DEF Submit
  <2>2. req' \in [Requests -> Handler \cup {Idle}]
    BY <2>1 DEF Start, Handler, Steps
  <2> QED BY <2>1, <2>2, FaultsType
       DEF Start, HubTypeOK, JournalTypeOK, hubVars, journalVars
<1>2. CASE ReadPrior(r)
  <2>1. q \in Handler
    BY <1>0, <1>2 DEF ReadPrior, At
  <2>2. /\ q.key \in Keys /\ q.flow \in Flows \cup {NoFlow}
        /\ ReadRetry(q.key, q.principal, q.body, r, q.flow)
    BY <1>2, <2>1 DEF ReadPrior, Handler
  <2>3. JournalTypeOK'
    BY <2>2, ReadRetryType
  <2>4. req' \in [Requests -> Handler \cup {Idle}]
    <3>1. Exists(q.key) => intents[q.key] \in Intent
      BY <2>2, RowType
    <3>2. CASE ~Exists(q.key)
      <4>1. [q EXCEPT !.pc = "simulate"] \in Handler
        BY <2>1 DEF Handler, Steps
      <4> QED BY <1>2, <3>2, <4>1 DEF ReadPrior
    <3> DEFINE i == intents[q.key]
    <3>3. CASE Exists(q.key) /\ i.acceptance # NoAcceptance
      <4> DEFINE a == [q EXCEPT !.pc = "done"]
                 c == [a EXCEPT !.accepted = i.acceptance]
                 d == [c EXCEPT !.simulation = i.simulation]
      <4>1. a \in Handler
        BY <2>1 DEF Handler, Steps
      <4> HIDE DEF a
      <4>2. c \in Handler
        BY <3>1, <3>3, <4>1 DEF Handler, Intent
      <4> HIDE DEF c
      <4>3. d \in Handler
        BY <3>1, <3>3, <4>2 DEF Handler, Intent
      <4>4. req' = [req EXCEPT ![r] = d]
        BY <1>2, <3>3 DEF ReadPrior, c, a
      <4> QED BY <4>3, <4>4
    <3>4. CASE Exists(q.key) /\ i.acceptance = NoAcceptance
      <4> DEFINE a == [q EXCEPT !.pc = "recheck"]
                 c == [a EXCEPT !.simulation = i.simulation]
      <4>1. a \in Handler
        BY <2>1 DEF Handler, Steps
      <4> HIDE DEF a
      <4>2. c \in Handler
        BY <3>1, <3>4, <4>1 DEF Handler, Intent
      <4>3. req' = [req EXCEPT ![r] = c]
        BY <1>2, <3>4 DEF ReadPrior, a
      <4> QED BY <4>2, <4>3
    <3> QED BY <3>2, <3>3, <3>4
  <2> QED BY <1>2, <2>3, <2>4, FaultsType
       DEF ReadPrior, HubTypeOK, hubVars
<1>3. CASE Simulate(r)
  <2>1. q \in Handler
    BY <1>0, <1>3 DEF Simulate, At
  <2>2. PICK s \in Simulations :
          req' = [req EXCEPT ![r].pc = "prepare", ![r].simulation = s]
    BY <1>3 DEF Simulate
  <2> DEFINE a == [q EXCEPT !.pc = "prepare"]
             c == [a EXCEPT !.simulation = s]
  <2>3. a \in Handler
    BY <2>1 DEF Handler, Steps
  <2>4. req' = [req EXCEPT ![r] = c]
    BY <2>2
  <2> HIDE DEF a
  <2>5. c \in Handler
    BY <2>3 DEF Handler
  <2> QED BY <1>3, <2>4, <2>5, FaultsType
       DEF Simulate, HubTypeOK, JournalTypeOK, hubVars, journalVars
<1>4. CASE PrepareIntent(r)
  <2>1. q \in Handler
    BY <1>0, <1>4 DEF PrepareIntent, At
  <2>2. /\ q.key \in Keys /\ q.flow \in Flows \cup {NoFlow}
        /\ q.principal \in Principals /\ q.body \in Bodies
        /\ q.simulation \in Simulations
    BY <1>4, <2>1 DEF PrepareIntent, Handler, SubmissionInvariant, HandlerOK, At
  <2>3. JournalTypeOK'
    BY <1>4, <2>2, PrepareType DEF PrepareIntent
  <2>4. req' \in [Requests -> Handler \cup {Idle}]
    BY <1>4, GotoType, RejectType DEF PrepareIntent, At, Steps
  <2> QED BY <1>4, <2>3, <2>4, FaultsType
       DEF PrepareIntent, HubTypeOK, hubVars
<1>5. CASE PostAnswered(r)
  <2>1. q \in Handler
    BY <1>0, <1>5 DEF PostAnswered, At
  <2>2. /\ q.key \in Keys /\ q.principal \in Principals /\ q.body \in Bodies
    BY <2>1 DEF Handler
  <2>3. PICK e \in Executions, replay \in BOOLEAN :
          /\ req' = [req EXCEPT ![r].pc = "accept",
                                ![r].accepted = [id |-> e, replay |-> replay]]
          /\ OpenJob(q.key, q.body, q.principal, e) \/ UNCHANGED hubVars
    BY <1>5, <2>2 DEF PostAnswered, HubTypeOK
  <2>4. HubTypeOK'
    BY <2>2, <2>3, OpenJobType DEF HubTypeOK, hubVars
  <2> DEFINE a == [q EXCEPT !.pc = "accept"]
             c == [a EXCEPT !.accepted = [id |-> e, replay |-> replay]]
  <2>5. a \in Handler
    BY <2>1 DEF Handler, Steps
  <2>6. req' = [req EXCEPT ![r] = c]
    BY <2>3
  <2> HIDE DEF a
  <2>7. c \in Handler
    BY <2>5 DEF Handler, Acceptances
  <2> QED BY <1>5, <2>4, <2>6, <2>7, FaultsType
       DEF PostAnswered, JournalTypeOK, journalVars
<1>6. CASE PostFails(r)
  <2>1. q \in Handler
    BY <1>0, <1>6 DEF PostFails, At
  <2>2. HubTypeOK'
    BY <1>6, <2>1, OpenJobType DEF PostFails, Handler, HubTypeOK, hubVars
  <2> QED BY <1>6, <2>2, RejectType, FaultsType
       DEF PostFails, JournalTypeOK, journalVars
<1>7. CASE PersistAcceptance(r)
  <2>1. q \in Handler /\ q.accepted \in Acceptances
    BY <1>0, <1>7 DEF PersistAcceptance, At, SubmissionInvariant, HandlerOK
  <2>2. JournalTypeOK'
    BY <1>7, <2>1, RecordAcceptanceType DEF PersistAcceptance, Handler
  <2> QED BY <1>7, <2>2, GotoType, FaultsType
       DEF PersistAcceptance, At, Steps, HubTypeOK, hubVars
<1>8. CASE Lapse(r)
  <2>1. q \in Handler
    BY <1>0, <1>8 DEF Lapse
  <2>2. [q EXCEPT !.lapsed = TRUE] \in Handler
    BY <2>1 DEF Handler
  <2> QED BY <1>8, <2>2, FaultsType
       DEF Lapse, HubTypeOK, JournalTypeOK, hubVars, journalVars
<1>9. CASE \/ ReadRefused(r) \/ SimulationReverts(r) \/ PrepareRefused(r)
           \/ Recheck(r) \/ RecheckRefused(r) \/ AcceptanceRefused(r)
           \/ Crash(r)
  <2>1. Reject(r) \/ (At(r, "recheck") /\ Goto(r, "post"))
    BY <1>9 DEF ReadRefused, SimulationReverts, PrepareRefused, Recheck,
                RecheckRefused, AcceptanceRefused, Crash
  <2>2. req' \in [Requests -> Handler \cup {Idle}]
    BY <2>1, GotoType, RejectType DEF At, Steps
  <2>3. (Fault \/ NoFault) /\ UNCHANGED <<hubVars, journalVars, watch>>
    BY <1>9 DEF ReadRefused, SimulationReverts, PrepareRefused, Recheck,
                RecheckRefused, AcceptanceRefused, Crash
  <2> QED BY <2>2, <2>3, FaultsType DEF HubTypeOK, JournalTypeOK, hubVars, journalVars
<1> QED BY <1>1, <1>2, <1>3, <1>4, <1>5, <1>6, <1>7, <1>8, <1>9 DEF Handle

LEMMA ObserveType ==
  ASSUME TypeOK, SubmissionInvariant, NEW o \in Observers, Observe(o)
  PROVE  TypeOK'
<1> USE DEF TypeOK
<1>1. ASSUME NEW k \in Keys, NEW authority, NEW view \in Views,
             NEW independent \in BOOLEAN, Poll(o, k, authority, view, independent)
      PROVE  TypeOK'
  <2>1. [pc |-> "record", key |-> k, view |-> view,
         independent |-> independent] \in Watcher
         \/ view = "pending"
    BY DEF Watcher
  <2>2. view = "pending" => ObservationTarget(view, independent) = "none"
    BY ObservationTargetType
  <2> QED BY <1>1, <2>1, <2>2, FaultsType
       DEF Poll, HubTypeOK, JournalTypeOK, hubVars, journalVars
<1>2. CASE RecordPoll(o)
  <2> DEFINE w == watch[o]
             target == ObservationTarget(w.view, w.independent)
  <2>1. w \in Watcher
    BY <1>2, WatcherType DEF RecordPoll
  <2>2. Exists(w.key) /\ w.key \in Keys
    BY <1>2, <2>1, ExecutionType
       DEF RecordPoll, SubmissionInvariant, ObservationOK, Watcher
  <2>3. CASE UNCHANGED journalVars
    BY <1>2, <2>3, FaultsType DEF RecordPoll, HubTypeOK, JournalTypeOK, hubVars, journalVars
  <2>4. CASE EvidenceSupports(target, w.view, w.independent)
               /\ RecordObservation(w.key, target)
    <3>1. target \in Terminal
        BY <2>1, ObservationTargetType DEF Watcher
    <3>2. JournalTypeOK'
      BY <2>2, <2>4, <3>1, RecordObservationType
    <3> QED BY <1>2, <3>2, FaultsType DEF RecordPoll, HubTypeOK, hubVars
  <2> QED BY <1>2, <2>3, <2>4 DEF RecordPoll
<1>3. CASE CrashPoll(o)
  BY <1>3, FaultsType DEF CrashPoll, HubTypeOK, JournalTypeOK, hubVars, journalVars
<1> QED BY <1>1, <1>2, <1>3 DEF Observe

LEMMA TypeStep ==
  ASSUME TypeOK, SubmissionInvariant, [Next]_vars
  PROVE  TypeOK'
<1>1. CASE Environment
  BY <1>1, HubStepType DEF TypeOK, JournalTypeOK, Environment, journalVars
<1>2. CASE UNCHANGED vars
  BY <1>2 DEF vars, TypeOK, HubTypeOK, JournalTypeOK
<1> QED BY <1>1, <1>2, HandleType, ObserveType DEF Next

(***************************************************************************)
(* What no step of anybody takes back: JournalKeeps is the body of         *)
(* JournalMonotone, HubKeeps its counterpart for jobs and the chain.       *)
(***************************************************************************)
JournalKeeps ==
  \A k \in Keys :
    Exists(k) =>
      /\ Exists(k)'
      /\ intents'[k].principal = intents[k].principal
      /\ intents'[k].body = intents[k].body
      /\ intents'[k].simulation = intents[k].simulation
      /\ intents'[k].revision >= intents[k].revision
      /\ intents[k].acceptance # NoAcceptance =>
           intents'[k].acceptance = intents[k].acceptance
      /\ intents[k].state \in {"verified_settled", "failed"} =>
           intents'[k].state = intents[k].state

HubKeeps ==
  \A e \in Executions :
    ~Unused(e) =>
      /\ ~Unused(e)'
      /\ jobs'[e].key = jobs[e].key
      /\ jobs'[e].principal = jobs[e].principal
      /\ jobs'[e].body = jobs[e].body
      /\ jobs[e].tx = "success" => jobs'[e].tx = "success"
      /\ Dead(e) => Dead(e)'

LEMMA ReadRetryKeeps ==
  ASSUME JournalTypeOK, NEW k \in Keys, NEW p, NEW b, NEW a \in Requests,
         NEW f \in Flows \cup {NoFlow}, ReadRetry(k, p, b, a, f)
  PROVE  /\ JournalKeeps
         /\ \A j \in Keys : /\ Exists(j) <=> Exists(j)'
                            /\ Exists(j) =>
                                 /\ intents'[j].state = intents[j].state
                                 /\ intents'[j].revision = intents[j].revision
                                 /\ intents'[j].acceptance = intents[j].acceptance
<1> DEFINE Keeps(i, n) ==
      /\ n.principal = i.principal /\ n.body = i.body
      /\ n.simulation = i.simulation /\ n.acceptance = i.acceptance
      /\ n.state = i.state /\ n.revision = i.revision
<1>1. ASSUME Exists(k) PROVE Keeps(intents[k], intents'[k])
  <2> DEFINE i == intents[k]
             n == Renewed(i, a)
  <2>1. i \in Intent
    BY <1>1, RowType
  <2>2. n \in Intent /\ Keeps(i, n)
    BY <2>1 DEF Renewed, Intent
  <2> HIDE DEF n
  <2>3. Keeps(i, Attached(n, f))
    BY <2>2 DEF Attached, Intent
  <2>4. intents'[k] = Attached(n, f)
    BY <1>1 DEF ReadRetry, JournalTypeOK, n
  <2> QED BY <2>3, <2>4
<1>2. \A j \in Keys : (j # k \/ ~Exists(k)) => intents'[j] = intents[j]
  BY DEF ReadRetry, JournalTypeOK
<1>3. \A j \in Keys : Exists(j) => /\ Keeps(intents[j], intents'[j])
                                   /\ intents[j].revision \in Nat
  BY <1>1, <1>2, RowType DEF Intent
<1>4. \A j \in Keys : ~Exists(j) => intents'[j] = intents[j]
  BY <1>2
<1> QED BY <1>3, <1>4 DEF JournalKeeps, Exists

LEMMA PrepareKeeps ==
  ASSUME JournalTypeOK, NEW k \in Keys, NEW p \in Principals, NEW b \in Bodies,
         NEW a \in Requests, NEW s \in Simulations,
         NEW f \in Flows \cup {NoFlow}, Prepare(k, p, b, a, s, f)
  PROVE  /\ JournalKeeps
         /\ Exists(k)' /\ intents'[k].principal = p /\ intents'[k].body = b
         /\ Exists(k) => /\ intents'[k].state = intents[k].state
                         /\ intents'[k].revision = intents[k].revision
                         /\ intents'[k].acceptance = intents[k].acceptance
         /\ ~Exists(k) => /\ intents'[k].state = "prepared"
                          /\ intents'[k].revision = 1
                          /\ intents'[k].acceptance = NoAcceptance
         /\ \A j \in Keys : j # k => intents'[j] = intents[j]
<1> DEFINE row == PreparedRow(k, p, b, a, s, f)
           att == Attached(row, f)
           new == Renewed(att, a)
           Keeps(i, n) ==
             /\ n.principal = i.principal /\ n.body = i.body
             /\ n.simulation = i.simulation /\ n.acceptance = i.acceptance
             /\ n.state = i.state /\ n.revision = i.revision
<1>1. row \in Intent
  BY RowType DEF PreparedRow, Intent, IntentStates
<1>2. row.principal = p /\ row.body = b
  BY DEF PreparedRow, Prepare, PrepareConflict, Binds
<1>3. /\ Exists(k) => row = intents[k]
      /\ ~Exists(k) => /\ row.state = "prepared" /\ row.revision = 1
                       /\ row.acceptance = NoAcceptance
  BY DEF PreparedRow
<1>4. intents'[k] = new
  BY DEF Prepare, JournalTypeOK
<1>5. \A j \in Keys : j # k => intents'[j] = intents[j]
  BY DEF Prepare, JournalTypeOK
<1> HIDE DEF row
<1>6. att \in Intent /\ Keeps(row, att)
  BY <1>1 DEF Attached, Intent
<1> HIDE DEF att
<1>7. new \in Intent /\ Keeps(att, new)
  BY <1>6 DEF Renewed, Intent
<1>8. Keeps(row, intents'[k]) /\ intents'[k] \in Intent
  BY <1>4, <1>6, <1>7
<1>9. Exists(k)'
  BY <1>8 DEF Exists, Intent, IntentStates, Terminal
<1>10. \A j \in Keys : Exists(j) => intents[j].revision \in Nat
  BY RowType DEF Intent
<1> QED BY <1>2, <1>3, <1>5, <1>8, <1>9, <1>10 DEF JournalKeeps, Exists

LEMMA RecordAcceptanceKeeps ==
  ASSUME JournalTypeOK, \A j \in Keys : RowOK(j),
         NEW k \in Keys, NEW p, NEW b, NEW acc \in Acceptances,
         RecordAcceptance(k, p, b, acc)
  PROVE  /\ JournalKeeps
         /\ Exists(k) /\ intents'[k].acceptance = acc
         /\ \/ /\ intents[k].state = "prepared"
               /\ intents'[k].state = "accepted" /\ intents'[k].revision = 2
            \/ intents'[k] = intents[k]
         /\ \A j \in Keys : j # k => intents'[j] = intents[j]
<1>1. Exists(k) /\ intents[k] \in Intent
  BY RowType DEF RecordAcceptance, AcceptanceConflict
<1>2. \A j \in Keys : Exists(j) => intents[j].revision \in Nat
  BY RowType DEF Intent
<1>3. CASE intents[k].state = "prepared"
  <2>1. /\ intents'[k].acceptance = acc /\ intents'[k].state = "accepted"
        /\ intents'[k].principal = intents[k].principal
        /\ intents'[k].body = intents[k].body
        /\ intents'[k].simulation = intents[k].simulation
        /\ intents'[k].revision = 2
    BY <1>1, <1>3 DEF RecordAcceptance, JournalTypeOK, Intent
  <2>2. intents[k].acceptance = NoAcceptance /\ intents[k].revision = 1
    BY <1>1, <1>3 DEF RowOK, RevisionAllows, Terminal
  <2>3. \A j \in Keys : j # k => intents'[j] = intents[j]
    BY <1>3 DEF RecordAcceptance, JournalTypeOK
  <2> QED BY <1>1, <1>2, <1>3, <2>1, <2>2, <2>3 DEF JournalKeeps, Exists
<1>4. CASE intents[k].state # "prepared"
  <2>1. intents' = intents /\ intents[k].acceptance = acc
    BY <1>1, <1>4 DEF RecordAcceptance, AcceptanceConflict, journalVars
  <2> QED BY <1>1, <1>2, <2>1 DEF JournalKeeps, Exists
<1> QED BY <1>3, <1>4

LEMMA RecordObservationKeeps ==
  ASSUME JournalTypeOK, \A j \in Keys : RowOK(j),
         NEW k \in Keys, NEW target \in Terminal, Exists(k),
         RecordObservation(k, target)
  PROVE  /\ JournalKeeps
         /\ intents'[k].acceptance = intents[k].acceptance
         /\ Exists(k)'
         /\ \/ /\ MayAdvance(intents[k].state, target)
               /\ intents'[k].state = target
               /\ intents'[k].revision = IF intents[k].state = "accepted"
                                         THEN 3 ELSE 4
            \/ intents'[k] = intents[k]
         /\ \A j \in Keys : j # k => intents'[j] = intents[j]
<1>1. intents[k] \in Intent
  BY RowType
<1>2. \A j \in Keys : Exists(j) => intents[j].revision \in Nat
  BY RowType DEF Intent
<1>3. CASE MayAdvance(intents[k].state, target)
  <2> DEFINE rev == IF intents[k].state = "accepted" THEN 3 ELSE 4
  <2>1. /\ intents'[k].state = target
        /\ intents'[k].acceptance = intents[k].acceptance
        /\ intents'[k].principal = intents[k].principal
        /\ intents'[k].body = intents[k].body
        /\ intents'[k].simulation = intents[k].simulation
        /\ intents'[k].revision = rev
    BY <1>1, <1>3 DEF RecordObservation, JournalTypeOK, Intent
  <2>2. intents[k].revision <= rev
    BY <1>1, <1>3 DEF MayAdvance, RowOK, RevisionAllows, Terminal
  <2>3. intents[k].state \notin {"verified_settled", "failed"}
    BY <1>3 DEF MayAdvance
  <2>4. \A j \in Keys : j # k => intents'[j] = intents[j]
    BY <1>3 DEF RecordObservation, JournalTypeOK
  <2>5. Exists(k)'
    BY <2>1 DEF Exists, Terminal
  <2> QED BY <1>2, <1>3, <2>1, <2>2, <2>3, <2>4, <2>5 DEF JournalKeeps, Exists
<1>4. CASE ~MayAdvance(intents[k].state, target)
  <2>1. intents' = intents
    BY <1>4 DEF RecordObservation, journalVars
  <2> QED BY <1>1, <1>2, <2>1 DEF JournalKeeps, Exists
<1> QED BY <1>3, <1>4

LEMMA OpenJobKeeps ==
  ASSUME HubTypeOK, NEW k \in Keys, NEW b \in Bodies, NEW p \in Principals,
         NEW e \in Executions, OpenJob(k, b, p, e)
  PROVE  /\ HubKeeps
         /\ jobs'[e] = [status |-> "pending", tx |-> "none",
                        key |-> k, body |-> b, principal |-> p]
         /\ Unused(e)
         /\ \A d \in Executions : d # e => jobs'[d] = jobs[d]
BY DEF HubTypeOK, OpenJob, HubKeeps, Unused, Dead

LEMMA HubStepKeeps ==
  ASSUME HubTypeOK, HubStep
  PROVE  HubKeeps
<1>1. ASSUME NEW k \in Keys, ForgetKey(k) \/ SettleElsewhere(k)
      PROVE  HubKeeps
  BY <1>1 DEF ForgetKey, SettleElsewhere, HubKeeps, Unused, Dead
<1>2. ASSUME NEW e \in Executions, Settle(e) \/ Revert(e) \/ Complete(e) \/ Fail(e)
      PROVE  HubKeeps
  <2>1. jobs[e] \in Job
    BY <1>2, JobType DEF Unused, Settle, Revert, Complete, Fail
  <2>2. \A d \in Executions : d # e => jobs'[d] = jobs[d]
    BY <1>2 DEF HubTypeOK, Settle, Revert, Complete, Fail
  <2>3. /\ jobs'[e].key = jobs[e].key
        /\ jobs'[e].principal = jobs[e].principal
        /\ jobs'[e].body = jobs[e].body
        /\ jobs'[e].status # "unused"
        /\ jobs[e].tx = "success" => jobs'[e].tx = "success"
        /\ Dead(e) => Dead(e)'
    BY <1>2, <2>1 DEF HubTypeOK, Settle, Revert, Complete, Fail, Job, Dead
  <2> QED BY <2>2, <2>3 DEF HubKeeps, Unused, Dead
<1> QED BY <1>1, <1>2 DEF HubStep

(***************************************************************************)
(* Frames: what each part of the invariant needs to survive a step of      *)
(* somebody else.                                                          *)
(***************************************************************************)
LEMMA HandlerFrame ==
  ASSUME TypeOK, SubmissionInvariant, JournalKeeps, HubKeeps,
         NEW r \in Requests, req'[r] = req[r]
  PROVE  HandlerOK(r)'
<1> DEFINE q == req[r]
<1>1. HandlerOK(r)
  BY DEF SubmissionInvariant
<1>2. q.pc # "idle" => q.key \in Keys
  BY HandlerType DEF TypeOK, Handler
<1>3. At(r, "accept") => q.accepted.id \in Executions
  BY <1>1 DEF HandlerOK, Acceptances
<1> QED BY <1>1, <1>2, <1>3 DEF HandlerOK, JournalKeeps, HubKeeps, At, JobOf

LEMMA RowFrame ==
  ASSUME JournalTypeOK, HubKeeps, NEW k \in Keys, RowOK(k), Exists(k),
         intents'[k].state = intents[k].state,
         intents'[k].revision = intents[k].revision,
         intents'[k].acceptance = intents[k].acceptance
  PROVE  RowOK(k)'
<1>1. Exists(k)' /\ ExecutionOf(k)' = ExecutionOf(k)
  BY DEF Exists, ExecutionOf
<1>2. RevisionAllows(intents[k])'
  BY DEF RowOK, RevisionAllows
<1>3. ExecutionOf(k) # NoExecution => ExecutionOf(k) \in Executions
  BY ExecutionType
<1>4. intents[k].state \in {"verified_settled", "failed"} =>
        ExecutionOf(k) # NoExecution
  BY RowType, DomainAssumption
     DEF RowOK, RevisionAllows, Intent, Acceptances, ExecutionOf
<1> QED BY <1>1, <1>2, <1>3, <1>4 DEF RowOK, HubKeeps, JobOf

LEMMA RowUnchanged ==
  ASSUME JournalTypeOK, HubKeeps, NEW k \in Keys, RowOK(k),
         intents'[k] = intents[k]
  PROVE  RowOK(k)'
BY RowFrame DEF RowOK, Exists

LEMMA ObservationFrame ==
  ASSUME TypeOK, SubmissionInvariant, JournalKeeps, HubKeeps,
         NEW o \in Observers, watch'[o] = watch[o]
  PROVE  ObservationOK(o)'
<1> DEFINE w == watch[o]
<1> SUFFICES ASSUME w.pc = "record"
             PROVE  ObservationOK(o)'
  BY DEF ObservationOK
<1>1. ObservationOK(o)
  BY DEF SubmissionInvariant
<1>2. w.key \in Keys
  BY WatcherType DEF TypeOK, Watcher
<1>3. ExecutionOf(w.key) \in Executions /\ Exists(w.key)
      /\ intents[w.key].acceptance # NoAcceptance
  BY <1>1, <1>2, ExecutionType DEF ObservationOK, TypeOK, ExecutionOf, NoAcceptance
<1>4. ExecutionOf(w.key)' = ExecutionOf(w.key)
  BY <1>2, <1>3 DEF JournalKeeps, ExecutionOf
<1>5. RowOK(w.key) /\ ExecutionOf(w.key) # NoExecution
  BY <1>1, <1>2 DEF SubmissionInvariant, ObservationOK
<1>6. ~Unused(ExecutionOf(w.key))
  BY <1>3, <1>5 DEF RowOK, JobOf
<1> QED BY <1>1, <1>3, <1>4, <1>6 DEF ObservationOK, HubKeeps

LEMMA JobFrame ==
  ASSUME TypeOK, SubmissionInvariant, JournalKeeps,
         NEW e \in Executions, jobs'[e] = jobs[e],
         settled' = settled, keyed' = keyed
  PROVE  JobOK(e)'
<1>1. JobOK(e)
  BY DEF SubmissionInvariant
<1>2. ~Unused(e) => jobs[e].key \in Keys
  BY JobType DEF TypeOK, Job
<1> QED BY <1>1, <1>2 DEF JobOK, JournalKeeps, Unused

LEMMA KeyFrame ==
  ASSUME TypeOK, HubKeeps, NEW k \in Keys, KeyOK(k),
         keyed'[k] = keyed[k], settled'[k] = settled[k]
  PROVE  KeyOK(k)'
<1>1. keyed[k] # NoExecution => keyed[k] \in Executions
  BY DEF TypeOK, HubTypeOK
<1>2. \A e \in Executions : JobOf(k, e) => JobOf(k, e)'
  BY DEF HubKeeps, JobOf
<1> QED BY <1>1, <1>2 DEF KeyOK, HubKeeps, JobOf

\* A step that leaves KeeperHub and the chain alone.
LEMMA HubUnchanged ==
  ASSUME TypeOK, SubmissionInvariant, JournalKeeps, UNCHANGED hubVars
  PROVE  /\ HubKeeps
         /\ \A k \in Keys : KeyOK(k)'
         /\ \A e \in Executions : JobOK(e)'
<1>1. HubKeeps
  BY DEF HubKeeps, hubVars, Unused, Dead
<1> QED BY <1>1, KeyFrame, JobFrame DEF hubVars, SubmissionInvariant

\* A step that leaves the journal alone.
LEMMA JournalUnchanged ==
  ASSUME TypeOK, SubmissionInvariant, HubKeeps, UNCHANGED journalVars
  PROVE  /\ JournalKeeps
         /\ \A k \in Keys : RowOK(k)'
<1>1. \A k \in Keys : Exists(k) => intents[k].revision \in Nat
  BY RowType DEF TypeOK, Intent
<1>2. JournalKeeps
  BY <1>1 DEF JournalKeeps, journalVars, Exists
<1> QED BY <1>2, RowUnchanged DEF journalVars, SubmissionInvariant, TypeOK

(***************************************************************************)
(* The invariant, one step per action.                                     *)
(***************************************************************************)
LEMMA SlotStep ==
  ASSUME TypeOK, SubmissionInvariant, JournalKeeps, HubKeeps,
         NEW r \in Requests, \A s \in Requests \ {r} : req'[s] = req[s],
         HandlerOK(r)', UNCHANGED watch,
         \A k \in Keys : RowOK(k)' /\ KeyOK(k)',
         \A e \in Executions : JobOK(e)'
  PROVE  SubmissionInvariant'
<1>1. \A s \in Requests : HandlerOK(s)'
  BY HandlerFrame
<1>2. \A o \in Observers : ObservationOK(o)'
  BY ObservationFrame
<1> QED BY <1>1, <1>2 DEF SubmissionInvariant

\* A step that changes nothing but the handler's own locals.
LEMMA LocalStep ==
  ASSUME TypeOK, SubmissionInvariant, UNCHANGED <<hubVars, journalVars, watch>>,
         NEW r \in Requests, \A s \in Requests \ {r} : req'[s] = req[s],
         HandlerOK(r)'
  PROVE  SubmissionInvariant'
<1>1. HubKeeps
  BY DEF HubKeeps, hubVars, Unused, Dead
<1>2. JournalKeeps /\ \A k \in Keys : RowOK(k)'
  BY <1>1, JournalUnchanged
<1>3. (\A k \in Keys : KeyOK(k)') /\ (\A e \in Executions : JobOK(e)')
  BY <1>2, HubUnchanged
<1> QED BY <1>1, <1>2, <1>3, SlotStep

LEMMA RejectedOK ==
  ASSUME TypeOK, NEW r \in Requests, Reject(r)
  PROVE  /\ HandlerOK(r)'
         /\ \A s \in Requests \ {r} : req'[s] = req[s]
<1>1. req'[r].pc = "idle"
  BY DEF TypeOK, Reject, Idle
<1> QED BY <1>1 DEF TypeOK, Reject, HandlerOK, At

LEMMA LocalKeeps ==
  ASSUME TypeOK, SubmissionInvariant, UNCHANGED <<hubVars, journalVars>>
  PROVE  JournalKeeps
<1>1. HubKeeps
  BY DEF HubKeeps, hubVars, Unused, Dead
<1> QED BY <1>1, JournalUnchanged

LEMMA StartKeeps ==
  ASSUME TypeOK, SubmissionInvariant, NEW r \in Requests, Submit(r)
  PROVE  SubmissionInvariant'
<1>1. req'[r].pc = "read" /\ \A s \in Requests \ {r} : req'[s] = req[s]
  BY DEF Submit, Start, TypeOK
<1>2. HandlerOK(r)'
  BY <1>1 DEF HandlerOK, At
<1>3. UNCHANGED <<hubVars, journalVars, watch>>
  BY DEF Submit, Start
<1> QED BY <1>1, <1>2, <1>3, LocalStep

LEMMA ReadPriorKeeps ==
  ASSUME TypeOK, SubmissionInvariant, NEW r \in Requests, ReadPrior(r)
  PROVE  SubmissionInvariant' /\ JournalKeeps
<1> DEFINE q == req[r]
<1> SUFFICES ASSUME NEW k, k = req[r].key
             PROVE  SubmissionInvariant' /\ JournalKeeps
  OBVIOUS
<1>1. q \in Handler
  BY HandlerType DEF TypeOK, ReadPrior, At
<1>2. k \in Keys /\ q.flow \in Flows \cup {NoFlow}
      /\ ReadRetry(k, q.principal, q.body, r, q.flow)
  BY <1>1 DEF ReadPrior, Handler
<1>3. /\ JournalKeeps
      /\ \A j \in Keys : /\ Exists(j) <=> Exists(j)'
                         /\ Exists(j) =>
                              /\ intents'[j].state = intents[j].state
                              /\ intents'[j].revision = intents[j].revision
                              /\ intents'[j].acceptance = intents[j].acceptance
  BY <1>2, ReadRetryKeeps DEF TypeOK
<1>4. UNCHANGED <<hubVars, watch>>
  BY DEF ReadPrior
<1>5. HubKeeps /\ (\A j \in Keys : KeyOK(j)') /\ (\A e \in Executions : JobOK(e)')
  BY <1>3, <1>4, HubUnchanged
<1>6. \A j \in Keys : RowOK(j)'
  <2> SUFFICES ASSUME NEW j \in Keys, Exists(j)
               PROVE  RowOK(j)'
    BY <1>3 DEF RowOK
  <2> QED BY <1>3, <1>5, RowFrame DEF SubmissionInvariant, TypeOK
<1>7. \A s \in Requests \ {r} : req'[s] = req[s]
  BY DEF ReadPrior, TypeOK
<1>8. HandlerOK(r)'
  <2>1. CASE ~Exists(k)
    <3>1. req'[r].pc = "simulate"
      BY <1>1, <2>1 DEF ReadPrior, TypeOK, Handler
    <3> QED BY <3>1 DEF HandlerOK, At
  <2>2. CASE Exists(k)
    <3>1. Binds(intents[k], q.principal, q.body, q.flow)
      BY <1>2, <2>2 DEF ReadRetry, RetryConflict
    <3>2. /\ req'[r].key = k /\ req'[r].principal = q.principal
          /\ req'[r].body = q.body
          /\ \/ req'[r].pc = "recheck"
             \/ /\ req'[r].pc = "done"
                /\ intents[k].acceptance # NoAcceptance
                /\ req'[r].accepted = intents[k].acceptance
      BY <1>1, <2>2 DEF ReadPrior, TypeOK, Handler
    <3>3. /\ Exists(k)' /\ intents'[k].principal = q.principal
          /\ intents'[k].body = q.body
          /\ intents'[k].acceptance = intents[k].acceptance
      <4>1. intents[k].principal = q.principal /\ intents[k].body = q.body
        BY <3>1 DEF Binds
      <4>2. intents'[k].acceptance = intents[k].acceptance
        BY <1>2, <1>3, <2>2
      <4>3. /\ Exists(k)' /\ intents'[k].principal = intents[k].principal
            /\ intents'[k].body = intents[k].body
        BY <1>2, <1>3, <2>2 DEF JournalKeeps
      <4> QED BY <4>1, <4>2, <4>3
    <3> QED BY <3>2, <3>3 DEF HandlerOK, At
  <2> QED BY <2>1, <2>2
<1> QED BY <1>3, <1>4, <1>5, <1>6, <1>7, <1>8, SlotStep

LEMMA SimulateKeeps ==
  ASSUME TypeOK, SubmissionInvariant, NEW r \in Requests, Simulate(r)
  PROVE  SubmissionInvariant'
<1>1. req[r] \in Handler
  BY HandlerType DEF TypeOK, Simulate, At
<1>2. /\ req'[r].pc = "prepare" /\ req'[r].simulation \in Simulations
      /\ \A s \in Requests \ {r} : req'[s] = req[s]
  BY <1>1 DEF Simulate, TypeOK, Handler
<1>3. HandlerOK(r)'
  BY <1>2 DEF HandlerOK, At
<1>4. UNCHANGED <<hubVars, journalVars, watch>>
  BY DEF Simulate
<1> QED BY <1>2, <1>3, <1>4, LocalStep

LEMMA PrepareIntentKeeps ==
  ASSUME TypeOK, SubmissionInvariant, NEW r \in Requests, PrepareIntent(r)
  PROVE  SubmissionInvariant' /\ JournalKeeps
<1> DEFINE q == req[r]
<1> SUFFICES ASSUME NEW k, k = req[r].key
             PROVE  SubmissionInvariant' /\ JournalKeeps
  OBVIOUS
<1>1. q \in Handler
  BY HandlerType DEF TypeOK, PrepareIntent, At
<1>2. /\ k \in Keys /\ q.flow \in Flows \cup {NoFlow}
      /\ q.principal \in Principals /\ q.body \in Bodies
      /\ q.simulation \in Simulations
  BY <1>1 DEF PrepareIntent, Handler, SubmissionInvariant, HandlerOK
<1>3. /\ JournalKeeps
      /\ Exists(k)' /\ intents'[k].principal = q.principal
      /\ intents'[k].body = q.body
      /\ Exists(k) => /\ intents'[k].state = intents[k].state
                      /\ intents'[k].revision = intents[k].revision
                      /\ intents'[k].acceptance = intents[k].acceptance
      /\ ~Exists(k) => /\ intents'[k].state = "prepared"
                       /\ intents'[k].revision = 1
                       /\ intents'[k].acceptance = NoAcceptance
      /\ \A j \in Keys : j # k => intents'[j] = intents[j]
  <2>1. Prepare(k, q.principal, q.body, r, q.simulation, q.flow)
    BY DEF PrepareIntent
  <2> QED BY <1>2, <2>1, PrepareKeeps DEF TypeOK
<1>4. UNCHANGED <<hubVars, watch>>
  BY DEF PrepareIntent
<1>5. HubKeeps /\ (\A j \in Keys : KeyOK(j)') /\ (\A e \in Executions : JobOK(e)')
  BY <1>3, <1>4, HubUnchanged
<1>6. \A j \in Keys : RowOK(j)'
  <2> SUFFICES ASSUME NEW j \in Keys
               PROVE  RowOK(j)'
    OBVIOUS
  <2>1. CASE j # k
    BY <1>3, <1>5, <2>1, RowUnchanged DEF SubmissionInvariant, TypeOK
  <2>2. CASE j = k /\ Exists(k)
    BY <1>3, <1>5, <2>2, RowFrame DEF SubmissionInvariant, TypeOK
  <2>3. CASE j = k /\ ~Exists(k)
    BY <1>3, <2>3 DEF RowOK, RevisionAllows, ExecutionOf, NoAcceptance
  <2> QED BY <2>1, <2>2, <2>3
<1>7. Goto(r, "recheck") \/ Reject(r)
  BY DEF PrepareIntent
<1>8. HandlerOK(r)' /\ \A s \in Requests \ {r} : req'[s] = req[s]
  <2>1. CASE Goto(r, "recheck")
    <3>1. /\ req'[r].pc = "recheck" /\ req'[r].key = k
          /\ req'[r].principal = q.principal /\ req'[r].body = q.body
          /\ \A s \in Requests \ {r} : req'[s] = req[s]
      BY <1>1, <2>1 DEF Goto, TypeOK, Handler
    <3> QED BY <1>3, <3>1 DEF HandlerOK, At
  <2>2. CASE Reject(r)
    BY <2>2, RejectedOK
  <2> QED BY <1>7, <2>1, <2>2
<1> QED BY <1>3, <1>4, <1>5, <1>6, <1>8, SlotStep

LEMMA RecheckKeeps ==
  ASSUME TypeOK, SubmissionInvariant, NEW r \in Requests, Recheck(r)
  PROVE  SubmissionInvariant'
<1> DEFINE q == req[r]
<1>1. q \in Handler
  BY HandlerType DEF TypeOK, Recheck, At
<1>2. UNCHANGED <<hubVars, journalVars, watch>>
  BY DEF Recheck
<1>3. /\ req'[r].pc = "post" /\ req'[r].key = q.key
      /\ req'[r].principal = q.principal /\ req'[r].body = q.body
      /\ \A s \in Requests \ {r} : req'[s] = req[s]
  BY <1>1 DEF Recheck, Goto, TypeOK, Handler
<1>4. /\ Exists(q.key) /\ intents[q.key].principal = q.principal
      /\ intents[q.key].body = q.body
  BY DEF SubmissionInvariant, HandlerOK, Recheck, At
<1>5. HandlerOK(r)'
  BY <1>2, <1>3, <1>4 DEF HandlerOK, At, Exists, journalVars
<1> QED BY <1>2, <1>3, <1>5, LocalStep

LEMMA LapseKeeps ==
  ASSUME TypeOK, SubmissionInvariant, NEW r \in Requests, Lapse(r)
  PROVE  SubmissionInvariant'
<1> DEFINE q == req[r]
<1>1. q \in Handler
  BY HandlerType DEF TypeOK, Lapse
<1>2. UNCHANGED <<hubVars, journalVars, watch>>
  BY DEF Lapse
<1>3. /\ req'[r].pc = q.pc /\ req'[r].key = q.key
      /\ req'[r].principal = q.principal /\ req'[r].body = q.body
      /\ req'[r].simulation = q.simulation /\ req'[r].accepted = q.accepted
      /\ \A s \in Requests \ {r} : req'[s] = req[s]
  BY <1>1 DEF Lapse, TypeOK, Handler
<1>4. HandlerOK(r)
  BY DEF SubmissionInvariant
<1>5. HandlerOK(r)'
  BY <1>2, <1>3, <1>4
     DEF HandlerOK, At, Exists, JobOf, Unused, journalVars, hubVars
<1> QED BY <1>2, <1>3, <1>5, LocalStep

\* KeeperHub takes the job of a handler that stands before the call.
LEMMA OpenJobStep ==
  ASSUME TypeOK, SubmissionInvariant, NEW r \in Requests, At(r, "post"),
         NEW e \in Executions, UNCHANGED journalVars,
         OpenJob(req[r].key, req[r].body, req[r].principal, e)
  PROVE  /\ HubKeeps /\ JournalKeeps
         /\ jobs'[e].status # "unused" /\ jobs'[e].key = req[r].key
         /\ \A k \in Keys : RowOK(k)' /\ KeyOK(k)'
         /\ \A d \in Executions : JobOK(d)'
<1> SUFFICES ASSUME NEW k, k = req[r].key,
                    NEW b, b = req[r].body, NEW p, p = req[r].principal
             PROVE  /\ HubKeeps /\ JournalKeeps
                    /\ jobs'[e].status # "unused" /\ jobs'[e].key = k
                    /\ \A j \in Keys : RowOK(j)' /\ KeyOK(j)'
                    /\ \A d \in Executions : JobOK(d)'
  OBVIOUS
<1>1. k \in Keys /\ b \in Bodies /\ p \in Principals
  BY HandlerType DEF TypeOK, Handler, At
<1>2. /\ HubKeeps /\ Unused(e)
      /\ jobs'[e] = [status |-> "pending", tx |-> "none",
                     key |-> k, body |-> b, principal |-> p]
      /\ \A d \in Executions : d # e => jobs'[d] = jobs[d]
  BY <1>1, OpenJobKeeps DEF TypeOK
<1>3. JournalKeeps /\ \A j \in Keys : RowOK(j)'
  BY <1>2, JournalUnchanged
<1>4. /\ keyed[k] = NoExecution /\ keyed'[k] = e /\ settled' = settled
      /\ \A j \in Keys : j # k => keyed'[j] = keyed[j]
  BY <1>1 DEF OpenJob, TypeOK, HubTypeOK
<1>5. ASSUME NEW j \in Keys PROVE KeyOK(j)'
  <2>1. KeyOK(j)
    BY DEF SubmissionInvariant
  <2>2. CASE j # k
    BY <1>2, <1>4, <2>1, <2>2, KeyFrame
  <2>3. CASE j = k
    <3>1. JobOf(k, e)'
      BY <1>2 DEF JobOf, Unused
    <3>2. \A d \in Executions : JobOf(k, d) /\ jobs[d].tx = "success" =>
            JobOf(k, d)' /\ jobs'[d].tx = "success"
      BY <1>2 DEF HubKeeps, JobOf
    <3> QED BY <1>4, <2>1, <2>3, <3>1, <3>2 DEF KeyOK
  <2> QED BY <2>2, <2>3
<1>6. ASSUME NEW d \in Executions PROVE JobOK(d)'
  <2>1. CASE d = e
    <3>1. /\ Exists(k) /\ intents[k].principal = p /\ intents[k].body = b
      BY DEF SubmissionInvariant, HandlerOK, At
    <3> QED BY <1>2, <1>4, <2>1, <3>1 DEF JobOK, Exists, journalVars
  <2>2. CASE d # e
    <3>1. JobOK(d)
      BY DEF SubmissionInvariant
    <3>2. ~Unused(d) => jobs[d].key \in Keys
      BY JobType DEF TypeOK, Job
    <3>3. ~Unused(d) /\ ~KeysExpire => jobs[d].key # k
      BY <1>4, <3>1, DomainAssumption DEF JobOK
    <3> QED BY <1>2, <1>4, <2>2, <3>1, <3>2, <3>3
         DEF JobOK, Unused, Exists, journalVars
  <2> QED BY <2>1, <2>2
<1> QED BY <1>2, <1>3, <1>5, <1>6

LEMMA PostAnsweredKeeps ==
  ASSUME TypeOK, SubmissionInvariant, NEW r \in Requests, PostAnswered(r)
  PROVE  SubmissionInvariant' /\ HubKeeps
<1> DEFINE q == req[r]
<1>1. /\ q \in Handler /\ q.key \in Keys /\ At(r, "post")
      /\ UNCHANGED <<journalVars, watch>>
  BY HandlerType DEF TypeOK, PostAnswered, At, Handler
<1>2. PICK e \in Executions, replay \in BOOLEAN :
        /\ req' = [req EXCEPT ![r].pc = "accept",
                              ![r].accepted = [id |-> e, replay |-> replay]]
        /\ \/ OpenJob(q.key, q.body, q.principal, e)
           \/ keyed[q.key] = e /\ UNCHANGED hubVars
  BY <1>1 DEF PostAnswered, TypeOK, HubTypeOK
<1>3. /\ req'[r].pc = "accept" /\ req'[r].accepted \in Acceptances
      /\ req'[r].key = q.key /\ req'[r].accepted.id = e
      /\ req'[r].principal = q.principal /\ req'[r].body = q.body
      /\ \A s \in Requests \ {r} : req'[s] = req[s]
  BY <1>1, <1>2 DEF TypeOK, Handler, Acceptances
<1>4. /\ Exists(q.key) /\ intents[q.key].principal = q.principal
      /\ intents[q.key].body = q.body
  BY <1>1 DEF SubmissionInvariant, HandlerOK, At
<1>5. /\ HubKeeps /\ JournalKeeps
      /\ jobs'[e].status # "unused" /\ jobs'[e].key = q.key
      /\ \A k \in Keys : RowOK(k)' /\ KeyOK(k)'
      /\ \A d \in Executions : JobOK(d)'
  <2>1. CASE OpenJob(q.key, q.body, q.principal, e)
    BY <1>1, <2>1, OpenJobStep
  <2>2. CASE keyed[q.key] = e /\ UNCHANGED hubVars
    <3>1. HubKeeps
      BY <2>2 DEF HubKeeps, hubVars, Unused, Dead
    <3>2. JournalKeeps /\ \A k \in Keys : RowOK(k)'
      BY <1>1, <3>1, JournalUnchanged
    <3>3. /\ \A k \in Keys : KeyOK(k)'
          /\ \A d \in Executions : JobOK(d)'
      BY <2>2, <3>2, HubUnchanged
    <3>4. JobOf(q.key, e)
      BY <1>1, <2>2, DomainAssumption DEF SubmissionInvariant, KeyOK
    <3> QED BY <2>2, <3>1, <3>2, <3>3, <3>4 DEF JobOf, Unused, hubVars
  <2> QED BY <1>2, <2>1, <2>2
<1>6. HandlerOK(r)'
  BY <1>1, <1>3, <1>4, <1>5 DEF HandlerOK, At, JobOf, Unused, Exists, journalVars
<1> QED BY <1>1, <1>3, <1>5, <1>6, SlotStep

LEMMA PostFailsKeeps ==
  ASSUME TypeOK, SubmissionInvariant, NEW r \in Requests, PostFails(r)
  PROVE  SubmissionInvariant' /\ HubKeeps
<1> DEFINE q == req[r]
<1>1. At(r, "post") /\ Reject(r) /\ UNCHANGED <<journalVars, watch>>
  BY DEF PostFails
<1>2. CASE UNCHANGED hubVars
  <2>1. HubKeeps
    BY <1>2 DEF HubKeeps, hubVars, Unused, Dead
  <2> QED BY <1>1, <1>2, <2>1, RejectedOK, LocalStep
<1>3. ASSUME NEW e \in Executions, OpenJob(q.key, q.body, q.principal, e)
      PROVE  SubmissionInvariant' /\ HubKeeps
  <2>1. /\ HubKeeps /\ JournalKeeps
        /\ \A k \in Keys : RowOK(k)' /\ KeyOK(k)'
        /\ \A d \in Executions : JobOK(d)'
    BY <1>1, <1>3, OpenJobStep
  <2> QED BY <1>1, <2>1, RejectedOK, SlotStep
<1> QED BY <1>2, <1>3 DEF PostFails

LEMMA PersistAcceptanceKeeps ==
  ASSUME TypeOK, SubmissionInvariant, NEW r \in Requests, PersistAcceptance(r)
  PROVE  SubmissionInvariant' /\ JournalKeeps
<1> DEFINE q == req[r]
<1> SUFFICES ASSUME NEW k, k = req[r].key, NEW acc, acc = req[r].accepted
             PROVE  SubmissionInvariant' /\ JournalKeeps
  OBVIOUS
<1>1. /\ q \in Handler /\ k \in Keys
      /\ UNCHANGED <<hubVars, watch>>
      /\ RecordAcceptance(k, q.principal, q.body, acc)
  BY HandlerType DEF TypeOK, PersistAcceptance, At, Handler
<1>2. /\ acc \in Acceptances /\ JobOf(k, acc.id)
      /\ Exists(k) /\ intents[k].principal = q.principal /\ intents[k].body = q.body
  BY DEF SubmissionInvariant, HandlerOK, PersistAcceptance, At
<1>3. /\ JournalKeeps /\ Exists(k) /\ intents'[k].acceptance = acc
      /\ \/ /\ intents[k].state = "prepared"
            /\ intents'[k].state = "accepted" /\ intents'[k].revision = 2
         \/ intents'[k] = intents[k]
      /\ \A j \in Keys : j # k => intents'[j] = intents[j]
  BY <1>1, <1>2, RecordAcceptanceKeeps DEF SubmissionInvariant, TypeOK
<1>4. HubKeeps /\ (\A j \in Keys : KeyOK(j)') /\ (\A e \in Executions : JobOK(e)')
  BY <1>1, <1>3, HubUnchanged
<1>5. acc.id \in Executions /\ acc # NoAcceptance
  BY <1>2, DomainAssumption DEF Acceptances, NoAcceptance
<1>6. \A j \in Keys : RowOK(j)'
  <2> SUFFICES ASSUME NEW j \in Keys
               PROVE  RowOK(j)'
    OBVIOUS
  <2>1. CASE intents'[j] = intents[j]
    BY <1>4, <2>1, RowUnchanged DEF SubmissionInvariant, TypeOK
  <2>2. CASE /\ j = k /\ intents'[k].state = "accepted"
             /\ intents'[k].revision = 2
    <3>1. ExecutionOf(k)' = acc.id
      BY <1>3, <2>2 DEF ExecutionOf, Exists
    <3>2. JobOf(k, acc.id)'
      BY <1>1, <1>2 DEF JobOf, Unused, hubVars
    <3> QED BY <1>3, <1>5, <2>2, <3>1, <3>2 DEF RowOK, RevisionAllows, JobOf, Unused
  <2> QED BY <1>3, <2>1, <2>2
<1>7. /\ req'[r].pc = "done" /\ req'[r].key = k /\ req'[r].accepted = acc
      /\ req'[r].principal = q.principal /\ req'[r].body = q.body
      /\ \A s \in Requests \ {r} : req'[s] = req[s]
  BY <1>1 DEF PersistAcceptance, Goto, TypeOK, Handler
<1>8. HandlerOK(r)'
  <2>1. Exists(k)' /\ intents'[k].principal = q.principal /\ intents'[k].body = q.body
    BY <1>1, <1>2, <1>3 DEF JournalKeeps
  <2> QED BY <1>3, <1>5, <1>7, <2>1 DEF HandlerOK, At
<1> QED BY <1>1, <1>3, <1>4, <1>6, <1>7, <1>8, SlotStep

\* A step of KeeperHub or the chain.
LEMMA EnvironmentKeeps ==
  ASSUME TypeOK, SubmissionInvariant, Environment
  PROVE  SubmissionInvariant' /\ HubKeeps
<1>1. HubKeeps /\ UNCHANGED <<journalVars, req, watch>>
  BY HubStepKeeps DEF Environment, TypeOK
<1>2. JournalKeeps /\ \A k \in Keys : RowOK(k)'
  BY <1>1, JournalUnchanged
<1>3. (\A r \in Requests : HandlerOK(r)') /\ (\A o \in Observers : ObservationOK(o)')
  BY <1>1, <1>2, HandlerFrame, ObservationFrame
<1>4. \A e \in Executions : JobOK(e) /\ (~Unused(e) => jobs[e].key \in Keys)
  BY JobType DEF SubmissionInvariant, TypeOK, Job
<1>5. \A k \in Keys : KeyOK(k)
  BY DEF SubmissionInvariant
<1>6. (\A k \in Keys : KeyOK(k)') /\ (\A e \in Executions : JobOK(e)')
  <2>1. ASSUME NEW k \in Keys, ForgetKey(k)
        PROVE  (\A j \in Keys : KeyOK(j)') /\ (\A e \in Executions : JobOK(e)')
    <3>1. /\ KeysExpire /\ jobs' = jobs /\ settled' = settled
          /\ \A j \in Keys : keyed'[j] \in {keyed[j], NoExecution}
      BY <2>1 DEF ForgetKey, TypeOK, HubTypeOK
    <3>2. \A j \in Keys : KeyOK(j)'
      BY <1>5, <3>1 DEF KeyOK, JobOf, Unused
    <3>3. \A e \in Executions : JobOK(e)'
      BY <1>1, <1>4, <3>1 DEF JobOK, Unused, Exists, journalVars
    <3> QED BY <3>2, <3>3
  <2>2. ASSUME NEW k \in Keys, SettleElsewhere(k)
        PROVE  (\A j \in Keys : KeyOK(j)') /\ (\A e \in Executions : JobOK(e)')
    <3>1. /\ OthersExecute /\ jobs' = jobs /\ keyed' = keyed
          /\ \A j \in Keys : settled'[j] = IF j = k THEN 1 ELSE settled[j]
      BY <2>2 DEF SettleElsewhere, MayExecute, TypeOK, HubTypeOK
    <3>2. \A j \in Keys : KeyOK(j)'
      BY <1>5, <3>1 DEF KeyOK, JobOf, Unused
    <3>3. \A e \in Executions : JobOK(e)'
      BY <1>1, <1>4, <3>1 DEF JobOK, Unused, Exists, journalVars
    <3> QED BY <3>2, <3>3
  <2>3. ASSUME NEW e \in Executions, Settle(e)
        PROVE  (\A j \in Keys : KeyOK(j)') /\ (\A d \in Executions : JobOK(d)')
    <3> SUFFICES ASSUME NEW k, k = jobs[e].key
                 PROVE  (\A j \in Keys : KeyOK(j)') /\ (\A d \in Executions : JobOK(d)')
      OBVIOUS
    <3>1. ~Unused(e) /\ jobs[e] \in Job /\ k \in Keys
      BY <2>3, JobType DEF Settle, Unused, TypeOK, Job
    <3>2. /\ keyed' = keyed
          /\ \A j \in Keys : settled'[j] = IF j = k THEN 1 ELSE settled[j]
          /\ \A d \in Executions : d # e => jobs'[d] = jobs[d]
          /\ jobs'[e].tx = "success" /\ jobs'[e].status # "failed"
      BY <2>3, <3>1 DEF Settle, MayExecute, TypeOK, HubTypeOK, Job
    <3>3. ASSUME NEW j \in Keys PROVE KeyOK(j)'
      <4>1. JobOf(k, e)'
        BY <1>1, <3>1 DEF HubKeeps, JobOf
      <4>2. keyed[j] # NoExecution => keyed[j] \in Executions
        BY DEF TypeOK, HubTypeOK
      <4>3. keyed'[j] # NoExecution => JobOf(j, keyed[j])'
        BY <1>1, <1>5, <3>2, <4>2 DEF KeyOK, HubKeeps, JobOf
      <4>4. CASE j = k
        BY <3>2, <4>1, <4>3, <4>4 DEF KeyOK
      <4>5. CASE j # k
        <5>1. KeyOK(j) /\ settled'[j] = settled[j] /\ keyed'[j] = keyed[j]
          BY <1>5, <3>2, <4>5
        <5> QED BY <1>1, <5>1, KeyFrame
      <4> QED BY <4>4, <4>5
    <3>4. ASSUME NEW d \in Executions PROVE JobOK(d)'
      <4>1. ~Unused(d)' => /\ ~Unused(d)
                           /\ jobs'[d].key = jobs[d].key
                           /\ jobs'[d].principal = jobs[d].principal
                           /\ jobs'[d].body = jobs[d].body
        BY <1>1, <3>1, <3>2 DEF HubKeeps, Unused
      <4>2. jobs'[d].tx = "success" /\ ~Unused(d) =>
              settled'[jobs[d].key] = 1 /\ jobs'[d].status # "failed"
        BY <1>4, <3>2 DEF JobOK
      <4> QED BY <1>1, <1>4, <3>2, <4>1, <4>2 DEF JobOK, Exists, journalVars
    <3> QED BY <3>3, <3>4
  <2>4. ASSUME NEW e \in Executions, Revert(e) \/ Complete(e) \/ Fail(e)
        PROVE  (\A j \in Keys : KeyOK(j)') /\ (\A d \in Executions : JobOK(d)')
    <3>1. ~Unused(e) /\ jobs[e] \in Job
      BY <2>4, JobType DEF Revert, Complete, Fail, Unused, TypeOK
    <3>2. /\ keyed' = keyed /\ settled' = settled
          /\ \A d \in Executions : d # e => jobs'[d] = jobs[d]
          /\ jobs'[e].tx = "success" => /\ jobs[e].tx = "success"
                                         /\ jobs'[e].status # "failed"
      BY <2>4, <3>1 DEF Revert, Complete, Fail, TypeOK, HubTypeOK, Job
    <3>3. \A j \in Keys : KeyOK(j)'
      BY <1>1, <1>5, <3>2, KeyFrame
    <3>4. ASSUME NEW d \in Executions PROVE JobOK(d)'
      <4>1. CASE d = e
        <5>1. /\ jobs'[e].key = jobs[e].key
              /\ jobs'[e].principal = jobs[e].principal
              /\ jobs'[e].body = jobs[e].body
          BY <1>1, <3>1 DEF HubKeeps
        <5> QED BY <1>1, <1>4, <3>1, <3>2, <4>1, <5>1
             DEF JobOK, Exists, journalVars
      <4>2. CASE d # e
        BY <1>1, <1>4, <3>2, <4>2 DEF JobOK, Unused, Exists, journalVars
      <4> QED BY <4>1, <4>2
    <3> QED BY <3>3, <3>4
  <2> QED BY <2>1, <2>2, <2>3, <2>4 DEF Environment, HubStep
<1> QED BY <1>2, <1>1, <1>3, <1>6 DEF SubmissionInvariant

\* What a status answer proves of the job.
LEMMA ViewTruth ==
  ASSUME TypeOK, NEW e \in Executions, JobOK(e), ~Unused(e), NEW view \in View(e)
  PROVE  /\ view = "success" => jobs[e].tx = "success"
         /\ view \in {"failed", "reverted"} => Dead(e)
<1>1. jobs[e].status \in {"pending", "completed", "failed"}
      /\ jobs[e].tx \in {"none", "success", "reverted"}
  BY JobType DEF TypeOK, Job
<1> QED BY <1>1 DEF View, Dead, JobOK

LEMMA PollKeeps ==
  ASSUME TypeOK, SubmissionInvariant, NEW o \in Observers, NEW k \in Keys,
         NEW authority, NEW view \in Views, NEW independent \in BOOLEAN,
         Poll(o, k, authority, view, independent)
  PROVE  SubmissionInvariant'
<1>1. UNCHANGED <<hubVars, journalVars, req>>
  BY DEF Poll
<1>2. HubKeeps
  BY <1>1 DEF HubKeeps, hubVars, Unused, Dead
<1>3. JournalKeeps /\ \A j \in Keys : RowOK(j)'
  BY <1>1, <1>2, JournalUnchanged
<1>4. (\A j \in Keys : KeyOK(j)') /\ (\A e \in Executions : JobOK(e)')
  BY <1>1, <1>3, HubUnchanged
<1>5. \A r \in Requests : HandlerOK(r)'
  BY <1>1, <1>2, <1>3, HandlerFrame
<1>6. ObservationOK(o)'
  <2> DEFINE e == ExecutionOf(k)
  <2>1. /\ e \in Executions /\ e # NoExecution /\ Exists(k) /\ view \in View(e)
    BY ExecutionType DEF Poll, TypeOK
  <2>2. JobOf(k, e) /\ JobOK(e)
    BY <2>1 DEF SubmissionInvariant, RowOK
  <2>3. /\ view = "success" => jobs[e].tx = "success"
        /\ view \in {"failed", "reverted"} => Dead(e)
    BY <2>1, <2>2, ViewTruth DEF JobOf
  <2>4. \/ watch'[o].pc = "idle"
        \/ /\ watch'[o].pc = "record" /\ watch'[o].key = k
           /\ watch'[o].view = view
    BY DEF Poll, TypeOK, NotWatching
  <2>5. e' = e /\ (Dead(e) => Dead(e)')
    BY <1>1 DEF ExecutionOf, Exists, Dead, journalVars, hubVars
  <2>6. CASE watch'[o].pc = "idle"
    BY <2>6 DEF ObservationOK
  <2>7. CASE /\ watch'[o].pc = "record" /\ watch'[o].key = k
             /\ watch'[o].view = view
    BY <1>1, <2>1, <2>3, <2>5, <2>7
       DEF ObservationOK, ExecutionOf, Exists, Dead, journalVars, hubVars
  <2> QED BY <2>4, <2>6, <2>7
<1>7. ASSUME NEW n \in Observers \ {o} PROVE ObservationOK(n)'
  <2>1. watch'[n] = watch[n]
    BY DEF Poll, TypeOK
  <2> QED BY <1>2, <1>3, <2>1, ObservationFrame
<1> QED BY <1>3, <1>4, <1>5, <1>6, <1>7 DEF SubmissionInvariant

\* The row after an observation that its evidence supports.
LEMMA RecordPollKeeps ==
  ASSUME TypeOK, SubmissionInvariant, NEW o \in Observers, RecordPoll(o)
  PROVE  SubmissionInvariant' /\ JournalKeeps
<1> SUFFICES ASSUME NEW w, w = watch[o]
             PROVE  SubmissionInvariant' /\ JournalKeeps
  OBVIOUS
<1> DEFINE k == w.key
           e == ExecutionOf(k)
           target == ObservationTarget(w.view, w.independent)
<1>1. /\ w \in Watcher /\ k \in Keys /\ target \in Terminal
      /\ UNCHANGED <<hubVars, req>> /\ watch'[o].pc = "idle"
      /\ \A n \in Observers \ {o} : watch'[n] = watch[n]
  BY WatcherType, ObservationTargetType
     DEF RecordPoll, TypeOK, Watcher, NotWatching
<1>2. /\ e \in Executions /\ Exists(k)
      /\ w.view = "success" => jobs[e].tx = "success"
      /\ w.view \in {"failed", "reverted"} => Dead(e)
  BY <1>1, ExecutionType
     DEF RecordPoll, SubmissionInvariant, ObservationOK, TypeOK
<1>3. HubKeeps
  BY <1>1 DEF HubKeeps, hubVars, Unused, Dead
<1>4. JournalKeeps /\ \A j \in Keys : RowOK(j)'
  <2>1. CASE UNCHANGED journalVars
    BY <1>3, <2>1, JournalUnchanged
  <2>2. CASE /\ EvidenceSupports(target, w.view, w.independent)
             /\ RecordObservation(k, target)
    <3>1. /\ JournalKeeps
          /\ intents'[k].acceptance = intents[k].acceptance
          /\ Exists(k)'
          /\ \/ /\ MayAdvance(intents[k].state, target)
                /\ intents'[k].state = target
                /\ intents'[k].revision = IF intents[k].state = "accepted"
                                          THEN 3 ELSE 4
             \/ intents'[k] = intents[k]
          /\ \A j \in Keys : j # k => intents'[j] = intents[j]
      BY <1>1, <1>2, <2>2, RecordObservationKeeps DEF SubmissionInvariant, TypeOK
    <3>2. ASSUME NEW j \in Keys, intents'[j] = intents[j] PROVE RowOK(j)'
      BY <1>3, <3>2, RowUnchanged DEF SubmissionInvariant, TypeOK
    <3>3. ASSUME /\ MayAdvance(intents[k].state, target)
                 /\ intents'[k].state = target
                 /\ intents'[k].revision = IF intents[k].state = "accepted"
                                           THEN 3 ELSE 4
          PROVE  RowOK(k)'
      <4>1. RowOK(k)
        BY <1>1 DEF SubmissionInvariant
      <4>2. RevisionAllows(intents[k])'
        BY <1>1, <1>2, <3>1, <3>3, <4>1
           DEF RowOK, RevisionAllows, MayAdvance, Terminal
      <4>3. ExecutionOf(k)' = e
        BY <1>1, <1>2, <3>1 DEF ExecutionOf
      <4>4. /\ target = "verified_settled" => jobs[e].tx = "success"
            /\ target = "failed" => Dead(e)
        BY <1>1, <1>2, <2>2 DEF EvidenceSupports
      <4>5. JobOf(k, e)
        BY <1>2, <4>1, DomainAssumption DEF RowOK
      <4> QED BY <1>1, <3>3, <4>2, <4>3, <4>4, <4>5
           DEF RowOK, JobOf, Unused, Dead, hubVars
    <3> QED BY <3>1, <3>2, <3>3
  <2> QED BY <2>1, <2>2 DEF RecordPoll
<1>5. (\A j \in Keys : KeyOK(j)') /\ (\A d \in Executions : JobOK(d)')
  BY <1>1, <1>4, HubUnchanged
<1>6. \A r \in Requests : HandlerOK(r)'
  BY <1>1, <1>3, <1>4, HandlerFrame
<1>7. \A n \in Observers : ObservationOK(n)'
  BY <1>1, <1>3, <1>4, ObservationFrame DEF ObservationOK
<1> QED BY <1>4, <1>5, <1>6, <1>7 DEF SubmissionInvariant

LEMMA HandleKeeps ==
  ASSUME TypeOK, SubmissionInvariant, NEW r \in Requests, Submit(r) \/ Handle(r)
  PROVE  SubmissionInvariant' /\ JournalKeeps
<1>1. CASE \/ ReadRefused(r) \/ SimulationReverts(r) \/ PrepareRefused(r)
           \/ RecheckRefused(r) \/ AcceptanceRefused(r) \/ Crash(r)
  <2>1. Reject(r) /\ UNCHANGED <<hubVars, journalVars, watch>>
    BY <1>1 DEF ReadRefused, SimulationReverts, PrepareRefused,
                RecheckRefused, AcceptanceRefused, Crash
  <2> QED BY <2>1, RejectedOK, LocalStep, LocalKeeps
<1>2. CASE Submit(r) \/ Simulate(r) \/ Recheck(r) \/ Lapse(r)
  <2>1. UNCHANGED <<hubVars, journalVars, watch>>
    BY <1>2 DEF Submit, Start, Simulate, Recheck, Lapse
  <2> QED BY <1>2, <2>1, StartKeeps, SimulateKeeps, RecheckKeeps, LapseKeeps, LocalKeeps
<1>3. CASE PostAnswered(r) \/ PostFails(r)
  <2>1. SubmissionInvariant' /\ HubKeeps /\ UNCHANGED journalVars
    BY <1>3, PostAnsweredKeeps, PostFailsKeeps DEF PostAnswered, PostFails
  <2> QED BY <2>1, JournalUnchanged
<1> QED BY <1>1, <1>2, <1>3, ReadPriorKeeps, PrepareIntentKeeps,
        PersistAcceptanceKeeps DEF Handle

LEMMA ObserveKeeps ==
  ASSUME TypeOK, SubmissionInvariant, NEW o \in Observers, Observe(o)
  PROVE  SubmissionInvariant' /\ JournalKeeps
<1>1. ASSUME NEW k \in Keys, NEW authority, NEW view \in Views,
             NEW independent \in BOOLEAN, Poll(o, k, authority, view, independent)
      PROVE  SubmissionInvariant' /\ JournalKeeps
  BY <1>1, PollKeeps, LocalKeeps DEF Poll
<1>2. CASE CrashPoll(o)
  <2>1. UNCHANGED <<hubVars, journalVars, req>>
    BY <1>2 DEF CrashPoll
  <2>2. HubKeeps
    BY <2>1 DEF HubKeeps, hubVars, Unused, Dead
  <2>3. JournalKeeps /\ \A j \in Keys : RowOK(j)'
    BY <2>1, <2>2, JournalUnchanged
  <2>4. (\A j \in Keys : KeyOK(j)') /\ (\A e \in Executions : JobOK(e)')
    BY <2>1, <2>3, HubUnchanged
  <2>5. \A r \in Requests : HandlerOK(r)'
    BY <2>1, <2>2, <2>3, HandlerFrame
  <2>6. \A n \in Observers : watch'[n] = watch[n] \/ watch'[n].pc = "idle"
    BY <1>2 DEF CrashPoll, TypeOK, NotWatching
  <2>7. \A n \in Observers : ObservationOK(n)'
    BY <2>2, <2>3, <2>6, ObservationFrame DEF ObservationOK
  <2> QED BY <2>3, <2>4, <2>5, <2>7 DEF SubmissionInvariant
<1> QED BY <1>1, <1>2, RecordPollKeeps DEF Observe

LEMMA InvariantStep ==
  ASSUME TypeOK, SubmissionInvariant, [Next]_vars
  PROVE  SubmissionInvariant' /\ JournalKeeps
<1>1. CASE Environment
  <2>1. SubmissionInvariant' /\ HubKeeps /\ UNCHANGED journalVars
    BY <1>1, EnvironmentKeeps DEF Environment
  <2> QED BY <2>1, JournalUnchanged
<1>2. CASE UNCHANGED vars
  <2>1. UNCHANGED <<hubVars, journalVars, req, watch>>
    BY <1>2 DEF vars, hubVars, journalVars
  <2>2. HubKeeps
    BY <2>1 DEF HubKeeps, hubVars, Unused, Dead
  <2>3. JournalKeeps /\ \A j \in Keys : RowOK(j)'
    BY <2>1, <2>2, JournalUnchanged
  <2>4. (\A j \in Keys : KeyOK(j)') /\ (\A e \in Executions : JobOK(e)')
    BY <2>1, <2>3, HubUnchanged
  <2>5. /\ \A r \in Requests : HandlerOK(r)'
        /\ \A o \in Observers : ObservationOK(o)'
    BY <2>1, <2>2, <2>3, HandlerFrame, ObservationFrame
  <2> QED BY <2>3, <2>4, <2>5 DEF SubmissionInvariant
<1> QED BY <1>1, <1>2, HandleKeeps, ObserveKeeps DEF Next

LEMMA InitEstablishes ==
  ASSUME Init
  PROVE  TypeOK /\ SubmissionInvariant
<1>1. TypeOK
  BY FaultsAssumption
     DEF Init, HubInit, JournalInit, TypeOK, HubTypeOK, JournalTypeOK
<1>2. \A r \in Requests : req[r].pc = "idle"
  BY DEF Init, Idle
<1>3. \A o \in Observers : watch[o].pc = "idle"
  BY DEF Init, NotWatching
<1>4. \A k \in Keys : /\ ~Exists(k) /\ settled[k] = 0
                      /\ keyed[k] = NoExecution
  BY DEF Init, JournalInit, HubInit, Exists, NoIntent
<1>5. \A e \in Executions : Unused(e)
  BY DEF Init, HubInit, Unused, NoJob
<1> QED BY <1>1, <1>2, <1>3, <1>4, <1>5
     DEF SubmissionInvariant, HandlerOK, At, RowOK, KeyOK, ObservationOK, JobOK

\* The two truths of a row, from the invariant alone.
LEMMA VerifiedTruth == TypeOK /\ SubmissionInvariant => VerifiedMeansSettled
<1> SUFFICES ASSUME TypeOK, SubmissionInvariant, NEW k \in Keys,
                    intents[k].state = "verified_settled"
             PROVE  /\ settled[k] = 1
                    /\ jobs[ExecutionOf(k)].tx = "success"
                    /\ jobs[ExecutionOf(k)].key = k
  BY DEF VerifiedMeansSettled
<1>1. Exists(k) /\ RowOK(k)
  BY DEF Exists, SubmissionInvariant
<1>2. ExecutionOf(k) \in Executions
  BY <1>1, RowType
     DEF RowOK, RevisionAllows, TypeOK, Intent, Acceptances, ExecutionOf
<1>3. JobOf(k, ExecutionOf(k)) /\ jobs[ExecutionOf(k)].tx = "success"
  BY <1>1, <1>2, DomainAssumption DEF RowOK
<1> QED BY <1>2, <1>3 DEF SubmissionInvariant, JobOK, JobOf

LEMMA FailedTruth ==
  ASSUME ~KeysExpire, ~OthersExecute
  PROVE  TypeOK /\ SubmissionInvariant => FailedMeansUnsettled
<1> SUFFICES ASSUME TypeOK, SubmissionInvariant, NEW k \in Keys,
                    intents[k].state = "failed", settled[k] # 0
             PROVE  FALSE
  BY DEF FailedMeansUnsettled
<1>1. Exists(k) /\ RowOK(k) /\ KeyOK(k)
  BY DEF Exists, SubmissionInvariant
<1>2. ExecutionOf(k) \in Executions
  BY <1>1, RowType
     DEF RowOK, RevisionAllows, TypeOK, Intent, Acceptances, ExecutionOf
<1>3. JobOf(k, ExecutionOf(k)) /\ Dead(ExecutionOf(k))
  BY <1>1, <1>2, DomainAssumption DEF RowOK
<1>4. PICK e \in Executions : JobOf(k, e) /\ jobs[e].tx = "success"
  BY <1>1 DEF KeyOK
<1>5. keyed[k] = e /\ keyed[k] = ExecutionOf(k)
  BY <1>2, <1>3, <1>4 DEF SubmissionInvariant, JobOK, JobOf
<1> QED BY <1>3, <1>4, <1>5 DEF Dead

(***************************************************************************)
(* The theorems.                                                           *)
(***************************************************************************)

\* In every reachable state every variable has its type and the parts of the
\* system agree about each other: handlers' locals with the rows they were
\* read from, rows and pending observations with the jobs they name, jobs and
\* settlements with the keys they belong to.
THEOREM Invariance == Spec => [](TypeOK /\ SubmissionInvariant)
<1>1. Init => TypeOK /\ SubmissionInvariant
  BY InitEstablishes
<1>2. TypeOK /\ SubmissionInvariant /\ [Next]_vars
        => (TypeOK /\ SubmissionInvariant)'
  BY TypeStep, InvariantStep
<1> QED BY <1>1, <1>2, PTL DEF Spec

\* Type correctness of the composed system.
THEOREM TypeCorrect == Spec => []TypeOK
BY Invariance, PTL

\* No interleaving, crash or lost answer lets KeeperHub hold a job whose
\* intent was not durably recorded first, by the same principal and for the
\* same signed body.
THEOREM Broadcasts == Spec => []BroadcastJournaled
<1>1. TypeOK /\ SubmissionInvariant => BroadcastJournaled
  BY DEF SubmissionInvariant, JobOK, BroadcastJournaled
<1> QED BY <1>1, Invariance, PTL

\* A client that got an answer got the journaled acceptance.
THEOREM Replies == Spec => []RepliesDurable
<1>1. TypeOK /\ SubmissionInvariant => RepliesDurable
  BY DEF SubmissionInvariant, HandlerOK, RepliesDurable, At
<1> QED BY <1>1, Invariance, PTL

\* A row says verified_settled only of a plan its own execution settled.
THEOREM VerifiedIsTrue == Spec => []VerifiedMeansSettled
BY VerifiedTruth, Invariance, PTL

\* A row says failed only of a plan that is not settled and never will be, if
\* KeeperHub keeps its keys and nobody goes around it.
THEOREM FailedIsTrue ==
  ASSUME ~KeysExpire, ~OthersExecute
  PROVE  Spec => []FailedMeansUnsettled
BY FailedTruth, Invariance, PTL

\* Nothing recorded is ever taken back.
THEOREM Monotone == Spec => JournalMonotone
<1>1. TypeOK /\ SubmissionInvariant /\ [Next]_vars => JournalKeeps
  BY InvariantStep
<1>2. TypeOK /\ SubmissionInvariant /\ [Next]_vars =>
        [\A k \in Keys :
           Exists(k) =>
             /\ intents'[k].principal = intents[k].principal
             /\ intents'[k].body = intents[k].body
             /\ intents'[k].simulation = intents[k].simulation
             /\ intents'[k].revision >= intents[k].revision
             /\ intents[k].acceptance # NoAcceptance =>
                  intents'[k].acceptance = intents[k].acceptance
             /\ intents[k].state \in {"verified_settled", "failed"} =>
                  intents'[k].state = intents[k].state]_vars
  BY <1>1 DEF JournalKeeps
<1> QED BY <1>2, Invariance, PTL DEF Spec, JournalMonotone

(***************************************************************************)
(* SubmissionJournal implements SettlementLifecycle, for every value of    *)
(* the constants with KeysExpire and OthersExecute FALSE: each step of a   *)
(* handler, an observer, KeeperHub or the chain is one step of the plan's  *)
(* life, or none.                                                          *)
(***************************************************************************)
\* A row whose four abstract fields stay shows the same plan.
LEMMA SamePlan ==
  ASSUME NEW k \in Keys, Exists(k) <=> Exists(k)',
         Exists(k) => /\ intents'[k].state = intents[k].state
                      /\ intents'[k].principal = intents[k].principal
                      /\ intents'[k].body = intents[k].body
                      /\ intents'[k].acceptance = intents[k].acceptance
  PROVE  PlanOf(k)' = PlanOf(k)
BY DEF PlanOf, ExecutionOf

LEMMA PlanStutters ==
  ASSUME \A k \in Keys : PlanOf(k)' = PlanOf(k), UNCHANGED settled
  PROVE  UNCHANGED Lifecycle!lifecycleVars
BY DEF Lifecycle!lifecycleVars

LEMMA JournalStutters ==
  ASSUME UNCHANGED <<journalVars, settled>>
  PROVE  UNCHANGED Lifecycle!lifecycleVars
BY PlanStutters, SamePlan DEF journalVars, Exists

LEMMA ReadPriorRefines ==
  ASSUME TypeOK, SubmissionInvariant, NEW r \in Requests, ReadPrior(r)
  PROVE  UNCHANGED Lifecycle!lifecycleVars
<1> SUFFICES ASSUME NEW k, k = req[r].key, NEW p, p = req[r].principal,
                    NEW b, b = req[r].body, NEW f, f = req[r].flow
             PROVE  UNCHANGED Lifecycle!lifecycleVars
  OBVIOUS
<1>1. /\ k \in Keys /\ f \in Flows \cup {NoFlow}
      /\ ReadRetry(k, p, b, r, f) /\ settled' = settled
  BY HandlerType DEF TypeOK, ReadPrior, At, Handler, hubVars
<1>2. /\ JournalKeeps
      /\ \A j \in Keys : /\ Exists(j) <=> Exists(j)'
                         /\ Exists(j) =>
                              /\ intents'[j].state = intents[j].state
                              /\ intents'[j].acceptance = intents[j].acceptance
  BY <1>1, ReadRetryKeeps DEF TypeOK
<1>3. \A j \in Keys : PlanOf(j)' = PlanOf(j)
  BY <1>2, SamePlan DEF JournalKeeps
<1> QED BY <1>1, <1>3, PlanStutters

LEMMA PrepareRefines ==
  ASSUME TypeOK, SubmissionInvariant, NEW r \in Requests, PrepareIntent(r)
  PROVE  [Lifecycle!LifecycleNext]_(Lifecycle!lifecycleVars)
<1> SUFFICES ASSUME NEW k, k = req[r].key, NEW p, p = req[r].principal,
                    NEW b, b = req[r].body, NEW s, s = req[r].simulation,
                    NEW f, f = req[r].flow
             PROVE  [Lifecycle!LifecycleNext]_(Lifecycle!lifecycleVars)
  OBVIOUS
<1>1. /\ k \in Keys /\ p \in Principals /\ b \in Bodies /\ s \in Simulations
      /\ f \in Flows \cup {NoFlow}
      /\ Prepare(k, p, b, r, s, f) /\ settled' = settled
  BY HandlerType
     DEF TypeOK, PrepareIntent, At, Handler, SubmissionInvariant, HandlerOK, hubVars
<1>2. /\ JournalKeeps
      /\ Exists(k)' /\ intents'[k].principal = p /\ intents'[k].body = b
      /\ Exists(k) => /\ intents'[k].state = intents[k].state
                      /\ intents'[k].acceptance = intents[k].acceptance
      /\ ~Exists(k) => /\ intents'[k].state = "prepared"
                       /\ intents'[k].acceptance = NoAcceptance
      /\ \A j \in Keys : j # k => intents'[j] = intents[j]
  BY <1>1, PrepareKeeps DEF TypeOK
<1>3. \A j \in Keys : j # k => PlanOf(j)' = PlanOf(j)
  BY <1>2, SamePlan DEF Exists
<1>4. CASE Exists(k)
  <2>1. PlanOf(k)' = PlanOf(k)
    BY <1>1, <1>2, <1>4, SamePlan DEF JournalKeeps
  <2> QED BY <1>1, <1>3, <2>1, PlanStutters
<1>5. CASE ~Exists(k)
  <2>1. PlanOf(k) = [outcome |-> "absent"]
    BY <1>5 DEF PlanOf
  <2>2. PlanOf(k)' = [outcome |-> "prepared", owner |-> p, body |-> b,
                      execution |-> NoExecution]
    BY <1>2, <1>5 DEF PlanOf, ExecutionOf, NoAcceptance
  <2>3. [j \in Keys |-> PlanOf(j)]' =
          [[j \in Keys |-> PlanOf(j)] EXCEPT ![k] =
             [outcome |-> "prepared", owner |-> p, body |-> b,
              execution |-> NoExecution]]
    BY <1>1, <1>3, <2>2
  <2>4. Lifecycle!Record(k)
    BY <1>1, <2>1, <2>3
       DEF Lifecycle!Record, Lifecycle!Recorded, Lifecycle!Unrecorded
  <2> QED BY <1>1, <2>4 DEF Lifecycle!LifecycleNext
<1> QED BY <1>4, <1>5

LEMMA AcceptanceRefines ==
  ASSUME TypeOK, SubmissionInvariant, NEW r \in Requests, PersistAcceptance(r)
  PROVE  [Lifecycle!LifecycleNext]_(Lifecycle!lifecycleVars)
<1> SUFFICES ASSUME NEW k, k = req[r].key, NEW acc, acc = req[r].accepted,
                    NEW p, p = req[r].principal, NEW b, b = req[r].body
             PROVE  [Lifecycle!LifecycleNext]_(Lifecycle!lifecycleVars)
  OBVIOUS
<1>1. /\ k \in Keys /\ acc \in Acceptances
      /\ RecordAcceptance(k, p, b, acc) /\ settled' = settled
  BY HandlerType
     DEF TypeOK, PersistAcceptance, At, Handler, SubmissionInvariant, HandlerOK, hubVars
<1>2. /\ JournalKeeps
      /\ Exists(k) /\ intents'[k].acceptance = acc
      /\ \/ intents[k].state = "prepared" /\ intents'[k].state = "accepted"
         \/ intents'[k] = intents[k]
      /\ \A j \in Keys : j # k => intents'[j] = intents[j]
  BY <1>1, RecordAcceptanceKeeps DEF TypeOK, SubmissionInvariant
<1>3. \A j \in Keys : j # k => PlanOf(j)' = PlanOf(j)
  BY <1>2, SamePlan DEF Exists
<1>4. CASE intents'[k] = intents[k]
  <2>1. PlanOf(k)' = PlanOf(k)
    BY <1>1, <1>4, SamePlan DEF Exists
  <2> QED BY <1>1, <1>3, <2>1, PlanStutters
<1>5. CASE intents[k].state = "prepared" /\ intents'[k].state = "accepted"
  <2>1. acc.id \in Executions /\ acc.id # NoExecution
    BY <1>1, DomainAssumption DEF Acceptances
  <2>2. intents[k].acceptance = NoAcceptance
    BY <1>1, <1>2, <1>5 DEF SubmissionInvariant, RowOK, RevisionAllows, Terminal
  <2>3. PlanOf(k) = [outcome |-> "prepared", owner |-> intents[k].principal,
                     body |-> intents[k].body, execution |-> NoExecution]
    BY <1>2, <1>5, <2>2 DEF PlanOf, ExecutionOf, NoAcceptance
  <2>4. PlanOf(k)' = [outcome |-> "accepted", owner |-> intents[k].principal,
                      body |-> intents[k].body, execution |-> acc.id]
    BY <1>1, <1>2, <1>5 DEF PlanOf, ExecutionOf, JournalKeeps
  <2>5. PlanOf(k)' = [PlanOf(k) EXCEPT !.outcome = "accepted",
                                       !.execution = acc.id]
    <3> DEFINE step == [outcome |-> "accepted", owner |-> intents[k].principal,
                        body |-> intents[k].body, execution |-> NoExecution]
    <3>1. [PlanOf(k) EXCEPT !.outcome = "accepted"] = step
      BY <2>3
    <3>2. [step EXCEPT !.execution = acc.id] = PlanOf(k)'
      BY <2>4
    <3> QED BY <3>1, <3>2
  <2>6. ASSUME NEW j \in Keys, PlanOf(j) # [outcome |-> "absent"]
        PROVE  PlanOf(j).execution # acc.id
    <3>1. Exists(j) /\ PlanOf(j).execution = ExecutionOf(j)
      BY <2>6 DEF PlanOf
    <3>2. CASE j = k
      BY <2>1, <2>3, <3>2
    <3>3. CASE j # k
      BY <1>1, <1>5, <3>1, <3>3 DEF RecordAcceptance, AcceptanceConflict
    <3> QED BY <3>2, <3>3
  <2>7. [j \in Keys |-> PlanOf(j)]' =
          [[j \in Keys |-> PlanOf(j)] EXCEPT ![k] =
             [PlanOf(k) EXCEPT !.outcome = "accepted", !.execution = acc.id]]
    BY <1>1, <1>3, <2>5
  <2>8. Lifecycle!Accept(k)
    BY <1>1, <2>1, <2>3, <2>6, <2>7
       DEF Lifecycle!Accept, Lifecycle!Recorded, Lifecycle!Unrecorded
  <2> QED BY <1>1, <2>8 DEF Lifecycle!LifecycleNext
<1> QED BY <1>2, <1>4, <1>5

LEMMA TruthAfter ==
  ASSUME ~KeysExpire, ~OthersExecute
  PROVE  (TypeOK /\ SubmissionInvariant)' =>
           VerifiedMeansSettled' /\ FailedMeansUnsettled'
BY VerifiedTruth, FailedTruth, PTL

\* An outcome is concluded only when it is true: the conclusion is recorded
\* after the answer was read, so it is the invariant after the step, with the
\* chain as before it, that says so.
LEMMA RecordPollRefines ==
  ASSUME TypeOK, SubmissionInvariant, TypeOK', SubmissionInvariant',
         ~KeysExpire, ~OthersExecute, NEW o \in Observers, RecordPoll(o)
  PROVE  [Lifecycle!LifecycleNext]_(Lifecycle!lifecycleVars)
<1> SUFFICES ASSUME NEW w, w = watch[o], NEW k, k = w.key,
                    NEW target, target = ObservationTarget(w.view, w.independent)
             PROVE  [Lifecycle!LifecycleNext]_(Lifecycle!lifecycleVars)
  OBVIOUS
<1>1. /\ w \in Watcher /\ k \in Keys /\ target \in Terminal
      /\ settled' = settled /\ w.pc = "record"
  BY WatcherType, ObservationTargetType
     DEF RecordPoll, TypeOK, Watcher, hubVars
<1>2. CASE UNCHANGED journalVars
  BY <1>1, <1>2, JournalStutters
<1>3. CASE RecordObservation(k, target)
  <2>1. Exists(k) /\ ExecutionOf(k) \in Executions
    BY <1>1, ExecutionType DEF SubmissionInvariant, ObservationOK, TypeOK
  <2>2. /\ JournalKeeps
        /\ intents'[k].acceptance = intents[k].acceptance
        /\ \/ /\ MayAdvance(intents[k].state, target)
              /\ intents'[k].state = target
           \/ intents'[k] = intents[k]
        /\ \A j \in Keys : j # k => intents'[j] = intents[j]
    BY <1>1, <1>3, <2>1, RecordObservationKeeps DEF TypeOK, SubmissionInvariant
  <2>3. \A j \in Keys : j # k => PlanOf(j)' = PlanOf(j)
    BY <2>2, SamePlan DEF Exists
  <2>4. CASE intents'[k] = intents[k]
    <3>1. PlanOf(k)' = PlanOf(k)
      BY <1>1, <2>4, SamePlan DEF Exists
    <3> QED BY <1>1, <2>3, <3>1, PlanStutters
  <2>5. CASE /\ MayAdvance(intents[k].state, target)
             /\ intents'[k].state = target
    <3>1. PlanOf(k) = [outcome |-> intents[k].state,
                       owner |-> intents[k].principal,
                       body |-> intents[k].body, execution |-> ExecutionOf(k)]
      BY <2>1 DEF PlanOf
    <3>2. PlanOf(k)' = [PlanOf(k) EXCEPT !.outcome = target]
      BY <1>1, <2>1, <2>2, <2>5, <3>1 DEF PlanOf, ExecutionOf, JournalKeeps
    <3>3. [j \in Keys |-> PlanOf(j)]' =
            [[j \in Keys |-> PlanOf(j)] EXCEPT ![k].outcome = target]
      BY <1>1, <2>3, <3>2
    <3>8. [j \in Keys |-> PlanOf(j)][k].outcome = intents[k].state
      BY <1>1, <3>1
    <3>4. target = "verified_settled" => settled[k] = 1
      BY <1>1, <2>5, TruthAfter DEF VerifiedMeansSettled
    <3>5. target = "failed" => settled[k] = 0
      BY <1>1, <2>5, TruthAfter DEF FailedMeansUnsettled
    <3>6. CASE intents[k].state = "accepted"
      <4>1. Lifecycle!Conclude(k, target)
        BY <1>1, <3>3, <3>4, <3>5, <3>6, <3>8 DEF Lifecycle!Conclude
      <4> QED BY <1>1, <4>1 DEF Lifecycle!LifecycleNext, Terminal
    <3>7. CASE /\ intents[k].state \in {"completed_unverified", "timeout"}
               /\ target = "verified_settled"
      <4>1. Lifecycle!Reconcile(k)
        BY <1>1, <3>3, <3>4, <3>7, <3>8 DEF Lifecycle!Reconcile
      <4> QED BY <1>1, <4>1 DEF Lifecycle!LifecycleNext
    <3> QED BY <2>5, <3>6, <3>7 DEF MayAdvance
  <2> QED BY <2>2, <2>4, <2>5
<1> QED BY <1>2, <1>3 DEF RecordPoll

\* Money moves only as the abstract plan lets it.
LEMMA EnvironmentRefines ==
  ASSUME TypeOK, SubmissionInvariant, ~KeysExpire, ~OthersExecute, Environment
  PROVE  [Lifecycle!LifecycleNext]_(Lifecycle!lifecycleVars)
<1>1. UNCHANGED journalVars /\ \A j \in Keys : PlanOf(j)' = PlanOf(j)
  BY SamePlan DEF Environment, journalVars, Exists
<1>2. ASSUME NEW e \in Executions, Settle(e)
      PROVE  [Lifecycle!LifecycleNext]_(Lifecycle!lifecycleVars)
  <2> SUFFICES ASSUME NEW k, k = jobs[e].key
               PROVE  [Lifecycle!LifecycleNext]_(Lifecycle!lifecycleVars)
    OBVIOUS
  <2>1. /\ ~Unused(e) /\ k \in Keys /\ JobOK(e) /\ RowOK(k) /\ ~Dead(e)
    BY <1>2, JobType
       DEF Settle, Unused, TypeOK, Job, SubmissionInvariant, Dead
  <2>2. settled[k] = 0 /\ settled' = [settled EXCEPT ![k] = 1]
    BY <1>2, <2>1 DEF Settle, MayExecute, TypeOK, HubTypeOK
  <2>3. Exists(k) /\ PlanOf(k).outcome = intents[k].state
    BY <2>1 DEF JobOK, PlanOf
  <2>4. intents[k].state # "failed"
    <3> SUFFICES ASSUME intents[k].state = "failed"
                 PROVE  FALSE
      OBVIOUS
    <3>1. ExecutionOf(k) \in Executions
      BY <2>1, <2>3, RowType
         DEF RowOK, RevisionAllows, TypeOK, Intent, Acceptances, ExecutionOf
    <3>2. JobOf(k, ExecutionOf(k)) /\ Dead(ExecutionOf(k))
      BY <2>1, <2>3, <3>1, DomainAssumption DEF RowOK
    <3>3. ExecutionOf(k) = e
      BY <2>1, <3>1, <3>2 DEF SubmissionInvariant, JobOK, JobOf
    <3> QED BY <2>1, <3>2, <3>3
  <2>5. PlanOf(k) # [outcome |-> "absent"]
    BY <2>3 DEF PlanOf, Exists
  <2>6. [j \in Keys |-> PlanOf(j)]' = [j \in Keys |-> PlanOf(j)]
    BY <1>1
  <2>7. Lifecycle!Move(k)
    BY <2>1, <2>2, <2>3, <2>4, <2>5, <2>6
       DEF Lifecycle!Move, Lifecycle!Recorded, Lifecycle!Unrecorded
  <2> QED BY <2>1, <2>7 DEF Lifecycle!LifecycleNext
<1>3. ASSUME NEW e \in Executions, Revert(e) \/ Complete(e) \/ Fail(e)
      PROVE  [Lifecycle!LifecycleNext]_(Lifecycle!lifecycleVars)
  BY <1>1, <1>3, PlanStutters DEF Revert, Complete, Fail
<1> QED BY <1>2, <1>3 DEF Environment, HubStep, ForgetKey, SettleElsewhere

LEMMA LifecycleStep ==
  ASSUME TypeOK, SubmissionInvariant, TypeOK', SubmissionInvariant',
         ~KeysExpire, ~OthersExecute, [Next]_vars
  PROVE  [Lifecycle!LifecycleNext]_(Lifecycle!lifecycleVars)
<1>1. ASSUME NEW r \in Requests, ReadPrior(r)
      PROVE  [Lifecycle!LifecycleNext]_(Lifecycle!lifecycleVars)
  BY <1>1, ReadPriorRefines
<1>2. ASSUME NEW r \in Requests, Submit(r) \/ Handle(r),
             ~ReadPrior(r), ~PrepareIntent(r), ~PersistAcceptance(r)
      PROVE  [Lifecycle!LifecycleNext]_(Lifecycle!lifecycleVars)
  <2>1. UNCHANGED <<journalVars, settled>>
    BY <1>2 DEF Submit, Start, Handle, ReadRefused, Simulate, SimulationReverts,
                PrepareRefused, Recheck, RecheckRefused, PostAnswered, PostFails, OpenJob,
                AcceptanceRefused, Lapse, Crash, hubVars
  <2> QED BY <2>1, JournalStutters
<1>3. ASSUME NEW o \in Observers, Observe(o), ~RecordPoll(o)
      PROVE  [Lifecycle!LifecycleNext]_(Lifecycle!lifecycleVars)
  <2>1. UNCHANGED <<journalVars, settled>>
    BY <1>3 DEF Observe, Poll, CrashPoll, hubVars
  <2> QED BY <2>1, JournalStutters
<1>4. CASE UNCHANGED vars
  BY <1>4, JournalStutters DEF vars, journalVars
<1> QED BY <1>1, <1>2, <1>3, <1>4, PrepareRefines, AcceptanceRefines,
        RecordPollRefines, EnvironmentRefines DEF Next

\* The whole system implements the life of a plan: what the handlers, the
\* journal, KeeperHub and the chain do together is recorded before it is
\* broadcast, broadcast as one execution, paid at most once, and concluded
\* truthfully.
THEOREM Implements ==
  ASSUME ~KeysExpire, ~OthersExecute
  PROVE  Spec => ImplementsLifecycle
<1>1. Init => Lifecycle!LifecycleInit
  BY DEF Init, HubInit, JournalInit, Lifecycle!LifecycleInit, PlanOf, Exists,
         NoIntent, Lifecycle!Unrecorded
<1>2. TypeOK /\ SubmissionInvariant /\ (TypeOK /\ SubmissionInvariant)'
        /\ [Next]_vars
        => [Lifecycle!LifecycleNext]_(Lifecycle!lifecycleVars)
  BY LifecycleStep
<1> QED BY <1>1, <1>2, Invariance, PTL
         DEF Spec, ImplementsLifecycle, Lifecycle!LifecycleSpec
=============================================================================
