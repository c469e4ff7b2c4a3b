-------------------------- MODULE SubmissionIntents --------------------------
(***************************************************************************)
(* The durable submission journal: tables settlement_submission_intents    *)
(* and settlement_submission_events, and the SECURITY DEFINER functions    *)
(* that are the only writers of them (supabase/migrations/                 *)
(* 20260811074000_durable_submission_intents.sql).  Each function is one   *)
(* transaction holding the row lock, so each is one atomic operation here. *)
(* An operation comes with the condition under which it raises instead.    *)
(*                                                                         *)
(* The approval recorded on a row (approval_hash, approval_expires_at) is  *)
(* named by the request slot whose approval artifact it is.                *)
(***************************************************************************)
EXTENDS SettlementDomain, FiniteSets

VARIABLES
  intents,     \* intents[k]: the journal row of the key, or NoIntent
  events       \* events[k]: the rows of settlement_submission_events

journalVars == <<intents, events>>

Terminal == {"completed_unverified", "verified_settled", "failed", "timeout"}
IntentStates == {"prepared", "accepted"} \cup Terminal

NoIntent == [state |-> "absent", revision |-> 0]
Intent == [state : IntentStates, revision : 1..4,
           principal : Principals, body : Bodies, approval : Requests,
           simulation : Simulations, flow : Flows \cup {NoFlow},
           acceptance : Acceptances \cup {NoAcceptance}]

EventKinds == {"prepared", "accepted", "terminal", "reconciled"}
Event == [revision : 1..4, kind : EventKinds, state : IntentStates]

JournalTypeOK ==
  /\ intents \in [Keys -> Intent \cup {NoIntent}]
  /\ events \in [Keys -> SUBSET Event]

JournalInit ==
  /\ intents = [k \in Keys |-> NoIntent]
  /\ events = [k \in Keys |-> {}]

Exists(k) == intents[k].state # "absent"
ExecutionOf(k) == IF Exists(k) THEN intents[k].acceptance.id ELSE NoExecution

\* The (revision, state) pairs the table's check constraint allows, with the
\* evidence each requires.
RevisionAllows(i) ==
  \/ i.revision = 1 /\ i.state = "prepared" /\ i.acceptance = NoAcceptance
  \/ i.revision = 2 /\ i.state = "accepted" /\ i.acceptance # NoAcceptance
  \/ i.revision = 3 /\ i.state \in Terminal /\ i.acceptance # NoAcceptance
  \/ i.revision = 4 /\ i.state = "verified_settled" /\ i.acceptance # NoAcceptance

\* Seeded fault: the signed body is not compared.
BindsAnyBody(i, p, b, f) == i.principal = p /\ i.flow \in {NoFlow, f}

\* A row belongs to the caller when principal and signed body agree and it is
\* not attached to another flow (or to a flow when the caller has none).
Binds(i, p, b, f) ==
  /\ i.principal = p
  /\ i.body = b
  /\ i.flow \in {NoFlow, f}

\* A fresh approval renews a row that is still prepared, and only that.
Renewed(i, a) == IF i.state = "prepared" THEN [i EXCEPT !.approval = a] ELSE i
Attached(i, f) == IF i.flow = NoFlow THEN [i EXCEPT !.flow = f] ELSE i

(***************************************************************************)
(* read_durable_settlement_submission_retry                                *)
(***************************************************************************)
RetryConflict(k, p, b, f) == Exists(k) /\ ~Binds(intents[k], p, b, f)

ReadRetry(k, p, b, a, f) ==
  /\ ~RetryConflict(k, p, b, f)
  /\ intents' = IF Exists(k)
                THEN [intents EXCEPT ![k] = Attached(Renewed(@, a), f)]
                ELSE intents
  /\ UNCHANGED events

(***************************************************************************)
(* prepare_durable_settlement_submission: insert on conflict do nothing,   *)
(* then compare what is there with what was asked for.                     *)
(***************************************************************************)
\* Seeded fault: "on conflict do update" instead of "do nothing".
PreparedRowUpsert(k, p, b, a, s, f) ==
  [state |-> "prepared", revision |-> 1, principal |-> p, body |-> b,
   approval |-> a, simulation |-> s, flow |-> f, acceptance |-> NoAcceptance]

PreparedRow(k, p, b, a, s, f) ==
  IF Exists(k) THEN intents[k]
  ELSE [state |-> "prepared", revision |-> 1, principal |-> p, body |-> b,
        approval |-> a, simulation |-> s, flow |-> f,
        acceptance |-> NoAcceptance]

PrepareConflict(k, p, b, s, f) ==
  Exists(k) /\ (~Binds(intents[k], p, b, f) \/ intents[k].simulation # s)

Prepare(k, p, b, a, s, f) ==
  LET row == PreparedRow(k, p, b, a, s, f)
  IN  /\ ~PrepareConflict(k, p, b, s, f)
      /\ intents' = [intents EXCEPT ![k] = Renewed(Attached(row, f), a)]
      /\ events' = IF row.revision = 1 /\ ~\E v \in events[k] : v.revision = 1
                   THEN [events EXCEPT ![k] = @ \cup
                           {[revision |-> 1, kind |-> "prepared",
                             state |-> "prepared"]}]
                   ELSE events

(***************************************************************************)
(* record_durable_settlement_acceptance.  The unique index on execution_id *)
(* refuses an execution another row already carries.                       *)
(***************************************************************************)
\* Seeded fault: a second acceptance is not compared with the first.
AcceptanceConflictAnyExecution(k, p, b, acc) ==
  \/ ~Exists(k)
  \/ intents[k].principal # p \/ intents[k].body # b

AcceptanceConflict(k, p, b, acc) ==
  \/ ~Exists(k)
  \/ intents[k].principal # p \/ intents[k].body # b
  \/ intents[k].state # "prepared" /\ intents[k].acceptance # acc
  \/ intents[k].state = "prepared"
       /\ \E j \in Keys \ {k} : ExecutionOf(j) = acc.id

\* Seeded fault: the latest acceptance wins, whatever the row's state.
RecordAcceptanceLatestWins(k, p, b, acc) ==
  /\ Exists(k)
  /\ intents' = [intents EXCEPT
       ![k].state = IF @ = "prepared" THEN "accepted" ELSE @,
       ![k].revision = IF @ = 1 THEN 2 ELSE @,
       ![k].acceptance = acc]
  /\ events' = [events EXCEPT ![k] = @ \cup
                  {[revision |-> 2, kind |-> "accepted", state |-> "accepted"]}]

RecordAcceptance(k, p, b, acc) ==
  /\ ~AcceptanceConflict(k, p, b, acc)
  /\ IF intents[k].state = "prepared"
     THEN /\ intents' = [intents EXCEPT ![k].state = "accepted",
                                        ![k].acceptance = acc,
                                        ![k].revision = 2]
          /\ events' = [events EXCEPT ![k] = @ \cup
                          {[revision |-> 2, kind |-> "accepted",
                            state |-> "accepted"]}]
     ELSE UNCHANGED journalVars

(***************************************************************************)
(* assert_durable_settlement_observation_access: the row of an execution,  *)
(* for its own principal or for the holder of a proof capability.          *)
(***************************************************************************)
ObservationAccess(k, e, authority) ==
  /\ ExecutionOf(k) = e
  /\ authority \in {intents[k].principal, Capability}

(***************************************************************************)
(* record_durable_settlement_observation.  The evidence a target state     *)
(* must bring, for a job of one transaction (views: module KeeperHub).     *)
(***************************************************************************)
EvidenceSupports(target, view, independent) ==
  CASE target = "verified_settled"     -> view = "success" /\ independent
    [] target = "failed"               -> view \in {"failed", "reverted"}
    [] target = "completed_unverified" -> view \notin {"pending", "failed"}
    [] target = "timeout"              -> view = "missing"

\* Seeded fault: a timed-out submission is never looked at again.
MayAdvanceTimeoutFinal(state, target) ==
  \/ state = "accepted"
  \/ state = "completed_unverified" /\ target = "verified_settled"

MayAdvance(state, target) ==
  \/ state = "accepted"
  \/ state \in {"completed_unverified", "timeout"} /\ target = "verified_settled"

ObservationConflict(k, target) ==
  /\ intents[k].state \notin {"verified_settled", target}
  /\ ~MayAdvance(intents[k].state, target)

\* Seeded fault: a reconciliation is written as another terminal event.
RecordObservationSameRevision(k, target) ==
  /\ ~ObservationConflict(k, target)
  /\ IF MayAdvance(intents[k].state, target)
     THEN /\ intents' = [intents EXCEPT ![k].state = target,
                                        ![k].revision = 3]
          /\ events' = [events EXCEPT ![k] = @ \cup
               {[revision |-> 3, state |-> target, kind |-> "terminal"]}]
     ELSE UNCHANGED journalVars

\* The row after the observation, in either of the ways the function returns:
\* advanced, or as it was (already verified, or already in the target state).
RecordObservation(k, target) ==
  /\ ~ObservationConflict(k, target)
  /\ IF MayAdvance(intents[k].state, target)
     THEN LET rev == IF intents[k].state = "accepted" THEN 3 ELSE 4
          IN  /\ intents' = [intents EXCEPT ![k].state = target,
                                            ![k].revision = rev]
              /\ events' = [events EXCEPT ![k] = @ \cup
                   {[revision |-> rev, state |-> target,
                     kind |-> IF rev = 3 THEN "terminal" ELSE "reconciled"]}]
     ELSE UNCHANGED journalVars

(***************************************************************************)
(* Correctness of the journal by itself.                                   *)
(***************************************************************************)

\* The row never claims a later state than its revision and its evidence
\* allow, and the event table tells the same story: one event for each
\* revision up to the row's, the last one carrying the row's state.  The row
\* and the events are written by four different functions, in any order the
\* handlers interleave them.
JournalCoherent ==
  \A k \in Keys :
    /\ Exists(k) => RevisionAllows(intents[k])
    /\ {v.revision : v \in events[k]} = 1..intents[k].revision
    /\ Cardinality(events[k]) = intents[k].revision
    /\ \A v \in events[k] :
         v.revision = intents[k].revision => v.state = intents[k].state
=============================================================================
