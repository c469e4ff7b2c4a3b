------------------------------ MODULE AgentRuns ------------------------------
(***************************************************************************)
(* Settlement reviews: runs of four bounded agents over one owner's inputs *)
(* for one tab, their lease, and the memory of the latest one.             *)
(*                                                                         *)
(* A worker is one POST /api/agents/runs.  Each SECURITY DEFINER function  *)
(* is a transaction and one step; between two of them a worker may be      *)
(* slow, die, or not hear that its transaction was committed.              *)
(***************************************************************************)
EXTENDS Integers, SequencesExt

CONSTANTS
  Inputs,     \* content hashes of review inputs
  Proposed,   \* those that come with an allocation, so that no model is asked
  Workers, RunIds, NoRun,
  MaxAttempts,             \* requests one run may make of the model
  MaxFaults, MaxForgotten  \* bounds: failures and slow workers; memory deletions

ASSUME RunsAssumption ==
  /\ Proposed \subseteq Inputs /\ NoRun \notin RunIds
  /\ MaxAttempts \in Nat \ {0} /\ MaxFaults \in Nat /\ MaxForgotten \in Nat

VARIABLES
  run,       \* settlement_agent_runs (unique owner, tab, input) with its events
  evidence,  \* confirmed receipts and allocations, named by the run they are for
  memory,    \* settlement_agent_memory "latest.settlement_review"
  worker,    \* the handlers
  answer,    \* what a handler last answered
  clock,     \* completed_at of the run completed last
  asked,     \* history: the input a run id was taken for
  over,      \* history: runs whose lease ended or that failed
  spend,     \* history: requests made of the model for an input
  faults, forgotten

history == <<asked, over, spend>>
vars == <<run, evidence, memory, worker, answer, clock, history, faults, forgotten>>

NoRow == [id |-> NoRun, status |-> "none", stages |-> <<>>, fresh |-> FALSE,
          done |-> 0, result |-> {}]
NoMemory == [there |-> FALSE, source |-> NoRun, done |-> 0, revision |-> 0]
Idle == [pc |-> "idle", id |-> NoRun, stages |-> <<>>, made |-> {},
         caught |-> FALSE, tries |-> 0, prior |-> NoMemory, deduped |-> FALSE]

Terminal == {"ready", "verified", "blocked", "failed"}
Verdict == {"passed", "blocked", "failed", "skipped"}

Held(i, id) == run[i].id = id
Row(id) == CHOOSE i \in Inputs : Held(i, id)
Exists(id) == \E i \in Inputs : Held(i, id)

Init ==
  /\ run = [i \in Inputs |-> NoRow]
  /\ evidence = {} /\ memory = NoMemory
  /\ worker = [w \in Workers |-> Idle] /\ answer = [w \in Workers |-> "none"]
  /\ clock = 0 /\ asked = [id \in {} |-> NoRun] /\ over = {} /\ spend = [i \in Inputs |-> 0]
  /\ faults = 0 /\ forgotten = 0

Fault == faults < MaxFaults /\ faults' = faults + 1

Throw(w) ==
  /\ worker' = [worker EXCEPT ![w] = Idle]
  /\ answer' = [answer EXCEPT ![w] = IF worker[w].deduped THEN "dedupe error" ELSE "error"]

(***************************************************************************)
(* begin_settlement_agent_run                                              *)
(***************************************************************************)
\* Seeded fault: a live run is never replaced, whatever its age.
ReusableForever(row) == row.status \in {"ready", "verified", "blocked", "running"}

\* Seeded fault: only completed runs are reused.
ReusableWhenDone(row) == row.status \in {"ready", "verified", "blocked"}

\* Seeded fault: a blocked review is tried again like a failed one.
ReusableUnlessBlocked(row) ==
  \/ row.status \in {"ready", "verified"}
  \/ row.status = "running" /\ row.fresh

\* What is returned instead of a new run.
Reusable(row) ==
  \/ row.status \in {"ready", "verified", "blocked"}
  \/ row.status = "running" /\ row.fresh

\* Deleting a run empties source_run_id of the memory made from it.
Orphaned(mem, id) == IF id # NoRun /\ mem.source = id THEN [mem EXCEPT !.source = NoRun] ELSE mem

Begin(w, i) ==
  /\ worker[w].pc = "idle"
  /\ \/ /\ Reusable(run[i])
        /\ worker' = [worker EXCEPT ![w] = [Idle EXCEPT
             !.pc = "recall", !.id = run[i].id, !.deduped = TRUE]]
        /\ UNCHANGED <<run, memory, asked>>
     \/ /\ ~Reusable(run[i])
        /\ \E id \in RunIds \ DOMAIN asked :
             /\ run' = [run EXCEPT ![i] = [NoRow EXCEPT
                  !.id = id, !.status = "running", !.fresh = TRUE]]
             /\ asked' = [x \in DOMAIN asked \cup {id} |->
                  IF x = id THEN i ELSE asked[x]]
             /\ worker' = [worker EXCEPT ![w] = [Idle EXCEPT !.pc = "work", !.id = id]]
        /\ memory' = Orphaned(memory, run[i].id)
  /\ answer' = [answer EXCEPT ![w] = "none"]
  /\ UNCHANGED <<evidence, clock, over, spend, faults, forgotten>>

\* Two minutes without an update.  The handlers' wall clock is shorter: a lease
\* that ends under a live worker is that of a stalled one.
LeaseEnds(i) ==
  /\ run[i].status = "running" /\ run[i].fresh
  /\ run' = [run EXCEPT ![i].fresh = FALSE]
  /\ IF \E w \in Workers : worker[w].id = run[i].id /\ ~worker[w].deduped
     THEN Fault ELSE UNCHANGED faults
  /\ over' = over \cup {run[i].id}
  /\ UNCHANGED <<evidence, memory, worker, answer, clock, asked, spend, forgotten>>

(***************************************************************************)
(* The four stages.  A passed first or second stage has stored its receipt *)
(* or allocation; a failed second one may have.                            *)
(***************************************************************************)
Passed(stages) == \A n \in DOMAIN stages : stages[n] = "passed"

\* What a stage may come to, after those before it.
Verdicts(before) ==
  IF Len(before) = 3 THEN {"skipped"}
  ELSE IF ~Passed(before) THEN {"skipped"}
  ELSE IF Len(before) = 2 THEN {"passed", "blocked"}
  ELSE {"passed", "blocked", "failed"}

\* The requests proposeAllocation makes: it tries again when the answer is no
\* proposal or the request fails in passing.  The wall timeout ends the stage,
\* not the loop: what the loop goes on to ask is charged here too.  Without a key
\* the stage is blocked and nothing is asked.
Attempts(verdict) == IF verdict = "passed" THEN 1..MaxAttempts ELSE 0..MaxAttempts

Work(w) ==
  /\ worker[w].pc = "work"
  /\ \E verdict \in Verdicts(worker[w].stages) :
       LET n == Len(worker[w].stages) + 1  id == worker[w].id
           prompts == n = 2 /\ verdict # "skipped" /\ asked[id] \notin Proposed IN
       /\ verdict = "failed" => faults < MaxFaults
       /\ faults' = IF verdict = "failed" THEN faults + 1 ELSE faults
       /\ \E made \in IF n > 2 \/ verdict \in {"blocked", "skipped"} THEN {{}}
                      ELSE IF verdict = "passed" THEN {{<<id, n>>}}
                      ELSE IF n = 1 THEN {{}} ELSE {{}, {<<id, n>>}} :
            /\ evidence' = evidence \cup made
            /\ worker' = [worker EXCEPT ![w].stages = Append(@, verdict),
                 ![w].pc = "record", ![w].made = @ \cup made]
       /\ \E calls \in IF prompts THEN Attempts(verdict) ELSE {0} :
            spend' = [spend EXCEPT ![asked[id]] = @ + calls]
  /\ UNCHANGED <<run, memory, answer, clock, asked, over, forgotten>>

\* record_settlement_agent_stage: the owner's running run, stages in order, and
\* a passed stage names what it stored.
Recordable(id, stages) ==
  /\ Exists(id)
  /\ LET row == run[Row(id)]  n == Len(stages) IN
     /\ row.status = "running" /\ Len(row.stages) + 1 = n
     /\ stages[n] = "passed" /\ n \in {1, 2} => <<id, n>> \in evidence

RecordStage(id, stages) ==
  run' = [run EXCEPT ![Row(id)].stages = Append(@, stages[Len(stages)]),
                     ![Row(id)].fresh = TRUE]

\* Seeded fault: the second attempt to record stage two is not awaited.
StageErrorForgiven(w) ==
  IF Len(worker[w].stages) = 2 /\ worker[w].stages # <<"passed", "skipped">>
  THEN /\ worker' = [worker EXCEPT ![w].stages[2] = "failed", ![w].pc = "work"]
       /\ UNCHANGED answer
  ELSE Throw(w)

\* A call that failed throws, but stage two's try block turns its first failure
\* into the verdict "failed", recorded once more.
StageError(w) ==
  IF /\ Len(worker[w].stages) = 2 /\ Passed(SubSeq(worker[w].stages, 1, 1))
     /\ ~worker[w].caught
  THEN /\ worker' = [worker EXCEPT ![w].stages[2] = "failed", ![w].caught = TRUE]
       /\ UNCHANGED answer
  ELSE Throw(w)

Record(w) ==
  /\ worker[w].pc = "record"
  /\ \/ /\ Recordable(worker[w].id, worker[w].stages)
        /\ RecordStage(worker[w].id, worker[w].stages)
        /\ \/ /\ worker' = [worker EXCEPT
                   ![w].pc = IF Len(worker[w].stages) = 4 THEN "finish" ELSE "work"]
              /\ UNCHANGED <<answer, faults>>
           \/ Fault /\ StageError(w)                 \* the answer is lost
     \/ /\ \/ ~Recordable(worker[w].id, worker[w].stages) /\ UNCHANGED faults
           \/ Fault                                  \* the call is lost
        /\ StageError(w) /\ UNCHANGED run
  /\ UNCHANGED <<evidence, memory, clock, history, forgotten>>

(***************************************************************************)
(* finish_settlement_agent_run.  Handler and function derive the terminal  *)
(* status each from its own record of the stages; they must agree.         *)
(***************************************************************************)
\* Handler's.
TerminalStatus(stages) ==
  IF Contains(stages, "failed") THEN "failed"
  ELSE IF Contains(stages, "blocked") THEN "blocked"
  ELSE IF stages[4] = "passed" THEN "verified" ELSE "ready"

\* Function's.
DerivedStatus(stages) ==
  IF Contains(stages, "failed") THEN "failed"
  ELSE IF Contains(stages, "blocked") THEN "blocked"
  ELSE IF ~Passed(SubSeq(stages, 1, 3)) THEN "blocked"
  ELSE IF stages[4] = "passed" THEN "verified"
  ELSE IF stages[4] = "skipped" THEN "ready" ELSE "blocked"

Finishable(id, status) ==
  /\ Exists(id)
  /\ LET row == run[Row(id)] IN
     row.status = "running" /\ Len(row.stages) = 4 /\ DerivedStatus(row.stages) = status

Finish(w) ==
  /\ worker[w].pc = "finish"
  /\ LET id == worker[w].id  status == TerminalStatus(worker[w].stages) IN
     \/ /\ Finishable(id, status)
        /\ run' = [run EXCEPT ![Row(id)].status = status,
             ![Row(id)].done = clock + 1, ![Row(id)].result = worker[w].made]
        /\ clock' = clock + 1
        /\ over' = IF status = "failed" THEN over \cup {id} ELSE over
        /\ \/ worker' = [worker EXCEPT ![w].pc = "recall"] /\ UNCHANGED <<answer, faults>>
           \/ Fault /\ Throw(w)
     \/ /\ \/ ~Finishable(id, status) /\ UNCHANGED faults
           \/ Fault
        /\ Throw(w) /\ UNCHANGED <<run, clock, over>>
  /\ UNCHANGED <<evidence, memory, asked, spend, forgotten>>

(***************************************************************************)
(* Reading a run and remembering it.                                       *)
(***************************************************************************)
\* A running row was attested for stage count zero, a terminal one for what it
\* became; a memory, for the source it was made from.
RunAttested(row) ==
  \/ row.status \in Terminal
  \/ row.status = "running" /\ row.stages = <<>>
MemoryAttested(mem) == mem.source # NoRun

\* shouldReplaceLatestMemory
Replaces(mem, row) ==
  \/ ~mem.there \/ ~MemoryAttested(mem)
  \/ mem.source # row.id /\ row.done > mem.done

Remembers(w, row) == row.status \in Terminal /\ Replaces(memory, row)

\* getSettlementAgentRun, and readLatestMemoryRow for a terminal run.
Recall(w) ==
  /\ worker[w].pc = "recall"
  /\ LET id == worker[w].id IN
     \/ /\ ~(Exists(id) /\ RunAttested(run[Row(id)]))
        /\ Throw(w)
     \/ /\ Exists(id) /\ RunAttested(run[Row(id)])
        /\ worker' = [worker EXCEPT ![w].prior = memory,
             ![w].pc = IF Remembers(w, run[Row(id)]) THEN "remember" ELSE "answer"]
        /\ UNCHANGED answer
  /\ UNCHANGED <<run, evidence, memory, clock, history, faults, forgotten>>

\* Seeded fault: the revision is not compared.
RevisionAnyway(prior) == TRUE

\* memory revision conflict, and new memory must start at revision one
RevisionFits(prior) == memory.revision = prior.revision

\* remember_settlement_agent_run, three attempts.  The run's summary was read
\* before and does not change; only the memory is read again.
Remember(w) ==
  /\ worker[w].pc = "remember"
  /\ LET id == worker[w].id IN
     \/ /\ ~Exists(id) /\ Throw(w) /\ UNCHANGED memory
     \/ /\ Exists(id) /\ RevisionFits(worker[w].prior)
        /\ memory' = [there |-> TRUE, source |-> id, done |-> run[Row(id)].done,
                      revision |-> worker[w].prior.revision + 1]
        /\ worker' = [worker EXCEPT ![w].pc = "answer"] /\ UNCHANGED answer
     \/ /\ Exists(id) /\ ~RevisionFits(worker[w].prior) /\ worker[w].tries < 2
        /\ worker' = [worker EXCEPT ![w].tries = @ + 1, ![w].prior = memory,
             ![w].pc = IF Replaces(memory, run[Row(id)]) THEN "remember" ELSE "answer"]
        /\ UNCHANGED <<answer, memory>>
     \/ /\ Exists(id) /\ ~RevisionFits(worker[w].prior) /\ worker[w].tries = 2
        /\ IF memory.there /\ MemoryAttested(memory)
           THEN worker' = [worker EXCEPT ![w].pc = "answer"] /\ UNCHANGED answer
           ELSE Throw(w)
        /\ UNCHANGED memory
  /\ UNCHANGED <<run, evidence, clock, history, faults, forgotten>>

\* The run is read once more for the answer.
Answer(w) ==
  /\ worker[w].pc = "answer"
  /\ IF Exists(worker[w].id) /\ RunAttested(run[Row(worker[w].id)])
     THEN /\ worker' = [worker EXCEPT ![w] = Idle]
          /\ answer' = [answer EXCEPT ![w] = "run"]
     ELSE Throw(w)
  /\ UNCHANGED <<run, evidence, memory, clock, history, faults, forgotten>>

Crash(w) ==
  /\ worker[w].pc # "idle" /\ Fault
  /\ worker' = [worker EXCEPT ![w] = Idle]
  /\ answer' = [answer EXCEPT ![w] = "none"]
  /\ UNCHANGED <<run, evidence, memory, clock, history, forgotten>>

\* The memory's retention ends, or its owner deletes it.
Forget ==
  /\ memory.there /\ forgotten < MaxForgotten
  /\ memory' = NoMemory /\ forgotten' = forgotten + 1
  /\ UNCHANGED <<run, evidence, worker, answer, clock, history, faults>>

\* GET /api/agents/runs and /api/agents/memory
List == UNCHANGED vars

Step(w) == Work(w) \/ Record(w) \/ Finish(w) \/ Recall(w) \/ Remember(w) \/ Answer(w)

Next ==
  \/ \E w \in Workers : Step(w) \/ Crash(w) \/ \E i \in Inputs : Begin(w, i)
  \/ \E i \in Inputs : LeaseEnds(i)
  \/ Forget \/ List

Spec == Init /\ [][Next]_vars

Reviewed(i) == run[i].status \in Terminal

\* A handler that lives goes on, time passes, and an owner who wants a review
\* asks again with the same input until there is one.
FairSpec ==
  /\ Spec
  /\ \A w \in Workers : WF_vars(Step(w))
  /\ \A i \in Inputs : /\ WF_vars(LeaseEnds(i))
                       /\ SF_vars(\E w \in Workers : Begin(w, i))

(***************************************************************************)
(* Properties                                                              *)
(***************************************************************************)
RunRow == [id : RunIds \cup {NoRun}, status : {"none", "running"} \cup Terminal,
           stages : Seq(Verdict), fresh : BOOLEAN, done : Nat,
           result : SUBSET (RunIds \X (1..2))]
Summary == [there : BOOLEAN, source : RunIds \cup {NoRun}, done : Nat,
            revision : Nat]
Handler ==
  [pc : {"idle", "work", "record", "finish", "recall", "remember", "answer"},
   id : RunIds \cup {NoRun}, stages : Seq(Verdict),
   made : SUBSET (RunIds \X (1..2)), caught : BOOLEAN, tries : 0..2,
   prior : Summary, deduped : BOOLEAN]

\* Type correctness.
RunsTypeOK ==
  /\ run \in [Inputs -> RunRow]
  /\ evidence \subseteq RunIds \X (1..2)
  /\ memory \in Summary
  /\ worker \in [Workers -> Handler]
  /\ answer \in [Workers -> {"none", "run", "error", "dedupe error"}]
  /\ clock \in Nat
  /\ DOMAIN asked \subseteq RunIds /\ IsFiniteSet(DOMAIN asked)
  /\ asked \in [DOMAIN asked -> Inputs]
  /\ over \subseteq DOMAIN asked
  /\ spend \in [Inputs -> Nat]
  /\ faults \in 0..MaxFaults /\ forgotten \in 0..MaxForgotten

\* Spend is bounded: beyond the attempts of one run, the model is asked about an
\* input only for a run that replaces one that failed or lost its lease, whoever
\* asks at the same time.
SpendBounded ==
  \A i \in Inputs :
    spend[i] <= MaxAttempts * (1 + Cardinality({id \in over : asked[id] = i}))

\* What unlocks signing has been reviewed: a ready run has passed every stage
\* before the proof, and names the receipt and the allocation stored for it, also
\* when a stage was recorded and its worker was told that it was not.
ReadyIsReviewed ==
  \A i \in Inputs : run[i].status \in {"ready", "verified"} =>
    /\ Passed(SubSeq(run[i].stages, 1, 3))
    /\ run[i].result = {<<run[i].id, 1>>, <<run[i].id, 2>>}

\* Handler and database never disagree about what a review came to: a handler
\* about to finish a run that is still its own is not refused.
StatusesAgree ==
  \A w \in Workers :
    worker[w].pc = "finish" /\ Exists(worker[w].id)
      /\ run[Row(worker[w].id)].status = "running"
    => Finishable(worker[w].id, TerminalStatus(worker[w].stages))

(***************************************************************************)
(* The inductive invariant behind these.                                   *)
(***************************************************************************)
\* A row is completed exactly when all four stages are in and it is terminal;
\* it belongs to the run that was begun for its input last, and one that may be
\* replaced had its lease end or failed.
RowOK(i) ==
  LET row == run[i] IN
  /\ row.id = NoRun <=> row.status = "none"
  /\ row.id # NoRun => row.id \in DOMAIN asked /\ asked[row.id] = i
  /\ row.done > 0 <=> row.status \in Terminal
  /\ row.done <= clock
  /\ row.done > 0 => Len(row.stages) = 4
  /\ row.result \subseteq evidence
  /\ row.id # NoRun /\ ~Reusable(row) => row.id \in over

\* The verdicts of a review: a stage before the last is skipped only after one
\* that did not pass, and the last always is.
Sound(stages) ==
  /\ Len(stages) <= 4
  /\ Len(stages) = 4 => stages[4] = "skipped"
  /\ \A n \in 1..Len(stages) : n < 4 /\ stages[n] = "skipped" =>
       \E m \in 1..(n - 1) : stages[m] \in {"blocked", "failed"}

\* The row has all the worker has, but the stage it is about to record; or that
\* one too, when it was recorded and the worker was told otherwise.
InStep(x, row) ==
  \/ x.pc \in {"work", "finish"} /\ row.stages = x.stages
  \/ x.pc = "record" /\ x.stages = Append(row.stages, x.stages[Len(x.stages)])
  \/ x.pc = "record" /\ x.caught /\ Len(row.stages) = 2 /\ Len(x.stages) = 2

\* A worker that still runs the review it began.
Reviewing(w) == worker[w].pc \in {"work", "record", "finish"}

WorkerOK(w) ==
  LET x == worker[w] IN
  /\ x.pc # "idle" => x.id \in DOMAIN asked
  /\ Reviewing(w) =>
       /\ \A v \in Workers : Reviewing(v) /\ worker[v].id = x.id => v = w
       /\ Sound(x.stages)
       /\ CASE x.pc = "work"   -> Len(x.stages) < 4
            [] x.pc = "record" -> Len(x.stages) > 0
            [] x.pc = "finish" -> Len(x.stages) = 4
       /\ x.made \subseteq evidence \cap {<<x.id, 1>>, <<x.id, 2>>}
       /\ \A n \in 1..2 : n <= Len(x.stages) /\ x.stages[n] = "passed" =>
            <<x.id, n>> \in x.made
       /\ \A i \in Inputs :
            run[i].id = x.id /\ run[i].status = "running" => InStep(x, run[i])

\* The model may still be asked for this run, by the worker that began it.
MayPrompt(id) ==
  \E w \in Workers : /\ worker[w].pc \in {"work", "record"}
                     /\ worker[w].id = id /\ Len(worker[w].stages) <= 1
Charged(i) == {id \in DOMAIN asked : asked[id] = i /\ ~MayPrompt(id)}

SpendOK ==
  /\ \A i \in Inputs : spend[i] <= MaxAttempts * Cardinality(Charged(i))
  /\ \A id \in DOMAIN asked : id \in over \/ run[asked[id]].id = id

\* What a worker about to remember knows of the memory: as long as nobody
\* deleted one, an equal revision is an equal summary, but for a source that a
\* newer run of the same input has deleted.
MemoryOK(w) ==
  LET x == worker[w] IN
  x.pc = "remember" =>
    /\ Exists(x.id) => /\ run[asked[x.id]].status \in Terminal
                       /\ Replaces(x.prior, run[asked[x.id]])
    /\ forgotten = 0 =>
         /\ x.prior.revision <= memory.revision
         /\ x.prior.revision = memory.revision =>
              /\ memory.there = x.prior.there /\ memory.done = x.prior.done
              /\ memory.source \in {x.prior.source, NoRun}

\* A review is what its stages made it: rows, workers and evidence are of their
\* types and in step, handler and database derive the same outcome, and what
\* unlocks signing has passed every stage and names what was stored for it.
RunInvariant ==
  /\ RunsTypeOK
  /\ \A i \in Inputs : RowOK(i)
  /\ \A w \in Workers : WorkerOK(w) /\ MemoryOK(w)
  /\ SpendOK
  /\ ReadyIsReviewed
  /\ StatusesAgree

\* A review that was completed without a failure stays as it is: no late worker,
\* no retry and no second request takes it away (a frozen flow refers to it).
ReviewKept ==
  [][\A i \in Inputs :
       run[i].status \in {"ready", "verified", "blocked"} => run'[i] = run[i]]_vars

\* A summary whose run still exists is only replaced by that of a later one,
\* though completions and repairs of several workers race for the key; until the
\* memory is deleted for the first time.
SummaryAdvances ==
  [][forgotten = 0 /\ memory.there /\ memory'.there /\ MemoryAttested(memory) =>
       memory'.done >= memory.done]_vars

\* "A crashed pending/running attempt must not poison this exact input for
\* eternity": an owner who keeps asking gets a completed review.
ReviewEnds == \A i \in Inputs : ~Reviewed(i) ~> Reviewed(i)

\* "let a later content-hash dedupe repair a genuinely missing row": a completed
\* review is remembered, or a later one is, although a worker died in between or
\* the memory was deleted.
ReviewRemembered ==
  \A i \in Inputs :
    Reviewed(i) ~> (Reviewed(i) => memory.there /\ memory.done >= run[i].done)

(***************************************************************************)
(* Stated in the documents and not kept by the code; see the README,       *)
(* "Disagreements".  No run expects it to hold.                            *)
(***************************************************************************)
\* "call Groq once per content hash", "without duplicating model spend": beyond
\* one request, the model is asked about an input only for a run that replaces
\* another.  One run may ask three times.
AskedOncePerContent ==
  \A i \in Inputs : spend[i] <= 1 + Cardinality({id \in over : asked[id] = i})

\* "concurrent identical requests dedupe": where nothing fails, a request that
\* meets a live run is answered with that run.
DedupeAnswered == \A w \in Workers : answer[w] # "dedupe error"

\* "A deduped retry of an older run must not roll the tab's compact summary
\* backwards after a newer terminal run has already won the CAS."
NeverBackwards ==
  [][memory.there /\ memory'.there => memory'.done >= memory.done]_vars

\* "We retry the compare-and-swap, preserve the newer completion": the same when
\* the owner deletes the memory and another worker writes it anew.
NewerPreserved ==
  [][memory.there /\ memory'.there /\ MemoryAttested(memory) =>
       memory'.done >= memory.done]_vars
=============================================================================
