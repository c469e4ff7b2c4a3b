--------------------------- MODULE AgentRuns_proofs ---------------------------
(***************************************************************************)
(* Theorems about AgentRuns, for any number of inputs, workers, run ids,   *)
(* faults and deletions.                                                   *)
(***************************************************************************)
EXTENDS AgentRuns, FiniteSetTheorems, SequenceTheorems, TLAPS

(***************************************************************************)
(* The invariant without what follows from the rest of it.                 *)
(***************************************************************************)
ReviewedOK(i) ==
  run[i].status \in {"ready", "verified"} =>
    /\ Passed(SubSeq(run[i].stages, 1, 3))
    /\ run[i].result = {<<run[i].id, 1>>, <<run[i].id, 2>>}

Core ==
  /\ RunsTypeOK
  /\ \A i \in Inputs : RowOK(i) /\ ReviewedOK(i)
  /\ \A w \in Workers : WorkerOK(w) /\ MemoryOK(w)
  /\ SpendOK

(***************************************************************************)
(* What so many runs may spend.                                            *)
(***************************************************************************)
LEMMA RunsSpend ==
  ASSUME NEW a \in Nat, NEW b \in Nat, a <= b
  PROVE  /\ MaxAttempts \in Nat /\ MaxAttempts * a \in Nat
         /\ MaxAttempts * a <= MaxAttempts * b
<1>1. MaxAttempts \in Nat
  BY RunsAssumption
<1>2. PICK d \in Nat : b = a + d
  <2>1. b - a \in Nat /\ b = a + (b - a)
    OBVIOUS
  <2> QED BY <2>1
<1>3. MaxAttempts * b = MaxAttempts * a + MaxAttempts * d
  BY <1>1, <1>2
<1>4. MaxAttempts * a \in Nat /\ MaxAttempts * d \in Nat
  BY <1>1
<1> QED BY <1>1, <1>3, <1>4

LEMMA MoreRuns ==
  ASSUME NEW a \in Nat, NEW b \in Nat, a <= b, NEW s \in Nat, s <= MaxAttempts * a
  PROVE  s <= MaxAttempts * b
<1>1. MaxAttempts * a <= MaxAttempts * b /\ MaxAttempts * a \in Nat
  BY RunsSpend
<1>2. MaxAttempts * b \in Nat
  BY RunsAssumption
<1> QED BY <1>1, <1>2

LEMMA OneMoreRun ==
  ASSUME NEW a \in Nat, NEW b \in Nat, a + 1 <= b, NEW s \in Nat, s <= MaxAttempts * a,
         NEW c \in 0..MaxAttempts
  PROVE  s + c <= MaxAttempts * b
<1>1. MaxAttempts * (a + 1) <= MaxAttempts * b /\ MaxAttempts \in Nat
  BY RunsSpend
<1>2. MaxAttempts * (a + 1) = MaxAttempts * a + MaxAttempts
  BY <1>1
<1>3. MaxAttempts * a \in Nat /\ MaxAttempts * b \in Nat
  BY <1>1
<1> QED BY <1>1, <1>2, <1>3

(***************************************************************************)
(* Sequences of verdicts.                                                  *)
(***************************************************************************)
LEMMA VerdictAt ==
  ASSUME NEW s \in Seq(Verdict), NEW n \in 1..Len(s)
  PROVE  s[n] \in Verdict
OBVIOUS

LEMMA AppendVerdict ==
  ASSUME NEW s \in Seq(Verdict), NEW v \in Verdict
  PROVE  /\ Append(s, v) \in Seq(Verdict) /\ Len(Append(s, v)) = Len(s) + 1
         /\ \A n \in 1..Len(s) : Append(s, v)[n] = s[n]
         /\ Append(s, v)[Len(s) + 1] = v
OBVIOUS

LEMMA FirstPassed ==
  ASSUME NEW s \in Seq(Verdict), NEW m \in 1..Len(s)
  PROVE  Passed(SubSeq(s, 1, m)) <=> \A n \in 1..m : s[n] = "passed"
<1>1. /\ Len(SubSeq(s, 1, m)) = m /\ SubSeq(s, 1, m) \in Seq(Verdict)
      /\ \A n \in 1..m : SubSeq(s, 1, m)[n] = s[n]
  OBVIOUS
<1>2. DOMAIN SubSeq(s, 1, m) = 1..m
  BY <1>1
<1> QED BY <1>1, <1>2 DEF Passed

\* Handler and function derive the same status from the stages of a review.
LEMMA SameStatus ==
  ASSUME NEW s \in Seq(Verdict), Len(s) = 4, Sound(s)
  PROVE  TerminalStatus(s) = DerivedStatus(s)
<1>1. /\ Contains(s, "failed") <=> \E n \in 1..4 : s[n] = "failed"
      /\ Contains(s, "blocked") <=> \E n \in 1..4 : s[n] = "blocked"
  BY DEF Contains
<1>2. s[4] = "skipped" /\ \A n \in 1..4 : s[n] \in Verdict
  BY VerdictAt DEF Sound
<1>3. ASSUME ~Contains(s, "failed"), ~Contains(s, "blocked")
      PROVE  Passed(SubSeq(s, 1, 3))
  <2>1. \A n \in 1..3 : s[n] # "skipped"
    <3> SUFFICES ASSUME NEW n \in 1..3, s[n] = "skipped"
                 PROVE  FALSE
      OBVIOUS
    <3>1. PICK m \in 1..(n - 1) : s[m] \in {"blocked", "failed"}
      BY DEF Sound
    <3> QED BY <1>1, <1>3, <3>1
  <2>2. \A n \in 1..3 : s[n] = "passed"
    BY <1>1, <1>2, <1>3, <2>1 DEF Verdict
  <2> QED BY <2>2, FirstPassed
<1> QED BY <1>2, <1>3 DEF TerminalStatus, DerivedStatus

\* The next verdict of a worker keeps its review sound.
LEMMA NextVerdict ==
  ASSUME NEW s \in Seq(Verdict), Len(s) < 4, Sound(s), NEW v \in Verdicts(s)
  PROVE  v \in Verdict /\ Sound(Append(s, v))
<1>1. v \in Verdict
  BY DEF Verdicts, Verdict
<1> DEFINE t == Append(s, v)
<1>2. /\ Len(t) = Len(s) + 1 /\ t \in Seq(Verdict) /\ t[Len(s) + 1] = v
      /\ \A n \in 1..Len(s) : t[n] = s[n]
  BY <1>1, AppendVerdict
<1> HIDE DEF t
<1>3. Len(t) = 4 => t[4] = "skipped"
  <2> SUFFICES ASSUME Len(t) = 4
               PROVE  t[4] = "skipped"
    OBVIOUS
  <2>1. Len(s) = 3
    <3>1. Len(s) \in Nat
      BY LenProperties
    <3>2. Len(t) = Len(s) + 1
      BY <1>2
    <3>3. \A k \in Nat : k + 1 = 4 => k = 3
      OBVIOUS
    <3> QED BY <3>1, <3>2, <3>3, Zenon
  <2>2. v = "skipped"
    BY <2>1 DEF Verdicts
  <2>3. t[3 + 1] = v
    BY <1>2, <2>1
  <2> QED BY <2>2, <2>3
<1>4. ASSUME NEW n \in 1..Len(t), n < 4, t[n] = "skipped"
      PROVE  \E m \in 1..(n - 1) : t[m] \in {"blocked", "failed"}
  <2>1. CASE n <= Len(s)
    <3>1. PICK m \in 1..(n - 1) : s[m] \in {"blocked", "failed"}
      BY <1>2, <1>4, <2>1 DEF Sound
    <3>2. t[m] = s[m]
      BY <1>2, <2>1
    <3> QED BY <3>1, <3>2
  <2>2. CASE n = Len(s) + 1
    <3>1. ~Passed(s)
      BY <1>2, <1>4, <2>2 DEF Verdicts
    <3>2. PICK m \in 1..Len(s) : s[m] # "passed"
      BY <3>1 DEF Passed
    <3>3. s[m] \in Verdict /\ m < 4
      BY VerdictAt
    <3>4. \E k \in 1..Len(s) : s[k] \in {"blocked", "failed"}
      <4>1. CASE s[m] = "skipped"
        BY <3>3, <4>1 DEF Sound
      <4>2. CASE s[m] # "skipped"
        BY <3>2, <3>3, <4>2 DEF Verdict
      <4> QED BY <4>1, <4>2
    <3> QED BY <1>2, <2>2, <3>4
  <2> QED BY <1>2, <2>1, <2>2
<1> QED BY <1>1, <1>2, <1>3, <1>4 DEF Sound, t

\* A stage that is turned into "failed" keeps it sound as well.
LEMMA FailedVerdict ==
  ASSUME NEW s \in Seq(Verdict), Len(s) = 2, Sound(s),
         NEW t, t = [s EXCEPT ![2] = "failed"]
  PROVE  /\ t \in Seq(Verdict) /\ Len(t) = 2 /\ Sound(t)
         /\ t[1] = s[1] /\ t[2] = "failed"
<1>1. /\ t \in Seq(Verdict) /\ Len(t) = 2 /\ t[1] = s[1] /\ t[2] = "failed"
  <2>1. 1 \in 1..Len(s) /\ 2 \in 1..Len(s) /\ "failed" \in Verdict
    BY DEF Verdict
  <2>2. t \in Seq(Verdict) /\ Len(t) = 2
    BY <2>1, ExceptSeq
  <2> QED BY <2>1, <2>2, ExceptSeq
<1>2. s[1] # "skipped"
  <2> SUFFICES ASSUME s[1] = "skipped"
               PROVE  FALSE
    OBVIOUS
  <2>1. 1 \in 1..Len(s) /\ 1 < 4
    OBVIOUS
  <2>2. \E m \in 1..(1 - 1) : s[m] \in {"blocked", "failed"}
    BY <2>1 DEF Sound
  <2>3. 1..(1 - 1) = {}
    OBVIOUS
  <2> QED BY <2>2, <2>3
<1>3. ASSUME NEW n \in 1..2, t[n] = "skipped"
      PROVE  FALSE
  <2>1. t[n] = "skipped" /\ (n = 1 \/ n = 2)
    BY <1>3
  <2>2. t[1] # "skipped" /\ t[2] # "skipped"
    BY <1>1, <1>2
  <2> QED BY <2>1, <2>2
<1>4. 2 <= 4 /\ 2 # 4
  OBVIOUS
<1>5. Sound(t)
  BY <1>1, <1>3, <1>4, Zenon DEF Sound
<1> QED BY <1>1, <1>5

(***************************************************************************)
(* Which row an id names.                                                  *)
(***************************************************************************)
LEMMA RowNamed ==
  ASSUME \A j \in Inputs : RowOK(j), NEW i \in Inputs, run[i].id # NoRun
  PROVE  /\ run[i].id \in DOMAIN asked /\ asked[run[i].id] = i
         /\ Row(run[i].id) = i /\ Exists(run[i].id)
         /\ \A j \in Inputs : run[j].id = run[i].id => j = i
<1>1. \A j \in Inputs : run[j].id = run[i].id => j = i
  BY DEF RowOK
<1>2. Held(i, run[i].id)
  BY DEF Held
<1>3. Row(run[i].id) = i
  BY <1>1, <1>2 DEF Row, Held
<1> QED BY <1>1, <1>2, <1>3 DEF RowOK, Exists

LEMMA RowOf ==
  ASSUME RunsTypeOK, \A j \in Inputs : RowOK(j), NEW id \in DOMAIN asked,
         Exists(id)
  PROVE  /\ Row(id) = asked[id] /\ asked[id] \in Inputs
         /\ run[asked[id]].id = id
<1>1. PICK i \in Inputs : run[i].id = id
  BY DEF Exists, Held
<1>2. id # NoRun
  BY RunsAssumption DEF RunsTypeOK
<1> QED BY <1>1, <1>2, RowNamed

(***************************************************************************)
(* Types.                                                                  *)
(***************************************************************************)
LEMMA Constants ==
  ASSUME RunsTypeOK
  PROVE  /\ Idle \in Handler /\ NoRow \in RunRow /\ NoMemory \in Summary
         /\ \A w \in Workers : worker[w] \in Handler
         /\ \A i \in Inputs : run[i] \in RunRow
<1>1. NoMemory \in Summary
  BY DEF NoMemory, Summary
<1>2. <<>> \in Seq(Verdict)
  OBVIOUS
<1>3. Idle \in Handler
  BY <1>1, <1>2 DEF Idle, Handler
<1>4. NoRow \in RunRow
  BY <1>2 DEF NoRow, RunRow
<1> QED BY <1>1, <1>3, <1>4 DEF RunsTypeOK

LEMMA FaultTypes ==
  ASSUME RunsTypeOK, Fault
  PROVE  faults' \in 0..MaxFaults
<1>1. faults \in 0..MaxFaults /\ faults < MaxFaults /\ faults' = faults + 1
  BY DEF RunsTypeOK, Fault
<1>2. MaxFaults \in Nat
  BY RunsAssumption
<1> QED BY <1>1, <1>2

LEMMA ThrowTypes ==
  ASSUME RunsTypeOK, NEW w \in Workers, Throw(w)
  PROVE  /\ worker' \in [Workers -> Handler]
         /\ answer' \in [Workers -> {"none", "run", "error", "dedupe error"}]
BY Constants DEF Throw, RunsTypeOK

LEMMA BeginTypes ==
  ASSUME RunsTypeOK, NEW w \in Workers, NEW i \in Inputs, Begin(w, i)
  PROVE  RunsTypeOK'
<1> USE DEF RunsTypeOK
<1>0. /\ evidence' = evidence /\ clock' = clock /\ over' = over /\ spend' = spend
      /\ faults' = faults /\ forgotten' = forgotten
      /\ answer' \in [Workers -> {"none", "run", "error", "dedupe error"}]
  BY DEF Begin
<1>1. CASE Reusable(run[i])
  <2>1. [Idle EXCEPT !.pc = "recall", !.id = run[i].id, !.deduped = TRUE] \in Handler
    BY Constants DEF Handler, RunRow
  <2>2. worker' \in [Workers -> Handler]
    BY <1>1, <2>1 DEF Begin
  <2> QED BY <1>0, <1>1, <2>2 DEF Begin
<1>2. CASE ~Reusable(run[i])
  <2>1. PICK id \in RunIds \ DOMAIN asked :
          /\ run' = [run EXCEPT ![i] = [NoRow EXCEPT
               !.id = id, !.status = "running", !.fresh = TRUE]]
          /\ asked' = [x \in DOMAIN asked \cup {id} |->
               IF x = id THEN i ELSE asked[x]]
          /\ worker' = [worker EXCEPT ![w] = [Idle EXCEPT !.pc = "work", !.id = id]]
    BY <1>2 DEF Begin
  <2>2. [Idle EXCEPT !.pc = "work", !.id = id] \in Handler
    BY Constants DEF Handler
  <2>3. [NoRow EXCEPT !.id = id, !.status = "running", !.fresh = TRUE] \in RunRow
    BY Constants DEF RunRow
  <2>4. worker' \in [Workers -> Handler] /\ run' \in [Inputs -> RunRow]
    BY <2>1, <2>2, <2>3
  <2>5. memory' \in Summary
    <3>1. memory' = Orphaned(memory, run[i].id)
      BY <1>2 DEF Begin
    <3> QED BY <3>1 DEF Orphaned, Summary
  <2>6. DOMAIN asked' = DOMAIN asked \cup {id}
    BY <2>1
  <2>7. IsFiniteSet(DOMAIN asked')
    <3>1. IsFiniteSet(DOMAIN asked)
      OBVIOUS
    <3> HIDE DEF RunsTypeOK
    <3> QED BY <2>6, <3>1, FS_AddElement
  <2>8. asked' \in [DOMAIN asked' -> Inputs]
    BY <2>1, <2>6
  <2> QED BY <1>0, <2>4, <2>5, <2>6, <2>7, <2>8
<1> QED BY <1>1, <1>2

LEMMA LeaseTypes ==
  ASSUME RunsTypeOK, \A j \in Inputs : RowOK(j), NEW i \in Inputs, LeaseEnds(i)
  PROVE  RunsTypeOK'
<1> USE DEF RunsTypeOK
<1>1. run[i].id \in DOMAIN asked
  <2>1. run[i].status # "none"
    BY DEF LeaseEnds
  <2> QED BY <2>1 DEF RowOK
<1>2. run' \in [Inputs -> RunRow] /\ over' \subseteq DOMAIN asked
  BY <1>1 DEF LeaseEnds, RunRow
<1>3. faults' \in 0..MaxFaults
  <2>1. faults' = faults \/ Fault
    BY DEF LeaseEnds
  <2> QED BY <2>1, FaultTypes
<1> QED BY <1>2, <1>3 DEF LeaseEnds

\* The model is asked in the second stage only.
Charges(w, n, verdict) ==
  \E calls \in IF n = 2 /\ verdict # "skipped" /\ asked[worker[w].id] \notin Proposed
               THEN Attempts(verdict) ELSE {0} :
    spend' = [spend EXCEPT ![asked[worker[w].id]] = @ + calls]

\* What a handler that works does, when the n-th stage comes to a verdict and
\* stores what that verdict is about.
WorkStep(w, n, verdict, made) ==
  /\ verdict \in Verdicts(worker[w].stages)
  /\ verdict = "failed" => faults < MaxFaults
  /\ faults' = IF verdict = "failed" THEN faults + 1 ELSE faults
  /\ made \subseteq {<<worker[w].id, n>>} /\ (n > 2 => made = {})
  /\ verdict = "passed" /\ n <= 2 => made = {<<worker[w].id, n>>}
  /\ evidence' = evidence \cup made
  /\ worker' = [worker EXCEPT ![w].stages = Append(@, verdict),
       ![w].pc = "record", ![w].made = @ \cup made]
  /\ Charges(w, n, verdict)

LEMMA WorkSteps ==
  ASSUME NEW w \in Workers, worker[w].stages \in Seq(Verdict), Work(w)
  PROVE  \E verdict, made : WorkStep(w, Len(worker[w].stages) + 1, verdict, made)
<1>1. PICK n \in Nat : n = Len(worker[w].stages) + 1
  BY LenProperties
<1>2. PICK verdict \in Verdicts(worker[w].stages) :
        /\ verdict = "failed" => faults < MaxFaults
        /\ faults' = IF verdict = "failed" THEN faults + 1 ELSE faults
        /\ \E made \in IF n > 2 \/ verdict \in {"blocked", "skipped"} THEN {{}}
                       ELSE IF verdict = "passed" THEN {{<<worker[w].id, n>>}}
                       ELSE IF n = 1 THEN {{}} ELSE {{}, {<<worker[w].id, n>>}} :
             /\ evidence' = evidence \cup made
             /\ worker' = [worker EXCEPT ![w].stages = Append(@, verdict),
                  ![w].pc = "record", ![w].made = @ \cup made]
        /\ \E calls \in IF (n = 2 /\ verdict # "skipped")
                             /\ asked[worker[w].id] \notin Proposed
                        THEN Attempts(verdict) ELSE {0} :
             spend' = [spend EXCEPT ![asked[worker[w].id]] = @ + calls]
  BY <1>1, Zenon DEF Work
<1>3. PICK made \in IF n > 2 \/ verdict \in {"blocked", "skipped"} THEN {{}}
                   ELSE IF verdict = "passed" THEN {{<<worker[w].id, n>>}}
                   ELSE IF n = 1 THEN {{}} ELSE {{}, {<<worker[w].id, n>>}} :
             /\ evidence' = evidence \cup made
             /\ worker' = [worker EXCEPT ![w].stages = Append(@, verdict),
                  ![w].pc = "record", ![w].made = @ \cup made]
  BY <1>2
<1>4. /\ made \subseteq {<<worker[w].id, n>>} /\ (n > 2 => made = {})
      /\ verdict = "passed" /\ n <= 2 => made = {<<worker[w].id, n>>}
  BY <1>1, <1>3
<1>5. Charges(w, n, verdict)
  BY <1>2 DEF Charges
<1>6. WorkStep(w, n, verdict, made)
  BY <1>2, <1>3, <1>4, <1>5, Zenon DEF WorkStep
<1> QED BY <1>1, <1>6

\* A run is charged for its own input alone, and for no more than its attempts.
LEMMA OwnCharge ==
  ASSUME RunsTypeOK, NEW w \in Workers, worker[w].id \in DOMAIN asked,
         NEW n \in Nat, NEW verdict, Charges(w, n, verdict)
  PROVE  /\ spend' \in [Inputs -> Nat]
         /\ \A i \in Inputs :
              \/ spend'[i] = spend[i]
              \/ /\ n = 2 /\ asked[worker[w].id] = i
                 /\ \E c \in 0..MaxAttempts : spend'[i] = spend[i] + c
<1>1. /\ asked[worker[w].id] \in Inputs /\ spend \in [Inputs -> Nat]
      /\ MaxAttempts \in Nat
  BY RunsAssumption DEF RunsTypeOK
<1>2. PICK calls \in IF n = 2 /\ verdict # "skipped" /\ asked[worker[w].id] \notin Proposed
                     THEN Attempts(verdict) ELSE {0} :
        spend' = [spend EXCEPT ![asked[worker[w].id]] = @ + calls]
  BY DEF Charges
<1>3. calls \in 0..MaxAttempts /\ (n # 2 => calls = 0)
  BY <1>1, <1>2 DEF Attempts
<1>4. calls \in Nat
  BY <1>1, <1>3
<1>5. ASSUME NEW i \in Inputs
      PROVE  spend'[i] = IF i = asked[worker[w].id] THEN spend[i] + calls ELSE spend[i]
  BY <1>1, <1>2
<1>6. spend' \in [Inputs -> Nat]
  BY <1>1, <1>2, <1>4
<1>7. ASSUME NEW i \in Inputs
      PROVE  \/ spend'[i] = spend[i]
             \/ /\ n = 2 /\ asked[worker[w].id] = i
                /\ \E c \in 0..MaxAttempts : spend'[i] = spend[i] + c
  <2>1. CASE i = asked[worker[w].id] /\ n = 2
    BY <1>3, <1>5, <2>1
  <2>2. CASE i = asked[worker[w].id] /\ n # 2
    <3>1. spend[i] \in Nat
      BY <1>1
    <3> QED BY <1>3, <1>5, <2>2, <3>1
  <2>3. CASE i # asked[worker[w].id]
    BY <1>5, <2>3
  <2> QED BY <2>1, <2>2, <2>3
<1> QED BY <1>6, <1>7

LEMMA WorkTypes ==
  ASSUME RunsTypeOK, NEW w \in Workers, WorkerOK(w), Work(w)
  PROVE  RunsTypeOK'
<1>0. /\ worker[w] \in Handler /\ worker[w].pc = "work"
      /\ worker[w].stages \in Seq(Verdict) /\ worker[w].id \in RunIds
  <2>1. worker[w] \in Handler /\ worker[w].pc = "work"
    BY Constants DEF Work
  <2>2. worker[w].id \in DOMAIN asked
    BY <2>1 DEF WorkerOK
  <2> QED BY <2>1, <2>2 DEF Handler, RunsTypeOK
<1>1. PICK verdict, made : WorkStep(w, Len(worker[w].stages) + 1, verdict, made)
  BY <1>0, WorkSteps
<1>2. PICK n \in Nat : n = Len(worker[w].stages) + 1 /\ n > 0
  BY <1>0, LenProperties
<1>3. verdict \in Verdict /\ made \subseteq RunIds \X (1..2)
  <2>1. verdict \in Verdict
    BY <1>1 DEF WorkStep, Verdicts, Verdict
  <2>2. made \subseteq {<<worker[w].id, n>>} /\ (n > 2 => made = {})
    BY <1>1, <1>2 DEF WorkStep
  <2> QED BY <1>0, <1>2, <2>1, <2>2
<1>4. worker' \in [Workers -> Handler]
  <2>1. /\ Append(worker[w].stages, verdict) \in Seq(Verdict)
        /\ worker[w].made \cup made \in SUBSET (RunIds \X (1..2))
    BY <1>0, <1>3, AppendVerdict DEF Handler
  <2>2. worker' = [worker EXCEPT ![w].stages = Append(@, verdict),
          ![w].pc = "record", ![w].made = @ \cup made]
    BY <1>1 DEF WorkStep
  <2>3. worker \in [Workers -> Handler]
    BY DEF RunsTypeOK
  <2>4. PICK x : x = [worker[w] EXCEPT !.stages = Append(@, verdict),
                       !.pc = "record", !.made = @ \cup made]
    OBVIOUS
  <2>5. x \in Handler
    BY <1>0, <2>1, <2>4 DEF Handler
  <2>6. worker' = [worker EXCEPT ![w] = x]
    BY <2>2, <2>3, <2>4
  <2> QED BY <2>3, <2>5, <2>6
<1>5. evidence' \subseteq RunIds \X (1..2)
  BY <1>1, <1>3 DEF WorkStep, RunsTypeOK
<1>6. spend' \in [Inputs -> Nat]
  <2>1. Charges(w, n, verdict) /\ worker[w].id \in DOMAIN asked
    BY <1>0, <1>1, <1>2 DEF WorkStep, WorkerOK
  <2> QED BY <1>2, <2>1, OwnCharge
<1>7. faults' \in 0..MaxFaults
  <2>1. faults' = faults \/ Fault
    BY <1>1 DEF WorkStep, Fault
  <2>2. faults \in 0..MaxFaults
    BY DEF RunsTypeOK
  <2> QED BY <2>1, <2>2, FaultTypes
<1>8. UNCHANGED <<run, memory, answer, clock, asked, over, forgotten>>
  BY DEF Work
<1> QED BY <1>4, <1>5, <1>6, <1>7, <1>8 DEF RunsTypeOK

LEMMA FailedStage ==
  ASSUME RunsTypeOK, NEW w \in Workers, NEW n,
         n \in 1..Len(worker[w].stages),
         worker' = [worker EXCEPT ![w].stages[n] = "failed", ![w].caught = TRUE]
  PROVE  worker' \in [Workers -> Handler]
<1>1. worker[w] \in Handler /\ worker[w].stages \in Seq(Verdict) /\ "failed" \in Verdict
  BY Constants DEF Handler, Verdict
<1>2. [worker[w].stages EXCEPT ![n] = "failed"] \in Seq(Verdict)
  BY <1>1, ExceptSeq
<1>3. worker \in [Workers -> Handler]
  BY DEF RunsTypeOK
<1> QED BY <1>1, <1>2, <1>3 DEF Handler

LEMMA StageErrorTypes ==
  ASSUME RunsTypeOK, NEW w \in Workers, StageError(w)
  PROVE  /\ worker' \in [Workers -> Handler]
         /\ answer' \in [Workers -> {"none", "run", "error", "dedupe error"}]
<1>1. CASE Throw(w)
  BY <1>1, ThrowTypes
<1>2. CASE /\ Len(worker[w].stages) = 2 /\ UNCHANGED answer
           /\ worker' = [worker EXCEPT ![w].stages[2] = "failed", ![w].caught = TRUE]
  <2>1. 2 \in 1..Len(worker[w].stages)
    BY <1>2
  <2> QED BY <1>2, <2>1, FailedStage DEF RunsTypeOK
<1> QED BY <1>1, <1>2 DEF StageError

LEMMA RecordTypes ==
  ASSUME RunsTypeOK, \A j \in Inputs : RowOK(j), NEW w \in Workers, WorkerOK(w),
         Record(w)
  PROVE  RunsTypeOK'
<1>0. /\ worker[w] \in Handler /\ worker[w].stages \in Seq(Verdict)
      /\ worker[w].id \in DOMAIN asked /\ Len(worker[w].stages) > 0
      /\ Len(worker[w].stages) \in Nat /\ worker[w].pc = "record"
  <2>1. worker[w].pc = "record" /\ worker[w] \in Handler
    BY Constants DEF Record
  <2> QED BY <2>1, LenProperties DEF Handler, WorkerOK, Reviewing
<1>1. /\ worker' \in [Workers -> Handler]
      /\ answer' \in [Workers -> {"none", "run", "error", "dedupe error"}]
  <2>1. CASE StageError(w)
    BY <2>1, StageErrorTypes
  <2>2. CASE /\ worker' = [worker EXCEPT
                   ![w].pc = IF Len(worker[w].stages) = 4 THEN "finish" ELSE "work"]
             /\ UNCHANGED answer
    BY <1>0, <2>2 DEF RunsTypeOK, Handler
  <2> QED BY <2>1, <2>2 DEF Record
<1>2. run' \in [Inputs -> RunRow]
  <2>1. run \in [Inputs -> RunRow]
    BY DEF RunsTypeOK
  <2>2. CASE RecordStage(worker[w].id, worker[w].stages) /\ Exists(worker[w].id)
    <3>1. PICK i \in Inputs : i = Row(worker[w].id)
      BY <1>0, <2>2, RowOf
    <3>2. run[i].stages \in Seq(Verdict) /\ run[i] \in RunRow
      BY <2>1 DEF RunRow
    <3>3. worker[w].stages[Len(worker[w].stages)] \in Verdict
      BY <1>0, VerdictAt
    <3>4. Append(run[i].stages, worker[w].stages[Len(worker[w].stages)]) \in Seq(Verdict)
      BY <3>2, <3>3, AppendVerdict
    <3>5. run' = [run EXCEPT
            ![i].stages = Append(@, worker[w].stages[Len(worker[w].stages)]),
            ![i].fresh = TRUE]
      BY <2>2, <3>1 DEF RecordStage
    <3> QED BY <2>1, <3>2, <3>4, <3>5 DEF RunRow
  <2>3. CASE run' = run
    BY <2>1, <2>3
  <2> QED BY <2>2, <2>3 DEF Record, Recordable
<1>3. faults' \in 0..MaxFaults
  <2>1. faults' = faults \/ Fault
    BY DEF Record
  <2>2. faults \in 0..MaxFaults
    BY DEF RunsTypeOK
  <2> QED BY <2>1, <2>2, FaultTypes
<1>4. UNCHANGED <<evidence, memory, clock, asked, over, spend, forgotten>>
  BY DEF Record, history
<1> QED BY <1>1, <1>2, <1>3, <1>4 DEF RunsTypeOK

LEMMA FinishTypes ==
  ASSUME RunsTypeOK, \A j \in Inputs : RowOK(j), NEW w \in Workers, WorkerOK(w),
         Finish(w)
  PROVE  RunsTypeOK'
<1>0. /\ worker[w] \in Handler /\ worker[w].pc = "finish"
      /\ worker[w].id \in DOMAIN asked
  <2>1. worker[w].pc = "finish" /\ worker[w] \in Handler
    BY Constants DEF Finish
  <2> QED BY <2>1 DEF WorkerOK
<1>1. /\ worker' \in [Workers -> Handler]
      /\ answer' \in [Workers -> {"none", "run", "error", "dedupe error"}]
  <2>1. CASE Throw(w)
    BY <2>1, ThrowTypes
  <2>2. CASE worker' = [worker EXCEPT ![w].pc = "recall"] /\ UNCHANGED answer
    BY <1>0, <2>2 DEF RunsTypeOK, Handler
  <2> QED BY <2>1, <2>2 DEF Finish
<1>2. run' \in [Inputs -> RunRow] /\ clock' \in Nat
  <2>1. run \in [Inputs -> RunRow] /\ clock \in Nat
    BY DEF RunsTypeOK
  <2>2. PICK status : status = TerminalStatus(worker[w].stages)
    OBVIOUS
  <2>3. CASE /\ Exists(worker[w].id)
             /\ run' = [run EXCEPT ![Row(worker[w].id)].status = status,
                  ![Row(worker[w].id)].done = clock + 1,
                  ![Row(worker[w].id)].result = worker[w].made]
             /\ clock' = clock + 1
    <3>1. PICK i \in Inputs : i = Row(worker[w].id)
      BY <1>0, <2>3, RowOf
    <3>2. status \in Terminal
      BY <2>2 DEF TerminalStatus, Terminal
    <3>3. worker[w].made \in SUBSET (RunIds \X (1..2))
      BY <1>0 DEF Handler
    <3>4. run[i] \in RunRow
      BY <2>1
    <3>5. PICK row : row = [run[i] EXCEPT !.status = status, !.done = clock + 1,
                                          !.result = worker[w].made]
      OBVIOUS
    <3>6. row \in RunRow
      <4>1. clock + 1 \in Nat
        BY <2>1
      <4> QED BY <3>2, <3>3, <3>4, <3>5, <4>1 DEF RunRow
    <3>7. run' = [run EXCEPT ![i] = row]
      BY <2>1, <2>3, <3>1, <3>5
    <3>8. run' \in [Inputs -> RunRow]
      BY <2>1, <3>6, <3>7
    <3>9. clock' \in Nat
      BY <2>1, <2>3
    <3> QED BY <3>8, <3>9
  <2>4. CASE run' = run /\ clock' = clock
    BY <2>1, <2>4
  <2> QED BY <2>2, <2>3, <2>4 DEF Finish, Finishable
<1>3. faults' \in 0..MaxFaults
  <2>1. faults' = faults \/ Fault
    BY DEF Finish
  <2>2. faults \in 0..MaxFaults
    BY DEF RunsTypeOK
  <2> QED BY <2>1, <2>2, FaultTypes
<1>4. UNCHANGED <<evidence, memory, asked, spend, forgotten>>
  BY DEF Finish
<1>5. over' \subseteq DOMAIN asked
  BY <1>0 DEF Finish, RunsTypeOK
<1> QED BY <1>1, <1>2, <1>3, <1>4, <1>5 DEF RunsTypeOK

(***************************************************************************)
(* What a step leaves alone keeps its part of the invariant.               *)
(***************************************************************************)
AskedGrows ==
  /\ DOMAIN asked \subseteq DOMAIN asked'
  /\ \A id \in DOMAIN asked : asked'[id] = asked[id]

LEMMA RowKept ==
  ASSUME RunsTypeOK, NEW i \in Inputs, RowOK(i), ReviewedOK(i), run'[i] = run[i],
         AskedGrows, clock' \in Nat, clock <= clock', evidence \subseteq evidence',
         over \subseteq over'
  PROVE  RowOK(i)' /\ ReviewedOK(i)'
<1>1. run[i] \in RunRow /\ clock \in Nat
  BY DEF RunsTypeOK
<1>2. run[i].done <= clock => run[i].done <= clock'
  <2>1. run[i].done \in Nat
    BY <1>1 DEF RunRow
  <2> QED BY <1>1, <2>1
<1>3. Reusable(run[i])' <=> Reusable(run[i])
  BY DEF Reusable
<1> QED BY <1>2, <1>3, Zenon DEF RowOK, ReviewedOK, AskedGrows

LEMMA HandlerKept ==
  ASSUME NEW v \in Workers, WorkerOK(v), worker'[v] = worker[v], AskedGrows,
         evidence \subseteq evidence',
         \A u \in Workers : Reviewing(u)' =>
           \/ Reviewing(u) /\ worker'[u].id = worker[u].id
           \/ worker'[u].id \notin DOMAIN asked,
         Reviewing(v) => \A i \in Inputs :
           run'[i].id = worker[v].id /\ run'[i].status = "running" =>
             /\ run[i].id = worker[v].id /\ run[i].status = "running"
             /\ run'[i].stages = run[i].stages
  PROVE  WorkerOK(v)'
<1>1. worker'[v].pc # "idle" => worker'[v].id \in DOMAIN asked'
  BY DEF WorkerOK, AskedGrows
<1>2. Reviewing(v)' <=> Reviewing(v)
  BY DEF Reviewing
<1>3. ASSUME Reviewing(v)
      PROVE  /\ \A u \in Workers : Reviewing(u)' /\ worker'[u].id = worker'[v].id => u = v
             /\ worker'[v].made \subseteq evidence' \cap {<<worker'[v].id, 1>>, <<worker'[v].id, 2>>}
             /\ \A i \in Inputs :
                  run'[i].id = worker'[v].id /\ run'[i].status = "running"
                  => InStep(worker'[v], run'[i])
  <2>1. worker[v].id \in DOMAIN asked
    BY <1>3 DEF WorkerOK, Reviewing
  <2>2. \A u \in Workers : Reviewing(u)' /\ worker'[u].id = worker'[v].id => u = v
    BY <1>3, <2>1 DEF WorkerOK
  <2>3. worker'[v].made \subseteq evidence' \cap {<<worker'[v].id, 1>>, <<worker'[v].id, 2>>}
    BY <1>3 DEF WorkerOK
  <2>4. ASSUME NEW i \in Inputs, run'[i].id = worker'[v].id, run'[i].status = "running"
        PROVE  InStep(worker'[v], run'[i])
    <3>1. /\ run[i].id = worker[v].id /\ run[i].status = "running"
          /\ run'[i].stages = run[i].stages
      BY <1>3, <2>4
    <3>2. InStep(worker[v], run[i])
      BY <1>3, <3>1 DEF WorkerOK
    <3> QED BY <3>1, <3>2 DEF InStep
  <2> QED BY <2>2, <2>3, <2>4
<1> QED BY <1>1, <1>2, <1>3 DEF WorkerOK

LEMMA RememberKept ==
  ASSUME RunsTypeOK, \A j \in Inputs : RowOK(j), NEW v \in Workers, WorkerOK(v),
         MemoryOK(v), worker'[v] = worker[v], AskedGrows,
         \A i \in Inputs : \/ run'[i] = run[i]
                           \/ run'[i].id \notin DOMAIN asked
                           \/ run'[i].id = run[i].id /\ run[i].status = "running",
         memory' \in Summary,
         forgotten' = 0 =>
           /\ forgotten = 0 /\ memory.revision <= memory'.revision
           /\ memory'.revision = memory.revision =>
                /\ memory'.there = memory.there /\ memory'.done = memory.done
                /\ memory'.source \in {memory.source, NoRun}
  PROVE  MemoryOK(v)'
<1> SUFFICES ASSUME worker[v].pc = "remember"
             PROVE  MemoryOK(v)'
  BY DEF MemoryOK
<1>1. /\ worker[v].id \in DOMAIN asked
      /\ asked'[worker[v].id] = asked[worker[v].id]
  BY DEF WorkerOK, AskedGrows
<1>2. ASSUME Exists(worker[v].id)'
      PROVE  /\ run'[asked'[worker[v].id]].status \in Terminal
             /\ Replaces(worker[v].prior, run'[asked'[worker[v].id]])
  <2>1. PICK i \in Inputs : run'[i].id = worker[v].id
    BY <1>2 DEF Exists, Held
  <2>2. run[i].id = worker[v].id
    BY <1>1, <2>1
  <2>3. Exists(worker[v].id)
    BY <2>2 DEF Exists, Held
  <2>4. worker[v].id # NoRun
    BY <1>1, RunsAssumption DEF RunsTypeOK
  <2>5. asked[worker[v].id] = i
    BY <2>2, <2>4 DEF RowOK
  <2>6. run[i].status \in Terminal /\ Replaces(worker[v].prior, run[i])
    BY <2>3, <2>5 DEF MemoryOK
  <2>7. run'[i] = run[i]
    <3>1. run[i].status # "running"
      BY <2>6 DEF Terminal
    <3> QED BY <1>1, <2>1, <3>1
  <2> QED BY <1>1, <2>5, <2>6, <2>7
<1>3. ASSUME forgotten' = 0
      PROVE  /\ worker[v].prior.revision <= memory'.revision
             /\ worker[v].prior.revision = memory'.revision =>
                  /\ memory'.there = worker[v].prior.there
                  /\ memory'.done = worker[v].prior.done
                  /\ memory'.source \in {worker[v].prior.source, NoRun}
  <2>1. /\ memory.revision \in Nat /\ memory'.revision \in Nat
        /\ worker[v].prior.revision \in Nat
    BY Constants DEF RunsTypeOK, Summary, Handler
  <2>2. /\ worker[v].prior.revision <= memory.revision
        /\ worker[v].prior.revision = memory.revision =>
             /\ memory.there = worker[v].prior.there
             /\ memory.done = worker[v].prior.done
             /\ memory.source \in {worker[v].prior.source, NoRun}
    BY <1>3 DEF MemoryOK
  <2> QED BY <1>3, <2>1, <2>2
<1> QED BY <1>2, <1>3 DEF MemoryOK

LEMMA SpendKept ==
  ASSUME RunsTypeOK, SpendOK, spend' = spend, asked' = asked, over \subseteq over',
         \A i \in Inputs : run'[i].id = run[i].id,
         \A u \in Workers :
           worker'[u].pc \in {"work", "record"} /\ Len(worker'[u].stages) <= 1 =>
             /\ worker[u].pc \in {"work", "record"} /\ Len(worker[u].stages) <= 1
             /\ worker[u].id = worker'[u].id
  PROVE  SpendOK'
<1>1. \A id : MayPrompt(id)' => MayPrompt(id)
  BY DEF MayPrompt
<1>2. ASSUME NEW i \in Inputs
      PROVE  spend'[i] <= MaxAttempts * Cardinality(Charged(i)')
  <2>1. Charged(i) \subseteq Charged(i)' /\ Charged(i)' \subseteq DOMAIN asked
    BY <1>1 DEF Charged
  <2>2. IsFiniteSet(DOMAIN asked) /\ spend[i] \in Nat
    BY DEF RunsTypeOK
  <2>3. IsFiniteSet(Charged(i)') /\ IsFiniteSet(Charged(i))
    BY <2>1, <2>2, FS_Subset
  <2>4. Cardinality(Charged(i)) <= Cardinality(Charged(i)')
    BY <2>1, <2>3, FS_Subset
  <2>5. Cardinality(Charged(i)) \in Nat /\ Cardinality(Charged(i)') \in Nat
    BY <2>3, FS_CardinalityType
  <2>6. spend[i] <= MaxAttempts * Cardinality(Charged(i))
    BY DEF SpendOK
  <2> QED BY <2>2, <2>4, <2>5, <2>6, MoreRuns
<1>3. \A id \in DOMAIN asked' : id \in over' \/ run'[asked'[id]].id = id
  BY DEF SpendOK, RunsTypeOK
<1> QED BY <1>2, <1>3 DEF SpendOK

\* A handler that no longer reviews goes on alone.
LocalStep(w, x) ==
  /\ worker' = [worker EXCEPT ![w] = x] /\ x \in Handler
  /\ x.pc \in {"idle", "recall", "remember", "answer"}
  /\ x.pc # "idle" => x.id \in DOMAIN asked
  /\ answer' \in [Workers -> {"none", "run", "error", "dedupe error"}]
  /\ UNCHANGED <<run, evidence, memory, clock, history, forgotten>>
  /\ faults' = faults \/ Fault

LEMMA LocalCore ==
  ASSUME Core, NEW w \in Workers, NEW x, LocalStep(w, x),
         x.pc = "remember" =>
           /\ Exists(x.id) => /\ run[asked[x.id]].status \in Terminal
                              /\ Replaces(x.prior, run[asked[x.id]])
           /\ forgotten = 0 => x.prior = memory
  PROVE  Core'
<1>1. /\ run' = run /\ evidence' = evidence /\ memory' = memory /\ clock' = clock
      /\ asked' = asked /\ over' = over /\ spend' = spend /\ forgotten' = forgotten
      /\ worker'[w] = x /\ (\A v \in Workers : v # w => worker'[v] = worker[v])
  BY DEF LocalStep, history, Core, RunsTypeOK
<1>2. RunsTypeOK'
  <2>1. faults \in 0..MaxFaults /\ worker' \in [Workers -> Handler]
    BY DEF LocalStep, Core, RunsTypeOK
  <2>2. faults' \in 0..MaxFaults
    BY <2>1, FaultTypes DEF LocalStep, Core
  <2> QED BY <1>1, <2>1, <2>2 DEF LocalStep, Core, RunsTypeOK
<1>3. AskedGrows
  BY <1>1 DEF AskedGrows
<1>0. clock \in Nat /\ memory \in Summary
  BY DEF Core, RunsTypeOK
<1>a. memory.revision \in Nat
  BY <1>0 DEF Summary
<1>4. clock' \in Nat /\ clock <= clock'
  BY <1>0, <1>1
<1>5. \A i \in Inputs : RowOK(i)' /\ ReviewedOK(i)'
  BY <1>1, <1>3, <1>4, RowKept DEF Core
<1>6. \A u \in Workers : Reviewing(u)' => Reviewing(u) /\ worker'[u].id = worker[u].id
  BY <1>1 DEF Reviewing, LocalStep
<1>7. ASSUME NEW v \in Workers
      PROVE  WorkerOK(v)'
  <2>1. CASE v = w
    BY <1>1, <2>1 DEF WorkerOK, Reviewing, LocalStep
  <2>2. CASE v # w
    <3>1. WorkerOK(v) /\ worker'[v] = worker[v]
      BY <1>1, <2>2 DEF Core
    <3> QED BY <1>1, <1>3, <1>6, <3>1, HandlerKept
  <2> QED BY <2>1, <2>2
<1>8. ASSUME NEW v \in Workers
      PROVE  MemoryOK(v)'
  <2>1. CASE v = w
    <3>1. memory.revision <= memory.revision
      BY <1>a
    <3>2. Exists(x.id)' <=> Exists(x.id)
      BY <1>1 DEF Exists, Held
    <3> QED BY <1>1, <2>1, <3>1, <3>2 DEF MemoryOK
  <2>2. CASE v # w
    <3>1. WorkerOK(v) /\ MemoryOK(v) /\ worker'[v] = worker[v]
      BY <1>1, <2>2 DEF Core
    <3>2. memory.revision <= memory.revision /\ memory \in Summary
      BY <1>0, <1>a
    <3> QED BY <1>1, <1>3, <3>1, <3>2, RememberKept DEF Core
  <2> QED BY <2>1, <2>2
<1>9. SpendOK'
  <2>1. \A u \in Workers :
          worker'[u].pc \in {"work", "record"} /\ Len(worker'[u].stages) <= 1 =>
            /\ worker[u].pc \in {"work", "record"} /\ Len(worker[u].stages) <= 1
            /\ worker[u].id = worker'[u].id
    BY <1>1 DEF LocalStep
  <2> QED BY <1>1, <2>1, SpendKept DEF Core
<1> QED BY <1>2, <1>5, <1>7, <1>8, <1>9 DEF Core

LEMMA ThrowLocal ==
  ASSUME RunsTypeOK, NEW w \in Workers, Throw(w),
         UNCHANGED <<run, evidence, memory, clock, history, forgotten>>,
         faults' = faults \/ Fault
  PROVE  LocalStep(w, Idle) /\ Idle.pc # "remember"
<1>1. Idle \in Handler /\ Idle.pc = "idle"
  BY Constants DEF Idle
<1> QED BY <1>1, ThrowTypes DEF LocalStep, Throw

LEMMA ThrowCore ==
  ASSUME Core, NEW w \in Workers, Throw(w),
         UNCHANGED <<run, evidence, memory, clock, history, forgotten>>,
         faults' = faults \/ Fault
  PROVE  Core'
<1>1. LocalStep(w, Idle) /\ Idle.pc # "remember"
  BY ThrowLocal DEF Core
<1> QED BY <1>1, LocalCore

LEMMA RecallCore ==
  ASSUME Core, NEW w \in Workers, Recall(w)
  PROVE  Core'
<1>0. /\ worker[w] \in Handler /\ worker[w].id \in DOMAIN asked
      /\ worker[w].pc = "recall" /\ memory \in Summary
  <2>1. worker[w].pc = "recall" /\ worker[w] \in Handler
    BY Constants DEF Recall, Core
  <2> QED BY <2>1 DEF Core, WorkerOK, RunsTypeOK
<1>1. UNCHANGED <<run, evidence, memory, clock, history, faults, forgotten>>
  BY DEF Recall
<1>2. CASE Throw(w)
  BY <1>1, <1>2, ThrowCore
<1>3. CASE /\ Exists(worker[w].id) /\ UNCHANGED answer
           /\ worker' = [worker EXCEPT ![w].prior = memory,
                ![w].pc = IF Remembers(w, run[Row(worker[w].id)]) THEN "remember" ELSE "answer"]
  <2>1. PICK x : x = [worker[w] EXCEPT !.prior = memory,
                       !.pc = IF Remembers(w, run[Row(worker[w].id)]) THEN "remember" ELSE "answer"]
    OBVIOUS
  <2>2. /\ x \in Handler /\ x.prior = memory /\ x.id = worker[w].id
        /\ x.pc \in {"remember", "answer"}
        /\ x.pc = "remember" => Remembers(w, run[Row(worker[w].id)])
    BY <1>0, <2>1 DEF Handler
  <2>3. worker' = [worker EXCEPT ![w] = x]
    BY <1>3, <2>1 DEF Core, RunsTypeOK
  <2>4. answer' \in [Workers -> {"none", "run", "error", "dedupe error"}]
    BY <1>3 DEF Core, RunsTypeOK
  <2>5. LocalStep(w, x)
    BY <1>0, <1>1, <2>2, <2>3, <2>4 DEF LocalStep
  <2>6. Row(worker[w].id) = asked[worker[w].id]
    BY <1>0, <1>3, RowOf DEF Core
  <2> QED BY <2>2, <2>5, <2>6, LocalCore DEF Remembers
<1> QED BY <1>2, <1>3 DEF Recall

LEMMA AnswerCore ==
  ASSUME Core, NEW w \in Workers, Answer(w)
  PROVE  Core'
<1>1. UNCHANGED <<run, evidence, memory, clock, history, faults, forgotten>>
  BY DEF Answer
<1>2. CASE Throw(w)
  BY <1>1, <1>2, ThrowCore
<1>3. CASE /\ worker' = [worker EXCEPT ![w] = Idle]
           /\ answer' = [answer EXCEPT ![w] = "run"]
  <2>1. Idle \in Handler /\ Idle.pc = "idle"
    BY Constants DEF Idle, Core
  <2>2. answer' \in [Workers -> {"none", "run", "error", "dedupe error"}]
    BY <1>3 DEF Core, RunsTypeOK
  <2>3. LocalStep(w, Idle)
    BY <1>1, <1>3, <2>1, <2>2 DEF LocalStep
  <2> QED BY <2>1, <2>3, LocalCore
<1> QED BY <1>2, <1>3 DEF Answer

LEMMA CrashCore ==
  ASSUME Core, NEW w \in Workers, Crash(w)
  PROVE  Core'
<1>1. Idle \in Handler /\ Idle.pc = "idle"
  BY Constants DEF Idle, Core
<1>2. answer' \in [Workers -> {"none", "run", "error", "dedupe error"}]
  BY DEF Crash, Core, RunsTypeOK
<1>3. LocalStep(w, Idle)
  BY <1>1, <1>2 DEF LocalStep, Crash
<1> QED BY <1>1, <1>3, LocalCore

\* The summary is written: the only step that changes the memory of a worker
\* that is about to answer.
LEMMA WriteCore ==
  ASSUME Core, NEW w \in Workers, worker[w].pc = "remember",
         Exists(worker[w].id), RevisionFits(worker[w].prior),
         memory' = [there |-> TRUE, source |-> worker[w].id,
                    done |-> run[Row(worker[w].id)].done,
                    revision |-> worker[w].prior.revision + 1],
         worker' = [worker EXCEPT ![w].pc = "answer"],
         UNCHANGED <<run, evidence, answer, clock, history, faults, forgotten>>
  PROVE  Core'
<1>1. /\ run' = run /\ evidence' = evidence /\ clock' = clock
      /\ asked' = asked /\ over' = over /\ spend' = spend /\ forgotten' = forgotten
      /\ faults' = faults /\ answer' = answer
      /\ worker'[w] = [worker[w] EXCEPT !.pc = "answer"]
      /\ \A v \in Workers : v # w => worker'[v] = worker[v]
  BY DEF history, Core, RunsTypeOK
<1>0. clock \in Nat /\ memory \in Summary /\ worker[w] \in Handler
  BY Constants DEF Core, RunsTypeOK
<1>a. /\ memory.revision \in Nat /\ worker[w].prior.revision \in Nat
      /\ worker[w].id \in DOMAIN asked
  BY <1>0 DEF Summary, Handler, Core, WorkerOK
<1>2. memory' \in Summary /\ memory'.revision = memory.revision + 1
  <2>1. Row(worker[w].id) \in Inputs
    BY <1>a, RowOf DEF Core
  <2>2. run[Row(worker[w].id)].done \in Nat
    BY <2>1, Constants DEF Core, RunRow
  <2>3. worker[w].id \in RunIds
    BY <1>a DEF Core, RunsTypeOK
  <2> QED BY <1>a, <2>2, <2>3 DEF Summary, RevisionFits
<1>3. RunsTypeOK'
  <2>1. worker' \in [Workers -> Handler]
    BY <1>0 DEF Core, RunsTypeOK, Handler
  <2> QED BY <1>1, <1>2, <2>1 DEF Core, RunsTypeOK
<1>4. AskedGrows
  BY <1>1 DEF AskedGrows
<1>5. clock' \in Nat /\ clock <= clock'
  BY <1>0, <1>1
<1>6. \A i \in Inputs : RowOK(i)' /\ ReviewedOK(i)'
  BY <1>1, <1>4, <1>5, RowKept DEF Core
<1>7. worker'[w].pc = "answer" /\ worker'[w].id = worker[w].id
  BY <1>0, <1>1 DEF Handler
<1>8. \A u \in Workers : Reviewing(u)' => Reviewing(u) /\ worker'[u].id = worker[u].id
  BY <1>1, <1>7 DEF Reviewing
<1>9. ASSUME NEW v \in Workers
      PROVE  WorkerOK(v)' /\ MemoryOK(v)'
  <2>1. CASE v = w
    BY <1>1, <1>7, <1>a, <2>1 DEF WorkerOK, MemoryOK, Reviewing
  <2>2. CASE v # w
    <3>1. WorkerOK(v) /\ MemoryOK(v) /\ worker'[v] = worker[v]
      BY <1>1, <2>2 DEF Core
    <3>2. WorkerOK(v)'
      BY <1>1, <1>4, <1>8, <3>1, HandlerKept
    <3>3. memory.revision <= memory'.revision /\ memory'.revision # memory.revision
      BY <1>2, <1>a
    <3>4. MemoryOK(v)'
      BY <1>1, <1>2, <1>4, <3>1, <3>3, RememberKept DEF Core
    <3> QED BY <3>2, <3>4
  <2> QED BY <2>1, <2>2
<1>10. SpendOK'
  <2>1. \A u \in Workers :
          worker'[u].pc \in {"work", "record"} /\ Len(worker'[u].stages) <= 1 =>
            /\ worker[u].pc \in {"work", "record"} /\ Len(worker[u].stages) <= 1
            /\ worker[u].id = worker'[u].id
    BY <1>1, <1>7
  <2> QED BY <1>1, <2>1, SpendKept DEF Core
<1> QED BY <1>3, <1>6, <1>9, <1>10 DEF Core

LEMMA RememberCore ==
  ASSUME Core, NEW w \in Workers, Remember(w)
  PROVE  Core'
<1>0. /\ worker[w] \in Handler /\ worker[w].id \in DOMAIN asked
      /\ worker[w].pc = "remember" /\ memory \in Summary
  <2>1. worker[w].pc = "remember" /\ worker[w] \in Handler
    BY Constants DEF Remember, Core
  <2> QED BY <2>1 DEF Core, WorkerOK, RunsTypeOK
<1>1. UNCHANGED <<run, evidence, clock, history, faults, forgotten>>
  BY DEF Remember
<1>2. CASE Throw(w) /\ UNCHANGED memory
  BY <1>1, <1>2, ThrowCore
<1>3. CASE /\ Exists(worker[w].id) /\ RevisionFits(worker[w].prior)
           /\ memory' = [there |-> TRUE, source |-> worker[w].id,
                    done |-> run[Row(worker[w].id)].done,
                    revision |-> worker[w].prior.revision + 1]
           /\ worker' = [worker EXCEPT ![w].pc = "answer"] /\ UNCHANGED answer
  BY <1>0, <1>1, <1>3, WriteCore
<1>4. CASE /\ Exists(worker[w].id) /\ worker[w].tries < 2
           /\ worker' = [worker EXCEPT ![w].tries = @ + 1, ![w].prior = memory,
                ![w].pc = IF Replaces(memory, run[Row(worker[w].id)]) THEN "remember" ELSE "answer"]
           /\ UNCHANGED <<answer, memory>>
  <2>1. PICK x : x = [worker[w] EXCEPT !.tries = @ + 1, !.prior = memory,
                       !.pc = IF Replaces(memory, run[Row(worker[w].id)]) THEN "remember" ELSE "answer"]
    OBVIOUS
  <2>2. /\ x \in Handler /\ x.prior = memory /\ x.id = worker[w].id
        /\ x.pc \in {"remember", "answer"}
        /\ x.pc = "remember" => Replaces(memory, run[Row(worker[w].id)])
    <3>1. worker[w].tries + 1 \in 0..2
      BY <1>0, <1>4 DEF Handler
    <3> QED BY <1>0, <2>1, <3>1 DEF Handler
  <2>3. worker' = [worker EXCEPT ![w] = x]
    BY <1>4, <2>1 DEF Core, RunsTypeOK
  <2>4. answer' \in [Workers -> {"none", "run", "error", "dedupe error"}]
    BY <1>4 DEF Core, RunsTypeOK
  <2>5. LocalStep(w, x)
    BY <1>0, <1>1, <1>4, <2>2, <2>3, <2>4 DEF LocalStep
  <2>6. Row(worker[w].id) = asked[worker[w].id]
    BY <1>0, <1>4, RowOf DEF Core
  <2>7. run[asked[worker[w].id]].status \in Terminal
    BY <1>0, <1>4 DEF Core, MemoryOK
  <2> QED BY <2>2, <2>5, <2>6, <2>7, LocalCore
<1>5. CASE worker' = [worker EXCEPT ![w].pc = "answer"] /\ UNCHANGED <<answer, memory>>
  <2>1. PICK x : x = [worker[w] EXCEPT !.pc = "answer"]
    OBVIOUS
  <2>2. x \in Handler /\ x.id = worker[w].id /\ x.pc = "answer"
    BY <1>0, <2>1 DEF Handler
  <2>3. worker' = [worker EXCEPT ![w] = x]
    BY <1>5, <2>1 DEF Core, RunsTypeOK
  <2>4. answer' \in [Workers -> {"none", "run", "error", "dedupe error"}]
    BY <1>5 DEF Core, RunsTypeOK
  <2>5. LocalStep(w, x)
    BY <1>0, <1>1, <1>5, <2>2, <2>3, <2>4 DEF LocalStep
  <2> QED BY <2>2, <2>5, LocalCore
<1> QED BY <1>2, <1>3, <1>4, <1>5, Zenon DEF Remember

LEMMA ForgetCore ==
  ASSUME Core, Forget
  PROVE  Core'
<1>1. /\ run' = run /\ evidence' = evidence /\ clock' = clock /\ faults' = faults
      /\ asked' = asked /\ over' = over /\ spend' = spend /\ worker' = worker
      /\ answer' = answer /\ memory' = NoMemory
  BY DEF Forget, history
<1>2. forgotten \in Nat /\ forgotten' \in 0..MaxForgotten /\ forgotten' # 0
  <2>1. /\ forgotten \in 0..MaxForgotten /\ forgotten < MaxForgotten
        /\ forgotten' = forgotten + 1
    BY DEF Forget, Core, RunsTypeOK
  <2> QED BY <2>1, RunsAssumption
<1>3. RunsTypeOK' /\ memory' \in Summary
  BY <1>1, <1>2, Constants DEF Core, RunsTypeOK
<1>4. AskedGrows
  BY <1>1 DEF AskedGrows
<1>5. clock' \in Nat /\ clock <= clock'
  <2>1. clock \in Nat
    BY DEF Core, RunsTypeOK
  <2> QED BY <1>1, <2>1
<1>6. \A i \in Inputs : RowOK(i)' /\ ReviewedOK(i)'
  BY <1>1, <1>4, <1>5, RowKept DEF Core
<1>7. \A u \in Workers : Reviewing(u)' => Reviewing(u) /\ worker'[u].id = worker[u].id
  BY <1>1 DEF Reviewing
<1>8. ASSUME NEW v \in Workers
      PROVE  WorkerOK(v)' /\ MemoryOK(v)'
  <2>1. WorkerOK(v) /\ MemoryOK(v) /\ worker'[v] = worker[v]
    BY <1>1 DEF Core
  <2>2. WorkerOK(v)'
    BY <1>1, <1>4, <1>7, <2>1, HandlerKept
  <2>3. MemoryOK(v)'
    BY <1>1, <1>2, <1>3, <1>4, <2>1, RememberKept DEF Core
  <2> QED BY <2>2, <2>3
<1>9. SpendOK'
  BY <1>1, SpendKept DEF Core
<1> QED BY <1>3, <1>6, <1>8, <1>9 DEF Core

LEMMA LeaseCore ==
  ASSUME Core, NEW i \in Inputs, LeaseEnds(i)
  PROVE  Core'
<1>1. /\ evidence' = evidence /\ clock' = clock /\ memory' = memory
      /\ asked' = asked /\ over' = over \cup {run[i].id} /\ spend' = spend
      /\ worker' = worker /\ answer' = answer /\ forgotten' = forgotten
      /\ run[i].status = "running" /\ run'[i] = [run[i] EXCEPT !.fresh = FALSE]
      /\ \A j \in Inputs : j # i => run'[j] = run[j]
  BY DEF LeaseEnds, Core, RunsTypeOK
<1>2. RunsTypeOK'
  BY LeaseTypes DEF Core
<1>0. clock \in Nat /\ memory \in Summary /\ run[i] \in RunRow
  BY DEF Core, RunsTypeOK
<1>a. memory.revision \in Nat
  BY <1>0 DEF Summary
<1>3. AskedGrows
  BY <1>1 DEF AskedGrows
<1>4. clock' \in Nat /\ clock <= clock' /\ over \subseteq over'
  BY <1>0, <1>1
<1>5. /\ run'[i].id = run[i].id /\ run'[i].status = "running"
      /\ run'[i].stages = run[i].stages /\ run'[i].done = run[i].done
      /\ run'[i].result = run[i].result
  BY <1>0, <1>1 DEF RunRow
<1>6. ASSUME NEW j \in Inputs
      PROVE  RowOK(j)' /\ ReviewedOK(j)'
  <2>1. CASE j = i
    <3>1. RowOK(i)
      BY DEF Core
    <3> QED BY <1>1, <1>5, <2>1, <3>1 DEF RowOK, ReviewedOK
  <2>2. CASE j # i
    BY <1>1, <1>3, <1>4, <2>2, RowKept DEF Core
  <2> QED BY <2>1, <2>2
<1>7. \A u \in Workers : Reviewing(u)' => Reviewing(u) /\ worker'[u].id = worker[u].id
  BY <1>1 DEF Reviewing
<1>8. ASSUME NEW v \in Workers
      PROVE  WorkerOK(v)' /\ MemoryOK(v)'
  <2>1. WorkerOK(v) /\ MemoryOK(v) /\ worker'[v] = worker[v]
    BY <1>1 DEF Core
  <2>2. \A j \in Inputs :
          /\ run'[j].id = run[j].id /\ run'[j].status = run[j].status
          /\ run'[j].stages = run[j].stages
    BY <1>1, <1>5
  <2>3. WorkerOK(v)'
    BY <1>1, <1>3, <1>7, <2>1, <2>2, HandlerKept
  <2>4. \A j \in Inputs : \/ run'[j] = run[j]
                          \/ run'[j].id = run[j].id /\ run[j].status = "running"
    BY <1>1, <1>5
  <2>5. memory.revision <= memory.revision
    BY <1>a
  <2>6. MemoryOK(v)'
    BY <1>0, <1>1, <1>3, <2>1, <2>4, <2>5, RememberKept DEF Core
  <2> QED BY <2>3, <2>6
<1>9. SpendOK'
  <2>1. \A j \in Inputs : run'[j].id = run[j].id
    BY <1>1, <1>5
  <2> QED BY <1>1, <1>4, <2>1, SpendKept DEF Core
<1> QED BY <1>2, <1>6, <1>8, <1>9 DEF Core

(***************************************************************************)
(* A run is begun.                                                         *)
(***************************************************************************)
LEMMA ReuseCore ==
  ASSUME Core, NEW w \in Workers, NEW i \in Inputs, Begin(w, i), Reusable(run[i])
  PROVE  Core'
<1>1. PICK x : x = [Idle EXCEPT !.pc = "recall", !.id = run[i].id, !.deduped = TRUE]
  OBVIOUS
<1>2. run[i] \in RunRow /\ run[i].id \in DOMAIN asked
  <2>1. run[i] \in RunRow /\ RowOK(i)
    BY DEF Core, RunsTypeOK
  <2> QED BY <2>1 DEF RowOK, Reusable
<1>3. x \in Handler /\ x.pc = "recall" /\ x.id = run[i].id
  BY <1>1, <1>2, Constants DEF Core, Handler, RunRow
<1>4. /\ worker' = [worker EXCEPT ![w] = x]
      /\ UNCHANGED <<run, memory, asked>>
  BY <1>1 DEF Begin
<1>5. answer' \in [Workers -> {"none", "run", "error", "dedupe error"}]
  BY DEF Begin, Core, RunsTypeOK
<1>6. LocalStep(w, x)
  BY <1>2, <1>3, <1>4, <1>5 DEF LocalStep, Begin, history
<1> QED BY <1>3, <1>6, LocalCore

\* A run that is begun for an input, instead of the one there was.
BeginNew(w, i, id) ==
  /\ run' = [run EXCEPT ![i] = [NoRow EXCEPT
       !.id = id, !.status = "running", !.fresh = TRUE]]
  /\ asked' = [x \in DOMAIN asked \cup {id} |-> IF x = id THEN i ELSE asked[x]]
  /\ worker' = [worker EXCEPT ![w] = [Idle EXCEPT !.pc = "work", !.id = id]]
  /\ memory' = Orphaned(memory, run[i].id)
  /\ UNCHANGED <<evidence, clock, over, spend, faults, forgotten>>

LEMMA BeginCore ==
  ASSUME Core, NEW w \in Workers, NEW i \in Inputs, Begin(w, i), ~Reusable(run[i])
  PROVE  Core'
<1>1. PICK id \in RunIds \ DOMAIN asked : BeginNew(w, i, id)
  BY DEF Begin, BeginNew
<1>2. /\ RunsTypeOK /\ clock \in Nat /\ memory \in Summary /\ RowOK(i)
      /\ run[i] \in RunRow /\ IsFiniteSet(DOMAIN asked) /\ DOMAIN asked \subseteq RunIds
      /\ NoRun \notin RunIds
  BY RunsAssumption DEF Core, RunsTypeOK
<1>3. RunsTypeOK'
  BY BeginTypes DEF Core
<1>4. /\ run'[i].id = id /\ run'[i].status = "running" /\ run'[i].stages = <<>>
      /\ run'[i].fresh = TRUE /\ run'[i].done = 0 /\ run'[i].result = {}
      /\ \A j \in Inputs : j # i => run'[j] = run[j]
  BY <1>1, <1>2 DEF BeginNew, NoRow, RunsTypeOK
<1>5. /\ worker'[w].id = id /\ worker'[w].pc = "work" /\ worker'[w].stages = <<>>
      /\ worker'[w].made = {} /\ worker[w].pc = "idle"
      /\ \A v \in Workers : v # w => worker'[v] = worker[v]
  BY <1>1, <1>2 DEF BeginNew, Idle, RunsTypeOK, Begin
<1>6. /\ AskedGrows /\ DOMAIN asked' = DOMAIN asked \cup {id} /\ asked'[id] = i
  BY <1>1 DEF BeginNew, AskedGrows
<1>7. /\ evidence' = evidence /\ clock' = clock /\ over' = over
      /\ spend' = spend /\ forgotten' = forgotten
  BY <1>1 DEF BeginNew
<1>8. ASSUME NEW j \in Inputs
      PROVE  RowOK(j)' /\ ReviewedOK(j)'
  <2>1. CASE j = i
    <3>1. ~(0 > 0) /\ 0 <= clock
      BY <1>2
    <3>2. Reusable(run'[i])
      BY <1>4 DEF Reusable
    <3>3. "running" \notin Terminal /\ "running" \notin {"ready", "verified"}
      BY DEF Terminal
    <3>4. id # NoRun
      BY <1>2
    <3> QED BY <1>4, <1>6, <1>7, <2>1, <3>1, <3>2, <3>3, <3>4 DEF RowOK, ReviewedOK
  <2>2. CASE j # i
    <3>1. clock' \in Nat /\ clock <= clock'
      BY <1>2, <1>7
    <3> QED BY <1>2, <1>4, <1>6, <1>7, <2>2, <3>1, RowKept DEF Core
  <2> QED BY <2>1, <2>2
<1>9. ASSUME NEW u \in Workers, Reviewing(u)'
      PROVE  \/ u = w /\ worker'[u].id \notin DOMAIN asked
             \/ u # w /\ Reviewing(u) /\ worker'[u].id = worker[u].id
  BY <1>1, <1>5, <1>9 DEF Reviewing
<1>10. ASSUME NEW v \in Workers
       PROVE  WorkerOK(v)'
  <2>1. CASE v = w
    <3>1. \A u \in Workers : Reviewing(u)' /\ worker'[u].id = id => u = w
      BY <1>5, <1>9 DEF Core, WorkerOK, Reviewing
    <3>2. Len(<<>>) = 0 /\ Sound(<<>>)
      BY DEF Sound
    <3>3. \A j \in Inputs : run'[j].id = id => j = i
      BY <1>2, <1>4 DEF Core, RowOK
    <3>4. \A j \in Inputs :
            run'[j].id = id /\ run'[j].status = "running" => InStep(worker'[w], run'[j])
      BY <1>4, <1>5, <3>3 DEF InStep
    <3>5. ~(1 <= 0) /\ ~(2 <= 0) /\ 0 < 4
      OBVIOUS
    <3>6. \A n \in 1..2 : ~(n <= Len(worker'[w].stages))
      BY <1>5, <3>2
    <3>7. /\ worker'[w].pc # "record" /\ worker'[w].pc # "finish"
          /\ Len(worker'[w].stages) < 4
      BY <1>5, <3>2, <3>5
    <3> QED BY <1>5, <1>6, <2>1, <3>1, <3>2, <3>4, <3>6, <3>7 DEF WorkerOK
  <2>2. CASE v # w
    <3>1. WorkerOK(v) /\ worker'[v] = worker[v]
      BY <1>5, <2>2 DEF Core
    <3>2. ASSUME Reviewing(v), NEW j \in Inputs, run'[j].id = worker[v].id
          PROVE  run'[j] = run[j]
      <4>1. worker[v].id \in DOMAIN asked
        BY <3>1, <3>2 DEF WorkerOK, Reviewing
      <4> QED BY <1>1, <1>4, <3>2, <4>1
    <3> QED BY <1>6, <1>7, <1>9, <3>1, <3>2, HandlerKept
  <2> QED BY <2>1, <2>2
<1>11. ASSUME NEW v \in Workers
       PROVE  MemoryOK(v)'
  <2>1. CASE v = w
    BY <1>5, <2>1 DEF MemoryOK
  <2>2. CASE v # w
    <3>1. WorkerOK(v) /\ MemoryOK(v) /\ worker'[v] = worker[v]
      BY <1>5, <2>2 DEF Core
    <3>2. \A j \in Inputs : run'[j] = run[j] \/ run'[j].id \notin DOMAIN asked
      BY <1>1, <1>4
    <3>3. /\ memory' \in Summary /\ memory'.revision = memory.revision
          /\ memory'.there = memory.there /\ memory'.done = memory.done
          /\ memory'.source \in {memory.source, NoRun}
      BY <1>1, <1>2 DEF BeginNew, Orphaned, Summary
    <3>4. memory.revision <= memory'.revision
      <4>1. memory.revision \in Nat
        BY <1>2 DEF Summary
      <4> QED BY <3>3, <4>1
    <3> QED BY <1>2, <1>6, <1>7, <3>1, <3>2, <3>3, <3>4, RememberKept DEF Core
  <2> QED BY <2>1, <2>2
<1>12. SpendOK'
  <2>1. ASSUME NEW k \in DOMAIN asked, MayPrompt(k)'
        PROVE  MayPrompt(k)
    <3>1. PICK u \in Workers : /\ worker'[u].pc \in {"work", "record"}
                              /\ worker'[u].id = k /\ Len(worker'[u].stages) <= 1
      BY <2>1 DEF MayPrompt
    <3>2. u # w
      BY <1>1, <1>5, <3>1
    <3> QED BY <1>5, <3>1, <3>2 DEF MayPrompt
  <2>2. ASSUME NEW j \in Inputs
        PROVE  spend'[j] <= MaxAttempts * Cardinality(Charged(j)')
    <3>1. Charged(j) \subseteq Charged(j)' /\ Charged(j)' \subseteq DOMAIN asked'
      BY <1>6, <2>1 DEF Charged, AskedGrows
    <3>2. IsFiniteSet(DOMAIN asked') /\ spend[j] \in Nat
      BY <1>2, <1>3 DEF RunsTypeOK
    <3>3. IsFiniteSet(Charged(j)') /\ IsFiniteSet(Charged(j))
      BY <3>1, <3>2, FS_Subset
    <3>4. Cardinality(Charged(j)) <= Cardinality(Charged(j)')
      BY <3>1, <3>3, FS_Subset
    <3>5. Cardinality(Charged(j)) \in Nat /\ Cardinality(Charged(j)') \in Nat
      BY <3>3, FS_CardinalityType
    <3>6. spend[j] <= MaxAttempts * Cardinality(Charged(j))
      BY DEF Core, SpendOK
    <3> QED BY <1>7, <3>2, <3>4, <3>5, <3>6, MoreRuns
  <2>3. ASSUME NEW k \in DOMAIN asked'
        PROVE  k \in over' \/ run'[asked'[k]].id = k
    <3>1. CASE k = id
      BY <1>4, <1>6, <3>1
    <3>2. CASE k # id
      <4>1. /\ k \in DOMAIN asked /\ asked'[k] = asked[k] /\ k # NoRun
            /\ asked[k] \in Inputs
        BY <1>2, <1>6, <3>2 DEF AskedGrows, RunsTypeOK
      <4>2. k \in over \/ run[asked[k]].id = k
        BY <4>1 DEF Core, SpendOK
      <4>3. CASE run[asked[k]].id = k /\ asked[k] = i
        BY <1>2, <1>7, <4>1, <4>3 DEF RowOK
      <4>4. CASE run[asked[k]].id = k /\ asked[k] # i
        BY <1>4, <4>1, <4>4
      <4> QED BY <1>7, <4>2, <4>3, <4>4
    <3> QED BY <3>1, <3>2
  <2> QED BY <2>2, <2>3 DEF SpendOK
<1> QED BY <1>3, <1>8, <1>10, <1>11, <1>12 DEF Core

(***************************************************************************)
(* A stage is worked on.                                                   *)
(***************************************************************************)
\* The stages of the handler after one more verdict are in order as well.
LEMMA WorkedOK ==
  ASSUME Core, NEW w \in Workers, Work(w), NEW n \in Nat,
         n = Len(worker[w].stages) + 1, NEW verdict, NEW made,
         WorkStep(w, n, verdict, made)
  PROVE  WorkerOK(w)'
<1>1. /\ worker[w] \in Handler /\ worker[w].pc = "work" /\ WorkerOK(w)
      /\ worker[w].stages \in Seq(Verdict) /\ worker[w].id \in DOMAIN asked
      /\ Reviewing(w) /\ Len(worker[w].stages) < 4 /\ Sound(worker[w].stages)
  <2>1. worker[w] \in Handler /\ worker[w].pc = "work" /\ WorkerOK(w)
    BY Constants DEF Core, Work
  <2>2. Reviewing(w)
    BY <2>1 DEF Reviewing
  <2> QED BY <2>1, <2>2 DEF WorkerOK, Handler
<1>2. PICK t : t = Append(worker[w].stages, verdict)
  OBVIOUS
<1>3. /\ verdict \in Verdict /\ Sound(t) /\ t \in Seq(Verdict) /\ Len(t) = n
      /\ t[n] = verdict /\ \A k \in 1..Len(worker[w].stages) : t[k] = worker[w].stages[k]
  <2>1. verdict \in Verdicts(worker[w].stages)
    BY DEF WorkStep
  <2>2. verdict \in Verdict /\ Sound(t)
    BY <1>1, <1>2, <2>1, NextVerdict
  <2> QED BY <1>1, <1>2, <2>2, AppendVerdict
<1>4. /\ worker'[w].pc = "record" /\ worker'[w].stages = t
      /\ worker'[w].id = worker[w].id /\ worker'[w].made = worker[w].made \cup made
      /\ \A v \in Workers : v # w => worker'[v] = worker[v]
  BY <1>1, <1>2 DEF WorkStep, Handler, Core, RunsTypeOK
<1>5. /\ run' = run /\ asked' = asked /\ evidence' = evidence \cup made
      /\ made \subseteq {<<worker[w].id, n>>} /\ (n > 2 => made = {})
      /\ verdict = "passed" /\ n <= 2 => made = {<<worker[w].id, n>>}
  BY DEF Work, WorkStep
<1>6. \A u \in Workers : Reviewing(u)' /\ worker'[u].id = worker'[w].id => u = w
  BY <1>1, <1>4 DEF WorkerOK, Reviewing
<1>7. worker'[w].made \subseteq evidence' \cap {<<worker[w].id, 1>>, <<worker[w].id, 2>>}
  <2>1. worker[w].made \subseteq evidence \cap {<<worker[w].id, 1>>, <<worker[w].id, 2>>}
    BY <1>1 DEF WorkerOK
  <2>2. n > 0
    BY <1>1, LenProperties
  <2>3. made \subseteq {<<worker[w].id, 1>>, <<worker[w].id, 2>>}
    BY <1>5, <2>2
  <2> QED BY <1>4, <1>5, <2>1, <2>3
<1>8. ASSUME NEW k \in 1..2, k <= Len(t), t[k] = "passed"
      PROVE  <<worker[w].id, k>> \in worker'[w].made
  <2>1. CASE k = n
    BY <1>3, <1>4, <1>5, <1>8, <2>1
  <2>2. CASE k # n
    <3>1. k <= Len(worker[w].stages) /\ k \in 1..Len(worker[w].stages)
      <4>1. Len(worker[w].stages) \in Nat /\ k <= n
        BY <1>1, <1>3, <1>8, LenProperties
      <4> QED BY <2>2, <4>1
    <3>2. worker[w].stages[k] = "passed"
      BY <1>3, <1>8, <3>1
    <3> QED BY <1>1, <1>4, <3>1, <3>2 DEF WorkerOK
  <2> QED BY <2>1, <2>2
<1>9. ASSUME NEW i \in Inputs, run[i].id = worker[w].id, run[i].status = "running"
      PROVE  InStep(worker'[w], run'[i])
  <2>1. InStep(worker[w], run[i])
    BY <1>1, <1>9 DEF WorkerOK
  <2>2. run[i].stages = worker[w].stages
    BY <1>1, <2>1 DEF InStep
  <2>3. t = Append(run[i].stages, t[Len(t)])
    BY <1>2, <1>3, <2>2
  <2> QED BY <1>4, <1>5, <2>3 DEF InStep
<1>10. Len(t) > 0
  BY <1>1, <1>3, LenProperties
<1> QED BY <1>1, <1>3, <1>4, <1>5, <1>6, <1>7, <1>8, <1>9, <1>10 DEF WorkerOK

\* A model is only asked for a run that may still ask one, and not again.
LEMMA WorkedSpend ==
  ASSUME Core, NEW w \in Workers, Work(w), NEW n \in Nat,
         n = Len(worker[w].stages) + 1, NEW verdict, NEW made,
         WorkStep(w, n, verdict, made)
  PROVE  SpendOK'
<1>1. /\ worker[w] \in Handler /\ worker[w].pc = "work" /\ WorkerOK(w)
      /\ worker[w].stages \in Seq(Verdict) /\ worker[w].id \in DOMAIN asked
      /\ Reviewing(w) /\ Len(worker[w].stages) \in Nat
  <2>1. worker[w] \in Handler /\ worker[w].pc = "work" /\ WorkerOK(w)
    BY Constants DEF Core, Work
  <2>2. Reviewing(w)
    BY <2>1 DEF Reviewing
  <2> QED BY <2>1, <2>2, LenProperties DEF WorkerOK, Handler
<1>2. /\ worker'[w].pc = "record" /\ Len(worker'[w].stages) = n
      /\ worker'[w].id = worker[w].id
      /\ \A v \in Workers : v # w => worker'[v] = worker[v]
  <2>1. verdict \in Verdict
    BY DEF WorkStep, Verdicts, Verdict
  <2>2. /\ worker'[w].pc = "record" /\ worker'[w].id = worker[w].id
        /\ worker'[w].stages = Append(worker[w].stages, verdict)
        /\ \A v \in Workers : v # w => worker'[v] = worker[v]
    BY <1>1 DEF WorkStep, Handler, Core, RunsTypeOK
  <2> QED BY <1>1, <2>1, <2>2, AppendVerdict
<1>3. /\ run' = run /\ asked' = asked /\ over' = over
      /\ RunsTypeOK /\ IsFiniteSet(DOMAIN asked) /\ spend \in [Inputs -> Nat]
      /\ SpendOK
  BY DEF Work, Core, RunsTypeOK
<1>4. \A id : MayPrompt(id)' => MayPrompt(id)
  <2>1. n <= 1 => Len(worker[w].stages) <= 1
    BY <1>1
  <2> QED BY <1>1, <1>2, <2>1 DEF MayPrompt
<1>5. ASSUME NEW i \in Inputs
      PROVE  spend'[i] <= MaxAttempts * Cardinality(Charged(i)')
  <2>1. Charged(i) \subseteq Charged(i)' /\ Charged(i)' \subseteq DOMAIN asked
    BY <1>3, <1>4 DEF Charged
  <2>2. IsFiniteSet(Charged(i)') /\ IsFiniteSet(Charged(i))
    BY <1>3, <2>1, FS_Subset
  <2>3. Cardinality(Charged(i)) \in Nat /\ Cardinality(Charged(i)') \in Nat
    BY <2>2, FS_CardinalityType
  <2>4. spend[i] <= MaxAttempts * Cardinality(Charged(i)) /\ spend[i] \in Nat
    BY <1>3 DEF SpendOK
  <2>5. CASE spend'[i] = spend[i]
    <3>1. Cardinality(Charged(i)) <= Cardinality(Charged(i)')
      BY <2>1, <2>2, FS_Subset
    <3> QED BY <2>3, <2>4, <2>5, <3>1, MoreRuns
  <2>6. CASE n = 2 /\ asked[worker[w].id] = i
             /\ \E c \in 0..MaxAttempts : spend'[i] = spend[i] + c
    <3>1. worker[w].id \notin Charged(i)
      <4>1. Len(worker[w].stages) <= 1
        BY <1>1, <2>6
      <4> QED BY <1>1, <4>1 DEF Charged, MayPrompt
    <3>2. worker[w].id \in Charged(i)'
      <4>1. \A u \in Workers :
              worker'[u].pc \in {"work", "record"} /\ worker'[u].id = worker[w].id => u = w
        BY <1>1, <1>2 DEF WorkerOK, Reviewing
      <4>2. ~(Len(worker'[w].stages) <= 1)
        BY <1>2, <2>6
      <4>3. \A id : id = worker[w].id => ~MayPrompt(id)'
        BY <4>1, <4>2 DEF MayPrompt
      <4> QED BY <1>1, <1>3, <2>6, <4>3 DEF Charged
    <3>3. /\ Charged(i) \cup {worker[w].id} \subseteq Charged(i)'
          /\ Cardinality(Charged(i) \cup {worker[w].id}) = Cardinality(Charged(i)) + 1
      <4>1. Charged(i) \cup {worker[w].id} \subseteq Charged(i)'
        BY <2>1, <3>2
      <4>2. Cardinality(Charged(i) \cup {worker[w].id}) = Cardinality(Charged(i)) + 1
        BY <2>2, <3>1, FS_AddElement
      <4> QED BY <4>1, <4>2
    <3>4. Cardinality(Charged(i)) + 1 <= Cardinality(Charged(i)')
      <4>1. Cardinality(Charged(i) \cup {worker[w].id}) <= Cardinality(Charged(i)')
        BY <2>2, <3>3, FS_Subset
      <4> QED BY <3>3, <4>1
    <3>5. PICK c \in 0..MaxAttempts : spend'[i] = spend[i] + c
      BY <2>6
    <3>6. spend[i] + c <= MaxAttempts * Cardinality(Charged(i)')
      BY <2>3, <2>4, <3>4, OneMoreRun
    <3> QED BY <3>5, <3>6
  <2>7. Charges(w, n, verdict)
    BY DEF WorkStep
  <2> QED BY <1>1, <1>3, <2>5, <2>6, <2>7, OwnCharge
<1>6. \A id \in DOMAIN asked' : id \in over' \/ run'[asked'[id]].id = id
  BY <1>3 DEF SpendOK
<1> QED BY <1>5, <1>6 DEF SpendOK

LEMMA WorkCore ==
  ASSUME Core, NEW w \in Workers, Work(w)
  PROVE  Core'
<1>1. /\ worker[w] \in Handler /\ worker[w].pc = "work" /\ WorkerOK(w)
      /\ worker[w].stages \in Seq(Verdict) /\ Reviewing(w)
  <2>1. worker[w] \in Handler /\ worker[w].pc = "work" /\ WorkerOK(w)
    BY Constants DEF Core, Work
  <2> QED BY <2>1 DEF Reviewing, Handler
<1>2. PICK n \in Nat : n = Len(worker[w].stages) + 1
  BY <1>1, LenProperties
<1>3. PICK verdict, made : WorkStep(w, n, verdict, made)
  BY <1>1, <1>2, WorkSteps
<1>4. RunsTypeOK'
  BY <1>1, WorkTypes DEF Core
<1>5. /\ run' = run /\ memory' = memory /\ clock' = clock /\ asked' = asked
      /\ over' = over /\ forgotten' = forgotten /\ evidence \subseteq evidence'
      /\ clock \in Nat /\ memory \in Summary
  BY <1>3 DEF Work, WorkStep, Core, RunsTypeOK
<1>6. AskedGrows
  BY <1>5 DEF AskedGrows
<1>7. /\ worker'[w].pc = "record" /\ worker'[w].id = worker[w].id
      /\ \A v \in Workers : v # w => worker'[v] = worker[v]
  BY <1>1, <1>3 DEF WorkStep, Handler, Core, RunsTypeOK
<1>8. \A i \in Inputs : RowOK(i)' /\ ReviewedOK(i)'
  <2>1. clock' \in Nat /\ clock <= clock'
    BY <1>5
  <2> QED BY <1>5, <1>6, <2>1, RowKept DEF Core
<1>9. \A u \in Workers : Reviewing(u)' => Reviewing(u) /\ worker'[u].id = worker[u].id
  BY <1>1, <1>7 DEF Reviewing
<1>10. ASSUME NEW v \in Workers
       PROVE  WorkerOK(v)' /\ MemoryOK(v)'
  <2>1. CASE v = w
    <3>1. WorkerOK(w)'
      BY <1>2, <1>3, WorkedOK
    <3> QED BY <1>7, <2>1, <3>1 DEF MemoryOK
  <2>2. CASE v # w
    <3>1. WorkerOK(v) /\ MemoryOK(v) /\ worker'[v] = worker[v]
      BY <1>7, <2>2 DEF Core
    <3>2. WorkerOK(v)'
      BY <1>5, <1>6, <1>9, <3>1, HandlerKept
    <3>3. memory.revision <= memory.revision
      <4>1. memory.revision \in Nat
        BY <1>5 DEF Summary
      <4> QED BY <4>1
    <3>4. MemoryOK(v)'
      BY <1>5, <1>6, <3>1, <3>3, RememberKept DEF Core
    <3> QED BY <3>2, <3>4
  <2> QED BY <2>1, <2>2
<1>11. SpendOK'
  BY <1>2, <1>3, WorkedSpend
<1> QED BY <1>4, <1>8, <1>10, <1>11 DEF Core

(***************************************************************************)
(* A stage is recorded.                                                    *)
(***************************************************************************)
\* The row of the running run that a handler works on.
OwnRow(w, i) ==
  run[i].id = worker[w].id /\ run[i].status = "running"

\* What recording may do to rows and handlers: to the handler's own row only,
\* which goes on running, and to the handler, which goes on with its review or
\* gives it up.
RecordFrame(w) ==
  /\ \A j \in Inputs :
       \/ run'[j] = run[j]
       \/ /\ OwnRow(w, j) /\ run'[j].id = run[j].id /\ run'[j].status = "running"
          /\ run'[j].fresh = TRUE /\ run'[j].done = run[j].done
          /\ run'[j].result = run[j].result
  /\ \A v \in Workers : v # w => worker'[v] = worker[v]
  /\ \/ worker'[w].pc = "idle"
     \/ /\ worker'[w].pc \in {"work", "record", "finish"}
        /\ worker'[w].id = worker[w].id
        /\ Len(worker'[w].stages) = Len(worker[w].stages)
  /\ UNCHANGED <<evidence, memory, clock, history, forgotten>>

LEMMA RecordFrameCore ==
  ASSUME Core, NEW w \in Workers, worker[w].pc = "record", RecordFrame(w),
         RunsTypeOK', WorkerOK(w)'
  PROVE  Core'
<1>1. /\ evidence' = evidence /\ memory' = memory /\ clock' = clock
      /\ asked' = asked /\ over' = over /\ spend' = spend /\ forgotten' = forgotten
      /\ clock \in Nat /\ memory \in Summary
      /\ \A v \in Workers : v # w => worker'[v] = worker[v]
  BY DEF RecordFrame, history, Core, RunsTypeOK
<1>2. AskedGrows
  BY <1>1 DEF AskedGrows
<1>3. ASSUME NEW j \in Inputs
      PROVE  RowOK(j)' /\ ReviewedOK(j)'
  <2>1. RowOK(j) /\ ReviewedOK(j)
    BY DEF Core
  <2>2. CASE run'[j] = run[j]
    <3>1. clock' \in Nat /\ clock <= clock'
      BY <1>1
    <3> QED BY <1>1, <1>2, <2>1, <2>2, <3>1, RowKept DEF Core
  <2>3. CASE /\ OwnRow(w, j) /\ run'[j].id = run[j].id /\ run'[j].status = "running"
             /\ run'[j].fresh = TRUE /\ run'[j].done = run[j].done
             /\ run'[j].result = run[j].result
    <3>1. Reusable(run'[j])
      BY <2>3 DEF Reusable
    <3>2. "running" \notin Terminal /\ "running" \notin {"ready", "verified"}
      BY DEF Terminal
    <3> QED BY <1>1, <2>1, <2>3, <3>1, <3>2 DEF RowOK, ReviewedOK, OwnRow
  <2> QED BY <2>2, <2>3 DEF RecordFrame
<1>4. \A u \in Workers : Reviewing(u)' => Reviewing(u) /\ worker'[u].id = worker[u].id
  BY <1>1 DEF Reviewing, RecordFrame
<1>5. ASSUME NEW v \in Workers, v # w
      PROVE  WorkerOK(v)'
  <2>1. WorkerOK(v) /\ worker'[v] = worker[v] /\ Reviewing(w)
    BY <1>1, <1>5 DEF Core, Reviewing
  <2>2. ASSUME Reviewing(v), NEW j \in Inputs, run'[j].id = worker[v].id
        PROVE  run'[j] = run[j]
    <3>1. worker[v].id # worker[w].id
      BY <1>5, <2>1, <2>2 DEF WorkerOK
    <3> QED BY <2>2, <3>1 DEF RecordFrame, OwnRow
  <2> QED BY <1>1, <1>2, <1>4, <2>1, <2>2, HandlerKept
<1>6. ASSUME NEW v \in Workers
      PROVE  MemoryOK(v)'
  <2>1. CASE v = w
    BY <2>1 DEF MemoryOK, RecordFrame
  <2>2. CASE v # w
    <3>1. WorkerOK(v) /\ MemoryOK(v) /\ worker'[v] = worker[v]
      BY <1>1, <2>2 DEF Core
    <3>2. \A j \in Inputs : \/ run'[j] = run[j]
                            \/ run'[j].id = run[j].id /\ run[j].status = "running"
      BY DEF RecordFrame, OwnRow
    <3>3. memory.revision <= memory.revision
      <4>1. memory.revision \in Nat
        BY <1>1 DEF Summary
      <4> QED BY <4>1
    <3> QED BY <1>1, <1>2, <3>1, <3>2, <3>3, RememberKept DEF Core
  <2> QED BY <2>1, <2>2
<1>7. SpendOK'
  <2>1. \A j \in Inputs : run'[j].id = run[j].id
    BY DEF RecordFrame
  <2>2. \A u \in Workers :
          worker'[u].pc \in {"work", "record"} /\ Len(worker'[u].stages) <= 1 =>
            /\ worker[u].pc \in {"work", "record"} /\ Len(worker[u].stages) <= 1
            /\ worker[u].id = worker'[u].id
    BY <1>1 DEF RecordFrame
  <2> QED BY <1>1, <2>1, <2>2, SpendKept DEF Core
<1> QED BY <1>3, <1>5, <1>6, <1>7 DEF Core

\* When a stage is recorded, the row has what the handler has.
LEMMA Recorded ==
  ASSUME Core, NEW w \in Workers, worker[w].pc = "record",
         Recordable(worker[w].id, worker[w].stages),
         RecordStage(worker[w].id, worker[w].stages)
  PROVE  /\ \A j \in Inputs :
              \/ run'[j] = run[j] /\ run'[j].id # worker[w].id
              \/ /\ OwnRow(w, j) /\ run'[j].id = run[j].id /\ run'[j].status = "running"
                 /\ run'[j].fresh = TRUE /\ run'[j].done = run[j].done
                 /\ run'[j].result = run[j].result
                 /\ run'[j].stages = worker[w].stages
<1>1. /\ worker[w] \in Handler /\ WorkerOK(w) /\ Reviewing(w)
      /\ worker[w].id \in DOMAIN asked /\ run \in [Inputs -> RunRow]
  BY Constants DEF Core, WorkerOK, Reviewing, RunsTypeOK
<1>2. PICK i \in Inputs : i = Row(worker[w].id) /\ run[i].id = worker[w].id
  BY <1>1, RowOf DEF Recordable, Core
<1>3. /\ run[i].status = "running" /\ Len(run[i].stages) + 1 = Len(worker[w].stages)
      /\ run[i] \in RunRow
  BY <1>1, <1>2 DEF Recordable
<1>4. Append(run[i].stages, worker[w].stages[Len(worker[w].stages)]) = worker[w].stages
  <2>1. InStep(worker[w], run[i])
    BY <1>1, <1>2, <1>3 DEF WorkerOK
  <2>2. ~(Len(run[i].stages) = 2 /\ Len(worker[w].stages) = 2)
    BY <1>3
  <2> QED BY <2>1, <2>2 DEF InStep
<1>5. /\ run'[i].stages = worker[w].stages /\ run'[i].id = run[i].id
      /\ run'[i].status = "running" /\ run'[i].fresh = TRUE
      /\ run'[i].done = run[i].done /\ run'[i].result = run[i].result
  BY <1>1, <1>2, <1>3, <1>4 DEF RecordStage, RunRow
<1>6. ASSUME NEW j \in Inputs, j # i
      PROVE  run'[j] = run[j] /\ run[j].id # worker[w].id
  <2>1. run'[j] = run[j]
    BY <1>1, <1>2, <1>6 DEF RecordStage
  <2>2. worker[w].id # NoRun
    BY <1>1, RunsAssumption DEF Core, RunsTypeOK
  <2> QED BY <1>2, <1>6, <2>1, <2>2 DEF Core, RowOK
<1> QED BY <1>2, <1>3, <1>5, <1>6 DEF OwnRow

\* A handler that heard that its stage was recorded is in order.
LEMMA GoesOn ==
  ASSUME Core, NEW w \in Workers, worker[w].pc = "record",
         worker' = [worker EXCEPT
           ![w].pc = IF Len(worker[w].stages) = 4 THEN "finish" ELSE "work"],
         UNCHANGED <<evidence, asked>>,
         \A j \in Inputs :
           run'[j].id = worker[w].id => run'[j].stages = worker[w].stages
  PROVE  /\ WorkerOK(w)' /\ worker'[w].pc \in {"work", "finish"}
         /\ worker'[w].id = worker[w].id
         /\ Len(worker'[w].stages) = Len(worker[w].stages)
         /\ \A v \in Workers : v # w => worker'[v] = worker[v]
<1>1. /\ worker[w] \in Handler /\ WorkerOK(w) /\ Reviewing(w)
      /\ worker[w].id \in DOMAIN asked /\ Sound(worker[w].stages)
      /\ Len(worker[w].stages) \in Nat
  <2>1. /\ worker[w] \in Handler /\ WorkerOK(w) /\ Reviewing(w)
    BY Constants DEF Core, Reviewing
  <2> QED BY <2>1, LenProperties DEF WorkerOK, Reviewing, Handler
<1>2. /\ worker'[w].pc = IF Len(worker[w].stages) = 4 THEN "finish" ELSE "work"
      /\ worker'[w].id = worker[w].id /\ worker'[w].stages = worker[w].stages
      /\ worker'[w].made = worker[w].made
      /\ \A v \in Workers : v # w => worker'[v] = worker[v]
  BY <1>1 DEF Handler, Core, RunsTypeOK
<1>3. /\ worker'[w].pc # "record" /\ worker'[w].pc \in {"work", "finish"}
      /\ worker'[w].pc = "work" => Len(worker[w].stages) < 4
      /\ worker'[w].pc = "finish" => Len(worker[w].stages) = 4
  <2>1. Len(worker[w].stages) # 4 => Len(worker[w].stages) < 4
    <3>1. Len(worker[w].stages) <= 4
      BY <1>1 DEF Sound
    <3>2. \A k \in Nat : k <= 4 /\ k # 4 => k < 4
      OBVIOUS
    <3> QED BY <1>1, <3>1, <3>2, Zenon
  <2> QED BY <1>2, <2>1
<1>4. ASSUME NEW j \in Inputs, run'[j].id = worker[w].id
      PROVE  InStep(worker'[w], run'[j])
  BY <1>2, <1>3, <1>4 DEF InStep
<1>5. \A u \in Workers : Reviewing(u)' /\ worker'[u].id = worker'[w].id => u = w
  BY <1>1, <1>2 DEF WorkerOK, Reviewing
<1>6. /\ worker[w].made \subseteq evidence \cap {<<worker[w].id, 1>>, <<worker[w].id, 2>>}
      /\ \A n \in 1..2 : n <= Len(worker[w].stages) /\ worker[w].stages[n] = "passed" =>
           <<worker[w].id, n>> \in worker[w].made
  BY <1>1 DEF WorkerOK
<1>7. WorkerOK(w)'
  BY <1>1, <1>2, <1>3, <1>4, <1>5, <1>6 DEF WorkerOK
<1> QED BY <1>2, <1>3, <1>7

\* One whose second stage has become "failed" is in order, whether the stage
\* was recorded before or not.
LEMMA FailsOn ==
  ASSUME Core, NEW w \in Workers, worker[w].pc = "record",
         Len(worker[w].stages) = 2, ~worker[w].caught,
         worker' = [worker EXCEPT ![w].stages[2] = "failed", ![w].caught = TRUE],
         UNCHANGED <<evidence, asked>>,
         \A j \in Inputs : run'[j].id = worker[w].id =>
           run'[j] = run[j] \/ run'[j].stages = worker[w].stages
  PROVE  /\ WorkerOK(w)' /\ worker'[w].pc = "record"
         /\ worker'[w].id = worker[w].id
         /\ Len(worker'[w].stages) = Len(worker[w].stages)
         /\ \A v \in Workers : v # w => worker'[v] = worker[v]
<1>1. /\ worker[w] \in Handler /\ WorkerOK(w) /\ Reviewing(w)
      /\ worker[w].id \in DOMAIN asked /\ Sound(worker[w].stages)
      /\ worker[w].stages \in Seq(Verdict)
  <2>1. /\ worker[w] \in Handler /\ WorkerOK(w) /\ Reviewing(w)
    BY Constants DEF Core, Reviewing
  <2> QED BY <2>1 DEF WorkerOK, Reviewing, Handler
<1>2. PICK t : t = [worker[w].stages EXCEPT ![2] = "failed"]
  OBVIOUS
<1>3. /\ t \in Seq(Verdict) /\ Len(t) = 2 /\ Sound(t)
      /\ t[1] = worker[w].stages[1] /\ t[2] = "failed"
  BY <1>1, <1>2, FailedVerdict
<1>4. /\ worker'[w].pc = "record" /\ worker'[w].caught = TRUE
      /\ worker'[w].id = worker[w].id /\ worker'[w].stages = t
      /\ worker'[w].made = worker[w].made
      /\ \A v \in Workers : v # w => worker'[v] = worker[v]
  BY <1>1, <1>2 DEF Handler, Core, RunsTypeOK
<1>5. ASSUME NEW j \in Inputs, run'[j].id = worker[w].id, run'[j].status = "running"
      PROVE  InStep(worker'[w], run'[j])
  <2>1. CASE run'[j].stages = worker[w].stages
    BY <1>3, <1>4, <2>1 DEF InStep
  <2>2. CASE run'[j] = run[j]
    <3>1. InStep(worker[w], run[j]) /\ run[j].stages \in Seq(Verdict)
      BY <1>1, <1>5, <2>2, Constants DEF WorkerOK, Core, RunRow
    <3>2. worker[w].stages = Append(run[j].stages, worker[w].stages[2])
      BY <3>1 DEF InStep
    <3>3. worker[w].stages[2] \in Verdict
      BY <1>1, VerdictAt
    <3>4. Len(worker[w].stages) = Len(run[j].stages) + 1
      BY <3>1, <3>2, <3>3, AppendVerdict
    <3>5. Len(run[j].stages) = 1
      <4>1. Len(run[j].stages) \in Nat
        BY <3>1, LenProperties
      <4>2. \A k \in Nat : 2 = k + 1 => k = 1
        OBVIOUS
      <4> QED BY <3>4, <4>1, <4>2, Zenon
    <3>6. run[j].stages[1] = worker[w].stages[1]
      BY <3>1, <3>2, <3>3, <3>5, AppendVerdict
    <3>7. "failed" \in Verdict
      BY DEF Verdict
    <3>8. Append(run[j].stages, "failed") = t
      <4>0. PICK s : s = Append(run[j].stages, "failed")
        OBVIOUS
      <4>1. s \in Seq(Verdict) /\ Len(s) = 2 /\ s[1] = t[1] /\ s[2] = t[2]
        <5>1. 1 + 1 = 2 /\ 1 \in 1..1
          OBVIOUS
        <5> QED BY <1>3, <3>1, <3>5, <3>6, <3>7, <4>0, <5>1, AppendVerdict
      <4>2. \A k \in 1..2 : s[k] = t[k]
        <5>1. \A k \in 1..2 : k = 1 \/ k = 2
          OBVIOUS
        <5> QED BY <4>1, <5>1
      <4>3. Len(s) = Len(t) /\ \A k \in 1..Len(s) : s[k] = t[k]
        BY <1>3, <4>1, <4>2
      <4>4. s = t
        BY <1>3, <4>1, <4>3, SeqEqual
      <4> QED BY <4>0, <4>4
    <3> QED BY <1>3, <1>4, <2>2, <3>8 DEF InStep
  <2> QED BY <1>5, <2>1, <2>2
<1>6. ASSUME NEW n \in 1..2, t[n] = "passed"
      PROVE  <<worker[w].id, n>> \in worker'[w].made
  <2>1. n = 1
    BY <1>3, <1>6
  <2>2. worker[w].stages[1] = "passed" /\ 1 <= 2 /\ 1 \in 1..2
    BY <1>3, <1>6, <2>1
  <2> QED BY <1>1, <1>4, <2>1, <2>2 DEF WorkerOK
<1>7. 2 > 0
  OBVIOUS
<1>8. \A u \in Workers : Reviewing(u)' /\ worker'[u].id = worker'[w].id => u = w
  BY <1>1, <1>4 DEF WorkerOK, Reviewing
<1>9. worker[w].made \subseteq evidence \cap {<<worker[w].id, 1>>, <<worker[w].id, 2>>}
  BY <1>1 DEF WorkerOK
<1>10. WorkerOK(w)'
  BY <1>1, <1>3, <1>4, <1>5, <1>6, <1>7, <1>8, <1>9 DEF WorkerOK
<1> QED BY <1>3, <1>4, <1>10

LEMMA RecordCore ==
  ASSUME Core, NEW w \in Workers, Record(w)
  PROVE  Core'
<1>1. /\ worker[w].pc = "record" /\ WorkerOK(w)
      /\ evidence' = evidence /\ memory' = memory /\ clock' = clock
      /\ history' = history /\ asked' = asked /\ forgotten' = forgotten
      /\ faults' = faults \/ Fault
  BY DEF Record, Core, history
<1>2. RunsTypeOK'
  BY <1>1, RecordTypes DEF Core
<1>3. ASSUME Throw(w)
      PROVE  worker'[w].pc = "idle" /\ WorkerOK(w)'
             /\ \A v \in Workers : v # w => worker'[v] = worker[v]
  <2>1. worker'[w] = Idle /\ \A v \in Workers : v # w => worker'[v] = worker[v]
    BY <1>3 DEF Throw, Core, RunsTypeOK
  <2> QED BY <2>1 DEF Idle, WorkerOK, Reviewing
<1>4. CASE /\ Recordable(worker[w].id, worker[w].stages)
           /\ RecordStage(worker[w].id, worker[w].stages)
           /\ \/ /\ worker' = [worker EXCEPT
                     ![w].pc = IF Len(worker[w].stages) = 4 THEN "finish" ELSE "work"]
                /\ UNCHANGED <<answer, faults>>
              \/ Fault /\ StageError(w)
  <2>1. \A j \in Inputs :
          \/ run'[j] = run[j] /\ run'[j].id # worker[w].id
          \/ /\ OwnRow(w, j) /\ run'[j].id = run[j].id /\ run'[j].status = "running"
             /\ run'[j].fresh = TRUE /\ run'[j].done = run[j].done
             /\ run'[j].result = run[j].result
             /\ run'[j].stages = worker[w].stages
    BY <1>1, <1>4, Recorded
  <2>2. CASE worker' = [worker EXCEPT
               ![w].pc = IF Len(worker[w].stages) = 4 THEN "finish" ELSE "work"]
    <3>1. /\ WorkerOK(w)' /\ worker'[w].pc \in {"work", "finish"}
          /\ worker'[w].id = worker[w].id
          /\ Len(worker'[w].stages) = Len(worker[w].stages)
          /\ \A v \in Workers : v # w => worker'[v] = worker[v]
      BY <1>1, <2>1, <2>2, GoesOn
    <3>2. RecordFrame(w)
      BY <1>1, <2>1, <3>1 DEF RecordFrame
    <3> QED BY <1>1, <1>2, <3>1, <3>2, RecordFrameCore
  <2>3. CASE Throw(w)
    <3>1. RecordFrame(w)
      BY <1>1, <1>3, <2>1, <2>3 DEF RecordFrame
    <3> QED BY <1>1, <1>2, <1>3, <2>3, <3>1, RecordFrameCore
  <2>4. CASE /\ Len(worker[w].stages) = 2 /\ ~worker[w].caught
             /\ worker' = [worker EXCEPT ![w].stages[2] = "failed", ![w].caught = TRUE]
    <3>1. /\ WorkerOK(w)' /\ worker'[w].pc = "record"
          /\ worker'[w].id = worker[w].id
          /\ Len(worker'[w].stages) = Len(worker[w].stages)
          /\ \A v \in Workers : v # w => worker'[v] = worker[v]
      BY <1>1, <2>1, <2>4, FailsOn
    <3>2. RecordFrame(w)
      BY <1>1, <2>1, <3>1 DEF RecordFrame
    <3> QED BY <1>1, <1>2, <3>1, <3>2, RecordFrameCore
  <2> QED BY <1>4, <2>2, <2>3, <2>4 DEF StageError
<1>5. CASE StageError(w) /\ UNCHANGED run
  <2>1. CASE Throw(w)
    BY <1>1, <1>5, <2>1, ThrowCore
  <2>2. CASE /\ Len(worker[w].stages) = 2 /\ ~worker[w].caught
             /\ worker' = [worker EXCEPT ![w].stages[2] = "failed", ![w].caught = TRUE]
    <3>1. /\ WorkerOK(w)' /\ worker'[w].pc = "record"
          /\ worker'[w].id = worker[w].id
          /\ Len(worker'[w].stages) = Len(worker[w].stages)
          /\ \A v \in Workers : v # w => worker'[v] = worker[v]
      BY <1>1, <1>5, <2>2, FailsOn
    <3>2. RecordFrame(w)
      BY <1>1, <1>5, <3>1 DEF RecordFrame
    <3> QED BY <1>1, <1>2, <3>1, <3>2, RecordFrameCore
  <2> QED BY <1>5, <2>1, <2>2 DEF StageError
<1> QED BY <1>4, <1>5 DEF Record

(***************************************************************************)
(* A run is finished.                                                      *)
(***************************************************************************)
\* What the row of a finished run is.
LEMMA Finished ==
  ASSUME Core, NEW w \in Workers, worker[w].pc = "finish",
         NEW status, status = TerminalStatus(worker[w].stages),
         Finishable(worker[w].id, status),
         run' = [run EXCEPT ![Row(worker[w].id)].status = status,
                  ![Row(worker[w].id)].done = clock + 1,
                  ![Row(worker[w].id)].result = worker[w].made],
         UNCHANGED <<evidence, asked>>, clock' = clock + 1,
         over' = IF status = "failed" THEN over \cup {worker[w].id} ELSE over
  PROVE  \E i \in Inputs :
           /\ OwnRow(w, i) /\ run'[i].id = run[i].id /\ run'[i].status # "running"
           /\ RowOK(i)' /\ ReviewedOK(i)'
           /\ \A j \in Inputs : j # i =>
                run'[j] = run[j] /\ run[j].id # worker[w].id
<1>1. /\ worker[w] \in Handler /\ WorkerOK(w) /\ Reviewing(w)
      /\ worker[w].id \in DOMAIN asked /\ run \in [Inputs -> RunRow]
      /\ clock \in Nat /\ worker[w].stages \in Seq(Verdict)
      /\ Len(worker[w].stages) = 4 /\ Sound(worker[w].stages)
  <2>1. /\ worker[w] \in Handler /\ WorkerOK(w) /\ Reviewing(w)
        /\ run \in [Inputs -> RunRow] /\ clock \in Nat
    BY Constants DEF Core, Reviewing, RunsTypeOK
  <2> QED BY <2>1 DEF WorkerOK, Reviewing, Handler
<1>2. PICK i \in Inputs : i = Row(worker[w].id) /\ run[i].id = worker[w].id
  BY <1>1, RowOf DEF Finishable, Core
<1>3. run[i].status = "running" /\ run[i] \in RunRow
  BY <1>1, <1>2 DEF Finishable
<1>4. run[i].stages = worker[w].stages
  <2>1. InStep(worker[w], run[i])
    BY <1>1, <1>2, <1>3 DEF WorkerOK
  <2> QED BY <2>1 DEF InStep
<1>5. PICK row : row = [run[i] EXCEPT !.status = status, !.done = clock + 1,
                                      !.result = worker[w].made]
  OBVIOUS
<1>6. /\ run' = [run EXCEPT ![i] = row] /\ row.id = worker[w].id
      /\ row.status = status /\ row.stages = worker[w].stages
      /\ row.done = clock + 1 /\ row.result = worker[w].made
      /\ row.fresh = run[i].fresh
  BY <1>1, <1>2, <1>3, <1>4, <1>5 DEF RunRow
<1>7. run'[i] = row /\ \A j \in Inputs : j # i => run'[j] = run[j]
  BY <1>1, <1>6
<1>8. /\ status \in {"failed", "blocked", "verified", "ready"}
      /\ status = DerivedStatus(worker[w].stages)
  <2>1. status \in {"failed", "blocked", "verified", "ready"}
    BY DEF TerminalStatus
  <2>2. DerivedStatus(run[i].stages) = status
    BY <1>2 DEF Finishable
  <2> QED BY <1>4, <2>1, <2>2
<1>9. RowOK(i)'
  <2>1. clock + 1 > 0 /\ clock + 1 <= clock + 1
    BY <1>1
  <2>2. worker[w].id # NoRun /\ asked[worker[w].id] = i
    BY <1>1, <1>2, RunsAssumption DEF Core, RowOK, RunsTypeOK
  <2>3. worker[w].made \subseteq evidence
    BY <1>1 DEF WorkerOK
  <2>4. status # "none" /\ status \in Terminal
    BY <1>8 DEF Terminal
  <2>5. ~Reusable(row) => status = "failed"
    BY <1>6, <1>8 DEF Reusable
  <2> QED BY <1>1, <1>6, <1>7, <2>1, <2>2, <2>3, <2>4, <2>5 DEF RowOK
<1>10. ReviewedOK(i)'
  <2> SUFFICES ASSUME status \in {"ready", "verified"}
               PROVE  /\ Passed(SubSeq(worker[w].stages, 1, 3))
                      /\ worker[w].made = {<<worker[w].id, 1>>, <<worker[w].id, 2>>}
    BY <1>6, <1>7 DEF ReviewedOK
  <2>1. Passed(SubSeq(worker[w].stages, 1, 3))
    BY <1>8 DEF DerivedStatus
  <2>2. \A n \in 1..3 : worker[w].stages[n] = "passed"
    <3>1. 3 \in 1..Len(worker[w].stages)
      BY <1>1
    <3> QED BY <1>1, <2>1, <3>1, FirstPassed
  <2>3. \A n \in 1..2 : n \in 1..3 /\ n <= 4
    OBVIOUS
  <2>4. \A n \in 1..2 : <<worker[w].id, n>> \in worker[w].made
    BY <1>1, <2>2, <2>3 DEF WorkerOK
  <2>5. worker[w].made \subseteq {<<worker[w].id, 1>>, <<worker[w].id, 2>>}
    BY <1>1 DEF WorkerOK
  <2>6. 1 \in 1..2 /\ 2 \in 1..2
    OBVIOUS
  <2> QED BY <2>1, <2>4, <2>5, <2>6
<1>11. ASSUME NEW j \in Inputs, j # i
       PROVE  run[j].id # worker[w].id
  <2>1. worker[w].id # NoRun
    BY <1>1, RunsAssumption DEF Core, RunsTypeOK
  <2> QED BY <1>2, <1>11, <2>1 DEF Core, RowOK
<1>12. OwnRow(w, i) /\ run'[i].id = run[i].id /\ run'[i].status # "running"
  BY <1>2, <1>3, <1>6, <1>7, <1>8 DEF OwnRow
<1> QED BY <1>7, <1>9, <1>10, <1>11, <1>12

LEMMA FinishCore ==
  ASSUME Core, NEW w \in Workers, Finish(w)
  PROVE  Core'
<1>1. /\ worker[w].pc = "finish" /\ WorkerOK(w) /\ worker[w] \in Handler
      /\ worker[w].id \in DOMAIN asked
      /\ evidence' = evidence /\ memory' = memory /\ asked' = asked
      /\ spend' = spend /\ forgotten' = forgotten /\ clock \in Nat
      /\ memory \in Summary /\ (faults' = faults \/ Fault)
  <2>1. /\ worker[w].pc = "finish" /\ WorkerOK(w) /\ worker[w] \in Handler
    BY Constants DEF Finish, Core
  <2> QED BY <2>1 DEF Finish, Core, WorkerOK, RunsTypeOK
<1>a. memory \in Summary /\ memory' \in Summary /\ memory'.revision = memory.revision
  BY <1>1
<1>b. memory.revision <= memory.revision
  <2>1. memory.revision \in Nat
    BY <1>a DEF Summary
  <2> QED BY <2>1
<1>2. CASE Throw(w) /\ UNCHANGED <<run, clock, over>>
  BY <1>1, <1>2, ThrowCore DEF history
<1>3. CASE /\ Finishable(worker[w].id, TerminalStatus(worker[w].stages))
           /\ run' = [run EXCEPT ![Row(worker[w].id)].status = TerminalStatus(worker[w].stages),
                ![Row(worker[w].id)].done = clock + 1,
                ![Row(worker[w].id)].result = worker[w].made]
           /\ clock' = clock + 1
           /\ over' = IF TerminalStatus(worker[w].stages) = "failed"
                      THEN over \cup {worker[w].id} ELSE over
           /\ worker' = [worker EXCEPT ![w].pc = "recall"] \/ Throw(w)
  <2>1. RunsTypeOK'
    BY <1>1, FinishTypes DEF Core
  <2>2. PICK i \in Inputs :
          /\ OwnRow(w, i) /\ run'[i].id = run[i].id /\ run'[i].status # "running"
          /\ RowOK(i)' /\ ReviewedOK(i)'
          /\ \A j \in Inputs : j # i =>
               run'[j] = run[j] /\ run[j].id # worker[w].id
    BY <1>1, <1>3, Finished
  <2>3. AskedGrows
    BY <1>1 DEF AskedGrows
  <2>4. clock' \in Nat /\ clock <= clock' /\ over \subseteq over'
    BY <1>1, <1>3
  <2>5. \A j \in Inputs : RowOK(j)' /\ ReviewedOK(j)'
    BY <1>1, <2>2, <2>3, <2>4, RowKept DEF Core
  <2>6. /\ worker'[w].pc \in {"idle", "recall"}
        /\ worker'[w].pc # "idle" => worker'[w].id = worker[w].id
        /\ \A v \in Workers : v # w => worker'[v] = worker[v]
    <3>1. CASE worker' = [worker EXCEPT ![w].pc = "recall"]
      BY <1>1, <3>1 DEF Handler, Core, RunsTypeOK
    <3>2. CASE Throw(w)
      BY <3>2 DEF Throw, Idle, Core, RunsTypeOK
    <3> QED BY <1>3, <3>1, <3>2
  <2>7. \A u \in Workers : Reviewing(u)' => Reviewing(u) /\ worker'[u].id = worker[u].id
    BY <2>6 DEF Reviewing
  <2>8. ASSUME NEW v \in Workers
        PROVE  WorkerOK(v)' /\ MemoryOK(v)'
    <3>1. CASE v = w
      BY <1>1, <2>6, <3>1 DEF WorkerOK, MemoryOK, Reviewing
    <3>2. CASE v # w
      <4>1. WorkerOK(v) /\ MemoryOK(v) /\ worker'[v] = worker[v] /\ Reviewing(w)
        BY <1>1, <2>6, <3>2 DEF Core, Reviewing
      <4>2. ASSUME Reviewing(v), NEW j \in Inputs, run'[j].id = worker[v].id
            PROVE  run'[j] = run[j]
        <5>1. worker[v].id # worker[w].id
          BY <3>2, <4>1, <4>2 DEF WorkerOK
        <5> QED BY <2>2, <4>2, <5>1 DEF OwnRow
      <4>3. WorkerOK(v)'
        BY <1>1, <2>3, <2>7, <4>1, <4>2, HandlerKept
      <4>4. \A j \in Inputs : \/ run'[j] = run[j]
                              \/ run'[j].id = run[j].id /\ run[j].status = "running"
        BY <2>2 DEF OwnRow
      <4>5. MemoryOK(v)'
        BY <1>1, <1>a, <1>b, <2>3, <4>1, <4>4, RememberKept DEF Core
      <4> QED BY <4>3, <4>5
    <3> QED BY <3>1, <3>2
  <2>9. SpendOK'
    <3>1. \A j \in Inputs : run'[j].id = run[j].id
      BY <2>2
    <3>2. \A u \in Workers :
            worker'[u].pc \in {"work", "record"} /\ Len(worker'[u].stages) <= 1 =>
              /\ worker[u].pc \in {"work", "record"} /\ Len(worker[u].stages) <= 1
              /\ worker[u].id = worker'[u].id
      BY <2>6
    <3> QED BY <1>1, <2>4, <3>1, <3>2, SpendKept DEF Core
  <2> QED BY <2>1, <2>5, <2>8, <2>9 DEF Core
<1> QED BY <1>2, <1>3 DEF Finish

(***************************************************************************)
(* The invariant.                                                          *)
(***************************************************************************)
LEMMA CoreInit ==
  ASSUME Init
  PROVE  Core
<1>1. NoRow \in RunRow /\ Idle \in Handler /\ NoMemory \in Summary
  <2>1. NoMemory \in Summary
    BY DEF NoMemory, Summary
  <2>2. <<>> \in Seq(Verdict)
    OBVIOUS
  <2> QED BY <2>1, <2>2 DEF NoRow, RunRow, Idle, Handler
<1>2. DOMAIN asked = {} /\ IsFiniteSet(DOMAIN asked)
  BY FS_EmptySet DEF Init
<1>3. faults \in 0..MaxFaults /\ forgotten \in 0..MaxForgotten
  BY RunsAssumption DEF Init
<1>4. asked \in [DOMAIN asked -> Inputs]
  BY <1>2 DEF Init
<1>5. RunsTypeOK
  BY <1>1, <1>2, <1>3, <1>4 DEF Init, RunsTypeOK
<1>6. ASSUME NEW i \in Inputs
      PROVE  RowOK(i) /\ ReviewedOK(i)
  <2>1. run[i] = NoRow /\ clock = 0
    BY DEF Init
  <2>2. ~(0 > 0) /\ 0 <= 0
    OBVIOUS
  <2> QED BY <2>1, <2>2 DEF NoRow, RowOK, ReviewedOK, Terminal
<1>7. \A w \in Workers : WorkerOK(w) /\ MemoryOK(w)
  BY DEF Init, Idle, WorkerOK, MemoryOK, Reviewing
<1>8. SpendOK
  <2>1. ASSUME NEW i \in Inputs
        PROVE  spend[i] <= MaxAttempts * Cardinality(Charged(i))
    <3>1. Charged(i) = {}
      BY <1>2 DEF Charged
    <3>2. spend[i] = 0 /\ Cardinality(Charged(i)) = 0
      BY <3>1, FS_EmptySet DEF Init
    <3>3. MaxAttempts * 0 = 0
      BY RunsAssumption
    <3> QED BY <3>2, <3>3
  <2> QED BY <1>2, <2>1 DEF SpendOK
<1> QED BY <1>5, <1>6, <1>7, <1>8 DEF Core

LEMMA CoreStep ==
  ASSUME Core, [Next]_vars
  PROVE  Core'
<1>1. CASE UNCHANGED vars
  <2>1. /\ run' = run /\ evidence' = evidence /\ memory' = memory /\ worker' = worker
        /\ answer' = answer /\ clock' = clock /\ asked' = asked /\ over' = over
        /\ spend' = spend /\ faults' = faults /\ forgotten' = forgotten
    BY <1>1 DEF vars, history
  <2>2. RunsTypeOK'
    BY <2>1 DEF Core, RunsTypeOK
  <2>3. \A i \in Inputs : RowOK(i)' /\ ReviewedOK(i)'
    BY <2>1 DEF Core, RowOK, ReviewedOK, Reusable
  <2>4. \A u \in Workers : Reviewing(u)' <=> Reviewing(u)
    BY <2>1 DEF Reviewing
  <2>5. \A u \in Workers : WorkerOK(u)'
    BY <2>1, <2>4 DEF Core, WorkerOK
  <2>6. \A u \in Workers : MemoryOK(u)'
    BY <2>1 DEF Core, MemoryOK, Exists, Held
  <2>7. SpendOK'
    BY <2>1, SpendKept DEF Core
  <2> QED BY <2>2, <2>3, <2>5, <2>6, <2>7 DEF Core
<1>2. ASSUME NEW w \in Workers, Step(w) \/ Crash(w) \/ \E i \in Inputs : Begin(w, i)
      PROVE  Core'
  <2>1. ASSUME NEW i \in Inputs, Begin(w, i)
        PROVE  Core'
    BY <2>1, ReuseCore, BeginCore
  <2> QED BY <1>2, <2>1, WorkCore, RecordCore, FinishCore, RecallCore, RememberCore,
             AnswerCore, CrashCore DEF Step
<1> QED BY <1>1, <1>2, LeaseCore, ForgetCore DEF Next, List

\* Each run that is charged for it asks the model so many times; all of those
\* but the latest are over.
LEMMA CoreSpend ==
  ASSUME Core
  PROVE  SpendBounded
<1> SUFFICES ASSUME NEW i \in Inputs
             PROVE  spend[i] <= MaxAttempts * (1 + Cardinality({id \in over : asked[id] = i}))
  BY DEF SpendBounded
<1>1. PICK ended : ended = {id \in over : asked[id] = i}
  OBVIOUS
<1>2. /\ IsFiniteSet(DOMAIN asked) /\ over \subseteq DOMAIN asked
      /\ spend[i] \in Nat /\ spend[i] <= MaxAttempts * Cardinality(Charged(i))
      /\ \A id \in DOMAIN asked : id \in over \/ run[asked[id]].id = id
  BY DEF Core, SpendOK, RunsTypeOK
<1>3. ended \subseteq DOMAIN asked
  BY <1>1, <1>2
<1>4. IsFiniteSet(ended) /\ Cardinality(ended) \in Nat
  BY <1>2, <1>3, FS_Subset, FS_CardinalityType
<1>5. Charged(i) \subseteq ended \cup {run[i].id}
  BY <1>1, <1>2 DEF Charged
<1>6. /\ IsFiniteSet(ended \cup {run[i].id})
      /\ Cardinality(ended \cup {run[i].id}) <= Cardinality(ended) + 1
  <2>1. CASE run[i].id \in ended
    <3>1. ended \cup {run[i].id} = ended
      BY <2>1
    <3> QED BY <1>4, <3>1
  <2>2. CASE run[i].id \notin ended
    <3>1. /\ IsFiniteSet(ended \cup {run[i].id})
          /\ Cardinality(ended \cup {run[i].id}) = Cardinality(ended) + 1
      BY <1>4, <2>2, FS_AddElement
    <3> QED BY <1>4, <3>1
  <2> QED BY <2>1, <2>2
<1>7. /\ IsFiniteSet(Charged(i))
      /\ Cardinality(Charged(i)) <= Cardinality(ended \cup {run[i].id})
  BY <1>5, <1>6, FS_Subset
<1>8. /\ Cardinality(Charged(i)) \in Nat
      /\ Cardinality(ended \cup {run[i].id}) \in Nat
  BY <1>6, <1>7, FS_CardinalityType
<1>9. spend[i] <= MaxAttempts * (1 + Cardinality(ended))
  <2>1. Cardinality(Charged(i)) <= 1 + Cardinality(ended) /\ 1 + Cardinality(ended) \in Nat
    BY <1>4, <1>6, <1>7, <1>8
  <2> QED BY <1>2, <1>8, <2>1, MoreRuns
<1> QED BY <1>1, <1>9

LEMMA CoreAgrees ==
  ASSUME Core
  PROVE  StatusesAgree
<1> SUFFICES ASSUME NEW w \in Workers, worker[w].pc = "finish",
                    Exists(worker[w].id),
                    run[Row(worker[w].id)].status = "running"
             PROVE  Finishable(worker[w].id, TerminalStatus(worker[w].stages))
  BY DEF StatusesAgree
<1>1. /\ WorkerOK(w) /\ Reviewing(w) /\ worker[w].id \in DOMAIN asked
      /\ worker[w].stages \in Seq(Verdict) /\ Len(worker[w].stages) = 4
      /\ Sound(worker[w].stages)
  <2>1. WorkerOK(w) /\ Reviewing(w) /\ worker[w] \in Handler
    BY Constants DEF Core, Reviewing
  <2> QED BY <2>1 DEF WorkerOK, Reviewing, Handler
<1>2. PICK i \in Inputs : i = Row(worker[w].id) /\ run[i].id = worker[w].id
  BY <1>1, RowOf DEF Core
<1>3. run[i].stages = worker[w].stages
  <2>1. InStep(worker[w], run[i])
    BY <1>1, <1>2 DEF WorkerOK
  <2> QED BY <2>1 DEF InStep
<1>4. TerminalStatus(worker[w].stages) = DerivedStatus(worker[w].stages)
  BY <1>1, SameStatus
<1> QED BY <1>1, <1>2, <1>3, <1>4 DEF Finishable

\* Behind the rest: rows, handlers, memory and charges are in step at all times.
THEOREM RunsInStep == Spec => []Core
<1>1. Init => Core
  BY CoreInit
<1>2. Core /\ [Next]_vars => Core'
  BY CoreStep
<1> QED BY <1>1, <1>2, PTL DEF Spec

\* A review is what its stages made it: rows, handlers and evidence are of their
\* types and in step, handler and database derive the same outcome, and what
\* unlocks signing has passed every stage and names what was stored for it
\* (begin_, record_stage, finish_ and remember_settlement_agent_run).
THEOREM RunsAreReviewed == Spec => []RunInvariant
<1>1. Core => RunInvariant
  BY CoreAgrees DEF Core, RunInvariant, ReadyIsReviewed, ReviewedOK
<1> QED BY <1>1, RunsInStep, PTL

\* Spend is bounded: beyond the attempts of one run, the model is asked about an
\* input only for runs that replace one that failed or lost its lease (agentControl.ts,
\* proposeAllocation.ts, begin_settlement_agent_run).
THEOREM SpendIsBounded == Spec => []SpendBounded
<1>1. Core => SpendBounded
  BY CoreSpend
<1> QED BY <1>1, RunsInStep, PTL

(***************************************************************************)
(* What a step may never do.                                               *)
(***************************************************************************)
LEMMA KeepStep ==
  ASSUME Core, Next, NEW i \in Inputs, run[i].status \in {"ready", "verified", "blocked"}
  PROVE  run'[i] = run[i]
<1>1. run \in [Inputs -> RunRow] /\ run[i].status # "running" /\ Reusable(run[i])
  BY DEF Core, RunsTypeOK, Reusable
<1>2. ASSUME NEW w \in Workers, Work(w) \/ Recall(w) \/ Remember(w) \/ Answer(w) \/ Crash(w)
      PROVE  run'[i] = run[i]
  BY <1>2 DEF Work, Recall, Remember, Answer, Crash
<1>3. ASSUME NEW w \in Workers, Record(w)
      PROVE  run'[i] = run[i]
  <2>1. CASE /\ Recordable(worker[w].id, worker[w].stages)
             /\ RecordStage(worker[w].id, worker[w].stages)
    <3>1. run[Row(worker[w].id)].status = "running"
      BY <2>1 DEF Recordable
    <3>2. Row(worker[w].id) # i
      BY <1>1, <3>1
    <3> QED BY <1>1, <2>1, <3>2 DEF RecordStage
  <2>2. CASE run' = run
    BY <2>2
  <2> QED BY <1>3, <2>1, <2>2 DEF Record
<1>4. ASSUME NEW w \in Workers, Finish(w)
      PROVE  run'[i] = run[i]
  <2>1. CASE /\ Finishable(worker[w].id, TerminalStatus(worker[w].stages))
             /\ run' = [run EXCEPT ![Row(worker[w].id)].status = TerminalStatus(worker[w].stages),
                  ![Row(worker[w].id)].done = clock + 1,
                  ![Row(worker[w].id)].result = worker[w].made]
    <3>1. run[Row(worker[w].id)].status = "running"
      BY <2>1 DEF Finishable
    <3>2. Row(worker[w].id) # i
      BY <1>1, <3>1
    <3> QED BY <1>1, <2>1, <3>2
  <2>2. CASE run' = run
    BY <2>2
  <2> QED BY <1>4, <2>1, <2>2 DEF Finish
<1>5. ASSUME NEW w \in Workers, NEW j \in Inputs, Begin(w, j)
      PROVE  run'[i] = run[i]
  <2>1. CASE run' = run
    BY <2>1
  <2>2. CASE /\ ~Reusable(run[j])
             /\ \E id : run' = [run EXCEPT ![j] = [NoRow EXCEPT
                  !.id = id, !.status = "running", !.fresh = TRUE]]
    <3>1. j # i
      BY <1>1, <2>2
    <3> QED BY <1>1, <2>2, <3>1
  <2> QED BY <1>5, <2>1, <2>2 DEF Begin
<1>6. ASSUME NEW j \in Inputs, LeaseEnds(j)
      PROVE  run'[i] = run[i]
  <2>1. j # i
    BY <1>1, <1>6 DEF LeaseEnds
  <2> QED BY <1>1, <1>6, <2>1 DEF LeaseEnds
<1>7. CASE Forget \/ List
  BY <1>7 DEF Forget, List, vars
<1> QED BY <1>2, <1>3, <1>4, <1>5, <1>6, <1>7 DEF Next, Step

LEMMA AdvanceStep ==
  ASSUME Core, Next, forgotten = 0, memory.there, memory'.there,
         MemoryAttested(memory)
  PROVE  memory'.done >= memory.done
<1>1. memory \in Summary /\ memory.done \in Nat
  BY DEF Core, RunsTypeOK, Summary
<1>2. CASE memory' = memory
  BY <1>1, <1>2
<1>3. ASSUME NEW id, memory' = Orphaned(memory, id)
      PROVE  memory'.done >= memory.done
  <2>1. memory'.done = memory.done
    BY <1>1, <1>3 DEF Orphaned, Summary
  <2> QED BY <1>1, <2>1
<1>4. ASSUME NEW w \in Workers, Remember(w)
      PROVE  memory'.done >= memory.done
  <2> SUFFICES ASSUME Exists(worker[w].id), RevisionFits(worker[w].prior),
                      memory'.done = run[Row(worker[w].id)].done
               PROVE  memory'.done >= memory.done
    BY <1>2, <1>4 DEF Remember
  <2>1. /\ WorkerOK(w) /\ MemoryOK(w) /\ worker[w].pc = "remember"
        /\ worker[w].id \in DOMAIN asked
    <3>1. WorkerOK(w) /\ MemoryOK(w) /\ worker[w].pc = "remember"
      BY <1>4 DEF Core, Remember
    <3> QED BY <3>1 DEF WorkerOK
  <2>2. PICK i \in Inputs : i = Row(worker[w].id) /\ i = asked[worker[w].id]
    BY <2>1, RowOf DEF Core
  <2>3. Replaces(worker[w].prior, run[i])
    BY <2>1, <2>2 DEF MemoryOK
  <2>4. /\ memory.there = worker[w].prior.there
        /\ memory.done = worker[w].prior.done
        /\ memory.source \in {worker[w].prior.source, NoRun}
    BY <2>1 DEF MemoryOK, RevisionFits
  <2>5. worker[w].prior.there /\ MemoryAttested(worker[w].prior)
    BY <2>4 DEF MemoryAttested
  <2>6. run[i].done > memory.done
    BY <2>3, <2>4, <2>5 DEF Replaces
  <2>7. run[i].done \in Nat
    BY Constants DEF Core, RunRow
  <2> QED BY <1>1, <2>2, <2>6, <2>7
<1>5. ASSUME NEW w \in Workers, NEW i \in Inputs, Begin(w, i)
      PROVE  memory'.done >= memory.done
  BY <1>2, <1>3, <1>5 DEF Begin
<1>6. ASSUME NEW w \in Workers,
             Work(w) \/ Record(w) \/ Finish(w) \/ Recall(w) \/ Answer(w) \/ Crash(w)
      PROVE  memory'.done >= memory.done
  BY <1>2, <1>6 DEF Work, Record, Finish, Recall, Answer, Crash
<1>7. CASE Forget
  BY <1>7 DEF Forget, NoMemory
<1>8. CASE List \/ \E i \in Inputs : LeaseEnds(i)
  BY <1>2, <1>8 DEF List, vars, LeaseEnds
<1> QED BY <1>4, <1>5, <1>6, <1>7, <1>8 DEF Next, Step

\* A review that was completed without a failure stays as it is: no late worker,
\* no retry and no second request takes it away.
THEOREM ReviewStays == Spec => ReviewKept
<1>1. Core /\ [Next]_vars =>
        [\A i \in Inputs :
           run[i].status \in {"ready", "verified", "blocked"} => run'[i] = run[i]]_vars
  BY KeepStep
<1> QED BY <1>1, RunsInStep, PTL DEF Spec, ReviewKept

\* A summary whose run still exists is only replaced by that of a later one, as
\* long as no memory was deleted (the compare-and-swap of
\* remember_settlement_agent_run and shouldReplaceLatestMemory).
THEOREM SummaryMovesOn == Spec => SummaryAdvances
<1>1. Core /\ [Next]_vars =>
        [forgotten = 0 /\ memory.there /\ memory'.there /\ MemoryAttested(memory) =>
           memory'.done >= memory.done]_vars
  BY AdvanceStep
<1> QED BY <1>1, RunsInStep, PTL DEF Spec, SummaryAdvances
=============================================================================
