--------------------------- MODULE KeeperHubTools ---------------------------
(***************************************************************************)
(* The command-line programs that reach KeeperHub without the server:      *)
(*   deploy    scripts/deploy-v2-keeperhub.mjs, one key per init code      *)
(*   flight    scripts/first-flight.mjs, a new key every time              *)
(*   recorder  keeperhub-flight-recorder/bin/kh-proof.mjs, read-only       *)
(* Several of them may run, be killed and be run again.  KeeperHub and the *)
(* chain are external: they are what the programs are written for.         *)
(***************************************************************************)
EXTENDS Naturals, Sequences, SequencesExt

CONSTANTS
  Tools,       \* processes
  MaxJobs,     \* bound on executions KeeperHub takes
  MaxFaults    \* bound on kills, lost answers and errors

VARIABLES
  jobs,      \* the executions, in the order they were taken
  tool,      \* the processes
  report,    \* the last outcome of any process: its report and exit code
  faults

vars == <<jobs, tool, report, faults>>

\* A receipt that is not verified, timed out or was not found proves nothing.
Receipts == {"success", "reverted", "unproven"}
Verdicts == {"VERIFIED_SETTLED", "FAILED", "UNPROVEN", "PENDING"}

Idle == [pc |-> "idle", script |-> "none", broadcast |-> FALSE, posted |-> FALSE, job |-> 0]
NoReport == [script |-> "none", posted |-> FALSE, job |-> 0, result |-> "none", exit |-> 0]

Init ==
  /\ jobs = <<>>
  /\ tool = [p \in Tools |-> Idle]
  /\ report = NoReport
  /\ faults = 0

----------------------------------------------------------------------------
(* KeeperHub.  A job has the transactions txs; its receipts say of each    *)
(* what was re-fetched from the chain, or that nothing was.                *)

Job(script) ==
  [script |-> script, status |-> "pending", txs |-> <<>>, receipts |-> <<>>, remembered |-> TRUE]

\* Seeded fault: every attempt has a key of its own.
ReplayedNever(script) == {}

\* A deployment's key is derived from the init code and finds its job again, while
\* KeeperHub remembers the key.
Replayed(script) ==
  {j \in DOMAIN jobs : script = "deploy" /\ jobs[j].script = "deploy" /\ jobs[j].remembered}

Says(tx) == {tx, "unproven"}

Finish(j) ==
  /\ jobs[j].status = "pending"
  /\ \/ \E txs \in {<<"success">>, <<"reverted">>, <<"success", "reverted">>} :
          \E receipts \in {<<>>} \cup {r \in [DOMAIN txs -> Receipts] : \A n \in DOMAIN txs : r[n] \in Says(txs[n])} :
            jobs' = [jobs EXCEPT ![j].status = "completed", ![j].txs = txs, ![j].receipts = receipts]
     \/ jobs' = [jobs EXCEPT ![j].status = "failed"]
  /\ UNCHANGED <<tool, report, faults>>

\* The key's retention ends, as in KeeperHub.ForgetKey.
ForgetKey(j) ==
  /\ jobs[j].script = "deploy" /\ jobs[j].remembered
  /\ jobs' = [jobs EXCEPT ![j].remembered = FALSE]
  /\ UNCHANGED <<tool, report, faults>>

\* The receipts of a completed job catch up with the chain.
Refetch(j) ==
  /\ jobs[j].status = "completed"
  /\ jobs[j].receipts # jobs[j].txs
  /\ jobs' = [jobs EXCEPT ![j].receipts = jobs[j].txs]
  /\ UNCHANGED <<tool, report, faults>>

----------------------------------------------------------------------------
\* The verdict of classify.mjs: the first receipt that is not a verified
\* success decides.
Classify(job) ==
  LET succeeds(n) == job.receipts[n] = "success"
      first(n) == ~succeeds(n) /\ \A m \in 1..(n - 1) : succeeds(m) IN
  IF job.status = "pending" THEN "PENDING"
  ELSE IF job.status = "failed" THEN "FAILED"
  ELSE IF job.receipts = <<>> THEN "UNPROVEN"
  ELSE IF \A n \in DOMAIN job.receipts : succeeds(n) THEN "VERIFIED_SETTLED"
  ELSE IF \E n \in DOMAIN job.receipts : first(n) /\ job.receipts[n] = "reverted"
  THEN "FAILED" ELSE "UNPROVEN"

Terminal(job) == job.status # "pending"

ExitOf(verdict) ==
  CASE verdict = "VERIFIED_SETTLED" -> 0
    [] verdict = "FAILED" -> 1
    [] verdict = "UNPROVEN" -> 2
    [] OTHER -> 3

Goto(p, pc) ==
  /\ tool' = [tool EXCEPT ![p].pc = pc]
  /\ UNCHANGED report

\* The process ends.  The deployer writes its report even then, the others may
\* have nothing but their exit code.
Exit(p, result, code) ==
  /\ report' = [script |-> tool[p].script, posted |-> tool[p].posted, job |-> tool[p].job,
                result |-> result, exit |-> code]
  /\ tool' = [tool EXCEPT ![p] = Idle]

Stop(p) == Exit(p, "BLOCKED_OR_FAILED_CLOSED", 3)

Error == faults < MaxFaults /\ faults' = faults + 1

----------------------------------------------------------------------------
Run(p, script, broadcast) ==
  /\ tool[p].pc = "idle"
  /\ tool' = [tool EXCEPT ![p] = [Idle EXCEPT !.pc = "simulate", !.script = script,
                                              !.broadcast = broadcast]]
  /\ UNCHANGED <<jobs, report, faults>>

\* Build, chain, credential and catalogue checks, then the simulation that
\* must succeed in so many words.  Without --broadcast the deployer ends here.
Simulate(p) ==
  /\ tool[p].pc = "simulate"
  /\ \/ /\ tool[p].broadcast
        /\ Goto(p, "execute")
        /\ UNCHANGED faults
     \/ /\ ~tool[p].broadcast
        /\ Exit(p, "SIMULATION_VERIFIED_NO_BROADCAST", 0)
        /\ UNCHANGED faults
     \/ Error /\ Stop(p)
  /\ UNCHANGED jobs

\* The POST with its key: KeeperHub takes a job, or answers with the one it
\* has for the key.  Refusals, a key that stays in progress and lost answers
\* are errors, whatever KeeperHub made of the call.
Execute(p) ==
  LET script == tool[p].script
      known == Replayed(script)
      job == IF known # {} THEN CHOOSE j \in known : TRUE ELSE Len(jobs) + 1
      taken == IF known # {} THEN jobs ELSE Append(jobs, Job(script))
  IN
  /\ tool[p].pc = "execute"
  /\ \/ /\ Len(taken) <= MaxJobs
        /\ jobs' = taken
        /\ tool' = [tool EXCEPT ![p].pc = "poll", ![p].job = job, ![p].posted = TRUE]
        /\ UNCHANGED <<report, faults>>
     \/ /\ Error
        /\ \/ /\ Len(taken) <= MaxJobs
              /\ jobs' = taken
              /\ report' = [script |-> script, posted |-> TRUE, job |-> 0,
                            result |-> "BLOCKED_OR_FAILED_CLOSED", exit |-> 3]
              /\ tool' = [tool EXCEPT ![p] = Idle]
           \/ /\ UNCHANGED jobs
              /\ Stop(p)

\* Polling ends with a terminal status, when the time is up, or on an error.
\* The deployer goes on to verify; the first flight reports the verdict.
Poll(p) ==
  LET job == jobs[tool[p].job]
      verdict == Classify(job)
  IN
  /\ tool[p].pc = "poll"
  /\ \/ /\ tool[p].script = "deploy" /\ Terminal(job)
        /\ IF verdict = "VERIFIED_SETTLED" THEN Goto(p, "verify") ELSE Stop(p)
        /\ UNCHANGED faults
     \/ /\ tool[p].script = "flight" /\ Terminal(job)
        /\ Exit(p, verdict, ExitOf(verdict))
        /\ UNCHANGED faults
     \/ /\ Error
        /\ ~Terminal(job)
        /\ IF tool[p].script = "flight" THEN Exit(p, "PENDING", 3) ELSE Stop(p)
     \/ Error /\ Stop(p)
  /\ UNCHANGED jobs

\* The receipt, the creation event, the code and the domain, from another RPC.
Proven(job) == job.txs # <<>> /\ job.txs[1] = "success"

Verify(p) ==
  /\ tool[p].pc = "verify"
  /\ \/ /\ Proven(jobs[tool[p].job])
        /\ Goto(p, "source")
        /\ UNCHANGED faults
     \/ /\ ~Proven(jobs[tool[p].job])
        /\ Stop(p)
        /\ UNCHANGED faults
     \/ Error /\ Stop(p)
  /\ UNCHANGED jobs

\* Sourcify verifies, refuses, fails or takes too long.
Source(p) ==
  /\ tool[p].pc = "source"
  /\ \/ Exit(p, "DEPLOYED_AND_SOURCE_VERIFIED", 0)
     \/ Exit(p, "DEPLOYED_VERIFIED_SOURCE_PENDING_OR_FAILED", 2)
  /\ UNCHANGED <<jobs, faults>>

\* A killed process writes nothing.
Killed(p) ==
  /\ tool[p].pc # "idle"
  /\ Error
  /\ tool' = [tool EXCEPT ![p] = Idle]
  /\ UNCHANGED <<jobs, report>>

\* kh-proof --execution: polls a job somebody names.
Record(p, j) ==
  /\ tool[p].pc = "idle"
  /\ LET verdict == Classify(jobs[j]) IN
     report' = [script |-> "recorder", posted |-> FALSE, job |-> j,
                result |-> verdict, exit |-> ExitOf(verdict)]
  /\ UNCHANGED <<jobs, tool, faults>>

Step(p) ==
  Simulate(p) \/ Execute(p) \/ Poll(p) \/ Verify(p) \/ Source(p) \/ Killed(p)

Next ==
  \/ \E p \in Tools :
       \/ \E broadcast \in BOOLEAN : Run(p, "deploy", broadcast)
       \/ Run(p, "flight", TRUE)
       \/ Step(p)
       \/ \E j \in DOMAIN jobs : Record(p, j)
  \/ \E j \in DOMAIN jobs : Finish(j) \/ Refetch(j) \/ ForgetKey(j)

Spec == Init /\ [][Next]_vars

(***************************************************************************)
(* Properties                                                              *)
(***************************************************************************)
Landed(j) == jobs[j].txs # <<>> /\ Range(jobs[j].txs) = {"success"}

\* However often the deployer is run, killed, or left without an answer, KeeperHub
\* takes a second deployment of the init code only when it has forgotten the first
\* one's key; and whatever any of the programs calls deployed or settled, the chain
\* has done in full, also then.
DeployedOnce ==
  /\ \A j, k \in DOMAIN jobs :
       j < k /\ jobs[j].script = "deploy" /\ jobs[k].script = "deploy" => ~jobs[j].remembered
  /\ report.result \in {"DEPLOYED_AND_SOURCE_VERIFIED",
                       "DEPLOYED_VERIFIED_SOURCE_PENDING_OR_FAILED", "VERIFIED_SETTLED"} =>
       report.job \in DOMAIN jobs /\ Landed(report.job)
  /\ report.exit = 0 /\ report.script = "deploy" =>
       report.result = "DEPLOYED_AND_SOURCE_VERIFIED" \/ ~report.posted

(***************************************************************************)
(* Stated in the documents and not kept by the code; see the README,       *)
(* "Disagreements".  No run expects it to hold.                            *)
(***************************************************************************)
\* scripts/first-flight.mjs:20 says that exit code 3 means nothing was
\* broadcast in stage C.  A job that is still pending, or whose answer was lost,
\* ends the program with the same code.
NothingBroadcast ==
  report.script = "flight" /\ report.exit = 3 => ~report.posted
=============================================================================
