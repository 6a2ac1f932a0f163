--------------------------- MODULE ParallelTests ---------------------------
(***************************************************************************)
(* run_parallel and run_worker of verilate/source/testbench.cpp: a master  *)
(* process hands the tests of test_list to forked workers over two pipes   *)
(* per worker, one with a byte for every request of the worker, one with   *)
(* the number of the test it is to run, or -1.                             *)
(*                                                                         *)
(* A step is one system call of one process, or a whole test.  Pipes are   *)
(* kept with their file-descriptor rules: a reader sees the end of file    *)
(* when every copy of the write end is closed, and a worker inherits the   *)
(* write ends master[j] of the workers forked before it.                   *)
(*                                                                         *)
(* A test in `bad' fails an assertion: the worker aborts (common.h), its   *)
(* SIGABRT handler runs the defer hooks, and the process is gone.          *)
(***************************************************************************)
EXTENDS Integers, FiniteSets

CONSTANTS
  NWorkers,   \* n_workers
  NTests      \* test_list.size()

ASSUME CountsAssumption ==
  /\ NWorkers \in Nat \ {0}
  /\ NTests \in Nat

Workers == 0..(NWorkers - 1)
Tests   == 0..(NTests - 1)
Leave   == -1           \* the message `no more tests'
None    == -2           \* nothing in the pipe

VARIABLES
  bad,          \* the tests that fail
  mpc,          \* where the master is
  spawned,      \* i of the fork loop
  ready,        \* fd_set returned by select
  j,            \* j of the scan over worker[]
  dispatched, exited, passed, failed,
  first,        \* first[j]
  hung_up,      \* worker[j] = -1
  reaping,      \* i of the final loop
  wpc,          \* where each worker is
  wtest,        \* the test it runs
  req,          \* a request byte is in the worker's pipe
  resp,         \* the number in the master's pipe
  started,      \* history: how often a test was started
  finished      \* history: the tests that ran to their end

masterVars == <<mpc, spawned, ready, j, dispatched, exited, passed, failed,
                first, hung_up, reaping>>
workerVars    == <<wpc, wtest>>
pipeVars      == <<req, resp>>
runnerHistory == <<started, finished>>
runnerVars    == <<bad, masterVars, workerVars, pipeVars, runnerHistory>>

Alive(i) == wpc[i] \in {"ask", "wait", "run", "leave"}

(* The master still holds its ends of the pipes to the workers. *)
MasterOpen == mpc \in {"spawn", "select", "scan"}

(* Every copy of master[i] is closed: the master's own, and the ones that  *)
(* later workers inherited.                                                *)
RespEof(i) ==
  /\ ~MasterOpen
  /\ \A k \in Workers : k > i => wpc[k] = "dead"

(* select reports worker[i] when there is a byte to read, or the worker,   *)
(* sole owner of the write end, is gone.                                   *)
Readable(i) == ~hung_up[i] /\ (req[i] \/ wpc[i] = "dead")

-----------------------------------------------------------------------------
(* run_worker.                                                             *)

(* write(req, "a", 1) *)
Ask(i) ==
  /\ wpc[i] = "ask"
  /\ req' = [req EXCEPT ![i] = TRUE]
  /\ wpc' = [wpc EXCEPT ![i] = "wait"]
  /\ UNCHANGED <<bad, masterVars, wtest, resp, runnerHistory>>

(* read(resp, &i, sizeof(int)) and what follows it. *)
Take(i) ==
  /\ wpc[i] = "wait"
  /\ \/ /\ resp[i] \in Tests
        /\ wpc' = [wpc EXCEPT ![i] = "run"]
        /\ wtest' = [wtest EXCEPT ![i] = resp[i]]
        /\ started' = [started EXCEPT ![resp[i]] = @ + 1]
     \/ /\ resp[i] = Leave \/ (resp[i] = None /\ RespEof(i))
        /\ wpc' = [wpc EXCEPT ![i] = "leave"]
        /\ UNCHANGED <<wtest, started>>
  /\ resp' = [resp EXCEPT ![i] = None]
  /\ UNCHANGED <<bad, masterVars, req, finished>>

(* run_test returns. *)
Finish(i) ==
  /\ wpc[i] = "run" /\ wtest[i] \notin bad
  /\ wpc' = [wpc EXCEPT ![i] = "ask"]
  /\ finished' = finished \union {wtest[i]}
  /\ UNCHANGED <<bad, masterVars, wtest, pipeVars, started>>

(* An assertion of the test fails: abort. *)
Abort(i) ==
  /\ wpc[i] = "run" /\ wtest[i] \in bad
  /\ wpc' = [wpc EXCEPT ![i] = "dead"]
  /\ UNCHANGED <<bad, masterVars, wtest, pipeVars, runnerHistory>>

(* run_defers, exit(EXIT_SUCCESS) *)
Exit(i) ==
  /\ wpc[i] = "leave"
  /\ wpc' = [wpc EXCEPT ![i] = "dead"]
  /\ UNCHANGED <<bad, masterVars, wtest, pipeVars, runnerHistory>>

Worker(i) == Ask(i) \/ Take(i) \/ Finish(i) \/ Abort(i) \/ Exit(i)

-----------------------------------------------------------------------------
(* run_parallel.                                                           *)

Fork ==
  /\ mpc = "spawn"
  /\ wpc' = [wpc EXCEPT ![spawned] = "ask"]
  /\ spawned' = spawned + 1
  /\ mpc' = IF spawned + 1 = NWorkers THEN "select" ELSE "spawn"
  /\ UNCHANGED <<bad, ready, j, dispatched, exited, passed, failed, first,
                 hung_up, reaping, wtest, pipeVars, runnerHistory>>

Select ==
  /\ mpc = "select"
  /\ ready' = {i \in Workers : Readable(i)}
  /\ ready' # {}                                   \* it blocks until then
  /\ j' = 0
  /\ mpc' = "scan"
  /\ UNCHANGED <<bad, spawned, dispatched, exited, passed, failed, first,
                 hung_up, reaping, workerVars, pipeVars, runnerHistory>>

(* The end of the scan, and the condition of the while loop. *)
LoopEnd(f, e) == IF f \/ e = NWorkers THEN "close" ELSE "select"

(* j is not in the set, or j was hung up: on to the next worker. *)
Skip ==
  /\ mpc = "scan"
  /\ j < NWorkers /\ j \notin ready
  /\ j' = j + 1
  /\ UNCHANGED <<bad, mpc, spawned, ready, dispatched, exited, passed, failed,
                 first, hung_up, reaping, workerVars, pipeVars, runnerHistory>>

ScanDone ==
  /\ mpc = "scan" /\ j = NWorkers
  /\ mpc' = LoopEnd(failed, exited)
  /\ UNCHANGED <<bad, spawned, ready, j, dispatched, exited, passed, failed,
                 first, hung_up, reaping, workerVars, pipeVars, runnerHistory>>

(* Fault: the end of file is not taken for a failure. *)
WorkerFailedIgnored ==
  /\ mpc = "scan"
  /\ j \in ready /\ ~req[j]
  /\ exited' = exited + 1
  /\ hung_up' = [hung_up EXCEPT ![j] = TRUE]
  /\ j' = j + 1
  /\ UNCHANGED <<bad, mpc, spawned, ready, dispatched, passed, failed, first,
                 reaping, workerVars, pipeVars, runnerHistory>>

(* read returns 0: the worker died. *)
WorkerFailed ==
  /\ mpc = "scan"
  /\ j \in ready /\ ~req[j]
  /\ failed' = TRUE
  /\ mpc' = LoopEnd(TRUE, exited)
  /\ UNCHANGED <<bad, spawned, ready, j, dispatched, exited, passed, first,
                 hung_up, reaping, workerVars, pipeVars, runnerHistory>>

(* Fault: every request counts as a test that passed. *)
CountEvery == passed' = passed + 1 /\ UNCHANGED first

(* A request acknowledges the worker's previous test, unless it is its     *)
(* first.                                                                  *)
Count ==
  IF first[j]
  THEN first' = [first EXCEPT ![j] = FALSE] /\ UNCHANGED passed
  ELSE passed' = passed + 1 /\ UNCHANGED first

(* Fault: `dispatched' is not advanced while it is the last test. *)
AnswerRepeat ==
  \/ /\ dispatched < NTests
     /\ resp' = [resp EXCEPT ![j] = dispatched]
     /\ dispatched' \in {dispatched, dispatched + 1}
     /\ UNCHANGED <<hung_up, exited>>
  \/ /\ dispatched = NTests
     /\ resp' = [resp EXCEPT ![j] = Leave]
     /\ hung_up' = [hung_up EXCEPT ![j] = TRUE]
     /\ exited' = exited + 1
     /\ UNCHANGED dispatched

(* Fault: a worker that is sent away is not counted. *)
AnswerUncounted ==
  \/ /\ dispatched < NTests
     /\ resp' = [resp EXCEPT ![j] = dispatched]
     /\ dispatched' = dispatched + 1
     /\ UNCHANGED <<hung_up, exited>>
  \/ /\ dispatched = NTests
     /\ resp' = [resp EXCEPT ![j] = Leave]
     /\ hung_up' = [hung_up EXCEPT ![j] = TRUE]
     /\ UNCHANGED <<dispatched, exited>>

(* The next test, or -1 and the end of this worker. *)
Answer ==
  \/ /\ dispatched < NTests
     /\ resp' = [resp EXCEPT ![j] = dispatched]
     /\ dispatched' = dispatched + 1
     /\ UNCHANGED <<hung_up, exited>>
  \/ /\ dispatched = NTests
     /\ resp' = [resp EXCEPT ![j] = Leave]
     /\ hung_up' = [hung_up EXCEPT ![j] = TRUE]
     /\ exited' = exited + 1
     /\ UNCHANGED dispatched

Serve ==
  /\ mpc = "scan"
  /\ j \in ready /\ req[j]
  /\ req' = [req EXCEPT ![j] = FALSE]
  /\ Count
  /\ Answer
  /\ j' = j + 1
  /\ UNCHANGED <<bad, mpc, spawned, ready, failed, reaping, workerVars,
                 runnerHistory>>

(* All of master[] is closed. *)
Close ==
  /\ mpc = "close"
  /\ mpc' = "reap"
  /\ UNCHANGED <<bad, spawned, ready, j, dispatched, exited, passed, failed,
                 first, hung_up, reaping, workerVars, pipeVars, runnerHistory>>

(* After a failure, waitpid(WNOHANG) = 0 and kill(SIGKILL). *)
Kill ==
  /\ mpc = "reap" /\ failed /\ Alive(reaping)
  /\ wpc' = [wpc EXCEPT ![reaping] = "dead"]
  /\ UNCHANGED <<bad, masterVars, wtest, pipeVars, runnerHistory>>

(* Fault: the final waitpid is WNOHANG as well. *)
WaitpidNoHang ==
  /\ mpc = "reap"
  /\ reaping' = reaping + 1
  /\ mpc' = IF reaping + 1 = NWorkers THEN "done" ELSE "reap"
  /\ UNCHANGED <<bad, spawned, ready, j, dispatched, exited, passed, failed,
                 first, hung_up, workerVars, pipeVars, runnerHistory>>

(* waitpid(p, NULL, 0), which blocks while the worker lives. *)
Waitpid ==
  /\ mpc = "reap" /\ ~Alive(reaping)
  /\ reaping' = reaping + 1
  /\ mpc' = IF reaping + 1 = NWorkers THEN "done" ELSE "reap"
  /\ UNCHANGED <<bad, spawned, ready, j, dispatched, exited, passed, failed,
                 first, hung_up, workerVars, pipeVars, runnerHistory>>

Master ==
  \/ Fork \/ Select \/ Skip \/ ScanDone \/ WorkerFailed \/ Serve
  \/ Close \/ Kill \/ Waitpid

-----------------------------------------------------------------------------

RunnerInit ==
  /\ bad \in SUBSET Tests
  /\ mpc = "spawn" /\ spawned = 0
  /\ ready = {} /\ j = 0
  /\ dispatched = 0 /\ exited = 0 /\ passed = 0 /\ failed = FALSE
  /\ first = [i \in Workers |-> TRUE]
  /\ hung_up = [i \in Workers |-> FALSE]
  /\ reaping = 0
  /\ wpc = [i \in Workers |-> "none"]
  /\ wtest = [i \in Workers |-> None]
  /\ req = [i \in Workers |-> FALSE]
  /\ resp = [i \in Workers |-> None]
  /\ started = [t \in Tests |-> 0]
  /\ finished = {}

RunnerNext == Master \/ \E i \in Workers : Worker(i)

(* Every process that can run is scheduled, and a test ends. *)
Fairness == WF_runnerVars(Master) /\ \A i \in Workers : WF_runnerVars(Worker(i))

RunnerSpec == RunnerInit /\ [][RunnerNext]_runnerVars
FairSpec   == RunnerSpec /\ Fairness
-----------------------------------------------------------------------------

(* Every variable holds a value of its type. *)
RunnerTypeOK ==
  /\ bad \subseteq Tests
  /\ mpc \in {"spawn", "select", "scan", "close", "reap", "done"}
  /\ spawned \in 0..NWorkers /\ ready \subseteq Workers /\ j \in 0..NWorkers
  /\ dispatched \in 0..NTests /\ exited \in 0..NWorkers
  /\ passed \in 0..NTests /\ failed \in BOOLEAN
  /\ first \in [Workers -> BOOLEAN] /\ hung_up \in [Workers -> BOOLEAN]
  /\ reaping \in 0..NWorkers
  /\ wpc \in [Workers -> {"none", "ask", "wait", "run", "leave", "dead"}]
  /\ wtest \in [Workers -> Tests \union {None}]
  /\ req \in [Workers -> BOOLEAN]
  /\ resp \in [Workers -> Tests \union {Leave, None}]
  /\ started \in [Tests -> Nat]
  /\ finished \subseteq Tests

(* The number of passed tests (testbench.cpp:150-153), which is counted    *)
(* from the requests that follow the tests, never exceeds the tests that   *)
(* ran to their end; a run that reports no failure has run them all.  No   *)
(* test is started twice, whichever order the requests are served in       *)
(* (testbench.cpp:155-159).                                                *)
HonestCount ==
  /\ RunnerTypeOK
  /\ \A k \in Tests : started[k] <= 1
  /\ passed <= Cardinality(finished)
  /\ mpc = "done" /\ ~failed => passed = NTests /\ finished = Tests

(* When run_parallel returns it reports a failure exactly if a test that   *)
(* fails was started, although the master only sees a pipe close           *)
(* (testbench.cpp:143-148), and no worker is left running, whatever each   *)
(* was doing when the failure was seen (testbench.cpp:179-190).            *)
FailureReported ==
  mpc = "done" => /\ failed <=> \E t \in bad : started[t] > 0
                  /\ \A i \in Workers : wpc[i] = "dead"

(* run_parallel returns: the master's select never waits for a worker that *)
(* will not write, and no waitpid for a worker that will not end.          *)
Terminates == <>(mpc = "done")
=============================================================================
