-------------------------- MODULE TestBench_proofs --------------------------
(***************************************************************************)
(* Proofs about the test bench: the runner of parallel tests, and the      *)
(* simulated run that a test is.                                           *)
(***************************************************************************)
EXTENDS ParallelTests, Simulation, FiniteSetTheorems, SequenceTheorems, TLAPS

-----------------------------------------------------------------------------
(***************************************************************************)
(* The runner, for any number of workers and tests, any set of tests that  *)
(* fail, and any order in which the processes run.                         *)
(***************************************************************************)

(* The inductive invariant.                                                *)

(* The conversation between the master and a worker: a worker that waits   *)
(* has asked or has been answered; one that runs a test has been answered  *)
(* before; one that is hung up has been sent away or is about to read it.  *)
Conversation(i) ==
  /\ wpc[i] \in {"none", "ask", "run"} => ~req[i] /\ resp[i] = None
  /\ wpc[i] = "none" => first[i]
  /\ wpc[i] = "wait" => (req[i] <=> resp[i] = None)
  /\ MasterOpen /\ req[i] => wpc[i] = "wait"
  /\ wpc[i] = "leave" => resp[i] = None
  /\ wpc[i] = "run" => wtest[i] \in Tests
  /\ wpc[i] = "run" \/ resp[i] # None => ~first[i]
  /\ hung_up[i] => /\ ~req[i] /\ dispatched = NTests
                   /\ wpc[i] \in {"wait", "leave", "dead"}
                   /\ wpc[i] = "wait" => resp[i] = Leave
  /\ resp[i] = Leave => hung_up[i]

(* No test is in two places: still to be handed out, in a pipe, running or *)
(* finished.                                                               *)
OnePlace ==
  /\ \A t \in Tests : started[t] <= 1
  /\ \A t \in Tests : t >= dispatched => started[t] = 0
  /\ \A i \in Workers : resp[i] \in Tests =>
       resp[i] < dispatched /\ started[resp[i]] = 0
  /\ \A i, k \in Workers : i # k /\ resp[i] \in Tests => resp[i] # resp[k]
  /\ \A t \in finished : started[t] > 0 /\ t \notin bad
  /\ \A i \in Workers : wpc[i] = "run" =>
       started[wtest[i]] > 0 /\ wtest[i] \notin finished
  /\ \A i, k \in Workers : i # k /\ wpc[i] = "run" /\ wpc[k] = "run" =>
       wtest[i] # wtest[k]

(* No test is lost while no failure has been seen. *)
SomePlace ==
  ~failed => \A t \in Tests : t < dispatched =>
    \/ t \in finished
    \/ \E i \in Workers : wpc[i] = "wait" /\ resp[i] = t
    \/ \E i \in Workers : wpc[i] \in {"run", "dead"} /\ wtest[i] = t /\ ~hung_up[i]

(* The workers whose last test has not been counted yet. *)
Uncounted == {i \in Workers : ~first[i] /\ (wpc[i] = "ask" \/ req[i])}

Counted ==
  /\ passed + Cardinality(Uncounted) <= Cardinality(finished)
  /\ ~failed => passed + Cardinality(Uncounted) = Cardinality(finished)
  /\ exited = Cardinality({i \in Workers : hung_up[i]})

(* The master's loops. *)
Phases ==
  /\ mpc = "spawn" => spawned < NWorkers /\ \A i \in Workers :
                        wpc[i] = "none" <=> i >= spawned
  /\ mpc # "spawn" => \A i \in Workers : wpc[i] # "none"
  /\ mpc = "scan" => \A i \in ready : i >= j =>
                       ~hung_up[i] /\ (req[i] \/ wpc[i] = "dead")
  /\ ~MasterOpen /\ ~failed => exited = NWorkers
  /\ MasterOpen => ~failed
  /\ mpc \in {"reap", "done"} => \A i \in Workers : i < reaping => wpc[i] = "dead"
  /\ mpc = "done" => reaping = NWorkers
  /\ mpc \notin {"reap", "done"} => reaping = 0
  /\ mpc = "reap" => reaping < NWorkers

(* A worker that is gone, and was not sent away, died of a failing test. *)
Deaths ==
  /\ MasterOpen => \A i \in Workers : wpc[i] \in {"leave", "dead"} /\ ~hung_up[i] =>
       wpc[i] = "dead" /\ wtest[i] \in bad /\ started[wtest[i]] > 0
  /\ failed => \E t \in bad : started[t] > 0

RunInv ==
  /\ RunnerTypeOK /\ (\A i \in Workers : Conversation(i))
  /\ OnePlace /\ SomePlace /\ Counted /\ Phases /\ Deaths
-----------------------------------------------------------------------------
(* The steps.  Every part of the invariant is kept by every action.        *)

Typed ==
  /\ bad \subseteq Tests
  /\ mpc \in {"spawn", "select", "scan", "close", "reap", "done"}
  /\ spawned \in 0..NWorkers /\ ready \subseteq Workers /\ j \in 0..NWorkers
  /\ dispatched \in 0..NTests /\ failed \in BOOLEAN
  /\ first \in [Workers -> BOOLEAN] /\ hung_up \in [Workers -> BOOLEAN]
  /\ reaping \in 0..NWorkers
  /\ wpc \in [Workers -> {"none", "ask", "wait", "run", "leave", "dead"}]
  /\ wtest \in [Workers -> Tests \union {None}]
  /\ req \in [Workers -> BOOLEAN]
  /\ resp \in [Workers -> Tests \union {Leave, None}]
  /\ started \in [Tests -> Nat]
  /\ finished \subseteq Tests
  /\ exited \in Nat /\ passed \in Nat

Talk == \A i \in Workers : Conversation(i)

(* What Serve does to worker j, whichever way it is answered. *)
Served ==
  /\ j \in Workers /\ mpc = "scan" /\ ~hung_up[j] /\ wpc[j] = "wait"
  /\ resp[j] = None /\ req[j]
  /\ req' = [req EXCEPT ![j] = FALSE]
  /\ first' = [first EXCEPT ![j] = FALSE]
  /\ passed' = IF first[j] THEN passed ELSE passed + 1
  /\ j' = j + 1
  /\ UNCHANGED <<bad, mpc, spawned, ready, failed, reaping, wpc, wtest, started,
                 finished>>

HandedOut ==
  /\ dispatched < NTests
  /\ resp' = [resp EXCEPT ![j] = dispatched]
  /\ dispatched' = dispatched + 1
  /\ UNCHANGED <<hung_up, exited>>

SentAway ==
  /\ dispatched = NTests
  /\ resp' = [resp EXCEPT ![j] = Leave]
  /\ hung_up' = [hung_up EXCEPT ![j] = TRUE]
  /\ exited' = exited + 1
  /\ UNCHANGED dispatched

LEMMA ServeParts ==
  ASSUME Typed, Talk, Phases, Serve
  PROVE  Served /\ (HandedOut \/ SentAway)
<1>1. j \in Workers /\ req[j] /\ mpc = "scan"
  BY DEF Serve, Typed
<1>2. ~hung_up[j]
  BY <1>1 DEF Serve, Phases, Typed
<1>3. wpc[j] = "wait" /\ resp[j] = None
  BY <1>1 DEF Talk, Conversation, MasterOpen
<1>4. /\ first' = [first EXCEPT ![j] = FALSE]
      /\ passed' = IF first[j] THEN passed ELSE passed + 1
  BY <1>1 DEF Serve, Count, Typed
<1>5. HandedOut \/ SentAway
  BY DEF Serve, Answer, HandedOut, SentAway
<1>6. QED
  BY <1>1, <1>2, <1>3, <1>4, <1>5 DEF Serve, Served, workerVars, runnerHistory

(* What Take does: a worker gets a test, or it leaves. *)
Taken(w) ==
  /\ wpc[w] = "wait" /\ resp' = [resp EXCEPT ![w] = None]
  /\ UNCHANGED <<bad, mpc, spawned, ready, j, dispatched, exited, passed, failed,
                 first, hung_up, reaping, req, finished>>

GotTest(w) ==
  /\ resp[w] \in Tests
  /\ wpc' = [wpc EXCEPT ![w] = "run"]
  /\ wtest' = [wtest EXCEPT ![w] = resp[w]]
  /\ started' = [started EXCEPT ![resp[w]] = started[resp[w]] + 1]

GotLeave(w) ==
  /\ resp[w] = Leave \/ (resp[w] = None /\ ~MasterOpen)
  /\ wpc' = [wpc EXCEPT ![w] = "leave"]
  /\ UNCHANGED <<wtest, started>>

LEMMA TakeParts ==
  ASSUME NEW w \in Workers, Take(w)
  PROVE  Taken(w) /\ (GotTest(w) \/ GotLeave(w))
  BY DEF Take, Taken, GotTest, GotLeave, RespEof, masterVars

(* Types.                                                                  *)
LEMMA TypedStep ==
  ASSUME Typed, Talk, Phases, RunnerNext
  PROVE  Typed'
<1>1. ASSUME NEW w \in Workers, Ask(w) PROVE Typed'
  BY <1>1 DEF Ask, masterVars, workerVars, pipeVars, runnerHistory, Typed, Talk,
     Conversation, Phases, Workers
<1>2. ASSUME NEW w \in Workers, Take(w) PROVE Typed'
  <2>1. Taken(w) /\ (GotTest(w) \/ GotLeave(w))
    BY <1>2, TakeParts
  <2>2. CASE GotTest(w)
    BY <1>2, <2>1, <2>2 DEF Taken, GotTest, Typed
  <2>3. CASE GotLeave(w)
    BY <1>2, <2>1, <2>3 DEF Taken, GotLeave, Typed
  <2>4. QED
    BY <2>1, <2>2, <2>3
<1>3. ASSUME NEW w \in Workers, Finish(w) PROVE Typed'
  BY <1>3 DEF Finish, masterVars, workerVars, pipeVars, runnerHistory, Typed, Talk,
     Conversation, Phases, Workers
<1>4. ASSUME NEW w \in Workers, Abort(w) PROVE Typed'
  BY <1>4 DEF Abort, masterVars, workerVars, pipeVars, runnerHistory, Typed, Talk,
     Conversation, Phases, Workers
<1>5. ASSUME NEW w \in Workers, Exit(w) PROVE Typed'
  BY <1>5 DEF Exit, masterVars, workerVars, pipeVars, runnerHistory, Typed, Talk,
     Conversation, Phases, Workers
<1>6. CASE Fork
  BY <1>6, CountsAssumption DEF Fork, masterVars, workerVars, pipeVars,
     runnerHistory, Typed, Talk, Conversation, Phases, Workers
<1>7. CASE Select
  BY <1>7 DEF Select, Readable, masterVars, workerVars, pipeVars, runnerHistory,
     Typed, Talk, Conversation, Phases, Workers
<1>8. CASE Skip
  BY <1>8, CountsAssumption DEF Skip, masterVars, workerVars, pipeVars,
     runnerHistory, Typed, Talk, Conversation, Phases, Workers
<1>9. CASE ScanDone
  BY <1>9 DEF ScanDone, LoopEnd, masterVars, workerVars, pipeVars, runnerHistory,
     Typed, Talk, Conversation, Phases, Workers
<1>10. CASE WorkerFailed
  BY <1>10 DEF WorkerFailed, LoopEnd, masterVars, workerVars, pipeVars,
     runnerHistory, Typed, Talk, Conversation, Phases, Workers
<1>11. CASE Serve
  <2>1. Served /\ (HandedOut \/ SentAway)
    BY <1>11, ServeParts
  <2>2. CASE HandedOut
    BY <2>1, <2>2, CountsAssumption DEF Served, HandedOut, Typed, Workers,
       Tests
  <2>3. CASE SentAway
    BY <2>1, <2>3, CountsAssumption DEF Served, SentAway, Typed, Workers, Tests
  <2>4. QED
    BY <2>1, <2>2, <2>3
<1>12. CASE Close
  BY <1>12 DEF Close, masterVars, workerVars, pipeVars, runnerHistory, Typed, Talk,
     Conversation, Phases, Workers
<1>13. CASE Kill
  BY <1>13 DEF Kill, Alive, masterVars, workerVars, pipeVars, runnerHistory, Typed,
     Talk, Conversation, Phases, Workers
<1>14. CASE Waitpid
  BY <1>14, CountsAssumption DEF Waitpid, Alive, masterVars, workerVars,
     pipeVars, runnerHistory, Typed, Talk, Conversation, Phases, Workers
<1>15. QED
  BY <1>1, <1>2, <1>3, <1>4, <1>5, <1>6, <1>7, <1>8, <1>9, <1>10, <1>11,
     <1>12, <1>13, <1>14 DEF RunnerNext, Master, Worker

(* The conversations.                                                      *)
LEMMA TalkStep ==
  ASSUME Typed, Talk, Phases, RunnerNext
  PROVE  Talk'
<1>1. ASSUME NEW w \in Workers, Ask(w) PROVE Talk'
  BY <1>1 DEF Ask, masterVars, workerVars, pipeVars, runnerHistory, Typed, Talk,
     Conversation, Phases, Tests, Leave, None, MasterOpen
<1>2. ASSUME NEW w \in Workers, Take(w) PROVE Talk'
  BY <1>2 DEF Take, RespEof, masterVars, workerVars, pipeVars, runnerHistory, Typed,
     Talk, Conversation, Phases, Tests, Leave, None, MasterOpen
<1>3. ASSUME NEW w \in Workers, Finish(w) PROVE Talk'
  BY <1>3 DEF Finish, masterVars, workerVars, pipeVars, runnerHistory, Typed, Talk,
     Conversation, Phases, Tests, Leave, None, MasterOpen
<1>4. ASSUME NEW w \in Workers, Abort(w) PROVE Talk'
  BY <1>4 DEF Abort, masterVars, workerVars, pipeVars, runnerHistory, Typed, Talk,
     Conversation, Phases, Tests, Leave, None, MasterOpen
<1>5. ASSUME NEW w \in Workers, Exit(w) PROVE Talk'
  BY <1>5 DEF Exit, masterVars, workerVars, pipeVars, runnerHistory, Typed, Talk,
     Conversation, Phases, Tests, Leave, None, MasterOpen
<1>6. CASE Fork
  BY <1>6 DEF Fork, masterVars, workerVars, pipeVars, runnerHistory, Typed, Talk,
     Conversation, Phases, Tests, Leave, None, MasterOpen
<1>7. CASE Select
  BY <1>7 DEF Select, Readable, masterVars, workerVars, pipeVars, runnerHistory,
     Typed, Talk, Conversation, Phases, Tests, Leave, None, MasterOpen
<1>8. CASE Skip
  BY <1>8 DEF Skip, masterVars, workerVars, pipeVars, runnerHistory, Typed, Talk,
     Conversation, Phases, Tests, Leave, None, MasterOpen
<1>9. CASE ScanDone
  BY <1>9 DEF ScanDone, LoopEnd, masterVars, workerVars, pipeVars, runnerHistory,
     Typed, Talk, Conversation, Phases, Tests, Leave, None, MasterOpen
<1>10. CASE WorkerFailed
  BY <1>10 DEF WorkerFailed, LoopEnd, masterVars, workerVars, pipeVars,
     runnerHistory, Typed, Talk, Conversation, Phases, Tests, Leave, None,
     MasterOpen
<1>11. CASE Serve
  <2>1. Served /\ (HandedOut \/ SentAway)
    BY <1>11, ServeParts
  <2>2. CASE HandedOut
    BY <2>1, <2>2, CountsAssumption DEF Served, HandedOut, Typed, Talk,
       Conversation, Tests, Leave, None, MasterOpen
  <2>3. CASE SentAway
    BY <2>1, <2>3, CountsAssumption DEF Served, SentAway, Typed, Talk,
       Conversation, Tests, Leave, None, MasterOpen
  <2>4. QED
    BY <2>1, <2>2, <2>3
<1>12. CASE Close
  BY <1>12 DEF Close, masterVars, workerVars, pipeVars, runnerHistory, Typed, Talk,
     Conversation, Phases, Tests, Leave, None, MasterOpen
<1>13. CASE Kill
  BY <1>13 DEF Kill, Alive, masterVars, workerVars, pipeVars, runnerHistory, Typed,
     Talk, Conversation, Phases, Tests, Leave, None, MasterOpen
<1>14. CASE Waitpid
  BY <1>14 DEF Waitpid, Alive, masterVars, workerVars, pipeVars, runnerHistory,
     Typed, Talk, Conversation, Phases, Tests, Leave, None, MasterOpen
<1>15. QED
  BY <1>1, <1>2, <1>3, <1>4, <1>5, <1>6, <1>7, <1>8, <1>9, <1>10, <1>11,
     <1>12, <1>13, <1>14 DEF RunnerNext, Master, Worker

(* No test in two places.                                                  *)
LEMMA PlaceStep ==
  ASSUME Typed, Talk, Phases, OnePlace, RunnerNext
  PROVE  OnePlace'
<1>1. ASSUME NEW w \in Workers, Ask(w) PROVE OnePlace'
  BY <1>1 DEF Ask, masterVars, workerVars, pipeVars, runnerHistory, Typed, Talk,
     Conversation, OnePlace, Tests, Leave, None
<1>2. ASSUME NEW w \in Workers, Take(w) PROVE OnePlace'
  <2>1. Taken(w) /\ (GotTest(w) \/ GotLeave(w))
    BY <1>2, TakeParts
  <2>2. CASE GotTest(w)
    BY <1>2, <2>1, <2>2 DEF Taken, GotTest, Typed, OnePlace, Tests, Leave, None
  <2>3. CASE GotLeave(w)
    BY <1>2, <2>1, <2>3 DEF Taken, GotLeave, Typed, OnePlace, Tests, Leave,
       None
  <2>4. QED
    BY <2>1, <2>2, <2>3
<1>3. ASSUME NEW w \in Workers, Finish(w) PROVE OnePlace'
  BY <1>3 DEF Finish, masterVars, workerVars, pipeVars, runnerHistory, Typed, Talk,
     Conversation, OnePlace, Tests, Leave, None
<1>4. ASSUME NEW w \in Workers, Abort(w) PROVE OnePlace'
  BY <1>4 DEF Abort, masterVars, workerVars, pipeVars, runnerHistory, Typed, Talk,
     Conversation, OnePlace, Tests, Leave, None
<1>5. ASSUME NEW w \in Workers, Exit(w) PROVE OnePlace'
  BY <1>5 DEF Exit, masterVars, workerVars, pipeVars, runnerHistory, Typed, Talk,
     Conversation, OnePlace, Tests, Leave, None
<1>6. CASE Fork
  BY <1>6 DEF Fork, masterVars, workerVars, pipeVars, runnerHistory, Typed, Talk,
     Conversation, OnePlace, Tests, Leave, None
<1>7. CASE Select
  BY <1>7 DEF Select, Readable, masterVars, workerVars, pipeVars, runnerHistory,
     Typed, Talk, Conversation, OnePlace, Tests, Leave, None
<1>8. CASE Skip
  BY <1>8 DEF Skip, masterVars, workerVars, pipeVars, runnerHistory, Typed, Talk,
     Conversation, OnePlace, Tests, Leave, None
<1>9. CASE ScanDone
  BY <1>9 DEF ScanDone, LoopEnd, masterVars, workerVars, pipeVars, runnerHistory,
     Typed, Talk, Conversation, OnePlace, Tests, Leave, None
<1>10. CASE WorkerFailed
  BY <1>10 DEF WorkerFailed, LoopEnd, masterVars, workerVars, pipeVars,
     runnerHistory, Typed, Talk, Conversation, OnePlace, Tests, Leave, None
<1>11. CASE Serve
  <2>1. Served /\ (HandedOut \/ SentAway)
    BY <1>11, ServeParts
  <2>2. CASE HandedOut
    BY <2>1, <2>2, CountsAssumption, SMTT(30)
    DEF Served, HandedOut, Typed, OnePlace, Tests, Leave, None
  <2>3. CASE SentAway
    BY <2>1, <2>3, CountsAssumption DEF Served, SentAway, Typed, OnePlace,
       Tests, Leave, None
  <2>4. QED
    BY <2>1, <2>2, <2>3
<1>12. CASE Close
  BY <1>12 DEF Close, masterVars, workerVars, pipeVars, runnerHistory, Typed, Talk,
     Conversation, OnePlace, Tests, Leave, None
<1>13. CASE Kill
  BY <1>13 DEF Kill, Alive, masterVars, workerVars, pipeVars, runnerHistory, Typed,
     Talk, Conversation, OnePlace, Tests, Leave, None
<1>14. CASE Waitpid
  BY <1>14 DEF Waitpid, Alive, masterVars, workerVars, pipeVars, runnerHistory,
     Typed, Talk, Conversation, OnePlace, Tests, Leave, None
<1>15. QED
  BY <1>1, <1>2, <1>3, <1>4, <1>5, <1>6, <1>7, <1>8, <1>9, <1>10, <1>11,
     <1>12, <1>13, <1>14 DEF RunnerNext, Master, Worker

(* No test lost.                                                           *)
LEMMA LostStep ==
  ASSUME Typed, Talk, Phases, SomePlace, RunnerNext
  PROVE  SomePlace'
<1>1. ASSUME NEW w \in Workers, Ask(w) PROVE SomePlace'
  BY <1>1 DEF Ask, masterVars, workerVars, pipeVars, runnerHistory, Typed, Talk,
     Conversation, Phases, SomePlace, Tests, Leave, None, MasterOpen
<1>2. ASSUME NEW w \in Workers, Take(w) PROVE SomePlace'
  <2>1. Taken(w) /\ (GotTest(w) \/ GotLeave(w))
    BY <1>2, TakeParts
  <2> SUFFICES ASSUME ~failed', NEW t \in Tests, t < dispatched'
               PROVE  \/ t \in finished'
                      \/ \E i \in Workers : wpc'[i] = "wait" /\ resp'[i] = t
                      \/ \E i \in Workers : /\ wpc'[i] \in {"run", "dead"}
                                           /\ wtest'[i] = t /\ ~hung_up'[i]
    BY DEF SomePlace
  <2>2. CASE t \in finished
    BY <2>1, <2>2 DEF Taken
  <2>3. ASSUME NEW i \in Workers, wpc[i] = "wait", resp[i] = t, i # w
        PROVE  wpc'[i] = "wait" /\ resp'[i] = t
    BY <1>2, <2>1, <2>3 DEF Taken, GotTest, GotLeave, Typed
  <2>4. CASE resp[w] = t
    <3>1. GotTest(w) /\ ~hung_up[w]
      BY <1>2, <2>1, <2>4
         DEF Taken, GotLeave, Talk, Conversation, Tests, Leave, None
    <3>2. QED
      BY <1>2, <2>1, <2>4, <3>1 DEF Taken, GotTest, Typed
  <2>5. ASSUME NEW i \in Workers, wpc[i] \in {"run", "dead"}, wtest[i] = t,
               ~hung_up[i]
        PROVE  wpc'[i] \in {"run", "dead"} /\ wtest'[i] = t /\ ~hung_up'[i]
    BY <1>2, <2>1, <2>5 DEF Taken, GotTest, GotLeave, Typed
  <2>6. QED
    BY <2>1, <2>2, <2>3, <2>4, <2>5 DEF SomePlace, Taken
<1>3. ASSUME NEW w \in Workers, Finish(w) PROVE SomePlace'
  BY <1>3 DEF Finish, masterVars, workerVars, pipeVars, runnerHistory, Typed, Talk,
     Conversation, Phases, SomePlace, Tests, Leave, None, MasterOpen
<1>4. ASSUME NEW w \in Workers, Abort(w) PROVE SomePlace'
  BY <1>4 DEF Abort, masterVars, workerVars, pipeVars, runnerHistory, Typed, Talk,
     Conversation, Phases, SomePlace, Tests, Leave, None, MasterOpen
<1>5. ASSUME NEW w \in Workers, Exit(w) PROVE SomePlace'
  BY <1>5 DEF Exit, masterVars, workerVars, pipeVars, runnerHistory, Typed, Talk,
     Conversation, Phases, SomePlace, Tests, Leave, None, MasterOpen
<1>6. CASE Fork
  BY <1>6 DEF Fork, masterVars, workerVars, pipeVars, runnerHistory, Typed, Talk,
     Conversation, Phases, SomePlace, Tests, Leave, None, MasterOpen
<1>7. CASE Select
  BY <1>7 DEF Select, Readable, masterVars, workerVars, pipeVars, runnerHistory,
     Typed, Talk, Conversation, Phases, SomePlace, Tests, Leave, None,
     MasterOpen
<1>8. CASE Skip
  BY <1>8 DEF Skip, masterVars, workerVars, pipeVars, runnerHistory, Typed, Talk,
     Conversation, Phases, SomePlace, Tests, Leave, None, MasterOpen
<1>9. CASE ScanDone
  BY <1>9 DEF ScanDone, LoopEnd, masterVars, workerVars, pipeVars, runnerHistory,
     Typed, Talk, Conversation, Phases, SomePlace, Tests, Leave, None,
     MasterOpen
<1>10. CASE WorkerFailed
  BY <1>10 DEF WorkerFailed, LoopEnd, masterVars, workerVars, pipeVars,
     runnerHistory, Typed, Talk, Conversation, Phases, SomePlace, Tests, Leave,
     None, MasterOpen
<1>11. CASE Serve
  <2>1. Served /\ (HandedOut \/ SentAway)
    BY <1>11, ServeParts
  <2> SUFFICES ASSUME ~failed', NEW t \in Tests, t < dispatched'
               PROVE  \/ t \in finished'
                      \/ \E i \in Workers : wpc'[i] = "wait" /\ resp'[i] = t
                      \/ \E i \in Workers : /\ wpc'[i] \in {"run", "dead"}
                                           /\ wtest'[i] = t /\ ~hung_up'[i]
    BY DEF SomePlace
  <2>2. CASE t \in finished
    BY <2>1, <2>2 DEF Served
  <2>3. ASSUME NEW i \in Workers, wpc[i] = "wait", resp[i] = t
        PROVE  wpc'[i] = "wait" /\ resp'[i] = t
    <3>1. i # j
      BY <2>1, <2>3, CountsAssumption DEF Served, Tests, None
    <3>2. QED
      BY <2>1, <2>3, <3>1 DEF Served, HandedOut, SentAway, Typed
  <2>4. ASSUME NEW i \in Workers, wpc[i] \in {"run", "dead"}, wtest[i] = t,
               ~hung_up[i]
        PROVE  wpc'[i] \in {"run", "dead"} /\ wtest'[i] = t /\ ~hung_up'[i]
    BY <2>1, <2>4 DEF Served, HandedOut, SentAway, Typed
  <2>5. CASE t >= dispatched
    <3>1. HandedOut /\ t = dispatched
      BY <2>1, <2>5, CountsAssumption DEF HandedOut, SentAway, Typed, Tests
    <3>2. QED
      BY <2>1, <3>1 DEF Served, HandedOut, Typed
  <2>6. QED
    BY <2>1, <2>2, <2>3, <2>4, <2>5, CountsAssumption
       DEF SomePlace, Served, Typed, Tests
<1>12. CASE Close
  BY <1>12 DEF Close, masterVars, workerVars, pipeVars, runnerHistory, Typed, Talk,
     Conversation, Phases, SomePlace, Tests, Leave, None, MasterOpen
<1>13. CASE Kill
  BY <1>13 DEF Kill, Alive, masterVars, workerVars, pipeVars, runnerHistory, Typed,
     Talk, Conversation, Phases, SomePlace, Tests, Leave, None, MasterOpen
<1>14. CASE Waitpid
  BY <1>14 DEF Waitpid, Alive, masterVars, workerVars, pipeVars, runnerHistory,
     Typed, Talk, Conversation, Phases, SomePlace, Tests, Leave, None,
     MasterOpen
<1>15. QED
  BY <1>1, <1>2, <1>3, <1>4, <1>5, <1>6, <1>7, <1>8, <1>9, <1>10, <1>11,
     <1>12, <1>13, <1>14 DEF RunnerNext, Master, Worker

(* The master's loops.                                                     *)
LEMMA PhaseStep ==
  ASSUME Typed, Talk, Phases, RunnerNext
  PROVE  Phases'
<1>1. ASSUME NEW w \in Workers, Ask(w) PROVE Phases'
  BY <1>1 DEF Ask, masterVars, workerVars, pipeVars, runnerHistory, Typed, Talk,
     Conversation, Phases, MasterOpen, Workers
<1>2. ASSUME NEW w \in Workers, Take(w) PROVE Phases'
  BY <1>2 DEF Take, RespEof, masterVars, workerVars, pipeVars, runnerHistory, Typed,
     Talk, Conversation, Phases, MasterOpen, Workers
<1>3. ASSUME NEW w \in Workers, Finish(w) PROVE Phases'
  BY <1>3 DEF Finish, masterVars, workerVars, pipeVars, runnerHistory, Typed, Talk,
     Conversation, Phases, MasterOpen, Workers
<1>4. ASSUME NEW w \in Workers, Abort(w) PROVE Phases'
  BY <1>4 DEF Abort, masterVars, workerVars, pipeVars, runnerHistory, Typed, Talk,
     Conversation, Phases, MasterOpen, Workers
<1>5. ASSUME NEW w \in Workers, Exit(w) PROVE Phases'
  BY <1>5 DEF Exit, masterVars, workerVars, pipeVars, runnerHistory, Typed, Talk,
     Conversation, Phases, MasterOpen, Workers
<1>6. CASE Fork
  BY <1>6, CountsAssumption DEF Fork, masterVars, workerVars, pipeVars,
     runnerHistory, Typed, Talk, Conversation, Phases, MasterOpen, Workers
<1>7. CASE Select
  BY <1>7 DEF Select, Readable, masterVars, workerVars, pipeVars, runnerHistory,
     Typed, Talk, Conversation, Phases, MasterOpen, Workers
<1>8. CASE Skip
  BY <1>8 DEF Skip, masterVars, workerVars, pipeVars, runnerHistory, Typed, Talk,
     Conversation, Phases, MasterOpen, Workers
<1>9. CASE ScanDone
  BY <1>9 DEF ScanDone, LoopEnd, masterVars, workerVars, pipeVars, runnerHistory,
     Typed, Talk, Conversation, Phases, MasterOpen, Workers
<1>10. CASE WorkerFailed
  BY <1>10 DEF WorkerFailed, LoopEnd, masterVars, workerVars, pipeVars,
     runnerHistory, Typed, Talk, Conversation, Phases, MasterOpen, Workers
<1>11. CASE Serve
  <2>1. Served /\ (HandedOut \/ SentAway)
    BY <1>11, ServeParts
  <2>2. CASE HandedOut
    BY <2>1, <2>2, CountsAssumption DEF Served, HandedOut, Typed, Phases,
       MasterOpen, Workers
  <2>3. CASE SentAway
    BY <2>1, <2>3, CountsAssumption DEF Served, SentAway, Typed, Phases,
       MasterOpen, Workers
  <2>4. QED
    BY <2>1, <2>2, <2>3
<1>12. CASE Close
  BY <1>12, CountsAssumption DEF Close, masterVars, workerVars, pipeVars,
     runnerHistory, Typed, Talk, Conversation, Phases, MasterOpen, Workers
<1>13. CASE Kill
  BY <1>13 DEF Kill, Alive, masterVars, workerVars, pipeVars, runnerHistory, Typed,
     Talk, Conversation, Phases, MasterOpen, Workers
<1>14. CASE Waitpid
  BY <1>14, CountsAssumption DEF Waitpid, Alive, masterVars, workerVars,
     pipeVars, runnerHistory, Typed, Talk, Conversation, Phases, MasterOpen, Workers
<1>15. QED
  BY <1>1, <1>2, <1>3, <1>4, <1>5, <1>6, <1>7, <1>8, <1>9, <1>10, <1>11,
     <1>12, <1>13, <1>14 DEF RunnerNext, Master, Worker

(* Deaths.                                                                 *)
LEMMA DeathStep ==
  ASSUME Typed, Talk, Phases, OnePlace, Deaths, RunnerNext
  PROVE  Deaths'
<1>1. ASSUME NEW w \in Workers, Ask(w) PROVE Deaths'
  BY <1>1 DEF Ask, masterVars, workerVars, pipeVars, runnerHistory, Typed, Talk,
     Conversation, Phases, OnePlace, Deaths, MasterOpen
<1>2. ASSUME NEW w \in Workers, Take(w) PROVE Deaths'
  BY <1>2 DEF Take, RespEof, masterVars, workerVars, pipeVars, runnerHistory, Typed,
     Talk, Conversation, Phases, OnePlace, Deaths, MasterOpen
<1>3. ASSUME NEW w \in Workers, Finish(w) PROVE Deaths'
  BY <1>3 DEF Finish, masterVars, workerVars, pipeVars, runnerHistory, Typed, Talk,
     Conversation, Phases, OnePlace, Deaths, MasterOpen
<1>4. ASSUME NEW w \in Workers, Abort(w) PROVE Deaths'
  BY <1>4 DEF Abort, masterVars, workerVars, pipeVars, runnerHistory, Typed, Talk,
     Conversation, Phases, OnePlace, Deaths, MasterOpen
<1>5. ASSUME NEW w \in Workers, Exit(w) PROVE Deaths'
  BY <1>5 DEF Exit, masterVars, workerVars, pipeVars, runnerHistory, Typed, Talk,
     Conversation, Phases, OnePlace, Deaths, MasterOpen
<1>6. CASE Fork
  BY <1>6 DEF Fork, masterVars, workerVars, pipeVars, runnerHistory, Typed, Talk,
     Conversation, Phases, OnePlace, Deaths, MasterOpen
<1>7. CASE Select
  BY <1>7 DEF Select, Readable, masterVars, workerVars, pipeVars, runnerHistory,
     Typed, Talk, Conversation, Phases, OnePlace, Deaths, MasterOpen
<1>8. CASE Skip
  BY <1>8 DEF Skip, masterVars, workerVars, pipeVars, runnerHistory, Typed, Talk,
     Conversation, Phases, OnePlace, Deaths, MasterOpen
<1>9. CASE ScanDone
  BY <1>9 DEF ScanDone, LoopEnd, masterVars, workerVars, pipeVars, runnerHistory,
     Typed, Talk, Conversation, Phases, OnePlace, Deaths, MasterOpen
<1>10. CASE WorkerFailed
  BY <1>10 DEF WorkerFailed, LoopEnd, masterVars, workerVars, pipeVars,
     runnerHistory, Typed, Talk, Conversation, Phases, OnePlace, Deaths, MasterOpen
<1>11. CASE Serve
  BY <1>11 DEF Serve, Count, Answer, masterVars, workerVars, pipeVars,
     runnerHistory, Typed, Talk, Conversation, Phases, OnePlace, Deaths, MasterOpen
<1>12. CASE Close
  BY <1>12 DEF Close, masterVars, workerVars, pipeVars, runnerHistory, Typed, Talk,
     Conversation, Phases, OnePlace, Deaths, MasterOpen
<1>13. CASE Kill
  BY <1>13 DEF Kill, Alive, masterVars, workerVars, pipeVars, runnerHistory, Typed,
     Talk, Conversation, Phases, OnePlace, Deaths, MasterOpen
<1>14. CASE Waitpid
  BY <1>14 DEF Waitpid, Alive, masterVars, workerVars, pipeVars, runnerHistory,
     Typed, Talk, Conversation, Phases, OnePlace, Deaths, MasterOpen
<1>15. QED
  BY <1>1, <1>2, <1>3, <1>4, <1>5, <1>6, <1>7, <1>8, <1>9, <1>10, <1>11,
     <1>12, <1>13, <1>14 DEF RunnerNext, Master, Worker

LEMMA Finiteness ==
  ASSUME Typed
  PROVE  /\ IsFiniteSet(Workers) /\ Cardinality(Workers) = NWorkers
         /\ IsFiniteSet(Tests) /\ Cardinality(Tests) = NTests
         /\ IsFiniteSet(Uncounted) /\ IsFiniteSet(finished)
         /\ IsFiniteSet({i \in Workers : hung_up[i]})
         /\ Cardinality(Uncounted) \in Nat /\ Cardinality(finished) \in Nat
         /\ Cardinality(finished) <= NTests
         /\ Cardinality({i \in Workers : hung_up[i]}) <= NWorkers
<1>1. IsFiniteSet(Workers) /\ Cardinality(Workers) = NWorkers
  BY FS_Interval, CountsAssumption DEF Workers
<1>2. IsFiniteSet(Tests) /\ Cardinality(Tests) = NTests
  BY FS_Interval, CountsAssumption DEF Tests
<1>3. /\ Uncounted \subseteq Workers /\ finished \subseteq Tests
      /\ {i \in Workers : hung_up[i]} \subseteq Workers
  BY DEF Uncounted, Typed
<1>4. QED
  BY <1>1, <1>2, <1>3, FS_Subset, FS_CardinalityType

(* Passed and exited workers are counted once.                             *)
LEMMA CountStep ==
  ASSUME Typed, Talk, Phases, OnePlace, Counted, RunnerNext
  PROVE  Counted'
<1>0. /\ IsFiniteSet(Uncounted) /\ IsFiniteSet(finished)
      /\ IsFiniteSet({i \in Workers : hung_up[i]})
      /\ Cardinality(Uncounted) \in Nat /\ Cardinality(finished) \in Nat
  BY Finiteness
<1>1. ASSUME NEW w \in Workers, Ask(w) PROVE Counted'
  <2>1. Uncounted' = Uncounted
    BY <1>1, CountsAssumption DEF Ask, masterVars, workerVars, pipeVars,
       runnerHistory, Uncounted, Typed, Talk, Conversation, Phases
  <2>2. QED
    BY <1>1, <2>1 DEF Ask, masterVars, workerVars, pipeVars, runnerHistory, Counted
<1>2. ASSUME NEW w \in Workers, Take(w) PROVE Counted'
  <2>1. Uncounted' = Uncounted
    BY <1>2, CountsAssumption DEF Take, RespEof, masterVars, workerVars,
       pipeVars, runnerHistory, Uncounted, Typed, Talk, Conversation, Phases
  <2>2. QED
    BY <1>2, <2>1 DEF Take, RespEof, masterVars, workerVars, pipeVars,
       runnerHistory, Counted
<1>3. ASSUME NEW w \in Workers, Finish(w) PROVE Counted'
  <2>1. w \notin Uncounted /\ Uncounted' = Uncounted \union {w}
    BY <1>3 DEF Finish, masterVars, pipeVars, Uncounted, Typed, Talk,
       Conversation
  <2>2. finished' = finished \union {wtest[w]} /\ wtest[w] \notin finished
    BY <1>3 DEF Finish, OnePlace
  <2>3. /\ Cardinality(Uncounted') = Cardinality(Uncounted) + 1
        /\ Cardinality(finished') = Cardinality(finished) + 1
    BY <1>0, <2>1, <2>2, FS_AddElement
  <2>4. UNCHANGED <<passed, exited, hung_up, failed>>
    BY <1>3 DEF Finish, masterVars
  <2>5. QED
    BY <1>0, <2>3, <2>4 DEF Counted, Typed
<1>4. ASSUME NEW w \in Workers, Abort(w) PROVE Counted'
  <2>1. Uncounted' = Uncounted
    BY <1>4, CountsAssumption DEF Abort, masterVars, workerVars, pipeVars,
       runnerHistory, Uncounted, Typed, Talk, Conversation, Phases
  <2>2. QED
    BY <1>4, <2>1 DEF Abort, masterVars, workerVars, pipeVars, runnerHistory, Counted
<1>5. ASSUME NEW w \in Workers, Exit(w) PROVE Counted'
  <2>1. Uncounted' = Uncounted
    BY <1>5, CountsAssumption DEF Exit, masterVars, workerVars, pipeVars,
       runnerHistory, Uncounted, Typed, Talk, Conversation, Phases
  <2>2. QED
    BY <1>5, <2>1 DEF Exit, masterVars, workerVars, pipeVars, runnerHistory, Counted
<1>6. CASE Fork
  <2>1. Uncounted' = Uncounted
    BY <1>6, CountsAssumption DEF Fork, masterVars, workerVars, pipeVars,
       runnerHistory, Uncounted, Typed, Talk, Conversation, Phases
  <2>2. QED
    BY <1>6, <2>1 DEF Fork, masterVars, workerVars, pipeVars, runnerHistory, Counted
<1>7. CASE Select
  <2>1. Uncounted' = Uncounted
    BY <1>7, CountsAssumption DEF Select, Readable, masterVars, workerVars,
       pipeVars, runnerHistory, Uncounted, Typed, Talk, Conversation, Phases
  <2>2. QED
    BY <1>7, <2>1 DEF Select, Readable, masterVars, workerVars, pipeVars,
       runnerHistory, Counted
<1>8. CASE Skip
  <2>1. Uncounted' = Uncounted
    BY <1>8, CountsAssumption DEF Skip, masterVars, workerVars, pipeVars,
       runnerHistory, Uncounted, Typed, Talk, Conversation, Phases
  <2>2. QED
    BY <1>8, <2>1 DEF Skip, masterVars, workerVars, pipeVars, runnerHistory, Counted
<1>9. CASE ScanDone
  <2>1. Uncounted' = Uncounted
    BY <1>9, CountsAssumption DEF ScanDone, LoopEnd, masterVars, workerVars,
       pipeVars, runnerHistory, Uncounted, Typed, Talk, Conversation, Phases
  <2>2. QED
    BY <1>9, <2>1 DEF ScanDone, LoopEnd, masterVars, workerVars, pipeVars,
       runnerHistory, Counted
<1>10. CASE WorkerFailed
  <2>1. Uncounted' = Uncounted
    BY <1>10, CountsAssumption DEF WorkerFailed, LoopEnd, masterVars,
       workerVars, pipeVars, runnerHistory, Uncounted, Typed, Talk, Conversation,
       Phases
  <2>2. QED
    BY <1>10, <2>1 DEF WorkerFailed, LoopEnd, masterVars, workerVars,
       pipeVars, runnerHistory, Counted
<1>11. CASE Serve
  <2>1. Served /\ (HandedOut \/ SentAway)
    BY <1>11, ServeParts
  <2>2. passed' + Cardinality(Uncounted') = passed + Cardinality(Uncounted)
    <3>1. CASE first[j]
      <4>1. Uncounted' = Uncounted
        BY <2>1, <3>1 DEF Served, Uncounted, Typed
      <4>2. QED
        BY <2>1, <3>1, <4>1 DEF Served
    <3>2. CASE ~first[j]
      <4>1. j \in Uncounted /\ Uncounted' = Uncounted \ {j}
        BY <2>1, <3>2 DEF Served, Uncounted, Typed
      <4>2. Cardinality(Uncounted') = Cardinality(Uncounted) - 1
        BY <1>0, <4>1, FS_RemoveElement
      <4>3. QED
        BY <1>0, <2>1, <3>2, <4>2 DEF Served, Typed
    <3>3. QED
      BY <3>1, <3>2
  <2>3. exited' = Cardinality({i \in Workers : hung_up[i]})'
    <3>1. CASE HandedOut
      BY <3>1 DEF HandedOut, Counted
    <3>2. CASE SentAway
      <4>1. /\ j \notin {i \in Workers : hung_up[i]}
            /\ {i \in Workers : hung_up'[i]} = {i \in Workers : hung_up[i]} \union {j}
        BY <2>1, <3>2 DEF Served, SentAway, Typed
      <4>2. Cardinality({i \in Workers : hung_up'[i]}) =
              Cardinality({i \in Workers : hung_up[i]}) + 1
        BY <1>0, <4>1, FS_AddElement
      <4>3. QED
        BY <3>2, <4>2 DEF SentAway, Counted
    <3>3. QED
      BY <2>1, <3>1, <3>2
  <2>4. QED
    BY <2>1, <2>2, <2>3 DEF Counted, Served
<1>12. CASE Close
  <2>1. Uncounted' = Uncounted
    BY <1>12, CountsAssumption DEF Close, masterVars, workerVars, pipeVars,
       runnerHistory, Uncounted, Typed, Talk, Conversation, Phases
  <2>2. QED
    BY <1>12, <2>1 DEF Close, masterVars, workerVars, pipeVars, runnerHistory,
       Counted
<1>13. CASE Kill
  <2>1. /\ failed /\ Uncounted' \subseteq Uncounted
        /\ UNCHANGED <<passed, exited, hung_up, failed, finished>>
    BY <1>13 DEF Kill, Alive, masterVars, pipeVars, runnerHistory, Uncounted, Typed
  <2>2. Cardinality(Uncounted') <= Cardinality(Uncounted)
        /\ Cardinality(Uncounted') \in Nat
    BY <1>0, <2>1, FS_Subset, FS_CardinalityType
  <2>3. QED
    BY <1>0, <2>1, <2>2 DEF Counted, Typed
<1>14. CASE Waitpid
  <2>1. Uncounted' = Uncounted
    BY <1>14, CountsAssumption DEF Waitpid, Alive, masterVars, workerVars,
       pipeVars, runnerHistory, Uncounted, Typed, Talk, Conversation, Phases
  <2>2. QED
    BY <1>14, <2>1 DEF Waitpid, Alive, masterVars, workerVars, pipeVars,
       runnerHistory, Counted
<1>15. QED
  BY <1>1, <1>2, <1>3, <1>4, <1>5, <1>6, <1>7, <1>8, <1>9, <1>10, <1>11,
     <1>12, <1>13, <1>14 DEF RunnerNext, Master, Worker

-----------------------------------------------------------------------------
(* The theorems.                                                           *)

LEMMA RunInvParts ==
  RunInv <=> /\ Typed /\ Talk /\ OnePlace /\ SomePlace /\ Counted /\ Phases /\ Deaths
<1>1. RunnerTypeOK => Typed
  BY CountsAssumption DEF RunnerTypeOK, Typed
<1>2. Typed /\ Counted => RunnerTypeOK
  <2> SUFFICES ASSUME Typed, Counted PROVE RunnerTypeOK
    OBVIOUS
  <2>1. passed \in 0..NTests /\ exited \in 0..NWorkers
    BY Finiteness, CountsAssumption DEF Counted, Typed
  <2>2. QED
    BY <2>1 DEF RunnerTypeOK, Typed
<1>3. QED
  BY <1>1, <1>2 DEF RunInv, Talk

LEMMA RunInvariant == RunnerSpec => []RunInv
<1>1. RunnerInit => RunInv
  <2> SUFFICES ASSUME RunnerInit PROVE RunInv
    OBVIOUS
  <2> USE CountsAssumption
  <2>1. Typed
    <3>1. 0 \in 0..NWorkers /\ 0 \in 0..NTests
      OBVIOUS
    <3>2. /\ first \in [Workers -> BOOLEAN] /\ hung_up \in [Workers -> BOOLEAN]
          /\ req \in [Workers -> BOOLEAN]
      BY Zenon DEF RunnerInit
    <3>3. wpc \in [Workers -> {"none", "ask", "wait", "run", "leave", "dead"}]
      BY DEF RunnerInit
    <3>4. /\ wtest \in [Workers -> Tests \union {None}]
          /\ resp \in [Workers -> Tests \union {Leave, None}]
      BY Zenon DEF RunnerInit
    <3>5. started \in [Tests -> Nat]
      BY DEF RunnerInit
    <3>6. /\ bad \subseteq Tests /\ ready \subseteq Workers /\ finished \subseteq Tests
          /\ failed \in BOOLEAN
      BY Zenon DEF RunnerInit
    <3>7. /\ mpc \in {"spawn", "select", "scan", "close", "reap", "done"}
          /\ spawned \in 0..NWorkers /\ j \in 0..NWorkers /\ dispatched \in 0..NTests
          /\ reaping \in 0..NWorkers /\ exited \in Nat /\ passed \in Nat
      BY <3>1 DEF RunnerInit
    <3>8. QED
      BY <3>2, <3>3, <3>4, <3>5, <3>6, <3>7 DEF Typed
  <2>2. Talk
    BY DEF RunnerInit, Talk, Conversation, None, Leave
  <2>3. OnePlace /\ SomePlace
    BY DEF RunnerInit, OnePlace, SomePlace, Tests, None
  <2>4. Counted
    <3>1. Uncounted = {} /\ {i \in Workers : hung_up[i]} = {} /\ finished = {}
      BY DEF RunnerInit, Uncounted
    <3>2. QED
      BY <3>1, FS_EmptySet DEF RunnerInit, Counted
  <2>5. Phases
    BY DEF RunnerInit, Phases, Workers, MasterOpen
  <2>6. Deaths
    BY DEF RunnerInit, Deaths
  <2>7. QED
    BY <2>1, <2>2, <2>3, <2>4, <2>5, <2>6, RunInvParts
<1>2. RunInv /\ [RunnerNext]_runnerVars => RunInv'
  <2> SUFFICES ASSUME RunInv, [RunnerNext]_runnerVars PROVE RunInv'
    OBVIOUS
  <2>0. Typed /\ Talk /\ OnePlace /\ SomePlace /\ Counted /\ Phases /\ Deaths
    BY RunInvParts
  <2>1. CASE RunnerNext
    <3>1. /\ Typed' /\ Talk' /\ OnePlace' /\ SomePlace' /\ Counted' /\ Phases'
          /\ Deaths'
      BY <2>0, <2>1, TypedStep, TalkStep, PlaceStep, LostStep, CountStep,
         PhaseStep,
         DeathStep
    <3>2. RunnerTypeOK'
      <4>1. IsFiniteSet(Tests) /\ Cardinality(Tests) = NTests
            /\ IsFiniteSet(Workers) /\ Cardinality(Workers) = NWorkers
        BY <2>0, Finiteness
      <4>2. /\ finished' \subseteq Tests /\ Uncounted' \subseteq Workers
            /\ {i \in Workers : hung_up'[i]} \subseteq Workers
        BY <3>1 DEF Typed, Uncounted
      <4>3. /\ Cardinality(finished') <= NTests
            /\ Cardinality(finished') \in Nat /\ Cardinality(Uncounted') \in Nat
            /\ Cardinality({i \in Workers : hung_up'[i]}) <= NWorkers
        BY <4>1, <4>2, FS_Subset, FS_CardinalityType
      <4>4. passed' \in 0..NTests /\ exited' \in 0..NWorkers
        BY <3>1, <4>3, CountsAssumption DEF Counted, Typed
      <4>5. QED
        BY <3>1, <4>4 DEF RunnerTypeOK, Typed
    <3>3. QED
      BY <3>1, <3>2 DEF RunInv, Talk
  <2>2. CASE UNCHANGED runnerVars
    BY <2>2 DEF runnerVars, masterVars, workerVars, pipeVars, runnerHistory, RunInv,
       RunnerTypeOK,
       Conversation, OnePlace, SomePlace, Counted, Uncounted, Phases, Deaths,
       MasterOpen
  <2>3. QED
    BY <2>1, <2>2
<1>3. QED
  BY <1>1, <1>2, PTL DEF RunnerSpec

(* When run_parallel returns without a failure every worker was sent away, *)
(* and no test is anywhere but among the finished.                         *)
LEMMA AllFinished ==
  ASSUME RunInv, ~MasterOpen, ~failed
  PROVE  passed = NTests /\ finished = Tests
<1>0. Typed /\ Talk /\ OnePlace /\ SomePlace /\ Counted /\ Phases
  BY RunInvParts
<1>1. \A i \in Workers : hung_up[i]
  <2>1. Cardinality({i \in Workers : hung_up[i]}) = Cardinality(Workers)
    BY <1>0, Finiteness DEF Counted, Phases
  <2>2. {i \in Workers : hung_up[i]} = Workers
    BY <1>0, <2>1, Finiteness, FS_Subset
  <2>3. QED
    BY <2>2
<1>2. dispatched = NTests
  <2>1. 0 \in Workers
    BY CountsAssumption DEF Workers
  <2>2. QED
    BY <1>0, <1>1, <2>1 DEF Talk, Conversation
<1>3. finished = Tests
  <2>1. ASSUME NEW t \in Tests PROVE t \in finished
    <3>1. t < dispatched
      BY <1>2, CountsAssumption DEF Tests
    <3>2. ~\E i \in Workers : wpc[i] = "wait" /\ resp[i] = t
      BY <1>0, <1>1, CountsAssumption DEF Talk, Conversation, Tests, Leave
    <3>3. QED
      BY <1>0, <1>1, <3>1, <3>2 DEF SomePlace
  <2>2. QED
    BY <1>0, <2>1 DEF Typed
<1>4. Uncounted = {}
  BY <1>0, <1>1 DEF Talk, Conversation, Uncounted
<1>5. passed = NTests
  BY <1>0, <1>3, <1>4, Finiteness, FS_EmptySet, CountsAssumption DEF Counted,
     Typed
<1>6. QED
  BY <1>3, <1>5

(* No test is started twice, no more tests are counted as passed than ran  *)
(* to their end, and a run that reports no failure has run them all: for   *)
(* any number of workers and tests and any order of the requests.          *)
THEOREM CountHonest == RunnerSpec => []HonestCount
<1>1. RunInv => HonestCount
  <2> SUFFICES ASSUME RunInv PROVE HonestCount
    OBVIOUS
  <2>0. Typed /\ OnePlace /\ Counted /\ RunnerTypeOK
    BY RunInvParts DEF RunInv
  <2>1. passed <= Cardinality(finished)
    BY <2>0, Finiteness DEF Counted, Typed
  <2>2. mpc = "done" /\ ~failed => passed = NTests /\ finished = Tests
    BY AllFinished DEF MasterOpen
  <2>3. QED
    BY <2>0, <2>1, <2>2 DEF HonestCount, OnePlace
<1>2. QED
  BY <1>1, RunInvariant, PTL

(* When run_parallel returns it reports a failure exactly if a test that   *)
(* fails was started, and no worker is left.                               *)
THEOREM FailuresReported == RunnerSpec => []FailureReported
<1>1. RunInv => FailureReported
  <2> SUFFICES ASSUME RunInv, mpc = "done"
               PROVE  /\ failed <=> \E t \in bad : started[t] > 0
                      /\ \A i \in Workers : wpc[i] = "dead"
    BY DEF FailureReported
  <2>0. Typed /\ OnePlace /\ Phases /\ Deaths
    BY RunInvParts
  <2>1. ~failed => ~\E t \in bad : started[t] > 0
    BY <2>0, AllFinished DEF MasterOpen, OnePlace, Typed
  <2>2. \A i \in Workers : wpc[i] = "dead"
    BY <2>0, CountsAssumption DEF Phases, Workers
  <2>3. QED
    BY <2>0, <2>1, <2>2 DEF Deaths
<1>2. QED
  BY <1>1, RunInvariant, PTL

-----------------------------------------------------------------------------
(***************************************************************************)
(* The simulated run, for every set of accesses of the design, every text  *)
(* typed at the terminal, every reference trace length and every bound.    *)
(***************************************************************************)

(* The inductive invariant.                                                *)

Char == 0..255
Context == [uart_avail : BOOLEAN, uart_written : BOOLEAN, uart_fetched : BOOLEAN,
            uart_data : Char, vuart_written : BOOLEAN, vuart_data : Char,
            v_open_trace : BOOLEAN, v_num_monitor : BOOLEAN, v_num : Nat]

BenchTyped ==
  /\ phase \in {"tick", "sync", "exit", "abort"}
  /\ current_cycle \in 1..(MAX_CYCLE + 1) /\ test_finished \in BOOLEAN
  /\ current_num \in Nat /\ wb \in Bundles /\ typed \in 0..Len(Terminal)
  /\ diff \in [line_number : Nat, error_count : Nat, aborted : BOOLEAN]

ConfregTyped ==
  /\ ctx \in Context /\ ctx0 \in Context
  /\ ififo \in Seq(Char) /\ received \in Seq(Char)
  /\ opty \in Seq(Char) /\ shown \in Seq(Char)
  /\ stored \in [OutputRegisters -> Seq(Char)]
  /\ mem \in [Registers -> Int] /\ cr0 \in [1..2 -> Int]
  /\ mem[OPEN_TRACE] \in {0, 1} /\ mem[NUM_MONITOR] \in {0, 1}

(* The loop of run(). *)
Running ==
  /\ phase = "sync" => ~test_finished /\ current_cycle <= MAX_CYCLE
  /\ phase \in {"tick", "sync"} /\ EndsRun(wb) => test_finished

(* The device works for the request the design holds. *)
InProgress ==
  /\ enable \in BOOLEAN
  /\ \/ creq = NoReq /\ tx = NoTx
     \/ \E a \in Accesses :
          creq = Request(a) /\ (tx = NoTx \/ tx = TxInit(a[2], 0, a[1]))

(* A store waits to be committed for a cycle in which there is no access,  *)
(* and CR0 is current but for it.                                          *)
Waits(r, d) ==
  /\ changes = <<<<r, d>>>> /\ tx = NoTx
  /\ r = CR0 => cr0[1] = d
  /\ r # CR0 => cr0[1] = mem[CR0]
Uncommitted ==
  \/ changes = <<>> /\ cr0[1] = mem[CR0]
  \/ \E r \in Nat, d \in Int :
       Waits(r, d) /\ (r \in {OPEN_TRACE, NUM_MONITOR} => d \in {0, 1})

(* Each typed character is in the queue or has been read; between two      *)
(* ticks nothing has been read ahead of the pop, and what LSR says holds.  *)
Typing ==
  /\ received \o ififo = SubSeq(Terminal, 1, typed)
  /\ phase = "tick" =>
       /\ ~ctx.uart_fetched /\ (ctx.uart_avail => ififo # <<>>)
       /\ promised => ctx.uart_avail
  /\ phase = "sync" /\ promised => ififo # <<>>

(* In the middle of a tick the terminal has got the UART's character, and  *)
(* checkout_confreg has yet to see that of VIRTUAL_UART.                   *)
PutOut(text, written, char) == IF written THEN Append(text, char) ELSE text
Output ==
  /\ phase \in {"tick", "sync"} =>
       stored[VIRTUAL_UART] = PutOut(shown, ctx.vuart_written, ctx.vuart_data)
  /\ phase = "tick" =>
       stored[UART_TXD] = PutOut(opty, ctx.uart_written, ctx.uart_data)
  /\ phase = "sync" => stored[UART_TXD] = opty

(* The verdict so far is that of the lines compared, which are all that    *)
(* the program has written but for what is in the writeback stage.         *)
AllRight(p) == Len(p) <= RefLength /\ \A k \in 1..Len(p) : p[k] = "right"
Judged(d, p) ==
  /\ d \in [line_number : Nat, error_count : Nat, aborted : BOOLEAN]
  /\ ~d.aborted /\ d.line_number = Len(p)
  /\ d.error_count = 0 <=> AllRight(p)
Compared ==
  /\ phase = "tick" =>
       \E p \in Seq(Lines) : retired = p \o LinesOf(wb) /\ Judged(diff, p)
  /\ phase = "sync" => retired \in Seq(Lines) /\ Judged(diff, retired)

BenchInv ==
  /\ BenchTyped /\ ConfregTyped /\ Running /\ InProgress /\ Uncommitted
  /\ Typing /\ Output /\ Compared /\ Verdict

-----------------------------------------------------------------------------
(* Sequences of characters and lines.                                      *)

(* Taking the first character of the queue leaves the whole text. *)
LEMMA FrontTaken ==
  ASSUME NEW S, NEW p \in Seq(S), NEW q \in Seq(S), q # <<>>
  PROVE  /\ Append(p, Head(q)) \o Tail(q) = p \o q
         /\ Append(p, Head(q)) \in Seq(S) /\ Tail(q) \in Seq(S)
<1>1. Head(q) \in S /\ Tail(q) \in Seq(S)
  BY HeadTailProperties
<1>2. Append(p, Head(q)) \in Seq(S)
  BY <1>1
<1>3. Len(Append(p, Head(q)) \o Tail(q)) = Len(p \o q)
  BY <1>1, <1>2
<1>4. ASSUME NEW i \in 1..Len(p \o q)
      PROVE  (Append(p, Head(q)) \o Tail(q))[i] = (p \o q)[i]
  <2>1. CASE i <= Len(p)
    BY <1>1, <1>2, <2>1
  <2>2. CASE i = Len(p) + 1
    BY <1>1, <1>2, <2>2
  <2>3. CASE i > Len(p) + 1
    <3>1. Tail(q)[i - Len(p) - 1] = q[i - Len(p)]
      BY <1>1, <2>3
    <3>2. QED
      BY <1>1, <1>2, <2>3, <3>1
  <2>4. QED
    BY <2>1, <2>2, <2>3
<1>5. QED
  BY <1>1, <1>2, <1>3, <1>4, SeqEqual

(* Adding one to the queue adds one to the text. *)
LEMMA BackAdded ==
  ASSUME NEW S, NEW p \in Seq(S), NEW q \in Seq(S), NEW x \in S
  PROVE  p \o Append(q, x) = Append(p \o q, x)
<1>1. /\ p \o Append(q, x) \in Seq(S) /\ Append(p \o q, x) \in Seq(S)
      /\ Len(p \o Append(q, x)) = Len(Append(p \o q, x))
  OBVIOUS
<1>2. \A i \in 1..Len(p \o Append(q, x)) :
        (p \o Append(q, x))[i] = Append(p \o q, x)[i]
  OBVIOUS
<1>3. QED
  BY <1>1, <1>2, SeqEqual

(* A prefix grows by the next element. *)
LEMMA PrefixGrows ==
  ASSUME NEW S, NEW t \in Seq(S), NEW n \in Nat, n < Len(t)
  PROVE  /\ Append(SubSeq(t, 1, n), t[n + 1]) = SubSeq(t, 1, n + 1)
         /\ t[n + 1] \in S
<1>1. /\ t[n + 1] \in S
      /\ \A i \in 1..(n + 1) : t[i] \in S
  BY ElementOfSeq
<1>2. /\ SubSeq(t, 1, n) \in Seq(S) /\ SubSeq(t, 1, n + 1) \in Seq(S)
      /\ Len(SubSeq(t, 1, n)) = n /\ Len(SubSeq(t, 1, n + 1)) = n + 1
      /\ \A i \in 1..n : SubSeq(t, 1, n)[i] = t[i]
      /\ \A i \in 1..(n + 1) : SubSeq(t, 1, n + 1)[i] = t[i]
  <2>1. CASE n = 0
    BY <1>1, <2>1, SubSeqProperties
  <2>2. CASE n > 0
    BY <1>1, <2>2, SubSeqProperties
  <2>3. QED
    BY <2>1, <2>2
<1>3. /\ Append(SubSeq(t, 1, n), t[n + 1]) \in Seq(S)
      /\ Len(Append(SubSeq(t, 1, n), t[n + 1])) = n + 1
      /\ \A i \in 1..(n + 1) : Append(SubSeq(t, 1, n), t[n + 1])[i] = t[i]
  BY <1>1, <1>2
<1>4. QED
  BY <1>1, <1>2, <1>3, SeqEqual

-----------------------------------------------------------------------------
(* The device and the registers.                                           *)

(* The offsets that are told apart. *)
LEMMA Layout ==
  /\ Registers \subseteq Nat /\ NUM \in Registers
  /\ {CR0, OPEN_TRACE, NUM_MONITOR, VIRTUAL_UART} \subseteq Registers
  /\ UART_TXD = UART_RXD /\ UART_RXD # UART_LSR
  /\ UART_RXD \notin Registers /\ UART_LSR \notin Registers
  /\ CR0 \notin {OPEN_TRACE, NUM_MONITOR, VIRTUAL_UART} /\ OPEN_TRACE # NUM_MONITOR
  /\ UART_TXD \notin {VIRTUAL_UART, NUM, OPEN_TRACE, NUM_MONITOR}
  /\ VIRTUAL_UART \notin {NUM, OPEN_TRACE, NUM_MONITOR}
  /\ NUM \notin {OPEN_TRACE, NUM_MONITOR}
  BY DEF Registers, UART_TXD, UART_RXD, UART_LSR, CR0, NUM, IO_SIMU, VIRTUAL_UART,
     SIMU_FLAG, OPEN_TRACE, NUM_MONITOR

(* Characters appended to a text. *)
LEMMA TextFacts ==
  \A q \in Seq(Char) :
    /\ q \o <<>> = q
    /\ \A x \in Char : Append(q, x) = q \o <<x>> /\ Append(q, x) \in Seq(Char)
<1>1. SUFFICES ASSUME NEW q \in Seq(Char)
               PROVE  /\ q \o <<>> = q
                      /\ \A x \in Char : /\ Append(q, x) = q \o <<x>>
                                         /\ Append(q, x) \in Seq(Char)
  OBVIOUS
<1>2. q \o <<>> = q
  BY ConcatEmptySeq
<1>3. \A x \in Char : Append(q, x) = q \o <<x>>
  BY AppendIsConcat
<1>4. \A x \in Char : Append(q, x) \in Seq(Char)
  OBVIOUS
<1>5. QED
  BY <1>2, <1>3, <1>4

(* What an access is made of. *)
LEMMA AccessOf ==
  ASSUME NEW a \in Accesses
  PROVE  /\ a[1] \in BOOLEAN /\ a[3] \in Nat
         /\ a[2] \in Nat
  BY InputsAssumption

(* Every access has one beat, so that the device is idle after it. *)
LEMMA DeviceFacts ==
  ASSUME InProgress
  PROVE  /\ DeviceResp.ready <=> enable /\ tx.busy
         /\ DeviceResp.last <=> enable /\ tx.busy
         /\ tx.busy => /\ creq.valid /\ TxLast(tx) /\ creq.data \in Nat
                       /\ tx.is_write \in BOOLEAN
                       /\ tx.addr \in Nat
         /\ ~tx.busy => tx = NoTx
         /\ creq.valid \in BOOLEAN /\ tx.busy \in BOOLEAN
<1>1. CASE tx = NoTx
  <2>1. tx.busy = FALSE
    BY <1>1 DEF NoTx
  <2>2. creq.valid \in BOOLEAN
    <3>1. NoReq.valid = FALSE /\ \A a \in Accesses : Request(a).valid = TRUE
      BY DEF NoReq, Request
    <3>2. QED
      BY <3>1 DEF InProgress
  <2>3. DeviceResp = [ready |-> FALSE, last |-> FALSE]
    BY <2>1 DEF DeviceResp
  <2>4. QED
    BY <1>1, <2>1, <2>2, <2>3 DEF InProgress
<1>2. CASE tx # NoTx
  <2>1. PICK a \in Accesses : creq = Request(a) /\ tx = TxInit(a[2], 0, a[1])
    BY <1>2, Zenon DEF InProgress
  <2>2. /\ tx.busy = TRUE /\ tx.is_write = a[1] /\ tx.addr = a[2]
        /\ tx.N = tx.Burst_Length
        /\ creq.valid = TRUE /\ creq.data = a[3]
    BY <2>1 DEF TxInit, Request
  <2>3. TxLast(tx)
    BY <2>2 DEF TxLast
  <2>4. DeviceResp = IF enable THEN [ready |-> TRUE, last |-> TRUE]
                     ELSE [ready |-> FALSE, last |-> FALSE]
    BY <2>2, <2>3 DEF DeviceResp
  <2>5. QED
    BY <2>2, <2>3, <2>4, AccessOf DEF InProgress
<1>3. QED
  BY <1>1, <1>2

(* The transaction after a clock edge. *)
LEMMA DeviceStep ==
  ASSUME InProgress, TickBack
  PROVE  /\ ~enable => tx' = tx
         /\ enable /\ tx.busy => tx' = NoTx
         /\ enable /\ ~tx.busy /\ ~creq.valid => tx' = NoTx
         /\ enable /\ ~tx.busy /\ creq.valid =>
              tx' = TxInit(creq.addr, creq.len, creq.is_write)
  BY DeviceFacts DEF TickBack, DeviceClock

(* A request is held until its answer. *)
LEMMA InProgressStep ==
  ASSUME InProgress, TickBack
  PROVE  InProgress'
<1>1. enable' \in BOOLEAN
  BY DEF TickBack, DeviceClock
<1>2. CASE creq.valid
  <2>1. PICK a \in Accesses :
          creq = Request(a) /\ (tx = NoTx \/ tx = TxInit(a[2], 0, a[1]))
    BY <1>2 DEF InProgress, NoReq
  <2>2. creq' = IF enable /\ tx.busy THEN NoReq ELSE creq
    BY <1>2, DeviceFacts DEF TickBack, DesignClock
  <2>3. /\ creq.addr = a[2] /\ creq.len = 0 /\ creq.is_write = a[1]
    BY <2>1 DEF Request
  <2>4. QED
    BY <1>1, <1>2, <2>1, <2>2, <2>3, DeviceFacts, DeviceStep DEF InProgress
<1>3. CASE ~creq.valid
  <2>1. creq = NoReq /\ tx = NoTx
    BY <1>3 DEF InProgress, Request
  <2>2. tx' = NoTx
    BY <1>3, <2>1, DeviceFacts, DeviceStep
  <2>3. creq' = creq \/ \E a \in Accesses : creq' = Request(a)
    BY <1>3 DEF TickBack, DesignClock
  <2>4. QED
    BY <1>1, <2>1, <2>2, <2>3 DEF InProgress
<1>4. QED
  BY <1>2, <1>3, DeviceFacts

(* The value kept of a store. *)
LEMMA KeptFacts ==
  ASSUME NEW r \in Nat, NEW d \in Nat
  PROVE  /\ Kept(r, d) \in Int
         /\ r = CR0 => Kept(r, d) = d
         /\ r = VIRTUAL_UART => Kept(r, d) \in Char /\ Kept(r, d) = d % 256
         /\ r = NUM => Kept(r, d) = d
         /\ r \in {OPEN_TRACE, NUM_MONITOR} => Kept(r, d) \in {0, 1}
<1>1. swap_bytes(d) \in Int
  BY DEF swap_bytes
<1>2. d % 256 \in Char /\ d % 2 \in {0, 1}
  BY DEF Char
<1>3. QED
  BY <1>1, <1>2 DEF Kept, Ones, Registers, UART_LSR, CR0, NUM, IO_SIMU, VIRTUAL_UART,
     SIMU_FLAG, OPEN_TRACE, NUM_MONITOR

(* At most one store is to be committed. *)
LEMMA CommitFacts ==
  /\ changes = <<>> => Committed = [r \in Registers |-> mem[r]]
  /\ \A s, d : changes = <<<<s, d>>>> =>
       Committed = [r \in Registers |-> IF r = s THEN d ELSE mem[r]]
<1>1. ASSUME changes = <<>> PROVE Committed = [r \in Registers |-> mem[r]]
  <2>1. \A r : {k \in DOMAIN changes : changes[k][1] = r} = {}
    BY <1>1
  <2>2. QED
    BY <2>1 DEF Committed
<1>2. ASSUME NEW s, NEW d, changes = <<<<s, d>>>>
      PROVE  Committed = [r \in Registers |-> IF r = s THEN d ELSE mem[r]]
  <2>1. DOMAIN changes = {1} /\ changes[1][1] = s /\ changes[1][2] = d
    BY <1>2
  <2>2. \A r : {k \in DOMAIN changes : changes[k][1] = r} = IF r = s THEN {1} ELSE {}
    BY <2>1
  <2>3. Max({1}) = 1
    BY DEF Max
  <2>4. QED
    BY <2>1, <2>2, <2>3 DEF Committed
<1>3. QED
  BY <1>1, <1>2

-----------------------------------------------------------------------------
(* The steps.                                                              *)

(* Loading in the first half of a tick. *)
LEMMA LoadingFacts ==
  ASSUME InProgress
  PROVE  /\ Loading <=> Answered
         /\ Answered => tx.addr \in Nat
  BY DeviceFacts DEF Loading, Answered

(* The context after a load. *)
LEMMA LoadedContext ==
  ASSUME ctx \in Context, InProgress, TickFront
  PROVE  /\ ctx' \in Context
         /\ ctx' = [ctx EXCEPT !.uart_fetched = ctx'.uart_fetched]
         /\ ctx'.uart_fetched <=>
              ctx.uart_fetched \/ (Answered /\ tx.addr = UART_RXD /\ ctx.uart_avail)
         /\ ctx'.uart_avail = ctx.uart_avail
         /\ ctx'.uart_written = ctx.uart_written /\ ctx'.uart_data = ctx.uart_data
         /\ ctx'.vuart_written = ctx.vuart_written /\ ctx'.vuart_data = ctx.vuart_data
<1>1. ctx' = IF Answered THEN LoadContext(tx.addr) ELSE ctx
  BY LoadingFacts DEF TickFront, SyncUart
<1>2. QED
  BY <1>1 DEF LoadContext, Context

(* The text is whole after the first half of a tick. *)
LEMMA TypingFront ==
  ASSUME phase = "tick", ConfregTyped, InProgress, Typing, TickFront
  PROVE  /\ Typing'
         /\ ififo' \in Seq(Char) /\ received' \in Seq(Char)
<1>1. ctx \in Context /\ ififo \in Seq(Char) /\ received \in Seq(Char)
  BY DEF ConfregTyped
<1>2. phase' \in {"sync", "abort"} /\ typed' = typed
  BY DEF TickFront
<1>3. /\ ctx'.uart_fetched <=> Answered /\ tx.addr = UART_RXD /\ ctx.uart_avail
      /\ ~ctx.uart_fetched
  BY <1>1, LoadedContext DEF Typing
<1>4. ififo' = IF ctx'.uart_fetched THEN Tail(ififo) ELSE ififo
  BY DEF TickFront, SyncUart
<1>5. CASE ctx'.uart_fetched
  <2>1. ififo # <<>>
    BY <1>3, <1>5 DEF Typing
  <2>2. LoadValue(UART_RXD) = Head(ififo)
    BY <1>3, <1>5, Layout DEF LoadValue
  <2>3. received' = Append(received, Head(ififo)) /\ ififo' = Tail(ififo)
    BY <1>3, <1>4, <1>5, <2>2 DEF TickFront
  <2>4. promised' = FALSE
    BY <1>3, <1>5, Layout DEF TickFront
  <2>5. /\ received' \o ififo' = received \o ififo
        /\ received' \in Seq(Char) /\ ififo' \in Seq(Char)
    <3>1. /\ Append(received, Head(ififo)) \o Tail(ififo) = received \o ififo
          /\ Append(received, Head(ififo)) \in Seq(Char) /\ Tail(ififo) \in Seq(Char)
      BY <1>1, <2>1, FrontTaken
    <3>2. QED
      BY <2>3, <3>1
  <2>6. QED
    BY <1>1, <1>2, <2>4, <2>5 DEF Typing
<1>6. CASE ~ctx'.uart_fetched
  <2>1. received' = received /\ ififo' = ififo
    BY <1>3, <1>4, <1>6 DEF TickFront
  <2>2. promised' => ctx.uart_avail
    BY DEF TickFront, Typing
  <2>3. QED
    BY <1>1, <1>2, <2>1, <2>2 DEF Typing
<1>7. QED
  BY <1>5, <1>6

(* The terminal gets its character in the first half of a tick. *)
LEMMA OutputFront ==
  ASSUME phase = "tick", ConfregTyped, InProgress, Output, TickFront
  PROVE  Output' /\ opty' \in Seq(Char)
<1>1. ctx \in Context /\ opty \in Seq(Char)
  BY DEF ConfregTyped
<1>2. /\ phase' \in {"sync", "abort"} /\ stored' = stored /\ shown' = shown
      /\ opty' = IF ctx'.uart_written THEN Append(opty, ctx'.uart_data) ELSE opty
  BY DEF TickFront, SyncUart
<1>3. /\ ctx'.uart_written = ctx.uart_written /\ ctx'.uart_data = ctx.uart_data
      /\ ctx'.vuart_written = ctx.vuart_written /\ ctx'.vuart_data = ctx.vuart_data
      /\ ctx.uart_data \in Char
  BY <1>1, LoadedContext DEF Context
<1>4. stored[UART_TXD] = opty'
  BY <1>2, <1>3 DEF Output, PutOut
<1>5. stored[VIRTUAL_UART] = PutOut(shown, ctx'.vuart_written, ctx'.vuart_data)
  BY <1>3 DEF Output
<1>6. opty' \in Seq(Char)
  BY <1>1, <1>2, <1>3
<1>7. Output'
  BY <1>2, <1>4, <1>5 DEF Output
<1>8. QED
  BY <1>6, <1>7

(* The comparison of one more line. *)
LEMMA LineJudged ==
  ASSUME NEW d, NEW p \in Seq(Lines), Judged(d, p), NEW l \in Lines,
         NEW report \in BOOLEAN
  PROVE  /\ CheckLine(d, l, report) \in
              [line_number : Nat, error_count : Nat, aborted : BOOLEAN]
         /\ ~CheckLine(d, l, report).aborted =>
              Judged(CheckLine(d, l, report), Append(p, l))
<1> DEFINE e == CheckLine(d, l, report)
           q == Append(p, l)
<1>1. /\ Len(p) \in Nat /\ q \in Seq(Lines) /\ Len(q) = Len(p) + 1
      /\ \A k \in 1..Len(p) : q[k] = p[k]
      /\ q[Len(p) + 1] = l
  OBVIOUS
<1>2. /\ d.line_number = Len(p) /\ d.error_count \in Nat /\ d.aborted = FALSE
      /\ d.error_count = 0 <=> AllRight(p)
  BY DEF Judged
<1>3. Same(d, l) <=> Len(p) < RefLength /\ l = "right"
  BY <1>2 DEF Same, Empty, Lines
<1>4. e = [line_number |-> Len(p) + 1,
           error_count |-> IF Same(d, l) THEN d.error_count ELSE d.error_count + 1,
           aborted |-> ~Same(d, l) /\ report]
  BY <1>2 DEF CheckLine
<1>5. e.aborted \in BOOLEAN /\ e.error_count \in Nat /\ e.line_number = Len(q)
  BY <1>1, <1>2, <1>4
<1>6. e.error_count = 0 <=> d.error_count = 0 /\ Same(d, l)
  BY <1>2, <1>4
<1>7. AllRight(q) <=> AllRight(p) /\ Len(p) < RefLength /\ l = "right"
  <2>1. Len(q) <= RefLength <=> Len(p) < RefLength
    BY <1>1, RefAssumption
  <2>2. (\A k \in 1..Len(q) : q[k] = "right")
          <=> (\A k \in 1..Len(p) : p[k] = "right") /\ l = "right"
    <3>1. 1..Len(q) = (1..Len(p)) \union {Len(p) + 1}
      BY <1>1
    <3>2. QED
      BY <1>1, <3>1
  <2>3. QED
    BY <1>1, <2>1, <2>2, RefAssumption DEF AllRight
<1>8. QED
  BY <1>1, <1>2, <1>3, <1>4, <1>5, <1>6, <1>7 DEF Judged

(* The comparison of what a slot of the writeback stage retires. *)
LEMMA SlotJudged ==
  ASSUME NEW d, NEW p \in Seq(Lines), Judged(d, p), NEW k \in 1..2, ctx0 \in Context
  PROVE  /\ LineOf(wb, k) \in Seq(Lines) /\ p \o LineOf(wb, k) \in Seq(Lines)
         /\ Dump(d, k) \in [line_number : Nat, error_count : Nat, aborted : BOOLEAN]
         /\ ~Dump(d, k).aborted => Judged(Dump(d, k), p \o LineOf(wb, k))
<1>1. CASE Writes(wb, k)
  <2>1. /\ wb[k] \in Lines /\ LineOf(wb, k) = <<wb[k]>>
        /\ Dump(d, k) = CheckLine(d, wb[k], ForceDiff \/ trace_enabled)
    BY <1>1 DEF Writes, LineOf, Dump, TextDump
  <2>2. (ForceDiff \/ trace_enabled) \in BOOLEAN
    BY RefAssumption DEF trace_enabled, Context
  <2>3. Append(p, wb[k]) = p \o LineOf(wb, k)
    <3>1. \A l \in Lines : Append(p, l) = p \o <<l>>
      BY AppendIsConcat
    <3>2. QED
      BY <2>1, <3>1, Zenon
  <2>4. LineOf(wb, k) \in Seq(Lines) /\ p \o LineOf(wb, k) \in Seq(Lines)
    BY <2>1
  <2>5. /\ Dump(d, k) \in [line_number : Nat, error_count : Nat, aborted : BOOLEAN]
        /\ ~Dump(d, k).aborted => Judged(Dump(d, k), Append(p, wb[k]))
    <3>1. \A l \in Lines, report \in BOOLEAN :
             /\ CheckLine(d, l, report) \in
                  [line_number : Nat, error_count : Nat, aborted : BOOLEAN]
             /\ ~CheckLine(d, l, report).aborted =>
                  Judged(CheckLine(d, l, report), Append(p, l))
      BY LineJudged
    <3>2. QED
      BY <2>1, <2>2, <3>1, Zenon
  <2>6. QED
    BY <2>3, <2>4, <2>5
<1>2. CASE ~Writes(wb, k)
  <2>1. LineOf(wb, k) = <<>> /\ Dump(d, k) = d
    BY <1>2 DEF LineOf, Dump
  <2>2. p \o <<>> = p /\ <<>> \in Seq(Lines)
    BY ConcatEmptySeq
  <2>3. QED
    BY <2>1, <2>2 DEF Judged
<1>3. QED
  BY <1>1, <1>2

(* After the first half of a tick everything retired is compared. *)
LEMMA ComparedFront ==
  ASSUME phase = "tick", ~EndsRun(wb), ctx0 \in Context, Compared, TickFront
  PROVE  /\ diff' \in [line_number : Nat, error_count : Nat, aborted : BOOLEAN]
         /\ phase' \in {"sync", "abort"} /\ retired' = retired
         /\ phase' = "sync" => retired \in Seq(Lines) /\ Judged(diff', retired)
<1>1. PICK p \in Seq(Lines) : retired = p \o LinesOf(wb) /\ Judged(diff, p)
  BY DEF Compared
<1> DEFINE e == Dump(diff, 1)
           q == p \o LineOf(wb, 1)
<1>2. /\ diff' = Dump(e, 2) /\ phase' = (IF diff'.aborted THEN "abort" ELSE "sync")
      /\ retired' = retired
  BY DEF TickFront, PrintWriteback
<1>3. /\ q \in Seq(Lines) /\ LineOf(wb, 1) \in Seq(Lines)
      /\ e \in [line_number : Nat, error_count : Nat, aborted : BOOLEAN]
      /\ ~e.aborted => Judged(e, q)
  BY <1>1, SlotJudged
<1>4. LineOf(wb, 2) \in Seq(Lines)
  BY <1>1, SlotJudged
<1>5. retired = q \o LineOf(wb, 2) /\ retired \in Seq(Lines)
  <2> DEFINE a == LineOf(wb, 1)
             b == LineOf(wb, 2)
  <2>1. a \in Seq(Lines) /\ b \in Seq(Lines) /\ retired = p \o (a \o b)
    <3>1. LinesOf(wb) = a \o b
      BY DEF EndsRun, LinesOf
    <3>2. QED
      BY <1>1, <1>3, <1>4, <3>1
  <2> HIDE DEF a, b
  <2>2. \A s, t, u \in Seq(Lines) : (s \o t) \o u = s \o (t \o u)
    BY ConcatAssociative
  <2>3. (p \o a) \o b = p \o (a \o b)
    BY <1>1, <2>1, <2>2, Zenon
  <2>4. a \o b \in Seq(Lines) /\ p \o (a \o b) \in Seq(Lines)
    BY <1>1, <2>1
  <2>5. QED
    BY <2>1, <2>3, <2>4 DEF a, b
<1>6. CASE e.aborted
  <2>1. Dump(e, 2) = e
    BY <1>6 DEF Dump, TextDump, CheckLine
  <2>2. QED
    BY <1>2, <1>3, <1>6, <2>1
<1>7. CASE ~e.aborted
  <2>1. /\ diff' \in [line_number : Nat, error_count : Nat, aborted : BOOLEAN]
        /\ ~diff'.aborted => Judged(diff', q \o LineOf(wb, 2))
    <3>1. Judged(e, q) /\ 2 \in 1..2
      BY <1>3, <1>7
    <3> HIDE DEF e, q
    <3>2. QED
      BY <1>2, <1>3, <3>1, SlotJudged, Zenon
  <2>2. QED
    BY <1>2, <1>5, <2>1
<1>8. QED
  BY <1>6, <1>7

(* The first half of a tick. *)
LEMMA FrontStep ==
  ASSUME BenchInv, TickFront
  PROVE  BenchInv'
<1> USE DEF BenchInv
<1>1. phase = "tick" /\ ~test_finished /\ current_cycle <= MAX_CYCLE
  BY DEF TickFront
<1>2. /\ UNCHANGED <<devVars, ctx0, mem, changes, current_cycle, test_finished,
                     current_num, creq, wb, typed, retired, stored, shown>>
      /\ cr0' = IF Answered /\ tx.addr = CR0
                THEN [cr0 EXCEPT ![2] = LoadValue(CR0)] ELSE cr0
  BY DEF TickFront
<1>3. LoadValue(CR0) \in Int
  BY Layout DEF LoadValue, ConfregTyped
<1>4. cr0' \in [1..2 -> Int] /\ cr0'[1] = cr0[1]
  BY <1>2, <1>3 DEF ConfregTyped
<1>5. ctx0 \in Context /\ ctx \in Context
  BY DEF ConfregTyped
<1>6. /\ diff' \in [line_number : Nat, error_count : Nat, aborted : BOOLEAN]
      /\ phase' \in {"sync", "abort"}
      /\ phase' = "sync" => retired \in Seq(Lines) /\ Judged(diff', retired)
  BY <1>1, <1>5, ComparedFront DEF Running
<1>7. Typing' /\ ififo' \in Seq(Char) /\ received' \in Seq(Char)
  BY <1>1, TypingFront
<1>8. Output' /\ opty' \in Seq(Char)
  BY <1>1, OutputFront
<1>9. BenchTyped'
  BY <1>2, <1>6 DEF BenchTyped
<1>10. ConfregTyped'
  <2>1. ctx' \in Context
    BY <1>5, LoadedContext
  <2>2. QED
    BY <1>2, <1>4, <1>7, <1>8, <2>1 DEF ConfregTyped
<1>11. Running'
  BY <1>1, <1>2, <1>6 DEF Running, EndsRun
<1>12. InProgress'
  BY <1>2 DEF InProgress, devVars
<1>13. Uncommitted'
  BY <1>2, <1>4 DEF Uncommitted, Waits, devVars
<1>14. Compared'
  BY <1>2, <1>6 DEF Compared
<1>15. Verdict'
  BY <1>1, <1>2, <1>6 DEF Running, Verdict, BesideEnd, EndsRun
<1>16. QED
  BY <1>7, <1>8, <1>9, <1>10, <1>11, <1>12, <1>13, <1>14, <1>15

(* A character stored to the UART, and to VIRTUAL_UART. *)
LEMMA CharacterStored ==
  ASSUME NEW c \in Context, NEW x \in Char
  PROVE  /\ [c EXCEPT !.uart_written = TRUE, !.uart_data = x] \in Context
         /\ [c EXCEPT !.vuart_written = TRUE, !.vuart_data = x] \in Context
<1>1. /\ [c EXCEPT !.uart_written = TRUE] \in Context
      /\ [c EXCEPT !.vuart_written = TRUE] \in Context
  BY DEF Context
<1>2. \A e \in Context : [e EXCEPT !.uart_data = x] \in Context
  BY DEF Context
<1>3. \A e \in Context : [e EXCEPT !.vuart_data = x] \in Context
  BY DEF Context
<1>4. QED
  BY <1>1, <1>2, <1>3

(* The context a store leaves, by the register it goes to. *)
AfterStore(c, r, d, s) ==
  /\ s \in Context
  /\ s.uart_fetched = c.uart_fetched /\ s.uart_avail = c.uart_avail
  /\ s.uart_written = IF r = UART_TXD THEN TRUE ELSE c.uart_written
  /\ s.vuart_written = IF r = VIRTUAL_UART THEN TRUE ELSE c.vuart_written
  /\ r = UART_TXD => s.uart_data = d % 256
  /\ r = VIRTUAL_UART => s.vuart_data = d % 256

LEMMA StoreFacts ==
  ASSUME NEW c \in Context, NEW r \in Nat, NEW d \in Nat,
         NEW s, s = StoreContext(c, r, d)
  PROVE  AfterStore(c, r, d, s)
<1> USE DEF AfterStore
<1>1. /\ UART_TXD \notin {VIRTUAL_UART, NUM, OPEN_TRACE, NUM_MONITOR}
      /\ VIRTUAL_UART \notin {NUM, OPEN_TRACE, NUM_MONITOR}
      /\ NUM \notin {OPEN_TRACE, NUM_MONITOR} /\ OPEN_TRACE # NUM_MONITOR
  BY Layout
<1>2. d % 256 \in Char
  BY DEF Char
<1>3. CASE r = UART_TXD
  <2>1. s = [c EXCEPT !.uart_written = TRUE, !.uart_data = d % 256]
    BY <1>1, <1>3 DEF StoreContext
  <2>2. s \in Context
    BY <1>2, <2>1, CharacterStored, Zenon
  <2>3. /\ s.uart_written = TRUE /\ s.uart_data = d % 256
        /\ s.uart_fetched = c.uart_fetched /\ s.uart_avail = c.uart_avail
        /\ s.vuart_written = c.vuart_written
    BY <2>1 DEF Context
  <2>4. QED
    BY <1>1, <1>3, <2>2, <2>3, Zenon
<1>4. CASE r = VIRTUAL_UART
  <2>1. Kept(r, d) = d % 256
    BY <1>4, KeptFacts
  <2>2. s = [c EXCEPT !.vuart_written = TRUE, !.vuart_data = d % 256]
    BY <1>1, <1>4, <2>1 DEF StoreContext
  <2>3. s \in Context
    BY <1>2, <2>2, CharacterStored, Zenon
  <2>4. /\ s.vuart_written = TRUE /\ s.vuart_data = d % 256
        /\ s.uart_fetched = c.uart_fetched /\ s.uart_avail = c.uart_avail
        /\ s.uart_written = c.uart_written
    BY <2>2 DEF Context
  <2>5. QED
    BY <1>1, <1>4, <2>3, <2>4, Zenon
<1>5. CASE r \notin {UART_TXD, VIRTUAL_UART}
  <2>1. \/ s = c
        \/ s = [c EXCEPT !.v_num = d]
        \/ \E b \in BOOLEAN : \/ s = [c EXCEPT !.v_open_trace = b]
                              \/ s = [c EXCEPT !.v_num_monitor = b]
    <3>1. r = NUM => Kept(r, d) = d
      BY KeptFacts
    <3>2. QED
      BY <1>1, <1>5, <3>1 DEF StoreContext
  <2>2. QED
    BY <1>5, <2>1 DEF Context
<1>6. QED
  BY <1>3, <1>4, <1>5

(* The context after a clock edge: what sync has reset, and what the store *)
(* of the cycle has set behind it.                                         *)
LEMMA StoredContext ==
  ASSUME ctx \in Context, InProgress, TickBack
  PROVE  /\ ctx' \in Context /\ ~ctx'.uart_fetched
         /\ ctx'.uart_avail <=> ififo # <<>>
         /\ ctx'.uart_written <=> Storing /\ tx.addr = UART_TXD
         /\ ctx'.uart_written => ctx'.uart_data = creq.data % 256
         /\ ctx'.vuart_written <=> Storing /\ tx.addr = VIRTUAL_UART
         /\ ctx'.vuart_written => ctx'.vuart_data = creq.data % 256
<1> DEFINE c == SyncContext
           r == tx.addr
           d == creq.data
<1>1. /\ c \in Context /\ ~c.uart_fetched /\ ~c.uart_written /\ ~c.vuart_written
      /\ c.uart_avail <=> ififo # <<>>
  BY DEF SyncContext, Context
<1>2. ctx' = IF Storing THEN StoreContext(c, r, d) ELSE c
  BY DEF TickBack, ConfregClock
<1>3. Storing => r \in Nat /\ d \in Nat
  BY DeviceFacts DEF Storing
<1> HIDE DEF c, r, d
<1>4. CASE ~Storing
  BY <1>1, <1>2, <1>4
<1>5. CASE Storing
  <2>1. r \in Nat /\ d \in Nat /\ ctx' = StoreContext(c, r, d)
    BY <1>2, <1>3, <1>5
  <2>2. \A k \in Context, n, e \in Nat : AfterStore(k, n, e, StoreContext(k, n, e))
    BY StoreFacts
  <2>3. AfterStore(c, r, d, ctx')
    BY <1>1, <2>1, <2>2, Zenon
  <2>4. QED
    BY <1>1, <1>5, <2>3 DEF AfterStore, r, d
<1>6. QED
  BY <1>4, <1>5

(* A clock edge commits the stores of the cycle before. *)
LEMMA UncommittedBack ==
  ASSUME ConfregTyped, InProgress, Uncommitted, TickBack
  PROVE  /\ Uncommitted' /\ cr0' \in [1..2 -> Int]
         /\ mem' \in [Registers -> Int]
         /\ mem'[OPEN_TRACE] \in {0, 1} /\ mem'[NUM_MONITOR] \in {0, 1}
<1>1. /\ mem' = Committed
      /\ changes' = IF Storing THEN StoreChanges(tx.addr, creq.data) ELSE <<>>
      /\ cr0' = IF Storing /\ tx.addr = CR0
                THEN [cr0 EXCEPT ![1] = creq.data] ELSE cr0
  BY DEF TickBack, ConfregClock
<1>2. /\ mem \in [Registers -> Int] /\ cr0 \in [1..2 -> Int]
      /\ mem[OPEN_TRACE] \in {0, 1} /\ mem[NUM_MONITOR] \in {0, 1}
  BY DEF ConfregTyped
<1>3. CASE changes # <<>>
  <2>1. PICK r \in Nat, d \in Int :
          Waits(r, d) /\ (r \in {OPEN_TRACE, NUM_MONITOR} => d \in {0, 1})
    BY <1>3 DEF Uncommitted
  <2>2. ~Storing
    BY <2>1 DEF Waits, Storing, NoTx
  <2>3. Committed = [i \in Registers |-> IF i = r THEN d ELSE mem[i]]
    BY <2>1, CommitFacts DEF Waits
  <2>4. mem'[CR0] = cr0[1]
    BY <1>1, <1>2, <2>1, <2>3, Layout DEF Waits
  <2>5. QED
    BY <1>1, <1>2, <2>1, <2>2, <2>3, <2>4, Layout DEF Uncommitted
<1>4. CASE changes = <<>>
  <2>1. mem' = mem /\ cr0[1] = mem[CR0]
    <3>1. mem' = [r \in Registers |-> mem[r]]
      BY <1>1, <1>4, CommitFacts
    <3>2. cr0[1] = mem[CR0]
      BY <1>4 DEF Uncommitted, Waits
    <3>3. QED
      BY <1>2, <3>1, <3>2
  <2>2. CASE ~Storing \/ tx.addr = UART_TXD
    BY <1>1, <1>2, <2>1, <2>2, Layout DEF Uncommitted, StoreChanges
  <2>3. CASE Storing /\ tx.addr # UART_TXD
    <3>1. /\ tx.addr \in Nat /\ creq.data \in Nat
          /\ tx' = NoTx
      BY <2>3, DeviceFacts, DeviceStep, Layout DEF Storing
    <3>2. changes' = <<<<tx.addr, Kept(tx.addr, creq.data)>>>>
      BY <1>1, <2>3 DEF StoreChanges
    <3>3. /\ Kept(tx.addr, creq.data) \in Int
          /\ tx.addr = CR0 => Kept(tx.addr, creq.data) = creq.data
          /\ tx.addr \in {OPEN_TRACE, NUM_MONITOR} =>
               Kept(tx.addr, creq.data) \in {0, 1}
      BY <3>1, KeptFacts
    <3>4. /\ cr0' \in [1..2 -> Int]
          /\ cr0'[1] = IF tx.addr = CR0 THEN creq.data ELSE cr0[1]
      BY <1>1, <1>2, <2>3, <3>1
    <3>5. QED
      BY <1>2, <2>1, <3>1, <3>2, <3>3, <3>4 DEF Uncommitted, Waits
  <2>4. QED
    BY <2>2, <2>3
<1>5. QED
  BY <1>3, <1>4

(* What is stored to an output register is on its way in the next tick. *)
LEMMA OutputBack ==
  ASSUME phase = "sync", ConfregTyped, InProgress, Output, TickBack
  PROVE  /\ Output' /\ stored' \in [OutputRegisters -> Seq(Char)]
         /\ shown' \in Seq(Char)
<1>1. /\ ctx \in Context /\ stored \in [OutputRegisters -> Seq(Char)]
      /\ opty \in Seq(Char) /\ shown \in Seq(Char)
  BY DEF ConfregTyped
<1>2. /\ stored' = (IF Storing /\ tx.addr \in OutputRegisters
                    THEN [stored EXCEPT ![tx.addr] = Append(@, creq.data % 256)]
                    ELSE stored)
      /\ opty' = opty /\ phase' = "tick" /\ ctx0' = ctx
      /\ shown' = IF ctx.vuart_written THEN Append(shown, ctx.vuart_data) ELSE shown
  BY DEF TickBack, ConfregClock, Checkout, has_char, get_char
<1>3. Storing => creq.data % 256 \in Char
  BY DeviceFacts DEF Storing, Char
<1>4. shown' = stored[VIRTUAL_UART] /\ shown' \in Seq(Char)
  BY <1>1, <1>2 DEF Output, PutOut, Context
<1>5. stored[UART_TXD] = opty
  BY DEF Output
<1>6. /\ ctx'.uart_written <=> Storing /\ tx.addr = UART_TXD
      /\ ctx'.uart_written => ctx'.uart_data = creq.data % 256
      /\ ctx'.vuart_written <=> Storing /\ tx.addr = VIRTUAL_UART
      /\ ctx'.vuart_written => ctx'.vuart_data = creq.data % 256
  BY <1>1, StoredContext
<1>7. OutputRegisters = {UART_TXD, VIRTUAL_UART} /\ UART_TXD # VIRTUAL_UART
  BY Layout DEF OutputRegisters
<1>8. stored' \in [OutputRegisters -> Seq(Char)]
  BY <1>1, <1>2, <1>3
<1>9. stored'[VIRTUAL_UART] = PutOut(shown', ctx'.vuart_written, ctx'.vuart_data)
  <2>1. CASE Storing /\ tx.addr = VIRTUAL_UART
    <3>1. stored'[VIRTUAL_UART] = Append(shown', creq.data % 256)
      BY <1>1, <1>2, <1>4, <1>7, <2>1
    <3>2. QED
      BY <1>6, <2>1, <3>1, Zenon DEF PutOut
  <2>2. CASE ~(Storing /\ tx.addr = VIRTUAL_UART)
    <3>1. stored'[VIRTUAL_UART] = shown'
      BY <1>1, <1>2, <1>4, <1>7, <2>2
    <3>2. QED
      BY <1>6, <2>2, <3>1, Zenon DEF PutOut
  <2>3. QED
    BY <2>1, <2>2
<1>10. stored'[UART_TXD] = PutOut(opty', ctx'.uart_written, ctx'.uart_data)
  <2>1. CASE Storing /\ tx.addr = UART_TXD
    <3>1. stored'[UART_TXD] = Append(opty', creq.data % 256)
      BY <1>1, <1>2, <1>5, <1>7, <2>1
    <3>2. QED
      BY <1>6, <2>1, <3>1, Zenon DEF PutOut
  <2>2. CASE ~(Storing /\ tx.addr = UART_TXD)
    <3>1. stored'[UART_TXD] = opty'
      BY <1>1, <1>2, <1>5, <1>7, <2>2
    <3>2. QED
      BY <1>6, <2>2, <3>1, Zenon DEF PutOut
  <2>3. QED
    BY <2>1, <2>2
<1>11. Output'
  BY <1>2, <1>9, <1>10 DEF Output
<1>12. QED
  BY <1>4, <1>8, <1>11

(* The second half of a tick. *)
LEMMA BackStep ==
  ASSUME BenchInv, TickBack
  PROVE  BenchInv'
<1> USE DEF BenchInv
<1>1. phase = "sync" /\ phase' = "tick"
  BY DEF TickBack
<1>2. /\ UNCHANGED <<diff, typed, received, promised, ififo, opty>>
      /\ ctx0' = ctx /\ current_cycle' = current_cycle + 1
      /\ wb' \in Bundles /\ retired' = retired \o LinesOf(wb')
  BY DEF TickBack, ConfregClock, DesignClock
<1>3. ctx \in Context /\ ctx' \in Context
  BY StoredContext DEF ConfregTyped
<1>4. Output' /\ stored' \in [OutputRegisters -> Seq(Char)] /\ shown' \in Seq(Char)
  BY <1>1, OutputBack
<1>5. /\ Uncommitted' /\ cr0' \in [1..2 -> Int] /\ mem' \in [Registers -> Int]
      /\ mem'[OPEN_TRACE] \in {0, 1} /\ mem'[NUM_MONITOR] \in {0, 1}
  BY UncommittedBack
<1>6. test_finished' = (EndsRun(wb') \/ (ctx.vuart_written /\ ctx.vuart_data = 255))
  BY <1>2 DEF TickBack, Checkout, has_char, get_char
<1>7. BenchTyped'
  <2>1. current_cycle' \in 1..(MAX_CYCLE + 1)
    BY <1>1, <1>2, BoundsAssumption DEF BenchTyped, Running
  <2>2. test_finished' \in BOOLEAN
    BY <1>3, <1>6 DEF Context, EndsRun
  <2>3. current_num' \in Nat
    <3>1. get_current_num' \in Nat
      BY <1>2, <1>3 DEF get_current_num, Context
    <3>2. current_num' = current_num \/ current_num' = get_current_num'
      BY DEF TickBack, Checkout
    <3>3. QED
      BY <3>1, <3>2 DEF BenchTyped
  <2>4. QED
    BY <1>1, <1>2, <2>1, <2>2, <2>3 DEF BenchTyped
<1>8. ConfregTyped'
  BY <1>2, <1>3, <1>4, <1>5 DEF ConfregTyped
<1>9. Running'
  BY <1>1, <1>6 DEF Running
<1>10. InProgress'
  BY InProgressStep
<1>11. Typing'
  <2>1. ~ctx'.uart_fetched /\ (ctx'.uart_avail <=> ififo # <<>>)
    BY <1>3, StoredContext
  <2>2. QED
    BY <1>1, <1>2, <2>1 DEF Typing
<1>12. Compared'
  <2>1. retired \in Seq(Lines) /\ Judged(diff, retired)
    BY <1>1 DEF Compared
  <2>2. QED
    BY <1>1, <1>2, <2>1 DEF Compared
<1>13. Verdict'
  BY <1>1 DEF Verdict
<1>14. QED
  BY <1>4, <1>5, <1>7, <1>8, <1>9, <1>10, <1>11, <1>12, <1>13

(* What a bundle adds to the trace are lines. *)
LEMMA LinesAre ==
  ASSUME NEW b
  PROVE  LinesOf(b) \in Seq(Lines)
<1>1. LineOf(b, 1) \in Seq(Lines) /\ LineOf(b, 2) \in Seq(Lines)
  BY DEF LineOf, Writes
<1>2. <<>> \in Seq(Lines) /\ \A s, t \in Seq(Lines) : s \o t \in Seq(Lines)
  OBVIOUS
<1>3. QED
  BY <1>1, <1>2, Zenon DEF LinesOf

(* The end of the run. *)
LEMMA VerdictGiven ==
  ASSUME BenchInv, RunEnds
  PROVE  Verdict' /\ diff' \in [line_number : Nat, error_count : Nat, aborted : BOOLEAN]
<1> USE DEF BenchInv
<1>1. phase = "tick" /\ UNCHANGED <<current_cycle, wb, retired>>
  BY DEF RunEnds, benchVars, history
<1>2. diff \in [line_number : Nat, error_count : Nat, aborted : BOOLEAN]
  BY DEF BenchTyped
<1>3. CASE current_cycle > MAX_CYCLE
  <2>1. phase' = "abort" /\ diff' = diff
    BY <1>3 DEF RunEnds
  <2>2. ~(current_cycle' <= MAX_CYCLE)
    BY <1>1, <1>3, BoundsAssumption DEF BenchTyped
  <2>3. QED
    BY <1>2, <2>1, <2>2 DEF Verdict
<1>4. CASE ~(current_cycle > MAX_CYCLE)
  <2>1. PICK p \in Seq(Lines) : retired = p \o LinesOf(wb) /\ Judged(diff, p)
    BY <1>1 DEF Compared
  <2>2. /\ diff' = CheckLine(diff, Empty, TRUE)
        /\ phase' = IF diff'.aborted THEN "abort" ELSE "exit"
    BY <1>4 DEF RunEnds, CheckEof
  <2>3. Same(diff, Empty) <=> Len(p) >= RefLength
    BY <2>1, RefAssumption DEF Same, Empty, Judged
  <2>4. /\ diff'.aborted = ~Same(diff, Empty)
        /\ diff'.error_count = 0 => diff.error_count = 0
        /\ diff' \in [line_number : Nat, error_count : Nat, aborted : BOOLEAN]
    <3>1. diff' = [line_number |-> diff.line_number + 1,
                   error_count |-> IF Same(diff, Empty) THEN diff.error_count
                                   ELSE diff.error_count + 1,
                   aborted |-> ~Same(diff, Empty)]
      BY <2>1, <2>2 DEF CheckLine, Judged
    <3>2. QED
      BY <1>2, <3>1
  <2>5. /\ phase' = "exit" => Len(p) >= RefLength
        /\ phase' = "abort" => Len(p) < RefLength
    <3>1. phase' = IF Same(diff, Empty) THEN "exit" ELSE "abort"
      BY <2>2, <2>4
    <3>2. QED
      BY <2>3, <3>1, RefAssumption
  <2>6. ASSUME EndsRun(wb)
        PROVE  retired = p \o BesideEnd /\ BesideEnd \in Seq(Lines)
    BY <2>1, <2>6, LinesAre DEF BesideEnd
  <2>7. ASSUME EndsRun(wb), phase' = "exit", diff'.error_count = 0
        PROVE  retired = Reference \o BesideEnd
    <3>1. AllRight(p)
      BY <2>1, <2>4, <2>7 DEF Judged
    <3>2. Len(p) = RefLength /\ \A k \in 1..Len(p) : p[k] = "right"
      BY <2>5, <2>7, <3>1, RefAssumption DEF AllRight
    <3>3. p = Reference
      BY <3>2 DEF Reference
    <3>4. QED
      BY <2>6, <2>7, <3>3
  <2>8. ASSUME EndsRun(wb), phase' = "abort"
        PROVE  retired # Reference \o BesideEnd
    <3>1. Len(p) < RefLength /\ BesideEnd \in Seq(Lines)
      BY <2>5, <2>6, <2>8
    <3>2. Reference \in Seq(Lines) /\ Len(Reference) = RefLength
      BY RefAssumption DEF Reference, Lines
    <3>3. \A s, t \in Seq(Lines) : Len(s \o t) = Len(s) + Len(t) /\ Len(s) \in Nat
      OBVIOUS
    <3>4. /\ Len(p \o BesideEnd) = Len(p) + Len(BesideEnd)
          /\ Len(Reference \o BesideEnd) = RefLength + Len(BesideEnd)
          /\ Len(BesideEnd) \in Nat /\ Len(p) \in Nat
      BY <2>1, <3>1, <3>2, <3>3, Zenon
    <3>5. Len(p \o BesideEnd) # Len(Reference \o BesideEnd)
      BY <3>1, <3>4, RefAssumption
    <3>6. QED
      BY <2>6, <2>8, <3>5, Zenon
  <2>9. Verdict'
    <3>1. Reference' = Reference /\ BesideEnd' = BesideEnd /\ EndsRun(wb)' = EndsRun(wb)
      BY <1>1 DEF Reference, BesideEnd, EndsRun
    <3>2. QED
      BY <1>1, <2>7, <2>8, <3>1 DEF Verdict
  <2>10. QED
    BY <2>4, <2>9
<1>5. QED
  BY <1>3, <1>4

(* The run stops. *)
LEMMA EndStep ==
  ASSUME BenchInv, RunEnds
  PROVE  BenchInv'
<1> USE DEF BenchInv
<1>1. /\ phase' \in {"exit", "abort"}
      /\ UNCHANGED <<devVars, conVars, current_cycle, test_finished, current_num,
                     creq, wb, typed, history>>
  BY DEF RunEnds
<1>2. Verdict' /\ diff' \in [line_number : Nat, error_count : Nat, aborted : BOOLEAN]
  BY VerdictGiven
<1>3. BenchTyped'
  BY <1>1, <1>2 DEF BenchTyped
<1>4. ConfregTyped'
  BY <1>1 DEF ConfregTyped, conVars, history
<1>5. Running' /\ InProgress'
  BY <1>1 DEF Running, InProgress, devVars
<1>6. Uncommitted'
  BY <1>1 DEF Uncommitted, Waits, devVars, conVars, history
<1>7. Typing' /\ Output' /\ Compared'
  BY <1>1 DEF Typing, Output, Compared, conVars, history
<1>8. QED
  BY <1>2, <1>3, <1>4, <1>5, <1>6, <1>7

(* A character is typed. *)
LEMMA TypeStep ==
  ASSUME BenchInv, UartThread
  PROVE  BenchInv'
<1> USE DEF BenchInv
<1>1. /\ phase \in {"tick", "sync"} /\ typed < Len(Terminal)
      /\ ififo' = Append(ififo, Terminal[typed + 1]) /\ typed' = typed + 1
      /\ UNCHANGED <<devVars, diff, benchVars, creq, wb, history, ctx, ctx0, mem,
                     changes, opty>>
  BY DEF UartThread, Receive
<1>2. /\ Terminal \in Seq(Char) /\ typed \in Nat
      /\ ififo \in Seq(Char) /\ received \in Seq(Char)
  BY InputsAssumption DEF BenchTyped, ConfregTyped, Char
<1>3. /\ Append(SubSeq(Terminal, 1, typed), Terminal[typed + 1])
           = SubSeq(Terminal, 1, typed + 1)
      /\ Terminal[typed + 1] \in Char
  BY <1>1, <1>2, PrefixGrows
<1>4. received \o ififo' = Append(received \o ififo, Terminal[typed + 1])
  BY <1>1, <1>2, <1>3, BackAdded
<1>5. received' \o ififo' = SubSeq(Terminal, 1, typed')
  BY <1>1, <1>3, <1>4 DEF Typing, history
<1>6. ififo' \in Seq(Char) /\ ififo' # <<>>
  BY <1>1, <1>2, <1>3
<1>7. BenchTyped'
  BY <1>1, <1>2 DEF BenchTyped, benchVars
<1>8. ConfregTyped'
  BY <1>1, <1>6 DEF ConfregTyped, history
<1>9. Running' /\ InProgress'
  BY <1>1 DEF Running, InProgress, EndsRun, benchVars, devVars
<1>10. Uncommitted'
  BY <1>1 DEF Uncommitted, Waits, devVars, history
<1>11. Typing'
  BY <1>1, <1>5, <1>6 DEF Typing, benchVars, history
<1>12. Output' /\ Compared' /\ Verdict'
  BY <1>1 DEF Output, Compared, Verdict, BesideEnd, EndsRun, benchVars, history
<1>13. QED
  BY <1>7, <1>8, <1>9, <1>10, <1>11, <1>12

(* The run begins. *)
LEMMA InitBenchInv == Init => BenchInv
<1> SUFFICES ASSUME Init PROVE BenchInv
  OBVIOUS
<1>1. /\ phase = "tick" /\ wb = <<>> /\ ctx = ContextReset /\ ctx0 = ContextReset
      /\ ififo = <<>> /\ opty = <<>> /\ changes = <<>> /\ received = <<>>
      /\ shown = <<>> /\ stored = [r \in OutputRegisters |-> <<>>]
      /\ retired = <<>> /\ typed = 0 /\ promised = FALSE /\ cr0 = <<0, 0>>
      /\ creq = NoReq /\ tx = NoTx /\ enable = TRUE
      /\ test_finished = FALSE /\ current_cycle = 1 /\ current_num = 0
      /\ diff = [line_number |-> 0, error_count |-> 0, aborted |-> FALSE]
  BY DEF Init, DeviceInit, ConfregReset, DiffInit
<1>2. /\ mem \in [Registers -> Int] /\ mem[CR0] = 0
      /\ mem[OPEN_TRACE] \in {0, 1} /\ mem[NUM_MONITOR] \in {0, 1}
  <2>1. mem = [r \in Registers |-> CASE r = SIMU_FLAG -> Ones
                                     [] r \in {OPEN_TRACE, NUM_MONITOR} -> 1
                                     [] OTHER -> 0]
    BY DEF Init, ConfregReset
  <2>2. SIMU_FLAG \notin {CR0, OPEN_TRACE, NUM_MONITOR}
    BY DEF SIMU_FLAG, CR0, OPEN_TRACE, NUM_MONITOR
  <2>3. QED
    BY <2>1, <2>2, Layout DEF Ones
<1>3. ContextReset \in Context
  BY DEF ContextReset, Context, Char
<1>4. BenchTyped
  <2>1. wb \in Bundles
    BY <1>1 DEF Bundles
  <2>2. Len(Terminal) \in Nat
    BY InputsAssumption
  <2>3. diff \in [line_number : Nat, error_count : Nat, aborted : BOOLEAN]
    BY <1>1
  <2>4. 1 \in 1..(MAX_CYCLE + 1) /\ 0 \in 0..Len(Terminal)
    BY <2>2, BoundsAssumption
  <2>5. QED
    BY <1>1, <2>1, <2>3, <2>4 DEF BenchTyped
<1>5. ConfregTyped
  BY <1>1, <1>2, <1>3 DEF ConfregTyped
<1>6. Running /\ InProgress
  BY <1>1 DEF Running, InProgress, EndsRun
<1>7. Uncommitted
  BY <1>1, <1>2 DEF Uncommitted
<1>8. Typing
  <2>1. SubSeq(Terminal, 1, 0) = <<>>
    BY SubSeqEmpty
  <2>2. QED
    BY <1>1, <2>1 DEF Typing, ContextReset
<1>9. Output
  <2>1. stored[UART_TXD] = <<>> /\ stored[VIRTUAL_UART] = <<>>
    BY <1>1 DEF OutputRegisters
  <2>2. QED
    BY <1>1, <2>1 DEF Output, PutOut, ContextReset
<1>10. Compared
  <2>1. LinesOf(wb) = <<>>
    BY <1>1 DEF LinesOf, LineOf, Writes
  <2>2. <<>> \in Seq(Lines) /\ Judged(diff, <<>>)
    BY <1>1, RefAssumption DEF Judged, AllRight
  <2>3. retired = <<>> \o LinesOf(wb)
    BY <1>1, <2>1, <2>2, ConcatEmptySeq
  <2>4. QED
    BY <1>1, <2>2, <2>3 DEF Compared
<1>11. Verdict
  BY <1>1 DEF Verdict
<1>12. QED
  BY <1>4, <1>5, <1>6, <1>7, <1>8, <1>9, <1>10, <1>11 DEF BenchInv

(* Nothing changes. *)
LEMMA StutterBenchInv == BenchInv /\ UNCHANGED vars => BenchInv'
<1> SUFFICES ASSUME BenchInv, UNCHANGED vars PROVE BenchInv'
  OBVIOUS
<1> USE DEF BenchInv, vars, devVars, conVars, benchVars, history
<1>1. BenchTyped' /\ ConfregTyped'
  BY DEF BenchTyped, ConfregTyped
<1>2. Running' /\ InProgress'
  BY DEF Running, InProgress, EndsRun
<1>3. Uncommitted'
  BY DEF Uncommitted, Waits
<1>4. Typing' /\ Output'
  BY DEF Typing, Output
<1>5. Compared' /\ Verdict'
  BY DEF Compared, Verdict, BesideEnd, EndsRun
<1>6. QED
  BY <1>1, <1>2, <1>3, <1>4, <1>5

(* The invariant of the simulated run holds throughout. *)
LEMMA BenchInvariant == Spec => []BenchInv
<1>1. Init => BenchInv
  BY InitBenchInv
<1>2. BenchInv /\ [Next]_vars => BenchInv'
  BY FrontStep, BackStep, EndStep, TypeStep, StutterBenchInv DEF Next
<1>3. QED
  BY <1>1, <1>2, PTL DEF Spec

-----------------------------------------------------------------------------
(* The theorems about the simulated run.                                   *)

(* Between two halves of a tick every typed character is in the queue or   *)
(* has been read, once and in order; sync never pops an empty queue        *)
(* (confreg.cpp:97-103,185-191).                                           *)
THEOREM UartKeepsOrder == Spec => []UartInOrder
<1>1. BenchInv => UartInOrder
  <2> SUFFICES ASSUME BenchInv PROVE UartInOrder
    OBVIOUS
  <2>1. TypeOK
    <3>1. /\ tx.N \in 0..1 /\ tx.busy \in BOOLEAN /\ enable \in BOOLEAN
      <4>1. NoTx.N = 0 /\ NoTx.busy = FALSE
        BY DEF NoTx
      <4>2. \A a \in Accesses : /\ TxInit(a[2], 0, a[1]).N = 1
                                /\ TxInit(a[2], 0, a[1]).busy = TRUE
        BY DEF TxInit
      <4>3. /\ tx.N = 0 \/ tx.N = 1
            /\ tx.busy \in BOOLEAN
            /\ enable \in BOOLEAN
        BY <4>1, <4>2, Zenon DEF BenchInv, InProgress
      <4>4. QED
        BY <4>3
    <3>2. Len(changes) <= 1
      <4>1. changes = <<>> \/ \E r, d : changes = <<<<r, d>>>>
        BY Zenon DEF BenchInv, Uncommitted, Waits
      <4>2. QED
        BY <4>1
    <3>3. ctx.uart_data \in 0..255 /\ ctx.vuart_data \in 0..255
      BY DEF BenchInv, ConfregTyped, Context, Char
    <3>4. QED
      BY <3>1, <3>2, <3>3 DEF BenchInv, BenchTyped, ConfregTyped, TypeOK
  <2>2. QED
    BY <2>1 DEF BenchInv, Typing, UartInOrder
<1>2. QED
  BY <1>1, BenchInvariant, PTL

(* Every character stored to an output register is put out once and in     *)
(* order (confreg.cpp:104-116).                                            *)
THEOREM OutputMadeOnce == Spec => []OutputOnce
<1>1. BenchInv => OutputOnce
  <2>1. SUFFICES ASSUME BenchInv, phase = "tick"
                 PROVE  /\ stored[VIRTUAL_UART] =
                             shown \o (IF ctx.vuart_written THEN <<ctx.vuart_data>>
                                       ELSE <<>>)
                        /\ stored[UART_TXD] =
                             opty \o (IF ctx.uart_written THEN <<ctx.uart_data>>
                                      ELSE <<>>)
    BY DEF OutputOnce
  <2>2. /\ shown \in Seq(Char) /\ opty \in Seq(Char)
        /\ ctx.vuart_data \in Char /\ ctx.uart_data \in Char
    BY <2>1 DEF BenchInv, ConfregTyped, Context
  <2>3. /\ Append(shown, ctx.vuart_data) = shown \o <<ctx.vuart_data>>
        /\ shown \o <<>> = shown
    BY <2>2, TextFacts, Zenon
  <2>4. /\ Append(opty, ctx.uart_data) = opty \o <<ctx.uart_data>>
        /\ opty \o <<>> = opty
    BY <2>2, TextFacts, Zenon
  <2>5. /\ stored[VIRTUAL_UART] = PutOut(shown, ctx.vuart_written, ctx.vuart_data)
        /\ stored[UART_TXD] = PutOut(opty, ctx.uart_written, ctx.uart_data)
    BY <2>1 DEF BenchInv, Output
  <2>6. QED
    BY <2>3, <2>4, <2>5, Zenon DEF PutOut
<1>2. QED
  BY <1>1, BenchInvariant, PTL

(* A run that ends at TEST_END_PC + 4 passes without a counted error only  *)
(* if the program had written the reference before its last bundle, and is *)
(* aborted only if it had not (mycpu.cpp:111,127-132,161).                 *)
THEOREM VerdictRight == Spec => []Verdict
<1>1. BenchInv => Verdict
  BY DEF BenchInv
<1>2. QED
  BY <1>1, BenchInvariant, PTL

(* A load of a register returns what the store before it left there        *)
(* (confreg.cpp:33-49,92,118-126).                                         *)
THEOREM RegistersInProgramOrder == Spec => ReadsSeeWrites
<1>1. BenchInv /\ [Next]_vars
        => [TickFront /\ Answered /\ tx.addr = CR0 => cr0'[2] = cr0[1]]_vars
  <2> SUFFICES ASSUME BenchInv, TickFront, Answered, tx.addr = CR0
               PROVE  cr0'[2] = cr0[1]
    OBVIOUS
  <2>1. tx # NoTx
    BY DeviceFacts DEF Answered, NoTx, BenchInv
  <2>2. cr0[1] = mem[CR0]
    BY <2>1, Zenon DEF BenchInv, Uncommitted, Waits
  <2>3. LoadValue(CR0) = mem[CR0]
    BY Layout DEF LoadValue
  <2>4. cr0' = [cr0 EXCEPT ![2] = LoadValue(CR0)] /\ cr0 \in [1..2 -> Int]
    BY DEF TickFront, BenchInv, ConfregTyped
  <2>5. QED
    BY <2>2, <2>3, <2>4
<1>2. QED
  BY <1>1, BenchInvariant, PTL DEF Spec, ReadsSeeWrites
=============================================================================
