---------------------------- MODULE ValidatorNode ----------------------------
(***************************************************************************)
(* The life of the process: main.ts loads the storage and starts the       *)
(* ValidatorNode, which listens and then starts its Worker; SIGINT stops   *)
(* the Worker, closes the server, and exits.  What the handlers and the    *)
(* passes do is module Router.                                             *)
(*                                                                         *)
(* Between a signal and the first look of waitForStop(), and from the last *)
(* look to server.close(), only promises are resolved: no callback of the  *)
(* event loop runs there, and each is one action.                          *)
(***************************************************************************)
EXTENDS Worker

CONSTANTS
  Signals,         \* the SIGINTs that may arrive
  MaxConnections   \* bound: connections open at once

ASSUME ValidatorNodeAssumption == MaxConnections \in Nat

VARIABLES
  process,      \* main.ts: loading, running, or the exit code
  server,       \* the http.Server
  connections,  \* its open connections
  stops         \* signal -> the call of ValidatorNode.stop() it has made

vars == <<worker, process, server, connections, stops>>

\* A call of stop(): not made; in waitForStop(), for so many seconds; or in
\* server.close(), with what waitForStop() resolved to.
NotMade       == [pc |-> "none"]
Waiting(n)    == [pc |-> "waitForStop", waited |-> n]
Closing(done) == [pc |-> "close", stopped |-> done]
StopCalls == {NotMade} \union {Waiting(n) : n \in 0 .. Timeout}
               \union {Closing(done) : done \in BOOLEAN}

Alive == process \in {"loading", "running"}

Init ==
  /\ WorkerInit
  /\ process = "loading"
  /\ server = "none"
  /\ connections = 0
  /\ stops = [s \in Signals |-> NotMade]

-----------------------------------------------------------------------------
\* The storage is open: the node is constructed and begins to listen.
Load ==
  /\ process = "loading"
  /\ process' = "running"
  /\ server' = "binding"
  /\ UNCHANGED <<worker, connections, stops>>

\* The storage cannot be opened, or the server cannot listen.
Fail ==
  /\ Alive
  /\ server \in {"none", "binding"}
  /\ process' = "exit(1)"
  /\ UNCHANGED <<worker, server, connections, stops>>

Listening ==
  /\ process = "running"
  /\ server = "binding"
  /\ server' = "listening"
  /\ start
  /\ UNCHANGED <<process, connections, stops>>

Connect ==
  /\ process = "running"
  /\ server = "listening"
  /\ connections < MaxConnections
  /\ connections' = connections + 1
  /\ UNCHANGED <<worker, process, server, stops>>

Disconnect ==
  /\ process = "running"
  /\ connections > 0
  /\ connections' = connections - 1
  /\ UNCHANGED <<worker, process, server, stops>>

CronTick ==
  /\ process = "running"
  /\ WorkTaskBegins
  /\ UNCHANGED <<process, server, connections, stops>>

PassEnds(thrown) ==
  /\ process = "running"
  /\ WorkTaskEnds(thrown)
  /\ UNCHANGED <<process, server, connections, stops>>

\* A look of waitForStop() for signal s, at the given state of the Worker.
\* When the wait is over the task is stopped and the server is closed; closing
\* a server that does not listen yet is an error that nothing catches.
Look(s, workerState, waited) ==
  IF WaitIsOver(workerState, waited)
  THEN /\ task' = FALSE
       /\ stops' = [stops EXCEPT ![s] = Closing(workerState = "STOPPED")]
       /\ IF server = "binding"
          THEN process' = "exit(1)" /\ UNCHANGED server
          ELSE server' = "closing" /\ UNCHANGED process
  ELSE /\ stops' = [stops EXCEPT ![s] = Waiting(waited)]
       /\ UNCHANGED <<task, server, process>>

SIGINT(s) ==
  /\ process = "running"
  /\ stops[s] = NotMade
  /\ state' = StopState
  /\ Look(s, StopState, 0)
  /\ UNCHANGED <<is_working, passes, threw, connections>>

\* Before there is a node to stop, the handler of the signal throws.
EarlySIGINT ==
  /\ process = "loading"
  /\ process' = "exit(1)"
  /\ UNCHANGED <<worker, server, connections, stops>>

\* Every 10 ms waitForStop() looks again.
Poll(s) ==
  /\ process = "running"
  /\ stops[s].pc = "waitForStop"
  /\ WaitIsOver(state, stops[s].waited)
  /\ Look(s, state, stops[s].waited)
  /\ UNCHANGED <<state, is_working, passes, threw, connections>>

\* A second goes by for every call that waits.
Second ==
  /\ process = "running"
  /\ \E s \in Signals : stops[s].pc = "waitForStop" /\ stops[s].waited < Timeout
  /\ stops' = [s \in Signals |->
                 IF stops[s].pc = "waitForStop" /\ stops[s].waited < Timeout
                 THEN Waiting(stops[s].waited + 1)
                 ELSE stops[s]]
  /\ UNCHANGED <<worker, process, server, connections>>

\* Mutant: the process exits as soon as it has called close().
ClosedAtOnce ==
  /\ process = "running"
  /\ server = "closing"
  /\ process' = "exit(0)"
  /\ UNCHANGED <<worker, server, connections, stops>>

\* The server is closed when its last connection has ended: the first stop()
\* to have closed it resolves.  A second one fails, but the exit comes first.
Closed ==
  /\ process = "running"
  /\ server = "closing"
  /\ connections = 0
  /\ process' = "exit(0)"
  /\ UNCHANGED <<worker, server, connections, stops>>

Next ==
  \/ Load
  \/ Fail
  \/ Listening
  \/ Connect
  \/ Disconnect
  \/ CronTick
  \/ \E thrown \in BOOLEAN : PassEnds(thrown)
  \/ \E s \in Signals : SIGINT(s) \/ Poll(s)
  \/ EarlySIGINT
  \/ Second
  \/ Closed

Spec == Init /\ [][Next]_vars

-----------------------------------------------------------------------------
(* Fairness: cron ticks, timers fire, time goes by, the server tells when   *)
(* it is closed, and connections do not stay open for ever.  That a pass    *)
(* ends is not assumed: it awaits peers and the chain without a timeout.    *)
Fairness ==
  /\ WF_vars(CronTick)
  /\ \A s \in Signals : WF_vars(Poll(s))
  /\ WF_vars(Second)
  /\ WF_vars(Disconnect)
  /\ WF_vars(Closed)

FairSpec == Spec /\ Fairness

-----------------------------------------------------------------------------
\* The type of every variable.
TypeOK ==
  /\ state \in WorkerState
  /\ task \in BOOLEAN
  /\ is_working \in BOOLEAN
  /\ passes \in Nat
  /\ threw \in BOOLEAN
  /\ process \in {"loading", "running", "exit(0)", "exit(1)"}
  /\ server \in {"none", "binding", "listening", "closing"}
  /\ connections \in 0 .. MaxConnections
  /\ stops \in [Signals -> StopCalls]

\* At most one pass of onWork() is in flight, though cron ticks every second
\* and stop() may be called at any time: what Router.ts relies on throughout.
OnePass == passes = IF is_working THEN 1 ELSE 0

\* The process exits with 0 only when no connection is open and no pass is in
\* flight, unless waitForStop() has given up on the pass.
CleanExit ==
  process = "exit(0)" =>
    /\ connections = 0
    /\ passes = 0 \/ \E s \in Signals : stops[s] = Closing(FALSE)

\* Nothing has run and nothing has been stopped before the server listens.
QuietInv ==
  Alive /\ server \in {"none", "binding"} =>
    /\ state = "NONE"
    /\ ~task
    /\ ~is_working
    /\ \A s \in Signals : stops[s] = NotMade

\* The state of the Worker against its passes and the calls of stop().
StopInv ==
  /\ state = "STOPPING" => is_working
  /\ state = "STOPPED" => ~is_working
  /\ \A s \in Signals : stops[s] # NotMade => state \in {"STOPPING", "STOPPED"}
  /\ \A s \in Signals : stops[s] = Closing(TRUE) => state = "STOPPED"

\* The server is closed by stop() alone, and an exit with 0 comes after that.
CloseInv ==
  /\ process = "loading" => server = "none"
  /\ process = "running" => server # "none"
  /\ server = "closing" => \E s \in Signals : stops[s].pc = "close"
  /\ process = "exit(0)" => server = "closing" /\ connections = 0

\* The inductive invariant: stop() and the task agree on what is in flight,
\* at whatever moments the signals come.
LifeInv ==
  /\ TypeOK
  /\ OnePass
  /\ QuietInv
  /\ StopInv
  /\ CloseInv

\* From the first SIGINT on, no pass begins: one that is in flight keeps the
\* task busy until the Worker is stopped.
NoPassAfterSIGINT ==
  [][(\E s \in Signals : stops[s] # NotMade) => passes' <= passes]_vars

\* A SIGINT ends the process, even if the pass in flight never returns.
SIGINTEndsProcess ==
  (\E s \in Signals : stops[s] # NotMade) ~> ~Alive

\* A pass that throws is not the last one: cron begins another.
PassesGoOn == threw ~> passes > 0 \/ state # "RUNNING" \/ ~Alive

=============================================================================
