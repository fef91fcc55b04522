------------------------- MODULE ValidatorNodeProofs -------------------------
(***************************************************************************)
(* Proofs about ValidatorNode, for every number of signals, every timeout  *)
(* and any number of connections.                                          *)
(***************************************************************************)
EXTENDS ValidatorNode, TLAPS

\* The kinds of calls of stop() are told apart by where they are.
LEMMA Calls ==
  /\ NotMade \in StopCalls /\ NotMade.pc = "none"
  /\ \A n \in 0 .. Timeout :
       Waiting(n) \in StopCalls /\ Waiting(n).pc = "waitForStop" /\ Waiting(n).waited = n
  /\ \A done \in BOOLEAN :
       Closing(done) \in StopCalls /\ Closing(done).pc = "close" /\ Closing(done).stopped = done
  /\ \A call \in StopCalls :
       /\ call.pc = "waitForStop" => call.waited \in 0 .. Timeout
       /\ call.pc = "close" => call = Closing(TRUE) \/ call = Closing(FALSE)
<1>1. NotMade.pc = "none" /\ (\A n : Waiting(n).pc = "waitForStop" /\ Waiting(n).waited = n)
  BY DEF NotMade, Waiting
<1>2. \A done : Closing(done).pc = "close" /\ Closing(done).stopped = done
  BY DEF Closing
<1>3. \A call \in StopCalls :
        \/ call = NotMade
        \/ \E n \in 0 .. Timeout : call = Waiting(n)
        \/ call = Closing(TRUE) \/ call = Closing(FALSE)
  BY DEF StopCalls
<1>4. /\ NotMade \in StopCalls
      /\ \A n \in 0 .. Timeout : Waiting(n) \in StopCalls
      /\ \A done \in BOOLEAN : Closing(done) \in StopCalls
  BY DEF StopCalls
<1>5. \A call \in StopCalls : call.pc = "waitForStop" => call.waited \in 0 .. Timeout
  <2> SUFFICES ASSUME NEW call \in StopCalls, call.pc = "waitForStop"
               PROVE  call.waited \in 0 .. Timeout
    OBVIOUS
  <2>1. PICK n \in 0 .. Timeout : call = Waiting(n)
    BY <1>1, <1>2, <1>3
  <2> QED
    BY <1>1, <2>1
<1>6. \A call \in StopCalls :
        call.pc = "close" => call = Closing(TRUE) \/ call = Closing(FALSE)
  BY <1>1, <1>3
<1>7. \A n \in 0 .. Timeout :
        Waiting(n) \in StopCalls /\ Waiting(n).pc = "waitForStop" /\ Waiting(n).waited = n
  BY <1>1, <1>4
<1>8. \A done \in BOOLEAN :
        Closing(done) \in StopCalls /\ Closing(done).pc = "close" /\ Closing(done).stopped = done
  BY <1>2, <1>4
<1> QED
  BY <1>1, <1>4, <1>5, <1>6, <1>7, <1>8

LEMMA InitialLife == Init => LifeInv
<1> SUFFICES ASSUME Init PROVE LifeInv
  OBVIOUS
<1>1. TypeOK
  <2>1. stops \in [Signals -> StopCalls]
    BY Calls DEF Init
  <2>2. /\ state \in WorkerState /\ passes \in Nat
        /\ task \in BOOLEAN /\ is_working \in BOOLEAN /\ threw \in BOOLEAN
    BY DEF Init, WorkerInit, WorkerState
  <2>3. /\ connections \in 0 .. MaxConnections
        /\ process \in {"loading", "running", "exit(0)", "exit(1)"}
        /\ server \in {"none", "binding", "listening", "closing"}
    BY ValidatorNodeAssumption DEF Init
  <2> QED
    BY <2>1, <2>2, <2>3 DEF TypeOK
<1>2. OnePass /\ QuietInv /\ CloseInv
  BY DEF Init, WorkerInit, OnePass, QuietInv, CloseInv
<1>3. StopInv
  BY Calls DEF Init, WorkerInit, StopInv
<1> QED
  BY <1>1, <1>2, <1>3 DEF LifeInv

\* A look of waitForStop() at the state the Worker is left in: the call goes
\* on waiting, or it closes the server, or the exit is an error.
LEMMA LookEffect ==
  ASSUME LifeInv, NEW s \in Signals, NEW waited \in 0 .. Timeout,
         state' \in {"STOPPING", "STOPPED"}, Look(s, state', waited)
  PROVE  /\ task' \in BOOLEAN
         /\ stops' \in [Signals -> StopCalls]
         /\ \A i \in Signals \ {s} : stops'[i] = stops[i]
         /\ \/ /\ stops'[s] = Waiting(waited)
               /\ UNCHANGED <<server, process>>
            \/ /\ stops'[s] = Closing(state' = "STOPPED")
               /\ server' = "closing"
               /\ UNCHANGED process
            \/ /\ stops'[s] = Closing(state' = "STOPPED")
               /\ process' = "exit(1)"
               /\ UNCHANGED server
<1>1. stops \in [Signals -> StopCalls] /\ task \in BOOLEAN
  BY DEF LifeInv, TypeOK
<1>2. Waiting(waited) \in StopCalls /\ Closing(state' = "STOPPED") \in StopCalls
  BY Calls
<1>3. CASE WaitIsOver(state', waited)
  BY <1>1, <1>2, <1>3 DEF Look
<1>4. CASE ~WaitIsOver(state', waited)
  BY <1>1, <1>2, <1>4 DEF Look
<1> QED
  BY <1>3, <1>4

\* The invariant is kept while the Worker and the calls of stop() stay as they
\* are, and the process does not exit with 0.
LEMMA LifeFrame ==
  ASSUME LifeInv, UNCHANGED <<worker, stops>>, connections' \in 0 .. MaxConnections,
         \/ /\ process = "loading" /\ process' = "running"
            /\ server' = "binding"
         \/ process' = "exit(1)" /\ UNCHANGED server
         \/ process \in {"running", "exit(1)"} /\ UNCHANGED <<process, server>>
  PROVE  LifeInv'
<1>1. UNCHANGED <<state, task, is_working, passes, threw, stops>>
  BY DEF worker
<1>2. TypeOK'
  BY <1>1 DEF LifeInv, TypeOK
<1>3. OnePass' /\ StopInv'
  BY <1>1 DEF LifeInv, OnePass, StopInv
<1>4. QuietInv'
  BY <1>1 DEF LifeInv, QuietInv, CloseInv, Alive
<1>5. CloseInv'
  BY <1>1 DEF LifeInv, CloseInv
<1> QED
  BY <1>2, <1>3, <1>4, <1>5 DEF LifeInv

\* SIGINT and the later looks of waitForStop() keep it.
LEMMA LookKeepsLife ==
  ASSUME LifeInv, NEW s \in Signals, NEW waited \in 0 .. Timeout,
         process = "running", server # "none", stops[s].pc # "close",
         state' \in {"STOPPING", "STOPPED"},
         state' = "STOPPING" <=> is_working,
         state = "STOPPED" => state' = "STOPPED",
         UNCHANGED <<is_working, passes, threw, connections>>,
         Look(s, state', waited)
  PROVE  LifeInv'
<1>1. /\ task' \in BOOLEAN
      /\ stops' \in [Signals -> StopCalls]
      /\ \A i \in Signals \ {s} : stops'[i] = stops[i]
      /\ \/ /\ stops'[s] = Waiting(waited)
            /\ UNCHANGED <<server, process>>
         \/ /\ stops'[s] = Closing(state' = "STOPPED")
            /\ server' = "closing"
            /\ UNCHANGED process
         \/ /\ stops'[s] = Closing(state' = "STOPPED")
            /\ process' = "exit(1)"
            /\ UNCHANGED server
  BY LookEffect
<1>2. TypeOK'
  BY <1>1 DEF LifeInv, TypeOK, WorkerState
<1>3. OnePass'
  BY DEF LifeInv, OnePass
<1>4. QuietInv'
  <2>1. CASE server = "binding"
    <3>1. state' = "STOPPED" /\ server = "binding"
      BY <2>1 DEF LifeInv, QuietInv, Alive
    <3>2. process' = "exit(1)"
      BY <3>1 DEF Look, WaitIsOver
    <3> QED
      BY <3>2 DEF QuietInv, Alive
  <2>2. CASE server # "binding"
    BY <1>1, <2>2 DEF QuietInv
  <2> QED
    BY <2>1, <2>2
<1>5. StopInv'
  <2>1. stops'[s] = Closing(TRUE) => state' = "STOPPED"
    <3>1. Closing(state' = "STOPPED").stopped = (state' = "STOPPED")
          /\ Closing(TRUE).stopped = TRUE
          /\ Closing(TRUE).pc = "close" /\ Waiting(waited).pc = "waitForStop"
      BY Calls
    <3> QED
      BY <1>1, <3>1
  <2>2. \A i \in Signals : stops'[i] = Closing(TRUE) => state' = "STOPPED"
    BY <1>1, <2>1 DEF LifeInv, StopInv
  <2> QED
    BY <2>2 DEF StopInv
<1>6. CloseInv'
  <2>1. Closing(state' = "STOPPED").pc = "close"
    BY Calls
  <2>2. server = "closing" => server' = "closing"
    BY <1>1
  <2>3. server' = "closing" => \E i \in Signals : stops'[i].pc = "close"
    <3>1. CASE server = "closing" /\ stops'[s] = Waiting(waited)
      <4>1. PICK i \in Signals : stops[i].pc = "close"
        BY <3>1 DEF LifeInv, CloseInv
      <4> QED
        BY <1>1, <4>1
    <3> QED
      BY <1>1, <2>1, <3>1
  <2> QED
    BY <1>1, <2>3 DEF CloseInv
<1> QED
  BY <1>2, <1>3, <1>4, <1>5, <1>6 DEF LifeInv

LEMMA NextLife == LifeInv /\ [Next]_vars => LifeInv'
<1> SUFFICES ASSUME LifeInv, [Next]_vars PROVE LifeInv'
  OBVIOUS
<1>1. TypeOK /\ OnePass /\ QuietInv /\ StopInv /\ CloseInv
  BY DEF LifeInv
<1>2. CASE Load \/ Fail \/ EarlySIGINT \/ Connect \/ Disconnect
  <2>1. connections' \in 0 .. MaxConnections
    BY <1>1, <1>2, ValidatorNodeAssumption
    DEF Load, Fail, EarlySIGINT, Connect, Disconnect, TypeOK
  <2> QED
    BY <1>2, <2>1, LifeFrame DEF Load, Fail, EarlySIGINT, Connect, Disconnect
<1>3. CASE Listening
  <2>1. /\ process = "running" /\ process' = "running"
        /\ server' = "listening" /\ task' = TRUE /\ is_working' = FALSE
        /\ state' = "RUNNING"
        /\ UNCHANGED <<passes, threw, connections, stops>>
    BY <1>3 DEF Listening, start
  <2>2. passes = 0 /\ \A s \in Signals : stops[s] = NotMade
    BY <1>1, <1>3 DEF Listening, QuietInv, OnePass, Alive
  <2>3. TypeOK'
    BY <1>1, <2>1 DEF TypeOK, WorkerState
  <2>4. StopInv'
    <3>1. \A s \in Signals : stops'[s] # Closing(TRUE)
      BY <2>1, <2>2, Calls
    <3> QED
      BY <2>1, <2>2, <3>1 DEF StopInv
  <2>5. OnePass' /\ QuietInv' /\ CloseInv'
    BY <2>1, <2>2 DEF OnePass, QuietInv, CloseInv
  <2> QED
    BY <2>3, <2>4, <2>5 DEF LifeInv
<1>4. CASE CronTick
  <2>1. /\ process = "running" /\ state # "STOPPED"
        /\ ~is_working /\ is_working' = TRUE /\ passes' = passes + 1 /\ threw' = FALSE
        /\ UNCHANGED <<state, task, process, server, connections, stops>>
    BY <1>4 DEF CronTick, WorkTaskBegins
  <2>2. server \notin {"none", "binding"}
    BY <1>1, <1>4 DEF CronTick, WorkTaskBegins, QuietInv, Alive
  <2>3. TypeOK'
    <3>1. is_working' \in BOOLEAN /\ threw' \in BOOLEAN
      BY <2>1
    <3>2. passes' \in Nat
      BY <1>1, <2>1 DEF TypeOK
    <3> QED
      BY <1>1, <2>1, <3>1, <3>2 DEF TypeOK
  <2>4. OnePass'
    BY <1>1, <2>1 DEF OnePass
  <2>5. QuietInv' /\ StopInv' /\ CloseInv'
    BY <1>1, <2>1, <2>2 DEF QuietInv, StopInv, CloseInv
  <2> QED
    BY <2>3, <2>4, <2>5 DEF LifeInv
<1>5. ASSUME NEW thrown \in BOOLEAN, PassEnds(thrown) PROVE LifeInv'
  <2>1. /\ process = "running" /\ passes > 0 /\ passes' = passes - 1
        /\ is_working' = FALSE /\ threw' = thrown
        /\ state' = IF state = "STOPPING" THEN "STOPPED" ELSE state
        /\ UNCHANGED <<task, process, server, connections, stops>>
    BY <1>5 DEF PassEnds, WorkTaskEnds
  <2>2. is_working /\ passes' = 0
    BY <1>1, <2>1 DEF OnePass, TypeOK
  <2>3. TypeOK'
    <3>1. is_working' \in BOOLEAN /\ threw' \in BOOLEAN
      BY <1>5, <2>1
    <3>2. state' \in WorkerState
      BY <1>1, <2>1 DEF TypeOK, WorkerState
    <3> QED
      BY <1>1, <2>1, <2>2, <3>1, <3>2 DEF TypeOK
  <2>4. OnePass'
    BY <2>1, <2>2 DEF OnePass
  <2>5. StopInv' /\ QuietInv' /\ CloseInv'
    BY <1>1, <2>1, <2>2 DEF StopInv, QuietInv, CloseInv, Alive
  <2> QED
    BY <2>3, <2>4, <2>5 DEF LifeInv
<1>6. ASSUME NEW s \in Signals, SIGINT(s) PROVE LifeInv'
  <2>1. state' \in {"STOPPING", "STOPPED"} /\ (state' = "STOPPING" <=> is_working)
    BY <1>6 DEF SIGINT, StopState
  <2>2. /\ process = "running" /\ stops[s] = NotMade
        /\ Look(s, state', 0)
        /\ UNCHANGED <<is_working, passes, threw, connections>>
    BY <1>6 DEF SIGINT
  <2>3. server # "none" /\ (state = "STOPPED" => state' = "STOPPED")
    BY <1>1, <2>1, <2>2 DEF StopInv, CloseInv
  <2>4. stops[s].pc # "close" /\ 0 \in 0 .. Timeout
    BY <2>2, Calls, WorkerAssumption
  <2> QED
    BY <2>1, <2>2, <2>3, <2>4, LookKeepsLife
<1>7. ASSUME NEW s \in Signals, Poll(s) PROVE LifeInv'
  <2>1. /\ process = "running" /\ stops[s].pc = "waitForStop"
        /\ Look(s, state', stops[s].waited)
        /\ UNCHANGED <<state, is_working, passes, threw, connections>>
    BY <1>7 DEF Poll
  <2>2. stops[s] # NotMade /\ stops[s].waited \in 0 .. Timeout
    BY <1>1, <2>1, Calls DEF TypeOK
  <2>3. state \in {"STOPPING", "STOPPED"} /\ (state = "STOPPING" <=> is_working)
    BY <1>1, <2>2 DEF StopInv
  <2>4. server # "none" /\ stops[s].pc # "close"
    BY <1>1, <2>1 DEF CloseInv
  <2> QED
    BY <2>1, <2>2, <2>3, <2>4, LookKeepsLife
<1>8. CASE Second
  <2>1. /\ process = "running"
        /\ UNCHANGED <<state, task, is_working, passes, threw, process, server, connections>>
    BY <1>8 DEF Second, worker
  <2>2. ASSUME NEW s \in Signals
        PROVE  \/ stops'[s] = stops[s]
               \/ /\ stops[s].pc = "waitForStop"
                  /\ stops'[s] \in StopCalls /\ stops'[s].pc = "waitForStop"
    <3>1. CASE stops[s].pc = "waitForStop" /\ stops[s].waited < Timeout
      <4>1. stops[s].waited \in 0 .. Timeout
        BY <1>1, <3>1, Calls DEF TypeOK
      <4>2. stops[s].waited + 1 \in 0 .. Timeout
        BY <3>1, <4>1, WorkerAssumption
      <4> QED
        BY <1>8, <3>1, <4>2, Calls DEF Second
    <3>2. CASE ~(stops[s].pc = "waitForStop" /\ stops[s].waited < Timeout)
      BY <1>8, <3>2 DEF Second
    <3> QED
      BY <3>1, <3>2
  <2>3. stops' \in [Signals -> StopCalls]
    <3>1. stops' = [s \in Signals |-> stops'[s]]
      BY <1>8 DEF Second
    <3> QED
      BY <1>1, <2>2, <3>1 DEF TypeOK
  <2>4. TypeOK' /\ OnePass'
    BY <1>1, <2>1, <2>3 DEF TypeOK, OnePass
  <2>5. \A s \in Signals :
          /\ stops'[s] # NotMade => stops[s] # NotMade
          /\ stops'[s] = Closing(TRUE) => stops[s] = Closing(TRUE)
          /\ stops[s].pc = "close" => stops'[s].pc = "close"
    BY <2>2, Calls
  <2>6. QuietInv'
    BY <1>1, <2>1, <2>5 DEF QuietInv, Alive
  <2>7. StopInv' /\ CloseInv'
    BY <1>1, <2>1, <2>5 DEF StopInv, CloseInv
  <2> QED
    BY <2>4, <2>6, <2>7 DEF LifeInv
<1>9. CASE Closed
  <2>1. /\ process' = "exit(0)" /\ server = "closing" /\ connections = 0
        /\ UNCHANGED <<state, task, is_working, passes, threw, server, connections, stops>>
    BY <1>9 DEF Closed, worker
  <2>2. TypeOK' /\ OnePass'
    BY <1>1, <2>1 DEF TypeOK, OnePass
  <2>3. QuietInv' /\ StopInv' /\ CloseInv'
    BY <1>1, <2>1 DEF QuietInv, StopInv, CloseInv, Alive
  <2> QED
    BY <2>2, <2>3 DEF LifeInv
<1>10. CASE UNCHANGED vars
  <2>1. UNCHANGED <<state, task, is_working, passes, threw, process, server, connections, stops>>
    BY <1>10 DEF vars, worker
  <2> QED
    BY <1>1, <2>1
    DEF LifeInv, TypeOK, OnePass, QuietInv, StopInv, CloseInv, Alive
<1> QED
  BY <1>2, <1>3, <1>4, <1>5, <1>6, <1>7, <1>8, <1>9, <1>10 DEF Next

-----------------------------------------------------------------------------
\* stop() and the task agree on what is in flight at every moment.
THEOREM LifeInvariance == Spec => []LifeInv
BY InitialLife, NextLife, PTL DEF Spec

\* However often cron ticks and signals come, two passes of onWork() never
\* overlap.
THEOREM OnePassAtATime == Spec => []OnePass
BY LifeInvariance, PTL DEF LifeInv

\* No pass is cut off by a clean exit that has not waited for it in full.
THEOREM ExitsCleanly == Spec => []CleanExit
<1>1. LifeInv => CleanExit
  <2> SUFFICES ASSUME LifeInv, process = "exit(0)" PROVE
        connections = 0 /\ (passes = 0 \/ \E s \in Signals : stops[s] = Closing(FALSE))
    BY DEF CleanExit
  <2>1. connections = 0 /\ server = "closing"
    BY DEF LifeInv, CloseInv
  <2>2. PICK s \in Signals : stops[s].pc = "close"
    BY <2>1 DEF LifeInv, CloseInv
  <2>3. stops[s] = Closing(TRUE) \/ stops[s] = Closing(FALSE)
    BY <2>2, Calls DEF LifeInv, TypeOK
  <2>4. stops[s] = Closing(TRUE) => passes = 0
    BY DEF LifeInv, StopInv, OnePass
  <2> QED
    BY <2>1, <2>3, <2>4
<1> QED
  BY <1>1, LifeInvariance, PTL

\* A signal that comes during a pass keeps cron from beginning another.
THEOREM SIGINTStopsPasses == Spec => NoPassAfterSIGINT
<1> DEFINE Ended == (\E s \in Signals : stops[s] # NotMade) => passes' <= passes
<1>1. ASSUME LifeInv, [Next]_vars PROVE Ended
  <2> SUFFICES ASSUME NEW s \in Signals, stops[s] # NotMade PROVE passes' <= passes
    OBVIOUS
  <2>1. passes \in Nat /\ ~CronTick
    BY <1>1 DEF LifeInv, TypeOK, StopInv, CronTick, WorkTaskBegins
  <2>2. \A thrown \in BOOLEAN : PassEnds(thrown) => passes' = passes - 1
    BY DEF PassEnds, WorkTaskEnds
  <2>3. Next /\ ~CronTick /\ ~(\E thrown \in BOOLEAN : PassEnds(thrown)) => UNCHANGED passes
    BY DEF Next, Load, Fail, Listening, start, Connect, Disconnect, SIGINT, Poll, EarlySIGINT,
           Second, Closed, worker
  <2>4. UNCHANGED vars => UNCHANGED passes
    BY DEF vars, worker
  <2> QED
    BY <1>1, <2>1, <2>2, <2>3, <2>4
<1>2. LifeInv /\ [Next]_vars => [Ended]_vars
  BY <1>1
<1> QED
  BY <1>2, LifeInvariance, PTL DEF Spec, NoPassAfterSIGINT

=============================================================================
