--------------------------- MODULE ValidatorProofs ---------------------------
(***************************************************************************)
(* Proofs about Validator, for every value of its constants.  Every step   *)
(* of the process is one of the Router's, or leaves the Router alone, so   *)
(* that what is proved of the Router, its promise included, holds in every *)
(* life.                                                                   *)
(***************************************************************************)
EXTENDS Validator, RouterRefinementProofs

\* Every step of the process is a step of the Router or leaves it alone.
LEMMA RouterStep == [ProcessNext]_processVars => [Next]_vars
<1>1. Load => Next
  BY DEF Load, Next, Environment
<1>2. BeginPass \/ JobStep => Next
  BY DEF BeginPass, JobStep, OnWork, Next
<1>3. Handle \/ World => Next
  BY DEF Handle, Handlers, World, Environment, Next
<1>4. LifeStep \/ Closed \/ Kill \/ Restart \/ PassEnds \/ UNCHANGED processVars
        => UNCHANGED vars
  BY DEF LifeStep, Closed, Kill, Restart, PassEnds, processVars
<1> QED
  BY <1>1, <1>2, <1>3, <1>4 DEF ProcessNext

-----------------------------------------------------------------------------
(* The invariant.                                                          *)

\* What the Worker and stop() know of the pass: in every life there is at most
\* one, none before the server listens or after the Worker has stopped, and a
\* server is closed by a stop() that has seen the Worker stopped or gave up.
LifeOfPass ==
  /\ is_working \in BOOLEAN /\ task \in BOOLEAN
  /\ passes = IF is_working THEN 1 ELSE 0
  /\ process = "loading" => ~is_working /\ ~task
  /\ Running /\ server \in {"none", "binding"} => ~is_working /\ ~task
  /\ state = "STOPPED" => ~is_working
  /\ DOMAIN stops = Signals
  /\ server = "closing" => state = "STOPPED" \/ GaveUp

\* The job is between two awaits only during a pass of this life.
JobInPass == Running /\ work.pc # "idle" => is_working

\* The SMS is sent and its code is not stored yet.
InFlight(id) ==
  Running /\ work.pc = "updateSendCode" /\ work.job.requestId = id

\* A request has been sent one code more than passes have been cut short only
\* if that code is known: it is in the row, or was, or is about to be stored.
CodesCounted ==
  /\ kills \in Nat
  /\ texts \in [RequestIds -> Nat]
  /\ \A id \in RequestIds :
       texts[id] <= IF Texted(id) \/ InFlight(id) THEN 1 + kills ELSE kills

ProcessInv == TypeOK /\ IndInv /\ LifeOfPass /\ JobInPass /\ CodesCounted

LEMMA InitialProcess == ProcessInit => ProcessInv
<1> SUFFICES ASSUME ProcessInit PROVE ProcessInv
  OBVIOUS
<1>1. TypeOK /\ IndInv
  BY InitialType, InitialInv DEF ProcessInit
<1>2. LifeOfPass
  BY DEF ProcessInit, Life!Init, Life!WorkerInit, LifeOfPass
<1>3. JobInPass
  BY DEF ProcessInit, Life!Init, Running, JobInPass
<1>4. CodesCounted
  BY DEF ProcessInit, CodesCounted
<1> QED
  BY <1>1, <1>2, <1>3, <1>4 DEF ProcessInv

\* A call of stop() that has given up is told from every other call.
LEMMA StopCalls ==
  /\ Life!Closing(FALSE) # Life!NotMade
  /\ Life!Closing(FALSE).pc = "close"
BY DEF Life!Closing, Life!NotMade

\* A look of waitForStop() at the state the Worker is left in.
LEMMA LookKeeps ==
  ASSUME LifeOfPass, Running, NEW s \in Signals, NEW waited,
         stops[s] # Life!Closing(FALSE),
         state = "STOPPED" => state' = "STOPPED",
         state' = "STOPPED" => ~is_working,
         UNCHANGED <<is_working, passes>>,
         Life!Look(s, state', waited)
  PROVE  LifeOfPass' /\ (is_working => Running')
<1>1. \/ /\ stops' = [stops EXCEPT ![s] = Life!Waiting(waited)]
         /\ UNCHANGED <<server, process>>
      \/ /\ stops' = [stops EXCEPT ![s] = Life!Closing(state' = "STOPPED")]
         /\ \/ process' = "exit(1)" /\ UNCHANGED server
            \/ server' = "closing" /\ UNCHANGED process
  BY DEF Life!Look
<1>2. DOMAIN stops' = Signals
  BY <1>1 DEF LifeOfPass
<1>3. GaveUp => GaveUp'
  BY <1>1 DEF GaveUp, LifeOfPass
<1>4. stops'[s] = Life!Closing(state' = "STOPPED") => state' = "STOPPED" \/ GaveUp'
  <2>1. SUFFICES ASSUME stops'[s] = Life!Closing(state' = "STOPPED"), state' # "STOPPED"
                 PROVE  GaveUp'
    OBVIOUS
  <2>2. (state' = "STOPPED") = FALSE
    BY <2>1
  <2>3. stops'[s] = Life!Closing(FALSE)
    BY <2>1, <2>2
  <2> QED
    BY <2>3 DEF GaveUp, Life!Closing
<1>5. server' = "closing" => state' = "STOPPED" \/ GaveUp'
  BY <1>1, <1>3, <1>4 DEF LifeOfPass
<1>6. /\ process' # "loading"
      /\ task' \in BOOLEAN
      /\ Running' /\ server' \in {"none", "binding"} => ~is_working /\ ~task'
  BY <1>1 DEF LifeOfPass, Running, Life!Look
<1>7. is_working => Running'
  BY <1>1 DEF LifeOfPass, Running, Life!Look
<1> QED
  BY <1>2, <1>5, <1>6, <1>7 DEF LifeOfPass

\* Listening, connections, signals and waiting do not end a pass in flight.
LEMMA LifeStepKeeps ==
  ASSUME LifeOfPass, LifeStep
  PROVE  /\ LifeOfPass'
         /\ Running' => Running
         /\ Running /\ is_working => Running' /\ is_working'
<1> USE DEF Life!worker
<1>1. CASE Life!Fail \/ Life!EarlySIGINT
  BY <1>1 DEF Life!Fail, Life!EarlySIGINT, Life!Alive, LifeOfPass, Running, GaveUp, Life!Closing
<1>2. CASE Life!Listening
  BY <1>2 DEF Life!Listening, Life!start, LifeOfPass, Running, GaveUp, Life!Closing
<1>3. CASE Life!Connect \/ Life!Disconnect
  BY <1>3 DEF Life!Connect, Life!Disconnect, LifeOfPass, Running, GaveUp, Life!Closing
<1>4. ASSUME NEW s \in Signals, Life!SIGINT(s)
      PROVE  LifeOfPass' /\ Running /\ (is_working => Running' /\ is_working')
  <2>1. /\ Running /\ Life!Look(s, state', 0) /\ UNCHANGED <<is_working, passes>>
        /\ stops[s] # Life!Closing(FALSE)
    BY <1>4, StopCalls DEF Life!SIGINT, Running
  <2>2. (state = "STOPPED" => state' = "STOPPED") /\ (state' = "STOPPED" => ~is_working)
    BY <1>4 DEF Life!SIGINT, Life!StopState, LifeOfPass
  <2>3. LifeOfPass' /\ (is_working => Running')
    BY <2>1, <2>2, LookKeeps
  <2> QED
    BY <2>1, <2>3
<1>5. ASSUME NEW s \in Signals, Life!Poll(s)
      PROVE  LifeOfPass' /\ Running /\ (is_working => Running' /\ is_working')
  <2>1. /\ Running /\ Life!Look(s, state', stops[s].waited)
        /\ UNCHANGED <<state, is_working, passes>>
        /\ stops[s] # Life!Closing(FALSE)
    BY <1>5, StopCalls DEF Life!Poll, Running
  <2>2. state' = "STOPPED" => ~is_working
    BY <2>1 DEF LifeOfPass
  <2>3. LifeOfPass' /\ (is_working => Running')
    BY <2>1, <2>2, LookKeeps
  <2> QED
    BY <2>1, <2>3
<1>6. CASE Life!Second
  <2>1. /\ Running /\ UNCHANGED <<state, task, is_working, passes, process, server>>
        /\ DOMAIN stops' = Signals
    BY <1>6 DEF Life!Second, Running
  <2>2. \A s \in Signals : stops[s] = Life!Closing(FALSE) => stops'[s] = stops[s]
    BY <1>6, StopCalls DEF Life!Second
  <2>3. GaveUp => GaveUp'
    BY <2>2 DEF GaveUp, Life!Closing
  <2> QED
    BY <2>1, <2>3 DEF LifeOfPass, Running
<1> QED
  BY <1>1, <1>2, <1>3, <1>4, <1>5, <1>6 DEF LifeStep

LEMMA LifeKept == LifeOfPass /\ [ProcessNext]_processVars => LifeOfPass'
<1> SUFFICES ASSUME LifeOfPass, [ProcessNext]_processVars PROVE LifeOfPass'
  OBVIOUS
<1> USE DEF Life!worker
<1>1. CASE Load
  BY <1>1 DEF Load, Life!Load, LifeOfPass, Running, GaveUp, Life!Closing
<1>2. CASE Closed \/ Kill
  BY <1>2 DEF Closed, Life!Closed, Kill, LifeOfPass, Running, GaveUp, Life!Closing
<1>3. CASE Restart
  BY <1>3 DEF Restart, LifeOfPass, Running
<1>4. CASE BeginPass
  BY <1>4 DEF BeginPass, Life!CronTick, Life!WorkTaskBegins, LifeOfPass, Running, GaveUp, Life!Closing
<1>5. CASE PassEnds
  <2>1. /\ passes > 0 /\ passes' = passes - 1 /\ is_working' = FALSE
        /\ state' = IF state = "STOPPING" THEN "STOPPED" ELSE state
        /\ UNCHANGED <<task, process, server, stops>>
    BY <1>5 DEF PassEnds, Life!PassEnds, Life!WorkTaskEnds
  <2>2. passes' = 0
    BY <2>1 DEF LifeOfPass
  <2> QED
    BY <2>1, <2>2 DEF LifeOfPass, Running, GaveUp, Life!Closing
<1>6. CASE JobStep \/ Handle \/ World \/ UNCHANGED processVars
  <2>1. UNCHANGED life
    BY <1>6 DEF JobStep, Handle, World, processVars
  <2> QED
    BY <2>1 DEF life, LifeOfPass, Running, GaveUp, Life!Closing
<1> QED
  BY <1>1, <1>2, <1>3, <1>4, <1>5, <1>6, LifeStepKeeps DEF ProcessNext

\* Handlers and the world leave the job and the process where they are.
LEMMA OthersFrame == Handle \/ World => UNCHANGED <<work, life, texts, kills>>
<1>1. Handlers => UNCHANGED work
  BY DEF Handlers, PostRequest, PostBroadcast, TimerFires, PostSubmit, PostBroadcastSubmit,
         BeginSubmit, ProcessSubmit, RefuseSubmit, ReadValidation, CheckInTime, CheckTooLate,
         AcceptCode, WriteExpired
<1>2. World => UNCHANGED work
  BY DEF World, Mine, Drop, OtherAdd, OtherVote, OtherCount,
         ByOthers, Tick
<1> QED
  BY <1>1, <1>2 DEF Handle, Handlers, World

LEMMA JobKept == LifeOfPass /\ JobInPass /\ [ProcessNext]_processVars => JobInPass'
<1> SUFFICES ASSUME LifeOfPass, JobInPass, [ProcessNext]_processVars, Running', work'.pc # "idle"
             PROVE  is_working'
  BY DEF JobInPass
<1>1. ~Load
  BY DEF Load, Crash, Idle
<1>2. ~(Closed \/ Kill \/ Restart)
  BY DEF Closed, Life!Closed, Kill, Restart, Running
<1>3. CASE LifeStep
  <2>1. UNCHANGED work
    BY <1>3 DEF LifeStep, vars
  <2> QED
    BY <1>3, <2>1, LifeStepKeeps DEF JobInPass
<1>4. CASE BeginPass
  BY <1>4 DEF BeginPass, Life!CronTick, Life!WorkTaskBegins
<1>5. CASE JobStep
  BY <1>5 DEF JobStep, life, JobInPass
<1>6. ~PassEnds
  BY DEF PassEnds, vars
<1>7. CASE Handle \/ World \/ UNCHANGED processVars
  <2>1. UNCHANGED <<work, life>>
    BY <1>7, OthersFrame DEF processVars, vars
  <2> QED
    BY <2>1 DEF life, JobInPass, Running
<1> QED
  BY <1>1, <1>2, <1>3, <1>4, <1>5, <1>6, <1>7 DEF ProcessNext

-----------------------------------------------------------------------------
(* The codes that are sent.                                                *)

\* A step that sends no SMS forgets no code, unless it ends a pass, which
\* then counts.
LEMMA Remembered ==
  ASSUME ProcessInv, [ProcessNext]_processVars, UNCHANGED texts, kills' \in Nat, kills <= kills',
         \A id \in RequestIds : InFlight(id) => \/ InFlight(id)'
                                              \/ Texted(id)'
                                              \/ kills' = kills + 1
  PROVE  CodesCounted'
<1> SUFFICES ASSUME NEW id \in RequestIds
             PROVE  texts[id] <= IF Texted(id)' \/ InFlight(id)' THEN 1 + kills' ELSE kills'
  BY DEF ProcessInv, CodesCounted
<1>1. Texted(id) => Texted(id)'
  BY RouterStep, KnowledgeLasts DEF ProcessInv
<1>2. texts[id] \in Nat /\ kills \in Nat
  BY DEF ProcessInv, CodesCounted
<1>3. texts[id] <= IF Texted(id) \/ InFlight(id) THEN 1 + kills ELSE kills
  BY DEF ProcessInv, CodesCounted
<1> QED
  BY <1>1, <1>2, <1>3

\* The continuations of the job: a code is drawn for a row that has none, and
\* stored in the row before anything else happens to it.
LEMMA JobStepCounts ==
  ASSUME ProcessInv, JobStep
  PROVE  CodesCounted'
<1>1. /\ Running /\ Running' /\ UNCHANGED kills /\ OnWork
      /\ texts' = IF work'.pc = "updateSendCode" /\ work.pc = "sendPhone"
                  THEN [texts EXCEPT ![work.job.requestId] = @ + 1] ELSE texts
  BY DEF JobStep, life, Running
<1>2. [ProcessNext]_processVars /\ kills \in Nat
  BY DEF ProcessNext, ProcessInv, CodesCounted
<1>3. CASE SendPhone
  <2>1. work.pc = "sendPhone" /\ work.job.data.validationStatus = "NONE"
    BY <1>3 DEF SendPhone
  <2>2. work.job \in Jobs /\ Current(work.job)
    BY <2>1 DEF ProcessInv, TypeOK, IndInv, SnapshotInv, JobPC, PhonePC
  <2>3. PICK sent \in RequestIds : sent = work.job.requestId
    BY <2>2 DEF Jobs
  <2>4. validation[sent] # Absent /\ validation[sent].sendCode = NoCode
    BY <2>1, <2>2, <2>3 DEF Current
  <2>5. /\ work'.pc = "updateSendCode" /\ work'.job.requestId = sent
        /\ UNCHANGED <<validation, spent>>
    <3>1. PICK code \in getCode :
            work' = [work EXCEPT !.pc = "updateSendCode",
                                 !.job.data.validationStatus = "SENT",
                                 !.job.data.sendCode = code,
                                 !.job.data.expire = clock + CodeLifetime]
      BY <1>3 DEF SendPhone
    <3>2. work \in Works /\ work.job \in Jobs
      BY <2>2 DEF ProcessInv, TypeOK
    <3> QED
      BY <1>3, <2>3, <3>1, <3>2 DEF SendPhone, Works, Jobs
  <2>6. texts' = [texts EXCEPT ![sent] = @ + 1] /\ texts' \in [RequestIds -> Nat]
    BY <1>1, <2>1, <2>3, <2>5 DEF ProcessInv, CodesCounted
  <2>7. ASSUME NEW id \in RequestIds
        PROVE  texts'[id] <= IF Texted(id)' \/ InFlight(id)' THEN 1 + kills' ELSE kills'
    <3>1. ~InFlight(id) /\ (Texted(id)' <=> Texted(id))
      BY <2>1, <2>5 DEF InFlight, Texted
    <3>2. /\ texts[id] \in Nat /\ kills' = kills
          /\ texts[id] <= IF Texted(id) THEN 1 + kills ELSE kills
      BY <1>1, <3>1 DEF ProcessInv, CodesCounted
    <3>3. CASE id = sent
      <4>1. ~Texted(id) /\ InFlight(id)'
        BY <1>1, <2>4, <2>5, <3>3 DEF Texted, InFlight
      <4>2. texts'[id] = texts[id] + 1
        BY <2>6, <3>3 DEF ProcessInv, CodesCounted
      <4> QED
        BY <1>2, <3>2, <4>1, <4>2
    <3>4. CASE id # sent
      <4>1. texts'[id] = texts[id]
        BY <2>6, <3>4 DEF ProcessInv, CodesCounted
      <4> QED
        BY <1>2, <3>1, <3>2, <4>1
    <3> QED
      BY <3>3, <3>4
  <2> QED
    BY <1>1, <1>2, <2>6, <2>7 DEF CodesCounted
<1>4. CASE WriteSendCode
  <2>1. work.pc = "updateSendCode" /\ UNCHANGED texts
    BY <1>1, <1>4 DEF WriteSendCode
  <2>2. work.job \in Jobs /\ work.job.data.sendCode # NoCode
        /\ validation[work.job.requestId] # Absent
    BY <2>1 DEF ProcessInv, TypeOK, IndInv, SnapshotInv, JobPC, PhonePC
  <2>3. ASSUME NEW id \in RequestIds, InFlight(id) PROVE Texted(id)'
    BY <1>4, <2>2, <2>3, UpdateCode
    DEF WriteSendCode, InFlight, ProcessInv, TypeOK, Texted, Jobs
  <2>4. kills' \in Nat /\ kills <= kills'
    BY <1>1, <1>2
  <2> QED
    BY <1>2, <2>1, <2>3, <2>4, Remembered
<1>5. CASE ~SendPhone /\ ~WriteSendCode
  <2>1. work.pc # "updateSendCode"
    BY <1>1, <1>5
    DEF OnWork, WaitForStartup, BeginWork, Initialize, SelectJobs, TakeJob, AddRequest,
        SkipSendPhone, MarkSent, VoteAgreement, MarkVoted, CanCountVote, CountVote, Confirm,
        Finish, EndPass, BeginPeriod, Refresh, RemoveExpired, AbortWork
  <2>2. work.pc = "sendPhone" => work'.pc # "updateSendCode"
    <3>1. work.pc = "sendPhone" => SkipSendPhone
      BY <1>1, <1>5
      DEF OnWork, WaitForStartup, BeginWork, Initialize, SelectJobs, TakeJob, AddRequest,
          MarkSent, VoteAgreement, MarkVoted, CanCountVote, CountVote, Confirm,
          Finish, EndPass, BeginPeriod, Refresh, RemoveExpired, AbortWork
    <3> QED
      BY <3>1 DEF SkipSendPhone, ProcessInv, TypeOK, Works
  <2> QED
    BY <1>1, <1>2, <2>1, <2>2, Remembered DEF InFlight
<1> QED
  BY <1>3, <1>4, <1>5

\* Any other step: the SMS of a pass that goes on is still to be stored, and a
\* pass that does not go on is counted.
LEMMA CodesKept == ProcessInv /\ [ProcessNext]_processVars => CodesCounted'
<1> SUFFICES ASSUME ProcessInv, [ProcessNext]_processVars PROVE CodesCounted'
  OBVIOUS
<1>1. LifeOfPass /\ JobInPass /\ kills \in Nat
  BY DEF ProcessInv, CodesCounted
<1>2. \A id : InFlight(id) => Running /\ is_working /\ passes > 0
  BY <1>1 DEF InFlight, JobInPass, LifeOfPass
<1>3. CASE Load \/ Restart
  <2>1. ~Running /\ UNCHANGED <<texts, kills>>
    BY <1>3 DEF Load, Life!Load, Restart, Life!Alive, Running
  <2> QED
    BY <1>1, <2>1, Remembered DEF InFlight
<1>4. CASE LifeStep
  <2>1. UNCHANGED <<texts, kills, work>>
    BY <1>4 DEF LifeStep, vars
  <2>2. \A id : InFlight(id) => InFlight(id)'
    BY <1>1, <1>2, <1>4, <2>1, LifeStepKeeps DEF InFlight
  <2> QED
    BY <1>1, <2>1, <2>2, Remembered
<1>5. CASE Closed
  <2>1. UNCHANGED texts /\ server = "closing"
    BY <1>5 DEF Closed, Life!Closed
  <2>2. \A id : InFlight(id) => kills' = kills + 1
    BY <1>1, <1>2, <1>5, <2>1 DEF Closed, LifeOfPass
  <2>3. kills' \in Nat /\ kills <= kills'
    BY <1>1, <1>5 DEF Closed
  <2> QED
    BY <2>1, <2>2, <2>3, Remembered
<1>6. CASE Kill
  <2>1. UNCHANGED texts /\ kills' = IF passes > 0 THEN kills + 1 ELSE kills
    BY <1>6 DEF Kill
  <2> QED
    BY <1>1, <1>2, <2>1, Remembered
<1>7. CASE BeginPass \/ PassEnds
  <2>1. work.pc = "idle" /\ UNCHANGED <<texts, kills>>
    BY <1>7
    DEF BeginPass, PassEnds, BeginWork, WaitForStartup
  <2> QED
    BY <1>1, <2>1, Remembered DEF InFlight
<1>8. CASE Handle \/ World \/ UNCHANGED processVars
  <2>1. UNCHANGED <<work, life, texts, kills>>
    BY <1>8, OthersFrame DEF processVars, vars
  <2>2. \A id : InFlight(id) => InFlight(id)'
    BY <2>1 DEF InFlight, life, Running
  <2> QED
    BY <1>1, <2>1, <2>2, Remembered
<1> QED
  BY <1>3, <1>4, <1>5, <1>6, <1>7, <1>8, JobStepCounts DEF ProcessNext

LEMMA NextProcess == ProcessInv /\ [ProcessNext]_processVars => ProcessInv'
<1> SUFFICES ASSUME ProcessInv, [ProcessNext]_processVars PROVE ProcessInv'
  OBVIOUS
<1>1. [Next]_vars
  BY RouterStep
<1>2. TypeOK' /\ IndInv'
  BY <1>1, NextType, NextInv DEF ProcessInv
<1>3. LifeOfPass' /\ JobInPass' /\ CodesCounted'
  BY LifeKept, JobKept, CodesKept DEF ProcessInv
<1> QED
  BY <1>2, <1>3 DEF ProcessInv

-----------------------------------------------------------------------------
(* The theorems.                                                           *)

\* In every life the invariants of the Router hold, and its job, the Worker
\* and the codes that have been sent agree.
THEOREM ProcessInvariance == ProcessSpec => []ProcessInv
BY InitialProcess, NextProcess, PTL DEF ProcessSpec

\* Whatever signals, kills and restarts come, the pass of the job that is
\* between two awaits is the only pass the Worker has in flight.
THEOREM JobIsThePass == ProcessSpec => []JobIsPass
<1>1. ProcessInv => JobIsPass
  BY DEF ProcessInv, LifeOfPass, JobInPass, JobIsPass
<1> QED
  BY <1>1, ProcessInvariance, PTL

\* No request is sent more codes than one and the passes that were cut short.
THEOREM SecondCodesNeedKills == ProcessSpec => []SecondCodeNeedsKill
<1>1. ProcessInv => SecondCodeNeedsKill
  <2> SUFFICES ASSUME ProcessInv, NEW id \in RequestIds PROVE texts[id] <= 1 + kills
    BY DEF SecondCodeNeedsKill
  <2>1. /\ kills \in Nat /\ texts[id] \in Nat
        /\ texts[id] <= IF Texted(id) \/ InFlight(id) THEN 1 + kills ELSE kills
    BY DEF ProcessInv, CodesCounted
  <2> QED
    BY <2>1
<1> QED
  BY <1>1, ProcessInvariance, PTL

\* The process keeps the promise of its Router: neither a stop() nor a kill nor
\* what the next life begins with takes back a code that was sent, votes
\* without one, or forgets a request that can still be answered.
THEOREM ProcessKeepsPromise == ProcessSpec => KeepsPromise
<1>1. ProcessInit => Promise!Init
  BY InitKeepsPromise DEF ProcessInit
<1>2. ProcessInv /\ [ProcessNext]_processVars => [Promise!Next]_(Promise!request)
  BY RouterStep, StepKeepsPromise DEF ProcessInv, Kept, mapped, Promise!request
<1> QED
  BY <1>1, <1>2, ProcessInvariance, PTL DEF ProcessSpec, KeepsPromise, Promise!Spec

=============================================================================
