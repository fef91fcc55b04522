------------------------------ MODULE Validator ------------------------------
(***************************************************************************)
(* One validator as a process: the Router and its job (module Router) in   *)
(* the life that main.ts, the ValidatorNode and its Worker give them       *)
(* (module ValidatorNode), over any number of lives.  A tick of cron       *)
(* begins a pass of onWork(), which ends for the Worker when the promise   *)
(* of onWork() settles; requests come in over the connections of the       *)
(* server; the memory of the Router is that of the process, the table and  *)
(* the chain outlive it.                                                   *)
(***************************************************************************)
EXTENDS Router

CONSTANTS Timeout, Signals, MaxConnections  \* of ValidatorNode

VARIABLES
  \* ValidatorNode
  state, task, is_working, passes, threw, process, server, connections, stops,
  \* history: codes sent for each request, and passes that a kill, or a stop()
  \* that has given up, has cut short
  texts, kills

Life == INSTANCE ValidatorNode

life        == <<state, task, is_working, passes, threw, process, server, connections, stops>>
processVars == <<vars, life, texts, kills>>

ProcessInit ==
  /\ Init
  /\ Life!Init
  /\ texts = [id \in RequestIds |-> 0]
  /\ kills = 0

-----------------------------------------------------------------------------
(* The lives of the process.                                               *)

Running == process = "running"

\* The Router is constructed: its fields are what a crash leaves of them.
Load ==
  /\ Life!Load
  /\ Crash
  /\ UNCHANGED <<texts, kills>>

\* Starting, connections, signals and the waiting for the pass in flight.
LifeStep ==
  /\ \/ Life!Fail
     \/ Life!Listening
     \/ Life!Connect
     \/ Life!Disconnect
     \/ \E s \in Signals : Life!SIGINT(s) \/ Life!Poll(s)
     \/ Life!EarlySIGINT
     \/ Life!Second
  /\ UNCHANGED <<vars, texts, kills>>

\* Some stop() has given up on the pass in flight, and told so.
GaveUp == \E s \in Signals : stops[s] = Life!Closing(FALSE)

Closed ==
  /\ Life!Closed
  /\ kills' = IF GaveUp /\ passes > 0 THEN kills + 1 ELSE kills
  /\ UNCHANGED <<vars, texts>>

\* The process is killed, or dies of an error that nothing catches.
Kill ==
  /\ Running
  /\ process' = "exit(1)"
  /\ kills' = IF passes > 0 THEN kills + 1 ELSE kills
  /\ UNCHANGED <<vars, state, task, is_working, passes, threw, server, connections, stops,
                 texts>>

\* main.ts again, from the initial state of ValidatorNode.
Restart ==
  /\ ~Life!Alive
  /\ state' = "NONE"
  /\ task' = FALSE
  /\ is_working' = FALSE
  /\ passes' = 0
  /\ threw' = FALSE
  /\ process' = "loading"
  /\ server' = "none"
  /\ connections' = 0
  /\ stops' = [s \in Signals |-> Life!NotMade]
  /\ UNCHANGED <<vars, texts, kills>>

-----------------------------------------------------------------------------
(* The passes.                                                             *)

\* A tick of cron calls onWork(), which may return at once.
BeginPass ==
  /\ Life!CronTick
  /\ BeginWork \/ WaitForStartup
  /\ UNCHANGED <<texts, kills>>

\* Each code that is drawn is sent.
JobStep ==
  /\ Running
  /\ work.pc # "idle"
  /\ OnWork
  /\ texts' = IF work'.pc = "updateSendCode" /\ work.pc = "sendPhone"
              THEN [texts EXCEPT ![work.job.requestId] = @ + 1] ELSE texts
  /\ UNCHANGED <<life, kills>>

\* Mutant: workTask() does not await onWork().
PassEndsUnawaited ==
  /\ \E thrown \in BOOLEAN : Life!PassEnds(thrown)
  /\ UNCHANGED <<vars, texts, kills>>

\* The promise of onWork() has settled.
PassEnds ==
  /\ work.pc = "idle"
  /\ \E thrown \in BOOLEAN : Life!PassEnds(thrown)
  /\ UNCHANGED <<vars, texts, kills>>

-----------------------------------------------------------------------------
(* The handlers, as long as there is a process, and the rest of the world. *)

Handle ==
  /\ Running
  /\ \/ connections > 0 /\ \E id \in RequestIds : PostRequest(id) \/ PostBroadcast(id)
     \/ /\ connections > 0
        /\ \E s \in Submits, id \in RequestIds, code \in CodeStrings :
             PostSubmit(s, id, code) \/ PostBroadcastSubmit(s, id, code)
     \/ \E s \in Submits : ProcessSubmit(s)
     \/ \E id \in RequestIds : TimerFires(id)
  /\ UNCHANGED <<life, texts, kills>>

World ==
  /\ \/ \E tx \in mempool : Mine(tx) \/ Drop(tx)
     \/ \E id \in RequestIds : OtherAdd(id) \/ OtherCount(id)
     \/ \E v \in Validators, id \in RequestIds : OtherVote(v, id)
     \/ Tick
  /\ UNCHANGED <<life, texts, kills>>

ProcessNext ==
  \/ Load \/ LifeStep \/ Closed \/ Kill \/ Restart
  \/ BeginPass \/ JobStep \/ PassEnds
  \/ Handle \/ World

ProcessSpec == ProcessInit /\ [][ProcessNext]_processVars

-----------------------------------------------------------------------------
(* Properties.                                                             *)

\* What Router takes for granted: its job is the one pass that the Worker has
\* in flight, so that no tick of cron finds another one half-way, in this life
\* or left over from the one before.
JobIsPass ==
  Running =>
    /\ passes <= 1
    /\ work.pc # "idle" => passes = 1

\* A request is sent a second code only if a pass was cut short in between, by
\* a kill or by a stop() that waited for it in vain: a stop() that says it has
\* waited never comes between the SMS and the storing of its code, which is the
\* only place where a code that was sent can be forgotten.
SecondCodeNeedsKill == \A id \in RequestIds : texts[id] <= 1 + kills

=============================================================================
