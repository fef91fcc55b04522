------------------------------- MODULE Worker -------------------------------
(***************************************************************************)
(* validator/Worker.ts: the cron task that runs onWork() once a second,    *)
(* and how it is stopped.  onWork() is one pass: it begins, and some time  *)
(* later it returns, throws, or never ends.  The operators are the methods *)
(* of the class; the module that owns the Worker calls them.               *)
(***************************************************************************)
EXTENDS Integers

CONSTANT
  Timeout   \* waitForStop() gives up after so many seconds (60000)

ASSUME WorkerAssumption == Timeout \in Nat

VARIABLES
  state,       \* this.state
  task,        \* this.task # null: the cron task is scheduled
  is_working,  \* this.is_working
  passes,      \* how many calls of onWork() are in flight
  threw        \* history: the last pass to end has thrown

worker == <<state, task, is_working, passes, threw>>

WorkerState == {"NONE", "STARTING", "RUNNING", "STOPPING", "STOPPED"}

WorkerInit ==
  /\ state = "NONE"
  /\ task = FALSE
  /\ is_working = FALSE
  /\ passes = 0
  /\ threw = FALSE

start ==
  /\ task' = TRUE
  /\ is_working' = FALSE
  /\ state' = "RUNNING"
  /\ UNCHANGED <<passes, threw>>

\* Mutant: stop() does not look for a pass in flight.
StopStateAtOnce == "STOPPED"

\* The state that stop() leaves: a pass in flight may end first.
StopState == IF is_working THEN "STOPPING" ELSE "STOPPED"

\* Mutant: a tick begins a pass though one is in flight.
WorkTaskBeginsAgain ==
  /\ task
  /\ state # "STOPPED"
  /\ is_working' = TRUE
  /\ passes' = passes + 1
  /\ threw' = FALSE
  /\ UNCHANGED <<state, task>>

\* A tick of cron begins a pass, unless one is in flight; other ticks return.
WorkTaskBegins ==
  /\ task
  /\ state # "STOPPED"
  /\ ~is_working
  /\ is_working' = TRUE
  /\ passes' = passes + 1
  /\ threw' = FALSE
  /\ UNCHANGED <<state, task>>

\* Mutant: the end of a pass does not complete stop().
WorkTaskEndsOnly(thrown) ==
  /\ passes > 0
  /\ passes' = passes - 1
  /\ threw' = thrown
  /\ is_working' = FALSE
  /\ UNCHANGED <<state, task>>

\* Mutant: an error leaves workTask() before is_working is reset.
WorkTaskEndsUncaught(thrown) ==
  /\ passes > 0
  /\ passes' = passes - 1
  /\ threw' = thrown
  /\ is_working' = thrown
  /\ state' = IF state = "STOPPING" /\ ~thrown THEN "STOPPED" ELSE state
  /\ UNCHANGED task

\* The pass is over; what it has thrown is logged.
WorkTaskEnds(thrown) ==
  /\ passes > 0
  /\ passes' = passes - 1
  /\ threw' = thrown
  /\ is_working' = FALSE
  /\ state' = IF state = "STOPPING" THEN "STOPPED" ELSE state
  /\ UNCHANGED task

\* Mutant: waitForStop() waits for the Worker however long it takes.
WaitHasStopped(workerState, waited) == workerState = "STOPPED"

\* One look of waitForStop(): it is over when the Worker has stopped, or when
\* it has waited long enough.
WaitIsOver(workerState, waited) == workerState = "STOPPED" \/ waited >= Timeout

=============================================================================
