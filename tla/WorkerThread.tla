------------------------------ MODULE WorkerThread ------------------------------
(***************************************************************************)
(* WorkerThread: one thread, a queue of (function, promise) pairs under a  *)
(* mutex, and a condition variable monitor_.  There is one WorkerThread    *)
(* per index; a function is named by the caller that added it.             *)
(*                                                                         *)
(* What a thread does under the mutex is one step.  Waiting for monitor_   *)
(* is the state "asleep" of the thread; only a notify, or a spurious       *)
(* wakeup, takes it out of there.                                          *)
(***************************************************************************)
EXTENDS Naturals, Sequences, FiniteSets

CONSTANTS Callers, Indices, NoCaller

ASSUME NoCallerAssumption == NoCaller \notin Callers

VARIABLES
    queue,     \* queue_ of each worker
    wantStop,  \* wantStop_
    thread,    \* where the worker's thread is
    running,   \* the function it runs
    future     \* the future of each caller's function on each index

wvars == <<queue, wantStop, thread, running, future>>

WInit ==
    /\ queue = [i \in Indices |-> <<>>]
    /\ wantStop = [i \in Indices |-> FALSE]
    /\ thread = [i \in Indices |-> "loop"]
    /\ running = [i \in Indices |-> NoCaller]
    /\ future = [c \in Callers |-> [i \in Indices |-> "none"]]

(* monitor_.notify_one(): at most the worker's own thread waits *)
notify_one(i) ==
    thread' = [thread EXCEPT ![i] = IF @ = "asleep" THEN "loop" ELSE @]

(* Mutation of Refuses: add queues the function of a stopped worker too. *)
RefusesNever(i) == FALSE

Refuses(i) == wantStop[i]

(* Mutation of WakeUp: nobody is notified of a new function. *)
WakeUpForgotten(i) == UNCHANGED thread

WakeUp(i) == notify_one(i)

(* Mutation of WakeUpToStop: nobody is notified of the stop. *)
WakeUpToStopForgotten(i) == UNCHANGED thread

WakeUpToStop(i) == notify_one(i)

add(c, i) ==
    /\ IF Refuses(i)
       THEN /\ future' = [future EXCEPT ![c][i] = "false"]
            /\ UNCHANGED <<queue, thread>>
       ELSE /\ future' = [future EXCEPT ![c][i] = "pending"]
            /\ queue' = [queue EXCEPT ![i] = Append(@, c)]
            /\ WakeUp(i)
    /\ UNCHANGED <<wantStop, running>>

stop(i) ==
    /\ wantStop' = [wantStop EXCEPT ![i] = TRUE]
    /\ WakeUpToStop(i)
    /\ UNCHANGED <<queue, running, future>>

(* Mutation of Popped: the function stays at the front of the queue. *)
PoppedNot(q) == q

Popped(q) == Tail(q)

(* threadLoop, up to the next function, the next wait or its return *)
threadLoop(i) ==
    /\ thread[i] = "loop"
    /\ \/ /\ wantStop[i]
          /\ thread' = [thread EXCEPT ![i] = "flush"]
          /\ UNCHANGED <<queue, running>>
       \/ /\ ~wantStop[i] /\ queue[i] = <<>>
          /\ thread' = [thread EXCEPT ![i] = "asleep"]
          /\ UNCHANGED <<queue, running>>
       \/ /\ ~wantStop[i] /\ queue[i] # <<>>
          /\ thread' = [thread EXCEPT ![i] = "run"]
          /\ running' = [running EXCEPT ![i] = Head(queue[i])]
          /\ queue' = [queue EXCEPT ![i] = Popped(@)]
    /\ UNCHANGED <<wantStop, future>>

spurious_wakeup(i) ==
    /\ thread[i] = "asleep"
    /\ thread' = [thread EXCEPT ![i] = "loop"]
    /\ UNCHANGED <<queue, wantStop, running, future>>

(* runCallback: the function returns, or its exception goes to the promise *)
runCallback(c, i) ==
    \E end \in {"true", "exception"} : future' = [future EXCEPT ![c][i] = end]

run_front(i) ==
    /\ thread[i] = "run"
    /\ runCallback(running[i], i)
    /\ thread' = [thread EXCEPT ![i] = "loop"]
    /\ running' = [running EXCEPT ![i] = NoCaller]
    /\ UNCHANGED <<queue, wantStop>>

(* threadMain after the loop: what is still queued runs, without the mutex; *)
(* entries are taken off here where the code walks over them               *)
flush(i) ==
    /\ thread[i] = "flush"
    /\ queue[i] # <<>>
    /\ runCallback(Head(queue[i]), i)
    /\ queue' = [queue EXCEPT ![i] = Tail(@)]
    /\ UNCHANGED <<wantStop, thread, running>>

Flushed(i) == queue[i] = <<>>

exit(i) ==
    /\ thread[i] = "flush"
    /\ Flushed(i)
    /\ thread' = [thread EXCEPT ![i] = "exited"]
    /\ UNCHANGED <<queue, wantStop, running, future>>

Worker(i) == threadLoop(i) \/ run_front(i) \/ flush(i) \/ exit(i)
================================================================================
