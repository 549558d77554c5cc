------------------------------ MODULE ThreadedIndex ------------------------------
(***************************************************************************)
(* ThreadedIndex: a collection of indices, each with a WorkerThread of its *)
(* own when isThreaded_.  Callers run functions on all indices (searches   *)
(* of several threads, for instance); the owner of the collection removes  *)
(* indices.                                                                *)
(*                                                                         *)
(* The header says that the interface is not thread safe.  The model       *)
(* respects that where indices_ itself changes (an index is erased while   *)
(* nobody runs a call) but lets the owner stop workers at any time, so     *)
(* that everything a WorkerThread answers to a stopped client is reached.  *)
(***************************************************************************)
EXTENDS WorkerThread

CONSTANT MaxCalls   \* calls that all callers make together

VARIABLES
    isThreaded,
    indices,   \* the numbers in indices_
    caller,    \* where each caller is in runOnIndex
    left,      \* the indices its loop has still to visit
    plan,      \* all indices of its call
    threw,     \* has it met an exception?
    calls,     \* calls begun so far
    owner      \* removeIndex of each index: not begun, waiting, done

vars == <<wvars, isThreaded, indices, caller, left, plan, threw, calls, owner>>

local == <<left, plan, threw, calls>>

Init ==
    /\ WInit
    /\ isThreaded \in BOOLEAN
    /\ indices = Indices
    /\ caller = [c \in Callers |-> "idle"]
    /\ left = [c \in Callers |-> {}]
    /\ plan = [c \in Callers |-> {}]
    /\ threw = [c \in Callers |-> FALSE]
    /\ calls = 0
    /\ owner = [i \in Indices |-> "keeps"]

(* runOnIndex begins: a loop over indices_ in their order *)
runOnIndex(c) ==
    /\ caller[c] \notin {"add", "wait", "inline"}
    /\ calls < MaxCalls
    /\ calls' = calls + 1
    /\ caller' = [caller EXCEPT ![c] = IF isThreaded THEN "add" ELSE "inline"]
    /\ left' = [left EXCEPT ![c] = indices]
    /\ plan' = [plan EXCEPT ![c] = indices]
    /\ threw' = [threw EXCEPT ![c] = FALSE]
    /\ future' = [future EXCEPT ![c] = [i \in Indices |-> "none"]]
    /\ UNCHANGED <<queue, wantStop, thread, running, isThreaded, indices, owner>>

Visit(c, i) ==
    /\ i \in left[c]
    /\ \A j \in left[c] : i <= j
    /\ left' = [left EXCEPT ![c] = @ \ {i}]

add_function(c) ==
    /\ caller[c] = "add"
    /\ \E i \in Indices : Visit(c, i) /\ add(c, i)
    /\ UNCHANGED <<isThreaded, indices, caller, plan, threw, calls, owner>>

(* Mutation of ToCollect: removed indices are waited for too. *)
ToCollectAll(c) == Indices

ToCollect(c) == plan[c]

(* the futures are collected from the first again *)
waitAndHandleFutures(c) ==
    /\ caller[c] = "add"
    /\ left[c] = {}
    /\ caller' = [caller EXCEPT ![c] = "wait"]
    /\ left' = [left EXCEPT ![c] = ToCollect(c)]
    /\ UNCHANGED <<wvars, isThreaded, indices, plan, threw, calls, owner>>

(* Mutation of Ready: get does not wait for the function. *)
ReadyAtOnce(c, i) == TRUE

Ready(c, i) == future[c][i] # "pending"

(* fut.get() blocks until the promise is set; an exception is kept and the *)
(* loop goes on                                                            *)
get(c) ==
    /\ caller[c] = "wait"
    /\ \E i \in Indices :
          /\ Visit(c, i)
          /\ Ready(c, i)
          /\ threw' = [threw EXCEPT ![c] = @ \/ future[c][i] = "exception"]
    /\ UNCHANGED <<wvars, isThreaded, indices, caller, plan, calls, owner>>

(* without worker threads the caller runs the functions itself *)
run_inline(c) ==
    /\ caller[c] = "inline"
    /\ \E i \in Indices :
          /\ Visit(c, i)
          /\ runCallback(c, i)
          /\ threw' = [threw EXCEPT ![c] = @ \/ future'[c][i] = "exception"]
    /\ UNCHANGED <<queue, wantStop, thread, running, isThreaded, indices, caller,
                   plan, calls, owner>>

handleExceptions(c) ==
    /\ caller[c] \in {"wait", "inline"}
    /\ left[c] = {}
    /\ caller' = [caller EXCEPT ![c] = IF threw[c] THEN "thrown" ELSE "returned"]
    /\ UNCHANGED <<wvars, isThreaded, indices, local, owner>>

(* removeIndex, and the destructor for each index: stop, wait, erase *)
stop_worker(i) ==
    /\ isThreaded
    /\ owner[i] = "keeps"
    /\ stop(i)
    /\ owner' = [owner EXCEPT ![i] = "waits"]
    /\ UNCHANGED <<isThreaded, indices, caller, local>>

Quiet == \A c \in Callers : caller[c] \notin {"add", "wait", "inline"}

erase(i) ==
    /\ IF isThreaded THEN owner[i] = "waits" /\ thread[i] = "exited"
                     ELSE owner[i] = "keeps"
    /\ Quiet
    /\ owner' = [owner EXCEPT ![i] = "removed"]
    /\ indices' = indices \ {i}
    /\ UNCHANGED <<wvars, isThreaded, caller, local>>

Call(c) ==
    \/ add_function(c)
    \/ waitAndHandleFutures(c)
    \/ get(c)
    \/ run_inline(c)
    \/ handleExceptions(c)

WorkerStep(i) ==
    /\ isThreaded
    /\ Worker(i)
    /\ UNCHANGED <<isThreaded, indices, caller, local, owner>>

SpuriousWakeup(i) ==
    /\ isThreaded
    /\ spurious_wakeup(i)
    /\ UNCHANGED <<isThreaded, indices, caller, local, owner>>

Next ==
    \/ \E c \in Callers : runOnIndex(c) \/ Call(c)
    \/ \E i \in Indices : WorkerStep(i) \/ SpuriousWakeup(i) \/ stop_worker(i) \/ erase(i)

Spec == Init /\ [][Next]_vars

(* every thread that can run does; nobody has to begin a call or a removal *)
FairSpec ==
    /\ Spec
    /\ \A c \in Callers : WF_vars(Call(c))
    /\ \A i \in Indices : WF_vars(WorkerStep(i))

-----------------------------------------------------------------------------
(* Properties. *)

(* Queues hold callers, futures one of the states of a std::future<bool>,   *)
(* and a worker runs a function exactly between taking and setting it.      *)
TypeOK ==
    /\ queue \in [Indices -> Seq(Callers)]
    /\ wantStop \in [Indices -> BOOLEAN]
    /\ thread \in [Indices -> {"loop", "asleep", "run", "flush", "exited"}]
    /\ future \in [Callers -> [Indices -> {"none", "pending", "true", "false", "exception"}]]
    /\ \A i \in Indices : IF thread[i] = "run" THEN running[i] \in Callers
                                               ELSE running[i] = NoCaller
    /\ caller \in [Callers -> {"idle", "add", "wait", "inline", "returned", "thrown"}]
    /\ \A c \in Callers : left[c] \subseteq plan[c] /\ plan[c] \subseteq Indices

Occurrences(c, q) == {k \in DOMAIN q : q[k] = c}

Waiting(c, i) ==
    Cardinality(Occurrences(c, queue[i])) + (IF running[i] = c THEN 1 ELSE 0)

(* A future that is not set yet has exactly one function that will set it,   *)
(* queued or running, and no function runs for a future that is set: no task *)
(* is dropped, run twice or left behind by stop and flush (a second          *)
(* set_value would throw, a missing one blocks get for ever).                *)
OneFunctionPerFuture ==
    \A c \in Callers, i \in Indices :
        Waiting(c, i) = (IF future[c][i] = "pending" THEN 1 ELSE 0)

(* threadMain walks over queue_ without the mutex: from the moment the loop  *)
(* has ended the queue is changed by nobody else.                            *)
FlushIsAlone ==
    [][\A i \in Indices :
          thread[i] \in {"flush", "exited"} /\ queue'[i] # queue[i]
             => queue[i] # <<>> /\ queue'[i] = Tail(queue[i])]_vars

AbstractOutcome(f) ==
    CASE f = "pending" -> "accepted"
      [] f = "true" -> "ran"
      [] f = "exception" -> "threw"
      [] f = "false" -> "refused"
      [] f = "none" -> "none"

AbstractStatus(s) == IF s \in {"add", "wait", "inline"} THEN "active" ELSE s

(* runOnIndex runs the function once on every index, ends after the last of  *)
(* them and throws exactly if one of them threw; a worker that was stopped   *)
(* leaves only after the functions it had accepted.                          *)
Abstract == INSTANCE FanOut WITH
    outcome  <- [c \in Callers |-> [i \in Indices |-> AbstractOutcome(future[c][i])]],
    status   <- [c \in Callers |-> AbstractStatus(caller[c])],
    stopping <- {i \in Indices : wantStop[i]},
    gone     <- Indices \ indices
ImplementsFanOut == Abstract!FSpec

(* Every call of runOnIndex ends: the notify of add is never lost, also when *)
(* it comes between the worker's test of the queue and its wait.             *)
CallsEnd == \A c \in Callers : caller[c] = "add" ~> caller[c] \in {"returned", "thrown"}

(* A worker that was asked to stop exits, whatever it was doing, so that     *)
(* removeIndex and the destructor come back from join.                       *)
StoppedWorkersExit == \A i \in Indices : wantStop[i] ~> thread[i] = "exited"
================================================================================
