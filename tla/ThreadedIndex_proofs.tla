-------------------------- MODULE ThreadedIndex_proofs --------------------------
(***************************************************************************)
(* Proofs about ThreadedIndex for any number of callers, indices, calls    *)
(* and queue lengths: no function is lost, run twice or left behind by a   *)
(* worker that stops, and what threadMain walks over without the mutex is  *)
(* changed by nobody else.                                                 *)
(*                                                                         *)
(* OneFunctionPerFuture relates the queues to the futures.  It is kept     *)
(* only because a caller adds one function to each index of a call and     *)
(* collects all of them before it begins another: that is InStep.          *)
(*                                                                         *)
(* The last part shows that every step is a step of FanOut, the promise of *)
(* runOnIndex, or none: for that Collects says how far each call has come. *)
(***************************************************************************)
EXTENDS ThreadedIndex, FiniteSetTheorems, FunctionTheorems, TLAPS

-----------------------------------------------------------------------------
(* How often a function is in a queue. *)

(* A queue holds a function finitely often. *)
LEMMA OccurrencesFinite ==
    ASSUME NEW q \in Seq(Callers), NEW c
    PROVE  /\ IsFiniteSet(Occurrences(c, q))
           /\ Cardinality(Occurrences(c, q)) \in Nat
<1>1. Len(q) \in Nat /\ DOMAIN q = 1 .. Len(q)
  OBVIOUS
<1>2. Occurrences(c, q) \in SUBSET (1 .. Len(q))
  BY <1>1 DEF Occurrences
<1>3. IsFiniteSet(1 .. Len(q))
  BY <1>1, FS_Interval
<1>4. IsFiniteSet(Occurrences(c, q))
  BY <1>2, <1>3, FS_Subset
<1> QED
  BY <1>4, FS_CardinalityType

(* Append adds one occurrence of what is appended. *)
LEMMA OccurrencesAppend ==
    ASSUME NEW q \in Seq(Callers), NEW d \in Callers, NEW c
    PROVE  Cardinality(Occurrences(c, Append(q, d))) =
              Cardinality(Occurrences(c, q)) + (IF c = d THEN 1 ELSE 0)
<1>1. Len(q) \in Nat /\ DOMAIN q = 1 .. Len(q)
      /\ DOMAIN Append(q, d) = 1 .. (Len(q) + 1)
      /\ Append(q, d)[Len(q) + 1] = d
      /\ \A k \in 1 .. Len(q) : Append(q, d)[k] = q[k]
  OBVIOUS
<1>2. CASE c = d
  <2>1. Occurrences(c, Append(q, d)) = Occurrences(c, q) \cup {Len(q) + 1}
    BY <1>1, <1>2 DEF Occurrences
  <2>2. Len(q) + 1 \notin Occurrences(c, q)
    BY <1>1 DEF Occurrences
  <2> QED
    BY <1>2, <2>1, <2>2, OccurrencesFinite, FS_AddElement
<1>3. CASE c # d
  <2>1. Occurrences(c, Append(q, d)) = Occurrences(c, q)
    BY <1>1, <1>3 DEF Occurrences
  <2> QED
    BY <1>3, <2>1, OccurrencesFinite
<1> QED
  BY <1>2, <1>3

(* Tail takes one occurrence of the first function away. *)
LEMMA OccurrencesTail ==
    ASSUME NEW q \in Seq(Callers), q # <<>>, NEW c
    PROVE  /\ Tail(q) \in Seq(Callers)
           /\ Head(q) \in Callers
           /\ Cardinality(Occurrences(c, Tail(q))) =
                 Cardinality(Occurrences(c, q)) - (IF c = Head(q) THEN 1 ELSE 0)
<1>1. /\ Len(q) \in Nat \ {0} /\ DOMAIN q = 1 .. Len(q)
      /\ Tail(q) \in Seq(Callers) /\ DOMAIN Tail(q) = 1 .. (Len(q) - 1)
      /\ \A k \in 1 .. (Len(q) - 1) : Tail(q)[k] = q[k + 1]
      /\ Head(q) = q[1] /\ Head(q) \in Callers
  OBVIOUS
<1> DEFINE later == Occurrences(c, q) \ {1}
           rest == Occurrences(c, Tail(q))
           shift == [k \in rest |-> k + 1]
<1>2. \A k \in rest : k \in 1 .. (Len(q) - 1) /\ q[k + 1] = c
  BY <1>1 DEF Occurrences
<1>3. shift \in [rest -> later]
  BY <1>1, <1>2 DEF Occurrences
<1>4. \A a, b \in rest : shift[a] = shift[b] => a = b
  BY <1>2
<1>5. \A t \in later : \E s \in rest : shift[s] = t
  <2>1. SUFFICES ASSUME NEW t \in later PROVE t - 1 \in rest /\ shift[t - 1] = t
    OBVIOUS
  <2>2. t \in 2 .. Len(q) /\ q[t] = c
    BY <1>1 DEF Occurrences
  <2>3. t - 1 \in 1 .. (Len(q) - 1) /\ Tail(q)[t - 1] = c
    BY <1>1, <2>2
  <2>4. t - 1 \in rest
    BY <1>1, <2>3 DEF Occurrences
  <2> QED
    BY <2>2, <2>4
<1>6. shift \in Bijection(rest, later)
  <2> HIDE DEF shift, rest, later
  <2> QED
    BY <1>3, <1>4, <1>5, Fun_IsBij
<1>7. ExistsBijection(rest, later)
  BY <1>6 DEF ExistsBijection
<1>8. IsFiniteSet(rest)
  BY <1>1, OccurrencesFinite
<1>9. Cardinality(later) = Cardinality(rest)
  <2> HIDE DEF rest, later
  <2> QED
    BY <1>7, <1>8, FS_Bijection
<1>10. 1 \in Occurrences(c, q) <=> c = Head(q)
  BY <1>1 DEF Occurrences
<1>11. Cardinality(later) =
          Cardinality(Occurrences(c, q)) - (IF c = Head(q) THEN 1 ELSE 0)
  <2>1. /\ IsFiniteSet(Occurrences(c, q))
        /\ Cardinality(Occurrences(c, q)) \in Nat
    BY OccurrencesFinite
  <2>2. Cardinality(later) = IF 1 \in Occurrences(c, q)
                             THEN Cardinality(Occurrences(c, q)) - 1
                             ELSE Cardinality(Occurrences(c, q))
    BY <2>1, FS_RemoveElement
  <2> HIDE DEF later
  <2> QED
    BY <1>10, <2>1, <2>2
<1> QED
  BY <1>1, <1>9, <1>11

-----------------------------------------------------------------------------
(* The inductive invariant. *)

Futures == {"none", "pending", "true", "false", "exception"}

Typed ==
    /\ TypeOK
    /\ running \in [Indices -> Callers \cup {NoCaller}]
    /\ isThreaded \in BOOLEAN
    /\ indices \subseteq Indices
    /\ left \in [Callers -> SUBSET Indices]
    /\ plan \in [Callers -> SUBSET Indices]

(* What a caller has not added yet is not pending, and what is pending it    *)
(* has still to collect.                                                     *)
InStep ==
    \A c \in Callers, i \in Indices :
        /\ caller[c] = "add" /\ i \in left[c] => future[c][i] # "pending"
        /\ future[c][i] = "pending" =>
              \/ caller[c] = "add" /\ i \in plan[c]
              \/ caller[c] = "wait" /\ i \in left[c]

(* The loop of a worker ends only when it was asked to stop. *)
StopComesFirst == \A i \in Indices : thread[i] \in {"flush", "exited"} => wantStop[i]

IInv == Typed /\ OneFunctionPerFuture /\ InStep /\ StopComesFirst

(* Setting one future leaves the others alone. *)
LEMMA SetOneFuture ==
    ASSUME future \in [Callers -> [Indices -> Futures]],
           NEW c \in Callers, NEW i \in Indices, NEW v \in Futures,
           future' = [future EXCEPT ![c][i] = v]
    PROVE  /\ future' \in [Callers -> [Indices -> Futures]]
           /\ \A d \in Callers, j \in Indices :
                 future'[d][j] = IF d = c /\ j = i THEN v ELSE future[d][j]
OBVIOUS

(* What is waiting for a caller is a number, and a function that is queued or *)
(* running has a future that is pending.                                      *)
LEMMA QueuedIsPending ==
    ASSUME Typed, OneFunctionPerFuture, NEW c \in Callers, NEW i \in Indices
    PROVE  /\ Cardinality(Occurrences(c, queue[i])) \in Nat
           /\ running[i] = c => /\ future[c][i] = "pending"
                                /\ Cardinality(Occurrences(c, queue[i])) = 0
           /\ queue[i] # <<>> /\ c = Head(queue[i]) =>
                 /\ future[c][i] = "pending"
                 /\ Cardinality(Occurrences(c, queue[i])) = 1
                 /\ running[i] # c
<1>1. queue[i] \in Seq(Callers)
  BY DEF Typed, TypeOK
<1>2. Cardinality(Occurrences(c, queue[i])) \in Nat
  BY <1>1, OccurrencesFinite
<1>3. Cardinality(Occurrences(c, queue[i])) + (IF running[i] = c THEN 1 ELSE 0)
         = IF future[c][i] = "pending" THEN 1 ELSE 0
  BY DEF OneFunctionPerFuture, Waiting
<1>4. running[i] = c => /\ future[c][i] = "pending"
                        /\ Cardinality(Occurrences(c, queue[i])) = 0
  BY <1>2, <1>3
<1>5. ASSUME queue[i] # <<>>, c = Head(queue[i])
      PROVE  Cardinality(Occurrences(c, queue[i])) >= 1
  <2>1. /\ Tail(queue[i]) \in Seq(Callers)
        /\ Cardinality(Occurrences(c, Tail(queue[i]))) =
              Cardinality(Occurrences(c, queue[i])) - 1
    BY <1>1, <1>5, OccurrencesTail
  <2>2. Cardinality(Occurrences(c, Tail(queue[i]))) \in Nat
    BY <2>1, OccurrencesFinite
  <2> QED
    BY <1>2, <2>1, <2>2
<1> QED
  BY <1>2, <1>3, <1>4, <1>5

-----------------------------------------------------------------------------
(* The steps of the callers. *)

(* A step that leaves queues, futures and workers alone keeps what waits. *)
LEMMA SameWaiting ==
    ASSUME OneFunctionPerFuture, UNCHANGED wvars
    PROVE  OneFunctionPerFuture' /\ (StopComesFirst => StopComesFirst')
BY DEF OneFunctionPerFuture, Waiting, Occurrences, StopComesFirst, wvars

(* A call begins. *)
LEMMA RunOnIndexKeeps ==
    ASSUME IInv, NEW c \in Callers, runOnIndex(c)
    PROVE  IInv'
<1>1. \A i \in Indices : future[c][i] # "pending"
  BY DEF IInv, InStep, runOnIndex
<1>2. /\ future' \in [Callers -> [Indices -> Futures]]
      /\ \A d \in Callers, i \in Indices :
            future'[d][i] = IF d = c THEN "none" ELSE future[d][i]
  BY DEF IInv, Typed, TypeOK, runOnIndex, Futures
<1>3. Typed'
  <2>1. caller' \in [Callers -> {"idle", "add", "wait", "inline", "returned", "thrown"}]
    BY DEF IInv, Typed, TypeOK, runOnIndex
  <2>2. /\ left' \in [Callers -> SUBSET Indices]
        /\ plan' \in [Callers -> SUBSET Indices]
        /\ \A d \in Callers : left'[d] \subseteq plan'[d] /\ plan'[d] \subseteq Indices
    BY DEF IInv, Typed, TypeOK, runOnIndex
  <2> QED
    BY <1>2, <2>1, <2>2 DEF IInv, Typed, TypeOK, runOnIndex, Futures
<1>4. OneFunctionPerFuture'
  BY <1>1, <1>2 DEF IInv, OneFunctionPerFuture, Waiting, Occurrences, runOnIndex
<1>5. InStep'
  <2>1. SUFFICES ASSUME NEW d \in Callers, NEW i \in Indices
                 PROVE /\ caller'[d] = "add" /\ i \in left'[d] => future'[d][i] # "pending"
                       /\ future'[d][i] = "pending" =>
                             \/ caller'[d] = "add" /\ i \in plan'[d]
                             \/ caller'[d] = "wait" /\ i \in left'[d]
    BY DEF InStep
  <2>2. CASE d = c
    BY <1>2, <2>2
  <2>3. CASE d # c
    BY <1>2, <2>3 DEF IInv, Typed, TypeOK, InStep, runOnIndex
  <2> QED
    BY <2>2, <2>3
<1>6. StopComesFirst'
  BY DEF IInv, StopComesFirst, runOnIndex
<1> QED
  BY <1>3, <1>4, <1>5, <1>6 DEF IInv

(* A function is added to one worker. *)
LEMMA AddFunctionKeeps ==
    ASSUME IInv, NEW c \in Callers, add_function(c)
    PROVE  IInv'
<1>1. PICK i \in Indices : Visit(c, i) /\ add(c, i)
  BY DEF add_function
<1>2. i \in left[c] /\ i \in plan[c] /\ future[c][i] # "pending" /\ caller[c] = "add"
  BY <1>1 DEF IInv, Typed, TypeOK, InStep, Visit, add_function
<1>3. /\ left' \in [Callers -> SUBSET Indices]
      /\ \A d \in Callers : left'[d] = IF d = c THEN left[c] \ {i} ELSE left[d]
  BY <1>1 DEF IInv, Typed, Visit
<1>4. PICK v \in Futures : future' = [future EXCEPT ![c][i] = v]
  BY <1>1 DEF add, Futures
<1>5. /\ future' \in [Callers -> [Indices -> Futures]]
      /\ \A d \in Callers, j \in Indices :
            future'[d][j] = IF d = c /\ j = i THEN v ELSE future[d][j]
  <2>1. future \in [Callers -> [Indices -> Futures]]
    BY DEF IInv, Typed, TypeOK, Futures
  <2> QED
    BY <1>4, <2>1, SetOneFuture
<1>6. /\ queue' \in [Indices -> Seq(Callers)]
      /\ \A j \in Indices : j # i => queue'[j] = queue[j]
  <2>1. queue \in [Indices -> Seq(Callers)]
    BY DEF IInv, Typed, TypeOK
  <2>2. UNCHANGED queue \/ queue' = [queue EXCEPT ![i] = Append(@, c)]
    BY <1>1 DEF add
  <2>3. Append(queue[i], c) \in Seq(Callers)
    BY <2>1
  <2> QED
    BY <2>1, <2>2, <2>3
<1>7. /\ thread' \in [Indices -> {"loop", "asleep", "run", "flush", "exited"}]
      /\ \A j \in Indices : \/ thread'[j] = thread[j]
                            \/ thread[j] = "asleep" /\ thread'[j] = "loop"
  <2>1. thread \in [Indices -> {"loop", "asleep", "run", "flush", "exited"}]
    BY DEF IInv, Typed, TypeOK
  <2>2. \/ UNCHANGED thread
        \/ thread' = [thread EXCEPT ![i] = IF @ = "asleep" THEN "loop" ELSE @]
    BY <1>1 DEF add, WakeUp, notify_one
  <2> QED
    BY <2>1, <2>2
<1>8. UNCHANGED <<wantStop, running, isThreaded, indices, caller, plan>>
  BY <1>1 DEF add, add_function
<1>9. Typed'
  <2>1. \A j \in Indices : IF thread'[j] = "run" THEN running'[j] \in Callers
                                                 ELSE running'[j] = NoCaller
    BY <1>7, <1>8 DEF IInv, Typed, TypeOK
  <2>2. \A d \in Callers : left'[d] \subseteq plan'[d] /\ plan'[d] \subseteq Indices
    BY <1>3, <1>8 DEF IInv, Typed, TypeOK
  <2> QED
    BY <1>3, <1>5, <1>6, <1>7, <1>8, <2>1, <2>2 DEF IInv, Typed, TypeOK, Futures
<1>10. OneFunctionPerFuture'
  <2>1. SUFFICES ASSUME NEW d \in Callers, NEW j \in Indices
                 PROVE Waiting(d, j)' = IF future'[d][j] = "pending" THEN 1 ELSE 0
    BY DEF OneFunctionPerFuture
  <2>2. Cardinality(Occurrences(d, queue[j])) + (IF running[j] = d THEN 1 ELSE 0)
           = IF future[d][j] = "pending" THEN 1 ELSE 0
    BY DEF IInv, OneFunctionPerFuture, Waiting
  <2>3. Cardinality(Occurrences(d, queue[j])) \in Nat
    BY QueuedIsPending DEF IInv
  <2>4. CASE j # i
    BY <1>5, <1>6, <1>8, <2>2, <2>4 DEF Waiting, Occurrences
  <2>5. CASE j = i /\ Refuses(i)
    <3>1. queue' = queue /\ v = "false"
      <4>1. future'[c][i] = "false"
        BY <1>1, <1>5, <2>5 DEF add, IInv, Typed, TypeOK
      <4> QED
        BY <1>1, <1>5, <2>5, <4>1 DEF add
    <3> QED
      BY <1>2, <1>5, <1>8, <2>2, <2>5, <3>1 DEF Waiting, Occurrences
  <2>6. CASE j = i /\ ~Refuses(i)
    <3>1. future'[c][i] = "pending"
      BY <1>1, <2>6 DEF add, IInv, Typed, TypeOK
    <3>2. queue'[i] = Append(queue[i], c)
      BY <1>1, <2>6 DEF add, IInv, Typed, TypeOK
    <3>3. queue[i] \in Seq(Callers)
      BY DEF IInv, Typed, TypeOK
    <3>4. Cardinality(Occurrences(d, Append(queue[i], c))) =
             Cardinality(Occurrences(d, queue[i])) + (IF d = c THEN 1 ELSE 0)
      BY <3>3, OccurrencesAppend
    <3>5. Waiting(d, j)' = Cardinality(Occurrences(d, Append(queue[i], c)))
                           + (IF running[j] = d THEN 1 ELSE 0)
      BY <1>8, <2>6, <3>2 DEF Waiting, Occurrences
    <3> QED
      BY <1>2, <1>5, <2>2, <2>3, <2>6, <3>1, <3>4, <3>5
  <2> QED
    BY <2>4, <2>5, <2>6
<1>11. InStep'
  BY <1>2, <1>3, <1>5, <1>8 DEF IInv, InStep
<1>12. StopComesFirst'
  BY <1>7, <1>8 DEF IInv, StopComesFirst
<1> QED
  BY <1>9, <1>10, <1>11, <1>12 DEF IInv

(* The caller turns from adding to collecting, and returns. *)
LEMMA CollectingKeeps ==
    ASSUME IInv, NEW c \in Callers,
           waitAndHandleFutures(c) \/ get(c) \/ handleExceptions(c)
    PROVE  IInv'
<1>1. UNCHANGED <<wvars, isThreaded, indices, plan>>
  BY DEF waitAndHandleFutures, get, handleExceptions, local
<1>2. /\ caller' \in [Callers -> {"idle", "add", "wait", "inline", "returned", "thrown"}]
      /\ left' \in [Callers -> SUBSET Indices]
      /\ \A d \in Callers : left'[d] \subseteq plan[d]
  <2>1. CASE waitAndHandleFutures(c)
    BY <2>1 DEF IInv, Typed, TypeOK, waitAndHandleFutures, ToCollect
  <2>2. CASE get(c)
    BY <2>2 DEF IInv, Typed, TypeOK, get, Visit
  <2>3. CASE handleExceptions(c)
    BY <2>3 DEF IInv, Typed, TypeOK, handleExceptions, local
  <2> QED
    BY <2>1, <2>2, <2>3
<1>3. Typed'
  BY <1>1, <1>2 DEF IInv, Typed, TypeOK, wvars
<1>4. OneFunctionPerFuture' /\ StopComesFirst'
  BY <1>1, SameWaiting DEF IInv
<1>5. InStep'
  <2>1. CASE waitAndHandleFutures(c)
    BY <1>1, <2>1 DEF IInv, Typed, TypeOK, InStep, waitAndHandleFutures, ToCollect, wvars
  <2>2. CASE get(c)
    BY <1>1, <2>2 DEF IInv, Typed, TypeOK, InStep, get, Visit, Ready, wvars
  <2>3. CASE handleExceptions(c)
    BY <1>1, <2>3 DEF IInv, Typed, TypeOK, InStep, handleExceptions, local, wvars
  <2> QED
    BY <2>1, <2>2, <2>3
<1> QED
  BY <1>3, <1>4, <1>5 DEF IInv

(* The caller runs a function itself. *)
LEMMA RunInlineKeeps ==
    ASSUME IInv, NEW c \in Callers, run_inline(c)
    PROVE  IInv'
<1>1. PICK i \in Indices : Visit(c, i) /\ runCallback(c, i)
  BY DEF run_inline
<1>2. PICK v \in {"true", "exception"} : future' = [future EXCEPT ![c][i] = v]
  BY <1>1 DEF runCallback
<1>3. /\ future' \in [Callers -> [Indices -> Futures]]
      /\ \A d \in Callers, j \in Indices :
            future'[d][j] = IF d = c /\ j = i THEN v ELSE future[d][j]
  <2>1. future \in [Callers -> [Indices -> Futures]] /\ v \in Futures
    BY DEF IInv, Typed, TypeOK, Futures
  <2> QED
    BY <1>2, <2>1, SetOneFuture
<1>4. \A j \in Indices : future[c][j] # "pending"
  BY DEF IInv, InStep, run_inline
<1>5. /\ left' \in [Callers -> SUBSET Indices]
      /\ \A d \in Callers : left'[d] = IF d = c THEN left[c] \ {i} ELSE left[d]
  BY <1>1 DEF IInv, Typed, Visit
<1>6. UNCHANGED <<queue, wantStop, thread, running, isThreaded, indices, caller, plan>>
  BY DEF run_inline
<1>7. Typed'
  BY <1>3, <1>5, <1>6 DEF IInv, Typed, TypeOK, Futures
<1>8. OneFunctionPerFuture'
  BY <1>3, <1>4, <1>6 DEF IInv, OneFunctionPerFuture, Waiting, Occurrences
<1>9. InStep'
  <2>1. \A d \in Callers, j \in Indices : d # c =>
           future'[d][j] = future[d][j] /\ left'[d] = left[d]
    BY <1>3, <1>5
  <2>2. \A j \in Indices : future'[c][j] # "pending"
    BY <1>3, <1>4
  <2> QED
    BY <1>6, <2>1, <2>2 DEF IInv, InStep
<1>10. StopComesFirst'
  BY <1>6 DEF IInv, StopComesFirst
<1> QED
  BY <1>7, <1>8, <1>9, <1>10 DEF IInv

-----------------------------------------------------------------------------
(* The steps of the workers. *)

(* The thread of a worker goes to its next function, its wait or its end. *)
LEMMA ThreadLoopKeeps ==
    ASSUME IInv, NEW i \in Indices, threadLoop(i),
           UNCHANGED <<isThreaded, indices, caller, local, owner>>
    PROVE  IInv'
<1>1. /\ queue \in [Indices -> Seq(Callers)]
      /\ thread \in [Indices -> {"loop", "asleep", "run", "flush", "exited"}]
      /\ running \in [Indices -> Callers \cup {NoCaller}]
      /\ \A j \in Indices : IF thread[j] = "run" THEN running[j] \in Callers
                                                 ELSE running[j] = NoCaller
  BY DEF IInv, Typed, TypeOK
<1>2. /\ thread[i] = "loop"
      /\ UNCHANGED <<wantStop, future, isThreaded, indices, caller, left, plan>>
  BY DEF threadLoop, local
<1>3. InStep'
  BY <1>2 DEF IInv, InStep
<1>4. CASE queue[i] # <<>> /\ thread' = [thread EXCEPT ![i] = "run"]
           /\ running' = [running EXCEPT ![i] = Head(queue[i])]
           /\ queue' = [queue EXCEPT ![i] = Popped(@)]
  <2>1. queue[i] \in Seq(Callers)
    BY <1>1
  <2>2. Tail(queue[i]) \in Seq(Callers) /\ Head(queue[i]) \in Callers
    BY <1>4, <2>1, OccurrencesTail
  <2>3. /\ queue' \in [Indices -> Seq(Callers)]
        /\ \A j \in Indices : queue'[j] = IF j = i THEN Tail(queue[i]) ELSE queue[j]
    BY <1>1, <1>4, <2>2 DEF Popped
  <2>4. /\ running' \in [Indices -> Callers \cup {NoCaller}]
        /\ \A j \in Indices : running'[j] = IF j = i THEN Head(queue[i]) ELSE running[j]
    BY <1>1, <1>4, <2>2
  <2>5. /\ thread' \in [Indices -> {"loop", "asleep", "run", "flush", "exited"}]
        /\ \A j \in Indices : thread'[j] = IF j = i THEN "run" ELSE thread[j]
    BY <1>1, <1>4
  <2>6. \A j \in Indices : IF thread'[j] = "run" THEN running'[j] \in Callers
                                                 ELSE running'[j] = NoCaller
    BY <1>1, <2>2, <2>4, <2>5
  <2>7. Typed'
    BY <1>2, <2>3, <2>4, <2>5, <2>6 DEF IInv, Typed, TypeOK
  <2>8. OneFunctionPerFuture'
    <3>1. SUFFICES ASSUME NEW c \in Callers, NEW j \in Indices
                   PROVE Waiting(c, j)' = IF future'[c][j] = "pending" THEN 1 ELSE 0
      BY DEF OneFunctionPerFuture
    <3>2. Cardinality(Occurrences(c, queue[j])) + (IF running[j] = c THEN 1 ELSE 0)
             = IF future[c][j] = "pending" THEN 1 ELSE 0
      BY DEF IInv, OneFunctionPerFuture, Waiting
    <3>3. CASE j # i
      BY <1>2, <2>3, <2>4, <3>2, <3>3 DEF Waiting, Occurrences
    <3>4. CASE j = i
      <4>1. Cardinality(Occurrences(c, Tail(queue[i]))) =
               Cardinality(Occurrences(c, queue[i])) - (IF c = Head(queue[i]) THEN 1 ELSE 0)
        BY <1>4, <2>1, OccurrencesTail
      <4>2. Cardinality(Occurrences(c, queue[i])) \in Nat
        BY <2>1, OccurrencesFinite
      <4>3. running[i] # c
        BY <1>1, <1>2, NoCallerAssumption
      <4>4. Waiting(c, j)' = Cardinality(Occurrences(c, Tail(queue[i])))
                             + (IF Head(queue[i]) = c THEN 1 ELSE 0)
        BY <2>3, <2>4, <3>4 DEF Waiting, Occurrences
      <4>5. Waiting(c, j)' = Cardinality(Occurrences(c, queue[i]))
        BY <4>1, <4>2, <4>4
      <4> QED
        BY <1>2, <3>2, <3>4, <4>2, <4>3, <4>5
    <3> QED
      BY <3>3, <3>4
  <2>9. StopComesFirst'
    BY <1>2, <2>5 DEF IInv, StopComesFirst
  <2> QED
    BY <1>3, <2>7, <2>8, <2>9 DEF IInv
<1>5. CASE /\ UNCHANGED <<queue, running>>
           /\ \/ wantStop[i] /\ thread' = [thread EXCEPT ![i] = "flush"]
              \/ thread' = [thread EXCEPT ![i] = "asleep"]
  <2>1. /\ thread' \in [Indices -> {"loop", "asleep", "run", "flush", "exited"}]
        /\ \A j \in Indices : j # i => thread'[j] = thread[j]
        /\ thread'[i] = "asleep" \/ (thread'[i] = "flush" /\ wantStop[i])
    <3>1. CASE wantStop[i] /\ thread' = [thread EXCEPT ![i] = "flush"]
      BY <1>1, <3>1
    <3>2. CASE thread' = [thread EXCEPT ![i] = "asleep"]
      BY <1>1, <3>2
    <3> QED
      BY <1>5, <3>1, <3>2
  <2>2. Typed'
    BY <1>1, <1>2, <1>5, <2>1 DEF IInv, Typed, TypeOK
  <2>3. OneFunctionPerFuture'
    BY <1>2, <1>5 DEF IInv, OneFunctionPerFuture, Waiting, Occurrences
  <2>4. StopComesFirst'
    BY <1>2, <2>1 DEF IInv, StopComesFirst
  <2> QED
    BY <1>3, <2>2, <2>3, <2>4 DEF IInv
<1> QED
  BY <1>4, <1>5 DEF threadLoop

(* The function at work ends and sets its promise. *)
LEMMA RunFrontKeeps ==
    ASSUME IInv, NEW i \in Indices, run_front(i),
           UNCHANGED <<isThreaded, indices, caller, local, owner>>
    PROVE  IInv'
<1>1. /\ thread \in [Indices -> {"loop", "asleep", "run", "flush", "exited"}]
      /\ running \in [Indices -> Callers \cup {NoCaller}]
      /\ \A j \in Indices : IF thread[j] = "run" THEN running[j] \in Callers
                                                 ELSE running[j] = NoCaller
  BY DEF IInv, Typed, TypeOK
<1>2. PICK c \in Callers : running[i] = c
  BY <1>1 DEF run_front
<1>3. PICK v \in {"true", "exception"} : future' = [future EXCEPT ![c][i] = v]
  BY <1>2 DEF run_front, runCallback
<1>4. /\ future' \in [Callers -> [Indices -> Futures]]
      /\ \A d \in Callers, j \in Indices :
            future'[d][j] = IF d = c /\ j = i THEN v ELSE future[d][j]
  <2>1. future \in [Callers -> [Indices -> Futures]] /\ v \in Futures
    BY DEF IInv, Typed, TypeOK, Futures
  <2> QED
    BY <1>3, <2>1, SetOneFuture
<1>5. UNCHANGED <<queue, wantStop, isThreaded, indices, caller, left, plan>>
  BY DEF run_front, local
<1>6. /\ thread' \in [Indices -> {"loop", "asleep", "run", "flush", "exited"}]
      /\ \A j \in Indices : thread'[j] = IF j = i THEN "loop" ELSE thread[j]
      /\ running' \in [Indices -> Callers \cup {NoCaller}]
      /\ \A j \in Indices : running'[j] = IF j = i THEN NoCaller ELSE running[j]
  BY <1>1 DEF run_front
<1>7. Typed'
  BY <1>1, <1>4, <1>5, <1>6 DEF IInv, Typed, TypeOK, Futures
<1>8. OneFunctionPerFuture'
  <2>1. SUFFICES ASSUME NEW d \in Callers, NEW j \in Indices
                 PROVE Waiting(d, j)' = IF future'[d][j] = "pending" THEN 1 ELSE 0
    BY DEF OneFunctionPerFuture
  <2>2. Cardinality(Occurrences(d, queue[j])) + (IF running[j] = d THEN 1 ELSE 0)
           = IF future[d][j] = "pending" THEN 1 ELSE 0
    BY DEF IInv, OneFunctionPerFuture, Waiting
  <2>3. CASE j # i
    BY <1>4, <1>5, <1>6, <2>2, <2>3 DEF Waiting, Occurrences
  <2>4. CASE j = i /\ d # c
    BY <1>2, <1>4, <1>5, <1>6, <2>2, <2>4, NoCallerAssumption DEF Waiting, Occurrences
  <2>5. CASE j = i /\ d = c
    <3>1. Cardinality(Occurrences(c, queue[i])) = 0
      BY <1>2, QueuedIsPending DEF IInv
    <3> QED
      BY <1>4, <1>5, <1>6, <2>5, <3>1, NoCallerAssumption DEF Waiting, Occurrences
  <2> QED
    BY <2>3, <2>4, <2>5
<1>9. InStep' /\ StopComesFirst'
  BY <1>4, <1>5, <1>6 DEF IInv, InStep, StopComesFirst
<1> QED
  BY <1>7, <1>8, <1>9 DEF IInv

(* A function that was queued before the stop runs after it. *)
LEMMA FlushKeeps ==
    ASSUME IInv, NEW i \in Indices, flush(i),
           UNCHANGED <<isThreaded, indices, caller, local, owner>>
    PROVE  IInv'
<1>1. queue \in [Indices -> Seq(Callers)] /\ queue[i] \in Seq(Callers) /\ queue[i] # <<>>
  BY DEF IInv, Typed, TypeOK, flush
<1>2. PICK c \in Callers : c = Head(queue[i])
  BY <1>1, OccurrencesTail
<1>3. PICK v \in {"true", "exception"} : future' = [future EXCEPT ![c][i] = v]
  BY <1>2 DEF flush, runCallback
<1>4. /\ future' \in [Callers -> [Indices -> Futures]]
      /\ \A d \in Callers, j \in Indices :
            future'[d][j] = IF d = c /\ j = i THEN v ELSE future[d][j]
  <2>1. future \in [Callers -> [Indices -> Futures]] /\ v \in Futures
    BY DEF IInv, Typed, TypeOK, Futures
  <2> QED
    BY <1>3, <2>1, SetOneFuture
<1>5. UNCHANGED <<wantStop, thread, running, isThreaded, indices, caller, left, plan>>
  BY DEF flush, local
<1>6. Tail(queue[i]) \in Seq(Callers)
  BY <1>1, OccurrencesTail
<1>7. /\ queue' \in [Indices -> Seq(Callers)]
      /\ \A j \in Indices : queue'[j] = IF j = i THEN Tail(queue[i]) ELSE queue[j]
  BY <1>1, <1>6 DEF flush
<1>8. Typed'
  BY <1>4, <1>5, <1>7 DEF IInv, Typed, TypeOK, Futures
<1>9. OneFunctionPerFuture'
  <2>1. SUFFICES ASSUME NEW d \in Callers, NEW j \in Indices
                 PROVE Waiting(d, j)' = IF future'[d][j] = "pending" THEN 1 ELSE 0
    BY DEF OneFunctionPerFuture
  <2>2. Cardinality(Occurrences(d, queue[j])) + (IF running[j] = d THEN 1 ELSE 0)
           = IF future[d][j] = "pending" THEN 1 ELSE 0
    BY DEF IInv, OneFunctionPerFuture, Waiting
  <2>3. Cardinality(Occurrences(d, Tail(queue[i]))) =
           Cardinality(Occurrences(d, queue[i])) - (IF d = c THEN 1 ELSE 0)
    BY <1>1, <1>2, OccurrencesTail
  <2>4. /\ Cardinality(Occurrences(d, queue[i])) \in Nat
        /\ d = c => /\ Cardinality(Occurrences(d, queue[i])) = 1
                    /\ running[i] # d
    BY <1>1, <1>2, QueuedIsPending DEF IInv
  <2>5. CASE j # i
    BY <1>4, <1>5, <1>7, <2>2, <2>5 DEF Waiting, Occurrences
  <2>6. CASE j = i
    <3>1. Waiting(d, j)' = Cardinality(Occurrences(d, Tail(queue[i])))
                           + (IF running[i] = d THEN 1 ELSE 0)
      BY <1>5, <1>7, <2>6 DEF Waiting, Occurrences
    <3>2. CASE d = c
      BY <1>4, <2>3, <2>4, <2>6, <3>1, <3>2
    <3>3. CASE d # c
      BY <1>4, <2>2, <2>3, <2>4, <2>6, <3>1, <3>3
    <3> QED
      BY <3>2, <3>3
  <2> QED
    BY <2>5, <2>6
<1>10. InStep' /\ StopComesFirst'
  BY <1>4, <1>5 DEF IInv, InStep, StopComesFirst
<1> QED
  BY <1>8, <1>9, <1>10 DEF IInv

(* Waking up, being asked to stop and exiting move threads only. *)
LEMMA MovedThreadKeeps ==
    ASSUME IInv, NEW i \in Indices,
           stop_worker(i) \/ SpuriousWakeup(i)
              \/ (exit(i) /\ UNCHANGED <<isThreaded, indices, caller, local, owner>>)
    PROVE  IInv'
<1>1. /\ thread \in [Indices -> {"loop", "asleep", "run", "flush", "exited"}]
      /\ wantStop \in [Indices -> BOOLEAN]
  BY DEF IInv, Typed, TypeOK
<1>2. UNCHANGED <<queue, running, future, isThreaded, indices, caller, left, plan>>
  BY DEF stop_worker, stop, SpuriousWakeup, spurious_wakeup, exit, local
<1>3. \/ thread' = [thread EXCEPT ![i] = IF @ = "asleep" THEN "loop" ELSE @]
      \/ thread[i] = "asleep" /\ thread' = [thread EXCEPT ![i] = "loop"]
      \/ thread[i] = "flush" /\ thread' = [thread EXCEPT ![i] = "exited"]
  BY DEF stop_worker, stop, WakeUpToStop, notify_one, SpuriousWakeup, spurious_wakeup, exit
<1>4. /\ thread' \in [Indices -> {"loop", "asleep", "run", "flush", "exited"}]
      /\ \A j \in Indices : \/ thread'[j] = thread[j]
                            \/ thread[j] = "asleep" /\ thread'[j] = "loop"
                            \/ thread[j] = "flush" /\ thread'[j] = "exited"
  BY <1>1, <1>3
<1>5. /\ wantStop' \in [Indices -> BOOLEAN]
      /\ \A j \in Indices : wantStop[j] => wantStop'[j]
  <2>1. UNCHANGED wantStop \/ wantStop' = [wantStop EXCEPT ![i] = TRUE]
    BY DEF stop_worker, stop, SpuriousWakeup, spurious_wakeup, exit
  <2>2. CASE UNCHANGED wantStop
    BY <1>1, <2>2
  <2>3. CASE wantStop' = [wantStop EXCEPT ![i] = TRUE]
    BY <1>1, <2>3
  <2> QED
    BY <2>1, <2>2, <2>3
<1>6. Typed'
  BY <1>2, <1>4, <1>5 DEF IInv, Typed, TypeOK
<1>7. OneFunctionPerFuture'
  BY <1>2 DEF IInv, OneFunctionPerFuture, Waiting, Occurrences
<1>8. InStep'
  BY <1>2 DEF IInv, InStep
<1>9. StopComesFirst'
  BY <1>4, <1>5 DEF IInv, StopComesFirst
<1> QED
  BY <1>6, <1>7, <1>8, <1>9 DEF IInv

(* An index is erased between the calls. *)
LEMMA EraseKeeps ==
    ASSUME IInv, NEW i \in Indices, erase(i)
    PROVE  IInv'
<1>1. UNCHANGED <<wvars, isThreaded, caller, left, plan>> /\ indices' \subseteq indices
  BY DEF erase, local
<1>2. Typed'
  BY <1>1 DEF IInv, Typed, TypeOK, wvars
<1>3. InStep'
  BY <1>1 DEF IInv, InStep, wvars
<1> QED
  BY <1>1, <1>2, <1>3, SameWaiting DEF IInv

-----------------------------------------------------------------------------
(* The theorems. *)

(* The collection starts with empty queues and no call. *)
LEMMA InitIInv == Init => IInv
<1> SUFFICES ASSUME Init PROVE IInv
  OBVIOUS
<1>1. Typed
  BY DEF Init, WInit, Typed, TypeOK
<1>2. OneFunctionPerFuture
  <2>1. \A c \in Callers, i \in Indices :
           Occurrences(c, queue[i]) = {} /\ running[i] # c /\ future[c][i] = "none"
    BY NoCallerAssumption DEF Init, WInit, Occurrences
  <2> QED
    BY <2>1, FS_EmptySet DEF OneFunctionPerFuture, Waiting
<1>3. InStep /\ StopComesFirst
  BY DEF Init, WInit, InStep, StopComesFirst
<1> QED
  BY <1>1, <1>2, <1>3 DEF IInv

(* Every step keeps the inductive invariant. *)
LEMMA NextIInv == IInv /\ [Next]_vars => IInv'
<1> SUFFICES ASSUME IInv, [Next]_vars PROVE IInv'
  OBVIOUS
<1>1. ASSUME NEW c \in Callers, runOnIndex(c) \/ Call(c) PROVE IInv'
  BY <1>1, RunOnIndexKeeps, AddFunctionKeeps, CollectingKeeps, RunInlineKeeps DEF Call
<1>2. ASSUME NEW i \in Indices, WorkerStep(i) PROVE IInv'
  BY <1>2, ThreadLoopKeeps, RunFrontKeeps, FlushKeeps, MovedThreadKeeps
     DEF WorkerStep, Worker
<1>3. ASSUME NEW i \in Indices, SpuriousWakeup(i) \/ stop_worker(i) PROVE IInv'
  BY <1>3, MovedThreadKeeps
<1>4. ASSUME NEW i \in Indices, erase(i) PROVE IInv'
  BY <1>4, EraseKeeps
<1>5. CASE UNCHANGED vars
  <2>1. UNCHANGED wvars
    BY <1>5 DEF vars
  <2>2. Typed' /\ InStep'
    BY <1>5 DEF IInv, Typed, TypeOK, InStep, vars, wvars
  <2> QED
    BY <2>1, <2>2, SameWaiting DEF IInv
<1> QED
  BY <1>1, <1>2, <1>3, <1>4, <1>5 DEF Next

(* The inductive invariant holds throughout. *)
LEMMA Invariance == Spec => []IInv
BY InitIInv, NextIInv, PTL DEF Spec

(* Types hold for every number of callers, indices and calls. *)
THEOREM TypeCorrect == Spec => []TypeOK
<1>1. IInv => TypeOK
  BY DEF IInv, Typed
<1> QED
  BY <1>1, Invariance, PTL

(* No function is dropped, queued twice or left behind: for every number of  *)
(* callers and indices, and whenever workers are stopped.                    *)
THEOREM FunctionsAreKept == Spec => []OneFunctionPerFuture
<1>1. IInv => OneFunctionPerFuture
  BY DEF IInv
<1> QED
  BY <1>1, Invariance, PTL

(* The walk of threadMain over the queue needs no mutex. *)
THEOREM FlushIsUndisturbed == Spec => FlushIsAlone
<1> DEFINE Alone == \A i \in Indices :
              thread[i] \in {"flush", "exited"} /\ queue'[i] # queue[i]
                 => queue[i] # <<>> /\ queue'[i] = Tail(queue[i])
<1>1. ASSUME IInv, Next PROVE Alone
  <2>1. SUFFICES ASSUME NEW i \in Indices, thread[i] \in {"flush", "exited"},
                        queue'[i] # queue[i]
                 PROVE queue[i] # <<>> /\ queue'[i] = Tail(queue[i])
    OBVIOUS
  <2>2. wantStop[i] /\ i \in DOMAIN queue
    BY <1>1, <2>1 DEF IInv, StopComesFirst, Typed, TypeOK
  <2>3. ASSUME NEW c \in Callers, add_function(c) PROVE FALSE
    <3>1. PICK j \in Indices : add(c, j)
      BY <2>3 DEF add_function
    <3>2. CASE j = i
      BY <2>1, <2>2, <3>1, <3>2 DEF add, Refuses
    <3>3. CASE j # i
      BY <2>1, <2>2, <3>1, <3>3 DEF add
    <3> QED
      BY <3>2, <3>3
  <2>4. ASSUME NEW j \in Indices, threadLoop(j) PROVE FALSE
    BY <2>1, <2>2, <2>4 DEF threadLoop
  <2>5. ASSUME NEW j \in Indices, flush(j)
        PROVE queue[i] # <<>> /\ queue'[i] = Tail(queue[i])
    BY <2>1, <2>2, <2>5 DEF flush
  <2>6. ASSUME UNCHANGED queue PROVE FALSE
    BY <2>1, <2>6
  <2>7. ASSUME NEW c \in Callers, runOnIndex(c) \/ Call(c) PROVE FALSE
    BY <2>3, <2>6, <2>7 DEF Call, runOnIndex, waitAndHandleFutures, get, run_inline,
       handleExceptions, wvars
  <2>8. ASSUME NEW j \in Indices, SpuriousWakeup(j) \/ stop_worker(j) \/ erase(j) PROVE FALSE
    BY <2>6, <2>8 DEF SpuriousWakeup, spurious_wakeup, stop_worker, stop, erase, wvars
  <2>9. ASSUME NEW j \in Indices, WorkerStep(j)
        PROVE queue[i] # <<>> /\ queue'[i] = Tail(queue[i])
    BY <2>4, <2>5, <2>6, <2>9 DEF WorkerStep, Worker, run_front, exit
  <2> QED
    BY <1>1, <2>7, <2>8, <2>9 DEF Next
<1>2. IInv /\ [Next]_vars => [Alone]_vars
  BY <1>1
<1>3. Spec => [][Alone]_vars
  <2> HIDE DEF Alone
  <2> QED
    BY <1>2, Invariance, PTL DEF Spec
<1> QED
  BY <1>3 DEF FlushIsAlone

-----------------------------------------------------------------------------
(* ThreadedIndex implements FanOut: every step is one of FanOut's, or none.  *)

Active == {"add", "wait", "inline"}

Settled == {"true", "false", "exception"}

(* What a call has done so far: its indices are there until it ends, every   *)
(* function it has passed was answered, those it has yet to hand out are     *)
(* untouched, and threw_ tells whether a future it has collected threw.      *)
CollectsOf(c) ==
    /\ caller[c] \in Active => plan[c] \subseteq indices
    /\ caller[c] \in {"add", "inline"} => \A i \in left[c] : future[c][i] = "none"
    /\ caller[c] = "add" => \A i \in plan[c] \ left[c] : future[c][i] # "none"
    /\ caller[c] = "wait" => \A i \in plan[c] : future[c][i] # "none"
    /\ caller[c] = "add" => ~threw[c]
    /\ caller[c] = "inline" => \A i \in plan[c] \ left[c] : future[c][i] \in Settled
    /\ caller[c] \in {"wait", "inline"} =>
          (threw[c] <=> \E i \in plan[c] \ left[c] : future[c][i] = "exception")

Collects == \A c \in Callers : CollectsOf(c)

RInv == IInv /\ threw \in [Callers -> BOOLEAN] /\ Collects

(* What FanOut sees of the futures and of the callers. *)
Outcome == [c \in Callers |-> [i \in Indices |-> AbstractOutcome(future[c][i])]]
Status == [c \in Callers |-> AbstractStatus(caller[c])]
Stopping == {i \in Indices : wantStop[i]}
Gone == Indices \ indices

(* The five states of a future are five outcomes. *)
LEMMA OutcomeNames ==
    /\ AbstractOutcome("none") = "none"
    /\ AbstractOutcome("pending") = "accepted"
    /\ AbstractOutcome("true") = "ran"
    /\ AbstractOutcome("false") = "refused"
    /\ AbstractOutcome("exception") = "threw"
BY DEF AbstractOutcome

(* Setting one future sets one outcome. *)
LEMMA OutcomeSet ==
    ASSUME future \in [Callers -> [Indices -> Futures]],
           NEW c \in Callers, NEW i \in Indices, NEW v \in Futures,
           future' = [future EXCEPT ![c][i] = v]
    PROVE  Outcome' = [Outcome EXCEPT ![c][i] = AbstractOutcome(v)]
<1>1. \A d \in Callers, j \in Indices :
         future'[d][j] = IF d = c /\ j = i THEN v ELSE future[d][j]
  BY SetOneFuture
<1> DEFINE changed == [Outcome EXCEPT ![c][i] = AbstractOutcome(v)]
<1>2. \A d \in Callers : changed[d] = [j \in Indices |->
         IF d = c /\ j = i THEN AbstractOutcome(v) ELSE AbstractOutcome(future[d][j])]
  BY DEF Outcome
<1>3. \A d \in Callers : Outcome'[d] = [j \in Indices |-> AbstractOutcome(future'[d][j])]
  BY DEF Outcome, AbstractOutcome
<1>4. \A d \in Callers : Outcome'[d] = changed[d]
  <2> SUFFICES ASSUME NEW d \in Callers PROVE Outcome'[d] = changed[d]
    OBVIOUS
  <2>1. \A j \in Indices : AbstractOutcome(future'[d][j]) =
           IF d = c /\ j = i THEN AbstractOutcome(v) ELSE AbstractOutcome(future[d][j])
    BY <1>1
  <2>2. changed[d] = [j \in Indices |-> AbstractOutcome(future'[d][j])]
    <3> HIDE DEF changed
    <3> QED
      BY <1>2, <2>1
  <2> HIDE DEF changed
  <2> QED
    BY <1>3, <2>2
<1>5. DOMAIN Outcome' = Callers /\ DOMAIN changed = Callers
  BY DEF Outcome
<1>6. /\ Outcome' = [d \in Callers |-> Outcome'[d]]
      /\ changed = [d \in Callers |-> changed[d]]
  BY DEF Outcome
<1> QED
  BY <1>4, <1>6

(* A function that was accepted ends: its caller is still in the call. *)
LEMMA AnswerSteps ==
    ASSUME RInv, NEW c \in Callers, NEW i \in Indices, NEW v \in {"true", "exception"},
           future[c][i] = "pending",
           future' = [future EXCEPT ![c][i] = v],
           UNCHANGED <<wantStop, isThreaded, indices, caller, left, plan, threw>>
    PROVE  Collects' /\ Abstract!FNext
<1>1. future \in [Callers -> [Indices -> Futures]] /\ v \in Futures
  BY DEF RInv, IInv, Typed, TypeOK, Futures
<1>2. \A d \in Callers, j \in Indices :
         future'[d][j] = IF d = c /\ j = i THEN v ELSE future[d][j]
  BY <1>1, SetOneFuture
<1>3. \/ caller[c] = "add" /\ i \in plan[c]
      \/ caller[c] = "wait" /\ i \in left[c] /\ i \in plan[c]
  BY DEF RInv, IInv, InStep, Typed, TypeOK
<1>4. i \in plan[c] /\ plan[c] \subseteq indices /\ indices \subseteq Indices
      /\ Status[c] = "active"
  BY <1>3 DEF RInv, IInv, Typed, Collects, CollectsOf, Active, Status, AbstractStatus
<1>5. Collects'
  <2>1. \A d \in Callers, j \in Indices :
           /\ future'[d][j] = "none" <=> future[d][j] = "none"
           /\ future[d][j] \in Settled => future'[d][j] = future[d][j]
           /\ future'[d][j] # future[d][j] => d = c /\ j = i
    BY <1>2 DEF Settled
  <2>2. \A d \in Callers : left[d] \subseteq plan[d] /\ plan[d] \subseteq Indices
    BY DEF RInv, IInv, Typed, TypeOK
  <2>3. \A d \in Callers : caller[d] \in {"wait", "inline"} =>
           \A j \in plan[d] \ left[d] : future'[d][j] = future[d][j]
    BY <1>3, <2>1, <2>2
  <2> QED
    BY <2>1, <2>2, <2>3 DEF RInv, Collects, CollectsOf
<1>6. Outcome[c][i] = "accepted"
  BY OutcomeNames DEF Outcome
<1>7. AbstractOutcome(v) \in {"ran", "threw"}
  BY OutcomeNames
<1>8. Outcome' = [Outcome EXCEPT ![c][i] = AbstractOutcome(v)]
  BY <1>1, OutcomeSet
<1>9. UNCHANGED <<Status, plan, Stopping, Gone>>
  BY DEF Status, Stopping, Gone
<1>10. Abstract!Run(c, i)
  BY <1>4, <1>6, <1>7, <1>8, <1>9 DEF Abstract!Run, Abstract!Becomes, Outcome, Status, Stopping, Gone
<1> QED
  BY <1>5, <1>10 DEF Abstract!FNext

(* What FanOut sees stays when futures, callers, plans and indices stay. *)
LEMMA UnseenSteps ==
    ASSUME UNCHANGED <<future, wantStop, plan, indices>>, UNCHANGED Status
    PROVE  UNCHANGED Abstract!fvars
BY DEF Abstract!fvars, Status

(* A call begins. *)
LEMMA BeginSteps ==
    ASSUME RInv, NEW c \in Callers, runOnIndex(c)
    PROVE  threw' \in [Callers -> BOOLEAN] /\ Collects' /\ Abstract!FNext
<1>1. /\ future' \in [Callers -> [Indices -> Futures]]
      /\ \A d \in Callers, i \in Indices :
            future'[d][i] = IF d = c THEN "none" ELSE future[d][i]
  BY DEF RInv, IInv, Typed, TypeOK, runOnIndex, Futures
<1>2. /\ threw' \in [Callers -> BOOLEAN]
      /\ \A d \in Callers : threw'[d] = IF d = c THEN FALSE ELSE threw[d]
      /\ \A d \in Callers : left'[d] = IF d = c THEN indices ELSE left[d]
      /\ \A d \in Callers : plan'[d] = IF d = c THEN indices ELSE plan[d]
      /\ \A d \in Callers : d # c => caller'[d] = caller[d]
      /\ caller'[c] \in {"add", "inline"}
      /\ indices' = indices /\ indices \subseteq Indices
      /\ \A d \in Callers : plan[d] \subseteq Indices
  BY DEF RInv, IInv, Typed, TypeOK, runOnIndex
<1>3. Collects'
  <2>1. SUFFICES ASSUME NEW d \in Callers PROVE CollectsOf(d)'
    BY DEF Collects
  <2>2. CASE d = c
    BY <1>1, <1>2, <2>2 DEF CollectsOf
  <2>3. CASE d # c
    <3>1. CollectsOf(d)
      BY DEF RInv, Collects
    <3>2. \A i \in Indices : future'[d][i] = future[d][i]
      BY <1>1, <2>3
    <3>3. left[d] \subseteq Indices
      BY DEF RInv, IInv, Typed
    <3> QED
      BY <1>2, <2>3, <3>1, <3>2, <3>3 DEF CollectsOf
  <2> QED
    BY <2>2, <2>3
<1>4. Outcome' = [Outcome EXCEPT ![c] = [i \in Indices |-> "none"]]
  <2>1. Outcome' = [d \in Callers |-> [i \in Indices |-> AbstractOutcome(future'[d][i])]]
    BY DEF Outcome, AbstractOutcome
  <2>2. \A d \in Callers, i \in Indices : AbstractOutcome(future'[d][i]) =
           IF d = c THEN "none" ELSE AbstractOutcome(future[d][i])
    BY <1>1, OutcomeNames
  <2>3. \A d \in Callers : [i \in Indices |-> AbstractOutcome(future'[d][i])] =
           IF d = c THEN [i \in Indices |-> "none"] ELSE Outcome[d]
    BY <2>2 DEF Outcome
  <2> QED
    BY <2>1, <2>3 DEF Outcome
<1>5. Status' = [Status EXCEPT ![c] = "active"] /\ Status[c] # "active"
  <2>1. caller \in [Callers -> {"idle", "add", "wait", "inline", "returned", "thrown"}]
    BY DEF RInv, IInv, Typed, TypeOK
  <2> QED
    BY <1>2, <2>1 DEF runOnIndex, Status, AbstractStatus
<1>6. plan' = [plan EXCEPT ![c] = Indices \ Gone]
  BY <1>2 DEF runOnIndex, Gone
<1>7. UNCHANGED <<Stopping, Gone>>
  BY DEF runOnIndex, Stopping, Gone
<1>8. Abstract!Begin(c)
  BY <1>4, <1>5, <1>6, <1>7 DEF Abstract!Begin, Outcome, Status, Stopping, Gone
<1> QED
  BY <1>2, <1>3, <1>8 DEF Abstract!FNext

(* A worker accepts or refuses a function. *)
LEMMA AddSteps ==
    ASSUME RInv, NEW c \in Callers, add_function(c)
    PROVE  threw' \in [Callers -> BOOLEAN] /\ Collects' /\ Abstract!FNext
<1>1. PICK i \in Indices : Visit(c, i) /\ add(c, i)
  BY DEF add_function
<1>2. future \in [Callers -> [Indices -> Futures]] /\ caller[c] = "add"
      /\ \A d \in Callers : left[d] \subseteq plan[d] /\ plan[d] \subseteq Indices
  BY DEF RInv, IInv, Typed, TypeOK, Futures, add_function
<1>3. i \in left[c] /\ i \in plan[c] /\ future[c][i] = "none"
  BY <1>1, <1>2 DEF RInv, Collects, CollectsOf, Visit
<1>4. \A d \in Callers : left'[d] = IF d = c THEN left[c] \ {i} ELSE left[d]
  BY <1>1 DEF RInv, IInv, Typed, Visit
<1>5. PICK v \in {"false", "pending"} :
         future' = [future EXCEPT ![c][i] = v] /\ (v = "false" <=> wantStop[i])
  BY <1>1 DEF add, Refuses
<1>6. \A d \in Callers, j \in Indices :
         future'[d][j] = IF d = c /\ j = i THEN v ELSE future[d][j]
  BY <1>2, <1>5, SetOneFuture DEF Futures
<1>7. UNCHANGED <<wantStop, indices, caller, plan, threw>>
  BY <1>1 DEF add, add_function
<1>8. Collects'
  <2>1. CollectsOf(c)'
    <3>1. CollectsOf(c)
      BY DEF RInv, Collects
    <3>2. \A j \in left'[c] : j \in left[c] /\ j # i /\ j \in Indices
      BY <1>2, <1>4
    <3>3. \A j \in left'[c] : future'[c][j] = "none"
      BY <1>2, <1>6, <3>1, <3>2 DEF CollectsOf
    <3>4. \A j \in plan[c] \ left'[c] : j \in Indices /\ (j = i \/ j \notin left[c])
      BY <1>2, <1>4
    <3>5. \A j \in plan[c] \ left'[c] : future'[c][j] # "none"
      BY <1>2, <1>6, <3>1, <3>4 DEF CollectsOf
    <3> QED
      BY <1>2, <1>7, <3>1, <3>3, <3>5 DEF CollectsOf
  <2>2. ASSUME NEW d \in Callers, d # c PROVE CollectsOf(d)'
    <3>1. CollectsOf(d)
      BY DEF RInv, Collects
    <3>2. left'[d] = left[d] /\ \A j \in Indices : future'[d][j] = future[d][j]
      BY <1>4, <1>6, <2>2
    <3> QED
      BY <1>2, <1>7, <3>1, <3>2 DEF CollectsOf
  <2> QED
    BY <2>1, <2>2 DEF Collects
<1>9. Outcome' = [Outcome EXCEPT ![c][i] = AbstractOutcome(v)]
  <2>1. v \in Futures
    BY DEF Futures
  <2> QED
    BY <1>2, <1>5, <2>1, OutcomeSet
<1>10. Outcome[c][i] = "none"
  BY <1>3, OutcomeNames DEF Outcome
<1>11. Status[c] = "active" /\ i \notin Gone /\ UNCHANGED <<Status, Stopping, Gone>>
  BY <1>2, <1>3, <1>7 DEF Status, AbstractStatus, Stopping, Gone, RInv, Collects, CollectsOf, Active
<1>12. Abstract!Accept(c, i) \/ Abstract!Refuse(c, i)
  <2>1. CASE v = "false"
    <3>1. i \in Stopping /\ AbstractOutcome(v) = "refused"
      BY <1>5, <2>1, OutcomeNames DEF Stopping
    <3> QED
      BY <1>3, <1>7, <1>9, <1>10, <1>11, <3>1
         DEF Abstract!Refuse, Abstract!Becomes, Outcome, Status, Stopping, Gone
  <2>2. CASE v = "pending"
    <3>1. i \notin Stopping /\ AbstractOutcome(v) = "accepted"
      BY <1>5, <2>2, OutcomeNames DEF Stopping
    <3> QED
      BY <1>3, <1>7, <1>9, <1>10, <1>11, <3>1
         DEF Abstract!Accept, Abstract!Becomes, Outcome, Status, Stopping, Gone
  <2> QED
    BY <2>1, <2>2
<1> QED
  BY <1>7, <1>8, <1>12 DEF Abstract!FNext, RInv

(* The caller runs a function itself. *)
LEMMA InlineSteps ==
    ASSUME RInv, NEW c \in Callers, run_inline(c)
    PROVE  threw' \in [Callers -> BOOLEAN] /\ Collects' /\ Abstract!FNext
<1>1. PICK i \in Indices : /\ Visit(c, i) /\ runCallback(c, i)
                           /\ threw' = [threw EXCEPT ![c] = @ \/ future'[c][i] = "exception"]
  BY DEF run_inline
<1>2. future \in [Callers -> [Indices -> Futures]] /\ caller[c] = "inline"
      /\ \A d \in Callers : left[d] \subseteq plan[d] /\ plan[d] \subseteq Indices
  BY DEF RInv, IInv, Typed, TypeOK, Futures, run_inline
<1>3. i \in left[c] /\ i \in plan[c] /\ future[c][i] = "none"
  BY <1>1, <1>2 DEF RInv, Collects, CollectsOf, Visit
<1>4. \A d \in Callers : left'[d] = IF d = c THEN left[c] \ {i} ELSE left[d]
  BY <1>1 DEF RInv, IInv, Typed, Visit
<1>5. PICK v \in {"true", "exception"} : future' = [future EXCEPT ![c][i] = v]
  BY <1>1 DEF runCallback
<1>6. \A d \in Callers, j \in Indices :
         future'[d][j] = IF d = c /\ j = i THEN v ELSE future[d][j]
  BY <1>2, <1>5, SetOneFuture DEF Futures
<1>7. UNCHANGED <<wantStop, indices, caller, plan>>
  BY DEF run_inline
<1>8. /\ threw' \in [Callers -> BOOLEAN]
      /\ threw'[c] <=> (threw[c] \/ v = "exception")
      /\ \A d \in Callers : d # c => threw'[d] = threw[d]
  BY <1>1, <1>6 DEF RInv
<1>9. Collects'
  <2>1. \A d \in Callers : d # c =>
           left'[d] = left[d] /\ \A j \in Indices : future'[d][j] = future[d][j]
    BY <1>4, <1>6
  <2>2. plan[c] \ left'[c] = (plan[c] \ left[c]) \cup {i}
    BY <1>3, <1>4
  <2>3. \A j \in left'[c] : future'[c][j] = "none"
    BY <1>2, <1>4, <1>6 DEF RInv, Collects, CollectsOf
  <2>4. \A j \in plan[c] \ left'[c] : future'[c][j] \in Settled
    BY <1>2, <1>6, <2>2 DEF RInv, Collects, CollectsOf, Settled
  <2>5. threw'[c] <=> \E j \in plan[c] \ left'[c] : future'[c][j] = "exception"
    <3>1. threw[c] <=> \E j \in plan[c] \ left[c] : future[c][j] = "exception"
      BY <1>2 DEF RInv, Collects, CollectsOf
    <3>2. \A j \in plan[c] \ left[c] : future'[c][j] = future[c][j]
      BY <1>2, <1>3, <1>6
    <3>3. future'[c][i] = v
      BY <1>6
    <3> QED
      BY <1>8, <2>2, <3>1, <3>2, <3>3
  <2>6. caller'[c] = "inline" /\ caller' = caller
    BY <1>2, <1>7
  <2>7. \A d \in Callers : d # c => (threw'[d] <=> threw[d])
    BY <1>8
  <2>8. CollectsOf(c)'
    BY <1>2, <1>7, <2>3, <2>4, <2>5, <2>6 DEF RInv, Collects, CollectsOf
  <2>9. ASSUME NEW d \in Callers, d # c PROVE CollectsOf(d)'
    <3>1. CollectsOf(d)
      BY DEF RInv, Collects
    <3> QED
      BY <1>2, <1>7, <2>1, <2>6, <2>7, <2>9, <3>1 DEF CollectsOf
  <2> QED
    BY <2>8, <2>9 DEF Collects
<1>10. Outcome' = [Outcome EXCEPT ![c][i] = AbstractOutcome(v)]
  <2>1. v \in Futures
    BY DEF Futures
  <2> QED
    BY <1>2, <1>5, <2>1, OutcomeSet
<1>11. Outcome[c][i] = "none" /\ AbstractOutcome(v) \in {"ran", "threw"}
  BY <1>3, OutcomeNames DEF Outcome
<1>12. Status[c] = "active" /\ i \notin Gone /\ UNCHANGED <<Status, Stopping, Gone>>
  BY <1>2, <1>3, <1>7 DEF Status, AbstractStatus, Stopping, Gone, RInv, Collects, CollectsOf, Active
<1>13. Abstract!Run(c, i)
  BY <1>3, <1>7, <1>10, <1>11, <1>12
     DEF Abstract!Run, Abstract!Becomes, Outcome, Status, Stopping, Gone
<1> QED
  BY <1>8, <1>9, <1>13 DEF Abstract!FNext

(* The caller turns to the futures, and takes what one of them holds. *)
LEMMA WaitingSteps ==
    ASSUME RInv, NEW c \in Callers, waitAndHandleFutures(c) \/ get(c)
    PROVE  threw' \in [Callers -> BOOLEAN] /\ Collects' /\ UNCHANGED Abstract!fvars
<1>1. UNCHANGED <<future, wantStop, plan, indices>>
  BY DEF waitAndHandleFutures, get, wvars
<1>2. \A d \in Callers : left[d] \subseteq plan[d] /\ plan[d] \subseteq Indices
  BY DEF RInv, IInv, Typed, TypeOK
<1>3. CASE waitAndHandleFutures(c)
  <2>1. /\ caller[c] = "add" /\ left[c] = {}
        /\ \A d \in Callers : caller'[d] = IF d = c THEN "wait" ELSE caller[d]
        /\ \A d \in Callers : left'[d] = IF d = c THEN plan[c] ELSE left[d]
        /\ threw' = threw
    BY <1>3 DEF waitAndHandleFutures, ToCollect, RInv, IInv, Typed, TypeOK
  <2>2. Collects'
    BY <1>1, <1>2, <2>1 DEF RInv, Collects, CollectsOf, Active
  <2>3. UNCHANGED Status
    BY <2>1 DEF Status, AbstractStatus
  <2> QED
    BY <1>1, <2>1, <2>2, <2>3, UnseenSteps DEF RInv
<1>4. CASE get(c)
  <2>1. PICK i \in Indices : /\ Visit(c, i) /\ Ready(c, i)
                             /\ threw' = [threw EXCEPT ![c] = @ \/ future[c][i] = "exception"]
    BY <1>4 DEF get
  <2>2. /\ caller[c] = "wait" /\ i \in left[c] /\ i \in plan[c] /\ caller' = caller
        /\ \A d \in Callers : left'[d] = IF d = c THEN left[c] \ {i} ELSE left[d]
    BY <1>2, <1>4, <2>1 DEF get, Visit, RInv, IInv, Typed
  <2>3. /\ threw' \in [Callers -> BOOLEAN]
        /\ threw'[c] <=> (threw[c] \/ future[c][i] = "exception")
        /\ \A d \in Callers : d # c => (threw'[d] <=> threw[d])
    BY <2>1 DEF RInv
  <2>4. CollectsOf(c)'
    <3>1. plan[c] \ left'[c] = (plan[c] \ left[c]) \cup {i}
      BY <2>2
    <3>2. CollectsOf(c)
      BY DEF RInv, Collects
    <3>3. threw'[c] <=> \E j \in plan[c] \ left'[c] : future[c][j] = "exception"
      BY <2>2, <2>3, <3>1, <3>2 DEF CollectsOf
    <3> QED
      BY <1>1, <2>2, <3>2, <3>3 DEF CollectsOf
  <2>5. ASSUME NEW d \in Callers, d # c PROVE CollectsOf(d)'
    <3>1. CollectsOf(d)
      BY DEF RInv, Collects
    <3> QED
      BY <1>1, <2>2, <2>3, <2>5, <3>1 DEF CollectsOf
  <2>6. UNCHANGED Status
    BY <2>2 DEF Status
  <2> QED
    BY <1>1, <2>3, <2>4, <2>5, <2>6, UnseenSteps DEF Collects
<1> QED
  BY <1>3, <1>4

(* A call ends, with an exception exactly if one of its functions threw. *)
LEMMA EndSteps ==
    ASSUME RInv, NEW c \in Callers, handleExceptions(c)
    PROVE  threw' \in [Callers -> BOOLEAN] /\ Collects' /\ Abstract!FNext
<1>1. /\ UNCHANGED <<future, wantStop, plan, indices, left, threw>>
      /\ caller[c] \in {"wait", "inline"} /\ left[c] = {}
      /\ \A d \in Callers : caller'[d] =
            IF d = c THEN (IF threw[c] THEN "thrown" ELSE "returned") ELSE caller[d]
  BY DEF handleExceptions, wvars, local, RInv, IInv, Typed, TypeOK
<1>2. CollectsOf(c) /\ plan[c] \subseteq Indices
  BY DEF RInv, Collects, IInv, Typed
<1>3. Collects'
  <2>1. CollectsOf(c)'
    BY <1>1, <1>2 DEF CollectsOf, Active
  <2>2. ASSUME NEW d \in Callers, d # c PROVE CollectsOf(d)'
    <3>1. CollectsOf(d)
      BY DEF RInv, Collects
    <3> QED
      BY <1>1, <2>2, <3>1 DEF CollectsOf
  <2> QED
    BY <2>1, <2>2 DEF Collects
<1>4. \A i \in plan[c] : future[c][i] \in Settled
  <2>1. CASE caller[c] = "wait"
    <3>1. \A i \in Indices : future[c][i] # "pending" /\ future[c][i] \in Futures
      BY <1>1, <2>1 DEF RInv, IInv, InStep, Typed, TypeOK, Futures
    <3> QED
      BY <1>2, <2>1, <3>1 DEF CollectsOf, Settled, Futures
  <2>2. CASE caller[c] = "inline"
    BY <1>1, <1>2, <2>2 DEF CollectsOf
  <2> QED
    BY <1>1, <2>1, <2>2
<1>5. \A i \in plan[c] : /\ Outcome[c][i] \in {"ran", "threw", "refused"}
                         /\ Outcome[c][i] = "threw" <=> future[c][i] = "exception"
  BY <1>2, <1>4, OutcomeNames DEF Outcome, Settled
<1>6. threw[c] <=> \E i \in plan[c] : Outcome[c][i] = "threw"
  BY <1>1, <1>2, <1>5 DEF CollectsOf
<1>7. Status[c] = "active"
  BY <1>1 DEF Status, AbstractStatus
<1>8. Status' = [Status EXCEPT ![c] =
          IF \E i \in plan[c] : Outcome[c][i] = "threw" THEN "thrown" ELSE "returned"]
  <2>1. AbstractStatus("thrown") = "thrown" /\ AbstractStatus("returned") = "returned"
    BY DEF AbstractStatus
  <2>2. Status' = [d \in Callers |-> AbstractStatus(caller'[d])]
    BY DEF Status, AbstractStatus
  <2>3. \A d \in Callers : AbstractStatus(caller'[d]) =
           IF d = c THEN (IF threw[c] THEN "thrown" ELSE "returned") ELSE Status[d]
    BY <1>1, <2>1 DEF Status
  <2> QED
    BY <1>6, <2>2, <2>3 DEF Status
<1>9. UNCHANGED <<Outcome, Stopping, Gone>>
  BY <1>1 DEF Outcome, Stopping, Gone
<1>10. Abstract!End(c)
  BY <1>1, <1>5, <1>7, <1>8, <1>9 DEF Abstract!End, Outcome, Status, Stopping, Gone
<1> QED
  BY <1>1, <1>3, <1>10 DEF Abstract!FNext, RInv

(* What callers see does not change when only threads and queues do. *)
LEMMA SameCollects ==
    ASSUME RInv, UNCHANGED <<future, caller, left, plan, threw>>,
           \A c \in Callers : caller[c] \in Active => plan[c] \subseteq indices'
    PROVE  threw' \in [Callers -> BOOLEAN] /\ Collects'
BY DEF RInv, Collects, CollectsOf

(* The steps of a worker. *)
LEMMA WorkerSteps ==
    ASSUME RInv, NEW i \in Indices, WorkerStep(i)
    PROVE  /\ threw' \in [Callers -> BOOLEAN] /\ Collects'
           /\ Abstract!FNext \/ UNCHANGED Abstract!fvars
<1>1. UNCHANGED <<wantStop, isThreaded, indices, caller, left, plan, threw>>
  BY DEF WorkerStep, Worker, threadLoop, run_front, flush, exit, local
<1>2. \A c \in Callers : caller[c] \in Active => plan[c] \subseteq indices'
  BY <1>1 DEF RInv, Collects, CollectsOf
<1>3. CASE threadLoop(i) \/ exit(i)
  <2>1. UNCHANGED future
    BY <1>3 DEF threadLoop, exit
  <2>2. UNCHANGED Status
    BY <1>1 DEF Status
  <2> QED
    BY <1>1, <1>2, <2>1, <2>2, SameCollects, UnseenSteps
<1>4. CASE run_front(i)
  <2>1. PICK c \in Callers : running[i] = c
    BY <1>4 DEF run_front, RInv, IInv, Typed, TypeOK
  <2>2. PICK v \in {"true", "exception"} : future' = [future EXCEPT ![c][i] = v]
    BY <1>4, <2>1 DEF run_front, runCallback
  <2>3. future[c][i] = "pending"
    BY <2>1, QueuedIsPending DEF RInv, IInv
  <2> QED
    BY <1>1, <2>2, <2>3, AnswerSteps DEF RInv
<1>5. CASE flush(i)
  <2>1. queue[i] \in Seq(Callers) /\ queue[i] # <<>>
    BY <1>5 DEF flush, RInv, IInv, Typed, TypeOK
  <2>2. PICK c \in Callers : c = Head(queue[i])
    BY <2>1, OccurrencesTail
  <2>3. PICK v \in {"true", "exception"} : future' = [future EXCEPT ![c][i] = v]
    BY <1>5, <2>2 DEF flush, runCallback
  <2>4. future[c][i] = "pending"
    BY <2>1, <2>2, QueuedIsPending DEF RInv, IInv
  <2> QED
    BY <1>1, <2>3, <2>4, AnswerSteps DEF RInv
<1> QED
  BY <1>3, <1>4, <1>5 DEF WorkerStep, Worker

(* The owner stops workers and erases indices, between the calls. *)
LEMMA OwnerSteps ==
    ASSUME RInv, NEW i \in Indices, SpuriousWakeup(i) \/ stop_worker(i) \/ erase(i)
    PROVE  /\ threw' \in [Callers -> BOOLEAN] /\ Collects'
           /\ Abstract!FNext \/ UNCHANGED Abstract!fvars
<1>1. UNCHANGED <<future, caller, left, plan, threw>>
  BY DEF SpuriousWakeup, spurious_wakeup, stop_worker, stop, erase, wvars, local
<1>2. UNCHANGED <<Outcome, Status>>
  BY <1>1 DEF Outcome, Status
<1>3. CASE SpuriousWakeup(i)
  <2>1. UNCHANGED <<wantStop, indices>>
    BY <1>3 DEF SpuriousWakeup, spurious_wakeup
  <2>2. \A c \in Callers : caller[c] \in Active => plan[c] \subseteq indices'
    BY <2>1 DEF RInv, Collects, CollectsOf
  <2> QED
    BY <1>1, <1>2, <2>1, <2>2, SameCollects, UnseenSteps
<1>4. CASE stop_worker(i)
  <2>1. indices' = indices /\ wantStop' = [wantStop EXCEPT ![i] = TRUE]
    BY <1>4 DEF stop_worker, stop
  <2>2. \A c \in Callers : caller[c] \in Active => plan[c] \subseteq indices'
    BY <2>1 DEF RInv, Collects, CollectsOf
  <2>3. Stopping' = Stopping \cup {i}
    BY <2>1 DEF Stopping, RInv, IInv, Typed, TypeOK
  <2>4. Abstract!Stop(i)
    BY <1>1, <1>2, <2>1, <2>3 DEF Abstract!Stop, Outcome, Status, Stopping, Gone
  <2> QED
    BY <1>1, <2>2, <2>4, SameCollects DEF Abstract!FNext
<1>5. CASE erase(i)
  <2>1. indices' = indices \ {i} /\ UNCHANGED wantStop
    BY <1>5 DEF erase, wvars
  <2>2. \A c \in Callers : caller[c] \notin Active
    BY <1>5 DEF erase, Quiet, Active
  <2>3. \A c \in Callers, j \in Indices : future[c][j] # "pending"
    BY <2>2 DEF RInv, IInv, InStep, Active
  <2>4. \A c \in Callers, j \in Indices : Outcome[c][j] # "accepted"
    <3>1. \A c \in Callers, j \in Indices : future[c][j] \in Futures
      BY DEF RInv, IInv, Typed, TypeOK, Futures
    <3> QED
      BY <2>3, <3>1, OutcomeNames DEF Outcome, Futures
  <2>5. Gone' = Gone \cup {i} /\ UNCHANGED Stopping
    BY <2>1 DEF Gone, Stopping
  <2>6. Abstract!Leave(i)
    BY <1>1, <1>2, <2>1, <2>4, <2>5 DEF Abstract!Leave, Outcome, Status, Stopping, Gone
  <2> QED
    BY <1>1, <2>2, <2>6, SameCollects DEF Abstract!FNext
<1> QED
  BY <1>3, <1>4, <1>5

(* Every step of ThreadedIndex is a step of FanOut or none. *)
LEMMA StepsAreAbstract ==
    RInv /\ [Next]_vars => RInv' /\ [Abstract!FNext]_(Abstract!fvars)
<1> SUFFICES ASSUME RInv, [Next]_vars
             PROVE  RInv' /\ (Abstract!FNext \/ UNCHANGED Abstract!fvars)
  OBVIOUS
<1>1. IInv'
  BY NextIInv DEF RInv
<1>2. ASSUME NEW c \in Callers, runOnIndex(c) \/ Call(c)
      PROVE  /\ threw' \in [Callers -> BOOLEAN] /\ Collects'
             /\ Abstract!FNext \/ UNCHANGED Abstract!fvars
  BY <1>2, BeginSteps, AddSteps, WaitingSteps, InlineSteps, EndSteps DEF Call
<1>3. ASSUME NEW i \in Indices,
             WorkerStep(i) \/ SpuriousWakeup(i) \/ stop_worker(i) \/ erase(i)
      PROVE  /\ threw' \in [Callers -> BOOLEAN] /\ Collects'
             /\ Abstract!FNext \/ UNCHANGED Abstract!fvars
  BY <1>3, WorkerSteps, OwnerSteps
<1>4. CASE UNCHANGED vars
  <2>1. UNCHANGED <<future, wantStop, indices, caller, left, plan, threw>>
    BY <1>4 DEF vars, wvars, local
  <2>2. UNCHANGED Status
    BY <2>1 DEF Status
  <2>3. \A c \in Callers : caller[c] \in Active => plan[c] \subseteq indices'
    BY <2>1 DEF RInv, Collects, CollectsOf
  <2> QED
    BY <1>1, <2>1, <2>2, <2>3, SameCollects, UnseenSteps DEF RInv
<1> QED
  BY <1>1, <1>2, <1>3, <1>4 DEF Next, RInv

(* The first state of ThreadedIndex is that of FanOut. *)
LEMMA InitIsAbstract == Init => RInv /\ Abstract!FInit
<1> SUFFICES ASSUME Init PROVE RInv /\ Abstract!FInit
  OBVIOUS
<1>1. threw \in [Callers -> BOOLEAN] /\ Collects
  BY DEF Init, WInit, Collects, CollectsOf, Active
<1>2. Abstract!FInit
  <2>1. Outcome = [c \in Callers |-> [i \in Indices |-> "none"]]
    BY OutcomeNames DEF Init, WInit, Outcome
  <2>2. Status = [c \in Callers |-> "idle"]
    BY DEF Init, Status, AbstractStatus
  <2>3. Stopping = {} /\ Gone = {}
    BY DEF Init, WInit, Stopping, Gone
  <2> QED
    BY <2>1, <2>2, <2>3 DEF Abstract!FInit, Outcome, Status, Stopping, Gone, Init
<1> QED
  BY <1>1, <1>2, InitIInv DEF RInv

(* runOnIndex with its threads, queues and futures does what FanOut says:    *)
(* the function runs once on every index of the call, the call ends after    *)
(* the last of them and throws exactly if one of them threw, and a worker    *)
(* that is stopped finishes what it accepted before its index goes.          *)
THEOREM Implements == Spec => ImplementsFanOut
<1>1. Init => RInv /\ Abstract!FInit
  BY InitIsAbstract
<1>2. RInv /\ [Next]_vars => RInv' /\ [Abstract!FNext]_(Abstract!fvars)
  BY StepsAreAbstract
<1> QED
  BY <1>1, <1>2, PTL DEF Spec, ImplementsFanOut, Abstract!FSpec
===============================================================================
