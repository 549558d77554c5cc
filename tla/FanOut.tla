--------------------------------- MODULE FanOut ---------------------------------
(***************************************************************************)
(* What runOnIndex promises: the function of a call runs on every index    *)
(* of the collection, once, and the call ends after the last of them, with *)
(* an exception if and only if one of them threw.  An index that is being  *)
(* removed refuses new functions, finishes those it accepted, and then is  *)
(* gone.  Threads, queues and futures are left open.                       *)
(***************************************************************************)
CONSTANTS Callers, Indices

VARIABLES outcome,   \* what became of the function of each call on each index
          status,    \* each caller: idle, active, returned or thrown
          plan,      \* the indices the call of each caller is for
          stopping,  \* indices that refuse functions
          gone       \* indices that were removed

fvars == <<outcome, status, plan, stopping, gone>>

FInit ==
    /\ outcome = [c \in Callers |-> [i \in Indices |-> "none"]]
    /\ status = [c \in Callers |-> "idle"]
    /\ plan = [c \in Callers |-> {}]
    /\ stopping = {}
    /\ gone = {}

Begin(c) ==
    /\ status[c] # "active"
    /\ status' = [status EXCEPT ![c] = "active"]
    /\ plan' = [plan EXCEPT ![c] = Indices \ gone]
    /\ outcome' = [outcome EXCEPT ![c] = [i \in Indices |-> "none"]]
    /\ UNCHANGED <<stopping, gone>>

Becomes(c, i, from, to) ==
    /\ status[c] = "active"
    /\ i \in plan[c] \ gone
    /\ outcome[c][i] \in from
    /\ outcome' = [outcome EXCEPT ![c][i] = to]
    /\ UNCHANGED <<status, plan, stopping, gone>>

Accept(c, i) == i \notin stopping /\ Becomes(c, i, {"none"}, "accepted")

Refuse(c, i) == i \in stopping /\ Becomes(c, i, {"none"}, "refused")

Run(c, i) == \E end \in {"ran", "threw"} : Becomes(c, i, {"none", "accepted"}, end)

End(c) ==
    /\ status[c] = "active"
    /\ \A i \in plan[c] : outcome[c][i] \in {"ran", "threw", "refused"}
    /\ status' = [status EXCEPT ![c] =
          IF \E i \in plan[c] : outcome[c][i] = "threw" THEN "thrown" ELSE "returned"]
    /\ UNCHANGED <<outcome, plan, stopping, gone>>

Stop(i) ==
    /\ stopping' = stopping \union {i}
    /\ UNCHANGED <<outcome, status, plan, gone>>

(* no function that was accepted is left behind, no call is halfway *)
Leave(i) ==
    /\ \A c \in Callers : i \in plan[c] => outcome[c][i] # "accepted"
    /\ gone' = gone \union {i}
    /\ UNCHANGED <<outcome, status, plan, stopping>>

FNext ==
    \/ \E c \in Callers : Begin(c) \/ End(c)
    \/ \E c \in Callers, i \in Indices : Accept(c, i) \/ Refuse(c, i) \/ Run(c, i)
    \/ \E i \in Indices : Stop(i) \/ Leave(i)

FSpec == FInit /\ [][FNext]_fvars
================================================================================
