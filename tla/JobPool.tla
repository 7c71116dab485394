------------------------------- MODULE JobPool -------------------------------
(***************************************************************************)
(* What ThreadPool promises to the code that uses it: a job handed to      *)
(* run_async runs exactly once, and the destructor returns when every such *)
(* job has run.                                                            *)
(***************************************************************************)
CONSTANTS Jobs

VARIABLES
    state,  \* state[j]: "new", "queued", "running" or "finished"
    open    \* the destructor has not returned

Init ==
    /\ state = [j \in Jobs |-> "new"]
    /\ open = TRUE

Move(j, from, to) ==
    /\ state[j] = from
    /\ state' = [state EXCEPT ![j] = to]
    /\ UNCHANGED open

Submit(j) == open /\ Move(j, "new", "queued")
Start(j) == open /\ Move(j, "queued", "running")
Finish(j) == open /\ Move(j, "running", "finished")

Destroyed ==
    /\ \A j \in Jobs : state[j] \in {"new", "finished"}
    /\ open' = FALSE
    /\ UNCHANGED state

Next == (\E j \in Jobs : Submit(j) \/ Start(j) \/ Finish(j)) \/ Destroyed

Spec == Init /\ [][Next]_<<state, open>>

==============================================================================
