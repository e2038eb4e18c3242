--------------------------- MODULE TaskDispatcher ---------------------------
(* What ITaskDispatcher (lib/include/public/ITaskDispatcher.hpp) promises   *)
(* those who queue tasks, whatever queues, locks and threads are behind it: *)
(* tasks run one at a time and once, a task that Cancel reports as          *)
(* cancelled does not run any more, and none is left waiting for ever.      *)
CONSTANT Tasks

VARIABLES
    status,     \* what has become of each task
    told,       \* tasks whose Cancel has returned true to another thread
    stopped     \* the dispatcher has no thread any more

vars == <<status, told, stopped>>

Becomes(a, from, to) ==
    /\ status[a] = from
    /\ status' = [status EXCEPT ![a] = to]

Idle == \A a \in Tasks : status[a] # "running"

Init ==
    /\ status = [a \in Tasks |-> "new"]
    /\ told = {}
    /\ stopped = FALSE

Queue(a) == Becomes(a, "new", "queued") /\ UNCHANGED <<told, stopped>>

Run(a) == ~stopped /\ Idle /\ Becomes(a, "queued", "running") /\ UNCHANGED <<told, stopped>>

Return(a) == Becomes(a, "running", "done") /\ UNCHANGED <<told, stopped>>

\* Cancel returns true: the task is kept from running, or has run and returned.
Cancel(a) ==
    /\ \/ Becomes(a, "queued", "cancelled")
       \/ status[a] \in {"done", "cancelled"} /\ UNCHANGED status
    /\ told' = told \cup {a}
    /\ UNCHANGED stopped

\* The end of Join.
Stop == Idle /\ stopped' = TRUE /\ UNCHANGED <<status, told>>

Next ==
    \/ \E a \in Tasks : Queue(a) \/ Run(a) \/ Return(a) \/ Cancel(a)
    \/ Stop

Spec == Init /\ [][Next]_vars

\* A task that runs returns, and one that waits runs or is cancelled, unless the dispatcher stops.
Leave(a) == ~stopped /\ status[a] = "queued" /\ (Run(a) \/ Cancel(a))

FairSpec ==
    /\ Spec
    /\ \A a \in Tasks : WF_vars(Return(a)) /\ WF_vars(Leave(a))
=============================================================================
