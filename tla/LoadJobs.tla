------------------------------ MODULE LoadJobs ------------------------------
(***************************************************************************)
(* What load_model requests do to a worker, seen from outside: a request   *)
(* that was accepted ends once, by a switch to its model or by a failure,  *)
(* in whatever order; a worker that dies forgets its requests.  Module     *)
(* Models relies on this; module Worker has the tasks, files and children  *)
(* that implement it.                                                      *)
(***************************************************************************)
CONSTANTS
    Node,     \* workers
    Request,  \* load_model requests
    Model,    \* what they ask for
    None      \* no model

VARIABLES
    jobs,     \* jobs[n]: accepted requests of n, each with its model
    serving   \* serving[n]: the model n advertises

vars == <<jobs, serving>>

Accepted == [req : Request, model : Model]

Init ==
    /\ jobs = [n \in Node |-> {}]
    /\ serving = [n \in Node |-> None]

Accept(n, j) ==
    /\ \A k \in jobs[n] : k.req # j.req
    /\ jobs' = [jobs EXCEPT ![n] = @ \cup {j}]
    /\ UNCHANGED serving

End(n, j) ==
    /\ j \in jobs[n]
    /\ jobs' = [jobs EXCEPT ![n] = @ \ {j}]

Switch(n, j) ==
    /\ End(n, j)
    /\ serving' = [serving EXCEPT ![n] = j.model]

\* The download failed: the worker serves what it served before.
Fail(n, j) ==
    /\ End(n, j)
    /\ UNCHANGED serving

\* The new llama-server failed, and the old one is stopped already.
SwitchFails(n, j) ==
    /\ End(n, j)
    /\ serving' = [serving EXCEPT ![n] = None]

Die(n) ==
    /\ jobs' = [jobs EXCEPT ![n] = {}]
    /\ serving' = [serving EXCEPT ![n] = None]

Next ==
    \E n \in Node :
        \/ \E j \in Accepted : Accept(n, j) \/ Switch(n, j) \/ Fail(n, j) \/ SwitchFails(n, j)
        \/ Die(n)

Spec == Init /\ [][Next]_vars
=============================================================================
