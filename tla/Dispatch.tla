------------------------------ MODULE Dispatch ------------------------------
(***************************************************************************)
(* A chat request on its way through the gateway's proxy (gateway/src/     *)
(* proxy.rs), the dispatcher (openai-api/src/server.rs), a worker's        *)
(* llama-server and the inference log of the management backend            *)
(* (mgmt-backend/src/handlers/inference.rs).                               *)
(*                                                                         *)
(* The handler makes up to three HTTP calls, one after the other, on a     *)
(* client with a total timeout (common/src/clients.rs): the coordinator's  *)
(* eligible nodes, the worker, the log.  The timeout of the worker call    *)
(* covers the body, which a streaming handler opens before it logs and     *)
(* reads after it.  Which node was chosen makes no difference here: module *)
(* Registry says which nodes are listed.                                   *)
(***************************************************************************)
EXTENDS Naturals

CONSTANTS
    Request,        \* chat requests
    Timeout,        \* DEFAULT_TIMEOUT, 15 s
    GatewayTimeout  \* the gateway's client, 60 s

ASSUME DispatchAssumption ==
    /\ Timeout \in Nat \ {0}
    /\ GatewayTimeout \in Nat
    /\ 3 * Timeout < GatewayTimeout

VARIABLES
    mgmt,       \* the dispatcher knows a management backend
    req,        \* req[r]: where the handler of r is
    log,        \* log[r]: the inference_log rows of r
    unlogged    \* history: requests whose log call failed before the INSERT

vars == <<mgmt, req, log, unlogged>>

-----------------------------------------------------------------------------

Phase == {"new", "listing", "forwarding", "logging", "streaming", "done"}

\* result: what the trace says; call: time since the current call began;
\* upstream: time since the worker call began, for a streamed body; body: that
\* body at the worker's end; answer: what the customer gets, "empty" is a
\* status 200 whose body is lost; age: time since the gateway's call began.
RequestState ==
    [phase : Phase, stream : BOOLEAN, result : {"none", "ok", "error"},
     call : 0 .. Timeout, upstream : 0 .. Timeout,
     body : {"none", "open", "complete", "broken"},
     answer : {"none", "ok", "error", "empty", "gone"},
     age : 0 .. GatewayTimeout]

NewRequest ==
    [phase |-> "new", stream |-> FALSE, result |-> "none", call |-> 0, upstream |-> 0,
     body |-> "none", answer |-> "none", age |-> 0]

LogRow == [rows : 0 .. 1, result : {"none", "ok", "error"}]

TypeOK ==
    /\ mgmt \in BOOLEAN
    /\ req \in [Request -> RequestState]
    /\ log \in [Request -> LogRow]
    /\ unlogged \subseteq Request

Init ==
    /\ mgmt \in BOOLEAN
    /\ req = [r \in Request |-> NewRequest]
    /\ log = [r \in Request |-> [rows |-> 0, result |-> "none"]]
    /\ unlogged = {}

\* The next phase of r, with a fresh call.
Enter(r, phase) ==
    req' = [req EXCEPT ![r] = [@ EXCEPT !.phase = phase, !.call = 0]]

\* r leaves its call with a result for the trace and goes on to flush_log.
Trace(r, result) ==
    req' = [req EXCEPT ![r] = [@ EXCEPT !.phase = "logging", !.call = 0, !.result = result]]

Done(r, answer) ==
    req' = [req EXCEPT ![r] = [@ EXCEPT !.phase = "done", !.answer = answer]]

\* Mutated: the log call has no timeout.
Due_NoLogTimeout(r) ==
    \/ req[r].phase \in {"listing", "forwarding"} /\ req[r].call = Timeout
    \/ req[r].phase = "streaming" /\ req[r].upstream = Timeout

\* A call has used up its timeout.
Due(r) ==
    \/ req[r].phase \in {"listing", "forwarding", "logging"} /\ req[r].call = Timeout
    \/ req[r].phase = "streaming" /\ req[r].upstream = Timeout

\* The handler does not wait: it has something to read, or nobody to log to.
Ready(r) ==
    \/ req[r].phase = "streaming" /\ req[r].body # "open"
    \/ req[r].phase = "logging" /\ ~mgmt

-----------------------------------------------------------------------------
(* The handler. *)

chat_completions(r, stream) ==
    /\ req[r].phase = "new"
    /\ req' = [req EXCEPT ![r] = [@ EXCEPT !.phase = "listing", !.stream = stream]]
    /\ UNCHANGED <<mgmt, log, unlogged>>

\* The coordinator lists a node with an inference URL.
dispatch(r) ==
    /\ req[r].phase = "listing"
    /\ Enter(r, "forwarding")
    /\ UNCHANGED <<mgmt, log, unlogged>>

\* It answers with an error or not at all, lists no node, or none with a URL.
DispatchFailure(r) ==
    /\ req[r].phase = "listing"
    /\ Trace(r, "error")
    /\ UNCHANGED <<mgmt, log, unlogged>>

\* The whole answer of the worker has arrived and can be parsed.
forward_chat_to_worker(r) ==
    /\ req[r].phase = "forwarding"
    /\ ~req[r].stream
    /\ Trace(r, "ok")
    /\ UNCHANGED <<mgmt, log, unlogged>>

\* Mutated: an error return without the log.
WorkerFails_Unlogged(r) ==
    /\ req[r].phase = "forwarding"
    /\ Done(r, "error")
    /\ UNCHANGED <<mgmt, log, unlogged>>

\* The worker cannot be reached, is too slow or answers with an error.
WorkerFails(r) ==
    /\ req[r].phase = "forwarding"
    /\ Trace(r, "error")
    /\ UNCHANGED <<mgmt, log, unlogged>>

\* The head of a streamed answer; its body stays on the wire.
chat_completions_stream(r) ==
    /\ req[r].phase = "forwarding"
    /\ req[r].stream
    /\ req' = [req EXCEPT ![r] = [@ EXCEPT !.phase = "logging", !.call = 0, !.result = "ok",
                                           !.upstream = req[r].call, !.body = "open"]]
    /\ UNCHANGED <<mgmt, log, unlogged>>

\* Mutated: the log call is repeated when its answer is lost.
LogInsert_Again(r) ==
    /\ req[r].result # "none"
    /\ mgmt
    /\ log' = [log EXCEPT ![r] = [rows |-> @.rows + 1, result |-> req[r].result]]
    /\ UNCHANGED <<mgmt, req, unlogged>>

\* The log call reaches the backend, which inserts the row; the handler may have
\* given the call up by then.
LogInsert(r) ==
    /\ req[r].result # "none"
    /\ mgmt
    /\ log[r].rows = 0
    /\ log' = [log EXCEPT ![r] = [rows |-> 1, result |-> req[r].result]]
    /\ UNCHANGED <<mgmt, req, unlogged>>

\* What follows flush_log: the body of a stream, or the end.
Respond(r) ==
    IF req[r].stream /\ req[r].result = "ok"
    THEN Enter(r, "streaming")
    ELSE Done(r, req[r].result)

\* The log call is answered, or there is no backend to call.
flush_log(r) ==
    /\ req[r].phase = "logging"
    /\ mgmt => log[r].rows = 1
    /\ Respond(r)
    /\ UNCHANGED <<mgmt, log, unlogged>>

\* The log call fails, before or after the INSERT; the handler goes on.
LogFails(r) ==
    /\ req[r].phase = "logging"
    /\ mgmt
    /\ unlogged' = IF log[r].rows = 0 THEN unlogged \cup {r} ELSE unlogged
    /\ Respond(r)
    /\ UNCHANGED <<mgmt, log>>

\* The body is passed through in time.
StreamEnds(r) ==
    /\ req[r].phase = "streaming"
    /\ req[r].body = "complete"
    /\ req[r].upstream < Timeout
    /\ Done(r, "ok")
    /\ UNCHANGED <<mgmt, log, unlogged>>

\* Mutated: the client of the stream has no total timeout.
StreamCut_NoTimeout(r) ==
    /\ req[r].phase = "streaming"
    /\ req[r].body = "broken"
    /\ Done(r, "empty")
    /\ UNCHANGED <<mgmt, log, unlogged>>

\* The body breaks off, or the total timeout of the worker call has passed: the
\* gateway turns what it got into a status 200 without a body.
StreamCut(r) ==
    /\ req[r].phase = "streaming"
    /\ req[r].body = "broken" \/ req[r].upstream = Timeout
    /\ Done(r, "empty")
    /\ UNCHANGED <<mgmt, log, unlogged>>

-----------------------------------------------------------------------------
(* The others. *)

\* The worker ends a stream in time, or dies.
WorkerEnds(r, body) ==
    /\ req[r].body = "open"
    /\ req[r].phase \in {"logging", "streaming"}
    /\ req[r].upstream < Timeout
    /\ req' = [req EXCEPT ![r].body = body]
    /\ UNCHANGED <<mgmt, log, unlogged>>

\* The customer goes away: gateway and dispatcher drop their handlers.
Disconnect(r) ==
    /\ req[r].phase \notin {"new", "done"}
    /\ Done(r, "gone")
    /\ UNCHANGED <<mgmt, log, unlogged>>

\* The gateway would give up at GatewayTimeout; AnsweredInTime says that it
\* never comes to that.
Older(q) ==
    IF q.phase \in {"new", "done"} THEN q
    ELSE [q EXCEPT !.call = IF @ < Timeout THEN @ + 1 ELSE @,
                   !.upstream = IF q.body # "none" /\ @ < Timeout THEN @ + 1 ELSE @,
                   !.age = IF @ < GatewayTimeout THEN @ + 1 ELSE @]

\* Time waits for timeouts and for a handler that does not wait.
Tick ==
    /\ \E r \in Request : req[r].phase \notin {"new", "done"}
    /\ \A r \in Request : ~Due(r) /\ ~Ready(r)
    /\ req' = [r \in Request |-> Older(req[r])]
    /\ UNCHANGED <<mgmt, log, unlogged>>

-----------------------------------------------------------------------------

\* Whatever ends a call that is due, or goes on at once.
Expire(r) ==
    /\ Due(r) \/ Ready(r)
    /\ \/ DispatchFailure(r) \/ WorkerFails(r) \/ flush_log(r) \/ LogFails(r)
       \/ StreamEnds(r) \/ StreamCut(r)

HandlerNext(r) ==
    \/ \E stream \in BOOLEAN : chat_completions(r, stream)
    \/ dispatch(r) \/ DispatchFailure(r)
    \/ forward_chat_to_worker(r) \/ WorkerFails(r) \/ chat_completions_stream(r)
    \/ LogInsert(r) \/ flush_log(r) \/ LogFails(r)
    \/ StreamEnds(r) \/ StreamCut(r)
    \/ \E body \in {"complete", "broken"} : WorkerEnds(r, body)
    \/ Disconnect(r)

Next == (\E r \in Request : HandlerNext(r)) \/ Tick

Spec == Init /\ [][Next]_vars

\* Time passes and a timeout ends its call; no call need ever be answered.
FairSpec ==
    /\ Spec
    /\ WF_vars(Tick)
    /\ \A r \in Request : WF_vars(Expire(r))

-----------------------------------------------------------------------------
(* Properties. *)
\* A request ends, for the customer, before the gateway loses patience, so the
\* dispatcher is never cut off while it waits for the coordinator, the worker
\* or the log, one timeout each (clients.rs:29, gateway state.rs:52).
AnsweredInTime ==
    \A r \in Request : req[r].phase # "done" => req[r].age < GatewayTimeout

\* The inference log agrees with the answers (server.rs:98-100, 524-527): unless
\* its log call failed, an answered request has one row, and no row says ok of
\* a request that was answered with an error or the other way round.
LogAgrees ==
    \A r \in Request :
        /\ (mgmt /\ req[r].answer \in {"ok", "error", "empty"} /\ r \notin unlogged)
              => log[r].rows = 1
        /\ (log[r].rows > 0 /\ req[r].answer = "error") => log[r].result = "error"
        /\ (log[r].rows > 0 /\ req[r].answer \in {"ok", "empty"}) => log[r].result = "ok"

\* Whoever hangs, coordinator, worker or backend, the customer hears something.
EventuallyAnswered ==
    \A r \in Request : req[r].phase # "new" ~> req[r].phase = "done"

\* What makes AnsweredInTime inductive.  Each phase adds at most one timeout; a
\* stream is read only while the worker call itself is young, which bounds its
\* age a second time, whatever the log took.
Timely(q) ==
    /\ q.phase = "new" => q.age = 0 /\ q.call = 0
    /\ q.phase = "listing" => q.age <= q.call
    /\ q.phase = "forwarding" => q.age <= Timeout + q.call
    /\ q.phase = "logging" => q.age <= 2 * Timeout + q.call
    /\ q.phase = "streaming" => q.age <= 3 * Timeout /\ q.body # "none"
    /\ q.phase \in {"new", "listing", "forwarding"} => q.body = "none"
    /\ q.phase \in {"logging", "streaming"} /\ q.body # "none" /\ q.upstream < Timeout
          => q.age <= Timeout + q.upstream
    /\ q.phase = "logging" /\ q.stream /\ q.result = "ok" => q.body # "none"

TimeInv == TypeOK /\ \A r \in Request : Timely(req[r])

\* What makes LogAgrees inductive: a row says what the trace says, and a trace
\* that has passed flush_log has its row.
LogInv ==
    /\ TypeOK
    /\ \A r \in Request :
          /\ req[r].phase # "done" => req[r].answer = "none"
          /\ req[r].phase \in {"new", "listing", "forwarding"} =>
                req[r].result = "none" /\ log[r].rows = 0
          /\ req[r].phase = "logging" => req[r].result # "none"
          /\ req[r].phase = "streaming" => req[r].result = "ok"
          /\ log[r].rows > 0 => log[r].result = req[r].result
          /\ req[r].answer = "error" => req[r].result = "error"
          /\ req[r].answer \in {"ok", "empty"} => req[r].result = "ok"
          /\ (req[r].phase = "streaming" \/ req[r].answer \in {"ok", "error", "empty"})
                => log[r].rows = 1 \/ ~mgmt \/ r \in unlogged

\* server.rs:544-545: if the management backend is down, the customer still gets
\* the answer that the worker gave in time.
LogNeverHurts ==
    \A r \in Request : req[r].answer = "empty" => req[r].body # "complete"
=============================================================================
