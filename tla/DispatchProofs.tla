--------------------------- MODULE DispatchProofs ---------------------------
(***************************************************************************)
(* Theorems about Dispatch, for any number of requests and any timeouts.   *)
(***************************************************************************)
EXTENDS Dispatch, TLAPS

\* A handler's record, taken apart.
LEMMA RequestFacts ==
    ASSUME TypeOK, NEW r \in Request
    PROVE  /\ req[r] \in RequestState
           /\ req[r].phase \in Phase
           /\ req[r].stream \in BOOLEAN
           /\ req[r].result \in {"none", "ok", "error"}
           /\ req[r].call \in 0 .. Timeout
           /\ req[r].upstream \in 0 .. Timeout
           /\ req[r].body \in {"none", "open", "complete", "broken"}
           /\ req[r].answer \in {"none", "ok", "error", "empty", "gone"}
           /\ req[r].age \in 0 .. GatewayTimeout
BY DEF TypeOK, RequestState

LEMMA LogFacts ==
    ASSUME TypeOK, NEW r \in Request
    PROVE  log[r] \in LogRow /\ log[r].rows \in 0 .. 1
BY DEF TypeOK, LogRow

\* A step of r replaces the record of r.
LEMMA StepFacts ==
    ASSUME TypeOK, NEW r \in Request, NEW q \in RequestState, req' = [req EXCEPT ![r] = q]
    PROVE  /\ req' \in [Request -> RequestState]
           /\ req'[r] = q
           /\ \A s \in Request : s # r => req'[s] = req[s]
BY DEF TypeOK

\* The records the steps of a handler make.
Entered(q, phase) == [q EXCEPT !.phase = phase, !.call = 0]

Traced(q, result) == [q EXCEPT !.phase = "logging", !.call = 0, !.result = result]

Ended(q, answer) == [q EXCEPT !.phase = "done", !.answer = answer]

Started(q, stream) == [q EXCEPT !.phase = "listing", !.stream = stream]

Opened(q) == [q EXCEPT !.phase = "logging", !.call = 0, !.result = "ok",
                       !.upstream = q.call, !.body = "open"]

BodyEnded(q, body) == [q EXCEPT !.body = body]

\* Every step of a handler is one of these; it either leaves req alone and
\* inserts a row, or leaves the rows alone.
HandlerStep(r, q) ==
    \/ \E stream \in BOOLEAN : req[r].phase = "new" /\ q = Started(req[r], stream)
    \/ req[r].phase = "listing" /\ q = Entered(req[r], "forwarding")
    \/ req[r].phase \in {"listing", "forwarding"} /\ q = Traced(req[r], "error")
    \/ req[r].phase = "forwarding" /\ ~req[r].stream /\ q = Traced(req[r], "ok")
    \/ req[r].phase = "forwarding" /\ req[r].stream /\ q = Opened(req[r])
    \/ /\ req[r].phase = "logging"
       /\ req[r].stream /\ req[r].result = "ok"
       /\ q = Entered(req[r], "streaming")
    \/ /\ req[r].phase = "logging"
       /\ ~(req[r].stream /\ req[r].result = "ok")
       /\ q = Ended(req[r], req[r].result)
    \/ \E answer \in {"ok", "empty"} :
          req[r].phase = "streaming" /\ q = Ended(req[r], answer)
    \/ \E body \in {"complete", "broken"} :
          /\ req[r].phase \in {"logging", "streaming"}
          /\ req[r].body = "open"
          /\ q = BodyEnded(req[r], body)
    \/ req[r].phase \notin {"new", "done"} /\ q = Ended(req[r], "gone")

LEMMA HandlerFacts ==
    ASSUME TypeOK, NEW r \in Request, HandlerNext(r)
    PROVE  \/ LogInsert(r)
           \/ \E q : /\ HandlerStep(r, q)
                     /\ req' = [req EXCEPT ![r] = q]
                     /\ UNCHANGED <<mgmt, log>>
                     /\ unlogged \subseteq unlogged'
                     /\ unlogged' \subseteq Request
                     /\ req[r].phase = "logging" /\ q.phase \in {"streaming", "done"}
                           => q.answer = "gone" \/ log[r].rows = 1 \/ ~mgmt \/ r \in unlogged'
<1> DEFINE Goal(q) == /\ HandlerStep(r, q)
                      /\ req' = [req EXCEPT ![r] = q]
                      /\ UNCHANGED <<mgmt, log>>
                      /\ unlogged \subseteq unlogged'
                      /\ unlogged' \subseteq Request
                      /\ req[r].phase = "logging" /\ q.phase \in {"streaming", "done"}
                            => q.answer = "gone" \/ log[r].rows = 1 \/ ~mgmt \/ r \in unlogged'
<1>t. unlogged \subseteq Request /\ req \in [Request -> RequestState]
  BY DEF TypeOK
<1>f. /\ req[r] \in RequestState
      /\ \A p : Entered(req[r], p).phase = p
      /\ \A x : Traced(req[r], x).phase = "logging"
      /\ \A a : Ended(req[r], a).phase = "done" /\ Ended(req[r], a).answer = a
      /\ \A s : Started(req[r], s).phase = "listing"
      /\ Opened(req[r]).phase = "logging"
      /\ \A b : BodyEnded(req[r], b).phase = req[r].phase
  BY RequestFacts DEF RequestState, Entered, Traced, Ended, Started, Opened, BodyEnded
<1>1. ASSUME NEW stream \in BOOLEAN, chat_completions(r, stream) PROVE \E q : Goal(q)
  <2>1. Goal(Started(req[r], stream))
    BY <1>1, <1>t, <1>f DEF chat_completions, HandlerStep, Started
  <2> QED
    BY <2>1
<1>2. CASE dispatch(r)
  <2>1. Goal(Entered(req[r], "forwarding"))
    BY <1>2, <1>t, <1>f DEF dispatch, HandlerStep, Enter, Entered
  <2> QED
    BY <2>1
<1>3. CASE DispatchFailure(r) \/ WorkerFails(r)
  <2>1. Goal(Traced(req[r], "error"))
    BY <1>3, <1>t, <1>f DEF DispatchFailure, WorkerFails, HandlerStep, Trace, Traced
  <2> QED
    BY <2>1
<1>4. CASE forward_chat_to_worker(r)
  <2>1. Goal(Traced(req[r], "ok"))
    BY <1>4, <1>t, <1>f DEF forward_chat_to_worker, HandlerStep, Trace, Traced
  <2> QED
    BY <2>1
<1>5. CASE chat_completions_stream(r)
  <2>1. Goal(Opened(req[r]))
    BY <1>5, <1>t, <1>f DEF chat_completions_stream, HandlerStep, Opened
  <2> QED
    BY <2>1
<1>6. CASE flush_log(r) \/ LogFails(r)
  <2>1. /\ req[r].phase = "logging" /\ Respond(r) /\ UNCHANGED <<mgmt, log>>
        /\ unlogged \subseteq unlogged' /\ unlogged' \subseteq Request
        /\ log[r].rows = 1 \/ ~mgmt \/ r \in unlogged'
    BY <1>6, <1>t, LogFacts DEF flush_log, LogFails
  <2>2. CASE req[r].stream /\ req[r].result = "ok"
    <3>1. Goal(Entered(req[r], "streaming"))
      BY <2>1, <2>2 DEF HandlerStep, Respond, Enter, Entered
    <3> QED
      BY <3>1
  <2>3. CASE ~(req[r].stream /\ req[r].result = "ok")
    <3>1. Goal(Ended(req[r], req[r].result))
      BY <2>1, <2>3 DEF HandlerStep, Respond, Done, Ended
    <3> QED
      BY <3>1
  <2> QED
    BY <2>2, <2>3
<1>7. CASE StreamEnds(r)
  <2>1. Goal(Ended(req[r], "ok"))
    BY <1>7, <1>t, <1>f DEF StreamEnds, HandlerStep, Done, Ended
  <2> QED
    BY <2>1
<1>8. CASE StreamCut(r)
  <2>1. Goal(Ended(req[r], "empty"))
    BY <1>8, <1>t, <1>f DEF StreamCut, HandlerStep, Done, Ended
  <2> QED
    BY <2>1
<1>9. ASSUME NEW body \in {"complete", "broken"}, WorkerEnds(r, body) PROVE \E q : Goal(q)
  <2>1. Goal(BodyEnded(req[r], body))
    <3>1. HandlerStep(r, BodyEnded(req[r], body))
      BY <1>9 DEF WorkerEnds, HandlerStep
    <3>2. req' = [req EXCEPT ![r] = BodyEnded(req[r], body)]
      BY <1>9 DEF WorkerEnds, BodyEnded
    <3>3. BodyEnded(req[r], body).phase = req[r].phase
      BY <1>f
    <3> QED
      BY <1>9, <1>t, <3>1, <3>2, <3>3 DEF WorkerEnds
  <2> QED
    BY <2>1
<1>10. CASE Disconnect(r)
  <2>1. Goal(Ended(req[r], "gone"))
    BY <1>10, <1>t, <1>f DEF Disconnect, HandlerStep, Done, Ended
  <2> QED
    BY <2>1
<1> QED
  BY <1>1, <1>2, <1>3, <1>4, <1>5, <1>6, <1>7, <1>8, <1>9, <1>10 DEF HandlerNext
LEMMA RecordFacts ==
    ASSUME TypeOK, NEW r \in Request, NEW q, HandlerStep(r, q)
    PROVE  q \in RequestState
<1>0. 0 \in 0 .. Timeout
  BY DispatchAssumption
<1> USE RequestFacts, <1>0 DEF RequestState, Phase
<1>1. \A stream \in BOOLEAN : Started(req[r], stream) \in RequestState
  BY DEF Started
<1>2. \A p \in Phase : Entered(req[r], p) \in RequestState
  BY DEF Entered
<1>3. \A x \in {"ok", "error"} : Traced(req[r], x) \in RequestState
  BY DEF Traced
<1>4. Opened(req[r]) \in RequestState
  BY DEF Opened
<1>5. \A a \in {"none", "ok", "error", "empty", "gone"} : Ended(req[r], a) \in RequestState
  BY DEF Ended
<1>6. \A b \in {"complete", "broken"} : BodyEnded(req[r], b) \in RequestState
  BY DEF BodyEnded
<1>7. req[r].result \in {"none", "ok", "error", "empty", "gone"}
  OBVIOUS
<1> HIDE RequestFacts, <1>0 DEF RequestState
<1> QED
  BY <1>1, <1>2, <1>3, <1>4, <1>5, <1>6, <1>7 DEF HandlerStep

-----------------------------------------------------------------------------
(* Time. *)

LEMMA InitTime == Init => TimeInv
<1> SUFFICES ASSUME Init PROVE TimeInv
  OBVIOUS
<1>1. NewRequest \in RequestState
  BY DispatchAssumption DEF NewRequest, RequestState, Phase
<1>2. TypeOK
  BY <1>1 DEF Init, TypeOK, LogRow
<1>3. Timely(NewRequest)
  BY DEF NewRequest, Timely
<1> QED
  BY <1>2, <1>3 DEF Init, TimeInv

LEMMA TimelyStep ==
    ASSUME TypeOK, NEW r \in Request, Timely(req[r]), NEW q, HandlerStep(r, q)
    PROVE  Timely(q)
<1> USE RequestFacts, DispatchAssumption DEF RequestState
<1>1. ASSUME NEW stream \in BOOLEAN, req[r].phase = "new", q = Started(req[r], stream)
      PROVE  Timely(q)
  BY <1>1 DEF Timely, Started
<1>2. CASE req[r].phase = "listing" /\ q = Entered(req[r], "forwarding")
  BY <1>2 DEF Timely, Entered
<1>3. ASSUME NEW x \in {"ok", "error"}, req[r].phase \in {"listing", "forwarding"},
             q = Traced(req[r], x), x = "ok" => ~req[r].stream
      PROVE  Timely(q)
  BY <1>3 DEF Timely, Traced
<1>4. CASE req[r].phase = "forwarding" /\ q = Opened(req[r])
  BY <1>4 DEF Timely, Opened
<1>5. CASE /\ req[r].phase = "logging" /\ req[r].stream /\ req[r].result = "ok"
           /\ q = Entered(req[r], "streaming")
  BY <1>5 DEF Timely, Entered
<1>6. ASSUME NEW a, q = Ended(req[r], a) PROVE Timely(q)
  BY <1>6 DEF Timely, Ended
<1>7. ASSUME NEW b \in {"complete", "broken"}, req[r].body = "open",
             req[r].phase \in {"logging", "streaming"}, q = BodyEnded(req[r], b)
      PROVE  Timely(q)
  BY <1>7 DEF Timely, BodyEnded
<1> QED
  BY <1>1, <1>2, <1>3, <1>4, <1>5, <1>6, <1>7 DEF HandlerStep

LEMMA OlderFacts ==
    ASSUME NEW q \in RequestState
    PROVE  /\ Older(q) \in RequestState
           /\ Older(q).phase = q.phase /\ Older(q).stream = q.stream
           /\ Older(q).result = q.result /\ Older(q).answer = q.answer
           /\ Older(q).body = q.body
           /\ q.phase \in {"new", "done"} => Older(q) = q
           /\ q.phase \notin {"new", "done"} =>
                 /\ Older(q).call = IF q.call < Timeout THEN q.call + 1 ELSE q.call
                 /\ Older(q).upstream = IF q.body # "none" /\ q.upstream < Timeout
                                        THEN q.upstream + 1 ELSE q.upstream
                 /\ Older(q).age = IF q.age < GatewayTimeout THEN q.age + 1 ELSE q.age
<1>1. CASE q.phase \in {"new", "done"}
  BY <1>1 DEF Older
<1>2. CASE q.phase \notin {"new", "done"}
  <2> DEFINE c == IF q.call < Timeout THEN q.call + 1 ELSE q.call
             u == IF q.body # "none" /\ q.upstream < Timeout THEN q.upstream + 1 ELSE q.upstream
             a == IF q.age < GatewayTimeout THEN q.age + 1 ELSE q.age
  <2>1. Older(q) = [q EXCEPT !.call = c, !.upstream = u, !.age = a]
    BY <1>2 DEF Older, RequestState
  <2>2. c \in 0 .. Timeout /\ u \in 0 .. Timeout /\ a \in 0 .. GatewayTimeout
    BY DispatchAssumption DEF RequestState
  <2> HIDE DEF c, u, a
  <2>3. Older(q) \in RequestState /\ Older(q).call = c /\ Older(q).upstream = u /\ Older(q).age = a
    BY <2>1, <2>2 DEF RequestState
  <2>4. /\ Older(q).phase = q.phase /\ Older(q).stream = q.stream
        /\ Older(q).result = q.result /\ Older(q).answer = q.answer
        /\ Older(q).body = q.body
    BY <2>1 DEF RequestState
  <2> QED
    BY <1>2, <2>3, <2>4 DEF c, u, a
<1> QED
  BY <1>1, <1>2

\* Time passes only where no timeout is due.
LEMMA TimelyTick ==
    ASSUME TypeOK, NEW r \in Request, Timely(req[r]), ~Due(r)
    PROVE  Timely(Older(req[r]))
<1>1. req[r] \in RequestState
  BY RequestFacts
<1>2. CASE req[r].phase \in {"new", "done"}
  BY <1>1, <1>2, OlderFacts
<1>3. CASE req[r].phase \in {"listing", "forwarding", "logging", "streaming"}
  BY <1>1, <1>3, OlderFacts, RequestFacts, DispatchAssumption DEF Timely, Due
<1> QED
  BY <1>2, <1>3, RequestFacts DEF Phase

LEMMA InsertType ==
    ASSUME TypeOK, NEW r \in Request, LogInsert(r)
    PROVE  TypeOK' /\ UNCHANGED <<mgmt, req, unlogged>>
           /\ log'[r] = [rows |-> 1, result |-> req[r].result]
           /\ \A s \in Request : s # r => log'[s] = log[s]
<1>1. [rows |-> 1, result |-> req[r].result] \in LogRow
  BY RequestFacts DEF LogRow
<1>2. log' \in [Request -> LogRow]
  BY <1>1 DEF LogInsert, TypeOK
<1> QED
  BY <1>2 DEF LogInsert, TypeOK

LEMMA StepType ==
    ASSUME TypeOK, NEW r \in Request, NEW q, HandlerStep(r, q), req' = [req EXCEPT ![r] = q],
           UNCHANGED <<mgmt, log>>, unlogged' \subseteq Request
    PROVE  TypeOK'
BY RecordFacts, StepFacts DEF TypeOK

LEMMA TickType ==
    ASSUME TypeOK, Tick
    PROVE  TypeOK'
BY RequestFacts, OlderFacts DEF Tick, TypeOK

LEMMA NextTime == TimeInv /\ [Next]_vars => TimeInv'
<1> SUFFICES ASSUME TimeInv, [Next]_vars PROVE TimeInv'
  OBVIOUS
<1>t. TypeOK /\ \A r \in Request : Timely(req[r])
  BY DEF TimeInv
<1>1. ASSUME NEW r \in Request, HandlerNext(r) PROVE TimeInv'
  <2>1. CASE LogInsert(r)
    <3>1. TypeOK' /\ req' = req
      BY <2>1, <1>t, InsertType
    <3> QED
      BY <3>1, <1>t DEF TimeInv
  <2>2. ASSUME NEW q, HandlerStep(r, q), req' = [req EXCEPT ![r] = q],
               UNCHANGED <<mgmt, log>>, unlogged' \subseteq Request
        PROVE  TimeInv'
    <3>1. TypeOK' /\ q \in RequestState
      BY <2>2, <1>t, StepType, RecordFacts
    <3>2. req'[r] = q /\ \A s \in Request : s # r => req'[s] = req[s]
      BY <2>2, <3>1, <1>t, StepFacts
    <3>3. Timely(q)
      BY <2>2, <1>t, TimelyStep
    <3>4. \A s \in Request : Timely(req'[s])
      BY <3>2, <3>3, <1>t
    <3> QED
      BY <3>1, <3>4 DEF TimeInv
  <2> QED
    BY <1>1, <1>t, <2>1, <2>2, HandlerFacts
<1>2. CASE Tick
  <2>1. \A r \in Request : ~Due(r) /\ req'[r] = Older(req[r])
    BY <1>2 DEF Tick
  <2>2. \A r \in Request : Timely(req'[r])
    BY <2>1, <1>t, TimelyTick
  <2> QED
    BY <1>2, <1>t, <2>2, TickType DEF TimeInv
<1>3. CASE UNCHANGED vars
  BY <1>3, <1>t DEF vars, TimeInv, TypeOK
<1> QED
  BY <1>1, <1>2, <1>3 DEF Next

\* Coordinator, worker and log may each take their whole timeout: the gateway,
\* which waits longer than the three together, never gives up on a request the
\* dispatcher still works on.
THEOREM GatewayWaits == Spec => []AnsweredInTime
<1>1. TimeInv => AnsweredInTime
  <2> SUFFICES ASSUME TimeInv, NEW r \in Request, req[r].phase # "done"
               PROVE  req[r].age < GatewayTimeout
    BY DEF AnsweredInTime
  <2>1. TypeOK /\ Timely(req[r])
    BY DEF TimeInv
  <2> QED
    BY <2>1, RequestFacts, DispatchAssumption DEF Timely, Phase
<1> QED
  BY InitTime, NextTime, <1>1, PTL DEF Spec
-----------------------------------------------------------------------------
(* The log. *)

\* What LogInv says of one request.
Logged(q, row, lost) ==
    /\ q.phase # "done" => q.answer = "none"
    /\ q.phase \in {"new", "listing", "forwarding"} => q.result = "none" /\ row.rows = 0
    /\ q.phase = "logging" => q.result # "none"
    /\ q.phase = "streaming" => q.result = "ok"
    /\ row.rows > 0 => row.result = q.result
    /\ q.answer = "error" => q.result = "error"
    /\ q.answer \in {"ok", "empty"} => q.result = "ok"
    /\ (q.phase = "streaming" \/ q.answer \in {"ok", "error", "empty"}) => row.rows = 1 \/ lost

LEMMA LogInvFacts ==
    LogInv <=> TypeOK /\ \A r \in Request : Logged(req[r], log[r], ~mgmt \/ r \in unlogged)
BY DEF LogInv, Logged

LEMMA InitLog == Init => LogInv
<1> SUFFICES ASSUME Init PROVE LogInv
  OBVIOUS
<1>1. TypeOK
  BY InitTime DEF TimeInv
<1> QED
  BY <1>1 DEF Init, NewRequest, LogInv

\* A step of the handler; lost can only become true, and after flush_log the row
\* is there unless it is.
LEMMA LoggedStep ==
    ASSUME TypeOK, NEW r \in Request, NEW lost \in BOOLEAN, NEW lost2 \in BOOLEAN,
           Logged(req[r], log[r], lost), lost => lost2,
           NEW q, HandlerStep(r, q),
           req[r].phase = "logging" /\ q.phase \in {"streaming", "done"}
               => q.answer = "gone" \/ log[r].rows = 1 \/ lost2
    PROVE  Logged(q, log[r], lost2)
<1> USE RequestFacts, LogFacts DEF RequestState
<1>1. ASSUME NEW stream \in BOOLEAN, req[r].phase = "new", q = Started(req[r], stream)
      PROVE  Logged(q, log[r], lost2)
  BY <1>1 DEF Logged, Started
<1>2. CASE req[r].phase = "listing" /\ q = Entered(req[r], "forwarding")
  BY <1>2 DEF Logged, Entered
<1>3. ASSUME NEW x \in {"ok", "error"}, req[r].phase \in {"listing", "forwarding"},
             q = Traced(req[r], x)
      PROVE  Logged(q, log[r], lost2)
  BY <1>3 DEF Logged, Traced
<1>4. CASE req[r].phase = "forwarding" /\ q = Opened(req[r])
  BY <1>4 DEF Logged, Opened
<1>5. CASE /\ req[r].phase = "logging" /\ req[r].stream /\ req[r].result = "ok"
           /\ q = Entered(req[r], "streaming")
  BY <1>5 DEF Logged, Entered
<1>6. CASE req[r].phase = "logging" /\ q = Ended(req[r], req[r].result)
  BY <1>6 DEF Logged, Ended
<1>7. ASSUME NEW a \in {"ok", "empty"}, req[r].phase = "streaming", q = Ended(req[r], a)
      PROVE  Logged(q, log[r], lost2)
  BY <1>7 DEF Logged, Ended
<1>8. ASSUME NEW b \in {"complete", "broken"}, req[r].phase \in {"logging", "streaming"},
             q = BodyEnded(req[r], b)
      PROVE  Logged(q, log[r], lost2)
  BY <1>8 DEF Logged, BodyEnded
<1>9. CASE req[r].phase \notin {"new", "done"} /\ q = Ended(req[r], "gone")
  BY <1>9 DEF Logged, Ended, Phase
<1> QED
  BY <1>1, <1>2, <1>3, <1>4, <1>5, <1>6, <1>7, <1>8, <1>9 DEF HandlerStep

LEMMA NextLog == LogInv /\ [Next]_vars => LogInv'
<1> SUFFICES ASSUME LogInv, [Next]_vars PROVE LogInv'
  OBVIOUS
<1> DEFINE Lost(r) == ~mgmt \/ r \in unlogged
<1>t. TypeOK /\ \A r \in Request : Logged(req[r], log[r], Lost(r))
  BY LogInvFacts
<1>g. ASSUME TypeOK', \A r \in Request : Logged(req'[r], log'[r], Lost(r)') PROVE LogInv'
  BY <1>g DEF LogInv, Logged
<1>1. ASSUME NEW r \in Request, HandlerNext(r) PROVE LogInv'
  <2>1. CASE LogInsert(r)
    <3>1. /\ TypeOK' /\ UNCHANGED <<mgmt, req, unlogged>>
          /\ log'[r] = [rows |-> 1, result |-> req[r].result]
          /\ \A s \in Request : s # r => log'[s] = log[s]
      BY <2>1, <1>t, InsertType
    <3>2. req[r].result # "none"
      BY <2>1 DEF LogInsert
    <3>3. Logged(req[r], log'[r], Lost(r))
      BY <3>1, <3>2, <1>t DEF Logged
    <3>4. \A s \in Request : Logged(req'[s], log'[s], Lost(s)')
      BY <3>1, <3>3, <1>t
    <3> QED
      BY <3>1, <3>4, <1>g
  <2>2. ASSUME NEW q, HandlerStep(r, q), req' = [req EXCEPT ![r] = q],
               UNCHANGED <<mgmt, log>>, unlogged \subseteq unlogged', unlogged' \subseteq Request,
               req[r].phase = "logging" /\ q.phase \in {"streaming", "done"}
                   => q.answer = "gone" \/ log[r].rows = 1 \/ ~mgmt \/ r \in unlogged'
        PROVE  LogInv'
    <3>1. TypeOK' /\ q \in RequestState
      BY <2>2, <1>t, StepType, RecordFacts
    <3>2. req'[r] = q /\ \A s \in Request : s # r => req'[s] = req[s]
      BY <2>2, <3>1, <1>t, StepFacts
    <3>3. \A s \in Request : Lost(s) => Lost(s)'
      BY <2>2
    <3>4. Logged(q, log[r], Lost(r)')
      <4>1. Lost(r) \in BOOLEAN /\ Lost(r)' \in BOOLEAN
        OBVIOUS
      <4>2. req[r].phase = "logging" /\ q.phase \in {"streaming", "done"}
               => q.answer = "gone" \/ log[r].rows = 1 \/ Lost(r)'
        BY <2>2
      <4> HIDE DEF Lost
      <4> QED
        BY <2>2, <3>3, <4>1, <4>2, <1>t, LoggedStep
    <3>5. \A s \in Request : s # r => Logged(req[s], log[s], Lost(s)')
      BY <3>3, <1>t DEF Logged
    <3>6. \A s \in Request : Logged(req'[s], log'[s], Lost(s)')
      BY <2>2, <3>2, <3>4, <3>5
    <3> QED
      BY <3>1, <3>6, <1>g
  <2> QED
    BY <1>1, <1>t, <2>1, <2>2, HandlerFacts
<1>2. CASE Tick
  <2>1. /\ UNCHANGED <<mgmt, log, unlogged>>
        /\ \A r \in Request : req'[r] = Older(req[r])
    BY <1>2 DEF Tick
  <2>2. \A r \in Request : /\ req'[r].phase = req[r].phase /\ req'[r].result = req[r].result
                           /\ req'[r].answer = req[r].answer
    BY <2>1, <1>t, RequestFacts, OlderFacts
  <2>3. \A r \in Request : Logged(req'[r], log'[r], Lost(r)')
    BY <2>1, <2>2, <1>t DEF Logged
  <2> QED
    BY <1>2, <1>t, <1>g, <2>3, TickType
<1>3. CASE UNCHANGED vars
  BY <1>3, <1>t, <1>g DEF vars, TypeOK
<1> QED
  BY <1>1, <1>2, <1>3 DEF Next

\* Every path out of chat_completions goes through flush_log once, so the log
\* and the customers' answers agree unless a log call fails.
THEOREM LogCorrect == Spec => []LogAgrees
<1>1. LogInv => LogAgrees
  BY LogFacts DEF LogInv, LogAgrees
<1> QED
  BY InitLog, NextLog, <1>1, PTL DEF Spec

\* Requests and log keep their types: no clock runs past the gateway's timeout.
THEOREM DispatchTyped == Spec => []TypeOK
<1>1. LogInv => TypeOK
  BY DEF LogInv
<1> QED
  BY InitLog, NextLog, <1>1, PTL DEF Spec
=============================================================================
