----------------------------- MODULE AuthCache ------------------------------
(***************************************************************************)
(* Customer API keys: the rows and handlers of the management backend      *)
(* (mgmt-backend/src/handlers/api_keys.rs) and the gateway's middleware    *)
(* that admits /v1/* requests, with its cache of verdicts                  *)
(* (gateway/src/middleware.rs, state.rs).                                  *)
(*                                                                         *)
(* A request that misses the cache is suspended while the backend looks at *)
(* the key and again while the answer travels; key changes and other       *)
(* requests with the same token happen in between.  Times are ages, capped *)
(* where the code no longer tells them apart.                              *)
(***************************************************************************)
EXTENDS Naturals, FiniteSets

CONSTANTS
    Key,          \* well-formed customer tokens
    NoKey,        \* no token
    Request,      \* concurrent requests to the gateway
    PositiveTtl,  \* 60 s
    NegativeTtl,  \* 5 s
    MaxAnswer,    \* the gateway client's timeout: bound on an answer's way back
    CacheLimit,   \* 1024: entries that trigger a sweep
    MaxLifetime   \* bound on a key's time to live

ASSUME AuthAssumption ==
    /\ IsFiniteSet(Key)
    /\ NoKey \notin Key
    /\ NegativeTtl \in Nat \ {0}
    /\ PositiveTtl \in Nat
    /\ NegativeTtl <= PositiveTtl
    /\ MaxAnswer \in Nat
    /\ CacheLimit \in Nat
    /\ MaxLifetime \in Nat

VARIABLES
    keys,       \* the api_keys table
    cache,      \* auth_cache
    request,    \* request[q]: where require_v1_api_key is for q
    since,      \* history: since[k], time since k became valid or invalid
    refused,    \* history: revoked or purged keys that a request was refused
    straddled   \* history: keys revoked while a positive answer was on its way

vars == <<keys, cache, request, since, refused, straddled>>

-----------------------------------------------------------------------------

AgeCap == PositiveTtl + MaxAnswer

Age == 0 .. AgeCap

Older(a) == IF a < AgeCap THEN a + 1 ELSE a

Never == MaxLifetime + 1

Lifetime == 1 .. Never

\* left: time until expires_at, 0 once it has passed.
KeyRow == [state : {"none", "active", "revoked", "purged"}, left : 0 .. Never]

CachedAuth == [stored : BOOLEAN, ok : BOOLEAN, age : Age]

NoEntry == [stored |-> FALSE, ok |-> FALSE, age |-> 0]

\* "idle" is before and after the middleware; ok and age belong to an "answer".
RequestState == [phase : {"idle", "asking", "answer"}, key : Key \cup {NoKey},
                 ok : BOOLEAN, age : 0 .. MaxAnswer]

Idle == [phase |-> "idle", key |-> NoKey, ok |-> FALSE, age |-> 0]

TypeOK ==
    /\ keys \in [Key -> KeyRow]
    /\ cache \in [Key -> CachedAuth]
    /\ request \in [Request -> RequestState]
    /\ since \in [Key -> Age]
    /\ refused \subseteq Key
    /\ straddled \subseteq Key

Init ==
    /\ keys = [k \in Key |-> [state |-> "none", left |-> 0]]
    /\ cache = [k \in Key |-> NoEntry]
    /\ request = [q \in Request |-> Idle]
    /\ since = [k \in Key |-> AgeCap]
    /\ refused = {}
    /\ straddled = {}

-----------------------------------------------------------------------------
(* The admin's handlers. *)

Usable(row) == row.state = "active" /\ row.left > 0

Valid(k) == Usable(keys[k])

Gone == {k \in Key : keys[k].state \in {"revoked", "purged"}}

\* A positive answer for k is on its way to the gateway.
Promised(k) == \E q \in Request : /\ request[q].phase = "answer"
                                  /\ request[q].key = k
                                  /\ request[q].ok

SetKey(k, row) ==
    /\ keys' = [keys EXCEPT ![k] = row]
    /\ since' = [since EXCEPT ![k] = IF Usable(row) <=> Valid(k) THEN @ ELSE 0]
    /\ UNCHANGED <<cache, request, refused>>

create(k, lifetime) ==
    /\ keys[k].state = "none"
    /\ SetKey(k, [state |-> "active", left |-> lifetime])
    /\ UNCHANGED straddled

\* Mutated: the new lifetime is not clamped.
update_Unclamped(k, lifetime) ==
    /\ keys[k].state \in {"active", "revoked"}
    /\ SetKey(k, [keys[k] EXCEPT !.left = lifetime + 1])
    /\ UNCHANGED straddled

\* A new expiry, which may bring an expired key back but no revoked one.
update(k, lifetime) ==
    /\ keys[k].state \in {"active", "revoked"}
    /\ SetKey(k, [keys[k] EXCEPT !.left = lifetime])
    /\ UNCHANGED straddled

Straddle(k) == straddled' = IF Promised(k) THEN straddled \cup {k} ELSE straddled

\* revoke, and delete without purge.
revoke(k) ==
    /\ keys[k].state = "active"
    /\ SetKey(k, [keys[k] EXCEPT !.state = "revoked"])
    /\ Straddle(k)

\* delete with purge.
delete(k) ==
    /\ keys[k].state \in {"active", "revoked"}
    /\ SetKey(k, [state |-> "purged", left |-> 0])
    /\ Straddle(k)

-----------------------------------------------------------------------------
(* The gateway. *)

\* Mutated: both verdicts are kept equally long.
fresh_OneTtl(e) == e.stored /\ e.age < PositiveTtl

\* Mutated: one time unit too long.
fresh_Late(e) == e.stored /\ e.age <= (IF e.ok THEN PositiveTtl ELSE NegativeTtl)

fresh(e) == e.stored /\ e.age < (IF e.ok THEN PositiveTtl ELSE NegativeTtl)

\* The request is admitted or refused with 401.
apply_verdict(k, ok) ==
    refused' = IF ~ok /\ k \in Gone THEN refused \cup {k} ELSE refused

Hit(q, k) ==
    /\ request[q].phase = "idle"
    /\ fresh(cache[k])
    /\ apply_verdict(k, cache[k].ok)
    /\ UNCHANGED <<keys, cache, request, since, straddled>>

Miss(q, k) ==
    /\ request[q].phase = "idle"
    /\ ~fresh(cache[k])
    /\ request' = [request EXCEPT ![q] =
                        [phase |-> "asking", key |-> k, ok |-> FALSE, age |-> 0]]
    /\ UNCHANGED <<keys, cache, since, refused, straddled>>

\* The backend looks at the key and answers.
verify(q) ==
    /\ request[q].phase = "asking"
    /\ request' = [request EXCEPT ![q].phase = "answer",
                                  ![q].ok = Valid(request[q].key)]
    /\ UNCHANGED <<keys, cache, since, refused, straddled>>

Finish(q) == request' = [request EXCEPT ![q] = Idle]

\* The backend fails or the client times out: 503, and nothing is cached.
VerifyFails(q) ==
    /\ request[q].phase # "idle"
    /\ Finish(q)
    /\ UNCHANGED <<keys, cache, since, refused, straddled>>

Size(c) == Cardinality({k \in Key : c[k].stored})

\* Mutated: no sweep.
insert_NoSweep(k, ok) ==
    cache' = [cache EXCEPT ![k] = [stored |-> TRUE, ok |-> ok, age |-> 0]]

\* Mutated: a refusal is not remembered.
insert_OnlyPositive(k, ok) ==
    IF ok THEN cache' = [cache EXCEPT ![k] = [stored |-> TRUE, ok |-> TRUE, age |-> 0]]
    ELSE UNCHANGED cache

\* The insert and, above the limit, the sweep of stale entries.
insert(k, ok) ==
    LET new == [cache EXCEPT ![k] = [stored |-> TRUE, ok |-> ok, age |-> 0]]
    IN  cache' = IF Size(new) > CacheLimit
                 THEN [j \in Key |-> IF fresh(new[j]) THEN new[j] ELSE NoEntry]
                 ELSE new

\* The answer arrives; it replaces whatever verdict other requests cached.
Store(q) ==
    /\ request[q].phase = "answer"
    /\ insert(request[q].key, request[q].ok)
    /\ apply_verdict(request[q].key, request[q].ok)
    /\ Finish(q)
    /\ UNCHANGED <<keys, since, straddled>>

Restart ==
    /\ cache' = [k \in Key |-> NoEntry]
    /\ request' = [q \in Request |-> Idle]
    /\ UNCHANGED <<keys, since, refused, straddled>>

-----------------------------------------------------------------------------

Aged(row) ==
    IF row.left \in 1 .. MaxLifetime THEN [row EXCEPT !.left = @ - 1] ELSE row

\* Keys expire by themselves; the client's timeout bounds the way of an answer.
Tick ==
    /\ \A q \in Request : request[q].phase = "answer" => request[q].age < MaxAnswer
    /\ keys' = [k \in Key |-> Aged(keys[k])]
    /\ since' = [k \in Key |-> IF Usable(Aged(keys[k])) <=> Valid(k)
                               THEN Older(since[k]) ELSE 0]
    /\ cache' = [k \in Key |-> IF cache[k].stored
                               THEN [cache[k] EXCEPT !.age = Older(@)] ELSE cache[k]]
    /\ request' = [q \in Request |-> IF request[q].phase = "answer"
                                     THEN [request[q] EXCEPT !.age = @ + 1]
                                     ELSE request[q]]
    /\ UNCHANGED <<refused, straddled>>

AdminNext(k) ==
    \/ \E lifetime \in Lifetime : create(k, lifetime) \/ update(k, lifetime)
    \/ revoke(k)
    \/ delete(k)

GatewayNext(q) ==
    \/ \E k \in Key : Hit(q, k) \/ Miss(q, k)
    \/ verify(q) \/ VerifyFails(q) \/ Store(q)

Next ==
    \/ \E k \in Key : AdminNext(k)
    \/ \E q \in Request : GatewayNext(q)
    \/ Restart
    \/ Tick

Spec == Init /\ [][Next]_vars

-----------------------------------------------------------------------------
(* Properties. *)

\* A request with token k would be admitted, now or when its answer arrives.
Admissible(k) == (fresh(cache[k]) /\ cache[k].ok) \/ Promised(k)

\* The same for a refusal.
Refusable(k) ==
    \/ fresh(cache[k]) /\ ~cache[k].ok
    \/ \E q \in Request : /\ request[q].phase = "answer"
                          /\ request[q].key = k
                          /\ ~request[q].ok

\* A revoked, purged or expired key is admitted for less than PositiveTtl plus
\* the way of an answer, however verifications and key changes interleave.
InvalidStops ==
    \A k \in Key : Admissible(k) /\ ~Valid(k) => since[k] < PositiveTtl + MaxAnswer

\* A new or prolonged key is refused for less than NegativeTtl plus the way of
\* an answer (state.rs:8-10: "becomes usable quickly").
ValidStarts ==
    \A k \in Key : Refusable(k) /\ Valid(k) => since[k] < NegativeTtl + MaxAnswer

\* What makes both inductive: a request that left the idle phase has a key, and
\* a verdict that is wrong by now became so after it was given.
AskingHasKey ==
    \A q \in Request :
        /\ request[q].phase # "idle" => request[q].key \in Key
        /\ request[q].phase # "answer" => request[q].age = 0

Wrong(ok, k) == (ok /\ ~Valid(k)) \/ (~ok /\ Valid(k))

AnswersTurnedWrong ==
    \A q \in Request :
        request[q].phase = "answer" /\ Wrong(request[q].ok, request[q].key)
            => since[request[q].key] <= request[q].age

EntriesTurnedWrong ==
    \A k \in Key :
        cache[k].stored /\ Wrong(cache[k].ok, k) => since[k] <= cache[k].age + MaxAnswer

AuthInv == TypeOK /\ AskingHasKey /\ AnswersTurnedWrong /\ EntriesTurnedWrong

\* A revoked key that was refused once is not admitted again, unless a positive
\* answer was on its way while it was revoked (middleware.rs:95-103).
RefusedStaysRefused ==
    \A k \in refused \ straddled : ~Admissible(k)

\* What makes it inductive: only keys that are gone count as refused, and none
\* of them is promised anything unless it was when it went.
RefusedInv ==
    /\ TypeOK
    /\ AskingHasKey
    /\ refused \subseteq Gone
    /\ \A k \in Gone \ straddled : ~Promised(k)
    /\ RefusedStaysRefused

\* Above the limit the cache holds no entry that was stale when the newest one
\* was stored (middleware.rs:105-109).
CacheSwept ==
    LET stored == {k \in Key : cache[k].stored}
    IN  Cardinality(stored) > CacheLimit =>
            \A j, k \in stored :
                cache[j].age < cache[k].age +
                    (IF cache[j].ok THEN PositiveTtl ELSE NegativeTtl)
=============================================================================
