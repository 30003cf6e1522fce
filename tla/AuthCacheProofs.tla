-------------------------- MODULE AuthCacheProofs ---------------------------
(***************************************************************************)
(* Theorems about AuthCache, for any number of keys and requests and any   *)
(* times to live.                                                          *)
(***************************************************************************)
EXTENDS AuthCache, FiniteSetTheorems, TLAPS

LEMMA OlderFacts ==
    ASSUME NEW a \in Age
    PROVE  Older(a) \in Age /\ Older(a) <= a + 1 /\ (Older(a) = a + 1 \/ Older(a) = AgeCap)
BY AuthAssumption DEF Older, Age, AgeCap

\* A request's record, taken apart.
LEMMA RequestFacts ==
    ASSUME TypeOK, NEW q \in Request
    PROVE  /\ request[q] \in RequestState
           /\ request[q].phase \in {"idle", "asking", "answer"}
           /\ request[q].key \in Key \cup {NoKey}
           /\ request[q].ok \in BOOLEAN
           /\ request[q].age \in 0 .. MaxAnswer
           /\ request[q].age \in Nat
BY AuthAssumption DEF TypeOK, RequestState

LEMMA IdleFacts ==
    Idle \in RequestState /\ Idle.phase = "idle" /\ Idle.age = 0
BY AuthAssumption DEF Idle, RequestState

LEMMA NoEntryFacts == NoEntry \in CachedAuth /\ ~NoEntry.stored
BY AuthAssumption DEF NoEntry, CachedAuth, Age, AgeCap

\* A key changes its validity only with a fresh timestamp.
LEMMA SetKeyFacts ==
    ASSUME TypeOK, NEW k \in Key, NEW row \in KeyRow, SetKey(k, row)
    PROVE  /\ keys' \in [Key -> KeyRow]
           /\ since' \in [Key -> Age]
           /\ \A j \in Key : since'[j] = 0 \/ ((Valid(j)' <=> Valid(j)) /\ since'[j] = since[j])
           /\ keys'[k] = row
           /\ \A j \in Key : j # k => keys'[j] = keys[j]
           /\ UNCHANGED <<cache, request, refused>>
<1>1. keys' \in [Key -> KeyRow] /\ keys'[k] = row /\ \A j \in Key : j # k => keys'[j] = keys[j]
  BY DEF TypeOK, SetKey
<1>2. \A j \in Key : j # k => (Valid(j)' <=> Valid(j)) /\ since'[j] = since[j]
  BY <1>1 DEF TypeOK, SetKey, Valid
<1>3. Valid(k)' <=> Usable(row)
  BY <1>1 DEF Valid
<1>4. since' \in [Key -> Age]
  BY AuthAssumption DEF TypeOK, SetKey, Age, AgeCap
<1>5. since'[k] = 0 \/ ((Usable(row) <=> Valid(k)) /\ since'[k] = since[k])
  BY DEF TypeOK, SetKey
<1> QED
  BY <1>1, <1>2, <1>3, <1>4, <1>5 DEF SetKey

LEMMA KeyRows ==
    ASSUME TypeOK, NEW k \in Key, NEW l \in Lifetime
    PROVE  /\ [state |-> "active", left |-> l] \in KeyRow
           /\ [state |-> "purged", left |-> 0] \in KeyRow
           /\ [keys[k] EXCEPT !.left = l] \in KeyRow
           /\ [keys[k] EXCEPT !.state = "revoked"] \in KeyRow
           /\ [keys[k] EXCEPT !.left = l].state = keys[k].state
           /\ [keys[k] EXCEPT !.state = "revoked"].state = "revoked"
BY AuthAssumption DEF TypeOK, KeyRow, Lifetime, Never

\* Every admin request sets the row of one key; a key that is gone stays gone,
\* and when it goes, the answers on their way are recorded.
GoneState == {"revoked", "purged"}

KeyChange(k, row) ==
    /\ SetKey(k, row)
    /\ keys[k].state \in GoneState => row.state \in GoneState
    /\ row.state \in GoneState => keys[k].state \in GoneState \/ Straddle(k)
    /\ Straddle(k) \/ UNCHANGED straddled

LEMMA AdminFacts ==
    ASSUME TypeOK, NEW k \in Key, AdminNext(k)
    PROVE  \E row \in KeyRow : KeyChange(k, row)
<1>l. 1 \in Lifetime
  BY AuthAssumption DEF Lifetime, Never
<1>1. ASSUME NEW l \in Lifetime, create(k, l) PROVE \E row \in KeyRow : KeyChange(k, row)
  BY <1>1, KeyRows DEF create, KeyChange, GoneState
<1>2. ASSUME NEW l \in Lifetime, update(k, l) PROVE \E row \in KeyRow : KeyChange(k, row)
  BY <1>2, KeyRows DEF update, KeyChange, GoneState
<1>3. CASE revoke(k)
  BY <1>3, <1>l, KeyRows DEF revoke, KeyChange, GoneState
<1>4. CASE delete(k)
  BY <1>4, <1>l, KeyRows DEF delete, KeyChange, GoneState
<1> QED
  BY <1>1, <1>2, <1>3, <1>4 DEF AdminNext

\* The cache after an insert: the new entry or nothing for k, and for every
\* other key the old entry or nothing.
LEMMA InsertFacts ==
    ASSUME TypeOK, NEW k \in Key, NEW ok \in BOOLEAN, insert(k, ok)
    PROVE  /\ cache' \in [Key -> CachedAuth]
           /\ cache'[k].stored => (cache'[k].ok <=> ok) /\ cache'[k].age = 0
           /\ \A j \in Key : j # k => cache'[j] = cache[j] \/ cache'[j] = NoEntry
<1> DEFINE new == [cache EXCEPT ![k] = [stored |-> TRUE, ok |-> ok, age |-> 0]]
<1>1. [stored |-> TRUE, ok |-> ok, age |-> 0] \in CachedAuth
  BY AuthAssumption DEF CachedAuth, Age, AgeCap
<1>2. new \in [Key -> CachedAuth]
  BY <1>1 DEF TypeOK
<1>3. cache' = new \/ cache' = [j \in Key |-> IF fresh(new[j]) THEN new[j] ELSE NoEntry]
  BY DEF insert
<1>4. \A j \in Key : cache'[j] = new[j] \/ cache'[j] = NoEntry
  BY <1>3
<1>5. cache' \in [Key -> CachedAuth]
  BY <1>2, <1>3, NoEntryFacts
<1>6. new[k] = [stored |-> TRUE, ok |-> ok, age |-> 0] /\ \A j \in Key : j # k => new[j] = cache[j]
  BY DEF TypeOK
<1>7. cache'[k].stored => cache'[k] = [stored |-> TRUE, ok |-> ok, age |-> 0]
  BY <1>4, <1>6, NoEntryFacts
<1> QED
  BY <1>4, <1>5, <1>6, <1>7

-----------------------------------------------------------------------------
(* Bounded staleness. *)

LEMMA InitAuth == Init => AuthInv
<1> SUFFICES ASSUME Init PROVE AuthInv
    OBVIOUS
<1>1. keys \in [Key -> KeyRow] /\ since \in [Key -> Age]
  BY AuthAssumption DEF Init, KeyRow, Never, Age, AgeCap
<1>2. cache \in [Key -> CachedAuth] /\ \A k \in Key : ~cache[k].stored
  BY NoEntryFacts DEF Init
<1>3. request \in [Request -> RequestState] /\ \A q \in Request : request[q] = Idle
  BY IdleFacts DEF Init
<1> QED
  BY <1>1, <1>2, <1>3, IdleFacts
     DEF Init, AuthInv, TypeOK, AskingHasKey, AnswersTurnedWrong, EntriesTurnedWrong

LEMMA NextAuth == AuthInv /\ [Next]_vars => AuthInv'
<1> SUFFICES ASSUME AuthInv, [Next]_vars PROVE AuthInv'
    OBVIOUS
<1>t. TypeOK /\ AskingHasKey /\ AnswersTurnedWrong /\ EntriesTurnedWrong
  BY DEF AuthInv
<1>c. /\ \A k \in Key : cache[k] \in CachedAuth /\ cache[k].age \in Nat /\ since[k] \in Nat
      /\ MaxAnswer \in Nat
  BY <1>t, AuthAssumption DEF TypeOK, CachedAuth, Age, AgeCap
<1>1. ASSUME NEW k \in Key, AdminNext(k) PROVE AuthInv'
  <2>1. PICK row \in KeyRow : KeyChange(k, row)
    BY <1>1, <1>t, AdminFacts
  <2>2. SetKey(k, row) /\ straddled' \subseteq Key
    BY <2>1, <1>t DEF KeyChange, Straddle, TypeOK
  <2>3. /\ keys' \in [Key -> KeyRow]
        /\ since' \in [Key -> Age]
        /\ \A j \in Key : since'[j] = 0 \/ ((Valid(j)' <=> Valid(j)) /\ since'[j] = since[j])
        /\ UNCHANGED <<cache, request, refused>>
    BY <2>2, <1>t, SetKeyFacts
  <2>4. TypeOK' /\ AskingHasKey'
    BY <2>2, <2>3, <1>t DEF TypeOK, AskingHasKey
  <2>5. AnswersTurnedWrong'
    <3> SUFFICES ASSUME NEW q \in Request, request[q].phase = "answer",
                        Wrong(request[q].ok, request[q].key)'
                 PROVE  since'[request[q].key] <= request[q].age
      BY <2>3 DEF AnswersTurnedWrong
    <3>1. request[q].key \in Key /\ request[q].age \in Nat
      BY <1>t, RequestFacts DEF AskingHasKey
    <3> QED
      BY <2>3, <3>1, <1>t DEF AnswersTurnedWrong, Wrong
  <2>6. EntriesTurnedWrong'
    BY <2>3, <1>t, <1>c DEF EntriesTurnedWrong, Wrong
  <2> QED
    BY <2>4, <2>5, <2>6 DEF AuthInv
\* Steps that leave the keys alone.
<1>k. ASSUME UNCHANGED <<keys, since>>
      PROVE  \A k \in Key, ok \in BOOLEAN : Wrong(ok, k)' <=> Wrong(ok, k)
  BY <1>k DEF Wrong, Valid
<1>2. ASSUME NEW q \in Request, NEW k \in Key, Hit(q, k) PROVE AuthInv'
  <2>1. UNCHANGED <<keys, cache, request, since, straddled>> /\ refused' \subseteq Key
    BY <1>2, <1>t DEF Hit, apply_verdict, TypeOK
  <2> QED
    BY <2>1, <1>t DEF AuthInv, TypeOK, AskingHasKey, AnswersTurnedWrong, EntriesTurnedWrong,
                      Wrong, Valid
\* Steps that change one request and leave keys and cache alone.
<1>r. ASSUME NEW q \in Request, NEW r \in RequestState, request' = [request EXCEPT ![q] = r],
             UNCHANGED <<keys, cache, since, refused, straddled>>,
             r.phase # "idle" => r.key \in Key,
             r.phase # "answer" => r.age = 0,
             r.phase = "answer" => ~Wrong(r.ok, r.key)
      PROVE  AuthInv'
  <2>1. /\ request' \in [Request -> RequestState]
        /\ request'[q] = r
        /\ \A p \in Request : p # q => request'[p] = request[p]
    BY <1>r, <1>t DEF TypeOK
  <2>2. TypeOK' /\ AskingHasKey'
    BY <1>r, <1>t, <2>1 DEF TypeOK, AskingHasKey
  <2>3. AnswersTurnedWrong'
    BY <1>r, <1>t, <2>1 DEF AnswersTurnedWrong, Wrong, Valid
  <2>4. EntriesTurnedWrong'
    BY <1>r, <1>t DEF EntriesTurnedWrong, Wrong, Valid
  <2> QED
    BY <2>2, <2>3, <2>4 DEF AuthInv
<1>3. ASSUME NEW q \in Request, NEW k \in Key, Miss(q, k) PROVE AuthInv'
  <2> DEFINE r == [phase |-> "asking", key |-> k, ok |-> FALSE, age |-> 0]
  <2>1. r \in RequestState /\ r.phase = "asking" /\ r.key = k /\ r.age = 0
    BY AuthAssumption DEF RequestState
  <2> QED
    BY <1>3, <1>r, <2>1 DEF Miss
<1>4. ASSUME NEW q \in Request, verify(q) PROVE AuthInv'
  <2> DEFINE v == Valid(request[q].key)
             r == [request[q] EXCEPT !.phase = "answer", !.ok = v]
  <2>1. request[q] \in RequestState /\ request[q].key \in Key /\ v \in BOOLEAN
    BY <1>4, <1>t, RequestFacts DEF verify, AskingHasKey, Valid, Usable
  <2>2. r \in RequestState /\ r.phase = "answer" /\ r.key = request[q].key /\ r.ok = v
    BY <2>1 DEF RequestState
  <2>3. request' = [request EXCEPT ![q] = r]
    BY <1>4, <1>t DEF verify, TypeOK, RequestState
  <2>4. ~Wrong(r.ok, r.key)
    BY <2>2 DEF Wrong
  <2>5. UNCHANGED <<keys, cache, since, refused, straddled>>
    BY <1>4 DEF verify
  <2>6. r.phase # "idle" => r.key \in Key
    BY <2>1, <2>2
  <2>7. r.phase # "answer" => r.age = 0
    BY <2>2
  <2> HIDE DEF r
  <2> QED
    BY <1>r, <2>2, <2>3, <2>4, <2>5, <2>6, <2>7
<1>5. ASSUME NEW q \in Request, VerifyFails(q) PROVE AuthInv'
  BY <1>5, <1>r, IdleFacts DEF VerifyFails, Finish
<1>6. ASSUME NEW q \in Request, Store(q) PROVE AuthInv'
  <2> DEFINE k == request[q].key
             ok == request[q].ok
  <2>1. /\ k \in Key /\ ok \in BOOLEAN /\ request[q].age \in 0 .. MaxAnswer
        /\ Wrong(ok, k) => since[k] <= MaxAnswer
    BY <1>6, <1>t, <1>c, RequestFacts DEF Store, AskingHasKey, AnswersTurnedWrong
  <2>2. insert(k, ok) /\ UNCHANGED <<keys, since, straddled>> /\ refused' \subseteq Key
    BY <1>6, <1>t, <2>1 DEF Store, apply_verdict, TypeOK
  <2>3. /\ cache' \in [Key -> CachedAuth]
        /\ cache'[k].stored => (cache'[k].ok <=> ok) /\ cache'[k].age = 0
        /\ \A j \in Key : j # k => cache'[j] = cache[j] \/ cache'[j] = NoEntry
    BY <2>1, <2>2, <1>t, InsertFacts
  <2>4. /\ request' \in [Request -> RequestState]
        /\ request'[q] = Idle
        /\ \A p \in Request : p # q => request'[p] = request[p]
    BY <1>6, <1>t, IdleFacts DEF Store, Finish, TypeOK
  <2>5. TypeOK' /\ AskingHasKey'
    BY <2>2, <2>3, <2>4, <1>t, IdleFacts DEF TypeOK, AskingHasKey
  <2>6. AnswersTurnedWrong'
    BY <2>2, <2>4, <1>t, IdleFacts DEF AnswersTurnedWrong, Wrong, Valid
  <2>7. EntriesTurnedWrong'
    <3> SUFFICES ASSUME NEW j \in Key, cache'[j].stored, Wrong(cache[j].ok, j)'
                 PROVE  since'[j] <= cache'[j].age + MaxAnswer
      BY DEF EntriesTurnedWrong
    <3>1. since'[j] = since[j] /\ (Valid(j)' <=> Valid(j))
      BY <2>2 DEF Valid
    <3>2. CASE j = k
      <4>1. (cache'[k].ok <=> ok) /\ cache'[k].age = 0
        BY <2>3, <3>2
      <4>2. Wrong(ok, k)
        BY <3>1, <3>2, <4>1 DEF Wrong
      <4> QED
        BY <2>1, <3>1, <3>2, <4>1, <4>2, <1>c
    <3>3. CASE j # k
      <4>1. cache'[j] = cache[j]
        BY <2>3, <3>3, NoEntryFacts
      <4> QED
        BY <3>1, <4>1, <1>t DEF EntriesTurnedWrong, Wrong
    <3> QED
      BY <3>2, <3>3
  <2> QED
    BY <2>5, <2>6, <2>7 DEF AuthInv
<1>7. CASE Restart
  <2>1. /\ UNCHANGED <<keys, since, refused, straddled>>
        /\ cache' \in [Key -> CachedAuth] /\ \A k \in Key : ~cache'[k].stored
        /\ request' \in [Request -> RequestState] /\ \A q \in Request : request'[q] = Idle
    BY <1>7, NoEntryFacts, IdleFacts DEF Restart
  <2> QED
    BY <2>1, <1>t, IdleFacts
       DEF AuthInv, TypeOK, AskingHasKey, AnswersTurnedWrong, EntriesTurnedWrong
<1>8. CASE Tick
  <2>1. keys' \in [Key -> KeyRow]
    <3>1. \A k \in Key : Aged(keys[k]) \in KeyRow
      BY <1>t, AuthAssumption DEF Aged, KeyRow, Never, TypeOK
    <3> QED
      BY <1>8, <3>1 DEF Tick
  <2>2. /\ since' \in [Key -> Age]
        /\ \A k \in Key : since'[k] = 0
                          \/ ((Valid(k)' <=> Valid(k)) /\ since'[k] = Older(since[k]))
    <3>1. \A k \in Key : Valid(k)' <=> Usable(Aged(keys[k]))
      BY <1>8 DEF Tick, Valid
    <3>2. \A k \in Key : since'[k] = IF Usable(Aged(keys[k])) <=> Valid(k)
                                     THEN Older(since[k]) ELSE 0
      BY <1>8 DEF Tick
    <3>3. \A k \in Key : Older(since[k]) \in Age
      BY <1>t, OlderFacts DEF TypeOK
    <3>4. since' \in [Key -> Age]
      BY <1>8, <3>3, AuthAssumption DEF Tick, Age, AgeCap
    <3> QED
      BY <3>1, <3>2, <3>4
  <2>3. /\ cache' \in [Key -> CachedAuth]
        /\ \A k \in Key : cache'[k].stored =>
              cache[k].stored /\ (cache'[k].ok <=> cache[k].ok) /\ cache'[k].age = Older(cache[k].age)
    <3>1. ASSUME NEW k \in Key
          PROVE  /\ cache'[k] \in CachedAuth
                 /\ cache'[k].stored => /\ cache[k].stored
                                        /\ cache'[k].ok = cache[k].ok
                                        /\ cache'[k].age = Older(cache[k].age)
      <4>1. cache'[k] = IF cache[k].stored THEN [cache[k] EXCEPT !.age = Older(@)] ELSE cache[k]
        BY <1>8 DEF Tick
      <4>2. Older(cache[k].age) \in Age
        BY <1>c, OlderFacts DEF CachedAuth
      <4> QED
        BY <4>1, <4>2, <1>c DEF CachedAuth
    <3>2. cache' = [k \in Key |-> cache'[k]]
      BY <1>8 DEF Tick
    <3> QED
      BY <3>1, <3>2
  <2>4. /\ request' \in [Request -> RequestState]
        /\ \A q \in Request : /\ request'[q].phase = request[q].phase
                              /\ request'[q].key = request[q].key
                              /\ request'[q].ok = request[q].ok
                              /\ request'[q].age = IF request[q].phase = "answer"
                                                   THEN request[q].age + 1 ELSE request[q].age
    <3>1. ASSUME NEW q \in Request
          PROVE  /\ request'[q] \in RequestState
                 /\ request'[q].phase = request[q].phase
                 /\ request'[q].key = request[q].key
                 /\ request'[q].ok = request[q].ok
                 /\ request'[q].age = IF request[q].phase = "answer"
                                      THEN request[q].age + 1 ELSE request[q].age
      <4>1. request'[q] = IF request[q].phase = "answer"
                          THEN [request[q] EXCEPT !.age = @ + 1] ELSE request[q]
        BY <1>8 DEF Tick
      <4>2. request[q].phase = "answer" => request[q].age + 1 \in 0 .. MaxAnswer
        BY <1>8, <1>t, AuthAssumption, RequestFacts DEF Tick
      <4> QED
        BY <4>1, <4>2, <1>t, RequestFacts DEF RequestState
    <3>2. request' = [q \in Request |-> request'[q]]
      BY <1>8 DEF Tick
    <3> QED
      BY <3>1, <3>2
  <2>5. TypeOK'
    BY <1>8, <1>t, <2>1, <2>2, <2>3, <2>4 DEF TypeOK, Tick
  <2>6. AskingHasKey'
    BY <1>t, <2>4 DEF AskingHasKey
  <2>7. AnswersTurnedWrong'
    <3> SUFFICES ASSUME NEW q \in Request, request'[q].phase = "answer",
                        Wrong(request[q].ok, request[q].key)'
                 PROVE  since'[request'[q].key] <= request'[q].age
      BY DEF AnswersTurnedWrong
    <3> DEFINE k == request[q].key
    <3>1. /\ request[q].phase = "answer" /\ request'[q].key = k /\ request'[q].ok = request[q].ok
          /\ request'[q].age = request[q].age + 1 /\ request[q].age \in Nat /\ k \in Key
      BY <2>4, <1>t, RequestFacts DEF AskingHasKey
    <3>2. CASE since'[k] = 0
      BY <3>1, <3>2
    <3>3. CASE (Valid(k)' <=> Valid(k)) /\ since'[k] = Older(since[k])
      <4>1. Wrong(request[q].ok, k)
        BY <3>1, <3>3 DEF Wrong
      <4>2. since[k] <= request[q].age /\ since[k] \in Age
        BY <3>1, <4>1, <1>t DEF AnswersTurnedWrong, TypeOK
      <4>3. Older(since[k]) <= since[k] + 1 /\ Older(since[k]) \in Nat /\ since[k] \in Nat
        BY <4>2, OlderFacts DEF Age
      <4> QED
        BY <3>1, <3>3, <4>2, <4>3
    <3> QED
      BY <2>2, <3>1, <3>2, <3>3
  <2>8. EntriesTurnedWrong'
    <3> SUFFICES ASSUME NEW k \in Key, cache'[k].stored, Wrong(cache[k].ok, k)'
                 PROVE  since'[k] <= cache'[k].age + MaxAnswer
      BY DEF EntriesTurnedWrong
    <3>1. /\ cache[k].stored /\ (cache'[k].ok <=> cache[k].ok)
          /\ cache'[k].age = Older(cache[k].age)
          /\ cache[k].age \in Age /\ since[k] \in Age
      BY <2>3, <1>c, <1>t DEF CachedAuth, TypeOK
    <3>2. /\ Older(cache[k].age) \in Nat /\ Older(since[k]) \in Nat
          /\ Older(since[k]) <= since[k] + 1 /\ Older(since[k]) <= AgeCap
          /\ Older(cache[k].age) = cache[k].age + 1 \/ Older(cache[k].age) = AgeCap
          /\ AgeCap \in Nat
      BY <3>1, OlderFacts, AuthAssumption DEF Age, AgeCap
    <3>3. CASE since'[k] = 0
      BY <3>1, <3>2, <3>3, <1>c
    <3>4. CASE (Valid(k)' <=> Valid(k)) /\ since'[k] = Older(since[k])
      <4>1. Wrong(cache[k].ok, k)
        BY <3>1, <3>4 DEF Wrong
      <4>2. since[k] <= cache[k].age + MaxAnswer
        BY <3>1, <4>1, <1>t DEF EntriesTurnedWrong
      <4> QED
        BY <3>1, <3>2, <3>4, <4>2, <1>c
    <3> QED
      BY <2>2, <3>3, <3>4
  <2> QED
    BY <2>5, <2>6, <2>7, <2>8 DEF AuthInv
<1>9. CASE UNCHANGED vars
  BY <1>9, <1>t
     DEF vars, AuthInv, TypeOK, AskingHasKey, AnswersTurnedWrong, EntriesTurnedWrong, Wrong, Valid
<1> QED
  BY <1>1, <1>2, <1>3, <1>4, <1>5, <1>6, <1>7, <1>8, <1>9 DEF Next, GatewayNext

LEMMA AuthInvBounds == AuthInv => InvalidStops /\ ValidStarts
<1> SUFFICES ASSUME AuthInv, NEW k \in Key
             PROVE  /\ Admissible(k) /\ ~Valid(k) => since[k] < PositiveTtl + MaxAnswer
                    /\ Refusable(k) /\ Valid(k) => since[k] < NegativeTtl + MaxAnswer
    BY DEF InvalidStops, ValidStarts
<1>c. /\ cache[k].age \in Nat /\ since[k] \in Nat
      /\ PositiveTtl \in Nat /\ NegativeTtl \in Nat /\ MaxAnswer \in Nat
      /\ 0 < NegativeTtl /\ 0 < PositiveTtl
  BY AuthAssumption DEF AuthInv, TypeOK, CachedAuth, Age, AgeCap
<1>1. ASSUME NEW q \in Request, request[q].phase = "answer", request[q].key = k,
             Wrong(request[q].ok, k)
      PROVE  since[k] <= MaxAnswer
  BY <1>1, <1>c, RequestFacts DEF AuthInv, AnswersTurnedWrong
<1>2. ASSUME fresh(cache[k]), cache[k].ok, ~Valid(k) PROVE since[k] < PositiveTtl + MaxAnswer
  BY <1>2, <1>c DEF AuthInv, EntriesTurnedWrong, Wrong, fresh
<1>3. ASSUME fresh(cache[k]), ~cache[k].ok, Valid(k) PROVE since[k] < NegativeTtl + MaxAnswer
  BY <1>3, <1>c DEF AuthInv, EntriesTurnedWrong, Wrong, fresh
<1> QED
  BY <1>1, <1>2, <1>3, <1>c DEF Admissible, Refusable, Promised, Wrong

\* The gateway's verdicts follow the keys with a bounded delay in both
\* directions, for any lifetimes and any interleaving.
THEOREM VerdictsFollowKeys == Spec => [](InvalidStops /\ ValidStarts)
BY InitAuth, NextAuth, AuthInvBounds, PTL DEF Spec

\* The direction a customer notices: a refusal of a key that is valid by now ends
\* within the negative lifetime and the way of an answer.
THEOREM NewKeysWork == Spec => []ValidStarts
BY VerdictsFollowKeys, PTL

\* Keys, cache and requests keep their types.
THEOREM AuthTyped == Spec => []TypeOK
<1>1. AuthInv => TypeOK
  BY DEF AuthInv
<1> QED BY <1>1, InitAuth, NextAuth, PTL DEF Spec

-----------------------------------------------------------------------------
(* No return of a refused key. *)

LEMMA InitRefused == Init => RefusedInv
<1> SUFFICES ASSUME Init PROVE RefusedInv
    OBVIOUS
<1>1. TypeOK /\ AskingHasKey
  BY InitAuth DEF AuthInv
<1>2. refused = {} /\ \A q \in Request : request[q] = Idle
  BY DEF Init
<1> QED
  BY <1>1, <1>2, IdleFacts DEF RefusedInv, RefusedStaysRefused, Promised

\* AuthInv supplies the types; what is left are the keys that are gone.
LEMMA NextRefused == AuthInv /\ AuthInv' /\ RefusedInv /\ [Next]_vars => RefusedInv'
<1> SUFFICES ASSUME AuthInv, AuthInv', RefusedInv, [Next]_vars PROVE RefusedInv'
    OBVIOUS
<1>t. TypeOK /\ AskingHasKey /\ TypeOK' /\ AskingHasKey'
  BY DEF AuthInv
<1>i. /\ refused \subseteq Gone
      /\ \A k \in Gone \ straddled : ~Promised(k)
      /\ \A k \in refused \ straddled : ~(fresh(cache[k]) /\ cache[k].ok) /\ ~Promised(k)
  BY DEF RefusedInv, RefusedStaysRefused, Admissible
<1> SUFFICES /\ refused' \subseteq Gone'
             /\ \A k \in Gone' \ straddled' : ~Promised(k)'
             /\ \A k \in refused' \ straddled' : ~(fresh(cache[k]) /\ cache[k].ok)' /\ ~Promised(k)'
  BY <1>t DEF RefusedInv, RefusedStaysRefused, Admissible
<1>g. Gone \subseteq Key /\ \A k \in Key : k \in Gone <=> keys[k].state \in GoneState
  BY DEF Gone, GoneState
<1>h. \A k \in Key : k \in Gone' <=> keys'[k].state \in GoneState
  BY DEF Gone, GoneState
\* Steps that leave the keys alone and promise nothing to a key that is gone.
<1>k. ASSUME UNCHANGED <<keys, straddled>>,
             \A k \in Gone : Promised(k)' => Promised(k),
             refused' \subseteq Gone,
             \A k \in refused' \ straddled : ~(fresh(cache[k]) /\ cache[k].ok)'
      PROVE  /\ refused' \subseteq Gone'
             /\ \A k \in Gone' \ straddled' : ~Promised(k)'
             /\ \A k \in refused' \ straddled' : ~(fresh(cache[k]) /\ cache[k].ok)' /\ ~Promised(k)'
  <2>1. Gone' = Gone
    BY <1>k DEF Gone
  <2> QED
    BY <1>k, <1>i, <2>1
<1>1. ASSUME NEW k \in Key, AdminNext(k)
      PROVE  /\ refused' \subseteq Gone'
             /\ \A j \in Gone' \ straddled' : ~Promised(j)'
             /\ \A j \in refused' \ straddled' : ~(fresh(cache[j]) /\ cache[j].ok)' /\ ~Promised(j)'
  <2>1. PICK row \in KeyRow : KeyChange(k, row)
    BY <1>1, <1>t, AdminFacts
  <2>2. /\ keys'[k] = row
        /\ \A j \in Key : j # k => keys'[j] = keys[j]
        /\ UNCHANGED <<cache, request, refused>>
    BY <2>1, <1>t, SetKeyFacts DEF KeyChange
  <2>3. Gone \subseteq Gone' /\ straddled \subseteq straddled'
    BY <2>1, <2>2, <1>g, <1>h DEF KeyChange, Straddle
  <2>4. \A j \in Gone' : j \in Gone \/ (j = k /\ Straddle(k))
    BY <2>1, <2>2, <1>g, <1>h DEF KeyChange, Gone
  <2>5. \A j \in Key : Promised(j)' <=> Promised(j)
    BY <2>2 DEF Promised
  <2>6. \A j \in Key : (fresh(cache[j]) /\ cache[j].ok)' <=> (fresh(cache[j]) /\ cache[j].ok)
    BY <2>2 DEF fresh
  <2>7. ASSUME NEW j \in Gone' \ straddled' PROVE ~Promised(j)'
    <3>1. j \in Key
      BY DEF Gone
    <3>2. CASE j \in Gone
      BY <2>3, <2>5, <3>1, <3>2, <1>i
    <3>3. CASE j = k /\ Straddle(k)
      BY <2>5, <3>1, <3>3 DEF Straddle
    <3> QED
      BY <2>4, <3>2, <3>3
  <2> QED
    BY <2>2, <2>3, <2>6, <2>7, <1>i, <1>g
<1>2. ASSUME NEW q \in Request, NEW k \in Key, Hit(q, k)
      PROVE  /\ refused' \subseteq Gone'
             /\ \A j \in Gone' \ straddled' : ~Promised(j)'
             /\ \A j \in refused' \ straddled' : ~(fresh(cache[j]) /\ cache[j].ok)' /\ ~Promised(j)'
  <2>1. UNCHANGED <<keys, cache, request, straddled>>
    BY <1>2 DEF Hit
  <2>2. refused' = refused \/ (refused' = refused \cup {k} /\ k \in Gone /\ ~cache[k].ok)
    BY <1>2 DEF Hit, apply_verdict
  <2>3. \A j \in Key : (Promised(j)' <=> Promised(j))
                       /\ ((fresh(cache[j]) /\ cache[j].ok)' <=> (fresh(cache[j]) /\ cache[j].ok))
    BY <2>1 DEF Promised, fresh
  <2> QED
    BY <1>k, <1>i, <1>g, <2>1, <2>2, <2>3
\* Steps that change one request only, and give no positive answer to a key
\* that is gone.
<1>r. ASSUME NEW q \in Request, NEW r, request' = [request EXCEPT ![q] = r],
             UNCHANGED <<keys, cache, refused, straddled>>,
             r.phase = "answer" /\ r.ok => r.key \notin Gone
      PROVE  /\ refused' \subseteq Gone'
             /\ \A j \in Gone' \ straddled' : ~Promised(j)'
             /\ \A j \in refused' \ straddled' : ~(fresh(cache[j]) /\ cache[j].ok)' /\ ~Promised(j)'
  <2>1. request'[q] = r /\ \A p \in Request : p # q => request'[p] = request[p]
    BY <1>r, <1>t DEF TypeOK
  <2>2. \A j \in Gone : Promised(j)' => Promised(j)
    BY <1>r, <2>1 DEF Promised
  <2>3. \A j \in Key : (fresh(cache[j]) /\ cache[j].ok)' <=> (fresh(cache[j]) /\ cache[j].ok)
    BY <1>r DEF fresh
  <2> QED
    BY <1>k, <1>r, <1>i, <1>g, <2>2, <2>3
<1>3. ASSUME NEW q \in Request, NEW k \in Key, Miss(q, k)
      PROVE  /\ refused' \subseteq Gone'
             /\ \A j \in Gone' \ straddled' : ~Promised(j)'
             /\ \A j \in refused' \ straddled' : ~(fresh(cache[j]) /\ cache[j].ok)' /\ ~Promised(j)'
  BY <1>3, <1>r DEF Miss
<1>4. ASSUME NEW q \in Request, verify(q)
      PROVE  /\ refused' \subseteq Gone'
             /\ \A j \in Gone' \ straddled' : ~Promised(j)'
             /\ \A j \in refused' \ straddled' : ~(fresh(cache[j]) /\ cache[j].ok)' /\ ~Promised(j)'
  <2> DEFINE v == Valid(request[q].key)
             r == [request[q] EXCEPT !.phase = "answer", !.ok = v]
  <2>1. request[q] \in RequestState
    BY <1>t, RequestFacts
  <2>2. r.key = request[q].key /\ r.ok = v
    BY <2>1 DEF RequestState
  <2>3. request' = [request EXCEPT ![q] = r]
    BY <1>4, <1>t DEF verify, TypeOK, RequestState
  <2>4. v => request[q].key \notin Gone
    BY DEF Valid, Usable, Gone
  <2>5. UNCHANGED <<keys, cache, refused, straddled>>
    BY <1>4 DEF verify
  <2>6. r.phase = "answer" /\ r.ok => r.key \notin Gone
    BY <2>2, <2>4
  <2> HIDE DEF r
  <2> QED
    BY <1>r, <2>3, <2>5, <2>6
<1>5. ASSUME NEW q \in Request, VerifyFails(q)
      PROVE  /\ refused' \subseteq Gone'
             /\ \A j \in Gone' \ straddled' : ~Promised(j)'
             /\ \A j \in refused' \ straddled' : ~(fresh(cache[j]) /\ cache[j].ok)' /\ ~Promised(j)'
  BY <1>5, <1>r, IdleFacts DEF VerifyFails, Finish
<1>6. ASSUME NEW q \in Request, Store(q)
      PROVE  /\ refused' \subseteq Gone'
             /\ \A j \in Gone' \ straddled' : ~Promised(j)'
             /\ \A j \in refused' \ straddled' : ~(fresh(cache[j]) /\ cache[j].ok)' /\ ~Promised(j)'
  <2> DEFINE k == request[q].key
             ok == request[q].ok
  <2>1. k \in Key /\ ok \in BOOLEAN /\ (ok => Promised(k))
    BY <1>6, <1>t, RequestFacts DEF Store, AskingHasKey, Promised
  <2>2. insert(k, ok) /\ UNCHANGED <<keys, straddled>>
    BY <1>6 DEF Store
  <2>3. refused' = refused \/ (refused' = refused \cup {k} /\ k \in Gone /\ ~ok)
    BY <1>6 DEF Store, apply_verdict
  <2>4. /\ cache'[k].stored => (cache'[k].ok <=> ok)
        /\ \A j \in Key : j # k => cache'[j] = cache[j] \/ cache'[j] = NoEntry
    BY <2>1, <2>2, <1>t, InsertFacts
  <2>5. request'[q] = Idle /\ \A p \in Request : p # q => request'[p] = request[p]
    BY <1>6, <1>t DEF Store, Finish, TypeOK
  <2>6. \A j \in Gone : Promised(j)' => Promised(j)
    BY <2>5, IdleFacts DEF Promised
  <2>7. ASSUME NEW j \in refused' \ straddled PROVE ~(fresh(cache[j]) /\ cache[j].ok)'
    <3>1. CASE j = k
      <4>1. ~ok
        BY <2>1, <2>3, <2>7, <3>1, <1>i
      <4> QED
        BY <2>4, <3>1, <4>1 DEF fresh
    <3>2. CASE j # k
      <4>1. j \in refused \ straddled /\ j \in Key
        BY <2>3, <2>7, <3>2, <1>i, <1>g
      <4>2. cache'[j] = cache[j] \/ cache'[j] = NoEntry
        BY <2>4, <3>2, <4>1
      <4> QED
        BY <4>1, <4>2, <1>i, NoEntryFacts DEF fresh
    <3> QED
      BY <3>1, <3>2
  <2> QED
    BY <1>k, <2>2, <2>3, <2>6, <2>7, <1>i
<1>7. CASE Restart
  <2>1. /\ UNCHANGED <<keys, refused, straddled>>
        /\ \A k \in Key : ~cache'[k].stored
        /\ \A q \in Request : request'[q] = Idle
    BY <1>7, NoEntryFacts DEF Restart
  <2>2. \A k \in Key : ~Promised(k)' /\ ~(fresh(cache[k]) /\ cache[k].ok)'
    BY <2>1, IdleFacts DEF Promised, fresh
  <2> QED
    BY <1>k, <1>i, <1>g, <2>1, <2>2
<1>8. CASE Tick
  <2>1. \A k \in Key : keys'[k] = Aged(keys[k]) /\ Aged(keys[k]).state = keys[k].state
    BY <1>8, <1>t DEF Tick, Aged, TypeOK, KeyRow
  <2>2. Gone' = Gone /\ UNCHANGED <<refused, straddled>>
    BY <1>8, <2>1 DEF Gone, Tick
  <2>3. \A q \in Request : /\ request'[q].phase = request[q].phase
                           /\ request'[q].key = request[q].key
                           /\ request'[q].ok = request[q].ok
    <3> SUFFICES ASSUME NEW q \in Request
                 PROVE  /\ request'[q].phase = request[q].phase
                        /\ request'[q].key = request[q].key
                        /\ request'[q].ok = request[q].ok
      OBVIOUS
    <3>1. request'[q] = IF request[q].phase = "answer"
                        THEN [request[q] EXCEPT !.age = @ + 1] ELSE request[q]
      BY <1>8 DEF Tick
    <3> QED
      BY <3>1, <1>t, RequestFacts DEF RequestState
  <2>4. \A k \in Key : Promised(k)' <=> Promised(k)
    BY <2>3 DEF Promised
  <2>5. ASSUME NEW k \in Key, (fresh(cache[k]) /\ cache[k].ok)' PROVE fresh(cache[k]) /\ cache[k].ok
    <3>1. cache'[k] = IF cache[k].stored THEN [cache[k] EXCEPT !.age = Older(@)] ELSE cache[k]
      BY <1>8 DEF Tick
    <3>2. cache[k] \in CachedAuth
      BY <1>t DEF TypeOK
    <3>3. /\ cache[k].stored /\ cache[k].ok /\ cache'[k].age = Older(cache[k].age)
          /\ cache'[k].age < PositiveTtl
      BY <2>5, <3>1, <3>2 DEF fresh, CachedAuth
    <3>4. cache[k].age < PositiveTtl
      BY <3>2, <3>3, AuthAssumption DEF Older, CachedAuth, Age, AgeCap
    <3> QED
      BY <3>3, <3>4 DEF fresh
  <2> QED
    BY <2>2, <2>4, <2>5, <1>i, <1>g
<1>9. CASE UNCHANGED vars
  <2>1. UNCHANGED <<keys, cache, request, refused, straddled>>
    BY <1>9 DEF vars
  <2>2. \A j \in Key : (Promised(j)' <=> Promised(j))
                       /\ ((fresh(cache[j]) /\ cache[j].ok)' <=> (fresh(cache[j]) /\ cache[j].ok))
    BY <2>1 DEF Promised, fresh
  <2> QED
    BY <1>k, <1>i, <1>g, <2>1, <2>2
<1> QED
  BY <1>1, <1>2, <1>3, <1>4, <1>5, <1>6, <1>7, <1>8, <1>9 DEF Next, GatewayNext

\* A late positive answer is the only way back for a revoked key that a
\* request was refused.
THEOREM NoReturn == Spec => []RefusedStaysRefused
<1>1. Init => AuthInv /\ RefusedInv
  BY InitAuth, InitRefused
<1>2. (AuthInv /\ RefusedInv) /\ [Next]_vars => (AuthInv /\ RefusedInv)'
  BY NextAuth, NextRefused
<1>3. RefusedInv => RefusedStaysRefused
  BY DEF RefusedInv
<1> QED
  BY <1>1, <1>2, <1>3, PTL DEF Spec

-----------------------------------------------------------------------------
(* The size of the cache. *)

\* How long an entry lasts.
Ttl(e) == IF e.ok THEN PositiveTtl ELSE NegativeTtl

\* A step keeps CacheSwept: an insert above the limit sweeps, and entries age
\* together, up to the cap.
LEMMA NextSwept ==
    ASSUME TypeOK, AskingHasKey, CacheSwept, [Next]_vars PROVE CacheSwept'
<1> DEFINE stored == {k \in Key : cache[k].stored}
<1>t. /\ cache \in [Key -> CachedAuth]
      /\ \A k \in Key : cache[k].age \in Nat /\ cache[k].ok \in BOOLEAN
  BY AuthAssumption DEF TypeOK, CachedAuth, Age, AgeCap
<1>1. CASE UNCHANGED cache
  BY <1>1 DEF CacheSwept
<1>2. CASE Restart
  <2>1. {k \in Key : cache'[k].stored} = {}
    BY <1>2, NoEntryFacts DEF Restart
  <2>2. ~(Cardinality({}) > CacheLimit)
    BY AuthAssumption, FS_EmptySet
  <2> QED BY <2>1, <2>2 DEF CacheSwept
<1>3. CASE Tick
  <2>1. \A k \in Key : /\ cache'[k].stored = cache[k].stored
                       /\ cache'[k].ok = cache[k].ok
                       /\ cache[k].stored => cache'[k].age = Older(cache[k].age)
    BY <1>t, <1>3 DEF Tick, CachedAuth
  <2>2. {k \in Key : cache'[k].stored} = stored
    BY <2>1
  <2>3. ASSUME NEW j \in stored, NEW k \in stored,
               cache[j].age < cache[k].age + Ttl(cache[j])
        PROVE  Older(cache[j].age) < Older(cache[k].age) + Ttl(cache[j])
    <3>1. Ttl(cache[j]) \in Nat /\ Ttl(cache[j]) > 0
      BY AuthAssumption DEF Ttl
    <3>2. cache[j].age \in 0 .. AgeCap /\ cache[k].age \in 0 .. AgeCap /\ AgeCap \in Nat
      BY <1>t, AuthAssumption DEF CachedAuth, Age, AgeCap
    <3> HIDE DEF Ttl
    <3> QED BY <2>3, <3>1, <3>2 DEF Older
  <2> QED BY <2>1, <2>2, <2>3 DEF CacheSwept, Ttl
<1>4. ASSUME NEW q \in Request, Store(q) PROVE CacheSwept'
  <2> DEFINE k == request[q].key
             ok == request[q].ok
             new == [cache EXCEPT ![k] = [stored |-> TRUE, ok |-> ok, age |-> 0]]
  <2>1. k \in Key /\ ok \in BOOLEAN
    BY <1>4, RequestFacts DEF Store, AskingHasKey, TypeOK, RequestState
  <2>2. \A j \in Key : new[j].age \in Nat
    BY <1>t, <2>1
  <2>3. cache' = IF Size(new) > CacheLimit
                 THEN [j \in Key |-> IF fresh(new[j]) THEN new[j] ELSE NoEntry]
                 ELSE new
    BY <1>4 DEF Store, insert
  <2> HIDE DEF new
  <2>4. CASE Size(new) > CacheLimit
    <3>1. cache' = [j \in Key |-> IF fresh(new[j]) THEN new[j] ELSE NoEntry]
      BY <2>3, <2>4
    <3>2. \A j \in Key : cache'[j].stored =>
              /\ cache'[j].age \in Nat
              /\ cache'[j].age < Ttl(cache'[j])
      BY <2>2, <3>1, NoEntryFacts DEF fresh, Ttl
    <3>3. \A i, j \in Key : cache'[i].stored /\ cache'[j].stored =>
              cache'[i].age < cache'[j].age + Ttl(cache'[i])
      <4>1. \A e : Ttl(e) \in Nat
        BY AuthAssumption DEF Ttl
      <4> HIDE DEF Ttl
      <4> QED BY <3>2, <4>1
    <3> QED BY <3>3 DEF CacheSwept, Ttl
  <2>5. CASE ~(Size(new) > CacheLimit)
    BY <2>3, <2>5 DEF Size, CacheSwept
  <2> QED BY <2>4, <2>5
<1> QED
  BY <1>1, <1>2, <1>3, <1>4
  DEF Next, AdminNext, GatewayNext, create, update, revoke, delete, SetKey, Hit, Miss,
      verify, VerifyFails, vars

\* Whatever is stored in which order: above the limit nothing stays that was stale
\* when the newest entry came.
THEOREM SweepWorks == Spec => []CacheSwept
<1>1. Init => CacheSwept
  <2> SUFFICES ASSUME Init PROVE CacheSwept
    OBVIOUS
  <2>1. {k \in Key : cache[k].stored} = {}
    BY NoEntryFacts DEF Init
  <2>2. ~(Cardinality({}) > CacheLimit)
    BY AuthAssumption, FS_EmptySet
  <2> QED BY <2>1, <2>2 DEF CacheSwept
<1>2. AuthInv /\ CacheSwept /\ [Next]_vars => CacheSwept'
  BY NextSwept DEF AuthInv
<1> QED
  BY <1>1, <1>2, InitAuth, NextAuth, PTL DEF Spec
=============================================================================
