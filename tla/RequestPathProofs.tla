------------------------- MODULE RequestPathProofs -------------------------
(***************************************************************************)
(* Proofs about RequestPath for any callers, keys, cache lifetime and      *)
(* timeout.                                                                *)
(***************************************************************************)
EXTENDS RequestPath, TLAPS

\* The requests are a table by client, and a process that is down has none.
PlaceInv ==
    /\ ask = [c \in Clients |-> ask[c]]
    /\ process = "down" => \A c \in Clients : pc[c] = "idle"
    /\ \A c \in Clients : pc[c] # "fetching" => fetch[c] = NoFetch

\* A document on its way is no older than its JWKS request, the cached one was
\* at most a timeout old when it was stored, and a second look follows its
\* store without delay.
CacheInv ==
    /\ \A c \in Clients : fetch[c].document # None =>
          \A k \in fetch[c].document : gone[k] <= fetch[c].age
    /\ \A k \in keys : gone[k] <= age + FetchLimit
    /\ \A c \in Clients : pc[c] = "loaded" => age = 0

IInv == TypeOK /\ PlaceInv /\ CacheInv

-----------------------------------------------------------------------------
(* What the steps do                                                       *)

\* No request is mistaken for none.
LEMMA RequestIsSome ==
    ASSUME NEW c \in Clients, NEW r \in Requests[c]
    PROVE  r # None
BY RequestAssumption

\* Moving one request leaves the others where they are.
LEMMA GotoEffect ==
    ASSUME TypeOK, PlaceInv, NEW c \in Clients, NEW r \in Requests[c] \cup {None},
           NEW place \in Places, Goto(c, r, place), place # "idle" => r # None
    PROVE  /\ pc'[c] = place /\ ask'[c] = r
           /\ \A d \in Clients \ {c} : pc'[d] = pc[d] /\ ask'[d] = ask[d]
           /\ pc' \in [Clients -> Places]
           /\ ask' = [d \in Clients |-> ask'[d]]
           /\ \A d \in Clients : /\ ask'[d] \in Requests[d] \cup {None}
                                 /\ pc'[d] # "idle" => ask'[d] # None
<1>1. /\ pc' = [pc EXCEPT ![c] = place] /\ pc \in [Clients -> Places]
      /\ ask' = [ask EXCEPT ![c] = r] /\ ask = [d \in Clients |-> ask[d]]
  BY DEF Goto, TypeOK, PlaceInv
<1>2. /\ pc'[c] = place /\ ask'[c] = r
      /\ \A d \in Clients \ {c} : pc'[d] = pc[d] /\ ask'[d] = ask[d]
      /\ pc' \in [Clients -> Places]
      /\ ask' = [d \in Clients |-> ask'[d]]
  BY <1>1
<1> QED
  BY <1>2 DEF TypeOK

\* The steps of a request that neither wait for the realm nor store its keys.
PathStep(c) ==
    \/ \E r \in Requests[c] : Authenticate(c, r)
    \/ LookAgain(c) \/ Acquire(c) \/ Work(c) \/ LookUp(c) \/ Refused(c) \/ GiveUp(c)

\* They move the request only, in a process that runs, and never to its second
\* look.
LEMMA PathMove ==
    ASSUME TypeOK, PlaceInv, NEW c \in Clients, PathStep(c)
    PROVE  /\ UNCHANGED <<published, gone, keys, age, fetch, process, stops>>
           /\ \/ UNCHANGED <<ask, pc>>
              \/ \E r \in Requests[c] \cup {None}, place \in Places \ {"loaded"} :
                    /\ Goto(c, r, place)
                    /\ place # "idle" => r # None
                    /\ pc[c] # "fetching" /\ process # "down"
<1>1. ask[c] \in Requests[c] \cup {None} /\ (pc[c] # "idle" => ask[c] # None)
  BY DEF TypeOK
<1>2. ASSUME NEW r \in Requests[c], Authenticate(c, r)
      PROVE  /\ UNCHANGED <<published, gone, keys, age, fetch, process, stops>>
             /\ \/ UNCHANGED <<ask, pc>>
                \/ Goto(c, r, "admitted") \/ Goto(c, None, "idle") \/ Goto(c, r, "fetching")
             /\ pc[c] = "idle" /\ process = "serving"
  BY <1>2 DEF Authenticate, Accept
<1>3. ASSUME NEW r \in Requests[c], Authenticate(c, r)
      PROVE  \/ UNCHANGED <<ask, pc>>
             \/ \E q \in Requests[c] \cup {None}, place \in Places \ {"loaded"} :
                    /\ Goto(c, q, place)
                    /\ place # "idle" => q # None
                    /\ pc[c] # "fetching" /\ process # "down"
  BY <1>2, <1>3, RequestIsSome DEF Places
<1>4. CASE LookAgain(c)
  <2>1. Goto(c, ask[c], "admitted") \/ Goto(c, None, "idle")
    BY <1>4 DEF LookAgain, Accept
  <2> QED
    BY <1>1, <1>4, <2>1 DEF LookAgain, PlaceInv, Places
<1>5. CASE Acquire(c) \/ Work(c) \/ LookUp(c) \/ Refused(c) \/ GiveUp(c)
  <2>1. /\ UNCHANGED <<published, gone, keys, age, fetch, process, stops>>
        /\ \/ Goto(c, ask[c], "holding") \/ Goto(c, ask[c], "second") \/ Goto(c, None, "idle")
        /\ pc[c] \in {"admitted", "holding", "second"}
    BY <1>5 DEF Acquire, Work, LookUp, Refused, GiveUp
  <2> QED
    BY <1>1, <2>1 DEF PlaceInv, Places
<1> QED
  BY <1>2, <1>3, <1>4, <1>5 DEF PathStep

\* The answer of the realm is kept with the request that waits for it.
LEMMA AnswerEffect ==
    ASSUME TypeOK, NEW c \in Clients, RealmAnswers(c)
    PROVE  /\ fetch'[c].document = published /\ fetch'[c].age = fetch[c].age
           /\ \A d \in Clients \ {c} : fetch'[d] = fetch[d]
           /\ fetch' \in [Clients -> [document : (SUBSET Keys) \cup {None}, age : 0..FetchLimit]]
<1> DEFINE F == [document : (SUBSET Keys) \cup {None}, age : 0..FetchLimit]
<1>1. fetch \in [Clients -> F] /\ published \in SUBSET Keys
  BY DEF TypeOK
<1>2. fetch' = [fetch EXCEPT ![c] = [fetch[c] EXCEPT !.document = published]]
  BY DEF RealmAnswers
<1>3. fetch[c] \in F
  BY <1>1
<1>4. ASSUME NEW f \in F
      PROVE  /\ [f EXCEPT !.document = published] \in F
             /\ [f EXCEPT !.document = published].document = published
             /\ [f EXCEPT !.document = published].age = f.age
  BY <1>1
<1> QED
  BY <1>1, <1>2, <1>3, <1>4

\* The request to the realm ends, with or without its document.
LEMMA FetchEnds ==
    ASSUME TypeOK, NEW c \in Clients, LoadKeysFails(c) \/ LoadKeys(c)
    PROVE  /\ fetch'[c] = NoFetch
           /\ \A d \in Clients \ {c} : fetch'[d] = fetch[d]
           /\ fetch' \in [Clients -> [document : (SUBSET Keys) \cup {None}, age : 0..FetchLimit]]
<1> DEFINE F == [document : (SUBSET Keys) \cup {None}, age : 0..FetchLimit]
<1>1. fetch \in [Clients -> F] /\ NoFetch \in F
  BY RequestAssumption DEF TypeOK, NoFetch
<1>2. fetch' = [fetch EXCEPT ![c] = NoFetch]
  BY DEF LoadKeysFails, LoadKeys
<1> QED
  BY <1>1, <1>2

\* A tick ages a key that is not published, the cache, and the requests to the
\* realm, each up to its bound.
LEMMA TickEffect ==
    ASSUME TypeOK, Tick
    PROVE  /\ \A k \in Keys : gone'[k] = IF k \in published \/ gone[k] = Never
                                         THEN gone[k] ELSE gone[k] + 1
           /\ gone' \in [Keys -> 0..Never]
           /\ age' = (IF age < TTL THEN age + 1 ELSE age) /\ age' \in 0..TTL
           /\ \A c \in Clients :
                 /\ fetch'[c].document = fetch[c].document
                 /\ pc[c] = "fetching" => fetch'[c].age = fetch[c].age + 1
                 /\ pc[c] # "fetching" => fetch'[c] = fetch[c]
           /\ fetch' \in [Clients -> [document : (SUBSET Keys) \cup {None}, age : 0..FetchLimit]]
<1> DEFINE F == [document : (SUBSET Keys) \cup {None}, age : 0..FetchLimit]
<1>1. gone \in [Keys -> 0..Never] /\ age \in 0..TTL /\ fetch \in [Clients -> F] /\ Never \in Nat
      /\ TTL \in Nat /\ FetchLimit \in Nat
  BY RequestAssumption DEF TypeOK, Never
<1>2. /\ \A k \in Keys : gone'[k] = IF k \in published \/ gone[k] = Never
                                    THEN gone[k] ELSE gone[k] + 1
      /\ gone' \in [Keys -> 0..Never]
  <2>1. gone' = [k \in Keys |-> IF k \in published \/ gone[k] = Never THEN gone[k] ELSE gone[k] + 1]
    BY DEF Tick
  <2>2. \A k \in Keys : (IF k \in published \/ gone[k] = Never THEN gone[k] ELSE gone[k] + 1) \in 0..Never
    BY <1>1
  <2> QED
    BY <2>1, <2>2
<1>3. age' = (IF age < TTL THEN age + 1 ELSE age) /\ age' \in 0..TTL
  BY <1>1 DEF Tick
<1>4. ASSUME NEW f \in F, f.age < FetchLimit
      PROVE  /\ [f EXCEPT !.age = f.age + 1] \in F
             /\ [f EXCEPT !.age = f.age + 1].document = f.document
             /\ [f EXCEPT !.age = f.age + 1].age = f.age + 1
  BY <1>1, <1>4
<1>5. fetch' = [c \in Clients |-> IF pc[c] = "fetching"
                                  THEN [fetch[c] EXCEPT !.age = fetch[c].age + 1] ELSE fetch[c]]
  BY DEF Tick
<1>6. ASSUME NEW c \in Clients
      PROVE  /\ fetch'[c] \in F
             /\ fetch'[c].document = fetch[c].document
             /\ pc[c] = "fetching" => fetch'[c].age = fetch[c].age + 1
             /\ pc[c] # "fetching" => fetch'[c] = fetch[c]
  <2>1. fetch[c] \in F /\ (pc[c] = "fetching" => fetch[c].age < FetchLimit)
    BY <1>1 DEF Tick
  <2>2. CASE pc[c] = "fetching"
    BY <1>4, <1>5, <2>1, <2>2
  <2>3. CASE pc[c] # "fetching"
    BY <1>5, <2>1, <2>3
  <2> QED
    BY <2>2, <2>3
<1> QED
  BY <1>2, <1>3, <1>5, <1>6

\* The realm and the process itself.
SurroundingStep ==
    \/ \E k \in Keys : PublishKey(k) \/ WithdrawKey(k)
    \/ Stop \/ Exit \/ Start

\* The steps, grouped by what they touch.
LEMMA NextSplit ==
    ASSUME [Next]_vars
    PROVE  \/ \E c \in Clients : PathStep(c) \/ RealmAnswers(c) \/ LoadKeysFails(c) \/ LoadKeys(c)
           \/ Tick \/ SurroundingStep \/ UNCHANGED vars
BY DEF Next, PathStep, SurroundingStep

-----------------------------------------------------------------------------
(* The inductive invariant                                                 *)

\* Steps of a request keep the types and the places.
LEMMA PathInv ==
    ASSUME TypeOK, PlaceInv, NEW c \in Clients, PathStep(c)
    PROVE  TypeOK' /\ PlaceInv' /\ (\A d \in Clients : pc'[d] = "loaded" => pc[d] = "loaded")
<1>1. UNCHANGED <<published, gone, keys, age, fetch, process, stops>>
  BY PathMove
<1>2. CASE UNCHANGED <<ask, pc>>
  BY <1>1, <1>2 DEF TypeOK, PlaceInv
<1>3. ASSUME NEW r \in Requests[c] \cup {None}, NEW place \in Places \ {"loaded"},
             Goto(c, r, place), place # "idle" => r # None,
             pc[c] # "fetching", process # "down"
      PROVE  TypeOK' /\ PlaceInv' /\ (\A d \in Clients : pc'[d] = "loaded" => pc[d] = "loaded")
  <2>1. /\ pc'[c] = place /\ ask'[c] = r
        /\ \A d \in Clients \ {c} : pc'[d] = pc[d] /\ ask'[d] = ask[d]
        /\ pc' \in [Clients -> Places]
        /\ ask' = [d \in Clients |-> ask'[d]]
        /\ \A d \in Clients : /\ ask'[d] \in Requests[d] \cup {None}
                              /\ pc'[d] # "idle" => ask'[d] # None
    BY <1>3, GotoEffect
  <2>2. TypeOK'
    BY <1>1, <2>1 DEF TypeOK
  <2>3. PlaceInv'
    BY <1>1, <1>3, <2>1 DEF PlaceInv
  <2> QED
    BY <2>1, <2>2, <2>3
<1> QED
  BY <1>2, <1>3, PathMove

\* So do the end of a request to the realm, and its answer.
LEMMA FetchInv ==
    ASSUME TypeOK, PlaceInv, NEW c \in Clients,
           RealmAnswers(c) \/ LoadKeysFails(c) \/ LoadKeys(c)
    PROVE  TypeOK' /\ PlaceInv'
<1>1. CASE RealmAnswers(c)
  <2>1. /\ UNCHANGED <<published, gone, keys, age, ask, pc, process, stops>>
        /\ pc[c] = "fetching"
    BY <1>1 DEF RealmAnswers
  <2>2. TypeOK'
    BY <1>1, <2>1, AnswerEffect DEF TypeOK
  <2>3. PlaceInv'
    BY <1>1, <2>1, AnswerEffect DEF PlaceInv
  <2> QED
    BY <2>2, <2>3
<1>2. CASE LoadKeysFails(c) \/ LoadKeys(c)
  <2>1. /\ UNCHANGED <<published, gone, process, stops>>
        /\ pc[c] = "fetching" /\ process # "down"
        /\ Goto(c, None, "idle") \/ Goto(c, ask[c], "loaded")
    BY <1>2 DEF LoadKeysFails, LoadKeys, PlaceInv
  <2>2. keys' \subseteq Keys /\ age' \in 0..TTL
    <3>1. CASE LoadKeysFails(c)
      BY <3>1 DEF LoadKeysFails, TypeOK
    <3>2. CASE LoadKeys(c)
      <4>1. fetch[c].document \in (SUBSET Keys) \cup {None}
        BY DEF TypeOK
      <4> QED
        BY <3>2, <4>1, RequestAssumption DEF LoadKeys
    <3> QED
      BY <1>2, <3>1, <3>2
  <2>3. PICK r \in Requests[c] \cup {None}, place \in Places :
            Goto(c, r, place) /\ (place # "idle" => r # None)
    BY <2>1 DEF TypeOK, Places
  <2>4. /\ \A d \in Clients \ {c} : pc'[d] = pc[d] /\ ask'[d] = ask[d]
        /\ pc' \in [Clients -> Places]
        /\ ask' = [d \in Clients |-> ask'[d]]
        /\ \A d \in Clients : /\ ask'[d] \in Requests[d] \cup {None}
                              /\ pc'[d] # "idle" => ask'[d] # None
    BY <2>3, GotoEffect
  <2>5. /\ fetch'[c] = NoFetch
        /\ \A d \in Clients \ {c} : fetch'[d] = fetch[d]
        /\ fetch' \in [Clients -> [document : (SUBSET Keys) \cup {None}, age : 0..FetchLimit]]
    BY <1>2, FetchEnds
  <2>6. TypeOK'
    BY <2>1, <2>2, <2>4, <2>5 DEF TypeOK
  <2>7. PlaceInv'
    BY <2>1, <2>4, <2>5 DEF PlaceInv
  <2> QED
    BY <2>6, <2>7
<1> QED
  BY <1>1, <1>2

\* Time and the surroundings.
LEMMA OutsideInv ==
    ASSUME TypeOK, PlaceInv, Tick \/ SurroundingStep
    PROVE  TypeOK' /\ PlaceInv'
<1>0. TTL \in Nat \ {0} /\ FetchLimit \in Nat /\ MaxStops \in Nat /\ Never \in Nat
  BY RequestAssumption DEF Never
<1>1. CASE Tick
  <2>1. UNCHANGED <<published, keys, ask, pc, process, stops>>
    BY <1>1 DEF Tick
  <2>2. \A k \in published : gone'[k] = 0
    BY <1>1, TickEffect DEF TypeOK
  <2>3. TypeOK'
    BY <1>1, <2>1, <2>2, TickEffect DEF TypeOK
  <2>4. PlaceInv'
    BY <1>1, <2>1, TickEffect DEF PlaceInv
  <2> QED
    BY <2>3, <2>4
<1>2. ASSUME NEW k \in Keys, PublishKey(k) \/ WithdrawKey(k)
      PROVE  TypeOK' /\ PlaceInv'
  <2>1. UNCHANGED <<keys, age, ask, pc, fetch, process, stops>>
    BY <1>2 DEF PublishKey, WithdrawKey
  <2>2. /\ published' \subseteq Keys
        /\ gone' \in [Keys -> 0..Never] /\ \A d \in published' : gone'[d] = 0
    BY <1>0, <1>2 DEF PublishKey, WithdrawKey, TypeOK
  <2> QED
    BY <2>1, <2>2 DEF TypeOK, PlaceInv
<1>3. CASE Stop
  BY <1>0, <1>3 DEF Stop, TypeOK, PlaceInv
<1>4. CASE Exit
  <2>1. /\ UNCHANGED <<published, gone, keys, age, stops>> /\ process' = "down"
        /\ ask' = [c \in Clients |-> None]
        /\ pc' = [c \in Clients |-> "idle"]
        /\ fetch' = [c \in Clients |-> NoFetch]
    BY <1>4 DEF Exit
  <2>2. NoFetch \in [document : (SUBSET Keys) \cup {None}, age : 0..FetchLimit]
    BY <1>0 DEF NoFetch
  <2>3. TypeOK'
    BY <2>1, <2>2 DEF TypeOK, Places
  <2>4. PlaceInv'
    BY <2>1 DEF PlaceInv
  <2> QED
    BY <2>3, <2>4
<1>5. CASE Start
  <2>1. TypeOK'
    BY <1>0, <1>5 DEF Start, TypeOK
  <2>2. PlaceInv'
    BY <1>5 DEF Start, PlaceInv
  <2> QED
    BY <2>1, <2>2
<1> QED
  BY <1>1, <1>2, <1>3, <1>4, <1>5 DEF SurroundingStep

\* The ages fit: a tick ages a withdrawn key no more than the document or the
\* cache that holds it, and a store replaces the one by the other.
LEMMA NextCacheInv == TypeOK /\ PlaceInv /\ CacheInv /\ [Next]_vars => CacheInv'
<1> SUFFICES ASSUME TypeOK, PlaceInv, CacheInv, [Next]_vars
             PROVE  CacheInv'
  OBVIOUS
<1>0. /\ gone \in [Keys -> 0..Never] /\ age \in 0..TTL /\ keys \subseteq Keys
      /\ \A c \in Clients : /\ fetch[c].document \in (SUBSET Keys) \cup {None}
                            /\ fetch[c].age \in 0..FetchLimit
      /\ TTL \in Nat /\ FetchLimit \in Nat /\ Never = TTL + FetchLimit
      /\ published \subseteq Keys /\ \A k \in published : gone[k] = 0
  BY RequestAssumption DEF TypeOK, Never
<1>1. ASSUME NEW c \in Clients, PathStep(c)
      PROVE  CacheInv'
  <2>1. UNCHANGED <<gone, keys, age, fetch>>
    BY <1>1, PathMove
  <2> QED
    BY <1>1, <2>1, PathInv DEF CacheInv
<1>2. ASSUME NEW c \in Clients, RealmAnswers(c)
      PROVE  CacheInv'
  <2>1. UNCHANGED <<gone, keys, age, pc>>
    BY <1>2 DEF RealmAnswers
  <2>2. \A k \in fetch'[c].document : gone'[k] <= fetch'[c].age
    BY <1>0, <1>2, <2>1, AnswerEffect
  <2> QED
    BY <1>2, <2>1, <2>2, AnswerEffect DEF CacheInv
<1>3. ASSUME NEW c \in Clients, LoadKeysFails(c) \/ LoadKeys(c)
      PROVE  CacheInv'
  <2>1. fetch'[c].document = None /\ (\A d \in Clients \ {c} : fetch'[d] = fetch[d])
        /\ gone' = gone
    BY <1>3, FetchEnds DEF NoFetch, LoadKeysFails, LoadKeys
  <2>2. CASE LoadKeysFails(c)
    <3>1. UNCHANGED <<keys, age>> /\ \A d \in Clients : pc'[d] = "loaded" => pc[d] = "loaded"
      BY <2>2 DEF LoadKeysFails, Goto, TypeOK
    <3> QED
      BY <2>1, <3>1 DEF CacheInv
  <2>3. CASE LoadKeys(c)
    <3>1. age' = 0 /\ keys' = fetch[c].document /\ fetch[c].document # None
      BY <2>3 DEF LoadKeys
    <3>2. \A k \in keys' : gone'[k] <= age' + FetchLimit
      <4> SUFFICES ASSUME NEW k \in fetch[c].document
                   PROVE  gone[k] <= FetchLimit
        BY <1>0, <2>1, <3>1
      <4>1. k \in Keys /\ gone[k] <= fetch[c].age
        BY <1>0, <3>1 DEF CacheInv
      <4> QED
        BY <1>0, <4>1
    <3> QED
      BY <2>1, <3>1, <3>2 DEF CacheInv
  <2> QED
    BY <1>3, <2>2, <2>3
<1>4. CASE Tick
  <2>1. UNCHANGED <<keys, pc>> /\ \A c \in Clients : pc[c] # "loaded"
    BY <1>4 DEF Tick
  <2>2. \A k \in Keys : gone'[k] \in 0..Never /\ gone'[k] <= gone[k] + 1
    BY <1>0, <1>4, TickEffect
  <2>3. ASSUME NEW k \in keys
        PROVE  gone'[k] <= age' + FetchLimit
    <3>1. gone[k] <= age + FetchLimit /\ k \in Keys
      BY <1>0 DEF CacheInv
    <3>2. age' = IF age < TTL THEN age + 1 ELSE age
      BY <1>4, TickEffect
    <3> QED
      BY <1>0, <2>2, <3>1, <3>2
  <2>4. ASSUME NEW c \in Clients, fetch'[c].document # None, NEW k \in fetch'[c].document
        PROVE  gone'[k] <= fetch'[c].age
    <3>1. fetch'[c].document = fetch[c].document
      BY <1>4, TickEffect
    <3>2. pc[c] = "fetching"
      BY <2>4, <3>1 DEF PlaceInv, NoFetch
    <3>3. fetch'[c].age = fetch[c].age + 1
      BY <1>4, <3>2, TickEffect
    <3>4. k \in Keys /\ gone[k] <= fetch[c].age
      BY <1>0, <2>4, <3>1 DEF CacheInv
    <3> QED
      BY <1>0, <2>2, <3>3, <3>4
  <2> QED
    BY <2>1, <2>3, <2>4 DEF CacheInv
<1>5. ASSUME NEW k \in Keys, PublishKey(k) \/ WithdrawKey(k)
      PROVE  CacheInv'
  <2>1. UNCHANGED <<keys, age, fetch, pc>>
    BY <1>5 DEF PublishKey, WithdrawKey
  <2>2. \A d \in Keys : gone'[d] = gone[d] \/ gone'[d] = 0
    BY <1>0, <1>5 DEF PublishKey, WithdrawKey
  <2>3. ASSUME NEW d \in keys
        PROVE  gone'[d] <= age' + FetchLimit
    BY <1>0, <2>1, <2>2 DEF CacheInv
  <2>4. ASSUME NEW c \in Clients, fetch'[c].document # None, NEW d \in fetch'[c].document
        PROVE  gone'[d] <= fetch'[c].age
    <3>1. d \in Keys /\ gone[d] <= fetch[c].age
      BY <1>0, <2>1, <2>4 DEF CacheInv
    <3> QED
      BY <1>0, <2>1, <2>2, <3>1
  <2> QED
    BY <2>1, <2>3, <2>4 DEF CacheInv
<1>6. CASE Stop \/ UNCHANGED vars
  BY <1>6 DEF Stop, vars, CacheInv
<1>7. CASE Exit
  BY <1>7 DEF Exit, CacheInv, NoFetch
<1>8. CASE Start
  BY <1>8 DEF Start, CacheInv, PlaceInv
<1> QED
  BY <1>1, <1>2, <1>3, <1>4, <1>5, <1>6, <1>7, <1>8, NextSplit DEF SurroundingStep

-----------------------------------------------------------------------------
(* Theorems                                                                *)

\* The invariant that the others rest on.
THEOREM Inductive == Spec => []IInv
<1>1. Init => IInv
  <2> SUFFICES ASSUME Init PROVE IInv
    OBVIOUS
  <2>0. TTL \in Nat \ {0} /\ FetchLimit \in Nat /\ MaxStops \in Nat /\ Never \in Nat
    BY RequestAssumption DEF Never
  <2>1. NoFetch \in [document : (SUBSET Keys) \cup {None}, age : 0..FetchLimit]
        /\ NoFetch.document = None
    BY <2>0 DEF NoFetch
  <2>2. published \subseteq Keys /\ gone \in [Keys -> 0..Never]
        /\ \A k \in published : gone[k] = 0
    BY <2>0 DEF Init
  <2>3. TypeOK
    BY <2>0, <2>1, <2>2 DEF Init, TypeOK, Places
  <2>4. PlaceInv /\ CacheInv
    BY <2>1 DEF Init, PlaceInv, CacheInv
  <2> QED
    BY <2>3, <2>4 DEF IInv
<1>2. IInv /\ [Next]_vars => IInv'
  <2> SUFFICES ASSUME TypeOK, PlaceInv, CacheInv, [Next]_vars PROVE IInv'
    BY DEF IInv
  <2>1. CASE UNCHANGED vars
    BY <2>1 DEF vars, IInv, TypeOK, PlaceInv, CacheInv
  <2>2. CASE ~UNCHANGED vars
    BY <2>2, NextSplit, PathInv, FetchInv, OutsideInv, NextCacheInv DEF IInv
  <2> QED
    BY <2>1, <2>2
<1> QED
  BY <1>1, <1>2, PTL DEF Spec

\* Every step keeps the types: a published key is of age zero, no request to the
\* realm outlives its timeout, and a request that is under way is known.
THEOREM TypeCorrect == Spec => []TypeOK
<1>1. IInv => TypeOK
  BY DEF IInv
<1> QED
  BY Inductive, <1>1, PTL

\* A token is accepted only if its key was in the realm's document less than the
\* cache's lifetime plus one timeout ago (auth.go key and loadKeys), for any
\* number of callers whose answers overtake each other.
THEOREM WithdrawalTakesEffect == Spec => WithdrawnKeyExpires
<1>1. ASSUME IInv, [Next]_vars, NEW c \in Clients,
             pc[c] \in {"idle", "loaded"}, pc'[c] = "admitted"
      PROVE  gone[ask'[c].kid] < TTL + FetchLimit
  <2>0. /\ TypeOK /\ PlaceInv /\ CacheInv
        /\ gone \in [Keys -> 0..Never] /\ age \in 0..TTL /\ keys \subseteq Keys
        /\ TTL \in Nat \ {0} /\ FetchLimit \in Nat /\ Never \in Nat
    BY <1>1, RequestAssumption DEF IInv, TypeOK, Never
  <2>1. pc'[c] # pc[c]
    BY <1>1
  <2>2. ASSUME NEW d \in Clients, d # c,
               PathStep(d) \/ RealmAnswers(d) \/ LoadKeysFails(d) \/ LoadKeys(d)
        PROVE  FALSE
    <3>1. CASE PathStep(d)
      BY <2>0, <2>1, <2>2, <3>1, PathMove DEF Goto, TypeOK
    <3> QED
      BY <2>0, <2>1, <2>2, <3>1 DEF RealmAnswers, LoadKeysFails, LoadKeys, Goto, TypeOK
  <2>3. ~Tick /\ ~SurroundingStep /\ ~UNCHANGED vars
    BY <1>1, <2>1 DEF Tick, SurroundingStep, PublishKey, WithdrawKey, Stop, Exit, Start, vars
  <2>4. PathStep(c) \/ RealmAnswers(c) \/ LoadKeysFails(c) \/ LoadKeys(c)
    BY <1>1, <2>2, <2>3, NextSplit
  <2>5. PathStep(c)
    BY <1>1, <2>4 DEF RealmAnswers, LoadKeysFails, LoadKeys
  <2>6. ASSUME NEW r \in Requests[c], Authenticate(c, r)
        PROVE  gone[ask'[c].kid] < TTL + FetchLimit
    <3>1. Fresh(r.kid) /\ ask'[c] = r
      BY <1>1, <2>0, <2>1, <2>6 DEF Authenticate, Accept, Goto, TypeOK, PlaceInv
    <3>2. r.kid \in keys /\ age < TTL /\ gone[r.kid] <= age + FetchLimit /\ r.kid \in Keys
      BY <2>0, <3>1 DEF Fresh, CacheInv
    <3> QED
      BY <2>0, <3>1, <3>2
  <2>7. CASE LookAgain(c)
    <3>1. ask[c].kid \in keys /\ ask'[c] = ask[c] /\ pc[c] = "loaded"
      BY <1>1, <2>0, <2>7 DEF LookAgain, Accept, Goto, TypeOK, PlaceInv
    <3>2. gone[ask[c].kid] <= age + FetchLimit /\ age = 0 /\ ask[c].kid \in Keys
      BY <2>0, <3>1 DEF CacheInv
    <3> QED
      BY <2>0, <3>1, <3>2
  <2>8. ~Acquire(c) /\ ~Work(c) /\ ~LookUp(c) /\ ~Refused(c) /\ ~GiveUp(c)
    BY <1>1 DEF Acquire, Work, LookUp, Refused, GiveUp
  <2> QED
    BY <2>5, <2>6, <2>7, <2>8 DEF PathStep
<1>2. IInv /\ [Next]_vars =>
          [\A c \in Clients :
              (pc[c] \in {"idle", "loaded"} /\ pc'[c] = "admitted")
                  => gone[ask'[c].kid] < TTL + FetchLimit]_vars
  BY <1>1
<1> QED
  BY Inductive, <1>2, PTL DEF Spec, WithdrawnKeyExpires

=============================================================================
