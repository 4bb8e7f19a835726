---------------------------- MODULE RequestPath ----------------------------
(***************************************************************************)
(* The way of a request through the service: authentication with the key   *)
(* cache of internal/server/auth.go, the gates of requireAuthentication    *)
(* and requireFeedSourceAdmin, and the connection pool that all stores     *)
(* share, while the realm rotates its keys and the process stops and       *)
(* starts again (cmd/maritime-intelligence/main.go).                       *)
(*                                                                         *)
(* Every handler takes one connection for its work, and a refused Assign a *)
(* second one while it holds the first (IncidentStore has what they do     *)
(* there).  A step that does not wait for a peer takes no time next to a   *)
(* tick of the clock.                                                      *)
(***************************************************************************)
EXTENDS AccessPolicy, FiniteSets

CONSTANTS
    Clients,       \* callers, each with one request at a time
    Requests,      \* per client the requests it makes
    Keys,          \* kids of the realm's signing keys
    TTL,           \* how long the cached keys are fresh (5 minutes)
    FetchLimit,    \* timeout of a JWKS request (10 seconds)
    MaxConns,      \* size of the pool
    MaxStops,      \* bound: orderly stops of the process
    None           \* no request, no document received yet

VARIABLES
    published,     \* the keys in the realm's JWKS
    gone,          \* per key the ticks since it was last published
    keys,          \* oidcAuthenticator.keys
    age,           \* the ticks since oidcAuthenticator.loadedAt
    ask,           \* per client the request it made last
    pc,            \* per client where that request is
    fetch,         \* per client its JWKS request
    process,       \* what the process is doing
    stops          \* stops so far

vars == <<published, gone, keys, age, ask, pc, fetch, process, stops>>

\* A request: the key that signed its token, whether the token is one and its
\* claims hold, who it is of and what it is for.
Request ==
    [kid : Keys, wellFormed : BOOLEAN, claims : BOOLEAN,
     principal : [roles : SUBSET Roles, clearance : 0..3], op : {"read", "assign", "admin"}]

ASSUME RequestAssumption ==
    /\ \A c \in Clients : Requests[c] \subseteq Request
    /\ TTL \in Nat \ {0} /\ FetchLimit \in Nat /\ MaxConns \in Nat \ {0} /\ MaxStops \in Nat
    /\ None \notin Request

Never == TTL + FetchLimit       \* longer ago than anything tells apart
NoFetch == [document |-> None, age |-> 0]

\* idle: no request; fetching and loaded: inside loadKeys and after it; admitted:
\* waits for a connection; holding: has one; second: waits for another one.
Places == {"idle", "fetching", "loaded", "admitted", "holding", "second"}

TypeOK ==
    /\ published \subseteq Keys
    /\ gone \in [Keys -> 0..Never] /\ \A k \in published : gone[k] = 0
    /\ keys \subseteq Keys
    /\ age \in 0..TTL
    /\ pc \in [Clients -> Places]
    /\ \A c \in Clients : ask[c] \in Requests[c] \cup {None} /\ (pc[c] # "idle" => ask[c] # None)
    /\ fetch \in [Clients -> [document : (SUBSET Keys) \cup {None}, age : 0..FetchLimit]]
    /\ process \in {"serving", "closing", "down"}
    /\ stops \in 0..MaxStops

Init ==
    /\ published \in (SUBSET Keys) \ {{}}
    /\ gone = [k \in Keys |-> IF k \in published THEN 0 ELSE Never]
    /\ keys = {}
    /\ age = TTL
    /\ ask = [c \in Clients |-> None]
    /\ pc = [c \in Clients |-> "idle"]
    /\ fetch = [c \in Clients |-> NoFetch]
    /\ process = "serving"
    /\ stops = 0

Goto(c, r, place) == pc' = [pc EXCEPT ![c] = place] /\ ask' = [ask EXCEPT ![c] = r]
Holders == {c \in Clients : pc[c] \in {"holding", "second"}}
FreeConn == Cardinality(Holders) < MaxConns

-----------------------------------------------------------------------------
(* Authentication                                                          *)

\* What Authenticate checks after it has the key, and the gates behind it.
Gated(r) ==
    /\ r.claims
    /\ r.op # "read" => ~IsReadOnly(r.principal)
    /\ r.op = "admin" => CanAdministerFeedSources(r.principal)

\* The request goes on to its handler, or ends with 401 or 403.
Accept(c, r) == IF Gated(r) THEN Goto(c, r, "admitted") ELSE Goto(c, None, "idle")

\* Faulty variant: cached keys are trusted for ever.
FreshAlways(kid) == kid \in keys

\* key, first look: a cached key of a fresh cache.
Fresh(kid) == kid \in keys /\ age < TTL

\* A request arrives.  Its token is parsed and the key looked up: it is refused,
\* accepted with the cached key, or has to wait for the realm.
Authenticate(c, r) ==
    /\ process = "serving"
    /\ pc[c] = "idle"
    /\ \/ ~r.wellFormed /\ UNCHANGED <<ask, pc>>
       \/ r.wellFormed /\ Fresh(r.kid) /\ Accept(c, r)
       \/ r.wellFormed /\ ~Fresh(r.kid) /\ Goto(c, r, "fetching")
    /\ UNCHANGED <<published, gone, keys, age, fetch, process, stops>>

\* The realm answers with the keys of that moment; the answer is on its way.
RealmAnswers(c) ==
    /\ pc[c] = "fetching" /\ fetch[c].document = None
    /\ fetch' = [fetch EXCEPT ![c].document = published]
    /\ UNCHANGED <<published, gone, keys, age, ask, pc, process, stops>>

\* loadKeys fails: no answer, an error, the timeout, no usable key.
LoadKeysFails(c) ==
    /\ pc[c] = "fetching"
    /\ Goto(c, None, "idle")
    /\ fetch' = [fetch EXCEPT ![c] = NoFetch]
    /\ UNCHANGED <<published, gone, keys, age, process, stops>>

\* Faulty variant: a cache that has keys is not replaced.
LoadKeysOnce(c) ==
    /\ pc[c] = "fetching"
    /\ fetch[c].document \notin {None, {}}
    /\ keys' = IF keys = {} THEN fetch[c].document ELSE keys
    /\ age' = 0
    /\ Goto(c, ask[c], "loaded")
    /\ fetch' = [fetch EXCEPT ![c] = NoFetch]
    /\ UNCHANGED <<published, gone, process, stops>>

\* loadKeys stores the document, whatever a newer answer put there before.
LoadKeys(c) ==
    /\ pc[c] = "fetching"
    /\ fetch[c].document \notin {None, {}}
    /\ keys' = fetch[c].document
    /\ age' = 0
    /\ Goto(c, ask[c], "loaded")
    /\ fetch' = [fetch EXCEPT ![c] = NoFetch]
    /\ UNCHANGED <<published, gone, process, stops>>

\* key, second look: the cache as it is by now.
LookAgain(c) ==
    /\ pc[c] = "loaded"
    /\ IF ask[c].kid \in keys THEN Accept(c, ask[c]) ELSE Goto(c, None, "idle")
    /\ UNCHANGED <<published, gone, keys, age, fetch, process, stops>>

-----------------------------------------------------------------------------
(* The pool                                                                *)

Acquire(c) ==
    /\ process = "serving"
    /\ pc[c] = "admitted" /\ FreeConn
    /\ Goto(c, ask[c], "holding")
    /\ UNCHANGED <<published, gone, keys, age, fetch, process, stops>>

\* The handler's work on its connection: it is done and gives the connection
\* back, or it was an Assign whose update matched no row.
Work(c) ==
    /\ pc[c] = "holding"
    /\ \/ Goto(c, None, "idle")
       \/ ask[c].op = "assign" /\ Goto(c, ask[c], "second")
    /\ UNCHANGED <<published, gone, keys, age, fetch, process, stops>>

\* Assign's look-up on a second connection; both go back with the answer.
LookUp(c) ==
    /\ process = "serving"
    /\ pc[c] = "second" /\ FreeConn
    /\ Goto(c, None, "idle")
    /\ UNCHANGED <<published, gone, keys, age, fetch, process, stops>>

\* A closed pool refuses who gets to its front: a request that waits for its
\* connection fails, an Assign reports a conflict and rolls back.
Refused(c) ==
    /\ process = "closing"
    /\ pc[c] \in {"admitted", "second"} /\ FreeConn
    /\ Goto(c, None, "idle")
    /\ UNCHANGED <<published, gone, keys, age, fetch, process, stops>>

\* Faulty variant: the database calls do not end with the request's context.
GiveUpUnheard(c) == pc[c] \in {"admitted", "second"} /\ UNCHANGED vars

\* The caller hangs up while the request is with the database: its context ends,
\* the wait or the query with it, and the transaction rolls back.
GiveUp(c) ==
    /\ pc[c] \in {"admitted", "holding", "second"}
    /\ Goto(c, None, "idle")
    /\ UNCHANGED <<published, gone, keys, age, fetch, process, stops>>

-----------------------------------------------------------------------------
(* The surroundings                                                        *)

\* Faulty variant: the client of the realm has no timeout.
TickUntimed ==
    /\ \A c \in Clients : pc[c] # "loaded"
    /\ gone' = [k \in Keys |-> IF k \in published \/ gone[k] = Never THEN gone[k] ELSE gone[k] + 1]
    /\ age' = IF age < TTL THEN age + 1 ELSE age
    /\ fetch' = [c \in Clients |-> IF pc[c] = "fetching" THEN [fetch[c] EXCEPT !.age = @ + 1] ELSE fetch[c]]
    /\ UNCHANGED <<published, keys, ask, pc, process, stops>>

\* Computation is prompt: time passes only while requests wait for others, and
\* a JWKS request waits no longer than its timeout.
Tick ==
    /\ \A c \in Clients : pc[c] # "loaded" /\ (pc[c] = "fetching" => fetch[c].age < FetchLimit)
    /\ gone' = [k \in Keys |-> IF k \in published \/ gone[k] = Never THEN gone[k] ELSE gone[k] + 1]
    /\ age' = IF age < TTL THEN age + 1 ELSE age
    /\ fetch' = [c \in Clients |-> IF pc[c] = "fetching" THEN [fetch[c] EXCEPT !.age = @ + 1] ELSE fetch[c]]
    /\ UNCHANGED <<published, keys, ask, pc, process, stops>>

PublishKey(k) ==
    /\ k \notin published
    /\ published' = published \cup {k}
    /\ gone' = [gone EXCEPT ![k] = 0]
    /\ UNCHANGED <<keys, age, ask, pc, fetch, process, stops>>

WithdrawKey(k) ==
    /\ k \in published
    /\ published' = published \ {k}
    /\ UNCHANGED <<gone, keys, age, ask, pc, fetch, process, stops>>

\* SIGTERM: ListenAndServe returns when Shutdown begins, and run goes on to its
\* deferred store.Close while handlers are still at work.
Stop ==
    /\ process = "serving"
    /\ stops < MaxStops
    /\ process' = "closing"
    /\ stops' = stops + 1
    /\ UNCHANGED <<published, gone, keys, age, ask, pc, fetch>>

\* pool.Close returns once every connection is back; then the process ends,
\* with the requests that are left.
Exit ==
    /\ process = "closing"
    /\ Holders = {}
    /\ process' = "down"
    /\ ask' = [c \in Clients |-> None]
    /\ pc' = [c \in Clients |-> "idle"]
    /\ fetch' = [c \in Clients |-> NoFetch]
    /\ UNCHANGED <<published, gone, keys, age, stops>>

Start ==
    /\ process = "down"
    /\ process' = "serving"
    /\ keys' = {}
    /\ age' = TTL
    /\ UNCHANGED <<published, gone, ask, pc, fetch, stops>>

-----------------------------------------------------------------------------
Next ==
    \/ \E c \in Clients :
          \/ \E r \in Requests[c] : Authenticate(c, r)
          \/ RealmAnswers(c) \/ LoadKeysFails(c) \/ LoadKeys(c) \/ LookAgain(c)
          \/ Acquire(c) \/ Work(c) \/ LookUp(c) \/ Refused(c) \/ GiveUp(c)
    \/ \E k \in Keys : PublishKey(k) \/ WithdrawKey(k)
    \/ Tick \/ Stop \/ Exit \/ Start

Spec == Init /\ [][Next]_vars

\* Callers repeat their requests and do not wait for ever; the service goes on
\* with what it can do; the realm is not unreachable for ever.
Fairness ==
    /\ \A c \in Clients :
          /\ WF_vars(\E r \in Requests[c] : Authenticate(c, r)) /\ WF_vars(GiveUp(c))
          /\ SF_vars(RealmAnswers(c)) /\ SF_vars(LoadKeys(c)) /\ WF_vars(LoadKeysFails(c))
          /\ WF_vars(LookAgain(c))
          /\ WF_vars(Acquire(c)) /\ WF_vars(Work(c)) /\ WF_vars(LookUp(c)) /\ WF_vars(Refused(c))
    /\ WF_vars(Exit) /\ WF_vars(Start)

FairSpec == Spec /\ Fairness

-----------------------------------------------------------------------------
(* Properties                                                              *)

\* A withdrawn key is not trusted for longer than the cache's freshness plus the
\* time a JWKS request may take (auth.go key and loadKeys), whatever answers
\* overtake each other and although the second look ignores the cache's age.
WithdrawnKeyExpires ==
    [][\A c \in Clients :
          (pc[c] \in {"idle", "loaded"} /\ pc'[c] = "admitted")
              => gone[ask'[c].kid] < TTL + FetchLimit]_vars

\* A caller who repeats an admissible request gets in, again and again, while its
\* key stays published: failed requests to the realm and answers that overtake
\* each other only delay it.
PublishedKeyIsAccepted ==
    \A c \in Clients : \A r \in Requests[c] :
        Requests[c] = {r} /\ r.wellFormed /\ Gated(r) /\ <>[](r.kid \in published)
            => []<>(pc[c] = "admitted")

\* Every request ends and every stop of the process completes, although refused
\* Assigns may hold all connections and wait for one more, and the pool is
\* closed under them: it takes callers that hang up.
RequestsEnd ==
    /\ \A c \in Clients : (pc[c] # "idle") ~> (pc[c] = "idle")
    /\ (process = "closing") ~> (process = "serving")
=============================================================================
