-------------------------- MODULE OutboxDelivery --------------------------
(***************************************************************************)
(* Leased delivery of outbox rows to Kafka: the claim and mark statements  *)
(* of internal/incident/outbox.go and internal/isr/isr_outbox.go (the same *)
(* protocol over two tables) and the publisher loop of                     *)
(* cmd/maritime-intelligence-outbox-publisher.                             *)
(*                                                                         *)
(* Time is kept in timers instead of timestamps, so that behaviours of any *)
(* length have finitely many states: "delay" is what is left until         *)
(* available_at, "age" is the time since claimed_at, held once it is past  *)
(* every comparison.  The claim compares the database's claimed_at with    *)
(* the publisher's own clock, and the retry time is computed on that clock *)
(* too, so each publisher has a skew against the database.                 *)
(***************************************************************************)
EXTENDS Integers, FiniteSets

CONSTANTS
    NumEvents,     \* bound: rows ever written, numbered in (created_at, event_id) order
    Workers,       \* publisher processes
    WorkerID,      \* OUTBOX_WORKER_ID of each process
    Lease,         \* OUTBOX_LEASE
    MaxBackoff,    \* OUTBOX_MAX_BACKOFF
    AttemptClamp,  \* attempts beyond this one back off alike (30 in the code)
    Skew,          \* clock of each publisher minus the database's
    MaxSkew,       \* largest skew in either direction
    AttemptLimit,  \* ticks an attempt may take from claim to mark; AgeCap is no limit
    PromptPolling, \* TRUE: idle publishers poll more than once per tick
    Poison,        \* events Kafka never accepts (for instance, too large)
    MaxCrashes,    \* bound: publisher crashes
    None           \* no row, no claim, or no attempt in progress

VARIABLES
    rows,          \* the outbox table
    down,          \* publishers that crashed and were not started again
    worker,        \* the attempt a publisher has in progress, None when it has none
    delivered,     \* events the topic holds at least once
    crashes        \* crashes so far

vars == <<rows, worker, down, delivered, crashes>>

Events == 1..NumEvents
IDs == {WorkerID[w] : w \in Workers}

Least(a, b) == IF a <= b THEN a ELSE b
AgeCap == Lease + MaxSkew + 1
DelayCap == MaxBackoff + MaxSkew

OutboxRow ==
    [published : BOOLEAN, delay : 0..DelayCap, claimedBy : IDs \cup {None},
     age : 0..AgeCap, attempts : 0..AttemptClamp]
Attempt ==
    [event : Events, attempts : 1..AttemptClamp, age : 0..AgeCap,
     phase : {"writing", "written", "failed"}]

ASSUME ConstantsAssumption ==
    /\ NumEvents \in Nat
    /\ Lease \in Nat \ {0} /\ MaxBackoff \in Nat \ {0} /\ AttemptClamp \in 1..30
    /\ MaxSkew \in Nat /\ AttemptLimit \in Nat /\ MaxCrashes \in Nat
    /\ PromptPolling \in BOOLEAN /\ Poison \subseteq Events
    /\ Skew \in [Workers -> (-MaxSkew)..MaxSkew]
    /\ WorkerID \in [Workers -> IDs]
    /\ None \notin OutboxRow /\ None \notin Attempt /\ None \notin IDs

TypeOK ==
    /\ rows \in [Events -> OutboxRow \cup {None}]
    /\ worker \in [Workers -> Attempt \cup {None}]
    /\ down \subseteq Workers
    /\ delivered \subseteq Events
    /\ crashes \in 0..MaxCrashes

Init ==
    /\ rows = [e \in Events |-> None]
    /\ worker = [w \in Workers |-> None]
    /\ down = {}
    /\ delivered = {}
    /\ crashes = 0

Busy(w) == worker[w] # None
Idle(w) == worker[w] = None /\ w \notin down

\* Exponential backoff in ticks, the shift clamped and the result capped.
PowersOfTwo == [n \in 0..30 |-> 2^n]

\* Faulty variant: the delay is not capped.
backoffUncapped(attempts) ==
    PowersOfTwo[(IF attempts < 1 THEN 1 ELSE Least(attempts, AttemptClamp)) - 1]

backoff(attempts) ==
    LET clamped == IF attempts < 1 THEN 1 ELSE Least(attempts, AttemptClamp)
    IN  Least(PowersOfTwo[clamped - 1], MaxBackoff)

-----------------------------------------------------------------------------
\* A store commits an outbox row with its change.  Commits of different
\* transactions may become visible in another order than created_at.
Insert(e) ==
    /\ rows[e] = None
    /\ rows' = [rows EXCEPT ![e] =
           [published |-> FALSE, delay |-> 0, claimedBy |-> None, age |-> 0, attempts |-> 0]]
    /\ UNCHANGED <<worker, down, delivered, crashes>>

\* Faulty variants: the lease ends one tick early; published rows are claimed
\* again; claims never expire.
ClaimableEarly(w, e) ==
    /\ rows[e] # None /\ ~rows[e].published /\ rows[e].delay = 0
    /\ rows[e].claimedBy = None \/ rows[e].age + Skew[w] >= Lease
ClaimablePublished(w, e) ==
    /\ rows[e] # None /\ rows[e].delay = 0
    /\ rows[e].claimedBy = None \/ rows[e].age + Skew[w] > Lease
ClaimableUnclaimed(w, e) ==
    /\ rows[e] # None /\ ~rows[e].published /\ rows[e].delay = 0
    /\ rows[e].claimedBy = None

\* The WHERE clause of the claim's SELECT.
Claimable(w, e) ==
    /\ rows[e] # None
    /\ ~rows[e].published
    /\ rows[e].delay = 0
    /\ rows[e].claimedBy = None \/ rows[e].age + Skew[w] > Lease

\* Earlier rows that are skipped must be locked by another publisher's claim.
SkippableBy(w) == Cardinality({v \in Workers \ {w} : Idle(v)})

\* ClaimOutbox: the oldest claimable row, SKIP LOCKED, is leased and counted.
ClaimOutbox(w, e) ==
    /\ Idle(w)
    /\ Claimable(w, e)
    /\ Cardinality({d \in Events : d < e /\ Claimable(w, d)}) <= SkippableBy(w)
    /\ LET attempts == Least(rows[e].attempts + 1, AttemptClamp)
       IN  /\ rows' = [rows EXCEPT ![e] = [@ EXCEPT !.claimedBy = WorkerID[w],
                                                    !.age = 0, !.attempts = attempts]]
           /\ worker' = [worker EXCEPT ![w] =
                  [event |-> e, attempts |-> attempts, age |-> 0, phase |-> "writing"]]
    /\ UNCHANGED <<down, delivered, crashes>>

\* WriteMessages returns nil: every in-sync replica acknowledged the message.
WriteSucceeds(w) ==
    /\ Busy(w) /\ worker[w].phase = "writing"
    /\ worker[w].event \notin Poison
    /\ delivered' = delivered \cup {worker[w].event}
    /\ worker' = [worker EXCEPT ![w] = [@ EXCEPT !.phase = "written"]]
    /\ UNCHANGED <<rows, down, crashes>>

\* Faulty variant: the error of WriteMessages is ignored.
WriteFailsUnnoticed(w) ==
    /\ Busy(w) /\ worker[w].phase = "writing"
    /\ worker' = [worker EXCEPT ![w] = [@ EXCEPT !.phase = "written"]]
    /\ UNCHANGED <<rows, down, delivered, crashes>>

\* WriteMessages returns an error; after a timeout the message may be stored
\* all the same.
WriteFails(w) ==
    /\ Busy(w) /\ worker[w].phase = "writing"
    /\ delivered' \in {delivered, delivered \cup ({worker[w].event} \ Poison)}
    /\ worker' = [worker EXCEPT ![w] = [@ EXCEPT !.phase = "failed"]]
    /\ UNCHANGED <<rows, down, crashes>>

\* The WHERE clause of both mark statements.
OwnsClaim(w, e) == rows[e].claimedBy = WorkerID[w] /\ ~rows[e].published

\* MarkOutboxPublished after an acknowledged write; a worker that lost its
\* claim changes nothing (ErrOutboxOwnership).
MarkOutboxPublished(w) ==
    /\ Busy(w) /\ worker[w].phase = "written"
    /\ LET e == worker[w].event
       IN  rows' = IF OwnsClaim(w, e)
                   THEN [rows EXCEPT ![e] = [@ EXCEPT !.published = TRUE,
                                                      !.claimedBy = None, !.age = 0]]
                   ELSE rows
    /\ worker' = [worker EXCEPT ![w] = None]
    /\ UNCHANGED <<down, delivered, crashes>>

\* MarkOutboxFailed after a failed write: the claim is given up and the row
\* becomes available again after the backoff.
MarkOutboxFailed(w) ==
    /\ Busy(w) /\ worker[w].phase = "failed"
    /\ LET e == worker[w].event
           wait == backoff(worker[w].attempts) + Skew[w]
       IN  rows' = IF OwnsClaim(w, e)
                   THEN [rows EXCEPT ![e] = [@ EXCEPT !.delay = IF wait < 0 THEN 0 ELSE wait,
                                                      !.claimedBy = None, !.age = 0]]
                   ELSE rows
    /\ worker' = [worker EXCEPT ![w] = None]
    /\ UNCHANGED <<down, delivered, crashes>>

\* The mark statement fails (database error, or a failure text longer than
\* 2048 characters): the claim stays until its lease runs out.
MarkRefused(w) ==
    /\ Busy(w) /\ worker[w].phase \in {"written", "failed"}
    /\ worker' = [worker EXCEPT ![w] = None]
    /\ UNCHANGED <<rows, down, delivered, crashes>>

\* The process dies; a write on its way may or may not have been stored.
Crash(w) ==
    /\ w \notin down
    /\ crashes < MaxCrashes
    /\ crashes' = crashes + 1
    /\ \/ delivered' = delivered
       \/ /\ Busy(w) /\ worker[w].phase = "writing"
          /\ delivered' = delivered \cup ({worker[w].event} \ Poison)
    /\ worker' = [worker EXCEPT ![w] = None]
    /\ down' = down \cup {w}
    /\ UNCHANGED rows

Restart(w) ==
    /\ w \in down
    /\ down' = down \ {w}
    /\ UNCHANGED <<rows, worker, delivered, crashes>>

\* One unit of time.  No attempt outlasts AttemptLimit: the write is cut off by
\* its ten-second context, and the limit says how long the rest may take.  With
\* PromptPolling the poll interval is shorter than the tick (500 ms against the
\* one-second unit of the backoff by default).
Tick ==
    /\ PromptPolling => \A w \in Workers : Idle(w) =>
                           \A e \in Events : ~Claimable(w, e)
    /\ \A w \in Workers : Busy(w) => worker[w].age < AttemptLimit
    /\ rows' = [e \in Events |->
           IF rows[e] = None THEN None
           ELSE [rows[e] EXCEPT !.delay = IF @ = 0 THEN 0 ELSE @ - 1,
                                !.age = IF rows[e].claimedBy = None THEN 0
                                        ELSE Least(@ + 1, AgeCap)]]
    /\ worker' = [w \in Workers |->
           IF Busy(w) THEN [worker[w] EXCEPT !.age = Least(@ + 1, AgeCap)] ELSE worker[w]]
    /\ UNCHANGED <<down, delivered, crashes>>

Next ==
    \/ \E e \in Events : Insert(e)
    \/ \E w \in Workers :
          \/ \E e \in Events : ClaimOutbox(w, e)
          \/ WriteSucceeds(w) \/ WriteFails(w)
          \/ MarkOutboxPublished(w) \/ MarkOutboxFailed(w) \/ MarkRefused(w)
          \/ Crash(w) \/ Restart(w)
    \/ Tick

Spec == Init /\ [][Next]_vars

\* Publishers keep polling and finish what they claimed, a dead one is started
\* again, time passes.  Kafka and the database are not unavailable for ever: a
\* write of an acceptable event, or a mark, that is tried again and again
\* succeeds once.
Fairness ==
    /\ WF_vars(Tick)
    /\ \A w \in Workers :
          /\ WF_vars(\E e \in Events : ClaimOutbox(w, e))
          /\ WF_vars(WriteSucceeds(w) \/ WriteFails(w))
          /\ WF_vars(MarkOutboxPublished(w) \/ MarkOutboxFailed(w) \/ MarkRefused(w))
          /\ WF_vars(Restart(w))
          /\ \A e \in Events : SF_vars(Busy(w) /\ worker[w].event = e /\ WriteSucceeds(w))
          /\ \A e \in Events : SF_vars(Busy(w) /\ worker[w].event = e /\ MarkOutboxPublished(w))
FairSpec == Spec /\ Fairness

-----------------------------------------------------------------------------
(* Properties                                                              *)

\* At-least-once: a row is stamped published only when the topic holds its
\* event, whatever crashes, lost claims and refused marks came before.
PublishedWasDelivered ==
    /\ \A e \in Events : rows[e] # None /\ rows[e].published => e \in delivered
    /\ \A w \in Workers :
          Busy(w) /\ worker[w].phase = "written" => worker[w].event \in delivered

DistinctIDs == \A v, w \in Workers : WorkerID[v] = WorkerID[w] => v = w

\* With one worker identifier per process, an attempt in progress loses its
\* claim, to another publisher or to a publication by one, only after its lease
\* ran out, up to the clock skew: two publishers work on one event only if the
\* first outlived its lease.
ClaimHeldForLease ==
    DistinctIDs =>
        \A w \in Workers :
            Busy(w) => \/ OwnsClaim(w, worker[w].event)
                       \/ worker[w].age + MaxSkew > Lease

\* Publication is final: a published row is never claimed, rescheduled or
\* counted again, not even by a stale owner whose write failed late.
PublishedIsFinal ==
    [][\A e \in Events :
          (rows[e] # None /\ rows[e].published) => rows'[e] = rows[e]]_vars

\* Every outbox row is published in the end, although publishers crash, marks
\* are refused and other events fail for ever: no event is starved by a poison
\* event that is older than it.
EventuallyPublished ==
    \A e \in Events \ Poison :
        (rows[e] # None) ~> (rows[e] # None /\ rows[e].published)
=============================================================================
