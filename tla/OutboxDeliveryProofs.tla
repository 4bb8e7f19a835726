----------------------- MODULE OutboxDeliveryProofs -----------------------
(***************************************************************************)
(* Proofs about OutboxDelivery for any number of rows and publishers, any  *)
(* lease, back-off and clock skew.                                         *)
(***************************************************************************)
EXTENDS OutboxDelivery, TLAPS

\* A row that is claimed waits for no back-off, and a published one has neither
\* a claim nor a timer left: nothing that expires can touch it.
RowInv ==
    \A e \in Events : rows[e] # None =>
        /\ rows[e].claimedBy # None => rows[e].delay = 0
        /\ rows[e].published => rows[e].claimedBy = None /\ rows[e].delay = 0 /\ rows[e].age = 0

\* An attempt is at a row that exists, and while it owns the claim the row's
\* lease is as old as the attempt; the claim was lost only when the lease ran
\* out on the fastest clock.
LeaseInv ==
    \A w \in Workers : Busy(w) =>
        /\ rows[worker[w].event] # None
        /\ DistinctIDs =>
              \/ OwnsClaim(w, worker[w].event) /\ rows[worker[w].event].age = worker[w].age
              \/ worker[w].age + MaxSkew > Lease

IInv == TypeOK /\ RowInv /\ PublishedWasDelivered /\ LeaseInv

-----------------------------------------------------------------------------
(* Type correctness                                                        *)

\* The caps are natural numbers and larger than what they cap.
LEMMA Caps ==
    /\ AgeCap \in Nat /\ DelayCap \in Nat /\ AgeCap > 0 /\ AgeCap + MaxSkew > Lease
    /\ MaxSkew \in Nat /\ Lease \in Nat /\ AttemptClamp \in 1..30
BY ConstantsAssumption DEF AgeCap, DelayCap

\* A back-off is never longer than OUTBOX_MAX_BACKOFF.
LEMMA BackoffBound ==
    ASSUME NEW attempts \in 1..AttemptClamp
    PROVE  backoff(attempts) \in Int /\ backoff(attempts) <= MaxBackoff
<1>1. Least(attempts, AttemptClamp) \in 1..30
  BY Caps DEF Least
<1>2. \A n \in 0..30 : 2^n \in Int
  OBVIOUS
<1>3. PowersOfTwo[Least(attempts, AttemptClamp) - 1] \in Int
  BY <1>1, <1>2 DEF PowersOfTwo
<1> QED
  BY <1>3, ConstantsAssumption DEF backoff, Least

\* A timer that ticks stays below its cap.
LEMMA AgeStep ==
    ASSUME NEW age \in 0..AgeCap
    PROVE  Least(age + 1, AgeCap) \in 0..AgeCap
BY Caps DEF Least

\* What the three statements make of a row.
LEMMA RowUpdates ==
    ASSUME NEW r \in OutboxRow
    PROVE  /\ \A id \in IDs, n \in 0..AttemptClamp :
                 [r EXCEPT !.claimedBy = id, !.age = 0, !.attempts = n] \in OutboxRow
           /\ [r EXCEPT !.published = TRUE, !.claimedBy = None, !.age = 0] \in OutboxRow
           /\ \A d \in 0..DelayCap :
                 [r EXCEPT !.delay = d, !.claimedBy = None, !.age = 0] \in OutboxRow
<1>1. 0 \in 0..AgeCap
  BY Caps
<1>2. ASSUME NEW id \in IDs, NEW n \in 0..AttemptClamp
      PROVE  [r EXCEPT !.claimedBy = id, !.age = 0, !.attempts = n] \in OutboxRow
  BY <1>1 DEF OutboxRow
<1>3. [r EXCEPT !.published = TRUE, !.claimedBy = None, !.age = 0] \in OutboxRow
  BY <1>1 DEF OutboxRow
<1>4. ASSUME NEW d \in 0..DelayCap
      PROVE  [r EXCEPT !.delay = d, !.claimedBy = None, !.age = 0] \in OutboxRow
  BY <1>1 DEF OutboxRow
<1> QED
  BY <1>2, <1>3, <1>4

\* The row a claim leaves behind, and the attempt it starts.
LEMMA ClaimOutboxTypeOK ==
    ASSUME TypeOK, NEW w \in Workers, NEW e \in Events, ClaimOutbox(w, e)
    PROVE  TypeOK'
<1> DEFINE n == Least(rows[e].attempts + 1, AttemptClamp)
<1>1. rows[e] \in OutboxRow
  BY DEF ClaimOutbox, Claimable, TypeOK
<1>2. n \in 1..AttemptClamp
  BY <1>1, Caps DEF Least, OutboxRow
<1>3. WorkerID[w] \in IDs
  BY DEF IDs
<1> HIDE DEF n
<1>4. [rows[e] EXCEPT !.claimedBy = WorkerID[w], !.age = 0, !.attempts = n] \in OutboxRow
  <2>1. n \in 0..AttemptClamp /\ 0 \in 0..DelayCap
    BY <1>2, Caps
  <2> QED
    BY <1>1, <1>3, <2>1, RowUpdates
<1>5. [event |-> e, attempts |-> n, age |-> 0, phase |-> "writing"] \in Attempt
  BY <1>2, Caps DEF Attempt
<1>6. /\ rows' = [rows EXCEPT ![e] = [@ EXCEPT !.claimedBy = WorkerID[w], !.age = 0, !.attempts = n]]
      /\ worker' = [worker EXCEPT ![w] =
             [event |-> e, attempts |-> n, age |-> 0, phase |-> "writing"]]
      /\ UNCHANGED <<down, delivered, crashes>>
  BY DEF ClaimOutbox, n
<1>7. rows' \in [Events -> OutboxRow \cup {None}]
  BY <1>4, <1>6 DEF TypeOK
<1>8. worker' \in [Workers -> Attempt \cup {None}]
  BY <1>5, <1>6 DEF TypeOK
<1> QED
  BY <1>6, <1>7, <1>8 DEF TypeOK

\* An attempt in progress is one.
LEMMA BusyType ==
    ASSUME TypeOK, NEW w \in Workers, Busy(w)
    PROVE  worker[w] \in Attempt /\ worker[w].event \in Events
           /\ worker[w].age \in 0..AgeCap /\ worker[w].attempts \in 1..AttemptClamp
<1>1. worker[w] \in Attempt
  BY DEF Busy, TypeOK
<1> QED
  BY <1>1 DEF Attempt

\* Both mark statements keep the types: a delay is a back-off on a clock that is
\* at most MaxSkew ahead.
LEMMA MarkTypeOK ==
    ASSUME TypeOK, LeaseInv, NEW w \in Workers,
           MarkOutboxPublished(w) \/ MarkOutboxFailed(w) \/ MarkRefused(w)
    PROVE  TypeOK'
<1> DEFINE e == worker[w].event
           wait == backoff(worker[w].attempts) + Skew[w]
<1>1. Busy(w)
  BY DEF MarkOutboxPublished, MarkOutboxFailed, MarkRefused
<1>2. e \in Events /\ rows[e] \in OutboxRow
  BY <1>1, BusyType DEF LeaseInv, TypeOK
<1>3. [rows[e] EXCEPT !.published = TRUE, !.claimedBy = None, !.age = 0] \in OutboxRow
  BY <1>2, RowUpdates, Caps
<1>4. (IF wait < 0 THEN 0 ELSE wait) \in 0..DelayCap
  <2>1. Skew[w] \in Int /\ Skew[w] <= MaxSkew
    BY ConstantsAssumption
  <2>2. backoff(worker[w].attempts) \in Int /\ backoff(worker[w].attempts) <= MaxBackoff
    BY <1>1, BusyType, BackoffBound
  <2> QED
    BY <2>1, <2>2, ConstantsAssumption DEF DelayCap
<1>5. [rows[e] EXCEPT !.delay = IF wait < 0 THEN 0 ELSE wait, !.claimedBy = None, !.age = 0]
          \in OutboxRow
  BY <1>2, <1>4, RowUpdates, Caps
<1>6. rows' \in [Events -> OutboxRow \cup {None}]
  <2>1. CASE MarkOutboxPublished(w)
    BY <1>3, <2>1 DEF MarkOutboxPublished, TypeOK
  <2>2. CASE MarkOutboxFailed(w)
    BY <1>5, <2>2 DEF MarkOutboxFailed, TypeOK
  <2>3. CASE MarkRefused(w)
    BY <2>3 DEF MarkRefused, TypeOK
  <2> QED
    BY <2>1, <2>2, <2>3
<1>7. worker' \in [Workers -> Attempt \cup {None}]
  BY DEF MarkOutboxPublished, MarkOutboxFailed, MarkRefused, TypeOK
<1> QED
  BY <1>6, <1>7 DEF MarkOutboxPublished, MarkOutboxFailed, MarkRefused, TypeOK

\* A write keeps the types, however it ends.
LEMMA WriteTypeOK ==
    ASSUME TypeOK, NEW w \in Workers, WriteSucceeds(w) \/ WriteFails(w)
    PROVE  TypeOK'
<1>1. worker[w] \in Attempt /\ worker[w].event \in Events
  BY BusyType DEF WriteSucceeds, WriteFails
<1>2. \A phase \in {"written", "failed"} : [worker[w] EXCEPT !.phase = phase] \in Attempt
  BY <1>1 DEF Attempt
<1>3. worker' \in [Workers -> Attempt \cup {None}]
  BY <1>2 DEF WriteSucceeds, WriteFails, TypeOK
<1>4. delivered' \subseteq Events
  BY <1>1 DEF WriteSucceeds, WriteFails, TypeOK
<1> QED
  BY <1>3, <1>4 DEF WriteSucceeds, WriteFails, TypeOK

\* Time keeps the types.
LEMMA TickTypeOK ==
    ASSUME TypeOK, Tick
    PROVE  TypeOK'
<1>1. ASSUME NEW e \in Events, rows[e] # None
      PROVE  [rows[e] EXCEPT !.delay = IF @ = 0 THEN 0 ELSE @ - 1,
                             !.age = IF rows[e].claimedBy = None THEN 0
                                     ELSE Least(@ + 1, AgeCap)] \in OutboxRow
  <2>1. rows[e] \in OutboxRow
    BY <1>1 DEF TypeOK
  <2>2. /\ (IF rows[e].delay = 0 THEN 0 ELSE rows[e].delay - 1) \in 0..DelayCap
        /\ Least(rows[e].age + 1, AgeCap) \in 0..AgeCap
        /\ 0 \in 0..AgeCap
    BY <2>1, AgeStep, Caps DEF OutboxRow
  <2> QED
    BY <2>1, <2>2 DEF OutboxRow
<1>2. rows' \in [Events -> OutboxRow \cup {None}]
  BY <1>1 DEF Tick, TypeOK
<1>3. ASSUME NEW w \in Workers, Busy(w)
      PROVE  [worker[w] EXCEPT !.age = Least(@ + 1, AgeCap)] \in Attempt
  <2>1. worker[w] \in Attempt /\ Least(worker[w].age + 1, AgeCap) \in 0..AgeCap
    BY <1>3, BusyType, AgeStep
  <2> QED
    BY <2>1 DEF Attempt
<1>4. worker' \in [Workers -> Attempt \cup {None}]
  BY <1>3 DEF Tick, TypeOK
<1> QED
  BY <1>2, <1>4 DEF Tick, TypeOK

\* Every step keeps the types.
LEMMA NextTypeOK == TypeOK /\ LeaseInv /\ [Next]_vars => TypeOK'
<1> SUFFICES ASSUME TypeOK, LeaseInv, [Next]_vars PROVE TypeOK'
  OBVIOUS
<1>1. ASSUME NEW e \in Events, Insert(e)
      PROVE  TypeOK'
  <2>1. [published |-> FALSE, delay |-> 0, claimedBy |-> None, age |-> 0, attempts |-> 0]
            \in OutboxRow
    BY Caps DEF OutboxRow
  <2> QED
    BY <1>1, <2>1 DEF Insert, TypeOK
<1>2. ASSUME NEW w \in Workers, Crash(w)
      PROVE  TypeOK'
  <2>1. delivered' \subseteq Events
    BY <1>2, BusyType DEF Crash, TypeOK
  <2>2. crashes' \in 0..MaxCrashes
    BY <1>2, ConstantsAssumption DEF Crash, TypeOK
  <2> QED
    BY <1>2, <2>1, <2>2 DEF Crash, TypeOK
<1>3. ASSUME NEW w \in Workers, Restart(w)
      PROVE  TypeOK'
  BY <1>3 DEF Restart, TypeOK
<1>4. CASE UNCHANGED vars
  BY <1>4 DEF vars, TypeOK
<1> QED
  BY <1>1, <1>2, <1>3, <1>4, ClaimOutboxTypeOK, WriteTypeOK, MarkTypeOK, TickTypeOK DEF Next

-----------------------------------------------------------------------------
(* What the statements do to a row, field by field                         *)

\* A claim takes a row that is unpublished and due, and starts an attempt whose
\* age is that of the lease.
LEMMA ClaimEffect ==
    ASSUME TypeOK, NEW w \in Workers, NEW e \in Events, ClaimOutbox(w, e)
    PROVE  /\ worker[w] = None /\ Claimable(w, e)
           /\ rows'[e] # None /\ ~rows'[e].published /\ rows'[e].delay = 0
           /\ rows'[e].claimedBy = WorkerID[w] /\ rows'[e].age = 0
           /\ \A d \in Events \ {e} : rows'[d] = rows[d]
           /\ worker'[w].event = e /\ worker'[w].age = 0 /\ worker'[w].phase = "writing"
           /\ \A v \in Workers \ {w} : worker'[v] = worker[v]
           /\ delivered' = delivered
<1> DEFINE n == Least(rows[e].attempts + 1, AttemptClamp)
           new == [rows[e] EXCEPT !.claimedBy = WorkerID[w], !.age = 0, !.attempts = n]
<1>1. rows[e] \in OutboxRow /\ Claimable(w, e)
  BY DEF ClaimOutbox, Claimable, TypeOK
<1>2. /\ new.published = rows[e].published /\ new.delay = rows[e].delay
      /\ new.claimedBy = WorkerID[w] /\ new.age = 0
  BY <1>1 DEF OutboxRow
<1>3. rows' = [rows EXCEPT ![e] = new]
  BY DEF ClaimOutbox
<1>4. rows'[e] = new /\ \A d \in Events \ {e} : rows'[d] = rows[d]
  BY <1>3 DEF TypeOK
<1>5. rows'[e] # None
  <2>1. n \in 0..AttemptClamp
    BY <1>1, Caps DEF OutboxRow, Least
  <2>2. WorkerID[w] \in IDs
    BY DEF IDs
  <2>3. new \in OutboxRow
    BY <1>1, <2>1, <2>2, RowUpdates
  <2> QED
    BY <1>4, <2>3, ConstantsAssumption
<1>6. /\ worker'[w].event = e /\ worker'[w].age = 0 /\ worker'[w].phase = "writing"
      /\ \A v \in Workers \ {w} : worker'[v] = worker[v]
  BY DEF ClaimOutbox, TypeOK
<1> HIDE DEF new, n
<1> QED
  BY <1>1, <1>2, <1>4, <1>5, <1>6 DEF ClaimOutbox, Claimable, Idle

\* A mark by the owner gives the claim up, and by anybody else changes nothing.
LEMMA MarkEffect ==
    ASSUME TypeOK, LeaseInv, NEW w \in Workers, NEW e \in Events,
           MarkOutboxPublished(w) \/ MarkOutboxFailed(w), worker[w].event = e
    PROVE  /\ Busy(w) /\ worker'[w] = None
           /\ \A v \in Workers \ {w} : worker'[v] = worker[v]
           /\ \A d \in Events \ {e} : rows'[d] = rows[d]
           /\ rows[e] # None /\ rows'[e] # None
           /\ \/ rows'[e] = rows[e]
              \/ /\ OwnsClaim(w, e)
                 /\ rows'[e].claimedBy = None /\ rows'[e].age = 0
                 /\ \/ MarkOutboxFailed(w) /\ rows'[e].published = rows[e].published
                    \/ MarkOutboxPublished(w) /\ rows'[e].delay = rows[e].delay
           /\ delivered' = delivered
<1> DEFINE wait == backoff(worker[w].attempts) + Skew[w]
           delay == IF wait < 0 THEN 0 ELSE wait
           done == [rows[e] EXCEPT !.published = TRUE, !.claimedBy = None, !.age = 0]
           later == [rows[e] EXCEPT !.delay = delay, !.claimedBy = None, !.age = 0]
<1>1. Busy(w) /\ delivered' = delivered /\ worker' = [worker EXCEPT ![w] = None]
  BY DEF MarkOutboxPublished, MarkOutboxFailed
<1>2. worker'[w] = None /\ \A v \in Workers \ {w} : worker'[v] = worker[v]
  BY <1>1 DEF TypeOK
<1>3. rows[e] \in OutboxRow /\ rows[e] # None
  BY <1>1 DEF LeaseInv, TypeOK
<1>4. /\ done.claimedBy = None /\ done.age = 0 /\ done.delay = rows[e].delay
      /\ later.claimedBy = None /\ later.age = 0 /\ later.published = rows[e].published
  BY <1>3 DEF OutboxRow
<1>5. /\ MarkOutboxPublished(w) =>
            rows' = IF OwnsClaim(w, e) THEN [rows EXCEPT ![e] = done] ELSE rows
      /\ MarkOutboxFailed(w) =>
            rows' = IF OwnsClaim(w, e) THEN [rows EXCEPT ![e] = later] ELSE rows
  BY DEF MarkOutboxPublished, MarkOutboxFailed
<1>6. rows'[e] # None
  <2>1. done # None
    BY <1>3, RowUpdates, ConstantsAssumption
  <2>2. later # None
    <3>1. worker[w].attempts \in 1..AttemptClamp
      BY <1>1, BusyType
    <3>2. Skew[w] \in Int /\ Skew[w] <= MaxSkew /\ wait \in Int /\ wait <= MaxBackoff + MaxSkew
      BY <3>1, BackoffBound, ConstantsAssumption
    <3>3. delay \in 0..DelayCap
      BY <3>2, Caps DEF DelayCap
    <3>4. PICK r \in OutboxRow, n \in 0..DelayCap : r = rows[e] /\ n = delay
      BY <1>3, <3>3
    <3>5. [r EXCEPT !.delay = n, !.claimedBy = None, !.age = 0] \in OutboxRow
      BY RowUpdates
    <3>6. later = [r EXCEPT !.delay = n, !.claimedBy = None, !.age = 0]
      BY <3>4
    <3> HIDE DEF later
    <3>7. later \in OutboxRow
      BY <3>5, <3>6
    <3> QED
      BY <3>7, ConstantsAssumption
  <2> HIDE DEF done, later
  <2> QED
    BY <1>3, <1>5, <2>1, <2>2 DEF TypeOK
<1> HIDE DEF done, later
<1> QED
  BY <1>1, <1>2, <1>3, <1>4, <1>5, <1>6 DEF TypeOK

\* A tick ages claims and attempts alike and shortens back-offs.
LEMMA TickEffect ==
    ASSUME TypeOK, Tick
    PROVE  /\ \A e \in Events :
                 /\ rows[e] = None => rows'[e] = None
                 /\ rows[e] # None =>
                       /\ rows'[e] # None
                       /\ rows'[e].published = rows[e].published
                       /\ rows'[e].claimedBy = rows[e].claimedBy
                       /\ rows[e].delay = 0 => rows'[e].delay = 0
                       /\ rows'[e].age = IF rows[e].claimedBy = None THEN 0
                                         ELSE Least(rows[e].age + 1, AgeCap)
                       /\ rows[e].delay = 0 /\ rows[e].age = 0 /\ rows[e].claimedBy = None =>
                             rows'[e] = rows[e]
           /\ \A w \in Workers :
                 /\ worker[w] = None => worker'[w] = None
                 /\ Busy(w) => /\ worker'[w] # None
                               /\ worker'[w].event = worker[w].event
                               /\ worker'[w].phase = worker[w].phase
                               /\ worker'[w].age = Least(worker[w].age + 1, AgeCap)
           /\ delivered' = delivered
<1>1. ASSUME NEW e \in Events, rows[e] # None
      PROVE  /\ rows'[e] # None
             /\ rows'[e].published = rows[e].published
             /\ rows'[e].claimedBy = rows[e].claimedBy
             /\ rows[e].delay = 0 => rows'[e].delay = 0
             /\ rows'[e].age = IF rows[e].claimedBy = None THEN 0
                               ELSE Least(rows[e].age + 1, AgeCap)
             /\ rows[e].delay = 0 /\ rows[e].age = 0 /\ rows[e].claimedBy = None =>
                   rows'[e] = rows[e]
  <2> DEFINE d == IF rows[e].delay = 0 THEN 0 ELSE rows[e].delay - 1
             a == IF rows[e].claimedBy = None THEN 0 ELSE Least(rows[e].age + 1, AgeCap)
  <2>1. rows[e] \in OutboxRow
    BY <1>1 DEF TypeOK
  <2>2. d \in 0..DelayCap /\ a \in 0..AgeCap
    BY <2>1, AgeStep, Caps DEF OutboxRow
  <2>3. rows'[e] = [rows[e] EXCEPT !.delay = d, !.age = a]
    BY <1>1 DEF Tick
  <2>4. rows[e].delay = 0 => d = 0
    OBVIOUS
  <2>5. rows[e].claimedBy = None => a = 0
    OBVIOUS
  <2> HIDE DEF d
  <2>6. /\ rows'[e].published = rows[e].published /\ rows'[e].claimedBy = rows[e].claimedBy
        /\ rows'[e].delay = d /\ rows'[e].age = a
    <3> HIDE DEF a
    <3> QED BY <2>1, <2>3 DEF OutboxRow
  <2>7. rows'[e] \in OutboxRow
    <3> HIDE DEF a
    <3> QED BY <2>1, <2>2, <2>3 DEF OutboxRow
  <2>8. rows[e].delay = 0 /\ rows[e].age = 0 /\ rows[e].claimedBy = None => rows'[e] = rows[e]
    <3> HIDE DEF a
    <3> QED BY <2>1, <2>3, <2>4, <2>5 DEF OutboxRow
  <2> QED
    BY <2>4, <2>6, <2>7, <2>8, ConstantsAssumption
<1>2. ASSUME NEW w \in Workers, Busy(w)
      PROVE  /\ worker'[w] # None
             /\ worker'[w].event = worker[w].event
             /\ worker'[w].phase = worker[w].phase
             /\ worker'[w].age = Least(worker[w].age + 1, AgeCap)
  <2> DEFINE a == Least(worker[w].age + 1, AgeCap)
  <2>1. worker[w] \in Attempt /\ a \in 0..AgeCap
    BY <1>2, BusyType, AgeStep
  <2>2. worker'[w] = [worker[w] EXCEPT !.age = a]
    BY <1>2 DEF Tick
  <2> HIDE DEF a
  <2>3. worker'[w] \in Attempt
    BY <2>1, <2>2 DEF Attempt
  <2>4. /\ worker'[w].event = worker[w].event /\ worker'[w].phase = worker[w].phase
        /\ worker'[w].age = a
    BY <2>1, <2>2 DEF Attempt
  <2> QED
    BY <2>3, <2>4, ConstantsAssumption DEF a
<1>3. /\ \A e \in Events : rows[e] = None => rows'[e] = None
      /\ \A w \in Workers : worker[w] = None => worker'[w] = None
      /\ delivered' = delivered
  BY DEF Tick, Busy
<1> QED
  BY <1>1, <1>2, <1>3

-----------------------------------------------------------------------------
(* The inductive invariant                                                 *)

\* Only these steps change the rows.
LEMMA RowsMove ==
    ASSUME [Next]_vars
    PROVE  \/ rows' = rows
           \/ \E e \in Events : Insert(e)
           \/ \E w \in Workers, e \in Events : ClaimOutbox(w, e)
           \/ \E w \in Workers : MarkOutboxPublished(w) \/ MarkOutboxFailed(w)
           \/ Tick
BY DEF Next, WriteSucceeds, WriteFails, MarkRefused, Crash, Restart, vars

\* An inserted row is fresh.
LEMMA InsertEffect ==
    ASSUME TypeOK, NEW e \in Events, Insert(e)
    PROVE  /\ rows[e] = None /\ rows'[e] # None
           /\ ~rows'[e].published /\ rows'[e].claimedBy = None /\ rows'[e].delay = 0
           /\ \A d \in Events \ {e} : rows'[d] = rows[d]
           /\ worker' = worker /\ delivered' = delivered
<1>1. [published |-> FALSE, delay |-> 0, claimedBy |-> None, age |-> 0, attempts |-> 0] \in OutboxRow
  BY Caps DEF OutboxRow
<1> QED
  BY <1>1, ConstantsAssumption DEF Insert, TypeOK

\* Claims and publications leave no timer that could touch a published row.
LEMMA NextRowInv == TypeOK /\ RowInv /\ LeaseInv /\ [Next]_vars => RowInv'
<1> SUFFICES ASSUME TypeOK, RowInv, LeaseInv, [Next]_vars, NEW e \in Events, rows'[e] # None
             PROVE  /\ rows'[e].claimedBy # None => rows'[e].delay = 0
                    /\ rows'[e].published =>
                          rows'[e].claimedBy = None /\ rows'[e].delay = 0 /\ rows'[e].age = 0
  BY DEF RowInv
<1> DEFINE Goal == /\ rows'[e].claimedBy # None => rows'[e].delay = 0
                   /\ rows'[e].published =>
                         rows'[e].claimedBy = None /\ rows'[e].delay = 0 /\ rows'[e].age = 0
<1>1. CASE rows'[e] = rows[e]
  BY <1>1 DEF RowInv
<1>2. ASSUME NEW d \in Events, Insert(d)
      PROVE  Goal
  BY <1>1, <1>2, InsertEffect
<1>3. ASSUME NEW w \in Workers, NEW d \in Events, ClaimOutbox(w, d)
      PROVE  Goal
  BY <1>1, <1>3, ClaimEffect
<1>4. ASSUME NEW w \in Workers, MarkOutboxPublished(w) \/ MarkOutboxFailed(w)
      PROVE  Goal
  <2>1. worker[w].event \in Events
    BY <1>4, BusyType DEF MarkOutboxPublished, MarkOutboxFailed
  <2>2. CASE worker[w].event # e
    BY <1>1, <1>4, <2>1, <2>2, MarkEffect
  <2>3. CASE worker[w].event = e /\ rows'[e] # rows[e]
    <3>1. /\ OwnsClaim(w, e) /\ rows[e] # None
          /\ rows'[e].claimedBy = None /\ rows'[e].age = 0
          /\ \/ rows'[e].published = rows[e].published
             \/ rows'[e].delay = rows[e].delay
      BY <1>4, <2>3, MarkEffect
    <3>2. WorkerID[w] # None
      BY ConstantsAssumption DEF IDs
    <3>3. rows[e].delay = 0 /\ ~rows[e].published
      BY <3>1, <3>2 DEF RowInv, OwnsClaim
    <3> QED
      BY <3>1, <3>3
  <2> QED
    BY <1>1, <2>2, <2>3
<1>5. CASE Tick
  BY <1>5, TickEffect DEF RowInv
<1> QED
  BY <1>1, <1>2, <1>3, <1>4, <1>5, RowsMove

\* At-least-once is kept: only an attempt whose write was acknowledged publishes.
LEMMA NextDelivered ==
    TypeOK /\ LeaseInv /\ PublishedWasDelivered /\ [Next]_vars => PublishedWasDelivered'
<1> SUFFICES ASSUME TypeOK, LeaseInv, PublishedWasDelivered, [Next]_vars
             PROVE  PublishedWasDelivered'
  OBVIOUS
<1>1. delivered \subseteq delivered'
  BY DEF Next, Insert, ClaimOutbox, WriteSucceeds, WriteFails, MarkOutboxPublished,
         MarkOutboxFailed, MarkRefused, Crash, Restart, Tick, vars
<1>2. ASSUME NEW e \in Events, rows'[e] # None, rows'[e].published
      PROVE  e \in delivered'
  <2>1. CASE rows[e] # None /\ rows[e].published
    BY <1>1, <2>1 DEF PublishedWasDelivered
  <2>2. CASE rows'[e] = rows[e]
    BY <1>1, <1>2, <2>2 DEF PublishedWasDelivered
  <2>3. ASSUME NEW d \in Events, Insert(d)
        PROVE  e \in delivered'
    BY <1>2, <2>2, <2>3, InsertEffect
  <2>4. ASSUME NEW w \in Workers, NEW d \in Events, ClaimOutbox(w, d)
        PROVE  e \in delivered'
    BY <1>2, <2>2, <2>4, ClaimEffect
  <2>5. ASSUME NEW w \in Workers, MarkOutboxPublished(w) \/ MarkOutboxFailed(w)
        PROVE  e \in delivered'
    <3>1. worker[w].event \in Events
      BY <2>5, BusyType DEF MarkOutboxPublished, MarkOutboxFailed
    <3>2. CASE MarkOutboxPublished(w) /\ worker[w].event = e
      BY <1>1, <3>2 DEF PublishedWasDelivered, MarkOutboxPublished
    <3>3. CASE MarkOutboxFailed(w) \/ worker[w].event # e
      <4>1. rows[e] = rows'[e] \/ (rows[e] # None /\ rows[e].published)
        <5>1. CASE worker[w].event # e
          BY <2>5, <3>1, <5>1, MarkEffect
        <5>2. CASE worker[w].event = e /\ MarkOutboxFailed(w)
          <6>1. ~MarkOutboxPublished(w)
            BY <5>2 DEF MarkOutboxFailed, MarkOutboxPublished
          <6> QED
            BY <1>2, <5>2, <6>1, MarkEffect
        <5> QED
          BY <3>3, <5>1, <5>2
      <4> QED
        BY <2>1, <2>2, <4>1
    <3> QED
      BY <2>5, <3>2, <3>3
  <2>6. CASE Tick
    BY <1>2, <2>1, <2>6, TickEffect
  <2> QED
    BY <2>2, <2>3, <2>4, <2>5, <2>6, RowsMove
<1>3. ASSUME NEW w \in Workers, Busy(w)', worker'[w].phase = "written"
      PROVE  worker'[w].event \in delivered'
  <2>1. CASE worker'[w] = worker[w]
    BY <1>1, <1>3, <2>1 DEF PublishedWasDelivered, Busy
  <2>2. CASE WriteSucceeds(w)
    <3>1. worker[w] \in Attempt /\ worker'[w] = [worker[w] EXCEPT !.phase = "written"]
      BY <2>2, BusyType DEF WriteSucceeds, TypeOK
    <3>2. worker'[w].event = worker[w].event
      BY <3>1 DEF Attempt
    <3> QED
      BY <2>2, <3>2 DEF WriteSucceeds
  <2>3. CASE WriteFails(w)
    <3>1. worker[w] \in Attempt /\ worker'[w] = [worker[w] EXCEPT !.phase = "failed"]
      BY <2>3, BusyType DEF WriteFails, TypeOK
    <3> QED
      BY <1>3, <3>1 DEF Attempt
  <2>4. ASSUME NEW e \in Events, ClaimOutbox(w, e)
        PROVE  FALSE
    BY <1>3, <2>4, ClaimEffect
  <2>5. CASE MarkOutboxPublished(w) \/ MarkOutboxFailed(w) \/ MarkRefused(w) \/ Crash(w)
    BY <1>3, <2>5 DEF MarkOutboxPublished, MarkOutboxFailed, MarkRefused, Crash, Busy, TypeOK
  <2>6. CASE Tick
    BY <1>1, <1>3, <2>6, TickEffect DEF PublishedWasDelivered, Busy
  <2>7. ASSUME NEW v \in Workers, v # w,
               \/ \E e \in Events : ClaimOutbox(v, e)
               \/ WriteSucceeds(v) \/ WriteFails(v)
               \/ MarkOutboxPublished(v) \/ MarkOutboxFailed(v) \/ MarkRefused(v) \/ Crash(v)
        PROVE  worker'[w] = worker[w]
    BY <2>7 DEF ClaimOutbox, WriteSucceeds, WriteFails, MarkOutboxPublished, MarkOutboxFailed,
                MarkRefused, Crash, TypeOK
  <2> QED
    BY <2>1, <2>2, <2>3, <2>4, <2>5, <2>6, <2>7 DEF Next, Insert, Restart, vars
<1> QED
  BY <1>2, <1>3 DEF PublishedWasDelivered, Busy

\* What a step does to an attempt that is in progress afterwards.
LEMMA AttemptMove ==
    ASSUME TypeOK, [Next]_vars, NEW w \in Workers, Busy(w)', ~Tick,
           \A e \in Events : ~ClaimOutbox(w, e)
    PROVE  Busy(w) /\ worker'[w].event = worker[w].event /\ worker'[w].age = worker[w].age
<1> DEFINE Goal == /\ Busy(w) /\ worker'[w].event = worker[w].event
                   /\ worker'[w].age = worker[w].age
<1>1. CASE worker'[w] = worker[w]
  BY <1>1 DEF Busy
<1>2. CASE WriteSucceeds(w) \/ WriteFails(w)
  <2>1. PICK p \in {"written", "failed"} : worker'[w] = [worker[w] EXCEPT !.phase = p]
    BY <1>2 DEF WriteSucceeds, WriteFails, TypeOK
  <2>2. Busy(w) /\ worker[w] \in Attempt
    BY <1>2, BusyType DEF WriteSucceeds, WriteFails
  <2> QED
    BY <2>1, <2>2 DEF Attempt
<1>3. CASE MarkOutboxPublished(w) \/ MarkOutboxFailed(w) \/ MarkRefused(w) \/ Crash(w)
  BY <1>3 DEF MarkOutboxPublished, MarkOutboxFailed, MarkRefused, Crash, Busy, TypeOK
<1>4. ASSUME NEW v \in Workers, v # w,
             \/ \E e \in Events : ClaimOutbox(v, e)
             \/ WriteSucceeds(v) \/ WriteFails(v)
             \/ MarkOutboxPublished(v) \/ MarkOutboxFailed(v) \/ MarkRefused(v) \/ Crash(v)
      PROVE  worker'[w] = worker[w]
  BY <1>4 DEF ClaimOutbox, WriteSucceeds, WriteFails, MarkOutboxPublished, MarkOutboxFailed,
              MarkRefused, Crash, TypeOK
<1> QED
  BY <1>1, <1>2, <1>3, <1>4 DEF Next, Insert, Restart, vars

\* A claim is taken from an attempt only when the lease ran out: another claim
\* compares the row's age, which is the attempt's, and a mark by another process
\* needs the claim.
LEMMA NextLeaseInv == TypeOK /\ LeaseInv /\ [Next]_vars => LeaseInv'
<1> SUFFICES ASSUME TypeOK, LeaseInv, [Next]_vars, NEW w \in Workers, Busy(w)'
             PROVE  /\ rows'[worker'[w].event] # None
                    /\ DistinctIDs =>
                          \/ /\ OwnsClaim(w, worker[w].event)'
                             /\ rows'[worker'[w].event].age = worker'[w].age
                          \/ worker'[w].age + MaxSkew > Lease
  BY DEF LeaseInv, OwnsClaim, DistinctIDs
<1> DEFINE e == worker[w].event
           Goal == /\ rows'[worker'[w].event] # None
                   /\ DistinctIDs =>
                         \/ /\ rows'[worker'[w].event].claimedBy = WorkerID[w]
                            /\ ~rows'[worker'[w].event].published
                            /\ rows'[worker'[w].event].age = worker'[w].age
                         \/ worker'[w].age + MaxSkew > Lease
<1> SUFFICES Goal
  BY DEF OwnsClaim
<1>0. WorkerID[w] # None
  BY ConstantsAssumption DEF IDs
<1>1. CASE Tick
  <2>1. Busy(w) /\ e \in Events /\ worker'[w].event = e /\ rows[e] # None
    BY <1>1, TickEffect, BusyType DEF Busy, LeaseInv
  <2>2. worker[w].age \in 0..AgeCap /\ worker'[w].age = Least(worker[w].age + 1, AgeCap)
    BY <1>1, <2>1, TickEffect, BusyType
  <2>3. CASE OwnsClaim(w, e) /\ rows[e].age = worker[w].age
    BY <1>0, <1>1, <2>1, <2>2, <2>3, TickEffect DEF OwnsClaim
  <2>4. CASE worker[w].age + MaxSkew > Lease
    <3>1. worker'[w].age + MaxSkew > Lease
      BY <2>2, <2>4, Caps DEF Least
    <3> QED
      BY <1>1, <2>1, <3>1, TickEffect
  <2>5. CASE ~DistinctIDs
    BY <1>1, <2>1, <2>5, TickEffect
  <2> QED
    BY <2>1, <2>3, <2>4, <2>5 DEF LeaseInv
<1>2. ASSUME NEW d \in Events, ClaimOutbox(w, d)
      PROVE  Goal
  BY <1>2, ClaimEffect
<1>3. CASE ~Tick /\ \A d \in Events : ~ClaimOutbox(w, d)
  <2>1. Busy(w) /\ worker'[w].event = e /\ worker'[w].age = worker[w].age
    BY <1>3, AttemptMove
  <2>2. e \in Events /\ worker[w].age \in 0..AgeCap /\ rows[e] # None
    BY <2>1, BusyType DEF LeaseInv
  <2>3. CASE rows'[e] = rows[e]
    BY <2>1, <2>2, <2>3 DEF LeaseInv, OwnsClaim
  <2>4. ASSUME NEW d \in Events, Insert(d)
        PROVE  rows'[e] = rows[e]
    BY <2>2, <2>4, InsertEffect
  <2>5. ASSUME NEW v \in Workers, NEW d \in Events, ClaimOutbox(v, d)
        PROVE  Goal
    <3>1. v # w /\ rows'[d] # None /\ Claimable(v, d)
      BY <1>3, <2>5, ClaimEffect
    <3>2. CASE d = e /\ OwnsClaim(w, e) /\ rows[e].age = worker[w].age
      <4>1. rows[e].age + Skew[v] > Lease
        BY <1>0, <3>1, <3>2 DEF Claimable, OwnsClaim
      <4>2. Skew[v] \in Int /\ Skew[v] <= MaxSkew
        BY ConstantsAssumption
      <4>3. worker[w].age + MaxSkew > Lease
        BY <2>2, <3>2, <4>1, <4>2, Caps
      <4> QED
        BY <2>1, <3>1, <3>2, <4>3
    <3>3. CASE d = e /\ (worker[w].age + MaxSkew > Lease \/ ~DistinctIDs)
      BY <2>1, <3>1, <3>3
    <3>4. CASE d # e
      BY <2>2, <2>3, <2>5, <3>4, ClaimEffect
    <3> QED
      BY <2>1, <3>2, <3>3, <3>4 DEF LeaseInv
  <2>6. ASSUME NEW v \in Workers, MarkOutboxPublished(v) \/ MarkOutboxFailed(v)
        PROVE  Goal
    <3>1. worker[v].event \in Events
      BY <2>6, BusyType DEF MarkOutboxPublished, MarkOutboxFailed
    <3>2. v # w
      BY <2>1, <2>6, <3>1, MarkEffect DEF Busy
    <3>3. CASE worker[v].event # e
      BY <2>2, <2>3, <2>6, <3>1, <3>3, MarkEffect
    <3>4. CASE worker[v].event = e /\ rows'[e] # rows[e]
      <4>1. OwnsClaim(v, e) /\ rows'[e] # None
        BY <2>2, <2>6, <3>4, MarkEffect
      <4>2. DistinctIDs => ~OwnsClaim(w, e)
        BY <3>2, <4>1 DEF OwnsClaim, DistinctIDs
      <4> QED
        BY <2>1, <4>1, <4>2 DEF LeaseInv
    <3> QED
      BY <2>3, <3>3, <3>4
  <2> QED
    BY <1>3, <2>3, <2>4, <2>5, <2>6, RowsMove
<1> QED
  BY <1>1, <1>2, <1>3

-----------------------------------------------------------------------------
(* Theorems                                                                *)

\* Initially there is no row and no attempt.
LEMMA InitIInv == Init => IInv
BY ConstantsAssumption
   DEF Init, IInv, TypeOK, RowInv, PublishedWasDelivered, LeaseInv, Busy

\* The invariant that the others rest on.
THEOREM Inductive == Spec => []IInv
<1>1. IInv /\ [Next]_vars => IInv'
  BY NextTypeOK, NextRowInv, NextDelivered, NextLeaseInv DEF IInv
<1> QED
  BY InitIInv, <1>1, PTL DEF Spec

\* Every step keeps the table, the attempts and their timers within their types:
\* no delay is longer than the longest back-off on the fastest clock
\* (outbox.go MarkOutboxFailed, publisher backoff).
THEOREM TypeCorrect == Spec => []TypeOK
<1>1. IInv => TypeOK
  BY DEF IInv
<1> QED
  BY Inductive, <1>1, PTL

\* At-least-once, whatever crashes, lost claims and refused marks come in between
\* (publisher loop, MarkOutboxPublished).
THEOREM AtLeastOnce == Spec => []PublishedWasDelivered
<1>1. IInv => PublishedWasDelivered
  BY DEF IInv
<1> QED
  BY Inductive, <1>1, PTL

\* With distinct worker identifiers no attempt loses its claim before its lease
\* ran out, up to the clock skew (ClaimOutbox's comparison, the marks' WHERE).
THEOREM LeaseProtects == Spec => []ClaimHeldForLease
<1>1. IInv => ClaimHeldForLease
  BY DEF IInv, LeaseInv, ClaimHeldForLease
<1> QED
  BY Inductive, <1>1, PTL

\* No step changes a published row: both marks and the claim look for one that
\* is not, and no timer of it runs.
THEOREM PublicationIsFinal == Spec => PublishedIsFinal
<1>1. ASSUME IInv, [Next]_vars, NEW e \in Events, rows[e] # None, rows[e].published
      PROVE  rows'[e] = rows[e]
  <2> USE DEF IInv
  <2>1. ASSUME NEW d \in Events, Insert(d)
        PROVE  rows'[e] = rows[e]
    BY <1>1, <2>1, InsertEffect
  <2>2. ASSUME NEW w \in Workers, NEW d \in Events, ClaimOutbox(w, d)
        PROVE  rows'[e] = rows[e]
    BY <1>1, <2>2, ClaimEffect DEF Claimable
  <2>3. ASSUME NEW w \in Workers, MarkOutboxPublished(w) \/ MarkOutboxFailed(w)
        PROVE  rows'[e] = rows[e]
    <3>1. worker[w].event \in Events
      BY <1>1, <2>3, BusyType DEF MarkOutboxPublished, MarkOutboxFailed
    <3> QED
      BY <1>1, <2>3, <3>1, MarkEffect DEF OwnsClaim
  <2>4. CASE Tick
    BY <1>1, <2>4, TickEffect DEF RowInv
  <2> QED
    BY <1>1, <2>1, <2>2, <2>3, <2>4, RowsMove
<1>2. IInv /\ [Next]_vars =>
          [\A e \in Events : (rows[e] # None /\ rows[e].published) => rows'[e] = rows[e]]_vars
  BY <1>1
<1> QED
  BY Inductive, <1>2, PTL DEF Spec, PublishedIsFinal

=============================================================================
