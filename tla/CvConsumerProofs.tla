------------------------- MODULE CvConsumerProofs -------------------------
(***************************************************************************)
(* Proofs about CvConsumer and the response rail it starts, for any        *)
(* replicas, keys, records, signals and bounds: no record is stepped over, *)
(* every response stands on an admitted record, its audit trail matches    *)
(* its history, and it implements ResponseLifecycle.                       *)
(***************************************************************************)
EXTENDS CvConsumer, ISRResponseProofs

\* The tables of the consumer.
ConsumerShape ==
    /\ log = [t \in Topics |-> log[t]] /\ \A t \in Topics : log[t] \in Seq(Envelopes[t])
    /\ committed \in [Topics -> Nat] /\ position \in [Topics -> Nat]
    /\ owner \in [Topics -> Replicas \cup {None}]
    /\ loop \in [Replicas -> [Topics -> Hand \cup {None}]]
    /\ directory \in [Replicas -> Documents \cup {{}}]
    /\ engine \in [Replicas -> SUBSET Alerts]
    /\ faults \in 0..MaxFaults

\* Offsets are offsets of the partition.
BoundsInv ==
    \A t \in Topics :
       /\ committed[t] <= Len(log[t]) /\ position[t] <= Len(log[t])
       /\ \A c \in Replicas : loop[c][t] # None => loop[c][t].offset \in DOMAIN log[t]
       /\ \A o \in Nat : <<t, o>> \in handled => o \in DOMAIN log[t]

\* A process that is down holds nothing.
DownInv ==
    \A c \in Replicas : ~Up(c) => engine[c] = {} /\ \A t \in Topics : loop[c][t] = None

\* A handler was done with the record.
Accounted(t, o) == <<t, o>> \in handled \cup failed
InHand(c, t, o) == loop[c][t] # None /\ loop[c][t].offset = o

\* What the group's offset covers is accounted for.  So is what the reader of
\* the owner handed out, but for the record the owner has in hand, and what
\* comes before a record that any replica, also a former owner, has in hand.
OffsetInv ==
    \A t \in Topics :
       /\ \A o \in 1..committed[t] : Accounted(t, o)
       /\ owner[t] # None =>
             \A o \in 1..position[t] : Accounted(t, o) \/ InHand(owner[t], t, o)
       /\ \A c \in Replicas : loop[c][t] # None =>
             /\ \A o \in 1..(loop[c][t].offset - 1) : Accounted(t, o)
             /\ loop[c][t].step = "handled" => <<t, loop[c][t].offset>> \in handled

\* A handled dark-vessel record has a response.
ResponseInv ==
    \A o \in DOMAIN log["dark"] :
        <<"dark", o>> \in handled => runs[log["dark"][o].content.event] # <<>>

TableInv == ConsumerShape /\ BoundsInv /\ DownInv
CInv == RailInv /\ TableInv /\ OffsetInv /\ ResponseInv /\ RunStandsOnRecord

-----------------------------------------------------------------------------
(* Taking a record in hand and letting go of it                            *)

LEMMA TopicsAre == "dark" \in Topics /\ "vessel" \in Topics
BY DEF Topics

\* A loop takes a record in hand, or lets go of it.
SetHand(c, t, x) == loop' = [loop EXCEPT ![c][t] = x]

\* Only the hand of this loop changes.
LEMMA HandEffect ==
    ASSUME ConsumerShape, NEW c \in Replicas, NEW t \in Topics, NEW x \in Hand \cup {None},
           SetHand(c, t, x)
    PROVE  /\ loop' \in [Replicas -> [Topics -> Hand \cup {None}]]
           /\ loop'[c][t] = x
           /\ \A d \in Replicas, u \in Topics : (d # c \/ u # t) => loop'[d][u] = loop[d][u]
<1>1. loop \in [Replicas -> [Topics -> Hand \cup {None}]]
  BY DEF ConsumerShape
<1> QED
  BY <1>1 DEF SetHand

\* The handler's success marks the record in hand.
LEMMA MarkEffect ==
    ASSUME ConsumerShape, NEW c \in Replicas, NEW t \in Topics, loop[c][t] # None,
           loop' = [loop EXCEPT ![c][t].step = "handled"]
    PROVE  \E x \in Hand : /\ SetHand(c, t, x)
                           /\ x.offset = loop[c][t].offset /\ x.step = "handled"
<1>1. PICK h \in Hand : h = loop[c][t]
  BY DEF ConsumerShape
<1> DEFINE x == [h EXCEPT !.step = "handled"]
<1>2. x \in Hand /\ x.offset = h.offset /\ x.step = "handled"
  BY DEF Hand
<1>3. SetHand(c, t, x)
  BY <1>1 DEF SetHand
<1> QED
  BY <1>1, <1>2, <1>3

\* What is in hand is a record of the partition.
LEMMA RecordInHand ==
    ASSUME TableInv, NEW c \in Replicas, NEW t \in Topics, loop[c][t] # None
    PROVE  /\ loop[c][t] \in Hand /\ loop[c][t].offset \in Nat \ {0}
           /\ loop[c][t].offset \in DOMAIN log[t]
           /\ RecordOf(c, t) \in Envelopes[t] /\ Up(c)
<1>1. loop[c][t] \in Hand
  BY DEF TableInv, ConsumerShape
<1>2. loop[c][t].offset \in DOMAIN log[t] /\ log[t] \in Seq(Envelopes[t])
  BY DEF TableInv, ConsumerShape, BoundsInv
<1>3. Up(c)
  BY DEF TableInv, DownInv
<1> QED
  BY <1>1, <1>2, <1>3 DEF RecordOf

-----------------------------------------------------------------------------
(* The tables                                                              *)

\* A step that changes nothing but hands, history and the group's offset keeps
\* the tables when it lets go of a record, or marks it, or commits its offset.
LEMMA LetGoTables ==
    ASSUME TableInv, NEW c \in Replicas, NEW t \in Topics, loop[c][t] # None,
           NEW x \in Hand \cup {None}, SetHand(c, t, x),
           x # None => x.offset = loop[c][t].offset,
           \/ committed' = committed
           \/ committed' = [committed EXCEPT ![t] = loop[c][t].offset],
           \/ handled' = handled
           \/ handled' = handled \cup {<<t, loop[c][t].offset>>},
           engine' \in [Replicas -> SUBSET Alerts],
           \A d \in Replicas \ {c} : engine'[d] = engine[d],
           UNCHANGED <<log, owner, position, directory, faults>>
    PROVE  TableInv'
<1>0. ConsumerShape
  BY DEF TableInv
<1>1. /\ loop' \in [Replicas -> [Topics -> Hand \cup {None}]]
      /\ loop'[c][t] = x
      /\ \A d \in Replicas, u \in Topics : (d # c \/ u # t) => loop'[d][u] = loop[d][u]
  BY <1>0, HandEffect
<1>2. /\ loop[c][t].offset \in Nat \ {0} /\ loop[c][t].offset \in DOMAIN log[t] /\ Up(c)
      /\ log[t] \in Seq(Envelopes[t])
  BY RecordInHand DEF TableInv, ConsumerShape
<1>3. /\ committed' \in [Topics -> Nat]
      /\ \A u \in Topics : committed'[u] = committed[u] \/ (u = t /\ committed'[u] = loop[c][t].offset)
  BY <1>2 DEF TableInv, ConsumerShape
<1>4. ConsumerShape'
  BY <1>1, <1>3 DEF TableInv, ConsumerShape
<1>5. loop[c][t].offset <= Len(log[t])
  BY <1>2
<1>6. BoundsInv'
  <2> SUFFICES ASSUME NEW u \in Topics
               PROVE  /\ committed'[u] <= Len(log[u]) /\ position[u] <= Len(log[u])
                      /\ \A d \in Replicas : loop'[d][u] # None => loop'[d][u].offset \in DOMAIN log[u]
                      /\ \A o \in Nat : <<u, o>> \in handled' => o \in DOMAIN log[u]
    BY DEF BoundsInv
  <2>1. /\ committed[u] <= Len(log[u]) /\ position[u] <= Len(log[u])
        /\ \A d \in Replicas : loop[d][u] # None => loop[d][u].offset \in DOMAIN log[u]
        /\ \A o \in Nat : <<u, o>> \in handled => o \in DOMAIN log[u]
    BY DEF TableInv, BoundsInv
  <2>2. committed'[u] <= Len(log[u])
    BY <1>3, <1>5, <2>1
  <2>3. ASSUME NEW d \in Replicas, loop'[d][u] # None
        PROVE  loop'[d][u].offset \in DOMAIN log[u]
    BY <1>1, <1>2, <2>1, <2>3
  <2>4. ASSUME NEW o \in Nat, <<u, o>> \in handled'
        PROVE  o \in DOMAIN log[u]
    BY <1>2, <2>1, <2>4
  <2> QED
    BY <2>1, <2>2, <2>3, <2>4
<1>7. DownInv'
  BY <1>1, <1>2 DEF TableInv, DownInv, Up
<1> QED
  BY <1>4, <1>6, <1>7 DEF TableInv

\* Appending keeps what a sequence has.
LEMMA AppendGrows ==
    ASSUME NEW S, NEW s \in Seq(S), NEW x \in S, NEW l, l = Append(s, x)
    PROVE  /\ l \in Seq(S) /\ DOMAIN s \subseteq DOMAIN l
           /\ Len(s) \in Nat /\ Len(l) \in Nat /\ Len(s) <= Len(l)
           /\ \A o \in DOMAIN s : l[o] = s[o]
OBVIOUS

\* A record is appended: offsets so far stay what they are.
LEMMA ProduceEffect ==
    ASSUME ConsumerShape, NEW t \in Topics, NEW envelope \in Envelopes[t], Produce(t, envelope)
    PROVE  /\ log' = [u \in Topics |-> log'[u]] /\ \A u \in Topics : log'[u] \in Seq(Envelopes[u])
           /\ \A u \in Topics : /\ DOMAIN log[u] \subseteq DOMAIN log'[u]
                                /\ Len(log[u]) \in Nat /\ Len(log'[u]) \in Nat
                                /\ Len(log[u]) <= Len(log'[u])
                                /\ \A o \in DOMAIN log[u] : log'[u][o] = log[u][o]
<1>1. log = [u \in Topics |-> log[u]] /\ log' = [log EXCEPT ![t] = Append(log[t], envelope)]
  BY DEF ConsumerShape, Produce
<1>2. log'[t] = Append(log[t], envelope) /\ \A u \in Topics \ {t} : log'[u] = log[u]
  BY <1>1
<1>3. log' = [u \in Topics |-> log'[u]]
  BY <1>1
<1>4. ASSUME NEW u \in Topics
      PROVE  /\ log'[u] \in Seq(Envelopes[u]) /\ DOMAIN log[u] \subseteq DOMAIN log'[u]
             /\ Len(log[u]) \in Nat /\ Len(log'[u]) \in Nat
             /\ Len(log[u]) <= Len(log'[u])
             /\ \A o \in DOMAIN log[u] : log'[u][o] = log[u][o]
  <2>1. log[u] \in Seq(Envelopes[u])
    BY DEF ConsumerShape
  <2>2. CASE u = t
    <3>1. PICK s \in Seq(Envelopes[t]) : s = log[t]
      BY <2>1, <2>2
    <3>2. PICK l : l = Append(s, envelope) /\ l = log'[t]
      BY <1>2, <3>1
    <3>3. /\ l \in Seq(Envelopes[t]) /\ DOMAIN s \subseteq DOMAIN l
          /\ Len(s) \in Nat /\ Len(l) \in Nat /\ Len(s) <= Len(l)
          /\ \A o \in DOMAIN s : l[o] = s[o]
      BY <3>2, AppendGrows
    <3> QED
      BY <2>2, <3>1, <3>2, <3>3
  <2>3. CASE u # t
    BY <1>2, <2>1, <2>3
  <2> QED
    BY <2>2, <2>3
<1> QED
  BY <1>3, <1>4

LEMMA ProduceTables ==
    ASSUME TableInv, NEW t \in Topics, NEW envelope \in Envelopes[t], Produce(t, envelope)
    PROVE  TableInv'
<1>0. UNCHANGED <<committed, owner, position, loop, directory, engine, handled, faults>>
  BY DEF Produce
<1>1. /\ log' = [u \in Topics |-> log'[u]] /\ \A u \in Topics : log'[u] \in Seq(Envelopes[u])
      /\ \A u \in Topics : /\ DOMAIN log[u] \subseteq DOMAIN log'[u]
                           /\ Len(log[u]) \in Nat /\ Len(log'[u]) \in Nat
                           /\ Len(log[u]) <= Len(log'[u])
  BY ProduceEffect DEF TableInv
<1>2. ConsumerShape'
  BY <1>0, <1>1 DEF TableInv, ConsumerShape
<1>3. BoundsInv'
  <2> SUFFICES ASSUME NEW u \in Topics
               PROVE  /\ committed[u] <= Len(log'[u]) /\ position[u] <= Len(log'[u])
                      /\ \A d \in Replicas : loop[d][u] # None => loop[d][u].offset \in DOMAIN log'[u]
                      /\ \A o \in Nat : <<u, o>> \in handled => o \in DOMAIN log'[u]
    BY <1>0 DEF BoundsInv
  <2>1. committed[u] \in Nat /\ position[u] \in Nat
    BY DEF TableInv, ConsumerShape
  <2>2. /\ committed[u] <= Len(log[u]) /\ position[u] <= Len(log[u])
        /\ \A d \in Replicas : loop[d][u] # None => loop[d][u].offset \in DOMAIN log[u]
        /\ \A o \in Nat : <<u, o>> \in handled => o \in DOMAIN log[u]
    BY DEF TableInv, BoundsInv
  <2> QED
    BY <1>1, <2>1, <2>2
<1>4. DownInv'
  BY <1>0 DEF TableInv, DownInv, Up
<1> QED
  BY <1>2, <1>3, <1>4 DEF TableInv

LEMMA RebalanceTables ==
    ASSUME TableInv, NEW assignment \in [Topics -> Replicas], Rebalance(assignment)
    PROVE  TableInv'
<1>1. /\ owner' = assignment /\ position' = committed
      /\ UNCHANGED <<log, committed, loop, directory, engine, handled>>
      /\ faults' <= MaxFaults /\ (faults' = faults \/ faults' = faults + 1)
  BY DEF Rebalance
<1>2. faults' \in 0..MaxFaults
  BY <1>1, ConsumerAssumption DEF TableInv, ConsumerShape
<1>3. ConsumerShape'
  BY <1>1, <1>2 DEF TableInv, ConsumerShape
<1>4. BoundsInv' /\ DownInv'
  BY <1>1 DEF TableInv, BoundsInv, DownInv, Up
<1> QED
  BY <1>3, <1>4 DEF TableInv

\* What a crash leaves of the process and of the assignment.
LEMMA CrashEffect ==
    ASSUME ConsumerShape, NEW c \in Replicas, Crash(c)
    PROVE  /\ UNCHANGED <<rail, log, committed, position, handled, failed>>
           /\ loop' \in [Replicas -> [Topics -> Hand \cup {None}]]
           /\ directory' \in [Replicas -> Documents \cup {{}}]
           /\ engine' \in [Replicas -> SUBSET Alerts]
           /\ owner' \in [Topics -> Replicas \cup {None}]
           /\ faults' \in 0..MaxFaults
           /\ directory'[c] = {} /\ engine'[c] = {} /\ \A t \in Topics : loop'[c][t] = None
           /\ \A d \in Replicas \ {c} :
                 directory'[d] = directory[d] /\ engine'[d] = engine[d] /\ loop'[d] = loop[d]
           /\ \A t \in Topics : \/ owner'[t] = None
                                \/ owner'[t] = owner[t] /\ owner[t] # c
<1>0. /\ loop \in [Replicas -> [Topics -> Hand \cup {None}]]
      /\ directory \in [Replicas -> Documents \cup {{}}]
      /\ engine \in [Replicas -> SUBSET Alerts]
      /\ owner \in [Topics -> Replicas \cup {None}]
      /\ faults \in 0..MaxFaults
  BY DEF ConsumerShape
<1>1. /\ faults < MaxFaults /\ faults' = faults + 1
      /\ directory' = [directory EXCEPT ![c] = {}]
      /\ engine' = [engine EXCEPT ![c] = {}]
      /\ loop' = [loop EXCEPT ![c] = [t \in Topics |-> None]]
      /\ owner' = [t \in Topics |-> IF owner[t] = c THEN None ELSE owner[t]]
      /\ UNCHANGED <<rail, log, committed, position, handled, failed>>
  BY DEF Crash
<1>2. faults' \in 0..MaxFaults
  BY <1>0, <1>1, ConsumerAssumption
<1>3. directory' \in [Replicas -> Documents \cup {{}}] /\ directory'[c] = {}
      /\ \A d \in Replicas \ {c} : directory'[d] = directory[d]
  BY <1>0, <1>1
<1>4. engine' \in [Replicas -> SUBSET Alerts] /\ engine'[c] = {}
      /\ \A d \in Replicas \ {c} : engine'[d] = engine[d]
  BY <1>0, <1>1
<1>5. loop' \in [Replicas -> [Topics -> Hand \cup {None}]]
      /\ \A t \in Topics : loop'[c][t] = None
      /\ \A d \in Replicas \ {c} : loop'[d] = loop[d]
  BY <1>0, <1>1
<1>6. /\ owner' \in [Topics -> Replicas \cup {None}]
      /\ \A t \in Topics : \/ owner'[t] = None
                           \/ owner'[t] = owner[t] /\ owner[t] # c
  <2>1. \A t \in Topics : (IF owner[t] = c THEN None ELSE owner[t]) \in Replicas \cup {None}
    BY <1>0
  <2>2. owner' \in [Topics -> Replicas \cup {None}]
    BY <1>1, <2>1
  <2>3. ASSUME NEW t \in Topics
        PROVE  owner'[t] = None \/ (owner'[t] = owner[t] /\ owner[t] # c)
    BY <1>1
  <2> QED
    BY <2>2, <2>3
<1> QED
  BY <1>1, <1>2, <1>3, <1>4, <1>5, <1>6

LEMMA CrashTables ==
    ASSUME TableInv, NEW c \in Replicas, Crash(c)
    PROVE  TableInv'
<1>1. /\ UNCHANGED <<log, committed, position, handled>>
      /\ loop' \in [Replicas -> [Topics -> Hand \cup {None}]]
      /\ directory' \in [Replicas -> Documents \cup {{}}]
      /\ engine' \in [Replicas -> SUBSET Alerts]
      /\ owner' \in [Topics -> Replicas \cup {None}]
      /\ faults' \in 0..MaxFaults
      /\ engine'[c] = {} /\ \A t \in Topics : loop'[c][t] = None
      /\ \A d \in Replicas \ {c} :
            directory'[d] = directory[d] /\ engine'[d] = engine[d] /\ loop'[d] = loop[d]
  BY CrashEffect DEF TableInv
<1>2. ConsumerShape'
  BY <1>1 DEF TableInv, ConsumerShape
<1>3. BoundsInv'
  BY <1>1 DEF TableInv, BoundsInv
<1>4. DownInv'
  BY <1>1 DEF TableInv, DownInv, Up
<1> QED
  BY <1>2, <1>3, <1>4 DEF TableInv

LEMMA StartTables ==
    ASSUME TableInv, NEW c \in Replicas, Start(c)
    PROVE  TableInv'
<1>1. PICK document \in Documents :
        /\ document # {} /\ directory' = [directory EXCEPT ![c] = document]
        /\ UNCHANGED <<log, committed, owner, position, loop, engine, handled, faults>>
  BY DEF Start, Loadable
<1>2. /\ directory' \in [Replicas -> Documents \cup {{}}] /\ directory'[c] # {}
      /\ \A d \in Replicas \ {c} : directory'[d] = directory[d]
  BY <1>1 DEF TableInv, ConsumerShape
<1>3. ConsumerShape'
  BY <1>1, <1>2 DEF TableInv, ConsumerShape
<1>4. BoundsInv' /\ DownInv'
  BY <1>1, <1>2 DEF TableInv, BoundsInv, DownInv, Up
<1> QED
  BY <1>3, <1>4 DEF TableInv

\* The reader hands out the next record.
LEMMA FetchEffect ==
    ASSUME ConsumerShape, NEW c \in Replicas, NEW t \in Topics, FetchMessage(c, t)
    PROVE  \E x \in Hand :
              /\ SetHand(c, t, x)
              /\ x.offset = position[t] + 1 /\ x.step = "fetched"
              /\ position' \in [Topics -> Nat] /\ position'[t] = position[t] + 1
              /\ \A u \in Topics \ {t} : position'[u] = position[u]
<1>1. position \in [Topics -> Nat] /\ position[t] \in Nat
  BY DEF ConsumerShape
<1> DEFINE x == [offset |-> position[t] + 1, step |-> "fetched"]
<1>2. x \in Hand
  BY <1>1 DEF Hand
<1>3. SetHand(c, t, x) /\ position' = [position EXCEPT ![t] = position[t] + 1]
  BY DEF FetchMessage, SetHand
<1>4. position' \in [Topics -> Nat] /\ position'[t] = position[t] + 1
      /\ \A u \in Topics \ {t} : position'[u] = position[u]
  BY <1>1, <1>3
<1> QED
  BY <1>2, <1>3, <1>4

LEMMA FetchTables ==
    ASSUME TableInv, NEW c \in Replicas, NEW t \in Topics, FetchMessage(c, t)
    PROVE  TableInv'
<1>0. /\ Up(c) /\ position[t] < Len(log[t])
      /\ UNCHANGED <<log, committed, owner, directory, engine, handled, faults>>
  BY DEF FetchMessage
<1>1. PICK x \in Hand :
         /\ SetHand(c, t, x)
         /\ x.offset = position[t] + 1 /\ x.step = "fetched"
         /\ position' \in [Topics -> Nat] /\ position'[t] = position[t] + 1
         /\ \A u \in Topics \ {t} : position'[u] = position[u]
  BY FetchEffect DEF TableInv
<1>2. /\ loop' \in [Replicas -> [Topics -> Hand \cup {None}]]
      /\ loop'[c][t] = x
      /\ \A d \in Replicas, u \in Topics : (d # c \/ u # t) => loop'[d][u] = loop[d][u]
  BY <1>1, HandEffect DEF TableInv
<1>3. ConsumerShape'
  BY <1>0, <1>1, <1>2 DEF TableInv, ConsumerShape
<1>4. BoundsInv'
  <2>1. position[t] \in Nat /\ log[t] \in Seq(Envelopes[t])
    BY DEF TableInv, ConsumerShape
  <2>2. position'[t] <= Len(log[t]) /\ x.offset \in DOMAIN log[t]
    BY <1>0, <1>1, <2>1
  <2> QED
    BY <1>0, <1>1, <1>2, <2>2 DEF TableInv, BoundsInv
<1>5. DownInv'
  BY <1>0, <1>2 DEF TableInv, DownInv, Up
<1> QED
  BY <1>3, <1>4, <1>5 DEF TableInv

-----------------------------------------------------------------------------
(* Offsets                                                                 *)

\* Records appended, and keys loaded, change no account.
LEMMA QuietOffsets ==
    ASSUME OffsetInv, UNCHANGED <<committed, owner, position, loop, handled, failed>>
    PROVE  OffsetInv'
BY DEF OffsetInv, Accounted, InHand

\* The new owner starts at the group's offset.
LEMMA RebalanceOffsets ==
    ASSUME OffsetInv, NEW assignment, Rebalance(assignment)
    PROVE  OffsetInv'
<1>1. position' = committed /\ UNCHANGED <<committed, loop, handled, failed>>
  BY DEF Rebalance
<1> QED
  BY <1>1 DEF OffsetInv, Accounted, InHand

\* What a crashed owner had in hand is handed out again.
LEMMA CrashOffsets ==
    ASSUME TableInv, OffsetInv, NEW c \in Replicas, Crash(c)
    PROVE  OffsetInv'
<1>1. /\ UNCHANGED <<committed, position, handled, failed>>
      /\ \A t \in Topics : loop'[c][t] = None
      /\ \A d \in Replicas \ {c} : loop'[d] = loop[d]
      /\ \A t \in Topics : owner'[t] = None \/ (owner'[t] = owner[t] /\ owner[t] # c)
  BY CrashEffect DEF TableInv
<1> SUFFICES ASSUME NEW t \in Topics
             PROVE  /\ \A o \in 1..committed[t] : Accounted(t, o)
                    /\ owner'[t] # None =>
                          \A o \in 1..position[t] : Accounted(t, o) \/ InHand(owner[t], t, o)'
                    /\ \A d \in Replicas : loop'[d][t] # None =>
                          /\ \A o \in 1..(loop'[d][t].offset - 1) : Accounted(t, o)
                          /\ loop'[d][t].step = "handled" => <<t, loop'[d][t].offset>> \in handled
  BY <1>1 DEF OffsetInv, Accounted
<1>2. \A o \in 1..committed[t] : Accounted(t, o)
  BY DEF OffsetInv
<1>3. ASSUME owner'[t] # None, NEW o \in 1..position[t]
      PROVE  Accounted(t, o) \/ InHand(owner[t], t, o)'
  <2>1. owner'[t] = owner[t] /\ owner[t] \in Replicas \ {c}
    BY <1>1, <1>3 DEF TableInv, ConsumerShape
  <2>2. Accounted(t, o) \/ InHand(owner[t], t, o)
    BY <1>3, <2>1 DEF OffsetInv
  <2> QED
    BY <1>1, <2>1, <2>2 DEF InHand
<1>4. ASSUME NEW d \in Replicas, loop'[d][t] # None
      PROVE  /\ \A o \in 1..(loop'[d][t].offset - 1) : Accounted(t, o)
             /\ loop'[d][t].step = "handled" => <<t, loop'[d][t].offset>> \in handled
  <2>1. loop'[d] = loop[d]
    BY <1>1, <1>4
  <2> QED
    BY <1>4, <2>1 DEF OffsetInv
<1> QED
  BY <1>2, <1>3, <1>4

\* The owner fetches when it has nothing in hand: all before is accounted for.
LEMMA FetchOffsets ==
    ASSUME TableInv, OffsetInv, NEW c \in Replicas, NEW t \in Topics, FetchMessage(c, t)
    PROVE  OffsetInv'
<1>0. /\ owner[t] = c /\ loop[c][t] = None
      /\ UNCHANGED <<committed, owner, handled, failed>>
  BY DEF FetchMessage
<1>1. PICK x \in Hand :
         /\ SetHand(c, t, x)
         /\ x.offset = position[t] + 1 /\ x.step = "fetched"
         /\ position'[t] = position[t] + 1
         /\ \A u \in Topics \ {t} : position'[u] = position[u]
  BY FetchEffect DEF TableInv
<1>2. /\ loop'[c][t] = x
      /\ \A d \in Replicas, u \in Topics : (d # c \/ u # t) => loop'[d][u] = loop[d][u]
  BY <1>1, HandEffect DEF TableInv
<1>3. position[t] \in Nat /\ x # None /\ c # None
  BY ConsumerAssumption DEF TableInv, ConsumerShape
<1>4. \A o \in 1..position[t] : Accounted(t, o)
  BY <1>0, <1>3 DEF OffsetInv, InHand
<1> SUFFICES ASSUME NEW u \in Topics
             PROVE  /\ \A o \in 1..committed[u] : Accounted(u, o)
                    /\ owner[u] # None =>
                          \A o \in 1..position'[u] : Accounted(u, o) \/ InHand(owner[u], u, o)'
                    /\ \A d \in Replicas : loop'[d][u] # None =>
                          /\ \A o \in 1..(loop'[d][u].offset - 1) : Accounted(u, o)
                          /\ loop'[d][u].step = "handled" => <<u, loop'[d][u].offset>> \in handled
  BY <1>0 DEF OffsetInv, Accounted
<1>5. \A o \in 1..committed[u] : Accounted(u, o)
  BY DEF OffsetInv
<1>6. ASSUME owner[u] # None, NEW o \in 1..position'[u]
      PROVE  Accounted(u, o) \/ InHand(owner[u], u, o)'
  <2>1. CASE u = t
    <3>1. o \in 1..position[t] \/ o = x.offset
      BY <1>1, <1>3, <1>6, <2>1
    <3> QED
      BY <1>0, <1>2, <1>3, <1>4, <2>1, <3>1 DEF InHand
  <2>2. CASE u # t
    <3>1. owner[u] \in Replicas /\ o \in 1..position[u]
      BY <1>1, <1>6, <2>2 DEF TableInv, ConsumerShape
    <3>2. Accounted(u, o) \/ InHand(owner[u], u, o)
      BY <1>6, <3>1 DEF OffsetInv
    <3> QED
      BY <1>0, <1>2, <2>2, <3>1, <3>2 DEF InHand
  <2> QED
    BY <2>1, <2>2
<1>7. ASSUME NEW d \in Replicas, loop'[d][u] # None
      PROVE  /\ \A o \in 1..(loop'[d][u].offset - 1) : Accounted(u, o)
             /\ loop'[d][u].step = "handled" => <<u, loop'[d][u].offset>> \in handled
  <2>1. CASE d = c /\ u = t
    <3>1. x.offset - 1 = position[t]
      BY <1>1, <1>3
    <3> QED
      BY <1>1, <1>2, <1>4, <2>1, <3>1
  <2>2. CASE d # c \/ u # t
    BY <1>2, <1>7, <2>2 DEF OffsetInv
  <2> QED
    BY <2>1, <2>2
<1> QED
  BY <1>5, <1>6, <1>7

\* A loop lets go of its record, or marks it, once the record is accounted for,
\* and the group's offset moves to that record at most.
LEMMA LetGoOffsets ==
    ASSUME TableInv, OffsetInv, NEW c \in Replicas, NEW t \in Topics, loop[c][t] # None,
           NEW x \in Hand \cup {None}, SetHand(c, t, x),
           x # None => x.offset = loop[c][t].offset,
           <<t, loop[c][t].offset>> \in handled' \cup failed',
           x # None => <<t, loop[c][t].offset>> \in handled',
           handled \subseteq handled', failed \subseteq failed',
           \/ committed' = committed
           \/ committed' = [committed EXCEPT ![t] = loop[c][t].offset],
           UNCHANGED <<owner, position>>
    PROVE  OffsetInv'
<1>0. PICK n \in Nat \ {0} : n = loop[c][t].offset
  BY RecordInHand
<1>a. ConsumerShape
  BY DEF TableInv
<1>1. /\ loop'[c][t] = x
      /\ \A d \in Replicas, u \in Topics : (d # c \/ u # t) => loop'[d][u] = loop[d][u]
  BY <1>a, HandEffect
<1>2. n \in Nat \ {0}
  OBVIOUS
<1>3. \A o \in 1..(n - 1) : Accounted(t, o)'
  BY <1>0 DEF OffsetInv, Accounted
<1>4. Accounted(t, n)'
  BY <1>0 DEF Accounted
<1>5. \A u \in Topics : committed'[u] = committed[u] \/ (u = t /\ committed'[u] = n)
  BY <1>0 DEF TableInv, ConsumerShape
<1>6. \A u \in Topics : \A o : Accounted(u, o) => Accounted(u, o)'
  BY DEF Accounted
<1> SUFFICES ASSUME NEW u \in Topics
             PROVE  /\ \A o \in 1..committed'[u] : Accounted(u, o)'
                    /\ owner[u] # None =>
                          \A o \in 1..position[u] : Accounted(u, o)' \/ InHand(owner[u], u, o)'
                    /\ \A d \in Replicas : loop'[d][u] # None =>
                          /\ \A o \in 1..(loop'[d][u].offset - 1) : Accounted(u, o)'
                          /\ loop'[d][u].step = "handled" => <<u, loop'[d][u].offset>> \in handled'
  BY DEF OffsetInv
<1>7. ASSUME NEW o \in 1..committed'[u] PROVE Accounted(u, o)'
  <2>1. CASE committed'[u] = committed[u]
    BY <1>6, <1>7, <2>1 DEF OffsetInv
  <2>2. CASE u = t /\ committed'[u] = n
    <3>1. o \in 1..(n - 1) \/ o = n
      BY <1>2, <1>7, <2>2
    <3> QED
      BY <1>3, <1>4, <2>2, <3>1
  <2> QED
    BY <1>5, <2>1, <2>2
<1>8. ASSUME owner[u] # None, NEW o \in 1..position[u]
      PROVE  Accounted(u, o)' \/ InHand(owner[u], u, o)'
  <2>0. owner[u] \in Replicas
    BY <1>8 DEF TableInv, ConsumerShape
  <2>1. Accounted(u, o) \/ InHand(owner[u], u, o)
    BY <1>8 DEF OffsetInv
  <2>2. CASE Accounted(u, o)
    BY <1>6, <2>2
  <2>3. CASE InHand(owner[u], u, o) /\ owner[u] = c /\ u = t
    BY <1>0, <1>4, <2>3 DEF InHand
  <2>4. CASE InHand(owner[u], u, o) /\ (owner[u] # c \/ u # t)
    BY <1>1, <2>0, <2>4 DEF InHand
  <2> QED
    BY <2>1, <2>2, <2>3, <2>4
<1>9. ASSUME NEW d \in Replicas, loop'[d][u] # None
      PROVE  /\ \A o \in 1..(loop'[d][u].offset - 1) : Accounted(u, o)'
             /\ loop'[d][u].step = "handled" => <<u, loop'[d][u].offset>> \in handled'
  <2>1. CASE d = c /\ u = t
    BY <1>0, <1>1, <1>3, <1>9, <2>1
  <2>2. CASE d # c \/ u # t
    BY <1>1, <1>6, <1>9, <2>2 DEF OffsetInv
  <2> QED
    BY <2>1, <2>2
<1> QED
  BY <1>7, <1>8, <1>9

-----------------------------------------------------------------------------
(* Responses                                                               *)

\* The record on which a response of this alert and label may stand.
Grounds(a, level, envelope) ==
    /\ envelope.signature # Unsigned
    /\ envelope.content.event = a
    /\ envelope.content.type = "dark"
    /\ envelope.content.bundle /\ envelope.content.payload
    /\ envelope.signature.kid \in UNION Documents
    /\ envelope.signature.over = envelope.content
    /\ envelope.content.label \in DOMAIN classificationFromEnvelope
    /\ level = classificationFromEnvelope[envelope.content.label]

LEMMA AdmissionIs ==
    RunStandsOnRecord <=> \A a \in Alerts : \A n \in DOMAIN runs[a] :
        \E o \in DOMAIN log["dark"] : Grounds(a, runs[a][n].level, log["dark"][o])
BY DEF RunStandsOnRecord, Warrants, Grounds

LEMMA AdmissionIsNext ==
    RunStandsOnRecord' <=> \A a \in Alerts : \A n \in DOMAIN runs'[a] :
        \E o \in DOMAIN log'["dark"] : Grounds(a, runs'[a][n].level, log'["dark"][o])
BY DEF RunStandsOnRecord, Warrants, Grounds

\* No run is lost or gets another label.
RunsKept ==
    \A b \in Alerts : \A n \in DOMAIN runs'[b] :
        n \in DOMAIN runs[b] /\ runs'[b][n].level = runs[b][n].level
ResponsesKept ==
    \A b \in Alerts : runs[b] # <<>> => runs'[b] # <<>>

\* What an admitted dark-vessel record says.
LEMMA AdmittedRecord ==
    ASSUME TableInv, NEW c \in Replicas, loop[c]["dark"] # None,
           Admitted(c, "dark", RecordOf(c, "dark"))
    PROVE  LET content == RecordOf(c, "dark").content
               level == classificationFromEnvelope[content.label]
           IN  /\ content.event \in Alerts /\ level \in Levels
               /\ Grounds(content.event, level, RecordOf(c, "dark"))
<1> DEFINE envelope == RecordOf(c, "dark")
<1>1. envelope \in Envelopes["dark"]
  BY RecordInHand, TopicsAre
<1>2. /\ envelope.signature # Unsigned /\ envelope.signature.kid \in directory[c]
      /\ envelope.signature.over = envelope.content
      /\ envelope.content.bundle /\ envelope.content.type = "dark"
      /\ envelope.content.label \in DOMAIN classificationFromEnvelope
      /\ envelope.content.payload
  BY DEF Admitted, verify, VerifyEnvelope
<1>3. directory[c] \in Documents \cup {{}}
  BY DEF TableInv, ConsumerShape
<1>4. envelope.signature.kid \in UNION Documents
  BY <1>2, <1>3
<1>5. envelope.content \in Content /\ classificationFromEnvelope[envelope.content.label] \in Levels
  BY <1>1, <1>2, TopicsAre, ConsumerAssumption
<1>6. envelope.content.event \in Alerts
  BY <1>5 DEF Content
<1> HIDE DEF envelope
<1>7. Grounds(envelope.content.event, classificationFromEnvelope[envelope.content.label], envelope)
  BY <1>2, <1>4 DEF Grounds
<1> QED
  BY <1>5, <1>6, <1>7 DEF envelope

\* A step of the rail keeps runs and labels.
LEMMA RailKeepsRuns ==
    ASSUME RailInv, RailNext
    PROVE  RunsKept /\ ResponsesKept
<1>0. RailShape /\ RailShape'
  BY RailNextKeeps DEF RailInv
<1>1. CASE runs' = runs
  BY <1>1 DEF RunsKept, ResponsesKept
<1>2. ASSUME NEW a \in Alerts, NEW q \in Run, Open(a), SetCurrent(a, q), Continues(Current(a), q)
      PROVE  RunsKept /\ ResponsesKept
  <2>1. /\ Len(runs'[a]) = Len(runs[a]) /\ DOMAIN runs'[a] = DOMAIN runs[a]
        /\ runs'[a][Len(runs[a])] = q
        /\ \A n \in DOMAIN runs[a] \ {Len(runs[a])} : runs'[a][n] = runs[a][n]
        /\ \A b \in Alerts \ {a} : runs'[b] = runs[b]
    BY <1>0, <1>2, SetCurrentEffect
  <2>2. q.level = runs[a][Len(runs[a])].level
    BY <1>2 DEF Continues, Current
  <2>3. RunsKept
    <3> SUFFICES ASSUME NEW b \in Alerts, NEW n \in DOMAIN runs'[b]
                 PROVE  n \in DOMAIN runs[b] /\ runs'[b][n].level = runs[b][n].level
      BY DEF RunsKept
    <3> QED
      BY <2>1, <2>2
  <2>4. runs[a] \in Seq(Run) /\ runs'[a] \in Seq(Run)
    BY <1>0 DEF RailShape
  <2>5. runs[a] # <<>> => runs'[a] # <<>>
    BY <2>1, <2>4
  <2> QED
    BY <2>1, <2>3, <2>5 DEF ResponsesKept
<1> QED
  BY <1>1, <1>2, RunMoves

\* Starting a workflow: the alert has a response afterwards, open or new.
LEMMA ExecuteEffect ==
    ASSUME RailInv, NEW a \in Alerts, NEW level \in Levels, ExecuteWorkflow(a, level),
           UNCHANGED <<inbox, outbox, late>>
    PROVE  /\ RailInv'
           /\ runs'[a] # <<>> /\ ResponsesKept
           /\ \A b \in Alerts : \A n \in DOMAIN runs'[b] :
                 \/ n \in DOMAIN runs[b] /\ runs'[b][n].level = runs[b][n].level
                 \/ b = a /\ runs'[b][n].level = level
           /\ Lifecycle!Next \/ responsesBar' = responsesBar
<1>1. CASE Open(a)
  <2>1. runs' = runs /\ runs[a] # <<>>
    BY <1>1 DEF ExecuteWorkflow, Open
  <2>2. RailInv'
    BY <2>1 DEF RailInv, RailShape, RunsInv, TrailInv, RowsInv
  <2>3. responsesBar' = responsesBar
    BY <2>1 DEF responsesBar
  <2> QED
    BY <2>1, <2>2, <2>3 DEF ResponsesKept
<1>2. CASE ~Open(a)
  <2>1. Len(runs[a]) < MaxRuns /\ runs' = [runs EXCEPT ![a] = Append(@, NewRun(level))]
    BY <1>2 DEF ExecuteWorkflow
  <2>2. RailInv'
    BY <1>2, <2>1, StartKeeps
  <2>3. Lifecycle!Next
    BY <1>2, <2>1, <2>2, StartRefines
  <2> DEFINE r == NewRun(level)
  <2>4. r \in Run /\ r.level = level
    <3>1. <<>> \in Seq(AuditEntry)
      OBVIOUS
    <3> QED
      BY <3>1 DEF NewRun, Run, States, Status
  <2>5. runs'[a] = Append(runs[a], r) /\ (\A b \in Alerts \ {a} : runs'[b] = runs[b])
        /\ runs[a] \in Seq(Run)
    BY <2>1 DEF RailInv, RailShape
  <2> HIDE DEF r
  <2>6. /\ runs'[a] # <<>>
        /\ \A n \in DOMAIN runs'[a] : \/ n \in DOMAIN runs[a] /\ runs'[a][n] = runs[a][n]
                                      \/ runs'[a][n] = r
    <3>1. ASSUME NEW s \in Seq(Run), NEW t, t = Append(s, r)
          PROVE  /\ t # <<>> /\ Len(s) \in Nat /\ DOMAIN s = 1..Len(s)
                 /\ DOMAIN t = 1..(Len(s) + 1)
                 /\ \A n \in 1..Len(s) : t[n] = s[n]
                 /\ t[Len(s) + 1] = r
      BY <2>4, <3>1
    <3>2. ASSUME NEW s \in Seq(Run), NEW t, t = Append(s, r), NEW n \in DOMAIN t
          PROVE  (n \in DOMAIN s /\ t[n] = s[n]) \/ t[n] = r
      <4>1. /\ Len(s) \in Nat /\ DOMAIN s = 1..Len(s)
            /\ n \in 1..(Len(s) + 1)
            /\ \A m \in 1..Len(s) : t[m] = s[m]
            /\ t[Len(s) + 1] = r
        BY <3>1, <3>2
      <4> QED
        BY <4>1
    <3>3. PICK s \in Seq(Run) : s = runs[a]
      BY <2>5
    <3>4. PICK t : t = runs'[a]
      OBVIOUS
    <3>5. t = Append(s, r)
      BY <2>5, <3>3, <3>4
    <3>6. t # <<>> /\ \A n \in DOMAIN t : (n \in DOMAIN s /\ t[n] = s[n]) \/ t[n] = r
      BY <3>1, <3>2, <3>5
    <3> QED
      BY <3>3, <3>4, <3>6
  <2>7. ResponsesKept
    BY <2>5, <2>6 DEF ResponsesKept
  <2>8. ASSUME NEW b \in Alerts, NEW n \in DOMAIN runs'[b]
        PROVE  \/ n \in DOMAIN runs[b] /\ runs'[b][n].level = runs[b][n].level
               \/ b = a /\ runs'[b][n].level = level
    BY <2>4, <2>5, <2>6, <2>8
  <2> QED
    BY <2>2, <2>3, <2>6, <2>7, <2>8
<1> QED
  BY <1>1, <1>2

\* Dark-vessel records are about alerts.
LEMMA RecordEvent ==
    ASSUME TableInv, NEW o \in DOMAIN log["dark"]
    PROVE  log["dark"][o].content.event \in Alerts
<1>1. log["dark"] \in Seq(Envelopes["dark"])
  BY TopicsAre DEF TableInv, ConsumerShape
<1>2. PICK e \in Envelopes["dark"] : e = log["dark"][o]
  BY <1>1
<1>3. e.content \in Content
  BY TopicsAre, ConsumerAssumption
<1>4. e.content.event \in Alerts
  BY <1>3 DEF Content
<1> QED
  BY <1>2, <1>4

\* Steps that start no response keep the grounds of the responses, also when
\* records are appended.
LEMMA QuietResponses ==
    ASSUME RunStandsOnRecord, ResponseInv, TableInv, RunsKept, ResponsesKept,
           DOMAIN log["dark"] \subseteq DOMAIN log'["dark"],
           \A o \in DOMAIN log["dark"] : log'["dark"][o] = log["dark"][o],
           \A o \in DOMAIN log'["dark"] : <<"dark", o>> \in handled' => <<"dark", o>> \in handled,
           \A o \in DOMAIN log'["dark"] : o \in Nat
    PROVE  RunStandsOnRecord' /\ ResponseInv'
<1>1. RunStandsOnRecord'
  <2> SUFFICES ASSUME NEW a \in Alerts, NEW n \in DOMAIN runs'[a]
               PROVE  \E o \in DOMAIN log'["dark"] : Grounds(a, runs'[a][n].level, log'["dark"][o])
    BY AdmissionIsNext
  <2>1. n \in DOMAIN runs[a] /\ runs'[a][n].level = runs[a][n].level
    BY DEF RunsKept
  <2>2. PICK o \in DOMAIN log["dark"] : Grounds(a, runs[a][n].level, log["dark"][o])
    BY <2>1, AdmissionIs
  <2>3. Grounds(a, runs'[a][n].level, log'["dark"][o])
    BY <2>1, <2>2
  <2> QED
    BY <2>3
<1>2. ResponseInv'
  <2> SUFFICES ASSUME NEW o \in DOMAIN log'["dark"], <<"dark", o>> \in handled'
               PROVE  runs'[log'["dark"][o].content.event] # <<>>
    BY DEF ResponseInv
  <2>1. <<"dark", o>> \in handled /\ o \in DOMAIN log["dark"]
    BY TopicsAre DEF TableInv, BoundsInv
  <2>2. runs[log["dark"][o].content.event] # <<>> /\ log'["dark"][o] = log["dark"][o]
    BY <2>1 DEF ResponseInv
  <2>3. log["dark"][o].content.event \in Alerts
    BY <2>1, RecordEvent
  <2> QED
    BY <2>2, <2>3 DEF ResponsesKept
<1> QED
  BY <1>1, <1>2

\* Steps that change neither the partitions nor what was handled.
LEMMA StillResponses ==
    ASSUME CInv, RunsKept, ResponsesKept, log' = log,
           \A o : <<"dark", o>> \in handled' => <<"dark", o>> \in handled
    PROVE  RunStandsOnRecord' /\ ResponseInv'
<1>1. log["dark"] \in Seq(Envelopes["dark"])
  BY TopicsAre DEF CInv, TableInv, ConsumerShape
<1>2. \A o \in DOMAIN log["dark"] : o \in Nat
  BY <1>1
<1> QED
  BY <1>2, QuietResponses DEF CInv

LEMMA RailStill ==
    ASSUME CInv, UNCHANGED rail
    PROVE  RailInv' /\ RunsKept /\ ResponsesKept /\ responsesBar' = responsesBar
<1>1. UNCHANGED <<runs, inbox, outbox, late>>
  BY DEF rail
<1>2. RailInv'
  BY <1>1 DEF CInv, RailInv, RailShape, RunsInv, TrailInv, RowsInv
<1> QED
  BY <1>1, <1>2 DEF RunsKept, ResponsesKept, responsesBar

\* The handler of a dark-vessel record starts the workflow it stands for.
LEMMA DarkResponses ==
    ASSUME CInv, NEW c \in Replicas, loop[c]["dark"] # None,
           Admitted(c, "dark", RecordOf(c, "dark")),
           LET content == RecordOf(c, "dark").content
           IN  ExecuteWorkflow(content.event, classificationFromEnvelope[content.label]),
           UNCHANGED <<inbox, outbox, late>>, log' = log,
           handled' \subseteq handled \cup {<<"dark", loop[c]["dark"].offset>>}
    PROVE  /\ RailInv' /\ RunStandsOnRecord' /\ ResponseInv'
           /\ Lifecycle!Next \/ responsesBar' = responsesBar
<1>0. PICK k \in DOMAIN log["dark"] : k = loop[c]["dark"].offset /\ RecordOf(c, "dark") = log["dark"][k]
  BY RecordInHand, TopicsAre DEF CInv, RecordOf
<1>1. PICK a \in Alerts, level \in Levels :
        /\ a = log["dark"][k].content.event
        /\ ExecuteWorkflow(a, level) /\ Grounds(a, level, log["dark"][k])
  BY <1>0, AdmittedRecord DEF CInv
<1>2. /\ RailInv'
      /\ runs'[a] # <<>> /\ ResponsesKept
      /\ \A b \in Alerts : \A n \in DOMAIN runs'[b] :
            \/ n \in DOMAIN runs[b] /\ runs'[b][n].level = runs[b][n].level
            \/ b = a /\ runs'[b][n].level = level
      /\ Lifecycle!Next \/ responsesBar' = responsesBar
  BY <1>1, ExecuteEffect DEF CInv
<1>3. RunStandsOnRecord'
  <2> SUFFICES ASSUME NEW b \in Alerts, NEW n \in DOMAIN runs'[b]
               PROVE  \E o \in DOMAIN log["dark"] : Grounds(b, runs'[b][n].level, log["dark"][o])
    BY AdmissionIsNext
  <2>1. CASE n \in DOMAIN runs[b] /\ runs'[b][n].level = runs[b][n].level
    <3>1. PICK o \in DOMAIN log["dark"] : Grounds(b, runs[b][n].level, log["dark"][o])
      BY <2>1, AdmissionIs DEF CInv
    <3> QED
      BY <2>1, <3>1
  <2>2. CASE b = a /\ runs'[b][n].level = level
    BY <1>1, <2>2
  <2> QED
    BY <1>2, <2>1, <2>2
<1>4. ResponseInv'
  <2> SUFFICES ASSUME NEW o \in DOMAIN log["dark"], <<"dark", o>> \in handled'
               PROVE  runs'[log["dark"][o].content.event] # <<>>
    BY DEF ResponseInv
  <2>1. CASE o = k
    BY <1>1, <1>2, <2>1
  <2>2. CASE <<"dark", o>> \in handled
    <3>1. runs[log["dark"][o].content.event] # <<>>
      BY <2>2 DEF CInv, ResponseInv
    <3>2. log["dark"][o].content.event \in Alerts
      BY RecordEvent DEF CInv
    <3> QED
      BY <1>2, <3>1, <3>2 DEF ResponsesKept
  <2> QED
    BY <1>0, <2>1, <2>2
<1> QED
  BY <1>2, <1>3, <1>4

-----------------------------------------------------------------------------
(* The steps                                                               *)

\* A step of the responses, as the life cycle has them, or none.
LifecycleStep == Lifecycle!Next \/ responsesBar' = responsesBar
Good == CInv' /\ LifecycleStep

\* The surroundings, and the start of a process.
LEMMA SurroundingsKeep ==
    ASSUME CInv,
           \/ \E t \in Topics : \E envelope \in Envelopes[t] : Produce(t, envelope)
           \/ \E assignment \in [Topics -> Replicas] : Rebalance(assignment)
           \/ \E c \in Replicas : Crash(c) \/ Start(c)
    PROVE  Good
<1>0. TableInv /\ OffsetInv /\ ConsumerShape
  BY DEF CInv, TableInv
<1>1. ASSUME NEW t \in Topics, NEW envelope \in Envelopes[t], Produce(t, envelope)
      PROVE  Good
  <2>1. UNCHANGED <<rail, committed, owner, position, loop, handled, failed>>
    BY <1>1 DEF Produce
  <2>2. TableInv' /\ OffsetInv'
    BY <1>0, <1>1, <2>1, ProduceTables, QuietOffsets
  <2>3. RailInv' /\ RunsKept /\ ResponsesKept /\ responsesBar' = responsesBar
    BY <2>1, RailStill
  <2>4. /\ DOMAIN log["dark"] \subseteq DOMAIN log'["dark"]
        /\ \A o \in DOMAIN log["dark"] : log'["dark"][o] = log["dark"][o]
        /\ log'["dark"] \in Seq(Envelopes["dark"])
    BY <1>0, <1>1, ProduceEffect, TopicsAre
  <2>5. \A o \in DOMAIN log'["dark"] : o \in Nat
    BY <2>4
  <2>6. RunStandsOnRecord' /\ ResponseInv'
    BY <1>0, <2>1, <2>3, <2>4, <2>5, QuietResponses DEF CInv
  <2> QED
    BY <2>2, <2>3, <2>6 DEF Good, CInv, LifecycleStep
<1>2. ASSUME NEW assignment \in [Topics -> Replicas], Rebalance(assignment)
      PROVE  Good
  <2>1. UNCHANGED <<rail, log, handled>>
    BY <1>2 DEF Rebalance
  <2>2. TableInv' /\ OffsetInv'
    BY <1>0, <1>2, RebalanceTables, RebalanceOffsets
  <2>3. RailInv' /\ RunsKept /\ ResponsesKept /\ responsesBar' = responsesBar
    BY <2>1, RailStill
  <2>4. RunStandsOnRecord' /\ ResponseInv'
    BY <2>1, <2>3, StillResponses
  <2> QED
    BY <2>2, <2>3, <2>4 DEF Good, CInv, LifecycleStep
<1>3. ASSUME NEW c \in Replicas, Crash(c)
      PROVE  Good
  <2>1. UNCHANGED <<rail, log, handled>>
    BY <1>3 DEF Crash
  <2>2. TableInv' /\ OffsetInv'
    BY <1>0, <1>3, CrashTables, CrashOffsets
  <2>3. RailInv' /\ RunsKept /\ ResponsesKept /\ responsesBar' = responsesBar
    BY <2>1, RailStill
  <2>4. RunStandsOnRecord' /\ ResponseInv'
    BY <2>1, <2>3, StillResponses
  <2> QED
    BY <2>2, <2>3, <2>4 DEF Good, CInv, LifecycleStep
<1>4. ASSUME NEW c \in Replicas, Start(c)
      PROVE  Good
  <2>1. UNCHANGED <<rail, log, committed, owner, position, loop, handled, failed>>
    BY <1>4 DEF Start
  <2>2. TableInv' /\ OffsetInv'
    BY <1>0, <1>4, <2>1, StartTables, QuietOffsets
  <2>3. RailInv' /\ RunsKept /\ ResponsesKept /\ responsesBar' = responsesBar
    BY <2>1, RailStill
  <2>4. RunStandsOnRecord' /\ ResponseInv'
    BY <2>1, <2>3, StillResponses
  <2> QED
    BY <2>2, <2>3, <2>4 DEF Good, CInv, LifecycleStep
<1> QED
  BY <1>1, <1>2, <1>3, <1>4

LEMMA FetchKeeps ==
    ASSUME CInv, NEW c \in Replicas, NEW t \in Topics, FetchMessage(c, t)
    PROVE  Good
<1>1. UNCHANGED <<rail, log, handled>>
  BY DEF FetchMessage
<1>2. TableInv' /\ OffsetInv'
  BY FetchTables, FetchOffsets DEF CInv
<1>3. RailInv' /\ RunsKept /\ ResponsesKept /\ responsesBar' = responsesBar
  BY <1>1, RailStill
<1>4. RunStandsOnRecord' /\ ResponseInv'
  BY <1>1, <1>3, StillResponses
<1> QED
  BY <1>2, <1>3, <1>4 DEF Good, CInv, LifecycleStep

\* What a handler's failure does to tables and offsets.
LEMMA FailureKeeps ==
    ASSUME CInv, NEW c \in Replicas, NEW t \in Topics, Fetched(c, t), HandlerFails(c, t),
           UNCHANGED <<log, committed, owner, position, directory, engine, faults>>
    PROVE  TableInv' /\ OffsetInv' /\ handled' = handled
<1>0. TableInv /\ OffsetInv /\ loop[c][t] # None
  BY DEF CInv, Fetched
<1>1. /\ SetHand(c, t, None) /\ handled' = handled
      /\ failed' = failed \cup {<<t, loop[c][t].offset>>}
  BY DEF HandlerFails, SetHand
<1>2. None \in Hand \cup {None} /\ engine' \in [Replicas -> SUBSET Alerts]
  BY <1>0 DEF TableInv, ConsumerShape
<1>3. <<t, loop[c][t].offset>> \in handled' \cup failed' /\ failed \subseteq failed'
  BY <1>1
<1>4. TableInv'
  BY <1>0, <1>1, <1>2, LetGoTables
<1>5. OffsetInv'
  BY <1>0, <1>1, <1>2, <1>3, LetGoOffsets
<1> QED
  BY <1>1, <1>4, <1>5

\* And its success.
LEMMA SuccessKeeps ==
    ASSUME CInv, NEW c \in Replicas, NEW t \in Topics, Fetched(c, t), HandlerSucceeds(c, t),
           engine' \in [Replicas -> SUBSET Alerts],
           \A d \in Replicas \ {c} : engine'[d] = engine[d],
           UNCHANGED <<log, committed, owner, position, directory, faults>>
    PROVE  /\ TableInv' /\ OffsetInv'
           /\ handled' = handled \cup {<<t, loop[c][t].offset>>}
<1>0. TableInv /\ OffsetInv /\ ConsumerShape /\ loop[c][t] # None
  BY DEF CInv, TableInv, Fetched
<1>1. /\ loop' = [loop EXCEPT ![c][t].step = "handled"] /\ failed' = failed
      /\ handled' = handled \cup {<<t, loop[c][t].offset>>}
  BY DEF HandlerSucceeds
<1>2. PICK x \in Hand : /\ SetHand(c, t, x)
                        /\ x.offset = loop[c][t].offset /\ x.step = "handled"
  BY <1>0, <1>1, MarkEffect
<1>3. /\ <<t, loop[c][t].offset>> \in handled' /\ handled \subseteq handled'
      /\ <<t, loop[c][t].offset>> \in handled' \cup failed'
      /\ x \in Hand \cup {None}
  BY <1>1
<1>4. TableInv'
  BY <1>0, <1>1, <1>2, <1>3, LetGoTables
<1>5. OffsetInv'
  BY <1>0, <1>1, <1>2, <1>3, LetGoOffsets
<1> QED
  BY <1>1, <1>4, <1>5

LEMMA CommitKeeps ==
    ASSUME CInv, NEW c \in Replicas, NEW t \in Topics, CommitMessages(c, t)
    PROVE  Good
<1>0. TableInv /\ OffsetInv
  BY DEF CInv
<1>1. /\ loop[c][t] # None /\ loop[c][t].step = "handled"
      /\ \/ committed' = committed
         \/ committed' = [committed EXCEPT ![t] = loop[c][t].offset]
      /\ SetHand(c, t, None)
      /\ UNCHANGED <<rail, log, owner, position, directory, engine, handled, failed, faults>>
  BY DEF CommitMessages, SetHand
<1>2. None \in Hand \cup {None} /\ engine' \in [Replicas -> SUBSET Alerts]
  BY <1>0, <1>1 DEF TableInv, ConsumerShape
<1>3. <<t, loop[c][t].offset>> \in handled' \cup failed'
  BY <1>0, <1>1 DEF OffsetInv
<1>4. TableInv'
  BY <1>0, <1>1, <1>2, LetGoTables
<1>5. OffsetInv'
  BY <1>0, <1>1, <1>2, <1>3, LetGoOffsets
<1>6. RailInv' /\ RunsKept /\ ResponsesKept /\ responsesBar' = responsesBar
  BY <1>1, RailStill
<1>7. RunStandsOnRecord' /\ ResponseInv'
  BY <1>1, <1>6, StillResponses
<1> QED
  BY <1>4, <1>5, <1>6, <1>7 DEF Good, CInv, LifecycleStep

LEMMA RejectKeeps ==
    ASSUME CInv, NEW c \in Replicas, NEW t \in Topics, RejectRecord(c, t)
    PROVE  Good
<1>1. /\ Fetched(c, t) /\ HandlerFails(c, t)
      /\ UNCHANGED <<rail, log, committed, owner, position, directory, engine, faults>>
  BY DEF RejectRecord
<1>2. TableInv' /\ OffsetInv' /\ handled' = handled
  BY <1>1, FailureKeeps
<1>3. RailInv' /\ RunsKept /\ ResponsesKept /\ responsesBar' = responsesBar
  BY <1>1, RailStill
<1>4. RunStandsOnRecord' /\ ResponseInv'
  BY <1>1, <1>2, <1>3, StillResponses
<1> QED
  BY <1>2, <1>3, <1>4 DEF Good, CInv, LifecycleStep

LEMMA VesselKeeps ==
    ASSUME CInv, NEW c \in Replicas, HandleVesselDetection(c)
    PROVE  Good
<1>0. TableInv
  BY DEF CInv
<1>1. /\ Fetched(c, "vessel") /\ HandlerSucceeds(c, "vessel")
      /\ engine' = [engine EXCEPT ![c] = @ \cup {RecordOf(c, "vessel").content.event}]
      /\ UNCHANGED <<rail, log, committed, owner, position, directory, faults>>
  BY DEF HandleVesselDetection
<1>2. PICK e \in Envelopes["vessel"] : e = RecordOf(c, "vessel")
  BY <1>0, <1>1, RecordInHand, TopicsAre DEF Fetched
<1>3. e.content \in Content
  BY TopicsAre, ConsumerAssumption
<1>4. e.content.event \in Alerts
  BY <1>3 DEF Content
<1>5. engine \in [Replicas -> SUBSET Alerts]
  BY <1>0 DEF TableInv, ConsumerShape
<1>6. engine' \in [Replicas -> SUBSET Alerts] /\ \A d \in Replicas \ {c} : engine'[d] = engine[d]
  BY <1>1, <1>2, <1>4, <1>5
<1>7. /\ TableInv' /\ OffsetInv'
      /\ handled' = handled \cup {<<"vessel", loop[c]["vessel"].offset>>}
  BY <1>1, <1>6, SuccessKeeps, TopicsAre
<1>8. RailInv' /\ RunsKept /\ ResponsesKept /\ responsesBar' = responsesBar
  BY <1>1, RailStill
<1>9. \A o : <<"dark", o>> \in handled' => <<"dark", o>> \in handled
  BY <1>7
<1>10. RunStandsOnRecord' /\ ResponseInv'
  BY <1>1, <1>8, <1>9, StillResponses
<1> QED
  BY <1>7, <1>8, <1>10 DEF Good, CInv, LifecycleStep

LEMMA DarkKeeps ==
    ASSUME CInv, NEW c \in Replicas, HandleDarkVessel(c)
    PROVE  Good
<1>1. /\ Fetched(c, "dark") /\ HandlerSucceeds(c, "dark") /\ loop[c]["dark"] # None
      /\ Admitted(c, "dark", RecordOf(c, "dark"))
      /\ UNCHANGED <<inbox, outbox, late, log, committed, owner, position, directory, engine, faults>>
  BY DEF HandleDarkVessel, Fetched
<1>2. LET content == RecordOf(c, "dark").content
      IN  ExecuteWorkflow(content.event, classificationFromEnvelope[content.label])
  BY DEF HandleDarkVessel
<1>3. engine' \in [Replicas -> SUBSET Alerts]
  BY <1>1 DEF CInv, TableInv, ConsumerShape
<1>4. /\ TableInv' /\ OffsetInv'
      /\ handled' = handled \cup {<<"dark", loop[c]["dark"].offset>>}
  BY <1>1, <1>3, SuccessKeeps, TopicsAre
<1>5. RailInv' /\ RunStandsOnRecord' /\ ResponseInv' /\ LifecycleStep
  BY <1>1, <1>2, <1>4, DarkResponses DEF LifecycleStep
<1> QED
  BY <1>4, <1>5 DEF Good, CInv

LEMMA StartFailureKeeps ==
    ASSUME CInv, NEW c \in Replicas, StartISRFails(c)
    PROVE  Good
<1>1. /\ Fetched(c, "dark") /\ HandlerFails(c, "dark") /\ loop[c]["dark"] # None
      /\ Admitted(c, "dark", RecordOf(c, "dark"))
      /\ UNCHANGED <<inbox, outbox, late, log, committed, owner, position, directory, engine, faults>>
  BY DEF StartISRFails, Fetched
<1>2. TableInv' /\ OffsetInv' /\ handled' = handled
  BY <1>1, FailureKeeps, TopicsAre
<1>3. CASE LET content == RecordOf(c, "dark").content
           IN  ExecuteWorkflow(content.event, classificationFromEnvelope[content.label])
  <2>1. RailInv' /\ RunStandsOnRecord' /\ ResponseInv' /\ LifecycleStep
    BY <1>1, <1>2, <1>3, DarkResponses DEF LifecycleStep
  <2> QED
    BY <1>2, <2>1 DEF Good, CInv
<1>4. CASE UNCHANGED runs
  <2>1. UNCHANGED rail
    BY <1>1, <1>4 DEF rail
  <2>2. RailInv' /\ RunsKept /\ ResponsesKept /\ responsesBar' = responsesBar
    BY <2>1, RailStill
  <2>3. RunStandsOnRecord' /\ ResponseInv'
    BY <1>1, <1>2, <2>2, StillResponses
  <2> QED
    BY <1>2, <2>2, <2>3 DEF Good, CInv, LifecycleStep
<1> QED
  BY <1>3, <1>4 DEF StartISRFails

\* A step of the rail, the consumer at rest.
LEMMA RailKeeps ==
    ASSUME CInv, RailNext, UNCHANGED consumer
    PROVE  Good
<1>1. UNCHANGED <<log, committed, owner, position, loop, directory, engine, handled, failed, faults>>
  BY DEF consumer
<1>2. RailInv' /\ RunsKept /\ ResponsesKept /\ LifecycleStep
  BY RailNextKeeps, RailKeepsRuns, RailRefines DEF CInv, LifecycleStep
<1>3. TableInv' /\ OffsetInv'
  BY <1>1, QuietOffsets DEF CInv, TableInv, ConsumerShape, BoundsInv, DownInv, Up
<1>4. RunStandsOnRecord' /\ ResponseInv'
  BY <1>1, <1>2, StillResponses
<1> QED
  BY <1>2, <1>3, <1>4 DEF Good, CInv

\* Every step keeps the invariant and is one of the life cycle, or none.
LEMMA StepKeeps ==
    ASSUME CInv, [Next]_vars
    PROVE  Good
<1>1. CASE Next
  BY <1>1, SurroundingsKeep, FetchKeeps, RejectKeeps, VesselKeeps, DarkKeeps,
     StartFailureKeeps, CommitKeeps, RailKeeps DEF Next, Handle
<1>2. CASE UNCHANGED vars
  <2>1. UNCHANGED rail /\ UNCHANGED <<log, committed, owner, position, loop, directory, engine,
                                      handled, failed, faults>>
    BY <1>2 DEF vars, consumer
  <2>2. RailInv' /\ RunsKept /\ ResponsesKept /\ responsesBar' = responsesBar
    BY <2>1, RailStill
  <2>3. TableInv' /\ OffsetInv'
    BY <2>1, QuietOffsets DEF CInv, TableInv, ConsumerShape, BoundsInv, DownInv, Up
  <2>4. RunStandsOnRecord' /\ ResponseInv'
    BY <2>1, <2>2, StillResponses
  <2> QED
    BY <2>2, <2>3, <2>4 DEF Good, CInv, LifecycleStep
<1> QED
  BY <1>1, <1>2

-----------------------------------------------------------------------------
(* The theorems                                                            *)

\* Nothing is published, assigned, in hand or running at first.
LEMMA InitKeeps == Init => CInv
<1> SUFFICES ASSUME Init PROVE CInv
  OBVIOUS
<1>1. /\ runs = [a \in Alerts |-> <<>>]
      /\ inbox = [a \in Alerts |-> [c \in Channels |-> <<>>]]
      /\ outbox = {} /\ late = {}
  BY DEF Init, RailInit, NoSignals
<1>2. /\ log = [t \in Topics |-> <<>>]
      /\ committed = [t \in Topics |-> 0] /\ owner = [t \in Topics |-> None]
      /\ position = [t \in Topics |-> 0]
      /\ loop = [c \in Replicas |-> [t \in Topics |-> None]]
      /\ directory = [c \in Replicas |-> {}] /\ engine = [c \in Replicas |-> {}]
      /\ handled = {} /\ faults = 0
  BY DEF Init
<1>3. RailInv
  <2>1. \A a \in Alerts : runs[a] = <<>> /\ DOMAIN runs[a] = {} /\ Len(runs[a]) = 0
    BY <1>1
  <2>2. RailShape
    <3>1. inbox \in [Alerts -> [Channels -> Seq(Signal)]]
      BY <1>1
    <3>2. runs \in [Alerts -> Seq(Run)]
      BY <1>1
    <3>3. \A a \in Alerts : Len(runs[a]) <= MaxRuns
      BY <2>1, RailAssumption
    <3> QED
      BY <1>1, <3>1, <3>2, <3>3 DEF RailShape
  <2> QED
    BY <1>1, <2>1, <2>2 DEF RailInv, RunsInv, TrailInv, RowsInv
<1>4. \A t \in Topics : log[t] = <<>> /\ DOMAIN log[t] = {} /\ Len(log[t]) = 0
                        /\ log[t] \in Seq(Envelopes[t])
  BY <1>2
<1>5. TableInv
  <2>1. ConsumerShape
    <3>1. log = [t \in Topics |-> log[t]]
      BY <1>2
    <3>2. faults \in 0..MaxFaults
      BY <1>2, ConsumerAssumption
    <3> QED
      BY <1>2, <1>4, <3>1, <3>2 DEF ConsumerShape
  <2>2. BoundsInv
    BY <1>2, <1>4 DEF BoundsInv
  <2>3. DownInv
    BY <1>2 DEF DownInv
  <2> QED
    BY <2>1, <2>2, <2>3 DEF TableInv
<1>6. OffsetInv
  BY <1>2 DEF OffsetInv
<1>7. ResponseInv /\ RunStandsOnRecord
  BY <1>1, <1>2, <1>4, TopicsAre DEF ResponseInv, RunStandsOnRecord
<1> QED
  BY <1>3, <1>5, <1>6, <1>7 DEF CInv

\* The invariant is inductive: consumers and responses stay in it whatever
\* crashes, is rebalanced, redelivered, refused or retried.
THEOREM Inductive == Spec => []CInv
<1>1. CInv /\ [Next]_vars => CInv'
  BY StepKeeps DEF Good
<1> QED
  BY InitKeeps, <1>1, PTL DEF Spec

\* The tables of the consumer and of the rail have their types, offsets stay in
\* their partition and a process that is down holds nothing.
THEOREM TypeCorrect == Spec => []TypeOK
<1>1. CInv => TypeOK
  <2> SUFFICES ASSUME CInv PROVE TypeOK
    OBVIOUS
  <2>1. RailTypeOK /\ TableInv
    BY RailTypes DEF CInv
  <2>2. ASSUME NEW t \in Topics
        PROVE  /\ \A o \in DOMAIN log[t] : log[t][o] \in Envelopes[t]
               /\ committed[t] \in 0..Len(log[t]) /\ position[t] \in 0..Len(log[t])
               /\ owner[t] \in Replicas \cup {None}
    <3>1. /\ log[t] \in Seq(Envelopes[t]) /\ committed[t] \in Nat /\ position[t] \in Nat
          /\ owner[t] \in Replicas \cup {None}
          /\ committed[t] <= Len(log[t]) /\ position[t] <= Len(log[t])
      BY <2>1 DEF TableInv, ConsumerShape, BoundsInv
    <3> QED
      BY <3>1
  <2>3. ASSUME NEW t \in Topics, NEW c \in Replicas
        PROVE  loop[c][t] \in [offset : DOMAIN log[t], step : {"fetched", "handled"}] \cup {None}
    <3>1. CASE loop[c][t] = None
      BY <3>1
    <3>2. CASE loop[c][t] # None
      <4>1. loop[c][t] \in Hand /\ loop[c][t].offset \in DOMAIN log[t]
        BY <2>1, <3>2, RecordInHand
      <4> QED
        BY <4>1 DEF Hand
    <3> QED
      BY <3>1, <3>2
  <2>4. ASSUME NEW c \in Replicas
        PROVE  /\ directory[c] \in Documents \cup {{}} /\ engine[c] \subseteq Alerts
               /\ ~Up(c) => engine[c] = {} /\ \A t \in Topics : loop[c][t] = None
    BY <2>1 DEF TableInv, ConsumerShape, DownInv
  <2>5. faults \in 0..MaxFaults
    BY <2>1 DEF TableInv, ConsumerShape
  <2> QED
    BY <2>1, <2>2, <2>3, <2>4, <2>5 DEF TypeOK
<1> QED
  BY Inductive, <1>1, PTL

\* A handler that starts a response has its record in hand and keeps its label.
LEMMA DarkStarts ==
    ASSUME CInv, NEW c \in Replicas, Fetched(c, "dark"), loop'[c]["dark"] # loop[c]["dark"],
           Admitted(c, "dark", RecordOf(c, "dark")),
           LET content == RecordOf(c, "dark").content
           IN  ExecuteWorkflow(content.event, classificationFromEnvelope[content.label]),
           UNCHANGED <<inbox, outbox, late>>
    PROVE  RunStartedUnderOwnKeys
<1>1. PICK envelope : envelope = RecordOf(c, "dark")
  OBVIOUS
<1>2. PICK level : level = classificationFromEnvelope[envelope.content.label]
  OBVIOUS
<1>3. envelope.content.event \in Alerts /\ level \in Levels
  BY <1>1, <1>2, AdmittedRecord DEF CInv, Fetched
<1>4. Warrants(envelope, directory[c], envelope.content.event, level)
  BY <1>1, <1>2 DEF Admitted, verify, VerifyEnvelope, Warrants
<1>5. \A b \in Alerts : \A n \in DOMAIN runs'[b] :
         n \in DOMAIN runs[b] \/ (b = envelope.content.event /\ runs'[b][n].level = level)
  BY <1>1, <1>2, <1>3, ExecuteEffect DEF CInv
<1> QED
  BY <1>1, <1>4, <1>5 DEF RunStartedUnderOwnKeys

\* Only the handler of dark-vessel records starts responses.
LEMMA StartsAreAdmitted == CInv /\ [Next]_vars => RunStartedUnderOwnKeys
<1> SUFFICES ASSUME CInv, [Next]_vars PROVE RunStartedUnderOwnKeys
  OBVIOUS
<1>0. ConsumerShape
  BY DEF CInv, TableInv
<1>1. CASE UNCHANGED runs
  BY <1>1 DEF RunStartedUnderOwnKeys
<1>2. CASE RailNext
  <2>1. RunsKept
    BY <1>2, RailKeepsRuns DEF CInv
  <2> QED
    BY <2>1 DEF RunsKept, RunStartedUnderOwnKeys
<1>3. ASSUME NEW c \in Replicas, HandleDarkVessel(c) \/ StartISRFails(c)
      PROVE  RunStartedUnderOwnKeys
  <2>1. /\ Fetched(c, "dark") /\ Admitted(c, "dark", RecordOf(c, "dark"))
        /\ UNCHANGED <<inbox, outbox, late>>
        /\ HandlerSucceeds(c, "dark") \/ HandlerFails(c, "dark")
    BY <1>3 DEF HandleDarkVessel, StartISRFails
  <2>2. loop[c]["dark"] # None /\ loop[c]["dark"].step = "fetched"
    BY <2>1 DEF Fetched
  <2>3. loop'[c]["dark"] # loop[c]["dark"]
    <3>1. CASE HandlerFails(c, "dark")
      <4>1. SetHand(c, "dark", None)
        BY <3>1 DEF HandlerFails, SetHand
      <4> QED
        BY <1>0, <2>2, <4>1, HandEffect, TopicsAre
    <3>2. CASE HandlerSucceeds(c, "dark")
      <4>1. loop' = [loop EXCEPT ![c]["dark"].step = "handled"]
        BY <3>2 DEF HandlerSucceeds
      <4>2. PICK x \in Hand : SetHand(c, "dark", x) /\ x.step = "handled"
        BY <1>0, <2>2, <4>1, MarkEffect, TopicsAre
      <4>3. loop'[c]["dark"] = x
        BY <1>0, <4>2, HandEffect, TopicsAre
      <4> QED
        BY <2>2, <4>2, <4>3
    <3> QED
      BY <2>1, <3>1, <3>2
  <2>4. CASE LET content == RecordOf(c, "dark").content
             IN  ExecuteWorkflow(content.event, classificationFromEnvelope[content.label])
    BY <2>1, <2>3, <2>4, DarkStarts
  <2> QED
    BY <1>1, <1>3, <2>4 DEF HandleDarkVessel, StartISRFails
<1> QED
  BY <1>1, <1>2, <1>3 DEF Next, Produce, Rebalance, Crash, Start, FetchMessage, Handle, RejectRecord,
     HandleVesselDetection, CommitMessages, rail, vars

\* Admission is fail-closed (RunIsAdmitted): whoever starts a response has a
\* dark-vessel record in hand that a key of its own directory signed as it is, and the
\* response keeps the label of that record, for any number of replicas, rotations,
\* crashes and rebalances.
THEOREM FailClosed == Spec => RunIsAdmitted
<1>1. CInv => RunStandsOnRecord
  BY DEF CInv
<1>2. Spec => []RunStandsOnRecord
  BY Inductive, <1>1, PTL
<1>3. Spec => [][RunStartedUnderOwnKeys]_vars
  BY Inductive, StartsAreAdmitted, PTL DEF Spec
<1> QED
  BY <1>2, <1>3, PTL DEF RunIsAdmitted

\* No record is stepped over: what the group's offset covers was handled or
\* failed, and a handled dark-vessel record has a response.
THEOREM NoRecordSkipped == Spec => []CommitAccountsForRecord
<1>1. CInv => CommitAccountsForRecord
  BY DEF CInv, OffsetInv, ResponseInv, Accounted, CommitAccountsForRecord
<1> QED
  BY Inductive, <1>1, PTL

\* The audit trail in the outbox and the history of the workflow agree, although
\* activities are retried and abandoned inserts come late.
THEOREM AuditTrailAgrees == Spec => []AuditTrailMatches
<1>1. CInv => AuditTrailMatches
  BY RailTrail DEF CInv
<1> QED
  BY Inductive, <1>1, PTL

\* The consumer and the rail implement the life cycle of responses: every step
\* is a decision through its gate, the opening or the end of a response, or
\* nothing that the life cycle sees.
THEOREM ImplementsLifecycle == Spec => ResponseIsLifecycle
<1>1. Init => Lifecycle!Init
  <2> SUFFICES ASSUME Init PROVE responsesBar = [a \in Alerts |-> <<>>]
    BY DEF Lifecycle!Init
  <2>1. runs = [a \in Alerts |-> <<>>]
    BY DEF Init, RailInit
  <2>2. \A a \in Alerts : DOMAIN runs[a] = {}
    BY <2>1
  <2>3. ASSUME NEW a \in Alerts
        PROVE  [n \in DOMAIN runs[a] |->
                   [level |-> runs[a][n].level, trail |-> runs[a][n].history,
                    over |-> runs[a][n].status # "open"]] = <<>>
    BY <2>2
  <2> QED
    BY <2>3 DEF responsesBar
<1>2. CInv /\ [Next]_vars => [Lifecycle!Next]_responsesBar
  BY StepKeeps DEF Good, LifecycleStep
<1> QED
  BY Inductive, <1>1, <1>2, PTL DEF Spec, ResponseIsLifecycle, Lifecycle!Spec
=============================================================================
