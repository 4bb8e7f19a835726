------------------------ MODULE OutcomeLedgerProofs ------------------------
(***************************************************************************)
(* Proofs about OutcomeLedger for any number of entries, principals and    *)
(* concurrent confirmations.                                               *)
(***************************************************************************)
EXTENDS OutcomeLedger, FiniteSetTheorems, TLAPS

Proposed == {e \in Entries : proposals[e] # None}

Holding(h) == At(h, "posting") \/ At(h, "posted")

\* The row lock: a confirmation that holds it found the proposal open and of
\* somebody else, and it is the only one that holds it.
LockInv ==
    /\ \A h \in Handlers : Holding(h) => MayConfirm(call[h].entry, call[h].by)
    /\ \A g, h \in Handlers :
          Holding(g) /\ Holding(h) /\ call[g].entry = call[h].entry => g = h

\* What TigerBeetle holds, or may still be sent, is a proposed quantity that
\* somebody else than the proposer confirmed, at most once for an entry.
TransferInv ==
    /\ \A t \in transfers \cup late :
          /\ proposals[t.id] # None
          /\ t.amount = proposals[t.id].terms.quantity
          /\ t.by # proposals[t.id].by
    /\ \A t, u \in transfers : t.id = u.id => t = u

\* The transfer of a confirmation that was told so exists.
PostedInv == \A h \in Handlers : At(h, "posted") => \E t \in transfers : t.id = call[h].entry

\* An entry names its own transfer and two principals.
EntryInv ==
    \A e \in Entries : entries[e] # None =>
        entries[e].transfer = e /\ entries[e].confirmedBy # entries[e].by

IInv ==
    /\ TypeOK /\ LockInv /\ TransferInv /\ PostedInv /\ EntryInv
    /\ ConfirmationIsComplete
    /\ IsFiniteSet(Proposed)

-----------------------------------------------------------------------------
(* Type correctness                                                        *)

\* A request for the transfer of a locked proposal is well-typed.
LEMMA RequestType ==
    ASSUME TypeOK, NEW h \in Handlers, call[h] # None, proposals[call[h].entry] # None
    PROVE  /\ call[h] \in Confirmation
           /\ TransferRequest(call[h]) \in Transfer
<1>1. call[h] \in Confirmation
  BY DEF TypeOK
<1>2. proposals[call[h].entry] \in Proposal
  BY <1>1 DEF TypeOK, Confirmation
<1> QED
  BY <1>1, <1>2, TermsAssumption DEF TransferRequest, Transfer, Confirmation, Proposal

\* A request adds itself to what TigerBeetle holds, or nothing.
LEMMA PostedParts ==
    ASSUME NEW r
    PROVE  /\ transfers \subseteq Posted(r)
           /\ Posted(r) \subseteq transfers \cup {r}
           /\ \E t \in Posted(r) : t.id = r.id
BY DEF Posted

\* Every step keeps the types.  The lock is needed for the type of a request.
LEMMA NextTypeOK == TypeOK /\ LockInv /\ [Next]_vars => TypeOK'
<1> SUFFICES ASSUME TypeOK, LockInv, [Next]_vars PROVE TypeOK'
  OBVIOUS
<1>1. ASSUME NEW e \in Entries, NEW terms \in Terms, NEW p \in Principals, Propose(e, terms, p)
      PROVE  TypeOK'
  <2>1. [terms |-> terms, by |-> p, state |-> "PROPOSED"] \in Proposal
    BY DEF Proposal
  <2> QED
    BY <1>1, <2>1 DEF Propose, Retain, TypeOK
<1>2. ASSUME NEW h \in Handlers, NEW e \in Entries, NEW p \in Principals, ConfirmBegin(h, e, p)
      PROVE  TypeOK'
  <2>1. [entry |-> e, by |-> p, phase |-> "waiting"] \in Confirmation
    BY DEF Confirmation
  <2> QED
    BY <1>2, <2>1 DEF ConfirmBegin, TypeOK, tables
<1>3. ASSUME NEW h \in Handlers, ConfirmLock(h)
      PROVE  TypeOK'
  <2>1. call[h] \in Confirmation
    BY <1>3 DEF ConfirmLock, At, TypeOK
  <2>2. [call[h] EXCEPT !.phase = "posting"] \in Confirmation
    BY <2>1 DEF Confirmation
  <2> QED
    BY <1>3, <2>2 DEF ConfirmLock, TypeOK, tables
<1>4. ASSUME NEW h \in Handlers, ConfirmRefused(h) \/ ConfirmAborted(h)
      PROVE  TypeOK'
  BY <1>4 DEF ConfirmRefused, ConfirmAborted, TypeOK, tables
<1>5. ASSUME NEW h \in Handlers, PostOutcome(h) \/ PostOutcomeFails(h)
      PROVE  TypeOK'
  <2>1. call[h] \in Confirmation /\ TransferRequest(call[h]) \in Transfer
    BY <1>5, RequestType DEF PostOutcome, PostOutcomeFails, At, LockInv, Holding, MayConfirm
  <2>2. [call[h] EXCEPT !.phase = "posted"] \in Confirmation
    BY <2>1 DEF Confirmation
  <2>3. call' \in [Handlers -> Confirmation \cup {None}]
    BY <1>5, <2>2 DEF PostOutcome, PostOutcomeFails, TypeOK
  <2>4. transfers' \subseteq Transfer /\ late' \subseteq Transfer
    BY <1>5, <2>1, PostedParts DEF PostOutcome, PostOutcomeFails, TypeOK
  <2> QED
    BY <1>5, <2>3, <2>4 DEF PostOutcome, PostOutcomeFails, TypeOK, tables
<1>6. ASSUME NEW request \in late, LateTransfer(request)
      PROVE  TypeOK'
  BY <1>6, PostedParts DEF LateTransfer, TypeOK, tables
<1>7. ASSUME NEW h \in Handlers, ConfirmCommit(h)
      PROVE  TypeOK'
  <2> DEFINE e == call[h].entry
             row == [terms |-> proposals[e].terms, by |-> proposals[e].by,
                     confirmedBy |-> call[h].by, transfer |-> TransferRequest(call[h]).id]
  <2>1. call[h] \in Confirmation /\ proposals[e] \in Proposal
    BY <1>7 DEF ConfirmCommit, At, TypeOK, LockInv, Holding, MayConfirm, Confirmation
  <2>2. row \in Entry /\ Closed(proposals[e]) \in Proposal
    BY <2>1 DEF Entry, Closed, Proposal, Confirmation, TransferRequest
  <2>3. /\ entries' = [entries EXCEPT ![e] = row]
        /\ proposals' = [proposals EXCEPT ![e] = Closed(@)]
        /\ outbox' = [outbox EXCEPT ![e] = Append(@, OutboxLabel(e))]
        /\ OutboxLabel(e) \in Classification
        /\ call' = [call EXCEPT ![h] = None]
        /\ UNCHANGED <<transfers, late>>
    BY <1>7 DEF ConfirmCommit
  <2>4. outbox' \in [Entries -> Seq(Classification)]
    <3>1. e \in Entries /\ outbox[e] \in Seq(Classification)
      BY <2>1 DEF TypeOK, Confirmation
    <3>2. Append(outbox[e], OutboxLabel(e)) \in Seq(Classification)
      BY <2>3, <3>1
    <3> QED
      BY <2>3, <3>2 DEF TypeOK
  <2>5. entries' \in [Entries -> Entry \cup {None}] /\ proposals' \in [Entries -> Proposal \cup {None}]
    BY <2>2, <2>3 DEF TypeOK
  <2> HIDE DEF e, row
  <2> QED
    BY <2>3, <2>4, <2>5 DEF TypeOK
<1>8. CASE UNCHANGED vars
  BY <1>8 DEF vars, TypeOK
<1> QED
  BY <1>1, <1>2, <1>3, <1>4, <1>5, <1>6, <1>7, <1>8 DEF Next, Confirm

-----------------------------------------------------------------------------
(* The inductive invariant                                                 *)

\* Proposals are retained with what was proposed, and closed only by a commit of
\* a confirmation that holds the lock.
LEMMA ProposalsMove ==
    ASSUME TypeOK, LockInv, [Next]_vars, NEW e \in Entries, proposals[e] # None
    PROVE  /\ proposals'[e] # None
           /\ proposals'[e].terms = proposals[e].terms
           /\ proposals'[e].by = proposals[e].by
           /\ \/ proposals'[e] = proposals[e]
              \/ \E h \in Handlers : ConfirmCommit(h) /\ call[h].entry = e
<1>1. CASE \E d \in Entries, terms \in Terms, p \in Principals : Propose(d, terms, p)
  BY <1>1 DEF Propose, Retain, TypeOK
<1>2. ASSUME NEW h \in Handlers, ConfirmCommit(h)
      PROVE  /\ proposals'[e] # None
             /\ proposals'[e].terms = proposals[e].terms
             /\ proposals'[e].by = proposals[e].by
             /\ proposals'[e] = proposals[e] \/ call[h].entry = e
  <2>1. proposals' = [proposals EXCEPT ![call[h].entry] = Closed(@)]
    BY <1>2 DEF ConfirmCommit
  <2>2. proposals[e] \in Proposal
    BY DEF TypeOK
  <2>3. /\ Closed(proposals[e]).terms = proposals[e].terms
        /\ Closed(proposals[e]).by = proposals[e].by
        /\ Closed(proposals[e]) \in Proposal
    BY <2>2 DEF Closed, Proposal
  <2> QED
    BY <2>1, <2>3, NoneAssumption DEF TypeOK
<1>3. CASE \E h \in Handlers : ConfirmCommit(h)
  BY <1>2, <1>3
<1>4. CASE proposals' = proposals
  BY <1>4
<1> QED
  BY <1>1, <1>3, <1>4
  DEF Next, Confirm, ConfirmBegin, ConfirmLock, ConfirmRefused, PostOutcome, PostOutcomeFails,
      ConfirmAborted, LateTransfer, tables, vars

\* Only a confirmation that finds the row unlocked and passes the checks comes
\* to hold the lock, and no step changes which entry and principal it is about.
LEMMA HoldersMove ==
    ASSUME TypeOK, [Next]_vars, NEW h \in Handlers, Holding(h)'
    PROVE  /\ call'[h].entry = call[h].entry /\ call'[h].by = call[h].by
           /\ \/ Holding(h)
              \/ /\ ConfirmLock(h)
                 /\ ~Locked(call[h].entry) /\ MayConfirm(call[h].entry, call[h].by)
<1> USE DEF Holding, At
<1>1. ASSUME NEW g \in Handlers, Confirm(g)
      PROVE  /\ call'[h].entry = call[h].entry /\ call'[h].by = call[h].by
             /\ \/ Holding(h)
                \/ /\ ConfirmLock(h)
                   /\ ~Locked(call[h].entry) /\ MayConfirm(call[h].entry, call[h].by)
  <2>1. call'[h] # None
    OBVIOUS
  <2>2. CASE g # h
    <3>1. call'[h] = call[h]
      BY <1>1, <2>2
      DEF Confirm, ConfirmBegin, ConfirmLock, ConfirmRefused, PostOutcome, PostOutcomeFails,
          ConfirmCommit, ConfirmAborted, TypeOK
    <3> QED
      BY <3>1
  <2>3. CASE g = h
    <3>1. CASE ConfirmLock(h)
      <4>1. call[h] \in Confirmation /\ call'[h] = [call[h] EXCEPT !.phase = "posting"]
        BY <3>1 DEF ConfirmLock, TypeOK
      <4> QED
        BY <3>1, <4>1 DEF ConfirmLock, Confirmation
    <3>2. CASE PostOutcome(h)
      <4>1. call[h] \in Confirmation /\ call'[h] = [call[h] EXCEPT !.phase = "posted"]
        BY <3>2 DEF PostOutcome, TypeOK
      <4> QED
        BY <3>2, <4>1 DEF PostOutcome, Confirmation
    <3>3. ~(\E e \in Entries, p \in Principals : ConfirmBegin(h, e, p))
      BY DEF ConfirmBegin, TypeOK
    <3>4. ~ConfirmRefused(h) /\ ~PostOutcomeFails(h) /\ ~ConfirmCommit(h) /\ ~ConfirmAborted(h)
      BY <2>1 DEF ConfirmRefused, PostOutcomeFails, ConfirmCommit, ConfirmAborted, TypeOK
    <3> QED
      BY <1>1, <2>3, <3>1, <3>2, <3>3, <3>4 DEF Confirm
  <2> QED
    BY <2>2, <2>3
<1>2. CASE call' = call
  BY <1>2
<1> QED
  BY <1>1, <1>2 DEF Next, Propose, LateTransfer, vars

\* At most one confirmation works on a proposal, and it was entitled to.
LEMMA NextLockInv == TypeOK /\ LockInv /\ [Next]_vars => LockInv'
<1> SUFFICES ASSUME TypeOK, LockInv, [Next]_vars PROVE LockInv'
  OBVIOUS
<1>1. ASSUME NEW g \in Handlers, NEW h \in Handlers, Holding(g)', Holding(h)',
             call'[g].entry = call'[h].entry
      PROVE  g = h
  <2>1. /\ call[g].entry = call[h].entry
        /\ Holding(g) \/ (ConfirmLock(g) /\ ~Locked(call[g].entry))
        /\ Holding(h) \/ (ConfirmLock(h) /\ ~Locked(call[h].entry))
    BY <1>1, HoldersMove
  <2>2. Holding(g) /\ Holding(h) => g = h
    BY <2>1 DEF LockInv
  <2>3. ~(Holding(g) /\ ~Locked(call[h].entry)) /\ ~(Holding(h) /\ ~Locked(call[g].entry))
    BY <2>1 DEF Locked, Holding
  <2>4. ConfirmLock(g) /\ ConfirmLock(h) => g = h
    <3> SUFFICES ASSUME ConfirmLock(g), ConfirmLock(h), g # h PROVE FALSE
      OBVIOUS
    <3>1. call'[g].phase = "posting" /\ call'[g] = call[g] /\ call[g].phase = "waiting"
      BY DEF ConfirmLock, At, TypeOK, Confirmation
    <3> QED
      BY <3>1
  <2> QED
    BY <2>1, <2>2, <2>3, <2>4
<1>2. ASSUME NEW h \in Handlers, Holding(h)'
      PROVE  MayConfirm(call[h].entry, call[h].by)'
  <2>1. /\ call'[h].entry = call[h].entry /\ call'[h].by = call[h].by
        /\ MayConfirm(call[h].entry, call[h].by)
    BY <1>2, HoldersMove DEF LockInv
  <2>2. call[h].entry \in Entries
    <3>1. call'[h] \in Confirmation
      BY <1>2, NextTypeOK DEF Holding, At, TypeOK
    <3> QED
      BY <2>1, <3>1 DEF Confirmation
  <2> DEFINE e == call[h].entry
  <2>3. proposals'[e] # None /\ proposals'[e].by = proposals[e].by
    BY <2>1, <2>2, ProposalsMove DEF MayConfirm
  <2>4. proposals'[e] = proposals[e]
    <3>1. ASSUME NEW g \in Handlers, ConfirmCommit(g), call[g].entry = e
          PROVE  FALSE
      <4>1. Holding(g) /\ call' = [call EXCEPT ![g] = None]
        BY <3>1 DEF ConfirmCommit, Holding
      <4>2. h # g
        BY <1>2, <4>1 DEF Holding, At, TypeOK
      <4>3. call'[h] = call[h]
        BY <4>1, <4>2 DEF TypeOK
      <4>4. Holding(h)
        BY <1>2, <4>3 DEF Holding, At
      <4> QED
        BY <3>1, <4>1, <4>2, <4>4 DEF LockInv
    <3> QED
      BY <2>1, <2>2, <3>1, ProposalsMove DEF MayConfirm
  <2> QED
    BY <2>1, <2>3, <2>4 DEF MayConfirm
<1> QED
  BY <1>1, <1>2 DEF LockInv, Holding, At, MayConfirm

\* TigerBeetle and the network hold nothing new but the request of a
\* confirmation that holds the lock, and TigerBeetle forgets nothing.
LEMMA TransfersMove ==
    ASSUME [Next]_vars
    PROVE  /\ transfers \subseteq transfers'
           /\ \/ transfers' \cup late' \subseteq transfers \cup late
              \/ \E h \in Handlers :
                    /\ Holding(h)
                    /\ transfers' \cup late' \subseteq transfers \cup late \cup {TransferRequest(call[h])}
           /\ \/ transfers' = transfers
              \/ \E r : /\ \A t \in transfers : t.id # r.id
                        /\ transfers' = transfers \cup {r}
<1> DEFINE Goal ==
    /\ transfers \subseteq transfers'
    /\ \/ transfers' \cup late' \subseteq transfers \cup late
       \/ \E h \in Handlers :
             /\ Holding(h)
             /\ transfers' \cup late' \subseteq transfers \cup late \cup {TransferRequest(call[h])}
    /\ \/ transfers' = transfers
       \/ \E r : /\ \A t \in transfers : t.id # r.id
                 /\ transfers' = transfers \cup {r}
<1>1. ASSUME NEW r, transfers' = Posted(r)
      PROVE  \/ transfers' = transfers
             \/ (\A t \in transfers : t.id # r.id) /\ transfers' = transfers \cup {r}
  BY <1>1 DEF Posted
<1>2. ASSUME NEW h \in Handlers, PostOutcome(h) \/ PostOutcomeFails(h)
      PROVE  Goal
  <2>1. Holding(h)
    BY <1>2 DEF PostOutcome, PostOutcomeFails, Holding
  <2>2. CASE transfers' = Posted(TransferRequest(call[h])) /\ late' = late
    BY <1>1, <2>1, <2>2
  <2>3. CASE transfers' = transfers /\ late' \in {late, late \cup {TransferRequest(call[h])}}
    BY <2>1, <2>3
  <2> QED
    BY <1>2, <2>2, <2>3 DEF PostOutcome, PostOutcomeFails
<1>3. ASSUME NEW r \in late, LateTransfer(r)
      PROVE  Goal
  <2>1. transfers' = Posted(r) /\ late' = late \ {r}
    BY <1>3 DEF LateTransfer
  <2> QED
    BY <1>1, <2>1
<1>4. CASE UNCHANGED <<transfers, late>>
  BY <1>4
<1> QED
  BY <1>2, <1>3, <1>4
  DEF Next, Confirm, Propose, ConfirmBegin, ConfirmLock, ConfirmRefused, ConfirmCommit,
      ConfirmAborted, vars

\* Transfers stay proposed quantities, one per entry.
LEMMA NextTransferInv == TypeOK /\ LockInv /\ TransferInv /\ [Next]_vars => TransferInv'
<1> SUFFICES ASSUME TypeOK, LockInv, TransferInv, [Next]_vars PROVE TransferInv'
  OBVIOUS
<1>1. ASSUME NEW t \in transfers' \cup late'
      PROVE  /\ proposals'[t.id] # None
             /\ t.amount = proposals'[t.id].terms.quantity
             /\ t.by # proposals'[t.id].by
  <2> DEFINE Good == /\ t.id \in Entries
                     /\ proposals[t.id] # None
                     /\ t.amount = proposals[t.id].terms.quantity
                     /\ t.by # proposals[t.id].by
  <2>1. Good
    <3>1. CASE t \in transfers \cup late
      BY <3>1 DEF TransferInv, TypeOK, Transfer
    <3>2. ASSUME NEW h \in Handlers, Holding(h), t = TransferRequest(call[h])
          PROVE  Good
      <4>1. /\ t.id = call[h].entry /\ t.by = call[h].by
            /\ t.amount = proposals[call[h].entry].terms.quantity
        BY <3>2 DEF TransferRequest
      <4>2. call[h] \in Confirmation /\ MayConfirm(call[h].entry, call[h].by)
        BY <3>2 DEF LockInv, TypeOK, Holding, At
      <4> QED
        BY <4>1, <4>2 DEF MayConfirm, Confirmation
    <3> QED
      BY <1>1, <3>1, <3>2, TransfersMove
  <2> QED
    BY <2>1, ProposalsMove
<1>2. ASSUME NEW t \in transfers', NEW u \in transfers', t.id = u.id
      PROVE  t = u
  BY <1>2, TransfersMove DEF TransferInv
<1> QED
  BY <1>1, <1>2 DEF TransferInv

\* A confirmation that goes on after PostOutcome has its transfer.
LEMMA NextPostedInv == TypeOK /\ PostedInv /\ [Next]_vars => PostedInv'
<1> SUFFICES ASSUME TypeOK, PostedInv, [Next]_vars, NEW h \in Handlers, At(h, "posted")'
             PROVE  \E t \in transfers' : t.id = call'[h].entry
  BY DEF PostedInv, At
<1>1. transfers \subseteq transfers' /\ call'[h].entry = call[h].entry
  BY TransfersMove, HoldersMove DEF Holding
<1>2. CASE At(h, "posted")
  BY <1>1, <1>2 DEF PostedInv
<1>3. CASE PostOutcome(h)
  <2>1. transfers' = Posted(TransferRequest(call[h])) /\ TransferRequest(call[h]).id = call[h].entry
    BY <1>3 DEF PostOutcome, TransferRequest
  <2> QED
    BY <1>1, <2>1, PostedParts
<1>4. At(h, "posted") \/ PostOutcome(h)
  <2>1. CASE call'[h] = call[h]
    BY <2>1 DEF At
  <2>2. CASE call'[h] # call[h] /\ Confirm(h)
    <3>1. call'[h] # None /\ call'[h].phase = "posted"
      BY DEF At
    <3>2. ~ConfirmRefused(h) /\ ~PostOutcomeFails(h) /\ ~ConfirmCommit(h) /\ ~ConfirmAborted(h)
      BY <3>1 DEF ConfirmRefused, PostOutcomeFails, ConfirmCommit, ConfirmAborted, TypeOK
    <3>3. ~(\E e \in Entries, p \in Principals : ConfirmBegin(h, e, p))
      BY <3>1 DEF ConfirmBegin, TypeOK
    <3>4. ~ConfirmLock(h)
      BY <3>1 DEF ConfirmLock, At, TypeOK, Confirmation
    <3> QED
      BY <2>2, <3>2, <3>3, <3>4 DEF Confirm
  <2>3. ASSUME NEW g \in Handlers, g # h, Confirm(g)
        PROVE  call'[h] = call[h]
    BY <2>3
    DEF Confirm, ConfirmBegin, ConfirmLock, ConfirmRefused, PostOutcome, PostOutcomeFails,
        ConfirmCommit, ConfirmAborted, TypeOK
  <2> QED
    BY <2>1, <2>2, <2>3 DEF Next, Propose, LateTransfer, vars
<1> QED
  BY <1>2, <1>3, <1>4

\* Entries are written by a commit only, once, and never change.
LEMMA EntriesMove ==
    ASSUME TypeOK, [Next]_vars, NEW e \in Entries
    PROVE  \/ entries'[e] = entries[e] /\ outbox'[e] = outbox[e]
           \/ \E h \in Handlers : ConfirmCommit(h) /\ call[h].entry = e
<1>1. ASSUME NEW h \in Handlers, ConfirmCommit(h), call[h].entry # e
      PROVE  entries'[e] = entries[e] /\ outbox'[e] = outbox[e]
  BY <1>1 DEF ConfirmCommit, TypeOK
<1>2. CASE UNCHANGED <<entries, outbox>>
  BY <1>2
<1> QED
  BY <1>1, <1>2
  DEF Next, Confirm, Propose, ConfirmBegin, ConfirmLock, ConfirmRefused, PostOutcome,
      PostOutcomeFails, ConfirmAborted, LateTransfer, tables, vars

\* What a commit writes: the entry over the proposal as it is under the lock.
LEMMA CommitWrites ==
    ASSUME TypeOK, LockInv, NEW h \in Handlers, ConfirmCommit(h),
           NEW e, call[h].entry = e
    PROVE  /\ e \in Entries /\ proposals[e] \in Proposal
           /\ At(h, "posted")
           /\ proposals[e].by # call[h].by
           /\ entries[e] = None
           /\ entries'[e] # None
           /\ entries'[e].terms = proposals[e].terms /\ entries'[e].by = proposals[e].by
           /\ entries'[e].confirmedBy = call[h].by /\ entries'[e].transfer = e
           /\ proposals'[e] = Closed(proposals[e]) /\ proposals'[e] # None
           /\ outbox'[e] = Append(outbox[e], OutboxLabel(e))
           /\ transfers' = transfers
<1>1. call[h] \in Confirmation
  BY DEF ConfirmCommit, At, TypeOK
<1>2. e \in Entries /\ MayConfirm(e, call[h].by)
  BY <1>1 DEF ConfirmCommit, Confirmation, LockInv, Holding
<1>3. proposals[e] \in Proposal
  BY <1>2 DEF MayConfirm, TypeOK
<1>4. TransferRequest(call[h]).id = e
  BY DEF TransferRequest
<1>5. entries'[e] \in Entry /\ proposals'[e] \in Proposal
  <2>1. [terms |-> proposals[e].terms, by |-> proposals[e].by,
         confirmedBy |-> call[h].by, transfer |-> e] \in Entry
    BY <1>1, <1>2, <1>3 DEF Proposal, Confirmation, Entry
  <2>2. Closed(proposals[e]) \in Proposal
    BY <1>3 DEF Closed, Proposal
  <2> QED
    BY <1>2, <1>4, <2>1, <2>2 DEF ConfirmCommit, TypeOK
<1> QED
  BY <1>2, <1>3, <1>4, <1>5, NoneAssumption DEF ConfirmCommit, TypeOK

\* Entries keep naming their own transfer and two principals.
LEMMA NextEntryInv == TypeOK /\ LockInv /\ EntryInv /\ [Next]_vars => EntryInv'
<1> SUFFICES ASSUME TypeOK, LockInv, EntryInv, [Next]_vars, NEW e \in Entries, entries'[e] # None
             PROVE  entries'[e].transfer = e /\ entries'[e].confirmedBy # entries'[e].by
  BY DEF EntryInv
<1>1. CASE entries'[e] = entries[e]
  BY <1>1 DEF EntryInv
<1>2. ASSUME NEW h \in Handlers, ConfirmCommit(h), call[h].entry = e
      PROVE  entries'[e].transfer = e /\ entries'[e].confirmedBy # entries'[e].by
  BY <1>2, CommitWrites
<1> QED
  BY <1>1, <1>2, EntriesMove

\* A new proposal is open and has no entry.
LEMMA ProposalsAppear ==
    ASSUME TypeOK, LockInv, [Next]_vars, NEW e \in Entries, proposals[e] = None
    PROVE  \/ proposals'[e] = None
           \/ /\ proposals'[e].state = "PROPOSED"
              /\ \E p \in Proposal : proposals' = [proposals EXCEPT ![e] = p]
<1>1. ASSUME NEW d \in Entries, NEW terms \in Terms, NEW p \in Principals, Propose(d, terms, p)
      PROVE  \/ proposals'[e] = None
             \/ /\ proposals'[e].state = "PROPOSED"
                /\ \E q \in Proposal : proposals' = [proposals EXCEPT ![e] = q]
  <2>1. [terms |-> terms, by |-> p, state |-> "PROPOSED"] \in Proposal
    BY DEF Proposal
  <2> QED
    BY <1>1, <2>1 DEF Propose, Retain, TypeOK
<1>2. ASSUME NEW h \in Handlers, ConfirmCommit(h)
      PROVE  proposals'[e] = None
  <2>1. call[h].entry # e
    BY <1>2, CommitWrites, NoneAssumption
  <2> QED
    BY <1>2, <2>1 DEF ConfirmCommit, TypeOK
<1>3. CASE proposals' = proposals
  BY <1>3
<1> QED
  BY <1>1, <1>2, <1>3
  DEF Next, Confirm, ConfirmBegin, ConfirmLock, ConfirmRefused, PostOutcome, PostOutcomeFails,
      ConfirmAborted, LateTransfer, tables, vars

\* Entry, closed proposal, outbox row and transfer stay together.
LEMMA NextComplete ==
    ASSUME TypeOK, LockInv, TransferInv, PostedInv, EntryInv, ConfirmationIsComplete, [Next]_vars
    PROVE  ConfirmationIsComplete'
<1> SUFFICES ASSUME NEW e \in Entries
             PROVE  /\ (entries'[e] # None) <=>
                           (proposals'[e] # None /\ proposals'[e].state = "CONFIRMED")
                    /\ Len(outbox'[e]) = (IF entries'[e] = None THEN 0 ELSE 1)
                    /\ entries'[e] # None =>
                           /\ entries'[e].terms = proposals'[e].terms
                           /\ entries'[e].by = proposals'[e].by
                           /\ \E t \in transfers' : /\ t.id = entries'[e].transfer
                                                    /\ t.amount = entries'[e].terms.quantity
  BY DEF ConfirmationIsComplete
<1>1. transfers \subseteq transfers'
  BY TransfersMove
<1>2. ASSUME NEW h \in Handlers, ConfirmCommit(h), call[h].entry = e
      PROVE  /\ entries'[e] # None /\ proposals'[e] # None /\ proposals'[e].state = "CONFIRMED"
             /\ Len(outbox'[e]) = 1
             /\ entries'[e].terms = proposals'[e].terms
             /\ entries'[e].by = proposals'[e].by
             /\ \E t \in transfers' : /\ t.id = entries'[e].transfer
                                      /\ t.amount = entries'[e].terms.quantity
  <2>1. /\ proposals[e] \in Proposal /\ At(h, "posted")
        /\ entries[e] = None /\ entries'[e] # None
        /\ entries'[e].terms = proposals[e].terms /\ entries'[e].by = proposals[e].by
        /\ entries'[e].transfer = e
        /\ proposals'[e] = Closed(proposals[e]) /\ proposals'[e] # None
        /\ outbox'[e] = Append(outbox[e], OutboxLabel(e))
        /\ transfers' = transfers
    BY <1>2, CommitWrites
  <2>2. /\ Closed(proposals[e]).state = "CONFIRMED"
        /\ Closed(proposals[e]).terms = proposals[e].terms
        /\ Closed(proposals[e]).by = proposals[e].by
    BY <2>1 DEF Closed, Proposal
  <2>3. Len(outbox'[e]) = 1
    <3>1. outbox[e] \in Seq(Classification) /\ Len(outbox[e]) = 0
      BY <2>1 DEF TypeOK, ConfirmationIsComplete
    <3>2. OutboxLabel(e) \in Classification
      BY <1>2 DEF ConfirmCommit
    <3> QED
      BY <2>1, <3>1, <3>2
  <2>4. PICK t \in transfers : t.id = e
    BY <1>2, <2>1 DEF PostedInv
  <2>5. t.amount = proposals[e].terms.quantity
    BY <2>4 DEF TransferInv
  <2> QED
    BY <2>1, <2>2, <2>3, <2>4, <2>5
<1>3. CASE /\ entries'[e] = entries[e] /\ outbox'[e] = outbox[e]
           /\ ~\E h \in Handlers : ConfirmCommit(h) /\ call[h].entry = e
  <2>1. CASE proposals[e] # None
    <3>1. proposals'[e] = proposals[e]
      BY <1>3, <2>1, ProposalsMove
    <3> QED
      BY <1>1, <1>3, <3>1 DEF ConfirmationIsComplete
  <2>2. CASE proposals[e] = None
    <3>1. entries[e] = None /\ Len(outbox[e]) = 0
      BY <2>2 DEF ConfirmationIsComplete
    <3> QED
      BY <1>3, <2>2, <3>1, ProposalsAppear
  <2> QED
    BY <2>1, <2>2
<1> QED
  BY <1>2, <1>3, EntriesMove

\* Proposals come one at a time, so there are finitely many.
LEMMA NextFinite ==
    ASSUME TypeOK, LockInv, [Next]_vars, IsFiniteSet(Proposed)
    PROVE  IsFiniteSet(Proposed')
<1>1. CASE Proposed' \subseteq Proposed
  BY <1>1, FS_Subset
<1>2. ASSUME NEW e \in Proposed', e \notin Proposed
      PROVE  Proposed' = Proposed \cup {e}
  <2>1. e \in Entries /\ proposals[e] = None /\ proposals'[e] # None
    BY <1>2 DEF Proposed
  <2>2. PICK p \in Proposal : proposals' = [proposals EXCEPT ![e] = p]
    BY <2>1, ProposalsAppear
  <2> QED
    BY <2>1, <2>2, NoneAssumption DEF Proposed, TypeOK
<1>3. \A e : IsFiniteSet(Proposed \cup {e})
  BY FS_AddElement
<1> QED
  BY <1>1, <1>2, <1>3

-----------------------------------------------------------------------------
(* Theorems                                                                *)

\* The inductive invariant of confirmations (Confirm and PostOutcome): the row
\* lock is exclusive and was taken by somebody entitled to it, and transfers,
\* entries, closed proposals and outbox rows agree at every step.
THEOREM Inductive == Spec => []IInv
<1>1. Init => IInv
  <2> SUFFICES ASSUME Init PROVE IInv
    OBVIOUS
  <2>1. \A e \in Entries : outbox[e] = <<>> /\ <<>> \in Seq(Classification)
    BY DEF Init
  <2>2. TypeOK
    BY <2>1 DEF Init, TypeOK
  <2>3. LockInv /\ TransferInv /\ PostedInv /\ EntryInv
    BY DEF Init, LockInv, TransferInv, PostedInv, EntryInv, Holding, At
  <2>4. ConfirmationIsComplete
    BY <2>1 DEF Init, ConfirmationIsComplete
  <2>5. Proposed = {}
    BY DEF Init, Proposed
  <2>6. IsFiniteSet(Proposed)
    BY <2>5, FS_EmptySet
  <2> QED
    BY <2>2, <2>3, <2>4, <2>6 DEF IInv
<1>2. IInv /\ [Next]_vars => IInv'
  BY NextTypeOK, NextLockInv, NextTransferInv, NextPostedInv, NextEntryInv, NextComplete, NextFinite
  DEF IInv
<1> QED
  BY <1>1, <1>2, PTL DEF Spec

\* The ledger's tables, TigerBeetle's transfers and the confirmations in
\* progress keep their types.
THEOREM TypeCorrect == Spec => []TypeOK
<1>1. IInv => TypeOK
  BY DEF IInv
<1> QED
  BY <1>1, Inductive, PTL

\* A confirmation is recorded with all its parts or not at all (Confirm), for
\* any number of confirmations that race, fail or die on either side of the
\* transfer.
THEOREM CompleteOrAbsent == Spec => []ConfirmationIsComplete
<1>1. IInv => ConfirmationIsComplete
  BY DEF IInv
<1> QED
  BY <1>1, Inductive, PTL

\* TigerBeetle holds at most one transfer per proposal, of the proposed quantity
\* (EntryTransferID and PostOutcome): the transfers inject into the proposals.
THEOREM NoDoubleTransfer == Spec => []TransfersMatchProposals
<1>1. IInv => TransfersMatchProposals
  <2> SUFFICES ASSUME IInv PROVE TransfersMatchProposals
    OBVIOUS
  <2>1. \A t \in transfers :
            t.id \in Proposed /\ t.amount = proposals[t.id].terms.quantity
    BY DEF IInv, TypeOK, TransferInv, Transfer, Proposed
  <2> DEFINE f == [t \in transfers |-> t.id]
  <2>2. f \in [transfers -> Proposed]
    BY <2>1
  <2>3. \A t, u \in transfers : f[t] = f[u] => t = u
    BY DEF IInv, TransferInv
  <2>4. f \in Injection(transfers, Proposed)
    BY <2>2, <2>3 DEF Injection, IsInjective
  <2> HIDE DEF f
  <2>5. Cardinality(transfers) <= Cardinality(Proposed)
    BY <2>4, FS_Injection DEF IInv
  <2> QED
    BY <2>1, <2>5 DEF TransfersMatchProposals, Proposed
<1> QED
  BY <1>1, Inductive, PTL

\* Dual control (Confirm's check on the locked row): every transfer, also one
\* still on its way, and every entry stand on two different principals.
THEOREM DualControl == Spec => []TransferNeedsSecondPrincipal
<1>1. IInv => TransferNeedsSecondPrincipal
  BY DEF IInv, TransferInv, EntryInv, TransferNeedsSecondPrincipal
<1> QED
  BY <1>1, Inductive, PTL

\* No step alters what was proposed, or anything of what was confirmed (Propose
\* over a retained proposal, Confirm over a closed one).
THEOREM TermsNeverChange == Spec => TermsAreImmutable
<1>1. ASSUME IInv, [Next]_vars, NEW e \in Entries
      PROVE  /\ proposals[e] # None =>
                   /\ proposals'[e].terms = proposals[e].terms
                   /\ proposals'[e].by = proposals[e].by
             /\ entries[e] # None =>
                   entries'[e] = entries[e] /\ proposals'[e] = proposals[e]
  <2>1. proposals[e] # None => /\ proposals'[e].terms = proposals[e].terms
                               /\ proposals'[e].by = proposals[e].by
    BY <1>1, ProposalsMove DEF IInv
  <2>2. ASSUME entries[e] # None
        PROVE  entries'[e] = entries[e] /\ proposals'[e] = proposals[e]
    <3>1. proposals[e] # None
      BY <1>1, <2>2 DEF IInv, ConfirmationIsComplete
    <3>2. ~\E h \in Handlers : ConfirmCommit(h) /\ call[h].entry = e
      BY <2>2 DEF ConfirmCommit
    <3> QED
      BY <1>1, <3>1, <3>2, ProposalsMove, EntriesMove DEF IInv
  <2> QED
    BY <2>1, <2>2
<1>2. IInv /\ [Next]_vars =>
        [\A e \in Entries :
            /\ proposals[e] # None =>
                  /\ proposals'[e].terms = proposals[e].terms
                  /\ proposals'[e].by = proposals[e].by
            /\ entries[e] # None =>
                  entries'[e] = entries[e] /\ proposals'[e] = proposals[e]]_vars
  BY <1>1
<1> QED
  BY <1>2, Inductive, PTL DEF Spec, TermsAreImmutable
=============================================================================
