--------------------------- MODULE OutcomeLedger ---------------------------
(***************************************************************************)
(* The dual-control outcome ledger of internal/ledger: a proposal recorded *)
(* by one principal is confirmed by another.  A confirmation locks the     *)
(* proposal in a database transaction, posts a transfer to TigerBeetle,    *)
(* and only then writes the immutable entry, closes the proposal and       *)
(* writes the outbox row, all in that transaction.  TigerBeetle is not     *)
(* part of the transaction: the confirmation can die on either side of the *)
(* transfer, and a request on its way can still arrive afterwards.         *)
(***************************************************************************)
EXTENDS Naturals, Sequences, FiniteSets

CONSTANTS
    Entries,      \* values of entry_id
    Terms,        \* [label, quantity] of a proposal; kind, metric and reference go with it
    Principals,   \* authenticated subjects
    Handlers,     \* concurrent confirmation requests
    None          \* no row, or no confirmation in progress

VARIABLES
    proposals,    \* table maritime_outcome_ledger_proposals
    entries,      \* table maritime_outcome_ledger_entries
    outbox,       \* outcome rows of maritime_isr_outbox, per entry
    transfers,    \* transfers TigerBeetle holds
    late,         \* transfer requests whose sender stopped waiting for them
    call          \* confirmations in progress

tables == <<proposals, entries, outbox>>
vars == <<proposals, entries, outbox, transfers, late, call>>

Classification == {"UNCLASSIFIED", "RESTRICTED", "CONFIDENTIAL", "SECRET"}

Proposal == [terms : Terms, by : Principals, state : {"PROPOSED", "CONFIRMED"}]
Entry == [terms : Terms, by : Principals, confirmedBy : Principals, transfer : Entries]
\* "by" is a history variable: on whose confirmation the transfer was requested.
Transfer == [id : Entries, amount : Nat, by : Principals]
Confirmation ==
    [entry : Entries, by : Principals, phase : {"waiting", "posting", "posted"}]

ASSUME TermsAssumption == Terms \subseteq [label : Classification, quantity : Nat]
ASSUME NoneAssumption == None \notin Proposal /\ None \notin Entry /\ None \notin Confirmation

TypeOK ==
    /\ proposals \in [Entries -> Proposal \cup {None}]
    /\ entries \in [Entries -> Entry \cup {None}]
    /\ outbox \in [Entries -> Seq(Classification)]
    /\ transfers \subseteq Transfer
    /\ late \subseteq Transfer
    /\ call \in [Handlers -> Confirmation \cup {None}]

Init ==
    /\ proposals = [e \in Entries |-> None]
    /\ entries = [e \in Entries |-> None]
    /\ outbox = [e \in Entries |-> <<>>]
    /\ transfers = {}
    /\ late = {}
    /\ call = [h \in Handlers |-> None]

-----------------------------------------------------------------------------
\* Faulty variant: the retained proposal is overwritten (ON CONFLICT DO UPDATE).
RetainOverwriting(e, proposal) == proposals' = [proposals EXCEPT ![e] = proposal]

\* INSERT ... ON CONFLICT (entry_id) DO NOTHING.
Retain(e, proposal) ==
    proposals' = [proposals EXCEPT ![e] = IF @ = None THEN proposal ELSE @]

\* Propose: the validated proposal is inserted.  Over a retained one nothing
\* changes: the caller is told whether it is the same or ErrConflict.
Propose(e, terms, p) ==
    /\ terms.quantity > 0
    /\ Retain(e, [terms |-> terms, by |-> p, state |-> "PROPOSED"])
    /\ UNCHANGED <<entries, outbox, transfers, late, call>>

\* Confirm begins: the handler asks for the proposal's row lock.
ConfirmBegin(h, e, p) ==
    /\ call[h] = None
    /\ call' = [call EXCEPT ![h] = [entry |-> e, by |-> p, phase |-> "waiting"]]
    /\ UNCHANGED <<tables, transfers, late>>

At(h, phase) == call[h] # None /\ call[h].phase = phase

Locked(e) ==
    \E h \in Handlers : (At(h, "posting") \/ At(h, "posted")) /\ call[h].entry = e

\* Faulty variant: any principal may confirm.
MayConfirmAnyone(e, p) == proposals[e] # None /\ proposals[e].state = "PROPOSED"

\* The checks on the locked row: it exists, is still open, and was proposed by
\* somebody else.
MayConfirm(e, p) ==
    /\ proposals[e] # None
    /\ proposals[e].by # p
    /\ proposals[e].state = "PROPOSED"

\* SELECT ... FOR UPDATE returns and the checks pass.
ConfirmLock(h) ==
    /\ At(h, "waiting")
    /\ ~Locked(call[h].entry)
    /\ MayConfirm(call[h].entry, call[h].by)
    /\ call' = [call EXCEPT ![h].phase = "posting"]
    /\ UNCHANGED <<tables, transfers, late>>

\* SELECT ... FOR UPDATE returns and a check fails (ErrNotFound, ErrDualControl,
\* ErrAlreadyConfirmed; a handler that waited for the lock while another one
\* confirmed gets a serialization failure instead).
ConfirmRefused(h) ==
    /\ At(h, "waiting")
    /\ ~Locked(call[h].entry)
    /\ ~MayConfirm(call[h].entry, call[h].by)
    /\ call' = [call EXCEPT ![h] = None]
    /\ UNCHANGED <<tables, transfers, late>>

\* Faulty variant: the identifier depends on the principal who confirms.  With
\* two principals to choose from it stands for a fresh identifier per attempt.
RequestOfAttempt(k) ==
    [id |-> <<k.entry, k.by>>, amount |-> proposals[k.entry].terms.quantity, by |-> k.by]

\* The transfer PostOutcome asks for: the identifier EntryTransferID derives
\* from the entry alone, and the proposed quantity.
TransferRequest(k) ==
    [id |-> k.entry, amount |-> proposals[k.entry].terms.quantity, by |-> k.by]

\* What TigerBeetle holds after a request: identifiers are unique, and a second
\* request for one changes nothing, be it equal (TransferExists) or not.
Posted(request) ==
    IF \E t \in transfers : t.id = request.id THEN transfers ELSE transfers \cup {request}

\* Faulty variant: TransferExists counts as a failure.
AcceptedNew(request) == \A t \in transfers : t.id # request.id

\* The statuses PostOutcome accepts: created, or exists with equal fields.
Accepted(request) ==
    \A t \in transfers : t.id = request.id => t.amount = request.amount

\* PostOutcome returns the transfer identifier.
PostOutcome(h) ==
    /\ At(h, "posting")
    /\ LET request == TransferRequest(call[h])
       IN  Accepted(request) /\ transfers' = Posted(request)
    /\ call' = [call EXCEPT ![h].phase = "posted"]
    /\ UNCHANGED <<tables, late>>

\* PostOutcome fails, or the process dies while it waits: the transaction rolls
\* back, the lock is released, and the request was lost, was executed, or is
\* still on its way.
PostOutcomeFails(h) ==
    /\ At(h, "posting")
    /\ LET request == TransferRequest(call[h])
       IN  \/ UNCHANGED <<transfers, late>>
           \/ transfers' = Posted(request) /\ UNCHANGED late
           \/ late' = late \cup {request} /\ UNCHANGED transfers
    /\ call' = [call EXCEPT ![h] = None]
    /\ UNCHANGED tables

\* A request outlives its sender and is executed after all.
LateTransfer(request) ==
    /\ request \in late
    /\ transfers' = Posted(request)
    /\ late' = late \ {request}
    /\ UNCHANGED <<tables, call>>

EnvelopeClassificationOf(label) ==
    CASE label = "UNCLASSIFIED" -> "INTERNAL"
      [] label = "RESTRICTED" -> "RESTRICTED"
      [] label \in {"CONFIDENTIAL", "SECRET"} -> "CONFIDENTIAL"

\* The label Confirm gives the outbox row: that of the sealed envelope, not the
\* clearance label of the entry.
OutboxLabel(e) == EnvelopeClassificationOf(proposals[e].terms.label)

\* Faulty variant: the proposal is left open.
ClosedUnchanged(proposal) == proposal

Closed(proposal) == [proposal EXCEPT !.state = "CONFIRMED"]

\* The rest of Confirm: entry, closed proposal and outbox row commit together.
\* The table accepts clearance labels only.
ConfirmCommit(h) ==
    /\ At(h, "posted")
    /\ LET e == call[h].entry IN
        /\ OutboxLabel(e) \in Classification
        /\ entries[e] = None
        /\ proposals[e].by # call[h].by
        /\ entries' = [entries EXCEPT ![e] =
               [terms |-> proposals[e].terms, by |-> proposals[e].by,
                confirmedBy |-> call[h].by, transfer |-> TransferRequest(call[h]).id]]
        /\ proposals' = [proposals EXCEPT ![e] = Closed(@)]
        /\ outbox' = [outbox EXCEPT ![e] = Append(@, OutboxLabel(e))]
    /\ call' = [call EXCEPT ![h] = None]
    /\ UNCHANGED <<transfers, late>>

\* The process dies, the request is cancelled, or the database refuses one of
\* the statements: a constraint (the outbox label, confirmed_at not before
\* proposed_at, one entry per proposal) or an outage.  The rollback leaves the
\* transfer where it is.
ConfirmAborted(h) ==
    /\ At(h, "waiting") \/ At(h, "posted")
    /\ call' = [call EXCEPT ![h] = None]
    /\ UNCHANGED <<tables, transfers, late>>

-----------------------------------------------------------------------------
Confirm(h) ==
    \/ \E e \in Entries, p \in Principals : ConfirmBegin(h, e, p)
    \/ ConfirmLock(h) \/ ConfirmRefused(h)
    \/ PostOutcome(h) \/ PostOutcomeFails(h)
    \/ ConfirmCommit(h) \/ ConfirmAborted(h)

Next ==
    \/ \E e \in Entries, terms \in Terms, p \in Principals : Propose(e, terms, p)
    \/ \E h \in Handlers : Confirm(h)
    \/ \E request \in late : LateTransfer(request)

Spec == Init /\ [][Next]_vars

On(h, e) == call[h] # None /\ call[h].entry = e

\* Callers repeat a confirmation that is still open, and no call, TigerBeetle
\* or the database fails for ever: each stage of a confirmation that is reached
\* again and again is passed once.
Fairness ==
    \A e \in Entries :
        /\ SF_vars(\E h \in Handlers, p \in Principals :
                      MayConfirm(e, p) /\ ConfirmBegin(h, e, p))
        /\ \A h \in Handlers :
              /\ WF_vars(On(h, e) /\ (ConfirmLock(h) \/ ConfirmRefused(h)))
              /\ WF_vars(On(h, e) /\ (PostOutcome(h) \/ PostOutcomeFails(h)))
              /\ WF_vars(On(h, e) /\ (ConfirmCommit(h) \/ ConfirmAborted(h)))
        /\ SF_vars(\E h \in Handlers : On(h, e) /\ ConfirmLock(h))
        /\ SF_vars(\E h \in Handlers : On(h, e) /\ PostOutcome(h))
        /\ SF_vars(\E h \in Handlers : On(h, e) /\ ConfirmCommit(h))
FairSpec == Spec /\ Fairness

-----------------------------------------------------------------------------
(* Properties                                                              *)

TransfersOf(e) == {t \in transfers : t.id = e}

\* A confirmation is there with all its parts or not at all, whatever crashed in
\* between: an entry exists exactly when its proposal is closed and exactly one
\* outbox row announces it, and then it carries the proposed terms, its
\* transfer exists in TigerBeetle, and the amount is the proposed quantity.
ConfirmationIsComplete ==
    \A e \in Entries :
        /\ (entries[e] # None) <=> (proposals[e] # None /\ proposals[e].state = "CONFIRMED")
        /\ Len(outbox[e]) = (IF entries[e] = None THEN 0 ELSE 1)
        /\ entries[e] # None =>
               /\ entries[e].terms = proposals[e].terms
               /\ entries[e].by = proposals[e].by
               /\ \E t \in transfers : /\ t.id = entries[e].transfer
                                       /\ t.amount = entries[e].terms.quantity

\* TigerBeetle never moves an outcome twice: repeated, crashed and late
\* confirmations of all entries together leave at most one transfer per
\* proposal, of exactly the proposed quantity.
TransfersMatchProposals ==
    /\ Cardinality(transfers) <= Cardinality({e \in Entries : proposals[e] # None})
    /\ \A t \in transfers :
          \E e \in Entries : proposals[e] # None /\ t.amount = proposals[e].terms.quantity

\* No transfer is ever caused by the proposer of its entry, not even by one who
\* proposes, crashes and confirms in any order on several handlers: both a
\* transfer and an entry stand on two principals.
TransferNeedsSecondPrincipal ==
    /\ \A t \in transfers \cup late :
          \A e \in Entries : t.id = e => proposals[e] # None /\ t.by # proposals[e].by
    /\ \A e \in Entries : entries[e] # None => entries[e].confirmedBy # entries[e].by

\* What was proposed is never altered, by a conflicting repetition or by a
\* confirmation that is running, and what was confirmed never changes at all.
TermsAreImmutable ==
    [][\A e \in Entries :
          /\ proposals[e] # None =>
                /\ proposals'[e].terms = proposals[e].terms
                /\ proposals'[e].by = proposals[e].by
          /\ entries[e] # None =>
                entries'[e] = entries[e] /\ proposals'[e] = proposals[e]]_vars

PostedIsRecordedFor(labels) ==
    \A e \in Entries :
        (proposals[e] # None /\ proposals[e].terms.label \in labels /\ TransfersOf(e) # {})
            ~> (entries[e] # None)

\* A transfer that was posted is recorded in the end when callers repeat the
\* confirmation, however often it crashed: for the labels that are their own
\* envelope label or map to another clearance label.
ClassifiedPostedIsRecorded ==
    PostedIsRecordedFor({"RESTRICTED", "CONFIDENTIAL", "SECRET"})

\* The same for every label Propose accepts, as the comment before the transfer
\* says of a crashed confirmation ("safe to retry").  The code breaks it for
\* UNCLASSIFIED: the outbox row is written with the label INTERNAL, which the
\* table's CHECK refuses every time, after the transfer was posted.
PostedIsRecorded == PostedIsRecordedFor(Classification)
=============================================================================
