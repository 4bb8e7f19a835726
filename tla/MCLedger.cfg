\* One entry of three principals, two racing confirmations that are repeated.
CONSTANTS
    Entries = {e1}
    Terms <- Classified
    Principals = {p1, p2, p3}
    Handlers = {h1, h2}
    None = None
SPECIFICATION FairSpec
INVARIANTS
    TypeOK
    ConfirmationIsComplete
    TransfersMatchProposals
    TransferNeedsSecondPrincipal
PROPERTIES
    TermsAreImmutable
    ClassifiedPostedIsRecorded
