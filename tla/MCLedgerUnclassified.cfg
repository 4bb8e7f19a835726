\* One entry of any label; confirmations are repeated.
CONSTANTS
    Entries = {e1}
    Terms <- EveryLabel
    Principals = {p1, p2}
    Handlers = {h1, h2}
    None = None
SPECIFICATION FairSpec
PROPERTIES
    PostedIsRecorded
