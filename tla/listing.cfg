\* Pages of one and of two requests, four requests in two workspaces.
SPECIFICATION Spec
CONSTANTS
    w1 = w1
    w2 = w2
    alice = alice
    t1 = t1
    None = None
    Calls = {1, 2, 3, 4}
    Workspaces = {w1, w2}
    Users = {alice}
    Texts = {t1}
    Queries <- MCQueries
INVARIANTS
    ListingTypeOK
    FullListing
    GapsBounded
    RepeatsBounded
    TotalCoversPage
\* A listing is finished and nobody changes anything any more.
CHECK_DEADLOCK FALSE
