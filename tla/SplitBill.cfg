CONSTANTS
    Users = {c, u}
    Guests = {g}
    Creator = c
    Declined = {g}
    Charges = {k1}
    Watched = k1
    Handlers = {h1, h2}
    BillRow = bill_row
    Naira = 2
    Share = 3
    Groups = {{c}, {u, g}, {c, u}}
    Amounts = {2, 5}
    Balances = {5}
    MaxRequests = 2
    MaxDups = 1
    MaxSpends = 1
    MaxFailures = 1

SPECIFICATION Spec
INVARIANTS
    TypeOK
    CollectedAddsUp
PROPERTIES
    ReopenedOnlyByCardOrFinalize
    EveryChargeIsBookedOnce
CHECK_DEADLOCK FALSE
