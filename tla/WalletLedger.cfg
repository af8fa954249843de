SPECIFICATION Spec
CONSTANTS
    Wallets = {w1, w2}
    Requests = {r1, r2}
    Amounts = {1, 2}
    FeePermille = 500
    FeeCap = 5
    MaxOps = 3
SYMMETRY Symmetry
INVARIANTS
    TypeOK
    NoOverdraft
    BalanceIdentity
    StatementNeverExceeds
PROPERTIES
    FrozenNeverSpends
    OnlyInvoiceFeesUnbalance
