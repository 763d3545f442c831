SPECIFICATION Spec
CONSTANTS
    MaxOrders = 3
    MaxQuantity = 3
    OrderIds = {ZeroId, a, b, c, d}
    ZeroId = ZeroId
    Symbols = {x, y}
    Prices = {1, 2}
    Shares = {0, 1, 2}
    Invalid = Invalid
    NoSymbol = NoSymbol
SYMMETRY MCSymmetry
INVARIANTS ArenaPartitioned TopOfBook QueuesSound TotalsExact
PROPERTIES FailureChangesNothing HashFollowsBook ImplementsPriceTime
CONSTRAINT MCBound
