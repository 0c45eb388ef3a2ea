\* Two requests that may overlap, with failures, lost answers and crashes.
SPECIFICATION Spec
CONSTANTS
    Orders = {o1, o2}
    Rows = {i1, i2}
    Contracts = {c1, c2, c3}
    Requests = {r1, r2}
SYMMETRY Symmetry
INVARIANTS
    TypeOK
    ContractsReal
    OnlyUsdc
    FundedWitnessed
    NoStrandedFunds
PROPERTY ContractKept
