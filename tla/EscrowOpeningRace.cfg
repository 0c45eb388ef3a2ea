\* Two requests for one order overlap.
SPECIFICATION Spec
CONSTANTS
    Orders = {o1}
    Rows = {i1}
    Contracts = {c1, c2}
    Requests = {r1, r2}
PROPERTY OneContractPerRow
