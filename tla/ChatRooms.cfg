CONSTANTS
    s1 = s1
    s2 = s2
    buyer = buyer
    seller = seller
    support = support
    Sockets = {s1, s2}
    Users = {buyer, seller, support}
    UserOf <- OneEach
    Support = {support}
    Orders = {o1}
    Messages = {m1}
    Handlers = {h1, h2}
SPECIFICATION Spec
SYMMETRY Symmetry
INVARIANTS
    TypeOK
    SeenByParties
    SeenWasStored
    MutualPresence
    NoGhosts
