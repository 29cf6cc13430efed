\* Two commands beside a server with one request; two tokens are ever drawn.
CONSTANTS
    Commands = {p1, p2}
    Readers = {r1}
    Clients = {c1, c2}
    Users = {u1, u2}
    Sessions = {s1}
    Tokens = {t1, t2}
    Outputs = {o1, o2}
    MaxEntries = 2
    None = None
SPECIFICATION Spec
SYMMETRY Symmetry
INVARIANTS
    StoreReadable
    FilesAccounted
    RevocationHolds
PROPERTIES
    ImplementsRegistry
