SPECIFICATION PackagesSpec
CONSTANTS
    conn = conn
    qry = qry
    sto = sto
    agt = agt
    p1 = p1
    p2 = p2
    config = config
    Resource = {conn, qry, sto, agt}
    Connector = {conn}
    Soft = {conn, qry, agt}
    Agent = {agt}
    Query = {qry}
    Package = {p1, p2}
    Config = config
    Nobody = Nobody
    User = User
    Missing = Missing
    Version = {1, 2}
    Ships <- MCShips
    Hash <- MCHash
    DeleteOrder <- MCDeleteOrder
    r1 = r1
    r2 = r2
    Session = {r1, r2}
    MaxRequests = 3
    MaxEdits = 2
INVARIANTS
    ManagedAsShipped
    MarkedAsRecorded
SYMMETRY MCSymmetry
CHECK_DEADLOCK FALSE
CONSTRAINT NotAllAtOnce
