SPECIFICATION Spec
CONSTANTS
    compiler = compiler
    stranger = stranger
    ca = ca
    master = master
    Peers = {compiler, stranger}
    Certs = {compiler, stranger, ca}
    ChainOf <- ChainsOf
    RoleOf <- RolesOf
    NoRole = NoRole
    AllowedRoles = {master}
    AllowedCertnames = {}
    Mode = "chain"
    StampOf <- Stamps
    Lists <- SomeLists
    Tasks = {t1, t2}
    Main = Main
    MaxVersions = 3
    MaxRestarts = 0
INVARIANTS OneRequestLate
CHECK_DEADLOCK FALSE
