SPECIFICATION Spec
CONSTANTS
    u1 = u1  u2 = u2  w1 = w1  w2 = w2
    gateway = gateway  others = others  mixed = mixed
    User = {u1, u2}  Workspace = {w1, w2}  Config = {gateway, others, mixed}
    None = None
    Opens <- Own
    Default <- Defaults
    First = gateway
    Vaults <- Started  VaultLimit = 2  TxLimit = 2
    Works <- Mixed
INVARIANTS TypeOK SignsWithKey VaultsAreKnown ListsAll
PROPERTIES RequestsEnd
CHECK_DEADLOCK FALSE
