\* Two requests, no crash: does a provider stay while a network uses it?
SPECIFICATION Spec
CONSTANTS
    u1 = u1  u2 = u2  i1 = i1  i2 = i2  n1 = n1  n2 = n2  n3 = n3  p1 = p1  p2 = p2
    User = {u1, u2}  Idp = {i1, i2}  Network = {n1, n2, n3}  Party = {p1, p2}
    SigningRow = {"key"}
    Null = Null
    ConfigIdps = {i1, i2}
    ConfigNetworks <- TwoNetworks
    OldWallets <- LeftWallets
    Issuer <- OneIssuer
    MaxCrashes = 0  MaxCommands = 0  MaxRequests = 2
PROPERTY UsedIdpStays
CHECK_DEADLOCK FALSE
