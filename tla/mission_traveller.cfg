SPECIFICATION Spec
CONSTANTS
    r = r
    a = a
    b = b
    it = it
    Users = {r, a, b, it}
    Initiator = r
    Admins = {it}
    Grantable <- MCGrantable
    Reroutable = {"assistance", "distribution"}
    Travellers = {r, b}
    Uploads <- MCUploads
    None = None
INVARIANTS
    InternationalForInitiator
