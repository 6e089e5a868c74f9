\* A device with cookies and one without, two addresses they may share, hand on and report wrongly.
CONSTANTS
    None = None
    d1 = d1
    d2 = d2
    c1 = c1
    c2 = c2
    Devices = {d1, d2}
    Addresses = {a1, a2}
    CookieKeepers = {d1}
    Words = {"Inform"}
    Commands = {c1, c2}
    OwnerOf <- OneCommandEach
    Faulty <- SecondIsFaulty
SPECIFICATION ServerSpec
SYMMETRY Symmetry
INVARIANTS
    ServerTypeOK
    CookieSessionIsOwn
    KnownDeviceRunsOwn
PROPERTIES
    FreshSessionIsOwn
    KnownDeviceSettlesOwn
