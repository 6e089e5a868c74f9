CONSTANTS
    None = None
    Devices = {d1, d2}
    Addresses = {a1, a2}
    CookieKeepers = {d1}
    Words = {"Inform", "Fault", "Response"}
SPECIFICATION Spec
INVARIANT ResponseCompletes
