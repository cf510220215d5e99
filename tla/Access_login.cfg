SPECIFICATION Spec
CONSTANTS
    old = old
    new = new
    r1 = r1
    r2 = r2
    Passwords = {old, new}
    First = old
    Configured = new
    Requests = {r1, r2}
    KeyLimit = 2
    MaxVersion = 3
    MaxSigning = 1
    MaxKeyId = 0
    None = None
SYMMETRY EitherRequest
INVARIANTS
    TokensProvePassword
CHECK_DEADLOCK FALSE
