SPECIFICATION Spec
CONSTANTS
    near = near
    far = far
    third = third
    daily = daily
    short = short
    long = long
    Identities = {near, far, third, daily}
    Pools = {short, long}
    Pool <- ThreeShortOneLong
    Capacity <- TwoAndOne
    Limit = 2
    Window = 3
    Pause = 1
    Lag = 1
SYMMETRY EveryShort
INVARIANTS
    TypeOK
    FewerThanTwice
    FullOfLiveWindows
CHECK_DEADLOCK FALSE
