\* Pools of up to three workers, two control calls, a scaling every other step,
\* and ticks that may be cut short.
SPECIFICATION Spec
CONSTANTS
    Unit = 2
    Backends = {"sim", "realmodel"}
    StartBackend = "sim"
    InitialWorkers = 2
    DefaultMax = 3
    MaxWorkersCap = 3
    RealModelMax = 2
    Every = 2
    Cooldown = 3
    Dts = {1, 2}
    Targets = {1}
    MaxLoad = 2
    MaxOps = 2
INVARIANTS
    ConfigCoherent
    NoFlapping
PROPERTIES
    CoolsDown
    StaysInBounds
    RealModelCapped
    FloorRestored
