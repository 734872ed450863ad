SPECIFICATION Spec
CONSTANTS
    Commands = {k1, k2, k3, typo}
    Valid = {k1, k2, k3}
    Empty = Empty
    WaitFor = {"empty", "effect"}
    Threads = {main, worker}
    Main = main
    PipeSize = 3
    MapSize = 2
    MaxFaults = 2
INVARIANTS TypeOK AppliedOnce
PROPERTIES CommandTakesEffect
