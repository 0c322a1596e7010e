SPECIFICATION Spec
CONSTANTS
    Producer = {p1, p2}
    Service = {s1, s2}
    Main = main
    Callback = {1, 2, 3}
    None = 0
PROPERTIES
    ImplementsSerial
    EveryCallbackRuns
CHECK_DEADLOCK FALSE
