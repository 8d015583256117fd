SPECIFICATION PhaseSpec
CONSTANTS
    Request = {r1, r2, r3}
    Engine = 6
    FirstRewrite = 2
    LastRewrite = 5
    Home = 3
INVARIANTS EachHandlerOnce HandlersKept
PROPERTIES ImplementsStatic PassEnds
CHECK_DEADLOCK FALSE
