SPECIFICATION Spec
CONSTANTS
    Apps = {a1, a2}
    Receivers = {r1}
    Timers = {x1}
    Gc = gc
    Writers = {w1}
    Builtins = {b1}
    Proxies = {p1}
    Local = Local
    None = None
    NoOp = NoOp
    W = 16
    MaxVtime = 1
INVARIANTS TypeOK NoUseAfterFree DeletedOnce NothingLeft
PROPERTIES DeletionCompletes ShutdownCompletes
CHECK_DEADLOCK FALSE
