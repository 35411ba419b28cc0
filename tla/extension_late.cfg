CONSTANTS
    Items = {i1, i2}
    Reports = {r1}
    Sockets = {s1, s2}
    NoSocket = NoSocket
    MaxSettling = 1
    MaxHeld = 2
    MaxTries = 1
    MaxRestarts = 1
    MaxCommands = 1
SPECIFICATION MCSpec
INVARIANT StartEndsSomewhere
CHECK_DEADLOCK FALSE
