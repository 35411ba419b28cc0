CONSTANTS
    Items = {i1, i2}
    Reports = {r1}
    Sockets = {s1, s2}
    NoSocket = NoSocket
    MaxSettling = 2
    MaxHeld = 2
    MaxTries = 1
    MaxRestarts = 1
    MaxCommands = 1
SPECIFICATION MCSpec
INVARIANTS
    DownloadIsNotLost
    RestoredIsNotPrompted
    ForgottenStaysForgotten
PROPERTY HeldUntilSent
SYMMETRY Symmetry
CHECK_DEADLOCK FALSE
