SPECIFICATION Spec
CONSTANTS
    Clis = {c1, c2}
    Browsers = {b1}
    Home = home
    Registries = {home, other}
    MaxCommands = 2
    MaxFaults = 1
INVARIANTS CredentialsStayHome KeyHalvesMatch
PROPERTY LoginEnds
CHECK_DEADLOCK FALSE
