SPECIFICATION Spec
CONSTANTS
    Numbers <- GivenNumbers
    Defaults <- HostDefaults
    NoAnswer = NoAnswer
    MaxSwaps = 2
INVARIANTS
    TypeOK
    InstallComplete
    ConfigLoads
    IdentityKept
