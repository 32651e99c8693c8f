CONSTANTS
    Callers = {a, b}
    NoCaller = NoCaller
    Transports = {"mcp", "zep"}
    Threshold = 2
    Recovery = 2
    PerMinute = 1
    PerHour = 1
    Minute = 1
    Hour = 2
    MaxFaults = 2
SPECIFICATION TransportSpec
PROPERTY SparesTheProvider
PROPERTY CircuitRecovers
