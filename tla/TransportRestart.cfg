CONSTANTS
    Callers = {a, b}
    NoCaller = NoCaller
    Transports = {"mcp"}
    Threshold = 2
    Recovery = 2
    PerMinute = 1
    PerHour = 1
    Minute = 1
    Hour = 2
    MaxFaults = 1
SPECIFICATION TransportSpec
PROPERTY RestartIsForgiven
