\* Two clients with two requests each against a device range of four pages.
CONSTANTS
    c1 = c1
    c2 = c2
    Clients <- MCClients
    Width = 4
    PageSize = 2
    DevBase = 2
    DevSize = 6
    Slots = {0, 1}
    BadSlot = 9
    MemSizes = {0, 1, 3}
    BalloonPages <- MCBalloonPages
    GpuSizes = {2}
    HasGpu = TRUE
    MaxRequests = 2
    Failures = {"add_memory", "balloon", "gpu"}
SPECIFICATION Spec
INVARIANT TypeOK
INVARIANT WireRoundTrip
INVARIANT HeldMemoryMapped
PROPERTY RequestsAnswered
