SPECIFICATION Spec
CONSTANTS
    Drivers = {"python", "c"}
    MaxAttempts = 3
    PatchSections = 2
    RamRegions = 2
INVARIANTS
    Ready
    CleanRetry
    SemReleased
    DownloadToRom
PROPERTIES
    ImplementsService
