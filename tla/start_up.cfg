SPECIFICATION Spec
CONSTANTS
    r1 = r1
    Server = Server
    Requests = {r1}
    NumFields = 2
    NumRoles = 2
    NumPermissions = 1
    MaxStops = 1
    MaxSettings = 2
    MaxNames = 1
CONSTRAINT Bounded
INVARIANTS
    TypeOK
    ConfigurationLostOnlyByOverlap
PROPERTIES
    CatalogueOnlyGrows
    SeedingCompletes
CHECK_DEADLOCK FALSE
