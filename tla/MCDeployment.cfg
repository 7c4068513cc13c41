SPECIFICATION Spec
CONSTANTS
    Seeder = {w1, w2}
    Visitor = {"v1", "v2"}
    Owner = {"o1"}
    Token = {"t1", "t2"}
INVARIANTS
    SchemaIsItsRevision
    LatestMatchesModels
    EventsAreReal
    StatusAsSeeded
    PublicStaysOut
    NobodyIsLockedOut
    CallersAreThemselves
PROPERTIES
    SeedIsComplete
