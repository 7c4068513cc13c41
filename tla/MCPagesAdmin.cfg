SPECIFICATION FairSpec
CONSTANTS
    p1 = p1
    p2 = p2
    c1 = c1
    None = None
    Page = {"experience", "admin", "dashboard", "health"}
    Locale = {"en"}
    SignedIn = {TRUE, FALSE}
    Slug = {p1, p2}
    Translated <- Projects
    Certified <- Certifications
    Days = {7, 30}
    DefaultDays = 30
    MaxVisits = 2
    MaxFaults = 1
CHECK_DEADLOCK FALSE
INVARIANTS
    LatestAnswerShown
PROPERTIES
    HealthNotBlanked
    PagesLoad
    SignedOutLeavesHealth
