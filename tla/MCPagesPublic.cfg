SPECIFICATION Spec
CONSTANTS
    p1 = p1
    p2 = p2
    c1 = c1
    None = None
    Page = {"home", "projects", "skills", "detail", "about", "certifications", "experience"}
    Locale = {"en", "es"}
    SignedIn = {FALSE}
    Slug = {p1, p2}
    Translated <- Projects
    Certified <- Certifications
    Days = {7, 30}
    DefaultDays = 30
    MaxVisits = 3
    MaxFaults = 1
CHECK_DEADLOCK FALSE
INVARIANTS
    LatestAnswerShown
    VisitsRecorded
