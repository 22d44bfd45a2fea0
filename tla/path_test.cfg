SPECIFICATION FairSpec
CONSTANTS
    None = None
    cloudflare = cloudflare
    google = google
    Targets = {cloudflare, google}
INVARIANTS
    StillWorldIsJudgedRight
PROPERTIES
    InterceptionIsNoticed
    AlarmIsCleared
