SPECIFICATION Spec
CONSTANTS
    a = a
    b = b
    Tabs = {t1}
    Channels = {a, b}
    Viewers = {p, q}
    NoProfile = NoProfile
    Selections = {all, some}
    AllProfiles = all
    Legacy <- OneLegacy
    MaxEdits = 2
    MaxSwitches = 2
    MaxFailures = 1
    None = None
SYMMETRY ViewerSymmetry

    
    
PROPERTIES
    InFlightEditsAreKept
