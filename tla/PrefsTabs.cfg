SPECIFICATION Spec
CONSTANTS
    a = a
    b = b
    Tabs = {t1, t2}
    Channels = {a, b}
    Viewers = {p}
    NoProfile = NoProfile
    Selections = {all}
    AllProfiles = all
    Legacy <- OneLegacy
    MaxEdits = 2
    MaxSwitches = 0
    MaxFailures = 0
    None = None
PROPERTIES
    OnlyTheViewerDrops
