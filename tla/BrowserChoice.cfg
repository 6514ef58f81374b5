SPECIFICATION FairSpec
CONSTANTS
    Channels = {ch1, ch2}
    Titles = {film}
    Tiles = {}
    Calls = {c1, c2}
    Sessions = {s1, s2}
    TileLimit = 1
    MaxPicks = 2
    MaxRenders = 1
    None = None
PROPERTIES
    ChoiceIsAnswered
