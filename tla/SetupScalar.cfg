SPECIFICATION Spec
CONSTANTS
    None = None
    Absent = Absent
    Word = 1048576
    Places <- MCPlaces
    Components <- MCComponents
    Stem <- MCStem
    Hidden = {".git"}
    MaxNesting = 1
    Raw <- MCRaw
    UserRoot = "home"
    Sessions <- MCSessions
    Contents = {"note", "plain", "soon", "odd", "scalar"}
    Layers = {"short", "bad", "broken"}
    RawLayer <- MCRawLayer
    MaxEdits = 2
INVARIANTS InvalidValuesFallBack
CHECK_DEADLOCK FALSE
