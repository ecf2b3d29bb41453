CONSTANTS
    root = root
    project = project
    scenes = scenes
    a = a
    b = b
    notes = notes
    other = other
    Entry <- MCEntry
    Root = root
    Dir <- MCDir
    Parent <- MCParent
    MayBlind <- MCNone
SPECIFICATION Spec
PROPERTY ClearsAllBelow
