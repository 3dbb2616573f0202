CONSTANTS
    Instances = {a, b}
    Missing = Missing
    Part = Part
    Torn = Torn
    Lost = Lost
    MaxSaves = 1
    MaxCrashes = 1
    MaxOrphans = 1
SYMMETRY Symmetry
SPECIFICATION Spec
INVARIANTS
    TypeOK
    ForcedFresh
    JumpsMatch
    Undisturbed
