SPECIFICATION Spec
SYMMETRY ProcessSymmetry
CONSTANTS
    sound = sound
    heavy = heavy
    gapped = gapped
    p1 = p1
    p2 = p2
    t1 = t1
    Definition = {sound, heavy, gapped}
    Balanced = {sound, gapped}
    Banded = {sound, heavy}
    Process = {p1, p2}
    Thread = {t1}
    MaxVersions = 4
INVARIANTS
    OneActive
    ScoredUnderActive
PROPERTY
    ArchivedForGood

