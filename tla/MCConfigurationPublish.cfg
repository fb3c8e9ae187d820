SPECIFICATION Spec
CONSTANTS
    sound = sound
    heavy = heavy
    gapped = gapped
    p1 = p1
    p2 = p2
    t1 = t1
    Definition = {sound, heavy, gapped}
    Balanced = {sound, gapped}
    Banded = {sound, heavy}
    Process = {p1}
    Thread = {t1}
    MaxVersions = 3
INVARIANT
    PublishSucceeds
