SPECIFICATION Spec
CONSTANTS
    Keys = {invite, other, bye}
    InviteKeys = {invite, other}
    Maximum = 1
    MaxGeneration = 4
    Codes = {180, 200, 486}
INVARIANTS TypeOK WithinCapacity GenerationsFresh TombstoneIsOlder ServerTimersFit
PROPERTIES StaleTokensHarmless
SYMMETRY KeySymmetry
