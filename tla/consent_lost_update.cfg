\* Two parallel writers and nothing else that can go wrong.
SPECIFICATION Spec
CONSTANTS
    w1 = w1
    w2 = w2
    m1 = m1
    m2 = m2
    Writers <- TwoWriters
    Minters <- OneMinter
    MaxWrites = 4
    MaxPowerCuts = 0
SYMMETRY Symmetry
PROPERTIES GenerationMonotonic
