\* One writer at a time, two minters beside it, crashes but no power cut.
SPECIFICATION Spec
CONSTANTS
    w1 = w1
    w2 = w2
    m1 = m1
    m2 = m2
    Writers <- OneWriter
    Minters <- TwoMinters
    MaxWrites = 5
    MaxPowerCuts = 0
INVARIANTS SerialInv
PROPERTIES GenerationMonotonic ImplementsContract
