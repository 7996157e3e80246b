\* Two parallel writers, one minter, power cuts.
SPECIFICATION Spec
CONSTANTS
    w1 = w1
    w2 = w2
    m1 = m1
    m2 = m2
    Writers <- TwoWriters
    Minters <- OneMinter
    MaxWrites = 3
    MaxPowerCuts = 1
SYMMETRY Symmetry
INVARIANTS IInv AckedIsDurable GenerationsAreConsents MailFollowsConsent
