\* A double submit, and nothing goes wrong.
SPECIFICATION Spec
CONSTANTS
    c1 = c1
    c2 = c2
    r1 = r1
    r2 = r2
    x1 = x1
    x2 = x2
    NoContent = NoContent
    NoRecipient = NoRecipient
    ReportStatuses = {"reported"}
    Calls <- TwoCalls
    Recipients <- TwoRecipients
    Contents <- OneContentOnly
    MaxFaults = 0
SYMMETRY Symmetry
INVARIANTS NoSecondFanOut
