\* One call after another, two faults of any kind: the ledger, and liveness.
SPECIFICATION FairSpec
CONSTANTS
    c1 = c1
    c2 = c2
    r1 = r1
    r2 = r2
    x1 = x1
    x2 = x2
    NoContent = NoContent
    NoRecipient = NoRecipient
    ReportStatuses = {"reported"}
    Calls <- OneCall
    Recipients <- TwoRecipients
    Contents <- TwoContents
    MaxFaults = 2
INVARIANT LedgerIsTrue
PROPERTIES ContentSettled EverybodyReached
