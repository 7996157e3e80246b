\* The same, without the assumptions on fairness.
SPECIFICATION NewsSpec
CONSTANTS
    c1 = c1
    r1 = r1
    x1 = x1
    NoContent = NoContent
    NoRecipient = NoRecipient
    NoReport = NoReport
    ReportStatuses = {"bounced", "complained"}
    Calls <- OneCall
    Recipients <- OneRecipient
    Contents <- OneContentOnly
    MaxFaults = 2
    MaxOptIns = 1
    MaxReports = 2
INVARIANTS BumpsOnce
