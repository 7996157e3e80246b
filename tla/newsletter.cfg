\* One call after another and the webhook beside it, two faults of any kind.
SPECIFICATION FairNewsSpec
CONSTANTS
    c1 = c1
    r1 = r1
    x1 = x1
    NoContent = NoContent
    NoRecipient = NoRecipient
    NoReport = NoReport
    ReportStatuses = {"bounced", "complained"}
    Calls <- OneCall
    Recipients <- OneRecipient
    Contents <- OneContentOnly
    MaxFaults = 2
    MaxOptIns = 1
    MaxReports = 1
INVARIANTS AnsweredIsOut SuppressionExplained
PROPERTIES ImplementsFanOut ReportsStay ReportsAnswered
