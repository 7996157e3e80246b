\* Two calls over two hours of a day: the daily cap bites in the second hour
\* when the first was full.  Without symmetry, for the sake of liveness.
SPECIFICATION RollSpec
CONSTANTS
    c1 = c1
    c2 = c2
    d1 = d1
    NoCall = NoCall
    Calls <- MCCalls
    Hours <- MCHours
    Days <- MCDays
    DayOf <- MCDayOf
    HourlyCap = 2
    DailyCap = 3
    PowerMayFail = TRUE
INVARIANTS IInv AdmittedWithinCap RecordedStaysCharged ChargedWithinCap DeliveriesKeepPace
PROPERTIES OnlyPowerCutsLowerCounts ImplementsBudget RequestsAnswered
