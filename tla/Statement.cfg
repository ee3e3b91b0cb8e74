\* Three hooks, the second without a done; three attempts for reads only.
SPECIFICATION FairSpec
CONSTANTS
    Hooks = 3
    Silent = {2}
    Attempts = 3
    RetryWrites = FALSE
    Comments = {TRUE, FALSE}
    RowCount = 2
INVARIANTS TypeOK HooksNest WriteAtMostOnce AnswerOfLastAttempt
    CancelEndsRetries QueryRowsOfOneAttempt ReadsEligible
PROPERTIES CallsEnd
