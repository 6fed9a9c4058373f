SPECIFICATION FairSpec
CONSTANTS
    Stoul <- Lengths
    Requests <- Mixed
    MaxRequests = 3
    CloseChoices = {TRUE, FALSE}
INVARIANTS AnswersAreDelimited AnswersMatch NothingOwed
PROPERTY OnMessageReturns
CHECK_DEADLOCK FALSE
