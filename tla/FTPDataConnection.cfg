SPECIFICATION FairSpec
CONSTANTS
    Preferences = {"none", "PASV", "EPSV", "EPRT", "PORT"}
    Circumstances = {{}, {"resumes"}, {"sendErrors"}, {"noSocket"}, {"slow"},
                     {"resumes", "sendErrors", "noSocket", "slow"}}
    MaxTransfers = 3
    MaxUnanswered = 3
INVARIANTS NeverRetriesFailed AwaitingOpenIsTimed OneReplyDue 
 
CHECK_DEADLOCK FALSE
