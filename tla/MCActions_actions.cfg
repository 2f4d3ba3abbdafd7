SPECIFICATION FairSpec
CHECK_DEADLOCK FALSE
CONSTANTS
    Rows <- MCRows
    Errors <- MCErrors
    ManagementErrors <- MCManagementErrors
    PeekErrors <- MCPeekErrors
INVARIANTS SuccessIsReal TokenFailureIsNamed OutcomeIsHandedBack AcceptedIsSafe
PROPERTIES ActionEnds
