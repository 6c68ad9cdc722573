SPECIFICATION FairSpec
CONSTANTS
  Limit <- MCLimit
  MaxBackoff <- MCMaxBackoff
INVARIANTS
  UploadsOnlySynced
  BudgetInRange
PROPERTIES
  ChargedOnlyWhilePanelAnswers
  Shutdown
  ComesBack
CHECK_DEADLOCK FALSE
