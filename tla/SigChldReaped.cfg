SPECIFICATION FairSpec
CONSTANT Children = 5
PROPERTIES TerminatedChildIsReaped
CHECK_DEADLOCK FALSE
