SPECIFICATION FairSpec
CONSTANTS
    Annotator = {"n1"}
    Operator = {"o1", "o2"}
    Worker = "w"
    Embedded = FALSE
    Action = {"continue", "stop"}
    KeyOf <- OneKey
    MaxGates = 2
    MaxResolves = 2
    MaxAnnotates = 1
    MaxCrashes = 1
 
PROPERTIES OneDecision 
CHECK_DEADLOCK FALSE
