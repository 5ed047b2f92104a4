SPECIFICATION FairSpec
CONSTANTS
    Proc = {p1, p2}
    Interval = 1
    MaxDelay = 2
    LeaseFails = TRUE
 
PROPERTY LauncherKeepsRunning
