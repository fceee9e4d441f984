SPECIFICATION Spec
CONSTANTS
    Daemons <- MCDaemons
    MaxForks = 6
    MaxFailures = 1
INVARIANTS
    TypeOK
    OneInstance
    NoneSurvives
PROPERTIES
    Restarted
CHECK_DEADLOCK FALSE
