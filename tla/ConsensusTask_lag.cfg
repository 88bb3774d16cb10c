SPECIFICATION Spec
CONSTANTS
    Caller = {c1, c2}
    Subscriber = {main, rpc}
    Main = main
    Capacity = 2
    MaxEvents = 4
    MaxActions = 3
    Subject = {x}
INVARIANT
    TaskSurvives
CHECK_DEADLOCK FALSE
