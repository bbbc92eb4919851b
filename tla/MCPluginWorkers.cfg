CONSTANTS
    p1 = p1  p2 = p2  j1 = j1  s1 = s1  s2 = s2
    Plugins = {p1, p2}
    Jobs = {j1}
    Scheds = {s1, s2}
    Owner <- MCOwner
    Hooks <- MCHooks
    Found <- MCFound
    Calls <- MCCalls
    Capacity = 1
    Restarts = 1
    MaxEnv = 3
SPECIFICATION Spec
CHECK_DEADLOCK FALSE
INVARIANTS TypeOK RegisteredStays
PROPERTIES StartedOnce ScheduleTakenUp HooksRun CrashAnswered
