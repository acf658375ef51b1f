CONSTANTS
    Objects = {o1, o2}
    MaxOpened = 1
SPECIFICATION Spec
INVARIANT ReleasedOnce
CHECK_DEADLOCK FALSE
