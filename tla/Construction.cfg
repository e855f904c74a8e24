CONSTANT Lines = 3
SPECIFICATION CSpec
INVARIANTS NothingLeaks ReleasedInOrder
\* A pipeline that is gone stays gone.
CHECK_DEADLOCK FALSE
