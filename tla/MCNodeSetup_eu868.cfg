SPECIFICATION Spec
INVARIANTS EU868Serves
\* A node that was created is the end.
CHECK_DEADLOCK FALSE
