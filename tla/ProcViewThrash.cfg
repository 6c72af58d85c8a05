SPECIFICATION Spec
CONSTANTS
    MaxRestarts = 1
    MaxRedirects = 1
    MaxInputs = 3
INVARIANT RestartsAreBounded
\* A closed tab takes no further step.
CHECK_DEADLOCK FALSE
