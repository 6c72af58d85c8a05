SPECIFICATION FairSpec
CONSTANTS
    MaxRestarts = 2
    MaxRedirects = 1
    MaxInputs = 5
INVARIANTS
    FlagsAreHonest
    PictureIsOfPage
PROPERTY TabSettles
\* A closed tab takes no further step.
CHECK_DEADLOCK FALSE
