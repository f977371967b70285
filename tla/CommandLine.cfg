SPECIFICATION Spec
CONSTANTS
    Openings <- MCOpenings
    Followers <- MCFollowers
    MaxCommands = 3
    Branches = {"none", "main"}
INVARIANTS
    RoundTrip
    WorstOfParts
    CodeAndData
    LearnsWhatItSays
CHECK_DEADLOCK FALSE
