SPECIFICATION ConferenceFairSpec
CONSTANTS
    N = 4
    Actions = {1, 2}
    HoldCourse = 3
    MaxRounds = 3
    Regards <- Standings
    Openings <- Stances
INVARIANTS
    ConferenceTypeOK
    NoVoiceLost
PROPERTY
    ConferenceEnds
CHECK_DEADLOCK FALSE
