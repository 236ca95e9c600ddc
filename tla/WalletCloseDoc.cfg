SPECIFICATION Spec
CONSTANTS
    URLs = {u1, u2}
    Connected = {u1}
    Waiters = {w1}
    Signers = {s1}
    ErrChanBuffer = 1
    NoOne = NoOne
INVARIANT ManagementSurvivesClose
