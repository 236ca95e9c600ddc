SPECIFICATION FairSpec
CONSTANTS
    Handlers = {h1, h2}
    MaxHead = 2
    Burst = 4
    MaxLag = 0
PROPERTY ForbiddenIsNotMined
