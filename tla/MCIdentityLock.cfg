CONSTANTS
    reader = reader
    both = both
    scribe = scribe
    g1 = g1
    g2 = g2
    Reader = {reader, both}
    Writer = {both, scribe}
    Group = {g1, g2}
    Update <- MCUpdate
    NoOne = NoOne
SPECIFICATION IdentitySpec
CHECK_DEADLOCK FALSE
INVARIANTS
    TeamsOfOneMoment
    StopsOnlyByEmbrace
PROPERTY
    ReturnsUnlessNested
