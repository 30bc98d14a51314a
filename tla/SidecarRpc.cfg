SPECIFICATION FairSpec
CONSTANTS
    Wire = wire
    Stop = stop
    Posters = {p1}
    MaxPosts = 1
    MaxEvents = 1
    PipeMax = 0
INVARIANTS OwnAnswer NoEventDropped
PROPERTIES PostsEnd NodeGone
CHECK_DEADLOCK FALSE
