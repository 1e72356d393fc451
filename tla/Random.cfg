SPECIFICATION FairSpec
CONSTANTS
    Source = {"rand_s", "arc4random_buf", "getrandom", "/dev/urandom"}
    ChunkSize = 3
    WordSize = 2
    MaxLen = 7
INVARIANTS
    AllOrNothing
PROPERTY
    Terminates
