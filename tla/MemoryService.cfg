SPECIFICATION Spec
CONSTANTS
    r1 = r1
    r2 = r2
    Requests = {r1, r2}
    Seed = seed
    Prior = prior
    Names = {r1, r2, seed, prior}
    Home = home
    Contexts = {home, away}
    Nobody = nobody
    NoSource = noSource
    Refused = refused
    Compiler = compiler
    MaxAttempts = 2
    Batch = 2
    Asks <- AllAsks
  
PROPERTY NothingIsLost
CONSTRAINT TwinsMeetFew
SYMMETRY AnyOrder
CHECK_DEADLOCK FALSE
