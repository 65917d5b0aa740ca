SPECIFICATION FairSpec
CONSTANTS
    Nobody = Nobody
    first = first
    retry = retry
    other = other
    erase = erase
    eraseRetry = eraseRetry
    Requests <- MCRequests
    Keys = {"write", "erase"}
    Subjects = {"s1", "s2"}
    KeyOf <- MCKeyOf
    BodyOf <- MCBodyOf
    SubjectOf <- MCSubjectOf
    Erasing <- MCErasing
PROPERTIES ErasureIsComplete ImplementsApi EveryRequestAnswered
