SPECIFICATION Spec
CONSTANTS
    Client = {c1, c2}
    Work <- MCWork
    Scheme = {"Basic", "Bearer"}
    Image = {"m1", "m2"}
    Contents <- MCContents
    List = {"multi", "other"}
    Entries <- MCEntries
    Platform = "amd64"
    NoImage = "no image"
    MaxPublished = 1
    MaxExpired = 1
CHECK_DEADLOCK FALSE
INVARIANT
    ValidCredentialsDo
