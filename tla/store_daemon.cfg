SPECIFICATION Spec
CONSTANTS
    Worker = {w1, w2}
    Tag = {ubuntu, app}
    Image = {base, i1}
    ubuntu = ubuntu
    jammy = jammy
    base = base
    next = next
    Serves <- MCOneTag
    NoTag = NoTag
    NoImage = NoImage
    NoWorker = NoWorker
    Kinds = {"build", "remove", "purge", "list"}
    Fresh = FALSE
    MaxFaults = 1
SYMMETRY Symmetry
INVARIANTS
    TypeOK
    ListedIsStored
    WaitsEnd
    ListingReadable
PROPERTY
    TagStoreSpec
