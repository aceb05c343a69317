SPECIFICATION Spec
CONSTANTS
    Worker = {w1}
    ubuntu = ubuntu
    jammy = jammy
    base = base
    next = next
    Tag = {ubuntu, jammy}
    Image = {base, next, i1, i2}
    Serves <- MCTwoTags
    NoTag = NoTag
    NoImage = NoImage
    NoWorker = NoWorker
    Kinds = {"build", "remove", "purge", "list", "delete", "cleanup"}
    Fresh = TRUE
    MaxFaults = 0
SYMMETRY Symmetry
INVARIANTS
    IndexedImagesComplete
    ListedImagesComplete
    IndexCoversListed
PROPERTY
    RemoveTakesBoth
