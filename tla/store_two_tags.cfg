SPECIFICATION Spec
CONSTANTS
    Worker = {w1}
    ubuntu = ubuntu
    jammy = jammy
    base = base
    next = next
    Tag = {ubuntu, jammy}
    Image = {base, i1}
    Serves <- MCTwoTags
    NoTag = NoTag
    NoImage = NoImage
    NoWorker = NoWorker
    Kinds = {"build", "remove", "cleanup"}
    Fresh = FALSE
    MaxFaults = 0
SYMMETRY Symmetry
INVARIANT
    NoListedImageLosesLayers
