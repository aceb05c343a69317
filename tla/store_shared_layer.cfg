SPECIFICATION Spec
CONSTANTS
    Worker = {w1, w2}
    Tag = {ubuntu, app}
    Image = {base, i1, i2}
    ubuntu = ubuntu
    jammy = jammy
    base = base
    next = next
    Serves <- MCOneTag
    NoTag = NoTag
    NoImage = NoImage
    NoWorker = NoWorker
    Kinds = {"build"}
    Fresh = FALSE
    MaxFaults = 0
INVARIANT
    InheritedLayersReadable
