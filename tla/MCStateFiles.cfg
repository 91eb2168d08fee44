SPECIFICATION FilesSpec
CONSTANTS
    Jobs = {j1, j2}
    Inode = {i1, i2, i3}
    NoFile = NoFile
SYMMETRY Symmetry
INVARIANTS
    SurvivesCrash
    NothingUnsaved
