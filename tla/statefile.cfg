\* One save at a time, with failures of the disk and crashes anywhere.
SPECIFICATION Spec
CONSTANTS
    Saver = {s1}
    Inode = {i1, i2}
    None = None
    Broken = Broken
    MaxChange = 2
SYMMETRY Symmetry
INVARIANTS
    FileIsWhole
    FileInv
PROPERTIES
    SaveCoversRequest
    ImplementsStore
