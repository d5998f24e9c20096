\* Two saves that overlap.
SPECIFICATION Spec
CONSTANTS
    Saver = {s1, s2}
    Inode = {i1, i2, i3}
    None = None
    Broken = Broken
    MaxChange = 1
SYMMETRY Symmetry
INVARIANTS
    FileIsWhole
