SPECIFICATION Spec
CONSTANTS
  Proc = {p1, p2}
  Inode = {i1, i2, i3, i4}
  Object = {o1, o2}
  Empty = Empty
  Garbage = Garbage
  None = None
SYMMETRY Symmetry
INVARIANTS TypeOK TornOnlyByOverlap SettlesReadable
PROPERTIES ImplementsStore
