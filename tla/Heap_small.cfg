\* An arena of 144 bytes: a header, then up to five blocks.
CONSTANTS
  HeapStart = 16
  HeapEnd = 144
  Word = 256
  Requests = {1, 22, 40}
  Alignments = {8}
SPECIFICATION Spec
INVARIANTS ListSound Owned Accounted
PROPERTIES CallsReturn ImplementsAllocator
