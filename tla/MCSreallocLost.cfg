SPECIFICATION ReallocSpec
CONSTANTS
  HeapStart = 64
  HeapSize = 208
  Header = 16
  Word = 1024
  Requests <- MCRequests
INVARIANT
  HeldListed
