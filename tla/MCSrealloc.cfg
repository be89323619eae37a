SPECIFICATION ReallocSpec
CONSTANTS
  HeapStart = 64
  HeapSize = 160
  Header = 16
  Word = 1024
  Requests <- MCRequests
INVARIANTS
  ChainOrdered
  NoLeak
  HeldInHeap
