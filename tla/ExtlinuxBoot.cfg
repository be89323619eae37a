CONSTANTS
  Hosts = {0, 2}
  SDC0 = 0
  SDC2 = 2
  CardSectors <- MCCardSectors
  SectorsPerBit = 2
  CacheSectors = 7
  ByteBits = 2
  Garbage = Garbage
  Directory = 0
  Start <- MCStart
  Size <- MCSize
  Piece = 2
  Cards <- MCCards
SPECIFICATION Spec
INVARIANTS ChunksWhole ReadsCurrentCard BootsWhatItLoaded EmmcBoots
PROPERTY BootEnds
