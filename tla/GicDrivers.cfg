CONSTANTS
  Irqs = {i1, i2}
  Handlers = {h1, h2}
  Outside = Outside
  FreeMasked = FALSE
  MaxDepth = 2
SPECIFICATION Spec
INVARIANTS CallIsConsistent NothingLeftActive MaskKept
