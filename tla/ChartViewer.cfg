\* Up to 21 samples, every sequence of keys.
SPECIFICATION Spec
CONSTANTS
  Inputs <- SomeInputs
  Terminals <- SomeTerminals
  MaxPending = 3
INVARIANTS
  TypeOK
  WindowInside
  FrameFits
PROPERTIES
  ArrowKeys
  QuitEnds
