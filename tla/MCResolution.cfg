SPECIFICATION MCSpec
CONSTANTS
  b1 = b1
  b2 = b2
  b3 = b3
  fn1 = fn1
  fn2 = fn2
  Bases = {b1, b2, b3}
  Names = {"a.dll", "b.dll", "b"}
  Functions = {fn1, fn2}
  Spellings = {"A", "b"}
  Normalize <- MCNormalize
  Hooks <- MCHooks
  MaxDepth = 3
  MaxLoads = 3
SYMMETRY Symmetry
INVARIANTS ResolutionFollowsChains InstalledAreAlive
PROPERTIES ErrorsAreFinal
