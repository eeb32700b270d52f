SPECIFICATION MCFairSpec
CONSTANTS
  t1 = t1
  t2 = t2
  b0 = b0
  b1 = b1
  b2 = b2
  ntdll = ntdll
  lib = lib
  fwd = fwd
  h1 = h1
  h2 = h2
  f1 = f1
  f2 = f2
  Threads = {t1, t2}
  Bases = {b0, b1, b2}
  Names = {ntdll, lib}
  Ntdll = ntdll
  Definitions <- TwoHooks
  Source <- DirectSource
  Home <- TwoHomes
  Export <- TwoExports
  Trampolines = {m1, m2}
  Original = Original
  Null = Null
  MaxBreaks = 2
  MaxForgotten = 1
  Faults = {"Kill", "Initialize", "Configure", "Install", "Rollback"}
INVARIANTS QuiescenceIsReal NobodyAstray CleanStopRestores
PROPERTIES RefinesInstrumentation AlwaysContinued StopEnds
