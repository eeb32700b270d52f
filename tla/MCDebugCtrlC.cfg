SPECIFICATION MCBlockingSpec
CONSTANTS
  t1 = t1
  t2 = t2
  b0 = b0
  b1 = b1
  b2 = b2
  ntdll = ntdll
  lib = lib
  fwd = fwd
  h1 = h1
  h2 = h2
  f1 = f1
  f2 = f2
  Threads = {t1}
  Bases = {b0}
  Names = {ntdll}
  Ntdll = ntdll
  Definitions <- OneHook
  Source <- OneHome
  Home <- OneHome
  Export <- OneExport
  Trampolines = {m1}
  Original = Original
  Null = Null
  MaxBreaks = 1
  MaxForgotten = 1
  Faults = {}
PROPERTIES CtrlCDetaches
