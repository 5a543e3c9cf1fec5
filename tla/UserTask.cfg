\* A task needs nine pages; there are nine, and other code takes some of them.
SPECIFICATION UserSpec
CONSTANTS
  total_pages = 9
  MaxRaw = 1
  NULL = NULL
  Spaces = {t1}
  Index = {0, 1}
  Trampoline = Trampoline
INVARIANTS FreeCountExact TaskInv MappedPagesLive
PROPERTIES ImplementsPool FailedMapLeavesNothing
