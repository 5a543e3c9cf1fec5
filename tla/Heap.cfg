\* Three pages shared by two classes (two blocks and one block a page) and raw users.
SPECIFICATION HeapSpec
CONSTANTS
  total_pages = 3
  NULL = NULL
  heap_class_sizes <- ClassSizes
  BlockAreaBytes = 5
  Sizes = {0, 1, 3, 5}
INVARIANTS HeapInv PagesHaveOneOwner
PROPERTIES KmallocHonest
