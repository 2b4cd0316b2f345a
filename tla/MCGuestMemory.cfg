SPECIFICATION FairSpec
CONSTANTS
  PAGE_SIZE = 4
  NPages = 8
  MinPage = 1
  StackPages = 1
  Images <- MCImages
  Brks = {11, 12, 17, 30, 31}
  Lens = {0, 4, 7}
  FixedPages = {2, 5, 7}
  WritePages = {2}
INVARIANTS
  TypeOK
PROPERTIES
  ImageLoaded
  HeapFresh
  MmapTakesFreePages
  SearchEnds
