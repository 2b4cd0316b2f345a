SPECIFICATION Spec
CONSTANTS
  PAGE_SIZE = 4
  NPages = 8
  MinPage = 1
  StackPages = 1
  Images <- BssImages
  Brks = {11, 12, 17}
  Lens = {0, 4, 7}
  FixedPages = {}
  WritePages = {2}
PROPERTIES
  ImageLoaded
