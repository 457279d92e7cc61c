SPECIFICATION Spec
CONSTANTS
  Types <- TypesMain
  Kind <- KindMain
  Parts <- PartsMain
  Keys <- NoKeys
  Depth <- DepthMain
  Labels <- LabelsMain
  Signed = {"tag_union"}
  TagSize <- TagSizeMain
  IntSize = 16
  Roots <- RootsMain
  Values <- ValuesMain
  MaxLen = 2
  ArrayLen = 2
  Faults = {"set_member", "get_member"}
INVARIANTS TypeOK BindDiscipline AllArrives NothingElseArrives UnionTruth UnionReadsBack
