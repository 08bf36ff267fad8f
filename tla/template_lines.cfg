SPECIFICATION Spec
CONSTANTS
  Names <- AllNames
  Files <- TestTemplate
  Datas <- TestData
  NoFile = NoFile
INVARIANTS
  CyclesExpanded
