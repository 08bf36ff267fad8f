SPECIFICATION Spec
CONSTANTS
  Names <- AllNames
  Files <- Templates
  Datas <- AllData
  NoFile = NoFile
INVARIANTS
  TypeOK
  RenderedInPlace
PROPERTIES
  RenderingEnds
