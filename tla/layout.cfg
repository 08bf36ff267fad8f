\* The page is answered once, so the behaviour may stop.
SPECIFICATION Spec
CONSTANTS
  MaxSize = 28
CHECK_DEADLOCK FALSE
INVARIANTS
  TypeOK
  EachArticleOnce
  FrontPageBuilt
  CategoryPageBuilt
PROPERTIES
  PageAnswered
