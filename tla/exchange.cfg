SPECIFICATION Spec
CONSTANTS
  Tabs = {"t1", "t2"}
  Users = {writer}
  Creators = {}
  Editors = {writer}
  Ids = {s1, s2}
  Articles <- OneArticle
  Categories <- OneCategory
  Assets <- MainStyle
  PagesOf <- PagesOfTab
  LoadsOf <- LoadsOfTab
  BareKept <- Deeper
  MaxFaults = 1
  Param = Param
  None = None
  Out = Out
  Waiting = Waiting
INVARIANTS
  TypeOK
  CookieComesBack
  LinksResolve
PROPERTIES
  RedirectsEnd
  LoginArrives
