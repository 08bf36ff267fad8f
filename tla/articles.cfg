\* The behaviour ends when MaxRequests requests were handled.
SPECIFICATION Spec
CONSTANTS
  Clients = {b1, b2}
  Requests <- AllRequests
  s1 = s1
  s2 = s2
  t1 = t1
  t2 = t2
  i1 = i1
  i2 = i2
  news = news
  newsflash = newsflash
  Slugs = {s1, s2}
  Titles = {t1, t2, Empty}
  Names = {news, newsflash}
  Images = {i1, i2}
  Empty = Empty
  Like <- MCLike
  MaxId = 2
  MaxRequests = 4
  MaxFaults = 1
  NoFile = NoFile
  Broken = Broken
  NoRow = NoRow
  NoReq = NoReq
CHECK_DEADLOCK FALSE
INVARIANTS
  TypeOK
  SchemaHolds
  RowHasImage
  ViewsCounted
  CreatedMeansStored
  EditedMeansStored
PROPERTIES
  CreatorOnlyAdds
  KeepsCatalogue
  EveryRequestEnds
