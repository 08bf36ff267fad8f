SPECIFICATION Spec
CONSTANTS
  Desks = {d1, d2}
  Authors = {d1}
  MaxCalls = 4
  MaxEdits = 1
  Texts = {t1, t2}
  Tags <- Overlapping
  Like <- Contained
  Slugs = {s1}
  Buttons <- PublishAndDelete
  Picks <- Published
  Users = {admin}
  Creators = {admin}
  Editors = {admin}
  Empty = Empty
  Placeholders <- TheLonger
  MaxId = 2
  InitialTags <- Overlapping
  InitialSlug = s1
  InitialText = t1
  Out = Out
  NoRow = NoRow
  NoForm = NoForm
  Waiting = Waiting
  MaxFaults = 1
  Pressers = {d2}
INVARIANTS
  TypeOK
  FormShowsItsArticle
  SuccessUnlessGone
PROPERTIES
  UntouchedFieldsKept
  DeletedStaysDeleted
