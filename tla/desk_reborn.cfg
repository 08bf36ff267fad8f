SPECIFICATION Spec
CONSTANTS
  Desks = {d1, d2}
  Authors = {d1, d2}
  MaxCalls = 6
  MaxEdits = 2
  Texts = {t1, t2}
  Tags = {"anime", "news"}
  Like <- SameOnly
  Slugs = {s1}
  Buttons <- Deletion
  Picks <- Published
  Users = {admin}
  Creators = {admin}
  Editors = {admin}
  Empty = Empty
  Placeholders = {}
  MaxId = 2
  InitialTags = {}
  InitialSlug = s1
  InitialText = t1
  Out = Out
  NoRow = NoRow
  NoForm = NoForm
  Waiting = Waiting
  MaxFaults = 0
  Pressers = {d1, d2}
SYMMETRY DeskSymmetry
PROPERTIES
  FormSavesItsArticle
