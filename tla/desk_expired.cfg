SPECIFICATION Spec
CONSTANTS
  Desks = {d1}
  Authors = {d1}
  MaxCalls = 4
  MaxEdits = 1
  Texts = {t1, t2}
  Tags = {"anime", "news"}
  Like <- SameOnly
  Slugs = {s1}
  Buttons <- Deletion
  Picks <- Published
  Users = {admin}
  Creators = {admin}
  Editors = {admin}
  Empty = Empty
  Placeholders = {"anime"}
  MaxId = 2
  InitialTags = {"news"}
  InitialSlug = s1
  InitialText = t1
  Out = Out
  NoRow = NoRow
  NoForm = NoForm
  Waiting = Waiting
  MaxFaults = 1
  Pressers = {d1}
INVARIANTS
  SuccessMeansDone
