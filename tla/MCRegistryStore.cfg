SPECIFICATION MCSpec
CONSTANTS
  Proc = {p1, p2}
  Version = {1, 2}
  Content = {c1, c2}
  MaxCuts = 2
SYMMETRY Interchangeable
INVARIANTS TypeOK PublishedIsFinal SettledIsPublished IndexTruthful AnnouncedUnlessRaced
