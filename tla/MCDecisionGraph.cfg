SPECIFICATION Spec
CONSTANTS
  DecisionId = {d1, d2}
  Chosen = {v1}
  None = None
  Prepared = {"Unexplored", "Derived"}
  MaxHistory = 3
SYMMETRY Interchangeable
INVARIANTS TypeOK HistoryExplainsState BindingUntilConflict ReportAnnouncesRevisits
