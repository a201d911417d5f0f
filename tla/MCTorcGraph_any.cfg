SPECIFICATION Spec
CONSTANTS
  n1 = n1  n2 = n2  n3 = n3
  e1 = e1  e2 = e2  e3 = e3
  r1 = r1  r2 = r2  r3 = r3
  NodeId = {n1, n2}
  EdgeId = {e1, e2}
  RegionId = {r1, r2}
  None = None
  Others <- RegionLibrary
  MaxWires = 1
  MaxCopies = 2
INVARIANTS TypeOK IndexesExact
