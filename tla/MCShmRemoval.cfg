CONSTANTS
  p1 = p1
  p2 = p2
  p3 = p3
  Proc = {p1, p2, p3}
  MaxSegments = 2
  Gens = {1, 2, 3, 4}
  Files = {1, 2, 3, 4}
  MaxRemovals = 2
  Nil = Nil
SPECIFICATION Spec
SYMMETRY Symmetry
INVARIANTS FilesApart SameFiles RemovedMeansGone
