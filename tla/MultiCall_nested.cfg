\* Nested groups: effects, blame and reduction.
CONSTANTS
  Programs <- MCNested
  Width = 2
  Depth = 3
SPECIFICATION Spec
INVARIANTS TypeOK ExecutesMeaning BlamesTheCulprit ReduceKeepsMeaning
CHECK_DEADLOCK FALSE
