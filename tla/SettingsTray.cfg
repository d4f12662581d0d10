SPECIFICATION Spec
CONSTANTS
  Fields <- MCFields
  Values = {v0, v1}
  Default = v0
  Accounts = {a1, a2}
  NoAccount = NoAccount
  Pages = {p1}
  Trays = {t1}
  NoWriter = NoWriter
  MaxRevisions = 3
  MaxLaunches = 1
SYMMETRY Symmetry
PROPERTY TraySavesChangeOnlyTheirEdit
CHECK_DEADLOCK FALSE
