SPECIFICATION Spec
CONSTANTS
  Device <- TwoDevices
  Key <- OneKey
  NoRow = NoRow
  Val = {1, 2}
  Rev = {1, 2}
  Ts = {0, 1}
  x = x
  y = y
  Null = Null
  Absent = Absent
  Value <- Values
  Name <- Names
  Command = {"c"}
  Folder = {"f"}
  MaxCount = 3
INVARIANTS
  MergesPrevail
  MergesSymmetric
  NothingAddedIsLost
  FieldChangesSurvive
  CountNeverFalls
