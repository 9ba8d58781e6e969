SPECIFICATION Spec
CONSTANTS
  Profile = {p1, p2}
  Url = {u1, u2}
  Key = {k}
  MaxRelease = 2
  MaxFails = 1
  NoKey = NoKey
  NoFile = NoFile
  Free = Free
  Unset = Unset
INVARIANTS
  ProfilesKept
  LaunchedAsShown
  KeysStayHome
SYMMETRY Names
