CONSTANTS
  v1 = v1
  v2 = v2
  a1 = a1
  d1 = d1
  d2 = d2
  Names <- MCNames
  Accounts = {a1}
  Global = Global
  Mountables = {d1, d2}
  ApiRows <- MCApiRows
  Files <- MCFiles
  Handlers = {h1, h2}
  None = None
SPECIFICATION Spec
INVARIANTS
  TypeOK
  StaleOnlyIfDisturbed
  FileVolumesPresent
  ValidatedIsMounted
PROPERTIES
  RestartKeepsRows
