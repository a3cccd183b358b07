SPECIFICATION OrganizeSpec
CONSTANTS
  f = f
  g = g
  a = a
  b = b
  Mods = {a, b}
  FolderIds = {f, g}
  Tags = {t1, t2}
  Names = {"skins", "maps"}
  Stems = {"one", "two"}
  TagNames = {"combat"}
  Root = Root
  Absent = Absent
  Away = Away
  Lost = Lost
  Unlisted = Unlisted
  None = None
  InitHome <- MCHome
  InitAt <- MCAt
  MaxCalls = 2
  MaxTagCalls = 3
  MaxForeign = 0
  MaxFailures = 0
CHECK_DEADLOCK FALSE
INVARIANT TagsSurvive
