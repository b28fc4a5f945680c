SPECIFICATION Spec
CONSTANTS
  a = a
  b = b
  Names <- MCNames
  GroupNames = {"wheel"}
  Words <- MCWords
  Uids = {2}
  Mods <- MCMods
  MAX_USERS = 2
  MAX_GROUPS = 1
  MAX_GMEM = 3
  FIRST_UID = 2
  MaxUid = 2
  MaxCalls = 2
  None = None
SYMMETRY Alike
INVARIANTS
  
  ReloadsSame
  
