SPECIFICATION Spec
CONSTANTS
  Letters = {"a", "b", "o", "t"}
  Capitals = {"B"}
  Lower <- MCLower
  Digits = {"0"}
  Others = {" ", "-"}
  Alphabet = {"b", "t"}
  MinLength = 1
  DefaultLength = 2
  UsernameMinLen = 5
  UsernameMaxLen = 10
  NameMaxLen = 2
  Envs <- MCEnvs
  Raws <- MCRaws
  Alva <- MCAlva
  AlvaManager <- MCAlvaManager
  EditChars = {"t", "b"}
  MaxLinks = 2
  MaxBots = 2
INVARIANTS
  TypeOK
  NoOrphanEntry
  LinkLeadsBack
  OneBotPerNonce
  RightName
  SanitizeIsTotal
  SanitizeKeepsValid
CHECK_DEADLOCK FALSE
