SPECIFICATION PipelineSpec
CONSTANTS
  Requests = {r1}
  PoolMax = 1
  MaxFaults = 0
  MaxBody = 1
  Names <- MCNames
  Lower <- MCLower
  Sensitive = {"password"}
  Index <- MCIndex
  Words = {"plain", "secret", "id", "long", "rounded"}
  Reprint <- MCReprint
  Letters <- MCLetters
  Depth = 3
  Contents = {"nothing", "malformed"}
  NoContent = "nothing"
  Carried <- MCCarried
CHECK_DEADLOCK FALSE
INVARIANT SensitiveNeverShown
