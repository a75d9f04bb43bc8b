SPECIFICATION PipelineSpec
CONSTANTS
  Requests = {r1, r2}
  PoolMax = 2
  MaxFaults = 1
  MaxBody = 1
  Names <- MCNames
  Lower <- MCLower
  Sensitive = {"password"}
  Index <- MCIndex
  Words = {"plain", "secret", "id", "long", "rounded"}
  Reprint <- MCReprint
  Letters <- MCLetters
  Depth = 3
  Contents = {"nothing", "malformed", "text", "binary", "word", "login", "list", "nested",
              "labObject", "labArray", "labString", "labNumber", "proto", "twice"}
  NoContent = "nothing"
  Carried <- MCCarried
CHECK_DEADLOCK FALSE
INVARIANTS OneNamedAnswer RowsTellOutcome BodiesRedacted AnswersCarryId
PROPERTY EveryRequestAnswered
