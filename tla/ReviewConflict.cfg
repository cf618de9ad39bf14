SPECIFICATION CalmSpec
CONSTANTS
  Saves = {s1, s2, s3}
  Formats = {"pdf", "json"}
INVARIANTS ConflictIsReal
CHECK_DEADLOCK FALSE
