SPECIFICATION CalmSpec
CONSTANTS
  Saves = {s1, s2, s3}
  Formats = {"pdf", "json"}
INVARIANTS TypeOK OnTopOfSeen ReportsAreWhole DocumentsMatchReport
PROPERTIES ImplementsReviewLog SaveIsAnswered
CHECK_DEADLOCK FALSE
