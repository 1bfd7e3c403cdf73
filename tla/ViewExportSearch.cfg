SPECIFICATION Spec
CONSTANTS
  artifacts = artifacts
  summary = summary
  View = {artifacts, summary}
  Columns <- TwoColumns
  HasText <- TwoTexts
  Page = {0, 1, 2}
  PageSize = 2
INVARIANT SearchApplied
CHECK_DEADLOCK FALSE
