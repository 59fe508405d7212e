SPECIFICATION FairSpec
CONSTANTS
  WordBits = 3
  Widths = {1, 2, 3}
  primpoli <- FirstPolynomials
  Spans <- MCSpans
  MaxRanges = 2
  Limits = {0, 1}
  Conditions <- MCConditions
PROPERTIES EachOnce CallAnswered
CHECK_DEADLOCK FALSE
