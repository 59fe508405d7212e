SPECIFICATION Spec
CONSTANTS
  Thread = {t1, t2, t3}
  None = None
  Limits <- MCLimits
INVARIANT LinksAgree
PROPERTIES KeepsAlarms NoneForgotten
