SPECIFICATION CallSpec
CONSTANTS
  Thread = {t1, t2}
  Loop = loop
  None = None
INVARIANT OneInControl
