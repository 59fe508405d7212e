SPECIFICATION FairSpec
CONSTANTS
  Thread = {t1, t2}
  Loop = loop
  None = None
INVARIANTS OneInControl FreedIsLeft
PROPERTIES ImplementsSwitch ControlArrives ControlReturns MakerGoesOn
