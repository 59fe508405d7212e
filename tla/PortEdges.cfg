SPECIFICATION Spec
CONSTANTS
  Thread = {t1}
  Port = {c, d}
  Clock = {c}
  Task = task
  None = None
  Value = {"0", "1", "x"}
  Cycles = {1}
  Delay = {}
  Period = {}
  Driven = {}
  Uses = {{"ports"}}
INVARIANT PortEdgeSeen
