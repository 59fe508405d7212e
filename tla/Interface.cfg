SPECIFICATION Spec
CONSTANTS
  Thread = {t1, t2}
  Port = {c, d}
  Clock = {c}
  Task = task
  None = None
  Value = {"0", "1"}
  Cycles = {0, 2}
  Delay = {0, 1, 2}
  Period = {1}
  Driven = {c}
  Uses = {{"ports", "task"}, {"ports", "delay"}, {"ports", "clock"}, {"task", "delay"}, {"delay", "clock"}}
SYMMETRY Symmetry
INVARIANTS NobodyLost ClockEdgesCounted MonitoredIfNeeded ListsAgree OneCallActive DelaysInOrder OneDriver
PROPERTY DelaysSpec
