\* A queue of two places, ticks of two bits, waits of two ticks.
SPECIFICATION Spec
CONSTANTS
  uxLength = 2
  Message = {m1, m2}
  Sender = {"network_task", "ethwork_task"}
  Receiver = {"tcpip_thread", "ethwork_task"}
  Priority <- Priorities
  Ticks = 4
  Timeouts = {2}
  MaxLate = 2
INVARIANTS TypeOK NoLostWakeup WokenInTime
PROPERTIES FailsInTime FifoRefined
