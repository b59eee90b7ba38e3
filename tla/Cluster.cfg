CONSTANTS
  Node = {"a", "b", "c"}
  NSlots = 4
  Key = {"k"}
  SlotOf <- MCSlotOf
  NodeTimeout = 2
  MaxNow = 4
  MaxHs = 1
  Mixes <- MCMixes
SPECIFICATION Spec
CHECK_DEADLOCK FALSE
INVARIANTS ClusterSound RouteExact
PROPERTY Met
