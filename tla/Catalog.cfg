CONSTANTS
  TNames = {"t1", "t2"}
  FNames <- LuaFunctions
  NCols  = 2
  InitHW = 1
  TBound = 2
  Uses <- AllUses
SPECIFICATION Spec
INVARIANT SlotsSound
INVARIANT LinksExact
PROPERTY RestartKeeps
