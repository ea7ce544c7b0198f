SPECIFICATION Spec
CONSTANTS
  Pointers = {"mouse", "finger"}
  Hovering = {"mouse"}
  Tools = {"pen", "line", "text"}
  MaxShapes = 2
  MaxPatches = 1
INVARIANTS
  TypeOK
  WellShapedUnlessSwitched
  ActiveIsHeld
  PatchesFollowAdds
PROPERTIES
  FinishedStays
