\* Two devices, and enough key events for two combinations across them.
SPECIFICATION FairSpec
CONSTANTS
  keyboard = keyboard
  mouse = mouse
  Device <- MCDevice
  MaxEvents = 4
INVARIANTS
  TypeOK
  HoldTogglesOnce
PROPERTIES
  HeldCombinationIsSeen
  DestructionEnds
