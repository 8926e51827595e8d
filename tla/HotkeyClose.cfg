\* What the destructor's comment says of the worker.
SPECIFICATION Spec
CONSTANTS
  keyboard = keyboard
  mouse = mouse
  Device <- MCDevice
  MaxEvents = 2
INVARIANT WorkerStoppedBeforeClose
