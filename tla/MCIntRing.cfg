\* The two rings together: two IDE controllers; a keyboard and a serial port.
CONSTANTS
  controlled = controlled
  uncontrolled = uncontrolled
  Rings = {controlled, uncontrolled}
  Controlled = controlled
  Size <- Sizes
  Frames <- KernelFrames
  NoFrame = none
SPECIFICATION FairSpec
INVARIANTS TypeOK
PROPERTIES DeliversInOrder ControlledTaken FramesDispatched
