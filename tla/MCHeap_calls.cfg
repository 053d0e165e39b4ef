\* Frames of 8 bytes, headers of 2: one or two blocks fit in a frame, larger
\* ones take several.
SPECIFICATION Spec
CONSTANTS
  FRAME_SIZE = 8
  MANAGED_FRAMES = 5
  E820 <- Map
  KERNEL_END = 5
  HEADER = 2
  ALIGNMENT = 2
  MIN_SPLIT_REMAINDER = 2
  MAX_GROW_ATTEMPTS = 2
  Sizes = {0, 1, 4, 5, 9, 23}
  RETURN_ANY = FALSE
INVARIANTS
  TypeOK
  BlocksTileFrames
  Coalesced
  LiveAccepted
  FramesOwnedOnce
PROPERTIES
  Implements
