\* Any frame may come back, also one right below the heap.
SPECIFICATION Spec
CONSTANTS
  FRAME_SIZE = 8
  MANAGED_FRAMES = 5
  E820 <- Map
  KERNEL_END = 5
  HEADER = 2
  ALIGNMENT = 2
  MIN_SPLIT_REMAINDER = 2
  MAX_GROW_ATTEMPTS = 2
  Sizes = {4, 5}
  RETURN_ANY = TRUE
PROPERTIES
  Implements
