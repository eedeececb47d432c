SPECIFICATION Spec
CONSTANTS
  W = 2
  Bit = {0, 1}
  Zero = 0
  MaxLen = 3
  MaxArg = 2
PROPERTIES
  ResizeFills
