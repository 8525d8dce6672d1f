CONSTANTS
  Byte = {0, 1}
  PACKET_SIZE = 2
  maxsize = 9
SPECIFICATION Spec
INVARIANT TypeOK
PROPERTY ImplementsStream
