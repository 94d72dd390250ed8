\* A durable and a volatile reader, three versions of the URDF.
SPECIFICATION FairSpec
CONSTANTS
  Reader = {tl, vol}
  Durable = {tl}
  MAX_VERSION = 2
PROPERTIES
  LateReadersServed
