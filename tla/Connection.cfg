SPECIFICATION Spec
CONSTANTS
  MaxBulkLen = 2
  MaxMultibulkLen = 2
  MaxHeaderLine = 4
  BufferSize = 6
  MaxInt = 31
  Streams <- MCStreams
  IdleTimeout = 1
INVARIANTS
  NothingStranded
  FrontsAgree
  
PROPERTIES
  ImplementsSession
