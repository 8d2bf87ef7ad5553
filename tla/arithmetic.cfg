SPECIFICATION Spec
INVARIANTS
  RowsShared
  TilesDealt
  SharedPlacesFilled
  HeadsComplete
  SendersAreRead
  PortsServeReaders
  KernelsInPlace
  CopiesExact
