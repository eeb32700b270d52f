SPECIFICATION MCSpec
CONSTANTS
  EventCells = 11
  MaxNameCells = 2
  MaxBufferCells = 2
  Scalars <- MCScalars
  Modules <- MCModules
  Apis <- MCApis
  ScalarOffers <- MCScalarOffers
  BooleanOffers <- MCBooleanOffers
  BufferOffers <- MCBufferOffers
  MaxOffers = 3
  MaxEvents = 2
INVARIANTS EveryEventAccepted RenderedAsOffered FlagsTellMissing
