CONSTANTS
  MaxConfigAttributes = 3
  NoPath = NoPath
  PoolAsks <- MCPoolAsks
  BackoffAsks <- MCBackoffAsks
  SkipModeAsks <- MCSkipModeAsks
  TileAsks <- MCTileAsks
  TileGroupAsks <- MCTileGroupAsks
  HeaderAsks <- MCHeaderAsks
  CompressedAsks <- MCCompressedAsks
  RangeAsks <- MCRangeAsks
  SourceSize = 1000
  UnitAsks <- MCUnitAsks
  MachineAsks <- MCMachineAsks
  ConfigAsks <- MCConfigAsks
SPECIFICATION Spec
INVARIANTS PoolFits BackoffUsesMemory SkipModeIsNearest TilesAreTheEncoders HeadersAreRead RangeDecoderIsSpec FirstSliceIsFound RightDevices ConfigsAreHonoured
