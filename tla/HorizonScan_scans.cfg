SPECIFICATION Spec
CONSTANTS
  Ledgers <- TheLedgers
  ClosedAt <- TheClosings
  Asset <- TheAsset
  Book <- TheBook
  Bands = {50, 500, 2500}
  Artifacts <- TheArtifacts
  Manifests <- TheManifests
  Options <- TheOptions
  Endpoints = {e1, e2}
  PageSize = 1
  MaxPages = 5
  MaxRecords = 3
  MaxRestarts = 1
  MaximumAge = 5
  Times <- TheTimes
INVARIANTS SnapshotExact CheckpointResumable BucketsExecutable
PROPERTY ScanEnds
