\* Every released schema version, crashes at every step, bookings and restores.
CONSTANTS
  Releases <- MCReleases
  TxIds <- MCTxIds
  MaxBackups = 2
SPECIFICATION MigrationSpec
INVARIANTS
  NoHalfUpgrade
  RunsOnToday
  RefusedOnlyByClash
PROPERTY UpgradesAtOnce
