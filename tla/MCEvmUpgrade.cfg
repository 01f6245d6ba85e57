CONSTANTS
  Base = "london"
  Lists <- MCLists
  Numerals <- MCNumerals

SPECIFICATION Spec

\* The upgrade and the build end; nothing runs after them.
CHECK_DEADLOCK FALSE

INVARIANTS
  TypeOK
  MigrationAppendsOnce
  UpgradeEnablesMCopy
