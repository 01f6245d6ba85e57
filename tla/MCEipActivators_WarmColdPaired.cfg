CONSTANTS
  Base = "london"
  Lists <- MCLists
  Numerals <- MCNumerals

SPECIFICATION BuilderSpec

\* A build ends, built or failed.
CHECK_DEADLOCK FALSE

INVARIANT WarmColdPaired
