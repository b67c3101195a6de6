CONSTANTS
  Harness = harness
  Apps = {harness, a, b}
  Deps = {d}
  MaxLibs = 2
  MaxEntries = 3
  MaxDeps = 2
  MaxRuns = 2
SPECIFICATION PlatformSpec
INVARIANTS CrashRecovered DiesOnlyOfStaleList LibrariesExact
CHECK_DEADLOCK FALSE
