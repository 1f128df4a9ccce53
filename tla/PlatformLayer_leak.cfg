\* A second lookup of the same handler type.
CONSTANTS
  NumWf = 2
  ManifestVersions = {3, 4, 6}
  WriteFaults = TRUE
  StartFaults = TRUE
SPECIFICATION Spec
\* The agent waits for the next deployment after the last one.
CHECK_DEADLOCK FALSE
INVARIANT NoHandlerLeak
