\* Two deployments, manifests that load, fall back or fail, every write
\* and thread start able to fail, a cancel at any point of either.
CONSTANTS
  NumWf = 2
  ManifestVersions = {3, 4, 6}
  WriteFaults = TRUE
  StartFaults = TRUE
SPECIFICATION Spec
\* The agent waits for the next deployment after the last one.
CHECK_DEADLOCK FALSE
INVARIANTS TypeOK CancelledNeverSucceeds NoCancelSuccessLeak PlatformIInv
