SPECIFICATION WorkflowsSpec
CONSTANTS
  Versions = {1, 2}
  Prereleases <- OneOrNone
  MaxBuilds <- MCBuilds
  MaxDeaths = 1
  Reports <- SmallReports
  Baselines <- SmallBaselines
  Debian <- DebianPackages
  MaxDay = 3
INVARIANTS
  PublishedIsSigned
  LatestSettles
  NothingHidden
PROPERTIES
  LatestNeverBack
