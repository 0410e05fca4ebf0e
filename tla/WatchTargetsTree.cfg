SPECIFICATION TargetsSpec
CONSTANTS
    Name = {"a", "b"}
    Path <- MCPath
    MaxRepos = 1
INVARIANTS TargetsTypeOK OneTargetPerPath
PROPERTIES GrantsKeepCoverage
