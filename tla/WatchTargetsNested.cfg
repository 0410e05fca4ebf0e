SPECIFICATION TargetsSpec
CONSTANTS
    Name = {"a", "b"}
    Path <- MCPath
    MaxRepos = 2
PROPERTIES BootResetsEveryRepo
