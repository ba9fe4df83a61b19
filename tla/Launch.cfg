SPECIFICATION FairSpec
CONSTANTS
    cli1 = cli1
    cli2 = cli2
    cli3 = cli3
    NoOne = NoOne
    Clients <- Three
    Version <- MixedVersions
    Proto <- OneProto
    Daemons = {1, 2, 3}
    Modes <- MixedModes
    MaxMishaps = 1
INVARIANTS
    LaunchInv
    ServingIsReachable
PROPERTIES
    OneService
    SearchEnds
