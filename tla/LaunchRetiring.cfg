SPECIFICATION FairSpec
CONSTANTS
    cli1 = cli1
    cli2 = cli2
    cli3 = cli3
    NoOne = NoOne
    Clients <- Three
    Version <- OneVersion
    Proto <- OneProto
    Daemons = {1, 2}
    Modes <- StopModes
    MaxMishaps = 0
PROPERTIES
    RestartsOnNextEvent
