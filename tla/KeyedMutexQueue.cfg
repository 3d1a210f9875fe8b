SPECIFICATION FairSpec
CONSTANTS
    MaxCall = 4
    Keys = {"caller", "owner"}
CHECK_DEADLOCK FALSE
PROPERTIES
    ServesInOrder
    EveryCallIsServed
    MapIsEmptied
