\* MaskManager against a core that answers every request in any order.
CONSTANTS
    Ids <- MCIds
    Lists <- MCLists
    InitiallyOnDisk <- MCOnDisk
    MaxEvents = 3
SPECIFICATION Spec

PROPERTIES JsonPathsLoaded
\* The environment's events are bounded: the manager idles afterwards.
CHECK_DEADLOCK FALSE
