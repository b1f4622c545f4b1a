\* An item's heads painted and clicked, with 4 events, in their own
\* behaviours.
\* Files dragged over five rows with 5 drag events and mode changes.
\* A history item of either kind and the attach popup with 4 head calls
\* and 4 popup events, at most 5 in all; the recents list with 5 events.
CONSTANTS
    HeadCalls = 4
    PopupEvents = 4
    DialogEvents = 5
    RecentsEvents = 5
    DragEvents = 5
SPECIFICATION Spec
\* The window is idle once the callers and the user stop.
CHECK_DEADLOCK FALSE
INVARIANT PeerHeadIffRead
INVARIANT HeadsUnique
INVARIANT EveryHeadReachable
INVARIANT KeyNavWraps
INVARIANT HiddenIsReset
INVARIANT NavMatchesReference
INVARIANT SelectedIsContact
PROPERTY PointerAwayHides
INVARIANT AutoscrollOnlyWhileDragging
PROPERTY DropOnlyToHighlighted
