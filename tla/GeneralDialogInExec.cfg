\* Two dialogs: a caller may show the second while the first one's exec
\* runs.  Four builder calls and user events.
CONSTANTS
    Dialogs <- MCDialogs
    MaxEvents = 4
SPECIFICATION Spec
CHECK_DEADLOCK FALSE
INVARIANT InExecIsActive
