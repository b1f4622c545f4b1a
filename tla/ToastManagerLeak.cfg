\* A download toast with the bottom one's path is never shown nor deleted.
CONSTANTS
    Toasts <- MCToasts
    Paths <- MCPaths
    NoToast = NoToast
    MaxEvents = 1
SPECIFICATION Spec
CHECK_DEADLOCK FALSE
PROPERTY CreatedDeleted
