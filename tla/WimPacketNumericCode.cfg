\* A status.code that is not an unsigned number.
CONSTANTS
    Kinds <- MCBothKinds
    Ids <- MCIds
    Roles <- MCRoles
    PageSizes <- MCPageSizes
    Cursors <- MCCursors
SPECIFICATION Spec
\* A packet's lifecycle ends once parse_response has returned.
CHECK_DEADLOCK FALSE
INVARIANT CodeMustBeNumeric
