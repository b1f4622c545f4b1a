\* get_chat_members on a 20002 answer.
CONSTANTS
    Kinds <- MCChatMembers
    Ids <- MCIds
    Roles <- MCRoles
    PageSizes <- MCPageSizes
    Cursors <- MCCursors
SPECIFICATION Spec
\* A packet's lifecycle ends once parse_response has returned.
CHECK_DEADLOCK FALSE
INVARIANT ResetPageIsOk
