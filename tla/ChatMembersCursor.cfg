\* get_chat_members request with a follow-up cursor.
CONSTANTS
    Kinds <- MCChatMembers
    Ids <- MCIds
    Roles <- MCRoles
    PageSizes <- MCPageSizes
    Cursors <- MCCursors
SPECIFICATION Spec
\* A packet's lifecycle ends once parse_response has returned.
CHECK_DEADLOCK FALSE
INVARIANT CursorSupersedesFilter
