---------------------------- MODULE MC_WimPacket ----------------------------
(* One packet of each kind, with a first-page and a follow-up cursor.     *)
EXTENDS WimPacket

MCBothKinds == {"get_chat_members", "get_thread_subscribers"}
MCChatMembers == {"get_chat_members"}
MCThreadSubscribers == {"get_thread_subscribers"}
MCIds == {"chat1"}
MCRoles == {"member"}
MCPageSizes == {20}
MCCursors == {EmptyCursor, "c1"}
=============================================================================
