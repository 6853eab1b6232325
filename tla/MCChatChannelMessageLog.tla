----------------------- MODULE MCChatChannelMessageLog -----------------------
(* Up to four rows at startup, of which two are loaded, and two more ids.  *)
EXTENDS ChatChannelMessageLog

MCStoredIds == 1 .. 4
MCBefores == {1, 2, 3, 5, MaxMessageId}
=============================================================================
