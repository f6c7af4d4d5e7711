--------------------------- MODULE MCTelegramSend ---------------------------
EXTENDS TelegramSend

CONSTANTS s1, s2, s3, a, b

MCChatOf == [s \in Sends |-> IF s = s3 THEN b ELSE a]
=============================================================================
