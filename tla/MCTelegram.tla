------------------------------ MODULE MCTelegram ------------------------------
(* The outbox and the bot service on small sets of tokens, chats, matches.   *)
EXTENDS TelegramOutbox

CONSTANTS t1, t2, c1, c2, m1, m2

=============================================================================
