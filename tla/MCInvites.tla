----------------------------- MODULE MCInvites ------------------------------
(* Small clubs for TLC: an owner and one other person, one or two chats.   *)
EXTENDS Invites, TLC

GroupOnly == <<"group">>
=============================================================================
