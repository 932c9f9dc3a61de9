---------------------------- MODULE MCMembership ----------------------------
(* Small clubs for TLC: one or two members, the group alone or with the    *)
(* channel.                                                                 *)
EXTENDS Membership, TLC

GroupOnly == <<"group">>
GroupAndChannel == <<"group", "channel">>
=============================================================================
