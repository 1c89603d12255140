------------------------------- MODULE MCChat -------------------------------
(* One person in private and in a room: two conversations, two sessions,   *)
(* one sender.                                                             *)
EXTENDS Chat

CONSTANTS ann, room, noroom

MCConv == {[kind |-> "private", room |-> noroom, uid |-> ann],
           [kind |-> "group",   room |-> room,   uid |-> ann]}
=============================================================================
