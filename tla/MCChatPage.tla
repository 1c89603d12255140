------------------------------ MODULE MCChatPage ------------------------------
(* A private session with alice: her private rows, and her rows in a group,  *)
(* match it; another sender's row does not.                                  *)
EXTENDS ChatPage
MCRow == [id \in 1..MaxId |-> [room |-> IF id = 2 THEN "group" ELSE "",
                               sender |-> IF id = 4 THEN "bob" ELSE "alice"]]
MCSessions == {[room |-> "", display |-> "alice"]}
=============================================================================
