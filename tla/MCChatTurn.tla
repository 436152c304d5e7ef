---------------------------- MODULE MCChatTurn ----------------------------
(* Instances of the chat turn: x and y are chunks of one video, y the        *)
(* earlier, z of another; "[c:" and "x]" are two halves of a marker, or words,  *)
(* and "r" is a refusal.                                                     *)
EXTENDS ChatTurn

CONSTANTS t1, t2, u1, u2, c1, v1, v2

Letters == {"c", "x", "y", "z"}
Videos == [k \in ChunkId |-> IF k = "z" THEN v2 ELSE v1]
Starts == [k \in ChunkId |-> IF k = "y" THEN 0 ELSE 1]
Answers == {<<>>, <<"z">>, <<"z", "x", "y">>}
Posters == [t \in Turn |-> IF t = t1 THEN {u1} ELSE {u1, u2}]
Tokens == [t \in Turn |-> IF t = t1 THEN 2 ELSE 1]
Calls == [t \in Turn |-> IF t = t1 THEN 2 ELSE 0]
Pieces == {<<"[", "c", ":">>, <<"x", "]">>, <<"r">>}
============================================================================
