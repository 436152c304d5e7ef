---------------------------- MODULE MCMessageCap ----------------------------
(* Instances of the message cap: the sends of one user.                      *)
EXTENDS MessageCap

CONSTANTS r1, r2, r3, r4, u1

OwnerOne == [r \in Request |-> u1]
=============================================================================
