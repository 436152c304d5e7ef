---------------------------- MODULE MCSignupPool ----------------------------
(* Instances of sign-up: a1 and a2 share a client address, a2 and a3 ask for *)
(* the same e-mail address.                                                 *)
EXTENDS SignupPool

CONSTANTS a1, a2, a3, a4, o1, i1, i2, i3, e1, e2, e3

Ips == [a \in Attempt |-> CASE a \in {a1, a2} -> i1 [] a = a3 -> i2 [] OTHER -> i3]
Emails == [a \in Attempt |-> CASE a = a1 -> e1 [] a \in {a2, a3} -> e2 [] OTHER -> e3]
=============================================================================
