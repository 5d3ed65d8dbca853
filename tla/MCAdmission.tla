---------------------------- MODULE MCAdmission ----------------------------
(***************************************************************************)
(* Instances of Admission for TLC: five connections, three of them from    *)
(* one address and two from another; two pairs want the same user name.    *)
(***************************************************************************)
EXTENDS Admission

CONSTANTS c1, c2, c3, c4, c5, home, office, alice, bob, carol

AddrOfConn == [c \in Conns |-> IF c \in {c4, c5} THEN office ELSE home]
NameOfConn == [c \in Conns |-> CASE c = c1 -> alice [] c = c2 -> alice
                                 [] c = c3 -> bob [] OTHER -> carol]
=============================================================================
