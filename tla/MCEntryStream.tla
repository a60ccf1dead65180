---------------------------- MODULE MCEntryStream ----------------------------
(***************************************************************************)
(* Instances of EntryStream for TLC: every request asks for the moments 1  *)
(* to 2, and the entries lie on both ends of that range and beyond it.     *)
(***************************************************************************)
EXTENDS EntryStream

CONSTANTS e1, e2, w1, w2, p1, p2, s1, t1

MCTimeOf == [e \in Entry |-> CASE e = e1 -> 1 [] e = w2 -> 3 [] OTHER -> 2]
MCFrom == [q \in Request |-> 1]
MCTo == [q \in Request |-> 2]
=============================================================================
