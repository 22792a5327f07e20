-------------------------- MODULE MCSecureShuffle --------------------------
(***************************************************************************)
(* SecureShuffle with vectors at the limit of the generator: four numbers  *)
(* have as many bytes as an unsigned int can count, three are more than    *)
(* an int can.                                                             *)
(***************************************************************************)
EXTENDS SecureShuffle, Sequences

Vector(s) == [i \in 0 .. Len(s) - 1 |-> s[i + 1]]

MCElement == {"a", "b", "c", "d"}
MCInput == {Vector(s) : s \in {<<"a">>, <<"a", "b", "c">>, <<"a", "b", "c", "d">>}}

MCRand == [s1 |-> Vector(<<0, 1, 0, 6>>), s2 |-> Vector(<<3, 2, 1, 5>>)]
MCSeed == DOMAIN MCRand
=============================================================================
