--------------------------- MODULE MCShareShuffle ---------------------------
(***************************************************************************)
(* Small instances of ShareShuffle.  Bytes have two bits and words five;   *)
(* the frequencies include one that is not below the modulus.  The vectors *)
(* that are no shares have up to three elements.  Of the numbers of a seed *)
(* the first is taken modulo 3 and the second modulo 2 for three elements, *)
(* so the seeds s1 to s6 are the six choices of swaps; s7 to s9 have       *)
(* larger numbers.                                                         *)
(***************************************************************************)
EXTENDS ShareShuffle

CONSTANT Modulus   \* the ring moduli

ThreeBytes == [1 .. 3 -> {0, 1, 3}]
\* Periods of which modulus 3 rejects at most one byte.
MCStream == {s \in ThreeBytes : \A j, k \in 1 .. 3 : s[j] = 3 /\ s[k] = 3 => j = k}

MCRequest ==
    {[data |-> << >>, ring_modulus |-> 3], [data |-> <<0, 0, 1>>, ring_modulus |-> 3]}
    \cup [data : [1 .. 1 -> 0 .. 3], ring_modulus : Modulus]
    \cup [data : [1 .. 2 -> 0 .. 3], ring_modulus : {3}]

MCVector == {ZeroBased(s) : s \in {<< >>, <<7>>, <<7, 8, 9>>, <<7, 7, 8>>}}
MCInput == MCVector \cup {ZeroBased(s) : s \in UNION {[1 .. k -> 0 .. 3] : k \in 1 .. 3}}
Words == 0 .. 9

MCRand ==
    [s1 |-> ZeroBased(<<0, 0, 5>>), s2 |-> ZeroBased(<<0, 1, 0>>),
     s3 |-> ZeroBased(<<1, 0, 0>>), s4 |-> ZeroBased(<<1, 1, 2>>),
     s5 |-> ZeroBased(<<2, 0, 1>>), s6 |-> ZeroBased(<<2, 1, 0>>),
     s7 |-> ZeroBased(<<3, 2, 0>>), s8 |-> ZeroBased(<<4, 3, 3>>),
     s9 |-> ZeroBased(<<5, 2, 2>>)]
MCValidSeed == DOMAIN MCRand
MCSeed == MCValidSeed \cup {"short key"}
=============================================================================
