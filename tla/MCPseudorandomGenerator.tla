---------------------- MODULE MCPseudorandomGenerator ----------------------
(***************************************************************************)
(* Small instances of PseudorandomGenerator with bytes of two bits and     *)
(* words of five: moduli up to 4 need one byte per value, 5 to 16 two and  *)
(* the larger ones three; 17 to 31 have the bit length of the word.        *)
(***************************************************************************)
EXTENDS PseudorandomGenerator

CallOf(op, size, modulus) == [op |-> op, size |-> size, modulus |-> modulus]
Bytes(size)            == CallOf("bytes", size, 0)
Numbers(size, modulus) == CallOf("range", size, modulus)
NonZero(size, modulus) == CallOf("nonzero", size, modulus)

\* Periods of four bytes.  3 is what a call for the modulus 3 rejects, 0 what a
\* call for non-zero numbers rejects; a batch may begin with a rejected byte.
FourBytes == {s \in [1 .. 4 -> {0, 1, 3}] : s[1] = 3 /\ s[4] = 1}

OneByteScript ==
    {<<Bytes(2), Numbers(3, 3), Bytes(0)>>,
     \* more bytes than an int and an unsigned int can count
     <<Numbers(1, 3), Bytes(16), Bytes(34), Bytes(1)>>,
     <<Numbers(2, 3), Numbers(0, 4), Numbers(2, 2)>>,
     <<NonZero(2, 3), Bytes(1)>>, <<NonZero(3, 2)>>, <<NonZero(1, 4), Numbers(1, 3)>>,
     <<Bytes(-1), Numbers(-1, 3), Numbers(2, 1), Numbers(2, 0)>>,
     <<NonZero(-1, 3), NonZero(2, 1), NonZero(0, 3)>>}

\* Two bytes per value; powers of two reject nothing.
TwoByteScript == {<<Numbers(2, 8), Bytes(1)>>, <<Numbers(2, 16)>>, <<NonZero(2, 8)>>}

\* The loop passes the bytes it drew when the only value of a batch is rejected.
BeyondScript == {<<Numbers(1, 9)>>}

MCScript == OneByteScript \cup TwoByteScript \cup BeyondScript
LargeModulusScript == {<<Numbers(1, 31)>>}
=============================================================================
