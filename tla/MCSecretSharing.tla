-------------------------- MODULE MCSecretSharing --------------------------
(***************************************************************************)
(* Small instances of SecretSharing with bytes of two bits and words of    *)
(* five, and vectors of two elements over a ring that needs two bytes.     *)
(***************************************************************************)
EXTENDS SecretSharing

MCRequest == [data : [1 .. 2 -> 0 .. 3], ring_modulus : {5}]
MCScript == {ExpandCall(r.data, r.ring_modulus) : r \in MCRequest}
MCStream == [1 .. 3 -> Byte]
=============================================================================
