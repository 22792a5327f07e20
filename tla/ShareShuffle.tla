---------------------------- MODULE ShareShuffle ----------------------------
(***************************************************************************)
(* SecretSharing and SecureShuffle together: the dealer and the helper get *)
(* a share each of a frequency vector and shuffle their shares apart from  *)
(* each other, with a seed they have agreed on.  Parties that have nothing *)
(* to share, whose request is empty, shuffle any vectors with any seeds.   *)
(***************************************************************************)
EXTENDS SecureShuffle, Sequences

CONSTANTS
    Dealer, Helper, Stream, ShareRequest, ByteBits, WordBits,
    SharedSeed,   \* the seeds of which the parties agree on one
    Vector        \* the vectors that are shuffled without being shares

VARIABLES stream, script, gen, request, share

\* What a generator is asked for to expand a share.
Expansion ==
    {<<[op |-> "range", size |-> Len(r.data), modulus |-> r.ring_modulus]>> : r \in ShareRequest}

Sharing == INSTANCE SecretSharing WITH Generator <- Party, Script <- Expansion

\* Requests hold words; the shares are among the vectors that are shuffled.
ASSUME CompositionAssumption ==
    /\ Party = {Dealer, Helper} /\ Dealer # Helper
    /\ \A r \in ShareRequest :
          /\ r.data \in Seq(0 .. 2 ^ WordBits - 1)
          /\ r.ring_modulus \in 0 .. 2 ^ WordBits - 1
          /\ [0 .. Len(r.data) - 1 -> 0 .. r.ring_modulus - 1] \subseteq Input
    /\ Vector \subseteq Input /\ SharedSeed \subseteq Seed

\* What the generator assumes of streams and of powers.
ASSUME StreamAssumption ==
    /\ ByteBits \in Nat \ {0} /\ WordBits \in Nat \ {0}
    /\ Stream \subseteq Seq(0 .. 2 ^ ByteBits - 1) \ {<< >>}
    /\ 2 ^ ByteBits \in Nat \ {0}
    /\ \A b \in 0 .. WordBits : 2 ^ b \in Nat \ {0}
    /\ \A b \in 1 .. WordBits : 2 ^ b = 2 * 2 ^ (b - 1)

sharingVars == <<stream, script, gen, request, share>>
shuffleVars == <<input, seed, data, local, orders>>

\* An empty request does not look at the stream.
SharedInit ==
    /\ Sharing!SharingInit /\ Init
    /\ request.data = << >> => stream = CHOOSE s \in Stream : TRUE

SharingStep == Sharing!SharingNext /\ UNCHANGED shuffleVars

ZeroBased(sequence) == [i \in 0 .. Len(sequence) - 1 |-> sequence[i + 1]]

HasShare(p) == share.status = "Ok" /\ (p = Helper => ~Sharing!Pending(Helper))
ShareOf(p) ==
    ZeroBased(IF p = Dealer THEN share.share_vector ELSE Sharing!ResultOf(Helper, 1).values)

\* The seed that both parties have agreed on.
Agreed(s) == \A p \in Party : At(p, "idle") \/ seed[p] = s

ShuffleShare(p) ==
    /\ HasShare(p)
    /\ \E s \in SharedSeed : Agreed(s) /\ Call(p, ShareOf(p), s)
    /\ UNCHANGED sharingVars

ShuffleVector(p) ==
    /\ share.status = "InvalidArgument" /\ request.data = << >>
    /\ \E d \in Vector, s \in Seed : Call(p, d, s)
    /\ UNCHANGED sharingVars

ShuffleStep(p) == Step(p) /\ UNCHANGED sharingVars

SharedNext ==
    \/ SharingStep
    \/ \E p \in Party : ShuffleShare(p) \/ ShuffleVector(p) \/ ShuffleStep(p)

SharedSpec == SharedInit /\ [][SharedNext]_<<sharingVars, shuffleVars>>

\* Both parties are single threads that nothing blocks.
SharedFairSpec ==
    /\ SharedSpec
    /\ WF_<<sharingVars, shuffleVars>>(Sharing!DealerStep /\ UNCHANGED shuffleVars)
    /\ WF_<<sharingVars, shuffleVars>>(Sharing!ExpandSeed /\ UNCHANGED shuffleVars)
-----------------------------------------------------------------------------
SharesReconstruct == Sharing!SharesReconstruct
SharingEnds == Sharing!SharingEnds

(***************************************************************************)
(* Shuffled apart from each other, the two shares still add up to the      *)
(* frequency vector, in a new order: neither party has to see the other's  *)
(* share for that, only the seed of the shuffle (shuffle.cc:37 to 42 avoids*)
(* std::shuffle because parties could get different orders).               *)
(***************************************************************************)
ShuffledSharesReconstruct ==
    share.status = "Ok" /\ (\A p \in Party : At(p, "Ok")) =>
        \E order \in Orders(ZeroBased(request.data)) : \A i \in DOMAIN order :
            (data[Dealer][i] + data[Helper][i]) % request.ring_modulus
                = ZeroBased(request.data)[order[i]]
=============================================================================
