--------------------------- MODULE SecretSharing ---------------------------
(***************************************************************************)
(* frequency_count: a frequency vector is split into two additive shares.  *)
(* The first share is only a seed; its vector is what a generator created  *)
(* from the seed returns.  The second share is the vector of differences.  *)
(* The dealer runs GenerateSecretShares; the helper, a party that receives *)
(* the shares, expands the seed with a generator of its own, as the tests  *)
(* do.                                                                     *)
(***************************************************************************)
EXTENDS PseudorandomGenerator

CONSTANTS
    Dealer, Helper,   \* the two members of Generator
    ShareRequest      \* [data, ring_modulus]

VARIABLES
    request,   \* the SecretShareGeneratorRequest
    share      \* what GenerateSecretShares returned

shareVars == <<request, share, vars>>

SecretShare(status, share_vector) == [status |-> status, share_vector |-> share_vector]
NoShare == SecretShare("None", << >>)

\* Mutant of SubMod: the sum that its comment names instead of the difference.
SubModAdds(x, y, modulus) ==
    IF x >= modulus \/ y >= modulus THEN {} ELSE {(x + y) % modulus}

(***************************************************************************)
(* SubMod: {} is an error.  The difference is taken in uint32_t.           *)
(***************************************************************************)
SubMod(x, y, modulus) ==
    IF x >= modulus \/ y >= modulus THEN {}
    ELSE LET cmp == IF x < y THEN 1 ELSE 0
         IN  {(x - y + cmp * modulus) % Word}

ExpandCall(data, modulus) == <<[op |-> "range", size |-> Len(data), modulus |-> modulus]>>

\* The requests are messages of words, and the generators are asked for them.
SharingAssumption ==
    /\ Dealer \in Generator /\ Helper \in Generator /\ Dealer # Helper
    /\ \A r \in ShareRequest :
          /\ r.data \in Seq(0 .. Word - 1) /\ r.ring_modulus \in 0 .. Word - 1
          /\ ExpandCall(r.data, r.ring_modulus) \in Script

\* The rings whose elements a generator draws without reading beyond its
\* batches: with one byte each, or as many as the mask has values.
RingsFit ==
    \A r \in ShareRequest :
        \/ r.ring_modulus <= 1 \/ BytesPerValue(r.ring_modulus) = 1
        \/ MaskRange(r.ring_modulus) = r.ring_modulus

\* The seed is drawn by RAND_bytes: any of the streams.
SharingInit ==
    /\ request \in ShareRequest
    /\ share = NoShare
    /\ stream \in Stream
    /\ script = ExpandCall(request.data, request.ring_modulus)
    /\ gen = [g \in Generator |-> Start]

\* Mutant of Answer: a request that fails gets no answer.
AnswerOnlyOk(status, share_vector) ==
    /\ status = "Ok"
    /\ share' = SecretShare(status, share_vector)
    /\ UNCHANGED <<request, vars>>

Answer(status, share_vector) ==
    /\ share' = SecretShare(status, share_vector)
    /\ UNCHANGED <<request, vars>>

Valid == Len(request.data) > 0 /\ request.ring_modulus > 1

RejectRequest ==
    /\ share = NoShare /\ ~Valid
    /\ Answer("InvalidArgument", << >>)

\* RAND_status, RAND_bytes or Create fails, before anything is expanded.
NoRandomness ==
    /\ share = NoShare /\ Valid /\ gen[Dealer] = Start
    /\ Answer("Internal", << >>)

ExpandFirstShare ==
    /\ share = NoShare /\ Valid
    /\ GeneratorStep(Dealer)
    /\ UNCHANGED <<request, share>>

\* The error of the generator, that of a SubMod, or share_vector_2.
SubtractFirstShare ==
    /\ share = NoShare /\ Valid /\ ~Pending(Dealer)
    /\ LET share_vector_1 == ResultOf(Dealer, 1)
           difference == [i \in DOMAIN request.data |->
                             SubMod(request.data[i], share_vector_1.values[i],
                                    request.ring_modulus)] IN
       IF share_vector_1.status # "Ok"
       THEN Answer(share_vector_1.status, << >>)
       ELSE IF \E i \in DOMAIN request.data : difference[i] = {}
       THEN Answer("InvalidArgument", << >>)
       ELSE Answer("Ok", [i \in DOMAIN request.data |-> CHOOSE d \in difference[i] : TRUE])

\* The helper has received the seed.
ExpandSeed ==
    /\ share.status = "Ok"
    /\ GeneratorStep(Helper)
    /\ UNCHANGED <<request, share>>

DealerStep ==
    RejectRequest \/ NoRandomness \/ ExpandFirstShare \/ SubtractFirstShare

SharingNext == DealerStep \/ ExpandSeed

SharingSpec == SharingInit /\ [][SharingNext]_shareVars
-----------------------------------------------------------------------------
(***************************************************************************)
(* The sum of the two shares is the input (generate_secret_shares_test.cc  *)
(* :73 to 77): whoever expands the seed later recovers every element, and  *)
(* a share is only handed out for a vector that is below the modulus.      *)
(***************************************************************************)
SharesReconstruct ==
    share.status = "Ok" /\ ~Pending(Helper) =>
        /\ ResultOf(Helper, 1).status = "Ok"
        /\ \A i \in DOMAIN request.data :
              (share.share_vector[i] + ResultOf(Helper, 1).values[i]) % request.ring_modulus
                  = request.data[i]

\* A request is answered, and a helper that got the seed ends its expansion.
SharingEnds ==
    /\ <>(share # NoShare)
    /\ (share.status = "Ok") ~> ~Pending(Helper)
=============================================================================
