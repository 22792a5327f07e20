------------------------- MODULE MCSketchEncrypter -------------------------
(***************************************************************************)
(* Small instances of SketchEncrypter: two threads share an encrypter of   *)
(* sketches with a UNIQUE and a SUM column.                                *)
(***************************************************************************)
EXTENDS SketchEncrypter

CONSTANTS Requests   \* which of the requests below a run uses

Register(index, values) == [index |-> index, values |-> values]
EncryptOf(aggregators, registers, strategy) ==
    [kind |-> "encrypt", aggregators |-> aggregators, registers |-> registers,
     strategy |-> strategy]
KeyAndCount == <<"UNIQUE", "SUM">>

Sound(count)    == Register(7, <<5, count>>)
Destroyed(key)  == Register(9, <<key, 3>>)

Encrypts ==
    [counts  |-> EncryptOf(KeyAndCount, <<Sound(1), Sound(5), Sound(6)>>, "FLAGGED_KEY"),
     keys    |-> EncryptOf(KeyAndCount, <<Sound(2), Destroyed(0)>>, "CONFLICTING_KEYS"),
     flags   |-> EncryptOf(KeyAndCount, <<Destroyed(-1), Destroyed(0)>>, "FLAGGED_KEY"),
     nothing |-> EncryptOf(KeyAndCount, << >>, "UNSPECIFIED"),
     \* the next ones are rejected, most of them after part of the work
     zero    |-> EncryptOf(KeyAndCount, <<Sound(2), Sound(0)>>, "FLAGGED_KEY"),
     unset   |-> EncryptOf(KeyAndCount, <<Sound(1), Destroyed(0)>>, "UNSPECIFIED"),
     other   |-> EncryptOf(<<"UNIQUE", "UNSPECIFIED">>, <<Sound(1)>>, "FLAGGED_KEY"),
     narrow  |-> EncryptOf(KeyAndCount, <<Sound(1), Register(7, <<5>>)>>, "FLAGGED_KEY")]

NoiseOf(value_count) ==
    [kind |-> "noise", value_count |-> value_count, given |-> <<Text(7), Times(1)>>]

MCEncryptRequest == {Encrypts[r] : r \in Requests \cap DOMAIN Encrypts}
MCNoiseRequest   == {NoiseOf(value_count) : value_count \in {0, 2}}
=============================================================================
