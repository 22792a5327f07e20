---------------------------- MODULE MCAnySketch ----------------------------
(***************************************************************************)
(* Small instances of AnySketch.  Sketches "a" and "b" have the same       *)
(* configuration, a UNIQUE and a SUM column behind two indexes; "n" is     *)
(* narrower, so that a merge with it fails.                                *)
(***************************************************************************)
EXTENDS AnySketch

Column(aggregator, d) == [aggregator |-> aggregator, distribution |-> d]
Key  == Column("UNIQUE", GetOracleDistribution("key", 0, 9))
LowKey == Column("UNIQUE", GetOracleDistribution("key", 0, 7))
Freq == Column("SUM", GetOracleDistribution("freq", 1, 5))

\* The fingerprints that the two fingerprinters make of an item.
Prints(first, second) == [first |-> first, second |-> second]
FullItem(prints, key, freq) ==
    [fingerprint |-> prints, metadata |-> [key |-> key, freq |-> freq]]
NoKeyItem(prints) == [fingerprint |-> prints, metadata |-> [freq |-> 1]]

\* A bucket table for an exponential index of size 2.
MCExpBucket ==
    [n \in {2} |-> [fp \in 0 .. MaxFingerprint |->
        IF fp = MaxFingerprint THEN 2 ELSE IF fp >= 2 THEN 1 ELSE 0]]

Levels == GetGeometricDistribution("first", 0, 2)
Pair   == GetUniformDistribution("second", 3, 4)
Decay  == GetExponentialDistribution("second", 2)

(***************************************************************************)
(* The index of a and b: 3 geometric values, then 2 uniform ones, so that  *)
(* GetIndex gives every vector a number of its own.                        *)
(***************************************************************************)
MCIndexDists ==
    [s \in {"a", "b", "n"} |->
        IF s = "n" THEN <<Decay>> ELSE <<Levels, Pair>>]
MCValueFunctions ==
    [s \in {"a", "b", "n"} |-> IF s = "n" THEN <<LowKey>> ELSE <<Key, Freq>>]

\* The two indexes the other way round, for items with every vector of them.
SwappedIndexDists ==
    [s \in {"a", "b", "n"} |->
        IF s = "n" THEN <<Decay>> ELSE <<Pair, Levels>>]
SpreadItem == {FullItem(Prints(first, second), 7, 1) : first \in {1, 2, 4}, second \in {0, 1}}

\* Two items with the index parts (0, 1), one with (1, 0), and one with (2, 1)
\* whose exponential value is out of range; a missing key and one out of range.
MCItem == {FullItem(Prints(1, 1), 7, 1), FullItem(Prints(1, 1), 8, 2),
           FullItem(Prints(2, 0), 7, 1), FullItem(Prints(4, MaxFingerprint), 7, 1),
           NoKeyItem(Prints(1, 1)), FullItem(Prints(1, 1), 12, 1)}

\* A register that was destroyed elsewhere, with a sum of which two are no
\* int64_t any more; it is too wide for n.
MCRawContribution == {[index |-> 1, values |-> <<-1, 100>>]}

\* Nothing, one sketch each, and a sketch that does not fit between two that do.
MCMergeList == {<<>>, <<"a">>, <<"b">>, <<"n">>, <<"b", "n", "b">>}
=============================================================================
