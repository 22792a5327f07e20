---------------------- MODULE MCSketchEncrypterAdapter ----------------------
(***************************************************************************)
(* Four workers: two with good keys, whose sums reach the neutral element, *)
(* one whose element is no point and one whose generator is none.          *)
(***************************************************************************)
EXTENDS SketchEncrypterAdapter

Workers == {"a", "b", "broken", "other"}
Key(g, e) == [generator |-> g, element |-> e]
Keys == [w \in Workers |->
           CASE w = "a" -> Key(1, 2) [] w = "b" -> Key(1, 3)
             [] w = "broken" -> Key(1, 7) [] w = "other" -> Key(0, 1)]

With(kind, contributors, p, threshold, offset) ==
    [kind |-> kind, contributor_count |-> contributors, p |-> p,
     truncate_threshold |-> threshold, shift_offset |-> offset]

OptionsOfCallers ==
    {With("geometric", 0, 50, 1, 1), With("geometric", 1, 0, 1, 1),
     With("geometric", 3, 50, 1, 2), With("geometric", 3, 50, -1, 0),
     With("gaussian", 3, 50, 1, 1), With("gaussian", 3, 50, -1, 0),
     With("geometric", 3, NaN, 1, 1), With("gaussian", 3, 100, 1, 1)}
        \cup GetDiscreteGaussianPublisherNoiseOptions([p |-> 50, mu |-> 5], 3)

Draws == 0 .. 2

Sketch(aggregators, registers) ==
    [kind |-> "encrypt", aggregators |-> aggregators, registers |-> registers,
     strategy |-> "CONFLICTING_KEYS"]
Register(index, values) == [index |-> index, values |-> values]

\* A counter above the maximum, a destroyed register, one that does not fit,
\* and a sketch without values.
Sketches ==
    {Sketch(<<"UNIQUE", "SUM">>, <<Register(1, <<4, 3>>), Register(2, <<0, 1>>)>>),
     Sketch(<<"SUM">>, <<Register(1, <<2, 2>>)>>),
     Sketch(<< >>, <<Register(1, << >>)>>)}

\* A p that is no probability, and parameters (an epsilon near zero, a delta
\* that is too large) whose mu is beyond the ints or negative.
Noises == {{[p |-> 100, mu |-> 1]}, {[p |-> 50, mu |-> 5]}, {[p |-> 50, mu |-> -1]}}

Requests ==
    {[sketch |-> sketch, maximum_value |-> 1, noise |-> params] :
       sketch \in Sketches, params \in {{}, {[p |-> 50, mu |-> 1]}}}
      \cup {[sketch |-> Sketch(<<"SUM">>, <<Register(1, <<2>>)>>), maximum_value |-> 1,
             noise |-> params] : params \in Noises}
=============================================================================
