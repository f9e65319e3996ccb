------------------------------- MODULE MCIngest -------------------------------
(***************************************************************************)
(* Instances of Ingest for TLC.  Beside the event a there are b, which     *)
(* shares nothing with it; again, the same event with another quantity,    *)
(* which neither key includes; and moved, whose location differs only in   *)
(* what the canonical key leaves out.                                      *)
(***************************************************************************)
EXTENDS Ingest, TLC

CONSTANTS a, again, moved, b, s1, s2

mcLegacyKey == a :> "k" @@ again :> "k" @@ moved :> "m" @@ b :> "n"
mcCanonicalKey == a :> "k" @@ again :> "k" @@ moved :> "k" @@ b :> "n"
mcRejecting == {b}
mcBatches == {<<a>>, <<again>>, <<b, moved>>}
mcTwoBatches == {<<a>>, <<b, moved>>}

Symmetry == Permutations({s1, s2})
=============================================================================
