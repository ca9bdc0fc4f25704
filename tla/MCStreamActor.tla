--------------------------- MODULE MCStreamActor ----------------------------
(* Instances of StreamActor for TLC. *)
EXTENDS StreamActor, TLC
CONSTANTS e1, e2, q1, p1, i1, i2, l1

MCExecs == {e1}
MCQueries == {q1}
MCLocals == {l1}
MCPlans == {p1}
MCImages == {i1}
MCTwoImages == {i1, i2}
=============================================================================
