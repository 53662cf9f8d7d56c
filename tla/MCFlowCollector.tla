--------------------------- MODULE MCFlowCollector ---------------------------
(* Instances of FlowCollector for TLC. *)
EXTENDS FlowCollector

D(bytes, v, n) ==
    [length |-> bytes, version |-> v, count |-> n]

(* Two flows; one flow whose bytes end one short; another version; more    *)
(* flows than the buffer holds, all of them sent.                          *)
MCDatagrams == {D(120, 5, 2), D(71, 5, 1), D(72, 9, 1), D(9672, 5, 201)}

(* The good one and a bad one, where only the writing matters. *)
FewDatagrams == {D(120, 5, 2), D(23, 5, 0)}
=============================================================================
