------------------------------ MODULE MCTurns -------------------------------
(***************************************************************************)
(* Two turns on a small slot.                                              *)
(***************************************************************************)
EXTENDS Turns, TLC

CONSTANTS s1, s2, s3, v1, v2, v3, u1, as, h, a, t1, t2

Ids == {s1, s2, s3}
MCRules == {[satisfies |-> {v1}, approver |-> h]}

\* The bound of the run: identities are taken in order, the i-th carries the
\* i-th value (a value that is there is restated, never captured again), and
\* the second turn has one content, whose gate and extraction, which touch
\* nothing else, come before the first turn starts.
InOrder ==
  LET ids == <<s1, s2, s3>>
      values == <<v1, v2, v3>>
  IN /\ \A i \in 1..3 : Exists(ids[i]) => claim[ids[i]].value = values[i]
     /\ \A i \in 1..2 : Exists(ids[i + 1]) => Exists(ids[i])
     /\ left[t2] <= 1
     /\ phase[t2] \in {"gate", "extract"} => phase[t1] = "idle"

=============================================================================
