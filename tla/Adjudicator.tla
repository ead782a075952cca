---------------------------- MODULE Adjudicator -----------------------------
(***************************************************************************)
(* What resolveCapturedConflicts promises of one conflicting claim, however *)
(* many model calls it takes: one verdict. Either the claim is made current *)
(* in place of the one it replaces, in the same step as the verdict and on  *)
(* the statements as they then are, or it is escalated and nothing changes. *)
(***************************************************************************)
CONSTANTS Subject, Eligible
VARIABLES state, verdict

Init == state[Subject] = "tentative" /\ verdict = "open"

Replace ==
  /\ verdict = "open" /\ verdict' = "resolved"
  /\ state[Subject] = "tentative"
  /\ \E o \in Eligible :
       /\ state[o] = "accepted"
       /\ state' = [state EXCEPT ![Subject] = "accepted", ![o] = "superseded"]

Escalate ==
  /\ verdict = "open" /\ verdict' = "escalated"
  /\ UNCHANGED state

\* Other operations go on meanwhile.
Elsewhere == UNCHANGED verdict

Next == Replace \/ Escalate \/ Elsewhere

Spec == Init /\ [][Next]_<<state, verdict>> /\ WF_verdict(Replace \/ Escalate)

=============================================================================
