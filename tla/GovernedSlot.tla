---------------------------- MODULE GovernedSlot ----------------------------
(***************************************************************************)
(* What a slot of the memory graph promises to whoever reads it, with no   *)
(* statements, edges or channels: a set of believed values (one at most in *)
(* a single slot), a set of values retired for good, and a dispute flag.   *)
(* Adjudication implements it (module SlotContract).                       *)
(***************************************************************************)

CONSTANT Values

VARIABLES
  kind,      \* "unset" until the slot exists, then "single" or "multi"
  belief,    \* the values the graph currently holds true
  retired,   \* values replaced by others; kept as history
  disputed   \* an adjudication is open

slotVars == <<kind, belief, retired, disputed>>

Init ==
  /\ retired = {}
  /\ \/ kind = "unset" /\ belief = {} /\ disputed = FALSE
     \/ kind = "single" /\ disputed = TRUE /\ \E v \in Values : belief = {v}

\* The slot comes into being, with a first value believed or only claimed.
Open(k) ==
  /\ kind = "unset"
  /\ kind' = k
  /\ \/ \E v \in Values : belief' = {v}
     \/ UNCHANGED belief
  /\ UNCHANGED <<retired, disputed>>

\* A value joins what is believed. A single slot takes one only when empty,
\* and a retired value never returns.
Learn(v) ==
  /\ kind # "unset"
  /\ v \notin retired
  /\ kind = "single" => belief \subseteq {v}
  /\ belief' = belief \cup {v}
  /\ UNCHANGED <<kind, retired, disputed>>

\* A clash with the believed value of a single slot is flagged, and changes
\* nothing else: never a silent overwrite.
Dispute ==
  /\ kind = "single"
  /\ belief # {}
  /\ disputed' = TRUE
  /\ UNCHANGED <<kind, belief, retired>>

\* One value of a single slot replaces the others it competed with.
Decide(v) ==
  /\ kind = "single"
  /\ v \in Values \ retired
  /\ belief' = {v}
  /\ \E losers \in SUBSET (Values \ {v}) :
       /\ belief \ {v} \subseteq losers
       /\ retired' = retired \cup losers
  /\ disputed' \in {disputed, FALSE}
  /\ UNCHANGED kind

Next ==
  \/ \E k \in {"single", "multi"} : Open(k)
  \/ \E v \in Values : Learn(v) \/ Decide(v)
  \/ Dispute

Spec == Init /\ [][Next]_slotVars

=============================================================================
