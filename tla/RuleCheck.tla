----------------------------- MODULE RuleCheck ------------------------------
(***************************************************************************)
(* evaluateConstraint over a graph that changes: each binding of a rule    *)
(* names a dimension, and an aggregation reads the numeric values of the   *)
(* accepted statements of that dimension at the moment of the call.        *)
(***************************************************************************)
EXTENDS Expressions, FactStates

CONSTANTS
  StatementIds,  \* identities of statements
  Dimensions,    \* dimensions of the graph
  Numbers,       \* numeric values
  NotANumber,    \* any value of another JSON type
  Bindings,      \* binding name -> dimension, for the declared names
  Bodies         \* rule bodies, <<>> if a rule has none

ASSUME RuleAssumption ==
  /\ Numbers \subseteq Int
  /\ NotANumber \notin Int
  /\ Bindings \in [DOMAIN Bindings -> Dimensions]
  /\ \A e \in Bodies \ {<<>>} : IsExpression(e)

VARIABLES
  body,       \* expression of the rule
  statement   \* [state, dimension, value] of each identity in use

ruleVars == <<body, statement>>

Fractions(ids) ==
  LET order == SetToSeq(ids) IN [i \in DOMAIN order |-> Fraction(statement[order[i]].value)]

\* Statements with a number for the dimension of a name, in one of the states.
Numeric(name, states) ==
  {s \in DOMAIN statement : /\ statement[s].dimension = Bindings[name]
                            /\ statement[s].state \in states
                            /\ statement[s].value # NotANumber}

\* What resolveRef answers for each declared name.
\* Mutants: every live claim counts; one value that is no number spoils all.
BeliefLive(name) == Fractions(Numeric(name, LiveState))
BeliefStrict(name) ==
  IF \E s \in DOMAIN statement : /\ statement[s].dimension = Bindings[name]
                                  /\ statement[s].state = "accepted"
                                  /\ statement[s].value = NotANumber
    THEN <<>> ELSE Fractions(Numeric(name, {"accepted"}))
Belief(name) == Fractions(Numeric(name, {"accepted"}))

\* Mutant: an empty dimension counts as zero.
evaluateOptimistic(e) ==
  IF e = <<>> THEN "error"
  ELSE evaluate(e, [name \in DOMAIN Bindings |->
                      IF Belief(name) = <<>> THEN <<Fraction(0)>> ELSE Belief(name)])
evaluateConstraint(e) ==
  IF e = <<>> THEN "error" ELSE evaluate(e, [name \in DOMAIN Bindings |-> Belief(name)])

CheckInit ==
  /\ body \in Bodies
  /\ statement = <<>>

\* A statement is added, in any state capture or `node add` give it.
AddStatement(s, d, v, st) ==
  /\ s \notin DOMAIN statement
  /\ statement' = [x \in DOMAIN statement \cup {s} |->
                     IF x \in DOMAIN statement THEN statement[x]
                       ELSE [state |-> st, dimension |-> d, value |-> v]]
  /\ UNCHANGED body

\* A statement changes its acceptance state.
Transition(s, to) ==
  /\ CanTransitionFact(statement[s].state, to)
  /\ statement' = [statement EXCEPT ![s].state = to]
  /\ UNCHANGED body

CheckNext ==
  \/ \E s \in StatementIds, d \in Dimensions, v \in Numbers \cup {NotANumber},
        st \in {"tentative", "accepted"} : AddStatement(s, d, v, st)
  \/ \E s \in DOMAIN statement, to \in FactNodeState : Transition(s, to)

CheckSpec == CheckInit /\ [][CheckNext]_ruleVars

-----------------------------------------------------------------------------
(* Correctness *)

Decided(e) == evaluateConstraint(e) \in {"satisfied", "violated"}

Whitelist == Arithmetic \cup Comparison \cup Logical \cup Aggregation \cup {"not", "num", "ref"}
Names(e) == {e[i].name : i \in {j \in DOMAIN e : e[j].op = "ref"}}

\* Malformed whatever the data: an operator outside the whitelist or a name the
\* rule does not declare.
IllFormed(e) ==
  \/ \E i \in DOMAIN e : e[i].op \notin Whitelist
  \/ ~(Names(e) \subseteq DOMAIN Bindings)

\* A rule is never judged on partial data: a verdict needs every name of the
\* body declared, every dimension it reads populated, and no unknown operator,
\* even where the other operand of an `or` or a product would settle it.
NeverJudgesBlind ==
  Decided(body) =>
    /\ body # <<>>
    /\ ~IllFormed(body)
    /\ \A name \in Names(body) : Belief(name) # <<>>

\* Negation and the two connectives agree in all four outcomes, so that a rule
\* and its rewriting by De Morgan are never told apart.
DeMorgan ==
  body # <<>> =>
  \A e \in Bodies \ {<<>>} :
    evaluateConstraint(Unary("not", Binary("and", e, body))) =
    evaluateConstraint(Binary("or", Unary("not", e), Unary("not", body)))

\* Only belief is judged: a step that leaves the accepted statements alone
\* (a tentative claim, a rejected suggestion) changes no verdict. So the code
\* reads (store.ts, resolveRef); what its documents say is EveryStatementCounts.
AcceptedOf(st) == {s \in DOMAIN st : st[s].state = "accepted"}
SuggestionsAreInert ==
  [][AcceptedOf(statement') = AcceptedOf(statement)
       => evaluateConstraint(body)' = evaluateConstraint(body)]_ruleVars

\* The comment of evaluateConstraint, and the specification of M1: the numeric
\* values of every statement of a dimension count, whatever its state. The code
\* has moved on.
EveryStatementCounts ==
  body # <<>> =>
    evaluateConstraint(body) =
      evaluate(body, [name \in DOMAIN Bindings |-> Fractions(Numeric(name, FactNodeState))])

\* More belief never turns a verdict back into "indeterminate".
VerdictsOnlyLostWithBelief ==
  [][Decided(body) /\ AcceptedOf(statement) \subseteq AcceptedOf(statement')
       => evaluateConstraint(body)' # "indeterminate"]_ruleVars

=============================================================================
