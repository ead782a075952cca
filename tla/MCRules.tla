------------------------------- MODULE MCRules -------------------------------
(***************************************************************************)
(* The life of a rule and its evaluation side by side: the constraints of  *)
(* Governance, whose rules the graph of RuleCheck would evaluate. The two  *)
(* share no state, so that each is only explored while the other rests.    *)
(***************************************************************************)
EXTENDS Governance, RuleCheck

CONSTANTS s1, s2, d1, d2, text

\* The operators of the engine, and two it does not know.
MCOperators ==
  {"+", "-", "*", "/", "<", "<=", ">", ">=", "==", "!=", "and", "or", "not",
   "sum", "avg", "min", "max", "count", "xor", "modulo"}
MCBindings == [x |-> d1, y |-> d2]

Agg(op, name) == Unary(op, Ref(name))

\* Numeric terms: literals, aggregations of declared and undeclared names, a
\* bare reference, and sums and quotients of them.
Terms ==
  {Num(0), Num(1), Agg("avg", "x"), Agg("count", "y"), Agg("sum", "z"), Ref("x"),
   Binary("+", Agg("sum", "x"), Agg("min", "y")),
   Binary("-", Agg("max", "x"), Agg("modulo", "y")),
   Binary("/", Num(1), Agg("sum", "x"))}

MCBodies ==
  {Binary("<=", t, u) : t \in Terms, u \in {Num(1), Agg("count", "y")}}
  \cup {Unary("not", Binary("==", Agg("avg", "x"), Num(0))),
        Binary("or", Binary("<", Num(0), Num(1)), Binary(">", Agg("max", "y"), Num(0))),
        Binary("and", Binary("!=", Agg("min", "x"), Num(1)), <<[op |-> "xor", args |-> <<>>]>>),
        Binary(">=", Binary("*", Num(0), Agg("sum", "x")), Num(0)),
        Unary("or", Binary("<", Num(0), Num(1))),
        Agg("sum", "x"), <<>>}

MCInit == Init /\ CheckInit
MCNext ==
  \/ body = <<>> /\ statement = <<>> /\ Next /\ UNCHANGED ruleVars
  \/ (\A c \in RuleIds : activation[c] = "absent") /\ CheckNext /\ UNCHANGED rulesVars
MCSpec == MCInit /\ [][MCNext]_<<rulesVars, ruleVars>>

=============================================================================
