---------------------------- MODULE Expressions -----------------------------
(***************************************************************************)
(* The constraint engine (engine/evaluate.ts): a whitelisted expression    *)
(* over the numbers a rule's bindings hold, evaluated to one of satisfied, *)
(* violated, indeterminate (data missing) and error (malformed).           *)
(*                                                                         *)
(* An expression is a tree, here the sequence of its nodes in an order in  *)
(* which arguments come first and the root last. A node is [op, args],     *)
(* with the places of its arguments; a literal is [op |-> "num", n], a     *)
(* reference [op |-> "ref", name]. `data` maps each declared binding to    *)
(* the sequence of its numbers. JavaScript numbers are exact fractions     *)
(* <<n, d>>, d > 0.                                                        *)
(***************************************************************************)
EXTENDS Integers, SequencesExt

CONSTANT Operators  \* operators a stored rule may name, known to the engine or not

Arithmetic  == {"+", "-", "*", "/"}
Comparison  == {"<", "<=", ">", ">=", "==", "!="}
\* Mutant: `or` is missing from the whitelist.
LogicalAnd  == {"and"}
Logical     == {"and", "or"}
Aggregation == {"sum", "avg", "min", "max", "count"}

ASSUME OperatorAssumption ==
  /\ Arithmetic \cup Comparison \cup Logical \cup Aggregation \cup {"not"} \subseteq Operators
  /\ "num" \notin Operators /\ "ref" \notin Operators

EvaluationResult == {"satisfied", "violated", "indeterminate", "error"}

NodeType == [op : {"num"}, n : Int] \cup [op : {"ref"}, name : STRING]
              \cup [op : Operators, args : Seq(Nat \ {0})]

ArgsOf(node) == IF node.op \in {"num", "ref"} THEN {} ELSE ToSet(node.args)

IsExpression(e) ==
  /\ e \in Seq(NodeType) /\ e # <<>>
  /\ \A i \in DOMAIN e : \A a \in ArgsOf(e[i]) : a < i
  /\ \A a \in 1..Len(e) - 1 : \E i \in DOMAIN e : a \in ArgsOf(e[i])

\* Literals and references, and an operator over one or two expressions.
Num(n)       == <<[op |-> "num", n |-> n]>>
Ref(name)    == <<[op |-> "ref", name |-> name]>>
Unary(op, e) == Append(e, [op |-> op, args |-> <<Len(e)>>])

Shift(node, k) ==
  IF node.op \in {"num", "ref"} THEN node
    ELSE [node EXCEPT !.args = [a \in DOMAIN @ |-> @[a] + k]]
Binary(op, e, f) ==
  Append(e \o [i \in DOMAIN f |-> Shift(f[i], Len(e))],
         [op |-> op, args |-> <<Len(e), Len(e) + Len(f)>>])

\* Outcomes of the numeric layer.
ValueOf(q) == [status |-> "value", value |-> q]
Missing    == [status |-> "indeterminate"]
Malformed  == [status |-> "error"]

Fraction(n) == <<n, 1>>
Less(p, q)  == p[1] * q[2] < q[1] * p[2]
Same(p, q)  == p[1] * q[2] = q[1] * p[2]
Plus(p, q)  == <<p[1] * q[2] + q[1] * p[2], p[2] * q[2]>>
Over(p, q)  == IF q[1] > 0 THEN <<p[1] * q[2], p[2] * q[1]>>
                           ELSE <<-(p[1] * q[2]), -(p[2] * q[1])>>

Calculate(op, p, q) ==
  CASE op = "+" -> ValueOf(Plus(p, q))
    [] op = "-" -> ValueOf(Plus(p, <<-q[1], q[2]>>))
    [] op = "*" -> ValueOf(<<p[1] * q[1], p[2] * q[2]>>)
    [] op = "/" -> IF q[1] = 0 THEN Malformed ELSE ValueOf(Over(p, q))

Aggregate(op, values) ==
  LET total == FoldLeft(Plus, Fraction(0), values)
      least(p, q) == IF Less(q, p) THEN q ELSE p
      most(p, q)  == IF Less(p, q) THEN q ELSE p
  IN CASE op = "sum"   -> total
       [] op = "avg"   -> Over(total, Fraction(Len(values)))
       [] op = "min"   -> FoldLeft(least, Head(values), values)
       [] op = "max"   -> FoldLeft(most, Head(values), values)
       [] op = "count" -> Fraction(Len(values))

Compare(op, p, q) ==
  CASE op = "<"  -> Less(p, q)
    [] op = "<=" -> ~Less(q, p)
    [] op = ">"  -> Less(q, p)
    [] op = ">=" -> ~Less(p, q)
    [] op = "==" -> Same(p, q)
    [] op = "!=" -> ~Same(p, q)

-----------------------------------------------------------------------------
(* The numeric layer *)

\* An aggregation takes one reference, and reads what it stands for.
Reading(op, name, data) ==
  IF name \notin DOMAIN data THEN Malformed
  ELSE IF data[name] = <<>> THEN Missing
  ELSE ValueOf(Aggregate(op, data[name]))

\* An operand that is no value decides, the left one first.
Arithmetical(op, a, b) ==
  IF a.status # "value" THEN a
  ELSE IF b.status # "value" THEN b
  ELSE Calculate(op, a.value, b.value)

\* Node i, given the outcomes of its arguments.
NumOf(e, data, num, i) ==
  LET op == e[i].op
      args == e[i].args
  IN  CASE op = "num" -> ValueOf(Fraction(e[i].n))
        [] op \in Aggregation /\ Len(args) = 1 /\ e[args[1]].op = "ref" ->
             Reading(op, e[args[1]].name, data)
        [] op \in Arithmetic /\ Len(args) = 2 -> Arithmetical(op, num[args[1]], num[args[2]])
        [] OTHER -> Malformed

EvalNum(e, data) == LET num[i \in DOMAIN e] == NumOf(e, data, num, i) IN num

-----------------------------------------------------------------------------
(* The boolean layer *)

Verdict(holds) == IF holds THEN "satisfied" ELSE "violated"

\* An error of either operand decides, then missing data of either; nothing is
\* short-circuited.
Both(x, y, verdict) ==
  IF "error" \in {x, y} THEN "error"
  ELSE IF "indeterminate" \in {x, y} THEN "indeterminate"
  ELSE verdict

Negation(x) == IF x \in {"error", "indeterminate"} THEN x ELSE Verdict(x = "violated")
Connection(op, x, y) ==
  Both(x, y, Verdict(IF op = "and" THEN {x, y} = {"satisfied"} ELSE "satisfied" \in {x, y}))
Comparing(op, a, b) == Both(a.status, b.status, Verdict(Compare(op, a.value, b.value)))

TruthOf(e, num, truth, i) ==
  LET op == e[i].op
      args == e[i].args
  IN  CASE op = "not" /\ Len(args) = 1 -> Negation(truth[args[1]])
        [] op \in Logical /\ Len(args) = 2 -> Connection(op, truth[args[1]], truth[args[2]])
        [] op \in Comparison /\ Len(args) = 2 -> Comparing(op, num[args[1]], num[args[2]])
        [] OTHER -> "error"

EvalBool(e, data) ==
  LET truth[i \in DOMAIN e] == TruthOf(e, EvalNum(e, data), truth, i) IN truth

evaluate(e, data) == EvalBool(e, data)[Len(e)]

=============================================================================
