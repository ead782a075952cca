---------------------------- MODULE Rules_proofs ----------------------------
(***************************************************************************)
(* Proofs about constraints: their life (Governance), for any number of    *)
(* rules and principals, and their evaluation (RuleCheck), for any rule    *)
(* bodies, bindings and statements.                                        *)
(***************************************************************************)
EXTENDS Governance, RuleCheck, FiniteSetTheorems, NaturalsInduction, TLAPS

-----------------------------------------------------------------------------
(* The life of constraints *)

TypesOK ==
  /\ activation \in [RuleIds -> ConstraintState \cup {"absent"}]
  /\ approver \in [RuleIds -> Approvers]
  /\ stamped \in [RuleIds -> BOOLEAN]
  /\ decided \subseteq RuleIds \X Humans

\* A rule that has decided has been active, under the approver it still has.
DecisionsStand ==
  \A d \in decided :
    /\ activation[d[1]] \in {"active", "deprecated", "retired"}
    /\ approver[d[1]] = d[2]

\* An identity not yet used has no stamp.
UnusedIsBlank ==
  \A c \in RuleIds : activation[c] = "absent" => ~stamped[c]

IInv == TypesOK /\ DecisionsStand /\ UnusedIsBlank /\ StampIsHuman

\* With no constraint yet, the invariant holds.
LEMMA InitIInv == Init => IInv
  BY DEF Init, IInv, TypesOK, DecisionsStand, UnusedIsBlank, StampIsHuman, Approvers

\* addConstraint keeps it.
LEMMA AddIInv ==
  ASSUME IInv, NEW c \in RuleIds, NEW st \in ConstraintState, NEW by \in Approvers,
         AddConstraint(c, st, by)
  PROVE  IInv'
<1>1. TypesOK'
  BY DEF AddConstraint, IInv, TypesOK
<1>2. \A d \in decided : d[1] \in RuleIds /\ d[1] # c
  BY DEF AddConstraint, IInv, TypesOK, DecisionsStand
<1>3. DecisionsStand' /\ UnusedIsBlank'
  BY <1>2 DEF AddConstraint, IInv, TypesOK, DecisionsStand, UnusedIsBlank, ConstraintState
<1>4. StampIsHuman'
  BY <1>2 DEF AddConstraint, IInv, TypesOK, StampIsHuman
<1> QED
  BY <1>1, <1>3, <1>4 DEF IInv

\* transitionConstraintState keeps it.
LEMMA TransitionIInv ==
  ASSUME IInv, NEW c \in RuleIds, NEW st \in ConstraintState, NEW by \in Approvers,
         TransitionConstraint(c, st, by)
  PROVE  IInv'
<1> DEFINE asks == st = "active" /\ approver[c] = NoOne
<1>1. /\ activation[c] \in ConstraintState /\ st \in ConstraintTransitions[activation[c]]
      /\ asks => by \in Humans
      /\ activation' = [activation EXCEPT ![c] = st]
      /\ approver' = [approver EXCEPT ![c] = IF asks THEN by ELSE approver[c]]
      /\ stamped' = [stamped EXCEPT ![c] = stamped[c] \/ asks]
      /\ decided' = decided
  BY DEF TransitionConstraint, CanTransitionConstraint, IInv, TypesOK
<1> HIDE DEF asks
<1>2. TypesOK'
  BY <1>1 DEF IInv, TypesOK
<1>3. \A d \in decided : d[1] \in RuleIds /\ d[2] \in Humans /\ approver[d[1]] # NoOne
  BY GovernanceAssumption DEF IInv, TypesOK, DecisionsStand
<1>4. activation[c] \in {"active", "deprecated", "retired"} =>
        st \in {"active", "deprecated", "retired"}
  BY <1>1 DEF ConstraintTransitions
<1>5. asks => approver[c] = NoOne
  BY DEF asks
<1>6. DecisionsStand'
  BY <1>1, <1>3, <1>4, <1>5 DEF IInv, TypesOK, DecisionsStand
<1>7. UnusedIsBlank'
  BY <1>1 DEF IInv, TypesOK, UnusedIsBlank, ConstraintState
<1>8. StampIsHuman'
  BY <1>1, <1>3, <1>4, <1>5 DEF IInv, TypesOK, StampIsHuman
<1> QED
  BY <1>2, <1>6, <1>7, <1>8 DEF IInv

\* A decision by an active rule keeps it.
LEMMA DecideIInv ==
  ASSUME IInv, NEW c \in RuleIds, DecideConflict(c)
  PROVE  IInv'
  BY DEF DecideConflict, IInv, TypesOK, DecisionsStand, UnusedIsBlank, StampIsHuman

\* The inductive invariant holds in every reachable state.
THEOREM Invariance == Spec => []IInv
<1>1. ASSUME IInv, [Next]_rulesVars
      PROVE  IInv'
  <2>1. CASE Next
    BY <1>1, <2>1, AddIInv, TransitionIInv, DecideIInv DEF Next
  <2>2. CASE UNCHANGED rulesVars
    BY <1>1, <2>2 DEF rulesVars, IInv, TypesOK, DecisionsStand, UnusedIsBlank, StampIsHuman
  <2> QED
    BY <1>1, <2>1, <2>2
<1> QED
  BY InitIInv, <1>1, PTL DEF Spec

\* Whatever is activated, deprecated or approved again, all the conflicts a
\* rule decides are decided in the name of one human, the one it is under now.
THEOREM DecisionsHaveOneAuthor == Spec => []OneApproverPerRule
<1>1. IInv => OneApproverPerRule
  BY DEF IInv, TypesOK, DecisionsStand, OneApproverPerRule
<1> QED
  BY <1>1, Invariance, PTL

\* approved_at is the trace of a human, and what decided a conflict was active.
THEOREM ApprovalIsHuman == Spec => []StampIsHuman
<1>1. IInv => StampIsHuman
  BY DEF IInv
<1> QED
  BY <1>1, Invariance, PTL

-----------------------------------------------------------------------------
(* What the two evaluators compute *)

\* Every set of naturals with a member has a least one.
LEMMA LeastMember ==
  ASSUME NEW S \in SUBSET Nat, S # {}
  PROVE  \E m \in S : \A k \in S : ~ (k < m)
<1>1. PICK m \in S : \A k \in S : ~ (<<k, m>> \in OpToRel(<, Nat))
  BY NatLessThanWellFounded, WFMin
<1>. QED BY <1>1 DEF OpToRel

\* The arguments of a node come before it.
LEMMA ArgumentsBefore ==
  ASSUME NEW e, IsExpression(e), NEW i \in DOMAIN e, e[i].op \notin {"num", "ref"}
  PROVE  /\ i \in Nat /\ i <= Len(e) /\ Len(e) \in Nat
         /\ e[i].args \in Seq(Nat \ {0})
         /\ \A k \in DOMAIN e[i].args :
              e[i].args[k] \in DOMAIN e /\ e[i].args[k] < i /\ e[i].args[k] \in ArgsOf(e[i])
<1>1. /\ i \in Nat /\ i <= Len(e) /\ Len(e) \in Nat /\ DOMAIN e = 1..Len(e) /\ e[i] \in NodeType
  BY DEF IsExpression
<1>2. e[i].args \in Seq(Nat \ {0})
  BY <1>1 DEF NodeType
<1>3. ArgsOf(e[i]) = ToSet(e[i].args)
  BY DEF ArgsOf
<1>4. \A k \in DOMAIN e[i].args : e[i].args[k] \in ArgsOf(e[i]) /\ e[i].args[k] \in Nat \ {0}
  BY <1>2, <1>3 DEF ToSet
<1>5. \A a \in ArgsOf(e[i]) : a < i
  BY DEF IsExpression
<1>. QED BY <1>1, <1>2, <1>4, <1>5

\* A step looks at the arguments only.
LEMMA StepsAreLocal ==
  ASSUME NEW e, IsExpression(e), NEW i \in DOMAIN e, NEW f, NEW g,
         \A a \in ArgsOf(e[i]) : f[a] = g[a]
  PROVE  /\ \A data : NumOf(e, data, f, i) = NumOf(e, data, g, i)
         /\ \A num : TruthOf(e, num, f, i) = TruthOf(e, num, g, i)
<1>1. CASE e[i].op \in {"num", "ref"}
  BY <1>1 DEF NumOf, TruthOf, Aggregation, Arithmetic, Logical, Comparison
<1>2. CASE e[i].op \notin {"num", "ref"}
  <2>1. /\ e[i].args \in Seq(Nat \ {0})
        /\ \A k \in DOMAIN e[i].args : f[e[i].args[k]] = g[e[i].args[k]]
    BY <1>2, ArgumentsBefore
  <2>2. Len(e[i].args) = 1 => f[e[i].args[1]] = g[e[i].args[1]]
    BY <2>1
  <2>3. Len(e[i].args) = 2 =>
          f[e[i].args[1]] = g[e[i].args[1]] /\ f[e[i].args[2]] = g[e[i].args[2]]
    BY <2>1
  <2>. QED BY <1>2, <2>2, <2>3 DEF NumOf, TruthOf
<1>. QED BY <1>1, <1>2

\* The numeric layer is defined for every expression.
LEMMA NumDefined ==
  ASSUME NEW e, IsExpression(e), NEW data
  PROVE  EvalNum(e, data) = [i \in DOMAIN e |-> NumOf(e, data, EvalNum(e, data), i)]
<1> DEFINE Fits(f, m) == f = [i \in 1..m |-> NumOf(e, data, f, i)]
           Without == {m \in 0..Len(e) : \A f : ~Fits(f, m)}
<1>1. Len(e) \in Nat /\ DOMAIN e = 1..Len(e)
  BY DEF IsExpression
<1>2. Without = {}
  <2> SUFFICES ASSUME Without # {} PROVE FALSE
    OBVIOUS
  <2>1. Without \in SUBSET Nat
    BY <1>1
  <2>2. PICK m \in Without : \A k \in Without : ~ (k < m)
    <3> HIDE DEF Without
    <3>. QED BY <2>1, LeastMember
  <2>3. m \in 0..Len(e) /\ \A f : ~Fits(f, m)
    OBVIOUS
  <2>4. CASE m = 0
    <3>1. Fits([i \in 1..0 |-> 0], 0)
      OBVIOUS
    <3>. QED BY <2>3, <2>4, <3>1
  <2>5. CASE m # 0
    <3>1. m \in Nat /\ m - 1 \in 0..Len(e) /\ m - 1 < m /\ m \in DOMAIN e
      BY <1>1, <2>3, <2>5
    <3>2. PICK g : Fits(g, m - 1)
      BY <2>2, <3>1
    <3> DEFINE f == [i \in 1..m |-> IF i < m THEN g[i] ELSE NumOf(e, data, g, m)]
    <3>3. ASSUME NEW i \in 1..m PROVE f[i] = NumOf(e, data, f, i)
      <4>1. i \in DOMAIN e
        BY <1>1, <2>3
      <4>2. \A a \in ArgsOf(e[i]) : a \in 1..m /\ a < m
        <5>1. \A a \in ArgsOf(e[i]) : a < i
          BY <4>1 DEF IsExpression
        <5>2. \A a \in ArgsOf(e[i]) : a \in Nat \ {0}
          <6>1. e[i].op \notin {"num", "ref"} => e[i].args \in Seq(Nat \ {0})
            BY <4>1, ArgumentsBefore
          <6>. QED BY <6>1 DEF ArgsOf, ToSet
        <5>. QED BY <3>1, <5>1, <5>2
      <4>3. \A a \in ArgsOf(e[i]) : f[a] = g[a]
        BY <4>2
      <4>4. NumOf(e, data, f, i) = NumOf(e, data, g, i)
        <5> HIDE DEF f
        <5>. QED BY <4>1, <4>3, StepsAreLocal
      <4>5. CASE i = m
        <5>1. f[i] = NumOf(e, data, g, i)
          BY <3>1, <4>5
        <5>. QED BY <4>4, <5>1
      <4>6. CASE i # m
        <5>1. i < m /\ i \in 1..m - 1
          BY <3>1, <4>6
        <5>2. g[i] = NumOf(e, data, g, i)
          BY <3>2, <5>1
        <5>. QED BY <4>4, <5>1, <5>2
      <4>. QED BY <4>5, <4>6
    <3>4. Fits(f, m)
      <4>1. f = [i \in 1..m |-> f[i]]
        OBVIOUS
      <4> HIDE DEF f
      <4>. QED BY <3>3, <4>1
    <3> HIDE DEF f
    <3>. QED BY <2>3, <3>4
  <2>. QED BY <2>4, <2>5
<1>3. \E f : Fits(f, Len(e))
  BY <1>1, <1>2
<1>4. EvalNum(e, data) = CHOOSE f : Fits(f, Len(e))
  <2>1. EvalNum(e, data) = CHOOSE f : f = [i \in DOMAIN e |-> NumOf(e, data, f, i)]
    BY DEF EvalNum
  <2>. QED BY <1>1, <2>1
<1>5. Fits(EvalNum(e, data), Len(e))
  <2> HIDE DEF Fits
  <2>. QED BY <1>3, <1>4
<1>. QED BY <1>1, <1>5

\* So is the boolean layer.
LEMMA TruthDefined ==
  ASSUME NEW e, IsExpression(e), NEW data
  PROVE  EvalBool(e, data) =
           [i \in DOMAIN e |-> TruthOf(e, EvalNum(e, data), EvalBool(e, data), i)]
<1> DEFINE num == EvalNum(e, data)
           Fits(f, m) == f = [i \in 1..m |-> TruthOf(e, num, f, i)]
           Without == {m \in 0..Len(e) : \A f : ~Fits(f, m)}
<1>1. Len(e) \in Nat /\ DOMAIN e = 1..Len(e)
  BY DEF IsExpression
<1>2. Without = {}
  <2> SUFFICES ASSUME Without # {} PROVE FALSE
    OBVIOUS
  <2>1. Without \in SUBSET Nat
    BY <1>1
  <2>2. PICK m \in Without : \A k \in Without : ~ (k < m)
    <3> HIDE DEF Without
    <3>. QED BY <2>1, LeastMember
  <2>3. m \in 0..Len(e) /\ \A f : ~Fits(f, m)
    OBVIOUS
  <2>4. CASE m = 0
    <3>1. Fits([i \in 1..0 |-> 0], 0)
      OBVIOUS
    <3>. QED BY <2>3, <2>4, <3>1
  <2>5. CASE m # 0
    <3>1. m \in Nat /\ m - 1 \in 0..Len(e) /\ m - 1 < m /\ m \in DOMAIN e
      BY <1>1, <2>3, <2>5
    <3>2. PICK g : Fits(g, m - 1)
      BY <2>2, <3>1
    <3> DEFINE f == [i \in 1..m |-> IF i < m THEN g[i] ELSE TruthOf(e, num, g, m)]
    <3>3. ASSUME NEW i \in 1..m PROVE f[i] = TruthOf(e, num, f, i)
      <4>1. i \in DOMAIN e
        BY <1>1, <2>3
      <4>2. \A a \in ArgsOf(e[i]) : a \in 1..m /\ a < m
        <5>1. \A a \in ArgsOf(e[i]) : a < i
          BY <4>1 DEF IsExpression
        <5>2. \A a \in ArgsOf(e[i]) : a \in Nat \ {0}
          <6>1. e[i].op \notin {"num", "ref"} => e[i].args \in Seq(Nat \ {0})
            BY <4>1, ArgumentsBefore
          <6>. QED BY <6>1 DEF ArgsOf, ToSet
        <5>. QED BY <3>1, <5>1, <5>2
      <4>3. \A a \in ArgsOf(e[i]) : f[a] = g[a]
        BY <4>2
      <4>4. TruthOf(e, num, f, i) = TruthOf(e, num, g, i)
        <5> HIDE DEF f
        <5>. QED BY <4>1, <4>3, StepsAreLocal
      <4>5. CASE i = m
        <5>1. f[i] = TruthOf(e, num, g, i)
          BY <3>1, <4>5
        <5>. QED BY <4>4, <5>1
      <4>6. CASE i # m
        <5>1. i < m /\ i \in 1..m - 1
          BY <3>1, <4>6
        <5>2. g[i] = TruthOf(e, num, g, i)
          BY <3>2, <5>1
        <5>. QED BY <4>4, <5>1, <5>2
      <4>. QED BY <4>5, <4>6
    <3>4. Fits(f, m)
      <4>1. f = [i \in 1..m |-> f[i]]
        OBVIOUS
      <4> HIDE DEF f
      <4>. QED BY <3>3, <4>1
    <3> HIDE DEF f
    <3>. QED BY <2>3, <3>4
  <2>. QED BY <2>4, <2>5
<1>3. \E f : Fits(f, Len(e))
  BY <1>1, <1>2
<1>4. EvalBool(e, data) = CHOOSE f : Fits(f, Len(e))
  BY <1>1 DEF EvalBool
<1>5. Fits(EvalBool(e, data), Len(e))
  <2> HIDE DEF Fits
  <2>. QED BY <1>3, <1>4
<1>. QED BY <1>1, <1>5

Statuses == {"value", "indeterminate", "error"}
Verdicts == {"satisfied", "violated"}

\* What each operator makes of its operands.
LEMMA Outcomes ==
  /\ \A q : ValueOf(q).status = "value"
  /\ Missing.status = "indeterminate" /\ Malformed.status = "error"
  /\ \A op \in Arithmetic : \A p, q : Calculate(op, p, q).status \in {"value", "error"}
  /\ \A op, a, b : Arithmetical(op, a, b) =
       IF a.status # "value" THEN a
       ELSE IF b.status # "value" THEN b ELSE Calculate(op, a.value, b.value)
  /\ \A x, y : \A v \in Verdicts :
       /\ Both(x, y, v) \in EvaluationResult
       /\ Both(x, y, v) \in Verdicts <=> {x, y} \cap {"error", "indeterminate"} = {}
       /\ Both(x, y, v) = "indeterminate" => "indeterminate" \in {x, y}
  /\ \A holds : Verdict(holds) \in Verdicts
<1>1. /\ \A q : ValueOf(q).status = "value"
      /\ Missing.status = "indeterminate" /\ Malformed.status = "error"
  BY DEF ValueOf, Missing, Malformed
<1>2. \A op \in Arithmetic : \A p, q : Calculate(op, p, q).status \in {"value", "error"}
  BY DEF Calculate, ValueOf, Malformed, Arithmetic
<1>3. \A x, y : \A v \in Verdicts :
        /\ Both(x, y, v) \in EvaluationResult
        /\ Both(x, y, v) \in Verdicts <=> {x, y} \cap {"error", "indeterminate"} = {}
        /\ Both(x, y, v) = "indeterminate" => "indeterminate" \in {x, y}
  BY DEF Both, Verdicts, EvaluationResult
<1>4. \A holds : Verdict(holds) \in Verdicts
  BY DEF Verdict, Verdicts
<1>. QED BY <1>1, <1>2, <1>3, <1>4 DEF Arithmetical

\* A node of the numeric layer by its kind.
LEMMA NumAt ==
  ASSUME NEW e, IsExpression(e), NEW data, NEW i \in DOMAIN e
  PROVE  LET num == EvalNum(e, data)
             op == e[i].op
             args == e[i].args
         IN  \/ op = "num" /\ num[i].status = "value"
             \/ /\ op \in Aggregation /\ Len(args) = 1 /\ e[args[1]].op = "ref"
                /\ num[i] = Reading(op, e[args[1]].name, data)
             \/ /\ op \in Arithmetic /\ Len(args) = 2
                /\ num[i] = Arithmetical(op, num[args[1]], num[args[2]])
             \/ num[i].status = "error"
<1>1. EvalNum(e, data)[i] = NumOf(e, data, EvalNum(e, data), i)
  BY NumDefined
<1>. QED BY <1>1, Outcomes DEF NumOf

\* A node of the boolean layer by its kind.
LEMMA TruthAt ==
  ASSUME NEW e, IsExpression(e), NEW data, NEW i \in DOMAIN e
  PROVE  LET num == EvalNum(e, data)
             truth == EvalBool(e, data)
             op == e[i].op
             args == e[i].args
         IN  \/ /\ op = "not" /\ Len(args) = 1
                /\ truth[i] = Negation(truth[args[1]])
             \/ /\ op \in Logical /\ Len(args) = 2
                /\ truth[i] = Connection(op, truth[args[1]], truth[args[2]])
             \/ /\ op \in Comparison /\ Len(args) = 2
                /\ truth[i] = Comparing(op, num[args[1]], num[args[2]])
             \/ truth[i] = "error"
<1>1. EvalBool(e, data)[i] = TruthOf(e, EvalNum(e, data), EvalBool(e, data), i)
  BY TruthDefined
<1>. QED BY <1>1 DEF TruthOf

\* Every numeric node has a value, misses data or is malformed, and every boolean
\* one has one of the four outcomes.
LEMMA FourOutcomes ==
  ASSUME NEW e, IsExpression(e), NEW data
  PROVE  /\ \A i \in DOMAIN e : EvalNum(e, data)[i].status \in Statuses
         /\ \A i \in DOMAIN e : EvalBool(e, data)[i] \in EvaluationResult
<1> DEFINE num == EvalNum(e, data)
           Odd == {i \in DOMAIN e : num[i].status \notin Statuses}
<1>1. \A i \in DOMAIN e : num[i].status \in Statuses
  <2> SUFFICES ASSUME Odd # {} PROVE FALSE
    OBVIOUS
  <2>1. Odd \in SUBSET Nat
    BY DEF IsExpression
  <2>2. PICK i \in Odd : \A k \in Odd : ~ (k < i)
    <3> HIDE DEF Odd
    <3>. QED BY <2>1, LeastMember
  <2>3. i \in DOMAIN e /\ num[i].status \notin Statuses
    OBVIOUS
  <2>4. /\ e[i].op \in Arithmetic /\ Len(e[i].args) = 2
        /\ num[i] = Arithmetical(e[i].op, num[e[i].args[1]], num[e[i].args[2]])
    BY <2>3, NumAt, Outcomes DEF Reading, Statuses
  <2>5. \A k \in {1, 2} : num[e[i].args[k]].status \in Statuses
    <3>1. e[i].op \notin {"num", "ref"}
      BY <2>4 DEF Arithmetic
    <3>2. \A k \in {1, 2} : e[i].args[k] \in DOMAIN e /\ e[i].args[k] < i
      BY <2>3, <2>4, <3>1, ArgumentsBefore
    <3>. QED BY <2>2, <3>2
  <2>. QED BY <2>3, <2>4, <2>5, Outcomes DEF Statuses
<1>2. ASSUME NEW i \in DOMAIN e PROVE EvalBool(e, data)[i] \in EvaluationResult
  <2>1. \A x : Negation(x) \in EvaluationResult
    BY DEF Negation, Verdict, EvaluationResult
  <2>2. \A op, x, y : Connection(op, x, y) \in EvaluationResult
    BY Outcomes DEF Connection
  <2>3. \A op, a, b : Comparing(op, a, b) \in EvaluationResult
    BY Outcomes DEF Comparing
  <2>. QED BY <2>1, <2>2, <2>3, TruthAt DEF EvaluationResult
<1>. QED BY <1>1, <1>2

-----------------------------------------------------------------------------
(* What a verdict rests on *)

\* A node with a value or verdict, or a reference to data.
Answered(e, data, i) ==
  \/ EvalNum(e, data)[i].status = "value"
  \/ EvalBool(e, data)[i] \in Verdicts
  \/ e[i].op = "ref" /\ e[i].name \in DOMAIN data /\ data[e[i].name] # <<>>

\* If a node is answered, it is well formed, and its arguments are answered.
LEMMA AnsweredDown ==
  ASSUME NEW e, IsExpression(e), NEW data, NEW i \in DOMAIN e, Answered(e, data, i)
  PROVE  /\ e[i].op \in Whitelist
         /\ e[i].op = "ref" => e[i].name \in DOMAIN data /\ data[e[i].name] # <<>>
         /\ \A a \in ArgsOf(e[i]) : Answered(e, data, a)
<1> DEFINE num == EvalNum(e, data)
           truth == EvalBool(e, data)
           op == e[i].op
           args == e[i].args
<1>1. ASSUME op \notin {"num", "ref"}
      PROVE  /\ Len(args) = 1 => ArgsOf(e[i]) = {args[1]}
             /\ Len(args) = 2 => ArgsOf(e[i]) = {args[1], args[2]}
             /\ \A a \in ArgsOf(e[i]) : a \in DOMAIN e
  <2>1. args \in Seq(Nat \ {0}) /\ \A k \in DOMAIN args : args[k] \in DOMAIN e
    BY <1>1, ArgumentsBefore
  <2>2. ArgsOf(e[i]) = {args[k] : k \in DOMAIN args}
    BY <1>1 DEF ArgsOf, ToSet
  <2>. QED BY <2>1, <2>2
<1>2. CASE num[i].status = "value"
  <2>1. CASE op = "num"
    BY <2>1 DEF Whitelist, ArgsOf
  <2>2. CASE /\ op \in Aggregation /\ Len(args) = 1 /\ e[args[1]].op = "ref"
             /\ num[i] = Reading(op, e[args[1]].name, data)
    <3>1. e[args[1]].name \in DOMAIN data /\ data[e[args[1]].name] # <<>>
      BY <1>2, <2>2, Outcomes DEF Reading
    <3>2. op \notin {"num", "ref"} /\ op \in Whitelist
      BY <2>2 DEF Aggregation, Whitelist
    <3>. QED BY <1>1, <2>2, <3>1, <3>2 DEF Answered
  <2>3. CASE /\ op \in Arithmetic /\ Len(args) = 2
             /\ num[i] = Arithmetical(op, num[args[1]], num[args[2]])
    <3>1. num[args[1]].status = "value" /\ num[args[2]].status = "value"
      BY <1>2, <2>3, Outcomes
    <3>2. op \notin {"num", "ref"} /\ op \in Whitelist
      BY <2>3 DEF Arithmetic, Whitelist
    <3>. QED BY <1>1, <2>3, <3>1, <3>2 DEF Answered
  <2>. QED BY <1>2, <2>1, <2>2, <2>3, NumAt
<1>3. CASE truth[i] \in Verdicts
  <2>1. CASE op = "not" /\ Len(args) = 1 /\ truth[i] = Negation(truth[args[1]])
    <3>1. op \notin {"num", "ref"} /\ op \in Whitelist
      BY <2>1 DEF Whitelist
    <3>2. truth[args[1]] \in EvaluationResult
      BY <1>1, <2>1, <3>1, FourOutcomes
    <3>3. truth[args[1]] \in Verdicts
      BY <1>3, <2>1, <3>2 DEF Negation, Verdicts, EvaluationResult
    <3>. QED BY <1>1, <2>1, <3>1, <3>3 DEF Answered
  <2>2. CASE /\ op \in Logical /\ Len(args) = 2
             /\ truth[i] = Connection(op, truth[args[1]], truth[args[2]])
    <3>1. op \notin {"num", "ref"} /\ op \in Whitelist
      BY <2>2 DEF Logical, Whitelist
    <3>2. truth[args[1]] \in EvaluationResult /\ truth[args[2]] \in EvaluationResult
      BY <1>1, <2>2, <3>1, FourOutcomes
    <3>3. {truth[args[1]], truth[args[2]]} \cap {"error", "indeterminate"} = {}
      BY <1>3, <2>2, Outcomes DEF Connection
    <3>4. truth[args[1]] \in Verdicts /\ truth[args[2]] \in Verdicts
      BY <3>2, <3>3 DEF Verdicts, EvaluationResult
    <3>. QED BY <1>1, <2>2, <3>1, <3>4 DEF Answered
  <2>3. CASE /\ op \in Comparison /\ Len(args) = 2
             /\ truth[i] = Comparing(op, num[args[1]], num[args[2]])
    <3>1. op \notin {"num", "ref"} /\ op \in Whitelist
      BY <2>3 DEF Comparison, Whitelist
    <3>2. num[args[1]].status \in Statuses /\ num[args[2]].status \in Statuses
      BY <1>1, <2>3, <3>1, FourOutcomes
    <3>3. {num[args[1]].status, num[args[2]].status} \cap {"error", "indeterminate"} = {}
      BY <1>3, <2>3, Outcomes DEF Comparing
    <3>4. num[args[1]].status = "value" /\ num[args[2]].status = "value"
      BY <3>2, <3>3 DEF Statuses
    <3>. QED BY <1>1, <2>3, <3>1, <3>4 DEF Answered
  <2>. QED BY <1>3, <2>1, <2>2, <2>3, TruthAt DEF Verdicts
<1>4. CASE op = "ref" /\ e[i].name \in DOMAIN data /\ data[e[i].name] # <<>>
  BY <1>4 DEF Whitelist, ArgsOf
<1>. QED BY <1>2, <1>3, <1>4 DEF Answered

\* So a verdict on an expression rests on all of its nodes.
LEMMA VerdictNeedsAll ==
  ASSUME NEW e, IsExpression(e), NEW data, evaluate(e, data) \in Verdicts
  PROVE  \A i \in DOMAIN e : Answered(e, data, i)
<1> DEFINE n == Len(e)
           Distances == {d \in Nat : n - d \in DOMAIN e /\ ~Answered(e, data, n - d)}
<1>1. n \in Nat \ {0} /\ DOMAIN e = 1..n
  BY DEF IsExpression
<1>2. Answered(e, data, n)
  BY DEF Answered, evaluate
<1>3. Distances = {}
  <2> SUFFICES ASSUME Distances # {} PROVE FALSE
    OBVIOUS
  <2>1. Distances \in SUBSET Nat
    OBVIOUS
  <2>2. PICK d \in Distances : \A k \in Distances : ~ (k < d)
    <3> HIDE DEF Distances
    <3>. QED BY <2>1, LeastMember
  <2> DEFINE i == n - d
  <2>3. d \in Nat /\ i \in DOMAIN e /\ ~Answered(e, data, i)
    OBVIOUS
  <2>4. i \in 1..n - 1
    <3>1. i # n
      BY <1>2, <2>3
    <3>2. i \in 1..n /\ i = n - d
      BY <1>1, <2>3
    <3> HIDE DEF i, n
    <3>. QED BY <1>1, <3>1, <3>2
  <2>5. PICK j \in DOMAIN e : i \in ArgsOf(e[j])
    BY <2>4 DEF IsExpression
  <2>6. i < j
    BY <2>5 DEF IsExpression
  <2>7. n - j \in Nat /\ n - j < d /\ n - (n - j) = j
    BY <1>1, <2>3, <2>5, <2>6
  <2>8. Answered(e, data, j)
    BY <2>2, <2>5, <2>7
  <2>. QED BY <2>3, <2>5, <2>8, AnsweredDown
<1>4. \A i \in DOMAIN e : n - i \in Nat /\ n - (n - i) = i
  BY <1>1
<1> HIDE DEF n
<1>. QED BY <1>3, <1>4

\* Data is missing only if a dimension that is read has none.
LEMMA MissingHasACause ==
  ASSUME NEW e, IsExpression(e), NEW data,
         \A name \in Names(e) : name \in DOMAIN data => data[name] # <<>>
  PROVE  evaluate(e, data) # "indeterminate"
<1> DEFINE num == EvalNum(e, data)
           truth == EvalBool(e, data)
           Blind == {i \in DOMAIN e : num[i].status = "indeterminate" \/ truth[i] = "indeterminate"}
<1>1. Blind = {}
  <2> SUFFICES ASSUME Blind # {} PROVE FALSE
    OBVIOUS
  <2>1. Blind \in SUBSET Nat
    BY DEF IsExpression
  <2>2. PICK i \in Blind : \A k \in Blind : ~ (k < i)
    <3> HIDE DEF Blind
    <3>. QED BY <2>1, LeastMember
  <2> DEFINE op == e[i].op
             args == e[i].args
  <2>3. i \in DOMAIN e
    OBVIOUS
  <2>4. ASSUME op \notin {"num", "ref"}, NEW k \in 1..Len(args)
        PROVE  /\ args[k] \in DOMAIN e
               /\ num[args[k]].status # "indeterminate" /\ truth[args[k]] # "indeterminate"
    <3>1. args[k] \in DOMAIN e /\ args[k] < i
      BY <2>3, <2>4, ArgumentsBefore
    <3>. QED BY <2>2, <3>1
  <2>5. CASE num[i].status = "indeterminate"
    <3>1. CASE /\ op \in Aggregation /\ Len(args) = 1 /\ e[args[1]].op = "ref"
               /\ num[i] = Reading(op, e[args[1]].name, data)
      <4>1. op \notin {"num", "ref"}
        BY <3>1 DEF Aggregation
      <4>2. args[1] \in DOMAIN e
        BY <2>4, <3>1, <4>1
      <4>3. e[args[1]].name \in Names(e)
        BY <3>1, <4>2 DEF Names
      <4>. QED BY <2>5, <3>1, <4>3, Outcomes DEF Reading
    <3>2. CASE /\ op \in Arithmetic /\ Len(args) = 2
               /\ num[i] = Arithmetical(op, num[args[1]], num[args[2]])
      <4>1. op \notin {"num", "ref"}
        BY <3>2 DEF Arithmetic
      <4>2. num[args[1]].status # "indeterminate" /\ num[args[2]].status # "indeterminate"
        BY <2>4, <3>2, <4>1
      <4>. QED BY <2>5, <3>2, <4>2, Outcomes
    <3>. QED BY <2>3, <2>5, <3>1, <3>2, NumAt
  <2>6. CASE truth[i] = "indeterminate"
    <3>1. CASE op = "not" /\ Len(args) = 1 /\ truth[i] = Negation(truth[args[1]])
      <4>1. truth[args[1]] # "indeterminate"
        BY <2>4, <3>1
      <4>. QED BY <2>6, <3>1, <4>1, Outcomes DEF Negation, Verdicts
    <3>2. CASE /\ op \in Logical /\ Len(args) = 2
               /\ truth[i] = Connection(op, truth[args[1]], truth[args[2]])
      <4>1. op \notin {"num", "ref"}
        BY <3>2 DEF Logical
      <4>2. truth[args[1]] # "indeterminate" /\ truth[args[2]] # "indeterminate"
        BY <2>4, <3>2, <4>1
      <4>. QED BY <2>6, <3>2, <4>2, Outcomes DEF Connection
    <3>3. CASE /\ op \in Comparison /\ Len(args) = 2
               /\ truth[i] = Comparing(op, num[args[1]], num[args[2]])
      <4>1. op \notin {"num", "ref"}
        BY <3>3 DEF Comparison
      <4>2. num[args[1]].status # "indeterminate" /\ num[args[2]].status # "indeterminate"
        BY <2>4, <3>3, <4>1
      <4>. QED BY <2>6, <3>3, <4>2, Outcomes DEF Comparing
    <3>. QED BY <2>3, <2>6, <3>1, <3>2, <3>3, TruthAt
  <2>. QED BY <2>5, <2>6
<1>2. Len(e) \in DOMAIN e
  BY DEF IsExpression
<1>. QED BY <1>1, <1>2 DEF evaluate

-----------------------------------------------------------------------------
(* Expressions inside expressions *)

\* The nodes of e are those of t after the first k.
StandsIn(e, t, k) == \A i \in DOMAIN e : k + i \in DOMAIN t /\ t[k + i] = Shift(e[i], k)
EvaluatesThere(e, t, k, data) ==
  \A i \in DOMAIN e : /\ EvalNum(t, data)[k + i] = EvalNum(e, data)[i]
                      /\ EvalBool(t, data)[k + i] = EvalBool(e, data)[i]

\* An expression evaluates to the same wherever it stands.
LEMMA Embedded ==
  ASSUME NEW e, IsExpression(e), NEW t, IsExpression(t), NEW data, NEW k \in Nat,
         StandsIn(e, t, k)
  PROVE  EvaluatesThere(e, t, k, data)
<1> DEFINE num == EvalNum(e, data)
           truth == EvalBool(e, data)
           numT == EvalNum(t, data)
           truthT == EvalBool(t, data)
           Apart == {i \in DOMAIN e : numT[k + i] # num[i] \/ truthT[k + i] # truth[i]}
<1>1. Apart = {}
  <2> SUFFICES ASSUME Apart # {} PROVE FALSE
    OBVIOUS
  <2>1. Apart \in SUBSET Nat
    BY DEF IsExpression
  <2>2. PICK i \in Apart : \A j \in Apart : ~ (j < i)
    <3> HIDE DEF Apart
    <3>. QED BY <2>1, LeastMember
  <2>3. i \in DOMAIN e /\ k + i \in DOMAIN t /\ t[k + i] = Shift(e[i], k)
    BY DEF StandsIn
  <2>4. /\ num[i] = NumOf(e, data, num, i) /\ truth[i] = TruthOf(e, num, truth, i)
        /\ numT[k + i] = NumOf(t, data, numT, k + i)
        /\ truthT[k + i] = TruthOf(t, numT, truthT, k + i)
    BY <2>3, NumDefined, TruthDefined
  <2> DEFINE op == e[i].op
             args == e[i].args
  <2>5. CASE op \in {"num", "ref"}
    <3>1. t[k + i] = e[i]
      BY <2>3, <2>5 DEF Shift
    <3>. QED
      BY <2>4, <2>5, <3>1 DEF NumOf, TruthOf, Aggregation, Arithmetic, Logical, Comparison
  <2>6. CASE op \notin {"num", "ref"}
    <3>1. /\ e[i] \in [op : Operators, args : Seq(Nat \ {0})]
          /\ args \in Seq(Nat \ {0})
      BY <2>3, <2>6 DEF IsExpression, NodeType
    <3>2. t[k + i].op = op /\ t[k + i].args = [a \in DOMAIN args |-> args[a] + k]
      BY <2>3, <2>6, <3>1 DEF Shift
    <3>3. Len(t[k + i].args) = Len(args) /\ \A a \in DOMAIN args : t[k + i].args[a] = k + args[a]
      BY <3>1, <3>2
    <3>4. ASSUME NEW a \in DOMAIN args
          PROVE  /\ numT[t[k + i].args[a]] = num[args[a]]
                 /\ truthT[t[k + i].args[a]] = truth[args[a]]
                 /\ t[t[k + i].args[a]].op = e[args[a]].op
                 /\ e[args[a]].op = "ref" => t[t[k + i].args[a]].name = e[args[a]].name
      <4>1. args[a] \in DOMAIN e /\ args[a] < i
        BY <2>3, <2>6, ArgumentsBefore
      <4>2. args[a] \notin Apart
        BY <2>2, <4>1
      <4>3. t[k + args[a]] = Shift(e[args[a]], k) /\ e[args[a]] \in NodeType
        BY <4>1 DEF StandsIn, IsExpression
      <4>4. /\ t[k + args[a]].op = e[args[a]].op
            /\ e[args[a]].op = "ref" => t[k + args[a]].name = e[args[a]].name
        BY <4>3 DEF Shift, NodeType
      <4>. QED BY <3>3, <4>1, <4>2, <4>4
    <3>5. 1..Len(args) = DOMAIN args
      BY <3>1
    <3>6. Len(args) \in {1, 2} => 1 \in DOMAIN args
      BY <3>5
    <3>7. Len(args) = 2 => 2 \in DOMAIN args
      BY <3>5
    <3>8. NumOf(t, data, numT, k + i) = NumOf(e, data, num, i)
      <4>1. Len(args) = 1 =>
              /\ e[args[1]].op = "ref" <=> t[t[k + i].args[1]].op = "ref"
              /\ e[args[1]].op = "ref" => t[t[k + i].args[1]].name = e[args[1]].name
        BY <3>4, <3>6
      <4>2. Len(args) = 2 => /\ numT[t[k + i].args[1]] = num[args[1]]
                             /\ numT[t[k + i].args[2]] = num[args[2]]
        BY <3>4, <3>6, <3>7
      <4>3. t[k + i].op = op /\ Len(t[k + i].args) = Len(args)
        BY <3>2, <3>3
      <4> HIDE DEF num, numT
      <4>. QED BY <2>6, <4>1, <4>2, <4>3 DEF NumOf
    <3>9. TruthOf(t, numT, truthT, k + i) = TruthOf(e, num, truth, i)
      BY <2>6, <3>2, <3>3, <3>4, <3>6, <3>7 DEF TruthOf
    <3>. QED BY <2>4, <3>8, <3>9
  <2>. QED BY <2>5, <2>6
<1>. QED BY <1>1 DEF EvaluatesThere

\* What moving a node does to it.
LEMMA Shifted ==
  ASSUME NEW node \in NodeType
  PROVE  /\ Shift(node, 0) = node
         /\ \A k \in Nat : Shift(node, k) \in NodeType
         /\ \A k \in Nat : ArgsOf(Shift(node, k)) = {a + k : a \in ArgsOf(node)}
         /\ \A a \in ArgsOf(node) : a \in Nat \ {0}
<1>1. CASE node.op \in {"num", "ref"}
  BY <1>1 DEF Shift, ArgsOf
<1>2. CASE node.op \notin {"num", "ref"}
  <2>1. /\ node \in [op : Operators, args : Seq(Nat \ {0})]
        /\ node.args \in Seq(Nat \ {0}) /\ Len(node.args) \in Nat
        /\ DOMAIN node.args = 1..Len(node.args)
    BY <1>2 DEF NodeType
  <2>2. [a \in DOMAIN node.args |-> node.args[a] + 0] = node.args
    BY <2>1
  <2>3. Shift(node, 0) = node
    BY <1>2, <2>1, <2>2 DEF Shift
  <2>4. ASSUME NEW k \in Nat
        PROVE  /\ Shift(node, k) \in NodeType
               /\ ArgsOf(Shift(node, k)) = {a + k : a \in ArgsOf(node)}
    <3> DEFINE args == [a \in DOMAIN node.args |-> node.args[a] + k]
    <3>1. args \in [1..Len(node.args) -> Nat \ {0}]
      BY <2>1
    <3>2. args \in Seq(Nat \ {0})
      BY <2>1, <3>1
    <3>3. Shift(node, k) = [op |-> node.op, args |-> args]
      BY <1>2, <2>1 DEF Shift
    <3>4. ToSet(args) = {a + k : a \in ToSet(node.args)}
      BY <2>1 DEF ToSet
    <3> HIDE DEF args
    <3>5. node.op \in Operators
      BY <1>2, <2>1
    <3>. QED BY <1>2, <3>2, <3>3, <3>4, <3>5 DEF NodeType, ArgsOf
  <2>5. \A a \in ArgsOf(node) : a \in Nat \ {0}
    BY <1>2, <2>1 DEF ArgsOf, ToSet
  <2>. QED BY <2>3, <2>4, <2>5
<1>. QED BY <1>1, <1>2

\* Operators over expressions give expressions, and what they give is known.
LEMMA UnaryExpression ==
  ASSUME NEW e, IsExpression(e), NEW op \in Operators
  PROVE  /\ IsExpression(Unary(op, e))
         /\ \A data : op = "not" => evaluate(Unary(op, e), data) = Negation(evaluate(e, data))
<1> DEFINE n == Len(e)
           top == [op |-> op, args |-> <<n>>]
           t == Unary(op, e)
<1>1. n \in Nat \ {0} /\ e \in Seq(NodeType) /\ DOMAIN e = 1..n
  BY DEF IsExpression
<1>2. <<n>> \in Seq(Nat \ {0}) /\ ToSet(<<n>>) = {n}
  BY <1>1 DEF ToSet
<1>3. top \in NodeType /\ ArgsOf(top) = {n} /\ top.op = op /\ top.args = <<n>>
  BY <1>2, OperatorAssumption DEF NodeType, ArgsOf
<1> HIDE DEF top
<1>4. /\ t \in Seq(NodeType) /\ Len(t) = n + 1 /\ DOMAIN t = 1..n + 1 /\ t # <<>>
      /\ t[n + 1] = top /\ \A i \in 1..n : t[i] = e[i]
  BY <1>1, <1>3 DEF Unary, top
<1> HIDE DEF n, t
<1>5. ASSUME NEW i \in DOMAIN t, NEW a \in ArgsOf(t[i]) PROVE a < i
  <2>1. CASE i = n + 1
    BY <1>1, <1>3, <1>4, <1>5, <2>1
  <2>2. CASE i # n + 1
    <3>1. i \in DOMAIN e /\ t[i] = e[i]
      BY <1>1, <1>4, <2>2
    <3>. QED BY <1>5, <3>1 DEF IsExpression
  <2>. QED BY <2>1, <2>2
<1>6. ASSUME NEW a \in 1..Len(t) - 1 PROVE \E i \in DOMAIN t : a \in ArgsOf(t[i])
  <2>1. CASE a = n
    BY <1>1, <1>3, <1>4, <2>1
  <2>2. CASE a # n
    <3>1. a \in 1..n - 1
      BY <1>1, <1>4, <2>2
    <3>2. PICK i \in DOMAIN e : a \in ArgsOf(e[i])
      BY <3>1 DEF IsExpression, n
    <3>. QED BY <1>1, <1>4, <3>2
  <2>. QED BY <2>1, <2>2
<1>7. IsExpression(t)
  BY <1>4, <1>5, <1>6 DEF IsExpression
<1>8. ASSUME NEW data, op = "not"
      PROVE  evaluate(t, data) = Negation(evaluate(e, data))
  <2>1. \A i \in DOMAIN e : Shift(e[i], 0) = e[i]
    BY <1>1, Shifted
  <2>2. \A i \in DOMAIN e : 0 + i \in DOMAIN t /\ t[0 + i] = Shift(e[i], 0) /\ 0 + i = i
    BY <1>1, <1>4, <2>1
  <2>3. EvalBool(t, data)[n] = EvalBool(e, data)[n]
    <3>1. PICK k \in Nat : k = 0
      OBVIOUS
    <3>2. StandsIn(e, t, k)
      BY <2>2, <3>1 DEF StandsIn
    <3>3. EvaluatesThere(e, t, k, data)
      BY <1>7, <3>2, Embedded
    <3>4. n \in DOMAIN e /\ k + n = n
      BY <1>1, <3>1
    <3>. QED BY <3>3, <3>4 DEF EvaluatesThere
  <2>4. EvalBool(t, data)[n + 1] = TruthOf(t, EvalNum(t, data), EvalBool(t, data), n + 1)
    BY <1>1, <1>4, <1>7, TruthDefined
  <2>5. Len(<<n>>) = 1 /\ <<n>>[1] = n
    OBVIOUS
  <2>6. EvalBool(t, data)[n + 1] = Negation(EvalBool(t, data)[n])
    BY <1>3, <1>4, <1>8, <2>4, <2>5 DEF TruthOf, Logical, Comparison
  <2>. QED BY <1>4, <2>3, <2>6 DEF evaluate, n
<1>. QED BY <1>7, <1>8 DEF t

LEMMA BinaryExpression ==
  ASSUME NEW e, IsExpression(e), NEW f, IsExpression(f), NEW op \in Operators
  PROVE  /\ IsExpression(Binary(op, e, f))
         /\ \A data : op \in Logical =>
              evaluate(Binary(op, e, f), data) =
                Connection(op, evaluate(e, data), evaluate(f, data))
<1> DEFINE n == Len(e)
           m == Len(f)
           moved == [i \in DOMAIN f |-> Shift(f[i], n)]
           top == [op |-> op, args |-> <<n, n + m>>]
           t == Binary(op, e, f)
<1>1. /\ n \in Nat \ {0} /\ e \in Seq(NodeType) /\ DOMAIN e = 1..n
      /\ m \in Nat \ {0} /\ f \in Seq(NodeType) /\ DOMAIN f = 1..m
  BY DEF IsExpression
<1>2. <<n, n + m>> \in Seq(Nat \ {0}) /\ ToSet(<<n, n + m>>) = {n, n + m}
  BY <1>1 DEF ToSet
<1>3. top \in NodeType /\ ArgsOf(top) = {n, n + m} /\ top.op = op /\ top.args = <<n, n + m>>
  BY <1>2, OperatorAssumption DEF NodeType, ArgsOf
<1>4. moved \in Seq(NodeType) /\ Len(moved) = m /\ \A i \in 1..m : moved[i] = Shift(f[i], n)
  <2>1. \A i \in 1..m : Shift(f[i], n) \in NodeType
    BY <1>1, Shifted
  <2>2. moved \in [1..m -> NodeType]
    BY <1>1, <2>1
  <2>. QED BY <1>1, <2>2
<1>5. /\ t \in Seq(NodeType) /\ Len(t) = n + m + 1 /\ DOMAIN t = 1..n + m + 1 /\ t # <<>>
      /\ t[n + m + 1] = top /\ \A i \in 1..n : t[i] = e[i]
      /\ \A i \in 1..m : n + i \in DOMAIN t /\ t[n + i] = moved[i]
  <2>1. t = Append(e \o moved, top)
    BY DEF Binary
  <2> HIDE DEF top, moved, t
  <2>2. /\ e \o moved \in Seq(NodeType) /\ Len(e \o moved) = n + m
        /\ \A i \in 1..n : (e \o moved)[i] = e[i]
        /\ \A i \in 1..m : (e \o moved)[n + i] = moved[i]
    BY <1>1, <1>4
  <2>. QED BY <1>1, <1>3, <2>1, <2>2
<1> HIDE DEF top, moved
<1> HIDE DEF n, m, t
<1>6. \A i \in DOMAIN t : i \in 1..n \/ i = n + m + 1 \/ \E j \in 1..m : i = n + j
  <2>1. n \in Nat /\ m \in Nat /\ DOMAIN t = 1..n + m + 1
    BY <1>1, <1>5
  <2>2. ASSUME NEW i \in 1..n + m + 1, i \notin 1..n, i # n + m + 1
        PROVE  i - n \in 1..m /\ i = n + (i - n)
    BY <2>1, <2>2
  <2>. QED BY <2>1, <2>2
<1>7. ASSUME NEW j \in 1..m
      PROVE  /\ ArgsOf(t[n + j]) = {a + n : a \in ArgsOf(f[j])}
             /\ \A a \in ArgsOf(f[j]) : a \in Nat \ {0} /\ a < j
  <2>1. f[j] \in NodeType /\ j \in DOMAIN f
    BY <1>1
  <2>2. t[n + j] = Shift(f[j], n)
    BY <1>4, <1>5
  <2>3. \A a \in ArgsOf(f[j]) : a < j
    BY <2>1 DEF IsExpression
  <2>. QED BY <1>1, <2>1, <2>2, <2>3, Shifted
<1>8. ASSUME NEW i \in DOMAIN t, NEW a \in ArgsOf(t[i]) PROVE a < i
  <2>1. CASE i \in 1..n
    BY <1>1, <1>5, <1>8, <2>1 DEF IsExpression
  <2>2. CASE i = n + m + 1
    BY <1>1, <1>3, <1>5, <1>8, <2>2
  <2>3. ASSUME NEW j \in 1..m, i = n + j PROVE a < i
    <3>1. PICK b \in ArgsOf(f[j]) : a = b + n
      BY <1>7, <1>8, <2>3
    <3>2. b \in Nat /\ b < j
      BY <1>7
    <3>. QED BY <1>1, <2>3, <3>1, <3>2
  <2>. QED BY <1>6, <2>1, <2>2, <2>3
<1>9. ASSUME NEW a \in 1..Len(t) - 1 PROVE \E i \in DOMAIN t : a \in ArgsOf(t[i])
  <2>1. CASE a \in {n, n + m}
    <3>1. n + m + 1 \in DOMAIN t /\ a \in ArgsOf(t[n + m + 1])
      BY <1>1, <1>3, <1>5, <2>1
    <3>. QED BY <3>1
  <2>2. CASE a \in 1..n - 1
    <3>1. PICK i \in DOMAIN e : a \in ArgsOf(e[i])
      BY <2>2 DEF IsExpression, n
    <3>2. i \in 1..n /\ i \in DOMAIN t
      BY <1>1, <1>5
    <3>3. t[i] = e[i]
      BY <1>5, <3>2
    <3>. QED BY <3>1, <3>2, <3>3
  <2>3. CASE a \notin {n, n + m} /\ a \notin 1..n - 1
    <3>1. a - n \in 1..m - 1 /\ a = (a - n) + n
      BY <1>1, <1>5, <2>3
    <3>2. PICK j \in DOMAIN f : a - n \in ArgsOf(f[j])
      BY <3>1 DEF IsExpression, m
    <3>3. a \in ArgsOf(t[n + j])
      BY <1>1, <1>7, <3>1, <3>2
    <3>. QED BY <1>1, <1>5, <3>2, <3>3
  <2>. QED BY <2>1, <2>2, <2>3
<1>10. IsExpression(t)
  BY <1>5, <1>8, <1>9 DEF IsExpression
<1>11. ASSUME NEW data, op \in Logical
       PROVE  evaluate(t, data) = Connection(op, evaluate(e, data), evaluate(f, data))
  <2>1. EvalBool(t, data)[n] = EvalBool(e, data)[n]
    <3>1. PICK k \in Nat : k = 0
      OBVIOUS
    <3>2. \A i \in DOMAIN e : Shift(e[i], 0) = e[i]
      BY <1>1, Shifted
    <3>3. StandsIn(e, t, k)
      BY <1>1, <1>5, <3>1, <3>2 DEF StandsIn
    <3>4. EvaluatesThere(e, t, k, data)
      BY <1>10, <3>3, Embedded
    <3>5. n \in DOMAIN e /\ k + n = n
      BY <1>1, <3>1
    <3>. QED BY <3>4, <3>5 DEF EvaluatesThere
  <2>2. EvalBool(t, data)[n + m] = EvalBool(f, data)[m]
    <3>1. StandsIn(f, t, n)
      BY <1>1, <1>4, <1>5 DEF StandsIn
    <3>2. EvaluatesThere(f, t, n, data)
      BY <1>1, <1>10, <3>1, Embedded
    <3>. QED BY <1>1, <3>2 DEF EvaluatesThere
  <2>3. n + m + 1 \in DOMAIN t
    BY <1>1, <1>5
  <2>4. EvalBool(t, data)[n + m + 1] =
          TruthOf(t, EvalNum(t, data), EvalBool(t, data), n + m + 1)
    BY <1>10, <2>3, TruthDefined
  <2>5. Len(<<n, n + m>>) = 2 /\ <<n, n + m>>[1] = n /\ <<n, n + m>>[2] = n + m
    OBVIOUS
  <2>6. EvalBool(t, data)[n + m + 1] =
          Connection(op, EvalBool(t, data)[n], EvalBool(t, data)[n + m])
    BY <1>3, <1>5, <1>11, <2>4, <2>5 DEF TruthOf, Logical, Comparison
  <2>. QED BY <1>5, <2>1, <2>2, <2>6 DEF evaluate, n, m
<1>. QED BY <1>10, <1>11 DEF t

-----------------------------------------------------------------------------
(* Rules on a graph that changes *)

CheckInv ==
  /\ body \in Bodies
  /\ IsFiniteSet(DOMAIN statement)
  /\ statement = [s \in DOMAIN statement |-> statement[s]]
  /\ \A s \in DOMAIN statement :
       statement[s] \in [state : FactNodeState, dimension : Dimensions,
                         value : Numbers \cup {NotANumber}]

\* What a statement says, and about what, never changes; there are finitely many.
LEMMA StatementsStay ==
  ASSUME CheckInv, CheckNext
  PROVE  /\ CheckInv' /\ body' = body
         /\ \A s \in DOMAIN statement :
              /\ s \in DOMAIN statement'
              /\ statement'[s].value = statement[s].value
              /\ statement'[s].dimension = statement[s].dimension
<1>1. ASSUME NEW s \in StatementIds, NEW d \in Dimensions,
             NEW v \in Numbers \cup {NotANumber}, NEW st \in {"tentative", "accepted"},
             AddStatement(s, d, v, st)
      PROVE  /\ CheckInv' /\ body' = body
             /\ \A x \in DOMAIN statement :
                  x \in DOMAIN statement' /\ statement'[x] = statement[x]
  <2> DEFINE new == [state |-> st, dimension |-> d, value |-> v]
  <2>1. /\ statement' = [x \in DOMAIN statement \cup {s} |->
                           IF x \in DOMAIN statement THEN statement[x] ELSE new]
        /\ body' = body
    BY <1>1 DEF AddStatement
  <2>2. new \in [state : FactNodeState, dimension : Dimensions, value : Numbers \cup {NotANumber}]
    BY DEF FactNodeState
  <2> HIDE DEF new
  <2>3. DOMAIN statement' = DOMAIN statement \cup {s}
    BY <2>1
  <2>4. IsFiniteSet(DOMAIN statement')
    BY <2>3, FS_AddElement DEF CheckInv
  <2>. QED BY <2>1, <2>2, <2>3, <2>4 DEF CheckInv
<1>2. ASSUME NEW s \in DOMAIN statement, NEW to \in FactNodeState, Transition(s, to)
      PROVE  /\ CheckInv' /\ body' = body
             /\ \A x \in DOMAIN statement :
                  /\ x \in DOMAIN statement'
                  /\ statement'[x].value = statement[x].value
                  /\ statement'[x].dimension = statement[x].dimension
  <2>1. statement' = [statement EXCEPT ![s].state = to] /\ body' = body
    BY <1>2 DEF Transition
  <2>2. DOMAIN statement' = DOMAIN statement
    BY <2>1
  <2>3. \A x \in DOMAIN statement :
          statement'[x] = IF x = s THEN [statement[s] EXCEPT !.state = to] ELSE statement[x]
    BY <2>1
  <2>4. \A x \in DOMAIN statement :
          /\ statement'[x].value = statement[x].value
          /\ statement'[x].dimension = statement[x].dimension
          /\ statement'[x] \in [state : FactNodeState, dimension : Dimensions,
                                value : Numbers \cup {NotANumber}]
    BY <2>3 DEF CheckInv
  <2>5. statement' = [x \in DOMAIN statement' |-> statement'[x]]
    BY <2>1
  <2>. QED BY <2>1, <2>2, <2>4, <2>5 DEF CheckInv
<1>. QED BY <1>1, <1>2 DEF CheckNext

\* The rule has its body, and the graph starts without statements.
LEMMA InitCheckInv == CheckInit => CheckInv
<1> SUFFICES ASSUME CheckInit PROVE CheckInv
  OBVIOUS
<1>1. DOMAIN statement = {} /\ statement = [s \in DOMAIN statement |-> statement[s]]
  BY DEF CheckInit
<1>2. IsFiniteSet(DOMAIN statement)
  BY <1>1, FS_EmptySet
<1>. QED BY <1>1, <1>2 DEF CheckInit, CheckInv

\* The rule keeps its body, and every statement is finite in number and of its
\* type, whatever capture and `node add` write.
THEOREM CheckInvariance == CheckSpec => []CheckInv
<1>1. CheckInv /\ [CheckNext]_ruleVars => CheckInv'
  <2>1. CheckInv /\ CheckNext => CheckInv'
    BY StatementsStay
  <2>2. CheckInv /\ UNCHANGED ruleVars => CheckInv'
    BY DEF CheckInv, ruleVars
  <2>. QED BY <2>1, <2>2
<1>. QED BY InitCheckInv, <1>1, PTL DEF CheckSpec

\* SetToSeq lists a finite set.
LEMMA Listing ==
  ASSUME NEW ids, IsFiniteSet(ids)
  PROVE  \E n \in Nat : /\ SetToSeq(ids) \in [1..n -> ids]
                        /\ n = 0 <=> ids = {}
<1> DEFINE n == Cardinality(ids)
<1>1. n \in Nat /\ (n = 0 <=> ids = {})
  BY FS_CardinalityType, FS_EmptySet
<1>2. PICK f : f \in Bijection(1..n, ids)
  BY FS_CardinalityType DEF ExistsBijection
<1>3. f \in [1..n -> ids] /\ IsInjective(f)
  BY <1>2 DEF Bijection, Injection, IsInjective
<1>4. SetToSeq(ids) \in [1..n -> ids]
  BY <1>3 DEF SetToSeq
<1>. QED BY <1>1, <1>4

\* There is something to read exactly where there are statements.
LEMMA NothingToRead ==
  ASSUME NEW ids, IsFiniteSet(ids)
  PROVE  Fractions(ids) = <<>> <=> ids = {}
<1>1. PICK n \in Nat : SetToSeq(ids) \in [1..n -> ids] /\ (n = 0 <=> ids = {})
  BY Listing
<1>2. Fractions(ids) = [i \in 1..n |-> Fraction(statement[SetToSeq(ids)[i]].value)]
  BY <1>1 DEF Fractions
<1>3. Len(Fractions(ids)) = n
  BY <1>2
<1>. QED BY <1>1, <1>2, <1>3

\* What a binding reads are finitely many statements.
LEMMA NumericFinite ==
  ASSUME CheckInv, NEW name, NEW states
  PROVE  IsFiniteSet(Numeric(name, states)) /\ Numeric(name, states) \subseteq DOMAIN statement
<1>1. Numeric(name, states) \subseteq DOMAIN statement
  BY DEF Numeric
<1>. QED BY <1>1, FS_Subset DEF CheckInv

Data == [name \in DOMAIN Bindings |-> Belief(name)]

\* A verdict means that the rule is well formed and every dimension it reads is
\* populated.
LEMMA VerdictsSee ==
  ASSUME CheckInv
  PROVE  NeverJudgesBlind
<1> SUFFICES ASSUME Decided(body)
             PROVE  /\ body # <<>> /\ ~IllFormed(body)
                    /\ \A name \in Names(body) : Belief(name) # <<>>
  BY DEF NeverJudgesBlind
<1>0. body # <<>>
  BY DEF Decided, evaluateConstraint
<1>1. IsExpression(body)
  BY <1>0, RuleAssumption DEF CheckInv
<1>2. evaluate(body, Data) \in Verdicts
  BY <1>0 DEF Decided, evaluateConstraint, Data, Verdicts
<1>3. \A i \in DOMAIN body : Answered(body, Data, i)
  BY <1>1, <1>2, VerdictNeedsAll
<1>4. \A i \in DOMAIN body :
        /\ body[i].op \in Whitelist
        /\ body[i].op = "ref" => body[i].name \in DOMAIN Data /\ Data[body[i].name] # <<>>
  BY <1>1, <1>3, AnsweredDown
<1>5. \A name \in Names(body) : name \in DOMAIN Data /\ Data[name] # <<>>
  BY <1>4 DEF Names
<1>6. Names(body) \subseteq DOMAIN Bindings /\ \A name \in Names(body) : Belief(name) # <<>>
  BY <1>5 DEF Data
<1>. QED BY <1>0, <1>4, <1>6 DEF IllFormed

\* evalNum and evalBool return missing data and errors through every operator
\* and short-circuit none: whatever the rule and the graph, "satisfied" or
\* "violated" is answered only if every operator of the rule is known, every
\* name it reads declared, and every such dimension holds an accepted number.
THEOREM VerdictsRestOnBelief == CheckSpec => []NeverJudgesBlind
<1>1. CheckInv => NeverJudgesBlind
  BY VerdictsSee
<1>. QED BY <1>1, CheckInvariance, PTL

\* The truth table of De Morgan over the four outcomes.
LEMMA TruthTable ==
  ASSUME NEW x \in EvaluationResult, NEW y \in EvaluationResult
  PROVE  Negation(Connection("and", x, y)) = Connection("or", Negation(x), Negation(y))
<1>1. CASE "error" \in {x, y}
  BY <1>1 DEF Negation, Connection, Both, Verdict, EvaluationResult
<1>2. CASE "error" \notin {x, y} /\ "indeterminate" \in {x, y}
  BY <1>2 DEF Negation, Connection, Both, Verdict, EvaluationResult
<1>3. CASE {x, y} \subseteq {"satisfied", "violated"}
  BY <1>3 DEF Negation, Connection, Both, Verdict
<1>. QED BY <1>1, <1>2, <1>3 DEF EvaluationResult

\* The `not`, `and` and `or` cases of evalBool treat errors and missing data
\* alike, so a rule and its rewriting by De Morgan have the same outcome for
\* any bodies and any graph.
THEOREM NegationIsDual == CheckSpec => []DeMorgan
<1>1. ASSUME CheckInv, body # <<>>, NEW e \in Bodies \ {<<>>}
      PROVE  evaluateConstraint(Unary("not", Binary("and", e, body))) =
             evaluateConstraint(Binary("or", Unary("not", e), Unary("not", body)))
  <2> DEFINE x == evaluate(e, Data)
             y == evaluate(body, Data)
  <2>1. IsExpression(e) /\ IsExpression(body)
    BY <1>1, RuleAssumption DEF CheckInv
  <2>2. x \in EvaluationResult /\ y \in EvaluationResult
    <3>1. \A f : IsExpression(f) => Len(f) \in DOMAIN f
      BY DEF IsExpression
    <3>. QED BY <2>1, <3>1, FourOutcomes DEF evaluate
  <2>3. /\ {"and", "or", "not"} \subseteq Operators
        /\ "and" \in Logical /\ "or" \in Logical
    BY OperatorAssumption DEF Logical
  <2>4. /\ IsExpression(Binary("and", e, body))
        /\ evaluate(Binary("and", e, body), Data) = Connection("and", x, y)
    BY <2>1, <2>3, BinaryExpression
  <2>5. evaluate(Unary("not", Binary("and", e, body)), Data) = Negation(Connection("and", x, y))
    BY <2>4, <2>3, UnaryExpression
  <2>6. /\ IsExpression(Unary("not", e)) /\ IsExpression(Unary("not", body))
        /\ evaluate(Unary("not", e), Data) = Negation(x)
        /\ evaluate(Unary("not", body), Data) = Negation(y)
    BY <2>1, <2>3, UnaryExpression
  <2>7. evaluate(Binary("or", Unary("not", e), Unary("not", body)), Data) =
          Connection("or", Negation(x), Negation(y))
    BY <2>6, <2>3, BinaryExpression
  <2>8. /\ Unary("not", Binary("and", e, body)) # <<>>
        /\ Binary("or", Unary("not", e), Unary("not", body)) # <<>>
    <3>1. /\ IsExpression(Unary("not", Binary("and", e, body)))
          /\ IsExpression(Binary("or", Unary("not", e), Unary("not", body)))
      BY <2>3, <2>4, <2>6, UnaryExpression, BinaryExpression
    <3>. QED BY <3>1 DEF IsExpression
  <2> HIDE DEF x, y
  <2>. QED BY <2>2, <2>5, <2>7, <2>8, TruthTable DEF evaluateConstraint, Data
<1>2. CheckInv => DeMorgan
  BY <1>1 DEF DeMorgan
<1>. QED BY <1>2, CheckInvariance, PTL

-----------------------------------------------------------------------------
(* Verdicts over time *)

\* While the accepted statements stay, so does what every name reads.
LEMMA SameBelief ==
  ASSUME CheckInv, CheckNext, AcceptedOf(statement') = AcceptedOf(statement),
         NEW name \in DOMAIN Bindings
  PROVE  Belief(name)' = Belief(name)
<1> DEFINE ids == Numeric(name, {"accepted"})
<1>1. ids' = ids
  <2>1. \A s : s \in AcceptedOf(statement') <=> s \in DOMAIN statement' /\ statement'[s].state = "accepted"
    BY DEF AcceptedOf
  <2>2. \A s : s \in AcceptedOf(statement) <=> s \in DOMAIN statement /\ statement[s].state = "accepted"
    BY DEF AcceptedOf
  <2>3. \A s \in AcceptedOf(statement) : /\ statement'[s].value = statement[s].value
                                          /\ statement'[s].dimension = statement[s].dimension
    BY <2>2, StatementsStay
  <2>. QED BY <2>1, <2>2, <2>3 DEF Numeric
<1>2. IsFiniteSet(ids) /\ ids \subseteq DOMAIN statement
  BY NumericFinite
<1>3. \A s \in ids : statement'[s].value = statement[s].value
  BY <1>2, StatementsStay
<1> HIDE DEF ids
<1>4. PICK n \in Nat : SetToSeq(ids) \in [1..n -> ids]
  BY <1>2, Listing
<1>5. Fractions(ids)' = Fractions(ids)
  BY <1>1, <1>3, <1>4 DEF Fractions
<1>. QED BY <1>5 DEF Belief, ids

\* Data reads accepted statements only: capturing a suggestion, rejecting or
\* retiring what was not accepted never changes what a rule answers.
THEOREM SuggestionsChangeNoVerdict == CheckSpec => SuggestionsAreInert
<1>1. ASSUME CheckInv, CheckNext, AcceptedOf(statement') = AcceptedOf(statement)
      PROVE  evaluateConstraint(body)' = evaluateConstraint(body)
  <2>1. Data' = Data
    BY <1>1, SameBelief DEF Data
  <2>2. body' = body
    BY <1>1, StatementsStay
  <2>. QED BY <2>1, <2>2 DEF evaluateConstraint, Data
<1>2. CheckInv /\ [CheckNext]_ruleVars =>
        [AcceptedOf(statement') = AcceptedOf(statement)
           => evaluateConstraint(body)' = evaluateConstraint(body)]_ruleVars
  BY <1>1
<1>. QED BY <1>2, CheckInvariance, PTL DEF CheckSpec, SuggestionsAreInert

\* A verdict is withdrawn only when an accepted statement is: accepting more
\* may turn "satisfied" into "violated" or an error (a division by what has
\* become zero), never into "indeterminate".
THEOREM BeliefKeepsVerdicts == CheckSpec => VerdictsOnlyLostWithBelief
<1>1. ASSUME CheckInv, CheckNext, Decided(body),
             AcceptedOf(statement) \subseteq AcceptedOf(statement')
      PROVE  evaluateConstraint(body)' # "indeterminate"
  <2>0. body # <<>>
    BY <1>1 DEF Decided, evaluateConstraint
  <2>1. IsExpression(body) /\ body' = body /\ CheckInv'
    BY <1>1, <2>0, StatementsStay, RuleAssumption DEF CheckInv
  <2>2. /\ Names(body) \subseteq DOMAIN Bindings
        /\ \A name \in Names(body) : Belief(name) # <<>>
    BY <1>1, VerdictsSee DEF NeverJudgesBlind, IllFormed
  <2>3. ASSUME NEW name \in Names(body) PROVE Belief(name)' # <<>>
    <3>1. Numeric(name, {"accepted"}) # {}
      BY <1>1, <2>2, NumericFinite, NothingToRead DEF Belief
    <3>2. PICK s \in Numeric(name, {"accepted"}) : TRUE
      BY <3>1
    <3>3. /\ s \in DOMAIN statement /\ statement[s].dimension = Bindings[name]
          /\ statement[s].state = "accepted" /\ statement[s].value # NotANumber
      BY <3>2 DEF Numeric
    <3>4. s \in DOMAIN statement' /\ statement'[s].state = "accepted"
      BY <1>1, <3>3 DEF AcceptedOf
    <3>5. s \in Numeric(name, {"accepted"})'
      BY <1>1, <3>3, <3>4, StatementsStay DEF Numeric
    <3>6. IsFiniteSet(Numeric(name, {"accepted"})')
      <4>1. Numeric(name, {"accepted"})' \subseteq DOMAIN statement'
        BY DEF Numeric
      <4>. QED BY <2>1, <4>1, FS_Subset DEF CheckInv
    <3>7. Fractions(Numeric(name, {"accepted"}))' = <<>> <=> Numeric(name, {"accepted"})' = {}
      <4> DEFINE ids == Numeric(name, {"accepted"})'
      <4>1. PICK n \in Nat : SetToSeq(ids) \in [1..n -> ids] /\ (n = 0 <=> ids = {})
        BY <3>6, Listing
      <4>2. Fractions(Numeric(name, {"accepted"}))'
              = [i \in 1..n |-> Fraction(statement'[SetToSeq(ids)[i]].value)]
        BY <4>1 DEF Fractions
      <4>3. Len(Fractions(Numeric(name, {"accepted"}))') = n
        BY <4>2
      <4>. QED BY <4>1, <4>2, <4>3
    <3>. QED BY <3>5, <3>7 DEF Belief
  <2>4. evaluate(body, Data') # "indeterminate"
    <3>1. \A name \in Names(body) : name \in DOMAIN Data' => Data'[name] # <<>>
      BY <2>3 DEF Data
    <3>. QED BY <2>1, <3>1, MissingHasACause
  <2>. QED BY <2>0, <2>1, <2>4 DEF evaluateConstraint, Data
<1>2. CheckInv /\ [CheckNext]_ruleVars =>
        [Decided(body) /\ AcceptedOf(statement) \subseteq AcceptedOf(statement')
           => evaluateConstraint(body)' # "indeterminate"]_ruleVars
  BY <1>1
<1>. QED BY <1>2, CheckInvariance, PTL DEF CheckSpec, VerdictsOnlyLostWithBelief

=============================================================================
