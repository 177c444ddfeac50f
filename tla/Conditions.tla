------------------------------- MODULE Conditions -------------------------------
(*****************************************************************************)
(* Controlling expressions of #if and #elif in C++ sources, as the           *)
(* preprocessor evaluates them (tools/cpppreprocessor.cpp).  Expressions are *)
(* trees [op, number, name, operands]; a chain of && or || is one node, as   *)
(* it is one loop.  Of the operators whose operands are all evaluated, "not" *)
(* "less" and "divide" stand for the others.                                 *)
(*                                                                           *)
(* Operands that need not be evaluated are evaluated nevertheless, without   *)
(* errors: these are reported only if validate is true.                      *)
(*****************************************************************************)
EXTENDS Integers, Sequences

Success(value) == [value |-> value, failed |-> FALSE]
Failure == [value |-> 0, failed |-> TRUE]

Truth(condition) == IF condition THEN 1 ELSE 0

Quotient(value1, value2) ==
    LET quotient == (IF value1 < 0 THEN -value1 ELSE value1) \div (IF value2 < 0 THEN -value2 ELSE value2)
    IN  IF (value1 < 0) = (value2 < 0) THEN quotient ELSE -quotient

\* A number that exceeds 64 bits is read as the greatest unsigned value.
Literal(expression, validate) ==
    IF expression.op = "number" THEN Success(expression.number)
    ELSE IF validate THEN Failure ELSE Success(-1)

\* EvaluateUnaryDivisor: one instead of zero, if it does not matter.
Divide(value1, value2, validate) ==
    IF value2 # 0 THEN Success(Quotient(value1, value2))
    ELSE IF validate THEN Failure ELSE Success(value1)

\* A Boolean value that an integer is combined with by &= keeps only its last bit.
Masked(validate, value) == validate /\ value % 2 = 1

RECURSIVE Evaluate(_, _, _), Conjunction(_, _, _, _, _), Disjunction(_, _, _, _, _)

\* The loops of EvaluateLogicalAndExpression and EvaluateLogicalOrExpression,
\* from an operand on, with the value of those before it.
Conjunction(operands, i, value, validate, known) ==
    IF i > Len(operands) THEN Success(value)
    ELSE LET validate1 == Masked(validate, value)
             next == Evaluate(operands[i], validate1, known)
         IN  IF next.failed THEN Failure
             ELSE Conjunction(operands, i + 1, Truth(next.value # 0 /\ validate1 /\ value # 0),
                              validate1, known)

Disjunction(operands, i, value, validate, known) ==
    IF i > Len(operands) THEN Success(value)
    ELSE LET validate1 == validate /\ value = 0
             next == Evaluate(operands[i], validate1, known)
         IN  IF next.failed THEN Failure
             ELSE Disjunction(operands, i + 1, Truth((next.value # 0 /\ validate1) \/ value # 0),
                              validate1, known)

\* EvaluateConditionalExpression, after its condition.
Choice(value, expression, validate, known) ==
    LET first == Evaluate(expression.operands[2], validate /\ value # 0, known)
        second == Evaluate(expression.operands[3], validate /\ value = 0, known)
    IN  IF first.failed \/ second.failed THEN Failure
        ELSE IF value # 0 THEN first ELSE second

Evaluate(expression, validate, known) ==
    IF expression.op \in {"number", "excessive"} THEN Literal(expression, validate)
    ELSE IF expression.op = "defined" THEN Success(Truth(expression.name \in known.macros))
    ELSE IF expression.op = "has_include" THEN Success(Truth(expression.name \in known.headers))
    ELSE LET first == Evaluate(expression.operands[1], validate, known) IN
        IF first.failed THEN Failure
        ELSE CASE expression.op = "not" -> Success(Truth(first.value = 0))
               [] expression.op = "and" ->
                    Conjunction(expression.operands, 2, first.value, validate, known)
               [] expression.op = "or" ->
                    Disjunction(expression.operands, 2, first.value, validate, known)
               [] expression.op = "conditional" -> Choice(first.value, expression, validate, known)
               [] expression.op \in {"less", "divide"} ->
                    LET second == Evaluate(expression.operands[2], validate, known)
                    IN  IF second.failed THEN Failure
                        ELSE IF expression.op = "less" THEN Success(Truth(first.value < second.value))
                        ELSE Divide(first.value, second.value, validate)

\* EvaluateConstantExpression: what an expression is evaluated to, if anything.
Decided(expression, known) ==
    LET result == Evaluate(expression, TRUE, known)
    IN  IF result.failed THEN {} ELSE {result.value # 0}

-----------------------------------------------------------------------------
(* What expressions mean by the definition of the language: a set with their *)
(* value, unless that is undefined.  No value depends on an operand that the *)
(* others make superfluous.                                                  *)

RECURSIVE Meaning(_, _)

Meaning(expression, known) ==
    LET Of(i) == Meaning(expression.operands[i], known)
        Operands == DOMAIN expression.operands
        True(i) == Of(i) # {} /\ Of(i) # {0}
        \* The first operand whose value or lack of it decides.
        Deciding(truth) == {i \in Operands : \A j \in 1 .. i - 1 : Of(j) # {} /\ True(j) # truth}
        Chain(truth) ==
            IF \E i \in Deciding(truth) : Of(i) = {} THEN {}
            ELSE {Truth((\E i \in Deciding(truth) : True(i) = truth) = truth)}
    IN  CASE expression.op = "number" -> {expression.number}
          [] expression.op = "excessive" -> {}
          [] expression.op = "defined" -> {Truth(expression.name \in known.macros)}
          [] expression.op = "has_include" -> {Truth(expression.name \in known.headers)}
          [] expression.op = "not" -> {Truth(value = 0) : value \in Of(1)}
          [] expression.op = "and" -> Chain(FALSE)
          [] expression.op = "or" -> Chain(TRUE)
          [] expression.op = "conditional" ->
                IF Of(1) = {} THEN {} ELSE IF True(1) THEN Of(2) ELSE Of(3)
          [] expression.op = "less" -> {Truth(v < w) : v \in Of(1), w \in Of(2)}
          [] expression.op = "divide" -> {Quotient(v, w) : v \in Of(1), w \in Of(2) \ {0}}
===============================================================================
