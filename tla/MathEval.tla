------------------------------ MODULE MathEval ------------------------------
(***************************************************************************)
(* The evaluator behind the math_eval tool (internal/tools/eval.go): a     *)
(* recursive-descent parser that computes as it goes.  An expression is a  *)
(* sequence of tokens with a space between any two; "." is a literal that  *)
(* ParseFloat refuses.  Numbers are fractions, exact where the code rounds.*)
(***************************************************************************)
EXTENDS Integers, Sequences

Literals == {"0", "2", "3"}
NumberOf == [t \in Literals |-> CASE t = "0" -> 0 [] t = "2" -> 2 [] t = "3" -> 3]

\* A fraction <<n, d>>, d > 0.
Plus(x, y) == <<x[1] * y[2] + y[1] * x[2], x[2] * y[2]>>
Negate(x) == <<-x[1], x[2]>>
Times(x, y) == <<x[1] * y[1], x[2] * y[2]>>
Over(x, y) == IF y[1] < 0 THEN <<-(x[1] * y[2]), x[2] * (-y[1])>>
              ELSE <<x[1] * y[2], x[2] * y[1]>>
Same(x, y) == x[1] * y[2] = y[1] * x[2]

\* The parser after a call: the value it returns and where it stands in s.
Got(v, pos) == [ok |-> TRUE, val |-> v, pos |-> pos]
Err == [ok |-> FALSE, val |-> <<0, 1>>, pos |-> 0]

\* The token at pos, "end" behind the last.
At(s, pos) == IF pos <= Len(s) THEN s[pos] ELSE "end"
-----------------------------------------------------------------------------
RECURSIVE ParseExpr(_, _), ExprLoop(_, _), TermLoop(_, _), ParseFactor(_, _)

\* parseNumber.
ParseNumber(s, pos) ==
    IF At(s, pos) \in Literals THEN Got(<<NumberOf[At(s, pos)], 1>>, pos + 1) ELSE Err

\* parseFactor: signs, a parenthesis, a literal.
ParseFactor(s, pos) ==
    CASE At(s, pos) = "-" ->
            LET f == ParseFactor(s, pos + 1) IN [f EXCEPT !.val = Negate(f.val)]
      [] At(s, pos) = "+" -> ParseFactor(s, pos + 1)
      [] At(s, pos) = "(" ->
            LET e == ParseExpr(s, pos + 1) IN
            IF e.ok /\ At(s, e.pos) = ")" THEN Got(e.val, e.pos + 1) ELSE Err
      [] OTHER -> ParseNumber(s, pos)

\* The loop of parseTerm, with what it has on the left.
TermLoop(s, left) ==
    IF ~left.ok \/ At(s, left.pos) \notin {"*", "/"} THEN left
    ELSE LET right == ParseFactor(s, left.pos + 1) IN
         IF ~right.ok THEN Err
         ELSE IF At(s, left.pos) = "*"
         THEN TermLoop(s, Got(Times(left.val, right.val), right.pos))
         ELSE IF right.val[1] = 0 THEN Err
         ELSE TermLoop(s, Got(Over(left.val, right.val), right.pos))

ParseTerm(s, pos) == TermLoop(s, ParseFactor(s, pos))

\* Mutant: the right operand takes all that follows.
ExprLoopRight(s, left) ==
    IF ~left.ok \/ At(s, left.pos) \notin {"+", "-"} THEN left
    ELSE LET right == ParseExpr(s, left.pos + 1) IN
         IF ~right.ok THEN Err
         ELSE Got(Plus(left.val, IF At(s, left.pos) = "+" THEN right.val
                                 ELSE Negate(right.val)), right.pos)

\* The loop of parseExpr.
ExprLoop(s, left) ==
    IF ~left.ok \/ At(s, left.pos) \notin {"+", "-"} THEN left
    ELSE LET right == ParseTerm(s, left.pos + 1) IN
         IF ~right.ok THEN Err
         ELSE ExprLoop(s, Got(Plus(left.val, IF At(s, left.pos) = "+" THEN right.val
                                             ELSE Negate(right.val)), right.pos))

ParseExpr(s, pos) == ExprLoop(s, ParseTerm(s, pos))

\* eval: nothing may be left over.
Eval(s) ==
    LET e == ParseExpr(s, 1) IN IF e.ok /\ e.pos = Len(s) + 1 THEN e ELSE Err
-----------------------------------------------------------------------------
(***************************************************************************)
(* What an expression means: the values of its derivations in              *)
(*   E -> T | E + T | E - T,  T -> F | T * F | T / F,                      *)
(*   F -> + F | - F | ( E ) | literal.                                     *)
(* A division by zero has no value.                                        *)
(***************************************************************************)
RECURSIVE Sums(_), Products(_), Factors(_)

Splits(s, ops) == {k \in 2..(Len(s) - 1) : s[k] \in ops}
Before(s, k) == SubSeq(s, 1, k - 1)
After(s, k) == SubSeq(s, k + 1, Len(s))

Factors(s) ==
    IF s = << >> THEN {}
    ELSE UNION {
        IF Len(s) = 1 /\ s[1] \in Literals THEN {<<NumberOf[s[1]], 1>>} ELSE {},
        IF s[1] = "+" THEN Factors(Tail(s)) ELSE {},
        IF s[1] = "-" THEN {Negate(x) : x \in Factors(Tail(s))} ELSE {},
        IF s[1] = "(" /\ s[Len(s)] = ")" /\ Len(s) > 2
        THEN Sums(SubSeq(s, 2, Len(s) - 1)) ELSE {}}

Products(s) ==
    Factors(s) \cup UNION {
        LET right == Factors(After(s, k)) IN
        IF right = {} THEN {}
        ELSE {IF s[k] = "*" THEN Times(x, y) ELSE Over(x, y) :
                x \in Products(Before(s, k)),
                y \in {z \in right : s[k] = "*" \/ z[1] # 0}} : k \in Splits(s, {"*", "/"})}

Sums(s) ==
    Products(s) \cup UNION {
        LET right == Products(After(s, k)) IN
        IF right = {} THEN {}
        ELSE {Plus(x, IF s[k] = "+" THEN y ELSE Negate(y)) :
                x \in Sums(Before(s, k)), y \in right} : k \in Splits(s, {"+", "-"})}
=============================================================================
