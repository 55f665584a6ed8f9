---------------------------- MODULE MessageFilter ----------------------------
(***************************************************************************)
(* Filter expressions (MessageFilterDriver with its scanner and parser):   *)
(* which messages a log, or the multicast sender, accepts.                 *)
(*                                                                         *)
(* A token is a record with its kind.  The tokens of one comparison are    *)
(* one token "cmp" here; whatever is no token of the grammar at its place  *)
(* is a token "BAD".  A quoted string and a regular expression are the     *)
(* sets of strings they match, the empty quoted string excepted: the       *)
(* scanner makes no STRING of it, so it is "BAD".                          *)
(*                                                                         *)
(* parse() evaluates while it parses.  Bison's parser for this grammar     *)
(* keeps a stack of truth values and tokens; the precedences decide        *)
(* whether it reduces before it shifts the next token.                     *)
(***************************************************************************)
EXTENDS Integers, Sequences, SequencesExt

Tok(k)  == [kind |-> k]
Bad     == Tok("BAD")
Cmp(a, o, v)   == [kind |-> "cmp", attr |-> a, op |-> o, val |-> v]
Match(a, o, ss) == [kind |-> "cmp", attr |-> a, op |-> o, strings |-> ss]

Names   == {"host", "ident", "msg"}            \* attributes that are strings
Numbers == {"facility", "severity", "pid"}     \* ... and that are numbers

CONSTANT Tokens   \* what expressions are made of

\* Names are only compared for equality.  A "ref" is a filter's name (Config) that
\* was not replaced by the filter; like "BAD" it has no place in an expression.
ASSUME TokensAssumption ==
  \A t \in Tokens :
    \/ t.kind \in {"NOT", "AND", "OR", "LPAREN", "RPAREN", "BAD", "ref"}
    \/ /\ t.kind = "cmp"
       /\ \/ t.attr \in Names /\ t.op \in {"=", "!="}
          \/ t.attr \in Numbers /\ t.op \in {"=", "!=", "<", "<=", ">", ">="} /\ t.val \in Int

-----------------------------------------------------------------------------
(* The comparisons                                                         *)

\* severity is the one attribute whose greater values have smaller numbers.
Rank(attr, x) == IF attr = "severity" THEN -x ELSE x

Compares(op, x, y) ==
  CASE op = "="  -> x = y
    [] op = "!=" -> x # y
    [] op = "<"  -> x < y
    [] op = "<=" -> x <= y
    [] op = ">"  -> x > y
    [] op = ">=" -> x >= y

Holds(c, m) ==
  IF c.attr \in Names
  THEN (m[c.attr] \in c.strings) = (c.op = "=")
  ELSE Compares(c.op, Rank(c.attr, m[c.attr]), Rank(c.attr, c.val))

-----------------------------------------------------------------------------
(* The parser                                                              *)

Value(b) == Tok(IF b THEN "true" ELSE "false")
IsExpr(sym) == sym.kind \in {"true", "false"}
IsTrue(sym) == sym.kind = "true"

\* The stack ends in an expression: an operator or a closing parenthesis may
\* follow.  Otherwise an operand must.
EndsInExpr(stack) == stack # <<>> /\ IsExpr(Last(stack))

\* The rule at the top of the stack is reduced when the next token does not bind
\* stronger: NOT, then AND, then OR, all of them to the left.
Reducible(stack, next) ==
  /\ Len(stack) > 1
  /\ EndsInExpr(stack)
  /\ LET op == stack[Len(stack) - 1].kind
     IN  op \in {"NOT", "AND"} \/ (op = "OR" /\ next # "AND")

Reduction(stack) ==
  LET n == Len(stack)
      b == IsTrue(stack[n])
  IN CASE stack[n - 1].kind = "NOT" -> Append(SubSeq(stack, 1, n - 2), Value(~b))
       [] stack[n - 1].kind = "AND" ->
            Append(SubSeq(stack, 1, n - 3), Value(IsTrue(stack[n - 2]) /\ b))
       [] stack[n - 1].kind = "OR" ->
            Append(SubSeq(stack, 1, n - 3), Value(IsTrue(stack[n - 2]) \/ b))

\* As many reductions as there are; each one shortens the stack.
Reduced(stack, next) ==
  FoldLeft(LAMBDA s, i : IF Reducible(s, next) THEN Reduction(s) ELSE s, stack, stack)

SyntaxError == <<Bad>>

\* One token.  A syntax error stays: nothing can be shifted after "BAD".
Shift(stack, t, m) ==
  LET kind    == t.kind
      reduced == Reduced(stack, kind)
      n       == Len(reduced)
  IN IF stack = SyntaxError THEN stack ELSE
     CASE kind = "cmp" /\ ~EndsInExpr(stack) -> Append(stack, Value(Holds(t, m)))
       [] kind \in {"NOT", "LPAREN"} /\ ~EndsInExpr(stack) -> Append(stack, t)
       [] kind \in {"AND", "OR"} /\ EndsInExpr(stack) -> Append(reduced, t)
       [] kind = "RPAREN" /\ EndsInExpr(stack) /\ n > 1 /\ reduced[n - 1].kind = "LPAREN" ->
            Append(SubSeq(reduced, 1, n - 2), reduced[n])
       [] OTHER -> SyntaxError

\* MessageFilterDriver::parse: whether the expression is one, and whether it
\* accepts the message.
parse(tokens, m) ==
  LET shifted == FoldLeft(LAMBDA s, t : Shift(s, t, m), <<>>, tokens)
      stack   == Reduced(shifted, "YYEOF")
      rc      == Len(stack) = 1 /\ IsExpr(stack[1])
  IN  [rc |-> rc, result |-> rc /\ IsTrue(stack[1])]

\* A driver is constructed only if the expression parses with a default message,
\* whose values have no influence on that.
EmptyMessage == [facility |-> 8, severity |-> 6, pid |-> 0,
                 host |-> "", ident |-> "", msg |-> ""]

is_valid(tokens) == parse(tokens, EmptyMessage).rc

-----------------------------------------------------------------------------
(* The reference: what an expression means                                 *)

\* The grammar of the manual page made unambiguous, one level per precedence.
\* Meaning(s, m) has the truth values that the rules give the whole of s: none if
\* s is no expression.  The rule "or", say, derives what stands between i and j
\* if there is a top-level OR at some k with an "or" before it and an "and" after.
Meaning(s, m) ==
  LET n == Len(s)
      D[span \in (1..4) \X (1..(n + 1)) \X (0..n)] ==
        LET r == span[1]
            i == span[2]
            j == span[3]
        IN  IF i > j THEN {} ELSE
            CASE r = 1 -> D[<<2, i, j>>] \cup
                   {b \in BOOLEAN : \E k \in (i + 1)..(j - 1) : s[k].kind = "OR" /\
                      \E x \in D[<<1, i, k - 1>>], y \in D[<<2, k + 1, j>>] : b = (x \/ y)}
              [] r = 2 -> D[<<3, i, j>>] \cup
                   {b \in BOOLEAN : \E k \in (i + 1)..(j - 1) : s[k].kind = "AND" /\
                      \E x \in D[<<2, i, k - 1>>], y \in D[<<3, k + 1, j>>] : b = (x /\ y)}
              [] r = 3 -> D[<<4, i, j>>] \cup
                   {b \in BOOLEAN : s[i].kind = "NOT" /\ \E x \in D[<<3, i + 1, j>>] : b = ~x}
              [] r = 4 -> IF i = j THEN (IF s[i].kind = "cmp" THEN {Holds(s[i], m)} ELSE {})
                          ELSE IF s[i].kind = "LPAREN" /\ s[j].kind = "RPAREN"
                               THEN D[<<1, i + 1, j - 1>>] ELSE {}
  IN  D[<<1, 1, n>>]
=============================================================================
