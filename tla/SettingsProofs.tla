--------------------------- MODULE SettingsProofs ---------------------------
(***************************************************************************)
(* What the settings of a log do, for all configuration files, messages    *)
(* and times: its filter means what the grammar says, its messages go      *)
(* where the configuration in force says and its files stay open, and its  *)
(* roll interval spans the time it was made for.                           *)
(***************************************************************************)
EXTENDS Routing, RollInterval, WellFoundedInduction, TLAPS

-----------------------------------------------------------------------------
(* Numbers, induction and folds                                            *)

\* A set of numbers that is not empty has a least one.  Proofs by induction look
\* at the least number for which what they prove would be wrong.
LEMMA Least ==
  ASSUME NEW T, T \subseteq Nat, T # {}
  PROVE  \E x \in T : \A y \in T : x <= y
<1> DEFINE R == OpToRel(<, Nat)
<1>1. IsWellFoundedOn(R, Nat)
  BY NatLessThanWellFounded
<1>2. \A x, y \in Nat : <<y, x>> \in R <=> y < x
  BY DEF OpToRel
<1> HIDE DEF R
<1>3. PICK x \in T : \A y \in T : ~ (<<y, x>> \in R)
  BY <1>1, WFMin
<1>4. ASSUME NEW y \in T PROVE x <= y
  <2>1. ~ (<<y, x>> \in R) /\ (<<y, x>> \in R <=> y < x)
    BY <1>2, <1>3, Zenon
  <2>2. ~ (y < x) /\ x \in Nat /\ y \in Nat
    BY <2>1
  <2> QED BY <2>2
<1> QED BY <1>3, <1>4

\* Induction, for a set of numbers.
LEMMA Up ==
  ASSUME NEW T, 0 \in T, \A k \in Nat : k \in T => k + 1 \in T
  PROVE  Nat \subseteq T
<1> SUFFICES ASSUME Nat \ T # {} PROVE FALSE
  OBVIOUS
<1>1. PICK x \in Nat \ T : \A y \in Nat \ T : x <= y
  BY Least
<1>2. x - 1 \in Nat /\ ~(x <= x - 1) /\ (x - 1) + 1 = x
  OBVIOUS
<1> QED BY <1>1, <1>2

LEMMA UpTo ==
  ASSUME NEW n \in Nat, NEW T, 0 \in T, \A k \in 0..(n - 1) : k \in T => k + 1 \in T
  PROVE  \A k \in 0..n : k \in T
<1> DEFINE U == {k \in Nat : k \in 0..n => k \in T}
<1>1. \A k \in Nat : k \in U => k + 1 \in U
  <2> SUFFICES ASSUME NEW k \in Nat, k \in 0..n => k \in T, k + 1 \in 0..n PROVE k + 1 \in T
    OBVIOUS
  <2>1. k \in 0..n /\ k \in 0..(n - 1)
    OBVIOUS
  <2> QED BY <2>1
<1>2. 0 \in U
  OBVIOUS
<1> HIDE DEF U
<1>3. Nat \subseteq U
  BY <1>1, <1>2, Up
<1> QED BY <1>3 DEF U

LEMMA Last1n ==
  ASSUME NEW n \in Nat, NEW S, S \subseteq 1..n, n \in S
  PROVE  Max(S) = n
<1>1. n \in S /\ \A y \in S : y =< n
  OBVIOUS
<1>2. \A x \in S : (\A y \in S : y =< x) => x = n
  OBVIOUS
<1>3. PICK z : z = Max(S) /\ z \in S /\ \A y \in S : z >= y
  BY <1>1 DEF Max
<1> QED BY <1>2, <1>3

LEMMA MaxIn1n ==
  ASSUME NEW n \in Nat, NEW S \in SUBSET (1..n), S # {}
  PROVE  Max(S) \in S
<1> DEFINE Ok(k) == \A T \in SUBSET (1..k) : T # {} => \E x \in T : \A y \in T : x >= y
           Good == {k \in Nat : Ok(k)}
<1>1. Ok(0)
  <2>1. 1..0 = {}
    OBVIOUS
  <2> QED BY <2>1
<1>2. ASSUME NEW k \in Nat, Ok(k) PROVE Ok(k + 1)
  <2> SUFFICES ASSUME NEW T \in SUBSET (1..(k + 1)), T # {} PROVE \E x \in T : \A y \in T : x >= y
    OBVIOUS
  <2>1. CASE k + 1 \in T
    BY <2>1
  <2>2. CASE k + 1 \notin T
    <3>1. T \in SUBSET (1..k)
      BY <2>2
    <3> QED BY <1>2, <3>1
  <2> QED BY <2>1, <2>2
<1>3. 0 \in Good /\ \A k \in Nat : k \in Good => k + 1 \in Good
  BY <1>1, <1>2
<1> HIDE DEF Good
<1>4. n \in Good
  BY <1>3, Up
<1>5. \E x \in S : \A y \in S : x >= y
  BY <1>4 DEF Good
<1> QED BY <1>5 DEF Max

\* A fold exists: FoldLeft's function of the sets of positions, for a step that
\* stays in a set.
FoldStep(T, n, base, step) == n \in Nat /\ base \in T /\ step \in [(1..n) \X T -> T]

IsFold(f, T, n, base, step) ==
  /\ f \in [SUBSET (1..n) -> T]
  /\ \A S \in SUBSET (1..n) :
       f[S] = IF S = {} THEN base ELSE step[<<Max(S), f[S \ {Max(S)}]>>]

LEMMA FoldExists ==
  ASSUME NEW T, NEW n, NEW base, NEW step, FoldStep(T, n, base, step)
  PROVE  \E f : IsFold(f, T, n, base, step)
<1>0. n \in Nat /\ base \in T /\ step \in [(1..n) \X T -> T]
  BY DEF FoldStep
<1> DEFINE Ok(k) == \E f \in [SUBSET (1..k) -> T] : \A S \in SUBSET (1..k) :
             f[S] = IF S = {} THEN base ELSE step[<<Max(S), f[S \ {Max(S)}]>>]
<1>1. Ok(0)
  <2> DEFINE f == [S \in SUBSET (1..0) |-> base]
  <2>1. f \in [SUBSET (1..0) -> T]
    BY <1>0
  <2>2. \A S \in SUBSET (1..0) : S = {}
    OBVIOUS
  <2> QED BY <2>1, <2>2
<1>2. ASSUME NEW k \in 0..n, k < n, Ok(k) PROVE Ok(k + 1)
  <2>1. PICK f \in [SUBSET (1..k) -> T] : \A S \in SUBSET (1..k) :
             f[S] = IF S = {} THEN base ELSE step[<<Max(S), f[S \ {Max(S)}]>>]
    BY <1>2
  <2> DEFINE g == [S \in SUBSET (1..(k + 1)) |->
                     IF k + 1 \in S THEN step[<<k + 1, f[S \ {k + 1}]>>] ELSE f[S]]
  <2>2. \A S \in SUBSET (1..(k + 1)) : S \ {k + 1} \in SUBSET (1..k)
    OBVIOUS
  <2>3. k + 1 \in 1..n
    BY <1>0, <1>2
  <2>4. g \in [SUBSET (1..(k + 1)) -> T]
    <3> SUFFICES ASSUME NEW S \in SUBSET (1..(k + 1))
                 PROVE  (IF k + 1 \in S THEN step[<<k + 1, f[S \ {k + 1}]>>] ELSE f[S]) \in T
      OBVIOUS
    <3>1. CASE k + 1 \in S
      BY <1>0, <2>2, <2>3, <3>1
    <3>2. CASE k + 1 \notin S
      <4>1. S \in SUBSET (1..k)
        BY <3>2
      <4> QED BY <3>2, <4>1
    <3> QED BY <3>1, <3>2
  <2>5. ASSUME NEW S \in SUBSET (1..(k + 1))
        PROVE  g[S] = IF S = {} THEN base ELSE step[<<Max(S), g[S \ {Max(S)}]>>]
    <3>1. CASE k + 1 \in S
      <4>0. k + 1 \in Nat /\ S \subseteq 1..(k + 1)
        BY <2>3
      <4>1. Max(S) = k + 1
        BY <3>1, <4>0, Last1n
      <4>2. g[S \ {k + 1}] = f[S \ {k + 1}]
        BY <2>2
      <4> QED BY <3>1, <4>1, <4>2
    <3>2. CASE k + 1 \notin S
      <4>0. S \in SUBSET (1..k)
        BY <2>5, <3>2
      <4>1. S \in SUBSET (1..k) /\ S \ {Max(S)} \in SUBSET (1..k)
        BY <4>0
      <4>2. k + 1 \notin S \ {Max(S)} /\ S \ {Max(S)} \in SUBSET (1..(k + 1))
        BY <3>2
      <4>3. g[S] = f[S] /\ g[S \ {Max(S)}] = f[S \ {Max(S)}]
        BY <3>2, <4>1, <4>2
      <4> QED BY <2>1, <4>1, <4>3
    <3> QED BY <3>1, <3>2
  <2> HIDE DEF g
  <2> QED BY <2>4, <2>5
<1> HIDE DEF Ok
<1> DEFINE Good == {k \in 0..n : Ok(k)}
<1>3. 0 \in Good /\ \A k \in 0..(n - 1) : k \in Good => k + 1 \in Good
  <2> SUFFICES ASSUME NEW k \in 0..(n - 1), Ok(k) PROVE Ok(k + 1)
    BY <1>0, <1>1
  <2>1. k \in 0..n /\ k < n
    BY <1>0
  <2> QED BY <1>2, <2>1
<1> HIDE DEF Good
<1>4. n \in Good
  BY <1>0, <1>3, UpTo
<1> QED BY <1>4 DEF Good, Ok, IsFold

\* Its values on the first positions are those of an iteration.
Follows(f, T, n, base, step) ==
  /\ f[{}] = base
  /\ \A S \in SUBSET (1..n) : S # {} /\ f[S \ {Max(S)}] \in T =>
       f[S] = step[<<Max(S), f[S \ {Max(S)}]>>]

Iterates(c, T, n, base, step) ==
  c \in [0..n -> T] /\ c[0] = base /\ \A k \in 1..n : c[k] = step[<<k, c[k - 1]>>]

LEMMA FoldValues ==
  ASSUME NEW T, NEW n, NEW base, NEW step, NEW f,
         FoldStep(T, n, base, step), Follows(f, T, n, base, step)
  PROVE  \E c : Iterates(c, T, n, base, step) /\ c[n] = f[1..n]
<1>0. /\ n \in Nat /\ base \in T /\ step \in [(1..n) \X T -> T]
      /\ f[{}] = base
      /\ \A S \in SUBSET (1..n) : S # {} /\ f[S \ {Max(S)}] \in T =>
           f[S] = step[<<Max(S), f[S \ {Max(S)}]>>]
  BY DEF FoldStep, Follows
<1>1. 1..0 = {}
  OBVIOUS
<1>2. ASSUME NEW k \in 1..n, f[1..(k - 1)] \in T
      PROVE  f[1..k] = step[<<k, f[1..(k - 1)]>>] /\ f[1..k] \in T
  <2>1. k \in Nat /\ 1..k \subseteq 1..k /\ k \in 1..k
    BY <1>0
  <2>2. Max(1..k) = k
    BY <2>1, Last1n
  <2>3. 1..k \in SUBSET (1..n) /\ 1..k # {} /\ (1..k) \ {k} = 1..(k - 1)
    BY <1>0
  <2> QED BY <1>0, <1>2, <2>2, <2>3
<1> DEFINE Good == {k \in 0..n : f[1..k] \in T}
<1>3. 0 \in Good /\ \A k \in 0..(n - 1) : k \in Good => k + 1 \in Good
  <2> SUFFICES ASSUME NEW k \in 0..(n - 1), f[1..k] \in T PROVE f[1..(k + 1)] \in T
    BY <1>0, <1>1
  <2>1. k + 1 \in 1..n /\ (k + 1) - 1 = k
    BY <1>0
  <2> QED BY <1>2, <2>1
<1> HIDE DEF Good
<1>4. \A k \in 0..n : k \in Good
  BY <1>0, <1>3, UpTo
<1>5. \A k \in 0..n : f[1..k] \in T
  BY <1>4 DEF Good
<1> DEFINE c == [k \in 0..n |-> f[1..k]]
<1>6. c \in [0..n -> T] /\ c[0] = base /\ c[n] = f[1..n]
  BY <1>0, <1>1, <1>5
<1>7. ASSUME NEW k \in 1..n PROVE c[k] = step[<<k, c[k - 1]>>]
  <2>1. k - 1 \in 0..n /\ k \in 0..n
    BY <1>0
  <2> QED BY <1>2, <1>5, <2>1
<1> HIDE DEF c
<1> QED BY <1>6, <1>7 DEF Iterates

-----------------------------------------------------------------------------
(* Reductions                                                              *)

Symbols == Tokens \cup {Tok("true"), Tok("false"), Bad}
Stacks  == Seq(Symbols)

LEMMA ReductionShortens ==
  ASSUME NEW st \in Stacks, NEW next, Reducible(st, next)
  PROVE  Reduction(st) \in Stacks /\ Len(Reduction(st)) \in 1..(Len(st) - 1)
<1>1. Len(st) \in Nat /\ Len(st) > 1
  BY DEF Reducible, Stacks
<1>2. \A b : Value(b) \in Symbols
  BY DEF Value, Symbols
<1>3. ASSUME NEW k \in Int, k < Len(st), NEW b
      PROVE  LET red == Append(SubSeq(st, 1, k), Value(b))
             IN  red \in Stacks /\ Len(red) = (IF k < 0 THEN 0 ELSE k) + 1
  BY <1>1, <1>2, <1>3 DEF Stacks
<1>4. st[Len(st) - 1].kind \in {"NOT", "AND", "OR"}
  BY DEF Reducible
<1>5. Len(st) - 2 \in Int /\ Len(st) - 2 < Len(st) /\ Len(st) - 3 \in Int /\ Len(st) - 3 < Len(st)
  BY <1>1
<1>6. CASE st[Len(st) - 1].kind = "NOT"
  <2>1. Reduction(st) = Append(SubSeq(st, 1, Len(st) - 2), Value(~IsTrue(st[Len(st)])))
    BY <1>6 DEF Reduction
  <2> QED BY <1>1, <1>3, <1>5, <2>1
<1>7. CASE st[Len(st) - 1].kind = "AND"
  <2>1. Reduction(st) = Append(SubSeq(st, 1, Len(st) - 3),
                               Value(IsTrue(st[Len(st) - 2]) /\ IsTrue(st[Len(st)])))
    BY <1>7 DEF Reduction
  <2> QED BY <1>1, <1>3, <1>5, <2>1
<1>8. CASE st[Len(st) - 1].kind = "OR"
  <2>1. Reduction(st) = Append(SubSeq(st, 1, Len(st) - 3),
                               Value(IsTrue(st[Len(st) - 2]) \/ IsTrue(st[Len(st)])))
    BY <1>8 DEF Reduction
  <2> QED BY <1>1, <1>3, <1>5, <2>1
<1> QED BY <1>4, <1>6, <1>7, <1>8

Reduce1(st, next) == IF Reducible(st, next) THEN Reduction(st) ELSE st

Chain(c, l, next) ==
  /\ l \in Nat /\ c \in [0..l -> Stacks]
  /\ \A i \in 1..l : c[i] = Reduce1(c[i - 1], next)

LEMMA ReducedChain ==
  ASSUME NEW st \in Stacks, NEW next
  PROVE  \E c : Chain(c, Len(st), next) /\ c[0] = st /\ c[Len(st)] = Reduced(st, next)
<1> DEFINE n == Len(st)
           step == [p \in (1..n) \X Stacks |-> Reduce1(p[2], next)]
           Body(f) == [S \in SUBSET DOMAIN st |->
                         IF S = {} THEN st ELSE Reduce1(f[S \ {Max(S)}], next)]
           f == CHOOSE f : f = Body(f)
<1>0. n \in Nat /\ DOMAIN st = 1..n
  BY DEF Stacks
<1>1. Reduced(st, next) = f[DOMAIN st]
  BY DEF Reduced, FoldLeft, MapThenFoldSet, Reduce1
<1>2. step \in [(1..n) \X Stacks -> Stacks]
  BY ReductionShortens DEF Reduce1
<1>3. \A k \in 1..n, x \in Stacks : step[<<k, x>>] = Reduce1(x, next)
  OBVIOUS
<1> HIDE DEF step, n
<1>s. FoldStep(Stacks, n, st, step)
  BY <1>0, <1>2 DEF FoldStep
<1>4. PICK g : IsFold(g, Stacks, n, st, step)
  BY <1>s, FoldExists
<1>5. ASSUME NEW S \in SUBSET (1..n), S # {} PROVE Max(S) \in 1..n
  BY <1>0, <1>5, MaxIn1n
<1>6. g = Body(g)
  <2>1. ASSUME NEW S \in SUBSET (1..n), S # {} PROVE g[S] = Reduce1(g[S \ {Max(S)}], next)
    BY <1>3, <1>4, <1>5, <2>1 DEF IsFold
  <2>2. \A S \in SUBSET (1..n) : g[S] = IF S = {} THEN st ELSE Reduce1(g[S \ {Max(S)}], next)
    BY <1>4, <2>1 DEF IsFold
  <2>3. g = [S \in SUBSET (1..n) |-> g[S]]
    BY <1>4 DEF IsFold
  <2> QED BY <1>0, <2>2, <2>3
<1>7. f = Body(f)
  BY <1>6
<1> HIDE DEF f
<1>8. f[{}] = st /\ \A S \in SUBSET (1..n) : S # {} => f[S] = Reduce1(f[S \ {Max(S)}], next)
  BY <1>0, <1>7
<1>9. Follows(f, Stacks, n, st, step)
  BY <1>3, <1>5, <1>8 DEF Follows
<1>10. PICK c : Iterates(c, Stacks, n, st, step) /\ c[n] = f[1..n]
  BY <1>s, <1>9, FoldValues
<1>11. ASSUME NEW k \in 1..n PROVE c[k] = Reduce1(c[k - 1], next)
  <2>1. k - 1 \in 0..n /\ c[k] = step[<<k, c[k - 1]>>] /\ c \in [0..n -> Stacks]
    BY <1>0, <1>10 DEF Iterates
  <2> QED BY <1>3, <2>1
<1> QED BY <1>0, <1>1, <1>10, <1>11 DEF Chain, Iterates, n

LEMMA ChainNext ==
  ASSUME NEW c, NEW l, NEW next, Chain(c, l, next), NEW i \in 0..(l - 1)
  PROVE  c[i + 1] = Reduce1(c[i], next)
<1>1. i + 1 \in 1..l /\ (i + 1) - 1 = i
  BY DEF Chain
<1> QED BY <1>1 DEF Chain

\* A chain ends in a stack that is not reducible, if it is as long as its first stack.
LEMMA ChainShortens ==
  ASSUME NEW c, NEW l, NEW next, Chain(c, l, next), NEW k \in 0..l, Reducible(c[k], next)
  PROVE  Len(c[k]) \in Nat /\ Len(c[k]) <= Len(c[0]) - k
<1> DEFINE Good == {i \in 0..l : Reducible(c[i], next) =>
                      Len(c[i]) \in Nat /\ Len(c[i]) <= Len(c[0]) - i}
<1>0. l \in Nat /\ c \in [0..l -> Stacks]
  BY DEF Chain
<1>l. \A st \in Stacks : Len(st) \in Nat
  BY DEF Stacks
<1>1. 0 \in Good
  <2>1. 0 \in 0..l /\ c[0] \in Stacks
    BY <1>0
  <2> QED BY <1>l, <2>1
<1>2. ASSUME NEW i \in 0..(l - 1), i \in Good PROVE i + 1 \in Good
  <2>1. i \in 0..l /\ i + 1 \in 0..l /\ c[i] \in Stacks /\ c[i + 1] \in Stacks /\ c[0] \in Stacks
    BY <1>0
  <2>2. c[i + 1] = Reduce1(c[i], next)
    BY ChainNext
  <2>3. SUFFICES ASSUME Reducible(c[i + 1], next) PROVE Len(c[i + 1]) <= Len(c[0]) - (i + 1)
    BY <1>l, <2>1
  <2>4. Reducible(c[i], next)
    BY <2>2, <2>3 DEF Reduce1
  <2>5. c[i + 1] = Reduction(c[i])
    BY <2>2, <2>4 DEF Reduce1
  <2>6. Len(c[i + 1]) \in 1..(Len(c[i]) - 1)
    BY <2>1, <2>4, <2>5, ReductionShortens
  <2>7. Len(c[i]) <= Len(c[0]) - i
    BY <1>2, <2>4
  <2> QED BY <1>l, <2>1, <2>6, <2>7
<1> HIDE DEF Good
<1>3. k \in Good
  BY <1>0, <1>1, <1>2, UpTo
<1> QED BY <1>3 DEF Good

LEMMA ChainEnds ==
  ASSUME NEW c, NEW l, NEW next, Chain(c, l, next), NEW k \in 0..l, Len(c[0]) <= k
  PROVE  ~Reducible(c[k], next)
<1>0. l \in Nat /\ c \in [0..l -> Stacks] /\ k \in Nat
  BY DEF Chain
<1>1. c[k] \in Stacks /\ c[0] \in Stacks
  BY <1>0
<1>2. Len(c[0]) \in Nat
  BY <1>1 DEF Stacks
<1> SUFFICES ASSUME Reducible(c[k], next) PROVE FALSE
  OBVIOUS
<1>3. Len(c[k]) \in Nat /\ Len(c[k]) <= Len(c[0]) - k /\ Len(c[k]) > 1
  BY ChainShortens DEF Reducible
<1> QED BY <1>0, <1>2, <1>3

LEMMA ChainStays ==
  ASSUME NEW c, NEW l, NEW next, Chain(c, l, next), NEW k \in 0..l, ~Reducible(c[k], next)
  PROVE  c[l] = c[k]
<1> DEFINE Good == {i \in 0..(l - k) : c[k + i] = c[k]}
<1>0. l \in Nat /\ k \in Nat /\ l - k \in Nat /\ c \in [0..l -> Stacks]
  BY DEF Chain
<1>1. 0 \in Good
  BY <1>0
<1>2. ASSUME NEW i \in 0..((l - k) - 1), i \in Good PROVE i + 1 \in Good
  <2>1. k + i \in 0..(l - 1) /\ (k + i) + 1 = k + (i + 1) /\ i + 1 \in 0..(l - k)
    BY <1>0
  <2>2. c[(k + i) + 1] = Reduce1(c[k + i], next)
    BY <2>1, ChainNext
  <2>3. c[k + i] = c[k]
    BY <1>2
  <2>4. c[k + (i + 1)] = c[k]
    BY <2>1, <2>2, <2>3 DEF Reduce1
  <2> QED BY <2>1, <2>4
<1> HIDE DEF Good
<1> DEFINE d == l - k
<1>4. k + d = l /\ d \in Nat
  BY <1>0
<1>3. 0 \in Good /\ \A i \in 0..(d - 1) : i \in Good => i + 1 \in Good
  BY <1>1, <1>2
<1> HIDE DEF d
<1>5. d \in Good
  <2>1. \A i \in 0..d : i \in Good
    BY <1>3, <1>4, UpTo
  <2> QED BY <1>4, <2>1
<1>6. c[k + d] = c[k]
  BY <1>5 DEF Good
<1> QED BY <1>4, <1>6

\* What is reduced is not reducible; what is not reducible stays as it is; otherwise
\* reducing goes on with the reduction.
LEMMA ReducedNot ==
  ASSUME NEW st \in Stacks, NEW next
  PROVE  Reduced(st, next) \in Stacks /\ ~Reducible(Reduced(st, next), next)
<1>1. PICK c : Chain(c, Len(st), next) /\ c[0] = st /\ c[Len(st)] = Reduced(st, next)
  BY ReducedChain
<1>2. Len(st) \in 0..Len(st) /\ Len(c[0]) <= Len(st)
  BY <1>1 DEF Stacks
<1>3. c[Len(st)] \in Stacks
  BY <1>1, <1>2 DEF Chain
<1>4. ~Reducible(c[Len(st)], next)
  BY <1>1, <1>2, ChainEnds
<1> QED BY <1>1, <1>3, <1>4

LEMMA ReducedSame ==
  ASSUME NEW st \in Stacks, NEW next, ~Reducible(st, next)
  PROVE  Reduced(st, next) = st
<1>1. PICK c : Chain(c, Len(st), next) /\ c[0] = st /\ c[Len(st)] = Reduced(st, next)
  BY ReducedChain
<1>2. 0 \in 0..Len(st)
  BY DEF Stacks
<1> QED BY <1>1, <1>2, ChainStays

LEMMA ReducedReduction ==
  ASSUME NEW st \in Stacks, NEW next, Reducible(st, next)
  PROVE  Reduced(st, next) = Reduced(Reduction(st), next)
<1> DEFINE red == Reduction(st)
           n == Len(st)
           k == Len(red)
<1>0. n \in Nat /\ red \in Stacks /\ k \in 1..(n - 1)
  BY ReductionShortens DEF Stacks
<1>1. PICK c : Chain(c, n, next) /\ c[0] = st /\ c[n] = Reduced(st, next)
  BY ReducedChain
<1> HIDE DEF red, k
<1>2. PICK d : Chain(d, Len(red), next) /\ d[0] = red /\ d[Len(red)] = Reduced(red, next)
  BY <1>0, ReducedChain
<1> HIDE DEF n
<1>2a. Chain(d, k, next) /\ d[0] = red /\ d[k] = Reduced(red, next) /\ Len(d[0]) <= k
  BY <1>0, <1>2 DEF k
<1> DEFINE Good == {i \in 0..k : c[i + 1] = d[i]}
<1>3. 0 \in Good
  <2>1. 0 \in 0..(n - 1) /\ 0 \in 0..k
    BY <1>0
  <2>2. c[0 + 1] = Reduce1(c[0], next)
    BY <1>1, <2>1, ChainNext
  <2> QED BY <1>1, <1>2, <2>1, <2>2 DEF Reduce1, red
<1>4. ASSUME NEW i \in 0..(k - 1), i \in Good PROVE i + 1 \in Good
  <2>1. i + 1 \in 0..(n - 1) /\ i + 1 \in 0..k
    BY <1>0
  <2>2. c[(i + 1) + 1] = Reduce1(c[i + 1], next)
    BY <1>1, <2>1, ChainNext
  <2>3. d[i + 1] = Reduce1(d[i], next)
    BY <1>2a, ChainNext
  <2> QED BY <1>4, <2>1, <2>2, <2>3
<1> HIDE DEF Good
<1>5. k \in Good
  BY <1>0, <1>3, <1>4, UpTo
<1>6. c[k + 1] = d[k]
  BY <1>5 DEF Good
<1>7. k \in 0..k /\ k + 1 \in 0..n
  BY <1>0
<1>8. ~Reducible(d[k], next)
  BY <1>2a, <1>7, ChainEnds
<1>9. c[n] = c[k + 1]
  BY <1>1, <1>6, <1>7, <1>8, ChainStays
<1> QED BY <1>1, <1>2a, <1>6, <1>9 DEF red

-----------------------------------------------------------------------------
(* The grammar                                                             *)

Spans(n) == (1..4) \X (1..(n + 1)) \X (0..n)

\* What the rules give for a span, from what a table says of others.
Ors(s, D, i, j) ==
  {b \in BOOLEAN : \E k \in (i + 1)..(j - 1) : s[k].kind = "OR" /\
     \E x \in D[<<1, i, k - 1>>], y \in D[<<2, k + 1, j>>] : b = (x \/ y)}
Ands(s, D, i, j) ==
  {b \in BOOLEAN : \E k \in (i + 1)..(j - 1) : s[k].kind = "AND" /\
     \E x \in D[<<2, i, k - 1>>], y \in D[<<3, k + 1, j>>] : b = (x /\ y)}
Nots(s, D, i, j) == {b \in BOOLEAN : s[i].kind = "NOT" /\ \E x \in D[<<3, i + 1, j>>] : b = ~x}
Atoms(s, m, D, i, j) ==
  IF i = j THEN (IF s[i].kind = "cmp" THEN {Holds(s[i], m)} ELSE {})
  ELSE IF s[i].kind = "LPAREN" /\ s[j].kind = "RPAREN" THEN D[<<1, i + 1, j - 1>>] ELSE {}

Rules(s, m, D, r, i, j) ==
  IF i > j THEN {} ELSE
  CASE r = 1 -> D[<<2, i, j>>] \cup Ors(s, D, i, j)
    [] r = 2 -> D[<<3, i, j>>] \cup Ands(s, D, i, j)
    [] r = 3 -> D[<<4, i, j>>] \cup Nots(s, D, i, j)
    [] r = 4 -> Atoms(s, m, D, i, j)

ByRules(s, m, D) ==
  [span \in Spans(Len(s)) |-> Rules(s, m, D, span[1], span[2], span[3])]

Table(s, m) == CHOOSE D : D = ByRules(s, m, D)

LEMMA MeaningOfTable ==
  ASSUME NEW s, NEW m
  PROVE  Meaning(s, m) = Table(s, m)[<<1, 1, Len(s)>>]
BY DEF Meaning, Table, ByRules, Spans, Rules, Ors, Ands, Nots, Atoms

\* Rules look at shorter spans, and at stronger rules for the same one.
SpanRank(r, i, j) == IF i > j THEN 0 ELSE 4 * (j - i) + (5 - r)

\* Two tables agree on all that the rules look at for a span.
Agree(n, D, E, r, i, j) ==
  /\ n \in Nat /\ r \in 1..4 /\ i \in 1..(n + 1) /\ j \in 0..n
  /\ \A p \in 1..4, a \in 1..(n + 1), b \in 0..n :
       SpanRank(p, a, b) < SpanRank(r, i, j) => D[<<p, a, b>>] = E[<<p, a, b>>]

LEMMA RulesLocal ==
  ASSUME NEW s, NEW m, NEW n, NEW D, NEW E, NEW r, NEW i, NEW j, Agree(n, D, E, r, i, j)
  PROVE  Rules(s, m, D, r, i, j) = Rules(s, m, E, r, i, j)
<1>0. \A p \in 1..4, a \in 1..(n + 1), b \in 0..n :
        SpanRank(p, a, b) < SpanRank(r, i, j) => D[<<p, a, b>>] = E[<<p, a, b>>]
  BY DEF Agree
<1>n. n \in Nat /\ r \in 1..4 /\ i \in 1..(n + 1) /\ j \in 0..n
  BY DEF Agree
<1>1. CASE i > j
  BY <1>1 DEF Rules
<1>2. CASE ~(i > j)
  <2>0. i \in 1..n /\ j \in 1..n /\ i <= j
    BY <1>n, <1>2
  <2>1. ASSUME r < 4 PROVE D[<<r + 1, i, j>>] = E[<<r + 1, i, j>>]
    <3>1. SpanRank(r + 1, i, j) < SpanRank(r, i, j) /\ r + 1 \in 1..4
      BY <1>n, <2>0, <2>1 DEF SpanRank
    <3> QED BY <1>n, <1>0, <2>0, <3>1
  <2>2. ASSUME NEW k \in (i + 1)..(j - 1), NEW p \in 1..4
        PROVE  /\ D[<<p, i, k - 1>>] = E[<<p, i, k - 1>>]
               /\ D[<<p, k + 1, j>>] = E[<<p, k + 1, j>>]
    <3>1. k - 1 \in 0..n /\ SpanRank(p, i, k - 1) < SpanRank(r, i, j)
      BY <1>n, <2>0 DEF SpanRank
    <3>2. k + 1 \in 1..(n + 1) /\ SpanRank(p, k + 1, j) < SpanRank(r, i, j)
      BY <1>n, <2>0 DEF SpanRank
    <3> QED BY <1>n, <1>0, <2>0, <3>1, <3>2
  <2>3. CASE r = 1
    <3>1. Ors(s, D, i, j) = Ors(s, E, i, j)
      <4>1. \A k \in (i + 1)..(j - 1) :
              /\ D[<<1, i, k - 1>>] = E[<<1, i, k - 1>>]
              /\ D[<<2, k + 1, j>>] = E[<<2, k + 1, j>>]
        BY <2>2, 1 \in 1..4, 2 \in 1..4, 3 \in 1..4
      <4>2. ASSUME NEW b \in BOOLEAN, NEW k \in (i + 1)..(j - 1)
            PROVE  (\E x \in D[<<1, i, k - 1>>], y \in D[<<2, k + 1, j>>] : b = (x \/ y)) <=>
                   (\E x \in E[<<1, i, k - 1>>], y \in E[<<2, k + 1, j>>] : b = (x \/ y))
        BY <4>1
      <4> QED BY <4>2, Zenon DEF Ors
    <3> QED BY <1>2, <2>1, <2>3, <3>1 DEF Rules
  <2>4. CASE r = 2
    <3>1. Ands(s, D, i, j) = Ands(s, E, i, j)
      <4>1. \A k \in (i + 1)..(j - 1) :
              /\ D[<<2, i, k - 1>>] = E[<<2, i, k - 1>>]
              /\ D[<<3, k + 1, j>>] = E[<<3, k + 1, j>>]
        BY <2>2, 1 \in 1..4, 2 \in 1..4, 3 \in 1..4
      <4>2. ASSUME NEW b \in BOOLEAN, NEW k \in (i + 1)..(j - 1)
            PROVE  (\E x \in D[<<2, i, k - 1>>], y \in D[<<3, k + 1, j>>] : b = (x /\ y)) <=>
                   (\E x \in E[<<2, i, k - 1>>], y \in E[<<3, k + 1, j>>] : b = (x /\ y))
        BY <4>1
      <4> QED BY <4>2, Zenon DEF Ands
    <3> QED BY <1>2, <2>1, <2>4, <3>1 DEF Rules
  <2>5. CASE r = 3
    <3>1. i + 1 \in 1..(n + 1) /\ SpanRank(3, i + 1, j) < SpanRank(r, i, j)
      BY <1>n, <2>0, <2>5 DEF SpanRank
    <3>2. D[<<3, i + 1, j>>] = E[<<3, i + 1, j>>]
      BY <1>n, <1>0, <2>0, <3>1
    <3>3. Nots(s, D, i, j) = Nots(s, E, i, j)
      BY <3>2 DEF Nots
    <3> QED BY <1>2, <2>1, <2>5, <3>3 DEF Rules
  <2>6. CASE r = 4
    <3>1. ASSUME i # j PROVE D[<<1, i + 1, j - 1>>] = E[<<1, i + 1, j - 1>>]
      <4>1. /\ i + 1 \in 1..(n + 1) /\ j - 1 \in 0..n
            /\ SpanRank(1, i + 1, j - 1) < SpanRank(r, i, j)
        BY <1>n, <2>0, <2>6, <3>1 DEF SpanRank
      <4> QED BY <1>n, <1>0, <4>1
    <3>2. Atoms(s, m, D, i, j) = Atoms(s, m, E, i, j)
      BY <3>1 DEF Atoms
    <3> QED BY <1>2, <2>6, <3>2 DEF Rules
  <2> QED BY <1>n, <2>3, <2>4, <2>5, <2>6
<1> QED BY <1>1, <1>2

\* There is a table that follows the rules: rank by rank.
LEMMA TableByRules ==
  ASSUME NEW S, NEW s \in Seq(S), NEW m
  PROVE  Table(s, m) = ByRules(s, m, Table(s, m))
<1> DEFINE n == Len(s)
           Upto(D, k) == \A p \in 1..4, a \in 1..(n + 1), b \in 0..n : SpanRank(p, a, b) < k =>
                           D[<<p, a, b>>] = Rules(s, m, D, p, a, b)
           Ok(k) == \E D : Upto(D, k)
<1>0. n \in Nat
  OBVIOUS
<1>a. \A D : \A p \in 1..4, a \in 1..(n + 1), b \in 0..n :
        ByRules(s, m, D)[<<p, a, b>>] = Rules(s, m, D, p, a, b)
  BY DEF ByRules, Spans
<1>r. \A p \in 1..4, a \in 1..(n + 1), b \in 0..n :
        SpanRank(p, a, b) \in Nat /\ SpanRank(p, a, b) < 4 * n + 5
  BY <1>0 DEF SpanRank
<1> HIDE DEF n
<1>1. Ok(0)
  <2>1. \A p \in 1..4, a \in 1..(n + 1), b \in 0..n : ~(SpanRank(p, a, b) < 0)
    BY <1>r
  <2> QED BY <2>1, Zenon
<1>2. ASSUME NEW k \in Nat, Ok(k) PROVE Ok(k + 1)
  <2>1. PICK D : Upto(D, k)
    BY <1>2
  <2> DEFINE E == ByRules(s, m, D)
  <2>2. ASSUME NEW p \in 1..4, NEW a \in 1..(n + 1), NEW b \in 0..n, SpanRank(p, a, b) < k + 1
        PROVE  E[<<p, a, b>>] = Rules(s, m, E, p, a, b)
    <3>1. Agree(n, D, E, p, a, b)
      <4> SUFFICES ASSUME NEW q \in 1..4, NEW c \in 1..(n + 1), NEW d \in 0..n,
                          SpanRank(q, c, d) < SpanRank(p, a, b)
                   PROVE  D[<<q, c, d>>] = E[<<q, c, d>>]
        BY <1>0 DEF Agree
      <4>0. SpanRank(q, c, d) \in Nat /\ SpanRank(p, a, b) \in Nat
        BY <1>r
      <4>1. SpanRank(q, c, d) < k
        BY <2>2, <4>0
      <4> QED BY <1>a, <2>1, <4>1
    <3> HIDE DEF E
    <3>2. Rules(s, m, D, p, a, b) = Rules(s, m, E, p, a, b)
      BY <3>1, RulesLocal
    <3> QED BY <1>a, <3>2 DEF E
  <2> HIDE DEF E
  <2> QED BY <2>2
<1> HIDE DEF Ok
<1>3. Nat \subseteq {k \in Nat : Ok(k)}
  <2> DEFINE Good == {k \in Nat : Ok(k)}
  <2>1. 0 \in Good /\ \A k \in Nat : k \in Good => k + 1 \in Good
    BY <1>1, <1>2
  <2> HIDE DEF Good
  <2>2. Nat \subseteq Good
    BY <2>1, Up
  <2> QED BY <2>2 DEF Good
<1>4. Ok(4 * n + 5)
  BY <1>0, <1>3
<1> USE DEF Ok
<1>5. PICK D : Upto(D, 4 * n + 5)
  BY <1>4
<1> DEFINE E == ByRules(s, m, D)
<1>6. E = ByRules(s, m, E)
  <2>1. ASSUME NEW p \in 1..4, NEW a \in 1..(n + 1), NEW b \in 0..n
        PROVE  D[<<p, a, b>>] = E[<<p, a, b>>]
    BY <1>r, <1>5, <1>a
  <2> HIDE DEF E
  <2>2. ASSUME NEW p \in 1..4, NEW a \in 1..(n + 1), NEW b \in 0..n
        PROVE  Rules(s, m, D, p, a, b) = Rules(s, m, E, p, a, b)
    <3>1. Agree(n, D, E, p, a, b)
      BY <1>0, <2>1 DEF Agree
    <3> QED BY <3>1, RulesLocal
  <2>3. \A span \in Spans(n) :
          Rules(s, m, D, span[1], span[2], span[3]) = Rules(s, m, E, span[1], span[2], span[3])
    BY <2>2 DEF Spans
  <2> QED BY <2>3 DEF E, ByRules, n
<1> HIDE DEF E
<1> QED BY <1>6, Zenon DEF Table

-----------------------------------------------------------------------------
(* What the rules derive                                                   *)

Span(s, i, j) == i \in 1..Len(s) /\ j \in 1..Len(s) /\ i <= j

\* A rule of level r gives the tokens from i to j the value b.
In(s, m, b, r, i, j) == b \in Table(s, m)[<<r, i, j>>]

LEMMA TableAt ==
  ASSUME NEW s \in Expr, NEW m, NEW r \in 1..4, NEW i \in 1..(Len(s) + 1), NEW j \in 0..Len(s)
  PROVE  Table(s, m)[<<r, i, j>>] = Rules(s, m, Table(s, m), r, i, j)
<1> DEFINE D == Table(s, m)
<1>1. D = ByRules(s, m, D)
  BY TableByRules DEF Expr
<1> HIDE DEF D
<1>2. Len(s) \in Nat
  BY DEF Expr
<1>3. <<r, i, j>> \in Spans(Len(s))
  BY <1>2 DEF Spans
<1>4. ByRules(s, m, D)[<<r, i, j>>] = Rules(s, m, D, r, i, j)
  BY <1>3 DEF ByRules
<1> QED BY <1>1, <1>4 DEF D

LEMMA HoldsBoolean ==
  ASSUME NEW c \in Tokens, NEW m, c.kind = "cmp"
  PROVE  Holds(c, m) \in BOOLEAN
<1>1. c.attr \in Names \/ c.op \in {"=", "!=", "<", "<=", ">", ">="}
  BY TokensAssumption
<1>2. ASSUME NEW op \in {"=", "!=", "<", "<=", ">", ">="}, NEW x, NEW y PROVE Compares(op, x, y) \in BOOLEAN
  <2>1. /\ (x = y) \in BOOLEAN /\ (x # y) \in BOOLEAN /\ (x < y) \in BOOLEAN
        /\ (x <= y) \in BOOLEAN /\ (x > y) \in BOOLEAN /\ (x >= y) \in BOOLEAN
    OBVIOUS
  <2>2. \/ Compares(op, x, y) = (x = y) \/ Compares(op, x, y) = (x # y) \/ Compares(op, x, y) = (x < y)
        \/ Compares(op, x, y) = (x <= y) \/ Compares(op, x, y) = (x > y) \/ Compares(op, x, y) = (x >= y)
    BY DEF Compares
  <2> QED BY <2>1, <2>2
<1>3. CASE c.attr \in Names
  BY <1>3 DEF Holds
<1>4. CASE c.attr \notin Names
  <2>1. c.op \in {"=", "!=", "<", "<=", ">", ">="}
    BY <1>1, <1>4
  <2>2. Compares(c.op, Rank(c.attr, m[c.attr]), Rank(c.attr, c.val)) \in BOOLEAN
    BY <1>2, <2>1
  <2> QED BY <1>4, <2>2 DEF Holds
<1> QED BY <1>3, <1>4

LEMMA NoEmptySpan ==
  ASSUME NEW s \in Expr, NEW m, NEW b, NEW r \in 1..4, NEW i \in 1..(Len(s) + 1), NEW j \in 0..Len(s),
         In(s, m, b, r, i, j)
  PROVE  Span(s, i, j)
<1>1. b \in Rules(s, m, Table(s, m), r, i, j)
  BY TableAt DEF In
<1>2. i <= j
  BY <1>1 DEF Rules, Expr
<1> QED BY <1>2 DEF Span, Expr

LEMMA TableBoolean ==
  ASSUME NEW s \in Expr, NEW m, NEW b, NEW r \in 1..4, NEW i \in 1..(Len(s) + 1), NEW j \in 0..Len(s),
         In(s, m, b, r, i, j)
  PROVE  b \in BOOLEAN
<1> DEFINE D == Table(s, m)
           n == Len(s)
           Good == {k \in Nat : \A p \in 1..4, x \in 1..(n + 1), y \in 0..n :
                      SpanRank(p, x, y) < k => D[<<p, x, y>>] \subseteq BOOLEAN}
<1>0. n \in Nat
  BY DEF Expr
<1>t. \A p \in 1..4, x \in 1..(n + 1), y \in 0..n : D[<<p, x, y>>] = Rules(s, m, D, p, x, y)
  BY TableAt
<1>c. \A x \in 1..n : s[x].kind = "cmp" => Holds(s[x], m) \in BOOLEAN
  BY HoldsBoolean DEF Expr
<1> HIDE DEF D, n
<1>r. \A p \in 1..4, x \in 1..(n + 1), y \in 0..n : SpanRank(p, x, y) \in Nat
  BY <1>0 DEF SpanRank
<1>1. 0 \in Good
  <2>1. \A p \in 1..4, x \in 1..(n + 1), y \in 0..n : ~ (SpanRank(p, x, y) < 0)
    BY <1>r, SMT
  <2> QED BY <2>1, Zenon
<1>2. ASSUME NEW k \in Nat, k \in Good PROVE k + 1 \in Good
  <2> SUFFICES ASSUME NEW p \in 1..4, NEW x \in 1..(n + 1), NEW y \in 0..n, SpanRank(p, x, y) < k + 1
               PROVE  D[<<p, x, y>>] \subseteq BOOLEAN
    OBVIOUS
  <2>1. CASE x > y
    BY <1>t, <2>1 DEF Rules
  <2>2. CASE ~(x > y) /\ p < 4
    <3>1. SpanRank(p + 1, x, y) < k /\ p + 1 \in 1..4
      BY <1>0, <2>2 DEF SpanRank
    <3>2. D[<<p + 1, x, y>>] \subseteq BOOLEAN
      BY <1>2, <3>1
    <3>3. /\ Ors(s, D, x, y) \subseteq BOOLEAN /\ Ands(s, D, x, y) \subseteq BOOLEAN
          /\ Nots(s, D, x, y) \subseteq BOOLEAN
      BY DEF Ors, Ands, Nots
    <3>4. D[<<p, x, y>>] = Rules(s, m, D, p, x, y)
      BY <1>t
    <3>5. CASE p = 1
      BY <2>2, <3>2, <3>3, <3>4, <3>5 DEF Rules
    <3>6. CASE p = 2
      BY <2>2, <3>2, <3>3, <3>4, <3>6 DEF Rules
    <3>7. CASE p = 3
      BY <2>2, <3>2, <3>3, <3>4, <3>7 DEF Rules
    <3> QED BY <2>2, <3>5, <3>6, <3>7
  <2>3. CASE ~(x > y) /\ p = 4
    <3>1. D[<<p, x, y>>] = Atoms(s, m, D, x, y)
      BY <1>t, <2>3 DEF Rules
    <3>2. CASE x = y
      <4>1. x \in 1..n
        BY <1>0, <2>3
      <4> QED BY <1>c, <3>1, <3>2, <4>1 DEF Atoms
    <3>3. CASE x # y
      <4>1. x + 1 \in 1..(n + 1) /\ y - 1 \in 0..n /\ SpanRank(1, x + 1, y - 1) < k
        BY <1>0, <2>3, <3>3 DEF SpanRank
      <4>2. D[<<1, x + 1, y - 1>>] \subseteq BOOLEAN
        BY <1>2, <4>1
      <4> QED BY <3>1, <3>3, <4>2 DEF Atoms
    <3> QED BY <3>2, <3>3
  <2>4. p < 4 \/ p = 4
    OBVIOUS
  <2> QED BY <2>1, <2>2, <2>3, <2>4, Zenon
<1> HIDE DEF Good
<1>3. Nat \subseteq Good
  BY <1>1, <1>2, Up
<1>4. r \in 1..4 /\ i \in 1..(n + 1) /\ j \in 0..n
  BY DEF n
<1>5. SpanRank(r, i, j) \in Nat /\ SpanRank(r, i, j) + 1 \in Good /\ SpanRank(r, i, j) < SpanRank(r, i, j) + 1
  BY <1>r, <1>3, <1>4
<1>6. D[<<r, i, j>>] \subseteq BOOLEAN
  BY <1>4, <1>5 DEF Good
<1> QED BY <1>6 DEF In, D

LEMMA SpanAt ==
  ASSUME NEW s \in Expr, NEW m, NEW i, NEW j, Span(s, i, j), NEW r \in 1..4, NEW b
  PROVE  In(s, m, b, r, i, j) <=> b \in Rules(s, m, Table(s, m), r, i, j)
<1>1. Len(s) \in Nat
  BY DEF Expr
<1>2. i \in 1..(Len(s) + 1) /\ j \in 0..Len(s)
  BY <1>1 DEF Span
<1> QED BY <1>2, TableAt DEF In

LEMMA Weaker ==
  ASSUME NEW s \in Expr, NEW m, NEW b, NEW q \in 1..4, NEW r \in 1..4, NEW i, NEW j,
         Span(s, i, j), q <= r, In(s, m, b, r, i, j)
  PROVE  In(s, m, b, q, i, j)
<1>0. ~(i > j)
  BY DEF Span
<1>1. ASSUME NEW p \in 1..3, In(s, m, b, p + 1, i, j) PROVE In(s, m, b, p, i, j)
  <2>1. b \in Table(s, m)[<<p + 1, i, j>>]
    BY <1>1 DEF In
  <2>2. CASE p = 1
    <3>1. b \in Rules(s, m, Table(s, m), 1, i, j)
      BY <1>0, <2>1, <2>2 DEF Rules
    <3> QED BY <2>2, <3>1, SpanAt
  <2>3. CASE p = 2
    <3>1. b \in Rules(s, m, Table(s, m), 2, i, j)
      BY <1>0, <2>1, <2>3 DEF Rules
    <3> QED BY <2>3, <3>1, SpanAt
  <2>4. CASE p = 3
    <3>1. b \in Rules(s, m, Table(s, m), 3, i, j)
      BY <1>0, <2>1, <2>4 DEF Rules
    <3> QED BY <2>4, <3>1, SpanAt
  <2> QED BY <2>2, <2>3, <2>4
<1>2. In(s, m, b, 4, i, j) => In(s, m, b, 3, i, j)
  <2>1. 3 \in 1..3 /\ 3 + 1 = 4
    OBVIOUS
  <2> QED BY <1>1, <2>1
<1>3. In(s, m, b, 3, i, j) => In(s, m, b, 2, i, j)
  <2>1. 2 \in 1..3 /\ 2 + 1 = 3
    OBVIOUS
  <2> QED BY <1>1, <2>1
<1>4. In(s, m, b, 2, i, j) => In(s, m, b, 1, i, j)
  <2>1. 1 \in 1..3 /\ 1 + 1 = 2
    OBVIOUS
  <2> QED BY <1>1, <2>1
<1> QED BY <1>2, <1>3, <1>4

LEMMA OrRule ==
  ASSUME NEW s \in Expr, NEW m, NEW x \in BOOLEAN, NEW y \in BOOLEAN, NEW i, NEW j, NEW k \in (i + 1)..(j - 1),
         Span(s, i, j), s[k].kind = "OR", In(s, m, x, 1, i, k - 1), In(s, m, y, 2, k + 1, j)
  PROVE  In(s, m, x \/ y, 1, i, j)
<1>1. (x \/ y) \in Ors(s, Table(s, m), i, j)
  BY Zenon DEF Ors, In
<1>2. ~(i > j)
  BY DEF Span
<1>3. (x \/ y) \in Rules(s, m, Table(s, m), 1, i, j)
  BY <1>1, <1>2 DEF Rules
<1> QED BY <1>3, SpanAt

LEMMA AndRule ==
  ASSUME NEW s \in Expr, NEW m, NEW x \in BOOLEAN, NEW y \in BOOLEAN, NEW i, NEW j, NEW k \in (i + 1)..(j - 1),
         Span(s, i, j), s[k].kind = "AND", In(s, m, x, 2, i, k - 1), In(s, m, y, 3, k + 1, j)
  PROVE  In(s, m, x /\ y, 2, i, j)
<1>1. (x /\ y) \in Ands(s, Table(s, m), i, j)
  BY Zenon DEF Ands, In
<1>2. ~(i > j)
  BY DEF Span
<1>3. (x /\ y) \in Rules(s, m, Table(s, m), 2, i, j)
  BY <1>1, <1>2 DEF Rules
<1> QED BY <1>3, SpanAt

LEMMA NotRule ==
  ASSUME NEW s \in Expr, NEW m, NEW x \in BOOLEAN, NEW i, NEW j,
         Span(s, i, j), s[i].kind = "NOT", In(s, m, x, 3, i + 1, j)
  PROVE  In(s, m, ~x, 3, i, j)
<1>1. (~x) \in Nots(s, Table(s, m), i, j)
  BY Zenon DEF Nots, In
<1>2. ~(i > j)
  BY DEF Span
<1>3. (~x) \in Rules(s, m, Table(s, m), 3, i, j)
  BY <1>1, <1>2 DEF Rules
<1> QED BY <1>3, SpanAt

LEMMA CmpRule ==
  ASSUME NEW s \in Expr, NEW m, NEW i \in 1..Len(s), s[i].kind = "cmp"
  PROVE  In(s, m, Holds(s[i], m), 4, i, i)
<1>1. Holds(s[i], m) \in Atoms(s, m, Table(s, m), i, i)
  BY DEF Atoms
<1>2. ~(i > i) /\ Span(s, i, i)
  BY DEF Span, Expr
<1>3. Holds(s[i], m) \in Rules(s, m, Table(s, m), 4, i, i)
  BY <1>1, <1>2 DEF Rules
<1> QED BY <1>2, <1>3, SpanAt

LEMMA ParenRule ==
  ASSUME NEW s \in Expr, NEW m, NEW b, NEW i, NEW j, Span(s, i, j), i # j,
         s[i].kind = "LPAREN", s[j].kind = "RPAREN", In(s, m, b, 1, i + 1, j - 1)
  PROVE  In(s, m, b, 4, i, j)
<1>1. b \in Atoms(s, m, Table(s, m), i, j)
  BY DEF Atoms, In
<1>2. ~(i > j)
  BY DEF Span
<1>3. b \in Rules(s, m, Table(s, m), 4, i, j)
  BY <1>1, <1>2 DEF Rules
<1> QED BY <1>3, SpanAt

LEMMA InRules ==
  ASSUME NEW s \in Expr, NEW m, NEW b, NEW r \in 1..4, NEW i, NEW j, Span(s, i, j), In(s, m, b, r, i, j)
  PROVE  \/ r < 4 /\ In(s, m, b, r + 1, i, j)
         \/ r = 1 /\ \E k \in (i + 1)..(j - 1), x \in BOOLEAN, y \in BOOLEAN :
              s[k].kind = "OR" /\ In(s, m, x, 1, i, k - 1) /\ In(s, m, y, 2, k + 1, j) /\ b = (x \/ y)
         \/ r = 2 /\ \E k \in (i + 1)..(j - 1), x \in BOOLEAN, y \in BOOLEAN :
              s[k].kind = "AND" /\ In(s, m, x, 2, i, k - 1) /\ In(s, m, y, 3, k + 1, j) /\ b = (x /\ y)
         \/ r = 3 /\ s[i].kind = "NOT" /\ i < j /\ \E x \in BOOLEAN : In(s, m, x, 3, i + 1, j) /\ b = ~x
         \/ r = 4 /\ i = j /\ s[i].kind = "cmp" /\ b = Holds(s[i], m)
         \/ r = 4 /\ i + 1 < j /\ s[i].kind = "LPAREN" /\ s[j].kind = "RPAREN" /\ In(s, m, b, 1, i + 1, j - 1)
<1> DEFINE D == Table(s, m)
<1>0. Len(s) \in Nat /\ i \in 1..Len(s) /\ j \in 1..Len(s) /\ i <= j /\ ~(i > j)
  BY DEF Span, Expr
<1>1. b \in Rules(s, m, D, r, i, j)
  BY SpanAt
<1>2. ASSUME NEW k \in (i + 1)..(j - 1), NEW p \in 1..4, NEW x
      PROVE  (In(s, m, x, p, i, k - 1) \/ In(s, m, x, p, k + 1, j)) => x \in BOOLEAN
  <2>1. i \in 1..(Len(s) + 1) /\ k - 1 \in 0..Len(s) /\ k + 1 \in 1..(Len(s) + 1) /\ j \in 0..Len(s)
    BY <1>0
  <2> QED BY <2>1, TableBoolean
<1>3. CASE b \in D[<<r + 1, i, j>>] /\ r < 4
  BY <1>3 DEF In
<1>4. CASE r = 1 /\ b \in Ors(s, D, i, j)
  <2>1. PICK k \in (i + 1)..(j - 1) : s[k].kind = "OR" /\
          \E x \in D[<<1, i, k - 1>>], y \in D[<<2, k + 1, j>>] : b = (x \/ y)
    BY <1>4, Zenon DEF Ors
  <2>2. PICK x, y : In(s, m, x, 1, i, k - 1) /\ In(s, m, y, 2, k + 1, j) /\ b = (x \/ y)
    BY <2>1, Zenon DEF In
  <2>3. x \in BOOLEAN /\ y \in BOOLEAN
    BY <1>2, <2>2, 1 \in 1..4, 2 \in 1..4
  <2> QED BY <1>4, <2>1, <2>2, <2>3, Zenon
<1>5. CASE r = 2 /\ b \in Ands(s, D, i, j)
  <2>1. PICK k \in (i + 1)..(j - 1) : s[k].kind = "AND" /\
          \E x \in D[<<2, i, k - 1>>], y \in D[<<3, k + 1, j>>] : b = (x /\ y)
    BY <1>5, Zenon DEF Ands
  <2>2. PICK x, y : In(s, m, x, 2, i, k - 1) /\ In(s, m, y, 3, k + 1, j) /\ b = (x /\ y)
    BY <2>1, Zenon DEF In
  <2>3. x \in BOOLEAN /\ y \in BOOLEAN
    BY <1>2, <2>2, 2 \in 1..4, 3 \in 1..4
  <2> QED BY <1>5, <2>1, <2>2, <2>3, Zenon
<1>6. CASE r = 3 /\ b \in Nots(s, D, i, j)
  <2>1. s[i].kind = "NOT" /\ \E x \in D[<<3, i + 1, j>>] : b = ~x
    BY <1>6, Zenon DEF Nots
  <2>2. PICK x : In(s, m, x, 3, i + 1, j) /\ b = ~x
    BY <2>1 DEF In
  <2>3. i + 1 \in 1..(Len(s) + 1) /\ j \in 0..Len(s)
    BY <1>0
  <2>4. x \in BOOLEAN
    BY <2>2, <2>3, TableBoolean, 3 \in 1..4
  <2>5. Span(s, i + 1, j)
    BY <2>2, <2>3, NoEmptySpan, 3 \in 1..4
  <2>6. i < j
    BY <1>0, <2>5 DEF Span
  <2> QED BY <1>6, <2>1, <2>2, <2>4, <2>6, Zenon
<1>7. CASE r = 4 /\ b \in Atoms(s, m, D, i, j)
  <2>1. CASE i = j
    BY <1>7, <2>1 DEF Atoms
  <2>2. CASE i # j
    <3>1. s[i].kind = "LPAREN" /\ s[j].kind = "RPAREN" /\ In(s, m, b, 1, i + 1, j - 1)
      BY <1>7, <2>2 DEF Atoms, In
    <3>2. i + 1 \in 1..(Len(s) + 1) /\ j - 1 \in 0..Len(s)
      BY <1>0
    <3>3. Span(s, i + 1, j - 1)
      BY <3>1, <3>2, NoEmptySpan, 1 \in 1..4
    <3>4. i + 1 < j
      BY <1>0, <3>3 DEF Span
    <3> QED BY <1>7, <3>1, <3>4
  <2> QED BY <2>1, <2>2
<1> QED BY <1>0, <1>1, <1>3, <1>4, <1>5, <1>6, <1>7 DEF Rules

-----------------------------------------------------------------------------
(* Stacks                                                                  *)

LEMMA Kinds ==
  /\ \A b : Value(b) \in Symbols /\ IsExpr(Value(b))
  /\ \A b \in BOOLEAN : IsTrue(Value(b)) = b
  /\ \A t \in Tokens : ~IsExpr(t)
  /\ Bad \in Symbols /\ ~IsExpr(Bad)
  /\ \A x \in Symbols : IsExpr(x) => x = Value(IsTrue(x))
<1>1. \A b : Value(b) \in Symbols /\ IsExpr(Value(b))
  BY DEF Value, Symbols, IsExpr, Tok
<1>2. \A b \in BOOLEAN : IsTrue(Value(b)) = b
  <2>1. IsTrue(Value(TRUE)) = TRUE /\ IsTrue(Value(FALSE)) = FALSE
    BY DEF IsTrue, Value, Tok
  <2> QED BY <2>1
<1>3. \A t \in Tokens : ~IsExpr(t)
  BY TokensAssumption DEF IsExpr
<1>4. Bad \in Symbols /\ ~IsExpr(Bad)
  BY DEF Bad, Symbols, IsExpr, Tok
<1>5. \A x \in Symbols : IsExpr(x) => x = Value(IsTrue(x))
  BY <1>3, <1>4 DEF Symbols, IsExpr, IsTrue, Value, Tok
<1> QED BY <1>1, <1>2, <1>3, <1>4, <1>5

LEMMA PushedStack ==
  ASSUME NEW st \in Stacks, NEW x \in Symbols
  PROVE  /\ Append(st, x) \in Stacks
         /\ Len(Append(st, x)) = Len(st) + 1
         /\ Append(st, x)[Len(st) + 1] = x
         /\ \A q \in 1..Len(st) : Append(st, x)[q] = st[q]
         /\ SubSeq(Append(st, x), 1, Len(st)) = st
         /\ EndsInExpr(Append(st, x)) <=> IsExpr(x)
<1>1. /\ Append(st, x) \in Stacks
      /\ Len(Append(st, x)) = Len(st) + 1
      /\ Append(st, x)[Len(st) + 1] = x
      /\ \A q \in 1..Len(st) : Append(st, x)[q] = st[q]
      /\ Append(st, x) # <<>>
  BY DEF Stacks
<1>2. SubSeq(Append(st, x), 1, Len(st)) = st
  BY DEF Stacks
<1>3. Last(Append(st, x)) = x
  BY <1>1 DEF Last
<1> QED BY <1>1, <1>2, <1>3 DEF EndsInExpr

\* Which expressions on top of a stack can be reduced, and to what.
LEMMA ReducibleTop ==
  ASSUME NEW st \in Stacks, NEW b, NEW next
  PROVE  Reducible(Append(st, Value(b)), next) <=>
           /\ Len(st) > 0
           /\ \/ st[Len(st)].kind \in {"NOT", "AND"}
              \/ st[Len(st)].kind = "OR" /\ next # "AND"
<1> DEFINE st2 == Append(st, Value(b))
<1>1. Len(st) \in Nat /\ Value(b) \in Symbols /\ IsExpr(Value(b))
  BY Kinds DEF Stacks
<1>2. /\ Len(st2) = Len(st) + 1
      /\ \A q \in 1..Len(st) : st2[q] = st[q]
      /\ EndsInExpr(st2)
  BY <1>1, PushedStack
<1> HIDE DEF st2
<1>3. Len(st2) - 1 = Len(st) /\ (Len(st2) > 1 <=> Len(st) > 0)
  BY <1>1, <1>2
<1>4. Len(st) > 0 => st2[Len(st)] = st[Len(st)]
  BY <1>1, <1>2
<1> QED BY <1>2, <1>3, <1>4 DEF Reducible, st2

LEMMA ReduceNot ==
  ASSUME NEW st \in Stacks, NEW t \in Tokens, t.kind = "NOT", NEW x \in BOOLEAN
  PROVE  Reduction(Append(Append(st, t), Value(x))) = Append(st, Value(~x))
<1> DEFINE one == Append(st, t)
           two == Append(one, Value(x))
<1>0. Len(st) \in Nat /\ t \in Symbols /\ Value(x) \in Symbols
  BY Kinds DEF Stacks, Symbols
<1>1. one \in Stacks /\ Len(one) = Len(st) + 1 /\ one[Len(st) + 1] = t
  BY <1>0, PushedStack
<1>2. /\ two \in Stacks /\ Len(two) = Len(st) + 2 /\ two[Len(st) + 2] = Value(x)
      /\ two[Len(st) + 1] = t
  <2>1. Len(one) + 1 = Len(st) + 2 /\ Len(st) + 1 \in 1..Len(one) /\ Len(st) + 1 \in 1..Len(one)
    BY <1>0, <1>1
  <2> HIDE DEF one
  <2>2. /\ two \in Stacks /\ Len(two) = Len(one) + 1 /\ two[Len(one) + 1] = Value(x)
        /\ \A q \in 1..Len(one) : two[q] = one[q]
    BY <1>0, <1>1, PushedStack
  <2> HIDE DEF two
  <2> QED BY <1>0, <1>1, <2>1, <2>2
<1>3. SubSeq(two, 1, Len(st)) = st
  BY <1>0 DEF Stacks
<1> HIDE DEF one, two
<1>4. Len(two) - 1 = Len(st) + 1 /\ Len(two) - 2 = Len(st)
  BY <1>0, <1>2
<1>5. IsTrue(Value(x)) = x
  BY Kinds
<1>6. Reduction(two) = Append(SubSeq(two, 1, Len(two) - 2), Value(~IsTrue(two[Len(two)])))
  BY <1>2, <1>4 DEF Reduction
<1> QED BY <1>2, <1>3, <1>4, <1>5, <1>6 DEF one, two

LEMMA ReduceOp ==
  ASSUME NEW st \in Stacks, NEW t \in Tokens, NEW x \in BOOLEAN, NEW y \in BOOLEAN
  PROVE  LET st2 == Append(Append(Append(st, Value(x)), t), Value(y))
         IN  /\ t.kind = "AND" => Reduction(st2) = Append(st, Value(x /\ y))
             /\ t.kind = "OR" => Reduction(st2) = Append(st, Value(x \/ y))
<1> DEFINE one == Append(st, Value(x))
           two == Append(one, t)
           three == Append(two, Value(y))
<1>0. Len(st) \in Nat /\ t \in Symbols /\ Value(x) \in Symbols /\ Value(y) \in Symbols
  BY Kinds DEF Stacks, Symbols
<1>1. one \in Stacks /\ Len(one) = Len(st) + 1 /\ one[Len(st) + 1] = Value(x)
  BY <1>0, PushedStack
<1>2. /\ two \in Stacks /\ Len(two) = Len(st) + 2 /\ two[Len(st) + 2] = t
      /\ two[Len(st) + 1] = Value(x)
  <2>1. Len(one) + 1 = Len(st) + 2 /\ Len(st) + 1 \in 1..Len(one) /\ Len(st) + 1 \in 1..Len(one)
    BY <1>0, <1>1
  <2> HIDE DEF one
  <2>2. /\ two \in Stacks /\ Len(two) = Len(one) + 1 /\ two[Len(one) + 1] = t
        /\ \A q \in 1..Len(one) : two[q] = one[q]
    BY <1>0, <1>1, PushedStack
  <2> HIDE DEF two
  <2> QED BY <1>0, <1>1, <2>1, <2>2
<1>3. /\ three \in Stacks /\ Len(three) = Len(st) + 3 /\ three[Len(st) + 3] = Value(y)
      /\ three[Len(st) + 2] = t /\ three[Len(st) + 1] = Value(x)
  <2>1. Len(two) + 1 = Len(st) + 3 /\ Len(st) + 1 \in 1..Len(two) /\ Len(st) + 2 \in 1..Len(two)
    BY <1>0, <1>2
  <2> HIDE DEF two
  <2>2. /\ three \in Stacks /\ Len(three) = Len(two) + 1 /\ three[Len(two) + 1] = Value(y)
        /\ \A q \in 1..Len(two) : three[q] = two[q]
    BY <1>0, <1>2, PushedStack
  <2> HIDE DEF three
  <2> QED BY <1>0, <1>2, <2>1, <2>2
<1>4. SubSeq(three, 1, Len(st)) = st
  BY <1>0 DEF Stacks
<1> HIDE DEF one, two, three
<1>5. Len(three) - 1 = Len(st) + 2 /\ Len(three) - 2 = Len(st) + 1 /\ Len(three) - 3 = Len(st)
  BY <1>0, <1>3
<1>6. IsTrue(Value(x)) = x /\ IsTrue(Value(y)) = y
  BY Kinds
<1>7. ASSUME t.kind = "AND" PROVE Reduction(three) = Append(st, Value(x /\ y))
  <2>1. Reduction(three) = Append(SubSeq(three, 1, Len(three) - 3),
                                  Value(IsTrue(three[Len(three) - 2]) /\ IsTrue(three[Len(three)])))
    BY <1>3, <1>5, <1>7 DEF Reduction
  <2> QED BY <1>3, <1>4, <1>5, <1>6, <2>1
<1>8. ASSUME t.kind = "OR" PROVE Reduction(three) = Append(st, Value(x \/ y))
  <2>1. Reduction(three) = Append(SubSeq(three, 1, Len(three) - 3),
                                  Value(IsTrue(three[Len(three) - 2]) \/ IsTrue(three[Len(three)])))
    BY <1>3, <1>5, <1>8 DEF Reduction
  <2> QED BY <1>3, <1>4, <1>5, <1>6, <2>1
<1> QED BY <1>7, <1>8 DEF one, two, three

-----------------------------------------------------------------------------
(* The parser's run                                                        *)

LEMMA ShiftTyped ==
  ASSUME NEW st \in Stacks, NEW t \in Tokens, NEW m
  PROVE  Shift(st, t, m) \in Stacks
<1> DEFINE red == Reduced(st, t.kind)
<1>0. red \in Stacks /\ Len(red) \in Nat
  BY ReducedNot DEF Stacks
<1>1. t \in Symbols /\ Value(Holds(t, m)) \in Symbols /\ SyntaxError \in Stacks
  BY Kinds DEF Symbols, SyntaxError, Stacks
<1>2. /\ Append(st, Value(Holds(t, m))) \in Stacks /\ Append(st, t) \in Stacks /\ Append(red, t) \in Stacks
  BY <1>0, <1>1, PushedStack
<1>3. Len(red) > 1 => Append(SubSeq(red, 1, Len(red) - 2), red[Len(red)]) \in Stacks
  BY <1>0 DEF Stacks
<1> HIDE DEF red
<1> QED BY <1>1, <1>2, <1>3 DEF Shift, red

Run(c, s, m) ==
  c \in [0..Len(s) -> Stacks] /\ c[0] = <<>> /\ \A k \in 1..Len(s) : c[k] = Shift(c[k - 1], s[k], m)

LEMMA RunAt ==
  ASSUME NEW c, NEW s \in Expr, NEW m, Run(c, s, m), NEW k \in 1..Len(s)
  PROVE  /\ c[k - 1] \in Stacks /\ c[k] \in Stacks /\ s[k] \in Tokens
         /\ c[k] = Shift(c[k - 1], s[k], m)
<1>1. k - 1 \in 0..Len(s) /\ k \in 0..Len(s)
  BY DEF Expr
<1> QED BY <1>1 DEF Run, Expr

LEMMA ParseRun ==
  ASSUME NEW s \in Expr, NEW m
  PROVE  \E c : /\ Run(c, s, m)
                /\ LET stack == Reduced(c[Len(s)], "YYEOF")
                   IN  /\ parse(s, m).rc = (Len(stack) = 1 /\ IsExpr(stack[1]))
                       /\ parse(s, m).result = (parse(s, m).rc /\ IsTrue(stack[1]))
<1> DEFINE n == Len(s)
           step == [p \in (1..n) \X Stacks |-> Shift(p[2], s[p[1]], m)]
           Body(f) == [S \in SUBSET DOMAIN s |->
                         IF S = {} THEN <<>> ELSE Shift(f[S \ {Max(S)}], s[Max(S)], m)]
           f == CHOOSE f : f = Body(f)
           stack == Reduced(f[DOMAIN s], "YYEOF")
<1>0. n \in Nat /\ DOMAIN s = 1..n /\ <<>> \in Stacks /\ \A k \in 1..n : s[k] \in Tokens
  BY DEF Expr, Stacks
<1>1. /\ parse(s, m).rc = (Len(stack) = 1 /\ IsExpr(stack[1]))
      /\ parse(s, m).result = (parse(s, m).rc /\ IsTrue(stack[1]))
  BY DEF parse, FoldLeft, MapThenFoldSet
<1>2. step \in [(1..n) \X Stacks -> Stacks]
  BY <1>0, ShiftTyped
<1>3. \A k \in 1..n, x \in Stacks : step[<<k, x>>] = Shift(x, s[k], m)
  OBVIOUS
<1> HIDE DEF step, n
<1>s. FoldStep(Stacks, n, <<>>, step)
  BY <1>0, <1>2 DEF FoldStep
<1>4. PICK g : IsFold(g, Stacks, n, <<>>, step)
  BY <1>s, FoldExists
<1>5. ASSUME NEW S \in SUBSET (1..n), S # {} PROVE Max(S) \in 1..n
  BY <1>0, <1>5, MaxIn1n
<1>6. g = Body(g)
  <2>1. ASSUME NEW S \in SUBSET (1..n), S # {} PROVE g[S] = Shift(g[S \ {Max(S)}], s[Max(S)], m)
    BY <1>3, <1>4, <1>5, <2>1 DEF IsFold
  <2>2. \A S \in SUBSET (1..n) :
          g[S] = IF S = {} THEN <<>> ELSE Shift(g[S \ {Max(S)}], s[Max(S)], m)
    BY <1>4, <2>1 DEF IsFold
  <2>3. g = [S \in SUBSET (1..n) |-> g[S]]
    BY <1>4 DEF IsFold
  <2> QED BY <1>0, <2>2, <2>3
<1>7. f = Body(f)
  BY <1>6
<1> HIDE DEF f
<1>8. f[{}] = <<>> /\ \A S \in SUBSET (1..n) : S # {} => f[S] = Shift(f[S \ {Max(S)}], s[Max(S)], m)
  BY <1>0, <1>7
<1>9. Follows(f, Stacks, n, <<>>, step)
  BY <1>3, <1>5, <1>8 DEF Follows
<1>10. PICK c : Iterates(c, Stacks, n, <<>>, step) /\ c[n] = f[1..n]
  BY <1>s, <1>9, FoldValues
<1>11. ASSUME NEW k \in 1..n PROVE c[k] = Shift(c[k - 1], s[k], m)
  <2>1. k - 1 \in 0..n /\ c[k] = step[<<k, c[k - 1]>>] /\ c \in [0..n -> Stacks]
    BY <1>0, <1>10 DEF Iterates
  <2> QED BY <1>3, <2>1
<1>12. Run(c, s, m)
  BY <1>10, <1>11 DEF Run, Iterates, n
<1> QED BY <1>0, <1>1, <1>10, <1>12 DEF n

-----------------------------------------------------------------------------
(* Whatever the grammar derives, the parser accepts                        *)

\* What a rule of level r may stand behind, and what may follow it.
Behind(r) ==
  {"LPAREN"} \cup (IF r > 1 THEN {"OR"} ELSE {}) \cup (IF r > 2 THEN {"AND", "NOT"} ELSE {})

Context(r, st) == st = <<>> \/ (st # SyntaxError /\ st[Len(st)].kind \in Behind(r))

Follow(r) == {"OR", "RPAREN", "YYEOF"} \cup (IF r > 1 THEN {"AND"} ELSE {})

\* After the tokens from i to j the stack reduces as if it had their value on top.
Outcome(c, b, r, i, j) ==
  /\ EndsInExpr(c[j])
  /\ \A next \in Follow(r) : Reduced(c[j], next) = Reduced(Append(c[i - 1], Value(b)), next)

Ready(c, s, m, b, r, i, j) ==
  r \in 1..4 /\ Span(s, i, j) /\ In(s, m, b, r, i, j) /\ Context(r, c[i - 1])

LEMMA ContextNoExpr ==
  ASSUME NEW st \in Stacks, NEW r \in 1..4, Context(r, st)
  PROVE  /\ ~EndsInExpr(st) /\ st # SyntaxError
         /\ st = <<>> \/ (Len(st) > 0 /\ st[Len(st)].kind \in Behind(r))
<1>1. CASE st = <<>>
  BY <1>1 DEF EndsInExpr, SyntaxError
<1>2. CASE st # <<>>
  <2>1. st # SyntaxError /\ st[Len(st)].kind \in Behind(r)
    BY <1>2 DEF Context
  <2>2. Len(st) > 0 /\ Last(st) = st[Len(st)]
    BY <1>2 DEF Stacks, Last
  <2>3. ~IsExpr(st[Len(st)])
    BY <2>1 DEF IsExpr, Behind
  <2> QED BY <2>1, <2>2, <2>3 DEF EndsInExpr
<1> QED BY <1>1, <1>2

LEMMA ShiftedOperator ==
  ASSUME NEW st \in Stacks, NEW below \in Stacks, NEW x \in BOOLEAN, NEW t \in Tokens, NEW m,
         NEW r, (r = 1 /\ t.kind = "OR") \/ (r = 2 /\ t.kind = "AND"),
         Context(r, below), EndsInExpr(st), Reduced(st, t.kind) = Reduced(Append(below, Value(x)), t.kind)
  PROVE  Shift(st, t, m) = Append(Append(below, Value(x)), t)
<1>1. Append(below, Value(x)) \in Stacks
  BY Kinds, PushedStack
<1>2. below = <<>> \/ below[Len(below)].kind \in Behind(r)
  BY DEF Context
<1>3. ~Reducible(Append(below, Value(x)), t.kind)
  <2>1. CASE below = <<>>
    <3>1. ~(Len(below) > 0)
      BY <2>1
    <3> QED BY <3>1, ReducibleTop
  <2>2. CASE below[Len(below)].kind \in Behind(r)
    <3>1. ~(\/ below[Len(below)].kind \in {"NOT", "AND"}
            \/ below[Len(below)].kind = "OR" /\ t.kind # "AND")
      BY <2>2 DEF Behind
    <3> QED BY <3>1, ReducibleTop
  <2> QED BY <1>2, <2>1, <2>2
<1>4. Reduced(st, t.kind) = Append(below, Value(x))
  BY <1>1, <1>3, ReducedSame
<1>5. st # SyntaxError
  BY Kinds DEF EndsInExpr, SyntaxError, Last
<1> QED BY <1>4, <1>5 DEF Shift

LEMMA ShiftedOperand ==
  ASSUME NEW st \in Stacks, NEW t \in Tokens, NEW m, NEW r \in 1..4, Context(r, st)
  PROVE  /\ t.kind = "cmp" => Shift(st, t, m) = Append(st, Value(Holds(t, m)))
         /\ t.kind \in {"NOT", "LPAREN"} => Shift(st, t, m) = Append(st, t)
BY ContextNoExpr DEF Shift

\* A token that was shifted is a context.
LEMMA ContextPushed ==
  ASSUME NEW st \in Stacks, NEW t \in Tokens, NEW r \in 1..4, t.kind \in Behind(r)
  PROVE  Append(st, t) \in Stacks /\ Context(r, Append(st, t))
<1>1. t \in Symbols /\ Len(st) \in Nat
  BY DEF Symbols, Stacks
<1>2. Append(st, t) \in Stacks /\ Len(Append(st, t)) = Len(st) + 1 /\ Append(st, t)[Len(st) + 1] = t
  BY <1>1, PushedStack
<1>3. Append(st, t) # SyntaxError
  <2>1. t # Bad
    BY DEF Bad, Tok, Behind
  <2> SUFFICES ASSUME Append(st, t) = <<Bad>> PROVE FALSE
    BY DEF SyntaxError
  <2>2. Len(st) + 1 = 1 /\ <<Bad>>[Len(st) + 1] = t
    BY <1>2
  <2>3. Len(st) = 0
    BY <1>1, <2>2
  <2> QED BY <2>1, <2>2, <2>3
<1> QED BY <1>2, <1>3 DEF Context

Below(c, s, m, rank) ==
  \A b, r, i, j : Ready(c, s, m, b, r, i, j) /\ SpanRank(r, i, j) < rank => Outcome(c, b, r, i, j)

LEMMA AcceptsStep ==
  ASSUME NEW s \in Expr, NEW m, NEW c, Run(c, s, m), NEW b, NEW r, NEW i, NEW j,
         Ready(c, s, m, b, r, i, j), Below(c, s, m, SpanRank(r, i, j))
  PROVE  Outcome(c, b, r, i, j)
<1> DEFINE n == Len(s)
           st == c[i - 1]
<1>0. /\ n \in Nat /\ r \in 1..4 /\ i \in 1..n /\ j \in 1..n /\ i <= j /\ SpanRank(r, i, j) = 4 * (j - i) + (5 - r)
      /\ Span(s, i, j) /\ In(s, m, b, r, i, j) /\ Context(r, st)
  BY DEF Ready, Span, Expr, SpanRank
<1>1. \A k \in 1..n : /\ c[k - 1] \in Stacks /\ c[k] \in Stacks /\ s[k] \in Tokens
                        /\ c[k] = Shift(c[k - 1], s[k], m)
  BY RunAt
<1> HIDE DEF n
<1>2. st \in Stacks /\ c[j] \in Stacks /\ s[i] \in Tokens /\ c[i] = Shift(st, s[i], m) /\ c[i] \in Stacks
  BY <1>0, <1>1
<1> HIDE DEF st
<1>3. CASE r < 4 /\ In(s, m, b, r + 1, i, j)
  <2>1. r + 1 \in 1..4 /\ SpanRank(r + 1, i, j) < SpanRank(r, i, j)
    BY <1>0, <1>3 DEF SpanRank
  <2>2. Behind(r) \subseteq Behind(r + 1) /\ Follow(r) \subseteq Follow(r + 1)
    BY <1>0 DEF Behind, Follow
  <2>3. Context(r + 1, c[i - 1])
    BY <1>0, <2>2 DEF Context, st
  <2>4. Ready(c, s, m, b, r + 1, i, j)
    BY <1>0, <1>3, <2>1, <2>3 DEF Ready
  <2>5. Outcome(c, b, r + 1, i, j)
    BY <2>1, <2>4 DEF Below
  <2> QED BY <2>2, <2>5 DEF Outcome
<1>4. CASE r = 4 /\ i = j /\ s[i].kind = "cmp" /\ b = Holds(s[i], m)
  <2>1. c[i] = Append(st, Value(b))
    BY <1>0, <1>2, <1>4, ShiftedOperand
  <2>2. EndsInExpr(c[i])
    BY <1>2, <2>1, Kinds, PushedStack
  <2> QED BY <1>4, <2>1, <2>2 DEF Outcome, st
<1>5. CASE r = 3 /\ s[i].kind = "NOT" /\ i < j /\ \E x \in BOOLEAN : In(s, m, x, 3, i + 1, j) /\ b = ~x
  <2>1. PICK x \in BOOLEAN : In(s, m, x, 3, i + 1, j) /\ b = ~x
    BY <1>5
  <2>2. c[i] = Append(st, s[i])
    BY <1>0, <1>2, <1>5, ShiftedOperand
  <2>3. Context(3, c[i])
    <3>1. s[i].kind \in Behind(3)
      BY <1>5 DEF Behind
    <3> QED BY <1>2, <2>2, <3>1, ContextPushed, 3 \in 1..4
  <2>4. Span(s, i + 1, j) /\ SpanRank(3, i + 1, j) < SpanRank(r, i, j) /\ (i + 1) - 1 = i
    BY <1>0, <1>5 DEF Span, SpanRank, n
  <2>5. Ready(c, s, m, x, 3, i + 1, j)
    BY <2>1, <2>3, <2>4, 3 \in 1..4 DEF Ready
  <2>6. Outcome(c, x, 3, i + 1, j)
    BY <2>4, <2>5 DEF Below
  <2>7. ASSUME NEW next \in Follow(3)
        PROVE  Reduced(c[j], next) = Reduced(Append(st, Value(b)), next)
    <3> DEFINE top == Append(c[i], Value(x))
    <3>1. Reduced(c[j], next) = Reduced(top, next)
      BY <2>4, <2>6 DEF Outcome
    <3>2. Len(c[i]) > 0 /\ c[i][Len(c[i])] = s[i]
      <4>1. s[i] \in Symbols /\ Len(st) \in Nat
        BY <1>2 DEF Symbols, Stacks
      <4> QED BY <1>2, <2>2, <4>1, PushedStack
    <3>3. Reducible(top, next)
      BY <1>2, <1>5, <3>2, ReducibleTop
    <3>4. Reduction(top) = Append(st, Value(b))
      <4>1. b = ~x
        BY <2>1
      <4>2. Reduction(top) = Append(st, Value(~x))
        BY <1>2, <1>5, <2>2, ReduceNot
      <4> QED BY <4>1, <4>2
    <3>5. top \in Stacks
      BY <1>2, Kinds, PushedStack
    <3> HIDE DEF top
    <3> QED BY <3>1, <3>3, <3>4, <3>5, ReducedReduction
  <2> QED BY <1>5, <2>6, <2>7 DEF Outcome, st
<1>6. CASE /\ r = 4 /\ i + 1 < j /\ s[i].kind = "LPAREN" /\ s[j].kind = "RPAREN"
           /\ In(s, m, b, 1, i + 1, j - 1)
  <2>1. c[i] = Append(st, s[i])
    BY <1>0, <1>2, <1>6, ShiftedOperand
  <2>2. Context(1, c[i])
    <3>1. s[i].kind \in Behind(1)
      BY <1>6 DEF Behind
    <3> QED BY <1>2, <2>1, <3>1, ContextPushed, 1 \in 1..4
  <2>3. Span(s, i + 1, j - 1) /\ SpanRank(1, i + 1, j - 1) < SpanRank(r, i, j) /\ (i + 1) - 1 = i
    BY <1>0, <1>6 DEF Span, SpanRank, n
  <2>4. Ready(c, s, m, b, 1, i + 1, j - 1)
    BY <1>6, <2>2, <2>3, 1 \in 1..4 DEF Ready
  <2>5. Outcome(c, b, 1, i + 1, j - 1)
    BY <2>3, <2>4 DEF Below
  <2> DEFINE top == Append(c[i], Value(b))
  <2>6. Reduced(c[j - 1], "RPAREN") = Reduced(top, "RPAREN") /\ EndsInExpr(c[j - 1])
    BY <2>3, <2>5 DEF Outcome, Follow
  <2>7. /\ Len(st) \in Nat /\ Len(c[i]) = Len(st) + 1 /\ c[i][Len(st) + 1] = s[i]
        /\ SubSeq(c[i], 1, Len(st)) = st
    <3>1. s[i] \in Symbols /\ Len(st) \in Nat
      BY <1>2 DEF Symbols, Stacks
    <3> QED BY <1>2, <2>1, <3>1, PushedStack
  <2>8. ~Reducible(top, "RPAREN")
    BY <1>2, <1>6, <2>7, ReducibleTop
  <2>9. /\ top \in Stacks /\ Len(top) = Len(c[i]) + 1 /\ top[Len(c[i]) + 1] = Value(b)
        /\ \A q \in 1..Len(c[i]) : top[q] = c[i][q]
    BY <1>2, Kinds, PushedStack
  <2>10. SubSeq(top, 1, Len(st)) = st
    BY <1>2, <2>1, Kinds DEF Stacks
  <2> HIDE DEF top
  <2>11. Reduced(c[j - 1], "RPAREN") = top
    BY <2>6, <2>8, <2>9, ReducedSame
  <2>12. Len(top) > 1 /\ Len(top) - 1 = Len(st) + 1 /\ Len(top) - 2 = Len(st) /\ Len(top) = Len(c[i]) + 1
    BY <2>7, <2>9
  <2>13. top[Len(top) - 1].kind = "LPAREN" /\ top[Len(top)] = Value(b)
    BY <1>6, <2>7, <2>9, <2>12
  <2>14. c[j - 1] # SyntaxError
    BY <2>6, Kinds DEF EndsInExpr, SyntaxError, Last
  <2>15. c[j] = Shift(c[j - 1], s[j], m)
    BY <1>0, <1>1
  <2>16. c[j] = Append(SubSeq(top, 1, Len(top) - 2), top[Len(top)])
    BY <1>6, <2>6, <2>11, <2>12, <2>13, <2>14, <2>15 DEF Shift
  <2>17. c[j] = Append(st, Value(b))
    BY <2>10, <2>12, <2>13, <2>16
  <2>18. EndsInExpr(c[j])
    BY <1>2, <2>17, Kinds, PushedStack
  <2> QED BY <2>17, <2>18 DEF Outcome, st
<1>7. ASSUME NEW k \in (i + 1)..(j - 1), NEW x \in BOOLEAN, NEW y \in BOOLEAN,
             \/ r = 1 /\ s[k].kind = "OR" /\ b = (x \/ y)
             \/ r = 2 /\ s[k].kind = "AND" /\ b = (x /\ y),
             In(s, m, x, r, i, k - 1), In(s, m, y, r + 1, k + 1, j)
      PROVE  Outcome(c, b, r, i, j)
  <2>0. /\ k \in 1..n /\ k - 1 \in 1..n /\ (k + 1) - 1 = k /\ r \in 1..2 /\ r + 1 \in 1..4
        /\ Span(s, i, k - 1) /\ SpanRank(r, i, k - 1) < SpanRank(r, i, j)
        /\ Span(s, k + 1, j) /\ SpanRank(r + 1, k + 1, j) < SpanRank(r, i, j)
    BY <1>0, <1>7 DEF Span, SpanRank, n
  <2>1. Ready(c, s, m, x, r, i, k - 1)
    BY <1>0, <1>7, <2>0 DEF Ready, st
  <2>2. Outcome(c, x, r, i, k - 1)
    BY <2>0, <2>1 DEF Below
  <2>3. EndsInExpr(c[k - 1]) /\ Reduced(c[k - 1], s[k].kind) = Reduced(Append(st, Value(x)), s[k].kind)
    <3>1. s[k].kind \in Follow(r)
      BY <1>7 DEF Follow
    <3> QED BY <2>2, <3>1 DEF Outcome, st
  <2>4. c[k - 1] \in Stacks /\ c[k] \in Stacks /\ s[k] \in Tokens /\ c[k] = Shift(c[k - 1], s[k], m)
    BY <1>1, <2>0
  <2>5. c[k] = Append(Append(st, Value(x)), s[k])
    <3>1. (r = 1 /\ s[k].kind = "OR") \/ (r = 2 /\ s[k].kind = "AND")
      BY <1>7
    <3>2. Shift(c[k - 1], s[k], m) = Append(Append(st, Value(x)), s[k])
      BY <1>0, <1>2, <2>3, <2>4, <3>1, ShiftedOperator
    <3> QED BY <2>4, <3>2
  <2> DEFINE one == Append(st, Value(x))
  <2>6. one \in Stacks /\ Len(one) \in Nat
    <3>1. one \in Stacks
      BY <1>2, Kinds, PushedStack
    <3> QED BY <3>1 DEF Stacks
  <2>7. s[k].kind \in Behind(r + 1) /\ s[k] \in Symbols
    BY <1>7, <2>4 DEF Behind, Symbols
  <2> HIDE DEF one
  <2>8. Context(r + 1, c[k]) /\ Len(c[k]) > 0 /\ c[k][Len(c[k])] = s[k]
    <3>1. c[k] = Append(one, s[k])
      BY <2>5 DEF one
    <3>2. Len(c[k]) = Len(one) + 1 /\ c[k][Len(one) + 1] = s[k]
      BY <2>6, <2>7, <3>1, PushedStack
    <3>3. Context(r + 1, c[k])
      BY <2>0, <2>4, <2>6, <2>7, <3>1, ContextPushed
    <3> QED BY <2>6, <3>2, <3>3
  <2>9. Ready(c, s, m, y, r + 1, k + 1, j)
    BY <1>7, <2>0, <2>8 DEF Ready
  <2>10. Outcome(c, y, r + 1, k + 1, j)
    BY <2>0, <2>9 DEF Below
  <2>11. ASSUME NEW next \in Follow(r)
         PROVE  Reduced(c[j], next) = Reduced(Append(st, Value(b)), next)
    <3> DEFINE top == Append(c[k], Value(y))
    <3>1. next \in Follow(r + 1) /\ (r = 1 => next # "AND")
      BY <2>0 DEF Follow
    <3>2. Reduced(c[j], next) = Reduced(top, next)
      BY <2>0, <2>10, <3>1 DEF Outcome
    <3>3. Reducible(top, next)
      BY <1>7, <2>4, <2>8, <3>1, ReducibleTop
    <3>4. Reduction(top) = Append(st, Value(b))
      <4>1. CASE r = 1
        <5>1. s[k].kind = "OR" /\ b = (x \/ y)
          BY <1>7, <4>1
        <5>2. Reduction(top) = Append(st, Value(x \/ y))
          BY <1>2, <2>4, <2>5, <5>1, ReduceOp
        <5> QED BY <5>1, <5>2
      <4>2. CASE r = 2
        <5>1. s[k].kind = "AND" /\ b = (x /\ y)
          BY <1>7, <4>2
        <5>2. Reduction(top) = Append(st, Value(x /\ y))
          BY <1>2, <2>4, <2>5, <5>1, ReduceOp
        <5> QED BY <5>1, <5>2
      <4> QED BY <2>0, <4>1, <4>2
    <3>5. top \in Stacks
      BY <2>4, Kinds, PushedStack
    <3> HIDE DEF top
    <3> QED BY <3>2, <3>3, <3>4, <3>5, ReducedReduction
  <2> QED BY <2>10, <2>11 DEF Outcome, st
<1>8. CASE r = 1 /\ \E k \in (i + 1)..(j - 1), x \in BOOLEAN, y \in BOOLEAN :
             s[k].kind = "OR" /\ In(s, m, x, 1, i, k - 1) /\ In(s, m, y, 2, k + 1, j) /\ b = (x \/ y)
  <2>1. PICK k \in (i + 1)..(j - 1), x \in BOOLEAN, y \in BOOLEAN :
             s[k].kind = "OR" /\ In(s, m, x, 1, i, k - 1) /\ In(s, m, y, 2, k + 1, j) /\ b = (x \/ y)
    BY <1>8
  <2>2. r = 1 /\ r + 1 = 2
    BY <1>8
  <2>3. In(s, m, x, r, i, k - 1) /\ In(s, m, y, r + 1, k + 1, j)
    BY <2>1, <2>2
  <2> QED BY <1>7, <2>1, <2>2, <2>3
<1>9. CASE r = 2 /\ \E k \in (i + 1)..(j - 1), x \in BOOLEAN, y \in BOOLEAN :
             s[k].kind = "AND" /\ In(s, m, x, 2, i, k - 1) /\ In(s, m, y, 3, k + 1, j) /\ b = (x /\ y)
  <2>1. PICK k \in (i + 1)..(j - 1), x \in BOOLEAN, y \in BOOLEAN :
             s[k].kind = "AND" /\ In(s, m, x, 2, i, k - 1) /\ In(s, m, y, 3, k + 1, j) /\ b = (x /\ y)
    BY <1>9
  <2>2. r = 2 /\ r + 1 = 3
    BY <1>9
  <2>3. In(s, m, x, r, i, k - 1) /\ In(s, m, y, r + 1, k + 1, j)
    BY <2>1, <2>2
  <2> QED BY <1>7, <2>1, <2>2, <2>3
<1>10. r \in 1..4 /\ Span(s, i, j) /\ In(s, m, b, r, i, j)
  BY <1>0
<1> QED BY <1>3, <1>4, <1>5, <1>6, <1>8, <1>9, <1>10, InRules

LEMMA Accepts ==
  ASSUME NEW s \in Expr, NEW m, NEW c, Run(c, s, m), NEW b, NEW r, NEW i, NEW j, Ready(c, s, m, b, r, i, j)
  PROVE  Outcome(c, b, r, i, j)
<1> DEFINE Good == {k \in Nat : Below(c, s, m, k)}
<1>r. ASSUME NEW x, NEW p, NEW a, NEW d, Ready(c, s, m, x, p, a, d)
      PROVE  SpanRank(p, a, d) \in Nat \ {0}
  BY <1>r DEF Ready, Span, SpanRank, Expr
<1>1. 0 \in Good
  <2> SUFFICES ASSUME NEW x, NEW p, NEW a, NEW d, Ready(c, s, m, x, p, a, d), SpanRank(p, a, d) < 0
               PROVE  FALSE
    BY DEF Below
  <2>1. SpanRank(p, a, d) \in Nat
    BY <1>r
  <2> QED BY <2>1
<1>2. ASSUME NEW k \in Nat, k \in Good PROVE k + 1 \in Good
  <2> SUFFICES ASSUME NEW x, NEW p, NEW a, NEW d, Ready(c, s, m, x, p, a, d), SpanRank(p, a, d) < k + 1
               PROVE  Outcome(c, x, p, a, d)
    BY DEF Below
  <2>1. Below(c, s, m, SpanRank(p, a, d))
    <3> SUFFICES ASSUME NEW x2, NEW p2, NEW a2, NEW d2, Ready(c, s, m, x2, p2, a2, d2),
                        SpanRank(p2, a2, d2) < SpanRank(p, a, d)
                 PROVE  Outcome(c, x2, p2, a2, d2)
      BY DEF Below
    <3>1. SpanRank(p, a, d) \in Nat /\ SpanRank(p2, a2, d2) \in Nat
      BY <1>r
    <3>2. SpanRank(p2, a2, d2) < k
      BY <3>1
    <3>3. Below(c, s, m, k)
      BY <1>2
    <3> QED BY <3>2, <3>3 DEF Below
  <2> QED BY <2>1, AcceptsStep
<1> HIDE DEF Good
<1>3. Nat \subseteq Good
  BY <1>1, <1>2, Up
<1>4. SpanRank(r, i, j) + 1 \in Good /\ SpanRank(r, i, j) < SpanRank(r, i, j) + 1
  BY <1>r, <1>3
<1>5. Below(c, s, m, SpanRank(r, i, j) + 1)
  BY <1>4 DEF Good
<1> QED BY <1>4, <1>5 DEF Below

\* What the grammar says of a whole expression is what the parser returns.
LEMMA ParserComplete ==
  ASSUME NEW s \in Expr, NEW m, NEW b \in Meaning(s, m)
  PROVE  parse(s, m).rc = TRUE /\ parse(s, m).result = b
<1> DEFINE n == Len(s)
<1>0. n \in Nat
  BY DEF Expr
<1>1. In(s, m, b, 1, 1, n)
  BY MeaningOfTable DEF In
<1>2. PICK c : /\ Run(c, s, m)
               /\ LET stack == Reduced(c[n], "YYEOF")
                  IN  /\ parse(s, m).rc = (Len(stack) = 1 /\ IsExpr(stack[1]))
                      /\ parse(s, m).result = (parse(s, m).rc /\ IsTrue(stack[1]))
  BY ParseRun
<1>3. 1 \in 1..(n + 1) /\ n \in 0..n
  BY <1>0
<1>4. Span(s, 1, n) /\ b \in BOOLEAN
  BY <1>1, <1>3, NoEmptySpan, TableBoolean, 1 \in 1..4
<1>5. c[0] = <<>> /\ <<>> \in Stacks
  BY <1>2 DEF Run, Stacks
<1>6. Ready(c, s, m, b, 1, 1, n)
  BY <1>1, <1>4, <1>5 DEF Ready, Context
<1>7. Outcome(c, b, 1, 1, n)
  BY <1>2, <1>6, Accepts
<1> DEFINE top == Append(<<>>, Value(b))
<1>8. Reduced(c[n], "YYEOF") = Reduced(top, "YYEOF")
  <2>1. c[1 - 1] = <<>> /\ "YYEOF" \in Follow(1)
    BY <1>5 DEF Follow
  <2> QED BY <1>7, <2>1 DEF Outcome
<1>9. top \in Stacks /\ Len(top) = 1 /\ top[1] = Value(b)
  <2>1. Value(b) \in Symbols
    BY Kinds
  <2> QED BY <2>1 DEF Stacks
<1>10. ~Reducible(top, "YYEOF")
  BY <1>9 DEF Reducible
<1> HIDE DEF top
<1>11. Reduced(c[n], "YYEOF") = top
  BY <1>8, <1>9, <1>10, ReducedSame
<1>12. IsExpr(top[1]) /\ IsTrue(top[1]) = b
  BY <1>4, <1>9, Kinds
<1>13. parse(s, m).rc = TRUE
  BY <1>2, <1>9, <1>11, <1>12
<1>14. parse(s, m).result = IsTrue(top[1])
  <2>1. parse(s, m).result = (TRUE /\ IsTrue(top[1]))
    BY <1>2, <1>11, <1>13
  <2> QED BY <2>1 DEF IsTrue
<1> QED BY <1>12, <1>13, <1>14

-----------------------------------------------------------------------------
(* Whatever the parser accepts, the grammar derives                        *)

\* A symbol on top of the first p symbols of a stack, for the tokens up to k.  The
\* symbols below are for the tokens up to e[p].
SymbolOn(s, m, st, e, p, sym, k) ==
  /\ e[p] < k
  /\ sym.kind \in {"true", "false", "NOT", "LPAREN", "AND", "OR"}
  /\ ~IsExpr(sym) => k = e[p] + 1 /\ s[k].kind = sym.kind
  /\ sym.kind \notin {"AND", "OR"} => p = 0 \/ ~IsExpr(st[p])
  /\ sym.kind = "AND" =>
       /\ p > 0 /\ IsExpr(st[p]) /\ In(s, m, IsTrue(st[p]), 2, e[p - 1] + 1, e[p])
       /\ p = 1 \/ st[p - 1].kind \in {"OR", "LPAREN"}
  /\ sym.kind = "OR" =>
       /\ p > 0 /\ IsExpr(st[p]) /\ In(s, m, IsTrue(st[p]), 1, e[p - 1] + 1, e[p])
       /\ p = 1 \/ st[p - 1].kind = "LPAREN"

\* A stack that stands for the first k tokens: symbol q for those from e[q - 1] + 1
\* to e[q].
Parsed(s, m, st, e, k) ==
  /\ st \in Stacks /\ k \in 0..Len(s)
  /\ e \in [0..Len(st) -> 0..Len(s)] /\ e[0] = 0 /\ e[Len(st)] = k
  /\ \A q \in 1..Len(st) : SymbolOn(s, m, st, e, q - 1, st[q], e[q])

\* What derives the value of the expression on top, with the next token.
Level(st, next) ==
  IF Len(st) = 1 \/ st[Len(st) - 1].kind = "LPAREN" THEN (IF next = "AND" THEN 2 ELSE 1)
  ELSE IF st[Len(st) - 1].kind = "OR" THEN 2
  ELSE 3

TopBy(s, m, st, e, level) ==
  EndsInExpr(st) => In(s, m, IsTrue(st[Len(st)]), level, e[Len(st) - 1] + 1, e[Len(st)])

Extended(e, p, k) == [q \in 0..(p + 1) |-> IF q <= p THEN e[q] ELSE k]

\* A symbol that fits replaces what is above the first p symbols.
LEMMA Push ==
  ASSUME NEW s \in Expr, NEW m, NEW st, NEW e, NEW k, Parsed(s, m, st, e, k), NEW p \in 0..Len(st),
         NEW sym \in Symbols, NEW k2 \in 0..Len(s), SymbolOn(s, m, st, e, p, sym, k2)
  PROVE  LET st2 == Append(SubSeq(st, 1, p), sym)
         IN  /\ Parsed(s, m, st2, Extended(e, p, k2), k2)
             /\ Len(st2) = p + 1 /\ st2[p + 1] = sym /\ \A q \in 1..p : st2[q] = st[q]
             /\ Extended(e, p, k2)[p] = e[p] /\ Extended(e, p, k2)[p + 1] = k2
<1> DEFINE st2 == Append(SubSeq(st, 1, p), sym)
           e2 == Extended(e, p, k2)
<1>0. /\ st \in Stacks /\ Len(st) \in Nat /\ Len(s) \in Nat /\ e \in [0..Len(st) -> 0..Len(s)] /\ e[0] = 0
      /\ \A q \in 1..Len(st) : SymbolOn(s, m, st, e, q - 1, st[q], e[q])
  BY DEF Parsed, Stacks, Expr
<1>1. /\ st2 \in Stacks /\ Len(st2) = p + 1 /\ st2[p + 1] = sym
      /\ \A q \in 1..p : st2[q] = st[q]
  BY <1>0 DEF Stacks
<1>2. /\ e2 \in [0..(p + 1) -> 0..Len(s)] /\ e2[0] = 0 /\ e2[p + 1] = k2
      /\ \A q \in 0..p : e2[q] = e[q]
  <2>1. p \in Nat /\ p <= Len(st) /\ \A q \in 0..p : q \in 0..Len(st) /\ q \in 0..(p + 1)
    BY <1>0
  <2>2. e2 = [q \in 0..(p + 1) |-> IF q <= p THEN e[q] ELSE k2]
    BY DEF Extended
  <2> HIDE DEF e2
  <2>3. \A q \in 0..p : e2[q] = e[q]
    BY <2>1, <2>2
  <2>4. p + 1 \in 0..(p + 1) /\ ~ (p + 1 <= p)
    BY <2>1
  <2>5. e2[p + 1] = k2
    BY <2>2, <2>4
  <2>6. \A q \in 0..(p + 1) : q \in 0..p \/ q = p + 1
    BY <2>1
  <2>7. \A q \in 0..(p + 1) : e2[q] \in 0..Len(s)
    BY <1>0, <2>1, <2>3, <2>5, <2>6
  <2>8. e2 \in [0..(p + 1) -> 0..Len(s)]
    BY <2>2, <2>7
  <2>9. 0 \in 0..p
    BY <2>1
  <2> QED BY <1>0, <2>3, <2>5, <2>8, <2>9
<1> HIDE DEF st2, e2
<1>3. ASSUME NEW q \in 0..p, NEW x, NEW l, SymbolOn(s, m, st, e, q, x, l) PROVE SymbolOn(s, m, st2, e2, q, x, l)
  <2>1. e2[q] = e[q] /\ (q > 0 => e2[q - 1] = e[q - 1] /\ st2[q] = st[q])
    BY <1>0, <1>1, <1>2
  <2>2. q > 1 => st2[q - 1] = st[q - 1]
    BY <1>0, <1>1
  <2>3. (q = 0 \/ ~IsExpr(st[q])) => (q = 0 \/ ~IsExpr(st2[q]))
    BY <1>0, <2>1
  <2>4. (q > 0 /\ (q = 1 \/ st[q - 1].kind \in {"OR", "LPAREN"})) => (q = 1 \/ st2[q - 1].kind \in {"OR", "LPAREN"})
    BY <1>0, <2>2
  <2>5. (q > 0 /\ (q = 1 \/ st[q - 1].kind = "LPAREN")) => (q = 1 \/ st2[q - 1].kind = "LPAREN")
    BY <1>0, <2>2
  <2> QED BY <1>3, <2>1, <2>3, <2>4, <2>5 DEF SymbolOn
<1>4. ASSUME NEW q \in 1..(p + 1) PROVE SymbolOn(s, m, st2, e2, q - 1, st2[q], e2[q])
  <2>1. CASE q = p + 1
    <3>1. SymbolOn(s, m, st2, e2, p, sym, k2)
      BY <1>0, <1>3
    <3>2. q - 1 = p
      BY <1>0, <2>1
    <3> QED BY <1>1, <1>2, <2>1, <3>1, <3>2
  <2>2. CASE q # p + 1
    <3>1. q \in 1..p /\ q \in 1..Len(st) /\ q - 1 \in 0..p /\ q \in 0..p
      BY <1>0, <2>2
    <3>2. SymbolOn(s, m, st, e, q - 1, st[q], e[q])
      BY <1>0, <3>1
    <3>3. SymbolOn(s, m, st2, e2, q - 1, st[q], e[q])
      BY <1>3, <3>1, <3>2
    <3> QED BY <1>1, <1>2, <3>1, <3>3
  <2> QED BY <2>1, <2>2
<1>5. Parsed(s, m, st2, e2, k2)
  BY <1>1, <1>2, <1>4 DEF Parsed
<1>6. e2[p] = e[p]
  BY <1>0, <1>2
<1> QED BY <1>1, <1>2, <1>5, <1>6 DEF st2, e2

LEMMA ReductionParsed ==
  ASSUME NEW s \in Expr, NEW m, NEW st, NEW e, NEW k, NEW next, Parsed(s, m, st, e, k),
         TopBy(s, m, st, e, Level(st, next)), Reducible(st, next)
  PROVE  \E e2 : /\ Parsed(s, m, Reduction(st), e2, k)
                 /\ TopBy(s, m, Reduction(st), e2, Level(Reduction(st), next))
                 /\ EndsInExpr(Reduction(st))
<1> DEFINE n == Len(st)
           op == st[n - 1].kind
           y == IsTrue(st[n])
<1>0. /\ st \in Stacks /\ n \in Nat /\ Len(s) \in Nat /\ e \in [0..n -> 0..Len(s)] /\ e[n] = k /\ k \in 0..Len(s)
      /\ \A q \in 1..n : SymbolOn(s, m, st, e, q - 1, st[q], e[q])
      /\ n > 1 /\ EndsInExpr(st)
  BY DEF Parsed, Stacks, Expr, Reducible
<1>1. op \in {"NOT", "AND", "OR"} /\ (op = "OR" => next # "AND")
  BY DEF Reducible
<1>2. y \in BOOLEAN /\ IsExpr(st[n])
  <2>1. IsExpr(st[n])
    BY <1>0 DEF EndsInExpr, Last
  <2> QED BY <2>1 DEF IsTrue
<1>3. In(s, m, y, Level(st, next), e[n - 1] + 1, k)
  BY <1>0 DEF TopBy
<1> HIDE DEF n
<1>4. SymbolOn(s, m, st, e, n - 2, st[n - 1], e[n - 1]) /\ SymbolOn(s, m, st, e, n - 1, st[n], k)
  <2>1. n - 1 \in 1..n /\ n \in 1..n /\ (n - 1) - 1 = n - 2
    BY <1>0
  <2> QED BY <1>0, <2>1
<1>5. ~IsExpr(st[n - 1])
  BY <1>1 DEF IsExpr
<1>6. e[n - 1] = e[n - 2] + 1 /\ s[e[n - 1]].kind = op /\ e[n - 2] < e[n - 1] /\ e[n - 1] < k
  BY <1>4, <1>5 DEF SymbolOn
\* A value in the place of all above the first p symbols.
<1>7. ASSUME NEW p \in 0..(n - 2), NEW b \in BOOLEAN, NEW red, red = Append(SubSeq(st, 1, p), Value(b)), e[p] < k,
             p = 0 \/ ~IsExpr(st[p]), In(s, m, b, Level(red, next), e[p] + 1, k)
      PROVE  \E e2 : Parsed(s, m, red, e2, k) /\ TopBy(s, m, red, e2, Level(red, next)) /\ EndsInExpr(red)
  <2>0. p \in 0..n /\ p \in 0..Len(st) /\ (p + 1) - 1 = p
    BY <1>0 DEF n
  <2>1. Value(b) \in Symbols /\ IsExpr(Value(b)) /\ IsTrue(Value(b)) = b
    BY Kinds
  <2>2. SymbolOn(s, m, st, e, p, Value(b), k)
    <3>1. Value(b).kind \in {"true", "false"}
      BY <2>1 DEF IsExpr
    <3> QED BY <1>7, <2>1, <3>1 DEF SymbolOn
  <2> DEFINE e2 == Extended(e, p, k)
  <2>3. /\ Parsed(s, m, red, e2, k) /\ Len(red) = p + 1 /\ red[p + 1] = Value(b)
        /\ e2[p] = e[p] /\ e2[p + 1] = k
    <3>1. Parsed(s, m, st, e, k) /\ k \in 0..Len(s)
      BY <1>0
    <3> QED BY <1>7, <2>0, <2>1, <2>2, <3>1, Push
  <2> HIDE DEF e2
  <2>4. EndsInExpr(red)
    <3>1. red \in Stacks /\ red # <<>>
      BY <2>0, <2>3 DEF Parsed
    <3>2. Last(red) = Value(b)
      BY <2>3 DEF Last
    <3> QED BY <2>1, <3>1, <3>2 DEF EndsInExpr
  <2>5. TopBy(s, m, red, e2, Level(red, next))
    BY <1>7, <2>0, <2>1, <2>3 DEF TopBy
  <2> QED BY <2>3, <2>4, <2>5
<1>s. ASSUME NEW p \in 0..(n - 2), e[p] < k PROVE Span(s, e[p] + 1, k)
  <2>1. e[p] \in 0..Len(s)
    BY <1>0
  <2> QED BY <1>0, <1>s, <2>1 DEF Span
<1>l. ASSUME NEW p \in 0..(n - 2), NEW b
      PROVE  LET red == Append(SubSeq(st, 1, p), Value(b))
             IN  Level(red, next) = IF p = 0 \/ st[p].kind = "LPAREN" THEN (IF next = "AND" THEN 2 ELSE 1)
                                    ELSE IF st[p].kind = "OR" THEN 2 ELSE 3
  <2> DEFINE red == Append(SubSeq(st, 1, p), Value(b))
  <2>1. p \in Nat /\ Len(red) = p + 1 /\ \A q \in 1..p : red[q] = st[q]
    BY <1>0, Kinds DEF Stacks, n
  <2> HIDE DEF red
  <2>2. (Len(red) = 1 <=> p = 0) /\ Len(red) - 1 = p /\ (p # 0 => red[p] = st[p])
    BY <2>1
  <2> QED BY <2>2 DEF Level, red
<1>8. CASE op = "NOT"
  <2> DEFINE red == Append(SubSeq(st, 1, n - 2), Value(~y))
  <2>1. Reduction(st) = red
    BY <1>8 DEF Reduction, n
  <2>2. n - 2 \in 0..(n - 2) /\ e[n - 2] < k /\ e[n - 2] \in Int /\ e[n - 1] \in Int
    BY <1>0, <1>6
  <2>3. n - 2 = 0 \/ ~IsExpr(st[n - 2])
    BY <1>4, <1>8 DEF SymbolOn
  <2>4. Level(st, next) = 3
    BY <1>0, <1>8 DEF Level, n
  <2>5. In(s, m, y, 3, (e[n - 2] + 1) + 1, k)
    BY <1>3, <1>6, <2>4
  <2>6. Span(s, e[n - 2] + 1, k)
    BY <1>s, <2>2
  <2>7. In(s, m, ~y, 3, e[n - 2] + 1, k)
    BY <1>2, <1>6, <1>8, <2>5, <2>6, NotRule
  <2>8. Level(red, next) \in 1..3
    BY <1>l, <2>2
  <2> HIDE DEF red
  <2>9. In(s, m, ~y, Level(red, next), e[n - 2] + 1, k)
    <3>1. Level(red, next) \in 1..4 /\ Level(red, next) <= 3 /\ 3 \in 1..4
      BY <2>8
    <3> QED BY <2>6, <2>7, <3>1, Weaker
  <2> HIDE DEF y
  <2>10. (~y) \in BOOLEAN
    OBVIOUS
  <2> QED BY <1>7, <2>1, <2>2, <2>3, <2>9, <2>10 DEF red
<1>9. ASSUME NEW b, NEW l \in 1..2,
             \/ op = "AND" /\ l = 2 /\ b = (IsTrue(st[n - 2]) /\ y)
             \/ op = "OR" /\ l = 1 /\ b = (IsTrue(st[n - 2]) \/ y),
             Reduction(st) = Append(SubSeq(st, 1, n - 3), Value(b))
      PROVE  \E e2 : /\ Parsed(s, m, Reduction(st), e2, k)
                     /\ TopBy(s, m, Reduction(st), e2, Level(Reduction(st), next))
                     /\ EndsInExpr(Reduction(st))
  <2> DEFINE x == IsTrue(st[n - 2])
             red == Append(SubSeq(st, 1, n - 3), Value(b))
  <2>1. /\ n - 2 > 0 /\ IsExpr(st[n - 2]) /\ In(s, m, x, l, e[n - 3] + 1, e[n - 2])
        /\ n - 2 = 1 \/ st[n - 3].kind = "LPAREN" \/ (op = "AND" /\ st[n - 3].kind = "OR")
    <3>1. (n - 2) - 1 = n - 3
      BY <1>0
    <3>2. CASE op = "AND" /\ l = 2
      BY <1>4, <3>1, <3>2 DEF SymbolOn
    <3>3. CASE op = "OR" /\ l = 1
      BY <1>4, <3>1, <3>3 DEF SymbolOn
    <3>4. (op = "AND" /\ l = 2) \/ (op = "OR" /\ l = 1)
      BY <1>9
    <3> QED BY <3>2, <3>3, <3>4
  <2>2. /\ n - 3 \in 0..(n - 2) /\ n - 2 \in 1..n /\ e[n - 3] \in 0..Len(s) /\ e[n - 2] \in 0..Len(s)
        /\ e[n - 1] \in 0..Len(s)
    BY <1>0, <2>1
  <2>3. e[n - 3] < e[n - 2]
    <3>1. SymbolOn(s, m, st, e, n - 3, st[n - 2], e[n - 2])
      <4>1. (n - 2) - 1 = n - 3
        BY <1>0
      <4> QED BY <1>0, <2>2, <4>1
    <3> QED BY <3>1 DEF SymbolOn
  <2> DEFINE a3 == e[n - 3]
             a2 == e[n - 2]
             a1 == e[n - 1]
  <2>a. /\ a3 \in Nat /\ a2 \in Nat /\ a1 \in Nat /\ k \in Nat
        /\ a3 < a2 /\ a1 = a2 + 1 /\ a1 < k
    <3>1. a3 \in Nat /\ a2 \in Nat /\ a1 \in Nat /\ k \in Nat
      BY <1>0, <2>2
    <3> QED BY <1>6, <2>3, <3>1
  <2> HIDE DEF a1, a2, a3
  <2>b. a3 < k /\ a1 \in ((a3 + 1) + 1)..(k - 1) /\ a1 - 1 = a2
    BY <2>a
  <2> USE DEF a1, a2, a3
  <2>4. e[n - 3] < k /\ Span(s, e[n - 3] + 1, k)
    <3>1. e[n - 3] < k
      BY <2>b
    <3> QED BY <1>s, <2>2, <3>1
  <2>5. n - 3 = 0 \/ ~IsExpr(st[n - 3])
    BY <1>0, <2>1 DEF IsExpr
  <2>6. Level(st, next) = (IF op = "AND" THEN 3 ELSE 2)
    BY <1>0, <1>9 DEF Level, n
  <2>7. /\ e[n - 1] \in ((e[n - 3] + 1) + 1)..(k - 1) /\ e[n - 1] - 1 = e[n - 2]
    BY <2>b
  <2>8. x \in BOOLEAN
    BY DEF IsTrue
  <2> HIDE DEF x, y
  <2>9. In(s, m, b, l, e[n - 3] + 1, k)
    <3>1. CASE op = "AND"
      <4>1. l = 2 /\ b = (x /\ y)
        BY <1>9, <3>1 DEF x
      <4>2. In(s, m, x, 2, e[n - 3] + 1, e[n - 1] - 1) /\ In(s, m, y, 3, e[n - 1] + 1, k)
        BY <1>3, <2>1, <2>6, <2>7, <3>1, <4>1
      <4>3. In(s, m, x /\ y, 2, e[n - 3] + 1, k)
        BY <1>2, <1>6, <2>4, <2>7, <2>8, <3>1, <4>2, AndRule
      <4> QED BY <4>1, <4>3
    <3>2. CASE op = "OR"
      <4>1. l = 1 /\ b = (x \/ y)
        BY <1>9, <3>2 DEF x
      <4>2. In(s, m, x, 1, e[n - 3] + 1, e[n - 1] - 1) /\ In(s, m, y, 2, e[n - 1] + 1, k)
        BY <1>3, <2>1, <2>6, <2>7, <3>2, <4>1
      <4>3. In(s, m, x \/ y, 1, e[n - 3] + 1, k)
        BY <1>2, <1>6, <2>4, <2>7, <2>8, <3>2, <4>2, OrRule
      <4> QED BY <4>1, <4>3
    <3> QED BY <1>9, <3>1, <3>2
  <2>10. Level(red, next) \in 1..l
    <3>1. Level(red, next) = IF n - 3 = 0 \/ st[n - 3].kind = "LPAREN" THEN (IF next = "AND" THEN 2 ELSE 1)
                             ELSE IF st[n - 3].kind = "OR" THEN 2 ELSE 3
      BY <1>l, <2>2
    <3>2. n - 3 = 0 \/ st[n - 3].kind = "LPAREN" \/ (op = "AND" /\ st[n - 3].kind = "OR")
      BY <1>0, <2>1
    <3>3. (op = "AND" /\ l = 2) \/ (op = "OR" /\ l = 1)
      BY <1>9
    <3> QED BY <1>1, <3>1, <3>2, <3>3
  <2> HIDE DEF red
  <2>11. In(s, m, b, Level(red, next), e[n - 3] + 1, k)
    <3>1. Level(red, next) \in 1..4 /\ Level(red, next) <= l /\ l \in 1..4
      BY <2>10
    <3> QED BY <2>4, <2>9, <3>1, Weaker
  <2>12. b \in BOOLEAN
    BY <1>9
  <2> QED BY <1>7, <1>9, <2>2, <2>4, <2>5, <2>11, <2>12 DEF red
<1>10. CASE op = "AND"
  <2>1. Reduction(st) = Append(SubSeq(st, 1, n - 3), Value(IsTrue(st[n - 2]) /\ y))
    BY <1>10 DEF Reduction, n
  <2> QED BY <1>9, <1>10, <2>1, 2 \in 1..2
<1>11. CASE op = "OR"
  <2>1. Reduction(st) = Append(SubSeq(st, 1, n - 3), Value(IsTrue(st[n - 2]) \/ y))
    BY <1>11 DEF Reduction, n
  <2> QED BY <1>9, <1>11, <2>1, 1 \in 1..2
<1> QED BY <1>1, <1>8, <1>10, <1>11

LEMMA ReducedParsed ==
  ASSUME NEW s \in Expr, NEW m, NEW st, NEW e, NEW k, NEW next, Parsed(s, m, st, e, k),
         TopBy(s, m, st, e, Level(st, next))
  PROVE  \E e2 : /\ Parsed(s, m, Reduced(st, next), e2, k)
                 /\ TopBy(s, m, Reduced(st, next), e2, Level(Reduced(st, next), next))
                 /\ EndsInExpr(st) => EndsInExpr(Reduced(st, next))
<1> DEFINE n == Len(st)
           Like(x) == \E e2 : /\ Parsed(s, m, x, e2, k) /\ TopBy(s, m, x, e2, Level(x, next))
                              /\ EndsInExpr(st) => EndsInExpr(x)
<1>0. st \in Stacks /\ n \in Nat
  BY DEF Parsed, Stacks
<1>1. PICK c : Chain(c, n, next) /\ c[0] = st /\ c[n] = Reduced(st, next)
  BY <1>0, ReducedChain
<1> DEFINE Good == {i \in 0..n : Like(c[i])}
<1> HIDE DEF n
<1>2. 0 \in Good
  BY <1>0, <1>1
<1>3. ASSUME NEW i \in 0..(n - 1), i \in Good PROVE i + 1 \in Good
  <2>1. c[i + 1] = Reduce1(c[i], next) /\ i + 1 \in 0..n
    BY <1>0, <1>1, ChainNext
  <2>2. CASE ~Reducible(c[i], next)
    BY <1>3, <2>1, <2>2 DEF Reduce1
  <2>3. CASE Reducible(c[i], next)
    <3>1. PICK e1 : Parsed(s, m, c[i], e1, k) /\ TopBy(s, m, c[i], e1, Level(c[i], next))
      BY <1>3
    <3>2. \E e2 : /\ Parsed(s, m, Reduction(c[i]), e2, k)
                  /\ TopBy(s, m, Reduction(c[i]), e2, Level(Reduction(c[i]), next))
                  /\ EndsInExpr(Reduction(c[i]))
      BY <2>3, <3>1, ReductionParsed
    <3>3. c[i + 1] = Reduction(c[i])
      BY <2>1, <2>3 DEF Reduce1
    <3> QED BY <2>1, <3>2, <3>3
  <2> QED BY <2>2, <2>3
<1> HIDE DEF Good
<1>4. \A i \in 0..n : i \in Good
  BY <1>0, <1>2, <1>3, UpTo
<1>5. n \in Good
  BY <1>0, <1>4
<1> QED BY <1>1, <1>5 DEF Good

\* Where an operator or a closing parenthesis may follow, the stack is not empty, and
\* reduced it still ends in an expression.
LEMMA OperatorOn ==
  ASSUME NEW s \in Expr, NEW m, NEW st, NEW e, NEW k, NEW next, Parsed(s, m, st, e, k),
         TopBy(s, m, st, e, 4), EndsInExpr(st), next \in {"AND", "OR", "RPAREN", "YYEOF"}
  PROVE  LET red == Reduced(st, next)
             n   == Len(red)
         IN  \E e2 : /\ Parsed(s, m, red, e2, k) /\ EndsInExpr(red) /\ n \in Nat \ {0} /\ IsExpr(red[n])
                     /\ \/ n = 1 \/ red[n - 1].kind = "LPAREN"
                        \/ next = "AND" /\ red[n - 1].kind = "OR"
                     /\ In(s, m, IsTrue(red[n]), IF next = "AND" THEN 2 ELSE 1, e2[n - 1] + 1, k)
                     /\ Span(s, e2[n - 1] + 1, k)
<1> DEFINE red == Reduced(st, next)
           n == Len(red)
<1>0. st \in Stacks /\ Len(st) \in Nat /\ Len(st) > 0 /\ e \in [0..Len(st) -> 0..Len(s)] /\ e[Len(st)] = k
  BY DEF Parsed, Stacks, EndsInExpr
<1>1. TopBy(s, m, st, e, Level(st, next))
  <2>1. Level(st, next) \in 1..4 /\ Level(st, next) <= 4 /\ 4 \in 1..4
    BY DEF Level
  <2>2. In(s, m, IsTrue(st[Len(st)]), 4, e[Len(st) - 1] + 1, e[Len(st)])
    BY DEF TopBy
  <2>3. Span(s, e[Len(st) - 1] + 1, e[Len(st)])
    <3>1. e[Len(st) - 1] + 1 \in 1..(Len(s) + 1) /\ e[Len(st)] \in 0..Len(s)
      <4>1. Len(st) - 1 \in 0..Len(st) /\ Len(st) \in 0..Len(st) /\ Len(s) \in Nat
        BY <1>0 DEF Expr
      <4>2. e[Len(st) - 1] \in 0..Len(s) /\ e[Len(st)] \in 0..Len(s)
        BY <1>0, <4>1
      <4> QED BY <4>1, <4>2
    <3> QED BY <2>2, <3>1, 4 \in 1..4, NoEmptySpan
  <2>4. In(s, m, IsTrue(st[Len(st)]), Level(st, next), e[Len(st) - 1] + 1, e[Len(st)])
    BY <2>1, <2>2, <2>3, Weaker
  <2> QED BY <2>4 DEF TopBy
<1>2. PICK e2 : /\ Parsed(s, m, red, e2, k) /\ TopBy(s, m, red, e2, Level(red, next))
                /\ EndsInExpr(red)
  BY <1>1, ReducedParsed
<1>3. ~Reducible(red, next)
  BY <1>0, ReducedNot
<1> HIDE DEF red
<1>4. /\ red \in Stacks /\ n \in Nat \ {0} /\ IsExpr(red[n])
      /\ e2 \in [0..n -> 0..Len(s)] /\ e2[n] = k /\ k \in 0..Len(s) /\ Len(s) \in Nat
      /\ \A q \in 1..n : SymbolOn(s, m, red, e2, q - 1, red[q], e2[q])
  BY <1>2 DEF Parsed, Stacks, EndsInExpr, Last, Expr
<1> HIDE DEF n
<1>5. SymbolOn(s, m, red, e2, n - 1, red[n], k)
  BY <1>4
<1>6. n = 1 \/ ~IsExpr(red[n - 1])
  <2>1. red[n].kind \notin {"AND", "OR"}
    BY <1>4 DEF IsExpr
  <2> QED BY <1>4, <1>5, <2>1 DEF SymbolOn
<1>7. n = 1 \/ red[n - 1].kind = "LPAREN" \/ (next = "AND" /\ red[n - 1].kind = "OR")
  <2> SUFFICES ASSUME n # 1 PROVE red[n - 1].kind = "LPAREN" \/ (next = "AND" /\ red[n - 1].kind = "OR")
    OBVIOUS
  <2>1. SymbolOn(s, m, red, e2, (n - 1) - 1, red[n - 1], e2[n - 1])
    <3>1. n - 1 \in 1..n
      BY <1>4
    <3> QED BY <1>4, <3>1
  <2>2. red[n - 1].kind \in {"NOT", "LPAREN", "AND", "OR"}
    BY <1>6, <2>1 DEF SymbolOn, IsExpr
  <2>3. n > 1
    BY <1>4
  <2>4. ~(red[n - 1].kind \in {"NOT", "AND"} \/ (red[n - 1].kind = "OR" /\ next # "AND"))
    BY <1>2, <1>3, <2>3 DEF Reducible, n
  <2> QED BY <2>2, <2>4
<1>8. Level(red, next) = IF next = "AND" THEN 2 ELSE 1
  BY <1>4, <1>7 DEF Level, n
<1>9. In(s, m, IsTrue(red[n]), IF next = "AND" THEN 2 ELSE 1, e2[n - 1] + 1, k)
  BY <1>2, <1>4, <1>8 DEF TopBy, n
<1>10. Span(s, e2[n - 1] + 1, k)
  <2>1. e2[n - 1] < k /\ e2[n - 1] \in 0..Len(s)
    BY <1>4, <1>5 DEF SymbolOn
  <2> QED BY <1>4, <2>1 DEF Span
<1> QED BY <1>2, <1>4, <1>7, <1>9, <1>10 DEF n, red

Fits(s, m, st, k) == \E e : Parsed(s, m, st, e, k) /\ TopBy(s, m, st, e, 4)

\* A symbol takes the place of all above the first p symbols.
Fills(s, m, base, f, k, p, sym, k2) ==
  /\ Parsed(s, m, base, f, k) /\ p \in 0..Len(base) /\ sym \in Symbols /\ k2 \in 0..Len(s)
  /\ SymbolOn(s, m, base, f, p, sym, k2)
  /\ IsExpr(sym) => In(s, m, IsTrue(sym), 4, f[p] + 1, k2)

LEMMA Filled ==
  ASSUME NEW s \in Expr, NEW m, NEW base, NEW f, NEW k, NEW p, NEW sym, NEW k2,
         Fills(s, m, base, f, k, p, sym, k2)
  PROVE  Fits(s, m, Append(SubSeq(base, 1, p), sym), k2)
<1> DEFINE e2 == Extended(f, p, k2)
           new == Append(SubSeq(base, 1, p), sym)
<1>0. /\ Parsed(s, m, base, f, k) /\ p \in 0..Len(base) /\ sym \in Symbols /\ k2 \in 0..Len(s)
      /\ SymbolOn(s, m, base, f, p, sym, k2)
      /\ IsExpr(sym) => In(s, m, IsTrue(sym), 4, f[p] + 1, k2)
  BY DEF Fills
<1>1. p \in Nat /\ (p + 1) - 1 = p
  BY <1>0 DEF Parsed, Stacks
<1>2. /\ Parsed(s, m, new, e2, k2) /\ Len(new) = p + 1 /\ new[p + 1] = sym
      /\ e2[p] = f[p] /\ e2[p + 1] = k2
  BY <1>0, Push
<1> HIDE DEF e2, new
<1>3. EndsInExpr(new) => IsExpr(sym)
  BY <1>2 DEF EndsInExpr, Last
<1>4. TopBy(s, m, new, e2, 4)
  BY <1>0, <1>1, <1>2, <1>3 DEF TopBy
<1> QED BY <1>2, <1>4 DEF Fits, new

\* A token that is shifted stands for itself, or for its value.
LEMMA ShiftParsed ==
  ASSUME NEW s \in Expr, NEW m, NEW st, NEW k \in 0..(Len(s) - 1), Fits(s, m, st, k)
  PROVE  Shift(st, s[k + 1], m) = SyntaxError \/ Fits(s, m, Shift(st, s[k + 1], m), k + 1)
<1> DEFINE t == s[k + 1]
           new == Shift(st, t, m)
<1>g. SUFFICES new = SyntaxError \/ Fits(s, m, new, k + 1)
  OBVIOUS
<1>0. /\ Len(s) \in Nat /\ k \in Nat /\ k + 1 \in 1..Len(s) /\ k + 1 \in 0..Len(s) /\ k < k + 1 /\ t \in Tokens /\ t \in Symbols
  BY DEF Expr, Symbols
<1>1. PICK e : Parsed(s, m, st, e, k) /\ TopBy(s, m, st, e, 4)
  BY DEF Fits
<1>2. st \in Stacks /\ Len(st) \in Nat /\ e[Len(st)] = k
  BY <1>1 DEF Parsed, Stacks
<1>c. /\ st = SyntaxError => new = SyntaxError
      /\ st # SyntaxError /\ ~EndsInExpr(st) =>
           /\ t.kind = "cmp" => new = Append(st, Value(Holds(t, m)))
           /\ t.kind \in {"NOT", "LPAREN"} => new = Append(st, t)
           /\ t.kind \notin {"cmp", "NOT", "LPAREN"} => new = SyntaxError
      /\ st # SyntaxError /\ EndsInExpr(st) =>
           LET red == Reduced(st, t.kind)
               n   == Len(red)
           IN  /\ t.kind \in {"AND", "OR"} => new = Append(red, t)
               /\ t.kind = "RPAREN" => \/ new = SyntaxError
                                       \/ /\ n > 1 /\ red[n - 1].kind = "LPAREN"
                                          /\ new = Append(SubSeq(red, 1, n - 2), red[n])
               /\ t.kind \notin {"AND", "OR", "RPAREN"} => new = SyntaxError
  BY DEF Shift
<1> HIDE DEF new
<1>t. s[k + 1] = t
  OBVIOUS
<1> HIDE DEF t
<1>e. new = SyntaxError \/ st # SyntaxError
  BY <1>c
<1>s. ASSUME NEW x \in Stacks PROVE SubSeq(x, 1, Len(x)) = x /\ Len(x) \in 0..Len(x)
  BY DEF Stacks
<1>3. CASE ~EndsInExpr(st)
  <2>1. Len(st) = 0 \/ ~IsExpr(st[Len(st)])
    BY <1>2, <1>3 DEF EndsInExpr, Last, Stacks
  <2>2. SubSeq(st, 1, Len(st)) = st /\ Len(st) \in 0..Len(st)
    BY <1>2, <1>s
  <2>3. CASE st # SyntaxError /\ t.kind = "cmp"
    <3> DEFINE v == Value(Holds(t, m))
    <3>1. new = Append(SubSeq(st, 1, Len(st)), v)
      BY <1>3, <1>c, <2>2, <2>3
    <3>2. v \in Symbols /\ IsExpr(v)
      BY Kinds
    <3>3. IsTrue(v) = Holds(t, m)
      BY <1>0, <2>3, HoldsBoolean, Kinds
    <3> HIDE DEF v
    <3>4. SymbolOn(s, m, st, e, Len(st), v, k + 1)
      BY <1>0, <1>2, <2>1, <3>2 DEF SymbolOn, IsExpr
    <3>5. In(s, m, Holds(t, m), 4, e[Len(st)] + 1, k + 1)
      <4>1. s[k + 1].kind = "cmp"
        BY <1>t, <2>3
      <4>2. In(s, m, Holds(s[k + 1], m), 4, k + 1, k + 1)
        BY <1>0, <4>1, CmpRule
      <4> QED BY <1>2, <1>t, <4>2
    <3>6. Fills(s, m, st, e, k, Len(st), v, k + 1)
      BY <1>0, <1>1, <2>2, <3>2, <3>3, <3>4, <3>5 DEF Fills
    <3>7. Fits(s, m, Append(SubSeq(st, 1, Len(st)), v), k + 1)
      BY <3>6, Filled
    <3> QED BY <3>1, <3>7
  <2>4. CASE st # SyntaxError /\ t.kind \in {"NOT", "LPAREN"}
    <3>1. new = Append(SubSeq(st, 1, Len(st)), t)
      BY <1>3, <1>c, <2>2, <2>4
    <3>2. ~IsExpr(t)
      BY <1>0, Kinds
    <3>3. SymbolOn(s, m, st, e, Len(st), t, k + 1)
      <4>1. e[Len(st)] < k + 1 /\ k + 1 = e[Len(st)] + 1 /\ s[k + 1].kind = t.kind
        BY <1>0, <1>2, <1>t
      <4> QED BY <2>1, <2>4, <3>2, <4>1 DEF SymbolOn
    <3>4. Fills(s, m, st, e, k, Len(st), t, k + 1)
      BY <1>0, <1>1, <2>2, <3>2, <3>3 DEF Fills
    <3>5. Fits(s, m, Append(SubSeq(st, 1, Len(st)), t), k + 1)
      BY <3>4, Filled
    <3> QED BY <3>1, <3>5
  <2> QED BY <1>3, <1>c, <2>3, <2>4
<1>4. CASE EndsInExpr(st)
  <2> DEFINE red == Reduced(st, t.kind)
             n == Len(red)
  <2>1. CASE t.kind \in {"AND", "OR", "RPAREN"}
    <3>1. PICK e2 : /\ Parsed(s, m, red, e2, k) /\ EndsInExpr(red) /\ n \in Nat \ {0} /\ IsExpr(red[n])
                    /\ \/ n = 1 \/ red[n - 1].kind = "LPAREN"
                       \/ t.kind = "AND" /\ red[n - 1].kind = "OR"
                    /\ In(s, m, IsTrue(red[n]), IF t.kind = "AND" THEN 2 ELSE 1, e2[n - 1] + 1, k)
                    /\ Span(s, e2[n - 1] + 1, k)
      <4>1. t.kind \in {"AND", "OR", "RPAREN", "YYEOF"}
        BY <2>1
      <4> QED BY <1>1, <1>4, <4>1, OperatorOn
    <3>c. /\ t.kind \in {"AND", "OR"} => new = Append(red, t) \/ new = SyntaxError
          /\ t.kind = "RPAREN" => \/ new = SyntaxError
                                  \/ /\ n > 1 /\ red[n - 1].kind = "LPAREN"
                                     /\ new = Append(SubSeq(red, 1, n - 2), red[n])
      BY <1>4, <1>c, <1>e
    <3> HIDE DEF red
    <3>2. /\ red \in Stacks /\ e2 \in [0..n -> 0..Len(s)] /\ e2[n] = k
          /\ \A q \in 1..n : SymbolOn(s, m, red, e2, q - 1, red[q], e2[q])
      BY <3>1 DEF Parsed
    <3>s. SubSeq(red, 1, n) = red /\ n \in 0..n
      BY <1>s, <3>2
    <3> HIDE DEF n
    <3>3. CASE t.kind \in {"AND", "OR"} /\ new # SyntaxError
      <4>1. new = Append(SubSeq(red, 1, n), t)
        BY <3>3, <3>c, <3>s
      <4>2. ~IsExpr(t)
        BY <1>0, Kinds
      <4>3. SymbolOn(s, m, red, e2, n, t, k + 1)
        <5>1. e2[n] < k + 1 /\ k + 1 = e2[n] + 1 /\ s[k + 1].kind = t.kind /\ n > 0
          BY <1>0, <1>t, <3>1, <3>2
        <5>2. In(s, m, IsTrue(red[n]), IF t.kind = "AND" THEN 2 ELSE 1, e2[n - 1] + 1, e2[n])
          BY <3>1, <3>2
        <5> QED BY <3>1, <3>3, <4>2, <5>1, <5>2 DEF SymbolOn
      <4>4. Fills(s, m, red, e2, k, n, t, k + 1)
        BY <1>0, <3>1, <3>s, <4>2, <4>3 DEF Fills, n
      <4>5. Fits(s, m, Append(SubSeq(red, 1, n), t), k + 1)
        BY <4>4, Filled
      <4> QED BY <4>1, <4>5
    <3>4. CASE t.kind = "RPAREN" /\ new # SyntaxError
      <4>1. n > 1 /\ red[n - 1].kind = "LPAREN" /\ new = Append(SubSeq(red, 1, n - 2), red[n])
        BY <3>4, <3>c
      <4>2. n - 2 \in 0..n /\ n - 1 \in 1..n /\ (n - 1) - 1 = n - 2 /\ n \in 1..n
        BY <3>1, <4>1
      <4>3. SymbolOn(s, m, red, e2, n - 2, red[n - 1], e2[n - 1]) /\ SymbolOn(s, m, red, e2, n - 1, red[n], k)
        BY <3>2, <4>2
      <4>4. /\ e2[n - 2] < e2[n - 1] /\ e2[n - 1] < k /\ e2[n - 1] = e2[n - 2] + 1
            /\ s[e2[n - 1]].kind = "LPAREN" /\ (n - 2 = 0 \/ ~IsExpr(red[n - 2]))
            /\ e2[n - 2] \in 0..Len(s) /\ e2[n - 1] \in 0..Len(s)
        <5>1. ~IsExpr(red[n - 1])
          BY <4>1 DEF IsExpr
        <5> QED BY <3>2, <4>1, <4>2, <4>3, <5>1 DEF SymbolOn
      <4>5. SymbolOn(s, m, red, e2, n - 2, red[n], k + 1)
        <5>1. e2[n - 2] < k + 1
          BY <4>4
        <5>2. red[n].kind \in {"true", "false"}
          BY <3>1 DEF IsExpr
        <5> QED BY <3>1, <4>4, <5>1, <5>2 DEF SymbolOn
      <4>6. In(s, m, IsTrue(red[n]), 4, e2[n - 2] + 1, k + 1)
        <5>1. Span(s, e2[n - 2] + 1, k + 1) /\ e2[n - 2] + 1 # k + 1
          <6>1. e2[n - 2] < k /\ e2[n - 2] \in Nat /\ Len(s) \in Nat
            BY <1>0, <4>4 DEF Expr
          <6> QED BY <1>0, <6>1 DEF Span
        <5>2. s[e2[n - 2] + 1].kind = "LPAREN" /\ s[k + 1].kind = "RPAREN"
          BY <1>t, <3>4, <4>4
        <5>3. In(s, m, IsTrue(red[n]), 1, (e2[n - 2] + 1) + 1, (k + 1) - 1)
          <6>1. (k + 1) - 1 = k
            OBVIOUS
          <6> QED BY <3>1, <3>4, <4>4, <6>1
        <5> QED BY <5>1, <5>2, <5>3, ParenRule
      <4>7. red[n] \in Symbols
        BY <3>2, <4>2 DEF Stacks, n
      <4>8. Fills(s, m, red, e2, k, n - 2, red[n], k + 1)
        BY <1>0, <3>1, <4>2, <4>5, <4>6, <4>7 DEF Fills, n
      <4>9. Fits(s, m, Append(SubSeq(red, 1, n - 2), red[n]), k + 1)
        BY <4>8, Filled
      <4> QED BY <4>1, <4>9
    <3> QED BY <2>1, <3>3, <3>4
  <2> QED BY <1>4, <1>c, <2>1
<1> QED BY <1>3, <1>4

\* What the parser returns for an expression that it accepts is what the grammar says.
LEMMA ParserSound ==
  ASSUME NEW s \in Expr, NEW m, parse(s, m).rc
  PROVE  parse(s, m).result \in Meaning(s, m)
<1> DEFINE n == Len(s)
<1>0. n \in Nat /\ s \in Seq(Tokens)
  BY DEF Expr
<1>1. PICK c : /\ Run(c, s, m)
               /\ LET stack == Reduced(c[n], "YYEOF")
                  IN  /\ parse(s, m).rc = (Len(stack) = 1 /\ IsExpr(stack[1]))
                      /\ parse(s, m).result = (parse(s, m).rc /\ IsTrue(stack[1]))
  BY ParseRun
<1> DEFINE Good == {k \in 0..n : c[k] = SyntaxError \/ Fits(s, m, c[k], k)}
<1>2. 0 \in Good
  <2>1. c[0] = <<>> /\ <<>> \in Stacks /\ Len(<<>>) = 0 /\ ~EndsInExpr(<<>>)
    BY <1>1 DEF Run, Stacks, EndsInExpr
  <2> DEFINE e == [q \in 0..0 |-> 0]
  <2>2. Parsed(s, m, <<>>, e, 0)
    BY <1>0, <2>1 DEF Parsed
  <2>3. TopBy(s, m, <<>>, e, 4)
    BY <2>1 DEF TopBy
  <2> QED BY <1>0, <2>1, <2>2, <2>3 DEF Fits
<1>3. ASSUME NEW k \in 0..(n - 1), k \in Good PROVE k + 1 \in Good
  <2>1. k + 1 \in 0..n /\ k + 1 \in 1..n /\ (k + 1) - 1 = k
    BY <1>0
  <2>2. c[k + 1] = Shift(c[k], s[k + 1], m)
    BY <1>1, <2>1 DEF Run
  <2>3. CASE c[k] = SyntaxError
    BY <2>1, <2>2, <2>3 DEF Shift
  <2>4. CASE Fits(s, m, c[k], k)
    <3>1. Shift(c[k], s[k + 1], m) = SyntaxError \/ Fits(s, m, Shift(c[k], s[k + 1], m), k + 1)
      BY <2>4, ShiftParsed
    <3> QED BY <2>1, <2>2, <3>1
  <2> QED BY <1>3, <2>3, <2>4
<1> HIDE DEF Good
<1>4. n \in Good
  <2>1. \A k \in 0..n : k \in Good
    BY <1>0, <1>2, <1>3, UpTo
  <2> QED BY <1>0, <2>1
<1>5. CASE c[n] = SyntaxError
  <2>1. SyntaxError \in Stacks /\ Len(SyntaxError) = 1 /\ ~IsExpr(SyntaxError[1])
    BY Kinds DEF SyntaxError, Stacks
  <2>2. ~Reducible(SyntaxError, "YYEOF")
    BY <2>1 DEF Reducible
  <2>3. Reduced(SyntaxError, "YYEOF") = SyntaxError
    BY <2>1, <2>2, ReducedSame
  <2> QED BY <1>1, <1>5, <2>1, <2>3
<1>6. CASE Fits(s, m, c[n], n)
  <2> DEFINE red == Reduced(c[n], "YYEOF")
  <2>1. PICK e : Parsed(s, m, c[n], e, n) /\ TopBy(s, m, c[n], e, 4)
    BY <1>6 DEF Fits
  <2>2. Len(red) = 1 /\ IsExpr(red[1]) /\ parse(s, m).result = IsTrue(red[1])
    <3>1. Len(red) = 1 /\ IsExpr(red[1]) /\ parse(s, m).result = (TRUE /\ IsTrue(red[1]))
      BY <1>1
    <3> QED BY <3>1 DEF IsTrue
  <2>3. c[n] \in Stacks
    BY <2>1 DEF Parsed
  <2>4. CASE EndsInExpr(c[n])
    <3>1. PICK e2 : /\ Parsed(s, m, red, e2, n) /\ EndsInExpr(red)
                    /\ In(s, m, IsTrue(red[Len(red)]), IF "YYEOF" = "AND" THEN 2 ELSE 1, e2[Len(red) - 1] + 1, n)
      <4> HIDE DEF n
      <4>1. "YYEOF" \in {"AND", "OR", "RPAREN", "YYEOF"}
        OBVIOUS
      <4> QED BY <2>1, <2>4, <4>1, OperatorOn
    <3> HIDE DEF red
    <3>2. In(s, m, IsTrue(red[1]), 1, e2[0] + 1, n) /\ e2[0] = 0
      BY <2>2, <3>1 DEF Parsed
    <3>3. In(s, m, IsTrue(red[1]), 1, 1, n)
      BY <3>2
    <3> QED BY <2>2, <3>3, MeaningOfTable DEF In
  <2>5. CASE ~EndsInExpr(c[n])
    <3>1. ~Reducible(c[n], "YYEOF")
      BY <2>5 DEF Reducible
    <3>2. red = c[n]
      BY <2>3, <3>1, ReducedSame
    <3> HIDE DEF red
    <3>3. EndsInExpr(c[n])
      BY <2>2, <2>3, <3>2 DEF EndsInExpr, Last, Stacks
    <3> QED BY <2>5, <3>3
  <2> QED BY <2>4, <2>5
<1> QED BY <1>4, <1>5, <1>6 DEF Good

\* Whether an expression has a value does not depend on the message.
Valued(s, m, r, i, j) == \E b : In(s, m, b, r, i, j)

LEMMA ValuedRules ==
  ASSUME NEW s \in Expr, NEW m, NEW m2, NEW r \in 1..4, NEW i, NEW j, Span(s, i, j), Valued(s, m, r, i, j),
         \A p \in 1..4, a \in 1..Len(s), d \in 1..Len(s) :
           /\ SpanRank(p, a, d) < SpanRank(r, i, j)
           /\ Valued(s, m, p, a, d)
           => Valued(s, m2, p, a, d)
  PROVE  Valued(s, m2, r, i, j)
<1> DEFINE n == Len(s)
<1>0. /\ n \in Nat /\ i \in 1..n /\ j \in 1..n /\ i <= j /\ SpanRank(r, i, j) = 4 * (j - i) + (5 - r)
      /\ i \in 1..(n + 1) /\ j \in 0..n
  BY DEF Span, SpanRank, Expr
<1>1. PICK b : In(s, m, b, r, i, j)
  BY DEF Valued
<1>2. \A p \in 1..4, a \in 1..n, d \in 1..n :
           SpanRank(p, a, d) < SpanRank(r, i, j) /\ Valued(s, m, p, a, d) => Valued(s, m2, p, a, d)
  OBVIOUS
<1> HIDE DEF n
\* Shorter spans that the rules look at.
<1>3. ASSUME NEW p \in 1..4, NEW a, NEW d, Span(s, a, d), SpanRank(p, a, d) < SpanRank(r, i, j), NEW x,
             In(s, m, x, p, a, d)
      PROVE  \E y \in BOOLEAN : In(s, m2, y, p, a, d)
  <2>1. a \in 1..n /\ d \in 1..n /\ a \in 1..(n + 1) /\ d \in 0..n
    BY <1>0, <1>3 DEF Span, n
  <2>2. Valued(s, m, p, a, d)
    BY <1>3 DEF Valued
  <2>3. Valued(s, m2, p, a, d)
    BY <1>2, <1>3, <2>1, <2>2
  <2>4. PICK y : In(s, m2, y, p, a, d)
    BY <2>3 DEF Valued
  <2>5. y \in BOOLEAN
    BY <2>1, <2>4, TableBoolean DEF n
  <2> QED BY <2>4, <2>5
<1>4. ASSUME NEW k \in (i + 1)..(j - 1), NEW p \in 1..4
      PROVE  /\ Span(s, i, k - 1) /\ SpanRank(p, i, k - 1) < SpanRank(r, i, j)
             /\ Span(s, k + 1, j) /\ SpanRank(p, k + 1, j) < SpanRank(r, i, j)
  BY <1>0 DEF Span, SpanRank, n
<1>5. CASE r < 4 /\ In(s, m, b, r + 1, i, j)
  <2>1. r + 1 \in 1..4 /\ SpanRank(r + 1, i, j) < SpanRank(r, i, j) /\ r <= r + 1
    BY <1>0, <1>5 DEF SpanRank
  <2>2. PICK y \in BOOLEAN : In(s, m2, y, r + 1, i, j)
    BY <1>3, <1>5, <2>1
  <2>3. In(s, m2, y, r, i, j)
    BY <2>1, <2>2, Weaker
  <2> QED BY <2>3 DEF Valued
<1>6. CASE r = 1 /\ \E k \in (i + 1)..(j - 1), x \in BOOLEAN, y \in BOOLEAN :
              s[k].kind = "OR" /\ In(s, m, x, 1, i, k - 1) /\ In(s, m, y, 2, k + 1, j) /\ b = (x \/ y)
  <2>1. PICK k \in (i + 1)..(j - 1), x \in BOOLEAN, y \in BOOLEAN :
              s[k].kind = "OR" /\ In(s, m, x, 1, i, k - 1) /\ In(s, m, y, 2, k + 1, j)
    BY <1>6
  <2>2. PICK x2 \in BOOLEAN : In(s, m2, x2, 1, i, k - 1)
    BY <1>3, <1>4, <2>1, 1 \in 1..4
  <2>3. PICK y2 \in BOOLEAN : In(s, m2, y2, 2, k + 1, j)
    BY <1>3, <1>4, <2>1, 2 \in 1..4
  <2>4. In(s, m2, x2 \/ y2, 1, i, j)
    BY <2>1, <2>2, <2>3, OrRule
  <2> QED BY <1>6, <2>4 DEF Valued
<1>7. CASE r = 2 /\ \E k \in (i + 1)..(j - 1), x \in BOOLEAN, y \in BOOLEAN :
              s[k].kind = "AND" /\ In(s, m, x, 2, i, k - 1) /\ In(s, m, y, 3, k + 1, j) /\ b = (x /\ y)
  <2>1. PICK k \in (i + 1)..(j - 1), x \in BOOLEAN, y \in BOOLEAN :
              s[k].kind = "AND" /\ In(s, m, x, 2, i, k - 1) /\ In(s, m, y, 3, k + 1, j)
    BY <1>7
  <2>2. PICK x2 \in BOOLEAN : In(s, m2, x2, 2, i, k - 1)
    BY <1>3, <1>4, <2>1, 2 \in 1..4
  <2>3. PICK y2 \in BOOLEAN : In(s, m2, y2, 3, k + 1, j)
    BY <1>3, <1>4, <2>1, 3 \in 1..4
  <2>4. In(s, m2, x2 /\ y2, 2, i, j)
    BY <2>1, <2>2, <2>3, AndRule
  <2> QED BY <1>7, <2>4 DEF Valued
<1>8. CASE r = 3 /\ s[i].kind = "NOT" /\ i < j /\ \E x \in BOOLEAN : In(s, m, x, 3, i + 1, j) /\ b = ~x
  <2>1. Span(s, i + 1, j) /\ SpanRank(3, i + 1, j) < SpanRank(r, i, j)
    BY <1>0, <1>8 DEF Span, SpanRank, n
  <2>2. PICK x \in BOOLEAN : In(s, m, x, 3, i + 1, j)
    BY <1>8
  <2>3. PICK x2 \in BOOLEAN : In(s, m2, x2, 3, i + 1, j)
    BY <1>3, <2>1, <2>2, 3 \in 1..4
  <2>4. In(s, m2, ~x2, 3, i, j)
    BY <1>8, <2>3, NotRule
  <2> QED BY <1>8, <2>4 DEF Valued
<1>9. CASE r = 4 /\ i = j /\ s[i].kind = "cmp"
  <2>1. In(s, m2, Holds(s[i], m2), 4, i, i)
    BY <1>0, <1>9, CmpRule DEF n
  <2> QED BY <1>9, <2>1 DEF Valued
<1>10. CASE r = 4 /\ i + 1 < j /\ s[i].kind = "LPAREN" /\ s[j].kind = "RPAREN" /\ In(s, m, b, 1, i + 1, j - 1)
  <2>1. Span(s, i + 1, j - 1) /\ SpanRank(1, i + 1, j - 1) < SpanRank(r, i, j) /\ i # j
    BY <1>0, <1>10 DEF Span, SpanRank, n
  <2>2. PICK x2 \in BOOLEAN : In(s, m2, x2, 1, i + 1, j - 1)
    BY <1>3, <1>10, <2>1, 1 \in 1..4
  <2>3. In(s, m2, x2, 4, i, j)
    BY <1>10, <2>1, <2>2, ParenRule
  <2> QED BY <1>10, <2>3 DEF Valued
<1>11. \/ r < 4 /\ In(s, m, b, r + 1, i, j)
       \/ r = 1 /\ \E k \in (i + 1)..(j - 1), x \in BOOLEAN, y \in BOOLEAN :
            s[k].kind = "OR" /\ In(s, m, x, 1, i, k - 1) /\ In(s, m, y, 2, k + 1, j) /\ b = (x \/ y)
       \/ r = 2 /\ \E k \in (i + 1)..(j - 1), x \in BOOLEAN, y \in BOOLEAN :
            s[k].kind = "AND" /\ In(s, m, x, 2, i, k - 1) /\ In(s, m, y, 3, k + 1, j) /\ b = (x /\ y)
       \/ r = 3 /\ s[i].kind = "NOT" /\ i < j /\ \E x \in BOOLEAN : In(s, m, x, 3, i + 1, j) /\ b = ~x
       \/ r = 4 /\ i = j /\ s[i].kind = "cmp" /\ b = Holds(s[i], m)
       \/ r = 4 /\ i + 1 < j /\ s[i].kind = "LPAREN" /\ s[j].kind = "RPAREN" /\ In(s, m, b, 1, i + 1, j - 1)
  BY <1>1, InRules
<1> QED BY <1>5, <1>6, <1>7, <1>8, <1>9, <1>10, <1>11, Zenon

LEMMA ValuedAnyway ==
  ASSUME NEW s \in Expr, NEW m, NEW m2, NEW r \in 1..4, NEW i \in 1..Len(s), NEW j \in 1..Len(s),
         Valued(s, m, r, i, j)
  PROVE  Valued(s, m2, r, i, j)
<1> DEFINE n == Len(s)
           Good == {k \in Nat : \A p \in 1..4, a \in 1..n, d \in 1..n :
                      SpanRank(p, a, d) < k /\ Valued(s, m, p, a, d) => Valued(s, m2, p, a, d)}
<1>0. n \in Nat
  BY DEF Expr
<1>i. r \in 1..4 /\ i \in 1..n /\ j \in 1..n
  OBVIOUS
<1> HIDE DEF n
<1>r. \A p \in 1..4, a \in 1..n, d \in 1..n : SpanRank(p, a, d) \in Nat
  BY <1>0 DEF SpanRank
<1>s. ASSUME NEW p \in 1..4, NEW a \in 1..n, NEW d \in 1..n, Valued(s, m, p, a, d) PROVE Span(s, a, d)
  <2>1. a \in 1..(n + 1) /\ d \in 0..n
    BY <1>0
  <2>2. PICK x : In(s, m, x, p, a, d)
    BY <1>s DEF Valued
  <2> QED BY <2>1, <2>2, NoEmptySpan DEF n
<1>1. 0 \in Good
  <2> SUFFICES ASSUME NEW p \in 1..4, NEW a \in 1..n, NEW d \in 1..n, SpanRank(p, a, d) < 0 PROVE FALSE
    OBVIOUS
  <2>1. SpanRank(p, a, d) \in Nat
    BY <1>r, Zenon
  <2> QED BY <2>1
<1>2. ASSUME NEW k \in Nat, k \in Good PROVE k + 1 \in Good
  <2> SUFFICES ASSUME NEW p \in 1..4, NEW a \in 1..n, NEW d \in 1..n, SpanRank(p, a, d) < k + 1,
                      Valued(s, m, p, a, d)
               PROVE  Valued(s, m2, p, a, d)
    OBVIOUS
  <2>1. SpanRank(p, a, d) \in Nat
    BY <1>r, Zenon
  <2>2. \A q \in 1..4, x \in 1..n, y \in 1..n :
           SpanRank(q, x, y) < SpanRank(p, a, d) /\ Valued(s, m, q, x, y) => Valued(s, m2, q, x, y)
    <3> SUFFICES ASSUME NEW q \in 1..4, NEW x \in 1..n, NEW y \in 1..n,
                        SpanRank(q, x, y) < SpanRank(p, a, d), Valued(s, m, q, x, y)
                 PROVE  Valued(s, m2, q, x, y)
      OBVIOUS
    <3>1. SpanRank(q, x, y) \in Nat
      BY <1>r, Zenon
    <3>2. SpanRank(q, x, y) < k
      BY <2>1, <3>1
    <3> QED BY <1>2, <3>2, Zenon
  <2>3. Span(s, a, d)
    BY <1>s
  <2> QED BY <2>2, <2>3, ValuedRules DEF n
<1> HIDE DEF Good
<1>3. Nat \subseteq Good
  BY <1>1, <1>2, Up
<1>4. SpanRank(r, i, j) \in Nat
  BY <1>i, <1>r, Zenon
<1>5. SpanRank(r, i, j) + 1 \in Good /\ SpanRank(r, i, j) < SpanRank(r, i, j) + 1
  BY <1>3, <1>4
<1> QED BY <1>i, <1>5, Zenon DEF Good

\* The parser computes the meaning of every expression, with any tokens and any message;
\* and an expression that is valid for the default message is so for all of them.
THEOREM ParserIsGrammar ==
  ASSUME NEW s \in Expr, NEW m
  PROVE  /\ Meaning(s, m) = (IF parse(s, m).rc THEN {parse(s, m).result} ELSE {})
         /\ parse(s, m).rc = is_valid(s)
<1>1. \A x, b : b \in Meaning(s, x) => parse(s, x).rc = TRUE /\ parse(s, x).result = b
  BY ParserComplete
<1>2. \A x : parse(s, x).rc => parse(s, x).result \in Meaning(s, x)
  BY ParserSound
<1>3. Meaning(s, m) = (IF parse(s, m).rc THEN {parse(s, m).result} ELSE {})
  BY <1>1, <1>2
<1>4. ASSUME NEW x, NEW y, parse(s, x).rc PROVE parse(s, y).rc
  <2>1. parse(s, x).result \in Meaning(s, x)
    BY <1>2, <1>4
  <2>2. In(s, x, parse(s, x).result, 1, 1, Len(s))
    BY <2>1, MeaningOfTable DEF In
  <2>3. Len(s) \in Nat
    BY DEF Expr
  <2>4. 1 \in 1..(Len(s) + 1) /\ Len(s) \in 0..Len(s)
    BY <2>3
  <2>5. Span(s, 1, Len(s))
    BY <2>2, <2>4, NoEmptySpan, 1 \in 1..4
  <2>6. 1 \in 1..Len(s) /\ Len(s) \in 1..Len(s)
    BY <2>5 DEF Span
  <2>7. Valued(s, x, 1, 1, Len(s))
    BY <2>2 DEF Valued
  <2>8. Valued(s, y, 1, 1, Len(s))
    BY <2>6, <2>7, ValuedAnyway, 1 \in 1..4
  <2>9. PICK b : b \in Meaning(s, y)
    BY <2>8, MeaningOfTable DEF In, Valued
  <2> QED BY <1>1, <2>9
<1>5. parse(s, m).rc \in BOOLEAN /\ parse(s, EmptyMessage).rc \in BOOLEAN
  BY DEF parse
<1>6. parse(s, m).rc = is_valid(s)
  BY <1>4, <1>5 DEF is_valid
<1> QED BY <1>3, <1>6

-----------------------------------------------------------------------------
(* Folds, names and expressions                                            *)

(* What a configuration consists of                                        *)

\* The value of a fold, from what its function does with typed values.
LEMMA FoldIn ==
  ASSUME NEW T, NEW n, NEW base, NEW step, FoldStep(T, n, base, step), NEW f,
         \A g : IsFold(g, T, n, base, step) => Follows(f, T, n, base, step)
  PROVE  f[1..n] \in T
<1>1. Follows(f, T, n, base, step)
  BY FoldExists
<1>2. PICK c : Iterates(c, T, n, base, step) /\ c[n] = f[1..n]
  BY <1>1, FoldValues
<1>3. n \in 0..n
  BY DEF FoldStep
<1> QED BY <1>2, <1>3 DEF Iterates

LEMMA FlattenTyped ==
  ASSUME NEW S, NEW seqs \in Seq(Seq(S))
  PROVE  FlattenSeq(seqs) \in Seq(S)
<1> DEFINE n == Len(seqs)
           T == Seq(S)
           step == [p \in (1..n) \X T |-> IF p[1] = 1 THEN seqs[1] ELSE p[2] \o seqs[p[1]]]
           Body(f) == [i \in 1..n |-> IF i = 1 THEN seqs[i] ELSE f[i - 1] \o seqs[i]]
           f == CHOOSE f : f = Body(f)
<1>0. n \in Nat /\ <<>> \in T /\ \A i \in 1..n : seqs[i] \in T
  OBVIOUS
<1>1. FlattenSeq(seqs) = IF n = 0 THEN seqs ELSE f[n]
  BY DEF FlattenSeq
<1>2. CASE n = 0
  BY <1>0, <1>1, <1>2
<1>3. CASE n # 0
  <2>1. step \in [(1..n) \X T -> T]
    BY <1>0
  <2>2. \A k \in 1..n, x \in T : step[<<k, x>>] = IF k = 1 THEN seqs[1] ELSE x \o seqs[k]
    OBVIOUS
  <2> HIDE DEF step, n, T
  <2>3. FoldStep(T, n, <<>>, step)
    BY <1>0, <2>1 DEF FoldStep
  <2>4. PICK g : IsFold(g, T, n, <<>>, step)
    BY <2>3, FoldExists
  <2>5. Follows(g, T, n, <<>>, step)
    BY <2>4 DEF IsFold, Follows
  <2>6. PICK c : Iterates(c, T, n, <<>>, step)
    BY <2>3, <2>5, FoldValues
  <2>7. c \in [0..n -> T] /\ \A k \in 1..n : c[k] = step[<<k, c[k - 1]>>]
    BY <2>6 DEF Iterates
  <2>8. ASSUME NEW k \in 1..n PROVE c[k] = IF k = 1 THEN seqs[k] ELSE c[k - 1] \o seqs[k]
    <3>1. k - 1 \in 0..n
      BY <1>0
    <3>2. c[k - 1] \in T
      BY <2>7, <3>1
    <3>3. c[k] = step[<<k, c[k - 1]>>]
      BY <2>7
    <3>4. step[<<k, c[k - 1]>>] = IF k = 1 THEN seqs[1] ELSE c[k - 1] \o seqs[k]
      BY <2>2, <3>2
    <3> QED BY <3>3, <3>4
  <2> DEFINE d == [k \in 1..n |-> c[k]]
  <2>9. d = Body(d)
    <3>1. \A k \in 1..n : k # 1 => k - 1 \in 1..n
      BY <1>0
    <3> QED BY <2>8, <3>1
  <2> HIDE DEF d
  <2>10. f = Body(f)
    BY <2>9
  <2> HIDE DEF f
  <2> DEFINE Good == {k \in 0..n : k = 0 \/ f[k] \in T}
  <2>11. 0 \in Good
    BY <1>0
  <2>12. ASSUME NEW k \in 0..(n - 1), k \in Good PROVE k + 1 \in Good
    <3>1. k + 1 \in 1..n /\ (k + 1) - 1 = k
      BY <1>0
    <3>2. f[k + 1] = IF k + 1 = 1 THEN seqs[k + 1] ELSE f[k] \o seqs[k + 1]
      BY <2>10, <3>1
    <3>3. seqs[k + 1] \in T
      BY <1>0, <3>1
    <3>4. CASE k = 0
      BY <1>0, <3>1, <3>2, <3>3, <3>4
    <3>5. CASE k # 0
      <4>1. f[k] \in T /\ f[k + 1] = f[k] \o seqs[k + 1]
        <5>1. k + 1 # 1
          BY <1>0, <3>5
        <5> QED BY <2>12, <3>2, <3>5, <5>1
      <4>2. f[k + 1] \in T
        BY <3>3, <4>1 DEF T
      <4> QED BY <1>0, <3>1, <4>2
    <3> QED BY <3>4, <3>5
  <2> HIDE DEF Good
  <2>13. \A k \in 0..n : k \in Good
    BY <1>0, <2>11, <2>12, UpTo
  <2>14. n \in Good
    BY <1>0, <2>13
  <2> QED BY <1>1, <1>3, <2>14 DEF Good, T
<1> QED BY <1>2, <1>3

NameTables == UNION {[D -> Expr] : D \in SUBSET ToSet(FilterNames)}

LEMMA TableEntries ==
  ASSUME NEW names \in NameTables
  PROVE  DOMAIN names \subseteq ToSet(FilterNames) /\ \A x \in DOMAIN names : names[x] \in Expr
BY DEF NameTables

LEMMA ReplaceTyped ==
  ASSUME NEW expr \in Expr, NEW name, NEW value \in Expr
  PROVE  Replace(expr, name, value) \in Expr
<1> DEFINE parts == [i \in DOMAIN expr |->
                       IF expr[i].kind = "ref" /\ IsPrefix(name, expr[i].name)
                       THEN value \o (IF expr[i].name = name THEN <<>> ELSE <<Bad>>)
                       ELSE <<expr[i]>>]
<1>1. Bad \in Tokens
  BY FilesAssumption
<1>2. ASSUME NEW i \in DOMAIN expr PROVE parts[i] \in Seq(Tokens)
  <2>1. <<expr[i]>> \in Seq(Tokens) /\ <<Bad>> \in Seq(Tokens) /\ <<>> \in Seq(Tokens)
    BY <1>1 DEF Expr
  <2>2. value \o <<>> \in Seq(Tokens) /\ value \o <<Bad>> \in Seq(Tokens)
    BY <2>1 DEF Expr
  <2> QED BY <2>1, <2>2
<1>3. parts \in Seq(Seq(Tokens))
  <2>1. DOMAIN expr = 1..Len(expr) /\ Len(expr) \in Nat
    BY DEF Expr
  <2> QED BY <1>2, <2>1
<1>4. Replace(expr, name, value) = FlattenSeq(parts)
  BY DEF Replace
<1> HIDE DEF parts
<1> QED BY <1>3, <1>4, FlattenTyped DEF Expr

LEMMA ExpandTyped ==
  ASSUME NEW names \in NameTables, NEW value \in Expr
  PROVE  ExpandFilterExpr(names, value) \in Expr
<1> DEFINE n == Len(FilterNames)
           Op(e, x) == IF x \in DOMAIN names THEN Replace(e, x, names[x]) ELSE e
           step == [p \in (1..n) \X Expr |-> Op(p[2], FilterNames[p[1]])]
           Body(f) == [S \in SUBSET DOMAIN FilterNames |->
                         IF S = {} THEN value ELSE Op(f[S \ {Max(S)}], FilterNames[Max(S)])]
           f == CHOOSE f : f = Body(f)
<1>0. n \in Nat /\ DOMAIN FilterNames = 1..n
  BY FilterNamesAssumption
<1>1. ExpandFilterExpr(names, value) = f[DOMAIN FilterNames]
  BY DEF ExpandFilterExpr, FoldLeft, MapThenFoldSet
<1>2. \A e \in Expr : \A x : Op(e, x) \in Expr
  BY ReplaceTyped, TableEntries
<1> HIDE DEF Op
<1>3. step \in [(1..n) \X Expr -> Expr]
  BY <1>2
<1>4. \A k \in 1..n, x \in Expr : step[<<k, x>>] = Op(x, FilterNames[k])
  OBVIOUS
<1> HIDE DEF step, n
<1>5. FoldStep(Expr, n, value, step)
  BY <1>0, <1>3 DEF FoldStep
<1>6. ASSUME NEW S \in SUBSET (1..n), S # {} PROVE Max(S) \in 1..n
  BY <1>0, <1>6, MaxIn1n
<1>7. ASSUME NEW g, IsFold(g, Expr, n, value, step) PROVE Follows(f, Expr, n, value, step)
  <2>1. ASSUME NEW S \in SUBSET (1..n), S # {}
        PROVE  g[S] = Op(g[S \ {Max(S)}], FilterNames[Max(S)])
    BY <1>4, <1>6, <1>7, <2>1 DEF IsFold
  <2>2. g = [S \in SUBSET (1..n) |-> g[S]] /\ g[{}] = value
    BY <1>7 DEF IsFold
  <2>3. g = Body(g)
    BY <1>0, <2>1, <2>2
  <2>4. f = Body(f)
    BY <2>3
  <2> HIDE DEF f
  <2>5. f[{}] = value /\ \A S \in SUBSET (1..n) : S # {} => f[S] = Op(f[S \ {Max(S)}], FilterNames[Max(S)])
    BY <1>0, <2>4
  <2> QED BY <1>4, <1>6, <2>5 DEF Follows
<1> HIDE DEF f
<1>8. f[1..n] \in Expr
  BY <1>5, <1>7, FoldIn
<1> QED BY <1>0, <1>1, <1>8

-----------------------------------------------------------------------------
(* Settings of logs and stanzas                                            *)

LEMMA FilterListTyped ==
  ASSUME NEW settings \in Seq(SettingsOf["filters"])
  PROVE  FilterList(settings) \in NameTables
<1> DEFINE n == Len(settings)
           T == NameTables
           step == [p \in (1..n) \X T |-> Insert(p[2], settings[p[1]])]
           Body(f) == [S \in SUBSET DOMAIN settings |->
                         IF S = {} THEN <<>> ELSE Insert(f[S \ {Max(S)}], settings[Max(S)])]
           f == CHOOSE f : f = Body(f)
<1>0. /\ n \in Nat /\ DOMAIN settings = 1..n
      /\ \A k \in 1..n : settings[k].key \in ToSet(FilterNames) /\ settings[k].val \in Expr
  <2>1. SettingsOf["filters"] = [key : ToSet(FilterNames), val : Expr]
    BY DEF SettingsOf
  <2>2. \A k \in 1..n : settings[k] \in [key : ToSet(FilterNames), val : Expr]
    <3>1. \A k \in 1..n : settings[k] \in SettingsOf["filters"]
      OBVIOUS
    <3> QED BY <2>1, <3>1
  <2> QED BY <2>2
<1>1. FilterList(settings) = f[DOMAIN settings]
  BY DEF FilterList, FoldLeft, MapThenFoldSet
<1>2. ASSUME NEW names \in T, NEW k \in 1..n PROVE Insert(names, settings[k]) \in T
  <2> DEFINE D == DOMAIN names \cup {settings[k].key}
             new == Insert(names, settings[k])
  <2>1. D \in SUBSET ToSet(FilterNames)
    BY <1>0, TableEntries
  <2>2. ExpandFilterExpr(names, settings[k].val) \in Expr /\ \A x \in DOMAIN names : names[x] \in Expr
    BY <1>0, ExpandTyped, TableEntries
  <2>3. new \in [D -> Expr]
    BY <2>2 DEF Insert
  <2> HIDE DEF D, new
  <2>4. new \in UNION {[X -> Expr] : X \in SUBSET ToSet(FilterNames)}
    BY <2>1, <2>3
  <2> QED BY <2>4 DEF NameTables, new
<1>b. <<>> \in T
  <2>1. <<>> \in [{} -> Expr] /\ {} \in SUBSET ToSet(FilterNames)
    OBVIOUS
  <2> QED BY <2>1 DEF NameTables
<1> HIDE DEF T
<1>3. step \in [(1..n) \X T -> T]
  BY <1>2
<1>4. \A k \in 1..n, x \in T : step[<<k, x>>] = Insert(x, settings[k])
  OBVIOUS
<1> HIDE DEF step, n
<1>5. FoldStep(T, n, <<>>, step)
  BY <1>0, <1>3, <1>b DEF FoldStep
<1>6. ASSUME NEW S \in SUBSET (1..n), S # {} PROVE Max(S) \in 1..n
  BY <1>0, <1>6, MaxIn1n
<1>7. ASSUME NEW g, IsFold(g, T, n, <<>>, step) PROVE Follows(f, T, n, <<>>, step)
  <2>1. ASSUME NEW S \in SUBSET (1..n), S # {} PROVE g[S] = Insert(g[S \ {Max(S)}], settings[Max(S)])
    BY <1>4, <1>6, <1>7, <2>1 DEF IsFold
  <2>2. g = [S \in SUBSET (1..n) |-> g[S]] /\ g[{}] = <<>>
    BY <1>7 DEF IsFold
  <2>3. g = Body(g)
    BY <1>0, <2>1, <2>2
  <2>4. f = Body(f)
    BY <2>3
  <2> HIDE DEF f
  <2>5. f[{}] = <<>> /\ \A S \in SUBSET (1..n) : S # {} => f[S] = Insert(f[S \ {Max(S)}], settings[Max(S)])
    BY <1>0, <2>4
  <2> QED BY <1>4, <1>6, <2>5 DEF Follows
<1> HIDE DEF f
<1>8. f[1..n] \in T
  BY <1>5, <1>7, FoldIn
<1> QED BY <1>0, <1>1, <1>8 DEF T

\* The values of settings, and logs.  (The provers do not know which literals are
\* strings.)
Text   == STRING \cup {"1h", "1d", "/", "mclog", "%H", "%I"}
Values == Text \cup Int \cup BOOLEAN \cup Expr \cup Seq(Text) \cup {LogInit[k] : k \in DOMAIN LogInit}
Logs   == {l \in [DOMAIN LogInit -> Values] : l.filter \in Expr /\ l.path \in Seq(Text)}

LEMMA TextPaths ==
  ASSUME NEW p \in Seq(STRING)
  PROVE  p \in Seq(Text)
<1>1. \A i \in 1..Len(p) : p[i] \in Text
  BY DEF Text
<1> QED BY <1>1

LEMMA LogInitTyped == LogInit \in Logs
<1>1. LogInit.filter \in Expr /\ LogInit.path \in Seq(Text)
  <2>1. LogInit.filter = <<>> /\ LogInit.path = <<"%H", "%I">>
    BY DEF LogInit
  <2>2. "%H" \in Text /\ "%I" \in Text
    BY DEF Text
  <2>3. <<>> \in Seq(Tokens) /\ <<"%H", "%I">> \in Seq(Text)
    BY <2>2
  <2> QED BY <2>1, <2>3 DEF Expr
<1>2. LogInit \in [DOMAIN LogInit -> Values]
  <2>2. \A k \in DOMAIN LogInit : LogInit[k] \in Values
    BY DEF Values
  <2>3. LogInit = [k \in DOMAIN LogInit |-> LogInit[k]]
    BY DEF LogInit
  <2> QED BY <2>2, <2>3
<1> QED BY <1>1, <1>2 DEF Logs

LEMMA LogValueTyped ==
  ASSUME NEW names \in NameTables, NEW s \in LogSetting
  PROVE  /\ LogValue(names, s) \in Values
         /\ s.key = "filter" => LogValue(names, s) \in Expr
         /\ s.key = "path" => LogValue(names, s) \in Seq(Text)
<1>1. CASE s \in [key : {"filter"}, val : Expr]
  <2>1. LogValue(names, s) = ExpandFilterExpr(names, s.val)
    BY <1>1 DEF LogValue
  <2> QED BY <1>1, <2>1, ExpandTyped DEF Values
<1>2. CASE s \in [key : {"path"}, val : Seq(STRING)]
  <2>1. LogValue(names, s) = s.val /\ s.key = "path" /\ s.val \in Seq(Text)
    BY <1>2, TextPaths DEF LogValue
  <2> QED BY <2>1 DEF Values
<1>3. CASE s \in [key : {"perms", "keep"}, val : Int]
  <2>1. LogValue(names, s) \in Int /\ s.key \notin {"filter", "path"}
    BY <1>3 DEF LogValue
  <2> QED BY <2>1 DEF Values
<1>4. CASE s \in [key : {"size"}, val : [digits : Nat, unit : STRING]]
  <2>1. LogValue(names, s) = LogSize(s.val) /\ s.key \notin {"filter", "path"} /\ s.val.digits \in Nat
    BY <1>4 DEF LogValue
  <2>2. LogSize(s.val) \in Int
    BY <2>1 DEF LogSize
  <2> QED BY <2>1, <2>2 DEF Values
<1>5. CASE s \in [key : {"period", "user", "group", "compress", "format"}, val : STRING]
  <2>1. GetRollPeriod(s.val) \in Text /\ s.val \in Text
    <3>1. s.val \in Text /\ "1h" \in Text /\ "1d" \in Text
      BY <1>5 DEF Text
    <3>2. GetRollPeriod(s.val) \in {"1h", s.val, "1d"}
      BY DEF GetRollPeriod
    <3> QED BY <3>1, <3>2
  <2>2. LogValue(names, s) \in Text /\ s.key \notin {"filter", "path"}
    BY <1>5, <2>1 DEF LogValue
  <2> QED BY <2>2 DEF Values
<1> QED BY <1>1, <1>2, <1>3, <1>4, <1>5 DEF LogSetting

LEMMA LogTyped ==
  ASSUME NEW names \in NameTables, NEW settings \in Seq(LogSetting)
  PROVE  Log(names, settings) \in Logs
<1> DEFINE n == Len(settings)
           Op(l, s) == [l EXCEPT ![s.key] = LogValue(names, s)]
           step == [p \in (1..n) \X Logs |-> Op(p[2], settings[p[1]])]
           Body(f) == [S \in SUBSET DOMAIN settings |->
                         IF S = {} THEN LogInit ELSE Op(f[S \ {Max(S)}], settings[Max(S)])]
           f == CHOOSE f : f = Body(f)
<1>0. n \in Nat /\ DOMAIN settings = 1..n /\ \A k \in 1..n : settings[k] \in LogSetting
  OBVIOUS
<1>1. Log(names, settings) = f[DOMAIN settings]
  BY DEF Log, FoldLeft, MapThenFoldSet
<1>2. ASSUME NEW l \in Logs, NEW s \in LogSetting PROVE Op(l, s) \in Logs
  <2> DEFINE v == LogValue(names, s)
  <2>1. v \in Values /\ (s.key = "filter" => v \in Expr) /\ (s.key = "path" => v \in Seq(Text))
    BY LogValueTyped
  <2>2. Op(l, s) = [l EXCEPT ![s.key] = v]
    OBVIOUS
  <2> HIDE DEF v, Op
  <2>3. {"filter", "path"} \subseteq DOMAIN LogInit
    BY DEF LogInit
  <2>4. l \in [DOMAIN LogInit -> Values] /\ l.filter \in Expr /\ l.path \in Seq(Text)
    BY DEF Logs
  <2>5. [l EXCEPT ![s.key] = v] \in [DOMAIN LogInit -> Values]
    BY <2>1, <2>4
  <2>6. [l EXCEPT ![s.key] = v].filter = IF s.key = "filter" THEN v ELSE l.filter
    BY <2>3, <2>4
  <2>7. [l EXCEPT ![s.key] = v].path = IF s.key = "path" THEN v ELSE l.path
    BY <2>3, <2>4
  <2> QED BY <2>1, <2>2, <2>4, <2>5, <2>6, <2>7 DEF Logs
<1> HIDE DEF Op
<1>3. step \in [(1..n) \X Logs -> Logs]
  BY <1>0, <1>2
<1>4. \A k \in 1..n, x \in Logs : step[<<k, x>>] = Op(x, settings[k])
  OBVIOUS
<1> HIDE DEF step, n
<1>5. FoldStep(Logs, n, LogInit, step)
  BY <1>0, <1>3, LogInitTyped DEF FoldStep
<1>6. ASSUME NEW S \in SUBSET (1..n), S # {} PROVE Max(S) \in 1..n
  BY <1>0, <1>6, MaxIn1n
<1>7. ASSUME NEW g, IsFold(g, Logs, n, LogInit, step) PROVE Follows(f, Logs, n, LogInit, step)
  <2>1. ASSUME NEW S \in SUBSET (1..n), S # {} PROVE g[S] = Op(g[S \ {Max(S)}], settings[Max(S)])
    BY <1>4, <1>6, <1>7, <2>1 DEF IsFold
  <2>2. g = [S \in SUBSET (1..n) |-> g[S]] /\ g[{}] = LogInit
    BY <1>7 DEF IsFold
  <2>3. g = Body(g)
    BY <1>0, <2>1, <2>2
  <2>4. f = Body(f)
    BY <2>3
  <2> HIDE DEF f
  <2>5. f[{}] = LogInit /\ \A S \in SUBSET (1..n) : S # {} => f[S] = Op(f[S \ {Max(S)}], settings[Max(S)])
    BY <1>0, <2>4
  <2> QED BY <1>4, <1>6, <2>5 DEF Follows
<1> HIDE DEF f
<1>8. f[1..n] \in Logs
  BY <1>5, <1>7, FoldIn
<1> QED BY <1>0, <1>1, <1>8

\* The sections of a configuration.
SectionValues ==
  Values \cup Seq(Logs) \cup UNION {{SectInit[s][k] : k \in DOMAIN SectInit[s]} : s \in DOMAIN SectInit}
FilesSections ==
  {f \in [DOMAIN FilesInit -> SectionValues] : f.logDirectory \in Seq(Text) /\ f.logs \in Seq(Logs)}
Sections(s) ==
  IF s = "files" THEN FilesSections ELSE {SectInit[s]} \cup [DOMAIN SectInit[s] -> SectionValues]
Configs ==
  [loopback : Sections("loopback"), mcast : Sections("mcast"), service : Sections("service"),
   files : FilesSections, filters : NameTables]

SectNames == {"loopback", "mcast", "service", "files"}

LEMMA SectInitTyped == \A s \in SectNames : SectInit[s] \in Sections(s)
<1>1. FilesInit = [k \in DOMAIN FilesInit |-> FilesInit[k]] /\ SectInit["files"] = FilesInit /\ "files" \in DOMAIN SectInit
  BY DEF FilesInit, SectInit
<1>2. FilesInit.logDirectory = <<"/", "mclog">> /\ FilesInit.logs = <<>>
  BY DEF FilesInit
<1>3. "/" \in Text /\ "mclog" \in Text
  BY DEF Text
<1>4. <<"/", "mclog">> \in Seq(Text) /\ <<>> \in Seq(Logs)
  BY <1>3
<1>5. \A k \in DOMAIN FilesInit : FilesInit[k] \in SectionValues
  BY <1>1 DEF SectionValues
<1>6. SectInit["files"] \in FilesSections
  BY <1>1, <1>2, <1>4, <1>5 DEF FilesSections
<1> QED BY <1>6 DEF Sections

LEMMA StanzaValueTyped ==
  ASSUME NEW names \in NameTables, NEW sect \in SectNames, NEW s \in SettingsOf[sect]
  PROVE  /\ StanzaValue(names, s) \in SectionValues
         /\ sect = "files" => /\ s.key \in {"logDirectory", "logs"}
                              /\ s.key = "logDirectory" => StanzaValue(names, s) \in Seq(Text)
                              /\ s.key = "logs" => StanzaValue(names, s) \in Seq(Logs)
<1>1. \A x \in STRING \cup Int \cup BOOLEAN \cup Expr \cup Seq(Text) \cup Seq(Logs) : x \in SectionValues
  BY DEF SectionValues, Values, Text
<1>2. CASE s.key \in {"listenV4", "listenV6"} /\ sect = "loopback"
  <2>1. StanzaValue(names, s) \in BOOLEAN
    BY <1>2 DEF StanzaValue
  <2> QED BY <1>1, <1>2, <2>1
<1>3. CASE s \in [key : {"outFilter"}, val : Expr] /\ sect = "mcast"
  <2>1. StanzaValue(names, s) = ExpandFilterExpr(names, s.val)
    BY <1>3 DEF StanzaValue
  <2>2. StanzaValue(names, s) \in Expr
    BY <1>3, <2>1, ExpandTyped
  <2> QED BY <1>1, <1>3, <2>2
<1>4. CASE s \in [key : {"logs"}, val : Seq(Seq(LogSetting))] /\ sect = "files"
  <2>1. StanzaValue(names, s) = [i \in DOMAIN s.val |-> Log(names, s.val[i])]
    BY <1>4 DEF StanzaValue
  <2>2. \A i \in DOMAIN s.val : Log(names, s.val[i]) \in Logs
    BY <1>4, LogTyped
  <2>3. DOMAIN s.val = 1..Len(s.val) /\ Len(s.val) \in Nat
    BY <1>4
  <2>4. StanzaValue(names, s) \in Seq(Logs)
    BY <2>1, <2>2, <2>3
  <2>5. s.key = "logs"
    BY <1>4
  <2> QED BY <1>1, <1>4, <2>4, <2>5
<1>5. CASE s \in [key : {"logDirectory"}, val : Seq(STRING)] /\ sect = "files"
  <2>1. StanzaValue(names, s) = s.val /\ s.key = "logDirectory" /\ s.val \in Seq(Text)
    BY <1>5, TextPaths DEF StanzaValue
  <2> QED BY <1>1, <2>1
<1>6. CASE /\ sect # "files" /\ s.key \notin {"listenV4", "listenV6", "outFilter", "logs"}
           /\ s.val \in STRING \cup Int
  <2>1. StanzaValue(names, s) = s.val
    BY <1>6 DEF StanzaValue
  <2> QED BY <1>1, <1>6, <2>1
<1>7. CASE sect = "loopback"
  <2>1. s \in [key : {"listenV4", "listenV6"}, val : STRING] \cup [key : {"port"}, val : Int]
    BY <1>7 DEF SettingsOf
  <2> QED BY <1>2, <1>6, <1>7, <2>1
<1>8. CASE sect = "mcast"
  <2>1. s \in [key : {"groupAddr", "groupAddr6", "intfAddr", "intfAddr6", "intfName"}, val : STRING]
              \cup [key : {"port"}, val : Int] \cup [key : {"outFilter"}, val : Expr]
    BY <1>8 DEF SettingsOf
  <2> QED BY <1>3, <1>6, <1>8, <2>1
<1>9. CASE sect = "service"
  <2>1. s \in [key : {"keyDirectory"}, val : STRING]
    BY <1>9 DEF SettingsOf
  <2> QED BY <1>6, <1>9, <2>1
<1>10. CASE sect = "files"
  <2>1. SomeOf(SomeOf(LogSetting)) \subseteq Seq(Seq(LogSetting))
    <3>1. SomeOf(LogSetting) \subseteq Seq(LogSetting)
      BY DEF SomeOf
    <3>2. \A x \in Seq(SomeOf(LogSetting)) : x \in Seq(Seq(LogSetting))
      BY <3>1
    <3> QED BY <3>2 DEF SomeOf
  <2>2. s \in [key : {"logDirectory"}, val : Seq(STRING)] \cup [key : {"logs"}, val : SomeOf(SomeOf(LogSetting))]
    BY <1>10 DEF SettingsOf
  <2>3. s \in [key : {"logDirectory"}, val : Seq(STRING)] \cup [key : {"logs"}, val : Seq(Seq(LogSetting))]
    BY <2>1, <2>2
  <2> QED BY <1>4, <1>5, <1>10, <2>3
<1> QED BY <1>7, <1>8, <1>9, <1>10 DEF SectNames

LEMMA SectionTyped ==
  ASSUME NEW names \in NameTables, NEW st, st.sect \in SectNames, st.settings \in Seq(SettingsOf[st.sect])
  PROVE  Section(names, st) \in Sections(st.sect)
<1> DEFINE settings == st.settings
           base == SectInit[st.sect]
           n == Len(settings)
           T == Sections(st.sect)
           Op(x, s) == [x EXCEPT ![s.key] = StanzaValue(names, s)]
           step == [p \in (1..n) \X T |-> Op(p[2], settings[p[1]])]
           Body(f) == [S \in SUBSET DOMAIN settings |->
                         IF S = {} THEN base ELSE Op(f[S \ {Max(S)}], settings[Max(S)])]
           f == CHOOSE f : f = Body(f)
<1>0. n \in Nat /\ DOMAIN settings = 1..n /\ (\A k \in 1..n : settings[k] \in SettingsOf[st.sect]) /\ base \in T
  BY SectInitTyped
<1>1. Section(names, st) = f[DOMAIN settings]
  BY DEF Section, FoldLeft, MapThenFoldSet
<1>2. ASSUME NEW x \in T, NEW s \in SettingsOf[st.sect] PROVE Op(x, s) \in T
  <2> DEFINE v == StanzaValue(names, s)
             y == [x EXCEPT ![s.key] = v]
  <2>1. /\ v \in SectionValues
        /\ st.sect = "files" => /\ s.key \in {"logDirectory", "logs"}
                                /\ s.key = "logDirectory" => v \in Seq(Text)
                                /\ s.key = "logs" => v \in Seq(Logs)
    BY StanzaValueTyped
  <2>2. Op(x, s) = y
    OBVIOUS
  <2> HIDE DEF v, Op
  <2>3. CASE st.sect # "files"
    <3>1. DOMAIN x = DOMAIN SectInit[st.sect] /\ \A k \in DOMAIN x : x[k] \in SectionValues
      <4>1. st.sect \in DOMAIN SectInit
        BY DEF SectNames, SectInit
      <4>2. \A k \in DOMAIN SectInit[st.sect] : SectInit[st.sect][k] \in SectionValues
        BY <4>1 DEF SectionValues
      <4> QED BY <2>3, <4>2 DEF Sections
    <3>2. y \in [DOMAIN SectInit[st.sect] -> SectionValues]
      BY <2>1, <3>1
    <3> QED BY <2>2, <2>3, <3>2 DEF Sections
  <2>4. CASE st.sect = "files"
    <3>0. DOMAIN FilesInit = {"logDirectory", "logs"}
      BY DEF FilesInit
    <3>1. x \in [DOMAIN FilesInit -> SectionValues] /\ x.logDirectory \in Seq(Text) /\ x.logs \in Seq(Logs)
      BY <2>4 DEF Sections, FilesSections
    <3>2. y \in [DOMAIN FilesInit -> SectionValues]
      BY <2>1, <3>1
    <3>3. y.logDirectory = (IF s.key = "logDirectory" THEN v ELSE x.logDirectory)
      BY <3>0, <3>1
    <3>4. y.logs = (IF s.key = "logs" THEN v ELSE x.logs)
      BY <3>0, <3>1
    <3> HIDE DEF y
    <3>5. y \in FilesSections
      BY <2>1, <2>4, <3>1, <3>2, <3>3, <3>4 DEF FilesSections
    <3> QED BY <2>2, <2>4, <3>5 DEF Sections
  <2> QED BY <2>3, <2>4
<1> HIDE DEF Op, T
<1>3. step \in [(1..n) \X T -> T]
  BY <1>0, <1>2
<1>4. \A k \in 1..n, x \in T : step[<<k, x>>] = Op(x, settings[k])
  OBVIOUS
<1> HIDE DEF step, n, base
<1>5. FoldStep(T, n, base, step)
  BY <1>0, <1>3 DEF FoldStep
<1>6. ASSUME NEW S \in SUBSET (1..n), S # {} PROVE Max(S) \in 1..n
  BY <1>0, <1>6, MaxIn1n
<1>7. ASSUME NEW g, IsFold(g, T, n, base, step) PROVE Follows(f, T, n, base, step)
  <2>1. ASSUME NEW S \in SUBSET (1..n), S # {} PROVE g[S] = Op(g[S \ {Max(S)}], settings[Max(S)])
    BY <1>4, <1>6, <1>7, <2>1 DEF IsFold
  <2>2. g = [S \in SUBSET (1..n) |-> g[S]] /\ g[{}] = base
    BY <1>7 DEF IsFold
  <2>3. g = Body(g)
    BY <1>0, <2>1, <2>2
  <2>4. f = Body(f)
    BY <2>3
  <2> HIDE DEF f
  <2>5. f[{}] = base /\ \A S \in SUBSET (1..n) : S # {} => f[S] = Op(f[S \ {Max(S)}], settings[Max(S)])
    BY <1>0, <2>4
  <2> QED BY <1>4, <1>6, <2>5 DEF Follows
<1> HIDE DEF f
<1>8. f[1..n] \in T
  BY <1>5, <1>7, FoldIn
<1> QED BY <1>0, <1>1, <1>8 DEF T

-----------------------------------------------------------------------------
(* Config::Parse                                                           *)

\* What the parser can be given: a stanza, or a place where it fails.
Remnants == [kind : {"broken"}, left : Int]
Items    == Item \cup Remnants

StanzaItems == StanzaOf("loopback") \cup StanzaOf("mcast") \cup StanzaOf("service") \cup StanzaOf("files")
               \cup StanzaOf("filters")

LEMMA StanzaSettings ==
  ASSUME NEW st \in StanzaItems
  PROVE  /\ st.kind = "stanza" /\ st.sect \in SectNames \cup {"filters"}
         /\ st.settings \in Seq(SettingsOf[st.sect])
BY DEF StanzaItems, StanzaOf, SomeOf, SectNames

LEMMA ItemKinds ==
  ASSUME NEW item \in Items
  PROVE  /\ item.kind = "stanza" => item \in StanzaItems
         /\ item.kind = "broken" => item.left \in Int
<1>1. ServiceStanza \subseteq StanzaItems
  BY DEF ServiceStanza, StanzaItems
<1> QED BY <1>1 DEF Items, Item, Remnants, StanzaItems, StanzaOf, Overflow

LEMMA ReduceTyped ==
  ASSUME NEW cfg \in Configs, NEW st \in StanzaItems
  PROVE  Reduce(cfg, st) \in Configs
<1>0. cfg.filters \in NameTables
  BY DEF Configs
<1>1. st.sect \in SectNames \cup {"filters"} /\ st.settings \in Seq(SettingsOf[st.sect])
  BY StanzaSettings
<1>2. CASE st.sect = "filters"
  <2>1. FilterList(st.settings) \in NameTables
    BY <1>1, <1>2, FilterListTyped
  <2> QED BY <1>2, <2>1 DEF Configs, Reduce
<1>3. CASE st.sect \in SectNames
  <2>1. Section(cfg.filters, st) \in Sections(st.sect)
    BY <1>0, <1>1, <1>3, SectionTyped
  <2> DEFINE v == Section(cfg.filters, st)
  <2>2. Reduce(cfg, st) = [cfg EXCEPT ![st.sect] = v] /\ v \in Sections(st.sect)
    BY <1>3, <2>1 DEF Reduce, SectNames
  <2> HIDE DEF v
  <2>3. Sections("files") = FilesSections
    BY DEF Sections
  <2>4. [cfg EXCEPT ![st.sect] = v] \in Configs
    BY <1>3, <2>2, <2>3 DEF Configs, SectNames
  <2> QED BY <2>2, <2>4
<1> QED BY <1>1, <1>2, <1>3

LEMMA ReducedConfig ==
  ASSUME NEW base \in Configs, NEW items \in Seq(StanzaItems)
  PROVE  FoldLeft(Reduce, base, items) \in Configs
<1> DEFINE n == Len(items)
           T == Configs
           step == [p \in (1..n) \X T |-> Reduce(p[2], items[p[1]])]
           Body(f) == [S \in SUBSET DOMAIN items |->
                         IF S = {} THEN base ELSE Reduce(f[S \ {Max(S)}], items[Max(S)])]
           f == CHOOSE f : f = Body(f)
<1>0. n \in Nat /\ DOMAIN items = 1..n /\ (\A k \in 1..n : items[k] \in StanzaItems)
  OBVIOUS
<1>1. FoldLeft(Reduce, base, items) = f[DOMAIN items]
  BY DEF FoldLeft, MapThenFoldSet
<1>2. \A x \in T : \A k \in 1..n : Reduce(x, items[k]) \in T
  BY <1>0, ReduceTyped
<1>b. base \in T
  OBVIOUS
<1> HIDE DEF T
<1>3. step \in [(1..n) \X T -> T]
  BY <1>2
<1>4. \A k \in 1..n, x \in T : step[<<k, x>>] = Reduce(x, items[k])
  OBVIOUS
<1> HIDE DEF step, n
<1>5. FoldStep(T, n, base, step)
  BY <1>0, <1>3, <1>b DEF FoldStep
<1>6. ASSUME NEW S \in SUBSET (1..n), S # {} PROVE Max(S) \in 1..n
  BY <1>0, <1>6, MaxIn1n
<1>7. ASSUME NEW g, IsFold(g, T, n, base, step) PROVE Follows(f, T, n, base, step)
  <2>1. ASSUME NEW S \in SUBSET (1..n), S # {} PROVE g[S] = Reduce(g[S \ {Max(S)}], items[Max(S)])
    BY <1>4, <1>6, <1>7, <2>1 DEF IsFold
  <2>2. g = [S \in SUBSET (1..n) |-> g[S]] /\ g[{}] = base
    BY <1>7 DEF IsFold
  <2>3. g = Body(g)
    BY <1>0, <2>1, <2>2
  <2>4. f = Body(f)
    BY <2>3
  <2> HIDE DEF f
  <2>5. f[{}] = base /\ \A S \in SUBSET (1..n) : S # {} => f[S] = Reduce(f[S \ {Max(S)}], items[Max(S)])
    BY <1>0, <2>4
  <2> QED BY <1>4, <1>6, <2>5 DEF Follows
<1> HIDE DEF f
<1>8. f[1..n] \in T
  BY <1>5, <1>7, FoldIn
<1> QED BY <1>0, <1>1, <1>8 DEF T

LEMMA InitConfigTyped ==
  ASSUME NEW names \in NameTables
  PROVE  [loopback |-> LoopbackInit, mcast |-> McastInit, service |-> ServiceInit,
          files |-> FilesInit, filters |-> names] \in Configs
<1>1. /\ SectInit["loopback"] = LoopbackInit /\ SectInit["mcast"] = McastInit
      /\ SectInit["service"] = ServiceInit /\ SectInit["files"] = FilesInit
  BY DEF SectInit
<1>2. /\ LoopbackInit \in Sections("loopback") /\ McastInit \in Sections("mcast")
      /\ ServiceInit \in Sections("service") /\ FilesInit \in Sections("files")
  <2>1. "loopback" \in SectNames /\ "mcast" \in SectNames /\ "service" \in SectNames /\ "files" \in SectNames
    BY DEF SectNames
  <2> QED BY <1>1, <2>1, SectInitTyped
<1>3. Sections("files") = FilesSections
  BY DEF Sections
<1> QED BY <1>2, <1>3 DEF Configs

\* The least of some places in a sequence.
LEMMA MinIn1n ==
  ASSUME NEW n \in Nat, NEW S, S \subseteq 1..n, S # {}
  PROVE  Min(S) \in S /\ \A y \in S : Min(S) <= y
<1>1. S \subseteq Nat
  OBVIOUS
<1>2. \E x \in S : \A y \in S : x <= y
  BY <1>1, Least
<1> QED BY <1>2 DEF Min

LEMMA RemnantTyped ==
  ASSUME NEW item \in Items, ~Parses(item)
  PROVE  Remnant(item) \in Seq(Items)
<1>1. \A k \in Int : <<Broken(k)>> \in Seq(Items)
  BY DEF Broken, Items, Remnants
<1>2. CASE item.kind = "stanza"
  <2> DEFINE n == Len(item.settings)
             i == Min(RejectedIn(item))
  <2>1. item \in StanzaItems /\ item.settings \in Seq(SettingsOf[item.sect])
    BY <1>2, ItemKinds, StanzaSettings
  <2>2. n \in Nat /\ DOMAIN item.settings = 1..n
    BY <2>1
  <2>3. RejectedIn(item) \subseteq 1..n /\ RejectedIn(item) # {}
    BY <1>2, <2>2 DEF RejectedIn, Parses
  <2> HIDE DEF n
  <2>4. i \in 1..n
    BY <2>2, <2>3, MinIn1n
  <2> HIDE DEF i
  <2>5. TokensLeft(item) - 1 \in Int
    BY <2>2, <2>4 DEF TokensLeft, n, i
  <2> QED BY <1>1, <1>2, <2>5 DEF Remnant
<1>3. CASE item.kind # "stanza"
  <2>1. item.kind = "broken" => item.left - 1 \in Int
    BY ItemKinds
  <2>2. <<>> \in Seq(Items)
    OBVIOUS
  <2>4. CASE item.kind = "broken" /\ item.left > 0
    BY <1>1, <2>1, <2>4 DEF Remnant
  <2>5. CASE ~(item.kind = "broken" /\ item.left > 0)
    BY <1>3, <2>2, <2>5 DEF Remnant
  <2> QED BY <2>4, <2>5
<1> QED BY <1>2, <1>3

LEMMA ParseTyped ==
  ASSUME config \in Configs, scanner \in Seq(Items), NEW f, f = NoFile \/ f \in Seq(Item), Parse(f)
  PROVE  config' \in Configs /\ scanner' \in Seq(Items)
<1>0. InitConfig(config) \in Configs
  BY InitConfigTyped DEF InitConfig, Configs
<1>1. CASE f = NoFile
  BY <1>0, <1>1 DEF Parse
<1>2. CASE f # NoFile
  <2> DEFINE input == Input(f)
             n == Accepted(f)
             read == IF n < Len(scanner) THEN scanner ELSE input
             failing == SubSeq(read, n + 1, Len(read))
             bad == {i \in DOMAIN input : ~Parses(input[i])}
  <2>1. input \in Seq(Items) /\ Len(input) \in Nat /\ DOMAIN input = 1..Len(input)
    <3>1. f \in Seq(Items)
      <4>1. f \in Seq(Item) /\ Item \subseteq Items
        BY <1>2 DEF Items
      <4>2. Len(f) \in Nat /\ DOMAIN f = 1..Len(f) /\ \A k \in 1..Len(f) : f[k] \in Items
        BY <4>1
      <4>3. f = [k \in 1..Len(f) |-> f[k]]
        BY <4>1
      <4> QED BY <4>2, <4>3
    <3> QED BY <3>1 DEF Input
  <2>2. /\ config' = FoldLeft(Reduce, InitConfig(config), SubSeq(input, 1, n))
        /\ scanner' = IF failing = <<>> THEN Clean ELSE Remnant(Head(failing)) \o Tail(failing)
    BY <1>2 DEF Parse
  <2>3. n = IF bad = {} THEN Len(input) ELSE Min(bad) - 1
    BY DEF Accepted
  <2> HIDE DEF input, n
  <2>4. /\ n \in 0..Len(input) /\ \A i \in 1..n : Parses(input[i])
        /\ n < Len(input) => ~Parses(input[n + 1])
    <3>1. CASE bad = {}
      BY <2>1, <2>3, <3>1
    <3>2. CASE bad # {}
      <4>1. bad \subseteq 1..Len(input)
        BY <2>1
      <4>2. Min(bad) \in bad /\ \A y \in bad : Min(bad) <= y
        BY <2>1, <3>2, <4>1, MinIn1n
      <4> DEFINE k == Min(bad)
      <4>3. k \in bad /\ (\A y \in bad : k <= y) /\ n = k - 1 /\ k \in 1..Len(input)
        BY <2>3, <3>2, <4>1, <4>2
      <4> HIDE DEF k
      <4>4. n \in 0..Len(input) /\ n + 1 = k
        BY <2>1, <4>3
      <4>5. ASSUME NEW i \in 1..n PROVE Parses(input[i])
        <5>1. ~(k <= i) /\ i \in 1..Len(input)
          BY <2>1, <4>3, <4>4
        <5>2. i \notin bad
          BY <4>3, <5>1
        <5> QED BY <2>1, <5>1, <5>2
      <4> QED BY <4>3, <4>4, <4>5
    <3> QED BY <3>1, <3>2
  <2>5. SubSeq(input, 1, n) \in Seq(StanzaItems)
    <3>1. \A i \in 1..n : input[i] \in StanzaItems
      <4> SUFFICES ASSUME NEW i \in 1..n PROVE input[i] \in StanzaItems
        OBVIOUS
      <4>1. input[i] \in Items /\ Parses(input[i])
        BY <2>1, <2>4
      <4> QED BY <4>1, ItemKinds DEF Parses
    <3>2. n \in Nat /\ n <= Len(input)
      BY <2>1, <2>4
    <3>3. SubSeq(input, 1, n) = [i \in 1..n |-> input[i]]
      BY <2>1, <3>2
    <3> QED BY <3>1, <3>2, <3>3
  <2>6. config' \in Configs
    BY <1>0, <2>2, <2>5, ReducedConfig
  <2>7. scanner' \in Seq(Items)
    <3>1. CASE failing = <<>>
      BY <2>2, <3>1 DEF Clean
    <3>2. CASE failing # <<>>
      <4>1. read \in Seq(Items) /\ n \in Nat
        BY <2>1, <2>4
      <4>2. \A k \in 1..Len(scanner) : input[k] = scanner[k]
        BY <1>2 DEF Input, input
      <4> HIDE DEF read
      <4>3. failing \in Seq(Items) /\ n < Len(read)
        BY <3>2, <4>1
      <4>4. Head(failing) = read[n + 1]
        BY <4>1, <4>3
      <4>5. read[n + 1] = input[n + 1] /\ n < Len(input)
        <5>1. CASE n < Len(scanner)
          <6>1. n + 1 \in 1..Len(scanner) /\ read = scanner
            BY <4>1, <5>1 DEF read
          <6>2. Len(scanner) <= Len(input)
            BY <1>2 DEF Input, input
          <6> QED BY <2>1, <4>1, <4>2, <5>1, <6>1, <6>2
        <5>2. CASE ~(n < Len(scanner))
          BY <4>3, <5>2 DEF read
        <5> QED BY <5>1, <5>2
      <4>6. Remnant(Head(failing)) \in Seq(Items)
        <5>1. read[n + 1] \in Items
          BY <4>1, <4>3
        <5> QED BY <2>4, <4>4, <4>5, <5>1, RemnantTyped
      <4>7. Tail(failing) \in Seq(Items)
        BY <3>2, <4>3
      <4> QED BY <2>2, <3>2, <4>6, <4>7
    <3> QED BY <3>1, <3>2
  <2> QED BY <2>6, <2>7
<1> QED BY <1>1, <1>2

-----------------------------------------------------------------------------
(* Messages go where the configuration says                                *)

\* What is known of the settings: the files are those of the model, what was parsed is
\* a configuration, and a configuration in force is in LogFiles.
Configured ==
  /\ file \in DOMAIN Files
  /\ config \in Configs
  /\ scanner \in Seq(Items)
  /\ inForce \in FilesSections
  /\ running => filesConfig = inForce /\ filtered = Valid(inForce.logs)

\* A path in the cache is the one of every message and log with its key.
CacheRight ==
  \A k \in DOMAIN logPathCache : \A m, log :
    LogPathCacheKey(m, log.path) = k => logPathCache[k] = NewPath(m, log)

LEMMA SamePath ==
  ASSUME NEW m, NEW log, NEW m2, NEW log2, LogPathCacheKey(m, log.path) = LogPathCacheKey(m2, log2.path)
  PROVE  NewPath(m, log) = NewPath(m2, log2)
<1>1. m.facility = m2.facility /\ m.host = m2.host /\ m.ident = m2.ident /\ log.path = log2.path
  BY DEF LogPathCacheKey
<1>2. Substituted(log.path, m) = Substituted(log2.path, m2)
  BY <1>1 DEF Substituted
<1> QED BY <1>1, <1>2 DEF NewPath

LEMMA CachedPaths ==
  ASSUME CacheRight, NEW m, NEW log
  PROVE  LogPath(m, log) = NewPath(m, log)
BY DEF CacheRight, LogPath

\* A path is made of the log directory in force, so the cache stays right with it.
LEMMA CacheStays ==
  ASSUME CacheRight, UNCHANGED <<filesConfig, logPathCache>>
  PROVE  CacheRight'
<1>1. ASSUME NEW m, NEW log PROVE NewPath(m, log)' = NewPath(m, log)
  <2>1. filesConfig'.logDirectory = filesConfig.logDirectory
    OBVIOUS
  <2> QED BY <2>1, Zenon DEF NewPath
<1>2. logPathCache' = logPathCache
  OBVIOUS
<1> SUFFICES ASSUME NEW k \in DOMAIN logPathCache, NEW m, NEW log, LogPathCacheKey(m, log.path) = k
             PROVE  logPathCache[k] = NewPath(m, log)'
  BY <1>2, Zenon DEF CacheRight
<1>3. logPathCache[k] = NewPath(m, log)
  BY Zenon DEF CacheRight
<1> QED BY <1>1, <1>3, Zenon

\* The log files are given what is in force.
LEMMA Started ==
  ASSUME NEW cfg \in FilesSections, FileLoggerStart(cfg), CacheRight
  PROVE  /\ inForce' \in FilesSections
         /\ running' => filesConfig' = inForce' /\ filtered' = Valid(inForce'.logs)
         /\ CacheRight'
<1>1. inForce' = cfg /\ running' = (cfg.logs # <<>>)
  BY DEF FileLoggerStart
<1>2. CASE cfg.logs # <<>>
  <2>1. Configure(cfg)
    BY <1>2 DEF FileLoggerStart
  <2>2. filesConfig' = cfg /\ filtered' = Valid(cfg.logs) /\ logPathCache' = <<>>
    BY <2>1 DEF Configure, NoFiles
  <2>3. DOMAIN logPathCache' = {}
    BY <2>2
  <2> QED BY <1>1, <2>2, <2>3 DEF CacheRight
<1>3. CASE cfg.logs = <<>>
  <2>1. UNCHANGED <<filesConfig, filtered, logPathCache>>
    BY <1>3 DEF FileLoggerStart, Close
  <2>2. CacheRight'
    BY <2>1, CacheStays
  <2> QED BY <1>1, <1>3, <2>2
<1> QED BY <1>2, <1>3

LEMMA ConfiguredAtFirst == Init => Configured /\ CacheRight
<1> SUFFICES ASSUME Init PROVE Configured /\ CacheRight
  OBVIOUS
<1>1. <<>> \in NameTables
  <2>1. <<>> \in [{} -> Expr] /\ {} \in SUBSET ToSet(FilterNames)
    OBVIOUS
  <2> QED BY <2>1 DEF NameTables
<1>2. config \in Configs
  BY <1>1, InitConfigTyped DEF Init, ConfigInit
<1>3. FilesInit \in FilesSections
  <2>1. "files" \in SectNames /\ SectInit["files"] = FilesInit /\ Sections("files") = FilesSections
    BY DEF SectNames, SectInit, Sections
  <2> QED BY <2>1, SectInitTyped
<1>4. CacheRight
  <2>1. DOMAIN logPathCache = {}
    BY DEF Init, LogFilesInit, NoFiles
  <2> QED BY <2>1 DEF CacheRight
<1>5. scanner \in Seq(Items)
  BY DEF Init, ConfigInit, Clean
<1> QED BY <1>2, <1>3, <1>4, <1>5 DEF Configured, Init

LEMMA ConfiguredStep == Configured /\ CacheRight /\ [Next]_vars => (Configured /\ CacheRight)'
<1> SUFFICES ASSUME Configured, CacheRight, [Next]_vars PROVE (Configured /\ CacheRight)'
  OBVIOUS
<1>f. ASSUME UNCHANGED <<filesConfig, logPathCache>> PROVE CacheRight'
  BY <1>f, CacheStays
<1>p. ASSUME Parse(Files[file]) PROVE config' \in Configs /\ scanner' \in Seq(Items)
  <2>1. Files[file] = NoFile \/ Files[file] \in Seq(Item)
    BY FilesAssumption DEF Configured
  <2> QED BY <1>p, <2>1, ParseTyped DEF Configured
<1>c. \A c \in Configs : c.files \in FilesSections
  BY DEF Configs
<1>1. CASE \E f \in DOMAIN Files : EditFile(f)
  BY <1>1, <1>f DEF EditFile, Configured, configVars, logFilesVars
<1>2. CASE Start
  <2>1. file' = file
    BY <1>2 DEF Start
  <2>2. CASE ParseOk(Files[file])
    <3>1. Parse(Files[file]) /\ FileLoggerStart(config'.files)
      BY <1>2, <2>2 DEF Start
    <3>2. config' \in Configs /\ scanner' \in Seq(Items) /\ config'.files \in FilesSections
      BY <1>c, <1>p, <3>1
    <3>3. /\ inForce' \in FilesSections
          /\ running' => filesConfig' = inForce' /\ filtered' = Valid(inForce'.logs)
          /\ CacheRight'
      BY <3>1, <3>2, Started
    <3> QED BY <2>1, <3>2, <3>3 DEF Configured
  <2>3. CASE ~ParseOk(Files[file])
    BY <1>2, <1>f, <2>1, <2>3 DEF Start, Configured, configVars, logFilesVars
  <2> QED BY <2>2, <2>3
<1>3. CASE ReloadParse
  <2>1. config' \in Configs /\ scanner' \in Seq(Items)
    BY <1>3, <1>p DEF ReloadParse
  <2>2. UNCHANGED <<file, running, inForce, filesConfig, filtered, logPathCache>>
    BY <1>3 DEF ReloadParse, logFilesVars
  <2> QED BY <1>f, <2>1, <2>2 DEF Configured
<1>4. CASE ReloadRestart
  <2>1. FileLoggerStart(config.files) /\ UNCHANGED <<config, scanner, file>>
    BY <1>4 DEF ReloadRestart, configVars
  <2>2. config.files \in FilesSections
    BY <1>c DEF Configured
  <2>3. /\ inForce' \in FilesSections
        /\ running' => filesConfig' = inForce' /\ filtered' = Valid(inForce'.logs)
        /\ CacheRight'
    BY <2>1, <2>2, Started
  <2> QED BY <2>1, <2>3 DEF Configured
<1>5. ASSUME NEW m \in Msgs, ProcessMsg(m) PROVE (Configured /\ CacheRight)'
  <2>1. PICK failing \in SUBSET Paths(m) : Process(m, failing)
    BY <1>5 DEF ProcessMsg
  <2>2. UNCHANGED <<config, scanner, file, running, inForce, filesConfig, filtered>>
    BY <1>5, <2>1 DEF ProcessMsg, Process, configVars, routingVars
  <2>3. Configured'
    BY <2>2 DEF Configured
  <2> DEFINE Key(i) == LogPathCacheKey(m, filtered[i].path)
             New == {Key(i) : i \in Accepting(m)}
  <2>4. logPathCache' = [k \in DOMAIN logPathCache \cup New |->
           IF k \in DOMAIN logPathCache THEN logPathCache[k]
           ELSE NewPath(m, filtered[CHOOSE i \in Accepting(m) : Key(i) = k])]
    BY <2>1 DEF Process, NewPathCache
  <2>5. ASSUME NEW k \in DOMAIN logPathCache', NEW x, NEW log, LogPathCacheKey(x, log.path) = k
        PROVE  logPathCache'[k] = NewPath(x, log)
    <3>1. CASE k \in DOMAIN logPathCache
      BY <2>4, <2>5, <3>1 DEF CacheRight
    <3>2. CASE k \notin DOMAIN logPathCache
      <4> DEFINE i == CHOOSE i \in Accepting(m) : Key(i) = k
      <4>1. k \in New
        BY <2>4, <3>2
      <4>2. i \in Accepting(m) /\ Key(i) = k
        BY <4>1
      <4>3. logPathCache'[k] = NewPath(m, filtered[i])
        BY <2>4, <3>2, <4>1
      <4> HIDE DEF i
      <4>4. NewPath(m, filtered[i]) = NewPath(x, log)
        BY <2>5, <4>2, SamePath
      <4> QED BY <4>3, <4>4
    <3> QED BY <3>1, <3>2
  <2>6. CacheRight'
    <3> SUFFICES ASSUME NEW k \in DOMAIN logPathCache', NEW x, NEW log, LogPathCacheKey(x, log.path) = k
                 PROVE  logPathCache'[k] = NewPath(x, log)'
      BY Zenon DEF CacheRight, LogPathCacheKey
    <3>1. NewPath(x, log)' = NewPath(x, log)
      BY <2>2 DEF NewPath
    <3> QED BY <2>5, <3>1
  <2> QED BY <2>3, <2>6
<1>6. CASE FileFails
  <2>1. UNCHANGED <<config, scanner, file, running, inForce, filesConfig, filtered, logPathCache>>
    BY <1>6 DEF FileFails, RollFails, configVars, routingVars
  <2> QED BY <1>f, <2>1 DEF Configured
<1>7. CASE Exit \/ ReloadThrows
  <2>1. /\ file' = file /\ running' = FALSE /\ inForce' = FilesInit /\ scanner' = Clean /\ logPathCache' = NoFiles
        /\ config' = [InitConfig(config) EXCEPT !.filters = <<>>]
    BY <1>7 DEF Exit, ReloadThrows, Ended
  <2>2. <<>> \in NameTables
    <3>1. <<>> \in [{} -> Expr] /\ {} \in SUBSET ToSet(FilterNames)
      OBVIOUS
    <3> QED BY <3>1 DEF NameTables
  <2>3. config' \in Configs
    <3>1. InitConfig(config) \in Configs
      BY InitConfigTyped DEF InitConfig, Configs, Configured
    <3> QED BY <2>1, <2>2, <3>1 DEF Configs
  <2>4. FilesInit \in FilesSections
    <3>1. "files" \in SectNames /\ SectInit["files"] = FilesInit /\ Sections("files") = FilesSections
      BY DEF SectNames, SectInit, Sections
    <3> QED BY <3>1, SectInitTyped
  <2>5. DOMAIN logPathCache' = {}
    BY <2>1 DEF NoFiles
  <2>6. CacheRight'
    BY <2>5 DEF CacheRight
  <2> QED BY <2>1, <2>3, <2>4, <2>6 DEF Configured, Clean
<1>8. CASE UNCHANGED vars
  BY <1>8, <1>f DEF vars, Configured, configVars, logFilesVars, routingVars
<1> QED BY <1>1, <1>2, <1>3, <1>4, <1>5, <1>6, <1>7, <1>8 DEF Next

\* The logs that accept a message are the right ones, each with its right path.
LEMMA RightLog ==
  ASSUME Configured, CacheRight, running, NEW m
  PROVE  /\ Accepting(m) = RightLogs(m)
         /\ \A i \in RightLogs(m) : /\ filtered[i] = inForce.logs[i]
                                    /\ LogPath(m, filtered[i]) = RightPath(m, inForce.logs[i])
<1> DEFINE logs == inForce.logs
<1>0. filesConfig = inForce /\ filtered = Valid(logs) /\ logs \in Seq(Logs) /\ inForce.logDirectory \in Seq(Text)
  BY DEF Configured, FilesSections
<1>1. \A j \in DOMAIN logs : logs[j].filter \in Expr /\ logs[j].path \in Seq(Text)
  BY <1>0 DEF Logs
<1>2. DOMAIN filtered = {j \in DOMAIN logs : is_valid(logs[j].filter)} /\ \A j \in DOMAIN filtered : filtered[j] = logs[j]
  BY <1>0 DEF Valid
<1> DEFINE Right == {j \in DOMAIN logs : TRUE \in Meaning(logs[j].filter, m)}
<1>r. RightLogs(m) = Right
  BY DEF RightLogs
<1> HIDE DEF logs
<1>3. ASSUME NEW j \in DOMAIN logs PROVE j \in Accepting(m) <=> j \in Right
  <2> DEFINE p == parse(logs[j].filter, m)
  <2>1. /\ Meaning(logs[j].filter, m) = (IF p.rc THEN {p.result} ELSE {})
        /\ p.rc = is_valid(logs[j].filter)
    BY <1>1, ParserIsGrammar
  <2>2. p.rc \in BOOLEAN /\ p.result \in BOOLEAN
    BY DEF parse, IsTrue
  <2> HIDE DEF p
  <2>3. TRUE \in Meaning(logs[j].filter, m) <=> p.rc /\ p.result
    BY <2>1, <2>2
  <2>4. j \in Accepting(m) <=> j \in DOMAIN filtered /\ p.rc /\ p.result
    BY <1>2 DEF Accepting, p
  <2> QED BY <1>2, <2>1, <2>3, <2>4
<1>4. Accepting(m) = Right
  <2>1. Accepting(m) \subseteq DOMAIN logs /\ Right \subseteq DOMAIN logs
    BY <1>2 DEF Accepting
  <2> QED BY <1>3, <2>1
<1>5. ASSUME NEW i \in Right PROVE filtered[i] = logs[i] /\ LogPath(m, filtered[i]) = RightPath(m, logs[i])
  <2>1. i \in DOMAIN logs /\ i \in DOMAIN filtered /\ filtered[i] = logs[i]
    BY <1>2, <1>4 DEF Accepting
  <2>2. LogPath(m, filtered[i]) = NewPath(m, logs[i])
    BY <2>1, CachedPaths
  <2> DEFINE path == logs[i].path
             sub == Substituted(path, m)
  <2>3. path \in Seq(Text)
    BY <1>1, <2>1
  <2>4. sub = [k \in 1..Len(path) |-> sub[k]] /\ Len(path) \in Nat
    BY <2>3 DEF Substituted
  <2> HIDE DEF sub
  <2>6. sub \in Seq({sub[k] : k \in 1..Len(path)})
    BY <2>4
  <2>7. <<>> \o sub = sub
    BY <2>6
  <2>8. NewPath(m, logs[i]) = IF path = <<>> THEN <<"logs", m.host, m.ident>>
                              ELSE IF path[1] = "/" THEN sub ELSE inForce.logDirectory \o sub
    <3>1. CASE path = <<>>
      BY <3>1, Zenon DEF NewPath
    <3>2. CASE path # <<>>
      <4>1. Head(path) = path[1]
        BY <2>3, <3>2
      <4>2. NewPath(m, logs[i]) = IF Head(path) = "/" THEN sub ELSE filesConfig.logDirectory \o sub
        BY <3>2, Zenon DEF NewPath, sub
      <4>3. filesConfig.logDirectory = inForce.logDirectory
        BY <1>0
      <4> QED BY <3>2, <4>1, <4>2, <4>3, Zenon
    <3> QED BY <3>1, <3>2
  <2>9. RightPath(m, logs[i]) = IF path = <<>> THEN <<"logs", m.host, m.ident>>
                                ELSE (IF path[1] = "/" THEN <<>> ELSE inForce.logDirectory) \o sub
    BY Zenon DEF RightPath, sub
  <2> QED BY <2>1, <2>2, <2>7, <2>8, <2>9
<1> QED BY <1>4, <1>5, <1>r DEF logs

LEMMA RightRouting ==
  ASSUME Configured, CacheRight, running, NEW m
  PROVE  Paths(m) = RightPaths(m)
<1>1. Paths(m) = {LogPath(m, filtered[i]) : i \in Accepting(m)}
  BY DEF Paths
<1>2. RightPaths(m) = {RightPath(m, inForce.logs[i]) : i \in RightLogs(m)}
  BY DEF RightPaths
<1> QED BY <1>1, <1>2, RightLog

\* Every message is written to the files that the configuration in force names, for any
\* configuration files, any messages, and however often and when they are reloaded.
THEOREM MessagesRoutedAsConfigured == Spec => []RoutedAsConfigured
<1>1. Init => Configured /\ CacheRight
  BY ConfiguredAtFirst
<1>2. (Configured /\ CacheRight) /\ [Next]_vars => (Configured /\ CacheRight)'
  BY ConfiguredStep
<1>3. Configured /\ CacheRight => RoutedAsConfigured
  BY RightRouting DEF RoutedAsConfigured
<1> QED BY <1>1, <1>2, <1>3, PTL DEF Spec

-----------------------------------------------------------------------------
(* The settings of the files, and the files that are closed                *)

\* A LogFile is made with the settings of a log that sends the message to its path.
LEMMA LogOfPath ==
  ASSUME Configured, CacheRight, running, NEW m, NEW p \in Paths(m)
  PROVE  \E i \in RightLogs(m) : RightPath(m, inForce.logs[i]) = p /\ LogFor(m, p) = inForce.logs[i]
<1> DEFINE I == {i \in Accepting(m) : LogPath(m, filtered[i]) = p}
<1>1. Accepting(m) \subseteq DOMAIN inForce.logs /\ inForce.logs \in Seq(Logs)
  BY DEF Configured, FilesSections, Valid, Accepting
<1>2. I \subseteq 1..Len(inForce.logs) /\ I # {} /\ Len(inForce.logs) \in Nat
  <2>1. I # {}
    BY DEF Paths
  <2> QED BY <1>1, <2>1
<1> DEFINE k == Min(I)
<1> HIDE DEF I
<1>3. k \in I
  BY <1>2, MinIn1n
<1> HIDE DEF k
<1>4. k \in Accepting(m) /\ LogPath(m, filtered[k]) = p
  BY <1>3 DEF I
<1>5. /\ k \in RightLogs(m) /\ filtered[k] = inForce.logs[k]
      /\ LogPath(m, filtered[k]) = RightPath(m, inForce.logs[k])
  BY <1>4, RightLog
<1>6. LogFor(m, p) = filtered[k]
  BY DEF LogFor, I, k
<1> QED BY <1>4, <1>5, <1>6

\* Every open or closed LogFile has the settings of a log that is in force and that
\* sends messages to its path, for any configuration files and messages.
THEOREM FilesHaveTheirSettings == Spec => []FilesAsConfigured
<1>1. Init => FilesAsConfigured
  BY DEF Init, FilesAsConfigured
<1>2. FilesAsConfigured /\ Configured /\ CacheRight /\ [Next]_vars => FilesAsConfigured'
  <2> SUFFICES ASSUME FilesAsConfigured, Configured, CacheRight, [Next]_vars PROVE FilesAsConfigured'
    OBVIOUS
  <2>n. DOMAIN NoFiles = {}
    BY DEF NoFiles
  <2>c. ASSUME logFiles' = NoFiles PROVE FilesAsConfigured'
    BY <2>c, <2>n DEF FilesAsConfigured
  <2>r. ASSUME inForce' = inForce, NEW m
        PROVE  RightLogs(m)' = RightLogs(m) /\ \A log : RightPath(m, log)' = RightPath(m, log)
    BY <2>r DEF RightLogs, RightPath
  <2>u. ASSUME UNCHANGED <<running, inForce, logFiles>> PROVE FilesAsConfigured'
    BY <2>u, <2>r DEF FilesAsConfigured
  <2>s. ASSUME NEW cfg, FileLoggerStart(cfg) PROVE FilesAsConfigured'
    BY <2>s, <2>c DEF FileLoggerStart, Configure, Close
  <2>1. CASE \E f \in DOMAIN Files : EditFile(f)
    BY <2>1, <2>u DEF EditFile, logFilesVars
  <2>2. CASE Start
    BY <2>2, <2>u, <2>s DEF Start, logFilesVars
  <2>3. CASE ReloadParse
    BY <2>3, <2>u DEF ReloadParse, logFilesVars
  <2>4. CASE ReloadRestart
    BY <2>4, <2>s DEF ReloadRestart
  <2>5. ASSUME NEW m \in Msgs, ProcessMsg(m) PROVE FilesAsConfigured'
    <3>1. PICK failing \in SUBSET Paths(m) : Process(m, failing)
      BY <2>5 DEF ProcessMsg
    <3>2. /\ logFiles' = [p \in DOMAIN logFiles \cup Paths(m) |->
               IF p \in DOMAIN logFiles THEN logFiles[p]
               ELSE [cfg |-> LogFor(m, p), open |-> p \notin failing]]
          /\ UNCHANGED <<running, inForce>> /\ running
      BY <2>5, <3>1 DEF ProcessMsg, Process, NewLogFiles, routingVars
    <3>3. ASSUME NEW p \in DOMAIN logFiles'
          PROVE  \E x \in Msgs : \E i \in RightLogs(x) :
                   RightPath(x, inForce.logs[i]) = p /\ logFiles'[p].cfg = inForce.logs[i]
      <4>1. CASE p \in DOMAIN logFiles
        <5>1. logFiles'[p] = logFiles[p]
          BY <3>2, <3>3, <4>1
        <5> QED BY <3>2, <4>1, <5>1 DEF FilesAsConfigured
      <4>2. CASE p \notin DOMAIN logFiles
        <5>1. p \in Paths(m) /\ logFiles'[p] = [cfg |-> LogFor(m, p), open |-> p \notin failing]
          BY <3>2, <3>3, <4>2
        <5>2. logFiles'[p].cfg = LogFor(m, p)
          BY <5>1
        <5> QED BY <3>2, <5>1, <5>2, LogOfPath
      <4> QED BY <4>1, <4>2
    <3>4. ASSUME NEW p \in DOMAIN logFiles'
          PROVE  \E x \in Msgs : \E i \in RightLogs(x)' :
                   (RightPath(x, inForce.logs[i]) = p /\ logFiles[p].cfg = inForce.logs[i])'
      <4>1. PICK x \in Msgs : \E i \in RightLogs(x) :
              RightPath(x, inForce.logs[i]) = p /\ logFiles'[p].cfg = inForce.logs[i]
        BY <3>3, <3>4
      <4>2. PICK i \in RightLogs(x) :
              RightPath(x, inForce.logs[i]) = p /\ logFiles'[p].cfg = inForce.logs[i]
        BY <4>1
      <4>3. i \in RightLogs(x)' /\ RightPath(x, inForce.logs[i])' = RightPath(x, inForce.logs[i])
        BY <3>2 DEF RightLogs, RightPath
      <4> QED BY <3>2, <4>2, <4>3
    <3> QED BY <3>4 DEF FilesAsConfigured
  <2>6. CASE FileFails
    <3>1. PICK q \in DOMAIN logFiles : RollFails(q)
      BY <2>6 DEF FileFails
    <3>2. logFiles' = [logFiles EXCEPT ![q].open = FALSE] /\ UNCHANGED <<running, inForce>> /\ running
      BY <2>6, <3>1 DEF FileFails, RollFails, routingVars
    <3>3. ASSUME NEW p \in DOMAIN logFiles'
          PROVE  p \in DOMAIN logFiles /\ logFiles'[p].cfg = logFiles[p].cfg
      BY <3>2, <3>3
    <3> QED BY <2>r, <3>2, <3>3 DEF FilesAsConfigured
  <2>7. CASE Exit \/ ReloadThrows
    BY <2>7, <2>c DEF Exit, ReloadThrows, Ended
  <2>8. CASE UNCHANGED vars
    BY <2>8, <2>u DEF vars, logFilesVars, routingVars
  <2> QED BY <2>1, <2>2, <2>3, <2>4, <2>5, <2>6, <2>7, <2>8 DEF Next
<1>3. Init => Configured /\ CacheRight
  BY ConfiguredAtFirst
<1>4. (Configured /\ CacheRight) /\ [Next]_vars => (Configured /\ CacheRight)'
  BY ConfiguredStep
<1> QED BY <1>1, <1>2, <1>3, <1>4, PTL DEF Spec

\* A LogFile is what LogFiles made it, and a process that has ended has none, nor a
\* thread of the FileLogger.
FilesTyped ==
  /\ \A p \in DOMAIN logFiles : DOMAIN logFiles[p] = {"cfg", "open"}
  /\ mclogd = "down" => logFiles = NoFiles /\ ~running

\* A file that could not be opened is not tried again before a reload that parses its
\* file, or a new process; whichever messages come, and whatever fails in between.
THEOREM ClosedFilesStayClosed == Spec => ClosedUntilReload
<1> DEFINE StaysClosed ==
      \A p \in DOMAIN logFiles :
        ~logFiles[p].open =>
          IF ReloadRestart \/ mclogd' = "down" THEN p \notin DOMAIN logFiles'
          ELSE p \in DOMAIN logFiles' /\ ~logFiles'[p].open
<1>n. DOMAIN NoFiles = {}
  BY DEF NoFiles
<1>1. Init => FilesTyped
  BY <1>n DEF Init, LogFilesInit, FilesTyped
<1>2. FilesTyped /\ [Next]_vars => FilesTyped' /\ [StaysClosed]_vars
  <2> SUFFICES ASSUME FilesTyped, [Next]_vars PROVE FilesTyped' /\ [StaysClosed]_vars
    OBVIOUS
  <2>c. ASSUME logFiles' = NoFiles, mclogd' = "down" => ~running'
        PROVE  FilesTyped' /\ (ReloadRestart \/ mclogd' = "down" => StaysClosed)
    BY <2>c, <1>n DEF FilesTyped
  <2>u. ASSUME logFiles' = logFiles, mclogd' = "down" => mclogd = "down" /\ running' = running,
               ~ReloadRestart
        PROVE  FilesTyped' /\ StaysClosed
    BY <2>u, <1>n DEF FilesTyped
  <2>d. mclogd = "down" => StaysClosed
    BY <1>n DEF FilesTyped
  <2>1. CASE \E f \in DOMAIN Files : EditFile(f)
    <3>1. logFiles' = logFiles /\ mclogd' = mclogd /\ running' = running
      BY <2>1 DEF EditFile, logFilesVars
    <3>2. ~ReloadRestart
      BY <3>1 DEF ReloadRestart
    <3> QED BY <2>u, <3>1, <3>2
  <2>2. CASE Start
    <3>1. mclogd = "down"
      BY <2>2 DEF Start
    <3>2. CASE ParseOk(Files[file])
      BY <2>2, <2>c, <2>d, <3>1, <3>2 DEF Start, FileLoggerStart, Configure, Close
    <3>3. CASE ~ParseOk(Files[file])
      <4>1. logFiles' = logFiles /\ mclogd' = mclogd /\ running' = running
        BY <2>2, <3>3 DEF Start, logFilesVars
      <4> QED BY <2>d, <3>1, <4>1 DEF FilesTyped
    <3> QED BY <3>2, <3>3
  <2>3. CASE ReloadParse
    <3>1. mclogd = "wait" /\ logFiles' = logFiles /\ mclogd' # "down"
      BY <2>3 DEF ReloadParse, logFilesVars
    <3>2. ~ReloadRestart
      BY <3>1 DEF ReloadRestart
    <3> QED BY <2>u, <3>1, <3>2
  <2>4. CASE ReloadRestart
    BY <2>4, <2>c DEF ReloadRestart, FileLoggerStart, Configure, Close
  <2>5. ASSUME NEW m \in Msgs, ProcessMsg(m) PROVE FilesTyped' /\ [StaysClosed]_vars
    <3>1. PICK failing \in SUBSET Paths(m) : Process(m, failing)
      BY <2>5 DEF ProcessMsg
    <3>2. /\ logFiles' = [p \in DOMAIN logFiles \cup Paths(m) |->
               IF p \in DOMAIN logFiles THEN logFiles[p]
               ELSE [cfg |-> LogFor(m, p), open |-> p \notin failing]]
          /\ mclogd' = mclogd
      BY <2>5, <3>1 DEF ProcessMsg, Process, NewLogFiles, routingVars
    <3>3. \A p \in DOMAIN logFiles : p \in DOMAIN logFiles' /\ logFiles'[p] = logFiles[p]
      BY <3>2
    <3>4. mclogd # "down"
      BY <2>5 DEF ProcessMsg, FilesTyped
    <3>5. ~ReloadRestart
      BY <3>2 DEF ReloadRestart
    <3>6. StaysClosed
      BY <3>2, <3>3, <3>4, <3>5
    <3>7. ASSUME NEW p \in DOMAIN logFiles' PROVE DOMAIN logFiles'[p] = {"cfg", "open"}
      <4>1. CASE p \in DOMAIN logFiles
        BY <3>3, <4>1 DEF FilesTyped
      <4>2. CASE p \notin DOMAIN logFiles
        <5>1. logFiles'[p] = [cfg |-> LogFor(m, p), open |-> p \notin failing]
          BY <3>2, <3>7, <4>2
        <5> QED BY <5>1
      <4> QED BY <4>1, <4>2
    <3> QED BY <3>2, <3>4, <3>6, <3>7 DEF FilesTyped
  <2>6. CASE FileFails
    <3>1. PICK q \in DOMAIN logFiles : RollFails(q)
      BY <2>6 DEF FileFails
    <3>2. logFiles' = [logFiles EXCEPT ![q].open = FALSE] /\ mclogd' = mclogd
      BY <2>6, <3>1 DEF FileFails, RollFails, routingVars
    <3>3. ~ReloadRestart /\ mclogd # "down"
      BY <1>n, <3>2 DEF ReloadRestart, FilesTyped
    <3>4. DOMAIN logFiles' = DOMAIN logFiles
      BY <3>2
    <3>5. DOMAIN logFiles'[q] = {"cfg", "open"} /\ logFiles'[q].open = FALSE
      BY <3>2 DEF FilesTyped
    <3>6. \A p \in DOMAIN logFiles \ {q} : logFiles'[p] = logFiles[p]
      BY <3>2
    <3>7. StaysClosed
      BY <3>2, <3>3, <3>4, <3>5, <3>6
    <3> QED BY <3>2, <3>3, <3>4, <3>5, <3>6, <3>7 DEF FilesTyped
  <2>7. CASE Exit \/ ReloadThrows
    BY <2>7, <2>c DEF Exit, ReloadThrows, Ended
  <2>8. CASE UNCHANGED vars
    BY <2>8 DEF vars, logFilesVars, routingVars, FilesTyped
  <2> QED BY <2>1, <2>2, <2>3, <2>4, <2>5, <2>6, <2>7, <2>8 DEF Next
<1> QED BY <1>1, <1>2, PTL DEF Spec, ClosedUntilReload

-----------------------------------------------------------------------------
(* Roll intervals                                                          *)

\* Local time, the fields of a local time, and the first day of its month.
Local(t) == t + Offset(IsDst(t))
DayOf(l) == l \div Day
HourOf(l) == (l \div Hour) % 24
MinOf(l) == (l \div 60) % 60
SecOf(l) == l % 60
First(l) == FirstDay[MonthOf(DayOf(l))]

Field(p) == IncrementInfo[p].field
Amount(p) == IncrementInfo[p].amount
Secs(p) == IncrementInfo[p].secs

-----------------------------------------------------------------------------
(* Numbers                                                                 *)

\* A set of positions has a last one.
LEMMA MaxInSet ==
  ASSUME NEW n \in Nat, NEW S, S \subseteq 1..n, S # {}
  PROVE  Max(S) \in S
<1> DEFINE R == OpToRel(<, Nat)
           T == {k \in Nat : \A y \in S : y <= k}
<1>1. IsWellFoundedOn(R, Nat)
  BY NatLessThanWellFounded
<1>2. \A x, y \in Nat : <<y, x>> \in R <=> y < x
  BY DEF OpToRel
<1>3. T \subseteq Nat /\ n \in T
  OBVIOUS
<1> HIDE DEF R
<1>4. PICK x \in T : \A y \in T : ~ (<<y, x>> \in R)
  BY <1>1, <1>3, WFMin
<1>5. x \in Nat /\ \A y \in S : y <= x
  BY <1>4
<1>6. x \in S
  <2> SUFFICES ASSUME x \notin S PROVE FALSE
    OBVIOUS
  <2>1. PICK z \in S : z \in 1..n
    OBVIOUS
  <2>2. \A y \in S : y \in Nat /\ y < x
    BY <1>5
  <2>3. x - 1 \in Nat /\ x - 1 < x
    BY <1>5, <2>1, <2>2
  <2>4. x - 1 \in T
    BY <1>5, <2>2, <2>3
  <2>5. ~ (<<x - 1, x>> \in R)
    BY <1>4, <2>4
  <2> QED BY <1>2, <1>5, <2>3, <2>5
<1>7. \E z \in S : \A y \in S : z >= y
  <2>1. \A y \in S : x >= y
    BY <1>5
  <2> QED BY <1>6, <2>1
<1> QED BY <1>7, Zenon DEF Max

\* Every day is in a month.
LEMMA MonthOfDay ==
  ASSUME NEW day \in Nat
  PROVE  MonthOf(day) \in DOMAIN FirstDay /\ FirstDay[MonthOf(day)] \in Nat
         /\ FirstDay[MonthOf(day)] <= day
<1> DEFINE S == {m \in DOMAIN FirstDay : FirstDay[m] <= day}
<1>1. FirstDay \in Seq(Nat) /\ Len(FirstDay) \in Nat \ {0} /\ DOMAIN FirstDay = 1..Len(FirstDay)
      /\ FirstDay[1] = 0
  BY RollIntervalAssumption
<1>2. 1 \in S /\ S \subseteq 1..Len(FirstDay)
  BY <1>1
<1> HIDE DEF S
<1>3. Max(S) \in S
  BY <1>1, <1>2, MaxInSet
<1> QED BY <1>1, <1>3 DEF MonthOf, S

\* The fields of a time on the clock.
LEMMA Clock ==
  ASSUME NEW l \in Nat
  PROVE  /\ DayOf(l) \in Nat /\ HourOf(l) \in 0..23 /\ MinOf(l) \in 0..59 /\ SecOf(l) \in 0..59
         /\ l = 86400 * DayOf(l) + 3600 * HourOf(l) + 60 * MinOf(l) + SecOf(l)
         /\ First(l) \in Nat /\ First(l) <= DayOf(l)
<1> DEFINE a == l \div 60
           b == l \div 3600
<1>1. Hour = 3600 /\ Day = 86400
  BY DEF Day, Hour
<1>2. a \in Nat /\ b \in Nat /\ DayOf(l) \in Nat
  BY <1>1 DEF DayOf
<1>3. a \div 60 = b /\ b \div 24 = DayOf(l) /\ HourOf(l) = b % 24 /\ MinOf(l) = a % 60
  BY <1>1 DEF DayOf, HourOf, MinOf
<1>4. SecOf(l) = l - 60 * a /\ SecOf(l) \in 0..59
  BY DEF SecOf
<1> HIDE DEF a, b
<1>5. MinOf(l) = a - 60 * b /\ MinOf(l) \in 0..59
  BY <1>2, <1>3
<1>6. HourOf(l) = b - 24 * DayOf(l) /\ HourOf(l) \in 0..23
  BY <1>2, <1>3
<1>7. l = 86400 * DayOf(l) + 3600 * HourOf(l) + 60 * MinOf(l) + SecOf(l)
  BY <1>2, <1>4, <1>5, <1>6
<1>8. First(l) \in Nat /\ First(l) <= DayOf(l)
  BY <1>2, MonthOfDay DEF First
<1> QED BY <1>2, <1>4, <1>5, <1>6, <1>7, <1>8

\* A time is within its day, and its day not before the month.
LEMMA DayBounds ==
  ASSUME NEW l \in Nat
  PROVE  /\ DayOf(l) \in Nat /\ First(l) \in Nat /\ First(l) <= DayOf(l)
         /\ 86400 * DayOf(l) <= l /\ l < 86400 * DayOf(l) + 86400
<1> DEFINE d == DayOf(l)
           h == HourOf(l)
           mi == MinOf(l)
           s == SecOf(l)
<1>1. /\ d \in Nat /\ h \in 0..23 /\ mi \in 0..59 /\ s \in 0..59
      /\ l = 86400 * d + 3600 * h + 60 * mi + s
  BY Clock
<1>2. First(l) \in Nat /\ First(l) <= d
  BY Clock
<1> HIDE DEF d, h, mi, s
<1>3. 86400 * d <= l /\ l < 86400 * d + 86400
  BY <1>1
<1> QED BY <1>1, <1>2, <1>3 DEF d

\* The periods: some minutes, some hours, a day, or a week.
LEMMA Infos ==
  ASSUME NEW p \in RollPeriods
  PROVE  \/ Field(p) = "min" /\ Amount(p) \in {5, 15, 30} /\ Secs(p) = 60 * Amount(p)
         \/ Field(p) = "hour" /\ Amount(p) \in {1, 2, 4, 6, 8, 12} /\ Secs(p) = 3600 * Amount(p)
         \/ Field(p) = "mday" /\ Amount(p) = 1 /\ Secs(p) = 86400
         \/ Field(p) = "mday" /\ Amount(p) = 7 /\ Secs(p) = 604800 /\ p = "days_7"
<1>1. CASE p \in {"minutes_5", "minutes_15", "minutes_30"}
  BY <1>1 DEF IncrementInfo, Info, Field, Amount, Secs
<1>2. CASE p \in {"hours_1", "hours_2", "hours_4", "hours_6", "hours_8", "hours_12"}
  BY <1>2 DEF IncrementInfo, Info, Field, Amount, Secs
<1>3. CASE p \in {"days_1", "days_7"}
  BY <1>3 DEF IncrementInfo, Info, Field, Amount, Secs
<1> QED BY <1>1, <1>2, <1>3 DEF RollPeriods, IncrementInfo

\* Local time is a number, and ahead by nothing or an hour.
LEMMA LocalTime ==
  ASSUME NEW t \in Nat
  PROVE  Local(t) \in Nat /\ Offset(IsDst(t)) \in {0, 3600} /\ Local(t) = t + Offset(IsDst(t))
<1>1. Offset(IsDst(t)) \in {0, 3600}
  BY DEF Offset, Hour
<1> QED BY <1>1 DEF Local

\* AtMark and mktime.
LEMMA MarkTime ==
  ASSUME NEW mo, NEW md, NEW ho, NEW mi, NEW se, NEW dst, NEW v,
         FirstDay[mo] \in Nat, md \in Int, ho \in Int, mi \in Int, v \in Int,
         Offset(dst) \in Int
  PROVE  LET tm == [mon |-> mo, mday |-> md, hour |-> ho, min |-> mi, sec |-> se, isdst |-> dst]
         IN  /\ mktime(AtMark(tm, "min", v)) =
                   (86400 * (FirstDay[mo] + md - 1) + 3600 * ho + 60 * v) - Offset(dst)
             /\ mktime(AtMark(tm, "hour", v)) =
                   (86400 * (FirstDay[mo] + md - 1) + 3600 * v) - Offset(dst)
             /\ mktime(AtMark(tm, "mday", v)) = 86400 * (FirstDay[mo] + v - 1) - Offset(dst)
<1> DEFINE tm == [mon |-> mo, mday |-> md, hour |-> ho, min |-> mi, sec |-> se, isdst |-> dst]
<1>1. AtMark(tm, "min", v) =
        [mon |-> mo, mday |-> md, hour |-> ho, min |-> v, sec |-> 0, isdst |-> dst]
  BY DEF AtMark
<1>2. AtMark(tm, "hour", v) =
        [mon |-> mo, mday |-> md, hour |-> v, min |-> 0, sec |-> 0, isdst |-> dst]
  BY DEF AtMark
<1>3. AtMark(tm, "mday", v) =
        [mon |-> mo, mday |-> v, hour |-> 0, min |-> 0, sec |-> 0, isdst |-> dst]
  BY DEF AtMark
<1>4. Hour = 3600 /\ Day = 86400
  BY DEF Hour, Day
<1> HIDE DEF tm
<1>5. mktime(AtMark(tm, "min", v)) =
        (86400 * (FirstDay[mo] + md - 1) + 3600 * ho + 60 * v) - Offset(dst)
  BY <1>1, <1>4 DEF mktime
<1>6. mktime(AtMark(tm, "hour", v)) = (86400 * (FirstDay[mo] + md - 1) + 3600 * v) - Offset(dst)
  BY <1>2, <1>4 DEF mktime
<1>7. mktime(AtMark(tm, "mday", v)) = 86400 * (FirstDay[mo] + v - 1) - Offset(dst)
  BY <1>3, <1>4 DEF mktime
<1> QED BY <1>5, <1>6, <1>7 DEF tm

\* What NextMark computes, by the field that is advanced.
LEMMA NextMarkOf ==
  ASSUME NEW p \in RollPeriods, NEW t \in Nat
  PROVE  /\ Field(p) = "min" =>
              NextMark(p, t) = (86400 * DayOf(Local(t)) + 3600 * HourOf(Local(t))
                                 + 60 * Mark(Amount(p), MinOf(Local(t)))) - Offset(IsDst(t))
         /\ Field(p) = "hour" =>
              NextMark(p, t) = (86400 * DayOf(Local(t)) + 3600 * Mark(Amount(p), HourOf(Local(t))))
                                 - Offset(IsDst(t))
         /\ Field(p) = "mday" =>
              NextMark(p, t) = 86400 * (First(Local(t))
                                   + Mark(Amount(p), DayOf(Local(t)) - First(Local(t)) + 1) - 1)
                                 - Offset(IsDst(t))
<1> DEFINE l == Local(t)
           mo == MonthOf(DayOf(l))
           md == DayOf(l) - First(l) + 1
           off == Offset(IsDst(t))
           Tm == [mon |-> mo, mday |-> md, hour |-> HourOf(l), min |-> MinOf(l), sec |-> SecOf(l),
                  isdst |-> IsDst(t)]
<1>1. localtime(t) = Tm
  BY DEF localtime, Local, DayOf, HourOf, MinOf, SecOf, First
<1>2. Tm["mday"] = md /\ Tm["hour"] = HourOf(l) /\ Tm["min"] = MinOf(l)
  OBVIOUS
<1>3. l \in Nat /\ off \in Int
  BY LocalTime
<1> HIDE DEF l, off
<1>4. /\ DayOf(l) \in Nat /\ HourOf(l) \in Nat /\ MinOf(l) \in Nat
      /\ First(l) \in Nat /\ First(l) = FirstDay[mo] /\ md \in Int
      /\ FirstDay[mo] + md - 1 = DayOf(l)
  <2>1. First(l) = FirstDay[mo]
    BY DEF First
  <2>2. DayOf(l) \in Nat /\ HourOf(l) \in Nat /\ MinOf(l) \in Nat /\ First(l) \in Nat
    <3>1. DayOf(l) \in Nat /\ HourOf(l) \in 0..23 /\ MinOf(l) \in 0..59 /\ First(l) \in Nat
      BY <1>3, Clock
    <3> QED BY <3>1
  <2>3. md \in Int /\ First(l) + md - 1 = DayOf(l)
    BY <2>2
  <2> QED BY <2>1, <2>2, <2>3, Zenon
<1> DEFINE a == Amount(p)
<1>5. \A v \in Int : Mark(a, v) \in Int
  <2>1. a \in Nat \ {0}
    BY Infos
  <2> HIDE DEF a
  <2> QED BY <2>1 DEF Mark
<1>6. ASSUME NEW v \in Int
      PROVE  /\ mktime(AtMark(Tm, "min", v)) = (86400 * DayOf(l) + 3600 * HourOf(l) + 60 * v) - off
             /\ mktime(AtMark(Tm, "hour", v)) = (86400 * DayOf(l) + 3600 * v) - off
             /\ mktime(AtMark(Tm, "mday", v)) = 86400 * (First(l) + v - 1) - off
  <2> HIDE DEF mo, md
  <2> QED BY <1>3, <1>4, MarkTime DEF off
<1> HIDE DEF Tm, md
<1>7. ASSUME Field(p) = "min"
      PROVE  NextMark(p, t) = (86400 * DayOf(l) + 3600 * HourOf(l) + 60 * Mark(a, MinOf(l))) - off
  <2>1. NextMark(p, t) = mktime(AtMark(Tm, "min", Mark(a, MinOf(l))))
    BY <1>1, <1>2, <1>7 DEF NextMark, Field, Amount
  <2> QED BY <1>4, <1>5, <1>6, <2>1
<1>8. ASSUME Field(p) = "hour"
      PROVE  NextMark(p, t) = (86400 * DayOf(l) + 3600 * Mark(a, HourOf(l))) - off
  <2>1. NextMark(p, t) = mktime(AtMark(Tm, "hour", Mark(a, HourOf(l))))
    BY <1>1, <1>2, <1>8 DEF NextMark, Field, Amount
  <2> QED BY <1>4, <1>5, <1>6, <2>1
<1>9. ASSUME Field(p) = "mday"
      PROVE  NextMark(p, t) = 86400 * (First(l) + Mark(a, md) - 1) - off
  <2>1. NextMark(p, t) = mktime(AtMark(Tm, "mday", Mark(a, md)))
    BY <1>1, <1>2, <1>9 DEF NextMark, Field, Amount
  <2> QED BY <1>4, <1>5, <1>6, <2>1
<1> QED BY <1>7, <1>8, <1>9 DEF l, md, off

\* The mark is the first multiple of the amount beyond the value.
LEMMA MarkOf ==
  ASSUME NEW a \in Nat \ {0}, NEW v \in Nat
  PROVE  \E q \in Nat : Mark(a, v) = a * q + a /\ a * q <= v /\ v < a * q + a
<1> DEFINE q == v \div a
<1>1. q \in Nat
  OBVIOUS
<1>2. a * q <= v /\ v < a * q + a
  OBVIOUS
<1>3. Mark(a, v) = a * (q + 1)
  BY DEF Mark
<1> HIDE DEF q
<1>4. Mark(a, v) = a * q + a
  BY <1>1, <1>3
<1> QED BY <1>1, <1>2, <1>4

-----------------------------------------------------------------------------
(* Where the marks are                                                     *)

\* e is the first multiple of n beyond l.
IsNext(e, n, l) == \E k \in Nat : e = n * k /\ l < n * k /\ n * k <= l + n

\* The marks of the minutes are the multiples of their distance.
LEMMA MinuteMarks ==
  ASSUME NEW l \in Nat, NEW a \in {5, 15, 30}
  PROVE  IsNext(86400 * DayOf(l) + 3600 * HourOf(l) + 60 * Mark(a, MinOf(l)), 60 * a, l)
<1> DEFINE d == DayOf(l)
           h == HourOf(l)
           mi == MinOf(l)
           e == 86400 * d + 3600 * h + 60 * Mark(a, mi)
<1>1. PICK q \in Nat : Mark(a, mi) = a * q + a /\ a * q <= mi /\ mi < a * q + a
  <2>1. mi \in 0..59
    BY Clock
  <2>2. a \in Nat \ {0} /\ mi \in Nat
    BY <2>1
  <2> HIDE DEF mi
  <2> QED BY <2>2, MarkOf
<1>2. /\ d \in Nat /\ h \in 0..23 /\ mi \in 0..59 /\ SecOf(l) \in 0..59
      /\ l = 86400 * d + 3600 * h + 60 * mi + SecOf(l)
  BY Clock
<1> HIDE DEF d, h, mi
<1>3. ASSUME a = 5 PROVE IsNext(e, 60 * a, l)
  <2> DEFINE k == 288 * d + 12 * h + q + 1
  <2>1. k \in Nat /\ e = 300 * k /\ l < 300 * k /\ 300 * k <= l + 300
    BY <1>1, <1>2, <1>3
  <2> HIDE DEF k, e
  <2> QED BY <1>3, <2>1 DEF IsNext
<1>4. ASSUME a = 15 PROVE IsNext(e, 60 * a, l)
  <2> DEFINE k == 96 * d + 4 * h + q + 1
  <2>1. k \in Nat /\ e = 900 * k /\ l < 900 * k /\ 900 * k <= l + 900
    BY <1>1, <1>2, <1>4
  <2> HIDE DEF k, e
  <2> QED BY <1>4, <2>1 DEF IsNext
<1>5. ASSUME a = 30 PROVE IsNext(e, 60 * a, l)
  <2> DEFINE k == 48 * d + 2 * h + q + 1
  <2>1. k \in Nat /\ e = 1800 * k /\ l < 1800 * k /\ 1800 * k <= l + 1800
    BY <1>1, <1>2, <1>5
  <2> HIDE DEF k, e
  <2> QED BY <1>5, <2>1 DEF IsNext
<1> HIDE DEF e
<1>6. IsNext(e, 60 * a, l)
  BY <1>3, <1>4, <1>5
<1> QED BY <1>6 DEF d, h, mi, e

\* So are the marks of the hours.
LEMMA HourMarks ==
  ASSUME NEW l \in Nat, NEW a \in {1, 2, 4, 6, 8, 12}
  PROVE  IsNext(86400 * DayOf(l) + 3600 * Mark(a, HourOf(l)), 3600 * a, l)
<1> DEFINE d == DayOf(l)
           h == HourOf(l)
           e == 86400 * d + 3600 * Mark(a, h)
<1>1. PICK q \in Nat : Mark(a, h) = a * q + a /\ a * q <= h /\ h < a * q + a
  <2>1. h \in 0..23
    BY Clock
  <2>2. a \in Nat \ {0} /\ h \in Nat
    BY <2>1
  <2> HIDE DEF h
  <2> QED BY <2>2, MarkOf
<1>2. /\ d \in Nat /\ h \in 0..23 /\ MinOf(l) \in 0..59 /\ SecOf(l) \in 0..59
      /\ l = 86400 * d + 3600 * h + 60 * MinOf(l) + SecOf(l)
  BY Clock
<1> HIDE DEF d, h
<1>3. ASSUME a = 1 PROVE IsNext(e, 3600 * a, l)
  <2> DEFINE k == 24 * d + q + 1
  <2>1. k \in Nat /\ e = 3600 * k /\ l < 3600 * k /\ 3600 * k <= l + 3600
    BY <1>1, <1>2, <1>3
  <2> HIDE DEF k, e
  <2> QED BY <1>3, <2>1 DEF IsNext
<1>4. ASSUME a = 2 PROVE IsNext(e, 3600 * a, l)
  <2> DEFINE k == 12 * d + q + 1
  <2>1. k \in Nat /\ e = 7200 * k /\ l < 7200 * k /\ 7200 * k <= l + 7200
    BY <1>1, <1>2, <1>4
  <2> HIDE DEF k, e
  <2> QED BY <1>4, <2>1 DEF IsNext
<1>5. ASSUME a = 4 PROVE IsNext(e, 3600 * a, l)
  <2> DEFINE k == 6 * d + q + 1
  <2>1. k \in Nat /\ e = 14400 * k /\ l < 14400 * k /\ 14400 * k <= l + 14400
    BY <1>1, <1>2, <1>5
  <2> HIDE DEF k, e
  <2> QED BY <1>5, <2>1 DEF IsNext
<1>6. ASSUME a = 6 PROVE IsNext(e, 3600 * a, l)
  <2> DEFINE k == 4 * d + q + 1
  <2>1. k \in Nat /\ e = 21600 * k /\ l < 21600 * k /\ 21600 * k <= l + 21600
    BY <1>1, <1>2, <1>6
  <2> HIDE DEF k, e
  <2> QED BY <1>6, <2>1 DEF IsNext
<1>7. ASSUME a = 8 PROVE IsNext(e, 3600 * a, l)
  <2> DEFINE k == 3 * d + q + 1
  <2>1. k \in Nat /\ e = 28800 * k /\ l < 28800 * k /\ 28800 * k <= l + 28800
    BY <1>1, <1>2, <1>7
  <2> HIDE DEF k, e
  <2> QED BY <1>7, <2>1 DEF IsNext
<1>8. ASSUME a = 12 PROVE IsNext(e, 3600 * a, l)
  <2> DEFINE k == 2 * d + q + 1
  <2>1. k \in Nat /\ e = 43200 * k /\ l < 43200 * k /\ 43200 * k <= l + 43200
    BY <1>1, <1>2, <1>8
  <2> HIDE DEF k, e
  <2> QED BY <1>8, <2>1 DEF IsNext
<1> HIDE DEF e
<1>9. IsNext(e, 3600 * a, l)
  BY <1>3, <1>4, <1>5, <1>6, <1>7, <1>8
<1> QED BY <1>9 DEF d, h, e

\* So are those of the days, in any calendar: the first day of the month cancels out.
LEMMA DayMarks ==
  ASSUME NEW l \in Nat
  PROVE  IsNext(86400 * (First(l) + Mark(1, DayOf(l) - First(l) + 1) - 1), 86400, l)
<1> DEFINE d == DayOf(l)
           f == First(l)
           k == d + 1
           e == 86400 * (f + Mark(1, d - f + 1) - 1)
<1>1. d \in Nat /\ f \in Nat /\ 86400 * d <= l /\ l < 86400 * d + 86400
  BY DayBounds
<1> HIDE DEF d, f
<1>2. Mark(1, d - f + 1) = d - f + 2
  BY <1>1 DEF Mark
<1>3. e = 86400 * k /\ k \in Nat /\ l < 86400 * k /\ 86400 * k <= l + 86400
  BY <1>1, <1>2
<1> HIDE DEF k, e
<1>4. IsNext(e, 86400, l)
  BY <1>3 DEF IsNext
<1> QED BY <1>4 DEF d, f, e

\* But for periods of seven days, the end of the interval is, in local time, the
\* next multiple of the period.
LEMMA Grid ==
  ASSUME NEW p \in RollPeriods, p # "days_7", NEW t \in Nat
  PROVE  /\ Secs(p) \in Nat \ {0}
         /\ NextMark(p, t) \in Int
         /\ IsNext(NextMark(p, t) + Offset(IsDst(t)), Secs(p), Local(t))
<1> DEFINE l == Local(t)
           off == Offset(IsDst(t))
<1>1. l \in Nat /\ off \in Int
  BY LocalTime
<1>2. ASSUME NEW e, NEW n \in Nat \ {0}, NextMark(p, t) = e - off, IsNext(e, n, l), Secs(p) = n
      PROVE  /\ Secs(p) \in Nat \ {0} /\ NextMark(p, t) \in Int
             /\ IsNext(NextMark(p, t) + off, Secs(p), l)
  <2> HIDE DEF l, off
  <2>1. e \in Int
    BY <1>2 DEF IsNext
  <2>2. NextMark(p, t) \in Int /\ NextMark(p, t) + off = e
    BY <1>1, <1>2, <2>1
  <2> QED BY <1>2, <2>2
<1>3. CASE Field(p) = "min" /\ Amount(p) \in {5, 15, 30} /\ Secs(p) = 60 * Amount(p)
  <2> DEFINE e == 86400 * DayOf(l) + 3600 * HourOf(l) + 60 * Mark(Amount(p), MinOf(l))
  <2>1. NextMark(p, t) = e - off
    BY <1>3, NextMarkOf
  <2> HIDE DEF l, off
  <2>2. IsNext(e, 60 * Amount(p), l)
    BY <1>1, <1>3, MinuteMarks
  <2>3. Secs(p) \in Nat \ {0}
    BY <1>3
  <2> HIDE DEF e
  <2> QED BY <1>2, <1>3, <2>1, <2>2, <2>3 DEF l, off
<1>4. CASE Field(p) = "hour" /\ Amount(p) \in {1, 2, 4, 6, 8, 12} /\ Secs(p) = 3600 * Amount(p)
  <2> DEFINE e == 86400 * DayOf(l) + 3600 * Mark(Amount(p), HourOf(l))
  <2>1. NextMark(p, t) = e - off
    BY <1>4, NextMarkOf
  <2> HIDE DEF l, off
  <2>2. IsNext(e, 3600 * Amount(p), l)
    BY <1>1, <1>4, HourMarks
  <2>3. Secs(p) \in Nat \ {0}
    BY <1>4
  <2> HIDE DEF e
  <2> QED BY <1>2, <1>4, <2>1, <2>2, <2>3 DEF l, off
<1>5. CASE Field(p) = "mday" /\ Amount(p) = 1 /\ Secs(p) = 86400
  <2> DEFINE e == 86400 * (First(l) + Mark(Amount(p), DayOf(l) - First(l) + 1) - 1)
  <2>1. NextMark(p, t) = e - off
    BY <1>5, NextMarkOf
  <2> HIDE DEF l, off
  <2>2. IsNext(e, 86400, l)
    BY <1>1, <1>5, DayMarks
  <2> HIDE DEF e
  <2> QED BY <1>2, <1>5, <2>1, <2>2 DEF l, off
<1> QED
  BY <1>3, <1>4, <1>5, Infos

\* Two times between the same multiples have the same next one.
LEMMA SameNext ==
  ASSUME NEW n \in Nat \ {0}, NEW l0 \in Nat, NEW l1 \in Nat, NEW e0, NEW e1,
         IsNext(e0, n, l0), IsNext(e1, n, l1), l0 <= l1, l1 < e0
  PROVE  e0 = e1
<1>1. PICK k0 \in Nat : e0 = n * k0 /\ l0 < n * k0 /\ n * k0 <= l0 + n
  BY DEF IsNext
<1>2. PICK k1 \in Nat : e1 = n * k1 /\ l1 < n * k1 /\ n * k1 <= l1 + n
  BY DEF IsNext
<1>3. \A j, k \in Nat : j < k => n * j + n <= n * k
  <2> SUFFICES ASSUME NEW j \in Nat, NEW k \in Nat, j < k PROVE n * j + n <= n * k
    OBVIOUS
  <2> DEFINE i == k - j - 1
  <2>1. i \in Nat /\ k = j + 1 + i
    OBVIOUS
  <2> HIDE DEF i
  <2>2. n * k = n * j + n + n * i /\ n * i \in Nat /\ n * j \in Nat
    BY <2>1
  <2> QED BY <2>2
<1>4. n * k0 \in Nat /\ n * k1 \in Nat
  OBVIOUS
<1>5. ~(k0 < k1) /\ ~(k1 < k0)
  BY <1>1, <1>2, <1>3, <1>4
<1>6. k0 = k1
  BY <1>5
<1> QED BY <1>1, <1>2, <1>6

\* Periods of seven days end with a day of the month that is a multiple of 7.
LEMMA Week ==
  ASSUME NEW t \in Nat
  PROVE  \E q \in Nat :
           /\ NextMark("days_7", t) + Offset(IsDst(t)) = 86400 * (First(Local(t)) + 7 * q + 6)
           /\ NextMark("days_7", t) \in Int
           /\ 7 * q <= DayOf(Local(t)) - First(Local(t)) + 1
           /\ DayOf(Local(t)) - First(Local(t)) + 1 < 7 * q + 7
<1> DEFINE l == Local(t)
           off == Offset(IsDst(t))
           v == DayOf(l) - First(l) + 1
<1>1. l \in Nat /\ off \in Int
  BY LocalTime
<1>2. "days_7" \in RollPeriods /\ Field("days_7") = "mday" /\ Amount("days_7") = 7
  BY DEF RollPeriods, IncrementInfo, Info, Field, Amount
<1>3. NextMark("days_7", t) = 86400 * (First(l) + Mark(7, v) - 1) - off
  BY <1>2, NextMarkOf
<1> HIDE DEF l, off
<1>4. DayOf(l) \in Nat /\ First(l) \in Nat /\ v \in Nat
  <2>1. DayOf(l) \in Nat /\ First(l) \in Nat /\ First(l) <= DayOf(l)
    BY <1>1, DayBounds
  <2> QED BY <2>1
<1> HIDE DEF v
<1>5. PICK q \in Nat : Mark(7, v) = 7 * q + 7 /\ 7 * q <= v /\ v < 7 * q + 7
  <2> DEFINE a == 7
  <2>1. a \in Nat \ {0}
    OBVIOUS
  <2> HIDE DEF a
  <2>2. \E q \in Nat : Mark(a, v) = a * q + a /\ a * q <= v /\ v < a * q + a
    BY <1>4, <2>1, MarkOf
  <2> QED BY <2>2 DEF a
<1>6. NextMark("days_7", t) \in Int /\ NextMark("days_7", t) + off = 86400 * (First(l) + 7 * q + 6)
  BY <1>1, <1>3, <1>4, <1>5
<1> QED BY <1>5, <1>6 DEF l, off, v

-----------------------------------------------------------------------------
(* The interval                                                            *)

\* NextMark is later than t, by at most the period.
LEMMA SpansIts ==
  ASSUME NEW p \in RollPeriods, NEW t \in Nat
  PROVE  /\ NextMark(p, t) \in Int /\ Secs(p) \in Nat
         /\ NextMark(p, t) - Secs(p) <= t /\ t < NextMark(p, t)
<1> DEFINE l == Local(t)
           off == Offset(IsDst(t))
<1>1. l \in Nat /\ off \in Int /\ l = t + off
  BY LocalTime
<1>2. CASE p # "days_7"
  <2>1. /\ Secs(p) \in Nat \ {0} /\ NextMark(p, t) \in Int
        /\ IsNext(NextMark(p, t) + off, Secs(p), l)
    BY <1>2, Grid
  <2> HIDE DEF l, off
  <2>2. l < NextMark(p, t) + off /\ NextMark(p, t) + off <= l + Secs(p)
    BY <2>1 DEF IsNext
  <2> QED BY <1>1, <2>1, <2>2
<1>3. CASE p = "days_7"
  <2>1. Secs(p) = 604800
    BY <1>3 DEF IncrementInfo, Info, Secs
  <2>2. PICK q \in Nat :
          /\ NextMark(p, t) + off = 86400 * (First(l) + 7 * q + 6)
          /\ NextMark(p, t) \in Int
          /\ 7 * q <= DayOf(l) - First(l) + 1 /\ DayOf(l) - First(l) + 1 < 7 * q + 7
    BY <1>3, Week
  <2> HIDE DEF l, off
  <2> DEFINE d == DayOf(l)
             f == First(l)
             e == NextMark(p, t) + off
  <2>3. d \in Nat /\ f \in Nat /\ 86400 * d <= l /\ l < 86400 * d + 86400
    BY <1>1, DayBounds
  <2>4. e = 86400 * (f + 7 * q + 6) /\ 7 * q <= d - f + 1 /\ d - f + 1 < 7 * q + 7
    BY <2>2
  <2> HIDE DEF d, f, e
  <2>5. l < e /\ e <= l + 604800
    BY <1>1, <2>3, <2>4
  <2> QED BY <1>1, <2>1, <2>2, <2>5 DEF e
<1> QED BY <1>2, <1>3

\* Until the interval ends, NextMark stays the same, on the conditions of
\* SameInterval.
LEMMA Same ==
  ASSUME NEW p \in RollPeriods, NEW t \in Nat, NEW u \in Nat, t <= u, u < NextMark(p, t),
         IsDst(t) = IsDst(u),
         p = "days_7" => localtime(u).mon = localtime(t).mon
  PROVE  NextMark(p, u) = NextMark(p, t)
<1> DEFINE off == Offset(IsDst(t))
           l0 == Local(t)
           l1 == Local(u)
           e0 == NextMark(p, t) + off
           e1 == NextMark(p, u) + off
<1>1. /\ off \in Int /\ off = Offset(IsDst(u))
      /\ l0 \in Nat /\ l0 = t + off /\ l1 \in Nat /\ l1 = u + off /\ l0 <= l1
  BY LocalTime
<1>2. NextMark(p, t) \in Int /\ NextMark(p, u) \in Int
  BY SpansIts
<1>3. l1 < e0
  BY <1>1, <1>2
<1>4. CASE p # "days_7"
  <2>1. Secs(p) \in Nat \ {0} /\ IsNext(e0, Secs(p), l0) /\ IsNext(e1, Secs(p), l1)
    BY <1>1, <1>4, Grid
  <2> HIDE DEF off, l0, l1, e0, e1
  <2>2. e0 = e1
    BY <1>1, <1>3, <2>1, SameNext
  <2> QED BY <1>1, <1>2, <2>2 DEF e0, e1
<1>5. CASE p = "days_7"
  <2>1. First(l0) = First(l1)
    BY <1>5 DEF localtime, First, DayOf, Local
  <2>2. PICK q0 \in Nat :
          /\ e0 = 86400 * (First(l0) + 7 * q0 + 6)
          /\ 7 * q0 <= DayOf(l0) - First(l0) + 1 /\ DayOf(l0) - First(l0) + 1 < 7 * q0 + 7
    BY <1>5, Week
  <2>3. PICK q1 \in Nat :
          /\ e1 = 86400 * (First(l1) + 7 * q1 + 6)
          /\ 7 * q1 <= DayOf(l1) - First(l1) + 1 /\ DayOf(l1) - First(l1) + 1 < 7 * q1 + 7
    BY <1>1, <1>5, Week
  <2> HIDE DEF off, l0, l1, e0, e1
  <2> DEFINE d0 == DayOf(l0)
             d1 == DayOf(l1)
             f == First(l0)
  <2>4. d0 \in Nat /\ f \in Nat /\ 86400 * d0 <= l0 /\ l0 < 86400 * d0 + 86400
    BY <1>1, DayBounds
  <2>5. d1 \in Nat /\ 86400 * d1 <= l1 /\ l1 < 86400 * d1 + 86400
    BY <1>1, DayBounds
  <2>6. /\ e0 = 86400 * (f + 7 * q0 + 6) /\ 7 * q0 <= d0 - f + 1 /\ d0 - f + 1 < 7 * q0 + 7
        /\ e1 = 86400 * (f + 7 * q1 + 6) /\ 7 * q1 <= d1 - f + 1 /\ d1 - f + 1 < 7 * q1 + 7
    BY <2>1, <2>2, <2>3
  <2> HIDE DEF d0, d1, f
  <2>7. d0 <= d1
    BY <1>1, <2>4, <2>5
  <2>8. d1 < f + 7 * q0 + 6
    BY <1>1, <1>3, <2>4, <2>5, <2>6
  <2>9. q0 = q1
    BY <2>4, <2>5, <2>6, <2>7, <2>8
  <2>10. e0 = e1
    BY <2>6, <2>9
  <2> QED BY <1>1, <1>2, <2>10 DEF e0, e1
<1> QED BY <1>4, <1>5

\* The end of the interval was computed from a time that is not in the future.
IInv ==
  /\ rp \in RollPeriods
  /\ now \in Nat
  /\ setAt \in Nat
  /\ setAt <= now
  /\ endTime = NextMark(rp, setAt)

\* The end of the interval is always the mark after setAt.
LEMMA Invariance == RollSpec => []IInv
<1>1. RollInit => IInv
  BY RollIntervalAssumption DEF RollInit, IInv
<1>2. IInv /\ [RollNext]_rollVars => IInv'
  <2> SUFFICES ASSUME IInv, [RollNext]_rollVars PROVE IInv'
    OBVIOUS
  <2>1. CASE SetToCurrent
    BY <2>1 DEF SetToCurrent, IInv
  <2>2. CASE Pass
    <3>1. PICK t \in {Step * (now \div Step + 1), endTime - 1, endTime} : t > now /\ now' = t
      BY <2>2 DEF Pass
    <3>2. UNCHANGED <<rp, endTime, setAt>>
      BY <2>2 DEF Pass
    <3>3. endTime \in Int
      BY SpansIts DEF IInv
    <3>4. Step * (now \div Step + 1) \in Int
      <4>1. now \div Step \in Int
        BY RollIntervalAssumption DEF IInv
      <4> QED BY <4>1, RollIntervalAssumption
    <3>5. now' \in Nat /\ now' > now
      BY <3>1, <3>3, <3>4 DEF IInv
    <3> QED BY <3>2, <3>5 DEF IInv
  <2>3. CASE UNCHANGED rollVars
    BY <2>3 DEF rollVars, IInv
  <2> QED BY <2>1, <2>2, <2>3 DEF RollNext
<1> QED BY <1>1, <1>2, PTL DEF RollSpec

\* SetToCurrent and the constructor give the interval that spans the time at which
\* they are called, in every month and on both sides of a change of daylight saving
\* time.
THEOREM IntervalSpansNow == RollSpec => []SpansNow
<1>1. IInv => SpansNow
  <2> SUFFICES ASSUME IInv PROVE SpansNow
    OBVIOUS
  <2>1. /\ NextMark(rp, setAt) - Secs(rp) <= setAt /\ setAt < NextMark(rp, setAt)
        /\ endTime = NextMark(rp, setAt)
    BY SpansIts DEF IInv
  <2> QED BY <2>1 DEF SpansNow, StartTime, Secs
<1> QED BY <1>1, Invariance, PTL

\* A LogFile that asks for the interval again before it is over, as each opening of
\* the file does, gets the same one, on the conditions of SameInterval.
THEOREM IntervalIsStable == RollSpec => []SameInterval
<1>1. IInv => SameInterval
  BY Same DEF IInv, SameInterval
<1> QED BY <1>1, Invariance, PTL
=============================================================================
