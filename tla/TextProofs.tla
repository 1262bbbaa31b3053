----------------------------- MODULE TextProofs -----------------------------
(***************************************************************************)
(* Proofs about texts: the reference grammar, which is a recursive         *)
(* function, satisfies its rules; and the validators, for every text and   *)
(* every nesting limit: Validate accepts exactly the documents of the      *)
(* grammar, Valid accepts the same, and a root value ends where the        *)
(* grammar says.                                                           *)
(***************************************************************************)
EXTENDS ValidFast, SequenceTheorems, WellFoundedInduction, TLAPS

-----------------------------------------------------------------------------
(***************************************************************************)
(* Induction over numbers, and definitions by recursion.                   *)
(***************************************************************************)

\* A set of numbers that is not empty has a least member.
LEMMA LeastNumber ==
    ASSUME NEW T, T \subseteq Nat, T # {}
    PROVE  \E x \in T : \A y \in T : x <= y
  <1> DEFINE R == OpToRel(<, Nat)
  <1>1. IsWellFoundedOn(R, Nat) BY NatLessThanWellFounded
  <1> HIDE DEF R
  <1>2. PICK x \in T : \A y \in T : ~ (<<y, x>> \in R) BY <1>1, WFMin
  <1>3. ASSUME NEW y \in T, y < x
        PROVE  FALSE
    <2>1. <<y, x>> \in R BY <1>3 DEF R, OpToRel
    <2>. QED BY <1>2, <2>1
  <1>. QED BY <1>3

\* A definition by recursion is met by a function: F is its right-hand side, as
\* a function of the function, and what it says of a point depends only on
\* points of lower rank.  W holds the functions that the recursion does not leave.
RecursionIn(F, D, W, rank) ==
    /\ F \in [W -> W]
    /\ \A f, h \in W : \A g \in D :
          (\A x \in D : rank[x] < rank[g] => f[x] = h[x]) => F[f][g] = F[h][g]

IsMetIn(F, W) == \E f \in W : F[f] = f

\* Of the functions that meet the equation below some rank, one for the next
\* rank is F of it: by the least rank that no function reaches.
LEMMA RecursionIsMetIn ==
    ASSUME NEW F, NEW D, NEW V, NEW W, W \subseteq [D -> V], NEW m \in Nat, NEW rank \in [D -> 0..m], NEW f0 \in W,
           RecursionIn(F, D, W, rank)
    PROVE  IsMetIn(F, W)
  <1> USE DEF RecursionIn, IsMetIn
  <1> DEFINE Met(f, k) == \A g \in D : rank[g] < k => F[f][g] = f[g]
             T == {k \in Nat : \A f \in W : ~Met(f, k)}
  <1>1. T = {}
    <2> SUFFICES ASSUME T # {} PROVE FALSE
      OBVIOUS
    <2>1. PICK k \in T : \A y \in T : k <= y BY LeastNumber
    <2>2. Met(f0, 0) OBVIOUS
    <2>3. k # 0 BY <2>1, <2>2
    <2>4. k - 1 \in Nat /\ k \in Nat /\ ~(k <= k - 1) BY <2>1, <2>3
    <2>5. PICK f \in W : Met(f, k - 1) BY <2>1, <2>4
    <2>6. F[f] \in W OBVIOUS
    <2>7. ASSUME NEW g \in D, rank[g] < k PROVE F[F[f]][g] = F[f][g]
      <3>1. ASSUME NEW x \in D, rank[x] < rank[g] PROVE F[f][x] = f[x]
        <4>1. rank[x] \in Nat /\ rank[g] \in Nat OBVIOUS
        <4>2. rank[x] < k - 1 BY <4>1, <2>4, <2>7, <3>1
        <4>. QED BY <2>5, <4>2
      <3>. QED BY <2>6, <3>1
    <2>8. Met(F[f], k) BY <2>7
    <2>. QED BY <2>1, <2>6, <2>8
  <1>2. PICK f \in W : Met(f, m + 1)
    <2>1. m + 1 \in Nat OBVIOUS
    <2> HIDE DEF Met
    <2>2. m + 1 \notin T
      <3> HIDE DEF T
      <3>. QED BY <1>1
    <2>. QED BY <2>1, <2>2
  <1>3. \A g \in D : F[f][g] = f[g]
    <2>1. \A g \in D : rank[g] \in Nat /\ rank[g] <= m OBVIOUS
    <2>. QED BY <1>2, <2>1
  <1>4. F[f] \in [D -> V] /\ f \in [D -> V] OBVIOUS
  <1>5. F[f] = f BY <1>3, <1>4
  <1>. QED BY <1>5

\* The same for every function from D to V.
Recursion(F, D, V, rank) ==
    /\ F \in [[D -> V] -> [D -> V]]
    /\ \A f, h \in [D -> V] : \A g \in D :
          (\A x \in D : rank[x] < rank[g] => f[x] = h[x]) => F[f][g] = F[h][g]

IsMet(F, D, V) == \E f \in [D -> V] : F[f] = f

LEMMA RecursionIsMet ==
    ASSUME NEW F, NEW D, NEW V, NEW m \in Nat, NEW rank \in [D -> 0..m], NEW f0 \in [D -> V],
           Recursion(F, D, V, rank)
    PROVE  IsMet(F, D, V)
  <1>1. RecursionIn(F, D, [D -> V], rank) BY Zenon DEF Recursion, RecursionIn
  <1>2. IsMetIn(F, [D -> V]) BY <1>1, RecursionIsMetIn
  <1>. QED BY <1>2, Zenon DEF IsMet, IsMetIn

\* SpanEnd is the end of a run.
LEMMA SpanEndIs ==
    ASSUME NEW src, Len(src) \in Nat, NEW i \in 0..Len(src), NEW S
    PROVE  /\ SpanEnd(src, i, S) \in i..Len(src)
           /\ \A k \in i..(SpanEnd(src, i, S) - 1) : At(src, k) \in S
           /\ SpanEnd(src, i, S) = Len(src) \/ At(src, SpanEnd(src, i, S)) \notin S
  <1> DEFINE n == Len(src)
             T == {j \in i..n : j = n \/ At(src, j) \notin S}
  <1>1. T \subseteq Nat /\ n \in T OBVIOUS
  <1>2. PICK j \in T : \A y \in T : j <= y BY <1>1, LeastNumber
  <1>3. j \in i..n /\ (j = n \/ At(src, j) \notin S) BY <1>2
  <1>4. ASSUME NEW k \in i..(j - 1) PROVE At(src, k) \in S
    <2>1. k \in i..n /\ ~(j <= k) BY <1>3
    <2>. QED BY <1>2, <2>1
  <1>5. \E x \in i..Len(src) : /\ \A k \in i..(x - 1) : At(src, k) \in S
                               /\ x = Len(src) \/ At(src, x) \notin S
    BY <1>3, <1>4
  <1>. QED BY <1>5 DEF SpanEnd

\* A run that begins with another byte is empty.
LEMMA EmptySpan ==
    ASSUME NEW src, Len(src) \in Nat, NEW i \in 0..(Len(src) - 1), NEW S, At(src, i) \notin S
    PROVE  SpanEnd(src, i, S) = i
  <1>1. i \in 0..Len(src) OBVIOUS
  <1>2. /\ SpanEnd(src, i, S) \in i..Len(src)
        /\ \A k \in i..(SpanEnd(src, i, S) - 1) : At(src, k) \in S
    BY <1>1, SpanEndIs
  <1>. QED BY <1>2

\* What holds at k when it holds behind k, holds up to n.
LEMMA Downward ==
    ASSUME NEW n \in Nat, NEW Q, \A k \in 0..n : (\A x \in 0..n : k < x => x \in Q) => k \in Q
    PROVE  \A k \in 0..n : k \in Q
  <1> DEFINE T == {n - k : k \in {x \in 0..n : x \notin Q}}
  <1> SUFFICES ASSUME NEW a \in 0..n, a \notin Q PROVE FALSE
    OBVIOUS
  <1>1. T \subseteq Nat /\ n - a \in T
    OBVIOUS
  <1>2. PICK l \in T : \A y \in T : l <= y
    <2> HIDE DEF T
    <2>. QED
      BY <1>1, LeastNumber
  <1>3. PICK k \in 0..n : k \notin Q /\ l = n - k
    BY <1>2
  <1>4. ASSUME NEW x \in 0..n, k < x PROVE x \in Q
    <2> SUFFICES ASSUME x \notin Q PROVE FALSE
      OBVIOUS
    <2>1. n - x \in T /\ n - x < n - k
      BY <1>4
    <2> HIDE DEF T
    <2>2. n - k <= n - x
      BY <1>2, <1>3, <2>1
    <2>. QED
      BY <2>1, <2>2
  <1>. QED
    BY <1>3, <1>4

-----------------------------------------------------------------------------
(***************************************************************************)
(* The grammar over spans.                                                 *)
(***************************************************************************)
Spans(n) == {"value", "elements", "members"} \X (0..n) \X (0..n) \X (0..MaxDepth)

\* What the grammar G says of a span, by its rules.
Grammar(src, G, g) ==
    CASE g[1] = "value"    -> ValueRule(src, G, g[2], g[3], g[4])
      [] g[1] = "elements" -> ElementsRule(src, G, g[2], g[3], g[4])
      [] g[1] = "members"  -> MembersRule(src, G, g[2], g[3], g[4])

\* Shorter spans come first, and of one span the value.
Rank(n, g) == 2 * (g[3] - g[2] + n) + IF g[1] = "value" THEN 0 ELSE 1

\* Two grammars that agree on the spans inside agree on white space around.
LEMMA PaddedAgrees ==
    ASSUME NEW src, Len(src) \in Nat, NEW f, NEW h, NEW r, NEW a \in 0..Len(src), NEW b \in Nat, NEW d,
           \A s, p \in a..b : s < p => (f[<<r, s, p, d>>] <=> h[<<r, s, p, d>>])
    PROVE  Padded(src, f, r, a, b, d) <=> Padded(src, h, r, a, b, d)
  <1> DEFINE s == SpanEnd(src, a, Space)
  <1>1. s \in Nat /\ s >= a BY SpanEndIs
  <1> HIDE DEF s
  <1>2. ASSUME NEW p \in s..b, s < p PROVE f[<<r, s, p, d>>] <=> h[<<r, s, p, d>>]
    <2>1. s \in a..b /\ p \in a..b BY <1>1, <1>2
    <2>. QED BY <1>2, <2>1
  <1>. QED BY <1>2 DEF Padded, s

\* A rule reads the grammar at spans of lower rank only.
LEMMA GrammarAgrees ==
    ASSUME NEW src, Len(src) \in Nat, NEW f \in [Spans(Len(src)) -> BOOLEAN],
           NEW h \in [Spans(Len(src)) -> BOOLEAN], NEW g \in Spans(Len(src)),
           \A x \in Spans(Len(src)) : Rank(Len(src), x) < Rank(Len(src), g) => f[x] = h[x]
    PROVE  Grammar(src, f, g) <=> Grammar(src, h, g)
  <1> DEFINE n == Len(src)
             i == g[2]
             j == g[3]
             d == g[4]
  <1>1. i \in 0..n /\ j \in 0..n /\ d \in 0..MaxDepth /\ n \in Nat /\ MaxDepth \in Nat
        /\ g[1] \in {"value", "elements", "members"} /\ g = <<g[1], i, j, d>>
    BY MaxDepthAssumption DEF Spans
  <1>2. ASSUME NEW r \in {"value", "elements", "members"}, NEW s \in 0..n, NEW p \in 0..n, NEW e \in 0..MaxDepth,
               p - s < j - i \/ (p - s = j - i /\ r = "value" /\ g[1] # "value")
        PROVE  f[<<r, s, p, e>>] <=> h[<<r, s, p, e>>]
    <2> DEFINE x == <<r, s, p, e>>
    <2>1. x \in Spans(n) /\ x[1] = r /\ x[2] = s /\ x[3] = p BY DEF Spans
    <2> HIDE DEF x
    <2> HIDE DEF n, i, j
    <2>3. /\ Rank(n, x) \in {2 * (p - s + n), 2 * (p - s + n) + 1}
          /\ r = "value" => Rank(n, x) = 2 * (p - s + n)
      BY <2>1, <1>1, SMTT(30) DEF Rank
    <2>4. /\ Rank(n, g) \in {2 * (j - i + n), 2 * (j - i + n) + 1}
          /\ g[1] # "value" => Rank(n, g) = 2 * (j - i + n) + 1
      BY <1>1, SMTT(30) DEF Rank, i, j
    <2>2. Rank(n, x) < Rank(n, g)
      <3> HIDE DEF Rank
      <3>1. i \in Int /\ j \in Int /\ n \in Int /\ s \in Int /\ p \in Int
        BY <1>1
      <3>2. CASE p - s < j - i
        <4>1. 2 * (p - s + n) + 1 < 2 * (j - i + n) BY <3>1, <3>2
        <4>. QED BY <3>1, <4>1, <2>3, <2>4
      <3>3. CASE p - s = j - i /\ r = "value" /\ g[1] # "value"
        BY <3>1, <3>3, <2>3, <2>4
      <3>. QED BY <1>2, <3>2, <3>3
    <2> USE DEF n
    <2>5. f[x] = h[x] BY <2>1, <2>2
    <2>. QED BY <2>5 DEF x
  <1>3. ASSUME NEW r \in {"value", "elements", "members"}, NEW a \in 0..n, NEW b \in 0..n, NEW e \in 0..MaxDepth,
               b - a < j - i
        PROVE  Padded(src, f, r, a, b, e) <=> Padded(src, h, r, a, b, e)
    <2>1. ASSUME NEW s \in a..b, NEW p \in a..b PROVE f[<<r, s, p, e>>] <=> h[<<r, s, p, e>>]
      <3>1. s \in 0..n /\ p \in 0..n /\ p - s < j - i BY <1>1, <1>3, SMTT(30)
      <3>. QED BY <3>1, <1>2
    <2>. QED BY <2>1, PaddedAgrees
  <1> HIDE DEF n, i, j, d
  <1>4. CASE g[1] = "value"
    <2>1. ASSUME i + 1 < j, d < MaxDepth, NEW r \in {"elements", "members"}
          PROVE  Padded(src, f, r, i + 1, j - 1, d + 1) <=> Padded(src, h, r, i + 1, j - 1, d + 1)
      <3>1. i + 1 \in 0..n /\ j - 1 \in 0..n /\ d + 1 \in 0..MaxDepth /\ (j - 1) - (i + 1) < j - i
        BY <1>1, <2>1, SMTT(30)
      <3>. QED BY <3>1, <1>3
    <2>2. ASSUME i + 1 < j, NEW r \in {"elements", "members"}
          PROVE  Bracketed(src, f, r, i, j, d) <=> Bracketed(src, h, r, i, j, d)
      BY <2>1, <2>2 DEF Bracketed
    <2>3. ValueRule(src, f, i, j, d) <=> ValueRule(src, h, i, j, d)
      BY <2>2 DEF ValueRule
    <2>. QED BY <1>4, <2>3 DEF Grammar, i, j, d
  <1>5. CASE g[1] = "elements"
    <2>1. f[<<"value", i, j, d>>] <=> h[<<"value", i, j, d>>]
      BY <1>1, <1>2, <1>5
    <2>2. ASSUME NEW k \in i..(j - 1)
          PROVE  /\ Padded(src, f, "value", i, k, d) <=> Padded(src, h, "value", i, k, d)
                 /\ Padded(src, f, "elements", k + 1, j, d) <=> Padded(src, h, "elements", k + 1, j, d)
      <3>1. k \in 0..n /\ k + 1 \in 0..n /\ k - i < j - i /\ j - (k + 1) < j - i
        BY <1>1, <2>2, SMTT(30)
      <3>2. Padded(src, f, "value", i, k, d) <=> Padded(src, h, "value", i, k, d) BY <3>1, <1>1, <1>3
      <3>3. Padded(src, f, "elements", k + 1, j, d) <=> Padded(src, h, "elements", k + 1, j, d) BY <3>1, <1>1, <1>3
      <3>. QED BY <3>2, <3>3
    <2>3. ElementsRule(src, f, i, j, d) <=> ElementsRule(src, h, i, j, d)
      BY <2>1, <2>2 DEF ElementsRule
    <2>. QED BY <1>5, <2>3 DEF Grammar, i, j, d
  <1>6. CASE g[1] = "members"
    <2>1. ASSUME NEW k \in i..(j - 1)
          PROVE  Padded(src, f, "value", k + 1, j, d) <=> Padded(src, h, "value", k + 1, j, d)
      <3>1. PICK a \in 0..n : a = k + 1 /\ j \in 0..n /\ d \in 0..MaxDepth /\ j - a < j - i BY <1>1, <2>1, SMTT(60)
      <3>2. Padded(src, f, "value", a, j, d) <=> Padded(src, h, "value", a, j, d) BY <3>1, <1>3
      <3>. QED BY <3>1, <3>2
    <2>2. ASSUME NEW k \in i..(j - 1), NEW m \in (k + 1)..(j - 1)
          PROVE  /\ Padded(src, f, "value", k + 1, m, d) <=> Padded(src, h, "value", k + 1, m, d)
                 /\ Padded(src, f, "members", m + 1, j, d) <=> Padded(src, h, "members", m + 1, j, d)
      <3>1. /\ k + 1 \in 0..n /\ m \in 0..n /\ m + 1 \in 0..n
            /\ m - (k + 1) < j - i /\ j - (m + 1) < j - i
        <4>1. i \in Int /\ j \in Int /\ k \in Int /\ m \in Int /\ i >= 0 /\ j <= n /\ n \in Int
          BY <1>1
        <4>2. i <= k /\ k <= j - 1 /\ k + 1 <= m /\ m <= j - 1 BY <4>1
        <4>. QED BY <4>1, <4>2
      <3>. QED BY <3>1, <1>1, <1>3
    <2>3. MembersRule(src, f, i, j, d) <=> MembersRule(src, h, i, j, d)
      BY <2>1, <2>2 DEF MembersRule
    <2>. QED BY <1>6, <2>3 DEF Grammar, i, j, d
  <1>. QED BY <1>1, <1>4, <1>5, <1>6

\* The reference grammar is what its rules say it is: the function that
\* JsonValue chooses exists, so it satisfies its own definition.
THEOREM GrammarIs ==
    ASSUME NEW src, Len(src) \in Nat, NEW g \in Spans(Len(src))
    PROVE  JsonValue(src)[g] <=> Grammar(src, JsonValue(src), g)
  <1> DEFINE n == Len(src)
             D == Spans(n)
             F == [f \in [D -> BOOLEAN] |-> [x \in D |-> Grammar(src, f, x)]]
             rank == [x \in D |-> Rank(n, x)]
  <1>1. ASSUME NEW f \in [D -> BOOLEAN], NEW x \in D PROVE Grammar(src, f, x) \in BOOLEAN
    <2>1. x[1] \in {"value", "elements", "members"} BY DEF Spans
    <2>2. ValueRule(src, f, x[2], x[3], x[4]) \in BOOLEAN BY DEF ValueRule
    <2>3. ElementsRule(src, f, x[2], x[3], x[4]) \in BOOLEAN BY DEF ElementsRule
    <2>4. MembersRule(src, f, x[2], x[3], x[4]) \in BOOLEAN BY DEF MembersRule
    <2>. QED BY <2>1, <2>2, <2>3, <2>4 DEF Grammar
  <1>2. F \in [[D -> BOOLEAN] -> [D -> BOOLEAN]] BY <1>1
  <1>3. rank \in [D -> 0..(4 * n + 1)] /\ 4 * n + 1 \in Nat
    <2>1. ASSUME NEW x \in D PROVE Rank(n, x) \in 0..(4 * n + 1)
      <3>1. x[2] \in 0..n /\ x[3] \in 0..n BY DEF Spans
      <3>2. Rank(n, x) \in {2 * (x[3] - x[2] + n), 2 * (x[3] - x[2] + n) + 1}
        BY <3>1 DEF Rank
      <3>. QED BY <3>1, <3>2, SMTT(60)
    <2>. QED BY <2>1
  <1>4. [x \in D |-> FALSE] \in [D -> BOOLEAN] OBVIOUS
  <1>5. ASSUME NEW f \in [D -> BOOLEAN], NEW h \in [D -> BOOLEAN], NEW y \in D,
               \A x \in D : rank[x] < rank[y] => f[x] = h[x]
        PROVE  F[f][y] = F[h][y]
    <2>1. Grammar(src, f, y) <=> Grammar(src, h, y) BY <1>5, GrammarAgrees
    <2>2. Grammar(src, f, y) \in BOOLEAN /\ Grammar(src, h, y) \in BOOLEAN
      BY <1>1
    <2> HIDE DEF D
    <2>. QED BY <2>1, <2>2
  <1>6. \E f \in [D -> BOOLEAN] : F[f] = f
    <2> DEFINE V == BOOLEAN
               m == 4 * n + 1
               f0 == [x \in D |-> FALSE]
    <2>1. m \in Nat /\ rank \in [D -> 0..m] /\ f0 \in [D -> V] BY <1>3, <1>4
    <2>2. Recursion(F, D, V, rank) BY <1>2, <1>5 DEF Recursion
    <2> HIDE DEF D, V, F, rank, m, f0
    <2>3. IsMet(F, D, V) BY <2>1, <2>2, RecursionIsMet
    <2>. QED BY <2>3 DEF V, IsMet
  <1>7. \E f : f = [x \in D |-> Grammar(src, f, x)] BY <1>6
  <1>8. JsonValue(src) = CHOOSE f : f = [x \in D |-> Grammar(src, f, x)]
    BY DEF JsonValue, Grammar, Spans
  <1>9. JsonValue(src) = [x \in D |-> Grammar(src, JsonValue(src), x)]
    <2> HIDE DEF D
    <2>. QED BY <1>7, <1>8
  <1>. QED BY <1>9

\* What IsString computes of a text from offset i on.
Chars(src, i, f) ==
    [k \in 0..Len(src) |->
        \/ k = i + 1
        \/ \E c \in {k - 1, k - 2, k - 6, k - 12} \cap (i + 1)..k : IsChar(src, c, k) /\ f[c]]

Quote == "\""

\* The run of characters that IsString follows from the quote at i on.
CharsFrom(src, i) == CHOOSE f : f = Chars(src, i, f)

\* It is a function, and IsString asks whether it reaches the closing quote.
LEMMA CharsAre ==
    ASSUME NEW src, Len(src) \in Nat, NEW i \in Nat
    PROVE  /\ \A k \in 0..Len(src) :
                CharsFrom(src, i)[k] <=>
                   \/ k = i + 1
                   \/ \E c \in {k - 1, k - 2, k - 6, k - 12} \cap (i + 1)..k :
                          IsChar(src, c, k) /\ CharsFrom(src, i)[c]
           /\ \A j : IsString(src, i, j) <=>
                       i + 1 < j /\ At(src, i) = Quote /\ At(src, j - 1) = Quote /\ CharsFrom(src, i)[j - 1]
  <1> DEFINE n == Len(src)
             D == 0..n
             V == BOOLEAN
             F == [f \in [D -> V] |-> Chars(src, i, f)]
             rank == [k \in D |-> k]
             f0 == [k \in D |-> FALSE]
  <1>1. \A f \in [D -> V] : Chars(src, i, f) \in [D -> V] BY DEF Chars
  <1>2. ASSUME NEW f \in [D -> V], NEW h \in [D -> V], NEW k \in D,
               \A x \in D : rank[x] < rank[k] => f[x] = h[x]
        PROVE  F[f][k] = F[h][k]
    <2>1. \A c \in {k - 1, k - 2, k - 6, k - 12} \cap (i + 1)..k : f[c] = h[c]
      <3>1. ASSUME NEW q \in {k - 1, k - 2, k - 6, k - 12} \cap (i + 1)..k PROVE f[q] = h[q]
        <4>1. k \in Nat /\ k <= n OBVIOUS
        <4>2. q \in Int /\ q >= i + 1 /\ q <= k /\ q # k BY <4>1
        <4>3. q \in D /\ q < k BY <4>1, <4>2
        <4>. QED BY <1>2, <4>3
      <3>. QED BY <3>1
    <2>2. Chars(src, i, f)[k] <=> Chars(src, i, h)[k] BY <2>1 DEF Chars
    <2>3. Chars(src, i, f)[k] \in BOOLEAN /\ Chars(src, i, h)[k] \in BOOLEAN
      BY <1>1
    <2> HIDE DEF D, V
    <2>. QED BY <2>2, <2>3
  <1>3. Recursion(F, D, V, rank) BY <1>1, <1>2 DEF Recursion
  <1>4. n \in Nat /\ rank \in [D -> 0..n] /\ f0 \in [D -> V] OBVIOUS
  <1>5. IsMet(F, D, V)
    <2> HIDE DEF n, D, V, F, rank, f0
    <2>. QED BY <1>3, <1>4, RecursionIsMet
  <1>6. \E f : f = Chars(src, i, f) BY <1>5 DEF IsMet
  <1>7. CharsFrom(src, i) = Chars(src, i, CharsFrom(src, i))
    BY <1>6 DEF CharsFrom
  <1>8. \A j : IsString(src, i, j) <=>
                 i + 1 < j /\ At(src, i) = Quote /\ At(src, j - 1) = Quote /\ CharsFrom(src, i)[j - 1]
    BY Zenon DEF IsString, CharsFrom, Chars, Quote
  <1> DEFINE c == CharsFrom(src, i)
  <1>9. c = Chars(src, i, c) BY <1>7
  <1> HIDE DEF c
  <1>10. \A k \in 0..Len(src) : c[k] <=> \/ k = i + 1
                                         \/ \E b \in {k - 1, k - 2, k - 6, k - 12} \cap (i + 1)..k :
                                                IsChar(src, b, k) /\ c[b]
    <2> TAKE k \in 0..Len(src)
    <2>1. Chars(src, i, c)[k] = (\/ k = i + 1
                                \/ \E b \in {k - 1, k - 2, k - 6, k - 12} \cap (i + 1)..k :
                                       IsChar(src, b, k) /\ c[b])
      BY Zenon DEF Chars
    <2>. QED BY <1>9, <2>1, Zenon
  <1>. QED BY <1>8, <1>10, Zenon DEF c

\* Two quotes that follow each other are a string.
LEMMA EmptyString ==
    ASSUME NEW src, Len(src) \in Nat, NEW i \in Nat, i + 2 <= Len(src),
           At(src, i) = Quote, At(src, i + 1) = Quote
    PROVE  IsString(src, i, i + 2)
  <1>1. i + 1 \in 0..Len(src) /\ (i + 2) - 1 = i + 1 /\ i + 1 < i + 2 OBVIOUS
  <1>2. CharsFrom(src, i)[i + 1] BY <1>1, CharsAre
  <1>. QED BY <1>1, <1>2, CharsAre

\* The bytes of containers by name: the solver cannot read their literals.
LBrace == "{"
RBrace == "}"
Comma  == ","
Colon  == ":"

RuleOf(kind)   == IF kind = "[" THEN "elements" ELSE "members"
CloserOf(kind) == IF kind = "[" THEN "]" ELSE RBrace

\* The two rules of a container, without the bytes that break the solver.
LEMMA ContainerRule ==
    ASSUME NEW kind \in {"[", LBrace}, NEW src, NEW G, NEW i \in Nat, NEW j \in Nat, NEW d, i + 1 < j,
           At(src, i) = kind, At(src, j - 1) = CloserOf(kind), Bracketed(src, G, RuleOf(kind), i, j, d)
    PROVE  ValueRule(src, G, i, j, d)
  <1>1. i < j OBVIOUS
  <1>2. CASE kind = "["
    <2>1. CloserOf(kind) = "]" /\ RuleOf(kind) = "elements"
      BY <1>2 DEF CloserOf, RuleOf
    <2>. QED BY <1>1, <1>2, <2>1, Zenon DEF ValueRule
  <1>3. CASE kind = LBrace
    <2>1. LBrace # "[" BY Zenon DEF LBrace
    <2>2. CloserOf(kind) = RBrace /\ RuleOf(kind) = "members"
      BY <1>3, <2>1 DEF CloserOf, RuleOf
    <2>. QED BY <1>1, <1>3, <2>2, Zenon DEF ValueRule, LBrace, RBrace
  <1>. QED BY <1>2, <1>3

\* The rule of a comma, without the byte that breaks the solver.
LEMMA ElementsComma ==
    ASSUME NEW src, NEW G, NEW i, NEW j, NEW d, NEW k \in i..(j - 1), At(src, k) = Comma,
           Padded(src, G, "value", i, k, d), Padded(src, G, "elements", k + 1, j, d)
    PROVE  ElementsRule(src, G, i, j, d)
  BY Zenon DEF ElementsRule, Comma

\* Likewise for members: a name, its value, a comma and more of them.
LEMMA MembersComma ==
    ASSUME NEW src, NEW G, NEW i, NEW j, NEW d, NEW k \in i..(j - 1), At(src, k) = Colon,
           NEW s \in i..k, IsString(src, i, s), SpanEnd(src, s, Space) = k,
           \/ Padded(src, G, "value", k + 1, j, d)
           \/ \E m \in (k + 1)..(j - 1) : /\ At(src, m) = Comma
                                          /\ Padded(src, G, "value", k + 1, m, d)
                                          /\ Padded(src, G, "members", m + 1, j, d)
    PROVE  MembersRule(src, G, i, j, d)
  BY Zenon DEF MembersRule, Comma, Colon

-----------------------------------------------------------------------------
(***************************************************************************)
(* What a scanner says of a construct, and what the grammar says of it.    *)
(***************************************************************************)

Messages ==
    { "", "invalid number exponent", "invalid number fraction", "invalid number",
      "invalid unicode escape", "missing low surrogate", "invalid low surrogate",
      "unexpected low surrogate", "invalid escape sequence", "unterminated string",
      "unterminated escape sequence", "unescaped control byte in string", "invalid UTF-8 in string",
      "invalid literal", "unterminated array", "expected comma or closing bracket in array",
      "maximum nesting depth exceeded", "expected colon after object key", "unterminated object",
      "expected comma or closing brace in object", "expected object key string", "expected value",
      "unexpected byte" }

\* The verdicts of a scan, and those that end a construct begun at i in a text of n bytes.
Verdicts == [end : Nat, msg : Messages]

\* A verdict without a message accepts.
LEMMA DoneIs == ASSUME NEW i \in Nat PROVE Done(i) \in Verdicts /\ ~IsError(Done(i)) /\ Done(i).end = i
  <1>1. "" \in Messages BY Zenon DEF Messages
  <1>. QED BY <1>1 DEF Done, Verdicts, IsError

Backslash == "\\"

Refusal(v) == v \in Verdicts /\ IsError(v)

\* One with a message refuses.
LEMMA FailIs == ASSUME NEW i \in Nat, NEW m \in Messages, m # "" PROVE Refusal(Fail(i, m))
  BY DEF Fail, Refusal, Verdicts, IsError

\* The refusals of parseString.
LEMMA Refusals == ASSUME NEW i \in Nat
   PROVE /\ Refusal(Fail(i, "invalid unicode escape")) /\ Refusal(Fail(i, "missing low surrogate"))
         /\ Refusal(Fail(i, "invalid low surrogate")) /\ Refusal(Fail(i, "unexpected low surrogate"))
         /\ Refusal(Fail(i, "invalid escape sequence")) /\ Refusal(Fail(i, "unterminated string"))
         /\ Refusal(Fail(i, "unterminated escape sequence")) /\ Refusal(Fail(i, "unescaped control byte in string"))
         /\ Refusal(Fail(i, "invalid UTF-8 in string"))
  BY FailIs, Zenon DEF Messages

\* A comparison with two bytes, byte by byte.
LEMMA MatchTwo ==
    ASSUME NEW src, Len(src) \in Nat, NEW i \in Nat, NEW a, NEW b
    PROVE  MatchAt(src, i, <<a, b>>) <=> (i + 2 <= Len(src) /\ At(src, i) = a /\ At(src, i + 1) = b)
  <1>1. Len(<<a, b>>) = 2 /\ <<a, b>>[0 + 1] = a /\ <<a, b>>[1 + 1] = b OBVIOUS
  <1>2. 0..(2 - 1) = {0, 1} /\ i + 0 = i OBVIOUS
  <1> DEFINE w == <<a, b>>
  <1>3. Len(w) = 2 /\ At(w, 0) = a /\ At(w, 1) = b BY <1>1 DEF At
  <1> HIDE DEF w
  <1>4. MatchAt(src, i, w) <=> (i + 2 <= Len(src) /\ At(src, i) = a /\ At(src, i + 1) = b)
    BY <1>2, <1>3 DEF MatchAt
  <1>. QED BY <1>4 DEF w

\* The string scan stops at a special byte or at the end.
LEMMA SpecialIs ==
    ASSUME NEW src, Len(src) \in Nat, NEW i \in 0..Len(src)
    PROVE  /\ scanStringSpecial(src, i) \in i..Len(src)
           /\ \A k \in i..(scanStringSpecial(src, i) - 1) : At(src, k) \notin StringSpecial
           /\ \/ scanStringSpecial(src, i) = Len(src)
              \/ At(src, scanStringSpecial(src, i)) \in StringSpecial
  <1> DEFINE S == {At(src, k) : k \in 0..Len(src)} \ StringSpecial
             j == SpanEnd(src, i, S)
  <1>1. /\ j \in i..Len(src)
        /\ \A k \in i..(j - 1) : At(src, k) \in S
        /\ j = Len(src) \/ At(src, j) \notin S
    <2> HIDE DEF S
    <2>. QED BY SpanEndIs
  <1> HIDE DEF j
  <1>2. \A k \in i..(j - 1) : At(src, k) \notin StringSpecial BY <1>1
  <1>3. j = Len(src) \/ At(src, j) \in StringSpecial BY <1>1
  <1> HIDE DEF S
  <1>4. \E x \in i..Len(src) : /\ \A k \in i..(x - 1) : At(src, k) \notin StringSpecial
                               /\ x = Len(src) \/ At(src, x) \in StringSpecial
    BY <1>1, <1>2, <1>3
  <1>. QED BY <1>4 DEF scanStringSpecial

\* There is one place where it stops.
LEMMA SpecialUnique ==
    ASSUME NEW src, Len(src) \in Nat, NEW i \in 0..Len(src), NEW j \in i..Len(src),
           \A k \in i..(j - 1) : At(src, k) \notin StringSpecial,
           j = Len(src) \/ At(src, j) \in StringSpecial
    PROVE  scanStringSpecial(src, i) = j
  <1> DEFINE s == scanStringSpecial(src, i)
  <1>1. /\ s \in i..Len(src)
        /\ \A k \in i..(s - 1) : At(src, k) \notin StringSpecial
        /\ s = Len(src) \/ At(src, s) \in StringSpecial
    BY SpecialIs
  <1> HIDE DEF s
  <1>2. ~(s < j) /\ ~(j < s) BY <1>1
  <1>3. s = j BY <1>1, <1>2
  <1>. QED BY <1>3 DEF s

\* An escape of one unit ends four digits after its u, i: one that is not a surrogate.
OneUnit(src, i) == Hex4(src, i + 1) /\ ~IsHighSurrogate(src, i + 1) /\ ~IsLowSurrogate(src, i + 1)

\* An escape of two units: the high half and the low half of a pair.
TwoUnits(src, i) ==
    /\ Hex4(src, i + 1) /\ IsHighSurrogate(src, i + 1)
    /\ At(src, i + 5) = Backslash /\ At(src, i + 6) = "u"
    /\ Hex4(src, i + 7) /\ IsLowSurrogate(src, i + 7)

\* validateUnicodeEscape accepts one unit that is no surrogate, or a whole pair.
LEMMA UnicodeEscapeIs ==
    ASSUME NEW src, Len(src) \in Nat, NEW i \in Nat, i > 0
    PROVE  LET v == validateUnicodeEscape(src, i)
           IN  \/ OneUnit(src, i) /\ v = Done(i + 5)
               \/ TwoUnits(src, i) /\ v = Done(i + 11)
               \/ ~OneUnit(src, i) /\ ~TwoUnits(src, i) /\ Refusal(v)
  <1> DEFINE v == validateUnicodeEscape(src, i)
             low == i + 5
             paired == low + 6 <= Len(src) /\ MatchAt(src, low, <<"\\", "u">>)
  <1>1. low + 2 = i + 7 /\ low + 1 = i + 6 /\ low + 6 = i + 11 /\ i - 1 \in Nat /\ low \in Nat
    OBVIOUS
  <1>2. MatchAt(src, low, <<"\\", "u">>) <=>
          (low + 2 <= Len(src) /\ At(src, low) = Backslash /\ At(src, low + 1) = "u")
    BY <1>1, MatchTwo DEF Backslash
  <1>3. Hex4(src, i + 7) => low + 6 <= Len(src) /\ low + 2 <= Len(src)
    BY <1>1 DEF Hex4
  <1>4. TwoUnits(src, i) <=>
          /\ Hex4(src, i + 1) /\ IsHighSurrogate(src, i + 1) /\ paired
          /\ Hex4(src, i + 7) /\ IsLowSurrogate(src, i + 7)
    BY <1>1, <1>2, <1>3 DEF TwoUnits
  <1>5. /\ ~Hex4(src, i + 1) => v = Fail(i - 1, "invalid unicode escape")
        /\ Hex4(src, i + 1) /\ IsHighSurrogate(src, i + 1) =>
             /\ ~paired => v = Fail(i - 1, "missing low surrogate")
             /\ paired /\ ~(Hex4(src, low + 2) /\ IsLowSurrogate(src, low + 2)) => v = Fail(i - 1, "invalid low surrogate")
             /\ paired /\ Hex4(src, low + 2) /\ IsLowSurrogate(src, low + 2) => v = Done(low + 6)
        /\ Hex4(src, i + 1) /\ ~IsHighSurrogate(src, i + 1) =>
             /\ IsLowSurrogate(src, i + 1) => v = Fail(i - 1, "unexpected low surrogate")
             /\ ~IsLowSurrogate(src, i + 1) => v = Done(low)
    <2>1. low + 6 > Len(src) <=> ~(low + 6 <= Len(src)) BY <1>1
    <2> HIDE DEF low
    <2>. QED BY <2>1, Zenon DEF validateUnicodeEscape, low
  <1>6. /\ Refusal(Fail(i - 1, "invalid unicode escape")) /\ Refusal(Fail(i - 1, "missing low surrogate"))
        /\ Refusal(Fail(i - 1, "invalid low surrogate")) /\ Refusal(Fail(i - 1, "unexpected low surrogate"))
    BY <1>1, Refusals
  <1> DEFINE h == Hex4(src, i + 1)
             s == IsHighSurrogate(src, i + 1)
             l == IsLowSurrogate(src, i + 1)
             g == Hex4(src, i + 7) /\ IsLowSurrogate(src, i + 7)
  <1>7. Hex4(src, low + 2) /\ IsLowSurrogate(src, low + 2) <=> g BY <1>1
  <1>8. Done(low + 6) = Done(i + 11) /\ Done(low) = Done(i + 5) BY <1>1
  <1> HIDE DEF v, low, paired
  <1>9. OneUnit(src, i) <=> h /\ ~s /\ ~l BY DEF OneUnit
  <1>10. TwoUnits(src, i) <=> h /\ s /\ paired /\ g BY <1>4
  <1>11. \/ ~h /\ Refusal(v)
         \/ h /\ s /\ ~paired /\ Refusal(v)
         \/ h /\ s /\ paired /\ ~g /\ Refusal(v)
         \/ h /\ s /\ paired /\ g /\ v = Done(i + 11)
         \/ h /\ ~s /\ l /\ Refusal(v)
         \/ h /\ ~s /\ ~l /\ v = Done(i + 5)
    BY <1>5, <1>6, <1>7, <1>8
  <1> HIDE DEF h, s, l, g
  <1>12. \/ OneUnit(src, i) /\ v = Done(i + 5)
         \/ TwoUnits(src, i) /\ v = Done(i + 11)
         \/ ~OneUnit(src, i) /\ ~TwoUnits(src, i) /\ Refusal(v)
    BY <1>9, <1>10, <1>11
  <1>. QED BY <1>12 DEF v

\* An escape, with its backslash at j, ends at e.
Escape(src, j, e) ==
    \/ e = j + 2 /\ At(src, j + 1) \in Escapable
    \/ e = j + 6 /\ At(src, j + 1) = "u" /\ OneUnit(src, j + 1)
    \/ e = j + 12 /\ At(src, j + 1) = "u" /\ TwoUnits(src, j + 1)

\* What the grammar calls a character at a backslash is an escape.
LEMMA EscapeIsChar ==
    ASSUME NEW src, NEW j \in Nat, NEW e, At(src, j) = Backslash
    PROVE  IsChar(src, j, e) <=> Escape(src, j, e)
  <1>1. /\ (j + 1) + 1 = j + 2 /\ (j + 1) + 5 = j + 6 /\ (j + 1) + 6 = j + 7 /\ (j + 1) + 7 = j + 8
    OBVIOUS
  <1>2. At(src, j) \in {"\"", "\\"} \cup Control \cup NonASCII /\ At(src, j) # "C2"
    BY Zenon DEF Backslash
  <1>3. /\ OneUnit(src, j + 1) <=>
             Hex4(src, j + 2) /\ ~IsHighSurrogate(src, j + 2) /\ ~IsLowSurrogate(src, j + 2)
        /\ TwoUnits(src, j + 1) <=>
             /\ Hex4(src, j + 2) /\ IsHighSurrogate(src, j + 2)
             /\ At(src, j + 6) = "\\" /\ At(src, j + 7) = "u"
             /\ Hex4(src, j + 8) /\ IsLowSurrogate(src, j + 8)
    BY <1>1, Zenon DEF OneUnit, TwoUnits, Backslash
  <1>4. At(src, j) = "\\" BY DEF Backslash
  <1>. QED BY <1>2, <1>3, <1>4, Zenon DEF IsChar, Escape

\* validateEscape ends an escape where the grammar does, and refuses what is none.
LEMMA EscapeIs ==
    ASSUME NEW src, Len(src) \in Nat, NEW j \in Nat, j + 1 < Len(src)
    PROVE  LET v == validateEscape(src, j + 1)
           IN  \/ \E e \in (j + 2)..Len(src) : Escape(src, j, e) /\ v = Done(e)
               \/ Refusal(v) /\ ~ \E e : Escape(src, j, e)
  <1> DEFINE v == validateEscape(src, j + 1)
             w == validateUnicodeEscape(src, j + 1)
             n == Len(src)
             simple == At(src, j + 1) \in Escapable
             unicode == At(src, j + 1) = "u"
  <1>1. /\ simple => v = Done((j + 1) + 1)
        /\ ~simple /\ unicode => v = w
        /\ ~simple /\ ~unicode => v = Fail((j + 1) - 1, "invalid escape sequence")
    BY Zenon DEF validateEscape
  <1>2. ~(simple /\ unicode) BY Zenon DEF Escapable
  <1>3. (j + 1) + 1 = j + 2 /\ (j + 1) - 1 = j /\ (j + 1) + 5 = j + 6 /\ (j + 1) + 11 = j + 12
        /\ (j + 1) + 7 = j + 8 /\ j + 1 \in Nat /\ j + 1 > 0
    OBVIOUS
  <1>4. \/ OneUnit(src, j + 1) /\ w = Done(j + 6)
        \/ TwoUnits(src, j + 1) /\ w = Done(j + 12)
        \/ ~OneUnit(src, j + 1) /\ ~TwoUnits(src, j + 1) /\ Refusal(w)
    BY <1>3, UnicodeEscapeIs
  <1>5. /\ OneUnit(src, j + 1) => j + 6 \in (j + 2)..n
        /\ TwoUnits(src, j + 1) => j + 12 \in (j + 2)..n
    <2>1. OneUnit(src, j + 1) => (j + 2) + 4 <= n BY <1>3 DEF OneUnit, Hex4
    <2>2. TwoUnits(src, j + 1) => (j + 8) + 4 <= n BY <1>3 DEF TwoUnits, Hex4
    <2>. QED BY <2>1, <2>2
  <1>6. Refusal(Fail(j, "invalid escape sequence")) BY Refusals
  <1>7. j + 2 \in (j + 2)..n OBVIOUS
  <1> HIDE DEF v, w, n
  <1>8. CASE simple BY <1>1, <1>2, <1>3, <1>7, <1>8 DEF Escape, v, n
  <1>9. CASE unicode
    <2>1. CASE OneUnit(src, j + 1)
      <3>1. w = Done(j + 6)
        <4>1. ~TwoUnits(src, j + 1) BY <2>1 DEF OneUnit, TwoUnits
        <4>. QED BY <2>1, <4>1, <1>4
      <3>. QED BY <1>1, <1>2, <1>5, <1>9, <2>1, <3>1 DEF Escape, v, n
    <2>2. CASE TwoUnits(src, j + 1)
      <3>1. w = Done(j + 12)
        <4>1. ~OneUnit(src, j + 1) BY <2>2 DEF OneUnit, TwoUnits
        <4>. QED BY <2>2, <4>1, <1>4
      <3>. QED BY <1>1, <1>2, <1>5, <1>9, <2>2, <3>1 DEF Escape, v, n
    <2>3. CASE ~OneUnit(src, j + 1) /\ ~TwoUnits(src, j + 1)
      <3>1. Refusal(w) BY <1>4, <2>3
      <3>. QED BY <1>1, <1>2, <1>9, <2>3, <3>1 DEF Escape, v, n
    <2>. QED BY <2>1, <2>2, <2>3
  <1>10. CASE ~simple /\ ~unicode BY <1>1, <1>3, <1>6, <1>10 DEF Escape, v, n
  <1>. QED BY <1>8, <1>9, <1>10

\* An escape ends in one place.
LEMMA EscapeUnique ==
    ASSUME NEW src, NEW j, NEW e, NEW f, Escape(src, j, e), Escape(src, j, f)
    PROVE  e = f
  <1>1. ~(At(src, j + 1) \in Escapable /\ At(src, j + 1) = "u")
    BY Zenon DEF Escapable
  <1>2. ~(OneUnit(src, j + 1) /\ TwoUnits(src, j + 1)) BY DEF OneUnit, TwoUnits
  <1>. QED BY <1>1, <1>2 DEF Escape

\* A scan of a string's characters: E[k] is the end of the string whose
\* characters go on at k, or NoValue.  It stops at each special byte, ends the
\* string at a quote, goes on after an escape or a rune, and accepts no more.
Scans(src, E) ==
    \A k \in 0..Len(src) :
       LET j == scanStringSpecial(src, k)
       IN  IF j < Len(src) /\ At(src, j) = Quote THEN E[k] = j + 1
           ELSE /\ \A e \in (j + 1)..Len(src) : IsChar(src, j, e) => E[k] = E[e]
                /\ (\A e \in (j + 1)..Len(src) : ~IsChar(src, j, e)) => E[k] = NoValue

\* The offsets a character can span, and what it begins with.
LEMMA CharSpan ==
    ASSUME NEW src, NEW j \in Nat, NEW e \in Nat, IsChar(src, j, e)
    PROVE  /\ j \in {e - 1, e - 2, e - 6, e - 12} /\ j < e
           /\ At(src, j) # Quote
           /\ At(src, j) \notin StringSpecial => e = j + 1
  <1>1. \/ e = j + 1 \/ e = j + 2 \/ e = j + 6 \/ e = j + 12 BY Zenon DEF IsChar
  <1>2. At(src, j) # Quote BY Zenon DEF IsChar, Quote
  <1>3. At(src, j) \notin StringSpecial => e = j + 1
    BY Zenon DEF IsChar, StringSpecial, NonASCII
  <1>. QED BY <1>1, <1>2, <1>3

\* A byte that is not special is a character.
LEMMA PlainChar ==
    ASSUME NEW src, NEW j \in Nat, At(src, j) \notin StringSpecial
    PROVE  IsChar(src, j, j + 1)
  BY Zenon DEF IsChar, StringSpecial

\* Scans, at one place of the string.
LEMMA ScansAt ==
    ASSUME NEW src, NEW E, Scans(src, E), NEW k \in 0..Len(src), NEW j, scanStringSpecial(src, k) = j
    PROVE  /\ j < Len(src) /\ At(src, j) = Quote => E[k] = j + 1
           /\ ~(j < Len(src) /\ At(src, j) = Quote) =>
                /\ \A e \in (j + 1)..Len(src) : IsChar(src, j, e) => E[k] = E[e]
                /\ (\A e \in (j + 1)..Len(src) : ~IsChar(src, j, e)) => E[k] = NoValue
  BY DEF Scans

\* A scan goes on after a character.
LEMMA ScanGoesOn ==
    ASSUME NEW src, Len(src) \in Nat, NEW E, Scans(src, E), NEW c \in 0..Len(src), NEW k \in (c + 1)..Len(src),
           IsChar(src, c, k)
    PROVE  E[c] = E[k]
  <1>1. /\ c \in Nat /\ k \in Nat /\ c < Len(src) /\ k \in 0..Len(src) OBVIOUS
  <1>2. CASE At(src, c) \in StringSpecial
    <2>1. scanStringSpecial(src, c) = c
      <3>1. c \in c..Len(src) /\ \A x \in c..(c - 1) : At(src, x) \notin StringSpecial
        OBVIOUS
      <3>. QED BY <1>2, <3>1, SpecialUnique
    <2>2. At(src, c) # Quote BY <1>1, CharSpan
    <2>. QED BY <1>1, <2>1, <2>2, ScansAt
  <1>3. CASE At(src, c) \notin StringSpecial
    <2>1. k = c + 1 BY <1>1, <1>3, CharSpan
    <2> DEFINE j == scanStringSpecial(src, k)
    <2>2. /\ j \in k..Len(src)
          /\ \A x \in k..(j - 1) : At(src, x) \notin StringSpecial
          /\ j = Len(src) \/ At(src, j) \in StringSpecial
      BY <1>1, SpecialIs
    <2> HIDE DEF j
    <2>3. scanStringSpecial(src, c) = j
      <3>1. j \in c..Len(src) BY <1>1, <2>2
      <3>2. \A x \in c..(j - 1) : At(src, x) \notin StringSpecial
        <4> TAKE x \in c..(j - 1)
        <4>1. x = c \/ x \in k..(j - 1) BY <1>1, <2>1, <2>2
        <4>. QED BY <1>3, <2>2, <4>1
      <3>. QED BY <2>2, <3>1, <3>2, SpecialUnique
    <2>4. /\ j < Len(src) /\ At(src, j) = Quote => E[c] = j + 1 /\ E[k] = j + 1
          /\ ~(j < Len(src) /\ At(src, j) = Quote) =>
                /\ \A e \in (j + 1)..Len(src) : IsChar(src, j, e) => E[c] = E[e] /\ E[k] = E[e]
                /\ (\A e \in (j + 1)..Len(src) : ~IsChar(src, j, e)) => E[c] = NoValue /\ E[k] = NoValue
      <3>1. scanStringSpecial(src, k) = j BY DEF j
      <3>. QED BY <1>1, <2>3, <3>1, ScansAt
    <2>. QED BY <2>4
  <1>. QED BY <1>2, <1>3

\* Every such scan recognises the strings of the grammar, and nothing else.
LEMMA ScanFindsString ==
    ASSUME NEW src, Len(src) \in Nat, NEW E, Scans(src, E), NEW i \in Nat, i < Len(src), At(src, i) = Quote,
           NEW j \in 0..Len(src), IsString(src, i, j)
    PROVE  E[i + 1] = j
  <1> DEFINE n == Len(src)
             C == CharsFrom(src, i)
             T == {k \in (i + 1)..n : C[k] /\ E[i + 1] # E[k]}
  <1>1. i + 1 < j /\ At(src, j - 1) = Quote /\ C[j - 1] BY CharsAre
  <1>2. \A k \in 0..n : C[k] <=> \/ k = i + 1
                                 \/ \E c \in {k - 1, k - 2, k - 6, k - 12} \cap (i + 1)..k : IsChar(src, c, k) /\ C[c]
    BY CharsAre
  <1> HIDE DEF C
  <1>3. T = {}
    <2> SUFFICES ASSUME T # {} PROVE FALSE
      OBVIOUS
    <2>1. T \subseteq Nat OBVIOUS
    <2>2. PICK k \in T : \A y \in T : k <= y
      <3> HIDE DEF T
      <3>. QED BY <2>1, LeastNumber
    <2>3. k \in (i + 1)..n /\ C[k] /\ E[i + 1] # E[k] /\ k \in 0..n /\ n \in Nat
      BY <2>2
    <2>4. PICK c \in {k - 1, k - 2, k - 6, k - 12} \cap (i + 1)..k : IsChar(src, c, k) /\ C[c]
      BY <1>2, <2>3
    <2>5. c \in (i + 1)..n /\ c < k /\ c \in 0..n /\ k \in (c + 1)..n
      BY <2>3, <2>4
    <2>6. E[c] = E[k] BY <2>4, <2>5, ScanGoesOn
    <2>7. c \notin T BY <2>2, <2>3, <2>5
    <2>. QED BY <2>3, <2>4, <2>5, <2>6, <2>7
  <1>4. j - 1 \in (i + 1)..n /\ j - 1 \in 0..n /\ j - 1 < n /\ (j - 1) + 1 = j
    BY <1>1
  <1>5. E[i + 1] = E[j - 1] BY <1>1, <1>3, <1>4
  <1>6. scanStringSpecial(src, j - 1) = j - 1
    <2>1. At(src, j - 1) \in StringSpecial
      BY <1>1, Zenon DEF StringSpecial, Quote
    <2>2. j - 1 \in (j - 1)..n /\ \A x \in (j - 1)..((j - 1) - 1) : At(src, x) \notin StringSpecial
      BY <1>4
    <2>. QED BY <1>4, <2>1, <2>2, SpecialUnique
  <1>7. E[j - 1] = (j - 1) + 1 BY <1>1, <1>4, <1>6, ScansAt
  <1>. QED BY <1>4, <1>5, <1>7

\* What is true of the end that the scan gives the characters at k.
Closed(src, i, E, k) ==
    E[k] = NoValue \/ (E[k] \in (k + 1)..Len(src) /\ At(src, E[k] - 1) = Quote /\ CharsFrom(src, i)[E[k] - 1])

\* Where a scan ends a string, the grammar reads one.
LEMMA ScanIsString ==
    ASSUME NEW src, Len(src) \in Nat, NEW E, Scans(src, E), NEW i \in Nat, i < Len(src), At(src, i) = Quote,
           E[i + 1] # NoValue
    PROVE  E[i + 1] \in (i + 2)..Len(src) /\ IsString(src, i, E[i + 1])
  <1> DEFINE n == Len(src)
             C == CharsFrom(src, i)
             T == {m \in 0..n : C[n - m] /\ n - m >= i + 1 /\ ~Closed(src, i, E, n - m)}
  <1>2. \A k \in 0..n : C[k] <=> \/ k = i + 1
                                 \/ \E c \in {k - 1, k - 2, k - 6, k - 12} \cap (i + 1)..k : IsChar(src, c, k) /\ C[c]
    BY CharsAre
  <1>3. T = {}
    <2> SUFFICES ASSUME T # {} PROVE FALSE
      OBVIOUS
    <2>1. T \subseteq Nat OBVIOUS
    <2>2. PICK m \in T : \A y \in T : m <= y
      <3> HIDE DEF T
      <3>. QED BY <2>1, LeastNumber
    <2> DEFINE k == n - m
    <2>3. k \in (i + 1)..n /\ C[k] /\ ~Closed(src, i, E, k) /\ k \in 0..n /\ n \in Nat /\ m = n - k
      BY <2>2
    <2>4. ASSUME NEW e \in (k + 1)..n, C[e] PROVE Closed(src, i, E, e)
      <3>1. n - e \in 0..n /\ n - e < m /\ n - (n - e) = e /\ e >= i + 1 /\ m \in Nat
        BY <2>3
      <3>2. n - e \notin T BY <2>2, <3>1, SMTT(30)
      <3>. QED BY <2>4, <3>1, <3>2
    <2> HIDE DEF k, C
    <2>5. ASSUME NEW e \in (k + 1)..n, IsChar(src, k, e) PROVE FALSE
      <3>1. E[k] = E[e] BY <2>3, <2>5, ScanGoesOn
      <3>2. k \in {e - 1, e - 2, e - 6, e - 12} /\ k \in (i + 1)..e /\ e \in 0..n
        <4>1. k \in Nat /\ e \in Nat BY <2>3
        <4>2. k \in {e - 1, e - 2, e - 6, e - 12} /\ k < e
          BY <2>5, <4>1, CharSpan
        <4>. QED BY <2>3, <4>1, <4>2
      <3>3. C[e] BY <1>2, <2>3, <2>5, <3>2
      <3>4. Closed(src, i, E, e) BY <2>4, <3>3
      <3>5. Closed(src, i, E, k) BY <2>3, <3>1, <3>4 DEF Closed
      <3>. QED BY <2>3, <3>5
    <2>6. scanStringSpecial(src, k) = k
      <3>1. CASE k = n
        <4>1. k \in k..n /\ \A x \in k..(k - 1) : At(src, x) \notin StringSpecial
          BY <2>3
        <4>. QED BY <2>3, <3>1, <4>1, SpecialUnique
      <3>2. CASE k < n
        <4>1. k + 1 \in (k + 1)..n /\ k \in Nat BY <2>3, <3>2
        <4>2. At(src, k) \in StringSpecial BY <2>5, <4>1, PlainChar
        <4>3. k \in k..n /\ \A x \in k..(k - 1) : At(src, x) \notin StringSpecial
          BY <2>3
        <4>. QED BY <2>3, <4>2, <4>3, SpecialUnique
      <3>. QED BY <2>3, <3>1, <3>2
    <2>7. CASE k < n /\ At(src, k) = Quote
      <3>1. E[k] = k + 1 BY <2>3, <2>6, <2>7, ScansAt
      <3>2. k + 1 \in (k + 1)..n /\ (k + 1) - 1 = k BY <2>3, <2>7
      <3>3. Closed(src, i, E, k) BY <2>3, <2>7, <3>1, <3>2 DEF Closed, C
      <3>. QED BY <2>3, <3>3
    <2>8. CASE ~(k < n /\ At(src, k) = Quote)
      <3>1. E[k] = NoValue BY <2>3, <2>5, <2>6, <2>8, ScansAt
      <3>. QED BY <2>3, <3>1 DEF Closed
    <2>. QED BY <2>7, <2>8
  <1>4. i + 1 \in 0..n /\ C[i + 1] BY <1>2
  <1>5. Closed(src, i, E, i + 1)
    <2>1. n - (i + 1) \in 0..n /\ n - (n - (i + 1)) = i + 1 BY <1>4
    <2> HIDE DEF C
    <2>2. n - (i + 1) \notin T BY <1>3
    <2>. QED BY <1>4, <2>1, <2>2
  <1> DEFINE j == E[i + 1]
  <1>6. j \in (i + 2)..n /\ At(src, j - 1) = Quote /\ C[j - 1] /\ i + 1 < j
    <2>1. (i + 1) + 1 = i + 2 OBVIOUS
    <2>. QED BY <1>5, <2>1 DEF Closed
  <1> HIDE DEF j
  <1>7. IsString(src, i, j) BY <1>6, CharsAre
  <1>. QED BY <1>6, <1>7 DEF j

\* The string goes on at e after the byte at j: B is any scan.
GoesOn(src, j, e) ==
    /\ e \in (j + 1)..Len(src) /\ IsChar(src, j, e)
    /\ \A f : IsChar(src, j, f) => f = e
    /\ \A B : parseSpecial(src, B, j) = B[e]

\* The string cannot go on at j.
Stops(src, j, w) ==
    /\ \A e \in (j + 1)..Len(src) : ~IsChar(src, j, e)
    /\ Refusal(w)
    /\ \A B : parseSpecial(src, B, j) = w

Rune == "C2"

\* A byte outside ASCII starts a character just where scanStringUnicodeRun takes a rune.
LEMMA RuneIs ==
    ASSUME NEW src, Len(src) \in Nat, NEW j \in Nat, At(src, j) \in NonASCII
    PROVE  /\ At(src, j) # Quote /\ At(src, j) # Backslash /\ At(src, j) \notin Control
           /\ \A e : IsChar(src, j, e) <=> e = j + 2 /\ At(src, j) = Rune /\ At(src, j + 1) = "80"
           /\ scanStringUnicodeRun(src, j) =
                IF j + 2 <= Len(src) /\ At(src, j) = Rune /\ At(src, j + 1) = "80" THEN j + 2 ELSE j
  <1>1. /\ At(src, j) # Quote /\ At(src, j) # Backslash /\ At(src, j) \notin Control
    BY Zenon DEF Quote, Backslash, Control, NonASCII
  <1>2. \A e : IsChar(src, j, e) <=> e = j + 2 /\ At(src, j) = Rune /\ At(src, j + 1) = "80"
    <2>1. At(src, j) # "\\" /\ At(src, j) \in {"\"", "\\"} \cup Control \cup NonASCII
      BY Zenon DEF NonASCII
    <2>. QED BY <2>1, Zenon DEF IsChar, Rune
  <1>3. scanStringUnicodeRun(src, j) =
                IF j + 2 <= Len(src) /\ At(src, j) = Rune /\ At(src, j + 1) = "80" THEN j + 2 ELSE j
    <2>1. MatchAt(src, j, <<"C2", "80">>) <=> (j + 2 <= Len(src) /\ At(src, j) = "C2" /\ At(src, j + 1) = "80")
      BY MatchTwo
    <2>. QED BY <2>1, Zenon DEF scanStringUnicodeRun, Rune
  <1>. QED BY <1>1, <1>2, <1>3

\* What parseString does at a special byte.
LEMMA SpecialVerdict ==
    ASSUME NEW src, Len(src) \in Nat, NEW j \in 0..Len(src), j = Len(src) \/ At(src, j) \in StringSpecial
    PROVE  \/ j < Len(src) /\ At(src, j) = Quote /\ \A B : parseSpecial(src, B, j) = Done(j + 1)
           \/ ~(j < Len(src) /\ At(src, j) = Quote) /\ \E e : GoesOn(src, j, e)
           \/ ~(j < Len(src) /\ At(src, j) = Quote) /\ \E w : Stops(src, j, w)
  <1> DEFINE n == Len(src)
  <1>1. /\ Refusal(Fail(j, "unterminated string")) /\ Refusal(Fail(j + 1, "unterminated escape sequence"))
        /\ Refusal(Fail(j, "unescaped control byte in string")) /\ Refusal(Fail(j, "invalid UTF-8 in string"))
    <2>1. j \in Nat /\ j + 1 \in Nat OBVIOUS
    <2>. QED BY <2>1, Refusals
  <1>2. CASE j = n
    <2>1. j >= n /\ ~(j < n) /\ \A e \in (j + 1)..n : FALSE BY <1>2
    <2>2. \A B : parseSpecial(src, B, j) = Fail(j, "unterminated string")
      BY <2>1, Zenon DEF parseSpecial
    <2>3. Stops(src, j, Fail(j, "unterminated string"))
      BY <1>1, <2>1, <2>2 DEF Stops
    <2>. QED BY <2>1, <2>3
  <1>3. CASE j < n /\ At(src, j) = Quote
    <2>1. ~(j >= n) BY <1>3
    <2>2. \A B : parseSpecial(src, B, j) = Done(j + 1)
      BY <1>3, <2>1, Zenon DEF parseSpecial, Quote
    <2>. QED BY <1>3, <2>2
  <1>4. CASE j < n /\ At(src, j) = Backslash
    <2>1. ~(j >= n) /\ j \in Nat BY <1>4
    <2>2. At(src, j) # Quote BY <1>4, Zenon DEF Quote, Backslash
    <2>3. \A e : IsChar(src, j, e) <=> Escape(src, j, e)
      BY <1>4, <2>1, EscapeIsChar
    <2>4. CASE j + 1 >= n
      <3>1. \A B : parseSpecial(src, B, j) = Fail(j + 1, "unterminated escape sequence")
        BY <1>4, <2>1, <2>2, <2>4, Zenon DEF parseSpecial, Quote, Backslash
      <3>2. \A e \in (j + 1)..n : ~IsChar(src, j, e)
        <4>1. \A e \in (j + 1)..n : e # j + 2 /\ e # j + 6 /\ e # j + 12
          BY <2>4, <2>1
        <4>. QED BY <2>3, <4>1 DEF Escape
      <3>3. Stops(src, j, Fail(j + 1, "unterminated escape sequence"))
        BY <1>1, <3>1, <3>2 DEF Stops
      <3>. QED BY <2>2, <3>3
    <2>5. CASE ~(j + 1 >= n)
      <3> DEFINE v == validateEscape(src, j + 1)
      <3>1. \A B : parseSpecial(src, B, j) = continueString(B, v)
        BY <1>4, <2>1, <2>2, <2>5, Zenon DEF parseSpecial, Quote, Backslash
      <3>2. \/ \E e \in (j + 2)..n : Escape(src, j, e) /\ v = Done(e)
            \/ Refusal(v) /\ ~ \E e : Escape(src, j, e)
        <4>1. j + 1 < n BY <2>1, <2>5
        <4>. QED BY <2>1, <4>1, EscapeIs
      <3> HIDE DEF v
      <3>3. ASSUME NEW e \in (j + 2)..n, Escape(src, j, e), v = Done(e)
            PROVE  GoesOn(src, j, e)
        <4>1. e \in (j + 1)..n /\ e \in Nat BY <2>1
        <4>2. ~IsError(v) /\ v.end = e BY <3>3, <4>1, DoneIs
        <4>3. \A B : parseSpecial(src, B, j) = B[e]
          BY <3>1, <4>2 DEF continueString
        <4>4. \A f : IsChar(src, j, f) => f = e BY <2>3, <3>3, EscapeUnique
        <4>. QED BY <2>3, <3>3, <4>1, <4>3, <4>4 DEF GoesOn
      <3>4. ASSUME Refusal(v), ~ \E e : Escape(src, j, e)
            PROVE  Stops(src, j, v)
        <4>1. \A B : parseSpecial(src, B, j) = v
          BY <3>1, <3>4 DEF continueString, Refusal
        <4>. QED BY <2>3, <3>4, <4>1 DEF Stops
      <3>. QED BY <2>2, <3>2, <3>3, <3>4
    <2>. QED BY <2>4, <2>5
  <1>5. CASE j < n /\ At(src, j) \in Control
    <2>1. ~(j >= n) BY <1>5
    <2>2. At(src, j) # Quote /\ At(src, j) # Backslash
      BY <1>5, Zenon DEF Quote, Backslash, Control
    <2>3. \A B : parseSpecial(src, B, j) = Fail(j, "unescaped control byte in string")
      BY <1>5, <2>1, <2>2, Zenon DEF parseSpecial, Quote, Backslash
    <2>4. \A e : ~IsChar(src, j, e)
      <3>1. At(src, j) # "C2" BY <1>5, Zenon DEF Control
      <3>2. At(src, j) \in {"\"", "\\"} \cup Control \cup NonASCII
        BY <1>5, Zenon
      <3>. QED BY <2>2, <3>1, <3>2, Zenon DEF IsChar, Backslash
    <2>5. Stops(src, j, Fail(j, "unescaped control byte in string"))
      BY <1>1, <2>3, <2>4 DEF Stops
    <2>. QED BY <2>2, <2>5
  <1>6. CASE j < n /\ At(src, j) \in NonASCII
    <2> DEFINE next == scanStringUnicodeRun(src, j)
               rune == j + 2 <= n /\ At(src, j) = Rune /\ At(src, j + 1) = "80"
    <2>1. ~(j >= n) /\ j \in Nat /\ j + 2 # j /\ (j + 2 <= n => j + 2 \in (j + 1)..n)
          /\ \A e \in (j + 1)..n : e = j + 2 => j + 2 <= n
      BY <1>6
    <2>2. /\ At(src, j) # Quote /\ At(src, j) # Backslash /\ At(src, j) \notin Control
          /\ \A e : IsChar(src, j, e) <=> e = j + 2 /\ At(src, j) = Rune /\ At(src, j + 1) = "80"
          /\ next = IF rune THEN j + 2 ELSE j
      BY <1>6, <2>1, RuneIs
    <2> HIDE DEF next
    <2>3. \A B : parseSpecial(src, B, j) = IF next = j THEN Fail(j, "invalid UTF-8 in string") ELSE B[next]
      BY <2>1, <2>2, Zenon DEF parseSpecial, Quote, Backslash, next
    <2>4. CASE rune
      <3>1. GoesOn(src, j, j + 2) BY <2>1, <2>2, <2>3, <2>4 DEF GoesOn
      <3>. QED BY <2>2, <3>1
    <2>5. CASE ~rune
      <3>1. Stops(src, j, Fail(j, "invalid UTF-8 in string"))
        BY <1>1, <2>1, <2>2, <2>3, <2>5 DEF Stops
      <3>. QED BY <2>2, <3>1
    <2>. QED BY <2>4, <2>5
  <1>7. At(src, j) \in StringSpecial => \/ At(src, j) = Quote \/ At(src, j) = Backslash
                                       \/ At(src, j) \in Control \/ At(src, j) \in NonASCII
    BY Zenon DEF StringSpecial, Quote, Backslash
  <1>8. j = n \/ j < n OBVIOUS
  <1>. QED BY <1>2, <1>3, <1>4, <1>5, <1>6, <1>7, <1>8

\* The end of what a verdict accepts, in the form of the fast validator.
EndOf(v) == IF IsError(v) THEN NoValue ELSE v.end

\* The end of a verdict tells an acceptance from a refusal.
LEMMA EndOfIs ==
    ASSUME NEW v \in Verdicts
    PROVE  /\ EndOf(v) # NoValue => v = Done(EndOf(v)) /\ ~IsError(v)
           /\ EndOf(v) = NoValue => Refusal(v)
  <1>1. v.end \in Nat /\ v = [end |-> v.end, msg |-> v.msg] /\ NoValue \notin Nat
    BY DEF Verdicts, NoValue
  <1>2. CASE IsError(v) BY <1>2 DEF EndOf, Refusal
  <1>3. CASE ~IsError(v)
    <2>1. v.msg = "" BY <1>3, Zenon DEF IsError
    <2>2. v = Done(v.end) BY <1>1, <2>1, Zenon DEF Done
    <2>. QED BY <1>1, <1>3, <2>2 DEF EndOf
  <1>. QED BY <1>2, <1>3

\* The verdicts on the characters that go on at each offset.
StringVerdicts(src) ==
    CHOOSE B : B = [k \in 0..Len(src) |-> parseSpecial(src, B, scanStringSpecial(src, k))]

\* parseSpecial ends the string, goes on after a character, or refuses.
LEMMA SpecialStep ==
    ASSUME NEW src, Len(src) \in Nat, NEW k \in 0..Len(src)
    PROVE  LET j == scanStringSpecial(src, k)
               ends == j < Len(src) /\ At(src, j) = Quote
           IN  /\ j \in k..Len(src)
               /\ \/ ends /\ \A B : parseSpecial(src, B, j) = Done(j + 1)
                  \/ ~ends /\ \E e : GoesOn(src, j, e)
                  \/ ~ends /\ \E w : Stops(src, j, w)
  <1> DEFINE j == scanStringSpecial(src, k)
  <1>1. j \in k..Len(src) /\ (j = Len(src) \/ At(src, j) \in StringSpecial)
    BY SpecialIs
  <1> HIDE DEF j
  <1>2. j \in 0..Len(src) BY <1>1
  <1>3. \/ j < Len(src) /\ At(src, j) = Quote /\ \A B : parseSpecial(src, B, j) = Done(j + 1)
        \/ ~(j < Len(src) /\ At(src, j) = Quote) /\ \E e : GoesOn(src, j, e)
        \/ ~(j < Len(src) /\ At(src, j) = Quote) /\ \E w : Stops(src, j, w)
    BY <1>1, <1>2, SpecialVerdict
  <1>. QED BY <1>1, <1>3 DEF j

\* The recursion of parseString is met by a function, whose values are verdicts.
LEMMA StringVerdictsAre ==
    ASSUME NEW src, Len(src) \in Nat
    PROVE  /\ \A k \in 0..Len(src) :
                 StringVerdicts(src)[k] = parseSpecial(src, StringVerdicts(src), scanStringSpecial(src, k))
           /\ \A k \in 0..Len(src) : StringVerdicts(src)[k] \in Verdicts
           /\ \A i : parseString(src, i) = StringVerdicts(src)[i + 1]
  <1> DEFINE n == Len(src)
             D == 0..n
             V == Verdicts
             s == [k \in D |-> scanStringSpecial(src, k)]
             G(B) == [k \in D |-> parseSpecial(src, B, s[k])]
             F == [B \in [D -> V] |-> G(B)]
             rank == [k \in D |-> n - k]
             f0 == [k \in D |-> Done(0)]
  <1>1. ASSUME NEW k \in D
        PROVE  /\ s[k] \in k..n
               /\ \/ \A B : parseSpecial(src, B, s[k]) = Done(s[k] + 1)
                  \/ \E e \in (k + 1)..n : \A B : parseSpecial(src, B, s[k]) = B[e]
                  \/ \E w \in Verdicts : \A B : parseSpecial(src, B, s[k]) = w
    <2> DEFINE j == scanStringSpecial(src, k)
    <2>1. /\ j \in k..n
          /\ \/ \A B : parseSpecial(src, B, j) = Done(j + 1)
             \/ \E e : GoesOn(src, j, e)
             \/ \E w : Stops(src, j, w)
      BY SpecialStep
    <2>2. s[k] = j OBVIOUS
    <2> HIDE DEF s, j
    <2>3. ASSUME NEW e, GoesOn(src, j, e) PROVE e \in (k + 1)..n
      BY <2>1, <2>3 DEF GoesOn
    <2>4. ASSUME NEW w, Stops(src, j, w) PROVE w \in Verdicts
      BY <2>4 DEF Stops, Refusal
    <2>. QED BY <2>1, <2>2, <2>3, <2>4 DEF GoesOn, Stops
  <1> HIDE DEF s
  <1>2. ASSUME NEW B, NEW k \in D, \A e \in (k + 1)..n : B[e] \in V
        PROVE  parseSpecial(src, B, s[k]) \in V
    <2>1. s[k] + 1 \in Nat BY <1>1
    <2>2. Done(s[k] + 1) \in V BY <2>1, DoneIs
    <2>. QED BY <1>1, <1>2, <2>2
  <1>3. ASSUME NEW f, NEW h, NEW k \in D, \A e \in (k + 1)..n : f[e] = h[e]
        PROVE  parseSpecial(src, f, s[k]) = parseSpecial(src, h, s[k])
    BY <1>1, <1>3
  <1>4. F \in [[D -> V] -> [D -> V]]
    <2>1. ASSUME NEW B \in [D -> V] PROVE G(B) \in [D -> V]
      <3>1. \A k \in D : \A e \in (k + 1)..n : B[e] \in V OBVIOUS
      <3>2. \A k \in D : parseSpecial(src, B, s[k]) \in V BY <1>2, <3>1
      <3> HIDE DEF D, V
      <3>. QED BY <3>2
    <2> HIDE DEF G
    <2>. QED BY <2>1
  <1>5. ASSUME NEW f \in [D -> V], NEW h \in [D -> V], NEW k \in D,
               \A x \in D : rank[x] < rank[k] => f[x] = h[x]
        PROVE  F[f][k] = F[h][k]
    <2>1. \A e \in (k + 1)..n : e \in D /\ rank[e] < rank[k] OBVIOUS
    <2>2. parseSpecial(src, f, s[k]) = parseSpecial(src, h, s[k])
      BY <1>3, <1>5, <2>1
    <2> HIDE DEF D, V
    <2>. QED BY <2>2
  <1>6. Recursion(F, D, V, rank) BY <1>4, <1>5 DEF Recursion
  <1>7. n \in Nat /\ rank \in [D -> 0..n] /\ f0 \in [D -> V]
    <2>1. Done(0) \in V BY DoneIs
    <2>. QED BY <2>1
  <1>8. IsMet(F, D, V)
    <2> HIDE DEF n, D, V, F, rank, f0
    <2>. QED BY <1>6, <1>7, RecursionIsMet
  <1>9. \E B : B = G(B) BY <1>8 DEF IsMet
  <1> DEFINE C == StringVerdicts(src)
  <1>10. \A B : G(B) = [k \in 0..Len(src) |-> parseSpecial(src, B, scanStringSpecial(src, k))]
    BY DEF s
  <1> HIDE DEF G
  <1>11. C = G(C) BY <1>9, <1>10 DEF StringVerdicts
  <1>12. \A k \in D : C[k] = parseSpecial(src, C, s[k])
    <2> HIDE DEF C
    <2>. QED BY <1>11 DEF G
  <1> HIDE DEF C
  <1> DEFINE T == {m \in 0..n : C[n - m] \notin V}
  <1>13. T = {}
    <2> SUFFICES ASSUME T # {} PROVE FALSE
      OBVIOUS
    <2>1. T \subseteq Nat OBVIOUS
    <2> HIDE DEF V
    <2>2. PICK m \in T : \A y \in T : m <= y
      <3> HIDE DEF T
      <3>. QED BY <2>1, LeastNumber
    <2>3. m \in 0..n /\ C[n - m] \notin V /\ n - m \in D BY <2>2
    <2>4. ASSUME NEW e \in ((n - m) + 1)..n PROVE C[e] \in V
      <3>1. n - e \in 0..n /\ n - e < m /\ n - (n - e) = e /\ m \in Nat BY <2>3
      <3>2. n - e \notin T BY <2>2, <3>1
      <3>. QED BY <3>1, <3>2
    <2> DEFINE k == n - m
    <2>5. k \in D /\ \A e \in (k + 1)..n : C[e] \in V BY <2>3, <2>4
    <2> HIDE DEF k
    <2>6. C[k] \in V BY <1>2, <1>12, <2>5
    <2>. QED BY <2>3, <2>6 DEF k
  <1>14. \A k \in D : C[k] \in V
    <2> TAKE k \in D
    <2>1. n - k \in 0..n /\ n - (n - k) = k OBVIOUS
    <2> HIDE DEF V
    <2>2. n - k \notin T BY <1>13
    <2>. QED BY <2>1, <2>2
  <1>15. \A k \in D : C[k] = parseSpecial(src, C, scanStringSpecial(src, k))
    BY <1>12 DEF s
  <1>16. \A i : parseString(src, i) = C[i + 1]
    BY DEF parseString, C, StringVerdicts
  <1>. QED BY <1>14, <1>15, <1>16 DEF C

\* The ends of those verdicts, in the form of the fast validator.
StringEnds(src) == [k \in 0..Len(src) |-> EndOf(StringVerdicts(src)[k])]

\* They are a scan.
LEMMA StringEndsScan == ASSUME NEW src, Len(src) \in Nat PROVE Scans(src, StringEnds(src))
  <1> DEFINE n == Len(src)
             B == StringVerdicts(src)
             E == [k \in 0..n |-> EndOf(B[k])]
  <1>1. \A k \in 0..n : B[k] = parseSpecial(src, B, scanStringSpecial(src, k))
    BY StringVerdictsAre
  <1> HIDE DEF B
  <1>2. Scans(src, E)
    <2> SUFFICES ASSUME NEW k \in 0..n
                 PROVE  LET j == scanStringSpecial(src, k)
                        IN  IF j < n /\ At(src, j) = Quote THEN E[k] = j + 1
                            ELSE /\ \A e \in (j + 1)..n : IsChar(src, j, e) => E[k] = E[e]
                                 /\ (\A e \in (j + 1)..n : ~IsChar(src, j, e)) => E[k] = NoValue
      BY DEF Scans
    <2> DEFINE j == scanStringSpecial(src, k)
               ends == j < n /\ At(src, j) = Quote
    <2>1. /\ j \in k..n
          /\ \/ ends /\ \A S : parseSpecial(src, S, j) = Done(j + 1)
             \/ ~ends /\ \E e : GoesOn(src, j, e)
             \/ ~ends /\ \E w : Stops(src, j, w)
      BY SpecialStep
    <2>2. E[k] = EndOf(parseSpecial(src, B, j)) BY <1>1
    <2> HIDE DEF j
    <2>3. CASE ends /\ \A S : parseSpecial(src, S, j) = Done(j + 1)
      <3>1. EndOf(Done(j + 1)) = j + 1 BY <2>1, DoneIs DEF EndOf
      <3>. QED BY <2>2, <2>3, <3>1 DEF j
    <2>4. ASSUME ~ends, NEW e, GoesOn(src, j, e)
          PROVE  /\ \A f \in (j + 1)..n : IsChar(src, j, f) => E[k] = E[f]
                 /\ ~ \A f \in (j + 1)..n : ~IsChar(src, j, f)
      <3>1. e \in (j + 1)..n /\ IsChar(src, j, e) /\ parseSpecial(src, B, j) = B[e] /\ e \in 0..n
            /\ \A f : IsChar(src, j, f) => f = e
        BY <2>1, <2>4 DEF GoesOn
      <3>2. E[k] = E[e] BY <2>2, <3>1
      <3> HIDE DEF E
      <3>. QED BY <3>1, <3>2
    <2>5. ASSUME ~ends, NEW w, Stops(src, j, w)
          PROVE  /\ \A f \in (j + 1)..n : ~IsChar(src, j, f)
                 /\ E[k] = NoValue
      <3>1. parseSpecial(src, B, j) = w /\ IsError(w) /\ \A f \in (j + 1)..n : ~IsChar(src, j, f)
        BY <2>5 DEF Stops, Refusal
      <3>. QED BY <2>2, <3>1 DEF EndOf
    <2> HIDE DEF E
    <2>. QED BY <2>1, <2>3, <2>4, <2>5 DEF j
  <1>. QED BY <1>2 DEF StringEnds, B

\* parseString ends a string where the grammar does, and refuses what is none.
LEMMA ParseStringIs ==
    ASSUME NEW src, Len(src) \in Nat, NEW i \in Nat, i < Len(src), At(src, i) = Quote
    PROVE  LET v == parseString(src, i)
           IN  \/ \E j \in (i + 2)..Len(src) : /\ IsString(src, i, j) /\ v = Done(j)
                                               /\ \A k \in 0..Len(src) : IsString(src, i, k) => k = j
               \/ Refusal(v) /\ \A k \in 0..Len(src) : ~IsString(src, i, k)
  <1> DEFINE n == Len(src)
             B == StringVerdicts(src)
             E == StringEnds(src)
             v == parseString(src, i)
  <1>1. /\ \A k \in 0..n : B[k] \in Verdicts
        /\ v = B[i + 1]
    BY StringVerdictsAre
  <1>2. Scans(src, E) BY StringEndsScan
  <1>3. i + 1 \in 0..n /\ E[i + 1] = EndOf(v) /\ v \in Verdicts
    BY <1>1 DEF StringEnds
  <1> HIDE DEF B, E, v
  <1>4. CASE E[i + 1] = NoValue
    <2>1. Refusal(v) BY <1>3, <1>4, EndOfIs
    <2>2. \A k \in 0..n : IsString(src, i, k) => k = NoValue
      BY <1>2, <1>4, ScanFindsString
    <2>3. NoValue \notin 0..n BY DEF NoValue
    <2>. QED BY <2>1, <2>2, <2>3 DEF v
  <1>5. CASE E[i + 1] # NoValue
    <2> DEFINE j == E[i + 1]
    <2>1. j \in (i + 2)..n /\ IsString(src, i, j) BY <1>2, <1>5, ScanIsString
    <2>2. v = Done(j) BY <1>3, <1>5, EndOfIs
    <2>3. \A k \in 0..n : IsString(src, i, k) => k = j BY <1>2, ScanFindsString
    <2>. QED BY <2>1, <2>2, <2>3 DEF v
  <1>. QED BY <1>4, <1>5

-----------------------------------------------------------------------------
(***************************************************************************)
(* Numbers.                                                                *)
(***************************************************************************)
\* There is one place where a run ends.
LEMMA SpanUnique ==
    ASSUME NEW src, Len(src) \in Nat, NEW S, NEW i \in 0..Len(src), NEW j \in i..Len(src),
           AllIn(src, i, j, S), j = Len(src) \/ At(src, j) \notin S
    PROVE  SpanEnd(src, i, S) = j
  <1> DEFINE s == SpanEnd(src, i, S)
  <1>1. /\ s \in i..Len(src)
        /\ \A k \in i..(s - 1) : At(src, k) \in S
        /\ s = Len(src) \/ At(src, s) \notin S
    BY SpanEndIs
  <1>2. \A k \in i..(j - 1) : At(src, k) \in S BY DEF AllIn
  <1> HIDE DEF s
  <1>3. ~(s < j) /\ ~(j < s) BY <1>1, <1>2
  <1>4. s = j BY <1>1, <1>3
  <1>. QED BY <1>4 DEF s

\* A run that begins with a byte of the class goes on behind it.
LEMMA SpanGoesOn ==
    ASSUME NEW src, Len(src) \in Nat, NEW S, NEW i \in 0..(Len(src) - 1), At(src, i) \in S
    PROVE  SpanEnd(src, i, S) = SpanEnd(src, i + 1, S) /\ SpanEnd(src, i, S) \in (i + 1)..Len(src)
  <1> DEFINE s == SpanEnd(src, i + 1, S)
  <1>1. i \in Nat /\ i < Len(src) /\ i \in 0..Len(src) /\ i + 1 \in 0..Len(src)
    OBVIOUS
  <1>2. /\ s \in (i + 1)..Len(src)
        /\ \A k \in (i + 1)..(s - 1) : At(src, k) \in S
        /\ s = Len(src) \/ At(src, s) \notin S
    BY <1>1, SpanEndIs
  <1> HIDE DEF s
  <1>3. AllIn(src, i, s, S)
    <2>1. \A k \in i..(s - 1) : k = i \/ k \in (i + 1)..(s - 1) BY <1>1, <1>2
    <2>. QED BY <1>2, <2>1 DEF AllIn
  <1>4. s \in i..Len(src) BY <1>1, <1>2
  <1>5. SpanEnd(src, i, S) = s BY <1>1, <1>2, <1>3, <1>4, SpanUnique
  <1>. QED BY <1>2, <1>5 DEF s

Dot   == "."
Minus == "-"
Zero  == "0"
Exps  == {"e", "E"}
Signs == {"+", "-"}

\* Where the digits of an exponent that begins at i begin.
ExpDigits(src, i) == IF Has(src, i + 1, Signs) THEN i + 2 ELSE i + 1

\* No byte at j goes on with a number that ends there.
NumberStops(src, j) == j = Len(src) \/ At(src, j) \notin Digit \cup Exps \cup {Dot}

\* The bytes of a number differ from each other.
LEMMA NumberBytes ==
    /\ Dot \notin Digit /\ Dot \notin Exps /\ Exps \cap Digit = {} /\ Zero \in Digit /\ Minus \notin Digit
  BY Zenon DEF Dot, Digit, Exps, Zero, Minus

\* The scanners and the grammar of a number, with its bytes named.
LEMMA NumberForms ==
    ASSUME NEW src, NEW i
    PROVE  /\ scanExponent(src, i) =
                IF ~Has(src, i, Exps) THEN Done(i)
                ELSE IF ~Has(src, ExpDigits(src, i), Digit)
                THEN Fail(ExpDigits(src, i), "invalid number exponent")
                ELSE Done(SpanEnd(src, ExpDigits(src, i), Digit))
           /\ scanFraction(src, i) =
                IF Has(src, i, {Dot}) /\ ~Has(src, i + 1, Digit) THEN Fail(i + 1, "invalid number fraction")
                ELSE scanExponent(src, IF Has(src, i, {Dot}) THEN SpanEnd(src, i + 1, Digit) ELSE i)
           /\ scanInteger(src, i) =
                IF ~Has(src, i, Digit) THEN Fail(i, "invalid number")
                ELSE scanFraction(src, IF At(src, i) = Zero THEN i + 1 ELSE SpanEnd(src, i, Digit))
           /\ scanNumber(src, i) = scanInteger(src, IF Has(src, i, {Minus}) THEN i + 1 ELSE i)
  BY DEF scanExponent, scanFraction, scanInteger, scanNumber, Dot, Minus, Zero, Exps, Signs, ExpDigits

\* The rules of a number, with its bytes named.
LEMMA NumberRules ==
    ASSUME NEW src, NEW i, NEW j
    PROVE  /\ IsInt(src, i, j) <=> i < j /\ AllIn(src, i, j, Digit) /\ (At(src, i) = Zero => j = i + 1)
           /\ IsFrac(src, i, j) <=> i = j \/ (i + 1 < j /\ At(src, i) = Dot /\ AllIn(src, i + 1, j, Digit))
           /\ IsExp(src, i, j) <=>
                 \/ i = j
                 \/ /\ i + 1 < j /\ At(src, i) \in Exps
                    /\ (IF At(src, i + 1) \in Signs THEN i + 2 ELSE i + 1) < j
                    /\ AllIn(src, IF At(src, i + 1) \in Signs THEN i + 2 ELSE i + 1, j, Digit)
           /\ IsNumber(src, i, j) <=>
                 /\ i < j
                 /\ \E p \in (IF At(src, i) = Minus THEN i + 1 ELSE i)..j : \E q \in p..j :
                       /\ IsInt(src, IF At(src, i) = Minus THEN i + 1 ELSE i, p)
                       /\ IsFrac(src, p, q) /\ IsExp(src, q, j)
  BY Zenon DEF IsInt, IsFrac, IsExp, IsNumber, Dot, Minus, Zero, Exps, Signs

\* The refusals of scanNumber.
LEMMA NumberRefusals ==
    ASSUME NEW i \in Nat
    PROVE  /\ Refusal(Fail(i, "invalid number exponent")) /\ Refusal(Fail(i, "invalid number fraction"))
           /\ Refusal(Fail(i, "invalid number"))
  BY FailIs, Zenon DEF Messages

\* scanExponent accepts exactly the exponents that nothing goes on with.
LEMMA ExponentIs ==
    ASSUME NEW src, Len(src) \in Nat, NEW i \in 0..Len(src)
    PROVE  LET v == scanExponent(src, i)
           IN  /\ \/ Refusal(v)
                  \/ \E j \in i..Len(src) : v = Done(j) /\ IsExp(src, i, j)
               /\ \A j \in i..Len(src) : IsExp(src, i, j) /\ NumberStops(src, j) => v = Done(j)
  <1> DEFINE n == Len(src)
             v == scanExponent(src, i)
             d == ExpDigits(src, i)
  <1>1. v = IF ~Has(src, i, Exps) THEN Done(i)
            ELSE IF ~Has(src, d, Digit) THEN Fail(d, "invalid number exponent")
            ELSE Done(SpanEnd(src, d, Digit))
    BY NumberForms
  <1>2. d \in Nat /\ d > i /\ d = (IF i + 1 < n /\ At(src, i + 1) \in Signs THEN i + 2 ELSE i + 1)
    BY DEF ExpDigits, Has
  <1>3. \A j : IsExp(src, i, j) <=>
                 \/ i = j
                 \/ /\ i + 1 < j /\ At(src, i) \in Exps
                    /\ (IF At(src, i + 1) \in Signs THEN i + 2 ELSE i + 1) < j
                    /\ AllIn(src, IF At(src, i + 1) \in Signs THEN i + 2 ELSE i + 1, j, Digit)
    BY NumberRules
  <1>4. \A j \in 0..n : IsExp(src, i, j) <=> \/ i = j
                                             \/ i + 1 < j /\ At(src, i) \in Exps /\ d < j /\ AllIn(src, d, j, Digit)
    <2> TAKE j \in 0..n
    <2>1. i + 1 < j => d = (IF At(src, i + 1) \in Signs THEN i + 2 ELSE i + 1)
      BY <1>2
    <2>. QED BY <1>3, <2>1
  <1>5. Refusal(Fail(d, "invalid number exponent")) BY <1>2, NumberRefusals
  <1> HIDE DEF v, d
  <1>6. CASE ~Has(src, i, Exps)
    <2>1. v = Done(i) /\ IsExp(src, i, i) /\ i \in i..n BY <1>1, <1>4, <1>6
    <2>2. \A j \in i..n : IsExp(src, i, j) => j = i BY <1>4, <1>6 DEF Has
    <2>. QED BY <2>1, <2>2 DEF v
  <1>7. CASE Has(src, i, Exps) /\ ~Has(src, d, Digit)
    <2>1. Refusal(v) BY <1>1, <1>5, <1>7
    <2>2. ASSUME NEW j \in i..n, IsExp(src, i, j), NumberStops(src, j) PROVE FALSE
      <3>1. CASE i = j BY <1>7, <2>2, <3>1 DEF NumberStops, Has
      <3>2. CASE i # j
        <4>1. d < j /\ AllIn(src, d, j, Digit) BY <1>4, <2>2, <3>2
        <4>2. d \in d..(j - 1) /\ d < n BY <1>2, <2>2, <4>1
        <4>. QED BY <1>7, <4>1, <4>2 DEF AllIn, Has
      <3>. QED BY <3>1, <3>2
    <2>. QED BY <2>1, <2>2 DEF v
  <1>8. CASE Has(src, i, Exps) /\ Has(src, d, Digit)
    <2> DEFINE e == SpanEnd(src, d, Digit)
    <2>1. d \in 0..n /\ d \in 0..(n - 1) /\ At(src, d) \in Digit /\ i < n /\ At(src, i) \in Exps
      BY <1>2, <1>8 DEF Has
    <2>2. e \in (d + 1)..n /\ \A k \in d..(e - 1) : At(src, k) \in Digit
      BY <2>1, SpanEndIs, SpanGoesOn
    <2>3. v = Done(e) BY <1>1, <1>8
    <2> HIDE DEF e
    <2>4. e \in i..n /\ i + 1 < e /\ d < e /\ e \in 0..n BY <1>2, <2>2
    <2>5. IsExp(src, i, e) BY <1>4, <2>1, <2>2, <2>4 DEF AllIn
    <2>6. ASSUME NEW j \in i..n, IsExp(src, i, j), NumberStops(src, j) PROVE j = e
      <3>1. i # j BY <2>1, <2>6 DEF NumberStops
      <3>2. d < j /\ AllIn(src, d, j, Digit) BY <1>4, <2>6, <3>1
      <3>3. j \in d..n /\ (j = n \/ At(src, j) \notin Digit)
        BY <1>2, <2>6, <3>2 DEF NumberStops
      <3>. QED BY <2>1, <3>2, <3>3, SpanUnique DEF e
    <2>. QED BY <2>3, <2>4, <2>5, <2>6 DEF v
  <1>. QED BY <1>6, <1>7, <1>8

\* What a number is behind its integer, and behind its fraction.
IsFracExp(src, i, j) == \E q \in i..j : IsFrac(src, i, q) /\ IsExp(src, q, j)

IsIntFracExp(src, i, j) == \E p \in i..j : IsInt(src, i, p) /\ IsFracExp(src, p, j)

\* scanFraction finds a fraction and an exponent, and the longest.
LEMMA FractionIs ==
    ASSUME NEW src, Len(src) \in Nat, NEW i \in 0..Len(src)
    PROVE  LET v == scanFraction(src, i)
           IN  /\ \/ Refusal(v)
                  \/ \E j \in i..Len(src) : v = Done(j) /\ IsFracExp(src, i, j)
               /\ \A j \in i..Len(src) : IsFracExp(src, i, j) /\ NumberStops(src, j) => v = Done(j)
  <1> DEFINE n == Len(src)
             v == scanFraction(src, i)
             d == SpanEnd(src, i + 1, Digit)
  <1>1. v = IF Has(src, i, {Dot}) /\ ~Has(src, i + 1, Digit) THEN Fail(i + 1, "invalid number fraction")
            ELSE scanExponent(src, IF Has(src, i, {Dot}) THEN d ELSE i)
    BY NumberForms
  <1>2. \A p, q : IsFrac(src, p, q) <=> p = q \/ (p + 1 < q /\ At(src, p) = Dot /\ AllIn(src, p + 1, q, Digit))
    BY NumberRules
  <1>3. \A p, q : IsExp(src, p, q) => p = q \/ At(src, p) \in Exps
    BY NumberRules
  <1>4. Refusal(Fail(i + 1, "invalid number fraction"))
    <2>1. i + 1 \in Nat OBVIOUS
    <2>. QED BY <2>1, NumberRefusals, Zenon
  <1>5. Dot \notin Digit /\ Dot \notin Exps /\ \A x \in Exps : x \notin Digit
    BY NumberBytes
  <1>6. i \in Nat /\ i \in i..n OBVIOUS
  <1> HIDE DEF v, d
  <1>7. CASE ~Has(src, i, {Dot})
    <2>1. v = scanExponent(src, i) BY <1>1, <1>7
    <2>2. ASSUME NEW j \in i..n, IsFracExp(src, i, j), NumberStops(src, j) PROVE IsExp(src, i, j)
      <3>1. PICK q \in i..j : IsFrac(src, i, q) /\ IsExp(src, q, j)
        BY <2>2 DEF IsFracExp
      <3>2. q = i
        <4>1. i < q => i < n OBVIOUS
        <4>. QED BY <1>2, <1>7, <3>1, <4>1 DEF Has
      <3>. QED BY <3>1, <3>2
    <2>3. ASSUME NEW j \in i..n, IsExp(src, i, j) PROVE IsFracExp(src, i, j)
      <3>1. i \in i..j /\ IsFrac(src, i, i) BY <1>2, <1>6
      <3>. QED BY <2>3, <3>1 DEF IsFracExp
    <2>. QED BY <2>1, <2>2, <2>3, ExponentIs DEF v
  <1>8. CASE Has(src, i, {Dot}) /\ ~Has(src, i + 1, Digit)
    <2>1. Refusal(v) BY <1>1, <1>4, <1>8
    <2>2. ASSUME NEW j \in i..n, IsFracExp(src, i, j), NumberStops(src, j) PROVE FALSE
      <3>1. PICK q \in i..j : IsFrac(src, i, q) /\ IsExp(src, q, j)
        BY <2>2 DEF IsFracExp
      <3>2. At(src, i) = Dot /\ i < n BY <1>8 DEF Has
      <3>3. CASE q = i
        <4>1. i = j BY <1>3, <1>5, <3>1, <3>2, <3>3
        <4>. QED BY <2>2, <3>2, <4>1 DEF NumberStops
      <3>4. CASE q # i
        <4>1. i + 1 < q /\ AllIn(src, i + 1, q, Digit) BY <1>2, <3>1, <3>4
        <4>2. i + 1 \in (i + 1)..(q - 1) /\ i + 1 < n BY <4>1
        <4>. QED BY <1>8, <4>1, <4>2 DEF AllIn, Has
      <3>. QED BY <3>3, <3>4
    <2>. QED BY <2>1, <2>2 DEF v
  <1>9. CASE Has(src, i, {Dot}) /\ Has(src, i + 1, Digit)
    <2>1. i + 1 \in 0..n /\ i + 1 \in 0..(n - 1) /\ At(src, i + 1) \in Digit /\ i < n /\ At(src, i) = Dot
      BY <1>6, <1>9 DEF Has
    <2>2. d \in ((i + 1) + 1)..n /\ \A k \in (i + 1)..(d - 1) : At(src, k) \in Digit
      BY <2>1, SpanEndIs, SpanGoesOn DEF d
    <2>3. v = scanExponent(src, d) BY <1>1, <1>9
    <2>4. d \in 0..n /\ i + 1 < d /\ IsFrac(src, i, d)
      BY <1>2, <2>1, <2>2 DEF AllIn
    <2>5. /\ \/ Refusal(v)
             \/ \E j \in d..n : v = Done(j) /\ IsExp(src, d, j)
          /\ \A j \in d..n : IsExp(src, d, j) /\ NumberStops(src, j) => v = Done(j)
      BY <2>3, <2>4, ExponentIs
    <2>6. ASSUME NEW j \in d..n, IsExp(src, d, j) PROVE j \in i..n /\ IsFracExp(src, i, j)
      <3>1. j \in i..n /\ d \in i..j BY <2>4
      <3>. QED BY <2>4, <2>6, <3>1 DEF IsFracExp
    <2>7. ASSUME NEW j \in i..n, IsFracExp(src, i, j), NumberStops(src, j) PROVE j \in d..n /\ IsExp(src, d, j)
      <3>1. PICK q \in i..j : IsFrac(src, i, q) /\ IsExp(src, q, j)
        BY <2>7 DEF IsFracExp
      <3>2. q # i
        <4>1. ASSUME q = i PROVE FALSE
          <5>1. i = j BY <1>3, <1>5, <2>1, <3>1, <4>1
          <5>. QED BY <2>1, <2>7, <5>1 DEF NumberStops
        <4>. QED BY <4>1
      <3>3. i + 1 < q /\ AllIn(src, i + 1, q, Digit) BY <1>2, <3>1, <3>2
      <3>4. q = n \/ At(src, q) \notin Digit
        BY <1>3, <1>5, <2>7, <3>1 DEF NumberStops
      <3>5. q \in (i + 1)..n BY <3>3
      <3>6. d = q BY <2>1, <3>3, <3>4, <3>5, SpanUnique DEF d
      <3>. QED BY <3>1, <3>6
    <2>. QED BY <2>5, <2>6, <2>7 DEF v
  <1>. QED BY <1>7, <1>8, <1>9

\* scanInteger finds the digits and what follows them, and the longest.
LEMMA IntegerIs ==
    ASSUME NEW src, Len(src) \in Nat, NEW i \in 0..Len(src)
    PROVE  LET v == scanInteger(src, i)
           IN  /\ \/ Refusal(v)
                  \/ \E j \in (i + 1)..Len(src) : v = Done(j) /\ IsIntFracExp(src, i, j)
               /\ \A j \in i..Len(src) : IsIntFracExp(src, i, j) /\ NumberStops(src, j) => v = Done(j)
  <1> DEFINE n == Len(src)
             v == scanInteger(src, i)
             d == IF At(src, i) = Zero THEN i + 1 ELSE SpanEnd(src, i, Digit)
  <1>1. v = IF ~Has(src, i, Digit) THEN Fail(i, "invalid number") ELSE scanFraction(src, d)
    BY NumberForms
  <1>2. \A p : IsInt(src, i, p) <=> i < p /\ AllIn(src, i, p, Digit) /\ (At(src, i) = Zero => p = i + 1)
    BY NumberRules
  <1>3. \A p, q : IsExp(src, p, q) => p = q \/ At(src, p) \in Exps
    BY NumberRules
  <1>4. \A p, q : IsFrac(src, p, q) => p = q \/ At(src, p) = Dot BY NumberRules
  <1>5. Refusal(Fail(i, "invalid number"))
    <2>1. i \in Nat OBVIOUS
    <2>. QED BY <2>1, NumberRefusals, Zenon
  <1>6. Dot \notin Digit /\ \A x \in Exps : x \notin Digit BY NumberBytes
  <1>7. i \in Nat OBVIOUS
  <1> HIDE DEF v, d
  <1>8. CASE ~Has(src, i, Digit)
    <2>1. Refusal(v) BY <1>1, <1>5, <1>8
    <2>2. ASSUME NEW j \in i..n, IsIntFracExp(src, i, j) PROVE FALSE
      <3>1. PICK p \in i..j : IsInt(src, i, p) BY <2>2 DEF IsIntFracExp
      <3>2. i < p /\ i < n /\ i \in i..(p - 1) BY <1>2, <3>1
      <3>. QED BY <1>2, <1>8, <3>1, <3>2 DEF AllIn, Has
    <2>. QED BY <2>1, <2>2 DEF v
  <1>9. CASE Has(src, i, Digit)
    <2>1. i < n /\ At(src, i) \in Digit /\ i \in 0..(n - 1)
      BY <1>7, <1>9 DEF Has
    <2>2. v = scanFraction(src, d) BY <1>1, <1>9
    <2>3. d \in (i + 1)..n /\ IsInt(src, i, d)
      <3>1. CASE At(src, i) = Zero
        <4>1. d = i + 1 /\ d \in (i + 1)..n /\ i..(d - 1) = {i}
          BY <2>1, <3>1 DEF d
        <4>. QED BY <1>2, <2>1, <4>1 DEF AllIn
      <3>2. CASE At(src, i) # Zero
        <4>1. d \in (i + 1)..n /\ \A k \in i..(d - 1) : At(src, k) \in Digit
          BY <2>1, <3>2, SpanEndIs, SpanGoesOn DEF d
        <4>2. i < d BY <4>1
        <4>. QED BY <1>2, <3>2, <4>1, <4>2 DEF AllIn
      <3>. QED BY <3>1, <3>2
    <2>4. d \in 0..n /\ i < d BY <2>3
    <2>5. /\ \/ Refusal(v)
             \/ \E j \in d..n : v = Done(j) /\ IsFracExp(src, d, j)
          /\ \A j \in d..n : IsFracExp(src, d, j) /\ NumberStops(src, j) => v = Done(j)
      BY <2>2, <2>4, FractionIs
    <2>6. ASSUME NEW j \in d..n, IsFracExp(src, d, j) PROVE j \in (i + 1)..n /\ IsIntFracExp(src, i, j)
      <3>1. j \in (i + 1)..n /\ d \in i..j BY <2>4
      <3>. QED BY <2>3, <2>6, <3>1 DEF IsIntFracExp
    <2>7. ASSUME NEW j \in i..n, IsIntFracExp(src, i, j), NumberStops(src, j)
          PROVE  j \in d..n /\ IsFracExp(src, d, j)
      <3>1. PICK p \in i..j : IsInt(src, i, p) /\ IsFracExp(src, p, j)
        BY <2>7 DEF IsIntFracExp
      <3>2. PICK q \in p..j : IsFrac(src, p, q) /\ IsExp(src, q, j)
        BY <3>1 DEF IsFracExp
      <3>3. p = n \/ At(src, p) \notin Digit
        BY <1>3, <1>4, <1>6, <2>7, <3>2 DEF NumberStops
      <3>4. d = p
        <4>1. CASE At(src, i) = Zero BY <1>2, <3>1, <4>1 DEF d
        <4>2. CASE At(src, i) # Zero
          <5>1. AllIn(src, i, p, Digit) /\ p \in i..n BY <1>2, <3>1
          <5>. QED BY <3>3, <4>2, <5>1, SpanUnique DEF d
        <4>. QED BY <4>1, <4>2
      <3>. QED BY <3>1, <3>4
    <2>. QED BY <2>5, <2>6, <2>7 DEF v
  <1>. QED BY <1>8, <1>9

\* scanNumber accepts exactly the numbers that nothing goes on with.
LEMMA NumberIs ==
    ASSUME NEW src, Len(src) \in Nat, NEW i \in 0..(Len(src) - 1)
    PROVE  LET v == scanNumber(src, i)
           IN  /\ \/ Refusal(v)
                  \/ \E j \in (i + 1)..Len(src) : v = Done(j) /\ IsNumber(src, i, j)
               /\ \A j \in i..Len(src) : IsNumber(src, i, j) /\ NumberStops(src, j) => v = Done(j)
  <1> DEFINE n == Len(src)
             v == scanNumber(src, i)
             d == IF At(src, i) = Minus THEN i + 1 ELSE i
  <1>1. i < n /\ i \in Nat /\ d \in 0..n /\ i <= d OBVIOUS
  <1>2. v = scanInteger(src, d)
    <2>1. Has(src, i, {Minus}) <=> At(src, i) = Minus BY <1>1 DEF Has
    <2>. QED BY <2>1, NumberForms
  <1>3. \A j : IsNumber(src, i, j) <=>
                 /\ i < j
                 /\ \E p \in d..j : \E q \in p..j : IsInt(src, d, p) /\ IsFrac(src, p, q) /\ IsExp(src, q, j)
    BY NumberRules
  <1> HIDE DEF v, d
  <1>4. \A j : IsNumber(src, i, j) <=> i < j /\ IsIntFracExp(src, d, j)
    BY <1>3 DEF IsIntFracExp, IsFracExp
  <1>5. /\ \/ Refusal(v)
           \/ \E j \in (d + 1)..n : v = Done(j) /\ IsIntFracExp(src, d, j)
        /\ \A j \in d..n : IsIntFracExp(src, d, j) /\ NumberStops(src, j) => v = Done(j)
    BY <1>1, <1>2, IntegerIs
  <1>6. ASSUME NEW j \in (d + 1)..n, IsIntFracExp(src, d, j) PROVE j \in (i + 1)..n /\ IsNumber(src, i, j)
    <2>1. j \in (i + 1)..n /\ i < j BY <1>1
    <2>. QED BY <1>4, <1>6, <2>1
  <1>7. ASSUME NEW j \in i..n, IsNumber(src, i, j) PROVE j \in d..n /\ IsIntFracExp(src, d, j)
    <2>1. i < j /\ IsIntFracExp(src, d, j) BY <1>4, <1>7
    <2>2. j \in d..n BY <2>1 DEF d
    <2>. QED BY <2>1, <2>2
  <1>. QED BY <1>5, <1>6, <1>7 DEF v

\* parseNumber names the first byte, and is the scan in all else.
LEMMA ParseNumberIs ==
    ASSUME NEW src, Len(src) \in Nat, NEW i \in 0..(Len(src) - 1)
    PROVE  LET v == parseNumber(src, i)
           IN  /\ \/ Refusal(v)
                  \/ \E j \in (i + 1)..Len(src) : v = Done(j) /\ IsNumber(src, i, j)
               /\ \A j \in i..Len(src) : IsNumber(src, i, j) /\ NumberStops(src, j) => v = Done(j)
  <1> DEFINE w == scanNumber(src, i)
             v == parseNumber(src, i)
  <1>1. /\ \/ Refusal(w)
           \/ \E j \in (i + 1)..Len(src) : w = Done(j) /\ IsNumber(src, i, j)
        /\ \A j \in i..Len(src) : IsNumber(src, i, j) /\ NumberStops(src, j) => w = Done(j)
    BY NumberIs
  <1>2. v = IF IsError(w) THEN Fail(i, w.msg) ELSE w BY DEF parseNumber
  <1> HIDE DEF w, v
  <1>3. CASE Refusal(w)
    <2>1. w.msg \in Messages /\ w.msg # ""
      BY <1>3 DEF Refusal, Verdicts, IsError
    <2>2. Refusal(v)
      <3>1. i \in Nat /\ IsError(w) BY <1>3 DEF Refusal
      <3>. QED BY <1>2, <2>1, <3>1, FailIs
    <2>3. \A j \in i..Len(src) : w # Done(j) BY <1>3, DoneIs DEF Refusal
    <2>. QED BY <1>1, <2>2, <2>3 DEF v
  <1>4. CASE ~Refusal(w)
    <2>1. ~IsError(w)
      <3>1. PICK j \in (i + 1)..Len(src) : w = Done(j) BY <1>1, <1>4
      <3>. QED BY <3>1, DoneIs
    <2>2. v = w BY <1>2, <2>1
    <2>. QED BY <1>1, <2>2 DEF v
  <1>. QED BY <1>3, <1>4

-----------------------------------------------------------------------------
(***************************************************************************)
(* Literals and the first byte of a value.                                 *)
(***************************************************************************)
Null  == <<"n", "u", "l", "l">>
True  == <<"t", "r", "u", "e">>
False == <<"f", "a", "l", "s", "e">>

\* A slice is a word when the word occurs there.
LEMMA SliceMatches ==
    ASSUME NEW S, NEW w \in Seq(S), NEW src, Len(src) \in Nat, NEW i \in 0..Len(src), NEW j \in i..Len(src)
    PROVE  Slice(src, i, j) = w <=> j = i + Len(w) /\ MatchAt(src, i, w)
  <1> DEFINE u == SubSeq(src, i + 1, j)
             A == S \cup {src[x] : x \in 1..Len(src)}
  <1>1. /\ i + 1 \in Int /\ j \in Int /\ Len(w) \in Nat /\ w \in Seq(A) /\ i \in Nat
        /\ \A x \in (i + 1)..j : src[x] \in A
    <2>1. S \subseteq A OBVIOUS
    <2>2. w \in Seq(A) /\ Len(w) \in Nat BY <2>1, SeqMonotonic, LenProperties
    <2>. QED BY <2>2
  <1> HIDE DEF A
  <1>2. /\ u \in Seq(A) /\ Len(u) = j - i
        /\ \A k \in 1..(j - i) : u[k] = src[i + k]
    <2>1. /\ u \in Seq(A)
          /\ Len(u) = IF i + 1 <= j THEN j - (i + 1) + 1 ELSE 0
          /\ \A k \in 1..(j - (i + 1) + 1) : u[k] = src[(i + 1) + k - 1]
      BY <1>1, SubSeqProperties, SMTT(60)
    <2>2. j - (i + 1) + 1 = j - i /\ (~(i + 1 <= j) => j - i = 0) BY <1>1
    <2>3. \A k \in 1..(j - i) : (i + 1) + k - 1 = i + k BY <1>1
    <2>. QED BY <2>1, <2>2, <2>3
  <1> HIDE DEF u
  <1>3. MatchAt(src, i, w) <=> i + Len(w) <= Len(src) /\ \A k \in 1..Len(w) : src[i + k] = w[k]
    <2>1. ASSUME MatchAt(src, i, w), NEW k \in 1..Len(w) PROVE src[i + k] = w[k]
      <3>1. k - 1 \in 0..(Len(w) - 1) /\ (i + (k - 1)) + 1 = i + k /\ (k - 1) + 1 = k
        BY <1>1
      <3>. QED BY <2>1, <3>1 DEF MatchAt, At
    <2>2. ASSUME \A k \in 1..Len(w) : src[i + k] = w[k], NEW k \in 0..(Len(w) - 1)
          PROVE  At(src, i + k) = At(w, k)
      <3>1. k + 1 \in 1..Len(w) /\ (i + k) + 1 = i + (k + 1) BY <1>1
      <3>. QED BY <2>2, <3>1 DEF At
    <2>. QED BY <2>1, <2>2 DEF MatchAt
  <1>4. ASSUME u = w PROVE j = i + Len(w) /\ MatchAt(src, i, w)
    <2>1. Len(w) = j - i /\ \A k \in 1..(j - i) : w[k] = src[i + k]
      BY <1>2, <1>4
    <2>. QED BY <1>1, <1>3, <2>1
  <1>5. ASSUME j = i + Len(w), MatchAt(src, i, w) PROVE u = w
    <2>1. Len(u) = Len(w) /\ \A k \in 1..Len(u) : u[k] = w[k]
      BY <1>1, <1>2, <1>3, <1>5
    <2>. QED BY <1>1, <1>2, <2>1, SeqEqual
  <1>. QED BY <1>4, <1>5 DEF Slice, u

Words == {Null, True, False}

Letters == {"n", "u", "l", "t", "r", "e", "f", "a", "s"}

\* Tuples of four and of five as sequences.
LEMMA TupleWords ==
    ASSUME NEW S, NEW a \in S, NEW b \in S, NEW c \in S, NEW d \in S, NEW e \in S
    PROVE  /\ <<a, b, c, d>> \in Seq(S) /\ Len(<<a, b, c, d>>) = 4 /\ <<a, b, c, d>>[1] = a
           /\ <<a, b, c, d, e>> \in Seq(S) /\ Len(<<a, b, c, d, e>>) = 5 /\ <<a, b, c, d, e>>[1] = a
  OBVIOUS

\* The three literals as sequences.
LEMMA WordsAre ==
    /\ Null \in Seq(Letters) /\ Len(Null) = 4 /\ Null[1] = "n"
    /\ True \in Seq(Letters) /\ Len(True) = 4 /\ True[1] = "t"
    /\ False \in Seq(Letters) /\ Len(False) = 5 /\ False[1] = "f"
  <1>1. /\ "n" \in Letters /\ "u" \in Letters /\ "l" \in Letters /\ "t" \in Letters /\ "r" \in Letters
        /\ "e" \in Letters /\ "f" \in Letters /\ "a" \in Letters /\ "s" \in Letters
    BY Zenon DEF Letters
  <1>. QED BY <1>1, TupleWords, Zenon DEF Null, True, False

\* parseLiteral accepts the word it is given.
LEMMA LiteralIs ==
    ASSUME NEW src, Len(src) \in Nat, NEW i \in 0..Len(src), NEW w \in Words
    PROVE  LET v == parseLiteral(src, i, w)
           IN  /\ \/ Refusal(v)
                  \/ i + Len(w) \in (i + 1)..Len(src) /\ v = Done(i + Len(w)) /\ Slice(src, i, i + Len(w)) = w
               /\ \A j \in i..Len(src) : Slice(src, i, j) = w => v = Done(j)
               /\ \A j \in i..Len(src) : Slice(src, i, j) = w => j = i + Len(w) /\ MatchAt(src, i, w) /\ At(src, i) = w[1]
  <1> DEFINE v == parseLiteral(src, i, w)
  <1>1. w \in Seq(Letters) /\ Len(w) \in Nat /\ Len(w) > 0 BY WordsAre DEF Words
  <1>2. Refusal(Fail(i, "invalid literal"))
    <2>1. i \in Nat OBVIOUS
    <2>. QED BY <2>1, FailIs, Zenon DEF Messages
  <1>3. v = IF MatchAt(src, i, w) THEN Done(i + Len(w)) ELSE Fail(i, "invalid literal")
    BY DEF parseLiteral
  <1> HIDE DEF v
  <1>4. \A j \in i..Len(src) : Slice(src, i, j) = w <=> j = i + Len(w) /\ MatchAt(src, i, w)
    BY <1>1, SliceMatches
  <1>5. MatchAt(src, i, w) => i + Len(w) \in (i + 1)..Len(src) /\ i + Len(w) \in i..Len(src) /\ At(src, i) = w[1]
    <2>1. 0 \in 0..(Len(w) - 1) /\ i + 0 = i /\ 0 + 1 = 1 BY <1>1
    <2>2. MatchAt(src, i, w) => At(src, i) = At(w, 0) BY <2>1 DEF MatchAt
    <2>3. At(w, 0) = w[1] BY <2>1 DEF At
    <2>4. MatchAt(src, i, w) => i + Len(w) <= Len(src) BY DEF MatchAt
    <2>. QED BY <1>1, <2>2, <2>3, <2>4
  <1>6. CASE MatchAt(src, i, w) BY <1>3, <1>4, <1>5, <1>6 DEF v
  <1>7. CASE ~MatchAt(src, i, w) BY <1>2, <1>3, <1>4, <1>7 DEF v
  <1>. QED BY <1>6, <1>7

\* The values without parts.
IsScalar(src, i, j) == IsLiteral(src, i, j) \/ IsNumber(src, i, j) \/ IsString(src, i, j)

\* The first byte of a value without parts tells its kind.
LEMMA ScalarParts ==
    ASSUME NEW src, Len(src) \in Nat, NEW i \in 0..Len(src), NEW j \in i..Len(src), IsScalar(src, i, j)
    PROVE  \/ At(src, i) = "n" /\ Slice(src, i, j) = Null
           \/ At(src, i) = "t" /\ Slice(src, i, j) = True
           \/ At(src, i) = "f" /\ Slice(src, i, j) = False
           \/ At(src, i) \in Digit \cup {Minus} /\ IsNumber(src, i, j)
           \/ At(src, i) = Quote /\ IsString(src, i, j)
  <1>1. CASE IsLiteral(src, i, j)
    <2>1. Slice(src, i, j) \in {Null, True, False}
      BY <1>1 DEF IsLiteral, Null, True, False
    <2>2. \A w \in Words : Slice(src, i, j) = w => At(src, i) = w[1]
      BY LiteralIs
    <2>. QED BY <2>1, <2>2, WordsAre DEF Words
  <1>2. CASE IsNumber(src, i, j)
    <2>1. PICK p \in (IF At(src, i) = Minus THEN i + 1 ELSE i)..j :
             IsInt(src, IF At(src, i) = Minus THEN i + 1 ELSE i, p)
      BY <1>2, NumberRules
    <2>2. CASE At(src, i) # Minus
      <3>1. i < p /\ AllIn(src, i, p, Digit) BY <2>1, <2>2, NumberRules
      <3>2. i \in i..(p - 1) BY <3>1
      <3>3. At(src, i) \in Digit BY <3>1, <3>2 DEF AllIn
      <3>. QED BY <1>2, <3>3
    <2>. QED BY <1>2, <2>2
  <1>3. CASE IsString(src, i, j)
    <2>1. At(src, i) = Quote BY <1>3, Zenon DEF IsString, Quote
    <2>. QED BY <1>3, <2>1
  <1>. QED BY <1>1, <1>2, <1>3 DEF IsScalar

\* The bytes a value can begin with are told apart.
LEMMA FirstBytes ==
    /\ "n" # "t" /\ "n" # "f" /\ "t" # "f"
    /\ {"n", "t", "f"} \cap (Digit \cup {Minus}) = {}
    /\ Quote \notin {"n", "t", "f"} /\ Quote \notin Digit \cup {Minus}
    /\ \A c \in {"[", LBrace} : c \notin {"n", "t", "f"} /\ c \notin Digit \cup {Minus} /\ c # Quote
    /\ "[" # LBrace
  BY Zenon DEF Quote, Digit, Minus, LBrace

\* No value begins with the byte c.
NoStart(c) == c \notin {"n", "t", "f", Quote, "[", LBrace} \cup Digit \cup {Minus}

\* parseValue dispatches on the first byte.
LEMMA Dispatch ==
    ASSUME NEW src, NEW P, NEW i, NEW d, ~(d > MaxDepth), ~(i >= Len(src))
    PROVE  LET c == At(src, i)
               v == parseValue(src, P, i, d)
           IN  /\ c = "n" => v = parseLiteral(src, i, Null)
               /\ c = "t" => v = parseLiteral(src, i, True)
               /\ c = "f" => v = parseLiteral(src, i, False)
               /\ c = Quote => v = parseString(src, i)
               /\ c = "[" => v = parseArray(src, P, i, d + 1)
               /\ c = LBrace => v = parseObject(src, P, i, d + 1)
               /\ c \in Digit \cup {Minus} => v = parseNumber(src, i)
  <1> DEFINE c == At(src, i)
             v == parseValue(src, P, i, d)
  <1>1. c = "n" => v = parseLiteral(src, i, Null)
    BY Zenon DEF parseValue, Null, Digit
  <1>2. c = "t" => v = parseLiteral(src, i, True)
    BY Zenon DEF parseValue, True, Digit
  <1>3. c = "f" => v = parseLiteral(src, i, False)
    BY Zenon DEF parseValue, False, Digit
  <1>4. c = Quote => v = parseString(src, i)
    BY Zenon DEF parseValue, Quote, Digit
  <1>5. c = "[" => v = parseArray(src, P, i, d + 1)
    BY Zenon DEF parseValue, Digit
  <1>6. c = LBrace => v = parseObject(src, P, i, d + 1)
    BY Zenon DEF parseValue, LBrace, Digit
  <1>7. c \in Digit \cup {Minus} => v = parseNumber(src, i)
    <2>1. ASSUME c \in Digit \cup {"-"} PROVE /\ c # "n" /\ c # "t" /\ c # "f" /\ c # "\"" /\ c # "[" /\ c # "{"
      BY <2>1, Zenon DEF Digit
    <2>. QED BY <2>1, Zenon DEF parseValue, Minus
  <1>. QED BY <1>1, <1>2, <1>3, <1>4, <1>5, <1>6, <1>7

Unexpected == "unexpected byte"

\* It refuses every other byte.
LEMMA DispatchOther ==
    ASSUME NEW src, NEW P, NEW i, NEW d, ~(d > MaxDepth), ~(i >= Len(src)), NoStart(At(src, i))
    PROVE  parseValue(src, P, i, d) = Fail(i, Unexpected)
  BY Zenon DEF parseValue, NoStart, Quote, LBrace, Minus, Unexpected

-----------------------------------------------------------------------------
(***************************************************************************)
(* Values.                                                                 *)
(***************************************************************************)
Openers == {"[", LBrace}

\* The verdict w on the value without parts at i.
Accepts(src, i, w) ==
    /\ Refusal(w) \/ \E j \in (i + 1)..Len(src) : w = Done(j) /\ IsScalar(src, i, j)
    /\ \A j \in (i + 1)..Len(src) :
          IsScalar(src, i, j) /\ (IsNumber(src, i, j) => NumberStops(src, j)) => w = Done(j)

\* parseLiteral accepts what the grammar reads at a letter.
LEMMA LiteralAccepted ==
    ASSUME NEW src, Len(src) \in Nat, NEW i \in 0..(Len(src) - 1), NEW w \in Words, At(src, i) = w[1]
    PROVE  Accepts(src, i, parseLiteral(src, i, w))
  <1> DEFINE n == Len(src)
             v == parseLiteral(src, i, w)
  <1>1. i \in 0..n /\ \A j \in (i + 1)..n : j \in i..n OBVIOUS
  <1>2. /\ \/ Refusal(v)
           \/ i + Len(w) \in (i + 1)..n /\ v = Done(i + Len(w)) /\ Slice(src, i, i + Len(w)) = w
        /\ \A j \in i..n : Slice(src, i, j) = w => v = Done(j)
    BY <1>1, LiteralIs
  <1>3. \A j : Slice(src, i, j) = w => IsScalar(src, i, j)
    BY DEF IsScalar, IsLiteral, Words, Null, True, False
  <1>4. ASSUME NEW j \in (i + 1)..n, IsScalar(src, i, j) PROVE Slice(src, i, j) = w
    <2>1. \/ At(src, i) = "n" /\ Slice(src, i, j) = Null
          \/ At(src, i) = "t" /\ Slice(src, i, j) = True
          \/ At(src, i) = "f" /\ Slice(src, i, j) = False
          \/ At(src, i) \in Digit \cup {Minus} /\ IsNumber(src, i, j)
          \/ At(src, i) = Quote /\ IsString(src, i, j)
      BY <1>1, <1>4, ScalarParts
    <2>2. \/ (w = Null /\ At(src, i) = "n")
          \/ (w = True /\ At(src, i) = "t")
          \/ (w = False /\ At(src, i) = "f")
      BY WordsAre DEF Words
    <2>3. At(src, i) \in {"n", "t", "f"} BY <2>2
    <2>4. At(src, i) \notin Digit \cup {Minus} /\ At(src, i) # Quote
      BY <2>3, FirstBytes, Zenon
    <2>. QED BY <2>1, <2>2, <2>4, FirstBytes
  <1> HIDE DEF v
  <1>. QED BY <1>1, <1>2, <1>3, <1>4 DEF Accepts, v

\* parseNumber accepts what the grammar reads at a digit or a minus.
LEMMA NumberAccepted ==
    ASSUME NEW src, Len(src) \in Nat, NEW i \in 0..(Len(src) - 1), At(src, i) \in Digit \cup {Minus}
    PROVE  Accepts(src, i, parseNumber(src, i))
  <1> DEFINE n == Len(src)
             v == parseNumber(src, i)
  <1>1. i \in 0..n /\ \A j \in (i + 1)..n : j \in i..n OBVIOUS
  <1>2. /\ \/ Refusal(v)
           \/ \E j \in (i + 1)..n : v = Done(j) /\ IsNumber(src, i, j)
        /\ \A j \in i..n : IsNumber(src, i, j) /\ NumberStops(src, j) => v = Done(j)
    BY ParseNumberIs
  <1>3. ASSUME NEW j \in (i + 1)..n, IsScalar(src, i, j) PROVE IsNumber(src, i, j)
    <2>1. \/ At(src, i) = "n" /\ Slice(src, i, j) = Null
          \/ At(src, i) = "t" /\ Slice(src, i, j) = True
          \/ At(src, i) = "f" /\ Slice(src, i, j) = False
          \/ At(src, i) \in Digit \cup {Minus} /\ IsNumber(src, i, j)
          \/ At(src, i) = Quote /\ IsString(src, i, j)
      BY <1>1, <1>3, ScalarParts
    <2>2. At(src, i) \notin {"n", "t", "f"} /\ At(src, i) # Quote
      BY FirstBytes, Zenon
    <2>. QED BY <2>1, <2>2
  <1> HIDE DEF v
  <1>. QED BY <1>1, <1>2, <1>3 DEF Accepts, IsScalar, v

\* parseString accepts what the grammar reads at a quote.
LEMMA StringAccepted ==
    ASSUME NEW src, Len(src) \in Nat, NEW i \in 0..(Len(src) - 1), At(src, i) = Quote
    PROVE  Accepts(src, i, parseString(src, i))
  <1> DEFINE n == Len(src)
             v == parseString(src, i)
  <1>1. i \in 0..n /\ i \in Nat /\ i < n /\ \A j \in (i + 1)..n : j \in i..n /\ j \in 0..n
    OBVIOUS
  <1>2. \/ \E j \in (i + 2)..n : /\ IsString(src, i, j) /\ v = Done(j)
                                 /\ \A k \in 0..n : IsString(src, i, k) => k = j
        \/ Refusal(v) /\ \A k \in 0..n : ~IsString(src, i, k)
    BY <1>1, ParseStringIs
  <1>3. ASSUME NEW j \in (i + 1)..n, IsScalar(src, i, j) PROVE IsString(src, i, j)
    <2>1. \/ At(src, i) = "n" /\ Slice(src, i, j) = Null
          \/ At(src, i) = "t" /\ Slice(src, i, j) = True
          \/ At(src, i) = "f" /\ Slice(src, i, j) = False
          \/ At(src, i) \in Digit \cup {Minus} /\ IsNumber(src, i, j)
          \/ At(src, i) = Quote /\ IsString(src, i, j)
      BY <1>1, <1>3, ScalarParts
    <2>2. At(src, i) \notin {"n", "t", "f"} /\ At(src, i) \notin Digit \cup {Minus}
      BY FirstBytes, Zenon
    <2>. QED BY <2>1, <2>2
  <1>4. \A j \in (i + 2)..n : j \in (i + 1)..n OBVIOUS
  <1> HIDE DEF v
  <1>. QED BY <1>1, <1>2, <1>3, <1>4 DEF Accepts, IsScalar, v

\* Any other byte begins no value.
LEMMA NothingAccepted ==
    ASSUME NEW src, Len(src) \in Nat, NEW i \in 0..(Len(src) - 1), NEW w, Refusal(w),
           At(src, i) \notin {"n", "t", "f", Quote} \cup Digit \cup {Minus}
    PROVE  Accepts(src, i, w)
  <1>1. i \in 0..Len(src) /\ \A j \in (i + 1)..Len(src) : j \in i..Len(src)
    OBVIOUS
  <1>2. ASSUME NEW j \in (i + 1)..Len(src), IsScalar(src, i, j) PROVE FALSE
    <2>1. \/ At(src, i) = "n" /\ Slice(src, i, j) = Null
          \/ At(src, i) = "t" /\ Slice(src, i, j) = True
          \/ At(src, i) = "f" /\ Slice(src, i, j) = False
          \/ At(src, i) \in Digit \cup {Minus} /\ IsNumber(src, i, j)
          \/ At(src, i) = Quote /\ IsString(src, i, j)
      BY <1>1, <1>2, ScalarParts
    <2>. QED BY <2>1
  <1>. QED BY <1>2 DEF Accepts

\* parseValue on a byte that opens no container.
LEMMA ScalarVerdict ==
    ASSUME NEW src, Len(src) \in Nat, NEW i \in 0..(Len(src) - 1), At(src, i) \notin Openers
    PROVE  \E w : Accepts(src, i, w) /\ \A P : \A d \in 0..MaxDepth : parseValue(src, P, i, d) = w
  <1> DEFINE c == At(src, i)
  <1>1. \A d \in 0..MaxDepth : ~(d > MaxDepth) BY MaxDepthAssumption
  <1>2. ~(i >= Len(src)) /\ i \in Nat OBVIOUS
  <1> HIDE DEF c
  <1>3. ASSUME NEW P, NEW d \in 0..MaxDepth
        PROVE  /\ c = "n" => parseValue(src, P, i, d) = parseLiteral(src, i, Null)
               /\ c = "t" => parseValue(src, P, i, d) = parseLiteral(src, i, True)
               /\ c = "f" => parseValue(src, P, i, d) = parseLiteral(src, i, False)
               /\ c = Quote => parseValue(src, P, i, d) = parseString(src, i)
               /\ c \in Digit \cup {Minus} => parseValue(src, P, i, d) = parseNumber(src, i)
               /\ NoStart(c) =>
                    parseValue(src, P, i, d) = Fail(i, Unexpected)
    <2>1. ~(d > MaxDepth) BY <1>1
    <2>2. c = "n" => parseValue(src, P, i, d) = parseLiteral(src, i, Null)
      BY <1>2, <2>1, Dispatch, Zenon DEF c
    <2>3. c = "t" => parseValue(src, P, i, d) = parseLiteral(src, i, True)
      BY <1>2, <2>1, Dispatch, Zenon DEF c
    <2>4. c = "f" => parseValue(src, P, i, d) = parseLiteral(src, i, False)
      BY <1>2, <2>1, Dispatch, Zenon DEF c
    <2>5. c = Quote => parseValue(src, P, i, d) = parseString(src, i)
      BY <1>2, <2>1, Dispatch, Zenon DEF c
    <2>6. c \in Digit \cup {Minus} => parseValue(src, P, i, d) = parseNumber(src, i)
      BY <1>2, <2>1, Dispatch, Zenon DEF c
    <2>7. NoStart(c) => parseValue(src, P, i, d) = Fail(i, Unexpected)
      BY <1>2, <2>1, DispatchOther, Zenon DEF c
    <2>. QED BY <2>2, <2>3, <2>4, <2>5, <2>6, <2>7
  <1>4. Refusal(Fail(i, Unexpected))
    BY <1>2, FailIs, Zenon DEF Messages, Unexpected
  <1>5. CASE c = "n"
    <2>1. Accepts(src, i, parseLiteral(src, i, Null))
      BY <1>5, WordsAre, LiteralAccepted DEF Words, c
    <2>. QED BY <1>3, <1>5, <2>1
  <1>6. CASE c = "t"
    <2>1. Accepts(src, i, parseLiteral(src, i, True))
      BY <1>6, WordsAre, LiteralAccepted DEF Words, c
    <2>. QED BY <1>3, <1>6, <2>1
  <1>7. CASE c = "f"
    <2>1. Accepts(src, i, parseLiteral(src, i, False))
      BY <1>7, WordsAre, LiteralAccepted DEF Words, c
    <2>. QED BY <1>3, <1>7, <2>1
  <1>8. CASE c = Quote
    <2>1. Accepts(src, i, parseString(src, i)) BY <1>8, StringAccepted DEF c
    <2>. QED BY <1>3, <1>8, <2>1
  <1>9. CASE c \in Digit \cup {Minus}
    <2>1. Accepts(src, i, parseNumber(src, i)) BY <1>9, NumberAccepted DEF c
    <2>. QED BY <1>3, <1>9, <2>1
  <1>10. CASE c \notin {"n", "t", "f", Quote} \cup Digit \cup {Minus}
    <2>1. Accepts(src, i, Fail(i, Unexpected))
      BY <1>4, <1>10, NothingAccepted, Zenon DEF c
    <2>2. NoStart(c) BY <1>10 DEF Openers, NoStart, c
    <2>. QED BY <1>3, <2>1, <2>2, Zenon
  <1>. QED BY <1>5, <1>6, <1>7, <1>8, <1>9, <1>10

\* The places of the descent, and what is decided before what: first the later
\* offsets, and at one offset the value.
Places(n) == {"value", "elements", "members"} \X (0..n) \X (0..MaxDepth)

PlaceRank(n, s) == 2 * (n - s[2]) + IF s[1] = "value" THEN 0 ELSE 1

\* What parser P says of a place, by the methods of the validator.
Parse(src, P, s) ==
    CASE s[1] = "value"    -> parseValue(src, P, s[2], s[3])
      [] s[1] = "elements" -> parseElements(src, P, s[2], s[3])
      [] s[1] = "members"  -> parseMembers(src, P, s[2], s[3])

\* A verdict that refuses, or ends a construct that was begun at i.
Reaches(src, i, v) == v \in Verdicts /\ (IsError(v) \/ v.end \in (i + 1)..Len(src))

\* The parsers f and h say the same of every place from rank m down, and it makes sense.
Alike(src, f, h, m) ==
    \A t \in Places(Len(src)) : PlaceRank(Len(src), t) < m => f[t] = h[t] /\ Reaches(src, t[2], f[t])

\* A place further on, or the value of the same offset, ranks lower.
LEMMA Deeper ==
    ASSUME NEW n \in Nat, NEW s \in Places(n), NEW r \in {"value", "elements", "members"}, NEW j \in 0..n,
           NEW d \in 0..MaxDepth, j > s[2] \/ (j = s[2] /\ r = "value" /\ s[1] # "value")
    PROVE  <<r, j, d>> \in Places(n) /\ PlaceRank(n, <<r, j, d>>) < PlaceRank(n, s)
  <1> DEFINE t == <<r, j, d>>
             i == s[2]
  <1>1. t \in Places(n) /\ t[1] = r /\ t[2] = j /\ i \in 0..n BY DEF Places
  <1> HIDE DEF t, i
  <1>2. /\ PlaceRank(n, t) \in {2 * (n - j), 2 * (n - j) + 1}
        /\ r = "value" => PlaceRank(n, t) = 2 * (n - j)
        /\ PlaceRank(n, s) \in {2 * (n - i), 2 * (n - i) + 1}
        /\ s[1] # "value" => PlaceRank(n, s) = 2 * (n - i) + 1
    BY <1>1 DEF PlaceRank, i
  <1>3. CASE j > i
    <2>1. 2 * (n - j) + 1 < 2 * (n - i) BY <1>1, <1>3
    <2>. QED BY <1>1, <1>2, <2>1 DEF t
  <1>4. CASE j = i /\ r = "value" /\ s[1] # "value" BY <1>1, <1>2, <1>4 DEF t
  <1>. QED BY <1>3, <1>4 DEF i

\* Ranks are bounded by the length of the text.
LEMMA RankIsNat ==
    ASSUME NEW n \in Nat, NEW s \in Places(n)
    PROVE  PlaceRank(n, s) \in 0..(2 * n + 1)
  <1>1. s[2] \in 0..n BY DEF Places
  <1>2. PlaceRank(n, s) \in {2 * (n - s[2]), 2 * (n - s[2]) + 1}
    BY <1>1 DEF PlaceRank
  <1>. QED BY <1>1, <1>2

Reasons == Messages \ {""}

\* A reason makes a refusal.
LEMMA ReasonGiven == ASSUME NEW i \in Nat, NEW m \in Reasons PROVE Refusal(Fail(i, m))
  BY FailIs DEF Reasons

\* What follows an element or a member: another one, the closing byte, or an error.
\* j is the offset of the byte that decides, w the verdict.
Follows(src, P, v, j, d, rule, close, m1, m2, w) ==
    /\ IsError(v) => w = v
    /\ ~IsError(v) /\ j >= Len(src) => w = Fail(j, m1)
    /\ ~IsError(v) /\ ~(j >= Len(src)) /\ At(src, j) = Comma => w = P[<<rule, j + 1, d>>]
    /\ ~IsError(v) /\ ~(j >= Len(src)) /\ At(src, j) # Comma /\ At(src, j) = close => w = Done(j + 1)
    /\ ~IsError(v) /\ ~(j >= Len(src)) /\ At(src, j) # Comma /\ At(src, j) # close => w = Fail(j, m2)

\* closeOrNext has the form Follows.
LEMMA CloseOrNextIs ==
    ASSUME NEW src, NEW P, NEW v, NEW d, NEW rule, NEW close, NEW m1, NEW m2
    PROVE  Follows(src, P, v, SpanEnd(src, v.end, Space), d, rule, close, m1, m2,
                   closeOrNext(src, P, v, d, rule, close, m1, m2))
  <1> DEFINE w == closeOrNext(src, P, v, d, rule, close, m1, m2)
             j == SpanEnd(src, v.end, Space)
  <1>1. w = IF IsError(v) THEN v
            ELSE IF j >= Len(src) THEN Fail(j, m1)
            ELSE IF At(src, j) = Comma THEN P[<<rule, j + 1, d>>]
            ELSE IF At(src, j) = close THEN Done(j + 1)
            ELSE Fail(j, m2)
    BY Zenon DEF closeOrNext, SkipSpace, Comma
  <1> HIDE DEF w, j
  <1>2. Follows(src, P, v, j, d, rule, close, m1, m2, w) BY <1>1 DEF Follows
  <1>. QED BY <1>2 DEF w, j

\* closeOrNext asks the parser only at places of lower rank, and moves forward.
LEMMA CloseOrNextAlike ==
    ASSUME NEW src, Len(src) \in Nat, NEW s \in Places(Len(src)), NEW f, NEW h,
           Alike(src, f, h, PlaceRank(Len(src), s)),
           NEW v, Reaches(src, s[2], v), NEW d \in 0..MaxDepth, NEW rule \in {"elements", "members"}, NEW close,
           NEW m1 \in Reasons, NEW m2 \in Reasons
    PROVE  /\ closeOrNext(src, f, v, d, rule, close, m1, m2) = closeOrNext(src, h, v, d, rule, close, m1, m2)
           /\ Reaches(src, s[2], closeOrNext(src, f, v, d, rule, close, m1, m2))
  <1> DEFINE n == Len(src)
             i == s[2]
             j == SpanEnd(src, v.end, Space)
             w == closeOrNext(src, f, v, d, rule, close, m1, m2)
             x == closeOrNext(src, h, v, d, rule, close, m1, m2)
  <1>1. i \in 0..n /\ n \in Nat BY DEF Places
  <1>2. /\ IsError(v) => w = v /\ x = v
        /\ ~IsError(v) /\ j >= n => w = Fail(j, m1) /\ x = Fail(j, m1)
        /\ ~IsError(v) /\ ~(j >= n) /\ At(src, j) = Comma => w = f[<<rule, j + 1, d>>] /\ x = h[<<rule, j + 1, d>>]
        /\ ~IsError(v) /\ ~(j >= n) /\ At(src, j) # Comma /\ At(src, j) = close => w = Done(j + 1) /\ x = Done(j + 1)
        /\ ~IsError(v) /\ ~(j >= n) /\ At(src, j) # Comma /\ At(src, j) # close => w = Fail(j, m2) /\ x = Fail(j, m2)
    <2>1. Follows(src, f, v, j, d, rule, close, m1, m2, w) /\ Follows(src, h, v, j, d, rule, close, m1, m2, x)
      BY CloseOrNextIs
    <2> HIDE DEF w, x, j
    <2>. QED BY <2>1 DEF Follows
  <1> HIDE DEF w, x, i
  <1>3. CASE IsError(v)
    <2>1. w = v /\ x = v BY <1>2, <1>3
    <2>. QED BY <2>1 DEF w, x, i
  <1>4. CASE ~IsError(v)
    <2>1. v.end \in (i + 1)..n BY <1>4 DEF Reaches, i
    <2>2. v.end \in 0..n BY <1>1, <2>1
    <2>3. j \in (i + 1)..n
      <3>1. j \in v.end..n BY <2>2, SpanEndIs
      <3>. QED BY <1>1, <2>1, <3>1
    <2> HIDE DEF j
    <2>4. j \in Nat BY <1>1, <2>3
    <2>5. Refusal(Fail(j, m1)) /\ Refusal(Fail(j, m2)) BY <2>4, ReasonGiven
    <2>6. CASE j >= n
      <3>1. w = Fail(j, m1) /\ x = Fail(j, m1) BY <1>2, <1>4, <2>6
      <3>. QED BY <2>5, <3>1 DEF Reaches, Refusal, w, x, i
    <2>7. CASE ~(j >= n) /\ At(src, j) = Comma
      <3> DEFINE t == <<rule, j + 1, d>>
      <3>1. j + 1 \in 0..n /\ j + 1 > i /\ j + 1 > s[2]
        BY <1>1, <2>3, <2>7 DEF i
      <3>2. t \in Places(n) /\ PlaceRank(n, t) < PlaceRank(n, s) /\ t[2] = j + 1
        BY <3>1, Deeper
      <3>3. f[t] = h[t] /\ Reaches(src, t[2], f[t]) BY <3>2 DEF Alike
      <3>4. w = f[t] /\ x = h[t] BY <1>2, <1>4, <2>7
      <3> HIDE DEF t
      <3>5. Reaches(src, i, w)
        <4>1. w \in Verdicts /\ (IsError(w) \/ w.end \in ((j + 1) + 1)..n)
          BY <3>2, <3>3, <3>4 DEF Reaches
        <4>2. \A e \in ((j + 1) + 1)..n : e \in (i + 1)..n BY <1>1, <2>3
        <4>. QED BY <4>1, <4>2 DEF Reaches
      <3>. QED BY <3>3, <3>4, <3>5 DEF w, x, i
    <2>8. CASE ~(j >= n) /\ At(src, j) # Comma /\ At(src, j) = close
      <3>1. w = Done(j + 1) /\ x = Done(j + 1) BY <1>2, <1>4, <2>8
      <3>2. j + 1 \in Nat /\ j + 1 \in (i + 1)..n BY <1>1, <2>3, <2>8
      <3>3. Reaches(src, i, Done(j + 1)) BY <3>2, DoneIs DEF Reaches
      <3>. QED BY <3>1, <3>3 DEF w, x, i
    <2>9. CASE ~(j >= n) /\ At(src, j) # Comma /\ At(src, j) # close
      <3>1. w = Fail(j, m2) /\ x = Fail(j, m2) BY <1>2, <1>4, <2>9
      <3>. QED BY <2>5, <3>1 DEF Reaches, Refusal, w, x, i
    <2>. QED BY <2>6, <2>7, <2>8, <2>9
  <1>. QED BY <1>3, <1>4

TooDeep     == "maximum nesting depth exceeded"
NoName      == "expected object key string"
NoColon     == "expected colon after object key"
OpenArray   == "unterminated array"
NoComma     == "expected comma or closing bracket in array"
OpenObject  == "unterminated object"
NoNextName  == "expected comma or closing brace in object"
NoValueHere == "expected value"

\* The messages of the descent are reasons.
LEMMA ReasonsAre ==
    /\ TooDeep \in Reasons /\ NoName \in Reasons /\ NoColon \in Reasons /\ OpenArray \in Reasons
    /\ NoComma \in Reasons /\ OpenObject \in Reasons /\ NoNextName \in Reasons /\ NoValueHere \in Reasons
  BY Zenon DEF Reasons, Messages, TooDeep, NoName, NoColon, OpenArray, NoComma, OpenObject, NoNextName, NoValueHere

\* The verdict w on the container that the byte at i opens; j is the next byte.
Opens(src, P, i, j, d, w) ==
    /\ ~(d < MaxDepth) => w = Fail(i, TooDeep)
    /\ d < MaxDepth /\ j < Len(src) /\ At(src, j) = CloserOf(At(src, i)) => w = Done(j + 1)
    /\ d < MaxDepth /\ ~(j < Len(src) /\ At(src, j) = CloserOf(At(src, i))) => w = P[<<RuleOf(At(src, i)), j, d + 1>>]

\* parseValue at an opening byte has the form Opens: parseArray and parseObject.
LEMMA ContainerForm ==
    ASSUME NEW src, Len(src) \in Nat, NEW i \in 0..(Len(src) - 1), NEW d \in 0..MaxDepth, At(src, i) \in Openers, NEW P
    PROVE  Opens(src, P, i, SpanEnd(src, i + 1, Space), d, parseValue(src, P, i, d))
  <1> DEFINE w == parseValue(src, P, i, d)
             j == SpanEnd(src, i + 1, Space)
  <1>1. ~(d > MaxDepth) /\ ~(i >= Len(src)) /\ (d + 1 > MaxDepth <=> ~(d < MaxDepth))
    BY MaxDepthAssumption
  <1>2. At(src, i) = "[" => w = parseArray(src, P, i, d + 1)
    BY <1>1, Dispatch, Zenon
  <1>3. At(src, i) = LBrace => w = parseObject(src, P, i, d + 1)
    BY <1>1, Dispatch, Zenon
  <1>4. parseArray(src, P, i, d + 1) =
          IF d + 1 > MaxDepth THEN Fail(i, TooDeep)
          ELSE IF j < Len(src) /\ At(src, j) = "]" THEN Done(j + 1)
          ELSE P[<<"elements", j, d + 1>>]
    BY DEF parseArray, SkipSpace, TooDeep
  <1>5. parseObject(src, P, i, d + 1) =
          IF d + 1 > MaxDepth THEN Fail(i, TooDeep)
          ELSE IF j < Len(src) /\ At(src, j) = RBrace THEN Done(j + 1)
          ELSE P[<<"members", j, d + 1>>]
    BY Zenon DEF parseObject, SkipSpace, TooDeep, RBrace
  <1> HIDE DEF w, j
  <1>6. CASE At(src, i) = "["
    <2>1. CloserOf(At(src, i)) = "]" /\ RuleOf(At(src, i)) = "elements"
      BY <1>6 DEF CloserOf, RuleOf
    <2>2. Opens(src, P, i, j, d, w) BY <1>1, <1>2, <1>4, <1>6, <2>1 DEF Opens
    <2>. QED BY <2>2 DEF w, j
  <1>7. CASE At(src, i) = LBrace
    <2>1. LBrace # "[" BY FirstBytes
    <2>2. CloserOf(At(src, i)) = RBrace /\ RuleOf(At(src, i)) = "members"
      BY <1>7, <2>1 DEF CloserOf, RuleOf
    <2>3. Opens(src, P, i, j, d, w) BY <1>1, <1>3, <1>5, <1>7, <2>2 DEF Opens
    <2>. QED BY <2>3 DEF w, j
  <1>. QED BY <1>6, <1>7 DEF Openers

\* parseElements, with its messages named.
LEMMA ElementsForm ==
    ASSUME NEW src, NEW P, NEW i, NEW d
    PROVE  parseElements(src, P, i, d) =
             closeOrNext(src, P, P[<<"value", SpanEnd(src, i, Space), d>>], d, "elements", "]", OpenArray, NoComma)
  BY DEF parseElements, SkipSpace, OpenArray, NoComma

\* The verdict w on the members from i on, whose first name has the verdict key
\* and is followed by the byte at colon.
Names(src, P, i, d, key, colon, w) ==
    /\ ~Has(src, i, {Quote}) => w = Fail(i, NoName)
    /\ Has(src, i, {Quote}) /\ IsError(key) => w = key
    /\ Has(src, i, {Quote}) /\ ~IsError(key) /\ ~Has(src, colon, {Colon}) => w = Fail(colon, NoColon)
    /\ Has(src, i, {Quote}) /\ ~IsError(key) /\ Has(src, colon, {Colon}) =>
          w = closeOrNext(src, P, P[<<"value", SpanEnd(src, colon + 1, Space), d>>], d, "members", RBrace,
                          OpenObject, NoNextName)

\* parseMembers has the form Names.
LEMMA MembersForm ==
    ASSUME NEW src, NEW P, NEW i, NEW d
    PROVE  LET k == SpanEnd(src, i, Space)
               key == parseString(src, k)
           IN  Names(src, P, k, d, key, SpanEnd(src, key.end, Space), parseMembers(src, P, i, d))
  <1> DEFINE k == SpanEnd(src, i, Space)
             key == parseString(src, k)
             colon == SpanEnd(src, key.end, Space)
             w == parseMembers(src, P, i, d)
             next == closeOrNext(src, P, P[<<"value", SpanEnd(src, colon + 1, Space), d>>], d, "members", RBrace,
                                 OpenObject, NoNextName)
  <1>1. w = IF ~Has(src, k, {Quote}) THEN Fail(k, NoName) ELSE parseMember(src, P, key, d)
    BY Zenon DEF parseMembers, SkipSpace, Quote, NoName
  <1>2. parseMember(src, P, key, d) =
          IF IsError(key) THEN key
          ELSE IF ~Has(src, colon, {Colon}) THEN Fail(colon, NoColon)
          ELSE next
    BY Zenon DEF parseMember, SkipSpace, Colon, NoColon, RBrace, OpenObject, NoNextName
  <1> HIDE DEF next
  <1>3. next = closeOrNext(src, P, P[<<"value", SpanEnd(src, colon + 1, Space), d>>], d, "members", RBrace,
                           OpenObject, NoNextName)
    BY DEF next
  <1> HIDE DEF w, key, colon, k
  <1>4. Names(src, P, k, d, key, colon, w) BY <1>1, <1>2, <1>3 DEF Names
  <1>. QED BY <1>4 DEF k, key, colon, w

\* The verdict on a place depends on the places below it alone, and makes sense if theirs do.
ParsedAlike(src, f, h, s) ==
    Parse(src, f, s) = Parse(src, h, s) /\ Reaches(src, s[2], Parse(src, f, s))

\* parseValue asks the parser only at places of lower rank, and moves forward.
LEMMA ValueAlike ==
    ASSUME NEW src, Len(src) \in Nat, NEW f, NEW h, NEW s \in Places(Len(src)), s[1] = "value",
           Alike(src, f, h, PlaceRank(Len(src), s))
    PROVE  ParsedAlike(src, f, h, s)
  <1> DEFINE n == Len(src)
             i == s[2]
             d == s[3]
             w == parseValue(src, f, i, d)
             x == parseValue(src, h, i, d)
  <1>1. i \in 0..n /\ d \in 0..MaxDepth /\ n \in Nat BY DEF Places
  <1>2. Parse(src, f, s) = w /\ Parse(src, h, s) = x BY Zenon DEF Parse
  <1> HIDE DEF i, d
  <1>3. CASE i >= n
    <2>1. ~(d > MaxDepth) BY <1>1, MaxDepthAssumption
    <2>2. w = Fail(i, NoValueHere) /\ x = Fail(i, NoValueHere)
      BY <1>3, <2>1, Zenon DEF parseValue, NoValueHere
    <2>3. i \in Nat BY <1>1
    <2>4. Refusal(Fail(i, NoValueHere)) BY <2>3, ReasonsAre, ReasonGiven
    <2> HIDE DEF w, x
    <2>. QED BY <1>2, <2>2, <2>4 DEF ParsedAlike, Reaches, Refusal, i
  <1>4. CASE i < n /\ At(src, i) \notin Openers
    <2>1. i \in 0..(n - 1) BY <1>1, <1>4
    <2>2. PICK v : Accepts(src, i, v) /\ \A P : \A e \in 0..MaxDepth : parseValue(src, P, i, e) = v
      BY <1>4, <2>1, ScalarVerdict
    <2>3. w = v /\ x = v BY <1>1, <2>2
    <2>4. Reaches(src, i, v)
      <3>1. CASE Refusal(v) BY <3>1 DEF Refusal, Reaches
      <3>2. ASSUME NEW j \in (i + 1)..n, v = Done(j) PROVE Reaches(src, i, v)
        <4>1. j \in Nat BY <1>1
        <4>. QED BY <3>2, <4>1, DoneIs DEF Reaches
      <3>. QED BY <2>2, <3>1, <3>2 DEF Accepts
    <2> HIDE DEF w, x
    <2>. QED BY <1>2, <2>3, <2>4 DEF ParsedAlike, i
  <1>5. CASE i < n /\ At(src, i) \in Openers
    <2> DEFINE j == SpanEnd(src, i + 1, Space)
               t == <<RuleOf(At(src, i)), j, d + 1>>
    <2>1. i \in 0..(n - 1) /\ i + 1 \in 0..n /\ i \in Nat BY <1>1, <1>5
    <2>2. Opens(src, f, i, j, d, w) /\ Opens(src, h, i, j, d, x)
      BY <1>1, <1>5, <2>1, ContainerForm
    <2>3. j \in (i + 1)..n BY <2>1, SpanEndIs
    <2> HIDE DEF w, x, j
    <2>4. CASE ~(d < MaxDepth)
      <3>1. w = Fail(i, TooDeep) /\ x = Fail(i, TooDeep) BY <2>2, <2>4 DEF Opens
      <3>2. Refusal(Fail(i, TooDeep)) BY <2>1, ReasonsAre, ReasonGiven
      <3>. QED BY <1>2, <3>1, <3>2 DEF ParsedAlike, Reaches, Refusal, i
    <2>5. CASE d < MaxDepth /\ j < n /\ At(src, j) = CloserOf(At(src, i))
      <3>1. w = Done(j + 1) /\ x = Done(j + 1) BY <2>2, <2>5 DEF Opens
      <3>2. j + 1 \in Nat /\ j + 1 \in (i + 1)..n BY <2>1, <2>3, <2>5
      <3>3. Reaches(src, i, Done(j + 1)) BY <3>2, DoneIs DEF Reaches
      <3>. QED BY <1>2, <3>1, <3>3 DEF ParsedAlike, i
    <2>6. CASE d < MaxDepth /\ ~(j < n /\ At(src, j) = CloserOf(At(src, i)))
      <3>1. w = f[t] /\ x = h[t] BY <2>2, <2>6 DEF Opens
      <3>2. RuleOf(At(src, i)) \in {"value", "elements", "members"}
        BY DEF RuleOf
      <3>3. j \in 0..n /\ j > s[2] /\ d + 1 \in 0..MaxDepth
        BY <1>1, <2>1, <2>3, <2>6, MaxDepthAssumption, SMTT(60) DEF i
      <3>4. t \in Places(n) /\ PlaceRank(n, t) < PlaceRank(n, s) /\ t[2] = j
        BY <3>2, <3>3, Deeper
      <3>5. f[t] = h[t] /\ Reaches(src, j, f[t]) BY <3>4 DEF Alike
      <3> HIDE DEF t
      <3>6. Reaches(src, i, w)
        <4>1. \A e \in (j + 1)..n : e \in (i + 1)..n BY <2>1, <2>3
        <4>. QED BY <3>1, <3>5, <4>1 DEF Reaches
      <3>. QED BY <1>2, <3>1, <3>5, <3>6 DEF ParsedAlike, i
    <2>. QED BY <2>4, <2>5, <2>6
  <1>6. i >= n \/ i < n BY <1>1
  <1>. QED BY <1>3, <1>4, <1>5, <1>6

\* So does parseElements.
LEMMA ElementsAlike ==
    ASSUME NEW src, Len(src) \in Nat, NEW f, NEW h, NEW s \in Places(Len(src)), s[1] = "elements",
           Alike(src, f, h, PlaceRank(Len(src), s))
    PROVE  ParsedAlike(src, f, h, s)
  <1> DEFINE n == Len(src)
             i == s[2]
             d == s[3]
             j == SpanEnd(src, i, Space)
             t == <<"value", j, d>>
  <1>1. i \in 0..n /\ d \in 0..MaxDepth /\ n \in Nat BY DEF Places
  <1>2. /\ Parse(src, f, s) = closeOrNext(src, f, f[t], d, "elements", "]", OpenArray, NoComma)
        /\ Parse(src, h, s) = closeOrNext(src, h, h[t], d, "elements", "]", OpenArray, NoComma)
    <2>1. Parse(src, f, s) = parseElements(src, f, i, d) /\ Parse(src, h, s) = parseElements(src, h, i, d)
      BY Zenon DEF Parse
    <2>. QED BY <2>1, ElementsForm
  <1>3. j \in i..n BY <1>1, SpanEndIs
  <1>4. j \in 0..n /\ (j > s[2] \/ j = s[2]) BY <1>1, <1>3
  <1>5. t \in Places(n) /\ PlaceRank(n, t) < PlaceRank(n, s) /\ t[2] = j
    BY <1>1, <1>4, Deeper
  <1>6. f[t] = h[t] /\ Reaches(src, j, f[t]) BY <1>5 DEF Alike
  <1>7. Reaches(src, s[2], f[t])
    <2> HIDE DEF t, j
    <2>1. \A e \in (j + 1)..n : e \in (i + 1)..n BY <1>1, <1>3
    <2> HIDE DEF i
    <2>2. Reaches(src, i, f[t]) BY <1>6, <2>1 DEF Reaches
    <2>. QED BY <2>2 DEF i
  <1> HIDE DEF t
  <1>8. OpenArray \in Reasons /\ NoComma \in Reasons BY ReasonsAre
  <1>9. /\ closeOrNext(src, f, f[t], d, "elements", "]", OpenArray, NoComma)
             = closeOrNext(src, h, f[t], d, "elements", "]", OpenArray, NoComma)
        /\ Reaches(src, s[2], closeOrNext(src, f, f[t], d, "elements", "]", OpenArray, NoComma))
    BY <1>1, <1>7, <1>8, CloseOrNextAlike
  <1>. QED BY <1>2, <1>6, <1>9 DEF ParsedAlike

\* So does parseMembers.
LEMMA MembersAlike ==
    ASSUME NEW src, Len(src) \in Nat, NEW f, NEW h, NEW s \in Places(Len(src)), s[1] = "members",
           Alike(src, f, h, PlaceRank(Len(src), s))
    PROVE  ParsedAlike(src, f, h, s)
  <1> DEFINE n == Len(src)
             i == s[2]
             d == s[3]
             k == SpanEnd(src, i, Space)
             key == parseString(src, k)
             colon == SpanEnd(src, key.end, Space)
             val == SpanEnd(src, colon + 1, Space)
             t == <<"value", val, d>>
             w == parseMembers(src, f, i, d)
             x == parseMembers(src, h, i, d)
  <1>1. i \in 0..n /\ d \in 0..MaxDepth /\ n \in Nat BY DEF Places
  <1>2. Parse(src, f, s) = w /\ Parse(src, h, s) = x BY Zenon DEF Parse
  <1>3. Names(src, f, k, d, key, colon, w) /\ Names(src, h, k, d, key, colon, x)
    BY MembersForm
  <1>4. k \in i..n BY <1>1, SpanEndIs
  <1>5. k \in 0..n /\ k \in Nat BY <1>1, <1>4
  <1>6. OpenObject \in Reasons /\ NoNextName \in Reasons /\ NoColon \in Reasons /\ NoName \in Reasons
    BY ReasonsAre
  <1> SUFFICES w = x /\ Reaches(src, i, w)
    BY <1>2 DEF ParsedAlike
  <1> HIDE DEF w, x, key, k
  <1>7. CASE ~Has(src, k, {Quote})
    <2>1. w = Fail(k, NoName) /\ x = Fail(k, NoName) BY <1>3, <1>7 DEF Names
    <2>2. Refusal(Fail(k, NoName)) BY <1>5, <1>6, ReasonGiven
    <2>. QED BY <2>1, <2>2 DEF Reaches, Refusal
  <1>8. CASE Has(src, k, {Quote})
    <2>1. k < n /\ At(src, k) = Quote BY <1>8 DEF Has
    <2>2. \/ \E j \in (k + 2)..n : key = Done(j)
          \/ Refusal(key)
      BY <1>5, <2>1, ParseStringIs DEF key
    <2>3. CASE IsError(key)
      <3>1. w = key /\ x = key BY <1>3, <1>8, <2>3 DEF Names
      <3>2. Refusal(key)
        <4>1. ASSUME NEW j \in (k + 2)..n, key = Done(j) PROVE FALSE
          <5>1. j \in Nat BY <1>5
          <5>. QED BY <2>3, <4>1, <5>1, DoneIs
        <4>. QED BY <2>2, <4>1
      <3>. QED BY <3>1, <3>2 DEF Reaches, Refusal
    <2>4. CASE ~IsError(key)
      <3>1. key.end \in (k + 2)..n
        <4>1. PICK j \in (k + 2)..n : key = Done(j) BY <2>2, <2>4 DEF Refusal
        <4>2. j \in Nat BY <1>5
        <4>. QED BY <4>1, <4>2, DoneIs
      <3>2. key.end \in 0..n BY <1>5, <3>1
      <3>3. colon \in key.end..n BY <3>2, SpanEndIs
      <3>4. colon \in (i + 2)..n /\ colon \in Nat
        <4> HIDE DEF colon, i
        <4>. QED BY <1>1, <1>4, <3>1, <3>3
      <3> HIDE DEF colon
      <3>5. CASE ~Has(src, colon, {Colon})
        <4>1. w = Fail(colon, NoColon) /\ x = Fail(colon, NoColon)
          BY <1>3, <1>8, <2>4, <3>5 DEF Names
        <4>2. Refusal(Fail(colon, NoColon)) BY <1>6, <3>4, ReasonGiven
        <4>. QED BY <4>1, <4>2 DEF Reaches, Refusal
      <3>6. CASE Has(src, colon, {Colon})
        <4>1. colon < n BY <3>6 DEF Has
        <4>2. colon + 1 \in 0..n BY <3>4, <4>1
        <4>3. val \in (colon + 1)..n BY <4>2, SpanEndIs
        <4>4. val \in 0..n /\ val > s[2]
          <5> HIDE DEF val
          <5>. QED BY <1>1, <3>4, <4>3
        <4>5. t \in Places(n) /\ PlaceRank(n, t) < PlaceRank(n, s) /\ t[2] = val
          BY <1>1, <4>4, Deeper
        <4>6. f[t] = h[t] /\ Reaches(src, val, f[t]) BY <4>5 DEF Alike
        <4>7. Reaches(src, s[2], f[t])
          <5> HIDE DEF t, val
          <5>1. \A e \in (val + 1)..n : e \in (i + 1)..n BY <1>1, <4>4
          <5> HIDE DEF i
          <5>2. Reaches(src, i, f[t]) BY <4>6, <5>1 DEF Reaches
          <5>. QED BY <5>2 DEF i
        <4>8. /\ w = closeOrNext(src, f, f[t], d, "members", RBrace, OpenObject, NoNextName)
              /\ x = closeOrNext(src, h, h[t], d, "members", RBrace, OpenObject, NoNextName)
          BY <1>3, <1>8, <2>4, <3>6 DEF Names
        <4> HIDE DEF t
        <4>9. /\ closeOrNext(src, f, f[t], d, "members", RBrace, OpenObject, NoNextName)
                   = closeOrNext(src, h, f[t], d, "members", RBrace, OpenObject, NoNextName)
              /\ Reaches(src, s[2], closeOrNext(src, f, f[t], d, "members", RBrace, OpenObject, NoNextName))
          BY <1>1, <1>6, <4>7, CloseOrNextAlike
        <4>. QED BY <4>6, <4>8, <4>9
      <3>. QED BY <3>5, <3>6
    <2>. QED BY <2>3, <2>4
  <1>. QED BY <1>7, <1>8

\* So does the parser, whatever the rule.
LEMMA ParseAlike ==
    ASSUME NEW src, Len(src) \in Nat, NEW f, NEW h, NEW s \in Places(Len(src)),
           Alike(src, f, h, PlaceRank(Len(src), s))
    PROVE  ParsedAlike(src, f, h, s)
  <1>1. s[1] = "value" \/ s[1] = "elements" \/ s[1] = "members" BY DEF Places
  <1>. QED BY <1>1, ValueAlike, ElementsAlike, MembersAlike

\* What holds at a place when it holds at every place that is decided before it holds everywhere.
LEMMA PlaceInduction ==
    ASSUME NEW n \in Nat, NEW Q,
           \A s \in Places(n) : (\A t \in Places(n) : PlaceRank(n, t) < PlaceRank(n, s) => t \in Q) => s \in Q
    PROVE  \A s \in Places(n) : s \in Q
  <1> DEFINE T == {m \in Nat : \E s \in Places(n) : PlaceRank(n, s) = m /\ s \notin Q}
  <1>1. \A s \in Places(n) : PlaceRank(n, s) \in Nat BY RankIsNat
  <1>2. SUFFICES ASSUME T # {} PROVE FALSE
    BY <1>1
  <1>3. PICK m \in T : \A y \in T : m <= y
    <2>1. T \subseteq Nat OBVIOUS
    <2> HIDE DEF T
    <2>. QED BY <1>2, <2>1, LeastNumber
  <1>4. PICK s \in Places(n) : PlaceRank(n, s) = m /\ s \notin Q BY <1>3
  <1>5. ASSUME NEW t \in Places(n), PlaceRank(n, t) < PlaceRank(n, s) PROVE t \in Q
    <2>1. PlaceRank(n, t) \in Nat /\ m \in Nat /\ ~(m <= PlaceRank(n, t))
      BY <1>1, <1>3, <1>4, <1>5
    <2>2. PlaceRank(n, t) \notin T BY <1>3, <2>1
    <2>. QED BY <2>1, <2>2
  <1>. QED BY <1>4, <1>5

\* The parser of a text is a function, and it says of every place what the
\* validator's methods say; a verdict that accepts ends after its first byte.
LEMMA ParserIs ==
    ASSUME NEW src, Len(src) \in Nat
    PROVE  \A s \in Places(Len(src)) :
              Parser(src)[s] = Parse(src, Parser(src), s) /\ Reaches(src, s[2], Parser(src)[s])
  <1> DEFINE n == Len(src)
             D == Places(n)
             V == Verdicts
             W == {f \in [D -> V] : \A t \in D : Reaches(src, t[2], f[t])}
             G(f) == [s \in D |-> Parse(src, f, s)]
             F == [f \in W |-> G(f)]
             rank == [s \in D |-> PlaceRank(n, s)]
             f0 == [s \in D |-> Fail(0, TooDeep)]
             P == Parser(src)
  <1>1. ASSUME NEW f \in W, NEW h \in W, NEW s \in D, \A x \in D : rank[x] < rank[s] => f[x] = h[x]
        PROVE  ParsedAlike(src, f, h, s)
    <2>1. Alike(src, f, h, PlaceRank(n, s))
      <3>1. ASSUME NEW t \in D, PlaceRank(n, t) < PlaceRank(n, s)
            PROVE  f[t] = h[t] /\ Reaches(src, t[2], f[t])
        <4>1. rank[t] = PlaceRank(n, t) /\ rank[s] = PlaceRank(n, s) OBVIOUS
        <4> HIDE DEF rank
        <4>. QED BY <1>1, <3>1, <4>1
      <3> HIDE DEF W, rank
      <3>. QED BY <3>1 DEF Alike
    <2>. QED BY <2>1, ParseAlike
  <1>2. ASSUME NEW f \in W PROVE G(f) \in W
    <2>1. ASSUME NEW s \in D PROVE Reaches(src, s[2], Parse(src, f, s))
      <3>1. ParsedAlike(src, f, f, s) BY <1>1
      <3>. QED BY <3>1 DEF ParsedAlike
    <2>2. \A s \in D : Parse(src, f, s) \in V BY <2>1 DEF Reaches
    <2> HIDE DEF D, V
    <2>3. G(f) \in [D -> V] BY <2>2
    <2>. QED BY <2>1, <2>3
  <1>3. F \in [W -> W]
    <2> HIDE DEF G, W
    <2>. QED BY <1>2
  <1>4. ASSUME NEW f \in W, NEW h \in W, NEW s \in D, \A x \in D : rank[x] < rank[s] => f[x] = h[x]
        PROVE  F[f][s] = F[h][s]
    <2>1. Parse(src, f, s) = Parse(src, h, s)
      <3>1. ParsedAlike(src, f, h, s)
        <4> HIDE DEF rank, W, D
        <4>. QED BY <1>1, <1>4
      <3>. QED BY <3>1 DEF ParsedAlike
    <2>2. F[f] = G(f) /\ F[h] = G(h)
      <3> HIDE DEF G, W
      <3>. QED OBVIOUS
    <2> HIDE DEF F, W, D
    <2>. QED BY <2>1, <2>2
  <1>5. RecursionIn(F, D, W, rank)
    <2> HIDE DEF F, D, W, rank
    <2>. QED BY <1>3, <1>4 DEF RecursionIn
  <1>6. 2 * n + 1 \in Nat /\ rank \in [D -> 0..(2 * n + 1)] BY RankIsNat
  <1>7. f0 \in W /\ W \subseteq [D -> V]
    <2>1. Refusal(Fail(0, TooDeep)) BY ReasonsAre, ReasonGiven
    <2> HIDE DEF D
    <2>. QED BY <2>1 DEF Refusal, Reaches
  <1>8. IsMetIn(F, W)
    <2> DEFINE m == 2 * n + 1
    <2>1. m \in Nat /\ rank \in [D -> 0..m] BY <1>6
    <2> HIDE DEF m, D, V, W, F, rank, f0
    <2>. QED BY <1>5, <1>7, <2>1, RecursionIsMetIn
  <1>9. \E f : f = G(f)
    <2> HIDE DEF G, W
    <2>. QED BY <1>8 DEF IsMetIn
  <1>10. P = CHOOSE f : f = G(f) BY Zenon DEF Parser, Parse, Places
  <1>11. P = G(P)
    <2> HIDE DEF G, P
    <2>. QED BY <1>9, <1>10
  <1> HIDE DEF P
  <1>12. \A s \in D : P[s] = Parse(src, P, s)
    <2> HIDE DEF D
    <2>. QED BY <1>11
  <1> DEFINE Q == {s \in D : Reaches(src, s[2], P[s])}
  <1>13. ASSUME NEW s \in D, \A t \in D : PlaceRank(n, t) < PlaceRank(n, s) => t \in Q
         PROVE  s \in Q
    <2>1. Alike(src, P, P, PlaceRank(n, s))
      <3> HIDE DEF D
      <3>1. \A t \in D : PlaceRank(n, t) < PlaceRank(n, s) => Reaches(src, t[2], P[t])
        BY <1>13
      <3>. QED BY <3>1 DEF Alike, D
    <2>2. ParsedAlike(src, P, P, s) BY <2>1, ParseAlike
    <2>. QED BY <1>12, <2>2 DEF ParsedAlike
  <1>14. \A s \in D : s \in Q
    <2> HIDE DEF Q
    <2>. QED BY <1>13, PlaceInduction
  <1>. QED BY <1>12, <1>14 DEF P

(***************************************************************************)
(* Recognisers.                                                            *)
(***************************************************************************)

\* e is the end of the value without parts at i, or NoValue.
ScalarEnd(src, i, e) ==
    /\ e = NoValue \/ (e \in (i + 1)..Len(src) /\ IsScalar(src, i, e))
    /\ \A j \in (i + 1)..Len(src) :
          IsScalar(src, i, j) /\ (IsNumber(src, i, j) => NumberStops(src, j)) => e = j

\* e is the end of the container opened at i, whose next byte is at j.
ContainerEnd(src, R, i, j, d, e) ==
    /\ ~(d < MaxDepth /\ j < Len(src)) => e = NoValue
    /\ d < MaxDepth /\ j < Len(src) /\ At(src, j) = CloserOf(At(src, i)) => e = j + 1
    /\ d < MaxDepth /\ j < Len(src) /\ At(src, j) # CloserOf(At(src, i)) => e = R[<<RuleOf(At(src, i)), j, d + 1>>]

\* e is the end of what goes on after a value that ends at v; the next byte is at k.
NextEnd(src, R, v, k, rule, close, d, e) ==
    /\ v = NoValue => e = NoValue
    /\ v # NoValue /\ ~(k < Len(src)) => e = NoValue
    /\ v # NoValue /\ k < Len(src) /\ At(src, k) = Comma => e = R[<<rule, SpanEnd(src, k + 1, Space), d>>]
    /\ v # NoValue /\ k < Len(src) /\ At(src, k) # Comma /\ At(src, k) = close => e = k + 1
    /\ v # NoValue /\ k < Len(src) /\ At(src, k) # Comma /\ At(src, k) # close => e = NoValue

\* e is the end of the members whose first name is followed by the byte at k.
NamedEnd(src, R, k, d, e) ==
    /\ ~(k < Len(src) /\ At(src, k) = Colon) => e = NoValue
    /\ k < Len(src) /\ At(src, k) = Colon =>
          LET v == R[<<"value", SpanEnd(src, k + 1, Space), d>>]
          IN  NextEnd(src, R, v, SpanEnd(src, v, Space), "members", RBrace, d, e)

EndsSomewhere(src, R) ==
    \A s \in Places(Len(src)) : R[s] = NoValue \/ R[s] \in (s[2] + 1)..Len(src)

EndsValues(src, R) ==
    \A i \in 0..Len(src), d \in 0..MaxDepth :
       /\ i = Len(src) => R[<<"value", i, d>>] = NoValue
       /\ i < Len(src) /\ At(src, i) \notin Openers => ScalarEnd(src, i, R[<<"value", i, d>>])
       /\ i < Len(src) /\ At(src, i) \in Openers =>
             ContainerEnd(src, R, i, SpanEnd(src, i + 1, Space), d, R[<<"value", i, d>>])

EndsElements(src, R) ==
    \A i \in 0..Len(src), d \in 1..MaxDepth :
       SpanEnd(src, i, Space) = i =>
          LET v == R[<<"value", i, d>>]
          IN  NextEnd(src, R, v, SpanEnd(src, v, Space), "elements", "]", d, R[<<"elements", i, d>>])

EndsMembers(src, R) ==
    \A i \in 0..Len(src), d \in 1..MaxDepth :
       SpanEnd(src, i, Space) = i =>
          /\ (\A q \in 0..Len(src) : ~IsString(src, i, q)) => R[<<"members", i, d>>] = NoValue
          /\ \A q \in 0..Len(src) :
                IsString(src, i, q) => NamedEnd(src, R, SpanEnd(src, q, Space), d, R[<<"members", i, d>>])

\* R says where the construct of every place ends, or that it is none.
Recognises(src, R) ==
    EndsSomewhere(src, R) /\ EndsValues(src, R) /\ EndsElements(src, R) /\ EndsMembers(src, R)

\* White space is skipped once.
LEMMA SpanTwice ==
    ASSUME NEW src, Len(src) \in Nat, NEW i \in 0..Len(src), NEW S
    PROVE  SpanEnd(src, SpanEnd(src, i, S), S) = SpanEnd(src, i, S)
  <1> DEFINE j == SpanEnd(src, i, S)
  <1>1. j \in i..Len(src) /\ (j = Len(src) \/ At(src, j) \notin S) BY SpanEndIs
  <1> HIDE DEF j
  <1>2. j \in 0..Len(src) /\ j \in j..Len(src) BY <1>1
  <1>3. AllIn(src, j, j, S) BY <1>2 DEF AllIn
  <1>4. SpanEnd(src, j, S) = j BY <1>1, <1>2, <1>3, SpanUnique
  <1>. QED BY <1>4 DEF j

\* The end of an acceptance is its offset.
LEMMA EndOfDone == ASSUME NEW j \in Nat PROVE EndOf(Done(j)) = j
  BY DoneIs DEF EndOf

\* A refusal has no end.
LEMMA EndOfRefusal == ASSUME NEW v, Refusal(v) PROVE EndOf(v) = NoValue
  BY DEF EndOf, Refusal

\* What the validator says of elements and of members does not depend on white space before them.
LEMMA PaddedPlaces ==
    ASSUME NEW src, Len(src) \in Nat, NEW rule \in {"elements", "members"}, NEW i \in 0..Len(src),
           NEW d \in 0..MaxDepth
    PROVE  Parser(src)[<<rule, i, d>>] = Parser(src)[<<rule, SpanEnd(src, i, Space), d>>]
  <1> DEFINE j == SpanEnd(src, i, Space)
             P == Parser(src)
             s == <<rule, i, d>>
             t == <<rule, j, d>>
  <1>1. j \in i..Len(src) /\ SpanEnd(src, j, Space) = j BY SpanEndIs, SpanTwice
  <1>2. j \in 0..Len(src)
    <2> HIDE DEF j
    <2>. QED BY <1>1
  <1>3. s \in Places(Len(src)) /\ t \in Places(Len(src)) BY <1>2 DEF Places
  <1>4. P[s] = Parse(src, P, s) /\ P[t] = Parse(src, P, t) BY <1>3, ParserIs
  <1>5. Parse(src, P, s) = Parse(src, P, t)
    <2> HIDE DEF P
    <2>1. CASE rule = "elements"
      <3>1. Parse(src, P, s) = parseElements(src, P, i, d) /\ Parse(src, P, t) = parseElements(src, P, j, d)
        BY <2>1 DEF Parse
      <3>. QED BY <1>1, <3>1, ElementsForm
    <2>2. CASE rule = "members"
      <3>1. Parse(src, P, s) = parseMembers(src, P, i, d) /\ Parse(src, P, t) = parseMembers(src, P, j, d)
        BY <2>2 DEF Parse
      <3>2. parseMembers(src, P, i, d) = parseMembers(src, P, j, d)
        BY <1>1, Zenon DEF parseMembers, SkipSpace
      <3>. QED BY <3>1, <3>2
    <2>. QED BY <2>1, <2>2
  <1>. QED BY <1>4, <1>5

\* The ends of the verdicts.
Ends(src) == [s \in Places(Len(src)) |-> EndOf(Parser(src)[s])]

\* The ends of the parser, place by place.
LEMMA EndsAre ==
    ASSUME NEW src, Len(src) \in Nat, NEW r \in {"value", "elements", "members"}, NEW i \in 0..Len(src),
           NEW d \in 0..MaxDepth
    PROVE  /\ Ends(src)[<<r, i, d>>] = EndOf(Parser(src)[<<r, i, d>>])
           /\ Reaches(src, i, Parser(src)[<<r, i, d>>])
           /\ Parser(src)[<<r, i, d>>] = Parse(src, Parser(src), <<r, i, d>>)
  <1> DEFINE s == <<r, i, d>>
  <1>1. s \in Places(Len(src)) /\ s[2] = i BY DEF Places
  <1> HIDE DEF s
  <1>2. Reaches(src, i, Parser(src)[s]) /\ Parser(src)[s] = Parse(src, Parser(src), s)
    BY <1>1, ParserIs
  <1>3. Ends(src)[s] = EndOf(Parser(src)[s]) BY <1>1 DEF Ends
  <1>. QED BY <1>2, <1>3 DEF s

\* The end of closeOrNext is that of NextEnd.
LEMMA NextEndIs ==
    ASSUME NEW src, Len(src) \in Nat, NEW i \in 0..Len(src), NEW v, Reaches(src, i, v), NEW d \in 0..MaxDepth,
           NEW rule \in {"elements", "members"}, NEW close, NEW m1 \in Reasons, NEW m2 \in Reasons,
           NEW w, w = closeOrNext(src, Parser(src), v, d, rule, close, m1, m2)
    PROVE  NextEnd(src, Ends(src), EndOf(v), SpanEnd(src, EndOf(v), Space), rule, close, d, EndOf(w))
  <1> DEFINE n == Len(src)
             P == Parser(src)
             j == SpanEnd(src, v.end, Space)
             e == EndOf(w)
  <1>1. Follows(src, P, v, j, d, rule, close, m1, m2, w) BY CloseOrNextIs
  <1>2. CASE IsError(v)
    <2>1. w = v /\ EndOf(v) = NoValue BY <1>1, <1>2 DEF Follows, EndOf
    <2>. QED BY <2>1 DEF NextEnd
  <1>3. CASE ~IsError(v)
    <2>1. v.end \in (i + 1)..n /\ EndOf(v) = v.end BY <1>3 DEF Reaches, EndOf
    <2>2. v.end \in 0..n /\ v.end # NoValue BY <2>1 DEF NoValue
    <2>3. j \in v.end..n BY <2>2, SpanEndIs
    <2> HIDE DEF j
    <2>4. j \in 0..n /\ j \in Nat /\ (j >= n <=> ~(j < n)) BY <2>2, <2>3
    <2>5. EndOf(Fail(j, m1)) = NoValue /\ EndOf(Fail(j, m2)) = NoValue
      BY <2>4, ReasonGiven, EndOfRefusal
    <2>6. j + 1 \in Nat /\ EndOf(Done(j + 1)) = j + 1 BY <2>4, EndOfDone
    <2>7. ~(j < n) => e = NoValue BY <1>1, <1>3, <2>4, <2>5 DEF Follows
    <2>8. j < n /\ At(src, j) = Comma => e = Ends(src)[<<rule, SpanEnd(src, j + 1, Space), d>>]
      <3>1. SUFFICES ASSUME j < n, At(src, j) = Comma
                     PROVE  e = Ends(src)[<<rule, SpanEnd(src, j + 1, Space), d>>]
        OBVIOUS
      <3>2. w = P[<<rule, j + 1, d>>] BY <1>1, <1>3, <2>4, <3>1 DEF Follows
      <3>3. j + 1 \in 0..n BY <2>4, <3>1
      <3>4. P[<<rule, j + 1, d>>] = P[<<rule, SpanEnd(src, j + 1, Space), d>>]
        BY <3>3, PaddedPlaces
      <3>5. SpanEnd(src, j + 1, Space) \in 0..n
        <4>1. SpanEnd(src, j + 1, Space) \in (j + 1)..n BY <3>3, SpanEndIs
        <4>. QED BY <3>3, <4>1
      <3>6. Ends(src)[<<rule, SpanEnd(src, j + 1, Space), d>>] = EndOf(P[<<rule, SpanEnd(src, j + 1, Space), d>>])
        BY <3>5, EndsAre
      <3>. QED BY <3>2, <3>4, <3>6
    <2>9. j < n /\ At(src, j) # Comma /\ At(src, j) = close => e = j + 1
      BY <1>1, <1>3, <2>4, <2>6 DEF Follows
    <2>10. j < n /\ At(src, j) # Comma /\ At(src, j) # close => e = NoValue
      BY <1>1, <1>3, <2>4, <2>5 DEF Follows
    <2> HIDE DEF e
    <2>11. NextEnd(src, Ends(src), v.end, j, rule, close, d, e)
      BY <2>2, <2>7, <2>8, <2>9, <2>10 DEF NextEnd
    <2>. QED BY <2>1, <2>11 DEF e, j
  <1>. QED BY <1>2, <1>3

\* The ends of parseValue satisfy the equations of a recogniser.
LEMMA ValuesEnd ==
    ASSUME NEW src, Len(src) \in Nat
    PROVE  EndsValues(src, Ends(src))
  <1> SUFFICES ASSUME NEW i \in 0..Len(src), NEW d \in 0..MaxDepth
               PROVE  /\ i = Len(src) => Ends(src)[<<"value", i, d>>] = NoValue
                      /\ i < Len(src) /\ At(src, i) \notin Openers => ScalarEnd(src, i, Ends(src)[<<"value", i, d>>])
                      /\ i < Len(src) /\ At(src, i) \in Openers =>
                            ContainerEnd(src, Ends(src), i, SpanEnd(src, i + 1, Space), d, Ends(src)[<<"value", i, d>>])
    BY DEF EndsValues
  <1> DEFINE n == Len(src)
             P == Parser(src)
             v == parseValue(src, P, i, d)
             e == Ends(src)[<<"value", i, d>>]
  <1>1. e = EndOf(P[<<"value", i, d>>]) /\ Reaches(src, i, P[<<"value", i, d>>])
    BY EndsAre
  <1>2. P[<<"value", i, d>>] = v
    <2>1. P[<<"value", i, d>>] = Parse(src, P, <<"value", i, d>>) BY EndsAre
    <2> HIDE DEF P
    <2>2. Parse(src, P, <<"value", i, d>>) = parseValue(src, P, i, d)
      BY DEF Parse
    <2>. QED BY <2>1, <2>2
  <1>3. e = EndOf(v) /\ Reaches(src, i, v) BY <1>1, <1>2
  <1> HIDE DEF e, P
  <1>4. CASE i = n
    <2>1. i >= n /\ ~(d > MaxDepth) /\ i \in Nat BY <1>4, MaxDepthAssumption
    <2>2. v = Fail(i, NoValueHere) BY <2>1, Zenon DEF parseValue, NoValueHere
    <2>3. EndOf(Fail(i, NoValueHere)) = NoValue
      BY <2>1, ReasonsAre, ReasonGiven, EndOfRefusal
    <2> HIDE DEF v
    <2>. QED BY <1>3, <1>4, <2>2, <2>3 DEF e
  <1> HIDE DEF v
  <1>5. ASSUME i < n, At(src, i) \notin Openers PROVE ScalarEnd(src, i, e)
    <2>1. i \in 0..(n - 1) /\ i \in Nat BY <1>5
    <2>2. Accepts(src, i, v) BY <1>5, <2>1, ScalarVerdict DEF v
    <2>3. \A j \in (i + 1)..n : j \in Nat /\ EndOf(Done(j)) = j BY EndOfDone
    <2>4. Refusal(v) => EndOf(v) = NoValue BY EndOfRefusal
    <2>5. EndOf(v) = NoValue \/ (EndOf(v) \in (i + 1)..n /\ IsScalar(src, i, EndOf(v)))
      BY <2>2, <2>3, <2>4 DEF Accepts
    <2>6. \A j \in (i + 1)..n : IsScalar(src, i, j) /\ (IsNumber(src, i, j) => NumberStops(src, j)) => EndOf(v) = j
      BY <2>2, <2>3 DEF Accepts
    <2>. QED BY <1>3, <2>5, <2>6 DEF ScalarEnd
  <1>6. ASSUME i < n, At(src, i) \in Openers
        PROVE  ContainerEnd(src, Ends(src), i, SpanEnd(src, i + 1, Space), d, e)
    <2> DEFINE j == SpanEnd(src, i + 1, Space)
    <2>1. i \in 0..(n - 1) /\ i + 1 \in 0..n /\ i \in Nat BY <1>6
    <2>2. Opens(src, P, i, j, d, v) BY <1>6, <2>1, ContainerForm DEF v
    <2>3. j \in (i + 1)..n BY <2>1, SpanEndIs
    <2> HIDE DEF j
    <2>4. j \in 0..n /\ j \in Nat /\ (~(j < n) => j = n) BY <2>1, <2>3
    <2>5. EndOf(Fail(i, TooDeep)) = NoValue
      BY <2>1, ReasonsAre, ReasonGiven, EndOfRefusal
    <2>6. EndOf(Done(j + 1)) = j + 1
      <3>1. j + 1 \in Nat BY <2>4
      <3>. QED BY <3>1, EndOfDone
    <2>7. RuleOf(At(src, i)) \in {"elements", "members"} /\ RuleOf(At(src, i)) \in {"value", "elements", "members"}
      BY DEF RuleOf
    <2>8. ASSUME d < MaxDepth
          PROVE  /\ Ends(src)[<<RuleOf(At(src, i)), j, d + 1>>] = EndOf(P[<<RuleOf(At(src, i)), j, d + 1>>])
                 /\ j = n => EndOf(P[<<RuleOf(At(src, i)), j, d + 1>>]) = NoValue
      <3>1. d + 1 \in 0..MaxDepth BY <2>8, MaxDepthAssumption
      <3>2. /\ Ends(src)[<<RuleOf(At(src, i)), j, d + 1>>] = EndOf(P[<<RuleOf(At(src, i)), j, d + 1>>])
            /\ Reaches(src, j, P[<<RuleOf(At(src, i)), j, d + 1>>])
        BY <2>4, <2>7, <3>1, EndsAre DEF P
      <3>3. ASSUME j = n PROVE EndOf(P[<<RuleOf(At(src, i)), j, d + 1>>]) = NoValue
        <4>1. (j + 1)..n = {} BY <2>4, <3>3
        <4>. QED BY <3>2, <4>1 DEF Reaches, EndOf
      <3>. QED BY <3>2, <3>3
    <2>9. ~(d < MaxDepth) => e = NoValue BY <1>3, <2>2, <2>5 DEF Opens
    <2>10. d < MaxDepth /\ j < n /\ At(src, j) = CloserOf(At(src, i)) => e = j + 1
      BY <1>3, <2>2, <2>6 DEF Opens
    <2>11. d < MaxDepth /\ ~(j < n /\ At(src, j) = CloserOf(At(src, i))) =>
              e = EndOf(P[<<RuleOf(At(src, i)), j, d + 1>>])
      BY <1>3, <2>2 DEF Opens
    <2>12. ~(d < MaxDepth /\ j < n) => e = NoValue BY <2>4, <2>8, <2>9, <2>11
    <2>13. d < MaxDepth /\ j < n /\ At(src, j) # CloserOf(At(src, i)) =>
              e = Ends(src)[<<RuleOf(At(src, i)), j, d + 1>>]
      BY <2>8, <2>11
    <2>14. ContainerEnd(src, Ends(src), i, j, d, e)
      BY <2>10, <2>12, <2>13 DEF ContainerEnd
    <2>. QED BY <2>14 DEF j
  <1>. QED BY <1>4, <1>5, <1>6 DEF e

\* So do those of parseElements.
LEMMA ElementsEnd ==
    ASSUME NEW src, Len(src) \in Nat
    PROVE  EndsElements(src, Ends(src))
  <1> SUFFICES ASSUME NEW i \in 0..Len(src), NEW d \in 1..MaxDepth, SpanEnd(src, i, Space) = i
               PROVE  LET v == Ends(src)[<<"value", i, d>>]
                      IN  NextEnd(src, Ends(src), v, SpanEnd(src, v, Space), "elements", "]", d,
                                  Ends(src)[<<"elements", i, d>>])
    BY DEF EndsElements
  <1> DEFINE P == Parser(src)
             v == P[<<"value", i, d>>]
             w == P[<<"elements", i, d>>]
  <1>1. d \in 0..MaxDepth BY MaxDepthAssumption
  <1>2. Ends(src)[<<"value", i, d>>] = EndOf(v) /\ Reaches(src, i, v) /\ Ends(src)[<<"elements", i, d>>] = EndOf(w)
    BY <1>1, EndsAre
  <1>3. w = Parse(src, P, <<"elements", i, d>>) BY <1>1, EndsAre
  <1>4. Parse(src, P, <<"elements", i, d>>) = parseElements(src, P, i, d)
    <2> HIDE DEF P
    <2>. QED BY DEF Parse
  <1>5. w = closeOrNext(src, P, v, d, "elements", "]", OpenArray, NoComma)
    BY <1>3, <1>4, ElementsForm
  <1>6. OpenArray \in Reasons /\ NoComma \in Reasons BY ReasonsAre
  <1> HIDE DEF v, w
  <1>7. NextEnd(src, Ends(src), EndOf(v), SpanEnd(src, EndOf(v), Space), "elements", "]", d, EndOf(w))
    BY <1>1, <1>2, <1>5, <1>6, NextEndIs
  <1>. QED BY <1>2, <1>7

\* So do those of parseMembers.
LEMMA MembersEnd ==
    ASSUME NEW src, Len(src) \in Nat
    PROVE  EndsMembers(src, Ends(src))
  <1> SUFFICES ASSUME NEW i \in 0..Len(src), NEW d \in 1..MaxDepth, SpanEnd(src, i, Space) = i
               PROVE  LET e == Ends(src)[<<"members", i, d>>]
                      IN  /\ (\A q \in 0..Len(src) : ~IsString(src, i, q)) => e = NoValue
                          /\ \A q \in 0..Len(src) :
                                IsString(src, i, q) => NamedEnd(src, Ends(src), SpanEnd(src, q, Space), d, e)
    BY DEF EndsMembers
  <1> DEFINE n == Len(src)
             P == Parser(src)
             w == P[<<"members", i, d>>]
             key == parseString(src, i)
             colon == SpanEnd(src, key.end, Space)
  <1>1. d \in 0..MaxDepth /\ i \in Nat BY MaxDepthAssumption
  <1>2. Ends(src)[<<"members", i, d>>] = EndOf(w) BY <1>1, EndsAre
  <1>3. w = Parse(src, P, <<"members", i, d>>) BY <1>1, EndsAre
  <1>4. Parse(src, P, <<"members", i, d>>) = parseMembers(src, P, i, d)
    <2> HIDE DEF P
    <2>. QED BY DEF Parse
  <1>5. Names(src, P, i, d, key, colon, w)
    <2> HIDE DEF P
    <2>. QED BY <1>3, <1>4, MembersForm
  <1>6. NoName \in Reasons /\ NoColon \in Reasons /\ OpenObject \in Reasons /\ NoNextName \in Reasons
    BY ReasonsAre
  <1> HIDE DEF w, key, P
  <1>7. CASE ~Has(src, i, {Quote})
    <2>1. EndOf(w) = NoValue
      <3>1. w = Fail(i, NoName) BY <1>5, <1>7 DEF Names
      <3>. QED BY <1>1, <1>6, <3>1, ReasonGiven, EndOfRefusal
    <2>2. ASSUME NEW q \in 0..n, IsString(src, i, q) PROVE FALSE
      <3>1. i + 1 < q /\ At(src, i) = Quote BY <2>2, CharsAre, <1>1
      <3>. QED BY <1>1, <1>7, <3>1 DEF Has
    <2>. QED BY <1>2, <2>1, <2>2
  <1>8. CASE Has(src, i, {Quote})
    <2>1. i < n /\ At(src, i) = Quote BY <1>8 DEF Has
    <2>2. \/ \E j \in (i + 2)..n : /\ IsString(src, i, j) /\ key = Done(j)
                                   /\ \A k \in 0..n : IsString(src, i, k) => k = j
          \/ Refusal(key) /\ \A k \in 0..n : ~IsString(src, i, k)
      BY <1>1, <2>1, ParseStringIs DEF key
    <2>3. CASE Refusal(key) /\ \A k \in 0..n : ~IsString(src, i, k)
      <3>1. w = key BY <1>5, <1>8, <2>3 DEF Names, Refusal
      <3>2. EndOf(w) = NoValue BY <2>3, <3>1, EndOfRefusal
      <3>. QED BY <1>2, <2>3, <3>2
    <2>4. ASSUME NEW j \in (i + 2)..n, IsString(src, i, j), key = Done(j),
                 \A k \in 0..n : IsString(src, i, k) => k = j
          PROVE  NamedEnd(src, Ends(src), SpanEnd(src, j, Space), d, EndOf(w))
      <3> DEFINE k == SpanEnd(src, j, Space)
                 v == P[<<"value", SpanEnd(src, k + 1, Space), d>>]
                 x == SpanEnd(src, k + 1, Space)
                 u == Ends(src)[<<"value", x, d>>]
                 e == EndOf(w)
      <3>1. j \in Nat /\ j \in 0..n BY <1>1
      <3>2. key.end = j /\ ~IsError(key) BY <2>4, <3>1, DoneIs
      <3>3. colon = k BY <3>2
      <3>4. k \in j..n BY <3>1, SpanEndIs
      <3>5. k \in 0..n /\ k \in Nat
        <4> HIDE DEF k
        <4>. QED BY <3>1, <3>4
      <3>6. Has(src, k, {Colon}) <=> k < n /\ At(src, k) = Colon BY DEF Has
      <3>7. ~Has(src, k, {Colon}) => e = NoValue
        <4>1. EndOf(Fail(k, NoColon)) = NoValue
          BY <1>6, <3>5, ReasonGiven, EndOfRefusal
        <4>. QED BY <1>5, <1>8, <3>2, <3>3, <4>1 DEF Names
      <3>8. ASSUME Has(src, k, {Colon})
            PROVE  NextEnd(src, Ends(src), u, SpanEnd(src, u, Space), "members", RBrace, d, e)
        <4>1. w = closeOrNext(src, P, v, d, "members", RBrace, OpenObject, NoNextName)
          BY <1>5, <1>8, <3>2, <3>3, <3>8 DEF Names
        <4>2. k + 1 \in 0..n BY <3>5, <3>6, <3>8
        <4>3. x \in (k + 1)..n BY <4>2, SpanEndIs
        <4>4. x \in 0..n
          <5> HIDE DEF x
          <5>. QED BY <4>2, <4>3
        <4>5. u = EndOf(v) /\ Reaches(src, x, v) BY <1>1, <4>4, EndsAre DEF P
        <4> HIDE DEF v, x, u, k
        <4>6. NextEnd(src, Ends(src), EndOf(v), SpanEnd(src, EndOf(v), Space), "members", RBrace, d, EndOf(w))
          BY <1>1, <1>6, <4>1, <4>4, <4>5, NextEndIs DEF P
        <4>. QED BY <4>5, <4>6
      <3> HIDE DEF e, k
      <3>9. NamedEnd(src, Ends(src), k, d, e) BY <3>6, <3>7, <3>8 DEF NamedEnd
      <3>. QED BY <3>9 DEF e, k
    <2>5. \A j \in (i + 2)..n : j \in 0..n BY <1>1
    <2>6. ASSUME NEW j \in (i + 2)..n, IsString(src, i, j), key = Done(j),
                 \A k \in 0..n : IsString(src, i, k) => k = j
          PROVE  LET e == Ends(src)[<<"members", i, d>>]
                 IN  /\ (\A q \in 0..Len(src) : ~IsString(src, i, q)) => e = NoValue
                     /\ \A q \in 0..Len(src) :
                           IsString(src, i, q) => NamedEnd(src, Ends(src), SpanEnd(src, q, Space), d, e)
      BY <1>2, <2>4, <2>5, <2>6
    <2>. QED BY <2>2, <2>3, <2>6
  <1>. QED BY <1>7, <1>8

\* The validator recognises.
LEMMA ParserRecognises ==
    ASSUME NEW src, Len(src) \in Nat
    PROVE  Recognises(src, Ends(src))
  <1>1. EndsSomewhere(src, Ends(src))
    <2>1. ASSUME NEW s \in Places(Len(src))
          PROVE  Ends(src)[s] = NoValue \/ Ends(src)[s] \in (s[2] + 1)..Len(src)
      <3>1. Ends(src)[s] = EndOf(Parser(src)[s]) /\ Reaches(src, s[2], Parser(src)[s])
        BY <2>1, ParserIs DEF Ends
      <3>. QED BY <3>1 DEF Reaches, EndOf
    <2>. QED BY <2>1 DEF EndsSomewhere
  <1>. QED BY <1>1, ValuesEnd, ElementsEnd, MembersEnd DEF Recognises

\* The rules of the grammar, span by span.
LEMMA RulesAre ==
    ASSUME NEW src, Len(src) \in Nat, NEW i \in 0..Len(src), NEW j \in 0..Len(src), NEW d \in 0..MaxDepth
    PROVE  LET G == JsonValue(src)
           IN  /\ G[<<"value", i, j, d>>] <=> ValueRule(src, G, i, j, d)
               /\ G[<<"elements", i, j, d>>] <=> ElementsRule(src, G, i, j, d)
               /\ G[<<"members", i, j, d>>] <=> MembersRule(src, G, i, j, d)
  <1> DEFINE G == JsonValue(src)
  <1>1. \A r \in {"value", "elements", "members"} : <<r, i, j, d>> \in Spans(Len(src))
    BY DEF Spans
  <1>2. \A r \in {"value", "elements", "members"} : G[<<r, i, j, d>>] <=> Grammar(src, G, <<r, i, j, d>>)
    BY <1>1, GrammarIs
  <1> HIDE DEF G
  <1>3. Grammar(src, G, <<"value", i, j, d>>) = ValueRule(src, G, i, j, d)
    BY DEF Grammar
  <1>4. Grammar(src, G, <<"elements", i, j, d>>) = ElementsRule(src, G, i, j, d)
    BY DEF Grammar
  <1>5. Grammar(src, G, <<"members", i, j, d>>) = MembersRule(src, G, i, j, d)
    BY DEF Grammar
  <1>6. /\ G[<<"value", i, j, d>>] <=> ValueRule(src, G, i, j, d)
        /\ G[<<"elements", i, j, d>>] <=> ElementsRule(src, G, i, j, d)
        /\ G[<<"members", i, j, d>>] <=> MembersRule(src, G, i, j, d)
    BY <1>2, <1>3, <1>4, <1>5
  <1>. QED BY <1>6 DEF G

\* A construct between white space is padded.
LEMMA PaddedBy ==
    ASSUME NEW src, NEW G, NEW r, NEW a, NEW b, NEW d, NEW p \in SpanEnd(src, a, Space)..b,
           SpanEnd(src, a, Space) < p, G[<<r, SpanEnd(src, a, Space), p, d>>], SpanEnd(src, p, Space) >= b
    PROVE  Padded(src, G, r, a, b, d)
  BY DEF Padded

\* The construct that starts at i goes on, and the byte before j closes it.
ClosedRun(src, rule, close, i, j, d) ==
    /\ At(src, j - 1) = close
    /\ \E p \in (i + 1)..(j - 1) : JsonValue(src)[<<rule, i, p, d>>] /\ SpanEnd(src, p, Space) = j - 1

SoundAt(src, R, r, i, d) ==
    R[<<r, i, d>>] # NoValue =>
       /\ r = "value" => JsonValue(src)[<<r, i, R[<<r, i, d>>], d>>]
       /\ d > 0 /\ SpanEnd(src, i, Space) = i /\ r = "elements" => ClosedRun(src, r, "]", i, R[<<r, i, d>>], d)
       /\ d > 0 /\ SpanEnd(src, i, Space) = i /\ r = "members" => ClosedRun(src, r, RBrace, i, R[<<r, i, d>>], d)

\* Every place that is decided before the rule r at i is sound.
SoundBelow(src, R, r, i) ==
    \A q \in {"value", "elements", "members"}, j \in 0..Len(src), d \in 0..MaxDepth :
       j > i \/ (j = i /\ q = "value" /\ r # "value") => SoundAt(src, R, q, j, d)

\* A value that a recogniser ends is one of the grammar.
LEMMA ValueSound ==
    ASSUME NEW src, Len(src) \in Nat, NEW R, Recognises(src, R), NEW i \in 0..Len(src), NEW d \in 0..MaxDepth,
           SoundBelow(src, R, "value", i)
    PROVE  SoundAt(src, R, "value", i, d)
  <1> DEFINE n == Len(src)
             e == R[<<"value", i, d>>]
             G == JsonValue(src)
  <1>1. <<"value", i, d>> \in Places(n) BY DEF Places
  <1>2. e = NoValue \/ e \in (i + 1)..n BY <1>1 DEF Recognises, EndsSomewhere
  <1>3. /\ i = n => e = NoValue
        /\ i < n /\ At(src, i) \notin Openers => ScalarEnd(src, i, e)
        /\ i < n /\ At(src, i) \in Openers => ContainerEnd(src, R, i, SpanEnd(src, i + 1, Space), d, e)
    BY DEF Recognises, EndsValues
  <1> HIDE DEF e, G
  <1> SUFFICES ASSUME e # NoValue PROVE G[<<"value", i, e, d>>]
    BY DEF SoundAt, e, G
  <1>4. i < n /\ e \in (i + 1)..n /\ e \in 0..n /\ i < e BY <1>2, <1>3
  <1> SUFFICES ValueRule(src, G, i, e, d)
    BY <1>4, RulesAre DEF G
  <1>5. CASE At(src, i) \notin Openers
    <2>1. IsScalar(src, i, e) BY <1>3, <1>4, <1>5 DEF ScalarEnd
    <2>. QED BY <1>4, <2>1 DEF IsScalar, ValueRule
  <1>6. CASE At(src, i) \in Openers
    <2> DEFINE j == SpanEnd(src, i + 1, Space)
               kind == At(src, i)
    <2>1. ContainerEnd(src, R, i, j, d, e) BY <1>3, <1>4, <1>6
    <2>2. i + 1 \in 0..n /\ i \in Nat /\ e \in Nat BY <1>4
    <2>3. j \in (i + 1)..n BY <2>2, SpanEndIs
    <2>4. SpanEnd(src, j, Space) = j BY <2>2, SpanTwice
    <2>5. j = SpanEnd(src, i + 1, Space) OBVIOUS
    <2> HIDE DEF j
    <2>6. d < MaxDepth /\ j < n BY <2>1 DEF ContainerEnd
    <2>7. kind \in {"[", LBrace} BY <1>6 DEF Openers
    <2>8. SUFFICES i + 1 < e /\ At(src, e - 1) = CloserOf(kind) /\ Bracketed(src, G, RuleOf(kind), i, e, d)
      <3> HIDE DEF kind
      <3>1. At(src, i) = kind BY DEF kind
      <3>. QED BY <2>2, <2>7, <2>8, <3>1, ContainerRule
    <2>9. CASE At(src, j) = CloserOf(kind)
      <3>1. e = j + 1 BY <2>1, <2>6, <2>9 DEF ContainerEnd
      <3>2. e - 1 = j /\ i + 1 < e BY <2>2, <2>3, <3>1
      <3>. QED BY <2>5, <2>6, <2>9, <3>2 DEF Bracketed
    <2>10. CASE At(src, j) # CloserOf(kind)
      <3> DEFINE r == RuleOf(kind)
      <3>1. e = R[<<r, j, d + 1>>] BY <2>1, <2>6, <2>10 DEF ContainerEnd
      <3>2. r \in {"elements", "members"} /\ r \in {"value", "elements", "members"}
        BY DEF RuleOf
      <3>3. j \in 0..n /\ j > i /\ d + 1 \in 0..MaxDepth /\ d + 1 > 0
        BY <2>2, <2>3, <2>6, MaxDepthAssumption
      <3>4. SoundAt(src, R, r, j, d + 1) BY <3>2, <3>3 DEF SoundBelow
      <3>5. /\ r = "elements" => CloserOf(kind) = "]"
            /\ r = "members" => CloserOf(kind) = RBrace
        BY <2>7 DEF RuleOf, CloserOf
      <3> HIDE DEF r
      <3>6. ClosedRun(src, r, CloserOf(kind), j, e, d + 1)
        BY <2>4, <3>1, <3>2, <3>3, <3>4, <3>5 DEF SoundAt
      <3>7. PICK p \in (j + 1)..(e - 1) : G[<<r, j, p, d + 1>>] /\ SpanEnd(src, p, Space) = e - 1
        BY <3>6 DEF ClosedRun, G
      <3>8. At(src, e - 1) = CloserOf(kind) /\ i + 1 < e
        BY <2>2, <2>3, <3>6, <3>7 DEF ClosedRun
      <3>9. p \in j..(e - 1) /\ j < p /\ SpanEnd(src, p, Space) >= e - 1
        BY <2>2, <2>3, <3>7
      <3>10. Padded(src, G, r, i + 1, e - 1, d + 1)
        BY <2>5, <3>7, <3>9, PaddedBy
      <3>. QED BY <2>6, <3>8, <3>10 DEF Bracketed, r
    <2>. QED BY <2>9, <2>10
  <1>. QED BY <1>5, <1>6

\* The elements that it closes are elements of the grammar.
LEMMA ElementsSound ==
    ASSUME NEW src, Len(src) \in Nat, NEW R, Recognises(src, R), NEW i \in 0..Len(src), NEW d \in 0..MaxDepth,
           SoundBelow(src, R, "elements", i)
    PROVE  SoundAt(src, R, "elements", i, d)
  <1> DEFINE n == Len(src)
             e == R[<<"elements", i, d>>]
             v == R[<<"value", i, d>>]
             k == SpanEnd(src, v, Space)
             G == JsonValue(src)
  <1> SUFFICES ASSUME e # NoValue, d > 0, SpanEnd(src, i, Space) = i PROVE ClosedRun(src, "elements", "]", i, e, d)
    BY DEF SoundAt
  <1>1. d \in 1..MaxDepth /\ i \in Nat BY MaxDepthAssumption
  <1>2. NextEnd(src, R, v, k, "elements", "]", d, e)
    BY <1>1 DEF Recognises, EndsElements
  <1>3. v = NoValue \/ v \in (i + 1)..n
    <2>1. <<"value", i, d>> \in Places(n) BY DEF Places
    <2>. QED BY <2>1 DEF Recognises, EndsSomewhere
  <1>4. SoundAt(src, R, "value", i, d) BY DEF SoundBelow
  <1> HIDE DEF e
  <1>5. v # NoValue /\ k < n BY <1>2 DEF NextEnd
  <1>6. G[<<"value", i, v, d>>] BY <1>4, <1>5 DEF SoundAt
  <1>7. v \in (i + 1)..n /\ v \in 0..n /\ v \in Nat BY <1>1, <1>3, <1>5
  <1>8. k \in v..n BY <1>7, SpanEndIs
  <1> HIDE DEF v
  <1>9. SpanEnd(src, v, Space) = k OBVIOUS
  <1> HIDE DEF k, G
  <1>10. k \in Nat /\ k + 1 \in 0..n BY <1>5, <1>7, <1>8
  <1>11. CASE At(src, k) # Comma /\ At(src, k) = "]"
    <2>1. e = k + 1 BY <1>2, <1>5, <1>11 DEF NextEnd
    <2>2. e - 1 = k /\ v \in (i + 1)..k BY <1>7, <1>8, <1>10, <2>1
    <2>3. G[<<"elements", i, v, d>>]
      <3>1. ElementsRule(src, G, i, v, d) BY <1>6 DEF ElementsRule
      <3>. QED BY <1>7, <3>1, RulesAre DEF G
    <2>. QED BY <1>9, <1>11, <2>2, <2>3 DEF ClosedRun, G
  <1>12. CASE At(src, k) = Comma
    <2> DEFINE x == SpanEnd(src, k + 1, Space)
    <2>1. e = R[<<"elements", x, d>>] BY <1>2, <1>5, <1>12 DEF NextEnd
    <2>2. x \in (k + 1)..n /\ SpanEnd(src, x, Space) = x
      BY <1>10, SpanEndIs, SpanTwice
    <2>3. SpanEnd(src, k + 1, Space) = x OBVIOUS
    <2> HIDE DEF x
    <2>4. x \in 0..n /\ x > i BY <1>1, <1>7, <1>8, <1>10, <2>2
    <2>5. SoundAt(src, R, "elements", x, d) BY <2>4 DEF SoundBelow
    <2>6. ClosedRun(src, "elements", "]", x, e, d)
      BY <2>1, <2>2, <2>5 DEF SoundAt
    <2>7. PICK p \in (x + 1)..(e - 1) : G[<<"elements", x, p, d>>] /\ SpanEnd(src, p, Space) = e - 1
      BY <2>6 DEF ClosedRun, G
    <2>8. e \in (x + 1)..n
      <3>1. <<"elements", x, d>> \in Places(n) /\ <<"elements", x, d>>[2] = x
        BY <2>4 DEF Places
      <3>2. R[<<"elements", x, d>>] = NoValue \/ R[<<"elements", x, d>>] \in (x + 1)..n
        BY <3>1 DEF Recognises, EndsSomewhere
      <3>. QED BY <2>1, <3>2
    <2>9. p \in 0..n /\ p \in (i + 1)..(e - 1) /\ k \in i..(p - 1) /\ p \in x..p /\ x < p
      BY <1>1, <1>7, <1>8, <1>10, <2>2, <2>4, <2>7, <2>8, SMTT(60)
    <2>10. SpanEnd(src, p, Space) >= p BY <2>7, <2>9
    <2>11. Padded(src, G, "elements", k + 1, p, d)
      BY <2>3, <2>7, <2>9, <2>10, PaddedBy
    <2>12. Padded(src, G, "value", i, k, d)
      <3>1. v \in i..k /\ i < v /\ k >= k BY <1>1, <1>7, <1>8, <1>10
      <3>. QED BY <1>6, <1>9, <3>1, PaddedBy
    <2>13. ElementsRule(src, G, i, p, d)
      BY <1>12, <2>9, <2>11, <2>12, ElementsComma
    <2>14. G[<<"elements", i, p, d>>] BY <2>9, <2>13, RulesAre DEF G
    <2>. QED BY <2>6, <2>7, <2>9, <2>14 DEF ClosedRun, G
  <1>. QED BY <1>2, <1>5, <1>11, <1>12 DEF NextEnd

\* The members that it closes are members of the grammar.
LEMMA MembersSound ==
    ASSUME NEW src, Len(src) \in Nat, NEW R, Recognises(src, R), NEW i \in 0..Len(src), NEW d \in 0..MaxDepth,
           SoundBelow(src, R, "members", i)
    PROVE  SoundAt(src, R, "members", i, d)
  <1> DEFINE n == Len(src)
             e == R[<<"members", i, d>>]
             G == JsonValue(src)
  <1> SUFFICES ASSUME e # NoValue, d > 0, SpanEnd(src, i, Space) = i PROVE ClosedRun(src, "members", RBrace, i, e, d)
    BY DEF SoundAt
  <1>1. d \in 1..MaxDepth /\ i \in Nat /\ n \in Nat BY MaxDepthAssumption
  <1>2. PICK q \in 0..n : IsString(src, i, q) /\ NamedEnd(src, R, SpanEnd(src, q, Space), d, e)
    BY <1>1 DEF Recognises, EndsMembers
  <1> HIDE DEF e, G
  <1> DEFINE k == SpanEnd(src, q, Space)
             b == SpanEnd(src, k + 1, Space)
             v == R[<<"value", b, d>>]
             y == SpanEnd(src, v, Space)
  <1>3. k < n /\ At(src, k) = Colon BY <1>2 DEF NamedEnd
  <1>4. NextEnd(src, R, v, y, "members", RBrace, d, e)
    BY <1>2, <1>3 DEF NamedEnd
  <1>5. i + 1 < q BY <1>1, <1>2, CharsAre
  <1>6. k \in q..n BY <1>2, SpanEndIs
  <1>7. SpanEnd(src, q, Space) = k OBVIOUS
  <1> HIDE DEF k
  <1>8. k \in Nat /\ k + 1 \in 0..n /\ q \in i..k BY <1>1, <1>3, <1>5, <1>6
  <1>9. b \in (k + 1)..n BY <1>8, SpanEndIs
  <1>10. SpanEnd(src, k + 1, Space) = b OBVIOUS
  <1> HIDE DEF b
  <1>11. b \in 0..n /\ b > i BY <1>1, <1>8, <1>9
  <1>12. v = NoValue \/ v \in (b + 1)..n
    <2>1. <<"value", b, d>> \in Places(n) /\ <<"value", b, d>>[2] = b
      BY <1>11 DEF Places
    <2>2. R[<<"value", b, d>>] = NoValue \/ R[<<"value", b, d>>] \in (b + 1)..n
      BY <2>1 DEF Recognises, EndsSomewhere
    <2>. QED BY <2>2
  <1>13. SoundAt(src, R, "value", b, d) BY <1>11 DEF SoundBelow
  <1>14. v # NoValue /\ y < n BY <1>4 DEF NextEnd
  <1>15. G[<<"value", b, v, d>>] BY <1>13, <1>14 DEF SoundAt, G
  <1>16. v \in (b + 1)..n /\ v \in 0..n /\ v \in Nat BY <1>11, <1>12, <1>14
  <1>17. y \in v..n BY <1>16, SpanEndIs
  <1> HIDE DEF v
  <1>18. SpanEnd(src, v, Space) = y OBVIOUS
  <1> HIDE DEF y
  <1>19. y \in Nat /\ y + 1 \in 0..n BY <1>14, <1>16, <1>17
  <1>20. CASE At(src, y) # Comma /\ At(src, y) = RBrace
    <2>1. e = y + 1 BY <1>4, <1>14, <1>20 DEF NextEnd
    <2>2. e - 1 = y /\ v \in (i + 1)..y /\ k \in i..(v - 1) /\ v \in b..v /\ b < v /\ y >= v
      BY <1>1, <1>8, <1>9, <1>11, <1>16, <1>17, <1>19, <2>1
    <2>3. Padded(src, G, "value", k + 1, v, d)
      BY <1>10, <1>15, <1>18, <2>2, PaddedBy
    <2>4. MembersRule(src, G, i, v, d)
      BY <1>2, <1>3, <1>7, <1>8, <2>2, <2>3, MembersComma
    <2>5. G[<<"members", i, v, d>>] BY <1>16, <2>4, RulesAre DEF G
    <2>. QED BY <1>18, <1>20, <2>2, <2>5 DEF ClosedRun, G
  <1>21. CASE At(src, y) = Comma
    <2> DEFINE x == SpanEnd(src, y + 1, Space)
    <2>1. e = R[<<"members", x, d>>] BY <1>4, <1>14, <1>21 DEF NextEnd
    <2>2. x \in (y + 1)..n /\ SpanEnd(src, x, Space) = x
      BY <1>19, SpanEndIs, SpanTwice
    <2>3. SpanEnd(src, y + 1, Space) = x OBVIOUS
    <2> HIDE DEF x
    <2>4. x \in 0..n /\ x > i BY <1>1, <1>11, <1>16, <1>17, <1>19, <2>2
    <2>5. SoundAt(src, R, "members", x, d) BY <2>4 DEF SoundBelow
    <2>6. ClosedRun(src, "members", RBrace, x, e, d)
      BY <2>1, <2>2, <2>5 DEF SoundAt
    <2>7. PICK p \in (x + 1)..(e - 1) : G[<<"members", x, p, d>>] /\ SpanEnd(src, p, Space) = e - 1
      BY <2>6 DEF ClosedRun, G
    <2>8. e \in (x + 1)..n
      <3>1. <<"members", x, d>> \in Places(n) /\ <<"members", x, d>>[2] = x
        BY <2>4 DEF Places
      <3>2. R[<<"members", x, d>>] = NoValue \/ R[<<"members", x, d>>] \in (x + 1)..n
        BY <3>1 DEF Recognises, EndsSomewhere
      <3>. QED BY <2>1, <3>2
    <2>9. /\ p \in 0..n /\ p \in (i + 1)..(e - 1) /\ y \in (k + 1)..(p - 1) /\ k \in i..(p - 1) /\ p \in x..p /\ x < p
      <3>1. /\ n \in Nat /\ i \in Nat /\ x \in Nat /\ e \in Nat /\ y \in Nat /\ k \in Nat /\ p \in Nat
            /\ e <= n /\ x <= n
        BY <1>1, <1>8, <1>19, <2>4, <2>7, <2>8
      <3>2. i <= k /\ k < y /\ y < x /\ x < p /\ p <= e - 1
        <4>1. k < b /\ b < v BY <1>1, <1>8, <1>9, <1>11, <1>16
        <4>2. b < v /\ v <= y BY <1>1, <1>11, <1>16, <1>17
        <4>3. i <= k BY <1>1, <1>2, <1>5, <1>8
        <4>4. y < x /\ x < p /\ p <= e - 1 BY <1>1, <1>19, <2>2, <2>7, <2>8
        <4>. QED BY <1>1, <1>8, <1>11, <1>16, <1>19, <4>1, <4>2, <4>3, <4>4
      <3>. QED BY <3>1, <3>2
    <2>10. SpanEnd(src, p, Space) >= p BY <2>7, <2>9
    <2>11. Padded(src, G, "members", y + 1, p, d)
      BY <2>3, <2>7, <2>9, <2>10, PaddedBy
    <2>12. Padded(src, G, "value", k + 1, y, d)
      <3>1. v \in b..y /\ b < v /\ y >= y BY <1>11, <1>16, <1>17, <1>19
      <3>. QED BY <1>10, <1>15, <1>18, <3>1, PaddedBy
    <2>13. MembersRule(src, G, i, p, d)
      BY <1>2, <1>3, <1>7, <1>8, <1>21, <2>9, <2>11, <2>12, MembersComma
    <2>14. G[<<"members", i, p, d>>] BY <2>9, <2>13, RulesAre DEF G
    <2>. QED BY <2>6, <2>7, <2>9, <2>14 DEF ClosedRun, G
  <1>. QED BY <1>4, <1>14, <1>20, <1>21 DEF NextEnd

\* What a recogniser takes is one.
LEMMA RecognisedSound ==
    ASSUME NEW src, Len(src) \in Nat, NEW R, Recognises(src, R)
    PROVE  \A i \in 0..Len(src), d \in 0..MaxDepth :
              R[<<"value", i, d>>] # NoValue => JsonValue(src)[<<"value", i, R[<<"value", i, d>>], d>>]
  <1> DEFINE n == Len(src)
             Q == {s \in Places(n) : SoundAt(src, R, s[1], s[2], s[3])}
  <1>1. ASSUME NEW s \in Places(n), \A t \in Places(n) : PlaceRank(n, t) < PlaceRank(n, s) => t \in Q
        PROVE  s \in Q
    <2> DEFINE r == s[1]
               i == s[2]
               d == s[3]
    <2>1. r \in {"value", "elements", "members"} /\ i \in 0..n /\ d \in 0..MaxDepth
      BY DEF Places
    <2>2. SoundBelow(src, R, r, i)
      <3>1. ASSUME NEW q \in {"value", "elements", "members"}, NEW j \in 0..n, NEW x \in 0..MaxDepth,
                   j > i \/ (j = i /\ q = "value" /\ r # "value")
            PROVE  SoundAt(src, R, q, j, x)
        <4>1. <<q, j, x>> \in Places(n) /\ PlaceRank(n, <<q, j, x>>) < PlaceRank(n, s)
          BY <3>1, Deeper
        <4>2. <<q, j, x>> \in Q BY <1>1, <4>1
        <4>. QED BY <4>2
      <3> HIDE DEF r, i, Q
      <3>. QED BY <3>1 DEF SoundBelow
    <2>3. SoundAt(src, R, r, i, d)
      <3> HIDE DEF r, i, d, Q
      <3>. QED BY <2>1, <2>2, ValueSound, ElementsSound, MembersSound
    <2>. QED BY <2>3
  <1>2. \A s \in Places(n) : s \in Q
    <2> HIDE DEF Q
    <2>. QED BY <1>1, PlaceInduction
  <1>3. ASSUME NEW i \in 0..n, NEW d \in 0..MaxDepth PROVE SoundAt(src, R, "value", i, d)
    <2>1. <<"value", i, d>> \in Places(n) BY DEF Places
    <2>2. <<"value", i, d>> \in Q BY <1>2, <2>1
    <2>. QED BY <2>2
  <1>. QED BY <1>3 DEF SoundAt

\* The bytes that end a value inside a container.
Marks == {Comma, "]", RBrace}

\* The bytes that may follow a value are no part of a number, and open nothing.
LEMMA MarksAre ==
    /\ \A c \in Marks : c \notin Space /\ c \notin Digit \cup Exps \cup {Dot}
    /\ \A c \in Space : c \notin Digit \cup Exps \cup {Dot}
    /\ Comma # "]" /\ Comma # RBrace
    /\ \A c \in {"]", RBrace} : c \notin {"n", "t", "f", Quote} \cup Digit \cup {Minus} \cup Openers
  <1>1. /\ Comma \notin Space /\ "]" \notin Space /\ RBrace \notin Space
    BY Zenon DEF Comma, RBrace, Space
  <1>2. /\ Comma \notin Digit /\ "]" \notin Digit /\ RBrace \notin Digit
    BY Zenon DEF Comma, RBrace, Digit
  <1>3. /\ Comma \notin Exps \cup {Dot} /\ "]" \notin Exps \cup {Dot} /\ RBrace \notin Exps \cup {Dot}
    BY Zenon DEF Comma, RBrace, Exps, Dot
  <1>4. \A c \in Space : c \notin Digit BY Zenon DEF Digit, Space
  <1>5. \A c \in Space : c \notin Exps \cup {Dot} BY Zenon DEF Exps, Dot, Space
  <1>6. Comma # "]" /\ Comma # RBrace BY Zenon DEF Comma, RBrace
  <1>7. "]" \notin {"n", "t", "f", Quote} /\ RBrace \notin {"n", "t", "f", Quote}
    BY Zenon DEF RBrace, Quote
  <1>8. "]" # Minus /\ RBrace # Minus BY Zenon DEF RBrace, Minus
  <1>9. "]" \notin Openers /\ RBrace \notin Openers
    BY Zenon DEF RBrace, LBrace, Openers
  <1>. QED BY <1>1, <1>2, <1>3, <1>4, <1>5, <1>6, <1>7, <1>8, <1>9, Zenon DEF Marks

\* A run ends where it ends from any place inside it.
LEMMA SpanInside ==
    ASSUME NEW src, Len(src) \in Nat, NEW S, NEW i \in 0..Len(src), NEW j \in i..SpanEnd(src, i, S)
    PROVE  SpanEnd(src, j, S) = SpanEnd(src, i, S) /\ j \in 0..Len(src)
  <1> DEFINE k == SpanEnd(src, i, S)
  <1>1. /\ k = Len(src) \/ At(src, k) \notin S
        /\ k \in i..Len(src) /\ \A x \in i..(k - 1) : At(src, x) \in S
    BY SpanEndIs
  <1>2. j \in i..k OBVIOUS
  <1> HIDE DEF k
  <1>3. j \in 0..Len(src) /\ k \in j..Len(src) BY <1>1, <1>2
  <1>4. \A x \in j..(k - 1) : x \in i..(k - 1) BY <1>1, <1>2
  <1>5. AllIn(src, j, k, S) BY <1>1, <1>4 DEF AllIn
  <1>6. k = Len(src) \/ At(src, k) \notin S
    <2>1. k = SpanEnd(src, i, S) BY DEF k
    <2>. QED BY <2>1, SpanEndIs
  <1>7. SpanEnd(src, j, S) = k BY <1>3, <1>5, <1>6, SpanUnique
  <1>. QED BY <1>3, <1>7 DEF k

\* A run that reaches a byte outside it ends there.
LEMMA SpanReaches ==
    ASSUME NEW src, Len(src) \in Nat, NEW S, NEW p \in 0..Len(src), NEW b \in p..Len(src), b < Len(src),
           At(src, b) \notin S, SpanEnd(src, p, S) >= b
    PROVE  SpanEnd(src, p, S) = b
  <1> DEFINE k == SpanEnd(src, p, S)
  <1>1. k \in p..Len(src) /\ \A x \in p..(k - 1) : At(src, x) \in S BY SpanEndIs
  <1>2. k >= b OBVIOUS
  <1> HIDE DEF k
  <1>3. k > b => b \in p..(k - 1) BY <1>1
  <1>4. k = b BY <1>1, <1>2, <1>3
  <1>. QED BY <1>4 DEF k

\* A number stops before white space and before a mark.
LEMMA StopsBefore ==
    ASSUME NEW src, Len(src) \in Nat, NEW p \in 0..Len(src),
           SpanEnd(src, p, Space) = Len(src) \/ At(src, SpanEnd(src, p, Space)) \in Marks
    PROVE  NumberStops(src, p)
  <1> DEFINE k == SpanEnd(src, p, Space)
  <1>1. k \in p..Len(src) /\ \A x \in p..(k - 1) : At(src, x) \in Space
    BY SpanEndIs
  <1>2. k = Len(src) \/ At(src, k) \in Marks OBVIOUS
  <1> HIDE DEF k
  <1>3. CASE p = k BY <1>2, <1>3, MarksAre DEF NumberStops
  <1>4. CASE p < k
    <2>1. p \in p..(k - 1) BY <1>1, <1>4
    <2>. QED BY <1>1, <2>1, MarksAre DEF NumberStops
  <1>. QED BY <1>1, <1>3, <1>4

\* What the grammar says of a value.
LEMMA ValueParts ==
    ASSUME NEW src, NEW G, NEW i, NEW j, NEW d, ValueRule(src, G, i, j, d)
    PROVE  \/ IsScalar(src, i, j)
           \/ \E kind \in {"[", LBrace} :
                 /\ i + 1 < j /\ At(src, i) = kind /\ At(src, j - 1) = CloserOf(kind)
                 /\ Bracketed(src, G, RuleOf(kind), i, j, d)
  <1>1. \/ IsScalar(src, i, j)
        \/ i + 1 < j /\ At(src, i) = "[" /\ At(src, j - 1) = "]" /\ Bracketed(src, G, "elements", i, j, d)
        \/ i + 1 < j /\ At(src, i) = LBrace /\ At(src, j - 1) = RBrace /\ Bracketed(src, G, "members", i, j, d)
    BY Zenon DEF ValueRule, IsScalar, LBrace, RBrace
  <1>2. CloserOf("[") = "]" /\ RuleOf("[") = "elements" /\ CloserOf(LBrace) = RBrace /\ RuleOf(LBrace) = "members"
    <2>1. LBrace # "[" BY FirstBytes
    <2>. QED BY <2>1 DEF CloserOf, RuleOf
  <1>. QED BY <1>1, <1>2

\* What it says of elements.
LEMMA ElementsParts ==
    ASSUME NEW src, NEW G, NEW i, NEW j, NEW d, ElementsRule(src, G, i, j, d)
    PROVE  \/ G[<<"value", i, j, d>>]
           \/ \E k \in i..(j - 1) : /\ At(src, k) = Comma
                                    /\ Padded(src, G, "value", i, k, d)
                                    /\ Padded(src, G, "elements", k + 1, j, d)
  BY Zenon DEF ElementsRule, Comma

\* What it says of members.
LEMMA MembersParts ==
    ASSUME NEW src, NEW G, NEW i, NEW j, NEW d, MembersRule(src, G, i, j, d)
    PROVE  \E k \in i..(j - 1) :
             /\ At(src, k) = Colon
             /\ \E s \in i..k : IsString(src, i, s) /\ SpanEnd(src, s, Space) = k
             /\ \/ Padded(src, G, "value", k + 1, j, d)
                \/ \E m \in (k + 1)..(j - 1) : /\ At(src, m) = Comma
                                               /\ Padded(src, G, "value", k + 1, m, d)
                                               /\ Padded(src, G, "members", m + 1, j, d)
  BY Zenon DEF MembersRule, Comma, Colon

\* White space from a on ends at x.
StartsAt(src, a, x) == x \in 0..Len(src) /\ x = SpanEnd(src, a, Space)

\* A padded construct begins where the white space before it ends, and the
\* white space after it ends where that of the span does.
LEMMA PaddedParts ==
    ASSUME NEW src, Len(src) \in Nat, NEW G, NEW r, NEW a \in 0..Len(src), NEW b \in 0..Len(src), NEW d,
           Padded(src, G, r, a, b, d), NEW x, StartsAt(src, a, x)
    PROVE  \E p \in (x + 1)..b : /\ G[<<r, x, p, d>>] /\ SpanEnd(src, p, Space) >= b
                                 /\ SpanEnd(src, p, Space) = SpanEnd(src, b, Space)
  <1>1. x \in a..Len(src) BY SpanEndIs DEF StartsAt
  <1>2. PICK p \in x..b : x < p /\ G[<<r, x, p, d>>] /\ SpanEnd(src, p, Space) >= b
    BY DEF Padded, StartsAt
  <1>3. p \in 0..Len(src) /\ p \in (x + 1)..b BY <1>1, <1>2
  <1>4. SpanEnd(src, p, Space) \in p..Len(src) BY <1>3, SpanEndIs
  <1>5. b \in p..SpanEnd(src, p, Space) BY <1>2, <1>3, <1>4
  <1>6. SpanEnd(src, b, Space) = SpanEnd(src, p, Space)
    BY <1>3, <1>5, SpanInside
  <1>. QED BY <1>2, <1>3, <1>6

\* No construct begins with a closing byte.
LEMMA NoCloserFirst ==
    ASSUME NEW src, Len(src) \in Nat, NEW r \in {"value", "elements", "members"}, NEW i \in 0..Len(src),
           NEW j \in 0..Len(src), NEW d \in 0..MaxDepth, JsonValue(src)[<<r, i, j, d>>],
           SpanEnd(src, i, Space) = i
    PROVE  At(src, i) \notin {"]", RBrace}
  <1> DEFINE n == Len(src)
             G == JsonValue(src)
  <1>1. ASSUME NEW k \in 0..n, G[<<"value", i, k, d>>] PROVE At(src, i) \notin {"]", RBrace}
    <2>1. ValueRule(src, G, i, k, d) BY <1>1, RulesAre
    <2> HIDE DEF G
    <2>2. i < k BY <2>1 DEF ValueRule
    <2>3. k \in i..n BY <2>2
    <2>4. CASE IsScalar(src, i, k)
      <3>1. \/ At(src, i) \in {"n", "t", "f"}
            \/ At(src, i) \in Digit \cup {Minus}
            \/ At(src, i) = Quote
        BY <2>3, <2>4, ScalarParts
      <3>. QED BY <3>1, MarksAre, Zenon
    <2>5. CASE At(src, i) \in Openers BY <2>5, MarksAre, Zenon
    <2>6. IsScalar(src, i, k) \/ At(src, i) \in {"[", LBrace}
      BY <2>1, ValueParts
    <2>. QED BY <2>4, <2>5, <2>6 DEF Openers
  <1>2. CASE r = "value" BY <1>1, <1>2
  <1>3. CASE r = "elements"
    <2>1. ElementsRule(src, G, i, j, d) BY <1>3, RulesAre
    <2> HIDE DEF G
    <2>2. CASE G[<<"value", i, j, d>>] BY <1>1, <2>2
    <2>3. ASSUME NEW k \in i..(j - 1), Padded(src, G, "value", i, k, d) PROVE At(src, i) \notin {"]", RBrace}
      <3>1. k \in 0..n OBVIOUS
      <3>2. PICK p \in (i + 1)..k : G[<<"value", i, p, d>>]
        <4>1. StartsAt(src, i, i) BY DEF StartsAt
        <4>. QED BY <2>3, <3>1, <4>1, PaddedParts
      <3>3. p \in 0..n BY <3>1, <3>2
      <3>. QED BY <1>1, <3>2, <3>3
    <2>. QED BY <2>1, <2>2, <2>3, ElementsParts
  <1>4. CASE r = "members"
    <2>1. MembersRule(src, G, i, j, d) BY <1>4, RulesAre
    <2>2. \E s : IsString(src, i, s)
      <3> HIDE DEF G
      <3>. QED BY <2>1, MembersParts
    <2>3. At(src, i) = Quote
      <3>1. i \in Nat OBVIOUS
      <3>. QED BY <2>2, <3>1, CharsAre
    <2>. QED BY <2>3, MarksAre, Zenon
  <1>. QED BY <1>2, <1>3, <1>4

\* What the recogniser must say of every construct of rule r that starts at i.
CompleteAt(src, R, r, i, d) ==
    \A p \in (i + 1)..Len(src) :
       JsonValue(src)[<<r, i, p, d>>] =>
          LET k == SpanEnd(src, p, Space)
          IN  /\ r = "value" /\ (IsNumber(src, i, p) => NumberStops(src, p)) => R[<<r, i, d>>] = p
              /\ r = "elements" /\ d > 0 /\ SpanEnd(src, i, Space) = i /\ k < Len(src) /\ At(src, k) = "]" =>
                    R[<<r, i, d>>] = k + 1
              /\ r = "members" /\ d > 0 /\ SpanEnd(src, i, Space) = i /\ k < Len(src) /\ At(src, k) = RBrace =>
                    R[<<r, i, d>>] = k + 1

CompleteBelow(src, R, r, i) ==
    \A q \in {"value", "elements", "members"}, j \in 0..Len(src), d \in 0..MaxDepth :
       j > i \/ (j = i /\ q = "value" /\ r # "value") => CompleteAt(src, R, q, j, d)

\* A recogniser ends every value of the grammar, where the grammar does.
LEMMA ValueComplete ==
    ASSUME NEW src, Len(src) \in Nat, NEW R, Recognises(src, R), NEW i \in 0..Len(src), NEW d \in 0..MaxDepth,
           CompleteBelow(src, R, "value", i)
    PROVE  CompleteAt(src, R, "value", i, d)
  <1> DEFINE n == Len(src)
             e == R[<<"value", i, d>>]
             G == JsonValue(src)
  <1> SUFFICES ASSUME NEW p \in (i + 1)..n, G[<<"value", i, p, d>>], IsNumber(src, i, p) => NumberStops(src, p)
               PROVE  e = p
    BY DEF CompleteAt
  <1>1. i < n /\ p \in 0..n /\ i \in Nat /\ p \in Nat /\ p \in i..n OBVIOUS
  <1>2. /\ At(src, i) \notin Openers => ScalarEnd(src, i, e)
        /\ At(src, i) \in Openers => ContainerEnd(src, R, i, SpanEnd(src, i + 1, Space), d, e)
    BY <1>1 DEF Recognises, EndsValues
  <1>3. ValueRule(src, G, i, p, d) BY <1>1, RulesAre
  <1> HIDE DEF e, G
  <1>4. CASE IsScalar(src, i, p)
    <2>1. \/ At(src, i) \in {"n", "t", "f"}
          \/ At(src, i) \in Digit \cup {Minus}
          \/ At(src, i) = Quote
      BY <1>1, <1>4, ScalarParts
    <2>2. At(src, i) \notin Openers BY <2>1, FirstBytes, Zenon DEF Openers
    <2>. QED BY <1>2, <1>4, <2>2 DEF ScalarEnd
  <1>5. ASSUME NEW kind \in {"[", LBrace}, i + 1 < p, At(src, i) = kind, At(src, p - 1) = CloserOf(kind),
               Bracketed(src, G, RuleOf(kind), i, p, d)
        PROVE  e = p
    <2> DEFINE x == SpanEnd(src, i + 1, Space)
               r == RuleOf(kind)
               c == CloserOf(kind)
    <2>1. ContainerEnd(src, R, i, x, d, e) BY <1>2, <1>5 DEF Openers
    <2>2. d < MaxDepth BY <1>5 DEF Bracketed
    <2>3. i + 1 \in 0..n /\ p - 1 \in 0..n BY <1>1, <1>5
    <2>4. SpanEnd(src, x, Space) = x BY <2>3, SpanTwice
    <2>5. c \in {"]", RBrace} /\ c \in Marks /\ (r = "elements" => c = "]") /\ (r = "members" => c = RBrace)
      BY <1>5 DEF RuleOf, CloserOf, Marks
    <2>6. c \notin Space BY <2>5, MarksAre
    <2>7. r \in {"elements", "members"} /\ r \in {"value", "elements", "members"}
      BY DEF RuleOf
    <2>8. CASE x = p - 1
      <3>1. x < n /\ At(src, x) = CloserOf(At(src, i)) /\ x + 1 = p
        BY <1>1, <1>5, <2>8
      <3> HIDE DEF x
      <3>. QED BY <2>1, <2>2, <3>1 DEF ContainerEnd
    <2>9. CASE Padded(src, G, r, i + 1, p - 1, d + 1)
      <3>1. x \in (i + 1)..n BY <2>3, SpanEndIs
      <3>2. PICK q \in (x + 1)..(p - 1) : G[<<r, x, q, d + 1>>] /\ SpanEnd(src, q, Space) >= p - 1
        <4>1. StartsAt(src, i + 1, x) BY <2>3, <3>1 DEF StartsAt
        <4> HIDE DEF r, x
        <4>. QED BY <2>3, <2>9, <4>1, PaddedParts
      <3> HIDE DEF x
      <3>3. q \in 0..n /\ q \in (x + 1)..n /\ p - 1 \in q..n /\ p - 1 < n /\ x < n /\ x \in 0..n /\ x > i /\ x \in Nat
        BY <1>1, <3>1, <3>2
      <3>4. SpanEnd(src, q, Space) = p - 1
        BY <1>5, <2>6, <3>2, <3>3, SpanReaches
      <3>5. d + 1 \in 0..MaxDepth /\ d + 1 > 0 BY <2>2, MaxDepthAssumption
      <3>6. CompleteAt(src, R, r, x, d + 1)
        BY <2>7, <3>3, <3>5 DEF CompleteBelow
      <3>7. At(src, x) \notin {"]", RBrace}
        <4> HIDE DEF r, c
        <4>. QED BY <2>4, <2>7, <3>2, <3>3, <3>5, NoCloserFirst DEF G
      <3>8. At(src, x) # CloserOf(At(src, i)) BY <1>5, <2>5, <3>7
      <3>9. e = R[<<r, x, d + 1>>]
        BY <1>5, <2>1, <2>2, <3>3, <3>8 DEF ContainerEnd
      <3>10. R[<<r, x, d + 1>>] = (p - 1) + 1
        <4> HIDE DEF r
        <4>. QED BY <1>5, <2>4, <2>5, <2>7, <3>2, <3>3, <3>4, <3>5, <3>6 DEF CompleteAt, G
      <3>. QED BY <1>1, <3>9, <3>10
    <2>. QED BY <1>5, <2>8, <2>9 DEF Bracketed
  <1>. QED BY <1>3, <1>4, <1>5, ValueParts

\* e is the end of what goes on after the value at i.
After(src, R, i, rule, close, d, e) ==
    LET v == R[<<"value", i, d>>]
    IN  NextEnd(src, R, v, SpanEnd(src, v, Space), rule, close, d, e)

\* A value whose white space ends at a mark is recognised, and then what goes on after it.
LEMMA NextComplete ==
    ASSUME NEW src, Len(src) \in Nat, NEW R, NEW i \in 0..Len(src), NEW d \in 0..MaxDepth,
           CompleteAt(src, R, "value", i, d), NEW p \in (i + 1)..Len(src), JsonValue(src)[<<"value", i, p, d>>],
           NEW k, StartsAt(src, p, k), k < Len(src), At(src, k) \in Marks,
           NEW rule, NEW close \in {"]", RBrace}, NEW e, After(src, R, i, rule, close, d, e)
    PROVE  /\ At(src, k) = Comma => e = R[<<rule, SpanEnd(src, k + 1, Space), d>>]
           /\ At(src, k) = close => e = k + 1
  <1>1. p \in 0..Len(src) /\ p # NoValue BY DEF NoValue
  <1>2. NumberStops(src, p) BY <1>1, StopsBefore DEF StartsAt
  <1>3. R[<<"value", i, d>>] = p BY <1>2 DEF CompleteAt
  <1>4. NextEnd(src, R, p, k, rule, close, d, e) BY <1>3 DEF StartsAt, After
  <1>5. close # Comma BY MarksAre
  <1>. QED BY <1>1, <1>4, <1>5 DEF NextEnd

\* It closes the elements that end where the grammar says.
LEMMA ElementsComplete ==
    ASSUME NEW src, Len(src) \in Nat, NEW R, Recognises(src, R), NEW i \in 0..Len(src), NEW d \in 0..MaxDepth,
           CompleteBelow(src, R, "elements", i)
    PROVE  CompleteAt(src, R, "elements", i, d)
  <1> DEFINE n == Len(src)
             e == R[<<"elements", i, d>>]
             G == JsonValue(src)
  <1>0. SUFFICES ASSUME NEW p, p \in (i + 1)..n, G[<<"elements", i, p, d>>], d > 0, SpanEnd(src, i, Space) = i,
                        SpanEnd(src, p, Space) < n, At(src, SpanEnd(src, p, Space)) = "]"
                 PROVE  e = SpanEnd(src, p, Space) + 1
    BY DEF CompleteAt
  <1> DEFINE k == SpanEnd(src, p, Space)
  <1>1. d \in 1..MaxDepth /\ p \in 0..n /\ i \in Nat /\ n \in Nat
    BY <1>0, MaxDepthAssumption
  <1>2. After(src, R, i, "elements", "]", d, e)
    BY <1>0, <1>1 DEF Recognises, EndsElements, After
  <1>3. CompleteAt(src, R, "value", i, d) BY DEF CompleteBelow
  <1>4. ElementsRule(src, G, i, p, d) BY <1>0, <1>1, RulesAre
  <1>5. "]" \in Marks /\ Comma \in Marks BY DEF Marks
  <1>6. \/ G[<<"value", i, p, d>>]
        \/ \E c \in i..(p - 1) : /\ At(src, c) = Comma
                                 /\ Padded(src, G, "value", i, c, d)
                                 /\ Padded(src, G, "elements", c + 1, p, d)
    <2> HIDE DEF G
    <2>. QED BY <1>4, ElementsParts
  <1>9. StartsAt(src, i, i) /\ StartsAt(src, p, k) /\ k < n /\ At(src, k) = "]"
    <2>1. k \in 0..n
      <3>1. k \in p..n BY <1>1, SpanEndIs
      <3> HIDE DEF k
      <3>. QED BY <1>1, <3>1
    <2>. QED BY <1>0, <2>1 DEF StartsAt
  <1>10. k = SpanEnd(src, p, Space) OBVIOUS
  <1> HIDE DEF e, G, k
  <1>7. CASE G[<<"value", i, p, d>>]
    <2>1. p \in (i + 1)..n BY <1>0
    <2>2. e = k + 1 BY <1>2, <1>3, <1>5, <1>7, <1>9, <2>1, NextComplete DEF G
    <2>. QED BY <1>10, <2>2
  <1>8. ASSUME NEW c, c \in i..(p - 1), At(src, c) = Comma, Padded(src, G, "value", i, c, d),
               Padded(src, G, "elements", c + 1, p, d)
        PROVE  e = k + 1
    <2> DEFINE x == SpanEnd(src, c + 1, Space)
    <2>1. c \in 0..n /\ c < n /\ c + 1 \in 0..n /\ c >= i BY <1>1, <1>8
    <2>2. PICK q : q \in (i + 1)..c /\ G[<<"value", i, q, d>>] /\ SpanEnd(src, q, Space) >= c
      BY <1>8, <1>9, <2>1, PaddedParts
    <2>3. q \in 0..n /\ q \in (i + 1)..n /\ c \in q..n BY <1>1, <2>1, <2>2
    <2>4. SpanEnd(src, q, Space) = c
      BY <1>5, <1>8, <2>1, <2>2, <2>3, MarksAre, SpanReaches
    <2>11. StartsAt(src, q, c) BY <2>1, <2>4 DEF StartsAt
    <2>5. e = R[<<"elements", x, d>>]
      <3>1. At(src, c) = Comma /\ At(src, c) \in Marks /\ c < n
        BY <1>5, <1>8, <2>1
      <3>2. JsonValue(src)[<<"value", i, q, d>>] /\ q \in (i + 1)..n
        BY <2>2, <2>3 DEF G
      <3>3. /\ At(src, c) = Comma => e = R[<<"elements", SpanEnd(src, c + 1, Space), d>>]
            /\ At(src, c) = "]" => e = c + 1
        <4> HIDE DEF x, n
        <4>. QED BY <1>2, <1>3, <2>11, <3>1, <3>2, NextComplete DEF n
      <3>. QED BY <3>1, <3>3
    <2>6. x \in (c + 1)..n /\ SpanEnd(src, x, Space) = x
      BY <2>1, SpanEndIs, SpanTwice
    <2>12. StartsAt(src, c + 1, x)
      <3>1. x = SpanEnd(src, c + 1, Space) OBVIOUS
      <3> HIDE DEF x
      <3>. QED BY <2>1, <2>6, <3>1 DEF StartsAt
    <2>13. \E y \in (x + 1)..p : /\ G[<<"elements", x, y, d>>] /\ SpanEnd(src, y, Space) >= p
                                  /\ SpanEnd(src, y, Space) = SpanEnd(src, p, Space)
      <3> HIDE DEF x
      <3>. QED BY <1>1, <1>8, <2>1, <2>12, PaddedParts
    <2>7. PICK y : /\ y \in (x + 1)..p /\ G[<<"elements", x, y, d>>]
                   /\ SpanEnd(src, y, Space) = SpanEnd(src, p, Space)
      BY <2>13
    <2> HIDE DEF x
    <2>8. x \in 0..n /\ x > i /\ y \in (x + 1)..n
      <3>1. x \in Nat /\ x <= n /\ x > i BY <1>1, <2>1, <2>6
      <3>. QED BY <1>1, <2>7, <3>1
    <2>9. CompleteAt(src, R, "elements", x, d) BY <2>8 DEF CompleteBelow
    <2>10. R[<<"elements", x, d>>] = k + 1
      BY <1>0, <1>9, <1>10, <2>6, <2>7, <2>8, <2>9 DEF CompleteAt, G
    <2>. QED BY <1>10, <2>5, <2>10
  <1>. QED BY <1>6, <1>7, <1>8, <1>10

\* It closes the members that end where the grammar says.
LEMMA MembersComplete ==
    ASSUME NEW src, Len(src) \in Nat, NEW R, Recognises(src, R), NEW i \in 0..Len(src), NEW d \in 0..MaxDepth,
           CompleteBelow(src, R, "members", i)
    PROVE  CompleteAt(src, R, "members", i, d)
  <1> DEFINE n == Len(src)
             e == R[<<"members", i, d>>]
             G == JsonValue(src)
  <1>0. SUFFICES ASSUME NEW p, p \in (i + 1)..n, G[<<"members", i, p, d>>], d > 0, SpanEnd(src, i, Space) = i,
                        SpanEnd(src, p, Space) < n, At(src, SpanEnd(src, p, Space)) = RBrace
                 PROVE  e = SpanEnd(src, p, Space) + 1
    BY DEF CompleteAt
  <1> DEFINE k == SpanEnd(src, p, Space)
  <1>1. d \in 1..MaxDepth /\ p \in 0..n /\ i \in Nat /\ n \in Nat
    BY <1>0, MaxDepthAssumption
  <1>2. RBrace \in Marks /\ Comma \in Marks BY DEF Marks
  <1>3. MembersRule(src, G, i, p, d) BY <1>0, <1>1, RulesAre
  <1>4. PICK c :
           /\ c \in i..(p - 1)
           /\ At(src, c) = Colon
           /\ \E s \in i..c : IsString(src, i, s) /\ SpanEnd(src, s, Space) = c
           /\ \/ Padded(src, G, "value", c + 1, p, d)
              \/ \E m \in (c + 1)..(p - 1) : /\ At(src, m) = Comma
                                             /\ Padded(src, G, "value", c + 1, m, d)
                                             /\ Padded(src, G, "members", m + 1, p, d)
    <2> HIDE DEF G
    <2>. QED BY <1>3, MembersParts
  <1>5. PICK s : s \in i..c /\ IsString(src, i, s) /\ SpanEnd(src, s, Space) = c
    BY <1>4
  <1>6. c \in 0..n /\ c < n /\ c + 1 \in 0..n /\ s \in 0..n /\ c >= i
    BY <1>1, <1>4, <1>5
  <1> DEFINE b == SpanEnd(src, c + 1, Space)
  <1>7. After(src, R, b, "members", RBrace, d, e)
    <2>1. NamedEnd(src, R, c, d, e)
      BY <1>0, <1>1, <1>5, <1>6 DEF Recognises, EndsMembers
    <2>. QED BY <1>4, <1>6, <2>1 DEF NamedEnd, After
  <1>8. b \in (c + 1)..n BY <1>6, SpanEndIs
  <1>9. b = SpanEnd(src, c + 1, Space) OBVIOUS
  <1>14. StartsAt(src, p, k) /\ k < n /\ At(src, k) = RBrace
    <2>1. k \in 0..n
      <3>1. k \in p..n BY <1>1, SpanEndIs
      <3> HIDE DEF k
      <3>. QED BY <1>1, <3>1
    <2>. QED BY <1>0, <2>1 DEF StartsAt
  <1>15. k = SpanEnd(src, p, Space) OBVIOUS
  <1> HIDE DEF e, b, G, k
  <1>16. StartsAt(src, c + 1, b) BY <1>6, <1>8, <1>9 DEF StartsAt
  <1>10. b \in 0..n /\ b > i BY <1>1, <1>6, <1>8
  <1>11. CompleteAt(src, R, "value", b, d) BY <1>10 DEF CompleteBelow
  <1>12. CASE Padded(src, G, "value", c + 1, p, d)
    <2>3. \E q \in (b + 1)..p : /\ G[<<"value", b, q, d>>] /\ SpanEnd(src, q, Space) >= p
                                 /\ SpanEnd(src, q, Space) = SpanEnd(src, p, Space)
      BY <1>1, <1>6, <1>12, <1>16, PaddedParts, ZenonT(30)
    <2>1. PICK q : /\ q \in (b + 1)..p /\ G[<<"value", b, q, d>>]
                   /\ SpanEnd(src, q, Space) = SpanEnd(src, p, Space)
      BY <2>3
    <2>2. q \in (b + 1)..n BY <1>1, <1>10, <2>1
    <2>. QED
      <3>1. StartsAt(src, q, k) BY <1>14, <1>15, <2>1 DEF StartsAt
      <3>2. e = k + 1
        <4>1. JsonValue(src)[<<"value", b, q, d>>] /\ At(src, k) \in Marks
          BY <1>2, <1>14, <2>1 DEF G
        <4>. QED BY <1>7, <1>10, <1>11, <1>14, <2>2, <3>1, <4>1, NextComplete
      <3>. QED BY <1>15, <3>2
  <1>13. ASSUME NEW m, m \in (c + 1)..(p - 1), At(src, m) = Comma, Padded(src, G, "value", c + 1, m, d),
                Padded(src, G, "members", m + 1, p, d)
         PROVE  e = k + 1
    <2> DEFINE x == SpanEnd(src, m + 1, Space)
    <2>1. m \in 0..n /\ m < n /\ m + 1 \in 0..n /\ m > i BY <1>1, <1>6, <1>13
    <2>2. PICK q : q \in (b + 1)..m /\ G[<<"value", b, q, d>>] /\ SpanEnd(src, q, Space) >= m
      BY <1>6, <1>13, <1>16, <2>1, PaddedParts
    <2>3. q \in 0..n /\ q \in (b + 1)..n /\ m \in q..n
      BY <1>1, <1>10, <2>1, <2>2
    <2>4. SpanEnd(src, q, Space) = m
      BY <1>2, <1>13, <2>1, <2>2, <2>3, MarksAre, SpanReaches
    <2>11. StartsAt(src, q, m) BY <2>1, <2>4 DEF StartsAt
    <2>5. e = R[<<"members", x, d>>]
      <3>1. At(src, m) = Comma /\ At(src, m) \in Marks /\ m < n
        BY <1>2, <1>13, <2>1
      <3>2. JsonValue(src)[<<"value", b, q, d>>] /\ q \in (b + 1)..n
        BY <2>2, <2>3 DEF G
      <3>. QED BY <1>7, <1>10, <1>11, <2>11, <3>1, <3>2, NextComplete
    <2>6. x \in (m + 1)..n /\ SpanEnd(src, x, Space) = x
      BY <2>1, SpanEndIs, SpanTwice
    <2>12. StartsAt(src, m + 1, x)
      <3>1. x = SpanEnd(src, m + 1, Space) OBVIOUS
      <3> HIDE DEF x
      <3>. QED BY <2>1, <2>6, <3>1 DEF StartsAt
    <2>13. \E y \in (x + 1)..p : /\ G[<<"members", x, y, d>>] /\ SpanEnd(src, y, Space) >= p
                                  /\ SpanEnd(src, y, Space) = SpanEnd(src, p, Space)
      <3> HIDE DEF x
      <3>. QED BY <1>1, <1>13, <2>1, <2>12, PaddedParts, ZenonT(30)
    <2>7. PICK y : /\ y \in (x + 1)..p /\ G[<<"members", x, y, d>>]
                   /\ SpanEnd(src, y, Space) = SpanEnd(src, p, Space)
      BY <2>13
    <2> HIDE DEF x
    <2>8. x \in 0..n /\ x > i /\ y \in (x + 1)..n
      <3>1. x \in Nat /\ x <= n /\ x > i BY <1>1, <2>1, <2>6
      <3>. QED BY <1>1, <2>7, <3>1
    <2>9. CompleteAt(src, R, "members", x, d) BY <2>8 DEF CompleteBelow
    <2>10. R[<<"members", x, d>>] = k + 1
      BY <1>0, <1>14, <1>15, <2>6, <2>7, <2>8, <2>9 DEF CompleteAt, G
    <2>. QED BY <1>15, <2>5, <2>10
  <1>. QED BY <1>4, <1>12, <1>13, <1>15

\* What is one is taken.
LEMMA RecognisedComplete ==
    ASSUME NEW src, Len(src) \in Nat, NEW R, Recognises(src, R)
    PROVE  \A i \in 0..Len(src), d \in 0..MaxDepth, p \in 0..Len(src) :
              i < p /\ JsonValue(src)[<<"value", i, p, d>>] /\ (IsNumber(src, i, p) => NumberStops(src, p)) =>
                 R[<<"value", i, d>>] = p
  <1> DEFINE n == Len(src)
             Q == {s \in Places(n) : CompleteAt(src, R, s[1], s[2], s[3])}
  <1>1. ASSUME NEW s \in Places(n), \A t \in Places(n) : PlaceRank(n, t) < PlaceRank(n, s) => t \in Q
        PROVE  s \in Q
    <2> DEFINE r == s[1]
               i == s[2]
               d == s[3]
    <2>1. r \in {"value", "elements", "members"} /\ i \in 0..n /\ d \in 0..MaxDepth
      BY DEF Places
    <2>2. CompleteBelow(src, R, r, i)
      <3>1. ASSUME NEW q \in {"value", "elements", "members"}, NEW j \in 0..n, NEW x \in 0..MaxDepth,
                   j > i \/ (j = i /\ q = "value" /\ r # "value")
            PROVE  CompleteAt(src, R, q, j, x)
        <4>1. <<q, j, x>> \in Places(n) /\ PlaceRank(n, <<q, j, x>>) < PlaceRank(n, s)
          BY <3>1, Deeper
        <4>2. <<q, j, x>> \in Q BY <1>1, <4>1
        <4>. QED BY <4>2
      <3> HIDE DEF r, i, Q
      <3>. QED BY <3>1 DEF CompleteBelow
    <2>3. CompleteAt(src, R, r, i, d)
      <3> HIDE DEF r, i, d, Q
      <3>. QED BY <2>1, <2>2, ValueComplete, ElementsComplete, MembersComplete
    <2>. QED BY <2>3
  <1>2. \A s \in Places(n) : s \in Q
    <2> HIDE DEF Q
    <2>. QED BY <1>1, PlaceInduction
  <1>3. ASSUME NEW i \in 0..n, NEW d \in 0..MaxDepth PROVE CompleteAt(src, R, "value", i, d)
    <2>1. <<"value", i, d>> \in Places(n) BY DEF Places
    <2>2. <<"value", i, d>> \in Q BY <1>2, <2>1
    <2>. QED BY <2>2
  <1>4. \A i \in 0..n, p \in 0..n : i < p => p \in (i + 1)..n OBVIOUS
  <1>. QED BY <1>3, <1>4 DEF CompleteAt

\* A recogniser tells documents from all other texts.
LEMMA DocumentRecognised ==
    ASSUME NEW src, Len(src) \in Nat, NEW R, Recognises(src, R)
    PROVE  LET i == SpanEnd(src, 0, Space)
               e == R[<<"value", i, 0>>]
           IN  IsDocument(src) <=> e # NoValue /\ SpanEnd(src, e, Space) = Len(src)
  <1> DEFINE n == Len(src)
             i == SpanEnd(src, 0, Space)
             e == R[<<"value", i, 0>>]
  <1>1. 0 \in 0..n /\ 0 \in 0..MaxDepth BY MaxDepthAssumption
  <1>2. i \in 0..n BY <1>1, SpanEndIs
  <1>3. e = NoValue \/ e \in (i + 1)..n
    <2>1. <<"value", i, 0>> \in Places(n) /\ <<"value", i, 0>>[2] = i
      BY <1>1, <1>2 DEF Places
    <2> HIDE DEF i
    <2>. QED BY <2>1 DEF Recognises, EndsSomewhere
  <1>4. IsDocument(src) <=> \E j \in (i + 1)..n : JsonValue(src)[<<"value", i, j, 0>>] /\ SpanEnd(src, j, Space) = n
    BY DEF IsDocument, IsValue
  <1> HIDE DEF e, i
  <1>5. ASSUME IsDocument(src) PROVE e # NoValue /\ SpanEnd(src, e, Space) = n
    <2>1. PICK j \in (i + 1)..n : JsonValue(src)[<<"value", i, j, 0>>] /\ SpanEnd(src, j, Space) = n
      BY <1>4, <1>5
    <2>2. j \in 0..n /\ i < j BY <1>2
    <2>3. NumberStops(src, j) BY <2>1, <2>2, StopsBefore
    <2>4. e = j BY <1>1, <1>2, <2>1, <2>2, <2>3, RecognisedComplete DEF e
    <2>. QED BY <2>1, <2>2, <2>4 DEF NoValue
  <1>6. ASSUME e # NoValue, SpanEnd(src, e, Space) = n PROVE IsDocument(src)
    <2>1. JsonValue(src)[<<"value", i, e, 0>>]
      BY <1>1, <1>2, <1>6, RecognisedSound DEF e
    <2>. QED BY <1>3, <1>4, <1>6, <2>1
  <1>. QED BY <1>5, <1>6 DEF e, i

\* Validate accepts exactly the documents of the grammar.
THEOREM ValidatorDecides ==
    ASSUME NEW src, Len(src) \in Nat
    PROVE  ~IsError(Validate(src)) <=> IsDocument(src)
  <1> DEFINE n == Len(src)
             i == SpanEnd(src, 0, Space)
             v == Parser(src)[<<"value", i, 0>>]
             e == Ends(src)[<<"value", i, 0>>]
             late == "unexpected data after top-level value"
  <1>1. 0 \in 0..n /\ 0 \in 0..MaxDepth BY MaxDepthAssumption
  <1>2. i \in 0..n BY <1>1, SpanEndIs
  <1>3. IsDocument(src) <=> e # NoValue /\ SpanEnd(src, e, Space) = n
    BY ParserRecognises, DocumentRecognised
  <1>4. Validate(src) = IF IsError(v) THEN v
                        ELSE IF SpanEnd(src, v.end, Space) # n THEN Fail(SpanEnd(src, v.end, Space), late)
                        ELSE Done(n)
    BY Zenon DEF Validate, SkipSpace
  <1>5. e = EndOf(v) /\ v \in Verdicts
    <2> HIDE DEF i
    <2>1. e = EndOf(v) /\ Reaches(src, i, v) BY <1>1, <1>2, EndsAre
    <2>. QED BY <2>1 DEF Reaches
  <1>6. \A k : IsError(Fail(k, late))
    <2>1. late # "" BY Zenon
    <2> HIDE DEF late
    <2>. QED BY <2>1 DEF Fail, IsError
  <1>7. ~IsError(Done(n)) BY DoneIs
  <1> HIDE DEF late, v, e, i
  <1>8. CASE IsError(v)
    <2>1. EndOf(v) = NoValue BY <1>8 DEF EndOf
    <2>. QED BY <1>3, <1>4, <1>5, <1>8, <2>1
  <1>9. CASE ~IsError(v)
    <2>1. e = v.end /\ v.end \in Nat /\ e # NoValue
      BY <1>5, <1>9 DEF EndOf, Verdicts, NoValue
    <2>2. CASE SpanEnd(src, v.end, Space) # n
      BY <1>3, <1>4, <1>6, <1>9, <2>1, <2>2
    <2>3. CASE SpanEnd(src, v.end, Space) = n
      BY <1>3, <1>4, <1>7, <1>9, <2>1, <2>3
    <2>. QED BY <2>2, <2>3
  <1>. QED BY <1>8, <1>9

-----------------------------------------------------------------------------
(***************************************************************************)
(* The fast validator.  Its operations return the ends of the verdicts.    *)
(***************************************************************************)

\* The numbers of the fast validator, with their bytes named.
LEMMA FastNumberForms ==
    ASSUME NEW src, NEW i
    PROVE  /\ scanExponentFast(src, i) =
                IF ~Has(src, i, Exps) THEN i
                ELSE IF Has(src, ExpDigits(src, i), Digit) THEN SpanEnd(src, ExpDigits(src, i) + 1, Digit)
                ELSE NoValue
           /\ scanFractionFast(src, i) =
                IF Has(src, i, {Dot}) /\ ~Has(src, i + 1, Digit) THEN NoValue
                ELSE scanExponentFast(src, IF Has(src, i, {Dot}) THEN SpanEnd(src, i + 2, Digit) ELSE i)
           /\ scanIntegerFast(src, i) =
                IF ~Has(src, i, Digit) THEN NoValue
                ELSE scanFractionFast(src, IF At(src, i) = Zero THEN i + 1 ELSE SpanEnd(src, i + 1, Digit))
           /\ scanNumberFast(src, i) = scanIntegerFast(src, IF At(src, i) = Minus THEN i + 1 ELSE i)
  BY DEF scanExponentFast, scanFractionFast, scanIntegerFast, scanNumberFast, Dot, Minus, Zero, Exps, Signs, ExpDigits

\* scanExponentFast ends where scanExponent does.
LEMMA ExponentFast ==
    ASSUME NEW src, Len(src) \in Nat, NEW i \in 0..Len(src)
    PROVE  scanExponentFast(src, i) = EndOf(scanExponent(src, i))
  <1> DEFINE n == Len(src)
             v == scanExponent(src, i)
             w == scanExponentFast(src, i)
             d == ExpDigits(src, i)
             e == SpanEnd(src, d, Digit)
  <1>1. v = IF ~Has(src, i, Exps) THEN Done(i)
            ELSE IF ~Has(src, d, Digit) THEN Fail(d, "invalid number exponent")
            ELSE Done(e)
    BY NumberForms
  <1>2. w = IF ~Has(src, i, Exps) THEN i
            ELSE IF Has(src, d, Digit) THEN SpanEnd(src, d + 1, Digit)
            ELSE NoValue
    BY FastNumberForms
  <1>3. d \in Nat BY DEF ExpDigits
  <1>4. Refusal(Fail(d, "invalid number exponent")) BY <1>3, NumberRefusals
  <1>5. EndOf(Done(i)) = i BY EndOfDone
  <1>6. ASSUME Has(src, d, Digit) PROVE e = SpanEnd(src, d + 1, Digit) /\ EndOf(Done(e)) = e
    <2>1. d \in 0..(n - 1) /\ At(src, d) \in Digit BY <1>3, <1>6 DEF Has
    <2>2. e = SpanEnd(src, d + 1, Digit) /\ e \in (d + 1)..n BY <2>1, SpanGoesOn
    <2> HIDE DEF e
    <2>3. e \in Nat BY <1>3, <2>2
    <2>. QED BY <2>2, <2>3, EndOfDone
  <1>7. EndOf(Fail(d, "invalid number exponent")) = NoValue
    BY <1>4, EndOfRefusal, Zenon
  <1> HIDE DEF v, w, d, e
  <1>. QED BY <1>1, <1>2, <1>5, <1>6, <1>7 DEF v, w

\* scanFractionFast ends where scanFraction does.
LEMMA FractionFast ==
    ASSUME NEW src, Len(src) \in Nat, NEW i \in 0..Len(src)
    PROVE  scanFractionFast(src, i) = EndOf(scanFraction(src, i))
  <1> DEFINE n == Len(src)
             v == scanFraction(src, i)
             w == scanFractionFast(src, i)
             d == SpanEnd(src, i + 1, Digit)
             x == SpanEnd(src, i + 2, Digit)
  <1>1. v = IF Has(src, i, {Dot}) /\ ~Has(src, i + 1, Digit) THEN Fail(i + 1, "invalid number fraction")
            ELSE scanExponent(src, IF Has(src, i, {Dot}) THEN d ELSE i)
    BY NumberForms
  <1>2. w = IF Has(src, i, {Dot}) /\ ~Has(src, i + 1, Digit) THEN NoValue
            ELSE scanExponentFast(src, IF Has(src, i, {Dot}) THEN x ELSE i)
    BY FastNumberForms
  <1>3. i + 1 \in Nat OBVIOUS
  <1>4. EndOf(Fail(i + 1, "invalid number fraction")) = NoValue
    BY <1>3, NumberRefusals, EndOfRefusal, Zenon
  <1>5. ASSUME Has(src, i + 1, Digit) PROVE d = x /\ d \in 0..n
    <2>1. i + 1 \in 0..(n - 1) /\ At(src, i + 1) \in Digit /\ (i + 1) + 1 = i + 2
      BY <1>5 DEF Has
    <2>2. SpanEnd(src, i + 1, Digit) = SpanEnd(src, (i + 1) + 1, Digit) /\ d \in ((i + 1) + 1)..n
      BY <2>1, SpanGoesOn
    <2>3. d = x BY <2>1, <2>2
    <2> HIDE DEF d, x
    <2>4. d \in 0..n BY <2>2
    <2>. QED BY <2>3, <2>4
  <1> HIDE DEF v, w, d, x
  <1>6. CASE Has(src, i, {Dot}) /\ ~Has(src, i + 1, Digit)
    BY <1>1, <1>2, <1>4, <1>6 DEF v, w
  <1>7. CASE Has(src, i, {Dot}) /\ Has(src, i + 1, Digit)
    <2>1. v = scanExponent(src, d) /\ w = scanExponentFast(src, d) /\ d \in 0..n
      BY <1>1, <1>2, <1>5, <1>7
    <2>. QED BY <2>1, ExponentFast DEF v, w
  <1>8. CASE ~Has(src, i, {Dot})
    <2>1. v = scanExponent(src, i) /\ w = scanExponentFast(src, i)
      BY <1>1, <1>2, <1>8
    <2>. QED BY <2>1, ExponentFast DEF v, w
  <1>. QED BY <1>6, <1>7, <1>8

\* scanNumberFast ends where parseNumber does.
LEMMA NumberFast ==
    ASSUME NEW src, Len(src) \in Nat, NEW i \in 0..(Len(src) - 1)
    PROVE  scanNumberFast(src, i) = EndOf(parseNumber(src, i))
  <1> DEFINE n == Len(src)
             k == IF At(src, i) = Minus THEN i + 1 ELSE i
             v == scanInteger(src, k)
             w == scanIntegerFast(src, k)
             d == SpanEnd(src, k, Digit)
             x == SpanEnd(src, k + 1, Digit)
  <1>1. scanNumber(src, i) = v /\ scanNumberFast(src, i) = w
    <2>1. Has(src, i, {Minus}) <=> At(src, i) = Minus BY DEF Has
    <2>. QED BY <2>1, NumberForms, FastNumberForms
  <1>2. k \in 0..n /\ k \in Nat OBVIOUS
  <1> HIDE DEF k
  <1>3. v = IF ~Has(src, k, Digit) THEN Fail(k, "invalid number")
            ELSE scanFraction(src, IF At(src, k) = Zero THEN k + 1 ELSE d)
    BY NumberForms
  <1>4. w = IF ~Has(src, k, Digit) THEN NoValue
            ELSE scanFractionFast(src, IF At(src, k) = Zero THEN k + 1 ELSE x)
    BY FastNumberForms
  <1>5. EndOf(Fail(k, "invalid number")) = NoValue
    BY <1>2, NumberRefusals, EndOfRefusal, Zenon
  <1>6. ASSUME Has(src, k, Digit) PROVE d = x /\ d \in 0..n /\ k + 1 \in 0..n
    <2>1. k \in 0..(n - 1) /\ At(src, k) \in Digit BY <1>2, <1>6 DEF Has
    <2>2. d = x /\ d \in (k + 1)..n BY <2>1, SpanGoesOn
    <2> HIDE DEF d, x
    <2>. QED BY <2>1, <2>2
  <1> HIDE DEF v, w, d, x
  <1>7. EndOf(v) = w
    <2>1. CASE ~Has(src, k, Digit) BY <1>3, <1>4, <1>5, <2>1
    <2>2. CASE Has(src, k, Digit) /\ At(src, k) = Zero
      <3>1. v = scanFraction(src, k + 1) /\ w = scanFractionFast(src, k + 1) /\ k + 1 \in 0..n
        BY <1>3, <1>4, <1>6, <2>2
      <3>. QED BY <3>1, FractionFast
    <2>3. CASE Has(src, k, Digit) /\ At(src, k) # Zero
      <3>1. v = scanFraction(src, d) /\ w = scanFractionFast(src, d) /\ d \in 0..n
        BY <1>3, <1>4, <1>6, <2>3
      <3>. QED BY <3>1, FractionFast
    <2>. QED BY <2>1, <2>2, <2>3
  <1>8. EndOf(parseNumber(src, i)) = EndOf(v)
    <2> DEFINE p == parseNumber(src, i)
    <2>1. p = IF IsError(v) THEN Fail(i, v.msg) ELSE v BY <1>1 DEF parseNumber
    <2>2. IsError(v) => IsError(Fail(i, v.msg)) BY DEF IsError, Fail
    <2>. QED BY <2>1, <2>2 DEF EndOf
  <1>. QED BY <1>1, <1>7, <1>8

\* A literal of the fast validator ends where parseLiteral does.
LEMMA LiteralFast ==
    ASSUME NEW src, NEW i \in Nat, NEW w \in Words
    PROVE  literalFast(src, i, w) = EndOf(parseLiteral(src, i, w))
  <1>1. Len(w) \in Nat BY WordsAre DEF Words
  <1>2. EndOf(Done(i + Len(w))) = i + Len(w) BY <1>1, EndOfDone
  <1>3. Refusal(Fail(i, "invalid literal")) BY FailIs, Zenon DEF Messages
  <1>4. EndOf(Fail(i, "invalid literal")) = NoValue BY <1>3, EndOfRefusal, Zenon
  <1>. QED BY <1>2, <1>4, Zenon DEF literalFast, parseLiteral

\* unicodeEscapeEnd finds the end of the \u escape whose backslash is at j.
LEMMA UnicodeEndIs ==
    ASSUME NEW src, Len(src) \in Nat, NEW j \in Nat
    PROVE  /\ OneUnit(src, j + 1) => unicodeEscapeEnd(src, j) = j + 6
           /\ TwoUnits(src, j + 1) => unicodeEscapeEnd(src, j) = j + 12
           /\ ~OneUnit(src, j + 1) /\ ~TwoUnits(src, j + 1) => unicodeEscapeEnd(src, j) = NoValue
  <1> DEFINE h == Hex4(src, j + 2)
             s == IsHighSurrogate(src, j + 2)
             l == IsLowSurrogate(src, j + 2)
             g == Hex4(src, j + 8) /\ IsLowSurrogate(src, j + 8)
             m == MatchAt(src, j + 6, <<"\\", "u">>)
             fits == j + 12 <= Len(src)
             v == unicodeEscapeEnd(src, j)
  <1>1. /\ (j + 1) + 1 = j + 2 /\ (j + 1) + 5 = j + 6 /\ (j + 1) + 6 = j + 7 /\ (j + 1) + 7 = j + 8
        /\ (j + 6) + 1 = j + 7 /\ (j + 6) + 2 = j + 8 /\ j + 6 \in Nat
    OBVIOUS
  <1>2. OneUnit(src, j + 1) <=> h /\ ~s /\ ~l BY <1>1, Zenon DEF OneUnit
  <1>3. m <=> (j + 8 <= Len(src) /\ At(src, j + 6) = Backslash /\ At(src, j + 7) = "u")
    BY <1>1, MatchTwo DEF Backslash
  <1>4. Hex4(src, j + 8) => j + 8 <= Len(src) /\ fits BY DEF Hex4
  <1>5. TwoUnits(src, j + 1) <=> h /\ s /\ m /\ g /\ fits
    <2>1. TwoUnits(src, j + 1) <=> /\ Hex4(src, j + 2) /\ IsHighSurrogate(src, j + 2)
                                   /\ At(src, j + 6) = Backslash /\ At(src, j + 7) = "u"
                                   /\ Hex4(src, j + 8) /\ IsLowSurrogate(src, j + 8)
      BY <1>1, Zenon DEF TwoUnits
    <2> HIDE DEF m, fits
    <2>. QED BY <1>3, <1>4, <2>1
  <1>6. ~(s /\ l) BY Zenon DEF IsHighSurrogate, IsLowSurrogate
  <1>7. v = IF ~h \/ l THEN NoValue
            ELSE IF ~s THEN j + 6
            ELSE IF fits /\ m /\ g THEN j + 12 ELSE NoValue
    BY Zenon DEF unicodeEscapeEnd
  <1> HIDE DEF h, s, l, g, m, fits, v
  <1>8. /\ OneUnit(src, j + 1) => v = j + 6
        /\ TwoUnits(src, j + 1) => v = j + 12
        /\ ~OneUnit(src, j + 1) /\ ~TwoUnits(src, j + 1) => v = NoValue
    BY <1>2, <1>5, <1>6, <1>7
  <1>. QED BY <1>8 DEF v

\* The string goes on at e after the byte at j: B is any scan.
GoesOnFast(src, j, e) ==
    /\ e \in (j + 1)..Len(src) /\ IsChar(src, j, e)
    /\ \A f : IsChar(src, j, f) => f = e
    /\ \A B : specialFast(src, B, j) = B[e]

\* The string cannot go on at j.
StopsFast(src, j) ==
    /\ \A e \in (j + 1)..Len(src) : ~IsChar(src, j, e)
    /\ \A B : specialFast(src, B, j) = NoValue

\* What the fast validator does at the backslash of an escape.
LEMMA EscapeFast ==
    ASSUME NEW src, Len(src) \in Nat, NEW j \in Nat, j < Len(src), At(src, j) = Backslash
    PROVE  (\E e : GoesOnFast(src, j, e)) \/ StopsFast(src, j)
  <1> DEFINE n == Len(src)
             u == unicodeEscapeEnd(src, j)
             simple == Has(src, j + 1, Escapable)
             unicode == Has(src, j + 1, {"u"})
  <1>1. ~(j >= n) OBVIOUS
  <1>2. At(src, j) # Quote BY Zenon DEF Quote, Backslash
  <1>3. \A e : IsChar(src, j, e) <=> Escape(src, j, e) BY EscapeIsChar
  <1>4. \A B : specialFast(src, B, j) = IF simple THEN B[j + 2]
                                        ELSE IF unicode THEN continueStringFast(B, u)
                                        ELSE NoValue
    BY <1>1, <1>2, Zenon DEF specialFast, Quote, Backslash
  <1>5. /\ simple <=> j + 1 < n /\ At(src, j + 1) \in Escapable
        /\ unicode <=> j + 1 < n /\ At(src, j + 1) = "u"
    BY Zenon DEF Has
  <1>6. ~(At(src, j + 1) \in Escapable /\ At(src, j + 1) = "u")
    BY Zenon DEF Escapable
  <1>7. \A e, f : Escape(src, j, e) /\ Escape(src, j, f) => e = f
    BY EscapeUnique
  <1>8. /\ OneUnit(src, j + 1) => u = j + 6
        /\ TwoUnits(src, j + 1) => u = j + 12
        /\ ~OneUnit(src, j + 1) /\ ~TwoUnits(src, j + 1) => u = NoValue
    BY UnicodeEndIs
  <1>9. /\ OneUnit(src, j + 1) => j + 6 \in (j + 1)..n
        /\ TwoUnits(src, j + 1) => j + 12 \in (j + 1)..n
    <2>1. (j + 1) + 1 = j + 2 /\ (j + 1) + 7 = j + 8 OBVIOUS
    <2>2. OneUnit(src, j + 1) => (j + 2) + 4 <= n BY <2>1 DEF OneUnit, Hex4
    <2>3. TwoUnits(src, j + 1) => (j + 8) + 4 <= n BY <2>1 DEF TwoUnits, Hex4
    <2>. QED BY <2>2, <2>3
  <1> HIDE DEF u
  <1>10. NoValue # j + 6 /\ NoValue # j + 12 BY DEF NoValue
  <1>11. CASE simple
    <2>1. j + 2 \in (j + 1)..n BY <1>5, <1>11
    <2>2. Escape(src, j, j + 2) BY <1>5, <1>11 DEF Escape
    <2>3. \A B : specialFast(src, B, j) = B[j + 2] BY <1>4, <1>11
    <2>4. GoesOnFast(src, j, j + 2)
      BY <1>3, <1>7, <2>1, <2>2, <2>3 DEF GoesOnFast
    <2>. QED BY <2>4
  <1>12. CASE unicode
    <2>1. At(src, j + 1) = "u" /\ ~simple BY <1>5, <1>6, <1>12
    <2>2. \A B : specialFast(src, B, j) = continueStringFast(B, u)
      BY <1>4, <1>12, <2>1
    <2>3. ASSUME NEW e, e = u, e \in (j + 1)..n, e # NoValue, Escape(src, j, e) PROVE GoesOnFast(src, j, e)
      <3>1. \A B : specialFast(src, B, j) = B[e]
        BY <2>2, <2>3 DEF continueStringFast
      <3>. QED BY <1>3, <1>7, <2>3, <3>1 DEF GoesOnFast
    <2>4. CASE OneUnit(src, j + 1)
      <3>1. Escape(src, j, j + 6) BY <2>1, <2>4 DEF Escape
      <3>. QED BY <1>8, <1>9, <1>10, <2>3, <2>4, <3>1
    <2>5. CASE TwoUnits(src, j + 1)
      <3>1. Escape(src, j, j + 12) BY <2>1, <2>5 DEF Escape
      <3>. QED BY <1>8, <1>9, <1>10, <2>3, <2>5, <3>1
    <2>6. CASE ~OneUnit(src, j + 1) /\ ~TwoUnits(src, j + 1)
      <3>1. \A B : specialFast(src, B, j) = NoValue
        BY <1>8, <2>2, <2>6 DEF continueStringFast
      <3>2. \A e : ~Escape(src, j, e) BY <1>6, <2>1, <2>6 DEF Escape
      <3>. QED BY <1>3, <3>1, <3>2 DEF StopsFast
    <2>. QED BY <2>4, <2>5, <2>6
  <1>13. CASE ~simple /\ ~unicode
    <2>1. \A B : specialFast(src, B, j) = NoValue BY <1>4, <1>13
    <2>2. ASSUME NEW e \in (j + 1)..n, Escape(src, j, e) PROVE FALSE
      <3>1. e # j + 1 BY <2>2 DEF Escape
      <3>2. j + 1 < n BY <3>1
      <3>. QED BY <1>5, <1>13, <2>2, <3>2 DEF Escape
    <2>. QED BY <1>3, <2>1, <2>2 DEF StopsFast
  <1>. QED BY <1>11, <1>12, <1>13

\* What it does at any special byte.
LEMMA SpecialFastIs ==
    ASSUME NEW src, Len(src) \in Nat, NEW j \in 0..Len(src), j = Len(src) \/ At(src, j) \in StringSpecial
    PROVE  \/ j < Len(src) /\ At(src, j) = Quote /\ \A B : specialFast(src, B, j) = j + 1
           \/ ~(j < Len(src) /\ At(src, j) = Quote) /\ \E e : GoesOnFast(src, j, e)
           \/ ~(j < Len(src) /\ At(src, j) = Quote) /\ StopsFast(src, j)
  <1> DEFINE n == Len(src)
  <1>2. CASE j = n
    <2>1. j >= n /\ ~(j < n) /\ \A e \in (j + 1)..n : FALSE BY <1>2
    <2>2. \A B : specialFast(src, B, j) = NoValue BY <2>1, Zenon DEF specialFast
    <2>3. StopsFast(src, j) BY <2>1, <2>2 DEF StopsFast
    <2>. QED BY <2>1, <2>3
  <1>3. CASE j < n /\ At(src, j) = Quote
    <2>1. ~(j >= n) BY <1>3
    <2>2. \A B : specialFast(src, B, j) = j + 1
      BY <1>3, <2>1, Zenon DEF specialFast, Quote
    <2>. QED BY <1>3, <2>2
  <1>4. CASE j < n /\ At(src, j) = Backslash
    <2>1. At(src, j) # Quote BY <1>4, Zenon DEF Quote, Backslash
    <2>2. j \in Nat OBVIOUS
    <2>. QED BY <1>4, <2>1, <2>2, EscapeFast
  <1>5. CASE j < n /\ At(src, j) \in Control
    <2>1. ~(j >= n) BY <1>5
    <2>2. At(src, j) # Quote /\ At(src, j) # Backslash
      BY <1>5, Zenon DEF Quote, Backslash, Control
    <2>3. \A B : specialFast(src, B, j) = NoValue
      BY <1>5, <2>1, <2>2, Zenon DEF specialFast, Quote, Backslash
    <2>4. \A e : ~IsChar(src, j, e)
      <3>1. At(src, j) # "C2" BY <1>5, Zenon DEF Control
      <3>2. At(src, j) \in {"\"", "\\"} \cup Control \cup NonASCII
        BY <1>5, Zenon
      <3>. QED BY <2>2, <3>1, <3>2, Zenon DEF IsChar, Backslash
    <2>. QED BY <2>2, <2>3, <2>4 DEF StopsFast
  <1>6. CASE j < n /\ At(src, j) \in NonASCII
    <2> DEFINE next == scanStringUnicodeRun(src, j)
               rune == j + 2 <= n /\ At(src, j) = Rune /\ At(src, j + 1) = "80"
    <2>1. ~(j >= n) /\ j \in Nat /\ j + 2 # j /\ (j + 2 <= n => j + 2 \in (j + 1)..n)
          /\ \A e \in (j + 1)..n : e = j + 2 => j + 2 <= n
      BY <1>6
    <2>2. /\ At(src, j) # Quote /\ At(src, j) # Backslash /\ At(src, j) \notin Control
          /\ \A e : IsChar(src, j, e) <=> e = j + 2 /\ At(src, j) = Rune /\ At(src, j + 1) = "80"
          /\ next = IF rune THEN j + 2 ELSE j
      BY <1>6, <2>1, RuneIs
    <2> HIDE DEF next
    <2>3. \A B : specialFast(src, B, j) = IF next = j THEN NoValue ELSE B[next]
      BY <2>1, <2>2, Zenon DEF specialFast, Quote, Backslash, next
    <2>4. CASE rune
      <3>1. GoesOnFast(src, j, j + 2) BY <2>1, <2>2, <2>3, <2>4 DEF GoesOnFast
      <3>. QED BY <2>2, <3>1
    <2>5. CASE ~rune
      <3>1. StopsFast(src, j) BY <2>1, <2>2, <2>3, <2>5 DEF StopsFast
      <3>. QED BY <2>2, <3>1
    <2>. QED BY <2>4, <2>5
  <1>7. At(src, j) \in StringSpecial => \/ At(src, j) = Quote \/ At(src, j) = Backslash
                                       \/ At(src, j) \in Control \/ At(src, j) \in NonASCII
    BY Zenon DEF StringSpecial, Quote, Backslash
  <1>8. j = n \/ j < n OBVIOUS
  <1>. QED BY <1>2, <1>3, <1>4, <1>5, <1>6, <1>7, <1>8

\* A special byte is found where it is.
LEMMA SpecialHere ==
    ASSUME NEW src, Len(src) \in Nat, NEW k \in 0..Len(src), k = Len(src) \/ At(src, k) \in StringSpecial
    PROVE  scanStringSpecial(src, k) = k
  <1>1. k \in k..Len(src) /\ \A x \in k..(k - 1) : At(src, x) \notin StringSpecial
    OBVIOUS
  <1>. QED BY <1>1, SpecialUnique

\* It is also found from every offset in front of it.
LEMMA SpecialAhead ==
    ASSUME NEW src, Len(src) \in Nat, NEW a \in 0..Len(src), NEW b \in a..scanStringSpecial(src, a)
    PROVE  scanStringSpecial(src, b) = scanStringSpecial(src, a) /\ b \in 0..Len(src)
  <1> DEFINE j == scanStringSpecial(src, a)
  <1>1. /\ j \in a..Len(src)
        /\ \A x \in a..(j - 1) : At(src, x) \notin StringSpecial
        /\ j = Len(src) \/ At(src, j) \in StringSpecial
    BY SpecialIs
  <1>2. b \in a..j OBVIOUS
  <1> HIDE DEF j
  <1>3. b \in 0..Len(src) /\ j \in b..Len(src) /\ \A x \in b..(j - 1) : x \in a..(j - 1)
    BY <1>1, <1>2
  <1>4. scanStringSpecial(src, b) = j BY <1>1, <1>3, SpecialUnique
  <1>. QED BY <1>3, <1>4 DEF j

\* A scan says the same of two places with the same special byte ahead.
LEMMA ScanSame ==
    ASSUME NEW src, NEW E, Scans(src, E), NEW a \in 0..Len(src), NEW b \in 0..Len(src),
           scanStringSpecial(src, a) = scanStringSpecial(src, b)
    PROVE  E[a] = E[b]
  <1> DEFINE j == scanStringSpecial(src, a)
  <1>1. scanStringSpecial(src, a) = j /\ scanStringSpecial(src, b) = j OBVIOUS
  <1> HIDE DEF j
  <1>2. CASE j < Len(src) /\ At(src, j) = Quote BY <1>1, <1>2, ScansAt
  <1>3. CASE ~(j < Len(src) /\ At(src, j) = Quote)
    <2>1. /\ \A e \in (j + 1)..Len(src) : IsChar(src, j, e) => E[a] = E[e] /\ E[b] = E[e]
          /\ (\A e \in (j + 1)..Len(src) : ~IsChar(src, j, e)) => E[a] = NoValue /\ E[b] = NoValue
      BY <1>1, <1>3, ScansAt
    <2>. QED BY <2>1
  <1>. QED BY <1>2, <1>3

\* One turn of scanJSONStringFastFrom at k.
StringTurn(src, B, k) ==
    IF k + 6 <= Len(src) /\ MatchAt(src, k, <<"\\", "u">>)
    THEN continueStringFast(B, unicodeEscapeEnd(src, k))
    ELSE specialFast(src, B, IF Has(src, k, {"\\"}) THEN k ELSE scanStringSpecial(src, k))

\* The loop for runs of \u escapes does what the turn does anyway.
LEMMA StringTurnIs ==
    ASSUME NEW src, Len(src) \in Nat, NEW k \in 0..Len(src), NEW B
    PROVE  StringTurn(src, B, k) = specialFast(src, B, scanStringSpecial(src, k))
  <1> DEFINE n == Len(src)
             run == k + 6 <= n /\ MatchAt(src, k, <<"\\", "u">>)
             slash == Has(src, k, {"\\"})
             u == unicodeEscapeEnd(src, k)
  <1>1. slash <=> k < n /\ At(src, k) = Backslash BY Zenon DEF Has, Backslash
  <1>2. run => k < n /\ k + 1 < n /\ At(src, k) = Backslash /\ At(src, k + 1) = "u"
    <2>1. MatchAt(src, k, <<"\\", "u">>) => At(src, k) = Backslash /\ At(src, k + 1) = "u"
      BY MatchTwo DEF Backslash
    <2>2. k + 6 <= n => k < n /\ k + 1 < n OBVIOUS
    <2>. QED BY <2>1, <2>2
  <1>3. slash => scanStringSpecial(src, k) = k
    <2>1. Backslash \in StringSpecial BY Zenon DEF Backslash, StringSpecial
    <2>. QED BY <1>1, <2>1, SpecialHere
  <1>4. StringTurn(src, B, k) = IF run THEN continueStringFast(B, u)
                                ELSE specialFast(src, B, IF slash THEN k ELSE scanStringSpecial(src, k))
    BY Zenon DEF StringTurn
  <1>5. ASSUME run PROVE specialFast(src, B, k) = continueStringFast(B, u)
    <2>1. ~(k >= n) /\ At(src, k) # Quote /\ At(src, k) = Backslash
      <3>1. Backslash # Quote BY Zenon DEF Backslash, Quote
      <3>. QED BY <1>2, <1>5, <3>1
    <2>2. ~Has(src, k + 1, Escapable) /\ Has(src, k + 1, {"u"})
      <3>1. k + 1 < n /\ At(src, k + 1) = "u" BY <1>2, <1>5
      <3>. QED BY <3>1, Zenon DEF Has, Escapable
    <2>. QED BY <2>1, <2>2, Zenon DEF specialFast, Quote, Backslash
  <1>6. run => slash BY <1>1, <1>2
  <1> HIDE DEF run, slash, u
  <1>. QED BY <1>3, <1>4, <1>5, <1>6

\* It satisfies the equations of a scan, of which B is the rest.
LEMMA StringTurnScans ==
    ASSUME NEW src, Len(src) \in Nat, NEW k \in 0..Len(src), NEW B, NEW j, j = scanStringSpecial(src, k)
    PROVE  /\ j < Len(src) /\ At(src, j) = Quote => StringTurn(src, B, k) = j + 1
           /\ ~(j < Len(src) /\ At(src, j) = Quote) =>
                /\ \A e \in (j + 1)..Len(src) : IsChar(src, j, e) => StringTurn(src, B, k) = B[e]
                /\ (\A e \in (j + 1)..Len(src) : ~IsChar(src, j, e)) => StringTurn(src, B, k) = NoValue
  <1> DEFINE quoted == j < Len(src) /\ At(src, j) = Quote
  <1>1. j \in 0..Len(src) /\ (j = Len(src) \/ At(src, j) \in StringSpecial)
    <2> DEFINE i == scanStringSpecial(src, k)
    <2>1. i \in k..Len(src) /\ (i = Len(src) \/ At(src, i) \in StringSpecial)
      BY SpecialIs
    <2> HIDE DEF i
    <2>2. i \in 0..Len(src) BY <2>1
    <2>. QED BY <2>1, <2>2 DEF i
  <1>2. StringTurn(src, B, k) = specialFast(src, B, j) BY StringTurnIs
  <1>3. \/ quoted /\ \A C : specialFast(src, C, j) = j + 1
        \/ ~quoted /\ \E e : GoesOnFast(src, j, e)
        \/ ~quoted /\ StopsFast(src, j)
    BY <1>1, SpecialFastIs
  <1>. QED BY <1>2, <1>3 DEF GoesOnFast, StopsFast

\* The scan that scanJSONStringFastFrom is.
FastScan(src) == CHOOSE B : B = [k \in 0..Len(src) |-> StringTurn(src, B, k)]

\* The ends of parseString's verdicts satisfy its equation, and what satisfies it is a scan.
LEMMA FastScanIs ==
    ASSUME NEW src, Len(src) \in Nat
    PROVE  Scans(src, FastScan(src)) /\ \A i : scanJSONStringFastFrom(src, i) = FastScan(src)[i]
  <1> DEFINE n == Len(src)
             E == StringEnds(src)
             G(B) == [k \in 0..n |-> StringTurn(src, B, k)]
             C == FastScan(src)
  <1>1. ASSUME NEW k \in 0..n PROVE StringTurn(src, E, k) = E[k]
    <2> DEFINE j == scanStringSpecial(src, k)
               quoted == j < n /\ At(src, j) = Quote
    <2>1. Scans(src, E) BY StringEndsScan
    <2> HIDE DEF E
    <2>2. scanStringSpecial(src, k) = j OBVIOUS
    <2> HIDE DEF j
    <2>3. /\ quoted => StringTurn(src, E, k) = j + 1
          /\ ~quoted => /\ \A e \in (j + 1)..n : IsChar(src, j, e) => StringTurn(src, E, k) = E[e]
                        /\ (\A e \in (j + 1)..n : ~IsChar(src, j, e)) => StringTurn(src, E, k) = NoValue
      BY <2>2, StringTurnScans
    <2>4. /\ quoted => E[k] = j + 1
          /\ ~quoted => /\ \A e \in (j + 1)..n : IsChar(src, j, e) => E[k] = E[e]
                        /\ (\A e \in (j + 1)..n : ~IsChar(src, j, e)) => E[k] = NoValue
      BY <2>1, <2>2, ScansAt
    <2>. QED BY <2>3, <2>4
  <1>2. E = G(E)
    <2>1. E = [k \in 0..n |-> E[k]] BY DEF StringEnds
    <2> HIDE DEF E
    <2>. QED BY <1>1, <2>1
  <1>3. C = G(C)
    <2>1. \E B : B = G(B)
      <3> HIDE DEF E, G
      <3>. QED BY <1>2
    <2>. QED BY <2>1 DEF FastScan
  <1>4. \A i : scanJSONStringFastFrom(src, i) = C[i]
    BY DEF scanJSONStringFastFrom, FastScan, StringTurn
  <1> HIDE DEF C
  <1>5. \A k \in 0..n : C[k] = StringTurn(src, C, k) BY <1>3
  <1> HIDE DEF G
  <1>6. Scans(src, C)
    <2> SUFFICES ASSUME NEW k \in 0..n
                 PROVE  LET j == scanStringSpecial(src, k)
                        IN  IF j < n /\ At(src, j) = Quote THEN C[k] = j + 1
                            ELSE /\ \A e \in (j + 1)..n : IsChar(src, j, e) => C[k] = C[e]
                                 /\ (\A e \in (j + 1)..n : ~IsChar(src, j, e)) => C[k] = NoValue
      BY DEF Scans
    <2>. QED BY <1>5, StringTurnScans
  <1>. QED BY <1>4, <1>6 DEF C

\* The word probes of validStringFast skip only what the scan skips.
LEMMA ValidStringScans ==
    ASSUME NEW src, Len(src) \in Nat, NEW i \in 0..(Len(src) - 1)
    PROVE  validStringFast(src, i) = FastScan(src)[i + 1]
  <1> DEFINE n == Len(src)
             W == WordBytes
             a == i + 1
             C == FastScan(src)
             special(k) == scanStringSpecial(src, k)
             p == special(a)
             b == a + W
             c == IF a + 2 * W <= n /\ special(b) >= b + W THEN a + 2 * W ELSE b
             clean == p >= a + W
             fits == a + W <= n
             probe == IF clean THEN special(c) ELSE p
  <1>1. W \in Nat \ {0} /\ a \in 0..n /\ a \in Nat BY WordBytesAssumption
  <1>2. validStringFast(src, i) =
          IF fits /\ Has(src, probe, {Quote}) THEN probe + 1
          ELSE scanJSONStringFastFrom(src, IF fits /\ clean THEN probe ELSE a)
    BY Zenon DEF validStringFast, Quote
  <1>3. Scans(src, C) /\ \A k : scanJSONStringFastFrom(src, k) = C[k]
    BY FastScanIs
  <1> HIDE DEF C
  <1>4. p \in a..n BY <1>1, SpecialIs
  <1>5. \A k \in a..p : special(k) = p /\ k \in 0..n BY <1>1, SpecialAhead
  <1> HIDE DEF p
  <1>6. ASSUME fits, clean PROVE special(c) = p
    <2>1. b \in a..p BY <1>1, <1>4, <1>6
    <2>2. special(b) = p BY <1>5, <2>1
    <2>3. c \in a..p BY <1>1, <1>4, <2>1, <2>2
    <2>. QED BY <1>5, <2>3
  <1>7. fits => probe = p BY <1>6
  <1> HIDE DEF probe, special
  <1>8. CASE fits /\ Has(src, p, {Quote})
    <2>1. validStringFast(src, i) = p + 1 BY <1>2, <1>7, <1>8
    <2>2. p < n /\ At(src, p) = Quote BY <1>8 DEF Has
    <2>3. scanStringSpecial(src, a) = p BY DEF p, special
    <2>4. C[a] = p + 1 BY <1>1, <1>3, <2>2, <2>3, ScansAt
    <2>. QED BY <2>1, <2>4 DEF C
  <1>9. CASE fits /\ clean /\ ~Has(src, p, {Quote})
    <2>1. validStringFast(src, i) = C[p] BY <1>2, <1>3, <1>7, <1>9
    <2>2. scanStringSpecial(src, p) = scanStringSpecial(src, a) /\ p \in 0..n
      <3>1. p \in a..p BY <1>1, <1>4
      <3>2. special(p) = p /\ p \in 0..n BY <1>5, <3>1
      <3>. QED BY <3>2 DEF p, special
    <2>3. C[p] = C[a] BY <1>1, <1>3, <2>2, ScanSame
    <2>. QED BY <2>1, <2>3 DEF C
  <1>10. CASE ~(fits /\ Has(src, p, {Quote})) /\ ~(fits /\ clean)
    <2>1. validStringFast(src, i) = C[a] BY <1>2, <1>3, <1>7, <1>10
    <2>. QED BY <2>1 DEF C
  <1>. QED BY <1>8, <1>9, <1>10

\* validStringFast ends where parseString does.
LEMMA StringFast ==
    ASSUME NEW src, Len(src) \in Nat, NEW i \in 0..(Len(src) - 1), At(src, i) = Quote
    PROVE  validStringFast(src, i) = EndOf(parseString(src, i))
  <1> DEFINE n == Len(src)
             C == FastScan(src)
             v == parseString(src, i)
             e == C[i + 1]
  <1>1. i \in Nat /\ i < n OBVIOUS
  <1>2. Scans(src, C) BY FastScanIs
  <1>3. validStringFast(src, i) = e BY ValidStringScans
  <1>4. \/ \E j \in (i + 2)..n : IsString(src, i, j) /\ v = Done(j)
        \/ Refusal(v) /\ \A k \in 0..n : ~IsString(src, i, k)
    BY <1>1, ParseStringIs
  <1> HIDE DEF v, C
  <1>5. ASSUME NEW j \in (i + 2)..n, IsString(src, i, j), v = Done(j) PROVE e = EndOf(v)
    <2>1. j \in 0..n /\ j \in Nat BY <1>1
    <2>2. e = j BY <1>1, <1>2, <1>5, <2>1, ScanFindsString
    <2>3. EndOf(Done(j)) = j BY <2>1, EndOfDone
    <2>. QED BY <1>5, <2>2, <2>3
  <1>6. ASSUME Refusal(v), \A k \in 0..n : ~IsString(src, i, k) PROVE e = EndOf(v)
    <2>1. e = NoValue
      <3> SUFFICES ASSUME e # NoValue PROVE FALSE
        OBVIOUS
      <3>1. e \in (i + 2)..n /\ IsString(src, i, e) BY <1>1, <1>2, ScanIsString
      <3> HIDE DEF e
      <3>2. e \in 0..n BY <1>1, <3>1
      <3>. QED BY <1>6, <3>1, <3>2
    <2>. QED BY <1>6, <2>1, EndOfRefusal
  <1>. QED BY <1>3, <1>4, <1>5, <1>6 DEF v

-----------------------------------------------------------------------------
(***************************************************************************)
(* The values of the fast validator.  Its elements and members begin at a  *)
(* byte that is not white space, one level above Validator's.              *)
(***************************************************************************)

\* V says of the values from i on what Validator says.
KnowsValues(src, V, i) ==
    \A x \in 0..(Len(src) - 1), d \in 0..MaxDepth :
       x >= i => V[<<"value", x, d>>] = Ends(src)[<<"value", x, d>>]

\* The same of the elements and the members from i on.
KnowsRuns(src, V, i) ==
    \A r \in {"elements", "members"}, x \in 0..(Len(src) - 1), d \in 0..(MaxDepth - 1) :
       x >= i /\ At(src, x) \notin Space => V[<<r, x, d>>] = Ends(src)[<<r, x, d + 1>>]

\* Nothing begins at the end of the text.
LEMMA EndsNowhere ==
    ASSUME NEW src, Len(src) \in Nat, NEW r \in {"value", "elements", "members"}, NEW d \in 0..MaxDepth
    PROVE  Ends(src)[<<r, Len(src), d>>] = NoValue
  <1> DEFINE n == Len(src)
             v == Parser(src)[<<r, n, d>>]
  <1>1. n \in 0..n /\ (n + 1)..n = {} OBVIOUS
  <1>2. Ends(src)[<<r, n, d>>] = EndOf(v) /\ Reaches(src, n, v) BY <1>1, EndsAre
  <1> HIDE DEF v
  <1>. QED BY <1>1, <1>2 DEF Reaches, EndOf

\* A value ends after its first byte, and no value begins with white space.
LEMMA ValueReach ==
    ASSUME NEW src, Len(src) \in Nat, NEW i \in 0..(Len(src) - 1), NEW d \in 0..MaxDepth,
           NEW e, e = Ends(src)[<<"value", i, d>>]
    PROVE  /\ e = NoValue \/ e \in (i + 1)..Len(src)
           /\ At(src, i) \in Space => e = NoValue
  <1> DEFINE n == Len(src)
             v == Parser(src)[<<"value", i, d>>]
  <1>1. i \in 0..n /\ i < n /\ i \in Nat OBVIOUS
  <1>2. e = EndOf(v) /\ Reaches(src, i, v) /\ v = Parse(src, Parser(src), <<"value", i, d>>)
    BY <1>1, EndsAre
  <1> HIDE DEF v
  <1>3. e = NoValue \/ e \in (i + 1)..n BY <1>2 DEF Reaches, EndOf
  <1>4. ASSUME At(src, i) \in Space PROVE e = NoValue
    <2>1. NoStart(At(src, i))
      BY <1>4, Zenon DEF NoStart, Space, Quote, LBrace, Minus, Digit
    <2>2. ~(d > MaxDepth) /\ ~(i >= Len(src)) BY MaxDepthAssumption
    <2>3. parseValue(src, Parser(src), i, d) = Fail(i, Unexpected)
      BY <2>1, <2>2, DispatchOther, Zenon
    <2>4. Parse(src, Parser(src), <<"value", i, d>>) = parseValue(src, Parser(src), i, d)
      BY DEF Parse
    <2>5. EndOf(Fail(i, Unexpected)) = NoValue
      BY <1>1, FailIs, EndOfRefusal, Zenon DEF Messages, Unexpected
    <2>. QED BY <1>2, <2>3, <2>4, <2>5
  <1>. QED BY <1>3, <1>4

\* continueFast case by case.
LEMMA ContinueFastCases ==
    ASSUME NEW src, NEW V, NEW v, NEW d, NEW rule, NEW close,
           NEW j, j = SpanEnd(src, v, Space), NEW k, k = SpanEnd(src, j + 1, Space)
    PROVE  LET e == continueFast(src, V, v, d, rule, close)
           IN  /\ v = NoValue \/ j >= Len(src) => e = NoValue
               /\ ~(v = NoValue \/ j >= Len(src)) =>
                    /\ At(src, j) = Comma => e = IF k >= Len(src) THEN NoValue ELSE V[<<rule, k, d>>]
                    /\ At(src, j) # Comma /\ At(src, j) = close => e = j + 1
                    /\ At(src, j) # Comma /\ At(src, j) # close => e = NoValue
  <1> DEFINE e == continueFast(src, V, v, d, rule, close)
             stop == v = NoValue \/ j >= Len(src)
  <1>1. e = IF stop THEN NoValue
            ELSE IF At(src, j) = Comma THEN (IF k >= Len(src) THEN NoValue ELSE V[<<rule, k, d>>])
            ELSE IF At(src, j) = close THEN j + 1
            ELSE NoValue
    BY Zenon DEF continueFast, nextSignificantFast, Comma
  <1> HIDE DEF e
  <1>2. stop => e = NoValue BY <1>1
  <1>3. ~stop =>
            /\ At(src, j) = Comma => e = IF k >= Len(src) THEN NoValue ELSE V[<<rule, k, d>>]
            /\ At(src, j) # Comma /\ At(src, j) = close => e = j + 1
            /\ At(src, j) # Comma /\ At(src, j) # close => e = NoValue
    BY <1>1
  <1>. QED BY <1>2, <1>3 DEF e

\* It goes on after the value that ends at v as Validator does.
LEMMA ContinueFastIs ==
    ASSUME NEW src, Len(src) \in Nat, NEW i \in 0..(Len(src) - 1), NEW d \in 0..(MaxDepth - 1), NEW V,
           KnowsRuns(src, V, i + 1), NEW v, v = NoValue \/ v \in (i + 1)..Len(src),
           NEW rule \in {"elements", "members"}, NEW close, NEW e,
           NextEnd(src, Ends(src), v, SpanEnd(src, v, Space), rule, close, d + 1, e)
    PROVE  continueFast(src, V, v, d, rule, close) = e
  <1> DEFINE n == Len(src)
             f == continueFast(src, V, v, d, rule, close)
             j == SpanEnd(src, v, Space)
             k == SpanEnd(src, j + 1, Space)
             R == Ends(src)
  <1>1. /\ v = NoValue \/ j >= n => f = NoValue
        /\ ~(v = NoValue \/ j >= n) =>
              /\ At(src, j) = Comma => f = IF k >= n THEN NoValue ELSE V[<<rule, k, d>>]
              /\ At(src, j) # Comma /\ At(src, j) = close => f = j + 1
              /\ At(src, j) # Comma /\ At(src, j) # close => f = NoValue
    BY ContinueFastCases
  <1>2. /\ v = NoValue => e = NoValue
        /\ v # NoValue /\ ~(j < n) => e = NoValue
        /\ v # NoValue /\ j < n /\ At(src, j) = Comma => e = R[<<rule, k, d + 1>>]
        /\ v # NoValue /\ j < n /\ At(src, j) # Comma /\ At(src, j) = close => e = j + 1
        /\ v # NoValue /\ j < n /\ At(src, j) # Comma /\ At(src, j) # close => e = NoValue
    BY DEF NextEnd
  <1>3. d + 1 \in 0..MaxDepth BY MaxDepthAssumption
  <1> HIDE DEF f, R
  <1>4. CASE v = NoValue BY <1>1, <1>2, <1>4 DEF f
  <1>5. CASE v # NoValue
    <2>1. v \in 0..n /\ v \in (i + 1)..n BY <1>5
    <2>2. j \in v..n BY <2>1, SpanEndIs
    <2>3. (j < n) => k \in (j + 1)..n /\ (k = n \/ At(src, k) \notin Space)
      <3> SUFFICES ASSUME j < n PROVE k \in (j + 1)..n /\ (k = n \/ At(src, k) \notin Space)
        OBVIOUS
      <3> HIDE DEF j
      <3>1. j + 1 \in 0..n BY <2>1, <2>2
      <3>. QED BY <3>1, SpanEndIs
    <2> HIDE DEF j, k
    <2>4. (j >= n) <=> ~(j < n) BY <2>1, <2>2
    <2>5. CASE j < n /\ At(src, j) = Comma
      <3>1. CASE k >= n
        <4>1. k = n BY <2>3, <2>5, <3>1
        <4>2. R[<<rule, n, d + 1>>] = NoValue BY <1>3, EndsNowhere DEF R
        <4>. QED BY <1>1, <1>2, <1>5, <2>4, <2>5, <3>1, <4>1, <4>2 DEF f
      <3>2. CASE ~(k >= n)
        <4>1. k \in 0..(n - 1) /\ k >= i + 1 /\ At(src, k) \notin Space
          BY <2>1, <2>2, <2>3, <2>5, <3>2
        <4>2. V[<<rule, k, d>>] = R[<<rule, k, d + 1>>] BY <4>1 DEF KnowsRuns, R
        <4>. QED BY <1>1, <1>2, <1>5, <2>4, <2>5, <3>2, <4>2 DEF f
      <3>. QED BY <3>1, <3>2
    <2>6. CASE ~(j < n /\ At(src, j) = Comma)
      BY <1>1, <1>2, <1>5, <2>4, <2>6 DEF f
    <2>. QED BY <2>5, <2>6
  <1>. QED BY <1>4, <1>5

\* The elements and members of R at a byte that is not white space.
LEMMA RunsAre ==
    ASSUME NEW src, Len(src) \in Nat, NEW i \in 0..(Len(src) - 1), At(src, i) \notin Space, NEW d \in 1..MaxDepth,
           NEW R, Recognises(src, R), NEW v, v = R[<<"value", i, d>>],
           NEW e, e = R[<<"elements", i, d>>], NEW m, m = R[<<"members", i, d>>]
    PROVE  /\ NextEnd(src, R, v, SpanEnd(src, v, Space), "elements", "]", d, e)
           /\ (\A q \in 0..Len(src) : ~IsString(src, i, q)) => m = NoValue
           /\ \A q \in 0..Len(src) : IsString(src, i, q) => NamedEnd(src, R, SpanEnd(src, q, Space), d, m)
  <1>1. i \in 0..Len(src) OBVIOUS
  <1>2. SpanEnd(src, i, Space) = i BY EmptySpan
  <1>3. EndsElements(src, R) /\ EndsMembers(src, R) BY DEF Recognises
  <1>4. NextEnd(src, R, v, SpanEnd(src, v, Space), "elements", "]", d, e)
    BY <1>1, <1>2, <1>3 DEF EndsElements
  <1>5. /\ (\A q \in 0..Len(src) : ~IsString(src, i, q)) => m = NoValue
        /\ \A q \in 0..Len(src) : IsString(src, i, q) => NamedEnd(src, R, SpanEnd(src, q, Space), d, m)
    BY <1>1, <1>2, <1>3 DEF EndsMembers
  <1>. QED BY <1>4, <1>5

\* Nothing goes on after what is not there.
LEMMA FastStopsAt ==
    ASSUME NEW src, NEW V, NEW d, NEW rule, NEW close
    PROVE  continueFast(src, V, NoValue, d, rule, close) = NoValue /\ memberFast(src, V, NoValue, d) = NoValue
  BY Zenon DEF continueFast, memberFast

\* elementsFast ends where parseElements does.
LEMMA ElementsFast ==
    ASSUME NEW src, Len(src) \in Nat, NEW i \in 0..(Len(src) - 1), NEW d \in 0..(MaxDepth - 1), NEW V,
           KnowsValues(src, V, i), KnowsRuns(src, V, i + 1)
    PROVE  /\ At(src, i) \in Space => elementsFast(src, V, i, d) = NoValue
           /\ At(src, i) \notin Space => elementsFast(src, V, i, d) = Ends(src)[<<"elements", i, d + 1>>]
  <1> DEFINE n == Len(src)
             R == Ends(src)
             v == R[<<"value", i, d + 1>>]
             w == elementsFast(src, V, i, d)
             e == R[<<"elements", i, d + 1>>]
             m == R[<<"members", i, d + 1>>]
  <1>1. d + 1 \in 0..MaxDepth /\ d + 1 \in 1..MaxDepth /\ i >= i
    BY MaxDepthAssumption
  <1>2. V[<<"value", i, d + 1>>] = v BY <1>1 DEF KnowsValues
  <1>3. w = continueFast(src, V, v, d, "elements", "]") BY <1>2 DEF elementsFast
  <1>4. (v = NoValue \/ v \in (i + 1)..n) /\ (At(src, i) \in Space => v = NoValue)
    BY <1>1, ValueReach
  <1>5. Recognises(src, R) BY ParserRecognises
  <1> HIDE DEF v, w, e, m, R
  <1>6. ASSUME At(src, i) \in Space PROVE w = NoValue
    <2>1. v = NoValue BY <1>4, <1>6
    <2>2. continueFast(src, V, v, d, "elements", "]") = NoValue
      BY <2>1, FastStopsAt
    <2>. QED BY <1>3, <2>2
  <1>7. ASSUME At(src, i) \notin Space PROVE w = e
    <2>1. NextEnd(src, R, v, SpanEnd(src, v, Space), "elements", "]", d + 1, e)
      BY <1>1, <1>5, <1>7, RunsAre DEF v, e, m
    <2>2. continueFast(src, V, v, d, "elements", "]") = e
      BY <1>4, <2>1, ContinueFastIs DEF R
    <2>. QED BY <1>3, <2>2
  <1>. QED BY <1>6, <1>7 DEF w, e, R

\* It goes on after the key that ends at q as Validator does.
LEMMA MemberFastIs ==
    ASSUME NEW src, Len(src) \in Nat, NEW i \in 0..(Len(src) - 1), NEW d \in 0..(MaxDepth - 1), NEW V,
           KnowsValues(src, V, i + 1), KnowsRuns(src, V, i + 1), NEW q \in (i + 1)..Len(src), NEW e,
           NamedEnd(src, Ends(src), SpanEnd(src, q, Space), d + 1, e)
    PROVE  memberFast(src, V, q, d) = e
  <1> DEFINE n == Len(src)
             R == Ends(src)
             k == SpanEnd(src, q, Space)
             x == SpanEnd(src, k + 1, Space)
             v == R[<<"value", x, d + 1>>]
             w == memberFast(src, V, q, d)
  <1>1. /\ q = NoValue => w = NoValue
        /\ q # NoValue /\ ~(k < n /\ At(src, k) = Colon) => w = NoValue
        /\ q # NoValue /\ k < n /\ At(src, k) = Colon =>
             w = IF x >= n THEN NoValue ELSE continueFast(src, V, V[<<"value", x, d + 1>>], d, "members", RBrace)
    <2> DEFINE c == continueFast(src, V, V[<<"value", x, d + 1>>], d, "members", RBrace)
    <2>1. w = IF q = NoValue THEN NoValue ELSE IF ~Has(src, k, {Colon}) \/ x >= n THEN NoValue ELSE c
      BY Zenon DEF memberFast, nextSignificantFast, Colon, RBrace
    <2>2. Has(src, k, {Colon}) <=> k < n /\ At(src, k) = Colon BY Zenon DEF Has
    <2> HIDE DEF w, c, k, x
    <2>3. /\ q = NoValue => w = NoValue
          /\ q # NoValue /\ ~(k < n /\ At(src, k) = Colon) => w = NoValue
          /\ q # NoValue /\ k < n /\ At(src, k) = Colon => w = IF x >= n THEN NoValue ELSE c
      BY <2>1, <2>2
    <2>. QED BY <2>3 DEF c
  <1>2. q # NoValue /\ q \in 0..n BY DEF NoValue
  <1>3. /\ ~(k < n /\ At(src, k) = Colon) => e = NoValue
        /\ k < n /\ At(src, k) = Colon => NextEnd(src, R, v, SpanEnd(src, v, Space), "members", RBrace, d + 1, e)
    BY DEF NamedEnd
  <1>4. k \in q..n BY <1>2, SpanEndIs
  <1>5. d + 1 \in 0..MaxDepth BY MaxDepthAssumption
  <1> HIDE DEF w, k, v, R
  <1>6. CASE ~(k < n /\ At(src, k) = Colon) BY <1>1, <1>2, <1>3, <1>6 DEF w
  <1>7. CASE k < n /\ At(src, k) = Colon
    <2>1. k + 1 \in 0..n BY <1>2, <1>4, <1>7
    <2>2. x \in (k + 1)..n BY <2>1, SpanEndIs
    <2> HIDE DEF x
    <2>3. NextEnd(src, R, v, SpanEnd(src, v, Space), "members", RBrace, d + 1, e)
      BY <1>3, <1>7
    <2>4. CASE x >= n
      <3>1. x = n BY <2>1, <2>2, <2>4
      <3>2. v = NoValue BY <1>5, <3>1, EndsNowhere DEF v, R
      <3>3. e = NoValue BY <2>3, <3>2 DEF NextEnd
      <3>. QED BY <1>1, <1>2, <1>7, <2>4, <3>3 DEF w
    <2>5. CASE ~(x >= n)
      <3>1. x \in 0..(n - 1) /\ x >= i + 1 BY <1>2, <1>4, <2>1, <2>2, <2>5
      <3>2. V[<<"value", x, d + 1>>] = v BY <1>5, <3>1 DEF KnowsValues, v, R
      <3>3. v = NoValue \/ v \in (x + 1)..n BY <1>5, <3>1, ValueReach DEF v, R
      <3>4. v = NoValue \/ v \in (i + 1)..n BY <3>1, <3>3
      <3>5. continueFast(src, V, v, d, "members", RBrace) = e
        BY <2>3, <3>4, ContinueFastIs DEF R
      <3>. QED BY <1>1, <1>2, <1>7, <2>5, <3>2, <3>5 DEF w
    <2>. QED BY <2>4, <2>5
  <1>. QED BY <1>6, <1>7

\* membersFast ends where parseMembers does.
LEMMA MembersFast ==
    ASSUME NEW src, Len(src) \in Nat, NEW i \in 0..(Len(src) - 1), NEW d \in 0..(MaxDepth - 1), NEW V,
           KnowsValues(src, V, i + 1), KnowsRuns(src, V, i + 1)
    PROVE  /\ At(src, i) \in Space => membersFast(src, V, i, d) = NoValue
           /\ At(src, i) \notin Space => membersFast(src, V, i, d) = Ends(src)[<<"members", i, d + 1>>]
  <1> DEFINE n == Len(src)
             R == Ends(src)
             key == parseString(src, i)
             v == R[<<"value", i, d + 1>>]
             w == membersFast(src, V, i, d)
             a == R[<<"elements", i, d + 1>>]
             e == R[<<"members", i, d + 1>>]
  <1>1. d + 1 \in 1..MaxDepth /\ i \in Nat /\ i < n BY MaxDepthAssumption
  <1>2. w = IF At(src, i) # Quote THEN NoValue ELSE memberFast(src, V, validStringFast(src, i), d)
    BY Zenon DEF membersFast, Quote
  <1>3. At(src, i) \in Space => At(src, i) # Quote BY Zenon DEF Space, Quote
  <1>4. Recognises(src, R) BY ParserRecognises
  <1> HIDE DEF R, key, w, v, a, e
  <1>5. ASSUME At(src, i) \notin Space
        PROVE  /\ (\A q \in 0..n : ~IsString(src, i, q)) => e = NoValue
               /\ \A q \in 0..n : IsString(src, i, q) => NamedEnd(src, R, SpanEnd(src, q, Space), d + 1, e)
    <2>1. v = R[<<"value", i, d + 1>>] /\ a = R[<<"elements", i, d + 1>>] /\ e = R[<<"members", i, d + 1>>]
      BY DEF v, a, e
    <2>. QED BY <1>1, <1>4, <1>5, <2>1, RunsAre
  <1>6. ASSUME At(src, i) \notin Space, At(src, i) # Quote PROVE w = e
    <2>1. \A q \in 0..n : ~IsString(src, i, q) BY <1>1, <1>6, CharsAre
    <2>. QED BY <1>2, <1>5, <1>6, <2>1
  <1>7. ASSUME At(src, i) \notin Space, At(src, i) = Quote PROVE w = e
    <2>1. w = memberFast(src, V, EndOf(key), d)
      BY <1>2, <1>7, StringFast DEF key
    <2>2. \/ \E j \in (i + 2)..n : IsString(src, i, j) /\ key = Done(j)
          \/ Refusal(key) /\ \A k \in 0..n : ~IsString(src, i, k)
      BY <1>1, <1>7, ParseStringIs DEF key
    <2>3. ASSUME Refusal(key), \A k \in 0..n : ~IsString(src, i, k) PROVE w = e
      <3>1. EndOf(key) = NoValue BY <2>3, EndOfRefusal
      <3>2. memberFast(src, V, EndOf(key), d) = NoValue BY <3>1, FastStopsAt
      <3>. QED BY <1>5, <1>7, <2>1, <2>3, <3>2
    <2>4. ASSUME NEW j \in (i + 2)..n, IsString(src, i, j), key = Done(j) PROVE w = e
      <3>1. j \in Nat /\ j \in 0..n /\ j \in (i + 1)..n BY <1>1
      <3>2. EndOf(key) = j BY <2>4, <3>1, EndOfDone
      <3>3. NamedEnd(src, R, SpanEnd(src, j, Space), d + 1, e)
        BY <1>5, <1>7, <2>4, <3>1
      <3>4. memberFast(src, V, j, d) = e BY <3>1, <3>3, MemberFastIs DEF R
      <3>. QED BY <2>1, <3>2, <3>4
    <2>. QED BY <2>2, <2>3, <2>4
  <1>8. ASSUME At(src, i) \in Space PROVE w = NoValue
    BY <1>2, <1>3, <1>8
  <1>. QED BY <1>6, <1>7, <1>8 DEF w, e, R

\* A container of the fast validator ends where Validator's does.
LEMMA ContainerFastIs ==
    ASSUME NEW src, Len(src) \in Nat, NEW i \in 0..(Len(src) - 1), NEW d \in 0..MaxDepth, NEW V,
           KnowsRuns(src, V, i + 1), NEW rule \in {"elements", "members"}, rule = RuleOf(At(src, i)),
           NEW close, close = CloserOf(At(src, i)), NEW e,
           ContainerEnd(src, Ends(src), i, SpanEnd(src, i + 1, Space), d, e)
    PROVE  containerFast(src, V, i, d, rule, close) = e
  <1> DEFINE n == Len(src)
             R == Ends(src)
             j == SpanEnd(src, i + 1, Space)
             w == containerFast(src, V, i, d, rule, close)
  <1>1. w = IF d >= MaxDepth \/ j >= n THEN NoValue
            ELSE IF At(src, j) = close THEN j + 1
            ELSE V[<<rule, j, d>>]
    BY Zenon DEF containerFast, nextSignificantFast
  <1>2. /\ ~(d < MaxDepth /\ j < n) => e = NoValue
        /\ d < MaxDepth /\ j < n /\ At(src, j) = close => e = j + 1
        /\ d < MaxDepth /\ j < n /\ At(src, j) # close => e = R[<<rule, j, d + 1>>]
    BY DEF ContainerEnd
  <1>3. i + 1 \in 0..n OBVIOUS
  <1>4. j \in (i + 1)..n /\ (j = n \/ At(src, j) \notin Space)
    BY <1>3, SpanEndIs
  <1> HIDE DEF w, j, R
  <1>5. /\ d >= MaxDepth <=> ~(d < MaxDepth)
        /\ j >= n <=> ~(j < n)
    BY <1>4, MaxDepthAssumption
  <1>6. CASE d < MaxDepth /\ j < n /\ At(src, j) # close
    <2>1. j \in 0..(n - 1) /\ d \in 0..(MaxDepth - 1) /\ j >= i + 1 /\ At(src, j) \notin Space
      BY <1>4, <1>6, MaxDepthAssumption
    <2>2. V[<<rule, j, d>>] = R[<<rule, j, d + 1>>] BY <2>1 DEF KnowsRuns, R
    <2>. QED BY <1>1, <1>2, <1>5, <1>6, <2>2 DEF w
  <1>7. CASE ~(d < MaxDepth /\ j < n /\ At(src, j) # close)
    BY <1>1, <1>2, <1>5, <1>7 DEF w
  <1>. QED BY <1>6, <1>7

\* What the fast validator calls at the first byte of a value.
LEMMA DispatchFast ==
    ASSUME NEW src, NEW V, NEW i, NEW d
    PROVE  LET c == At(src, i)
               w == validValueFast(src, V, i, d)
           IN  /\ c = "n" => w = literalFast(src, i, Null)
               /\ c = "t" => w = literalFast(src, i, True)
               /\ c = "f" => w = literalFast(src, i, False)
               /\ c = Quote => w = validStringFast(src, i)
               /\ c = "[" => w = containerFast(src, V, i, d, "elements", "]")
               /\ c = LBrace => w = containerFast(src, V, i, d, "members", RBrace)
               /\ c \in Digit \cup {Minus} => w = scanNumberFast(src, i)
               /\ NoStart(c) => w = NoValue
  <1> DEFINE c == At(src, i)
             w == validValueFast(src, V, i, d)
  <1>1. c = "n" => w = literalFast(src, i, Null)
    BY Zenon DEF validValueFast, Null, Digit
  <1>2. c = "t" => w = literalFast(src, i, True)
    BY Zenon DEF validValueFast, True, Digit
  <1>3. c = "f" => w = literalFast(src, i, False)
    BY Zenon DEF validValueFast, False, Digit
  <1>4. c = Quote => w = validStringFast(src, i)
    BY Zenon DEF validValueFast, Quote, Digit
  <1>5. c = "[" => w = containerFast(src, V, i, d, "elements", "]")
    BY Zenon DEF validValueFast, Digit
  <1>6. c = LBrace => w = containerFast(src, V, i, d, "members", RBrace)
    BY Zenon DEF validValueFast, LBrace, RBrace, Digit
  <1>7. c \in Digit \cup {Minus} => w = scanNumberFast(src, i)
    <2>1. ASSUME c \in Digit \cup {"-"} PROVE c # "n" /\ c # "t" /\ c # "f" /\ c # "\"" /\ c # "[" /\ c # "{"
      BY <2>1, Zenon DEF Digit
    <2>. QED BY <2>1, Zenon DEF validValueFast, Minus
  <1>8. NoStart(c) => w = NoValue
    BY Zenon DEF validValueFast, NoStart, Quote, LBrace, Minus
  <1>. QED BY <1>1, <1>2, <1>3, <1>4, <1>5, <1>6, <1>7, <1>8

\* The fast validator ends a value without parts where parseValue does.
LEMMA ScalarFast ==
    ASSUME NEW src, Len(src) \in Nat, NEW i \in 0..(Len(src) - 1), At(src, i) \notin Openers, NEW d \in 0..MaxDepth,
           NEW V, NEW P
    PROVE  validValueFast(src, V, i, d) = EndOf(parseValue(src, P, i, d))
  <1> DEFINE c == At(src, i)
             w == validValueFast(src, V, i, d)
             v == parseValue(src, P, i, d)
  <1>1. ~(d > MaxDepth) /\ ~(i >= Len(src)) /\ i \in Nat BY MaxDepthAssumption
  <1> HIDE DEF c, w, v
  <1>2. ASSUME c = "n" PROVE w = EndOf(v)
    <2>1. w = literalFast(src, i, Null) BY <1>2, DispatchFast, Zenon DEF c, w
    <2>2. v = parseLiteral(src, i, Null) BY <1>1, <1>2, Dispatch, Zenon DEF c, v
    <2>. QED BY <1>1, <2>1, <2>2, LiteralFast DEF Words
  <1>3. ASSUME c = "t" PROVE w = EndOf(v)
    <2>1. w = literalFast(src, i, True) BY <1>3, DispatchFast, Zenon DEF c, w
    <2>2. v = parseLiteral(src, i, True) BY <1>1, <1>3, Dispatch, Zenon DEF c, v
    <2>. QED BY <1>1, <2>1, <2>2, LiteralFast DEF Words
  <1>4. ASSUME c = "f" PROVE w = EndOf(v)
    <2>1. w = literalFast(src, i, False) BY <1>4, DispatchFast, Zenon DEF c, w
    <2>2. v = parseLiteral(src, i, False)
      BY <1>1, <1>4, Dispatch, Zenon DEF c, v
    <2>. QED BY <1>1, <2>1, <2>2, LiteralFast DEF Words
  <1>5. ASSUME c = Quote PROVE w = EndOf(v)
    <2>1. w = validStringFast(src, i) BY <1>5, DispatchFast, Zenon DEF c, w
    <2>2. v = parseString(src, i) BY <1>1, <1>5, Dispatch, Zenon DEF c, v
    <2>3. At(src, i) = Quote BY <1>5 DEF c
    <2>. QED BY <2>1, <2>2, <2>3, StringFast
  <1>6. ASSUME c \in Digit \cup {Minus} PROVE w = EndOf(v)
    <2>1. w = scanNumberFast(src, i) BY <1>6, DispatchFast, Zenon DEF c, w
    <2>2. v = parseNumber(src, i) BY <1>1, <1>6, Dispatch, Zenon DEF c, v
    <2>. QED BY <2>1, <2>2, NumberFast
  <1>7. ASSUME NoStart(c) PROVE w = EndOf(v)
    <2>1. w = NoValue BY <1>7, DispatchFast, Zenon DEF c, w
    <2>2. v = Fail(i, Unexpected) BY <1>1, <1>7, DispatchOther, Zenon DEF c, v
    <2>3. EndOf(Fail(i, Unexpected)) = NoValue
      BY <1>1, FailIs, EndOfRefusal, Zenon DEF Messages, Unexpected
    <2>. QED BY <2>1, <2>2, <2>3
  <1>8. \/ c = "n" \/ c = "t" \/ c = "f" \/ c = Quote \/ c \in Digit \cup {Minus} \/ NoStart(c)
    BY DEF Openers, NoStart, c
  <1>. QED BY <1>2, <1>3, <1>4, <1>5, <1>6, <1>7, <1>8 DEF w, v

\* validValueFast ends where parseValue does.
LEMMA ValueFast ==
    ASSUME NEW src, Len(src) \in Nat, NEW i \in 0..(Len(src) - 1), NEW d \in 0..MaxDepth, NEW V,
           KnowsRuns(src, V, i + 1)
    PROVE  validValueFast(src, V, i, d) = Ends(src)[<<"value", i, d>>]
  <1> DEFINE n == Len(src)
             R == Ends(src)
             w == validValueFast(src, V, i, d)
             e == R[<<"value", i, d>>]
  <1>1. i \in 0..n /\ i < n OBVIOUS
  <1>2. CASE At(src, i) \notin Openers
    <2> DEFINE P == Parser(src)
               v == P[<<"value", i, d>>]
    <2>1. e = EndOf(v) /\ v = Parse(src, P, <<"value", i, d>>) BY <1>1, EndsAre
    <2> HIDE DEF P
    <2>2. Parse(src, P, <<"value", i, d>>) = parseValue(src, P, i, d)
      BY DEF Parse
    <2>3. w = EndOf(parseValue(src, P, i, d)) BY <1>2, ScalarFast
    <2>. QED BY <2>1, <2>2, <2>3
  <1>3. CASE At(src, i) \in Openers
    <2> DEFINE c == At(src, i)
    <2>1. ContainerEnd(src, R, i, SpanEnd(src, i + 1, Space), d, e)
      <3>1. EndsValues(src, R) BY ParserRecognises DEF Recognises
      <3> HIDE DEF R
      <3>. QED BY <1>1, <1>3, <3>1 DEF EndsValues
    <2>2. (c = "[" \/ c = LBrace) /\ "[" # LBrace
      BY <1>3, FirstBytes DEF Openers
    <2> HIDE DEF w, e, R, c
    <2>3. CASE c = "["
      <3>1. w = containerFast(src, V, i, d, "elements", "]")
        BY <2>3, DispatchFast, Zenon DEF c, w
      <3>2. RuleOf(At(src, i)) = "elements" /\ CloserOf(At(src, i)) = "]"
        BY <2>3 DEF RuleOf, CloserOf, c
      <3>. QED BY <2>1, <3>1, <3>2, ContainerFastIs DEF w, e, R
    <2>4. CASE c = LBrace
      <3>1. w = containerFast(src, V, i, d, "members", RBrace)
        BY <2>4, DispatchFast, Zenon DEF c, w
      <3>2. RuleOf(At(src, i)) = "members" /\ CloserOf(At(src, i)) = RBrace
        BY <2>2, <2>4 DEF RuleOf, CloserOf, c
      <3>. QED BY <2>1, <3>1, <3>2, ContainerFastIs DEF w, e, R
    <2>. QED BY <2>2, <2>3, <2>4
  <1>. QED BY <1>2, <1>3

\* The places the fast validator is called for.
FastPlaces(n) ==
    ({"value"} \X (0..(n - 1)) \X (0..MaxDepth)) \cup ({"elements", "members"} \X (0..(n - 1)) \X (0..(MaxDepth - 1)))

\* What it does at a place when V does the rest.
FastParse(src, V, s) ==
    CASE s[1] = "value"    -> validValueFast(src, V, s[2], s[3])
      [] s[1] = "elements" -> elementsFast(src, V, s[2], s[3])
      [] s[1] = "members"  -> membersFast(src, V, s[2], s[3])

\* The end of what begins at a place, by Validator.
FastEnd(src, s) ==
    IF s[1] = "value" THEN Ends(src)[<<"value", s[2], s[3]>>]
    ELSE IF At(src, s[2]) \in Space THEN NoValue
    ELSE Ends(src)[<<s[1], s[2], s[3] + 1>>]

\* Every call goes to a place that is decided before.
LEMMA FastKnows ==
    ASSUME NEW src, Len(src) \in Nat, NEW s \in FastPlaces(Len(src)), NEW V,
           \A t \in FastPlaces(Len(src)) :
              PlaceRank(Len(src), t) < PlaceRank(Len(src), s) => V[t] = FastEnd(src, t)
    PROVE  /\ KnowsRuns(src, V, s[2] + 1) /\ KnowsValues(src, V, s[2] + 1)
           /\ s[1] # "value" => KnowsValues(src, V, s[2])
  <1> DEFINE n == Len(src)
             i == s[2]
             m == PlaceRank(n, s)
  <1>1. i \in 0..(n - 1) /\ m = 2 * (n - i) + IF s[1] = "value" THEN 0 ELSE 1
    BY DEF FastPlaces, PlaceRank
  <1> HIDE DEF m, i
  <1>2. ASSUME NEW r \in {"elements", "members"}, NEW x \in 0..(n - 1), NEW d \in 0..(MaxDepth - 1),
               x >= i + 1, At(src, x) \notin Space
        PROVE  V[<<r, x, d>>] = Ends(src)[<<r, x, d + 1>>]
    <2> DEFINE t == <<r, x, d>>
    <2>1. t \in FastPlaces(n) /\ r # "value" BY DEF FastPlaces
    <2>2. PlaceRank(n, t) = 2 * (n - x) + 1 BY <2>1 DEF PlaceRank
    <2>3. FastEnd(src, t) = Ends(src)[<<r, x, d + 1>>] BY <1>2, <2>1 DEF FastEnd
    <2> HIDE DEF t
    <2>4. PlaceRank(n, t) < m BY <1>1, <1>2, <2>2
    <2>5. V[t] = FastEnd(src, t) BY <2>1, <2>4 DEF m
    <2>. QED BY <2>3, <2>5 DEF t
  <1>3. ASSUME NEW x \in 0..(n - 1), NEW d \in 0..MaxDepth, x >= i, x >= i + 1 \/ s[1] # "value"
        PROVE  V[<<"value", x, d>>] = Ends(src)[<<"value", x, d>>]
    <2> DEFINE t == <<"value", x, d>>
    <2>1. t \in FastPlaces(n) BY DEF FastPlaces
    <2>2. PlaceRank(n, t) = 2 * (n - x) BY DEF PlaceRank
    <2>3. FastEnd(src, t) = Ends(src)[<<"value", x, d>>] BY DEF FastEnd
    <2> HIDE DEF t
    <2>4. PlaceRank(n, t) < m BY <1>1, <1>3, <2>2
    <2>5. V[t] = FastEnd(src, t) BY <2>1, <2>4 DEF m
    <2>. QED BY <2>3, <2>5 DEF t
  <1>4. KnowsRuns(src, V, i + 1) BY <1>2 DEF KnowsRuns
  <1>5. KnowsValues(src, V, i + 1)
    <2>1. \A x \in 0..(n - 1) : x >= i + 1 => x >= i BY <1>1
    <2>. QED BY <1>3, <2>1 DEF KnowsValues
  <1>6. s[1] # "value" => KnowsValues(src, V, i) BY <1>3 DEF KnowsValues
  <1>. QED BY <1>4, <1>5, <1>6 DEF i

\* Given them, the fast validator finds the end.
LEMMA FastParseIs ==
    ASSUME NEW src, Len(src) \in Nat, NEW s \in FastPlaces(Len(src)), NEW V,
           \A t \in FastPlaces(Len(src)) :
              PlaceRank(Len(src), t) < PlaceRank(Len(src), s) => V[t] = FastEnd(src, t)
    PROVE  FastParse(src, V, s) = FastEnd(src, s)
  <1> DEFINE n == Len(src)
             r == s[1]
             i == s[2]
             d == s[3]
  <1>1. /\ KnowsRuns(src, V, i + 1) /\ KnowsValues(src, V, i + 1)
        /\ r # "value" => KnowsValues(src, V, i)
    BY FastKnows
  <1>2. /\ i \in 0..(n - 1) /\ r \in {"value", "elements", "members"}
        /\ r = "value" => d \in 0..MaxDepth
        /\ r # "value" => d \in 0..(MaxDepth - 1)
    BY DEF FastPlaces
  <1>3. /\ r = "value" => FastParse(src, V, s) = validValueFast(src, V, i, d)
        /\ r = "elements" => FastParse(src, V, s) = elementsFast(src, V, i, d)
        /\ r = "members" => FastParse(src, V, s) = membersFast(src, V, i, d)
    BY DEF FastParse
  <1>4. /\ r = "value" => FastEnd(src, s) = Ends(src)[<<"value", i, d>>]
        /\ r # "value" /\ At(src, i) \in Space => FastEnd(src, s) = NoValue
        /\ r # "value" /\ At(src, i) \notin Space => FastEnd(src, s) = Ends(src)[<<r, i, d + 1>>]
    BY DEF FastEnd
  <1> HIDE DEF r, i, d
  <1>5. CASE r = "value"
    <2>1. validValueFast(src, V, i, d) = Ends(src)[<<"value", i, d>>]
      BY <1>1, <1>2, <1>5, ValueFast
    <2>. QED BY <1>3, <1>4, <1>5, <2>1
  <1>6. CASE r = "elements"
    <2>1. /\ At(src, i) \in Space => elementsFast(src, V, i, d) = NoValue
          /\ At(src, i) \notin Space => elementsFast(src, V, i, d) = Ends(src)[<<"elements", i, d + 1>>]
      BY <1>1, <1>2, <1>6, ElementsFast
    <2>. QED BY <1>3, <1>4, <1>6, <2>1
  <1>7. CASE r = "members"
    <2>1. /\ At(src, i) \in Space => membersFast(src, V, i, d) = NoValue
          /\ At(src, i) \notin Space => membersFast(src, V, i, d) = Ends(src)[<<"members", i, d + 1>>]
      BY <1>1, <1>2, <1>7, MembersFast
    <2>. QED BY <1>3, <1>4, <1>7, <2>1
  <1>. QED BY <1>2, <1>5, <1>6, <1>7

\* The fast validator is a function, and it ends every value where Validator does.
LEMMA ValuesFastAre ==
    ASSUME NEW src, Len(src) \in Nat, NEW i \in 0..(Len(src) - 1), NEW d \in 0..MaxDepth
    PROVE  ValuesFast(src)[<<"value", i, d>>] = Ends(src)[<<"value", i, d>>]
  <1> DEFINE n == Len(src)
             D == FastPlaces(n)
             G(f) == [s \in D |-> FastParse(src, f, s)]
             E == [s \in D |-> FastEnd(src, s)]
             V == ValuesFast(src)
             v == <<"value", i, d>>
  <1>1. D \subseteq Places(n) BY MaxDepthAssumption DEF FastPlaces, Places
  <1>2. \A s \in D : FastParse(src, E, s) = FastEnd(src, s)
    <2>1. \A t \in D : E[t] = FastEnd(src, t) OBVIOUS
    <2> HIDE DEF E
    <2>. QED BY <2>1, FastParseIs
  <1>3. E = G(E)
    <2> DEFINE e == E
    <2>1. \A s \in D : FastParse(src, e, s) = FastEnd(src, s) BY <1>2
    <2>2. e = [s \in D |-> FastEnd(src, s)] OBVIOUS
    <2> HIDE DEF e, D
    <2>3. e = G(e) BY <2>1, <2>2
    <2>. QED BY <2>3 DEF e
  <1>4. \E f : f = G(f)
    <2> HIDE DEF G, E
    <2>. QED BY <1>3
  <1>5. V = CHOOSE f : f = G(f) BY Zenon DEF ValuesFast, FastParse, FastPlaces
  <1>6. V = G(V)
    <2> HIDE DEF G, V
    <2>. QED BY <1>4, <1>5
  <1> HIDE DEF V, E
  <1>7. \A s \in D : V[s] = FastParse(src, V, s)
    <2> HIDE DEF D
    <2>. QED BY <1>6
  <1> HIDE DEF G
  <1> DEFINE Q == {s \in Places(n) : s \in D => V[s] = FastEnd(src, s)}
  <1>8. ASSUME NEW s \in Places(n), \A t \in Places(n) : PlaceRank(n, t) < PlaceRank(n, s) => t \in Q
        PROVE  s \in Q
    <2> SUFFICES ASSUME s \in D PROVE V[s] = FastEnd(src, s)
      OBVIOUS
    <2>1. \A t \in D : PlaceRank(n, t) < PlaceRank(n, s) => V[t] = FastEnd(src, t)
      <3> HIDE DEF D
      <3>. QED BY <1>1, <1>8
    <2>2. FastParse(src, V, s) = FastEnd(src, s) BY <2>1, FastParseIs
    <2>. QED BY <1>7, <2>2
  <1>9. \A s \in Places(n) : s \in Q
    <2> HIDE DEF Q
    <2>. QED BY <1>8, PlaceInduction
  <1>10. v \in D /\ FastEnd(src, v) = Ends(src)[v] BY DEF FastPlaces, FastEnd
  <1> HIDE DEF D, v
  <1>11. V[v] = FastEnd(src, v) BY <1>1, <1>9, <1>10
  <1>. QED BY <1>10, <1>11 DEF V, v

\* The two validators accept the same texts: exactly the documents of the grammar.
THEOREM ValidatorsAgree ==
    ASSUME NEW src, Len(src) \in Nat
    PROVE  /\ validFast(src) <=> IsDocument(src)
           /\ validFast(src) <=> ~IsError(Validate(src))
  <1> DEFINE n == Len(src)
             i == SpanEnd(src, 0, Space)
             e == Ends(src)[<<"value", i, 0>>]
             w == validRootValueFast(src, i)
  <1>1. 0 \in 0..n /\ 0 \in 0..MaxDepth BY MaxDepthAssumption
  <1>2. i \in 0..n BY <1>1, SpanEndIs
  <1>3. IsDocument(src) <=> e # NoValue /\ SpanEnd(src, e, Space) = n
    BY ParserRecognises, DocumentRecognised
  <1>4. validFast(src) <=> i < n /\ w # NoValue /\ SpanEnd(src, w, Space) = n
    BY Zenon DEF validFast, nextSignificantFast
  <1> HIDE DEF i
  <1>5. i < n => w = e
    <2> SUFFICES ASSUME i < n PROVE w = e
      OBVIOUS
    <2>1. i \in 0..(n - 1) BY <1>2
    <2>. QED BY <1>1, <2>1, ValuesFastAre DEF validRootValueFast
  <1>6. ~(i < n) => e = NoValue
    <2> SUFFICES ASSUME ~(i < n) PROVE e = NoValue
      OBVIOUS
    <2>1. i = n BY <1>2
    <2>. QED BY <1>1, <2>1, EndsNowhere
  <1> HIDE DEF w, e
  <1>7. validFast(src) <=> IsDocument(src) BY <1>3, <1>4, <1>5, <1>6
  <1>. QED BY <1>7, ValidatorDecides

-----------------------------------------------------------------------------
(***************************************************************************)
(* Where a number ends that other bytes follow.                            *)
(***************************************************************************)

\* Where the digits of the number at i begin.
IntStart(src, i) == IF At(src, i) = Minus THEN i + 1 ELSE i

\* The number [i, j) is an integer that ends at p, a fraction that ends at q, and an exponent.
NumberParts(src, i, p, q, j) ==
    /\ p \in IntStart(src, i)..j /\ q \in p..j
    /\ IsInt(src, IntStart(src, i), p) /\ IsFrac(src, p, q) /\ IsExp(src, q, j)

\* The byte at j goes on with the last of these parts, or begins the next.
GrowsAt(src, i, p, q, j) ==
    \/ At(src, j) \in Digit /\ ~(p = j /\ At(src, IntStart(src, i)) = Zero)
    \/ At(src, j) = Dot /\ p = j
    \/ At(src, j) \in Exps /\ q = j

\* A number is an integer, then a fraction, then an exponent.
LEMMA NumberHasParts ==
    ASSUME NEW src, NEW i, NEW j
    PROVE  IsNumber(src, i, j) <=> i < j /\ \E p, q : NumberParts(src, i, p, q, j)
  <1>1. IsNumber(src, i, j) <=>
          /\ i < j
          /\ \E p \in IntStart(src, i)..j : \E q \in p..j :
                IsInt(src, IntStart(src, i), p) /\ IsFrac(src, p, q) /\ IsExp(src, q, j)
    BY NumberRules, Zenon DEF IntStart
  <1>. QED BY <1>1, Zenon DEF NumberParts

\* The parts of a number and the first bytes of those that are there.
LEMMA PartsBegin ==
    ASSUME NEW src, NEW i \in Nat, NEW j \in Nat, NEW p, NEW q, NumberParts(src, i, p, q, j), NEW s, s = IntStart(src, i)
    PROVE  /\ s \in Nat /\ p \in Nat /\ q \in Nat /\ i <= s /\ s < p /\ p <= q /\ q <= j
           /\ AllIn(src, s, p, Digit) /\ (At(src, s) = Zero => p = s + 1)
           /\ p < q => p + 1 < q /\ At(src, p) = Dot /\ AllIn(src, p + 1, q, Digit)
           /\ q < j => At(src, q) \in Exps
           /\ p < j => At(src, p) \notin Digit
  <1>1. s \in Nat /\ i <= s BY DEF IntStart
  <1>2. /\ p \in s..j /\ q \in p..j
        /\ IsInt(src, s, p) /\ IsFrac(src, p, q) /\ IsExp(src, q, j)
    BY DEF NumberParts
  <1>3. /\ s < p /\ AllIn(src, s, p, Digit) /\ (At(src, s) = Zero => p = s + 1)
        /\ p = q \/ (p + 1 < q /\ At(src, p) = Dot /\ AllIn(src, p + 1, q, Digit))
        /\ q = j \/ At(src, q) \in Exps
    BY <1>2, NumberRules
  <1> HIDE DEF IntStart
  <1>4. p \in Nat /\ q \in Nat /\ p <= q /\ q <= j BY <1>1, <1>2
  <1>5. p < j => At(src, p) = Dot \/ At(src, p) \in Exps BY <1>3, <1>4
  <1>6. p < j => At(src, p) \notin Digit BY <1>5, NumberBytes
  <1>. QED BY <1>1, <1>3, <1>4, <1>6

\* Two exponents that begin alike: the longer one has a digit where the shorter ends.
LEMMA LongerExponent ==
    ASSUME NEW src, NEW q \in Nat, NEW j \in Nat, NEW m \in Nat, q < j, j < m, IsExp(src, q, j), IsExp(src, q, m)
    PROVE  At(src, j) \in Digit
  <1> DEFINE d == IF At(src, q + 1) \in Signs THEN q + 2 ELSE q + 1
  <1>1. d < j /\ AllIn(src, d, m, Digit) BY NumberRules
  <1>2. d \in Nat OBVIOUS
  <1> HIDE DEF d
  <1>3. j \in d..(m - 1) BY <1>1, <1>2
  <1>. QED BY <1>1, <1>3 DEF AllIn

\* A number goes on only where its parts do.
LEMMA LongerNumber ==
    ASSUME NEW src, NEW i \in Nat, NEW j \in Nat, NEW p, NEW q, NumberParts(src, i, p, q, j),
           NEW m \in Nat, j < m, IsNumber(src, i, m)
    PROVE  GrowsAt(src, i, p, q, j)
  <1> DEFINE s == IntStart(src, i)
  <1>1. PICK x, y : NumberParts(src, i, x, y, m) BY NumberHasParts
  <1>2. /\ s \in Nat /\ p \in Nat /\ q \in Nat /\ i <= s /\ s < p /\ p <= q /\ q <= j
        /\ AllIn(src, s, p, Digit) /\ (At(src, s) = Zero => p = s + 1)
        /\ p < q => p + 1 < q /\ At(src, p) = Dot /\ AllIn(src, p + 1, q, Digit)
        /\ q < j => At(src, q) \in Exps
        /\ p < j => At(src, p) \notin Digit
    BY PartsBegin
  <1>3. /\ x \in Nat /\ y \in Nat /\ s < x /\ x <= y /\ y <= m
        /\ AllIn(src, s, x, Digit) /\ (At(src, s) = Zero => x = s + 1)
        /\ x < y => x + 1 < y /\ At(src, x) = Dot /\ AllIn(src, x + 1, y, Digit)
        /\ y < m => At(src, y) \in Exps
        /\ x < m => At(src, x) \notin Digit
    BY <1>1, PartsBegin
  <1>4. IsExp(src, q, j) /\ IsExp(src, y, m) BY <1>1 DEF NumberParts
  <1>5. GrowsAt(src, i, p, q, j) <=>
          \/ At(src, j) \in Digit /\ ~(p = j /\ At(src, s) = Zero)
          \/ At(src, j) = Dot /\ p = j
          \/ At(src, j) \in Exps /\ q = j
    BY Zenon DEF GrowsAt
  <1> HIDE DEF s
  <1>6. ~(x < p)
    <2> SUFFICES ASSUME x < p PROVE FALSE
      OBVIOUS
    <2>1. x \in s..(p - 1) /\ x < m BY <1>2, <1>3
    <2>. QED BY <1>2, <1>3, <2>1 DEF AllIn
  <1>7. CASE p < x
    <2>1. p \in s..(x - 1) BY <1>2, <1>3, <1>7
    <2>2. At(src, p) \in Digit BY <1>3, <2>1 DEF AllIn
    <2>3. p = j BY <1>2, <2>2
    <2>4. At(src, s) # Zero BY <1>2, <1>3, <1>7
    <2>. QED BY <1>5, <2>2, <2>3, <2>4
  <1>8. CASE x = p
    <2>1. CASE y < q
      <3>1. CASE y = p
        <4>1. y < m /\ p < q BY <1>2, <2>1, <3>1
        <4>. QED BY <1>2, <1>3, <3>1, <4>1, NumberBytes
      <3>2. CASE y # p
        <4>1. x < y BY <1>3, <1>8, <3>2
        <4>2. y \in (p + 1)..(q - 1) /\ p < q /\ y < m
          BY <1>2, <1>3, <1>8, <2>1, <4>1
        <4>3. At(src, y) \in Digit BY <1>2, <4>2 DEF AllIn
        <4>. QED BY <1>3, <4>2, <4>3, NumberBytes
      <3>. QED BY <3>1, <3>2
    <2>2. CASE q < y
      <3>1. CASE p = q
        <4>1. At(src, p) = Dot BY <1>3, <1>8, <2>2, <3>1
        <4>2. p = j BY <1>2, <3>1, <4>1, NumberBytes
        <4>. QED BY <1>5, <4>1, <4>2
      <3>2. CASE p # q
        <4>1. p < q BY <1>2, <3>2
        <4>2. q \in (x + 1)..(y - 1) /\ x < y BY <1>2, <1>3, <1>8, <2>2, <4>1
        <4>3. At(src, q) \in Digit BY <1>3, <4>2 DEF AllIn
        <4>4. q = j BY <1>2, <4>3, NumberBytes
        <4>. QED BY <1>5, <4>1, <4>3, <4>4
      <3>. QED BY <3>1, <3>2
    <2>3. CASE y = q
      <3>1. CASE q = j
        <4>1. y < m BY <2>3, <3>1
        <4>. QED BY <1>3, <1>5, <2>3, <3>1, <4>1
      <3>2. CASE q # j
        <4>1. q < j BY <1>2, <3>2
        <4>2. At(src, j) \in Digit BY <1>2, <1>4, <2>3, <4>1, LongerExponent
        <4>3. p # j BY <1>2, <4>1
        <4>. QED BY <1>5, <4>2, <4>3
      <3>. QED BY <3>1, <3>2
    <2>. QED BY <1>2, <1>3, <2>1, <2>2, <2>3
  <1>. QED BY <1>2, <1>3, <1>6, <1>7, <1>8

\* scanExponentFast finds an exponent that no byte goes on with, if there is one.
LEMMA FastExponent ==
    ASSUME NEW src, Len(src) \in Nat, NEW q \in 0..Len(src)
    PROVE  LET e == scanExponentFast(src, q)
           IN  /\ e # NoValue =>
                    /\ e \in q..Len(src) /\ IsExp(src, q, e)
                    /\ Has(src, e, Exps) => q # e
                    /\ Has(src, e, Digit) => q = e
               /\ \A j \in q..Len(src) : IsExp(src, q, j) /\ ~(q = j /\ Has(src, j, Exps)) => e # NoValue
  <1> DEFINE n == Len(src)
             e == scanExponentFast(src, q)
             d == ExpDigits(src, q)
             s == SpanEnd(src, d + 1, Digit)
  <1>1. e = IF ~Has(src, q, Exps) THEN q ELSE IF Has(src, d, Digit) THEN s ELSE NoValue
    BY FastNumberForms
  <1>2. d \in Nat /\ q < d /\ d = IF Has(src, q + 1, Signs) THEN q + 2 ELSE q + 1
    BY DEF ExpDigits
  <1>3. q # NoValue BY DEF NoValue
  <1>4. CASE ~Has(src, q, Exps)
    <2>1. e = q BY <1>1, <1>4
    <2> HIDE DEF e
    <2>2. IsExp(src, q, q) BY NumberRules
    <2>. QED BY <1>3, <1>4, <2>1, <2>2 DEF e
  <1>5. CASE Has(src, q, Exps) /\ Has(src, d, Digit)
    <2>1. e = s BY <1>1, <1>5
    <2>2. d \in 0..(n - 1) /\ At(src, d) \in Digit /\ At(src, q) \in Exps
      BY <1>2, <1>5 DEF Has
    <2>3. /\ s \in (d + 1)..n /\ AllIn(src, d + 1, s, Digit)
          /\ s = n \/ At(src, s) \notin Digit
      <3>1. d + 1 \in 0..n BY <2>2
      <3>. QED BY <3>1, SpanEndIs DEF AllIn
    <2> HIDE DEF e, s, d
    <2>4. s \in Nat /\ s # NoValue /\ q + 1 < s /\ d < s
      BY <1>2, <2>2, <2>3 DEF NoValue
    <2>5. AllIn(src, d, s, Digit)
      <3> SUFFICES ASSUME NEW k \in d..(s - 1) PROVE At(src, k) \in Digit
        BY DEF AllIn
      <3>1. k = d \/ k \in (d + 1)..(s - 1) BY <1>2, <2>4
      <3>. QED BY <2>2, <2>3, <3>1 DEF AllIn
    <2>6. d = IF At(src, q + 1) \in Signs THEN q + 2 ELSE q + 1
      <3>1. q + 1 < n BY <1>2, <2>2
      <3>. QED BY <1>2, <3>1 DEF Has
    <2>7. IsExp(src, q, s) BY <2>2, <2>4, <2>5, <2>6, NumberRules
    <2>8. Has(src, s, Digit) => FALSE BY <2>3, <2>4 DEF Has
    <2>. QED BY <1>2, <2>1, <2>3, <2>4, <2>7, <2>8 DEF e
  <1>6. CASE Has(src, q, Exps) /\ ~Has(src, d, Digit)
    <2>1. e = NoValue BY <1>1, <1>6
    <2> HIDE DEF e, s
    <2>2. ASSUME NEW j \in q..n, IsExp(src, q, j), ~(q = j /\ Has(src, j, Exps)) PROVE FALSE
      <3>1. q # j BY <1>6, <2>2
      <3>2. /\ q + 1 < j
            /\ (IF At(src, q + 1) \in Signs THEN q + 2 ELSE q + 1) < j
            /\ AllIn(src, IF At(src, q + 1) \in Signs THEN q + 2 ELSE q + 1, j, Digit)
        BY <2>2, <3>1, NumberRules
      <3>3. q + 1 < n BY <3>2
      <3>4. d = IF At(src, q + 1) \in Signs THEN q + 2 ELSE q + 1
        BY <1>2, <3>3 DEF Has
      <3> HIDE DEF d
      <3>5. d < j /\ AllIn(src, d, j, Digit) BY <3>2, <3>4
      <3>6. d \in d..(j - 1) /\ d < n BY <1>2, <3>5
      <3>7. At(src, d) \in Digit BY <3>5, <3>6 DEF AllIn
      <3>. QED BY <1>6, <3>6, <3>7 DEF Has
    <2>. QED BY <2>1, <2>2 DEF e
  <1>. QED BY <1>4, <1>5, <1>6

\* Where scanNumberFast stops the number cannot grow.
LEMMA FastNumberParts ==
    ASSUME NEW src, Len(src) \in Nat, NEW i \in 0..(Len(src) - 1), NEW e, e = scanNumberFast(src, i), e # NoValue
    PROVE  /\ e \in (i + 1)..Len(src)
           /\ \E p, q : NumberParts(src, i, p, q, e) /\ (e = Len(src) \/ ~GrowsAt(src, i, p, q, e))
  <1> DEFINE n == Len(src)
             s == IntStart(src, i)
             p == IF At(src, s) = Zero THEN s + 1 ELSE SpanEnd(src, s + 1, Digit)
             q == IF Has(src, p, {Dot}) THEN SpanEnd(src, p + 2, Digit) ELSE p
  <1>1. e = scanIntegerFast(src, s) BY FastNumberForms DEF IntStart
  <1>2. Has(src, s, Digit) /\ e = scanFractionFast(src, p)
    BY <1>1, FastNumberForms
  <1>3. ~(Has(src, p, {Dot}) /\ ~Has(src, p + 1, Digit)) /\ e = scanExponentFast(src, q)
    BY <1>2, FastNumberForms
  <1>4. s \in 0..(n - 1) /\ i <= s /\ At(src, s) \in Digit
    BY <1>2 DEF IntStart, Has
  <1> HIDE DEF s
  <1>5. /\ p \in (s + 1)..n /\ AllIn(src, s + 1, p, Digit) /\ (At(src, s) = Zero => p = s + 1)
        /\ At(src, s) = Zero \/ p = n \/ At(src, p) \notin Digit
    <2>1. CASE At(src, s) = Zero BY <1>4, <2>1 DEF AllIn
    <2>2. CASE At(src, s) # Zero
      <3>1. s + 1 \in 0..n BY <1>4
      <3>. QED BY <2>2, <3>1, SpanEndIs DEF AllIn
    <2>. QED BY <2>1, <2>2
  <1> HIDE DEF p
  <1>6. IsInt(src, s, p)
    <2>1. AllIn(src, s, p, Digit)
      <3> SUFFICES ASSUME NEW k \in s..(p - 1) PROVE At(src, k) \in Digit
        BY DEF AllIn
      <3>1. k = s \/ k \in (s + 1)..(p - 1) BY <1>4, <1>5
      <3>. QED BY <1>4, <1>5, <3>1 DEF AllIn
    <2>. QED BY <1>4, <1>5, <2>1, NumberRules
  <1>7. /\ q \in p..n /\ IsFrac(src, p, q)
        /\ p < q => q = n \/ At(src, q) \notin Digit
        /\ p = q => ~Has(src, p, {Dot})
    <2>1. CASE Has(src, p, {Dot})
      <3>1. Has(src, p + 1, Digit) /\ q = SpanEnd(src, p + 2, Digit)
        BY <1>3, <2>1
      <3>2. p + 2 \in 0..n /\ At(src, p) = Dot /\ At(src, p + 1) \in Digit
        BY <1>4, <1>5, <2>1, <3>1 DEF Has
      <3>3. /\ q \in (p + 2)..n /\ AllIn(src, p + 2, q, Digit)
            /\ q = n \/ At(src, q) \notin Digit
        BY <3>1, <3>2, SpanEndIs DEF AllIn
      <3> HIDE DEF q
      <3>4. AllIn(src, p + 1, q, Digit)
        <4> SUFFICES ASSUME NEW k \in (p + 1)..(q - 1) PROVE At(src, k) \in Digit
          BY DEF AllIn
        <4>1. k = p + 1 \/ k \in (p + 2)..(q - 1) BY <1>5, <3>3
        <4>. QED BY <3>2, <3>3, <4>1 DEF AllIn
      <3>. QED BY <1>5, <3>2, <3>3, <3>4, NumberRules
    <2>2. CASE ~Has(src, p, {Dot})
      <3>1. q = p BY <2>2
      <3>2. IsFrac(src, p, p) BY NumberRules
      <3>. QED BY <1>5, <2>2, <3>1, <3>2
    <2>. QED BY <2>1, <2>2
  <1> HIDE DEF q
  <1>8. q \in 0..n BY <1>4, <1>5, <1>7
  <1>9. /\ e \in q..n /\ IsExp(src, q, e)
        /\ Has(src, e, Exps) => q # e
        /\ Has(src, e, Digit) => q = e
    BY <1>3, <1>8, FastExponent
  <1>10. NumberParts(src, i, p, q, e)
    <2>1. p \in s..e /\ q \in p..e BY <1>4, <1>5, <1>7, <1>9
    <2>. QED BY <1>6, <1>7, <1>9, <2>1, Zenon DEF NumberParts, s
  <1>11. e < n => ~GrowsAt(src, i, p, q, e)
    <2> SUFFICES ASSUME e < n, GrowsAt(src, i, p, q, e) PROVE FALSE
      OBVIOUS
    <2>1. \/ At(src, e) \in Digit /\ ~(p = e /\ At(src, s) = Zero)
          \/ At(src, e) = Dot /\ p = e
          \/ At(src, e) \in Exps /\ q = e
      BY Zenon DEF GrowsAt, s
    <2>2. CASE At(src, e) \in Digit /\ ~(p = e /\ At(src, s) = Zero)
      <3>1. q = e BY <1>9, <2>2 DEF Has
      <3>2. ~(p < q) BY <1>7, <2>2, <3>1
      <3>3. p = e BY <1>5, <1>7, <3>1, <3>2
      <3>. QED BY <1>5, <2>2, <3>3
    <2>3. CASE At(src, e) = Dot /\ p = e
      <3>1. p = q BY <1>5, <1>7, <1>9, <2>3
      <3>. QED BY <1>7, <2>3, <3>1 DEF Has
    <2>4. CASE At(src, e) \in Exps /\ q = e BY <1>9, <2>4 DEF Has
    <2>. QED BY <2>1, <2>2, <2>3, <2>4
  <1>12. e \in (i + 1)..n BY <1>4, <1>5, <1>7, <1>9
  <1>13. e = n \/ ~GrowsAt(src, i, p, q, e) BY <1>11, <1>12
  <1>. QED BY <1>10, <1>12, <1>13

\* A number that cannot grow is found.
LEMMA FastNumberFound ==
    ASSUME NEW src, Len(src) \in Nat, NEW i \in 0..(Len(src) - 1), NEW j \in i..Len(src), NEW p, NEW q,
           NumberParts(src, i, p, q, j), j = Len(src) \/ ~GrowsAt(src, i, p, q, j)
    PROVE  scanNumberFast(src, i) # NoValue
  <1> DEFINE n == Len(src)
             s == IntStart(src, i)
             e == scanNumberFast(src, i)
             x == IF At(src, s) = Zero THEN s + 1 ELSE SpanEnd(src, s + 1, Digit)
             y == IF Has(src, p, {Dot}) THEN SpanEnd(src, p + 2, Digit) ELSE p
  <1>1. e = IF ~Has(src, s, Digit) THEN NoValue ELSE scanFractionFast(src, x)
    <2>1. e = scanIntegerFast(src, s) BY FastNumberForms DEF IntStart
    <2> HIDE DEF e, s
    <2>. QED BY <2>1, FastNumberForms
  <1>2. scanFractionFast(src, p) =
          IF Has(src, p, {Dot}) /\ ~Has(src, p + 1, Digit) THEN NoValue ELSE scanExponentFast(src, y)
    BY FastNumberForms
  <1>3. /\ s \in Nat /\ p \in Nat /\ q \in Nat /\ i <= s /\ s < p /\ p <= q /\ q <= j
        /\ AllIn(src, s, p, Digit) /\ (At(src, s) = Zero => p = s + 1)
        /\ p < q => p + 1 < q /\ At(src, p) = Dot /\ AllIn(src, p + 1, q, Digit)
        /\ q < j => At(src, q) \in Exps
        /\ p < j => At(src, p) \notin Digit
    <2>1. i \in Nat /\ j \in Nat OBVIOUS
    <2>. QED BY <2>1, PartsBegin
  <1>4. j < n => /\ ~(At(src, j) \in Digit /\ ~(p = j /\ At(src, s) = Zero))
                 /\ ~(At(src, j) = Dot /\ p = j)
                 /\ ~(At(src, j) \in Exps /\ q = j)
    <2> SUFFICES ASSUME j < n
                 PROVE  ~(\/ At(src, j) \in Digit /\ ~(p = j /\ At(src, s) = Zero)
                          \/ At(src, j) = Dot /\ p = j
                          \/ At(src, j) \in Exps /\ q = j)
      OBVIOUS
    <2>1. ~GrowsAt(src, i, p, q, j) OBVIOUS
    <2>. QED BY <2>1, Zenon DEF GrowsAt
  <1>5. IsExp(src, q, j) BY Zenon DEF NumberParts
  <1>6. j \in Nat /\ j <= n OBVIOUS
  <1> HIDE DEF s, e
  <1>7. Has(src, s, Digit)
    <2>1. s \in s..(p - 1) /\ s < n BY <1>3, <1>6
    <2>. QED BY <1>3, <2>1 DEF AllIn, Has
  <1>8. x = p
    <2>1. CASE At(src, s) = Zero BY <1>3, <2>1
    <2>2. CASE At(src, s) # Zero
      <3>1. p = n \/ At(src, p) \notin Digit BY <1>3, <1>4, <1>6, <2>2
      <3>2. s + 1 \in 0..n /\ p \in (s + 1)..n BY <1>3, <1>6
      <3>3. AllIn(src, s + 1, p, Digit) BY <1>3 DEF AllIn
      <3>4. SpanEnd(src, s + 1, Digit) = p BY <3>1, <3>2, <3>3, SpanUnique
      <3>. QED BY <2>2, <3>4
    <2>. QED BY <2>1, <2>2
  <1> HIDE DEF x
  <1>9. (Has(src, p, {Dot}) => Has(src, p + 1, Digit)) /\ y = q
    <2>1. CASE Has(src, p, {Dot})
      <3>1. p < n /\ At(src, p) = Dot BY <2>1 DEF Has
      <3>2. p < q
        <4> SUFFICES ASSUME p = q PROVE FALSE
          BY <1>3
        <4>1. CASE q < j BY <1>3, <3>1, <4>1, NumberBytes
        <4>2. CASE q = j BY <1>4, <3>1, <4>2
        <4>. QED BY <1>3, <1>6, <4>1, <4>2
      <3>3. p + 1 < q /\ AllIn(src, p + 1, q, Digit) BY <1>3, <3>2
      <3>4. p + 1 \in (p + 1)..(q - 1) /\ p + 1 < n /\ p + 2 \in 0..n /\ q \in (p + 2)..n
        BY <1>3, <1>6, <3>3
      <3>5. Has(src, p + 1, Digit) BY <3>3, <3>4 DEF AllIn, Has
      <3>6. AllIn(src, p + 2, q, Digit)
        <4> SUFFICES ASSUME NEW k \in (p + 2)..(q - 1) PROVE At(src, k) \in Digit
          BY DEF AllIn
        <4>1. k \in (p + 1)..(q - 1) BY <1>3
        <4>. QED BY <3>3, <4>1 DEF AllIn
      <3>7. q = n \/ At(src, q) \notin Digit
        <4>1. CASE q < j BY <1>3, <4>1, NumberBytes
        <4>2. CASE q = j BY <1>3, <1>4, <1>6, <3>2, <4>2
        <4>. QED BY <1>3, <1>6, <4>1, <4>2
      <3>8. SpanEnd(src, p + 2, Digit) = q BY <3>4, <3>6, <3>7, SpanUnique
      <3>. QED BY <2>1, <3>5, <3>8
    <2>2. CASE ~Has(src, p, {Dot})
      <3>1. ~(p < q) BY <1>3, <1>6, <2>2 DEF Has
      <3>. QED BY <1>3, <2>2, <3>1
    <2>. QED BY <2>1, <2>2
  <1>10. e = scanExponentFast(src, q) BY <1>1, <1>2, <1>7, <1>8, <1>9
  <1>11. q \in 0..n /\ j \in q..n BY <1>3, <1>6
  <1>12. ~(q = j /\ Has(src, j, Exps)) BY <1>4 DEF Has
  <1>13. scanExponentFast(src, q) # NoValue BY <1>5, <1>11, <1>12, FastExponent
  <1>. QED BY <1>10, <1>13 DEF e

\* A number has the same parts wherever it lies.
LEMMA PartsElsewhere ==
    ASSUME NEW w, NEW i \in Nat, NEW j \in Nat, NEW p, NEW q, NumberParts(w, i, p, q, j),
           NEW u, \A k \in 0..((j - i) - 1) : At(u, k) = At(w, i + k)
    PROVE  NumberParts(u, 0, p - i, q - i, j - i) /\ IntStart(u, 0) = IntStart(w, i) - i
  <1> DEFINE s == IntStart(w, i)
             t == IntStart(u, 0)
  <1>1. /\ s \in Nat /\ p \in Nat /\ q \in Nat /\ i <= s /\ s < p /\ p <= q /\ q <= j
    BY PartsBegin
  <1>2. IsInt(w, s, p) /\ IsFrac(w, p, q) /\ IsExp(w, q, j)
    BY Zenon DEF NumberParts
  <1>3. t = s - i
    <2>1. At(u, 0) = At(w, i)
      <3>1. 0 \in 0..((j - i) - 1) /\ i + 0 = i BY <1>1
      <3>. QED BY <3>1
    <2>. QED BY <2>1 DEF IntStart
  <1> HIDE DEF s, t
  <1>4. \A k \in i..(j - 1) : At(u, k - i) = At(w, k)
    <2> SUFFICES ASSUME NEW k \in i..(j - 1) PROVE At(u, k - i) = At(w, k)
      OBVIOUS
    <2>1. k - i \in 0..((j - i) - 1) /\ i + (k - i) = k OBVIOUS
    <2>. QED BY <2>1
  <1>5. ASSUME NEW a \in i..j, NEW b \in i..j, NEW S, AllIn(w, a, b, S) PROVE AllIn(u, a - i, b - i, S)
    <2> SUFFICES ASSUME NEW k \in (a - i)..((b - i) - 1) PROVE At(u, k) \in S
      BY DEF AllIn
    <2>1. k + i \in a..(b - 1) /\ k + i \in i..(j - 1) /\ (k + i) - i = k
      OBVIOUS
    <2>2. At(w, k + i) \in S BY <1>5, <2>1 DEF AllIn
    <2>3. At(u, k) = At(w, k + i) BY <1>4, <2>1
    <2>. QED BY <2>2, <2>3
  <1>6. IsInt(u, t, p - i)
    <2>1. s < p /\ AllIn(w, s, p, Digit) /\ (At(w, s) = Zero => p = s + 1)
      BY <1>2, NumberRules
    <2>2. s \in i..(j - 1) /\ s \in i..j /\ p \in i..j BY <1>1
    <2>3. AllIn(u, t, p - i, Digit) /\ At(u, t) = At(w, s)
      BY <1>3, <1>4, <1>5, <2>1, <2>2
    <2>4. t < p - i /\ (p = s + 1 => p - i = t + 1) BY <1>1, <1>3
    <2>. QED BY <2>1, <2>3, <2>4, NumberRules
  <1>7. IsFrac(u, p - i, q - i)
    <2>1. CASE p = q BY <2>1, NumberRules
    <2>2. CASE p # q
      <3>1. p + 1 < q /\ At(w, p) = Dot /\ AllIn(w, p + 1, q, Digit)
        BY <1>2, <2>2, NumberRules
      <3>2. p \in i..(j - 1) /\ p + 1 \in i..j /\ q \in i..j /\ (p + 1) - i = (p - i) + 1
        BY <1>1, <3>1
      <3>3. AllIn(u, (p - i) + 1, q - i, Digit) /\ At(u, p - i) = Dot
        BY <1>4, <1>5, <3>1, <3>2
      <3>4. (p - i) + 1 < q - i BY <1>1, <3>1
      <3>. QED BY <3>3, <3>4, NumberRules
    <2>. QED BY <2>1, <2>2
  <1>8. IsExp(u, q - i, j - i)
    <2>1. CASE q = j BY <2>1, NumberRules
    <2>2. CASE q # j
      <3> DEFINE d == IF At(w, q + 1) \in Signs THEN q + 2 ELSE q + 1
                 c == IF At(u, (q - i) + 1) \in Signs THEN (q - i) + 2 ELSE (q - i) + 1
      <3>1. q + 1 < j /\ At(w, q) \in Exps /\ d < j /\ AllIn(w, d, j, Digit)
        BY <1>2, <2>2, NumberRules
      <3>2. /\ q \in i..(j - 1) /\ q + 1 \in i..(j - 1) /\ (q + 1) - i = (q - i) + 1
            /\ j \in i..j /\ d \in i..j
        BY <1>1, <3>1
      <3>3. At(u, q - i) = At(w, q) /\ At(u, (q - i) + 1) = At(w, q + 1)
        <4>1. At(u, (q + 1) - i) = At(w, q + 1) BY <1>4, <3>2
        <4>. QED BY <1>4, <3>2, <4>1
      <3>4. c = d - i BY <1>1, <3>3
      <3>5. AllIn(u, d - i, j - i, Digit) BY <1>5, <3>1, <3>2
      <3>6. (q - i) + 1 < j - i /\ d - i < j - i BY <1>1, <3>1, <3>2
      <3> HIDE DEF d
      <3>7. (q - i) + 1 < j - i /\ At(u, q - i) \in Exps /\ c < j - i /\ AllIn(u, c, j - i, Digit)
        BY <3>1, <3>3, <3>4, <3>5, <3>6
      <3>. QED BY <3>7, NumberRules
    <2>. QED BY <2>1, <2>2
  <1>9. p - i \in t..(j - i) /\ q - i \in (p - i)..(j - i) BY <1>1, <1>3
  <1>. QED BY <1>3, <1>6, <1>7, <1>8, <1>9, Zenon DEF NumberParts, s, t

\* The bytes of the text that ViableNumber asks about.
LEMMA ExtendedBytes ==
    ASSUME NEW src, Len(src) \in Nat, NEW i \in 0..Len(src), NEW j \in i..Len(src)
    PROVE  LET u == Append(Slice(src, i, j), Zero)
           IN  (\A k \in 0..((j - i) - 1) : At(u, k) = At(src, i + k)) /\ At(u, j - i) = Zero
  <1> DEFINE v == SubSeq(src, i + 1, j)
             u == Append(v, Zero)
             A == {Zero} \cup {src[x] : x \in 1..Len(src)}
  <1>1. i + 1 \in Int /\ j \in Int /\ i \in Nat /\ Zero \in A /\ \A x \in (i + 1)..j : src[x] \in A
    OBVIOUS
  <1> HIDE DEF A
  <1>2. /\ v \in Seq(A)
        /\ Len(v) = IF i + 1 <= j THEN j - (i + 1) + 1 ELSE 0
        /\ \A k \in 1..(j - (i + 1) + 1) : v[k] = src[(i + 1) + k - 1]
    BY <1>1, SubSeqProperties
  <1>3. Len(v) = j - i BY <1>1, <1>2
  <1> HIDE DEF v
  <1>4. (\A k \in 1..Len(v) : u[k] = v[k]) /\ u[Len(v) + 1] = Zero
    BY <1>1, <1>2, AppendProperties
  <1> HIDE DEF u
  <1>5. ASSUME NEW k \in 0..((j - i) - 1) PROVE At(u, k) = At(src, i + k)
    <2>1. k + 1 \in 1..(j - i) /\ k + 1 \in 1..(j - (i + 1) + 1) /\ (i + 1) + (k + 1) - 1 = (i + k) + 1
      BY <1>1
    <2>2. u[k + 1] = v[k + 1] /\ v[k + 1] = src[(i + k) + 1]
      BY <1>2, <1>3, <1>4, <2>1
    <2>. QED BY <2>2 DEF At
  <1>6. At(u, j - i) = Zero BY <1>3, <1>4 DEF At
  <1>. QED BY <1>5, <1>6 DEF u, v, Slice

\* The byte at j goes on with the number [i, j) where it makes a longer number,
\* or begins a part that one digit makes whole.
LEMMA GrowsViable ==
    ASSUME NEW src, Len(src) \in Nat, NEW i \in 0..Len(src), NEW j \in i..(Len(src) - 1), NEW p, NEW q,
           NumberParts(src, i, p, q, j)
    PROVE  ViableNumber(src, i, j + 1) <=> GrowsAt(src, i, p, q, j)
  <1> DEFINE s == IntStart(src, i)
             u == Append(Slice(src, i, j + 1), Zero)
             l == j - i
             c == At(src, j)
  <1>1. ViableNumber(src, i, j + 1) <=> IsNumber(src, i, j + 1) \/ IsNumber(u, 0, (j + 1) - i + 1)
    BY Zenon DEF ViableNumber, Zero
  <1>2. i \in Nat /\ j \in Nat /\ j + 1 \in i..Len(src) /\ (j + 1) - i + 1 = l + 2 /\ (j + 1) - i = l + 1
    OBVIOUS
  <1>3. (\A k \in 0..(((j + 1) - i) - 1) : At(u, k) = At(src, i + k)) /\ At(u, (j + 1) - i) = Zero
    BY <1>2, ExtendedBytes
  <1> HIDE DEF u
  <1>4. /\ \A k \in 0..l : At(u, k) = At(src, i + k)
        /\ \A k \in 0..(l - 1) : At(u, k) = At(src, i + k)
        /\ At(u, l + 1) = Zero
    BY <1>2, <1>3
  <1>5. /\ s \in Nat /\ p \in Nat /\ q \in Nat /\ i <= s /\ s < p /\ p <= q /\ q <= j
        /\ AllIn(src, s, p, Digit) /\ (At(src, s) = Zero => p = s + 1)
        /\ p < q => p + 1 < q /\ At(src, p) = Dot /\ AllIn(src, p + 1, q, Digit)
    BY <1>2, PartsBegin
  <1>6. NumberParts(u, 0, p - i, q - i, l) /\ IntStart(u, 0) = s - i
    BY <1>2, <1>4, PartsElsewhere
  <1>7. l \in Nat /\ l > 0 /\ At(u, l) = c /\ At(u, s - i) = At(src, s)
    <2>1. l \in 0..l /\ i + l = j /\ s - i \in 0..l /\ i + (s - i) = s /\ l \in Nat /\ l > 0
      BY <1>2, <1>5
    <2>. QED BY <1>4, <2>1
  <1>8. IsInt(src, s, p) /\ IsFrac(src, p, q) /\ IsExp(src, q, j)
    BY Zenon DEF NumberParts
  <1>9. IsInt(u, s - i, p - i) /\ IsFrac(u, p - i, q - i)
    BY <1>6, Zenon DEF NumberParts
  <1>10. GrowsAt(src, i, p, q, j) <=>
           \/ c \in Digit /\ ~(p = j /\ At(src, s) = Zero)
           \/ c = Dot /\ p = j
           \/ c \in Exps /\ q = j
    BY Zenon DEF GrowsAt
  <1>11. GrowsAt(u, 0, p - i, q - i, l) <=>
           \/ At(u, l) \in Digit /\ ~(p - i = l /\ At(u, IntStart(u, 0)) = Zero)
           \/ At(u, l) = Dot /\ p - i = l
           \/ At(u, l) \in Exps /\ q - i = l
    BY Zenon DEF GrowsAt
  <1> HIDE DEF s, c
  <1>12. GrowsAt(u, 0, p - i, q - i, l) <=> GrowsAt(src, i, p, q, j)
    <2>1. (p - i = l <=> p = j) /\ (q - i = l <=> q = j) BY <1>2, <1>5
    <2>. QED BY <1>6, <1>7, <1>10, <1>11, <2>1
  <1>13. IsNumber(src, i, j + 1) => GrowsAt(src, i, p, q, j)
    <2>1. j + 1 \in Nat /\ j < j + 1 BY <1>2
    <2>. QED BY <1>2, <2>1, LongerNumber
  <1>14. IsNumber(u, 0, l + 2) => GrowsAt(u, 0, p - i, q - i, l)
    <2>1. l + 2 \in Nat /\ l < l + 2 /\ 0 \in Nat BY <1>7
    <2>. QED BY <1>6, <1>7, <2>1, LongerNumber
  <1>15. CASE c \in Digit /\ ~(p = j /\ At(src, s) = Zero)
    <2>1. ASSUME NEW a \in Nat, a <= j, AllIn(src, a, j, Digit) PROVE AllIn(src, a, j + 1, Digit)
      <3> SUFFICES ASSUME NEW k \in a..((j + 1) - 1) PROVE At(src, k) \in Digit
        BY DEF AllIn
      <3>1. k = j \/ k \in a..(j - 1) BY <1>2
      <3>. QED BY <1>15, <2>1, <3>1 DEF AllIn, c
    <2>2. /\ i < j + 1 /\ p \in s..(j + 1) /\ q \in p..(j + 1) /\ j + 1 \in s..(j + 1) /\ j + 1 \in p..(j + 1)
          /\ j + 1 \in (j + 1)..(j + 1)
      BY <1>2, <1>5
    <2>3. CASE q < j
      <3> DEFINE d == IF At(src, q + 1) \in Signs THEN q + 2 ELSE q + 1
      <3>1. q + 1 < j /\ At(src, q) \in Exps /\ d < j /\ AllIn(src, d, j, Digit)
        <4>1. q # j BY <1>2, <2>3
        <4>. QED BY <1>8, <4>1, NumberRules
      <3>2. d \in Nat BY <1>5
      <3>3. AllIn(src, d, j + 1, Digit)
        <4> HIDE DEF d
        <4>. QED BY <1>2, <2>1, <3>1, <3>2
      <3>4. q + 1 < j + 1 /\ d < j + 1 BY <1>2, <1>5, <3>1, <3>2
      <3>5. IsExp(src, q, j + 1) BY <3>1, <3>3, <3>4, NumberRules
      <3>6. NumberParts(src, i, p, q, j + 1)
        BY <1>8, <2>2, <3>5, Zenon DEF NumberParts, s
      <3>. QED BY <1>1, <1>10, <1>15, <2>2, <3>6, NumberHasParts
    <2>4. CASE q = j /\ p < q
      <3>1. AllIn(src, p + 1, j + 1, Digit) /\ p + 1 < j + 1
        BY <1>2, <1>5, <2>1, <2>4
      <3>2. IsFrac(src, p, j + 1) /\ IsExp(src, j + 1, j + 1)
        BY <1>5, <2>4, <3>1, NumberRules
      <3>3. NumberParts(src, i, p, j + 1, j + 1)
        BY <1>8, <2>2, <3>2, Zenon DEF NumberParts, s
      <3>. QED BY <1>1, <1>10, <1>15, <2>2, <3>3, NumberHasParts
    <2>5. CASE q = j /\ p = j
      <3>1. AllIn(src, s, j + 1, Digit) /\ s < j + 1 /\ At(src, s) # Zero
        BY <1>2, <1>5, <1>15, <2>1, <2>5
      <3>2. IsInt(src, s, j + 1) /\ IsFrac(src, j + 1, j + 1) /\ IsExp(src, j + 1, j + 1)
        BY <3>1, NumberRules
      <3>3. NumberParts(src, i, j + 1, j + 1, j + 1)
        BY <2>2, <3>2, Zenon DEF NumberParts, s
      <3>. QED BY <1>1, <1>10, <1>15, <2>2, <3>3, NumberHasParts
    <2>. QED BY <1>2, <1>5, <2>3, <2>4, <2>5
  <1>16. CASE c = Dot /\ p = j
    <2>1. q = j BY <1>2, <1>5, <1>16
    <2>2. AllIn(u, l + 1, l + 2, Digit) BY <1>4, <1>7, NumberBytes DEF AllIn
    <2>3. IsFrac(u, l, l + 2) /\ IsExp(u, l + 2, l + 2) /\ l = p - i
      BY <1>7, <1>16, <2>2, NumberRules
    <2>4. p - i \in (s - i)..(l + 2) /\ l + 2 \in (p - i)..(l + 2) /\ 0 < l + 2
      BY <1>2, <1>5, <1>7, <1>16
    <2>5. NumberParts(u, 0, p - i, l + 2, l + 2)
      BY <1>6, <1>9, <2>3, <2>4, Zenon DEF NumberParts
    <2>6. IsNumber(u, 0, l + 2) BY <2>4, <2>5, NumberHasParts
    <2>. QED BY <1>1, <1>2, <1>10, <1>16, <2>6
  <1>17. CASE c \in Exps /\ q = j
    <2>1. AllIn(u, l + 1, l + 2, Digit) BY <1>4, <1>7, NumberBytes DEF AllIn
    <2>2. Zero \notin Signs BY Zenon DEF Zero, Signs
    <2>3. (IF At(u, l + 1) \in Signs THEN l + 2 ELSE l + 1) = l + 1
      BY <1>4, <2>2
    <2>4. l + 1 < l + 2 BY <1>7
    <2>5. IsExp(u, l, l + 2) /\ l = q - i
      BY <1>7, <1>17, <2>1, <2>3, <2>4, NumberRules
    <2>6. p - i \in (s - i)..(l + 2) /\ q - i \in (p - i)..(l + 2) /\ 0 < l + 2
      BY <1>2, <1>5, <1>7
    <2>7. NumberParts(u, 0, p - i, q - i, l + 2)
      BY <1>6, <1>9, <2>5, <2>6, Zenon DEF NumberParts
    <2>8. IsNumber(u, 0, l + 2) BY <2>6, <2>7, NumberHasParts
    <2>. QED BY <1>1, <1>2, <1>10, <1>17, <2>8
  <1>. QED BY <1>1, <1>2, <1>10, <1>12, <1>13, <1>14, <1>15, <1>16, <1>17

\* scanNumberFast ends a number where RefEnd does.
LEMMA NumberEndsOnce ==
    ASSUME NEW src, Len(src) \in Nat, NEW i \in 0..(Len(src) - 1), NEW j \in (i + 1)..Len(src)
    PROVE  scanNumberFast(src, i) = j <=>
              IsNumber(src, i, j) /\ (j = Len(src) \/ ~ViableNumber(src, i, j + 1))
  <1> DEFINE n == Len(src)
             e == scanNumberFast(src, i)
  <1>1. i \in Nat /\ j \in Nat /\ i < j /\ j # NoValue /\ i \in 0..n /\ j \in i..n
    BY DEF NoValue
  <1>2. ASSUME e # NoValue
        PROVE  /\ e \in (i + 1)..n /\ IsNumber(src, i, e) /\ (e = n \/ ~ViableNumber(src, i, e + 1))
               /\ \A m \in Nat : e < m /\ m <= n => ~IsNumber(src, i, m)
    <2>1. e \in (i + 1)..n BY <1>2, FastNumberParts
    <2>2. PICK p, q : NumberParts(src, i, p, q, e) /\ (e = n \/ ~GrowsAt(src, i, p, q, e))
      BY <1>2, FastNumberParts
    <2> HIDE DEF e
    <2>3. e \in Nat /\ i < e BY <1>1, <2>1
    <2>4. IsNumber(src, i, e) BY <2>2, <2>3, NumberHasParts
    <2>5. e # n => ~ViableNumber(src, i, e + 1)
      <3> SUFFICES ASSUME e # n PROVE ~ViableNumber(src, i, e + 1)
        OBVIOUS
      <3>1. e \in i..(n - 1) BY <2>1, <2>3
      <3>. QED BY <1>1, <2>2, <3>1, GrowsViable
    <2>6. ASSUME NEW m \in Nat, e < m, m <= n PROVE ~IsNumber(src, i, m)
      <3>1. e # n BY <2>3, <2>6
      <3>2. ~GrowsAt(src, i, p, q, e) BY <2>2, <3>1
      <3>. QED BY <1>1, <2>2, <2>3, <2>6, <3>2, LongerNumber
    <2>. QED BY <2>1, <2>4, <2>5, <2>6
  <1>3. ASSUME IsNumber(src, i, j), j = n \/ ~ViableNumber(src, i, j + 1) PROVE e = j
    <2>1. PICK p, q : NumberParts(src, i, p, q, j) BY <1>3, NumberHasParts
    <2>2. j = n \/ ~GrowsAt(src, i, p, q, j)
      <3> SUFFICES ASSUME j # n PROVE ~GrowsAt(src, i, p, q, j)
        OBVIOUS
      <3>1. j \in i..(n - 1) BY <1>1
      <3>. QED BY <1>1, <1>3, <2>1, <3>1, GrowsViable
    <2>3. e # NoValue BY <1>1, <2>1, <2>2, FastNumberFound
    <2>4. /\ e \in (i + 1)..n /\ IsNumber(src, i, e)
          /\ \A m \in Nat : e < m /\ m <= n => ~IsNumber(src, i, m)
      BY <1>2, <2>3
    <2> HIDE DEF e
    <2>5. e \in Nat /\ e <= n BY <1>1, <2>4
    <2>6. ~(e < j) BY <1>1, <1>3, <2>4
    <2>7. ~(j < e)
      <3> SUFFICES ASSUME j < e PROVE FALSE
        OBVIOUS
      <3>1. j # n BY <2>5
      <3>2. ~GrowsAt(src, i, p, q, j) BY <2>2, <3>1
      <3>. QED BY <1>1, <2>1, <2>4, <2>5, <3>2, LongerNumber
    <2>. QED BY <1>1, <2>5, <2>6, <2>7
  <1> HIDE DEF e
  <1>. QED BY <1>1, <1>2, <1>3 DEF e

\* At a digit or a minus the values are the numbers, and the validator scans one.
LEMMA NumericRoot ==
    ASSUME NEW src, Len(src) \in Nat, NEW i \in 0..(Len(src) - 1), At(src, i) \in Digit \cup {Minus}
    PROVE  /\ Ends(src)[<<"value", i, 0>>] = scanNumberFast(src, i)
           /\ \A j \in (i + 1)..Len(src) : IsValue(src, i, j) <=> IsNumber(src, i, j)
  <1> DEFINE n == Len(src)
             c == At(src, i)
             e == Ends(src)[<<"value", i, 0>>]
             P == Parser(src)
  <1>1. i \in 0..n /\ 0 \in 0..MaxDepth BY MaxDepthAssumption
  <1>2. c \notin Openers /\ c # "n" /\ c # "t" /\ c # "f" /\ c # Quote
    <2>1. \A b \in Digit \cup {Minus} : b # "[" /\ b # LBrace /\ b # "n" /\ b # "t" /\ b # "f" /\ b # Quote
      BY Zenon DEF Digit, Minus, LBrace, Quote
    <2>. QED BY <2>1 DEF Openers
  <1>3. e = EndOf(P[<<"value", i, 0>>]) /\ P[<<"value", i, 0>>] = Parse(src, P, <<"value", i, 0>>)
    BY <1>1, EndsAre
  <1> HIDE DEF P
  <1>4. Parse(src, P, <<"value", i, 0>>) = parseValue(src, P, i, 0) BY DEF Parse
  <1>5. validValueFast(src, P, i, 0) = EndOf(parseValue(src, P, i, 0))
    BY <1>1, <1>2, ScalarFast
  <1>6. validValueFast(src, P, i, 0) = scanNumberFast(src, i)
    BY DispatchFast, Zenon
  <1>7. ASSUME NEW j \in (i + 1)..n PROVE IsValue(src, i, j) <=> IsNumber(src, i, j)
    <2> DEFINE G == JsonValue(src)
    <2>1. j \in 0..n /\ j \in i..n /\ i < j OBVIOUS
    <2>2. IsValue(src, i, j) <=> ValueRule(src, G, i, j, 0)
      BY <1>1, <2>1, RulesAre DEF IsValue
    <2> HIDE DEF G, c
    <2>3. IsNumber(src, i, j) => ValueRule(src, G, i, j, 0)
      BY <2>1, Zenon DEF ValueRule
    <2>4. ASSUME ValueRule(src, G, i, j, 0) PROVE IsNumber(src, i, j)
      <3>1. \/ IsScalar(src, i, j)
            \/ At(src, i) \in Openers
        BY <2>4, ValueParts DEF Openers
      <3>2. IsScalar(src, i, j) BY <1>2, <3>1 DEF c
      <3>. QED BY <1>1, <1>2, <2>1, <3>2, ScalarParts DEF c
    <2>. QED BY <2>2, <2>3, <2>4
  <1>. QED BY <1>3, <1>4, <1>5, <1>6, <1>7

\* The fast validator ends the root value exactly where the grammar does, and
\* finds none where there is none: a number is not cut short where a further
\* byte continues it, and a value of another kind has one end.
THEOREM RootValueExact ==
    ASSUME NEW src, Len(src) \in Nat, NEW i \in 0..(Len(src) - 1)
    PROVE  validRootValueFast(src, i) = RefEnd(src, i)
  <1> DEFINE n == Len(src)
             e == Ends(src)[<<"value", i, 0>>]
             ends == {j \in (i + 1)..n : /\ IsValue(src, i, j)
                                         /\ IsNumber(src, i, j) => j = n \/ ~ViableNumber(src, i, j + 1)}
  <1>1. i \in 0..n /\ 0 \in 0..MaxDepth /\ i \in Nat /\ n \in Nat
    BY MaxDepthAssumption
  <1>2. validRootValueFast(src, i) = e
    BY <1>1, ValuesFastAre DEF validRootValueFast
  <1>3. RefEnd(src, i) = IF ends = {} THEN NoValue ELSE CHOOSE j \in ends : TRUE
    BY Zenon DEF RefEnd
  <1>4. Recognises(src, Ends(src)) BY ParserRecognises
  <1>5. e = NoValue \/ e \in (i + 1)..n
    BY <1>1, EndsAre DEF EndOf, Reaches, NoValue
  <1> HIDE DEF e
  <1>6. \A j \in (i + 1)..n : e = j <=> j \in ends
    <2>1. CASE At(src, i) \in Digit \cup {Minus}
      <3>1. e = scanNumberFast(src, i) /\ \A j \in (i + 1)..n : IsValue(src, i, j) <=> IsNumber(src, i, j)
        BY <2>1, NumericRoot DEF e
      <3> SUFFICES ASSUME NEW j \in (i + 1)..n PROVE e = j <=> j \in ends
        OBVIOUS
      <3>2. scanNumberFast(src, i) = j <=> IsNumber(src, i, j) /\ (j = n \/ ~ViableNumber(src, i, j + 1))
        BY NumberEndsOnce
      <3>. QED BY <3>1, <3>2
    <2>2. CASE At(src, i) \notin Digit \cup {Minus}
      <3> SUFFICES ASSUME NEW j \in (i + 1)..n PROVE e = j <=> j \in ends
        OBVIOUS
      <3>1. j \in 0..n /\ j \in i..n /\ i < j /\ j # NoValue BY <1>1 DEF NoValue
      <3>2. ~IsNumber(src, i, j)
        <4> SUFFICES ASSUME IsNumber(src, i, j) PROVE FALSE
          OBVIOUS
        <4>1. \E p, q : NumberParts(src, i, p, q, j) BY NumberHasParts
        <4>2. AllIn(src, IntStart(src, i), IntStart(src, i) + 1, Digit)
          <5>1. PICK p, q : NumberParts(src, i, p, q, j) BY <4>1
          <5> DEFINE s == IntStart(src, i)
          <5>2. s \in Nat /\ p \in Nat /\ s < p /\ AllIn(src, s, p, Digit)
            BY <1>1, <3>1, <5>1, PartsBegin
          <5> HIDE DEF s
          <5>3. AllIn(src, s, s + 1, Digit) BY <5>2 DEF AllIn
          <5>. QED BY <5>3 DEF s
        <4>3. IntStart(src, i) = i BY <2>2 DEF IntStart
        <4>4. i \in i..((i + 1) - 1) BY <1>1
        <4>. QED BY <2>2, <4>2, <4>3, <4>4 DEF AllIn
      <3>3. j \in ends <=> IsValue(src, i, j) BY <3>2
      <3>4. e = j => IsValue(src, i, j)
        BY <1>1, <1>4, <3>1, RecognisedSound DEF IsValue, e
      <3>5. IsValue(src, i, j) => e = j
        BY <1>1, <1>4, <3>1, <3>2, RecognisedComplete DEF IsValue, e
      <3>. QED BY <3>3, <3>4, <3>5
    <2>. QED BY <2>1, <2>2
  <1>7. \A j : j \in ends => j \in (i + 1)..n OBVIOUS
  <1> HIDE DEF ends
  <1>8. CASE e = NoValue
    <2>1. \A j \in (i + 1)..n : e # j BY <1>1, <1>8 DEF NoValue
    <2>2. ends = {} BY <1>6, <1>7, <2>1
    <2>. QED BY <1>2, <1>3, <1>8, <2>2
  <1>9. CASE e \in (i + 1)..n
    <2>1. ends = {e} BY <1>6, <1>7, <1>9
    <2>2. ends # {} /\ (CHOOSE j \in ends : TRUE) = e BY <2>1
    <2>. QED BY <1>2, <1>3, <2>2
  <1>. QED BY <1>5, <1>8, <1>9

-----------------------------------------------------------------------------
(***************************************************************************)
(* Passing over a value that is known to be valid.                         *)
(***************************************************************************)
\* What stays from each place to the next is the same at both ends.
LEMMA SameAlong ==
    ASSUME NEW f, NEW a \in Nat, NEW b \in Nat, a <= b, \A x \in a..(b - 1) : f[x] = f[x + 1]
    PROVE  f[a] = f[b]
  <1> DEFINE T == {x \in a..b : f[a] # f[x]}
  <1> SUFFICES ASSUME f[a] # f[b] PROVE FALSE
    OBVIOUS
  <1>1. T \subseteq Nat /\ b \in T OBVIOUS
  <1>2. PICK x \in T : \A y \in T : x <= y
    <2> HIDE DEF T
    <2>. QED BY <1>1, LeastNumber
  <1>3. x \in a..b /\ f[a] # f[x] /\ x # a BY <1>2
  <1>4. x - 1 \in a..(b - 1) /\ x - 1 \in a..b /\ ~(x <= x - 1) /\ (x - 1) + 1 = x BY <1>3
  <1>5. f[a] = f[x - 1] BY <1>2, <1>4
  <1>. QED BY <1>3, <1>4, <1>5

\* A scan over the characters of a string that tells apart only the quote, where
\* it returns what C says, and the backslash, which hides the byte behind it.
Skims(src, E, C) ==
    \A k \in 0..(Len(src) - 1) :
       /\ At(src, k) = Quote => E[k] = C[k]
       /\ At(src, k) = Backslash /\ k + 2 <= Len(src) => E[k] = E[k + 2]
       /\ At(src, k) \notin {Quote, Backslash} => E[k] = E[k + 1]

\* It passes the bytes that are neither.
LEMMA SkimsOver ==
    ASSUME NEW src, Len(src) \in Nat, NEW E, NEW C, Skims(src, E, C), NEW a \in Nat, NEW b \in a..Len(src),
           \A x \in a..(b - 1) : At(src, x) \notin {Quote, Backslash}
    PROVE  E[a] = E[b]
  <1>1. b \in Nat /\ a <= b OBVIOUS
  <1>2. ASSUME NEW x \in a..(b - 1) PROVE E[x] = E[x + 1]
    <2>1. x \in 0..(Len(src) - 1) OBVIOUS
    <2>2. At(src, x) \notin {Quote, Backslash} OBVIOUS
    <2>. QED BY <2>1, <2>2 DEF Skims
  <1>. QED BY <1>1, <1>2, SameAlong

\* It passes four hexadecimal digits.
LEMMA SkimsHex ==
    ASSUME NEW src, Len(src) \in Nat, NEW E, NEW C, Skims(src, E, C), NEW a \in Nat, Hex4(src, a)
    PROVE  E[a] = E[a + 4] /\ a + 4 <= Len(src)
  <1>1. a + 4 <= Len(src) /\ \A x \in a..(a + 3) : At(src, x) \in HexDigit BY DEF Hex4
  <1>2. \A c \in HexDigit : c \notin {Quote, Backslash}
    BY Zenon DEF HexDigit, Digit, Quote, Backslash
  <1>3. a + 4 \in a..Len(src) /\ \A x \in a..((a + 4) - 1) : x \in a..(a + 3) BY <1>1
  <1>4. \A x \in a..((a + 4) - 1) : At(src, x) \notin {Quote, Backslash} BY <1>1, <1>2, <1>3
  <1>. QED BY <1>1, <1>3, <1>4, SkimsOver

\* What a character is for such a scan.
LEMMA CharParts ==
    ASSUME NEW src, NEW c \in Nat, NEW e, IsChar(src, c, e)
    PROVE  \/ e = c + 1 /\ At(src, c) \notin {Quote, Backslash}
           \/ e = c + 2 /\ At(src, c) \notin {Quote, Backslash} /\ At(src, c + 1) \notin {Quote, Backslash}
           \/ At(src, c) = Backslash /\ Escape(src, c, e)
  <1>1. CASE At(src, c) = Backslash BY <1>1, EscapeIsChar
  <1>2. CASE At(src, c) # Backslash
    BY <1>2, Zenon DEF IsChar, Quote, Backslash
  <1>. QED BY <1>1, <1>2

\* It passes a character.
LEMMA SkimsChar ==
    ASSUME NEW src, Len(src) \in Nat, NEW E, NEW C, Skims(src, E, C), NEW c \in Nat, NEW e \in (c + 1)..Len(src),
           IsChar(src, c, e)
    PROVE  E[c] = E[e]
  <1>1. c \in 0..(Len(src) - 1) /\ e \in Nat /\ e <= Len(src) OBVIOUS
  <1>2. CASE e = c + 1 /\ At(src, c) \notin {Quote, Backslash}
    BY <1>1, <1>2 DEF Skims
  <1>3. CASE e = c + 2 /\ At(src, c) \notin {Quote, Backslash} /\ At(src, c + 1) \notin {Quote, Backslash}
    <2>1. E[c] = E[c + 1] BY <1>1, <1>3 DEF Skims
    <2>2. c + 1 \in 0..(Len(src) - 1) /\ (c + 1) + 1 = c + 2 BY <1>1, <1>3
    <2>3. E[c + 1] = E[c + 2] BY <1>3, <2>2 DEF Skims
    <2>. QED BY <1>3, <2>1, <2>3
  <1>4. CASE At(src, c) = Backslash /\ Escape(src, c, e)
    <2>1. /\ (c + 1) + 1 = c + 2 /\ (c + 1) + 5 = c + 6 /\ (c + 1) + 7 = c + 8
          /\ (c + 2) + 4 = c + 6 /\ (c + 8) + 4 = c + 12 /\ (c + 6) + 2 = c + 8
      OBVIOUS
    <2>2. e = c + 2 \/ (e = c + 6 /\ OneUnit(src, c + 1)) \/ (e = c + 12 /\ TwoUnits(src, c + 1))
      BY <1>4 DEF Escape
    <2>3. c + 2 <= Len(src) BY <1>1, <2>2
    <2>4. E[c] = E[c + 2] BY <1>1, <1>4, <2>3 DEF Skims
    <2>5. CASE e = c + 2 BY <2>4, <2>5
    <2>6. CASE e = c + 6 /\ OneUnit(src, c + 1)
      <3>1. Hex4(src, c + 2) BY <2>1, <2>6 DEF OneUnit
      <3>2. E[c + 2] = E[(c + 2) + 4] BY <3>1, SkimsHex
      <3>. QED BY <2>1, <2>4, <2>6, <3>2
    <2>7. CASE e = c + 12 /\ TwoUnits(src, c + 1)
      <3>1. Hex4(src, c + 2) /\ At(src, c + 6) = Backslash /\ Hex4(src, c + 8)
        BY <2>1, <2>7 DEF TwoUnits
      <3>2. E[c + 2] = E[(c + 2) + 4] /\ E[c + 8] = E[(c + 8) + 4] BY <3>1, SkimsHex
      <3>3. c + 6 \in 0..(Len(src) - 1) /\ (c + 6) + 2 <= Len(src) BY <1>1, <2>7
      <3>4. E[c + 6] = E[(c + 6) + 2] BY <3>1, <3>3 DEF Skims
      <3>. QED BY <2>1, <2>4, <2>7, <3>2, <3>4
    <2>. QED BY <2>2, <2>5, <2>6, <2>7
  <1>. QED BY <1>2, <1>3, <1>4, CharParts

\* It ends a string of the grammar at its closing quote.
LEMMA SkimsString ==
    ASSUME NEW src, Len(src) \in Nat, NEW E, NEW C, Skims(src, E, C), NEW i \in Nat, NEW j \in 0..Len(src),
           IsString(src, i, j)
    PROVE  E[i + 1] = C[j - 1] /\ i + 1 <= j - 1
  <1> DEFINE n == Len(src)
             H == CharsFrom(src, i)
             T == {k \in (i + 1)..n : H[k] /\ E[i + 1] # E[k]}
  <1>1. i + 1 < j /\ At(src, j - 1) = Quote /\ H[j - 1] BY CharsAre
  <1>2. \A k \in 0..n : H[k] <=> \/ k = i + 1
                                 \/ \E c \in {k - 1, k - 2, k - 6, k - 12} \cap (i + 1)..k : IsChar(src, c, k) /\ H[c]
    BY CharsAre
  <1> HIDE DEF H
  <1>3. T = {}
    <2> SUFFICES ASSUME T # {} PROVE FALSE
      OBVIOUS
    <2>1. T \subseteq Nat OBVIOUS
    <2>2. PICK k \in T : \A y \in T : k <= y
      <3> HIDE DEF T
      <3>. QED BY <2>1, LeastNumber
    <2>3. k \in (i + 1)..n /\ H[k] /\ E[i + 1] # E[k] /\ k \in 0..n /\ n \in Nat
      BY <2>2
    <2>4. PICK c \in {k - 1, k - 2, k - 6, k - 12} \cap (i + 1)..k : IsChar(src, c, k) /\ H[c]
      BY <1>2, <2>3
    <2>5. c \in (i + 1)..n /\ c < k /\ c \in Nat /\ k \in (c + 1)..n
      BY <2>3, <2>4
    <2>6. E[c] = E[k] BY <2>4, <2>5, SkimsChar
    <2>7. c \notin T BY <2>2, <2>3, <2>5
    <2>. QED BY <2>3, <2>4, <2>5, <2>6, <2>7
  <1>4. j - 1 \in (i + 1)..n /\ j - 1 \in 0..(n - 1)
    BY <1>1
  <1>5. E[i + 1] = E[j - 1] BY <1>1, <1>3, <1>4
  <1>6. E[j - 1] = C[j - 1] BY <1>1, <1>4 DEF Skims
  <1>. QED BY <1>1, <1>5, <1>6

\* The bytes that open and close: a scan that passes over values tells apart no others.
Brackets == Openers \cup {"]", RBrace}

\* A scan over the inside of a container, W[<<k, d>>] at k, d deep: it goes on
\* behind a string, counts the brackets, and returns what C says of the closing
\* bracket of depth one.  A container that is d deep is opened in d bytes, at least.
Walks(src, W, C) ==
    \A k \in 0..(Len(src) - 1) : \A d \in 1..k :
       /\ At(src, k) = Quote => \A e \in 0..Len(src) : IsString(src, k, e) => W[<<k, d>>] = W[<<e, d>>]
       /\ At(src, k) \in Openers => W[<<k, d>>] = W[<<k + 1, d + 1>>]
       /\ At(src, k) \in {"]", RBrace} => W[<<k, d>>] = IF d = 1 THEN C[k] ELSE W[<<k + 1, d - 1>>]
       /\ At(src, k) \notin {Quote} \cup Brackets => W[<<k, d>>] = W[<<k + 1, d>>]

\* It passes the bytes that are none of these.
LEMMA WalksOver ==
    ASSUME NEW src, Len(src) \in Nat, NEW W, NEW C, Walks(src, W, C), NEW a \in 0..Len(src), NEW b \in a..Len(src),
           \A x \in a..(b - 1) : At(src, x) \notin {Quote} \cup Brackets, NEW d \in 1..a
    PROVE  W[<<a, d>>] = W[<<b, d>>]
  <1> DEFINE f == [x \in a..b |-> W[<<x, d>>]]
  <1>1. a \in Nat /\ b \in Nat /\ a <= b /\ a \in a..b /\ b \in a..b OBVIOUS
  <1>2. ASSUME NEW x \in a..(b - 1) PROVE f[x] = f[x + 1]
    <2>1. x \in 0..(Len(src) - 1) /\ d \in 1..x /\ x \in a..b /\ x + 1 \in a..b OBVIOUS
    <2>2. At(src, x) \notin {Quote} \cup Brackets OBVIOUS
    <2>3. W[<<x, d>>] = W[<<x + 1, d>>] BY <2>1, <2>2 DEF Walks
    <2>. QED BY <2>1, <2>3
  <1> HIDE DEF f
  <1>3. f[a] = f[b] BY <1>1, <1>2, SameAlong
  <1>. QED BY <1>1, <1>3 DEF f

\* White space, the bytes of literals and of numbers, commas and colons.
NumberInk == Digit \cup Exps \cup Signs \cup {Dot}

LEMMA PlainBytes ==
    /\ \A c \in Space \cup Letters \cup NumberInk \cup {Comma, Colon} : c \notin {Quote} \cup Brackets
    /\ Quote \notin Brackets /\ Openers \cap {"]", RBrace} = {}
    /\ \A c \in NumberInk : c \notin Space
    /\ Minus \in NumberInk
  <1>1. \A c \in Space : c \notin {Quote, "[", LBrace, "]", RBrace} BY Zenon DEF Space, Quote, LBrace, RBrace
  <1>2. \A c \in Letters : c \notin {Quote, "[", LBrace, "]", RBrace} BY Zenon DEF Letters, Quote, LBrace, RBrace
  <1>3. \A c \in NumberInk : c \notin {Quote, "[", LBrace, "]", RBrace}
    <2>1. \A c \in Digit : c \notin {Quote, "[", LBrace, "]", RBrace} BY Zenon DEF Digit, Quote, LBrace, RBrace
    <2>2. \A c \in Exps \cup Signs \cup {Dot} : c \notin {Quote, "[", LBrace, "]", RBrace}
      BY Zenon DEF Exps, Signs, Dot, Quote, LBrace, RBrace
    <2>. QED BY <2>1, <2>2 DEF NumberInk
  <1>4. \A c \in {Comma, Colon} : c \notin {Quote, "[", LBrace, "]", RBrace}
    BY Zenon DEF Comma, Colon, Quote, LBrace, RBrace
  <1>5. Quote \notin {"[", LBrace, "]", RBrace} BY Zenon DEF Quote, LBrace, RBrace
  <1>6. {"[", LBrace} \cap {"]", RBrace} = {} BY Zenon DEF LBrace, RBrace
  <1>7. \A c \in NumberInk : c \notin Space
    <2>1. \A c \in Digit : c \notin Space BY Zenon DEF Digit, Space
    <2>2. \A c \in Exps \cup Signs \cup {Dot} : c \notin Space BY Zenon DEF Exps, Signs, Dot, Space
    <2>. QED BY <2>1, <2>2 DEF NumberInk
  <1>8. Minus \in NumberInk
    <2>1. Minus \in Signs BY Zenon DEF Minus, Signs
    <2>. QED BY <2>1 DEF NumberInk
  <1>9. {Quote} \cup Brackets = {Quote, "[", LBrace, "]", RBrace} BY DEF Brackets, Openers
  <1>10. /\ \A c \in Space \cup Letters \cup NumberInk \cup {Comma, Colon} : c \notin {Quote} \cup Brackets
    BY <1>1, <1>2, <1>3, <1>4, <1>9
  <1>11. Quote \notin Brackets /\ Openers \cap {"]", RBrace} = {} BY <1>5, <1>6 DEF Brackets, Openers
  <1>. QED BY <1>7, <1>8, <1>10, <1>11

\* The bytes of a number: digits, points, exponent bytes, and signs only behind these,
\* after the one it may begin with.
NumberAt(src, k) ==
    At(src, k) \in Digit \cup {Dot} \/ At(src, k) \in Exps \/ (At(src, k) \in Signs /\ At(src, k - 1) \in Exps)

LEMMA NumberInked ==
    ASSUME NEW src, NEW i \in Nat, NEW j \in Nat, IsNumber(src, i, j)
    PROVE  /\ i < j /\ At(src, i) \in Digit \cup {Minus}
           /\ \A k \in (i + 1)..(j - 1) : NumberAt(src, k)
  <1> DEFINE s == IntStart(src, i)
  <1>1. i < j BY NumberRules
  <1>2. PICK p, q : NumberParts(src, i, p, q, j) BY NumberHasParts
  <1>3. p \in s..j /\ q \in p..j /\ IsInt(src, s, p) /\ IsFrac(src, p, q) /\ IsExp(src, q, j)
    BY <1>2 DEF NumberParts
  <1>4. s \in {i, i + 1} /\ (s = i + 1 => At(src, i) = Minus) BY DEF IntStart
  <1> HIDE DEF s
  <1>5. s \in Nat /\ p \in Nat /\ q \in Nat /\ s <= p /\ p <= q /\ q <= j BY <1>3, <1>4
  <1>6. s < p /\ AllIn(src, s, p, Digit) BY <1>3, NumberRules
  <1>7. ASSUME NEW k \in s..(p - 1) PROVE At(src, k) \in Digit
    BY <1>6 DEF AllIn
  <1>8. ASSUME NEW k \in p..(q - 1) PROVE At(src, k) \in Digit \cup {Dot}
    <2>1. p + 1 < q /\ At(src, p) = Dot /\ AllIn(src, p + 1, q, Digit)
      <3>1. p # q BY <1>5, <1>8
      <3>. QED BY <1>3, <3>1, NumberRules
    <2>2. k = p \/ k \in (p + 1)..(q - 1) BY <1>5
    <2>. QED BY <2>1, <2>2 DEF AllIn
  <1>9. ASSUME NEW k \in q..(j - 1) PROVE NumberAt(src, k)
    <2> DEFINE d == IF At(src, q + 1) \in Signs THEN q + 2 ELSE q + 1
    <2>1. q + 1 < j /\ At(src, q) \in Exps /\ d < j /\ AllIn(src, d, j, Digit)
      <3>1. q # j BY <1>5, <1>9
      <3>. QED BY <1>3, <3>1, NumberRules
    <2>2. CASE k = q BY <2>1, <2>2 DEF NumberAt
    <2>3. CASE k \in d..(j - 1) BY <2>1, <2>3 DEF NumberAt, AllIn
    <2>4. CASE k = q + 1 /\ d = q + 2
      <3>1. At(src, k) \in Signs /\ k - 1 = q BY <1>5, <2>4
      <3>. QED BY <2>1, <3>1 DEF NumberAt
    <2>. QED BY <1>5, <2>2, <2>3, <2>4
  <1>10. At(src, i) \in Digit \cup {Minus}
    <2>1. CASE s = i
      <3>1. i \in s..(p - 1) BY <1>5, <1>6, <2>1
      <3>. QED BY <1>7, <3>1
    <2>. QED BY <1>4, <2>1
  <1>11. ASSUME NEW k \in (i + 1)..(j - 1) PROVE NumberAt(src, k)
    <2>1. k \in s..(p - 1) \/ k \in p..(q - 1) \/ k \in q..(j - 1) BY <1>4, <1>5
    <2>2. k \in s..(p - 1) => NumberAt(src, k) BY <1>7 DEF NumberAt
    <2>3. k \in p..(q - 1) => NumberAt(src, k) BY <1>8 DEF NumberAt
    <2>. QED BY <1>9, <2>1, <2>2, <2>3
  <1>. QED BY <1>1, <1>10, <1>11

\* Each of them is one of a few.
LEMMA NumberIsInk ==
    ASSUME NEW src, NEW i \in Nat, NEW j \in Nat, IsNumber(src, i, j)
    PROVE  \A k \in i..(j - 1) : At(src, k) \in NumberInk
  <1> SUFFICES ASSUME NEW k \in i..(j - 1) PROVE At(src, k) \in NumberInk
    OBVIOUS
  <1>1. CASE k = i
    <2>1. At(src, k) \in Digit \cup {Minus} BY <1>1, NumberInked
    <2>. QED BY <2>1, PlainBytes DEF NumberInk
  <1>2. CASE k \in (i + 1)..(j - 1)
    <2>1. NumberAt(src, k) BY <1>2, NumberInked
    <2>. QED BY <2>1 DEF NumberAt, NumberInk
  <1>. QED BY <1>1, <1>2

\* A literal consists of letters.
LEMMA LiteralIsLetters ==
    ASSUME NEW src, Len(src) \in Nat, NEW i \in 0..Len(src), NEW j \in i..Len(src), NEW w \in Words, Slice(src, i, j) = w
    PROVE  j = i + Len(w) /\ \A k \in i..(j - 1) : At(src, k) \in Letters
  <1>1. j = i + Len(w) /\ MatchAt(src, i, w) BY LiteralIs
  <1>2. w \in Seq(Letters) /\ Len(w) \in Nat BY WordsAre DEF Words
  <1>3. ASSUME NEW k \in i..(j - 1) PROVE At(src, k) \in Letters
    <2>1. k - i \in 0..(Len(w) - 1) /\ i + (k - i) = k /\ (k - i) + 1 \in 1..Len(w) BY <1>1, <1>2
    <2>2. At(src, k) = w[(k - i) + 1] BY <1>1, <2>1 DEF MatchAt, At
    <2>3. w[(k - i) + 1] \in Letters BY <1>2, <2>1, ElementOfSeq
    <2>. QED BY <2>2, <2>3
  <1>. QED BY <1>1, <1>3


\* The rule r over the span is passed: the scan is as deep behind it as before it.
Passes(src, W, r, i, j) ==
    \A o \in 0..MaxDepth :
       JsonValue(src)[<<r, i, j, o>>] => i < j /\ \A d \in 1..i : W[<<i, d>>] = W[<<j, d>>]

\* So is whatever lies inside the span.
PassesInside(src, W, i, j) ==
    \A r \in {"value", "elements", "members"}, x \in i..j : \A y \in x..j : Passes(src, W, r, x, y)

\* White space around what it passes is passed too.
LEMMA WalksPadded ==
    ASSUME NEW src, Len(src) \in Nat, NEW W, NEW C, Walks(src, W, C), NEW r \in {"value", "elements", "members"},
           NEW a \in 0..Len(src), NEW b \in a..Len(src), NEW o \in 0..MaxDepth,
           Padded(src, JsonValue(src), r, a, b, o), PassesInside(src, W, a, b), NEW d \in 1..a
    PROVE  W[<<a, d>>] = W[<<b, d>>]
  <1> DEFINE n == Len(src)
             G == JsonValue(src)
             x == SpanEnd(src, a, Space)
  <1>1. x \in a..n /\ \A k \in a..(x - 1) : At(src, k) \in Space BY SpanEndIs
  <1>2. StartsAt(src, a, x) BY <1>1 DEF StartsAt
  <1>3. b \in 0..n /\ b \in Nat /\ a \in Nat OBVIOUS
  <1>4. PICK p \in (x + 1)..b : G[<<r, x, p, o>>] /\ SpanEnd(src, p, Space) >= b
    <2>1. Padded(src, G, r, a, b, o) OBVIOUS
    <2> HIDE DEF x, G
    <2>. QED BY <1>2, <1>3, <2>1, PaddedParts
  <1> HIDE DEF x
  <1>5. x \in a..b /\ p \in x..b /\ p \in 0..n /\ p \in Nat /\ x \in Nat /\ b \in p..n /\ x < p /\ x \in a..n BY <1>1, <1>3, <1>4
  <1>6. SpanEnd(src, p, Space) \in p..n /\ \A k \in p..(SpanEnd(src, p, Space) - 1) : At(src, k) \in Space
    BY <1>5, SpanEndIs
  <1>7. \A k \in p..(b - 1) : At(src, k) \in Space BY <1>4, <1>5, <1>6
  <1>8. \A c \in Space : c \notin {Quote} \cup Brackets BY PlainBytes
  <1>9. W[<<a, d>>] = W[<<x, d>>] BY <1>1, <1>5, <1>8, WalksOver
  <1>10. Passes(src, W, r, x, p) BY <1>5 DEF PassesInside
  <1>11. d \in 1..x /\ d \in 1..p BY <1>5
  <1>12. W[<<x, d>>] = W[<<p, d>>] BY <1>4, <1>10, <1>11 DEF Passes
  <1>13. W[<<p, d>>] = W[<<b, d>>] BY <1>5, <1>7, <1>8, <1>11, WalksOver, SMTT(30)
  <1>. QED BY <1>9, <1>12, <1>13

\* The inside of a container is passed.
LEMMA WalksInside ==
    ASSUME NEW src, Len(src) \in Nat, NEW W, NEW C, Walks(src, W, C), NEW kind \in {"[", LBrace}, NEW i \in 0..Len(src),
           NEW j \in 0..Len(src), NEW o \in 0..MaxDepth, i + 1 < j, At(src, j - 1) = CloserOf(kind),
           Bracketed(src, JsonValue(src), RuleOf(kind), i, j, o), PassesInside(src, W, i + 1, j - 1), NEW d \in 1..(i + 1)
    PROVE  W[<<i + 1, d>>] = W[<<j - 1, d>>]
  <1> DEFINE n == Len(src)
  <1>1. o < MaxDepth /\ (SpanEnd(src, i + 1, Space) = j - 1 \/ Padded(src, JsonValue(src), RuleOf(kind), i + 1, j - 1, o + 1))
    BY DEF Bracketed
  <1>2. i + 1 \in 0..n /\ j - 1 \in (i + 1)..n /\ o + 1 \in 0..MaxDepth BY <1>1, MaxDepthAssumption
  <1>3. RuleOf(kind) \in {"value", "elements", "members"} BY DEF RuleOf
  <1>4. CASE SpanEnd(src, i + 1, Space) = j - 1
    <2>1. \A k \in (i + 1)..((j - 1) - 1) : At(src, k) \in Space BY <1>2, <1>4, SpanEndIs
    <2>2. \A c \in Space : c \notin {Quote} \cup Brackets BY PlainBytes
    <2>3. \A k \in (i + 1)..((j - 1) - 1) : At(src, k) \notin {Quote} \cup Brackets BY <2>1, <2>2
    <2>4. j - 1 \in 0..Len(src) OBVIOUS
    <2>. QED BY <1>2, <2>3, <2>4, WalksOver
  <1>5. CASE Padded(src, JsonValue(src), RuleOf(kind), i + 1, j - 1, o + 1)
    BY <1>2, <1>3, <1>5, WalksPadded
  <1>. QED BY <1>1, <1>4, <1>5

\* What the shorter spans say of one.
PassesShorter(src, W, r, i, j) ==
    \A q \in {"value", "elements", "members"}, x \in i..j : \A y \in x..j :
       y - x < j - i \/ (x = i /\ y = j /\ q = "value" /\ r # "value") => Passes(src, W, q, x, y)

LEMMA ShorterInside ==
    ASSUME NEW src, NEW W, NEW r, NEW i \in Nat, NEW j \in Nat, PassesShorter(src, W, r, i, j),
           NEW a \in i..j, NEW b \in a..j, b - a < j - i
    PROVE  PassesInside(src, W, a, b)
  <1> SUFFICES ASSUME NEW q \in {"value", "elements", "members"}, NEW x \in a..b, NEW y \in x..b
               PROVE  Passes(src, W, q, x, y)
    BY DEF PassesInside
  <1>1. x \in i..j /\ y \in x..j /\ y - x < j - i OBVIOUS
  <1>. QED BY <1>1 DEF PassesShorter

\* A value is passed.
LEMMA WalksValue ==
    ASSUME NEW src, Len(src) \in Nat, NEW W, NEW C, Walks(src, W, C), NEW i \in 0..Len(src), NEW j \in 0..Len(src),
           PassesShorter(src, W, "value", i, j)
    PROVE  Passes(src, W, "value", i, j)
  <1> DEFINE n == Len(src)
             G == JsonValue(src)
  <1> SUFFICES ASSUME NEW o \in 0..MaxDepth, G[<<"value", i, j, o>>]
               PROVE  i < j /\ \A d \in 1..i : W[<<i, d>>] = W[<<j, d>>]
    BY DEF Passes
  <1>1. ValueRule(src, G, i, j, o) BY RulesAre
  <1>2. i < j BY <1>1 DEF ValueRule
  <1>3. i \in 0..(n - 1) /\ j \in i..n /\ i \in Nat /\ j \in Nat BY <1>2
  <1> SUFFICES ASSUME NEW d \in 1..i PROVE W[<<i, d>>] = W[<<j, d>>]
    BY <1>2
  <1>4. CASE IsScalar(src, i, j)
    <2>1. CASE IsString(src, i, j)
      <3>1. At(src, i) = Quote BY <1>3, <2>1, CharsAre
      <3>. QED BY <1>3, <2>1, <3>1 DEF Walks
    <2>2. CASE IsNumber(src, i, j)
      <3>1. \A k \in i..(j - 1) : At(src, k) \in NumberInk BY <1>3, <2>2, NumberIsInk
      <3>2. \A c \in NumberInk : c \notin {Quote} \cup Brackets BY PlainBytes
      <3>3. \A k \in i..(j - 1) : At(src, k) \notin {Quote} \cup Brackets BY <3>1, <3>2
      <3>4. i \in 0..Len(src) /\ j \in i..Len(src) /\ d \in 1..i BY <1>3
      <3>. QED BY <3>3, <3>4, WalksOver
    <2>3. CASE IsLiteral(src, i, j)
      <3>1. Slice(src, i, j) \in Words BY <2>3 DEF IsLiteral, Words, Null, True, False
      <3>2. \A k \in i..(j - 1) : At(src, k) \in Letters BY <1>3, <3>1, LiteralIsLetters
      <3>3. \A c \in Letters : c \notin {Quote} \cup Brackets BY PlainBytes
      <3>4. \A k \in i..(j - 1) : At(src, k) \notin {Quote} \cup Brackets BY <3>2, <3>3
      <3>5. i \in 0..Len(src) /\ j \in i..Len(src) /\ d \in 1..i BY <1>3
      <3>. QED BY <3>4, <3>5, WalksOver
    <2>. QED BY <1>4, <2>1, <2>2, <2>3 DEF IsScalar
  <1>5. ASSUME NEW kind \in {"[", LBrace}, i + 1 < j, At(src, i) = kind, At(src, j - 1) = CloserOf(kind),
               Bracketed(src, G, RuleOf(kind), i, j, o)
        PROVE  W[<<i, d>>] = W[<<j, d>>]
    <2>1. At(src, i) \in Openers /\ At(src, j - 1) \in {"]", RBrace} BY <1>5 DEF Openers, CloserOf
    <2>2. i + 1 \in i..j /\ j - 1 \in (i + 1)..j /\ (j - 1) - (i + 1) < j - i BY <1>3, <1>5
    <2>3. PassesInside(src, W, i + 1, j - 1) BY <1>3, <2>2, ShorterInside
    <2>4. d + 1 \in 1..(i + 1) /\ d + 1 \in 1..(j - 1) /\ d + 1 # 1 /\ (d + 1) - 1 = d /\ (j - 1) + 1 = j
          /\ j - 1 \in 0..(n - 1)
      BY <1>3, <1>5
    <2>5. W[<<i, d>>] = W[<<i + 1, d + 1>>] BY <1>3, <2>1 DEF Walks
    <2>6. W[<<i + 1, d + 1>>] = W[<<j - 1, d + 1>>] BY <1>5, <2>3, <2>4, WalksInside
    <2>7. W[<<j - 1, d + 1>>] = W[<<(j - 1) + 1, (d + 1) - 1>>] BY <2>1, <2>4 DEF Walks
    <2>. QED BY <2>4, <2>5, <2>6, <2>7
  <1>. QED BY <1>1, <1>4, <1>5, ValueParts

\* Elements are passed.
LEMMA WalksElements ==
    ASSUME NEW src, Len(src) \in Nat, NEW W, NEW C, Walks(src, W, C), NEW i \in 0..Len(src), NEW j \in 0..Len(src),
           PassesShorter(src, W, "elements", i, j)
    PROVE  Passes(src, W, "elements", i, j)
  <1> DEFINE n == Len(src)
             G == JsonValue(src)
  <1> SUFFICES ASSUME NEW o \in 0..MaxDepth, G[<<"elements", i, j, o>>]
               PROVE  i < j /\ \A d \in 1..i : W[<<i, d>>] = W[<<j, d>>]
    BY DEF Passes
  <1>1. ElementsRule(src, G, i, j, o) BY RulesAre
  <1>2. CASE G[<<"value", i, j, o>>]
    <2>1. i < j
      <3>1. ValueRule(src, G, i, j, o) BY <1>2, RulesAre
      <3>. QED BY <3>1 DEF ValueRule
    <2>2. i \in i..j /\ j \in i..j BY <2>1
    <2>3. Passes(src, W, "value", i, j) BY <2>2 DEF PassesShorter
    <2>. QED BY <1>2, <2>3 DEF Passes
  <1>3. ASSUME NEW k \in i..(j - 1), At(src, k) = Comma, Padded(src, G, "value", i, k, o),
               Padded(src, G, "elements", k + 1, j, o)
        PROVE  i < j /\ \A d \in 1..i : W[<<i, d>>] = W[<<j, d>>]
    <2>1. i < j /\ i \in Nat /\ j \in Nat /\ k \in Nat /\ k \in 0..(n - 1) /\ k \in i..n /\ k + 1 \in 0..n /\ j \in (k + 1)..n
      OBVIOUS
    <2>2. i \in i..j /\ k \in i..j /\ k - i < j - i /\ k + 1 \in i..j /\ j \in (k + 1)..j /\ j - (k + 1) < j - i
      BY <2>1
    <2>3. PassesInside(src, W, i, k) /\ PassesInside(src, W, k + 1, j) BY <2>1, <2>2, ShorterInside
    <2> SUFFICES ASSUME NEW d \in 1..i PROVE W[<<i, d>>] = W[<<j, d>>]
      BY <2>1
    <2>4. d \in 1..k /\ d \in 1..(k + 1) BY <2>1
    <2>5. W[<<i, d>>] = W[<<k, d>>] BY <1>3, <2>1, <2>3, WalksPadded
    <2>6. W[<<k, d>>] = W[<<k + 1, d>>]
      <3>1. Comma \notin {Quote} \cup Brackets BY PlainBytes
      <3>. QED BY <1>3, <2>1, <2>4, <3>1 DEF Walks
    <2>7. W[<<k + 1, d>>] = W[<<j, d>>] BY <1>3, <2>1, <2>3, <2>4, WalksPadded
    <2>. QED BY <2>5, <2>6, <2>7
  <1>. QED BY <1>1, <1>2, <1>3, ElementsParts

\* Members are passed.
LEMMA WalksMembers ==
    ASSUME NEW src, Len(src) \in Nat, NEW W, NEW C, Walks(src, W, C), NEW i \in 0..Len(src), NEW j \in 0..Len(src),
           PassesShorter(src, W, "members", i, j)
    PROVE  Passes(src, W, "members", i, j)
  <1> DEFINE n == Len(src)
             G == JsonValue(src)
  <1> SUFFICES ASSUME NEW o \in 0..MaxDepth, G[<<"members", i, j, o>>]
               PROVE  i < j /\ \A d \in 1..i : W[<<i, d>>] = W[<<j, d>>]
    BY DEF Passes
  <1>1. MembersRule(src, G, i, j, o) BY RulesAre
  <1>2. PICK k \in i..(j - 1) :
          /\ At(src, k) = Colon
          /\ \E s \in i..k : IsString(src, i, s) /\ SpanEnd(src, s, Space) = k
          /\ \/ Padded(src, G, "value", k + 1, j, o)
             \/ \E m \in (k + 1)..(j - 1) : /\ At(src, m) = Comma
                                            /\ Padded(src, G, "value", k + 1, m, o)
                                            /\ Padded(src, G, "members", m + 1, j, o)
    <2> HIDE DEF G
    <2>. QED BY <1>1, MembersParts
  <1>3. PICK s \in i..k : IsString(src, i, s) /\ SpanEnd(src, s, Space) = k BY <1>2
  <1>4. i < j /\ i \in Nat /\ j \in Nat /\ k \in Nat /\ s \in Nat /\ s \in 0..n /\ k \in s..n /\ k \in 0..(n - 1) /\ i \in 0..(n - 1)
        /\ k + 1 \in 0..n /\ j \in (k + 1)..n /\ k \in 0..n /\ k + 1 \in k..n
    BY <1>2, <1>3
  <1> SUFFICES ASSUME NEW d \in 1..i PROVE W[<<i, d>>] = W[<<j, d>>]
    BY <1>4
  <1>5. d \in 1..s /\ d \in 1..k /\ d \in 1..(k + 1) BY <1>3, <1>4
  <1>6. W[<<i, d>>] = W[<<s, d>>]
    <2>1. At(src, i) = Quote BY <1>3, <1>4, CharsAre
    <2>2. s \in 0..Len(src) /\ i \in 0..(Len(src) - 1) /\ IsString(src, i, s) BY <1>3, <1>4
    <2>3. \A e \in 0..Len(src) : IsString(src, i, e) => W[<<i, d>>] = W[<<e, d>>] BY <2>1, <2>2 DEF Walks
    <2>. QED BY <2>2, <2>3
  <1>7. W[<<s, d>>] = W[<<k, d>>]
    <2>1. \A x \in s..(k - 1) : At(src, x) \in Space BY <1>3, <1>4, SpanEndIs
    <2>2. \A c \in Space : c \notin {Quote} \cup Brackets BY PlainBytes
    <2>3. \A x \in s..(k - 1) : At(src, x) \notin {Quote} \cup Brackets BY <2>1, <2>2
    <2>4. s \in 0..Len(src) /\ k \in s..Len(src) /\ d \in 1..s BY <1>4, <1>5
    <2>. QED BY <2>3, <2>4, WalksOver
  <1>8. W[<<k, d>>] = W[<<k + 1, d>>]
    <2>1. Colon \notin {Quote} \cup Brackets BY PlainBytes
    <2>. QED BY <1>2, <1>4, <1>5, <2>1 DEF Walks
  <1>9. W[<<k + 1, d>>] = W[<<j, d>>]
    <2>1. CASE Padded(src, G, "value", k + 1, j, o)
      <3>1. k + 1 \in i..j /\ j \in (k + 1)..j /\ j - (k + 1) < j - i BY <1>2, <1>4
      <3>2. PassesInside(src, W, k + 1, j) BY <1>4, <3>1, ShorterInside
      <3>. QED BY <1>4, <1>5, <2>1, <3>2, WalksPadded, SMTT(60)
    <2>2. ASSUME NEW m \in (k + 1)..(j - 1), At(src, m) = Comma, Padded(src, G, "value", k + 1, m, o),
                 Padded(src, G, "members", m + 1, j, o)
          PROVE  W[<<k + 1, d>>] = W[<<j, d>>]
      <3>1. m \in Nat /\ m \in (k + 1)..n /\ m \in 0..(n - 1) /\ m + 1 \in 0..n /\ j \in (m + 1)..n
            /\ d \in 1..m /\ d \in 1..(m + 1)
        BY <1>4, <1>5
      <3>2. /\ k + 1 \in i..j /\ m \in (k + 1)..j /\ m - (k + 1) < j - i
            /\ m + 1 \in i..j /\ j \in (m + 1)..j /\ j - (m + 1) < j - i
        BY <1>2, <1>4, <3>1
      <3>3. PassesInside(src, W, k + 1, m) /\ PassesInside(src, W, m + 1, j) BY <1>4, <3>2, ShorterInside
      <3>4. W[<<k + 1, d>>] = W[<<m, d>>] BY <1>4, <1>5, <2>2, <3>1, <3>3, WalksPadded, SMTT(60)
      <3>5. W[<<m, d>>] = W[<<m + 1, d>>]
        <4>1. Comma \notin {Quote} \cup Brackets BY PlainBytes
        <4>. QED BY <2>2, <3>1, <4>1 DEF Walks
      <3>6. W[<<m + 1, d>>] = W[<<j, d>>] BY <2>2, <3>1, <3>3, WalksPadded
      <3>. QED BY <3>4, <3>5, <3>6
    <2>. QED BY <1>2, <2>1, <2>2
  <1>. QED BY <1>6, <1>7, <1>8, <1>9

\* Every construct is passed.
LEMMA WalksAll ==
    ASSUME NEW src, Len(src) \in Nat, NEW W, NEW C, Walks(src, W, C)
    PROVE  PassesInside(src, W, 0, Len(src))
  <1> DEFINE n == Len(src)
             kinds == {"value", "elements", "members"}
             rank(r, i, j) == 2 * (j - i) + IF r = "value" THEN 0 ELSE 1
             T == {rank(r, i, j) : r \in kinds, i \in 0..n, j \in 0..n}
             B == {t \in Nat : \E r \in kinds, i \in 0..n : \E j \in i..n : t = rank(r, i, j) /\ ~Passes(src, W, r, i, j)}
  <1> SUFFICES ASSUME NEW r0 \in kinds, NEW i0 \in 0..n, NEW j0 \in i0..n, ~Passes(src, W, r0, i0, j0) PROVE FALSE
    BY DEF PassesInside
  <1>1. B \subseteq Nat OBVIOUS
  <1>2. B # {}
    <2>1. rank(r0, i0, j0) \in Nat OBVIOUS
    <2> HIDE DEF rank
    <2>2. rank(r0, i0, j0) \in B BY <2>1
    <2>. QED BY <2>2
  <1>3. PICK t \in B : \A y \in B : t <= y
    <2> HIDE DEF B
    <2>. QED BY <1>1, <1>2, LeastNumber
  <1>4. PICK r \in kinds, i \in 0..n : \E j \in i..n : t = rank(r, i, j) /\ ~Passes(src, W, r, i, j)
    <2> HIDE DEF rank
    <2>. QED BY <1>3
  <1>5. PICK j \in i..n : t = rank(r, i, j) /\ ~Passes(src, W, r, i, j) BY <1>4
  <1>6. j \in 0..n /\ i \in Nat /\ j \in Nat OBVIOUS
  <1>7. PassesShorter(src, W, r, i, j)
    <2> SUFFICES ASSUME NEW q \in kinds, NEW x \in i..j, NEW y \in x..j, ~Passes(src, W, q, x, y),
                        y - x < j - i \/ (x = i /\ y = j /\ q = "value" /\ r # "value")
                 PROVE  FALSE
      BY DEF PassesShorter
    <2>1. x \in 0..n /\ y \in x..n /\ rank(q, x, y) \in Nat OBVIOUS
    <2>2. rank(q, x, y) < rank(r, i, j) BY <1>6
    <2> HIDE DEF rank
    <2>3. rank(q, x, y) \in B BY <2>1
    <2> HIDE DEF B
    <2>4. t <= rank(q, x, y) /\ t \in Nat BY <1>1, <1>3, <2>3
    <2>. QED BY <1>5, <2>1, <2>2, <2>4
  <1> HIDE DEF rank, B
  <1>8. CASE r = "value" BY <1>5, <1>6, <1>7, <1>8, WalksValue
  <1>9. CASE r = "elements" BY <1>5, <1>6, <1>7, <1>9, WalksElements
  <1>10. CASE r = "members" BY <1>5, <1>6, <1>7, <1>10, WalksMembers
  <1>. QED BY <1>8, <1>9, <1>10

\* A scan ends a container of the grammar at its closing bracket.
LEMMA WalksContainer ==
    ASSUME NEW src, Len(src) \in Nat, NEW W, NEW C, Walks(src, W, C), NEW i \in 0..Len(src), NEW j \in 0..Len(src),
           IsValue(src, i, j), At(src, i) \in Openers
    PROVE  W[<<i + 1, 1>>] = C[j - 1] /\ i + 1 < j
  <1> DEFINE n == Len(src)
             G == JsonValue(src)
  <1>1. 0 \in 0..MaxDepth BY MaxDepthAssumption
  <1>2. ValueRule(src, G, i, j, 0) BY <1>1, RulesAre DEF IsValue
  <1>3. i < j BY <1>2 DEF ValueRule
  <1>4. j \in i..n /\ i \in Nat /\ j \in Nat BY <1>3
  <1>5. ~IsScalar(src, i, j)
    <2> SUFFICES ASSUME IsScalar(src, i, j) PROVE FALSE
      OBVIOUS
    <2>1. At(src, i) \in {"n", "t", "f"} \/ At(src, i) \in Digit \cup {Minus} \/ At(src, i) = Quote
      BY <1>4, ScalarParts
    <2>. QED BY <2>1, FirstBytes, Zenon DEF Openers
  <1>6. PICK kind \in {"[", LBrace} : /\ i + 1 < j /\ At(src, i) = kind /\ At(src, j - 1) = CloserOf(kind)
                                      /\ Bracketed(src, G, RuleOf(kind), i, j, 0)
    <2> HIDE DEF G
    <2>. QED BY <1>2, <1>5, ValueParts
  <1>7. PassesInside(src, W, i + 1, j - 1)
    <2>1. PassesInside(src, W, 0, n) BY WalksAll
    <2> SUFFICES ASSUME NEW q \in {"value", "elements", "members"}, NEW x \in (i + 1)..(j - 1), NEW y \in x..(j - 1)
                 PROVE  Passes(src, W, q, x, y)
      BY DEF PassesInside
    <2>2. x \in 0..n /\ y \in x..n BY <1>4
    <2>. QED BY <2>1, <2>2 DEF PassesInside
  <1>8. 1 \in 1..(i + 1) /\ 1 \in 1..(j - 1) /\ j - 1 \in 0..(n - 1) BY <1>4, <1>6
  <1>9. W[<<i + 1, 1>>] = W[<<j - 1, 1>>] BY <1>1, <1>6, <1>7, <1>8, WalksInside
  <1>10. At(src, j - 1) \in {"]", RBrace} BY <1>6 DEF CloserOf
  <1>11. W[<<j - 1, 1>>] = C[j - 1] BY <1>8, <1>10 DEF Walks
  <1>. QED BY <1>6, <1>9, <1>11
=============================================================================
