----------------------------- MODULE FrameProofs -----------------------------
(***************************************************************************)
(* Proofs about the frame of a value and the cursor's skipper, for every   *)
(* text.  A frame does not see where the refills fall nor where in the     *)
(* buffer its value lies; on a valid value it ends where the grammar does, *)
(* and so does the skipper.                                                *)
(***************************************************************************)
EXTENDS ValueFrame, TextProofs

-----------------------------------------------------------------------------
(***************************************************************************)
(* A frame resumed at any byte is the frame of one scan.                   *)
(***************************************************************************)

\* The special byte that stops the scan of src[:n] at k.
Stop(src, n, k) == scanStringSpecial(SubSeq(src, 1, n), k)

\* It is the first special byte behind k, or n.
LEMMA StopIs ==
    ASSUME NEW src, Len(src) \in Nat, NEW n \in 0..Len(src), NEW k \in 0..n
    PROVE  /\ Stop(src, n, k) \in k..n
           /\ \A x \in k..(Stop(src, n, k) - 1) : At(src, x) \notin StringSpecial
           /\ Stop(src, n, k) = n \/ At(src, Stop(src, n, k)) \in StringSpecial
  <1> DEFINE u == SubSeq(src, 1, n)
             A == {src[x] : x \in 1..Len(src)}
             T == {j \in k..n : j = n \/ At(src, j) \in StringSpecial}
             End(j) == /\ \A x \in k..(j - 1) : At(u, x) \notin StringSpecial
                       /\ j = Len(u) \/ At(u, j) \in StringSpecial
  <1>1. 1 \in Int /\ n \in Int /\ \A x \in 1..n : src[x] \in A
    OBVIOUS
  <1> HIDE DEF A
  <1>2. /\ Len(u) = IF 1 <= n THEN n - 1 + 1 ELSE 0
        /\ \A x \in 1..(n - 1 + 1) : u[x] = src[1 + x - 1]
    BY <1>1, SubSeqProperties
  <1>3. Len(u) = n /\ \A x \in 0..(n - 1) : At(u, x) = At(src, x)
    <2>1. Len(u) = n
      BY <1>2
    <2>2. ASSUME NEW x \in 0..(n - 1) PROVE At(u, x) = At(src, x)
      <3>1. x + 1 \in 1..(n - 1 + 1) /\ 1 + (x + 1) - 1 = x + 1
        OBVIOUS
      <3>2. u[x + 1] = src[1 + (x + 1) - 1]
        BY <1>2, <3>1
      <3>. QED
        BY <3>1, <3>2 DEF At
    <2>. QED
      BY <2>1, <2>2
  <1> HIDE DEF u
  <1>4. T \subseteq Nat /\ n \in T
    OBVIOUS
  <1>5. PICK t \in T : \A y \in T : t <= y
    <2> HIDE DEF T
    <2>. QED
      BY <1>4, LeastNumber
  <1>6. \A x \in k..(t - 1) : At(src, x) \notin StringSpecial
    <2> SUFFICES ASSUME NEW x \in k..(t - 1), At(src, x) \in StringSpecial PROVE FALSE
      OBVIOUS
    <2>1. x \in T /\ ~(t <= x)
      BY <1>5
    <2>. QED
      BY <1>5, <2>1
  <1>7. ASSUME NEW j \in k..n
        PROVE  End(j) <=> /\ \A x \in k..(j - 1) : At(src, x) \notin StringSpecial
                          /\ j = n \/ At(src, j) \in StringSpecial
    <2>1. \A x \in k..(j - 1) : x \in 0..(n - 1)
      OBVIOUS
    <2>2. j # n => j \in 0..(n - 1)
      OBVIOUS
    <2>. QED
      BY <1>3, <2>1, <2>2
  <1>8. \E j \in k..Len(u) : End(j)
    BY <1>3, <1>5, <1>6, <1>7
  <1>9. Stop(src, n, k) = CHOOSE j \in k..Len(u) : End(j)
    BY Zenon DEF Stop, scanStringSpecial, u
  <1> HIDE DEF End
  <1>10. Stop(src, n, k) \in k..Len(u) /\ End(Stop(src, n, k))
    BY <1>8, <1>9
  <1>. QED
    BY <1>3, <1>7, <1>10

\* Two cuts of a text stop at the same byte, or the shorter one at its end,
\* where the longer one goes on.
LEMMA StopsAgree ==
    ASSUME NEW src, Len(src) \in Nat, NEW n \in 0..Len(src), NEW m \in 0..n, NEW k \in 0..m
    PROVE  /\ Stop(src, m, k) < m => Stop(src, n, k) = Stop(src, m, k)
           /\ Stop(src, m, k) = m => Stop(src, n, k) = Stop(src, n, m)
  <1> DEFINE a == Stop(src, m, k)
             b == Stop(src, n, k)
             c == Stop(src, n, m)
  <1>1. m \in 0..Len(src) /\ k \in 0..n /\ m \in Nat /\ n \in Nat /\ k \in Nat
    OBVIOUS
  <1>2. a \in k..m /\ (\A x \in k..(a - 1) : At(src, x) \notin StringSpecial) /\ (a = m \/ At(src, a) \in StringSpecial)
    BY <1>1, StopIs
  <1>3. b \in k..n /\ (\A x \in k..(b - 1) : At(src, x) \notin StringSpecial) /\ (b = n \/ At(src, b) \in StringSpecial)
    BY <1>1, StopIs
  <1>4. c \in m..n /\ (\A x \in m..(c - 1) : At(src, x) \notin StringSpecial) /\ (c = n \/ At(src, c) \in StringSpecial)
    BY <1>1, StopIs
  <1> HIDE DEF a, b, c
  <1>5. ASSUME a < m PROVE b = a
    <2>1. ~(a < b)
      <3> SUFFICES ASSUME a < b PROVE FALSE
        OBVIOUS
      <3>1. a \in k..(b - 1)
        BY <1>1, <1>2, <1>3
      <3>. QED
        BY <1>2, <1>3, <1>5, <3>1
    <2>2. ~(b < a)
      <3> SUFFICES ASSUME b < a PROVE FALSE
        OBVIOUS
      <3>1. b \in k..(a - 1) /\ b # n
        BY <1>1, <1>2, <1>3
      <3>. QED
        BY <1>2, <1>3, <3>1
    <2>. QED
      BY <1>1, <1>2, <1>3, <2>1, <2>2
  <1>6. ASSUME a = m PROVE b = c
    <2>1. ~(b < m)
      <3> SUFFICES ASSUME b < m PROVE FALSE
        OBVIOUS
      <3>1. b \in k..(a - 1) /\ b # n
        BY <1>1, <1>3, <1>6
      <3>. QED
        BY <1>2, <1>3, <3>1
    <2>2. ~(b < c)
      <3> SUFFICES ASSUME b < c PROVE FALSE
        OBVIOUS
      <3>1. b \in m..(c - 1) /\ b # n
        BY <1>1, <1>3, <1>4, <2>1
      <3>. QED
        BY <1>3, <1>4, <3>1
    <2>3. ~(c < b)
      <3> SUFFICES ASSUME c < b PROVE FALSE
        OBVIOUS
      <3>1. c \in k..(b - 1) /\ c # n
        BY <1>1, <1>3, <1>4
      <3>. QED
        BY <1>3, <1>4, <3>1
    <2>. QED
      BY <1>1, <1>3, <1>4, <2>2, <2>3
  <1>. QED
    BY <1>5, <1>6 DEF a, b, c

\* One turn of scanStringBody at k; f is what the following turns return.
BodyTurn(src, n, f, k, e) ==
    IF k >= n THEN [i |-> k, esc |-> e, done |-> FALSE]
    ELSE IF e THEN f[<<k + 1, FALSE>>]
    ELSE IF Stop(src, n, k) >= n THEN [i |-> n, esc |-> FALSE, done |-> FALSE]
    ELSE IF At(src, Stop(src, n, k)) = Quote THEN [i |-> Stop(src, n, k) + 1, esc |-> FALSE, done |-> TRUE]
    ELSE f[<<Stop(src, n, k) + 1, At(src, Stop(src, n, k)) = Backslash>>]

\* scanStringBody at every offset, with and without an escape pending.
StringScan(src, n) ==
    LET body[s \in (0..n) \X BOOLEAN] == BodyTurn(src, n, body, s[1], s[2])
    IN  body

\* scanStringBody goes on turn by turn.
LEMMA BodyTurns ==
    ASSUME NEW src, Len(src) \in Nat, NEW n \in 0..Len(src), NEW k \in 0..n, NEW e \in BOOLEAN
    PROVE  /\ scanStringBody(src, k, n, e) = BodyTurn(src, n, StringScan(src, n), k, e)
           /\ scanStringBody(src, k, n, e) = StringScan(src, n)[<<k, e>>]
  <1> DEFINE D == (0..n) \X BOOLEAN
             V == [i : 0..n, esc : BOOLEAN, done : BOOLEAN]
             G(f) == [s \in D |-> BodyTurn(src, n, f, s[1], s[2])]
             F == [f \in [D -> V] |-> G(f)]
             rank == [s \in D |-> n - s[1]]
             body == StringScan(src, n)
  <1>1. ASSUME NEW s \in D PROVE s[1] \in 0..n /\ s[2] \in BOOLEAN
    OBVIOUS
  <1>2. ASSUME NEW x \in 0..n
        PROVE  /\ Stop(src, n, x) \in x..n
               /\ ~(Stop(src, n, x) >= n) => Stop(src, n, x) + 1 \in 0..n /\ x < Stop(src, n, x) + 1
    <2>1. Stop(src, n, x) \in x..n
      BY <1>2, StopIs
    <2>. QED
      BY <2>1
  <1>3. ASSUME NEW f \in [D -> V], NEW s \in D PROVE BodyTurn(src, n, f, s[1], s[2]) \in V
    <2> DEFINE x == s[1]
               a == Stop(src, n, x)
    <2>1. x \in 0..n /\ s[2] \in BOOLEAN /\ a \in x..n /\ (~(a >= n) => a + 1 \in 0..n)
      BY <1>1, <1>2
    <2> HIDE DEF x, a
    <2>2. CASE x >= n
      <3>1. BodyTurn(src, n, f, s[1], s[2]) = [i |-> x, esc |-> s[2], done |-> FALSE]
        BY <2>2 DEF BodyTurn, x
      <3>. QED
        BY <2>1, <3>1
    <2>3. CASE ~(x >= n)
      <3>1. x + 1 \in 0..n
        BY <2>1, <2>3
      <3>2. \A y \in 0..n : \A z \in BOOLEAN : f[<<y, z>>] \in V
        OBVIOUS
      <3>3. BodyTurn(src, n, f, s[1], s[2]) =
              IF s[2] THEN f[<<x + 1, FALSE>>]
              ELSE IF a >= n THEN [i |-> n, esc |-> FALSE, done |-> FALSE]
              ELSE IF At(src, a) = Quote THEN [i |-> a + 1, esc |-> FALSE, done |-> TRUE]
              ELSE f[<<a + 1, At(src, a) = Backslash>>]
        BY <2>3, Zenon DEF BodyTurn, x, a
      <3>4. (At(src, a) = Backslash) \in BOOLEAN
        OBVIOUS
      <3>5. f[<<x + 1, FALSE>>] \in V
        BY <3>1, <3>2
      <3>6. ~(a >= n) => f[<<a + 1, At(src, a) = Backslash>>] \in V
        BY <2>1, <3>2, <3>4
      <3>7. n \in 0..n
        OBVIOUS
      <3> HIDE DEF V
      <3>8. [i |-> n, esc |-> FALSE, done |-> FALSE] \in V /\ (~(a >= n) => [i |-> a + 1, esc |-> FALSE, done |-> TRUE] \in V)
        BY <2>1, <3>7 DEF V
      <3>. QED
        BY <3>3, <3>5, <3>6, <3>8
    <2>. QED
      BY <2>2, <2>3
  <1>4. ASSUME NEW f, NEW h, NEW s \in D, \A x \in D : rank[x] < rank[s] => f[x] = h[x]
        PROVE  BodyTurn(src, n, f, s[1], s[2]) = BodyTurn(src, n, h, s[1], s[2])
    <2> DEFINE x == s[1]
               a == Stop(src, n, x)
    <2>1. x \in 0..n /\ s[2] \in BOOLEAN /\ a \in x..n /\ (~(a >= n) => a + 1 \in 0..n /\ x < a + 1) /\ rank[s] = n - x
      BY <1>1, <1>2
    <2> HIDE DEF x, a
    <2>2. ASSUME NEW y \in 0..n, NEW z \in BOOLEAN, x < y PROVE f[<<y, z>>] = h[<<y, z>>]
      <3>1. <<y, z>> \in D /\ rank[<<y, z>>] = n - y
        OBVIOUS
      <3>2. n - y < n - x
        BY <2>1, <2>2
      <3>. QED
        BY <1>4, <2>1, <3>1, <3>2
    <2>3. ~(x >= n) => f[<<x + 1, FALSE>>] = h[<<x + 1, FALSE>>]
      <3> SUFFICES ASSUME ~(x >= n) PROVE f[<<x + 1, FALSE>>] = h[<<x + 1, FALSE>>]
        OBVIOUS
      <3>1. x + 1 \in 0..n /\ x < x + 1
        BY <2>1
      <3>. QED
        BY <2>2, <3>1
    <2>4. (At(src, a) = Backslash) \in BOOLEAN
      OBVIOUS
    <2>5. ~(a >= n) => f[<<a + 1, At(src, a) = Backslash>>] = h[<<a + 1, At(src, a) = Backslash>>]
      BY <2>1, <2>2, <2>4
    <2>. QED
      BY <2>3, <2>5, Zenon DEF BodyTurn, x, a
  <1>5. rank \in [D -> 0..n] /\ [s \in D |-> [i |-> 0, esc |-> FALSE, done |-> FALSE]] \in [D -> V] /\ n \in Nat
    OBVIOUS
  <1>6. F \in [[D -> V] -> [D -> V]]
    BY <1>3, ZenonT(30)
  <1>7. ASSUME NEW f \in [D -> V], NEW h \in [D -> V], NEW s \in D, \A x \in D : rank[x] < rank[s] => f[x] = h[x]
        PROVE  F[f][s] = F[h][s]
    <2>1. F[f][s] = BodyTurn(src, n, f, s[1], s[2]) /\ F[h][s] = BodyTurn(src, n, h, s[1], s[2])
      OBVIOUS
    <2> HIDE DEF F, D, V, rank
    <2>2. BodyTurn(src, n, f, s[1], s[2]) = BodyTurn(src, n, h, s[1], s[2])
      BY <1>4, <1>7
    <2>. QED
      BY <2>1, <2>2
  <1>8. \E f : f = G(f)
    <2>1. Recursion(F, D, V, rank)
      <3> HIDE DEF F, D, V, rank, G
      <3>. QED
        BY <1>6, <1>7 DEF Recursion
    <2>2. IsMet(F, D, V)
      <3> HIDE DEF F, D, V, rank
      <3>. QED
        BY <1>5, <2>1, RecursionIsMet
    <2>3. PICK f \in [D -> V] : F[f] = f
      BY <2>2 DEF IsMet
    <2>4. F[f] = G(f)
      BY <2>3
    <2>. QED
      BY <2>3, <2>4
  <1>9. body = CHOOSE f : f = G(f)
    BY Zenon DEF StringScan
  <1>10. body = G(body)
    <2> HIDE DEF G, body
    <2>. QED
      BY <1>8, <1>9
  <1>11. scanStringBody(src, k, n, e) = (CHOOSE f : f = G(f))[<<k, e>>]
    BY Zenon DEF scanStringBody, BodyTurn, Stop, Quote, Backslash
  <1> HIDE DEF body
  <1>12. body[<<k, e>>] = BodyTurn(src, n, body, k, e)
    <2>1. <<k, e>> \in D
      OBVIOUS
    <2>. QED
      BY <1>10, <2>1
  <1>. QED
    BY <1>9, <1>11, <1>12 DEF body

\* What scanStringBody returns at k is what it returns further on, or the end.
LEMMA StringGoesOn ==
    ASSUME NEW src, Len(src) \in Nat, NEW n \in 0..Len(src), NEW k \in 0..n, NEW e \in BOOLEAN
    PROVE  LET s == scanStringBody(src, k, n, e)
               a == Stop(src, n, k)
           IN  /\ k = n => s = [i |-> n, esc |-> e, done |-> FALSE]
               /\ k < n /\ e => s = scanStringBody(src, k + 1, n, FALSE)
               /\ k < n /\ ~e /\ a = n => s = [i |-> n, esc |-> FALSE, done |-> FALSE]
               /\ k < n /\ ~e /\ a < n /\ At(src, a) = Quote => s = [i |-> a + 1, esc |-> FALSE, done |-> TRUE]
               /\ k < n /\ ~e /\ a < n /\ At(src, a) # Quote =>
                     s = scanStringBody(src, a + 1, n, At(src, a) = Backslash)
  <1> DEFINE s == scanStringBody(src, k, n, e)
             a == Stop(src, n, k)
             f == StringScan(src, n)
  <1>1. a \in k..n
    BY StopIs
  <1>2. s = BodyTurn(src, n, f, k, e)
    BY BodyTurns
  <1>3. ASSUME NEW x \in 0..n, NEW b \in BOOLEAN PROVE f[<<x, b>>] = scanStringBody(src, x, n, b)
    BY <1>3, BodyTurns
  <1>4. s = IF k >= n THEN [i |-> k, esc |-> e, done |-> FALSE]
            ELSE IF e THEN f[<<k + 1, FALSE>>]
            ELSE IF a >= n THEN [i |-> n, esc |-> FALSE, done |-> FALSE]
            ELSE IF At(src, a) = Quote THEN [i |-> a + 1, esc |-> FALSE, done |-> TRUE]
            ELSE f[<<a + 1, At(src, a) = Backslash>>]
    BY <1>2, Zenon DEF BodyTurn
  <1> HIDE DEF s, a, f
  <1>5. k = n => s = [i |-> n, esc |-> e, done |-> FALSE]
    BY <1>4
  <1>6. k < n /\ e => s = scanStringBody(src, k + 1, n, FALSE)
    <2> SUFFICES ASSUME k < n, e PROVE s = scanStringBody(src, k + 1, n, FALSE)
      OBVIOUS
    <2>1. k + 1 \in 0..n /\ ~(k >= n)
      OBVIOUS
    <2>2. s = f[<<k + 1, FALSE>>]
      BY <1>4, <2>1
    <2>. QED
      BY <1>3, <2>1, <2>2
  <1>7. k < n /\ ~e /\ a = n => s = [i |-> n, esc |-> FALSE, done |-> FALSE]
    BY <1>4
  <1>8. k < n /\ ~e /\ a < n /\ At(src, a) = Quote => s = [i |-> a + 1, esc |-> FALSE, done |-> TRUE]
    BY <1>1, <1>4
  <1>9. k < n /\ ~e /\ a < n /\ At(src, a) # Quote => s = scanStringBody(src, a + 1, n, At(src, a) = Backslash)
    <2> SUFFICES ASSUME k < n, ~e, a < n, At(src, a) # Quote
                 PROVE  s = scanStringBody(src, a + 1, n, At(src, a) = Backslash)
      OBVIOUS
    <2>1. a + 1 \in 0..n /\ ~(k >= n) /\ ~(a >= n)
      BY <1>1
    <2>2. s = f[<<a + 1, At(src, a) = Backslash>>]
      BY <1>4, <2>1
    <2>3. (At(src, a) = Backslash) \in BOOLEAN
      OBVIOUS
    <2>. QED
      BY <1>3, <2>1, <2>2, <2>3
  <1>. QED
    BY <1>5, <1>6, <1>7, <1>8, <1>9 DEF s, a

\* r, what a scan of src[:m] returned at k, and w, what one of src[:n] does: r
\* is final, or the scan of src[:n] goes on from m with what r kept.
StringResumed(src, m, n, k, r, w) ==
    /\ r.i \in k..m /\ (k < m => k < r.i) /\ r.esc \in BOOLEAN /\ r.done \in BOOLEAN
    /\ r.done => w = r
    /\ ~r.done => r.i = m /\ w = scanStringBody(src, m, n, r.esc)

\* A string that src[:m] cut off goes on from there.
LEMMA StringResumes ==
    ASSUME NEW src, Len(src) \in Nat, NEW n \in 0..Len(src), NEW m \in 0..n
    PROVE  \A k \in 0..m : \A e \in BOOLEAN :
              StringResumed(src, m, n, k, scanStringBody(src, k, m, e), scanStringBody(src, k, n, e))
  <1> DEFINE S(k, e) == scanStringBody(src, k, m, e)
             W(k, e) == scanStringBody(src, k, n, e)
             Q == {k \in 0..m : \A e \in BOOLEAN : StringResumed(src, m, n, k, S(k, e), W(k, e))}
  <1>1. m \in 0..Len(src) /\ m \in Nat /\ n \in Nat /\ m <= n
    OBVIOUS
  <1>2. ASSUME NEW k \in 0..m, \A x \in 0..m : k < x => x \in Q, NEW e \in BOOLEAN
        PROVE  StringResumed(src, m, n, k, S(k, e), W(k, e))
    <2> DEFINE a == Stop(src, m, k)
               b == Stop(src, n, k)
    <2>1. k \in 0..n /\ k \in Nat /\ a \in k..m /\ b \in k..n
      <3>1. k \in 0..n
        BY <1>1
      <3>. QED
        BY <1>1, <3>1, StopIs
    <2>2. ASSUME NEW x \in 0..m, k < x, NEW y \in BOOLEAN, S(k, e) = S(x, y), W(k, e) = W(x, y)
          PROVE  StringResumed(src, m, n, k, S(k, e), W(k, e))
      <3>1. StringResumed(src, m, n, x, S(x, y), W(x, y))
        BY <1>2, <2>2
      <3> DEFINE r == S(x, y)
                 w == W(x, y)
      <3>2. /\ r.i \in x..m /\ r.esc \in BOOLEAN /\ r.done \in BOOLEAN
            /\ r.done => w = r
            /\ ~r.done => r.i = m /\ w = scanStringBody(src, m, n, r.esc)
        BY <3>1 DEF StringResumed
      <3> HIDE DEF r, w
      <3>3. r.i \in k..m /\ k < r.i
        BY <2>2, <3>2
      <3>4. StringResumed(src, m, n, k, r, w)
        BY <3>2, <3>3 DEF StringResumed
      <3>. QED
        BY <2>2, <3>4 DEF r, w
    <2>3. CASE k = m
      <3>1. S(k, e) = [i |-> m, esc |-> e, done |-> FALSE]
        BY <1>1, <2>3, StringGoesOn
      <3>2. W(k, e) = scanStringBody(src, m, n, e)
        BY <2>3
      <3> HIDE DEF S, W
      <3>. QED
        BY <2>3, <3>1, <3>2 DEF StringResumed
    <2>4. CASE k < m /\ e
      <3>1. k < n /\ k + 1 \in 0..m /\ k < k + 1
        BY <1>1, <2>4
      <3>2. S(k, e) = S(k + 1, FALSE)
        BY <1>1, <2>4, StringGoesOn
      <3>3. W(k, e) = W(k + 1, FALSE)
        BY <2>1, <2>4, <3>1, StringGoesOn
      <3> HIDE DEF S, W
      <3>. QED
        BY <2>2, <3>1, <3>2, <3>3
    <2>5. CASE k < m /\ ~e /\ a < m
      <3>1. b = a
        BY <1>1, <2>5, StopsAgree
      <3>2. k < n /\ b < n /\ a + 1 \in 0..m /\ k < a + 1
        BY <1>1, <2>1, <2>5, <3>1
      <3>3. CASE At(src, a) = Quote
        <4>1. S(k, e) = [i |-> a + 1, esc |-> FALSE, done |-> TRUE]
          BY <1>1, <2>5, <3>3, StringGoesOn
        <4>2. W(k, e) = [i |-> a + 1, esc |-> FALSE, done |-> TRUE]
          <5>1. At(src, b) = Quote
            BY <3>1, <3>3
          <5>2. W(k, e) = [i |-> b + 1, esc |-> FALSE, done |-> TRUE]
            BY <2>1, <2>5, <3>2, <5>1, StringGoesOn
          <5>. QED
            BY <3>1, <5>2
        <4> HIDE DEF S, W, a, b
        <4>3. a + 1 \in k..m
          BY <2>1, <3>2
        <4>. QED
          BY <3>2, <4>1, <4>2, <4>3 DEF StringResumed
      <3>4. CASE At(src, a) # Quote
        <4>1. S(k, e) = S(a + 1, At(src, a) = Backslash)
          BY <1>1, <2>5, <3>4, StringGoesOn
        <4>2. W(k, e) = W(a + 1, At(src, a) = Backslash)
          BY <2>1, <2>5, <3>1, <3>2, <3>4, StringGoesOn, ZenonT(30)
        <4>3. (At(src, a) = Backslash) \in BOOLEAN
          OBVIOUS
        <4> HIDE DEF S, W, a, b
        <4>. QED
          BY <2>2, <3>2, <4>1, <4>2, <4>3
      <3>. QED
        BY <3>3, <3>4
    <2>6. CASE k < m /\ ~e /\ a = m
      <3>1. b = Stop(src, n, m) /\ k < n /\ m \in 0..n
        BY <1>1, <2>6, StopsAgree
      <3>2. S(k, e) = [i |-> m, esc |-> FALSE, done |-> FALSE]
        BY <1>1, <2>6, StringGoesOn
      <3>3. W(k, e) = W(m, FALSE)
        <4>1. CASE m = n
          <5>1. b = n
            BY <3>1, <4>1, StopIs
          <5>2. W(k, e) = [i |-> n, esc |-> FALSE, done |-> FALSE]
            BY <2>1, <2>6, <3>1, <5>1, StringGoesOn
          <5>3. W(m, FALSE) = [i |-> n, esc |-> FALSE, done |-> FALSE]
            BY <3>1, <4>1, StringGoesOn
          <5>. QED
            BY <5>2, <5>3
        <4>2. CASE m < n
          <5>1. CASE b = n
            <6>1. W(k, e) = [i |-> n, esc |-> FALSE, done |-> FALSE]
              BY <2>1, <2>6, <3>1, <5>1, StringGoesOn
            <6>2. W(m, FALSE) = [i |-> n, esc |-> FALSE, done |-> FALSE]
              BY <3>1, <4>2, <5>1, StringGoesOn, ZenonT(30)
            <6>. QED
              BY <6>1, <6>2
          <5>2. CASE b < n /\ At(src, b) = Quote
            <6>1. W(k, e) = [i |-> b + 1, esc |-> FALSE, done |-> TRUE]
              BY <2>1, <2>6, <3>1, <5>2, StringGoesOn
            <6>2. W(m, FALSE) = [i |-> b + 1, esc |-> FALSE, done |-> TRUE]
              <7>1. At(src, Stop(src, n, m)) = Quote /\ Stop(src, n, m) < n
                BY <3>1, <5>2
              <7>2. W(m, FALSE) = [i |-> Stop(src, n, m) + 1, esc |-> FALSE, done |-> TRUE]
                BY <3>1, <4>2, <7>1, StringGoesOn
              <7>. QED
                BY <3>1, <7>2
            <6>. QED
              BY <6>1, <6>2
          <5>3. CASE b < n /\ At(src, b) # Quote
            <6>1. W(k, e) = W(b + 1, At(src, b) = Backslash)
              BY <2>1, <2>6, <3>1, <5>3, StringGoesOn
            <6>2. W(m, FALSE) = W(b + 1, At(src, b) = Backslash)
              BY <3>1, <4>2, <5>3, StringGoesOn, ZenonT(30)
            <6>. QED
              BY <6>1, <6>2
          <5> HIDE DEF b, W
          <5>4. b = n \/ b < n
            BY <1>1, <2>1
          <5>. QED
            BY <5>1, <5>2, <5>3, <5>4
        <4>3. m = n \/ m < n
          BY <1>1
        <4> HIDE DEF W
        <4>. QED
          BY <4>1, <4>2, <4>3
      <3> HIDE DEF S, a, b
      <3>4. m \in k..m
        BY <1>1, <2>6
      <3>. QED
        BY <2>6, <3>2, <3>3, <3>4 DEF StringResumed
    <2> HIDE DEF S, W, a, b
    <2>. QED
      BY <1>1, <2>1, <2>3, <2>4, <2>5, <2>6
  <1>3. \A k \in 0..m : k \in Q
    <2>1. \A k \in 0..m : (\A x \in 0..m : k < x => x \in Q) => k \in Q
      <3> HIDE DEF S, W
      <3>. QED
        BY <1>2
    <2> HIDE DEF Q
    <2>. QED
      BY <1>1, <2>1, Downward
  <1>. QED
    BY <1>3

\* The bytes of a number; a sign only behind the e of an exponent.
NumberByte(c, e) == c \in Digit \cup {"."} \/ (c \in {"+", "-"} /\ e)
ExponentByte(c)  == c \in {"e", "E"}

\* One turn of scanNumberRun at k, and the run at every offset.
NumberTurn(src, n, f, k, e) ==
    IF k >= n THEN [i |-> k, numE |-> e, done |-> FALSE]
    ELSE IF NumberByte(At(src, k), e) THEN f[<<k + 1, FALSE>>]
    ELSE IF ExponentByte(At(src, k)) THEN f[<<k + 1, TRUE>>]
    ELSE [i |-> k, numE |-> e, done |-> TRUE]

NumberRun(src, n) ==
    LET run[s \in (0..n) \X BOOLEAN] == NumberTurn(src, n, run, s[1], s[2])
    IN  run

\* scanNumberRun goes on byte by byte.
LEMMA NumberTurns ==
    ASSUME NEW src, NEW n \in Nat, NEW k \in 0..n, NEW e \in BOOLEAN
    PROVE  /\ scanNumberRun(src, k, n, e) = NumberTurn(src, n, NumberRun(src, n), k, e)
           /\ scanNumberRun(src, k, n, e) = NumberRun(src, n)[<<k, e>>]
  <1> DEFINE D == (0..n) \X BOOLEAN
             V == [i : 0..n, numE : BOOLEAN, done : BOOLEAN]
             G(f) == [s \in D |-> NumberTurn(src, n, f, s[1], s[2])]
             F == [f \in [D -> V] |-> G(f)]
             rank == [s \in D |-> n - s[1]]
             run == NumberRun(src, n)
  <1>1. ASSUME NEW s \in D PROVE s[1] \in 0..n /\ s[2] \in BOOLEAN
    OBVIOUS
  <1>2. ASSUME NEW f \in [D -> V], NEW s \in D PROVE NumberTurn(src, n, f, s[1], s[2]) \in V
    <2> DEFINE x == s[1]
    <2>1. x \in 0..n /\ s[2] \in BOOLEAN
      BY <1>1
    <2> HIDE DEF x
    <2>2. \A y \in 0..n : \A z \in BOOLEAN : f[<<y, z>>] \in V
      OBVIOUS
    <2>3. ~(x >= n) => f[<<x + 1, FALSE>>] \in V /\ f[<<x + 1, TRUE>>] \in V
      <3> SUFFICES ASSUME ~(x >= n) PROVE f[<<x + 1, FALSE>>] \in V /\ f[<<x + 1, TRUE>>] \in V
        OBVIOUS
      <3>1. x + 1 \in 0..n
        BY <2>1
      <3>. QED
        BY <2>2, <3>1
    <2>4. [i |-> x, numE |-> s[2], done |-> FALSE] \in V /\ [i |-> x, numE |-> s[2], done |-> TRUE] \in V
      BY <2>1
    <2> HIDE DEF V, D
    <2>. QED
      BY <2>3, <2>4, Zenon DEF NumberTurn, x
  <1>3. ASSUME NEW f, NEW h, NEW s \in D, \A x \in D : rank[x] < rank[s] => f[x] = h[x]
        PROVE  NumberTurn(src, n, f, s[1], s[2]) = NumberTurn(src, n, h, s[1], s[2])
    <2> DEFINE x == s[1]
    <2>1. x \in 0..n /\ s[2] \in BOOLEAN /\ rank[s] = n - x
      BY <1>1
    <2> HIDE DEF x
    <2>2. ASSUME ~(x >= n), NEW z \in BOOLEAN PROVE f[<<x + 1, z>>] = h[<<x + 1, z>>]
      <3>1. x + 1 \in 0..n
        BY <2>1, <2>2
      <3>2. <<x + 1, z>> \in D /\ rank[<<x + 1, z>>] = n - (x + 1)
        BY <3>1
      <3>3. n - (x + 1) < n - x
        BY <2>1
      <3>. QED
        BY <1>3, <2>1, <3>2, <3>3
    <2> HIDE DEF D, rank
    <2>. QED
      BY <2>2, Zenon DEF NumberTurn, x
  <1>4. rank \in [D -> 0..n] /\ [s \in D |-> [i |-> 0, numE |-> FALSE, done |-> FALSE]] \in [D -> V]
    OBVIOUS
  <1>5. F \in [[D -> V] -> [D -> V]]
    BY <1>2, ZenonT(30)
  <1>6. ASSUME NEW f \in [D -> V], NEW h \in [D -> V], NEW s \in D, \A x \in D : rank[x] < rank[s] => f[x] = h[x]
        PROVE  F[f][s] = F[h][s]
    <2>1. F[f][s] = NumberTurn(src, n, f, s[1], s[2]) /\ F[h][s] = NumberTurn(src, n, h, s[1], s[2])
      OBVIOUS
    <2> HIDE DEF F, D, V, rank
    <2>2. NumberTurn(src, n, f, s[1], s[2]) = NumberTurn(src, n, h, s[1], s[2])
      BY <1>3, <1>6
    <2>. QED
      BY <2>1, <2>2
  <1>7. \E f : f = G(f)
    <2>1. Recursion(F, D, V, rank)
      <3> HIDE DEF F, D, V, rank, G
      <3>. QED
        BY <1>5, <1>6 DEF Recursion
    <2>2. IsMet(F, D, V)
      <3> HIDE DEF F, D, V, rank
      <3>. QED
        BY <1>4, <2>1, RecursionIsMet
    <2>3. PICK f \in [D -> V] : F[f] = f
      BY <2>2 DEF IsMet
    <2>4. F[f] = G(f)
      BY <2>3
    <2>. QED
      BY <2>3, <2>4
  <1>8. run = CHOOSE f : f = G(f)
    BY Zenon DEF NumberRun
  <1>9. run = G(run)
    <2> HIDE DEF G, run
    <2>. QED
      BY <1>7, <1>8
  <1>10. scanNumberRun(src, k, n, e) = (CHOOSE f : f = G(f))[<<k, e>>]
    BY Zenon DEF scanNumberRun, NumberTurn, NumberByte, ExponentByte
  <1> HIDE DEF run
  <1>11. run[<<k, e>>] = NumberTurn(src, n, run, k, e)
    <2>1. <<k, e>> \in D
      OBVIOUS
    <2>. QED
      BY <1>9, <2>1
  <1>. QED
    BY <1>8, <1>10, <1>11 DEF run

\* What scanNumberRun returns at k is what it returns at the next byte, or the end.
LEMMA NumberGoesOn ==
    ASSUME NEW src, NEW n \in Nat, NEW k \in 0..n, NEW e \in BOOLEAN
    PROVE  LET s == scanNumberRun(src, k, n, e)
               c == At(src, k)
           IN  /\ k = n => s = [i |-> n, numE |-> e, done |-> FALSE]
               /\ k < n /\ NumberByte(c, e) => s = scanNumberRun(src, k + 1, n, FALSE)
               /\ k < n /\ ~NumberByte(c, e) /\ ExponentByte(c) => s = scanNumberRun(src, k + 1, n, TRUE)
               /\ k < n /\ ~NumberByte(c, e) /\ ~ExponentByte(c) => s = [i |-> k, numE |-> e, done |-> TRUE]
  <1> DEFINE s == scanNumberRun(src, k, n, e)
             c == At(src, k)
             f == NumberRun(src, n)
  <1>1. s = NumberTurn(src, n, f, k, e)
    BY NumberTurns
  <1>2. s = IF k >= n THEN [i |-> k, numE |-> e, done |-> FALSE]
            ELSE IF NumberByte(c, e) THEN f[<<k + 1, FALSE>>]
            ELSE IF ExponentByte(c) THEN f[<<k + 1, TRUE>>]
            ELSE [i |-> k, numE |-> e, done |-> TRUE]
    BY <1>1, Zenon DEF NumberTurn
  <1>3. ASSUME k < n, NEW b \in BOOLEAN PROVE f[<<k + 1, b>>] = scanNumberRun(src, k + 1, n, b)
    <2>1. k + 1 \in 0..n
      BY <1>3
    <2>. QED
      BY <2>1, NumberTurns
  <1> HIDE DEF s, c, f
  <1>4. k < n => ~(k >= n)
    OBVIOUS
  <1>5. k = n => s = [i |-> n, numE |-> e, done |-> FALSE]
    BY <1>2
  <1>. QED
    BY <1>2, <1>3, <1>4, <1>5 DEF s, c

\* The same for a number: r is final, or the run of src[:n] goes on from m.
NumberResumed(src, m, n, r, w) ==
    /\ r.i \in 0..m /\ r.numE \in BOOLEAN /\ r.done \in BOOLEAN
    /\ r.done => w = r
    /\ ~r.done => r.i = m /\ w = scanNumberRun(src, m, n, r.numE)

\* A number that src[:m] cut off goes on from there.
LEMMA NumberResumes ==
    ASSUME NEW src, NEW n \in Nat, NEW m \in 0..n
    PROVE  \A k \in 0..m : \A e \in BOOLEAN :
              NumberResumed(src, m, n, scanNumberRun(src, k, m, e), scanNumberRun(src, k, n, e))
  <1> DEFINE S(k, e) == scanNumberRun(src, k, m, e)
             W(k, e) == scanNumberRun(src, k, n, e)
             Q == {k \in 0..m : \A e \in BOOLEAN : NumberResumed(src, m, n, S(k, e), W(k, e))}
  <1>1. m \in Nat /\ m <= n
    OBVIOUS
  <1>2. ASSUME NEW k \in 0..m, \A x \in 0..m : k < x => x \in Q, NEW e \in BOOLEAN
        PROVE  NumberResumed(src, m, n, S(k, e), W(k, e))
    <2> DEFINE c == At(src, k)
    <2>1. k \in 0..n /\ (k < m => k < n /\ k + 1 \in 0..m /\ k < k + 1)
      BY <1>1
    <2>2. ASSUME k < m, NEW y \in BOOLEAN, S(k, e) = S(k + 1, y), W(k, e) = W(k + 1, y)
          PROVE  NumberResumed(src, m, n, S(k, e), W(k, e))
      BY <1>2, <2>1, <2>2
    <2>3. CASE k = m
      <3>1. S(k, e) = [i |-> m, numE |-> e, done |-> FALSE]
        BY <1>1, <2>3, NumberGoesOn
      <3>2. W(k, e) = scanNumberRun(src, m, n, e) /\ m \in 0..m
        BY <1>1, <2>3
      <3> HIDE DEF S, W
      <3>. QED
        BY <2>3, <3>1, <3>2 DEF NumberResumed
    <2>4. CASE k < m /\ NumberByte(c, e)
      <3>1. S(k, e) = S(k + 1, FALSE)
        BY <1>1, <2>4, NumberGoesOn
      <3>2. W(k, e) = W(k + 1, FALSE)
        BY <2>1, <2>4, NumberGoesOn
      <3> HIDE DEF S, W
      <3>. QED
        BY <2>2, <2>4, <3>1, <3>2
    <2>5. CASE k < m /\ ~NumberByte(c, e) /\ ExponentByte(c)
      <3>1. S(k, e) = S(k + 1, TRUE)
        BY <1>1, <2>5, NumberGoesOn
      <3>2. W(k, e) = W(k + 1, TRUE)
        BY <2>1, <2>5, NumberGoesOn
      <3> HIDE DEF S, W
      <3>. QED
        BY <2>2, <2>5, <3>1, <3>2
    <2>6. CASE k < m /\ ~NumberByte(c, e) /\ ~ExponentByte(c)
      <3>1. S(k, e) = [i |-> k, numE |-> e, done |-> TRUE]
        BY <1>1, <2>6, NumberGoesOn
      <3>2. W(k, e) = [i |-> k, numE |-> e, done |-> TRUE]
        BY <2>1, <2>6, NumberGoesOn
      <3> HIDE DEF S, W
      <3>. QED
        BY <3>1, <3>2 DEF NumberResumed
    <2>7. k = m \/ k < m
      BY <1>1
    <2> HIDE DEF S, W, c
    <2>. QED
      BY <2>3, <2>4, <2>5, <2>6, <2>7
  <1>3. \A k \in 0..m : k \in Q
    <2>1. \A k \in 0..m : (\A x \in 0..m : k < x => x \in Q) => k \in Q
      <3> HIDE DEF S, W
      <3>. QED
        BY <1>2
    <2> HIDE DEF Q
    <2>. QED
      BY <1>1, <2>1, Downward
  <1>. QED
    BY <1>3

IsOpener(c) == c \in {"{", "["}
IsCloser(c) == c \in {"}", "]"}

\* What scanContainer returns.
LoopEnd(k, d, q, e, x) == [i |-> k, depth |-> d, inStr |-> q, esc |-> e, done |-> x]

\* One turn of scanContainer at k, d deep, inside a string or not, an escape
\* pending in it or not.
ContainerTurn(src, n, f, k, d, q, e) ==
    IF k >= n THEN LoopEnd(k, d, q, e, FALSE)
    ELSE IF q THEN f[<<scanStringBody(src, k, n, e).i, d, ~scanStringBody(src, k, n, e).done,
                       scanStringBody(src, k, n, e).esc>>]
    ELSE IF At(src, k) = Quote THEN f[<<k + 1, d, TRUE, e>>]
    ELSE IF IsOpener(At(src, k)) THEN f[<<k + 1, d + 1, FALSE, e>>]
    ELSE IF IsCloser(At(src, k)) THEN
        IF d = 1 THEN LoopEnd(k + 1, 0, q, e, TRUE) ELSE f[<<k + 1, d - 1, FALSE, e>>]
    ELSE f[<<k + 1, d, FALSE, e>>]

\* The loop in every state.
ContainerLoop(src, n) ==
    LET loop[s \in (0..n) \X (Nat \ {0}) \X BOOLEAN \X BOOLEAN] ==
            ContainerTurn(src, n, loop, s[1], s[2], s[3], s[4])
    IN  loop

\* What of the string scan the loop uses.
LEMMA StringLeaves ==
    ASSUME NEW src, Len(src) \in Nat, NEW n \in 0..Len(src), NEW k \in 0..n, NEW e \in BOOLEAN
    PROVE  LET str == scanStringBody(src, k, n, e)
           IN  str.i \in k..n /\ str.i \in 0..n /\ (k < n => k < str.i) /\ str.esc \in BOOLEAN /\ (~str.done) \in BOOLEAN
  <1> DEFINE str == scanStringBody(src, k, n, e)
  <1>1. n \in 0..n
    OBVIOUS
  <1>2. StringResumed(src, n, n, k, str, str)
    BY <1>1, StringResumes
  <1> HIDE DEF str
  <1>3. str.i \in k..n /\ (k < n => k < str.i) /\ str.esc \in BOOLEAN /\ str.done \in BOOLEAN
    BY <1>2 DEF StringResumed
  <1>4. str.i \in 0..n
    BY <1>3
  <1>. QED
    BY <1>3, <1>4 DEF str

\* scanContainer goes on turn by turn.
LEMMA ContainerTurns ==
    ASSUME NEW src, Len(src) \in Nat, NEW n \in 0..Len(src), NEW k \in 0..n, NEW d \in Nat \ {0},
           NEW q \in BOOLEAN, NEW e \in BOOLEAN
    PROVE  ContainerLoop(src, n)[<<k, d, q, e>>] = ContainerTurn(src, n, ContainerLoop(src, n), k, d, q, e)
  <1> DEFINE D == (0..n) \X (Nat \ {0}) \X BOOLEAN \X BOOLEAN
             V == [i : 0..n, depth : Nat, inStr : BOOLEAN, esc : BOOLEAN, done : BOOLEAN]
             G(f) == [s \in D |-> ContainerTurn(src, n, f, s[1], s[2], s[3], s[4])]
             F == [f \in [D -> V] |-> G(f)]
             rank == [s \in D |-> n - s[1]]
             loop == ContainerLoop(src, n)
  <1>1. ASSUME NEW s \in D PROVE s[1] \in 0..n /\ s[2] \in Nat \ {0} /\ s[3] \in BOOLEAN /\ s[4] \in BOOLEAN
    OBVIOUS
  <1>2. ASSUME NEW x \in 0..n, NEW y \in Nat \ {0}, NEW z \in BOOLEAN, NEW u \in BOOLEAN
        PROVE  <<x, y, z, u>> \in D /\ rank[<<x, y, z, u>>] = n - x
    OBVIOUS
  <1>3. ASSUME NEW x \in 0..n, NEW y \in Nat, NEW z \in BOOLEAN, NEW u \in BOOLEAN, NEW b \in BOOLEAN
        PROVE  LoopEnd(x, y, z, u, b) \in V
    BY DEF LoopEnd
  <1>4. ASSUME NEW f \in [D -> V], NEW x \in 0..n, NEW y \in Nat \ {0}, NEW z \in BOOLEAN, NEW u \in BOOLEAN
        PROVE  ContainerTurn(src, n, f, x, y, z, u) \in V
    <2> DEFINE str == scanStringBody(src, x, n, u)
    <2>1. \A t \in D : f[t] \in V
      OBVIOUS
    <2>2. LoopEnd(x, y, z, u, FALSE) \in V
      BY <1>3, ZenonT(30)
    <2>3. f[<<str.i, y, ~str.done, str.esc>>] \in V
      <3>1. str.i \in 0..n /\ str.esc \in BOOLEAN /\ (~str.done) \in BOOLEAN
        BY StringLeaves
      <3> HIDE DEF str, D, V
      <3>. QED
        BY <1>2, <2>1, <3>1
    <2>4. ASSUME ~(x >= n)
          PROVE  /\ f[<<x + 1, y, TRUE, u>>] \in V /\ f[<<x + 1, y + 1, FALSE, u>>] \in V
                 /\ f[<<x + 1, y, FALSE, u>>] \in V
                 /\ IF y = 1 THEN LoopEnd(x + 1, 0, z, u, TRUE) \in V ELSE f[<<x + 1, y - 1, FALSE, u>>] \in V
      <3>1. x + 1 \in 0..n /\ y + 1 \in Nat \ {0} /\ (y # 1 => y - 1 \in Nat \ {0}) /\ 0 \in Nat
        BY <2>4
      <3> HIDE DEF D, V
      <3>. QED
        BY <1>2, <1>3, <2>1, <3>1
    <2> HIDE DEF V, D, str
    <2>5. ContainerTurn(src, n, f, x, y, z, u) =
            IF x >= n THEN LoopEnd(x, y, z, u, FALSE)
            ELSE IF z THEN f[<<str.i, y, ~str.done, str.esc>>]
            ELSE IF At(src, x) = Quote THEN f[<<x + 1, y, TRUE, u>>]
            ELSE IF IsOpener(At(src, x)) THEN f[<<x + 1, y + 1, FALSE, u>>]
            ELSE IF IsCloser(At(src, x)) THEN
                IF y = 1 THEN LoopEnd(x + 1, 0, z, u, TRUE) ELSE f[<<x + 1, y - 1, FALSE, u>>]
            ELSE f[<<x + 1, y, FALSE, u>>]
      BY Zenon DEF ContainerTurn, str
    <2>. QED
      BY <2>2, <2>3, <2>4, <2>5
  <1>5. ASSUME NEW f, NEW h, NEW x \in 0..n, NEW y \in Nat \ {0}, NEW z \in BOOLEAN, NEW u \in BOOLEAN,
               \A t \in D : rank[t] < n - x => f[t] = h[t]
        PROVE  ContainerTurn(src, n, f, x, y, z, u) = ContainerTurn(src, n, h, x, y, z, u)
    <2> DEFINE str == scanStringBody(src, x, n, u)
    <2>1. ASSUME NEW a \in 0..n, NEW b \in Nat \ {0}, NEW p \in BOOLEAN, NEW g \in BOOLEAN, x < a
          PROVE  f[<<a, b, p, g>>] = h[<<a, b, p, g>>]
      <3>1. n - a < n - x
        BY <2>1
      <3> HIDE DEF D, rank
      <3>. QED
        BY <1>2, <1>5, <3>1
    <2>2. ~(x >= n) => f[<<str.i, y, ~str.done, str.esc>>] = h[<<str.i, y, ~str.done, str.esc>>]
      <3> SUFFICES ASSUME ~(x >= n) PROVE f[<<str.i, y, ~str.done, str.esc>>] = h[<<str.i, y, ~str.done, str.esc>>]
        OBVIOUS
      <3>1. x < n
        OBVIOUS
      <3>2. str.i \in 0..n /\ str.esc \in BOOLEAN /\ (~str.done) \in BOOLEAN /\ x < str.i
        BY <3>1, StringLeaves
      <3> DEFINE b == ~str.done
      <3>3. b \in BOOLEAN
        BY <3>2
      <3> HIDE DEF str, D, rank, b
      <3>4. f[<<str.i, y, b, str.esc>>] = h[<<str.i, y, b, str.esc>>]
        BY <2>1, <3>2, <3>3
      <3>. QED
        BY <3>4 DEF b
    <2>3. ASSUME ~(x >= n)
          PROVE  /\ f[<<x + 1, y, TRUE, u>>] = h[<<x + 1, y, TRUE, u>>]
                 /\ f[<<x + 1, y + 1, FALSE, u>>] = h[<<x + 1, y + 1, FALSE, u>>]
                 /\ f[<<x + 1, y, FALSE, u>>] = h[<<x + 1, y, FALSE, u>>]
                 /\ y # 1 => f[<<x + 1, y - 1, FALSE, u>>] = h[<<x + 1, y - 1, FALSE, u>>]
      <3>1. x + 1 \in 0..n /\ x < x + 1 /\ y + 1 \in Nat \ {0} /\ (y # 1 => y - 1 \in Nat \ {0})
        BY <2>3
      <3> HIDE DEF D, rank
      <3>. QED
        BY <2>1, <3>1, ZenonT(30)
    <2> HIDE DEF D, rank, str
    <2>. QED
      BY <2>2, <2>3, Zenon DEF ContainerTurn, str
  <1>6. /\ rank \in [D -> 0..n] /\ n \in Nat
        /\ [s \in D |-> LoopEnd(0, 0, FALSE, FALSE, FALSE)] \in [D -> V]
    <2>1. LoopEnd(0, 0, FALSE, FALSE, FALSE) \in V
      <3>1. 0 \in 0..n /\ 0 \in Nat
        OBVIOUS
      <3>. QED
        BY <1>3, <3>1
    <2>2. rank \in [D -> 0..n] /\ n \in Nat
      BY <1>1
    <2> HIDE DEF V, D, rank
    <2>. QED
      BY <2>1, <2>2
  <1>7. F \in [[D -> V] -> [D -> V]]
    <2>1. ASSUME NEW f \in [D -> V] PROVE G(f) \in [D -> V]
      <3> HIDE DEF V, D
      <3>. QED
        BY <1>1, <1>4
    <2> HIDE DEF V, D, G
    <2>. QED
      BY <2>1
  <1>8. ASSUME NEW f \in [D -> V], NEW h \in [D -> V], NEW s \in D, \A x \in D : rank[x] < rank[s] => f[x] = h[x]
        PROVE  F[f][s] = F[h][s]
    <2>1. /\ F[f][s] = ContainerTurn(src, n, f, s[1], s[2], s[3], s[4])
          /\ F[h][s] = ContainerTurn(src, n, h, s[1], s[2], s[3], s[4])
      <3> HIDE DEF V, D
      <3>. QED
        OBVIOUS
    <2>2. rank[s] = n - s[1]
      OBVIOUS
    <2> HIDE DEF F, D, V, rank
    <2>3. \A t \in D : rank[t] < n - s[1] => f[t] = h[t]
      BY <1>8, <2>2
    <2>4. s[1] \in 0..n /\ s[2] \in Nat \ {0} /\ s[3] \in BOOLEAN /\ s[4] \in BOOLEAN
      BY <1>1
    <2>5. ContainerTurn(src, n, f, s[1], s[2], s[3], s[4]) = ContainerTurn(src, n, h, s[1], s[2], s[3], s[4])
      BY <1>5, <2>3, <2>4, SMTT(60)
    <2>. QED
      BY <2>1, <2>5
  <1>9. \E f : f = G(f)
    <2>1. Recursion(F, D, V, rank)
      <3> HIDE DEF F, D, V, rank, G
      <3>. QED
        BY <1>7, <1>8 DEF Recursion
    <2>2. IsMet(F, D, V)
      <3> HIDE DEF F, D, V, rank
      <3>. QED
        BY <1>6, <2>1, RecursionIsMet
    <2> HIDE DEF D, V, G
    <2>3. PICK f \in [D -> V] : F[f] = f
      BY <2>2 DEF IsMet
    <2>4. F[f] = G(f)
      BY <2>3
    <2>. QED
      BY <2>3, <2>4
  <1>10. loop = CHOOSE f : f = G(f)
    BY Zenon DEF ContainerLoop
  <1>11. loop = G(loop)
    <2> HIDE DEF G, loop
    <2>. QED
      BY <1>9, <1>10
  <1> HIDE DEF loop
  <1>12. <<k, d, q, e>> \in D
    OBVIOUS
  <1>13. loop[<<k, d, q, e>>] = ContainerTurn(src, n, loop, k, d, q, e)
    <2> HIDE DEF D
    <2>1. G(loop)[<<k, d, q, e>>] = ContainerTurn(src, n, loop, k, d, q, e)
      BY <1>12
    <2> HIDE DEF G
    <2>. QED
      BY <1>11, <2>1
  <1>. QED
    BY <1>13 DEF loop

\* scanContainer is the loop in the state of the frame.
LEMMA ContainerScans ==
    ASSUME NEW src, NEW at, NEW n, NEW frame
    PROVE  scanContainer(src, at, n, frame) = ContainerLoop(src, n)[<<at, frame.depth, frame.inStr, frame.esc>>]
  BY Zenon DEF scanContainer, ContainerLoop, ContainerTurn, LoopEnd, IsOpener, IsCloser, Quote

\* The same for a container: r is final, or the loop h over more bytes goes on
\* from m where r stands.
ContainerResumed(m, h, r, w) ==
    /\ r.i \in 0..m /\ r.inStr \in BOOLEAN /\ r.esc \in BOOLEAN /\ r.done \in BOOLEAN
    /\ r.done => w = r
    /\ ~r.done => r.i = m /\ r.depth \in Nat \ {0} /\ w = h[<<m, r.depth, r.inStr, r.esc>>]

\* h is the loop over src[:n] at m.
GoesOnAt(src, n, h, m) ==
    \A b \in Nat \ {0} : \A p, g \in BOOLEAN : h[<<m, b, p, g>>] = ContainerTurn(src, n, h, m, b, p, g)

\* Behind k the two loops agree.
ResumedBehind(m, f, h, k) ==
    \A x \in 0..m : k < x => \A b \in Nat \ {0} : \A p, g \in BOOLEAN :
        ContainerResumed(m, h, f[<<x, b, p, g>>], h[<<x, b, p, g>>])

\* One turn of the loops over src[:m] and src[:n].
LEMMA ContainerGoesOn ==
    ASSUME NEW src, Len(src) \in Nat, NEW n \in 0..Len(src), NEW m \in 0..n, NEW k \in 0..m,
           NEW d \in Nat \ {0}, NEW q \in BOOLEAN, NEW e \in BOOLEAN,
           NEW f, NEW h, NEW r, NEW w,
           r = ContainerTurn(src, m, f, k, d, q, e),
           w = ContainerTurn(src, n, h, k, d, q, e),
           w = h[<<k, d, q, e>>],
           GoesOnAt(src, n, h, m), ResumedBehind(m, f, h, k)
    PROVE  ContainerResumed(m, h, r, w)
  <1> DEFINE c == At(src, k)
             s == scanStringBody(src, k, m, e)
             t == scanStringBody(src, k, n, e)
  <1>1. m \in 0..Len(src) /\ m \in Nat /\ n \in Nat /\ m <= n /\ m \in 0..m
    OBVIOUS
  <1>2. k \in 0..n /\ (k < m => k < n /\ k + 1 \in 0..m /\ k < k + 1 /\ ~(k >= m) /\ ~(k >= n))
    OBVIOUS
  <1> HIDE DEF c, s, t
  <1>3. ASSUME NEW x \in 0..m, k < x, NEW b \in Nat \ {0}, NEW p \in BOOLEAN, NEW g \in BOOLEAN,
               r = f[<<x, b, p, g>>], w = h[<<x, b, p, g>>]
        PROVE  ContainerResumed(m, h, r, w)
    <2>1. ContainerResumed(m, h, f[<<x, b, p, g>>], h[<<x, b, p, g>>])
      BY <1>3 DEF ResumedBehind
    <2>. QED
      BY <1>3, <2>1
  <1>4. TRUE \in BOOLEAN /\ FALSE \in BOOLEAN
    OBVIOUS
  <1>5. CASE k = m
    <2>1. r = LoopEnd(m, d, q, e, FALSE)
      <3>1. k >= m
        BY <1>5
      <3>. QED
        BY <1>5, <3>1 DEF ContainerTurn
    <2>2. w = h[<<m, d, q, e>>]
      BY <1>5
    <2>3. r.i = m /\ r.depth = d /\ r.inStr = q /\ r.esc = e /\ r.done = FALSE
      BY <2>1 DEF LoopEnd
    <2>4. w = h[<<m, r.depth, r.inStr, r.esc>>]
      BY <2>2, <2>3
    <2>. QED
      BY <1>1, <2>3, <2>4 DEF ContainerResumed
  <1>6. CASE k < m /\ q
    <2> DEFINE a == ~s.done
               b == ~t.done
    <2>1. StringResumed(src, m, n, k, s, t)
      BY <1>1, StringResumes DEF s, t
    <2>2. /\ s.i \in 0..m /\ k < s.i /\ s.esc \in BOOLEAN /\ s.done \in BOOLEAN
          /\ s.done => t = s
          /\ ~s.done => s.i = m /\ t = scanStringBody(src, m, n, s.esc)
      BY <1>6, <2>1 DEF StringResumed
    <2>3. r = f[<<s.i, d, a, s.esc>>]
      BY <1>2, <1>6, Zenon DEF ContainerTurn, s
    <2>4. w = h[<<t.i, d, b, t.esc>>]
      BY <1>2, <1>6, Zenon DEF ContainerTurn, t
    <2>5. a \in BOOLEAN
      OBVIOUS
    <2>6. CASE s.done
      <3>1. t = s
        BY <2>2, <2>6
      <3>2. b = a
        BY <3>1
      <3> HIDE DEF a, b
      <3>3. w = h[<<s.i, d, a, s.esc>>]
        BY <2>4, <3>1, <3>2
      <3>. QED
        BY <1>3, <2>2, <2>3, <2>5, <3>3
    <2>7. CASE ~s.done
      <3>1. s.i = m /\ t = scanStringBody(src, m, n, s.esc) /\ a = TRUE /\ m \in 0..n
        BY <1>1, <2>2, <2>7
      <3>2. h[<<m, d, TRUE, s.esc>>] = ContainerTurn(src, n, h, m, d, TRUE, s.esc)
        BY <1>4, <2>2 DEF GoesOnAt
      <3>3. w = h[<<m, d, TRUE, s.esc>>]
        <4>1. CASE m = n
          <5>1. t = [i |-> n, esc |-> s.esc, done |-> FALSE]
            BY <2>2, <3>1, <4>1, StringGoesOn, ZenonT(30)
          <5>2. t.i = m /\ b = TRUE /\ t.esc = s.esc
            BY <4>1, <5>1
          <5> HIDE DEF b
          <5>. QED
            BY <2>4, <5>2
        <4>2. CASE m < n
          <5>1. ~(m >= n)
            BY <1>1, <4>2
          <5>2. ContainerTurn(src, n, h, m, d, TRUE, s.esc) = h[<<t.i, d, b, t.esc>>]
            BY <3>1, <5>1, Zenon DEF ContainerTurn
          <5> HIDE DEF b
          <5>. QED
            BY <2>4, <3>2, <5>2
        <4>3. m = n \/ m < n
          BY <1>1
        <4>. QED
          BY <4>1, <4>2, <4>3
      <3> HIDE DEF a, b
      <3>4. r = f[<<m, d, a, s.esc>>] /\ w = h[<<m, d, a, s.esc>>]
        BY <2>3, <3>1, <3>3
      <3>5. m \in 0..m /\ k < m /\ s.esc \in BOOLEAN
        BY <1>1, <1>6, <2>2
      <3>. QED
        BY <1>3, <2>5, <3>4, <3>5
    <2>. QED
      BY <2>6, <2>7
  <1>7. CASE k < m /\ ~q /\ c = Quote
    <2>1. r = f[<<k + 1, d, TRUE, e>>] /\ w = h[<<k + 1, d, TRUE, e>>]
      BY <1>2, <1>7, Zenon DEF ContainerTurn, c
    <2>. QED
      BY <1>2, <1>3, <1>4, <1>7, <2>1
  <1>8. CASE k < m /\ ~q /\ c # Quote /\ IsOpener(c)
    <2>1. r = f[<<k + 1, d + 1, FALSE, e>>] /\ w = h[<<k + 1, d + 1, FALSE, e>>]
      BY <1>2, <1>8, Zenon DEF ContainerTurn, c
    <2>2. d + 1 \in Nat \ {0}
      OBVIOUS
    <2>. QED
      BY <1>2, <1>3, <1>4, <1>8, <2>1, <2>2
  <1>9. CASE k < m /\ ~q /\ c # Quote /\ ~IsOpener(c) /\ IsCloser(c) /\ d # 1
    <2>1. r = f[<<k + 1, d - 1, FALSE, e>>] /\ w = h[<<k + 1, d - 1, FALSE, e>>]
      BY <1>2, <1>9, Zenon DEF ContainerTurn, c
    <2>2. d - 1 \in Nat \ {0}
      BY <1>9
    <2>. QED
      BY <1>2, <1>3, <1>4, <1>9, <2>1, <2>2
  <1>10. CASE k < m /\ ~q /\ c # Quote /\ ~IsOpener(c) /\ IsCloser(c) /\ d = 1
    <2>1. r = LoopEnd(k + 1, 0, q, e, TRUE) /\ w = LoopEnd(k + 1, 0, q, e, TRUE)
      BY <1>2, <1>10, Zenon DEF ContainerTurn, c
    <2>2. r.i = k + 1 /\ r.inStr = q /\ r.esc = e /\ r.done = TRUE
      BY <2>1 DEF LoopEnd
    <2>. QED
      BY <1>2, <1>10, <2>1, <2>2 DEF ContainerResumed
  <1>11. CASE k < m /\ ~q /\ c # Quote /\ ~IsOpener(c) /\ ~IsCloser(c)
    <2>1. r = f[<<k + 1, d, FALSE, e>>] /\ w = h[<<k + 1, d, FALSE, e>>]
      BY <1>2, <1>11, Zenon DEF ContainerTurn, c
    <2>. QED
      BY <1>2, <1>3, <1>4, <1>11, <2>1
  <1>12. k = m \/ k < m
    OBVIOUS
  <1>. QED
    BY <1>5, <1>6, <1>7, <1>8, <1>9, <1>10, <1>11, <1>12

\* A container that src[:m] cut off goes on from there.
LEMMA ContainerResumes ==
    ASSUME NEW src, Len(src) \in Nat, NEW n \in 0..Len(src), NEW m \in 0..n
    PROVE  \A k \in 0..m : \A d \in Nat \ {0} : \A q, e \in BOOLEAN :
              ContainerResumed(m, ContainerLoop(src, n),
                               ContainerLoop(src, m)[<<k, d, q, e>>], ContainerLoop(src, n)[<<k, d, q, e>>])
  <1> DEFINE f == ContainerLoop(src, m)
             h == ContainerLoop(src, n)
             Q == {k \in 0..m : \A d \in Nat \ {0} : \A q, e \in BOOLEAN :
                                   ContainerResumed(m, h, f[<<k, d, q, e>>], h[<<k, d, q, e>>])}
  <1>1. m \in 0..Len(src) /\ m \in Nat /\ \A k \in 0..m : k \in 0..n
    OBVIOUS
  <1>2. \A k \in 0..m, d \in Nat \ {0}, q \in BOOLEAN, e \in BOOLEAN :
            f[<<k, d, q, e>>] = ContainerTurn(src, m, f, k, d, q, e)
    BY <1>1, ContainerTurns
  <1>3. \A k \in 0..n, d \in Nat \ {0}, q \in BOOLEAN, e \in BOOLEAN :
            h[<<k, d, q, e>>] = ContainerTurn(src, n, h, k, d, q, e)
    BY ContainerTurns
  <1> HIDE DEF f, h
  <1>4. ASSUME NEW k \in 0..m, \A x \in 0..m : k < x => x \in Q
        PROVE  k \in Q
    <2>1. ASSUME NEW d \in Nat \ {0}, NEW q \in BOOLEAN, NEW e \in BOOLEAN
          PROVE  ContainerResumed(m, h, f[<<k, d, q, e>>], h[<<k, d, q, e>>])
      <3>1. f[<<k, d, q, e>>] = ContainerTurn(src, m, f, k, d, q, e)
        BY <1>2
      <3>2. h[<<k, d, q, e>>] = ContainerTurn(src, n, h, k, d, q, e)
        BY <1>1, <1>3
      <3>3. GoesOnAt(src, n, h, m)
        BY <1>1, <1>3 DEF GoesOnAt
      <3>4. ResumedBehind(m, f, h, k)
        BY <1>4 DEF ResumedBehind
      <3> DEFINE r == f[<<k, d, q, e>>]
                 w == h[<<k, d, q, e>>]
      <3>5. r = ContainerTurn(src, m, f, k, d, q, e) /\ w = ContainerTurn(src, n, h, k, d, q, e) /\ w = h[<<k, d, q, e>>]
        BY <3>1, <3>2
      <3> HIDE DEF r, w, Q
      <3>6. ContainerResumed(m, h, r, w)
        BY <3>3, <3>4, <3>5, ContainerGoesOn
      <3>. QED
        BY <3>6 DEF r, w
    <2>. QED
      BY <2>1
  <1>5. \A k \in 0..m : k \in Q
    <2> HIDE DEF Q
    <2>. QED
      BY <1>1, <1>4, Downward
  <1>. QED
    BY <1>5 DEF f, h

\* A frame of the value at start that no byte behind src[:m] has entered.
FrameFields == [mode : {"string", "number", "literal", "container"}, depth : Nat, inStr : BOOLEAN,
                esc : BOOLEAN, numE : BOOLEAN, litLeft : Nat, framed : Nat \ {0}]

Suspended(frame, start, m) ==
    frame \in FrameFields /\ start + frame.framed \in 0..m /\ (frame.mode = "container" => frame.depth # 0)

\* What Scan makes of the scan of a string, of a number and of a container.
StringFrame(frame, start, r) ==
    [fr |-> [frame EXCEPT !.framed = r.i - start, !.esc = r.esc], done |-> r.done]

NumberFrame(frame, start, r) ==
    [fr |-> [frame EXCEPT !.framed = r.i - start, !.numE = r.numE], done |-> r.done]

ContainerFrame(frame, start, r) ==
    [fr |-> [frame EXCEPT !.framed = r.i - start, !.depth = r.depth, !.inStr = r.inStr, !.esc = r.esc],
     done |-> r.done]

\* The bytes of a literal that src[:n] still has behind at.
Took(left, at, n) == IF left <= n - at THEN left ELSE n - at

LiteralFrame(frame, start, at, took, b) ==
    [fr |-> [frame EXCEPT !.framed = at + took - start, !.litLeft = @ - took], done |-> b]

\* Scan, mode by mode.
LEMMA ScanIs ==
    ASSUME NEW src, NEW start, NEW n, NEW frame, NEW at, at = start + frame.framed
    PROVE  /\ frame.mode = "string" =>
                Scan(frame, src, start, n) = StringFrame(frame, start, scanStringBody(src, at, n, frame.esc))
           /\ frame.mode = "number" =>
                Scan(frame, src, start, n) = NumberFrame(frame, start, scanNumberRun(src, at, n, frame.numE))
           /\ frame.mode = "literal" =>
                Scan(frame, src, start, n) =
                    LiteralFrame(frame, start, at, Took(frame.litLeft, at, n), frame.litLeft = Took(frame.litLeft, at, n))
           /\ frame.mode = "container" =>
                Scan(frame, src, start, n) = ContainerFrame(frame, start, scanContainer(src, at, n, frame))
  <1>1. /\ "string" # "number" /\ "string" # "literal" /\ "string" # "container"
        /\ "number" # "literal" /\ "number" # "container" /\ "literal" # "container"
    OBVIOUS
  <1> DEFINE took == Took(frame.litLeft, at, n)
             S == StringFrame(frame, start, scanStringBody(src, at, n, frame.esc))
             N == NumberFrame(frame, start, scanNumberRun(src, at, n, frame.numE))
             L == LiteralFrame(frame, start, at, took, frame.litLeft = took)
             C == ContainerFrame(frame, start, scanContainer(src, at, n, frame))
  <1>2. Scan(frame, src, start, n) = CASE frame.mode = "string" -> S
                                    [] frame.mode = "number" -> N
                                    [] frame.mode = "literal" -> L
                                    [] frame.mode = "container" -> C
    BY Zenon DEF Scan, StringFrame, NumberFrame, LiteralFrame, ContainerFrame, Took
  <1> HIDE DEF S, N, L, C
  <1>3. /\ frame.mode = "string" => Scan(frame, src, start, n) = S
        /\ frame.mode = "number" => Scan(frame, src, start, n) = N
        /\ frame.mode = "literal" => Scan(frame, src, start, n) = L
        /\ frame.mode = "container" => Scan(frame, src, start, n) = C
    BY <1>1, <1>2
  <1>. QED
    BY <1>3 DEF S, N, L, C

\* The frame of a new value is one.
LEMMA FrameInitIs ==
    ASSUME NEW c, NEW start \in Nat
    PROVE  Suspended(FrameInit(c), start, start + 1)
  <1>1. ASSUME NEW mode \in {"string", "number", "literal", "container"}, NEW d \in Nat, NEW l \in Nat,
               mode = "container" => d # 0
        PROVE  Suspended(Frame(mode, d, l), start, start + 1)
    <2>1. Frame(mode, d, l) \in FrameFields /\ Frame(mode, d, l).framed = 1
      BY DEF Frame, FrameFields
    <2>2. Frame(mode, d, l).mode = mode /\ Frame(mode, d, l).depth = d
      BY DEF Frame
    <2>. QED
      BY <1>1, <2>1, <2>2 DEF Suspended
  <1> DEFINE T(f) == Suspended(f, start, start + 1)
  <1>2. /\ T(Frame("string", 0, 0)) /\ T(Frame("container", 1, 0)) /\ T(Frame("literal", 0, 3))
        /\ T(Frame("literal", 0, 4)) /\ T(Frame("number", 0, 0))
    <2>1. 0 \in Nat /\ 1 \in Nat /\ 3 \in Nat /\ 4 \in Nat /\ 1 # 0
      OBVIOUS
    <2>2. "string" # "container" /\ "literal" # "container" /\ "number" # "container"
      OBVIOUS
    <2>. QED
      BY <1>1, <2>1, <2>2
  <1> HIDE DEF T
  <1>3. T(FrameInit(c))
    BY <1>2, Zenon DEF FrameInit
  <1>. QED
    BY <1>3 DEF T

\* What a resumed scan has to be: first is final, or suspended at m, and the
\* scan of the longer text goes on from there.
FrameResumed(src, start, m, n, first, whole) ==
    IF first.done THEN whole = first
    ELSE /\ Suspended(first.fr, start, m)
         /\ start + first.fr.framed = m
         /\ whole = Scan(first.fr, src, start, n)

\* The frame of a string goes on where src[:m] cut it off.
LEMMA StringFrameResumes ==
    ASSUME NEW src, Len(src) \in Nat, NEW n \in 0..Len(src), NEW m \in 0..n, NEW start \in 0..m,
           NEW frame, Suspended(frame, start, m), frame.mode = "string"
    PROVE  FrameResumed(src, start, m, n, Scan(frame, src, start, m), Scan(frame, src, start, n))
  <1> DEFINE at == start + frame.framed
             r == scanStringBody(src, at, m, frame.esc)
             w == scanStringBody(src, at, n, frame.esc)
             g == [frame EXCEPT !.framed = r.i - start, !.esc = r.esc]
             first == StringFrame(frame, start, r)
             whole == StringFrame(frame, start, w)
  <1>1. frame \in FrameFields /\ at \in 0..m /\ frame.esc \in BOOLEAN /\ frame.framed \in Nat \ {0} /\ start \in Nat /\ start < at
    BY DEF Suspended, FrameFields
  <1>2. Scan(frame, src, start, m) = first /\ Scan(frame, src, start, n) = whole
    BY ScanIs
  <1>3. StringResumed(src, m, n, at, r, w)
    BY <1>1, StringResumes
  <1> HIDE DEF r, w
  <1>4. r.i \in at..m /\ r.esc \in BOOLEAN /\ r.done \in BOOLEAN
    BY <1>3 DEF StringResumed
  <1>5. first.done = r.done /\ first.fr = g
    BY DEF StringFrame
  <1>6. CASE r.done
    <2>1. w = r
      BY <1>3, <1>6 DEF StringResumed
    <2>. QED
      BY <1>2, <1>5, <1>6, <2>1 DEF FrameResumed
  <1>7. CASE ~r.done
    <2>1. r.i = m /\ w = scanStringBody(src, m, n, r.esc)
      BY <1>3, <1>7 DEF StringResumed
    <2>2. r.i - start \in Nat \ {0} /\ start + (r.i - start) = m
      BY <1>1, <1>4, <2>1
    <2>3. /\ g \in FrameFields /\ g.mode = "string" /\ g.framed = r.i - start /\ g.esc = r.esc
      BY <1>1, <1>4, <2>2 DEF FrameFields
    <2>4. \A x, y : [g EXCEPT !.framed = x, !.esc = y] = [frame EXCEPT !.framed = x, !.esc = y]
      OBVIOUS
    <2> HIDE DEF g
    <2>5. Suspended(g, start, m) /\ m = start + g.framed
      BY <2>2, <2>3 DEF Suspended
    <2>6. Scan(g, src, start, n) = StringFrame(g, start, w)
      BY <2>1, <2>3, <2>5, ScanIs
    <2>7. StringFrame(g, start, w) = whole
      BY <2>4 DEF StringFrame
    <2> HIDE DEF first, whole
    <2>8. FrameResumed(src, start, m, n, first, whole)
      BY <1>5, <1>7, <2>5, <2>6, <2>7 DEF FrameResumed
    <2>. QED
      BY <1>2, <2>8
  <1>. QED
    BY <1>4, <1>6, <1>7

\* So does the frame of a number.
LEMMA NumberFrameResumes ==
    ASSUME NEW src, Len(src) \in Nat, NEW n \in 0..Len(src), NEW m \in 0..n, NEW start \in 0..m,
           NEW frame, Suspended(frame, start, m), frame.mode = "number"
    PROVE  FrameResumed(src, start, m, n, Scan(frame, src, start, m), Scan(frame, src, start, n))
  <1> DEFINE at == start + frame.framed
             r == scanNumberRun(src, at, m, frame.numE)
             w == scanNumberRun(src, at, n, frame.numE)
             g == [frame EXCEPT !.framed = r.i - start, !.numE = r.numE]
             first == NumberFrame(frame, start, r)
             whole == NumberFrame(frame, start, w)
  <1>1. /\ frame \in FrameFields /\ at \in 0..m /\ frame.numE \in BOOLEAN /\ frame.framed \in Nat \ {0}
        /\ start \in Nat /\ start < at /\ n \in Nat
    BY DEF Suspended, FrameFields
  <1>2. Scan(frame, src, start, m) = first /\ Scan(frame, src, start, n) = whole
    BY ScanIs
  <1>3. NumberResumed(src, m, n, r, w)
    BY <1>1, NumberResumes
  <1> HIDE DEF r, w
  <1>4. r.i \in 0..m /\ r.numE \in BOOLEAN /\ r.done \in BOOLEAN
    BY <1>3 DEF NumberResumed
  <1>5. first.done = r.done /\ first.fr = g
    BY DEF NumberFrame
  <1>6. CASE r.done
    <2>1. w = r
      BY <1>3, <1>6 DEF NumberResumed
    <2>. QED
      BY <1>2, <1>5, <1>6, <2>1 DEF FrameResumed
  <1>7. CASE ~r.done
    <2>1. r.i = m /\ w = scanNumberRun(src, m, n, r.numE)
      BY <1>3, <1>7 DEF NumberResumed
    <2>2. r.i - start \in Nat \ {0} /\ start + (r.i - start) = m
      BY <1>1, <1>4, <2>1
    <2>3. /\ g \in FrameFields /\ g.mode = "number" /\ g.framed = r.i - start /\ g.numE = r.numE
      BY <1>1, <1>4, <2>2 DEF FrameFields
    <2>4. \A x, y : [g EXCEPT !.framed = x, !.numE = y] = [frame EXCEPT !.framed = x, !.numE = y]
      OBVIOUS
    <2> HIDE DEF g
    <2>5. Suspended(g, start, m) /\ m = start + g.framed
      BY <2>2, <2>3 DEF Suspended
    <2>6. Scan(g, src, start, n) = NumberFrame(g, start, w)
      BY <2>1, <2>3, <2>5, ScanIs
    <2>7. NumberFrame(g, start, w) = whole
      BY <2>4 DEF NumberFrame
    <2> HIDE DEF first, whole
    <2>8. FrameResumed(src, start, m, n, first, whole)
      BY <1>5, <1>7, <2>5, <2>6, <2>7 DEF FrameResumed
    <2>. QED
      BY <1>2, <2>8
  <1>. QED
    BY <1>4, <1>6, <1>7

\* A literal with l bytes left at at takes r of them from src[:m] and w from
\* src[:n]; with l - r left at m it would take t.
TookInTwo(l, at, m, start, r, w, t) ==
    /\ l = r => w = r
    /\ l # r => /\ r = m - at /\ l - r \in Nat /\ at + r = m
               /\ at + r - start \in Nat \ {0} /\ start + (at + r - start) = m
               /\ w = r + t /\ t \in Nat /\ m + t - start = at + w - start
               /\ (l - r) - t = l - w /\ (l - r = t <=> l = w)

\* What is left of a literal at the end of src[:m] is taken behind it.
LEMMA TookTwice ==
    ASSUME NEW l \in Nat, NEW at \in Nat, NEW m \in Nat, NEW n \in Nat, NEW start \in Nat,
           start < at, at <= m, m <= n
    PROVE  TookInTwo(l, at, m, start, Took(l, at, m), Took(l, at, n), Took(l - Took(l, at, m), m, n))
  <1> DEFINE r == Took(l, at, m)
             w == Took(l, at, n)
             t == Took(l - r, m, n)
  <1>1. CASE l <= m - at
    <2>1. r = l /\ w = l
      BY <1>1 DEF Took
    <2> HIDE DEF r, w, t
    <2>2. TookInTwo(l, at, m, start, r, w, t)
      BY <2>1 DEF TookInTwo
    <2>. QED
      BY <2>2 DEF r, w, t
  <1>2. CASE ~(l <= m - at)
    <2>1. r = m - at /\ l # r
      BY <1>2 DEF Took
    <2> HIDE DEF r
    <2>5. TookInTwo(l, at, m, start, r, w, t) => TookInTwo(l, at, m, start, Took(l, at, m), Took(l, at, n), Took(l - Took(l, at, m), m, n))
      BY DEF r
    <2>2. CASE l <= n - at
      <3>1. w = l /\ t = l - r
        BY <2>1, <2>2 DEF Took
      <3> HIDE DEF w, t
      <3>. QED
        BY <1>2, <2>1, <2>2, <2>5, <3>1 DEF TookInTwo
    <2>3. CASE ~(l <= n - at)
      <3>1. w = n - at /\ t = n - m
        BY <2>1, <2>3 DEF Took
      <3> HIDE DEF w, t
      <3>. QED
        BY <1>2, <2>1, <2>3, <2>5, <3>1 DEF TookInTwo
    <2>. QED
      BY <2>2, <2>3
  <1>. QED
    BY <1>1, <1>2

\* So does the frame of a literal, which counts the bytes it lacks.
LEMMA LiteralFrameResumes ==
    ASSUME NEW src, Len(src) \in Nat, NEW n \in 0..Len(src), NEW m \in 0..n, NEW start \in 0..m,
           NEW frame, Suspended(frame, start, m), frame.mode = "literal"
    PROVE  FrameResumed(src, start, m, n, Scan(frame, src, start, m), Scan(frame, src, start, n))
  <1> DEFINE at == start + frame.framed
             l == frame.litLeft
             r == Took(l, at, m)
             w == Took(l, at, n)
             a == l = r
             b == l = w
             g == [frame EXCEPT !.framed = at + r - start, !.litLeft = @ - r]
             first == LiteralFrame(frame, start, at, r, a)
             whole == LiteralFrame(frame, start, at, w, b)
  <1>1. /\ frame \in FrameFields /\ at \in 0..m /\ l \in Nat /\ frame.framed \in Nat \ {0}
        /\ start \in Nat /\ start < at /\ n \in Nat /\ m \in Nat /\ m <= n
    BY DEF Suspended, FrameFields
  <1>2. Scan(frame, src, start, m) = first /\ Scan(frame, src, start, n) = whole
    <2> HIDE DEF r, w
    <2>1. /\ Scan(frame, src, start, m) = LiteralFrame(frame, start, at, Took(l, at, m), l = Took(l, at, m))
          /\ Scan(frame, src, start, n) = LiteralFrame(frame, start, at, Took(l, at, n), l = Took(l, at, n))
      BY ScanIs
    <2>. QED
      BY <2>1, Zenon DEF r, w
  <1> DEFINE t == Took(l - r, m, n)
  <1>3. TookInTwo(l, at, m, start, r, w, t)
    <2> HIDE DEF at, l
    <2>1. l \in Nat /\ at \in Nat /\ m \in Nat /\ n \in Nat /\ start \in Nat /\ start < at /\ at <= m /\ m <= n
      BY <1>1
    <2>. QED
      BY <2>1, TookTwice
  <1> HIDE DEF a, b, t
  <1>4. first.done = a /\ first.fr = g
    BY DEF LiteralFrame
  <1>5. CASE a
    <2>1. r = w
      BY <1>3, <1>5 DEF a, TookInTwo
    <2>2. a = b
      BY <2>1 DEF a, b
    <2> HIDE DEF r, w
    <2>3. whole = first
      BY <2>1, <2>2
    <2> HIDE DEF first, whole, g
    <2>. QED
      BY <1>2, <1>4, <1>5, <2>3 DEF FrameResumed
  <1>6. CASE ~a
    <2> DEFINE c == l - r = t
    <2> HIDE DEF r, w, l, at
    <2>1. l # r
      BY <1>6 DEF a
    <2>2. /\ r = m - at /\ l - r \in Nat /\ at + r = m
          /\ at + r - start \in Nat \ {0} /\ start + (at + r - start) = m
          /\ w = r + t /\ t \in Nat /\ m + t - start = at + w - start
          /\ (l - r) - t = l - w /\ (l - r = t <=> l = w)
      BY <1>3, <2>1 DEF TookInTwo
    <2>3. c <=> b
      BY <2>2 DEF b
    <2> HIDE DEF c
    <2>4. /\ g \in FrameFields /\ g.mode = "literal" /\ g.framed = at + r - start /\ g.litLeft = l - r
      BY <1>1, <2>2 DEF FrameFields, l
    <2>5. \A x, y : [g EXCEPT !.framed = x, !.litLeft = y] = [frame EXCEPT !.framed = x, !.litLeft = y]
      OBVIOUS
    <2>6. \A x, y : [frame EXCEPT !.framed = x, !.litLeft = @ - y] = [frame EXCEPT !.framed = x, !.litLeft = l - y]
      BY <1>1 DEF FrameFields, l
    <2> HIDE DEF g
    <2>7. \A x, y : [g EXCEPT !.framed = x, !.litLeft = @ - y] = [g EXCEPT !.framed = x, !.litLeft = (l - r) - y]
      BY <2>4 DEF FrameFields
    <2>8. Suspended(g, start, m) /\ m = start + g.framed
      BY <1>1, <2>2, <2>4 DEF Suspended
    <2>9. Scan(g, src, start, n) = LiteralFrame(g, start, m, t, c)
      <3>1. Scan(g, src, start, n) =
              LiteralFrame(g, start, m, Took(g.litLeft, m, n), g.litLeft = Took(g.litLeft, m, n))
        BY <2>4, <2>8, ScanIs
      <3>. QED
        BY <2>4, <3>1, Zenon DEF t, c
    <2>10. LiteralFrame(g, start, m, t, c) = whole
      <3>1. [g EXCEPT !.framed = m + t - start, !.litLeft = @ - t]
              = [frame EXCEPT !.framed = at + w - start, !.litLeft = @ - w]
        <4>1. [g EXCEPT !.framed = m + t - start, !.litLeft = @ - t]
                = [g EXCEPT !.framed = at + w - start, !.litLeft = l - w]
          BY <2>2, <2>7
        <4>2. [frame EXCEPT !.framed = at + w - start, !.litLeft = @ - w]
                = [frame EXCEPT !.framed = at + w - start, !.litLeft = l - w]
          BY <2>6
        <4>. QED
          BY <2>5, <4>1, <4>2
      <3>2. c = b
        <4>1. c \in BOOLEAN /\ b \in BOOLEAN
          BY DEF c, b
        <4>. QED
          BY <2>3, <4>1
      <3>. QED
        BY <3>1, <3>2, Zenon DEF LiteralFrame
    <2> HIDE DEF first, whole
    <2>11. FrameResumed(src, start, m, n, first, whole)
      BY <1>4, <1>6, <2>8, <2>9, <2>10 DEF FrameResumed
    <2>. QED
      BY <1>2, <2>11
  <1>7. a \in BOOLEAN
    BY DEF a
  <1> HIDE DEF first, whole, g, r, w
  <1>. QED
    BY <1>5, <1>6, <1>7

\* So does the frame of a container.
LEMMA ContainerFrameResumes ==
    ASSUME NEW src, Len(src) \in Nat, NEW n \in 0..Len(src), NEW m \in 0..n, NEW start \in 0..m,
           NEW frame, Suspended(frame, start, m), frame.mode = "container"
    PROVE  FrameResumed(src, start, m, n, Scan(frame, src, start, m), Scan(frame, src, start, n))
  <1> DEFINE at == start + frame.framed
             f == ContainerLoop(src, m)
             h == ContainerLoop(src, n)
             r == f[<<at, frame.depth, frame.inStr, frame.esc>>]
             w == h[<<at, frame.depth, frame.inStr, frame.esc>>]
             g == [frame EXCEPT !.framed = r.i - start, !.depth = r.depth, !.inStr = r.inStr, !.esc = r.esc]
             first == ContainerFrame(frame, start, r)
             whole == ContainerFrame(frame, start, w)
  <1>1. /\ frame \in FrameFields /\ at \in 0..m /\ frame.inStr \in BOOLEAN /\ frame.esc \in BOOLEAN /\ frame.depth \in Nat \ {0}
        /\ frame.framed \in Nat \ {0} /\ start \in Nat /\ start < at
    BY DEF Suspended, FrameFields
  <1>2. Scan(frame, src, start, m) = first /\ Scan(frame, src, start, n) = whole
    BY ScanIs, ContainerScans
  <1>3. ContainerResumed(m, h, r, w)
    <2> HIDE DEF f, h
    <2>1. \A k \in 0..m : \A d \in Nat \ {0} : \A q, e \in BOOLEAN :
              ContainerResumed(m, h, f[<<k, d, q, e>>], h[<<k, d, q, e>>])
      BY ContainerResumes DEF f, h
    <2>. QED
      BY <1>1, <2>1
  <1> HIDE DEF r, w, f
  <1>4. r.i \in 0..m /\ r.inStr \in BOOLEAN /\ r.esc \in BOOLEAN /\ r.done \in BOOLEAN
    BY <1>3 DEF ContainerResumed
  <1>5. first.done = r.done /\ first.fr = g
    BY DEF ContainerFrame
  <1>6. CASE r.done
    <2>1. w = r
      BY <1>3, <1>6 DEF ContainerResumed
    <2>. QED
      BY <1>2, <1>5, <1>6, <2>1 DEF FrameResumed
  <1>7. CASE ~r.done
    <2> HIDE DEF h
    <2>1. r.i = m /\ r.depth \in Nat \ {0} /\ w = h[<<m, r.depth, r.inStr, r.esc>>]
      BY <1>3, <1>7 DEF ContainerResumed
    <2>2. r.i - start \in Nat \ {0} /\ start + (r.i - start) = m
      BY <1>1, <1>4, <2>1
    <2>3. /\ g \in FrameFields /\ g.mode = "container" /\ g.framed = r.i - start
          /\ g.depth = r.depth /\ g.inStr = r.inStr /\ g.esc = r.esc
      BY <1>1, <1>4, <2>1, <2>2 DEF FrameFields
    <2>4. \A x, y, z, u : [g EXCEPT !.framed = x, !.depth = y, !.inStr = z, !.esc = u]
                            = [frame EXCEPT !.framed = x, !.depth = y, !.inStr = z, !.esc = u]
      BY ZenonT(30)
    <2> HIDE DEF g
    <2>5. Suspended(g, start, m) /\ m = start + g.framed
      BY <2>1, <2>2, <2>3 DEF Suspended
    <2>6. Scan(g, src, start, n) = ContainerFrame(g, start, w)
      <3>1. scanContainer(src, m, n, g) = w
        BY <2>1, <2>3, ContainerScans DEF h
      <3>. QED
        BY <2>3, <2>5, <3>1, ScanIs
    <2>7. ContainerFrame(g, start, w) = whole
      BY <2>4 DEF ContainerFrame
    <2> HIDE DEF first, whole
    <2>8. FrameResumed(src, start, m, n, first, whole)
      BY <1>5, <1>7, <2>5, <2>6, <2>7 DEF FrameResumed
    <2>. QED
      BY <1>2, <2>8
  <1>. QED
    BY <1>4, <1>6, <1>7

\* Scan may be suspended at any byte: a frame that reached the end m of what
\* has been read goes on to what one scan of all n bytes returns, and if it
\* ended before, further bytes change nothing.
THEOREM FramesResume ==
    ASSUME NEW src, Len(src) \in Nat, NEW n \in 0..Len(src), NEW m \in 0..n, NEW start \in 0..m,
           NEW frame, Suspended(frame, start, m)
    PROVE  FrameResumed(src, start, m, n, Scan(frame, src, start, m), Scan(frame, src, start, n))
  <1>1. frame.mode \in {"string", "number", "literal", "container"}
    BY DEF Suspended, FrameFields
  <1>. QED
    BY <1>1, StringFrameResumes, NumberFrameResumes, LiteralFrameResumes, ContainerFrameResumes

(***************************************************************************)
(* The same bytes at another place.  fill moves the value to the front of  *)
(* the buffer; the frame counts from the value's start and does not see it. *)
(***************************************************************************)

\* The first m bytes of u are those of src from s on.
SameBytes(src, u, s, m) ==
    /\ Len(src) \in Nat /\ Len(u) \in Nat /\ s \in Nat /\ m \in Nat
    /\ s + m <= Len(src) /\ m <= Len(u)
    /\ \A k \in 0..(m - 1) : At(u, k) = At(src, s + k)

\* The special byte that stops the scan is the same.
LEMMA StopMoves ==
    ASSUME NEW src, NEW u, NEW s, NEW m, SameBytes(src, u, s, m), NEW k \in 0..m
    PROVE  Stop(src, s + m, s + k) = s + Stop(u, m, k)
  <1> DEFINE a == Stop(src, s + m, s + k)
             b == Stop(u, m, k)
  <1>1. /\ Len(src) \in Nat /\ Len(u) \in Nat /\ s \in Nat /\ m \in Nat /\ s + m <= Len(src) /\ m <= Len(u)
        /\ \A x \in 0..(m - 1) : At(u, x) = At(src, s + x)
    BY DEF SameBytes
  <1>2. s + m \in 0..Len(src) /\ s + k \in 0..(s + m) /\ m \in 0..Len(u)
    BY <1>1
  <1>3. /\ a \in (s + k)..(s + m) /\ \A x \in (s + k)..(a - 1) : At(src, x) \notin StringSpecial
        /\ a = s + m \/ At(src, a) \in StringSpecial
    BY <1>1, <1>2, StopIs
  <1>4. /\ b \in k..m /\ \A x \in k..(b - 1) : At(u, x) \notin StringSpecial
        /\ b = m \/ At(u, b) \in StringSpecial
    BY <1>1, <1>2, StopIs
  <1> HIDE DEF a, b
  <1>5. ASSUME a < s + b PROVE FALSE
    <2>1. a - s \in 0..(m - 1) /\ a - s \in k..(b - 1) /\ s + (a - s) = a /\ a # s + m
      BY <1>1, <1>3, <1>4, <1>5
    <2>2. At(u, a - s) = At(src, a)
      BY <1>1, <2>1
    <2>. QED
      BY <1>3, <1>4, <2>1, <2>2
  <1>6. ASSUME s + b < a PROVE FALSE
    <2>1. b \in 0..(m - 1) /\ s + b \in (s + k)..(a - 1) /\ b # m
      BY <1>1, <1>3, <1>4, <1>6
    <2>. QED
      BY <1>1, <1>3, <1>4, <2>1
  <1>7. a = s + b
    BY <1>1, <1>3, <1>4, <1>5, <1>6
  <1>. QED
    BY <1>7 DEF a, b

\* r at its place in src is w at its place in u.
StringMoved(s, k, m, r, w) ==
    /\ w.i \in k..m /\ r.i = s + w.i /\ (k < m => k < w.i)
    /\ w.esc \in BOOLEAN /\ r.esc = w.esc /\ w.done \in BOOLEAN /\ r.done = w.done

\* scanStringBody does the same at both places.
LEMMA StringMoves ==
    ASSUME NEW src, NEW u, NEW s, NEW m, SameBytes(src, u, s, m)
    PROVE  \A k \in 0..m : \A e \in BOOLEAN :
              StringMoved(s, k, m, scanStringBody(src, s + k, s + m, e), scanStringBody(u, k, m, e))
  <1> DEFINE R(k, e) == scanStringBody(src, s + k, s + m, e)
             W(k, e) == scanStringBody(u, k, m, e)
             Q == {k \in 0..m : \A e \in BOOLEAN : StringMoved(s, k, m, R(k, e), W(k, e))}
  <1>1. /\ Len(src) \in Nat /\ Len(u) \in Nat /\ s \in Nat /\ m \in Nat /\ s + m \in 0..Len(src) /\ m \in 0..Len(u)
        /\ \A x \in 0..(m - 1) : At(u, x) = At(src, s + x)
    BY DEF SameBytes
  <1>2. ASSUME NEW k \in 0..m, \A x \in 0..m : k < x => x \in Q, NEW e \in BOOLEAN
        PROVE  StringMoved(s, k, m, R(k, e), W(k, e))
    <2> DEFINE a == Stop(src, s + m, s + k)
               b == Stop(u, m, k)
    <2>1. s + k \in 0..(s + m) /\ k \in Nat /\ a = s + b /\ b \in k..m
      <3>1. s + k \in 0..(s + m) /\ k \in Nat
        BY <1>1
      <3>2. a = s + b
        BY StopMoves
      <3>3. b \in k..m
        BY <1>1, StopIs
      <3>. QED
        BY <3>1, <3>2, <3>3
    <2>2. ASSUME NEW x \in 0..m, k < x, NEW y \in BOOLEAN, R(k, e) = R(x, y), W(k, e) = W(x, y)
          PROVE  StringMoved(s, k, m, R(k, e), W(k, e))
      <3>1. StringMoved(s, x, m, R(x, y), W(x, y))
        BY <1>2, <2>2
      <3> DEFINE r == R(x, y)
                 w == W(x, y)
      <3> HIDE DEF r, w
      <3>2. StringMoved(s, x, m, r, w)
        BY <3>1 DEF r, w
      <3>3. StringMoved(s, k, m, r, w)
        BY <2>2, <3>2 DEF StringMoved
      <3>. QED
        BY <2>2, <3>3 DEF r, w
    <2>3. CASE k = m
      <3>1. R(k, e) = [i |-> s + m, esc |-> e, done |-> FALSE]
        BY <1>1, <2>1, <2>3, StringGoesOn
      <3>2. W(k, e) = [i |-> m, esc |-> e, done |-> FALSE]
        BY <1>1, <2>3, StringGoesOn
      <3> HIDE DEF R, W
      <3>. QED
        BY <1>1, <2>3, <3>1, <3>2 DEF StringMoved
    <2>4. CASE k < m
      <3>1. s + k < s + m
        BY <1>1, <2>4
      <3>2. CASE e
        <4>1. R(k, e) = scanStringBody(src, (s + k) + 1, s + m, FALSE)
          BY <1>1, <2>1, <3>1, <3>2, StringGoesOn
        <4>2. W(k, e) = W(k + 1, FALSE)
          BY <1>1, <2>4, <3>2, StringGoesOn
        <4>3. (s + k) + 1 = s + (k + 1) /\ k + 1 \in 0..m /\ k < k + 1
          BY <1>1, <2>4
        <4>4. R(k, e) = R(k + 1, FALSE)
          BY <4>1, <4>3
        <4> HIDE DEF R, W
        <4>. QED
          BY <2>2, <4>2, <4>3, <4>4
      <3>3. CASE ~e /\ b = m
        <4>1. R(k, e) = [i |-> s + m, esc |-> FALSE, done |-> FALSE]
          <5>1. a = s + m
            BY <2>1, <3>3
          <5>. QED
            BY <1>1, <2>1, <3>1, <3>3, <5>1, StringGoesOn
        <4>2. W(k, e) = [i |-> m, esc |-> FALSE, done |-> FALSE]
          BY <1>1, <2>4, <3>3, StringGoesOn
        <4> HIDE DEF R, W
        <4>3. m \in k..m
          BY <1>1
        <4>. QED
          BY <1>1, <2>4, <4>1, <4>2, <4>3 DEF StringMoved
      <3>4. CASE ~e /\ b < m
        <4>1. a < s + m /\ b \in 0..(m - 1) /\ b + 1 \in 0..m /\ k < b + 1 /\ b + 1 \in k..m
          BY <1>1, <2>1, <3>4
        <4>2. At(src, a) = At(u, b)
          BY <1>1, <2>1, <4>1
        <4>3. CASE At(u, b) = Quote
          <5>1. R(k, e) = [i |-> a + 1, esc |-> FALSE, done |-> TRUE]
            BY <1>1, <2>1, <3>1, <3>4, <4>1, <4>2, <4>3, StringGoesOn
          <5>2. W(k, e) = [i |-> b + 1, esc |-> FALSE, done |-> TRUE]
            BY <1>1, <2>4, <3>4, <4>3, StringGoesOn
          <5> HIDE DEF R, W, a, b
          <5>3. a + 1 = s + (b + 1)
            BY <1>1, <2>1
          <5>. QED
            BY <4>1, <5>1, <5>2, <5>3 DEF StringMoved
        <4>4. CASE At(u, b) # Quote
          <5> DEFINE y == At(u, b) = Backslash
          <5>1. R(k, e) = scanStringBody(src, a + 1, s + m, At(src, a) = Backslash)
            BY <1>1, <2>1, <3>1, <3>4, <4>1, <4>2, <4>4, StringGoesOn
          <5>2. W(k, e) = W(b + 1, y)
            BY <1>1, <2>4, <3>4, <4>4, StringGoesOn
          <5>3. a + 1 = s + (b + 1) /\ y \in BOOLEAN
            BY <1>1, <2>1
          <5>4. R(k, e) = R(b + 1, y)
            <6> HIDE DEF a, b
            <6>. QED
              BY <4>2, <5>1, <5>3
          <5> HIDE DEF R, W, y, b
          <5>. QED
            BY <2>2, <4>1, <5>2, <5>3, <5>4
        <4>. QED
          BY <4>3, <4>4
      <3>5. e \/ (~e /\ b = m) \/ (~e /\ b < m)
        BY <1>1, <2>1
      <3> HIDE DEF R, W, b
      <3>. QED
        BY <3>2, <3>3, <3>4, <3>5
    <2>5. k = m \/ k < m
      BY <1>1
    <2> HIDE DEF R, W
    <2>. QED
      BY <2>3, <2>4, <2>5
  <1>3. \A k \in 0..m : k \in Q
    <2>1. \A k \in 0..m : (\A x \in 0..m : k < x => x \in Q) => k \in Q
      <3> HIDE DEF R, W
      <3>. QED
        BY <1>2
    <2> HIDE DEF Q
    <2>. QED
      BY <1>1, <2>1, Downward
  <1>. QED
    BY <1>3

\* The same for a number.
NumberMoved(s, m, r, w) ==
    /\ w.i \in 0..m /\ r.i = s + w.i
    /\ w.numE \in BOOLEAN /\ r.numE = w.numE /\ w.done \in BOOLEAN /\ r.done = w.done

\* So does scanNumberRun.
LEMMA NumberMoves ==
    ASSUME NEW src, NEW u, NEW s, NEW m, SameBytes(src, u, s, m)
    PROVE  \A k \in 0..m : \A e \in BOOLEAN :
              NumberMoved(s, m, scanNumberRun(src, s + k, s + m, e), scanNumberRun(u, k, m, e))
  <1> DEFINE R(k, e) == scanNumberRun(src, s + k, s + m, e)
             W(k, e) == scanNumberRun(u, k, m, e)
             Q == {k \in 0..m : \A e \in BOOLEAN : NumberMoved(s, m, R(k, e), W(k, e))}
  <1>1. /\ s \in Nat /\ m \in Nat /\ s + m \in Nat
        /\ \A x \in 0..(m - 1) : At(u, x) = At(src, s + x)
    BY DEF SameBytes
  <1>2. ASSUME NEW k \in 0..m, \A x \in 0..m : k < x => x \in Q, NEW e \in BOOLEAN
        PROVE  NumberMoved(s, m, R(k, e), W(k, e))
    <2>1. s + k \in 0..(s + m) /\ k \in Nat
      BY <1>1
    <2>2. ASSUME k + 1 \in 0..m, NEW y \in BOOLEAN,
                 R(k, e) = scanNumberRun(src, (s + k) + 1, s + m, y), W(k, e) = W(k + 1, y)
          PROVE  NumberMoved(s, m, R(k, e), W(k, e))
      <3>1. NumberMoved(s, m, R(k + 1, y), W(k + 1, y))
        BY <1>2, <2>1, <2>2
      <3>2. (s + k) + 1 = s + (k + 1)
        BY <1>1, <2>1
      <3>3. R(k, e) = R(k + 1, y)
        BY <2>2, <3>2
      <3> HIDE DEF R, W
      <3>. QED
        BY <2>2, <3>1, <3>3
    <2>3. CASE k = m
      <3>1. R(k, e) = [i |-> s + m, numE |-> e, done |-> FALSE]
        BY <1>1, <2>1, <2>3, NumberGoesOn
      <3>2. W(k, e) = [i |-> m, numE |-> e, done |-> FALSE]
        BY <1>1, <2>3, NumberGoesOn
      <3> HIDE DEF R, W
      <3>. QED
        BY <1>1, <2>3, <3>1, <3>2 DEF NumberMoved
    <2>4. CASE k < m
      <3> DEFINE c == At(u, k)
      <3>1. s + k < s + m /\ k \in 0..(m - 1) /\ k + 1 \in 0..m
        BY <1>1, <2>4
      <3>2. At(src, s + k) = c
        BY <1>1, <3>1
      <3> HIDE DEF c
      <3>3. CASE NumberByte(c, e)
        <4>1. R(k, e) = scanNumberRun(src, (s + k) + 1, s + m, FALSE)
          BY <1>1, <2>1, <3>1, <3>2, <3>3, NumberGoesOn
        <4>2. W(k, e) = W(k + 1, FALSE)
          BY <1>1, <2>4, <3>3, NumberGoesOn DEF c
        <4> HIDE DEF R, W
        <4>. QED
          BY <2>2, <3>1, <4>1, <4>2
      <3>4. CASE ~NumberByte(c, e) /\ ExponentByte(c)
        <4>1. R(k, e) = scanNumberRun(src, (s + k) + 1, s + m, TRUE)
          BY <1>1, <2>1, <3>1, <3>2, <3>4, NumberGoesOn
        <4>2. W(k, e) = W(k + 1, TRUE)
          BY <1>1, <2>4, <3>4, NumberGoesOn DEF c
        <4> HIDE DEF R, W
        <4>. QED
          BY <2>2, <3>1, <4>1, <4>2
      <3>5. CASE ~NumberByte(c, e) /\ ~ExponentByte(c)
        <4>1. R(k, e) = [i |-> s + k, numE |-> e, done |-> TRUE]
          BY <1>1, <2>1, <3>1, <3>2, <3>5, NumberGoesOn
        <4>2. W(k, e) = [i |-> k, numE |-> e, done |-> TRUE]
          BY <1>1, <2>4, <3>5, NumberGoesOn DEF c
        <4> HIDE DEF R, W
        <4>. QED
          BY <1>1, <4>1, <4>2 DEF NumberMoved
      <3> HIDE DEF R, W
      <3>. QED
        BY <3>3, <3>4, <3>5
    <2>5. k = m \/ k < m
      BY <1>1
    <2> HIDE DEF R, W
    <2>. QED
      BY <2>3, <2>4, <2>5
  <1>3. \A k \in 0..m : k \in Q
    <2>1. \A k \in 0..m : (\A x \in 0..m : k < x => x \in Q) => k \in Q
      <3> HIDE DEF R, W
      <3>. QED
        BY <1>2
    <2> HIDE DEF Q
    <2>. QED
      BY <1>1, <2>1, Downward
  <1>. QED
    BY <1>3

\* The same for a container.
ContainerMoved(s, m, r, w) ==
    /\ w.i \in 0..m /\ r.i = s + w.i /\ w.depth \in Nat /\ r.depth = w.depth
    /\ w.inStr \in BOOLEAN /\ r.inStr = w.inStr
    /\ w.esc \in BOOLEAN /\ r.esc = w.esc /\ w.done \in BOOLEAN /\ r.done = w.done

\* Behind k the loops f and h run alike.
MovedBehind(s, m, f, h, k) ==
    \A x \in 0..m : k < x => \A b \in Nat \ {0} : \A p, g \in BOOLEAN :
        ContainerMoved(s, m, f[<<s + x, b, p, g>>], h[<<x, b, p, g>>])

\* One turn of the container loop at both places.
LEMMA ContainerMovesOn ==
    ASSUME NEW src, NEW u, NEW s, NEW m, SameBytes(src, u, s, m), NEW k \in 0..m,
           NEW d \in Nat \ {0}, NEW q \in BOOLEAN, NEW e \in BOOLEAN,
           NEW f, NEW h, NEW r, NEW w,
           r = ContainerTurn(src, s + m, f, s + k, d, q, e),
           w = ContainerTurn(u, m, h, k, d, q, e),
           MovedBehind(s, m, f, h, k)
    PROVE  ContainerMoved(s, m, r, w)
  <1> DEFINE c == At(u, k)
             v == scanStringBody(src, s + k, s + m, e)
             t == scanStringBody(u, k, m, e)
  <1>1. /\ s \in Nat /\ m \in Nat /\ s + m \in Nat /\ k \in Nat
        /\ \A x \in 0..(m - 1) : At(u, x) = At(src, s + x)
    BY DEF SameBytes
  <1>2. StringMoved(s, k, m, v, t)
    BY StringMoves
  <1> HIDE DEF c, v, t
  <1>3. ASSUME NEW x \in 0..m, k < x, NEW b \in Nat \ {0}, NEW p \in BOOLEAN, NEW g \in BOOLEAN,
               r = f[<<s + x, b, p, g>>], w = h[<<x, b, p, g>>]
        PROVE  ContainerMoved(s, m, r, w)
    <2>1. ContainerMoved(s, m, f[<<s + x, b, p, g>>], h[<<x, b, p, g>>])
      BY <1>3 DEF MovedBehind
    <2>. QED
      BY <1>3, <2>1
  <1>4. TRUE \in BOOLEAN /\ FALSE \in BOOLEAN
    OBVIOUS
  <1>5. CASE k = m
    <2>1. k >= m /\ s + k >= s + m
      BY <1>1, <1>5
    <2>2. r = LoopEnd(s + k, d, q, e, FALSE) /\ w = LoopEnd(k, d, q, e, FALSE)
      BY <2>1, Zenon DEF ContainerTurn
    <2>3. /\ r.i = s + k /\ r.depth = d /\ r.inStr = q /\ r.esc = e /\ r.done = FALSE
          /\ w.i = k /\ w.depth = d /\ w.inStr = q /\ w.esc = e /\ w.done = FALSE
      BY <2>2 DEF LoopEnd
    <2>. QED
      BY <1>1, <2>3 DEF ContainerMoved
  <1>6. ASSUME k < m
        PROVE  /\ ~(k >= m) /\ ~(s + k >= s + m) /\ k + 1 \in 0..m /\ k < k + 1
               /\ At(src, s + k) = c /\ (s + k) + 1 = s + (k + 1)
    <2>1. /\ ~(k >= m) /\ ~(s + k >= s + m) /\ k + 1 \in 0..m /\ k < k + 1
          /\ (s + k) + 1 = s + (k + 1) /\ k \in 0..(m - 1)
      BY <1>1, <1>6
    <2>. QED
      BY <1>1, <2>1 DEF c
  <1>7. CASE k < m /\ q
    <2> DEFINE a == ~t.done
               b == ~v.done
    <2>1. /\ t.i \in 0..m /\ v.i = s + t.i /\ k < t.i
          /\ t.esc \in BOOLEAN /\ v.esc = t.esc /\ v.done = t.done
      BY <1>1, <1>2, <1>7 DEF StringMoved
    <2>2. r = f[<<v.i, d, b, v.esc>>]
      BY <1>6, <1>7, Zenon DEF ContainerTurn, v
    <2>3. w = h[<<t.i, d, a, t.esc>>]
      BY <1>6, <1>7, Zenon DEF ContainerTurn, t
    <2>4. a = b /\ a \in BOOLEAN
      BY <2>1
    <2> HIDE DEF a, b
    <2>5. r = f[<<s + t.i, d, a, t.esc>>]
      BY <2>1, <2>2, <2>4
    <2>. QED
      BY <1>3, <2>1, <2>3, <2>4, <2>5
  <1>8. CASE k < m /\ ~q /\ c = Quote
    <2>1. r = f[<<s + (k + 1), d, TRUE, e>>] /\ w = h[<<k + 1, d, TRUE, e>>]
      BY <1>6, <1>8, Zenon DEF ContainerTurn, c
    <2>2. k + 1 \in 0..m /\ k < k + 1
      BY <1>6, <1>8
    <2>. QED
      BY <1>3, <1>4, <2>1, <2>2
  <1>9. CASE k < m /\ ~q /\ c # Quote /\ IsOpener(c)
    <2>1. r = f[<<s + (k + 1), d + 1, FALSE, e>>] /\ w = h[<<k + 1, d + 1, FALSE, e>>]
      BY <1>6, <1>9, Zenon DEF ContainerTurn, c
    <2>2. d + 1 \in Nat \ {0} /\ k + 1 \in 0..m /\ k < k + 1
      BY <1>6, <1>9
    <2>. QED
      BY <1>3, <1>4, <2>1, <2>2
  <1>10. CASE k < m /\ ~q /\ c # Quote /\ ~IsOpener(c) /\ IsCloser(c) /\ d # 1
    <2>1. r = f[<<s + (k + 1), d - 1, FALSE, e>>] /\ w = h[<<k + 1, d - 1, FALSE, e>>]
      BY <1>6, <1>10, Zenon DEF ContainerTurn, c
    <2>2. d - 1 \in Nat \ {0} /\ k + 1 \in 0..m /\ k < k + 1
      BY <1>6, <1>10
    <2>. QED
      BY <1>3, <1>4, <2>1, <2>2
  <1>11. CASE k < m /\ ~q /\ c # Quote /\ ~IsOpener(c) /\ IsCloser(c) /\ d = 1
    <2>1. r = LoopEnd(s + (k + 1), 0, q, e, TRUE) /\ w = LoopEnd(k + 1, 0, q, e, TRUE)
      BY <1>6, <1>11, Zenon DEF ContainerTurn, c
    <2>2. /\ r.i = s + (k + 1) /\ r.depth = 0 /\ r.inStr = q /\ r.esc = e /\ r.done = TRUE
          /\ w.i = k + 1 /\ w.depth = 0 /\ w.inStr = q /\ w.esc = e /\ w.done = TRUE
      BY <2>1 DEF LoopEnd
    <2>3. k + 1 \in 0..m /\ 0 \in Nat
      BY <1>6, <1>11
    <2>4. w.done \in BOOLEAN /\ r.done = w.done /\ w.inStr \in BOOLEAN /\ r.inStr = w.inStr
      BY <2>2
    <2>5. w.esc \in BOOLEAN /\ r.esc = w.esc
      BY <2>2
    <2>6. w.i \in 0..m /\ r.i = s + w.i /\ w.depth \in Nat /\ r.depth = w.depth
      BY <2>2, <2>3
    <2>. QED
      BY <2>4, <2>5, <2>6 DEF ContainerMoved
  <1>12. CASE k < m /\ ~q /\ c # Quote /\ ~IsOpener(c) /\ ~IsCloser(c)
    <2>1. r = f[<<s + (k + 1), d, FALSE, e>>] /\ w = h[<<k + 1, d, FALSE, e>>]
      BY <1>6, <1>12, Zenon DEF ContainerTurn, c
    <2>2. k + 1 \in 0..m /\ k < k + 1
      BY <1>6, <1>12
    <2>. QED
      BY <1>3, <1>4, <2>1, <2>2
  <1>13. k = m \/ k < m
    BY <1>1
  <1>. QED
    BY <1>5, <1>7, <1>8, <1>9, <1>10, <1>11, <1>12, <1>13

\* So does scanContainer.
LEMMA ContainerMoves ==
    ASSUME NEW src, NEW u, NEW s, NEW m, SameBytes(src, u, s, m)
    PROVE  \A k \in 0..m : \A d \in Nat \ {0} : \A q, e \in BOOLEAN :
              ContainerMoved(s, m, ContainerLoop(src, s + m)[<<s + k, d, q, e>>], ContainerLoop(u, m)[<<k, d, q, e>>])
  <1> DEFINE f == ContainerLoop(src, s + m)
             h == ContainerLoop(u, m)
             Q == {k \in 0..m : \A d \in Nat \ {0} : \A q, e \in BOOLEAN :
                                   ContainerMoved(s, m, f[<<s + k, d, q, e>>], h[<<k, d, q, e>>])}
  <1>1. /\ Len(src) \in Nat /\ Len(u) \in Nat /\ m \in Nat /\ s + m \in 0..Len(src) /\ m \in 0..Len(u)
        /\ \A k \in 0..m : s + k \in 0..(s + m)
    BY DEF SameBytes
  <1>2. \A k \in 0..(s + m), d \in Nat \ {0}, q \in BOOLEAN, e \in BOOLEAN :
            f[<<k, d, q, e>>] = ContainerTurn(src, s + m, f, k, d, q, e)
    BY <1>1, ContainerTurns
  <1>3. \A k \in 0..m, d \in Nat \ {0}, q \in BOOLEAN, e \in BOOLEAN :
            h[<<k, d, q, e>>] = ContainerTurn(u, m, h, k, d, q, e)
    BY <1>1, ContainerTurns
  <1> HIDE DEF f, h
  <1>4. ASSUME NEW k \in 0..m, \A x \in 0..m : k < x => x \in Q
        PROVE  k \in Q
    <2>1. ASSUME NEW d \in Nat \ {0}, NEW q \in BOOLEAN, NEW e \in BOOLEAN
          PROVE  ContainerMoved(s, m, f[<<s + k, d, q, e>>], h[<<k, d, q, e>>])
      <3> DEFINE r == f[<<s + k, d, q, e>>]
                 w == h[<<k, d, q, e>>]
      <3>1. r = ContainerTurn(src, s + m, f, s + k, d, q, e)
        BY <1>1, <1>2
      <3>2. w = ContainerTurn(u, m, h, k, d, q, e)
        BY <1>3
      <3>3. MovedBehind(s, m, f, h, k)
        BY <1>4 DEF MovedBehind
      <3> HIDE DEF r, w, Q
      <3>4. ContainerMoved(s, m, r, w)
        BY <3>1, <3>2, <3>3, ContainerMovesOn
      <3>. QED
        BY <3>4 DEF r, w
    <2>. QED
      BY <2>1
  <1>5. \A k \in 0..m : k \in Q
    <2> HIDE DEF Q
    <2>. QED
      BY <1>1, <1>4, Downward
  <1>. QED
    BY <1>5 DEF f, h

\* A frame finds in u what it finds in src, where the same bytes stand: it
\* counts from the start of the value.
LEMMA FrameMoves ==
    ASSUME NEW src, NEW u, NEW s, NEW m, SameBytes(src, u, s, m), NEW start \in 0..m,
           NEW frame, Suspended(frame, start, m)
    PROVE  Scan(frame, src, s + start, s + m) = Scan(frame, u, start, m)
  <1> DEFINE at == start + frame.framed
             j == (s + start) + frame.framed
  <1>1. /\ frame \in FrameFields /\ at \in 0..m /\ start \in Nat /\ s \in Nat /\ m \in Nat
        /\ frame.inStr \in BOOLEAN /\ frame.esc \in BOOLEAN /\ frame.numE \in BOOLEAN /\ frame.litLeft \in Nat
        /\ frame.framed \in Nat /\ frame.depth \in Nat /\ (frame.mode = "container" => frame.depth \in Nat \ {0})
        /\ frame.mode \in {"string", "number", "literal", "container"}
    BY DEF Suspended, FrameFields, SameBytes
  <1>2. j = s + at /\ \A x \in 0..m : (s + x) - (s + start) = x - start
    BY <1>1
  <1>3. CASE frame.mode = "string"
    <2> DEFINE r == scanStringBody(src, j, s + m, frame.esc)
               w == scanStringBody(u, at, m, frame.esc)
    <2>1. Scan(frame, src, s + start, s + m) = StringFrame(frame, s + start, r)
      BY <1>3, ScanIs
    <2>2. Scan(frame, u, start, m) = StringFrame(frame, start, w)
      BY <1>3, ScanIs
    <2>3. StringMoved(s, at, m, r, w)
      <3> HIDE DEF at
      <3>. QED
        BY <1>1, <1>2, StringMoves
    <2> HIDE DEF r, w, at, j
    <2>4. w.i \in 0..m /\ r.i - (s + start) = w.i - start /\ r.esc = w.esc /\ r.done = w.done
      <3>1. w.i \in at..m /\ r.i = s + w.i /\ r.esc = w.esc /\ r.done = w.done
        BY <2>3 DEF StringMoved
      <3>2. w.i \in 0..m
        BY <1>1, <3>1
      <3>. QED
        BY <1>2, <3>1, <3>2
    <2>5. StringFrame(frame, s + start, r) = StringFrame(frame, start, w)
      BY <2>4 DEF StringFrame
    <2>. QED
      BY <2>1, <2>2, <2>5
  <1>4. CASE frame.mode = "number"
    <2> DEFINE r == scanNumberRun(src, j, s + m, frame.numE)
               w == scanNumberRun(u, at, m, frame.numE)
    <2>1. Scan(frame, src, s + start, s + m) = NumberFrame(frame, s + start, r)
      BY <1>4, ScanIs
    <2>2. Scan(frame, u, start, m) = NumberFrame(frame, start, w)
      BY <1>4, ScanIs
    <2>3. NumberMoved(s, m, r, w)
      <3> HIDE DEF at
      <3>. QED
        BY <1>1, <1>2, NumberMoves
    <2> HIDE DEF r, w, at, j
    <2>4. r.i - (s + start) = w.i - start /\ r.numE = w.numE /\ r.done = w.done
      BY <1>2, <2>3 DEF NumberMoved
    <2>5. NumberFrame(frame, s + start, r) = NumberFrame(frame, start, w)
      BY <2>4 DEF NumberFrame
    <2>. QED
      BY <2>1, <2>2, <2>5
  <1>5. CASE frame.mode = "literal"
    <2> DEFINE l == frame.litLeft
               r == Took(l, j, s + m)
               w == Took(l, at, m)
               a == l = r
               b == l = w
    <2>1. Scan(frame, src, s + start, s + m) = LiteralFrame(frame, s + start, j, r, a)
      BY <1>5, ScanIs
    <2>2. Scan(frame, u, start, m) = LiteralFrame(frame, start, at, w, b)
      BY <1>5, ScanIs
    <2>3. r = w
      <3>1. (s + m) - j = m - at
        BY <1>1, <1>2
      <3>. QED
        BY <3>1 DEF Took
    <2>4. a = b
      BY <2>3
    <2>5. j + w - (s + start) = at + w - start
      <3>1. w \in Int
        BY <1>1 DEF Took
      <3> HIDE DEF w, at, j
      <3>. QED
        BY <1>1, <1>2, <3>1
    <2> HIDE DEF at, j, l, r, w, a, b
    <2>6. LiteralFrame(frame, s + start, j, r, a) = LiteralFrame(frame, start, at, w, b)
      BY <2>3, <2>4, <2>5 DEF LiteralFrame
    <2>. QED
      BY <2>1, <2>2, <2>6
  <1>6. CASE frame.mode = "container"
    <2> DEFINE r == ContainerLoop(src, s + m)[<<j, frame.depth, frame.inStr, frame.esc>>]
               w == ContainerLoop(u, m)[<<at, frame.depth, frame.inStr, frame.esc>>]
    <2>1. Scan(frame, src, s + start, s + m) = ContainerFrame(frame, s + start, r)
      BY <1>6, ScanIs, ContainerScans
    <2>2. Scan(frame, u, start, m) = ContainerFrame(frame, start, w)
      BY <1>6, ScanIs, ContainerScans
    <2>3. ContainerMoved(s, m, r, w)
      <3>1. \A k \in 0..m : \A d \in Nat \ {0} : \A q, e \in BOOLEAN :
              ContainerMoved(s, m, ContainerLoop(src, s + m)[<<s + k, d, q, e>>], ContainerLoop(u, m)[<<k, d, q, e>>])
        BY ContainerMoves
      <3>2. frame.depth \in Nat \ {0}
        BY <1>1, <1>6
      <3> HIDE DEF at, j
      <3>. QED
        BY <1>1, <1>2, <3>1, <3>2
    <2> HIDE DEF r, w, at, j
    <2>4. r.i - (s + start) = w.i - start /\ r.depth = w.depth /\ r.inStr = w.inStr /\ r.esc = w.esc /\ r.done = w.done
      BY <1>2, <2>3 DEF ContainerMoved
    <2>5. ContainerFrame(frame, s + start, r) = ContainerFrame(frame, start, w)
      BY <2>4 DEF ContainerFrame
    <2>. QED
      BY <2>1, <2>2, <2>5
  <1>. QED
    BY <1>1, <1>3, <1>4, <1>5, <1>6

-----------------------------------------------------------------------------
(***************************************************************************)
(* The frame of a valid value is the value.                                *)
(***************************************************************************)

\* The scan stops at a special byte, and passes any other.
LEMMA StopHere ==
    ASSUME NEW src, Len(src) \in Nat, NEW k \in 0..(Len(src) - 1)
    PROVE  /\ At(src, k) \in StringSpecial => Stop(src, Len(src), k) = k
           /\ At(src, k) \notin StringSpecial => Stop(src, Len(src), k) = Stop(src, Len(src), k + 1)
  <1> DEFINE n == Len(src)
             a == Stop(src, n, k)
             b == Stop(src, n, k + 1)
  <1>1. k \in 0..n /\ k + 1 \in 0..n /\ n \in 0..n /\ k < n OBVIOUS
  <1>2. a \in k..n /\ (\A x \in k..(a - 1) : At(src, x) \notin StringSpecial) /\ (a = n \/ At(src, a) \in StringSpecial)
    BY <1>1, StopIs
  <1>3. b \in (k + 1)..n /\ (\A x \in (k + 1)..(b - 1) : At(src, x) \notin StringSpecial) /\ (b = n \/ At(src, b) \in StringSpecial)
    BY <1>1, StopIs
  <1> HIDE DEF a, b
  <1>4. At(src, k) \in StringSpecial => a = k
    <2>1. a > k => k \in k..(a - 1) BY <1>1, <1>2
    <2>. QED BY <1>2, <2>1
  <1>5. ASSUME At(src, k) \notin StringSpecial PROVE a = b
    <2>1. a # k BY <1>1, <1>2, <1>5
    <2>2. ~(b < a)
      <3>1. b < a => b \in k..(a - 1) /\ b # n BY <1>1, <1>2, <1>3
      <3>. QED BY <1>2, <1>3, <3>1
    <2>3. ~(a < b)
      <3>1. a < b => a \in (k + 1)..(b - 1) /\ a # n BY <1>1, <1>2, <1>3, <2>1
      <3>. QED BY <1>2, <1>3, <3>1
    <2>. QED BY <1>1, <1>2, <1>3, <2>2, <2>3
  <1>. QED BY <1>4, <1>5 DEF a, b

LEMMA SpecialBytes ==
    /\ Quote \in StringSpecial /\ Backslash \in StringSpecial /\ Quote # Backslash
  BY Zenon DEF Quote, Backslash, StringSpecial

\* scanStringBody passes a string as the grammar reads it.
BodyFrom(src) == [k \in 0..Len(src) |-> scanStringBody(src, k, Len(src), FALSE)]
BodyEnd(src)  == [k \in 0..Len(src) |-> [i |-> k + 1, esc |-> FALSE, done |-> TRUE]]

LEMMA BodySkims ==
    ASSUME NEW src, Len(src) \in Nat
    PROVE  Skims(src, BodyFrom(src), BodyEnd(src))
  <1> DEFINE n == Len(src)
             S(k) == scanStringBody(src, k, n, FALSE)
             none == [i |-> n, esc |-> FALSE, done |-> FALSE]
  <1>1. n \in 0..n /\ n \in Nat OBVIOUS
  <1>2. \A k \in 0..n : BodyFrom(src)[k] = S(k) BY DEF BodyFrom
  <1>3. \A k \in 0..n : BodyEnd(src)[k] = [i |-> k + 1, esc |-> FALSE, done |-> TRUE] BY DEF BodyEnd
  <1>4. ASSUME NEW k \in 0..(n - 1)
        PROVE  /\ At(src, k) = Quote => S(k) = [i |-> k + 1, esc |-> FALSE, done |-> TRUE]
               /\ At(src, k) = Backslash /\ k + 2 <= n => S(k) = S(k + 2)
               /\ At(src, k) \notin {Quote, Backslash} => S(k) = S(k + 1)
    <2> DEFINE a == Stop(src, n, k)
               b == Stop(src, n, k + 1)
    <2>1. k \in 0..n /\ k + 1 \in 0..n /\ k < n OBVIOUS
    <2>2. a \in k..n /\ b \in (k + 1)..n BY <1>1, <2>1, StopIs
    <2>3. /\ At(src, k) \in StringSpecial => a = k
          /\ At(src, k) \notin StringSpecial => a = b
      BY StopHere
    <2>4. /\ a = n => S(k) = none
          /\ a < n /\ At(src, a) = Quote => S(k) = [i |-> a + 1, esc |-> FALSE, done |-> TRUE]
          /\ a < n /\ At(src, a) # Quote => S(k) = scanStringBody(src, a + 1, n, At(src, a) = Backslash)
      BY <1>1, <2>1, StringGoesOn
    <2>5. /\ k + 1 = n => S(k + 1) = none
          /\ k + 1 < n /\ b = n => S(k + 1) = none
          /\ k + 1 < n /\ b < n /\ At(src, b) = Quote => S(k + 1) = [i |-> b + 1, esc |-> FALSE, done |-> TRUE]
          /\ k + 1 < n /\ b < n /\ At(src, b) # Quote => S(k + 1) = scanStringBody(src, b + 1, n, At(src, b) = Backslash)
      BY <1>1, <2>1, StringGoesOn
    <2>6. k + 2 <= n => scanStringBody(src, k + 1, n, TRUE) = S(k + 2)
      <3> SUFFICES ASSUME k + 2 <= n PROVE scanStringBody(src, k + 1, n, TRUE) = S(k + 2)
        OBVIOUS
      <3>1. k + 1 < n /\ (k + 1) + 1 = k + 2 BY <1>1
      <3>2. scanStringBody(src, k + 1, n, TRUE) = scanStringBody(src, (k + 1) + 1, n, FALSE)
        BY <1>1, <2>1, <3>1, StringGoesOn
      <3>. QED BY <3>1, <3>2
    <2> HIDE DEF a, b, S, none
    <2>7. CASE At(src, k) = Quote
      <3>1. a = k /\ a < n BY <2>1, <2>3, <2>7, SpecialBytes
      <3>. QED BY <2>4, <2>7, <3>1, SpecialBytes
    <2>8. CASE At(src, k) = Backslash
      <3>1. a = k /\ a < n /\ At(src, a) # Quote /\ (At(src, a) = Backslash) = TRUE BY <2>1, <2>3, <2>8, SpecialBytes
      <3>2. S(k) = scanStringBody(src, k + 1, n, TRUE) BY <2>4, <3>1
      <3>. QED BY <2>6, <2>8, <3>2, SpecialBytes
    <2>9. CASE At(src, k) \notin {Quote, Backslash} /\ At(src, k) \in StringSpecial
      <3>1. a = k /\ a < n /\ At(src, a) # Quote /\ (At(src, a) = Backslash) = FALSE BY <2>1, <2>3, <2>9
      <3>2. S(k) = scanStringBody(src, k + 1, n, FALSE) BY <2>4, <3>1
      <3>. QED BY <2>9, <3>2 DEF S
    <2>10. CASE At(src, k) \notin StringSpecial
      <3>1. a = b BY <2>3, <2>10
      <3>2. S(k) = S(k + 1)
        <4>1. CASE a = n BY <2>1, <2>2, <2>4, <2>5, <3>1, <4>1
        <4>2. CASE a < n
          <5>1. k + 1 < n BY <2>2, <3>1, <4>2
          <5>. QED BY <2>4, <2>5, <3>1, <4>2, <5>1
        <4>. QED BY <2>2, <4>1, <4>2
      <3>. QED BY <2>10, <3>2, SpecialBytes
    <2>. QED BY <2>7, <2>8, <2>9, <2>10
  <1> HIDE DEF S
  <1>5. ASSUME NEW k \in 0..(n - 1)
        PROVE  /\ At(src, k) = Quote => BodyFrom(src)[k] = BodyEnd(src)[k]
               /\ At(src, k) = Backslash /\ k + 2 <= n => BodyFrom(src)[k] = BodyFrom(src)[k + 2]
               /\ At(src, k) \notin {Quote, Backslash} => BodyFrom(src)[k] = BodyFrom(src)[k + 1]
    <2>1. k \in 0..n /\ k + 1 \in 0..n /\ (k + 2 <= n => k + 2 \in 0..n) OBVIOUS
    <2>. QED BY <1>2, <1>3, <1>4, <2>1
  <1>. QED BY <1>5 DEF Skims

\* The frame of a string ends at its closing quote.
LEMMA StringFramed ==
    ASSUME NEW src, Len(src) \in Nat, NEW i \in Nat, NEW j \in 0..Len(src), IsString(src, i, j)
    PROVE  scanStringBody(src, i + 1, Len(src), FALSE) = [i |-> j, esc |-> FALSE, done |-> TRUE] /\ i + 1 < j
  <1>1. Skims(src, BodyFrom(src), BodyEnd(src)) BY BodySkims
  <1>2. BodyFrom(src)[i + 1] = BodyEnd(src)[j - 1] /\ i + 1 <= j - 1 BY <1>1, SkimsString
  <1>3. i + 1 \in 0..Len(src) /\ j - 1 \in 0..Len(src) /\ (j - 1) + 1 = j BY <1>2
  <1>4. BodyFrom(src)[i + 1] = scanStringBody(src, i + 1, Len(src), FALSE) BY <1>3 DEF BodyFrom
  <1>5. BodyEnd(src)[j - 1] = [i |-> j, esc |-> FALSE, done |-> TRUE] BY <1>3 DEF BodyEnd
  <1>6. i + 1 < j BY <1>2, <1>3
  <1>. QED BY <1>2, <1>4, <1>5, <1>6

\* scanContainer, outside strings, passes the inside of a container.
LoopFrom(src) ==
    [s \in (0..Len(src)) \X (1..(Len(src) + 1)) |-> ContainerLoop(src, Len(src))[<<s[1], s[2], FALSE, FALSE>>]]
LoopLast(src) == [k \in 0..Len(src) |-> LoopEnd(k + 1, 0, FALSE, FALSE, TRUE)]

LEMMA OpenersAndClosers ==
    \A c : (IsOpener(c) <=> c \in Openers) /\ (IsCloser(c) <=> c \in {"]", RBrace})
  BY Zenon DEF IsOpener, IsCloser, Openers, LBrace, RBrace

LEMMA BracketsApart ==
    Quote \notin Openers /\ Quote \notin {"]", RBrace} /\ \A c \in {"]", RBrace} : c \notin Openers /\ c # Quote
  BY PlainBytes DEF Brackets

LEMMA LoopWalks ==
    ASSUME NEW src, Len(src) \in Nat
    PROVE  Walks(src, LoopFrom(src), LoopLast(src))
  <1> DEFINE n == Len(src)
             f == ContainerLoop(src, n)
             W(k, d) == f[<<k, d, FALSE, FALSE>>]
  <1>1. n \in 0..n /\ n \in Nat OBVIOUS
  <1>2. \A k \in 0..n : \A d \in 1..(n + 1) : LoopFrom(src)[<<k, d>>] = W(k, d) BY DEF LoopFrom
  <1>3. \A k \in 0..n : LoopLast(src)[k] = LoopEnd(k + 1, 0, FALSE, FALSE, TRUE) BY DEF LoopLast
  <1>4. ASSUME NEW k \in 0..(n - 1), NEW d \in Nat \ {0}
        PROVE  /\ At(src, k) = Quote => \A e \in 0..n : IsString(src, k, e) => W(k, d) = W(e, d)
               /\ At(src, k) \in Openers => W(k, d) = W(k + 1, d + 1)
               /\ At(src, k) \in {"]", RBrace} =>
                     W(k, d) = IF d = 1 THEN LoopEnd(k + 1, 0, FALSE, FALSE, TRUE) ELSE W(k + 1, d - 1)
               /\ At(src, k) \notin {Quote} \cup Brackets => W(k, d) = W(k + 1, d)
    <2> DEFINE c == At(src, k)
               s == scanStringBody(src, k + 1, n, FALSE)
    <2>1. k \in 0..n /\ k + 1 \in 0..n /\ ~(k >= n) OBVIOUS
    <2>2. f[<<k, d, FALSE, FALSE>>] = ContainerTurn(src, n, f, k, d, FALSE, FALSE)
      BY <1>1, <2>1, ContainerTurns
    <2>3. W(k, d) = IF c = Quote THEN f[<<k + 1, d, TRUE, FALSE>>]
                    ELSE IF IsOpener(c) THEN W(k + 1, d + 1)
                    ELSE IF IsCloser(c) THEN IF d = 1 THEN LoopEnd(k + 1, 0, FALSE, FALSE, TRUE) ELSE W(k + 1, d - 1)
                    ELSE W(k + 1, d)
      <3> HIDE DEF f
      <3>. QED BY <2>1, <2>2 DEF ContainerTurn
    <2>4. ASSUME NEW e \in 0..n, IsString(src, k, e) PROVE f[<<k + 1, d, TRUE, FALSE>>] = W(e, d)
      <3>1. s = [i |-> e, esc |-> FALSE, done |-> TRUE] /\ k + 1 < e
        <4>1. k \in Nat /\ e \in 0..Len(src) OBVIOUS
        <4> HIDE DEF f
        <4>. QED BY <2>4, <4>1, StringFramed
      <3>2. ~(k + 1 >= n) BY <3>1
      <3>3. f[<<k + 1, d, TRUE, FALSE>>] = ContainerTurn(src, n, f, k + 1, d, TRUE, FALSE)
        BY <1>1, <2>1, ContainerTurns
      <3>4. f[<<k + 1, d, TRUE, FALSE>>] = f[<<s.i, d, ~s.done, s.esc>>]
        <4> HIDE DEF f
        <4>. QED BY <3>2, <3>3, Zenon DEF ContainerTurn
      <3> HIDE DEF f, s
      <3>5. s.i = e /\ s.esc = FALSE /\ (~s.done) = FALSE BY <3>1
      <3>. QED BY <3>4, <3>5
    <2> HIDE DEF f, W, c, s
    <2>5. c = Quote => \A e \in 0..n : IsString(src, k, e) => W(k, d) = W(e, d) BY <2>3, <2>4
    <2>6. c \in Openers => W(k, d) = W(k + 1, d + 1) BY <2>3, OpenersAndClosers, BracketsApart
    <2>7. c \in {"]", RBrace} =>
             W(k, d) = IF d = 1 THEN LoopEnd(k + 1, 0, FALSE, FALSE, TRUE) ELSE W(k + 1, d - 1)
      BY <2>3, OpenersAndClosers, BracketsApart
    <2>8. c \notin {Quote} \cup Brackets => W(k, d) = W(k + 1, d)
      <3>1. c \notin {Quote} \cup Brackets => c # Quote /\ ~IsOpener(c) /\ ~IsCloser(c) BY OpenersAndClosers DEF Brackets
      <3>. QED BY <2>3, <3>1
    <2>9. /\ c = Quote => \A e \in 0..n : IsString(src, k, e) => W(k, d) = W(e, d)
          /\ c \in Openers => W(k, d) = W(k + 1, d + 1)
          /\ c \in {"]", RBrace} =>
                W(k, d) = IF d = 1 THEN LoopEnd(k + 1, 0, FALSE, FALSE, TRUE) ELSE W(k + 1, d - 1)
          /\ c \notin {Quote} \cup Brackets => W(k, d) = W(k + 1, d)
      BY <2>5, <2>6, <2>7, <2>8
    <2>. QED BY <2>9 DEF c
  <1> HIDE DEF W
  <1>5. ASSUME NEW k \in 0..(n - 1), NEW d \in 1..k
        PROVE  /\ At(src, k) = Quote => \A e \in 0..Len(src) : IsString(src, k, e) => LoopFrom(src)[<<k, d>>] = LoopFrom(src)[<<e, d>>]
               /\ At(src, k) \in Openers => LoopFrom(src)[<<k, d>>] = LoopFrom(src)[<<k + 1, d + 1>>]
               /\ At(src, k) \in {"]", RBrace} =>
                     LoopFrom(src)[<<k, d>>] = IF d = 1 THEN LoopLast(src)[k] ELSE LoopFrom(src)[<<k + 1, d - 1>>]
               /\ At(src, k) \notin {Quote} \cup Brackets => LoopFrom(src)[<<k, d>>] = LoopFrom(src)[<<k + 1, d>>]
    <2>1. k \in 0..n /\ k + 1 \in 0..n /\ d \in Nat \ {0} /\ d \in 1..(n + 1) /\ d + 1 \in 1..(n + 1)
          /\ (d # 1 => d - 1 \in 1..(n + 1))
      OBVIOUS
    <2>2. LoopFrom(src)[<<k, d>>] = W(k, d) /\ LoopFrom(src)[<<k + 1, d + 1>>] = W(k + 1, d + 1)
          /\ LoopFrom(src)[<<k + 1, d>>] = W(k + 1, d) /\ (d # 1 => LoopFrom(src)[<<k + 1, d - 1>>] = W(k + 1, d - 1))
          /\ \A e \in 0..Len(src) : LoopFrom(src)[<<e, d>>] = W(e, d)
      BY <1>2, <2>1
    <2>3. LoopLast(src)[k] = LoopEnd(k + 1, 0, FALSE, FALSE, TRUE) BY <1>3, <2>1
    <2>4. At(src, k) = Quote => \A e \in 0..Len(src) : IsString(src, k, e) => LoopFrom(src)[<<k, d>>] = LoopFrom(src)[<<e, d>>]
      <3> SUFFICES ASSUME At(src, k) = Quote, NEW e \in 0..Len(src), IsString(src, k, e)
                   PROVE  LoopFrom(src)[<<k, d>>] = LoopFrom(src)[<<e, d>>]
        OBVIOUS
      <3>1. W(k, d) = W(e, d) BY <1>4, <2>1
      <3>. QED BY <2>2, <3>1
    <2>5. At(src, k) \in Openers => LoopFrom(src)[<<k, d>>] = LoopFrom(src)[<<k + 1, d + 1>>]
      BY <1>4, <2>1, <2>2
    <2>6. At(src, k) \in {"]", RBrace} =>
             LoopFrom(src)[<<k, d>>] = IF d = 1 THEN LoopLast(src)[k] ELSE LoopFrom(src)[<<k + 1, d - 1>>]
      <3>1. At(src, k) \in {"]", RBrace} =>
               W(k, d) = IF d = 1 THEN LoopEnd(k + 1, 0, FALSE, FALSE, TRUE) ELSE W(k + 1, d - 1)
        BY <1>4, <2>1
      <3>2. CASE d = 1
        <4>1. At(src, k) \in {"]", RBrace} => W(k, d) = LoopEnd(k + 1, 0, FALSE, FALSE, TRUE) BY <3>1, <3>2
        <4>. QED BY <2>2, <2>3, <3>2, <4>1
      <3>3. CASE d # 1
        <4>1. At(src, k) \in {"]", RBrace} => W(k, d) = W(k + 1, d - 1) BY <3>1, <3>3
        <4>. QED BY <2>2, <3>3, <4>1
      <3>. QED BY <3>2, <3>3
    <2>7. At(src, k) \notin {Quote} \cup Brackets => LoopFrom(src)[<<k, d>>] = LoopFrom(src)[<<k + 1, d>>]
      BY <1>4, <2>1, <2>2
    <2>. QED BY <2>4, <2>5, <2>6, <2>7
  <1>. QED BY <1>5 DEF Walks

\* The frame of a container ends at its closing bracket.
LEMMA ContainerFramed ==
    ASSUME NEW src, Len(src) \in Nat, NEW i \in 0..Len(src), NEW j \in 0..Len(src), IsValue(src, i, j), At(src, i) \in Openers
    PROVE  ContainerLoop(src, Len(src))[<<i + 1, 1, FALSE, FALSE>>] = LoopEnd(j, 0, FALSE, FALSE, TRUE) /\ i + 1 < j
  <1>1. Walks(src, LoopFrom(src), LoopLast(src)) BY LoopWalks
  <1>2. LoopFrom(src)[<<i + 1, 1>>] = LoopLast(src)[j - 1] /\ i + 1 < j BY <1>1, WalksContainer
  <1>3. i + 1 \in 0..Len(src) /\ j - 1 \in 0..Len(src) /\ (j - 1) + 1 = j /\ 1 \in 1..(Len(src) + 1) BY <1>2
  <1>4. LoopFrom(src)[<<i + 1, 1>>] = ContainerLoop(src, Len(src))[<<i + 1, 1, FALSE, FALSE>>] BY <1>3 DEF LoopFrom
  <1>5. LoopLast(src)[j - 1] = LoopEnd((j - 1) + 1, 0, FALSE, FALSE, TRUE) BY <1>3 DEF LoopLast
  <1>. QED BY <1>2, <1>3, <1>4, <1>5

\* A run never ends before where it starts.
LEMMA NumberRunAhead ==
    ASSUME NEW src, NEW n \in Nat
    PROVE  \A k \in 0..n : \A e \in BOOLEAN : scanNumberRun(src, k, n, e).i \in k..n
  <1> DEFINE S(k, e) == scanNumberRun(src, k, n, e)
             Q == {k \in 0..n : \A e \in BOOLEAN : S(k, e).i \in k..n}
  <1>1. ASSUME NEW k \in 0..n, \A x \in 0..n : k < x => x \in Q, NEW e \in BOOLEAN
        PROVE  S(k, e).i \in k..n
    <2> DEFINE c == At(src, k)
    <2>1. ASSUME k < n, NEW y \in BOOLEAN, S(k, e) = S(k + 1, y) PROVE S(k, e).i \in k..n
      <3>1. k + 1 \in 0..n /\ k < k + 1 BY <2>1
      <3>2. S(k + 1, y).i \in (k + 1)..n BY <1>1, <3>1
      <3> HIDE DEF S
      <3>. QED BY <2>1, <3>2
    <2>2. /\ k = n => S(k, e) = [i |-> n, numE |-> e, done |-> FALSE]
          /\ k < n /\ NumberByte(c, e) => S(k, e) = S(k + 1, FALSE)
          /\ k < n /\ ~NumberByte(c, e) /\ ExponentByte(c) => S(k, e) = S(k + 1, TRUE)
          /\ k < n /\ ~NumberByte(c, e) /\ ~ExponentByte(c) => S(k, e) = [i |-> k, numE |-> e, done |-> TRUE]
      BY NumberGoesOn
    <2>3. k = n \/ k < n OBVIOUS
    <2> HIDE DEF S, c
    <2>4. S(k, e) = S(k + 1, FALSE) /\ k < n => S(k, e).i \in k..n BY <2>1
    <2>5. S(k, e) = S(k + 1, TRUE) /\ k < n => S(k, e).i \in k..n BY <2>1
    <2>6. k = n => S(k, e).i \in k..n BY <2>2
    <2>7. S(k, e) = [i |-> k, numE |-> e, done |-> TRUE] => S(k, e).i \in k..n
      <3>1. k \in k..n OBVIOUS
      <3>. QED BY <3>1
    <2>. QED BY <2>2, <2>3, <2>4, <2>5, <2>6, <2>7
  <1>2. \A k \in 0..n : k \in Q
    <2>1. \A k \in 0..n : (\A x \in 0..n : k < x => x \in Q) => k \in Q
      <3> HIDE DEF S
      <3>. QED BY <1>1
    <2> HIDE DEF Q
    <2>. QED BY <2>1, Downward
  <1>. QED BY <1>2

\* The run passes the bytes of a number, with the sign allowed where the grammar
\* has one.
LEMMA NumberBytesAre ==
    /\ \A c, e : NumberByte(c, e) <=> c \in Digit \cup {Dot} \/ (c \in Signs /\ e)
    /\ \A c : ExponentByte(c) <=> c \in Exps
    /\ \A c \in Exps : c \notin Digit \cup {Dot} \cup Signs
    /\ \A c \in Digit \cup {Dot} \cup {Minus} \cup Signs : c \notin Exps
  <1>1. \A c, e : NumberByte(c, e) <=> c \in Digit \cup {Dot} \/ (c \in Signs /\ e) BY Zenon DEF NumberByte, Dot, Signs
  <1>2. \A c : ExponentByte(c) <=> c \in Exps BY Zenon DEF ExponentByte, Exps
  <1>3. \A c \in Exps : c \notin Digit BY Zenon DEF Exps, Digit
  <1>4. \A c \in Exps : c # Dot /\ c \notin Signs /\ c # Minus BY Zenon DEF Exps, Dot, Signs, Minus
  <1>. QED BY <1>1, <1>2, <1>3, <1>4

\* It does not end before the number does.
LEMMA NumberFramed ==
    ASSUME NEW src, Len(src) \in Nat, NEW i \in Nat, NEW j \in 0..Len(src), IsNumber(src, i, j)
    PROVE  scanNumberRun(src, i + 1, Len(src), FALSE).i >= j
  <1> DEFINE n == Len(src)
             E(k) == At(src, k - 1) \in Exps
             S(k, e) == scanNumberRun(src, k, n, e)
             f == [k \in (i + 1)..j |-> S(k, E(k))]
  <1>1. i < j /\ At(src, i) \in Digit \cup {Minus} /\ \A k \in (i + 1)..(j - 1) : NumberAt(src, k)
    BY NumberInked
  <1>2. n \in Nat /\ j \in Nat /\ j <= n OBVIOUS
  <1>3. ASSUME NEW k \in (i + 1)..(j - 1) PROVE S(k, E(k)) = S(k + 1, E(k + 1))
    <2> DEFINE c == At(src, k)
               e == E(k)
    <2>1. k \in 0..n /\ k < n /\ e \in BOOLEAN /\ (k + 1) - 1 = k BY <1>2
    <2>2. /\ NumberByte(c, e) => S(k, e) = S(k + 1, FALSE)
          /\ ~NumberByte(c, e) /\ ExponentByte(c) => S(k, e) = S(k + 1, TRUE)
      BY <1>2, <2>1, NumberGoesOn
    <2>3. c \in Digit \cup {Dot} \/ c \in Exps \/ (c \in Signs /\ e) BY <1>1 DEF NumberAt
    <2>4. (c \in Exps => E(k + 1) = TRUE) /\ (c \notin Exps => E(k + 1) = FALSE) BY <2>1
    <2> HIDE DEF S, E, c, e
    <2>5. CASE c \in Exps
      <3>1. ~NumberByte(c, e) /\ ExponentByte(c) BY <2>5, NumberBytesAre
      <3>2. E(k + 1) = TRUE BY <2>4, <2>5
      <3>. QED BY <2>2, <3>1, <3>2 DEF e
    <2>6. CASE c \notin Exps
      <3>1. NumberByte(c, e) BY <2>3, <2>6, NumberBytesAre
      <3>2. E(k + 1) = FALSE BY <2>4, <2>6
      <3>3. S(k, e) = S(k + 1, FALSE) BY <2>2, <3>1
      <3>4. S(k, e) = S(k + 1, E(k + 1)) BY <3>2, <3>3
      <3>. QED BY <3>4 DEF e
    <2>. QED BY <2>5, <2>6
  <1>4. E(i + 1) = FALSE
    <2>1. At(src, i) \notin Exps BY <1>1, NumberBytesAre
    <2>2. (i + 1) - 1 = i OBVIOUS
    <2>. QED BY <2>1, <2>2
  <1>5. E(j) \in BOOLEAN OBVIOUS
  <1>6. S(j, E(j)).i \in j..n BY <1>2, <1>5, NumberRunAhead
  <1> HIDE DEF S, E
  <1>7. i + 1 \in Nat /\ i + 1 <= j /\ i + 1 \in (i + 1)..j /\ j \in (i + 1)..j BY <1>1, <1>2
  <1>8. \A k \in (i + 1)..(j - 1) : f[k] = f[k + 1]
    <2> SUFFICES ASSUME NEW k \in (i + 1)..(j - 1) PROVE f[k] = f[k + 1]
      OBVIOUS
    <2>1. k \in (i + 1)..j /\ k + 1 \in (i + 1)..j BY <1>2
    <2>. QED BY <1>3, <2>1
  <1>9. f[i + 1] = f[j]
    <2> HIDE DEF f
    <2>. QED BY <1>2, <1>7, <1>8, SameAlong
  <1>10. S(i + 1, FALSE) = S(j, E(j)) BY <1>4, <1>7, <1>9
  <1>11. S(i + 1, FALSE).i >= j
    <2> DEFINE r == S(i + 1, FALSE)
    <2>1. r.i \in j..n
      <3>1. r = S(j, E(j)) BY <1>10
      <3> HIDE DEF r
      <3>. QED BY <1>6, <3>1
    <2> HIDE DEF r
    <2>2. r.i >= j BY <1>2, <2>1
    <2>. QED BY <2>2 DEF r
  <1>. QED BY <1>11 DEF S

\* The end the grammar gives a value.
LEMMA RefEndIs ==
    ASSUME NEW src, NEW i, RefEnd(src, i) # NoValue
    PROVE  /\ RefEnd(src, i) \in (i + 1)..Len(src) /\ IsValue(src, i, RefEnd(src, i))
           /\ IsNumber(src, i, RefEnd(src, i)) =>
                 RefEnd(src, i) = Len(src) \/ ~ViableNumber(src, i, RefEnd(src, i) + 1)
  <1> DEFINE P(j) == IsValue(src, i, j) /\ (IsNumber(src, i, j) => j = Len(src) \/ ~ViableNumber(src, i, j + 1))
             ends == {j \in (i + 1)..Len(src) : P(j)}
  <1>1. RefEnd(src, i) = IF ends = {} THEN NoValue ELSE CHOOSE j \in ends : TRUE BY Zenon DEF RefEnd
  <1> HIDE DEF P
  <1>2. RefEnd(src, i) \in (i + 1)..Len(src) /\ P(RefEnd(src, i)) BY <1>1
  <1>. QED BY <1>2 DEF P

\* What Init takes from the first byte, and which kinds end by themselves.
LEMMA FrameKinds ==
    /\ \A c \in Openers : FrameInit(c) = Frame("container", 1, 0) /\ ~terminalValueNeedsSourceBoundary(c)
    /\ FrameInit(Quote) = Frame("string", 0, 0) /\ ~terminalValueNeedsSourceBoundary(Quote)
    /\ \A c \in {"n", "t"} : FrameInit(c) = Frame("literal", 0, 3) /\ ~terminalValueNeedsSourceBoundary(c)
    /\ FrameInit("f") = Frame("literal", 0, 4) /\ ~terminalValueNeedsSourceBoundary("f")
    /\ \A c \in Digit \cup {Minus} : FrameInit(c) = Frame("number", 0, 0) /\ terminalValueNeedsSourceBoundary(c)
  <1>1. ASSUME NEW c, NEW K, K = {LBrace, "["}
        PROVE  /\ FrameInit(c) = CASE c = Quote -> Frame("string", 0, 0)
                                   [] c \in K -> Frame("container", 1, 0)
                                   [] c \in {"t", "n"} -> Frame("literal", 0, 3)
                                   [] c = "f" -> Frame("literal", 0, 4)
                                   [] OTHER -> Frame("number", 0, 0)
               /\ terminalValueNeedsSourceBoundary(c) <=> c \notin {LBrace, "[", Quote, "n", "t", "f"}
    BY <1>1, Zenon DEF FrameInit, terminalValueNeedsSourceBoundary, Quote, LBrace
  <1>2. /\ Quote # LBrace /\ Quote # "[" /\ "t" # LBrace /\ "t" # "[" /\ "n" # LBrace /\ "n" # "[" /\ "f" # LBrace /\ "f" # "["
        /\ Quote # "t" /\ Quote # "n" /\ Quote # "f" /\ "n" # "f" /\ "t" # "f"
        /\ \A c \in Digit \cup {Minus} : c \notin {LBrace, "[", Quote, "n", "t", "f"}
    BY FirstBytes, Zenon
  <1> DEFINE s == Frame("string", 0, 0)
             o == Frame("container", 1, 0)
             l == Frame("literal", 0, 3)
             m == Frame("literal", 0, 4)
             d == Frame("number", 0, 0)
  <1> HIDE DEF s, o, l, m, d
  <1>3. ASSUME NEW c
        PROVE  /\ c = Quote => FrameInit(c) = s
               /\ c \in {LBrace, "["} /\ c # Quote => FrameInit(c) = o
               /\ c \in {"t", "n"} /\ c # Quote /\ c \notin {LBrace, "["} => FrameInit(c) = l
               /\ c = "f" /\ c # Quote /\ c \notin {LBrace, "["} => FrameInit(c) = m
               /\ c \notin {LBrace, "[", Quote, "n", "t", "f"} => FrameInit(c) = d
    <2> DEFINE K == {LBrace, "["}
    <2>1. FrameInit(c) = CASE c = Quote -> s
                           [] c \in K -> o
                           [] c \in {"t", "n"} -> l
                           [] c = "f" -> m
                           [] OTHER -> d
      BY <1>1, Zenon DEF s, o, l, m, d
    <2>2. "f" \notin {"t", "n"} OBVIOUS
    <2>3. c = Quote => c \notin K /\ c \notin {"t", "n"} /\ c # "f" BY <1>2
    <2>4. c \in K => c # Quote /\ c \notin {"t", "n"} /\ c # "f" BY <1>2
    <2>5. c \in {"t", "n"} => c # Quote /\ c \notin K /\ c # "f" BY <1>2
    <2>6. c = "f" => c # Quote /\ c \notin K /\ c \notin {"t", "n"} BY <1>2
    <2>7. c \in K <=> c = LBrace \/ c = "[" OBVIOUS
    <2> HIDE DEF K
    <2>8. c = Quote => FrameInit(c) = s BY <2>1, <2>3
    <2>9. c \in K => FrameInit(c) = o BY <2>1, <2>4
    <2>10. c \in {"t", "n"} => FrameInit(c) = l BY <2>1, <2>5
    <2>11. c = "f" => FrameInit(c) = m BY <2>1, <2>6
    <2>12. c # Quote /\ c \notin K /\ c \notin {"t", "n"} /\ c # "f" => FrameInit(c) = d BY <2>1
    <2>. QED BY <2>7, <2>8, <2>9, <2>10, <2>11, <2>12
  <1>4. \A c \in Openers : FrameInit(c) = o /\ ~terminalValueNeedsSourceBoundary(c) BY <1>1, <1>2, <1>3 DEF Openers
  <1>5. FrameInit(Quote) = s /\ ~terminalValueNeedsSourceBoundary(Quote) BY <1>1, <1>3
  <1>6. \A c \in {"n", "t"} : FrameInit(c) = l /\ ~terminalValueNeedsSourceBoundary(c) BY <1>1, <1>2, <1>3
  <1>7. FrameInit("f") = m /\ ~terminalValueNeedsSourceBoundary("f") BY <1>1, <1>2, <1>3
  <1>8. \A c \in Digit \cup {Minus} : FrameInit(c) = d /\ terminalValueNeedsSourceBoundary(c) BY <1>1, <1>2, <1>3
  <1>. QED BY <1>4, <1>5, <1>6, <1>7, <1>8 DEF s, o, l, m, d

\* One scan of src finds the end j of the value at i, or goes past it where the
\* end of a number needs the byte behind it.
Covers(src, i, j, r) ==
    IF terminalValueNeedsSourceBoundary(At(src, i)) THEN i + r.fr.framed >= j
    ELSE r.done /\ i + r.fr.framed = j

\* The frame never cuts a value: that of a container, a string or a literal ends
\* at its last byte, and that of a number not before the number does.
THEOREM FramesCover ==
    ASSUME NEW src, Len(src) \in Nat, NEW i \in 0..(Len(src) - 1), RefEnd(src, i) # NoValue
    PROVE  Covers(src, i, RefEnd(src, i), Scan(FrameInit(At(src, i)), src, i, Len(src)))
  <1> DEFINE n == Len(src)
             j == RefEnd(src, i)
             c == At(src, i)
             r == Scan(FrameInit(c), src, i, n)
  <1>1. j \in (i + 1)..n /\ IsValue(src, i, j) BY RefEndIs
  <1> HIDE DEF j
  <1>2. i \in 0..n /\ j \in 0..n /\ i \in Nat /\ j \in Nat /\ j \in i..n /\ i < j /\ n \in Nat BY <1>1
  <1>3. ValueRule(src, JsonValue(src), i, j, 0)
    <2>1. 0 \in 0..MaxDepth BY MaxDepthAssumption
    <2>. QED BY <1>1, <1>2, <2>1, RulesAre DEF IsValue
  <1>4. IsScalar(src, i, j) \/ c \in Openers
    BY <1>3, ValueParts DEF Openers
  <1>6. CASE c \in Openers
    <2> DEFINE b == Frame("container", 1, 0)
               e == LoopEnd(j, 0, FALSE, FALSE, TRUE)
    <2>1. FrameInit(c) = b /\ ~terminalValueNeedsSourceBoundary(c) BY <1>6, FrameKinds
    <2>2. b.mode = "container" /\ b.depth = 1 /\ b.inStr = FALSE /\ b.esc = FALSE /\ b.framed = 1 /\ b \in FrameFields
          /\ i + 1 = i + b.framed
      BY <1>2 DEF Frame, FrameFields
    <2>3. ContainerLoop(src, n)[<<i + 1, 1, FALSE, FALSE>>] = e BY <1>1, <1>2, <1>6, ContainerFramed
    <2> HIDE DEF b, e
    <2>4. r = ContainerFrame(b, i, scanContainer(src, i + 1, n, b)) BY <2>1, <2>2, ScanIs
    <2>5. scanContainer(src, i + 1, n, b) = e BY <2>2, <2>3, ContainerScans
    <2>6. e.i = j /\ e.done = TRUE BY DEF e, LoopEnd
    <2> HIDE DEF r
    <2>7. r.done = TRUE /\ r.fr.framed = j - i BY <2>2, <2>4, <2>5, <2>6 DEF ContainerFrame, FrameFields
    <2>8. r.done /\ i + r.fr.framed = j BY <1>2, <2>7
    <2>. QED BY <2>1, <2>8 DEF Covers, r, j
  <1>7. CASE c = Quote /\ IsString(src, i, j)
    <2> DEFINE b == Frame("string", 0, 0)
               e == scanStringBody(src, i + 1, n, FALSE)
    <2>1. FrameInit(c) = b /\ ~terminalValueNeedsSourceBoundary(c) BY <1>7, FrameKinds
    <2>2. b.mode = "string" /\ b.esc = FALSE /\ b.framed = 1 /\ b \in FrameFields
          /\ i + 1 = i + b.framed
      BY <1>2 DEF Frame, FrameFields
    <2>3. e = [i |-> j, esc |-> FALSE, done |-> TRUE] BY <1>2, <1>7, StringFramed
    <2> HIDE DEF b
    <2>4. r = StringFrame(b, i, e)
      <3>1. Scan(b, src, i, n) = StringFrame(b, i, scanStringBody(src, i + 1, n, b.esc)) BY <2>2, ScanIs
      <3>. QED BY <2>1, <2>2, <3>1
    <2> HIDE DEF e
    <2>5. e.i = j /\ e.done = TRUE BY <2>3
    <2> HIDE DEF r
    <2>6. r.done = TRUE /\ r.fr.framed = j - i BY <2>2, <2>4, <2>5 DEF StringFrame, FrameFields
    <2>7. r.done /\ i + r.fr.framed = j BY <1>2, <2>6
    <2>. QED BY <2>1, <2>7 DEF Covers, r, j
  <1>8. CASE c \in Digit \cup {Minus} /\ IsNumber(src, i, j)
    <2> DEFINE b == Frame("number", 0, 0)
               e == scanNumberRun(src, i + 1, n, FALSE)
    <2>1. FrameInit(c) = b /\ terminalValueNeedsSourceBoundary(c) BY <1>8, FrameKinds
    <2>2. b.mode = "number" /\ b.numE = FALSE /\ b.framed = 1 /\ b \in FrameFields
          /\ i + 1 = i + b.framed
      BY <1>2 DEF Frame, FrameFields
    <2>3. e.i >= j BY <1>2, <1>8, NumberFramed
    <2>4. e.i \in (i + 1)..n
      <3>1. i + 1 \in 0..n BY <1>2
      <3>. QED BY <1>2, <3>1, NumberRunAhead
    <2> HIDE DEF b
    <2>5. r = NumberFrame(b, i, e)
      <3>1. Scan(b, src, i, n) = NumberFrame(b, i, scanNumberRun(src, i + 1, n, b.numE)) BY <2>2, ScanIs
      <3>. QED BY <2>1, <2>2, <3>1
    <2> HIDE DEF r, e
    <2>6. r.fr.framed = e.i - i BY <2>2, <2>5 DEF NumberFrame, FrameFields
    <2>7. i + r.fr.framed >= j BY <1>2, <2>3, <2>4, <2>6
    <2>. QED BY <2>1, <2>7 DEF Covers, r, j
  <1>9. ASSUME NEW l \in {3, 4}, FrameInit(c) = Frame("literal", 0, l), ~terminalValueNeedsSourceBoundary(c),
               j = i + l + 1
        PROVE  Covers(src, i, j, r)
    <2> DEFINE b == Frame("literal", 0, l)
    <2>1. b.mode = "literal" /\ b.litLeft = l /\ b.framed = 1 /\ b \in FrameFields
          /\ i + 1 = i + b.framed
      BY <1>2 DEF Frame, FrameFields
    <2> HIDE DEF b
    <2>2. Took(l, i + 1, n) = l BY <1>2, <1>9 DEF Took
    <2>3. r = LiteralFrame(b, i, i + 1, l, l = l)
      <3>1. FrameInit(c) = b BY <1>9 DEF b
      <3>. QED BY <2>1, <2>2, <3>1, ScanIs
    <2> HIDE DEF r
    <2>4. r.done /\ r.fr.framed = (i + 1) + l - i BY <2>1, <2>3 DEF LiteralFrame, FrameFields
    <2>5. i + r.fr.framed = j BY <1>2, <1>9, <2>4
    <2>. QED BY <1>9, <2>4, <2>5 DEF Covers
  <1>10. ASSUME NEW w \in Words, Slice(src, i, j) = w PROVE j = i + Len(w)
    BY <1>2, <1>10, LiteralIs
  <1>11. Len(Null) = 4 /\ Len(True) = 4 /\ Len(False) = 5 /\ Null \in Words /\ True \in Words /\ False \in Words
    BY DEF Null, True, False, Words
  <1>12. CASE (c = "n" /\ Slice(src, i, j) = Null) \/ (c = "t" /\ Slice(src, i, j) = True)
    <2>1. j = i + 3 + 1
      <3>1. j = i + Len(Null) \/ j = i + Len(True) BY <1>10, <1>11, <1>12, Zenon
      <3>. QED BY <1>2, <1>11, <3>1
    <2>2. FrameInit(c) = Frame("literal", 0, 3) /\ ~terminalValueNeedsSourceBoundary(c) BY <1>12, FrameKinds
    <2> HIDE DEF r, c
    <2>3. Covers(src, i, j, r) BY <1>9, <2>1, <2>2
    <2>. QED BY <2>3 DEF r, c, j
  <1>13. CASE c = "f" /\ Slice(src, i, j) = False
    <2>1. j = i + 4 + 1
      <3>1. j = i + Len(False) BY <1>10, <1>11, <1>13, Zenon
      <3>. QED BY <1>2, <1>11, <3>1
    <2>2. FrameInit(c) = Frame("literal", 0, 4) /\ ~terminalValueNeedsSourceBoundary(c) BY <1>13, FrameKinds
    <2> HIDE DEF r, c
    <2>3. Covers(src, i, j, r) BY <1>9, <2>1, <2>2
    <2>. QED BY <2>3 DEF r, c, j
  <1>. QED
    <2>1. IsScalar(src, i, j) =>
             \/ c = "n" /\ Slice(src, i, j) = Null
             \/ c = "t" /\ Slice(src, i, j) = True
             \/ c = "f" /\ Slice(src, i, j) = False
             \/ c \in Digit \cup {Minus} /\ IsNumber(src, i, j)
             \/ c = Quote /\ IsString(src, i, j)
      BY <1>2, ScalarParts
    <2>. QED BY <1>4, <1>6, <1>7, <1>8, <1>12, <1>13, <2>1

-----------------------------------------------------------------------------
(***************************************************************************)
(* The cursor's skipper ends a valid value where the grammar does.         *)
(***************************************************************************)

\* One turn of skipValidString at k; f is what the following turns return.
SkipTurn(src, f, k) ==
    LET j == scanStringSpecial(src, k)
    IN  IF k > Len(src) THEN NoValue
        ELSE IF j >= Len(src) THEN NoValue
        ELSE IF At(src, j) = Quote THEN j + 1
        ELSE IF At(src, j) = Backslash THEN f[j + 2]
        ELSE f[j + 1]

SkipScan(src) == CHOOSE f : f = [k \in 0..(Len(src) + 1) |-> SkipTurn(src, f, k)]

LEMMA SkipScanIs ==
    ASSUME NEW src, Len(src) \in Nat
    PROVE  /\ \A k \in 0..(Len(src) + 1) : SkipScan(src)[k] = SkipTurn(src, SkipScan(src), k)
           /\ \A q \in Nat : skipValidString(src, q) = SkipScan(src)[q + 1]
  <1> DEFINE n == Len(src)
             D == 0..(n + 1)
             V == {NoValue} \cup 0..n
             G(f) == [k \in D |-> SkipTurn(src, f, k)]
             F == [f \in [D -> V] |-> G(f)]
             rank == [k \in D |-> (n + 1) - k]
             body == SkipScan(src)
  <1>1. ASSUME NEW f, NEW k \in D
        PROVE  LET j == scanStringSpecial(src, k)
               IN  /\ k > n => SkipTurn(src, f, k) = NoValue
                   /\ ~(k > n) => /\ j \in k..n
                                  /\ j >= n => SkipTurn(src, f, k) = NoValue
                                  /\ ~(j >= n) => /\ j + 1 \in D /\ j + 2 \in D /\ k < j + 1 /\ k < j + 2 /\ j + 1 \in 0..n
                                                  /\ SkipTurn(src, f, k) = IF At(src, j) = Quote THEN j + 1
                                                                           ELSE IF At(src, j) = Backslash THEN f[j + 2]
                                                                           ELSE f[j + 1]
    <2> DEFINE j == scanStringSpecial(src, k)
    <2>1. ~(k > n) => j \in k..n
      <3> SUFFICES ASSUME ~(k > n) PROVE j \in k..n
        OBVIOUS
      <3>1. k \in 0..n OBVIOUS
      <3>. QED BY <3>1, SpecialIs
    <2>2. SkipTurn(src, f, k) = IF k > n THEN NoValue
                                ELSE IF j >= n THEN NoValue
                                ELSE IF At(src, j) = Quote THEN j + 1
                                ELSE IF At(src, j) = Backslash THEN f[j + 2]
                                ELSE f[j + 1]
      BY Zenon DEF SkipTurn
    <2> HIDE DEF j
    <2>3. ~(k > n) /\ ~(j >= n) => j + 1 \in D /\ j + 2 \in D /\ k < j + 1 /\ k < j + 2 /\ j + 1 \in 0..n
      BY <2>1
    <2>. QED BY <2>1, <2>2, <2>3 DEF j
  <1>2. ASSUME NEW f \in [D -> V], NEW k \in D PROVE SkipTurn(src, f, k) \in V
    <2>1. \A x \in D : f[x] \in V OBVIOUS
    <2>2. NoValue \in V /\ \A x \in 0..n : x \in V OBVIOUS
    <2> HIDE DEF V, D
    <2>. QED BY <1>1, <2>1, <2>2
  <1>3. ASSUME NEW f, NEW h, NEW k \in D, \A x \in D : rank[x] < rank[k] => f[x] = h[x]
        PROVE  SkipTurn(src, f, k) = SkipTurn(src, h, k)
    <2>1. \A x \in D : k < x => f[x] = h[x]
      <3> SUFFICES ASSUME NEW x \in D, k < x PROVE f[x] = h[x]
        OBVIOUS
      <3>1. rank[x] < rank[k] OBVIOUS
      <3>. QED BY <1>3, <3>1
    <2> HIDE DEF D
    <2>. QED BY <1>1, <2>1
  <1>4. rank \in [D -> 0..(n + 1)] /\ [k \in D |-> NoValue] \in [D -> V] /\ n + 1 \in Nat
    OBVIOUS
  <1>5. F \in [[D -> V] -> [D -> V]] BY <1>2
  <1>6. ASSUME NEW f \in [D -> V], NEW h \in [D -> V], NEW k \in D, \A x \in D : rank[x] < rank[k] => f[x] = h[x]
        PROVE  F[f][k] = F[h][k]
    <2>1. F[f][k] = SkipTurn(src, f, k) /\ F[h][k] = SkipTurn(src, h, k) OBVIOUS
    <2> HIDE DEF F, D, V, rank
    <2>2. SkipTurn(src, f, k) = SkipTurn(src, h, k) BY <1>3, <1>6
    <2>. QED BY <2>1, <2>2
  <1>7. \E f : f = G(f)
    <2>1. Recursion(F, D, V, rank)
      <3> HIDE DEF F, D, V, rank, G
      <3>. QED BY <1>5, <1>6 DEF Recursion
    <2>2. IsMet(F, D, V)
      <3> HIDE DEF F, D, V, rank
      <3>. QED BY <1>4, <2>1, RecursionIsMet
    <2>3. PICK f \in [D -> V] : F[f] = f BY <2>2 DEF IsMet
    <2>4. F[f] = G(f) BY <2>3
    <2>. QED BY <2>3, <2>4
  <1>8. body = CHOOSE f : f = G(f) BY Zenon DEF SkipScan
  <1>9. body = G(body)
    <2> HIDE DEF G, body
    <2>. QED BY <1>7, <1>8
  <1>10. \A q : skipValidString(src, q) = (CHOOSE f : f = G(f))[q + 1]
    BY Zenon DEF skipValidString, SkipTurn, Quote, Backslash
  <1> HIDE DEF body
  <1>11. \A k \in D : body[k] = SkipTurn(src, body, k) BY <1>9
  <1>. QED BY <1>8, <1>10, <1>11 DEF body

\* skipValidString from k on.
SkipEnd(src) == [k \in 0..Len(src) |-> k + 1]

LEMMA SkipSkims ==
    ASSUME NEW src, Len(src) \in Nat
    PROVE  Skims(src, SkipScan(src), SkipEnd(src))
  <1> DEFINE n == Len(src)
             f == SkipScan(src)
  <1>1. n \in Nat OBVIOUS
  <1>2. ASSUME NEW k \in 0..n
        PROVE  LET j == scanStringSpecial(src, k)
               IN  f[k] = IF j >= n THEN NoValue
                          ELSE IF At(src, j) = Quote THEN j + 1
                          ELSE IF At(src, j) = Backslash THEN f[j + 2]
                          ELSE f[j + 1]
    <2>1. k \in 0..(n + 1) /\ ~(k > n) OBVIOUS
    <2>2. f[k] = SkipTurn(src, f, k) BY <2>1, SkipScanIs
    <2> HIDE DEF f
    <2>. QED BY <2>1, <2>2, Zenon DEF SkipTurn
  <1> HIDE DEF f
  <1>3. ASSUME NEW k \in 0..(n - 1)
        PROVE  /\ At(src, k) = Quote => f[k] = k + 1
               /\ At(src, k) = Backslash /\ k + 2 <= n => f[k] = f[k + 2]
               /\ At(src, k) \notin {Quote, Backslash} => f[k] = f[k + 1]
    <2> DEFINE a == scanStringSpecial(src, k)
               b == scanStringSpecial(src, k + 1)
    <2>1. k \in 0..n /\ k + 1 \in 0..n /\ k < n OBVIOUS
    <2>2. At(src, k) \in StringSpecial => a = k BY <2>1, SpecialHere
    <2>3. At(src, k) \notin StringSpecial => b = a
      <3> SUFFICES ASSUME At(src, k) \notin StringSpecial PROVE b = a
        OBVIOUS
      <3>1. a \in k..n /\ (a = n \/ At(src, a) \in StringSpecial) BY <2>1, SpecialIs
      <3>2. a # k BY <2>1, <3>1
      <3>3. k + 1 \in k..a BY <2>1, <3>1, <3>2
      <3>. QED BY <2>1, <3>3, SpecialAhead
    <2>4. /\ a >= n => f[k] = NoValue
          /\ ~(a >= n) /\ At(src, a) = Quote => f[k] = a + 1
          /\ ~(a >= n) /\ At(src, a) # Quote /\ At(src, a) = Backslash => f[k] = f[a + 2]
          /\ ~(a >= n) /\ At(src, a) # Quote /\ At(src, a) # Backslash => f[k] = f[a + 1]
      BY <1>2, <2>1
    <2>5. /\ b >= n => f[k + 1] = NoValue
          /\ ~(b >= n) /\ At(src, b) = Quote => f[k + 1] = b + 1
          /\ ~(b >= n) /\ At(src, b) # Quote /\ At(src, b) = Backslash => f[k + 1] = f[b + 2]
          /\ ~(b >= n) /\ At(src, b) # Quote /\ At(src, b) # Backslash => f[k + 1] = f[b + 1]
      BY <1>2, <2>1
    <2> HIDE DEF a, b
    <2>6. CASE At(src, k) = Quote
      <3>1. a = k /\ ~(a >= n) BY <2>1, <2>2, <2>6, SpecialBytes
      <3>. QED BY <2>4, <2>6, <3>1, SpecialBytes
    <2>7. CASE At(src, k) = Backslash
      <3>1. a = k /\ ~(a >= n) BY <2>1, <2>2, <2>7, SpecialBytes
      <3>. QED BY <2>4, <2>7, <3>1, SpecialBytes
    <2>8. CASE At(src, k) \notin {Quote, Backslash} /\ At(src, k) \in StringSpecial
      <3>1. a = k /\ ~(a >= n) BY <2>1, <2>2, <2>8
      <3>. QED BY <2>4, <2>8, <3>1
    <2>9. CASE At(src, k) \notin StringSpecial
      <3>1. b = a BY <2>3, <2>9
      <3>2. f[k] = f[k + 1] BY <2>4, <2>5, <3>1
      <3>. QED BY <2>9, <3>2, SpecialBytes
    <2>. QED BY <2>6, <2>7, <2>8, <2>9
  <1>4. \A k \in 0..(n - 1) : SkipEnd(src)[k] = k + 1 BY DEF SkipEnd
  <1>5. ASSUME NEW k \in 0..(n - 1)
        PROVE  /\ At(src, k) = Quote => f[k] = SkipEnd(src)[k]
               /\ At(src, k) = Backslash /\ k + 2 <= n => f[k] = f[k + 2]
               /\ At(src, k) \notin {Quote, Backslash} => f[k] = f[k + 1]
    BY <1>3, <1>4
  <1>6. Skims(src, f, SkipEnd(src)) BY <1>5 DEF Skims
  <1>. QED BY <1>6 DEF f

\* It ends a string where the grammar does, and never before it began.
LEMMA StringSkipped ==
    ASSUME NEW src, Len(src) \in Nat, NEW i \in Nat, NEW j \in 0..Len(src), IsString(src, i, j)
    PROVE  skipValidString(src, i) = j
  <1>1. Skims(src, SkipScan(src), SkipEnd(src)) BY SkipSkims
  <1>2. SkipScan(src)[i + 1] = SkipEnd(src)[j - 1] /\ i + 1 <= j - 1 BY <1>1, SkimsString
  <1>3. SkipEnd(src)[j - 1] = j
    <2>1. j - 1 \in 0..Len(src) /\ (j - 1) + 1 = j BY <1>2
    <2>. QED BY <2>1 DEF SkipEnd
  <1>. QED BY <1>2, <1>3, SkipScanIs

LEMMA SkipRange ==
    ASSUME NEW src, Len(src) \in Nat
    PROVE  \A q \in 0..(Len(src) - 1) : skipValidString(src, q) = NoValue \/ skipValidString(src, q) \in (q + 1)..Len(src)
  <1> DEFINE n == Len(src)
             f == SkipScan(src)
             Q == {k \in 0..(n + 1) : f[k] = NoValue \/ f[k] \in k..n}
  <1>1. n \in Nat /\ n + 1 \in Nat OBVIOUS
  <1>2. ASSUME NEW k \in 0..(n + 1), \A x \in 0..(n + 1) : k < x => x \in Q PROVE k \in Q
    <2> DEFINE j == scanStringSpecial(src, k)
    <2>1. f[k] = SkipTurn(src, f, k) BY SkipScanIs
    <2>2. f[k] = IF k > n THEN NoValue
                 ELSE IF j >= n THEN NoValue
                 ELSE IF At(src, j) = Quote THEN j + 1
                 ELSE IF At(src, j) = Backslash THEN f[j + 2]
                 ELSE f[j + 1]
      <3> HIDE DEF f
      <3>. QED BY <2>1, Zenon DEF SkipTurn
    <2>3. ~(k > n) => j \in k..n
      <3> SUFFICES ASSUME ~(k > n) PROVE j \in k..n
        OBVIOUS
      <3>1. k \in 0..n OBVIOUS
      <3>. QED BY <3>1, SpecialIs
    <2> HIDE DEF j, f
    <2>4. CASE k > n \/ j >= n
      <3>1. f[k] = NoValue BY <2>2, <2>4
      <3>. QED BY <3>1
    <2>5. CASE ~(k > n) /\ ~(j >= n)
      <3>1. j + 1 \in 0..(n + 1) /\ j + 2 \in 0..(n + 1) /\ k < j + 1 /\ k < j + 2 /\ j + 1 \in k..n /\ j \in Nat
        BY <1>1, <2>3, <2>5
      <3>2. f[k] = j + 1 \/ f[k] = f[j + 1] \/ f[k] = f[j + 2] BY <2>2, <2>5
      <3>3. (f[j + 1] = NoValue \/ f[j + 1] \in (j + 1)..n) /\ (f[j + 2] = NoValue \/ f[j + 2] \in (j + 2)..n)
        BY <1>2, <3>1
      <3>4. \A x \in (j + 1)..n : x \in k..n BY <3>1
      <3>5. \A x \in (j + 2)..n : x \in k..n BY <3>1
      <3>6. f[k] = NoValue \/ f[k] \in k..n BY <3>1, <3>2, <3>3, <3>4, <3>5
      <3>. QED BY <3>6
    <2>. QED BY <2>4, <2>5
  <1> HIDE DEF f
  <1>3. \A k \in 0..(n + 1) : k \in Q
    <2> HIDE DEF Q
    <2>. QED BY <1>1, <1>2, Downward
  <1>4. ASSUME NEW q \in 0..(n - 1) PROVE skipValidString(src, q) = NoValue \/ skipValidString(src, q) \in (q + 1)..n
    <2>1. q \in Nat /\ q + 1 \in 0..(n + 1) OBVIOUS
    <2>2. skipValidString(src, q) = f[q + 1] BY <2>1, SkipScanIs DEF f
    <2>. QED BY <1>3, <2>1, <2>2
  <1>. QED BY <1>4

\* One turn of skipValidContainer at k, d deep.
SkipLoopTurn(src, f, k, d) ==
    IF k >= Len(src) THEN NoValue
    ELSE IF At(src, k) = Quote THEN
        IF skipValidString(src, k) = NoValue THEN NoValue ELSE f[<<skipValidString(src, k), d>>]
    ELSE IF IsOpener(At(src, k)) THEN f[<<k + 1, d + 1>>]
    ELSE IF IsCloser(At(src, k)) THEN IF d = 1 THEN k + 1 ELSE f[<<k + 1, d - 1>>]
    ELSE f[<<k + 1, d>>]

SkipLoop(src) ==
    LET loop[s \in (0..Len(src)) \X (Nat \ {0})] == SkipLoopTurn(src, loop, s[1], s[2])
    IN  loop

LEMMA SkipLoopIs ==
    ASSUME NEW src, Len(src) \in Nat
    PROVE  /\ \A k \in 0..Len(src) : \A d \in Nat \ {0} :
                 SkipLoop(src)[<<k, d>>] = SkipLoopTurn(src, SkipLoop(src), k, d)
           /\ \A i : skipValidContainer(src, i) = SkipLoop(src)[<<i + 1, 1>>]
  <1> DEFINE n == Len(src)
             D == (0..n) \X (Nat \ {0})
             V == {NoValue} \cup 0..n
             G(f) == [s \in D |-> SkipLoopTurn(src, f, s[1], s[2])]
             F == [f \in [D -> V] |-> G(f)]
             rank == [s \in D |-> n - s[1]]
             loop == SkipLoop(src)
  <1>1. ASSUME NEW s \in D PROVE s[1] \in 0..n /\ s[2] \in Nat \ {0}
    OBVIOUS
  <1>2. ASSUME NEW x \in 0..n, NEW y \in Nat \ {0} PROVE <<x, y>> \in D /\ rank[<<x, y>>] = n - x
    OBVIOUS
  <1>3. ASSUME NEW x \in 0..n, ~(x >= n)
        PROVE  /\ x + 1 \in 0..n /\ x < x + 1
               /\ skipValidString(src, x) # NoValue => skipValidString(src, x) \in 0..n /\ x < skipValidString(src, x)
    <2>1. x \in 0..(n - 1) BY <1>3
    <2>2. skipValidString(src, x) = NoValue \/ skipValidString(src, x) \in (x + 1)..n BY <2>1, SkipRange
    <2>. QED BY <1>3, <2>2
  <1>4. ASSUME NEW f \in [D -> V], NEW x \in 0..n, NEW y \in Nat \ {0} PROVE SkipLoopTurn(src, f, x, y) \in V
    <2> DEFINE e == skipValidString(src, x)
    <2>1. \A t \in D : f[t] \in V OBVIOUS
    <2>2. NoValue \in V /\ \A z \in 0..n : z \in V OBVIOUS
    <2> HIDE DEF V, D
    <2>3. y + 1 \in Nat \ {0} /\ (y # 1 => y - 1 \in Nat \ {0}) OBVIOUS
    <2>4. \A z \in 0..n : \A u \in Nat \ {0} : f[<<z, u>>] \in V BY <1>2, <2>1
    <2>5. SkipLoopTurn(src, f, x, y) =
            IF x >= n THEN NoValue
            ELSE IF At(src, x) = Quote THEN IF e = NoValue THEN NoValue ELSE f[<<e, y>>]
            ELSE IF IsOpener(At(src, x)) THEN f[<<x + 1, y + 1>>]
            ELSE IF IsCloser(At(src, x)) THEN IF y = 1 THEN x + 1 ELSE f[<<x + 1, y - 1>>]
            ELSE f[<<x + 1, y>>]
      BY Zenon DEF SkipLoopTurn
    <2>6. ~(x >= n) => x + 1 \in 0..n /\ (e # NoValue => e \in 0..n) BY <1>3
    <2> HIDE DEF e
    <2>7. ASSUME ~(x >= n)
          PROVE  /\ e # NoValue => f[<<e, y>>] \in V
                 /\ f[<<x + 1, y + 1>>] \in V /\ f[<<x + 1, y>>] \in V
                 /\ (IF y = 1 THEN x + 1 ELSE f[<<x + 1, y - 1>>]) \in V
      BY <2>2, <2>3, <2>4, <2>6, <2>7
    <2>. QED BY <2>2, <2>5, <2>7
  <1>5. ASSUME NEW f, NEW h, NEW x \in 0..n, NEW y \in Nat \ {0}, \A t \in D : rank[t] < n - x => f[t] = h[t]
        PROVE  SkipLoopTurn(src, f, x, y) = SkipLoopTurn(src, h, x, y)
    <2> DEFINE e == skipValidString(src, x)
    <2>1. ASSUME NEW a \in 0..n, NEW b \in Nat \ {0}, x < a PROVE f[<<a, b>>] = h[<<a, b>>]
      <3>1. n - a < n - x BY <2>1
      <3> HIDE DEF D, rank
      <3>. QED BY <1>2, <1>5, <3>1
    <2>2. y + 1 \in Nat \ {0} /\ (y # 1 => y - 1 \in Nat \ {0}) OBVIOUS
    <2>3. ~(x >= n) => x + 1 \in 0..n /\ x < x + 1 /\ (e # NoValue => e \in 0..n /\ x < e) BY <1>3
    <2> HIDE DEF e, D, rank
    <2>4. ~(x >= n) => /\ e # NoValue => f[<<e, y>>] = h[<<e, y>>]
                       /\ f[<<x + 1, y + 1>>] = h[<<x + 1, y + 1>>] /\ f[<<x + 1, y>>] = h[<<x + 1, y>>]
                       /\ y # 1 => f[<<x + 1, y - 1>>] = h[<<x + 1, y - 1>>]
      BY <2>1, <2>2, <2>3
    <2>. QED BY <2>4, Zenon DEF SkipLoopTurn, e
  <1>6. rank \in [D -> 0..n] /\ [s \in D |-> NoValue] \in [D -> V] /\ n \in Nat
    <2>1. rank \in [D -> 0..n] BY <1>1
    <2>2. [s \in D |-> NoValue] \in [D -> V] /\ n \in Nat OBVIOUS
    <2>. QED BY <2>1, <2>2
  <1>7. F \in [[D -> V] -> [D -> V]]
    <2>1. ASSUME NEW f \in [D -> V] PROVE G(f) \in [D -> V]
      <3> HIDE DEF V, D
      <3>. QED BY <1>1, <1>4
    <2> HIDE DEF V, D, G
    <2>. QED BY <2>1
  <1>8. ASSUME NEW f \in [D -> V], NEW h \in [D -> V], NEW s \in D, \A x \in D : rank[x] < rank[s] => f[x] = h[x]
        PROVE  F[f][s] = F[h][s]
    <2>1. F[f][s] = SkipLoopTurn(src, f, s[1], s[2]) /\ F[h][s] = SkipLoopTurn(src, h, s[1], s[2])
      <3> HIDE DEF V, D
      <3>. QED OBVIOUS
    <2>2. rank[s] = n - s[1] OBVIOUS
    <2> HIDE DEF F, D, V, rank
    <2>3. \A t \in D : rank[t] < n - s[1] => f[t] = h[t] BY <1>8, <2>2
    <2>4. s[1] \in 0..n /\ s[2] \in Nat \ {0} BY <1>1
    <2>5. SkipLoopTurn(src, f, s[1], s[2]) = SkipLoopTurn(src, h, s[1], s[2]) BY <1>5, <2>3, <2>4
    <2>. QED BY <2>1, <2>5
  <1>9. \E f : f = G(f)
    <2>1. Recursion(F, D, V, rank)
      <3> HIDE DEF F, D, V, rank, G
      <3>. QED BY <1>7, <1>8 DEF Recursion
    <2>2. IsMet(F, D, V)
      <3> HIDE DEF F, D, V, rank
      <3>. QED BY <1>6, <2>1, RecursionIsMet
    <2> HIDE DEF D, V, G
    <2>3. PICK f \in [D -> V] : F[f] = f BY <2>2 DEF IsMet
    <2>4. F[f] = G(f) BY <2>3
    <2>. QED BY <2>3, <2>4
  <1>10. loop = CHOOSE f : f = G(f) BY Zenon DEF SkipLoop
  <1>11. \A i : skipValidContainer(src, i) = (CHOOSE f : f = G(f))[<<i + 1, 1>>]
    BY Zenon DEF skipValidContainer, SkipLoopTurn, IsOpener, IsCloser, Quote
  <1>12. loop = G(loop)
    <2> HIDE DEF G, loop
    <2>. QED BY <1>9, <1>10
  <1> HIDE DEF loop
  <1>13. ASSUME NEW k \in 0..n, NEW d \in Nat \ {0} PROVE loop[<<k, d>>] = SkipLoopTurn(src, loop, k, d)
    <2>1. <<k, d>> \in D OBVIOUS
    <2> HIDE DEF D
    <2>2. G(loop)[<<k, d>>] = SkipLoopTurn(src, loop, k, d) BY <2>1
    <2> HIDE DEF G
    <2>. QED BY <1>12, <2>2
  <1>. QED BY <1>10, <1>11, <1>13 DEF loop

\* It passes the inside of a container.
LEMMA SkipWalks ==
    ASSUME NEW src, Len(src) \in Nat
    PROVE  Walks(src, SkipLoop(src), SkipEnd(src))
  <1> DEFINE n == Len(src)
             f == SkipLoop(src)
  <1>1. \A k \in 0..n : \A d \in Nat \ {0} : f[<<k, d>>] = SkipLoopTurn(src, f, k, d) BY SkipLoopIs
  <1> HIDE DEF f
  <1>2. ASSUME NEW k \in 0..(n - 1), NEW d \in 1..k
        PROVE  /\ At(src, k) = Quote => \A e \in 0..n : IsString(src, k, e) => f[<<k, d>>] = f[<<e, d>>]
               /\ At(src, k) \in Openers => f[<<k, d>>] = f[<<k + 1, d + 1>>]
               /\ At(src, k) \in {"]", RBrace} => f[<<k, d>>] = IF d = 1 THEN SkipEnd(src)[k] ELSE f[<<k + 1, d - 1>>]
               /\ At(src, k) \notin {Quote} \cup Brackets => f[<<k, d>>] = f[<<k + 1, d>>]
    <2> DEFINE c == At(src, k)
    <2>1. k \in 0..n /\ d \in Nat \ {0} /\ ~(k >= n) /\ k \in Nat OBVIOUS
    <2>2. f[<<k, d>>] = IF c = Quote THEN
                            IF skipValidString(src, k) = NoValue THEN NoValue ELSE f[<<skipValidString(src, k), d>>]
                        ELSE IF IsOpener(c) THEN f[<<k + 1, d + 1>>]
                        ELSE IF IsCloser(c) THEN IF d = 1 THEN k + 1 ELSE f[<<k + 1, d - 1>>]
                        ELSE f[<<k + 1, d>>]
      <3>1. f[<<k, d>>] = SkipLoopTurn(src, f, k, d) BY <1>1, <2>1
      <3>. QED BY <2>1, <3>1, Zenon DEF SkipLoopTurn
    <2>3. ASSUME c = Quote, NEW e \in 0..n, IsString(src, k, e) PROVE f[<<k, d>>] = f[<<e, d>>]
      <3>1. skipValidString(src, k) = e BY <2>1, <2>3, StringSkipped
      <3>2. e # NoValue BY DEF NoValue
      <3>. QED BY <2>2, <2>3, <3>1, <3>2
    <2>4. SkipEnd(src)[k] = k + 1 BY <2>1 DEF SkipEnd
    <2> HIDE DEF c
    <2>5. c \in Openers => f[<<k, d>>] = f[<<k + 1, d + 1>>] BY <2>2, OpenersAndClosers, BracketsApart
    <2>6. c \in {"]", RBrace} => f[<<k, d>>] = IF d = 1 THEN k + 1 ELSE f[<<k + 1, d - 1>>]
      BY <2>2, OpenersAndClosers, BracketsApart
    <2>7. c \notin {Quote} \cup Brackets => f[<<k, d>>] = f[<<k + 1, d>>]
      <3>1. c \notin {Quote} \cup Brackets => c # Quote /\ ~IsOpener(c) /\ ~IsCloser(c) BY OpenersAndClosers DEF Brackets
      <3>. QED BY <2>2, <3>1
    <2>. QED BY <2>3, <2>4, <2>5, <2>6, <2>7 DEF c
  <1>3. Walks(src, f, SkipEnd(src)) BY <1>2 DEF Walks
  <1>. QED BY <1>3 DEF f

LEMMA ContainerSkipped ==
    ASSUME NEW src, Len(src) \in Nat, NEW i \in 0..Len(src), NEW j \in 0..Len(src), IsValue(src, i, j), At(src, i) \in Openers
    PROVE  skipValidContainer(src, i) = j
  <1>1. Walks(src, SkipLoop(src), SkipEnd(src)) BY SkipWalks
  <1>2. SkipLoop(src)[<<i + 1, 1>>] = SkipEnd(src)[j - 1] /\ i + 1 < j BY <1>1, WalksContainer
  <1>3. SkipEnd(src)[j - 1] = j
    <2>1. j - 1 \in 0..Len(src) /\ (j - 1) + 1 = j BY <1>2
    <2>. QED BY <2>1 DEF SkipEnd
  <1>. QED BY <1>2, <1>3, SkipLoopIs

\* What may follow a number, and what the skipper makes of each first byte.
Follow == Marks \cup Space

NumberSkipped(src, i, j) ==
    /\ \A k \in (i + 1)..(j - 1) : At(src, k) \notin Follow
    /\ j = Len(src) \/ At(src, j) \in Follow

FixedSkip(src, i, w) == IF i + w > Len(src) THEN NoValue ELSE i + w

LEMMA SkipKinds ==
    ASSUME NEW src, NEW i, ~(i >= Len(src))
    PROVE  LET c == At(src, i)
               v == skipValidValue(src, i)
           IN  /\ c \in Openers => v = skipValidContainer(src, i)
               /\ c = Quote => v = skipValidString(src, i)
               /\ c \in {"n", "t"} => v = FixedSkip(src, i, 4)
               /\ c = "f" => v = FixedSkip(src, i, 5)
               /\ c \in Digit \cup {Minus} => v = CHOOSE j \in (i + 1)..Len(src) : NumberSkipped(src, i, j)
  <1> DEFINE c == At(src, i)
             v == skipValidValue(src, i)
             K == {LBrace, "["}
             F == {Comma, "]", RBrace} \cup Space
             C(S) == CHOOSE j \in (i + 1)..Len(src) :
                        /\ \A k \in (i + 1)..(j - 1) : At(src, k) \notin S
                        /\ j = Len(src) \/ At(src, j) \in S
             o == skipValidContainer(src, i)
             s == skipValidString(src, i)
             l == FixedSkip(src, i, 4)
             m == FixedSkip(src, i, 5)
             d == C(F)
  <1>1. v = CASE c \in K -> o
              [] c = Quote -> s
              [] c \in {"t", "n"} -> l
              [] c = "f" -> m
              [] c \in Digit \cup {Minus} -> d
              [] OTHER -> NoValue
    BY Zenon DEF skipValidValue, Quote, LBrace, RBrace, Comma, Minus, FixedSkip
  <1>2. d = CHOOSE j \in (i + 1)..Len(src) : NumberSkipped(src, i, j)
    <2>1. F = Follow BY DEF Follow, Marks
    <2>2. C(Follow) = CHOOSE j \in (i + 1)..Len(src) : NumberSkipped(src, i, j) BY Zenon DEF NumberSkipped
    <2> HIDE DEF C, F
    <2>. QED BY <2>1, <2>2
  <1>3. "f" \notin {"t", "n"} OBVIOUS
  <1> DEFINE D == Digit \cup {Minus}
             T == {"t", "n"}
  <1>4. \A b \in D : b \notin K /\ b # Quote /\ b \notin T /\ b # "f"
    <2>1. \A b \in D : b \notin {"n", "t", "f"} BY FirstBytes
    <2>2. \A b \in D : b \notin {"[", LBrace} /\ b # Quote BY FirstBytes
    <2>. QED BY <2>1, <2>2
  <1>5. \A b \in K : b # Quote /\ b \notin T /\ b # "f" BY FirstBytes
  <1>6. Quote \notin T /\ Quote # "f" BY FirstBytes
  <1> HIDE DEF c, v, o, s, l, m, d, K, F, D, T
  <1>7. v = CASE c \in K -> o
              [] c = Quote -> s
              [] c \in T -> l
              [] c = "f" -> m
              [] c \in D -> d
              [] OTHER -> NoValue
    BY <1>1 DEF T, D
  <1>8. "f" \notin T BY <1>3 DEF T
  <1>9. c \in K => v = o BY <1>5, <1>7, <1>4
  <1>10. c = Quote => v = s BY <1>4, <1>5, <1>6, <1>7
  <1>11. c \in T => v = l BY <1>4, <1>5, <1>6, <1>7, <1>8
  <1>12. c = "f" => v = m BY <1>4, <1>5, <1>6, <1>7, <1>8
  <1>13. c \in D => v = d BY <1>4, <1>7
  <1>14. c \in Openers => c \in K BY DEF Openers, K
  <1>15. c \in {"n", "t"} => c \in T BY DEF T
  <1>16. c \in D => v = CHOOSE j \in (i + 1)..Len(src) : NumberSkipped(src, i, j) BY <1>2, <1>13
  <1>17. c \in Digit \cup {Minus} => c \in D BY DEF D
  <1>. QED BY <1>9, <1>10, <1>11, <1>12, <1>14, <1>15, <1>16, <1>17 DEF c, v, o, s, l, m

LEMMA NumberJumped ==
    ASSUME NEW src, Len(src) \in Nat, NEW i \in Nat, NEW j \in 0..Len(src), IsNumber(src, i, j),
           j = Len(src) \/ At(src, j) \in Space
    PROVE  (CHOOSE k \in (i + 1)..Len(src) : NumberSkipped(src, i, k)) = j
  <1> DEFINE n == Len(src)
  <1>1. i < j /\ \A k \in i..(j - 1) : At(src, k) \in NumberInk
    <2>1. j \in Nat OBVIOUS
    <2>. QED BY <2>1, NumberInked, NumberIsInk
  <1>2. \A b \in NumberInk : b \notin Follow
    <2>1. \A b \in NumberInk : b \notin Space /\ b \notin {"]", RBrace} BY PlainBytes DEF Brackets
    <2>2. Comma \notin NumberInk
      <3>1. Comma \notin Digit /\ Comma \notin Exps /\ Comma \notin Signs /\ Comma # Dot
        BY Zenon DEF Comma, Digit, Exps, Signs, Dot
      <3>. QED BY <3>1 DEF NumberInk
    <2>. QED BY <2>1, <2>2 DEF Follow, Marks
  <1>3. j \in (i + 1)..n BY <1>1
  <1>4. NumberSkipped(src, i, j)
    <2>1. j = n \/ At(src, j) \in Follow BY DEF Follow
    <2>2. \A k \in (i + 1)..(j - 1) : At(src, k) \notin Follow
      <3> SUFFICES ASSUME NEW k \in (i + 1)..(j - 1) PROVE At(src, k) \notin Follow
        OBVIOUS
      <3>1. k \in i..(j - 1) OBVIOUS
      <3>. QED BY <1>1, <1>2, <3>1
    <2>. QED BY <2>1, <2>2 DEF NumberSkipped
  <1>5. ASSUME NEW k \in (i + 1)..n, NumberSkipped(src, i, k) PROVE k = j
    <2>1. \A x \in (i + 1)..(k - 1) : At(src, x) \notin Follow BY <1>5 DEF NumberSkipped
    <2>2. k = n \/ At(src, k) \in Follow BY <1>5 DEF NumberSkipped
    <2>3. ~(k < j)
      <3> SUFFICES ASSUME k < j PROVE FALSE
        OBVIOUS
      <3>1. k \in i..(j - 1) /\ k # n OBVIOUS
      <3>. QED BY <1>1, <1>2, <2>2, <3>1
    <2>4. ~(j < k)
      <3> SUFFICES ASSUME j < k PROVE FALSE
        OBVIOUS
      <3>1. j \in (i + 1)..(k - 1) /\ j # n BY <1>3
      <3>2. At(src, j) \in Follow BY <3>1 DEF Follow
      <3>. QED BY <2>1, <3>1, <3>2
    <2>. QED BY <1>3, <2>3, <2>4
  <1> DEFINE v == CHOOSE k \in (i + 1)..n : NumberSkipped(src, i, k)
  <1>6. v \in (i + 1)..n /\ NumberSkipped(src, i, v) BY <1>3, <1>4
  <1> HIDE DEF v
  <1>7. v = j BY <1>5, <1>6
  <1>. QED BY <1>7 DEF v

\* On a valid text the skipper of the cursor ends the value where the grammar does.
THEOREM DocumentSkipped ==
    ASSUME NEW src, Len(src) \in Nat, IsDocument(src)
    PROVE  skipValidValue(src, SkipSpace(src, 0)) = RefEnd(src, SkipSpace(src, 0))
  <1> DEFINE n == Len(src)
             i == SpanEnd(src, 0, Space)
             j == RefEnd(src, i)
             c == At(src, i)
             v == skipValidValue(src, i)
  <1>1. 0 \in 0..n /\ n \in Nat OBVIOUS
  <1>2. i \in 0..n BY <1>1, SpanEndIs
  <1>3. i < n /\ validRootValueFast(src, i) # NoValue /\ SpanEnd(src, validRootValueFast(src, i), Space) = n
    <2>1. validFast(src) BY ValidatorsAgree
    <2>. QED BY <2>1, Zenon DEF validFast, nextSignificantFast
  <1>4. i \in 0..(n - 1) BY <1>2, <1>3
  <1>5. j # NoValue /\ SpanEnd(src, j, Space) = n BY <1>3, <1>4, RootValueExact
  <1>6. j \in (i + 1)..n /\ IsValue(src, i, j) BY <1>5, RefEndIs
  <1>7. j = n \/ At(src, j) \in Space
    <2>1. j \in 0..n BY <1>2, <1>6
    <2>2. \A k \in j..(SpanEnd(src, j, Space) - 1) : At(src, k) \in Space BY <2>1, SpanEndIs
    <2> HIDE DEF j
    <2>3. j = n \/ j \in j..(n - 1) BY <2>1
    <2>. QED BY <1>5, <2>2, <2>3
  <1>8. SkipSpace(src, 0) = i BY DEF SkipSpace
  <1> HIDE DEF i, j
  <1>9. j \in 0..n /\ i \in Nat /\ j \in Nat /\ j \in i..n /\ i < j /\ ~(i >= n) BY <1>2, <1>3, <1>6
  <1>10. ValueRule(src, JsonValue(src), i, j, 0)
    <2>1. 0 \in 0..MaxDepth BY MaxDepthAssumption
    <2>. QED BY <1>6, <1>9, <1>2, <2>1, RulesAre DEF IsValue
  <1>11. IsScalar(src, i, j) \/ c \in Openers
    BY <1>10, <1>2, <1>9, ValueParts DEF Openers
  <1>12. /\ c \in Openers => v = skipValidContainer(src, i)
         /\ c = Quote => v = skipValidString(src, i)
         /\ c \in {"n", "t"} => v = FixedSkip(src, i, 4)
         /\ c = "f" => v = FixedSkip(src, i, 5)
         /\ c \in Digit \cup {Minus} => v = CHOOSE k \in (i + 1)..n : NumberSkipped(src, i, k)
    BY <1>9, SkipKinds
  <1> HIDE DEF v, c
  <1>13. ASSUME NEW w \in Words, Slice(src, i, j) = w PROVE j = i + Len(w)
    BY <1>2, <1>9, <1>13, LiteralIs
  <1>14. Len(Null) = 4 /\ Len(True) = 4 /\ Len(False) = 5 /\ Null \in Words /\ True \in Words /\ False \in Words
    BY DEF Null, True, False, Words
  <1>15. CASE c \in Openers
    <2>1. skipValidContainer(src, i) = j BY <1>2, <1>6, <1>9, <1>15, ContainerSkipped DEF c
    <2>. QED BY <1>8, <1>12, <1>15, <2>1 DEF v, j
  <1>16. CASE c = Quote /\ IsString(src, i, j)
    <2>1. skipValidString(src, i) = j BY <1>9, <1>16, StringSkipped
    <2>. QED BY <1>8, <1>12, <1>16, <2>1 DEF v, j
  <1>17. CASE c \in Digit \cup {Minus} /\ IsNumber(src, i, j)
    <2>1. v = j BY <1>7, <1>9, <1>12, <1>17, NumberJumped
    <2>. QED BY <1>8, <2>1 DEF v, j
  <1>18. CASE (c = "n" /\ Slice(src, i, j) = Null) \/ (c = "t" /\ Slice(src, i, j) = True)
    <2>1. j = i + 4
      <3>1. j = i + Len(Null) \/ j = i + Len(True) BY <1>13, <1>14, <1>18, Zenon
      <3>. QED BY <1>9, <1>14, <3>1
    <2>2. FixedSkip(src, i, 4) = j BY <1>9, <2>1 DEF FixedSkip
    <2>3. v = j BY <1>12, <1>18, <2>2
    <2>. QED BY <1>8, <2>3 DEF v, j
  <1>19. CASE c = "f" /\ Slice(src, i, j) = False
    <2>1. j = i + 5
      <3>1. j = i + Len(False) BY <1>13, <1>14, <1>19, Zenon
      <3>. QED BY <1>9, <1>14, <3>1
    <2>2. FixedSkip(src, i, 5) = j BY <1>9, <2>1 DEF FixedSkip
    <2>3. v = j BY <1>12, <1>19, <2>2
    <2>. QED BY <1>8, <2>3 DEF v, j
  <1>. QED
    <2>1. IsScalar(src, i, j) =>
             \/ c = "n" /\ Slice(src, i, j) = Null
             \/ c = "t" /\ Slice(src, i, j) = True
             \/ c = "f" /\ Slice(src, i, j) = False
             \/ c \in Digit \cup {Minus} /\ IsNumber(src, i, j)
             \/ c = Quote /\ IsString(src, i, j)
      BY <1>2, <1>9, ScalarParts DEF c
    <2>. QED BY <1>11, <1>15, <1>16, <1>17, <1>18, <1>19, <2>1
=============================================================================
