-------------------------- MODULE SseStreamProofs --------------------------
(***************************************************************************)
(* stream_job relays a response as it is: for every response, however the  *)
(* network cuts it, and for all limits.  In five parts:                    *)
(*   - induction over numbers and sequences, and recursion on them, from   *)
(*     the least number principle;                                         *)
(*   - what Total, InOrder, ByteLen and the functions of the parser do;    *)
(*   - BoundedInv: types and limits, for every response;                   *)
(*   - FollowsInv: what was sent and kept is what the taken part of the    *)
(*     response carries, for every response in ASCII;                      *)
(*   - the theorems.                                                       *)
(***************************************************************************)
EXTENDS SseStream, FiniteSetTheorems, SequenceTheorems, TLAPS

\* Every set of natural numbers has a least element.  Induction over a set of
\* numbers follows from it, so that no operator is needed as a parameter.
LEMMA LeastNumber ==
  ASSUME NEW S \in SUBSET Nat, S # {}
  PROVE  \E m \in S : \A k \in S : m <= k
<1> DEFINE R == OpToRel(<, Nat)
<1>1. IsWellFoundedOn(R, Nat)
  BY NatLessThanWellFounded
<1>2. \A x, y \in Nat : <<x, y>> \in R <=> x < y
  BY DEF OpToRel
<1> HIDE DEF R
<1>3. PICK x \in S : \A y \in S : ~ (<<y, x>> \in R)
  BY <1>1, WFMin
<1>4. \A y \in S : ~ (y < x)
  BY <1>2, <1>3
<1>5. \A y \in S : x <= y
  BY <1>4
<1> QED BY <1>5

LEMMA Induction ==
  ASSUME NEW S, 0 \in S, \A n \in Nat : n \in S => n + 1 \in S
  PROVE  \A n \in Nat : n \in S
<1> SUFFICES ASSUME NEW bad \in Nat, bad \notin S PROVE FALSE
  OBVIOUS
<1>1. {n \in Nat : n \notin S} # {}
  OBVIOUS
<1>2. PICK m \in {n \in Nat : n \notin S} : \A k \in {n \in Nat : n \notin S} : m <= k
  BY <1>1, LeastNumber
<1>3. m # 0 /\ m - 1 \in Nat /\ m - 1 \in S
  BY <1>2
<1> QED BY <1>2, <1>3

\* What n steps make of a value: the sequence of results exists.
Steps(n, V) == [1..n -> [V -> V]]
Results(n, V, base, step) ==
  {f \in [0..n -> V] : f[0] = base /\ \A i \in 1..n : f[i] = step[i][f[i - 1]]}

LEMMA Recursion ==
  ASSUME NEW n \in Nat, NEW V, NEW base \in V, NEW step \in Steps(n, V)
  PROVE  Results(n, V, base, step) # {}
<1> DEFINE Fcn(m, f) == /\ f \in [0..m -> V]
                        /\ f[0] = base
                        /\ \A i \in 1..m : f[i] = step[i][f[i - 1]]
           S == {m \in Nat : m <= n => \E f : Fcn(m, f)}
<1>1. step \in [1..n -> [V -> V]]
  BY DEF Steps
<1>2. 0 \in S
  <2>1. Fcn(0, [i \in 0..0 |-> base])
    OBVIOUS
  <2> QED BY <2>1
<1>3. ASSUME NEW m \in Nat, m \in S PROVE m + 1 \in S
  <2> SUFFICES ASSUME m + 1 <= n PROVE \E f : Fcn(m + 1, f)
    OBVIOUS
  <2>1. PICK f : Fcn(m, f)
    BY <1>3
  <2> DEFINE g == [i \in 0..m + 1 |-> IF i = m + 1 THEN step[m + 1][f[m]] ELSE f[i]]
  <2>2. step[m + 1][f[m]] \in V
    BY <1>1, <2>1
  <2>3. g \in [0..m + 1 -> V] /\ g[0] = base
    BY <2>1, <2>2
  <2>4. ASSUME NEW i \in 1..m + 1 PROVE g[i] = step[i][g[i - 1]]
    <3>1. i - 1 \in 0..m /\ g[i - 1] = f[i - 1]
      OBVIOUS
    <3>2. CASE i = m + 1
      BY <3>1, <3>2
    <3>3. CASE i \in 1..m
      BY <2>1, <3>1, <3>3
    <3> QED BY <3>2, <3>3
  <2>5. Fcn(m + 1, g)
    BY <2>3, <2>4
  <2> QED BY <2>5
<1> HIDE DEF S
<1>4. n \in S
  BY <1>2, <1>3, Induction
<1>5. PICK f : Fcn(n, f)
  BY <1>4 DEF S
<1>6. f \in Results(n, V, base, step)
  BY <1>5 DEF Results
<1> QED BY <1>6

-----------------------------------------------------------------------------
\* InOrder by its recurrence: its function is the one that Recursion finds.
LEMMA InOrderFcn ==
  ASSUME NEW S, NEW n \in Nat
  PROVE  \E F \in [0..n -> Seq(Nat)] :
           /\ F[0] = << >>
           /\ \A i \in 1..n : F[i] = IF i \in S THEN Append(F[i - 1], i) ELSE F[i - 1]
           /\ InOrder(S, n) = F[n]
<1> DEFINE step == [i \in 1..n |-> [s \in Seq(Nat) |-> IF i \in S THEN Append(s, i) ELSE s]]
           G(g) == [i \in 0..n |-> IF i = 0 THEN << >>
                                   ELSE IF i \in S THEN Append(g[i - 1], i)
                                   ELSE g[i - 1]]
           F == CHOOSE g : g = G(g)
<1>1. step \in Steps(n, Seq(Nat))
  BY DEF Steps
<1>2. \A i \in 1..n : \A s \in Seq(Nat) : step[i][s] = IF i \in S THEN Append(s, i) ELSE s
  OBVIOUS
<1>3. << >> \in Seq(Nat)
  OBVIOUS
<1> HIDE DEF step
<1>4. PICK f \in Results(n, Seq(Nat), << >>, step) : TRUE
  BY <1>1, <1>3, Recursion
<1> HIDE DEF G, F
<1>5. /\ f \in [0..n -> Seq(Nat)]
      /\ f[0] = << >>
      /\ \A i \in 1..n : f[i] = step[i][f[i - 1]]
  BY <1>4 DEF Results
<1>6. ASSUME NEW i \in 1..n
      PROVE  f[i] = IF i \in S THEN Append(f[i - 1], i) ELSE f[i - 1]
  <2>1. i - 1 \in 0..n /\ f[i - 1] \in Seq(Nat)
    BY <1>5
  <2>2. f[i] = step[i][f[i - 1]]
    BY <1>5
  <2> QED BY <1>2, <2>1, <2>2
<1>7. f = G(f)
  <2>1. ASSUME NEW i \in 0..n
        PROVE  f[i] = IF i = 0 THEN << >>
                      ELSE IF i \in S THEN Append(f[i - 1], i)
                      ELSE f[i - 1]
    <3>1. i = 0 \/ i \in 1..n
      OBVIOUS
    <3> QED BY <1>5, <1>6, <3>1
  <2> QED BY <1>5, <2>1 DEF G
<1>8. F = G(F)
  BY <1>7 DEF F
<1>9. InOrder(S, n) = F[n]
  BY DEF InOrder, F, G
<1>10. \A i \in 0..n : F[i] = IF i = 0 THEN << >>
                              ELSE IF i \in S THEN Append(F[i - 1], i)
                              ELSE F[i - 1]
  BY <1>8 DEF G
<1>11. \A i \in 0..n : F[i] = f[i]
  <2> DEFINE T == {k \in Nat : k <= n => F[k] = f[k]}
  <2>1. 0 \in T
    BY <1>5, <1>10
  <2>2. ASSUME NEW k \in Nat, k \in T PROVE k + 1 \in T
    BY <2>2, <1>6, <1>10
  <2> HIDE DEF T
  <2>3. \A k \in Nat : k \in T
    BY <2>1, <2>2, Induction
  <2> QED BY <2>3 DEF T
<1>12. InOrder(S, n) = f[n]
  BY <1>9, <1>11
<1> QED BY <1>5, <1>6, <1>12

LEMMA InOrderZero == ASSUME NEW S PROVE InOrder(S, 0) = << >>
<1>1. 0 \in Nat /\ 0 \in 0..0
  OBVIOUS
<1> QED BY <1>1, InOrderFcn

LEMMA InOrderType == ASSUME NEW S, NEW n \in Nat PROVE InOrder(S, n) \in Seq(Nat)
<1>1. PICK F \in [0..n -> Seq(Nat)] :
        /\ F[0] = << >>
        /\ \A i \in 1..n : F[i] = IF i \in S THEN Append(F[i - 1], i) ELSE F[i - 1]
        /\ InOrder(S, n) = F[n]
  BY InOrderFcn
<1> QED BY <1>1

LEMMA InOrderStep ==
  ASSUME NEW S, NEW n \in Nat
  PROVE  InOrder(S, n + 1) =
           IF n + 1 \in S THEN Append(InOrder(S, n), n + 1) ELSE InOrder(S, n)
<1>1. PICK F \in [0..n -> Seq(Nat)] :
        /\ F[0] = << >>
        /\ \A i \in 1..n : F[i] = IF i \in S THEN Append(F[i - 1], i) ELSE F[i - 1]
        /\ InOrder(S, n) = F[n]
  BY InOrderFcn
<1>2. n + 1 \in Nat
  OBVIOUS
<1>3. PICK G \in [0..n + 1 -> Seq(Nat)] :
        /\ G[0] = << >>
        /\ \A i \in 1..n + 1 : G[i] = IF i \in S THEN Append(G[i - 1], i) ELSE G[i - 1]
        /\ InOrder(S, n + 1) = G[n + 1]
  BY <1>2, InOrderFcn
<1> DEFINE T == {k \in Nat : k <= n => F[k] = G[k]}
<1>4. 0 \in T
  BY <1>1, <1>3
<1>5. ASSUME NEW k \in Nat, k \in T PROVE k + 1 \in T
  <2> SUFFICES ASSUME k + 1 <= n PROVE F[k + 1] = G[k + 1]
    OBVIOUS
  <2>1. k + 1 \in 1..n /\ k + 1 \in 1..n + 1 /\ (k + 1) - 1 = k
    OBVIOUS
  <2>2. F[k + 1] = IF k + 1 \in S THEN Append(F[k], k + 1) ELSE F[k]
    BY <1>1, <2>1
  <2>3. G[k + 1] = IF k + 1 \in S THEN Append(G[k], k + 1) ELSE G[k]
    BY <1>3, <2>1
  <2> QED BY <1>5, <2>2, <2>3
<1> HIDE DEF T
<1>6. n \in T
  BY <1>4, <1>5, Induction
<1>7. F[n] = G[n]
  BY <1>6 DEF T
<1>8. n + 1 \in 1..n + 1 /\ (n + 1) - 1 = n
  OBVIOUS
<1>9. G[n + 1] = IF n + 1 \in S THEN Append(G[n], n + 1) ELSE G[n]
  BY <1>3, <1>8
<1> QED BY <1>1, <1>3, <1>7, <1>9

\* Total by its recurrence, in the same way.
LEMMA TotalFcn ==
  ASSUME NEW ns \in Seq(Nat)
  PROVE  \E F \in [0..Len(ns) -> Nat] :
           /\ F[0] = 0
           /\ \A i \in 1..Len(ns) : F[i] = F[i - 1] + ns[i]
           /\ Total(ns) = F[Len(ns)]
<1> DEFINE n == Len(ns)
           step == [i \in 1..n |-> [s \in Nat |-> s + ns[i]]]
           G(g) == [i \in 0..n |-> IF i = 0 THEN 0 ELSE g[i - 1] + ns[i]]
           F == CHOOSE g : g = G(g)
<1>1. n \in Nat /\ \A i \in 1..n : ns[i] \in Nat
  OBVIOUS
<1>2. step \in Steps(n, Nat)
  BY DEF Steps
<1>3. \A i \in 1..n : \A s \in Nat : step[i][s] = s + ns[i]
  OBVIOUS
<1> HIDE DEF step, G, F, n
<1>4. PICK f \in Results(n, Nat, 0, step) : TRUE
  BY <1>1, <1>2, Recursion
<1>5. /\ f \in [0..n -> Nat]
      /\ f[0] = 0
      /\ \A i \in 1..n : f[i] = step[i][f[i - 1]]
  BY <1>4 DEF Results
<1>6. ASSUME NEW i \in 1..n PROVE f[i] = f[i - 1] + ns[i]
  <2>1. i - 1 \in 0..n /\ f[i - 1] \in Nat
    BY <1>1, <1>5
  <2>2. f[i] = step[i][f[i - 1]]
    BY <1>5
  <2> QED BY <1>3, <2>1, <2>2
<1>7. f = G(f)
  <2>1. ASSUME NEW i \in 0..n PROVE f[i] = IF i = 0 THEN 0 ELSE f[i - 1] + ns[i]
    <3>1. i = 0 \/ i \in 1..n
      BY <1>1
    <3> QED BY <1>1, <1>5, <1>6, <3>1
  <2> QED BY <1>5, <2>1 DEF G
<1>8. F = G(F)
  BY <1>7 DEF F
<1>9. Total(ns) = F[n]
  BY DEF Total, F, G, n
<1>10. \A i \in 0..n : F[i] = IF i = 0 THEN 0 ELSE F[i - 1] + ns[i]
  BY <1>8 DEF G
<1>11. F[n] = f[n]
  <2> DEFINE T == {k \in Nat : k <= n => F[k] = f[k]}
  <2>1. 0 \in T
    BY <1>1, <1>5, <1>10
  <2>2. ASSUME NEW k \in Nat, k \in T PROVE k + 1 \in T
    BY <1>1, <2>2, <1>6, <1>10
  <2> HIDE DEF T
  <2>3. n \in T
    BY <1>1, <2>1, <2>2, Induction
  <2> QED BY <2>3, <1>1 DEF T
<1> QED BY <1>5, <1>6, <1>9, <1>11 DEF n

LEMMA TotalNone == ASSUME NEW ns \in Seq(Nat), Len(ns) = 0 PROVE Total(ns) = 0
BY TotalFcn

LEMMA TotalType == ASSUME NEW ns \in Seq(Nat) PROVE Total(ns) \in Nat
<1>1. PICK F \in [0..Len(ns) -> Nat] : Total(ns) = F[Len(ns)]
  BY TotalFcn
<1> QED BY <1>1

LEMMA TotalAppend ==
  ASSUME NEW ns \in Seq(Nat), NEW x \in Nat
  PROVE  Total(Append(ns, x)) = Total(ns) + x
<1> DEFINE ms == Append(ns, x)
           n == Len(ns)
<1>1. /\ ms \in Seq(Nat) /\ n \in Nat /\ Len(ms) = n + 1
      /\ ms[n + 1] = x /\ \A i \in 1..n : ms[i] = ns[i]
  OBVIOUS
<1> HIDE DEF ms
<1>2. PICK F \in [0..n -> Nat] :
        /\ F[0] = 0
        /\ \A i \in 1..n : F[i] = F[i - 1] + ns[i]
        /\ Total(ns) = F[n]
  BY TotalFcn
<1>3. PICK G \in [0..n + 1 -> Nat] :
        /\ G[0] = 0
        /\ \A i \in 1..n + 1 : G[i] = G[i - 1] + ms[i]
        /\ Total(ms) = G[n + 1]
  BY <1>1, TotalFcn
<1> HIDE DEF n
<1> DEFINE T == {k \in Nat : k <= n => F[k] = G[k]}
<1>4. 0 \in T
  BY <1>2, <1>3
<1>5. ASSUME NEW k \in Nat, k \in T PROVE k + 1 \in T
  <2> SUFFICES ASSUME k + 1 <= n PROVE F[k + 1] = G[k + 1]
    OBVIOUS
  <2>1. k + 1 \in 1..n /\ k + 1 \in 1..n + 1 /\ (k + 1) - 1 = k
    BY <1>1
  <2>2. F[k + 1] = F[k] + ns[k + 1] /\ G[k + 1] = G[k] + ms[k + 1]
    BY <1>2, <1>3, <2>1
  <2>3. ms[k + 1] = ns[k + 1]
    BY <1>1, <2>1
  <2>4. F[k] = G[k]
    BY <1>1, <1>5
  <2> HIDE DEF T
  <2> QED BY <2>2, <2>3, <2>4
<1> HIDE DEF T
<1>6. n \in T
  BY <1>1, <1>4, <1>5, Induction
<1>7. F[n] = G[n]
  BY <1>1, <1>6 DEF T
<1>8. G[n + 1] = G[n] + ms[n + 1]
  <2>1. n + 1 \in 1..n + 1 /\ (n + 1) - 1 = n
    BY <1>1
  <2> QED BY <1>3, <2>1
<1> QED BY <1>1, <1>2, <1>3, <1>7, <1>8 DEF ms

\* What holds of the empty sequence and survives Append holds of all.
LEMMA SeqInduction ==
  ASSUME NEW V, NEW S, << >> \in S,
         \A s \in Seq(V) : \A x \in V : s \in S => Append(s, x) \in S
  PROVE  \A s \in Seq(V) : s \in S
<1> DEFINE T == {n \in Nat : \A s \in Seq(V) : Len(s) = n => s \in S}
<1>1. 0 \in T
  <2>1. \A s \in Seq(V) : Len(s) = 0 => s = << >>
    OBVIOUS
  <2> QED BY <2>1
<1>2. ASSUME NEW n \in Nat, n \in T PROVE n + 1 \in T
  <2> SUFFICES ASSUME NEW s \in Seq(V), Len(s) = n + 1 PROVE s \in S
    OBVIOUS
  <2> DEFINE r == SubSeq(s, 1, n)
  <2>1. r \in Seq(V) /\ Len(r) = n /\ s[n + 1] \in V /\ s = Append(r, s[n + 1])
    OBVIOUS
  <2> HIDE DEF r
  <2>2. r \in S
    BY <1>2, <2>1
  <2>3. Append(r, s[n + 1]) \in S
    BY <2>1, <2>2
  <2> QED BY <2>1, <2>3
<1> HIDE DEF T
<1>3. \A n \in Nat : n \in T
  BY <1>1, <1>2, Induction
<1> QED BY <1>3 DEF T

-----------------------------------------------------------------------------
LEMMA WidthBounds == \A c : Width(c) \in 1..3
BY DEF Width

LEMMA WidthOfAscii == \A c : c \notin {"x", "?"} => Width(c) = 1
BY DEF Width

LEMMA ParseLine ==
  ASSUME NEW line
  PROVE  /\ line[1] \in {"D", "B1"} =>
              parse_sse_line(line) = [kind |-> "Delta", text |-> Tail(line)]
         /\ line[1] \in {"U1", "U2"} =>
              parse_sse_line(line) = [kind |-> "Usage", usage |-> line[1]]
         /\ line = <<"F">> => parse_sse_line(line) = [kind |-> "Done"]
         /\ line[1] \notin {"D", "B1", "U1", "U2"} /\ line # <<"F">> =>
              parse_sse_line(line) = [kind |-> "Other"]
BY DEF parse_sse_line

LEMMA ByteLenNone == ByteLen(<< >>) = 0
<1> DEFINE ns == [i \in 1..Len(<< >>) |-> Width(<< >>[i])]
<1>1. ns \in Seq(Nat) /\ Len(ns) = 0
  OBVIOUS
<1> HIDE DEF ns
<1>2. Total(ns) = 0
  BY <1>1, TotalNone
<1> QED BY <1>2 DEF ByteLen, ns

LEMMA ByteLenType == ASSUME NEW V, NEW s \in Seq(V) PROVE ByteLen(s) \in Nat
<1> DEFINE ns == [i \in 1..Len(s) |-> Width(s[i])]
<1>1. ns \in Seq(Nat)
  BY WidthBounds
<1> HIDE DEF ns
<1>2. Total(ns) \in Nat
  BY <1>1, TotalType
<1> QED BY <1>2 DEF ByteLen, ns

LEMMA ByteLenAppend ==
  ASSUME NEW V, NEW s \in Seq(V), NEW c \in V
  PROVE  ByteLen(Append(s, c)) = ByteLen(s) + Width(c)
<1> DEFINE ns == [i \in 1..Len(s) |-> Width(s[i])]
           ms == [i \in 1..Len(Append(s, c)) |-> Width(Append(s, c)[i])]
<1>1. ns \in Seq(Nat) /\ Width(c) \in Nat
  BY WidthBounds
<1>2. ms = Append(ns, Width(c))
  OBVIOUS
<1> HIDE DEF ns, ms
<1>3. Total(ms) = Total(ns) + Width(c)
  BY <1>1, <1>2, TotalAppend
<1> QED BY <1>3 DEF ByteLen, ns, ms

LEMMA ByteLenConcat ==
  ASSUME NEW V, NEW a \in Seq(V), NEW b \in Seq(V)
  PROVE  ByteLen(a \o b) = ByteLen(a) + ByteLen(b)
<1> DEFINE S == {s \in Seq(V) : ByteLen(a \o s) = ByteLen(a) + ByteLen(s)}
<1>1. << >> \in S
  <2>1. a \o << >> = a /\ << >> \in Seq(V)
    OBVIOUS
  <2>2. ByteLen(a) \in Nat
    BY ByteLenType
  <2> QED BY <2>1, <2>2, ByteLenNone
<1>2. ASSUME NEW s \in Seq(V), NEW x \in V, s \in S PROVE Append(s, x) \in S
  <2>1. a \o Append(s, x) = Append(a \o s, x) /\ a \o s \in Seq(V) /\ Append(s, x) \in Seq(V)
    OBVIOUS
  <2>2. /\ ByteLen(Append(a \o s, x)) = ByteLen(a \o s) + Width(x)
        /\ ByteLen(Append(s, x)) = ByteLen(s) + Width(x)
    BY <2>1, ByteLenAppend
  <2>3. ByteLen(a) \in Nat /\ ByteLen(s) \in Nat /\ Width(x) \in Nat
    BY ByteLenType, WidthBounds
  <2>4. ByteLen(a \o s) = ByteLen(a) + ByteLen(s)
    BY <1>2
  <2>5. ByteLen(Append(a \o s, x)) = ByteLen(a) + ByteLen(Append(s, x))
    BY <2>2, <2>3, <2>4
  <2> QED BY <2>1, <2>5
<1> HIDE DEF S
<1>3. b \in S
  BY <1>1, <1>2, SeqInduction
<1> QED BY <1>3 DEF S

\* A character is one to three bytes.
LEMMA ByteLenBounds ==
  ASSUME NEW V, NEW s \in Seq(V)
  PROVE  Len(s) <= ByteLen(s) /\ ByteLen(s) <= 3 * Len(s)
<1> DEFINE S == {t \in Seq(V) : Len(t) <= ByteLen(t) /\ ByteLen(t) <= 3 * Len(t)}
<1>1. << >> \in S
  BY ByteLenNone
<1>2. ASSUME NEW t \in Seq(V), NEW x \in V, t \in S PROVE Append(t, x) \in S
  <2>1. Len(Append(t, x)) = Len(t) + 1 /\ Append(t, x) \in Seq(V) /\ Len(t) \in Nat
    OBVIOUS
  <2>2. ByteLen(Append(t, x)) = ByteLen(t) + Width(x) /\ ByteLen(t) \in Nat
    BY ByteLenAppend, ByteLenType
  <2>3. Width(x) \in 1..3
    BY WidthBounds
  <2> QED BY <1>2, <2>1, <2>2, <2>3
<1> HIDE DEF S
<1>3. s \in S
  BY <1>1, <1>2, SeqInduction
<1> QED BY <1>3 DEF S

LEMMA ByteLenOfAscii ==
  ASSUME NEW V, NEW s \in Seq(V), V \intersect {"x", "?"} = {}
  PROVE  ByteLen(s) = Len(s)
<1> DEFINE S == {t \in Seq(V) : ByteLen(t) = Len(t)}
<1>1. << >> \in S
  BY ByteLenNone
<1>2. ASSUME NEW t \in Seq(V), NEW x \in V, t \in S PROVE Append(t, x) \in S
  <2>1. Len(Append(t, x)) = Len(t) + 1 /\ Append(t, x) \in Seq(V) /\ Len(t) \in Nat
    OBVIOUS
  <2>2. ByteLen(Append(t, x)) = ByteLen(t) + Width(x)
    BY ByteLenAppend
  <2>3. Width(x) = 1
    BY WidthOfAscii
  <2> QED BY <1>2, <2>1, <2>2, <2>3
<1> HIDE DEF S
<1>3. s \in S
  BY <1>1, <1>2, SeqInduction
<1> QED BY <1>3 DEF S

LEMMA ByteLensNone == ByteLens(<< >>) = 0
<1> DEFINE ns == [i \in 1..Len(<< >>) |-> ByteLen(<< >>[i])]
<1>1. ns \in Seq(Nat) /\ Len(ns) = 0
  OBVIOUS
<1> HIDE DEF ns
<1>2. Total(ns) = 0
  BY <1>1, TotalNone
<1> QED BY <1>2 DEF ByteLens, ns

LEMMA ByteLensType == ASSUME NEW V, NEW ts \in Seq(Seq(V)) PROVE ByteLens(ts) \in Nat
<1> DEFINE ns == [i \in 1..Len(ts) |-> ByteLen(ts[i])]
<1>1. ns \in Seq(Nat)
  <2>1. \A i \in 1..Len(ts) : ts[i] \in Seq(V)
    OBVIOUS
  <2>2. \A i \in 1..Len(ts) : ByteLen(ts[i]) \in Nat
    BY <2>1, ByteLenType
  <2> QED BY <2>2
<1> HIDE DEF ns
<1>2. Total(ns) \in Nat
  BY <1>1, TotalType
<1> QED BY <1>2 DEF ByteLens, ns

LEMMA ByteLensAppend ==
  ASSUME NEW V, NEW ts \in Seq(Seq(V)), NEW t \in Seq(V)
  PROVE  ByteLens(Append(ts, t)) = ByteLens(ts) + ByteLen(t)
<1> DEFINE ns == [i \in 1..Len(ts) |-> ByteLen(ts[i])]
           ms == [i \in 1..Len(Append(ts, t)) |-> ByteLen(Append(ts, t)[i])]
<1>1. ns \in Seq(Nat) /\ ByteLen(t) \in Nat
  <2>1. \A i \in 1..Len(ts) : ts[i] \in Seq(V)
    OBVIOUS
  <2>2. \A i \in 1..Len(ts) : ByteLen(ts[i]) \in Nat
    BY <2>1, ByteLenType
  <2> QED BY <2>2, ByteLenType
<1>2. ms = Append(ns, ByteLen(t))
  OBVIOUS
<1> HIDE DEF ns, ms
<1>3. Total(ms) = Total(ns) + ByteLen(t)
  BY <1>1, <1>2, TotalAppend
<1> QED BY <1>3 DEF ByteLens, ns, ms

\* More texts are not shorter.
LEMMA ByteLensOfPrefix ==
  ASSUME NEW V, NEW a \in Seq(Seq(V)), NEW b \in Seq(Seq(V)), IsPrefix(a, b)
  PROVE  ByteLens(a) <= ByteLens(b)
<1> DEFINE S == {c \in Seq(Seq(V)) : ByteLens(a) <= ByteLens(a \o c)}
<1>1. << >> \in S
  <2>1. a \o << >> = a /\ << >> \in Seq(Seq(V))
    OBVIOUS
  <2>2. ByteLens(a) \in Nat
    BY ByteLensType
  <2> QED BY <2>1, <2>2
<1>2. ASSUME NEW c \in Seq(Seq(V)), NEW x \in Seq(V), c \in S PROVE Append(c, x) \in S
  <2>1. /\ a \o Append(c, x) = Append(a \o c, x)
        /\ a \o c \in Seq(Seq(V)) /\ Append(c, x) \in Seq(Seq(V))
    OBVIOUS
  <2>2. ByteLens(Append(a \o c, x)) = ByteLens(a \o c) + ByteLen(x)
    BY <2>1, ByteLensAppend
  <2>3. ByteLens(a) \in Nat /\ ByteLens(a \o c) \in Nat /\ ByteLen(x) \in Nat
    BY <2>1, ByteLensType, ByteLenType
  <2>4. ByteLens(a) <= ByteLens(a \o c)
    BY <1>2
  <2>5. ByteLens(a) <= ByteLens(Append(a \o c, x))
    BY <2>2, <2>3, <2>4
  <2> QED BY <2>1, <2>5
<1> DEFINE rest == SubSeq(b, Len(a) + 1, Len(b))
<1>3. rest \in Seq(Seq(V)) /\ b = a \o rest
  BY DEF IsPrefix
<1> HIDE DEF S, rest
<1>4. rest \in S
  <2> DEFINE T == Seq(V)
  <2>1. \A c \in Seq(T) : \A x \in T : c \in S => Append(c, x) \in S
    BY <1>2
  <2>2. rest \in Seq(T)
    BY <1>3
  <2> HIDE DEF T
  <2> QED BY <1>1, <2>1, <2>2, SeqInduction
<1> QED BY <1>3, <1>4 DEF S

-----------------------------------------------------------------------------
\* InOrder lists elements of S, no more than there are positions.
LEMMA InOrderBounds ==
  ASSUME NEW S, NEW n \in Nat
  PROVE  /\ Len(InOrder(S, n)) <= n
         /\ \A k \in 1..Len(InOrder(S, n)) : InOrder(S, n)[k] \in S /\ InOrder(S, n)[k] \in 1..n
<1> DEFINE Good(m, s) == /\ Len(s) <= m
                         /\ \A k \in 1..Len(s) : s[k] \in S /\ s[k] \in 1..m
           T == {m \in Nat : Good(m, InOrder(S, m))}
<1>1. 0 \in T
  BY InOrderZero
<1>2. ASSUME NEW m \in Nat, m \in T PROVE m + 1 \in T
  <2> DEFINE s == InOrder(S, m)
             t == InOrder(S, m + 1)
  <2>1. s \in Seq(Nat) /\ t = IF m + 1 \in S THEN Append(s, m + 1) ELSE s
    BY InOrderType, InOrderStep
  <2>2. Good(m, s)
    BY <1>2
  <2> HIDE DEF s, t, T
  <2>3. Good(m + 1, t)
    <3>1. CASE m + 1 \in S
      <4>1. /\ Len(s) \in Nat /\ Len(t) = Len(s) + 1
            /\ t[Len(s) + 1] = m + 1
            /\ \A k \in 1..Len(s) : t[k] = s[k]
        BY <2>1, <3>1
      <4>2. ASSUME NEW k \in 1..Len(s) + 1 PROVE t[k] \in S /\ t[k] \in 1..m + 1
        <5>1. k = Len(s) + 1 \/ k \in 1..Len(s)
          BY <4>1
        <5>2. ASSUME k \in 1..Len(s) PROVE s[k] \in S /\ s[k] \in 1..m
          BY <2>2, <5>2
        <5>3. CASE k \in 1..Len(s)
          BY <4>1, <5>2, <5>3
        <5>4. CASE k = Len(s) + 1
          BY <3>1, <4>1, <5>4
        <5> QED BY <5>1, <5>3, <5>4
      <4> QED BY <2>2, <4>1, <4>2
    <3>2. CASE m + 1 \notin S
      <4>1. t = s
        BY <2>1, <3>2
      <4>2. ASSUME NEW k \in 1..Len(s) PROVE s[k] \in S /\ s[k] \in 1..m + 1
        BY <2>2
      <4> QED BY <2>1, <2>2, <4>1, <4>2
    <3> QED BY <3>1, <3>2
  <2> QED BY <2>3 DEF T, t
<1> HIDE DEF T
<1>3. n \in T
  BY <1>1, <1>2, Induction
<1> QED BY <1>3 DEF T

\* Of all positions it is the identity.
LEMMA InOrderOfAll ==
  ASSUME NEW S, NEW n \in Nat, \A i \in 1..n : i \in S
  PROVE  InOrder(S, n) = [k \in 1..n |-> k]
<1> DEFINE T == {m \in Nat : m <= n => InOrder(S, m) = [k \in 1..m |-> k]}
<1>1. 0 \in T
  <2>1. [k \in 1..0 |-> k] = << >>
    OBVIOUS
  <2> QED BY <2>1, InOrderZero
<1>2. ASSUME NEW m \in Nat, m \in T PROVE m + 1 \in T
  <2> SUFFICES ASSUME m + 1 <= n PROVE InOrder(S, m + 1) = [k \in 1..m + 1 |-> k]
    OBVIOUS
  <2>1. InOrder(S, m) = [k \in 1..m |-> k]
    BY <1>2
  <2>2. m + 1 \in S
    OBVIOUS
  <2>3. InOrder(S, m + 1) = Append(InOrder(S, m), m + 1)
    BY <2>2, InOrderStep
  <2> HIDE DEF T
  <2>4. Append([k \in 1..m |-> k], m + 1) = [k \in 1..m + 1 |-> k]
    OBVIOUS
  <2> QED BY <2>1, <2>3, <2>4
<1> HIDE DEF T
<1>3. n \in T
  BY <1>1, <1>2, Induction
<1> QED BY <1>3 DEF T

\* A stretch without elements of S adds nothing.
LEMMA InOrderSkips ==
  ASSUME NEW S, NEW m \in Nat, NEW n \in Nat, m <= n,
         \A i \in m + 1..n : i \notin S
  PROVE  InOrder(S, n) = InOrder(S, m)
<1> DEFINE T == {k \in Nat : m + k <= n => InOrder(S, m + k) = InOrder(S, m)}
<1>1. 0 \in T
  OBVIOUS
<1>2. ASSUME NEW k \in Nat, k \in T PROVE k + 1 \in T
  <2> SUFFICES ASSUME m + (k + 1) <= n PROVE InOrder(S, m + (k + 1)) = InOrder(S, m)
    OBVIOUS
  <2>1. InOrder(S, m + k) = InOrder(S, m)
    BY <1>2
  <2>2. m + k \in Nat /\ (m + k) + 1 = m + (k + 1) /\ (m + k) + 1 \notin S
    OBVIOUS
  <2>3. InOrder(S, (m + k) + 1) = InOrder(S, m + k)
    BY <2>2, InOrderStep
  <2> QED BY <2>1, <2>2, <2>3
<1> HIDE DEF T
<1>3. n - m \in T
  BY <1>1, <1>2, Induction
<1> QED BY <1>3 DEF T

\* What is listed stays listed.
LEMMA InOrderGrows ==
  ASSUME NEW S, NEW m \in Nat, NEW n \in Nat, m <= n
  PROVE  /\ Len(InOrder(S, m)) <= Len(InOrder(S, n))
         /\ \A k \in 1..Len(InOrder(S, m)) : InOrder(S, n)[k] = InOrder(S, m)[k]
<1> DEFINE a == InOrder(S, m)
           Good(b) == Len(a) <= Len(b) /\ \A k \in 1..Len(a) : b[k] = a[k]
           T == {k \in Nat : Good(InOrder(S, m + k))}
<1>1. 0 \in T
  BY InOrderType
<1>2. ASSUME NEW k \in Nat, k \in T PROVE k + 1 \in T
  <2> DEFINE b == InOrder(S, m + k)
             c == InOrder(S, (m + k) + 1)
  <2>1. m + k \in Nat /\ (m + k) + 1 = m + (k + 1)
    OBVIOUS
  <2>2. a \in Seq(Nat) /\ b \in Seq(Nat) /\ (c = Append(b, (m + k) + 1) \/ c = b)
    BY <2>1, InOrderType, InOrderStep
  <2>3. Good(b)
    BY <1>2
  <2> HIDE DEF a, b, c, T
  <2>4. Len(b) \in Nat /\ Len(c) \in Nat
        /\ Len(b) <= Len(c) /\ \A i \in 1..Len(b) : c[i] = b[i]
    <3>1. CASE c = b
      BY <2>2, <3>1
    <3>2. CASE c = Append(b, (m + k) + 1)
      <4>1. Len(c) = Len(b) + 1 /\ \A i \in 1..Len(b) : c[i] = b[i]
        BY <2>2, <3>2
      <4> QED BY <2>2, <4>1
    <3> QED BY <2>2, <3>1, <3>2
  <2>5. Good(c)
    BY <2>2, <2>3, <2>4
  <2> QED BY <2>1, <2>5 DEF T, c
<1> HIDE DEF T
<1>3. n - m \in T
  BY <1>1, <1>2, Induction
<1>4. m + (n - m) = n
  OBVIOUS
<1>5. Good(InOrder(S, n))
  <2> HIDE DEF a
  <2> QED BY <1>3, <1>4 DEF T
<1> QED BY <1>5

LEMMA MinIsLeast ==
  ASSUME NEW S \in SUBSET Nat, S # {}
  PROVE  Min(S) \in S /\ \A x \in S : Min(S) <= x
BY LeastNumber DEF Min

LEMMA MaxIsGreatest ==
  ASSUME NEW S, NEW n \in Nat, S \subseteq 0..n, S # {}
  PROVE  Max(S) \in S /\ \A x \in S : x <= Max(S)
<1> DEFINE T == {n - x : x \in S}
<1>1. T \in SUBSET Nat /\ T # {}
  <2>1. \A x \in S : n - x \in Nat
    OBVIOUS
  <2>2. PICK x \in S : TRUE
    OBVIOUS
  <2>3. n - x \in T
    BY <2>2
  <2> QED BY <2>1, <2>3
<1>2. PICK m \in T : \A k \in T : m <= k
  BY <1>1, LeastNumber
<1>3. PICK y \in S : m = n - y
  BY <1>2
<1>4. \A x \in S : n - x \in T /\ x \in 0..n
  OBVIOUS
<1>5. ASSUME NEW x \in S PROVE y >= x
  <2> HIDE DEF T
  <2>1. m <= n - x /\ x \in 0..n /\ y \in 0..n
    BY <1>2, <1>4
  <2> QED BY <1>3, <2>1
<1>6. Max(S) \in S /\ \A x \in S : Max(S) >= x
  BY <1>5 DEF Max
<1> QED BY <1>6

-----------------------------------------------------------------------------
\* Decoding yields characters, no more than there are bytes.
LEMMA LossyType ==
  ASSUME NEW bytes \in Seq(Bytes)
  PROVE  from_utf8_lossy(bytes) \in Seq(Chars) /\ Len(from_utf8_lossy(bytes)) <= Len(bytes)
<1> DEFINE First(i) == bytes[i] = "x1" /\ i < Len(bytes) /\ bytes[i + 1] = "x2"
           starts == {i \in 1..Len(bytes) : ~ (i > 1 /\ First(i - 1))}
           at == InOrder(starts, Len(bytes))
           Char(i) == IF First(i) THEN "x" ELSE IF bytes[i] \in {"x1", "x2"} THEN "?" ELSE bytes[i]
<1>1. Len(bytes) \in Nat
  OBVIOUS
<1> HIDE DEF starts
<1>2. at \in Seq(Nat) /\ Len(at) <= Len(bytes) /\ \A k \in 1..Len(at) : at[k] \in 1..Len(bytes)
  BY <1>1, InOrderType, InOrderBounds
<1>3. ASSUME NEW i \in 1..Len(bytes) PROVE Char(i) \in Chars
  <2>1. bytes[i] \in Bytes
    OBVIOUS
  <2> HIDE DEF First
  <2> QED BY <2>1 DEF Bytes, Chars
<1>4. from_utf8_lossy(bytes) = [k \in 1..Len(at) |-> Char(at[k])]
  BY DEF from_utf8_lossy, starts
<1> HIDE DEF Char, at
<1>5. [k \in 1..Len(at) |-> Char(at[k])] \in Seq(Chars)
  BY <1>2, <1>3
<1> QED BY <1>2, <1>4, <1>5

\* Decoding keeps what is ASCII.
LEMMA LossyOfAscii ==
  ASSUME NEW bytes \in Seq(Bytes), \A i \in 1..Len(bytes) : bytes[i] \notin {"x1", "x2"}
  PROVE  from_utf8_lossy(bytes) = bytes
<1> DEFINE First(i) == bytes[i] = "x1" /\ i < Len(bytes) /\ bytes[i + 1] = "x2"
           starts == {i \in 1..Len(bytes) : ~ (i > 1 /\ First(i - 1))}
           at == InOrder(starts, Len(bytes))
           Char(i) == IF First(i) THEN "x" ELSE IF bytes[i] \in {"x1", "x2"} THEN "?" ELSE bytes[i]
<1>1. Len(bytes) \in Nat
  OBVIOUS
<1>2. \A i \in 1..Len(bytes) : i \in starts
  OBVIOUS
<1>3. \A i \in 1..Len(bytes) : Char(i) = bytes[i]
  OBVIOUS
<1>4. from_utf8_lossy(bytes) = [k \in 1..Len(at) |-> Char(at[k])]
  BY DEF from_utf8_lossy
<1> HIDE DEF Char, starts
<1>5. at = [k \in 1..Len(bytes) |-> k]
  BY <1>1, <1>2, InOrderOfAll
<1> HIDE DEF at
<1>6. Len(at) = Len(bytes) /\ \A k \in 1..Len(bytes) : at[k] = k
  BY <1>5
<1>7. from_utf8_lossy(bytes) = [k \in 1..Len(bytes) |-> bytes[k]]
  BY <1>3, <1>4, <1>6
<1> QED BY <1>7

LEMMA TrimEndType ==
  ASSUME NEW V, NEW line \in Seq(V)
  PROVE  TrimEnd(line) \in Seq(V)
<1> DEFINE S == {0} \union {i \in 1..Len(line) : line[i] # "cr"}
<1>1. Len(line) \in Nat /\ S \subseteq 0..Len(line) /\ S # {}
  OBVIOUS
<1>2. Max(S) \in S
  BY <1>1, MaxIsGreatest
<1>3. Max(S) \in 0..Len(line)
  BY <1>1, <1>2
<1>4. TrimEnd(line) = SubSeq(line, 1, Max(S))
  BY DEF TrimEnd
<1> HIDE DEF S
<1> QED BY <1>3, <1>4

\* What parse_sse_line makes of a line, read from its result.
LEMMA ParseKinds ==
  ASSUME NEW line
  PROVE  LET e == parse_sse_line(line)
         IN  /\ e.kind = "Delta" => line[1] \in {"D", "B1"} /\ e.text = Tail(line)
             /\ e.kind = "Usage" => line[1] \in {"U1", "U2"} /\ e.usage = line[1]
             /\ e.kind = "Done" => line = <<"F">>
             /\ e.kind = "Other" => line[1] \notin {"D", "B1", "U1", "U2"} /\ line # <<"F">>
<1>1. CASE line[1] \in {"D", "B1"}
  <2>1. parse_sse_line(line) = [kind |-> "Delta", text |-> Tail(line)]
    BY <1>1, ParseLine
  <2> QED BY <1>1, <2>1
<1>2. CASE line[1] \in {"U1", "U2"}
  <2>1. parse_sse_line(line) = [kind |-> "Usage", usage |-> line[1]]
    BY <1>2, ParseLine
  <2> QED BY <1>2, <2>1
<1>3. CASE line = <<"F">>
  <2>1. parse_sse_line(line) = [kind |-> "Done"]
    BY <1>3, ParseLine
  <2> QED BY <1>3, <2>1
<1>4. CASE line[1] \notin {"D", "B1", "U1", "U2"} /\ line # <<"F">>
  <2>1. parse_sse_line(line) = [kind |-> "Other"]
    BY <1>4, ParseLine
  <2> QED BY <1>4, <2>1
<1> QED BY <1>1, <1>2, <1>3, <1>4

\* LineEnd is the first line feed of the buffer.
LEMMA LineFacts ==
  ASSUME buf \in Seq(Chars), HasLine
  PROVE  /\ LineEnd \in 1..Len(buf)
         /\ buf[LineEnd] = "nl"
         /\ \A i \in 1..LineEnd - 1 : buf[i] # "nl"
         /\ Line \in Seq(Chars)
<1> DEFINE S == {i \in 1..Len(buf) : buf[i] = "nl"}
<1>1. S \in SUBSET Nat /\ S # {}
  BY DEF HasLine
<1>2. LineEnd \in S /\ \A x \in S : LineEnd <= x
  BY <1>1, MinIsLeast DEF LineEnd
<1>3. /\ LineEnd \in 1..Len(buf) /\ buf[LineEnd] = "nl"
      /\ \A i \in 1..LineEnd - 1 : buf[i] # "nl"
  BY <1>2
<1>4. SubSeq(buf, 1, LineEnd - 1) \in Seq(Chars)
  BY <1>3
<1> QED BY <1>3, <1>4, TrimEndType DEF Line

LEMMA SeqOfMore ==
  ASSUME NEW A, NEW B, A \subseteq B, NEW s \in Seq(A)
  PROVE  s \in Seq(B)
OBVIOUS

-----------------------------------------------------------------------------
\* What holds of every response: MemoryIsBounded, and that `total` counts what
\* was sent.
BoundedInv ==
  /\ TypeOK
  /\ ByteLen(buf) <= MaxSseBuffer + 3 * MaxChunk
  /\ pc # "ended" => ByteLen(buf) <= MaxSseBuffer /\ total = ByteLens(chunks)
  /\ pc = "read" => ~ HasLine
  /\ ByteLens(chunks) <= MaxJobOutput

LEMMA BoundedInit == Init => BoundedInv
<1> SUFFICES ASSUME Init PROVE BoundedInv
  OBVIOUS
<1>1. TypeOK
  BY StreamsAssumption DEF Init, TypeOK
<1>2. ByteLen(buf) = 0 /\ ByteLens(chunks) = 0
  BY ByteLenNone, ByteLensNone DEF Init
<1>3. ~ HasLine
  BY DEF Init, HasLine
<1> QED BY <1>1, <1>2, <1>3, SseAssumption DEF BoundedInv, Init

LEMMA ReadChunkBounded == ASSUME BoundedInv, ReadChunk PROVE BoundedInv'
<1>1. PICK n \in 1..MaxChunk :
        /\ arrived + n <= Len(stream)
        /\ arrived' = arrived + n
        /\ buf' = buf \o from_utf8_lossy(SubSeq(stream, arrived + 1, arrived + n))
  BY DEF ReadChunk
<1> DEFINE bytes == SubSeq(stream, arrived + 1, arrived + n)
           text == from_utf8_lossy(bytes)
<1>2. /\ stream \in Seq(Bytes) /\ Len(stream) \in Nat
      /\ arrived \in Nat /\ n \in Nat /\ n > 0 /\ arrived + n <= Len(stream)
  <2>1. stream \in Seq(Bytes) /\ arrived \in 0..Len(stream)
    BY DEF BoundedInv, TypeOK
  <2>2. Len(stream) \in Nat
    BY <2>1
  <2> QED BY <1>1, <2>1, <2>2, SseAssumption
<1>3. bytes \in Seq(Bytes) /\ Len(bytes) = n
  BY <1>2
<1>4. text \in Seq(Chars) /\ Len(text) <= n /\ Len(text) \in Nat
  <2> HIDE DEF bytes
  <2> QED BY <1>3, LossyType
<1> HIDE DEF bytes, text
<1>5. buf \in Seq(Chars) /\ buf' = buf \o text
  BY <1>1 DEF BoundedInv, TypeOK, bytes, text
<1>6. ByteLen(buf') = ByteLen(buf) + ByteLen(text)
  BY <1>4, <1>5, ByteLenConcat
<1>7. ByteLen(buf) \in Nat /\ ByteLen(text) \in Nat /\ ByteLen(text) <= 3 * Len(text)
  BY <1>4, <1>5, ByteLenType, ByteLenBounds
<1>8. ByteLen(buf) <= MaxSseBuffer
  BY DEF BoundedInv, ReadChunk
<1>9. ByteLen(buf') <= MaxSseBuffer + 3 * MaxChunk /\ ByteLen(buf') \in Nat
  BY <1>1, <1>4, <1>6, <1>7, <1>8, SseAssumption
<1>10. TypeOK'
  <2>1. buf' \in Seq(Chars)
    BY <1>4, <1>5
  <2>2. arrived' \in 0..Len(stream)
    BY <1>1, <1>2
  <2>3. /\ UNCHANGED <<stream, total, usage, chunks>> /\ pc = "read"
        /\ \/ pc' = "drain" /\ UNCHANGED verdict
           \/ pc' = "ended" /\ verdict' = "upstream produced an oversized line"
    BY DEF ReadChunk, End
  <2> QED BY <2>1, <2>2, <2>3 DEF BoundedInv, TypeOK
<1>11. pc' # "read" /\ (pc' # "ended" => ByteLen(buf') <= MaxSseBuffer)
  <2>1. IF ByteLen(buf') > MaxSseBuffer THEN pc' = "ended" ELSE pc' = "drain"
    BY DEF ReadChunk, End
  <2> QED BY <1>9, <2>1, SseAssumption
<1> QED BY <1>9, <1>10, <1>11 DEF BoundedInv, ReadChunk

\* A taken line leaves a shorter buffer.
LEMMA TakeLineBounded ==
  ASSUME BoundedInv, TakeLine
  PROVE  /\ buf' \in Seq(Chars) /\ Line \in Seq(Chars)
         /\ ByteLen(buf') <= MaxSseBuffer
         /\ ByteLen(buf') <= MaxSseBuffer + 3 * MaxChunk
<1>1. buf \in Seq(Chars) /\ HasLine /\ ByteLen(buf) <= MaxSseBuffer
  BY DEF BoundedInv, TypeOK, TakeLine
<1>2. LineEnd \in 1..Len(buf) /\ Line \in Seq(Chars)
  BY <1>1, LineFacts
<1> DEFINE head == SubSeq(buf, 1, LineEnd)
           rest == SubSeq(buf, LineEnd + 1, Len(buf))
<1>3. head \in Seq(Chars) /\ rest \in Seq(Chars) /\ buf = head \o rest /\ buf' = rest
  BY <1>1, <1>2 DEF TakeLine
<1> HIDE DEF head, rest
<1>4. ByteLen(buf) = ByteLen(head) + ByteLen(rest)
  BY <1>3, ByteLenConcat
<1>5. ByteLen(head) \in Nat /\ ByteLen(rest) \in Nat
  BY <1>3, ByteLenType
<1>6. ByteLen(buf') = ByteLen(rest)
  BY <1>3
<1> QED BY <1>1, <1>2, <1>3, <1>4, <1>5, <1>6, SseAssumption

LEMMA DeltaLineBounded == ASSUME BoundedInv, DeltaLine PROVE BoundedInv'
<1> DEFINE e == parse_sse_line(Line)
           text == Tail(Line)
<1>1. /\ buf' \in Seq(Chars) /\ Line \in Seq(Chars)
      /\ ByteLen(buf') <= MaxSseBuffer
      /\ ByteLen(buf') <= MaxSseBuffer + 3 * MaxChunk
  BY TakeLineBounded DEF DeltaLine
<1>2. e.kind = "Delta" /\ e.text = text
  BY ParseKinds DEF DeltaLine
<1> HIDE DEF e
<1>3. /\ Line # << >> /\ text # << >>
      /\ total' = total + ByteLen(text)
      /\ IF total' > MaxJobOutput
         THEN End("job exceeded output size limit") /\ UNCHANGED chunks
         ELSE chunks' = Append(chunks, text) /\ UNCHANGED <<pc, verdict>>
      /\ UNCHANGED <<stream, arrived, usage>>
      /\ pc = "drain"
  BY <1>2 DEF DeltaLine, e, TakeLine
<1>4. Tail(Line) \in Seq(Chars)
  <2>1. Line \in Seq(Chars) /\ Line # << >>
    BY <1>1, <1>3
  <2>2. \A l \in Seq(Chars) : l # << >> => Tail(l) \in Seq(Chars)
    OBVIOUS
  <2> QED BY <2>1, <2>2
<1>5. text \in Seq(Chars) /\ text \in Seq(Chars) \ {<< >>}
  BY <1>3, <1>4
<1> HIDE DEF text
<1>6. chunks \in Seq(Seq(Chars) \ {<< >>}) /\ Seq(Chars) \ {<< >>} \subseteq Seq(Chars)
  BY DEF BoundedInv, TypeOK
<1>7. chunks \in Seq(Seq(Chars))
  BY <1>6, SeqOfMore
<1>8. chunks \in Seq(Seq(Chars)) /\ chunks \in Seq(Seq(Chars) \ {<< >>})
  BY <1>6, <1>7
<1>9. ByteLen(text) \in Nat /\ total = ByteLens(chunks) /\ total \in Nat
  BY <1>3, <1>5, ByteLenType DEF BoundedInv, TypeOK
<1>10. ByteLens(Append(chunks, text)) = ByteLens(chunks) + ByteLen(text)
  BY <1>5, <1>8, ByteLensAppend
<1>11. CASE total' > MaxJobOutput
  <2>1. /\ pc' = "ended" /\ verdict' = "job exceeded output size limit"
        /\ UNCHANGED <<stream, arrived, usage, chunks>>
    BY <1>3, <1>11 DEF End
  <2>2. total' = total + ByteLen(text)
    BY <1>3
  <2>3. total' \in Nat
    BY <1>9, <2>2
  <2> QED BY <1>1, <2>1, <2>3 DEF BoundedInv, TypeOK
<1>12. CASE ~ (total' > MaxJobOutput)
  <2>1. chunks' = Append(chunks, text) /\ UNCHANGED <<pc, verdict>>
    BY <1>3, <1>12
  <2>2. chunks' \in Seq(Seq(Chars) \ {<< >>})
    BY <1>5, <1>8, <2>1
  <2>3. total' = ByteLens(chunks') /\ total' <= MaxJobOutput /\ total' \in Nat
    BY <1>3, <1>9, <1>10, <1>12, <2>1, SseAssumption
  <2> HIDE DEF text
  <2>4. TypeOK'
    BY <1>1, <1>3, <2>1, <2>2, <2>3 DEF BoundedInv, TypeOK
  <2> QED BY <1>1, <1>3, <2>1, <2>3, <2>4 DEF BoundedInv
<1> QED BY <1>11, <1>12

LEMMA BoundedNext == ASSUME BoundedInv, [Next]_vars PROVE BoundedInv'
<1>1. CASE ReadChunk
  BY <1>1, ReadChunkBounded
<1>2. CASE ReadFails
  BY <1>2 DEF BoundedInv, TypeOK, ReadFails, End, HasLine
<1>3. CASE ReadEnds
  BY <1>3 DEF BoundedInv, TypeOK, ReadEnds, End, HasLine
<1>4. CASE SkipLine
  <2>1. pc = "drain" /\ UNCHANGED <<stream, arrived, pc, total, usage, chunks, verdict>>
    BY <1>4 DEF SkipLine, TakeLine
  <2>2. /\ buf' \in Seq(Chars)
        /\ ByteLen(buf') <= MaxSseBuffer
        /\ ByteLen(buf') <= MaxSseBuffer + 3 * MaxChunk
    BY <1>4, TakeLineBounded DEF SkipLine
  <2> QED BY <2>1, <2>2 DEF BoundedInv, TypeOK
<1>5. CASE DeltaLine
  BY <1>5, DeltaLineBounded
<1>6. CASE UsageLine
  <2>1. /\ pc = "drain" /\ UNCHANGED <<stream, arrived, pc, total, chunks, verdict>>
        /\ usage' \in {"U1", "U2"}
    BY <1>6, ParseKinds DEF UsageLine, TakeLine
  <2>2. /\ buf' \in Seq(Chars)
        /\ ByteLen(buf') <= MaxSseBuffer
        /\ ByteLen(buf') <= MaxSseBuffer + 3 * MaxChunk
    BY <1>6, TakeLineBounded DEF UsageLine
  <2> QED BY <2>1, <2>2 DEF BoundedInv, TypeOK
<1>7. CASE DoneLine
  <2>1. /\ pc = "drain" /\ pc' = "ended" /\ verdict' = "done"
        /\ UNCHANGED <<stream, arrived, total, usage, chunks>>
    BY <1>7 DEF DoneLine, TakeLine, End
  <2>2. /\ buf' \in Seq(Chars)
        /\ ByteLen(buf') <= MaxSseBuffer
        /\ ByteLen(buf') <= MaxSseBuffer + 3 * MaxChunk
    BY <1>7, TakeLineBounded DEF DoneLine
  <2> QED BY <2>1, <2>2 DEF BoundedInv, TypeOK
<1>8. CASE NoMoreLines
  BY <1>8 DEF BoundedInv, TypeOK, NoMoreLines, HasLine
<1>9. CASE UNCHANGED vars
  BY <1>9 DEF vars, BoundedInv, TypeOK, HasLine
<1> QED BY <1>1, <1>2, <1>3, <1>4, <1>5, <1>6, <1>7, <1>8, <1>9 DEF Next

-----------------------------------------------------------------------------
\* How much of the response is behind the buffer.
Taken == arrived - Len(buf)

IsAscii(bytes) == \A i \in 1..Len(bytes) : bytes[i] \notin {"x1", "x2"}

\* What the lines of the response that a line feed ends carry, and the usages
\* parse_sse_line finds: those without a content.
LineDeltas == LET text == Response IN DeltasUpTo(text, Len(text))
PlainEnds(text) ==
  {n \in LiveEnds(text) : LineAt(text, n) # << >> /\ LineAt(text, n)[1] \in {"U1", "U2"}}
LastOf(S, text, n) ==
  LET at == InOrder(S, n)
  IN  IF at = << >> THEN NoUsage ELSE LineAt(text, Last(at))[1]
PlainUpTo(text, n) == LastOf(PlainEnds(text), text, n)
PlainUsage == LET text == Response IN PlainUpTo(text, Len(text))

\* The properties in terms of these lines.
ChunksFollow == IsPrefix(chunks, LineDeltas)
DoneIsAll == verdict = "done" => chunks = LineDeltas /\ usage = PlainUsage
AbortsForCause ==
  /\ verdict = "job exceeded output size limit" => ByteLens(LineDeltas) > MaxJobOutput
  /\ verdict = "upstream produced an oversized line" =>
       \E i \in 0..(arrived - Stretch) :
         \A k \in i+1..i+Stretch : stream[k] # "nl"

\* What holds of an ASCII response: the buffer is the part of it that is not
\* taken yet and begins a line, and what was sent and kept is what the taken
\* part carries.
FollowsInv ==
  /\ IsAscii(stream)
  /\ Len(buf) <= arrived
  /\ buf = SubSeq(stream, Taken + 1, arrived)
  /\ Taken = 0 \/ stream[Taken] = "nl"
  /\ pc # "ended" =>
       /\ \A n \in Ends(stream) : n <= Taken => LineAt(stream, n) # <<"F">>
       /\ chunks = DeltasUpTo(stream, Taken)
       /\ usage = PlainUpTo(stream, Taken)
  /\ ChunksFollow
  /\ DoneIsAll
  /\ AbortsForCause

-----------------------------------------------------------------------------
\* The line that ends at n begins behind the line feed before it.
LEMMA LineAtFrom ==
  ASSUME NEW V, NEW text \in Seq(V), NEW n \in 1..Len(text), NEW t \in 0..n - 1,
         t = 0 \/ text[t] = "nl",
         \A i \in t + 1..n - 1 : text[i] # "nl"
  PROVE  LineAt(text, n) = TrimEnd(SubSeq(text, t + 1, n - 1))
<1> DEFINE S == {0} \union {m \in 1..n - 1 : text[m] = "nl"}
<1>1. n \in Nat /\ n - 1 \in Nat /\ t \in Nat
  OBVIOUS
<1>2. S \subseteq 0..n - 1 /\ S # {} /\ t \in S /\ \A m \in S : m <= t
  BY <1>1
<1>3. LineAt(text, n) = TrimEnd(SubSeq(text, Max(S) + 1, n - 1))
  BY DEF LineAt
<1> HIDE DEF S
<1>4. Max(S) \in S /\ \A x \in S : x <= Max(S)
  BY <1>1, <1>2, MaxIsGreatest
<1>5. Max(S) \in 0..n - 1 /\ Max(S) <= t /\ t <= Max(S)
  BY <1>2, <1>4
<1>6. Max(S) = t
  BY <1>1, <1>5
<1> QED BY <1>3, <1>6

LEMMA LineAtType ==
  ASSUME NEW V, NEW text \in Seq(V), NEW n \in 1..Len(text)
  PROVE  LineAt(text, n) \in Seq(V)
<1> DEFINE S == {0} \union {m \in 1..n - 1 : text[m] = "nl"}
<1>1. n \in Nat /\ n - 1 \in Nat /\ S \subseteq 0..n - 1 /\ S # {}
  OBVIOUS
<1>2. LineAt(text, n) = TrimEnd(SubSeq(text, Max(S) + 1, n - 1))
  BY DEF LineAt
<1> HIDE DEF S
<1>3. Max(S) \in 0..n - 1
  BY <1>1, MaxIsGreatest
<1>4. SubSeq(text, Max(S) + 1, n - 1) \in Seq(V)
  BY <1>1, <1>3
<1> QED BY <1>2, <1>4, TrimEndType

LEMMA EndsNest ==
  ASSUME NEW text
  PROVE  /\ DeltaEnds(text) \subseteq LiveEnds(text)
         /\ PlainEnds(text) \subseteq LiveEnds(text)
         /\ UsageEnds(text) \subseteq LiveEnds(text)
         /\ LiveEnds(text) \subseteq Ends(text)
         /\ Ends(text) \subseteq 1..Len(text)
BY DEF DeltaEnds, PlainEnds, UsageEnds, LiveEnds, Ends

LEMMA DeltasType ==
  ASSUME NEW V, NEW text \in Seq(V), NEW n \in Nat
  PROVE  DeltasUpTo(text, n) \in Seq(Seq(V))
<1> DEFINE at == InOrder(DeltaEnds(text), n)
<1>1. at \in Seq(Nat) /\ \A k \in 1..Len(at) : at[k] \in DeltaEnds(text)
  BY InOrderType, InOrderBounds
<1>2. ASSUME NEW m \in DeltaEnds(text) PROVE Tail(LineAt(text, m)) \in Seq(V)
  <2>1. m \in 1..Len(text)
    BY EndsNest
  <2>2. LineAt(text, m) \in Seq(V)
    BY <2>1, LineAtType
  <2>3. Len(LineAt(text, m)) > 1
    BY DEF DeltaEnds
  <2>4. \A l \in Seq(V) : Len(l) > 1 => Tail(l) \in Seq(V)
    OBVIOUS
  <2> QED BY <2>2, <2>3, <2>4
<1>3. DeltasUpTo(text, n) = [k \in 1..Len(at) |-> Tail(LineAt(text, at[k]))]
  BY DEF DeltasUpTo
<1> HIDE DEF at
<1> QED BY <1>1, <1>2, <1>3

\* A delta more, or none.
LEMMA DeltasStep ==
  ASSUME NEW text, NEW n \in Nat
  PROVE  DeltasUpTo(text, n + 1) =
           IF n + 1 \in DeltaEnds(text)
           THEN Append(DeltasUpTo(text, n), Tail(LineAt(text, n + 1)))
           ELSE DeltasUpTo(text, n)
<1> DEFINE at(m) == InOrder(DeltaEnds(text), m)
           Delta(m) == Tail(LineAt(text, m))
<1>1. at(n) \in Seq(Nat) /\ n + 1 \in Nat
  BY InOrderType
<1>2. at(n + 1) = IF n + 1 \in DeltaEnds(text) THEN Append(at(n), n + 1) ELSE at(n)
  BY InOrderStep
<1>3. /\ DeltasUpTo(text, n) = [k \in 1..Len(at(n)) |-> Delta(at(n)[k])]
      /\ DeltasUpTo(text, n + 1) = [k \in 1..Len(at(n + 1)) |-> Delta(at(n + 1)[k])]
  BY DEF DeltasUpTo
<1> HIDE DEF at, Delta
<1>4. ASSUME NEW s \in Seq(Nat)
      PROVE  [k \in 1..Len(Append(s, n + 1)) |-> Delta(Append(s, n + 1)[k])] =
               Append([k \in 1..Len(s) |-> Delta(s[k])], Delta(n + 1))
  OBVIOUS
<1>5. CASE n + 1 \in DeltaEnds(text)
  BY <1>1, <1>2, <1>3, <1>4, <1>5 DEF Delta
<1>6. CASE n + 1 \notin DeltaEnds(text)
  BY <1>2, <1>3, <1>6
<1> QED BY <1>5, <1>6

\* The last line of S, one position further.
LEMMA LastStep ==
  ASSUME NEW S, NEW text, NEW n \in Nat
  PROVE  LastOf(S, text, n + 1) =
           IF n + 1 \in S THEN LineAt(text, n + 1)[1] ELSE LastOf(S, text, n)
<1> DEFINE at(m) == InOrder(S, m)
<1>1. at(n) \in Seq(Nat) /\ n + 1 \in Nat
  BY InOrderType
<1>2. at(n + 1) = IF n + 1 \in S THEN Append(at(n), n + 1) ELSE at(n)
  BY InOrderStep
<1>3. /\ LastOf(S, text, n) =
           IF at(n) = << >> THEN NoUsage ELSE LineAt(text, Last(at(n)))[1]
      /\ LastOf(S, text, n + 1) =
           IF at(n + 1) = << >> THEN NoUsage ELSE LineAt(text, Last(at(n + 1)))[1]
  BY DEF LastOf
<1> HIDE DEF at
<1>4. CASE n + 1 \in S
  <2>1. Append(at(n), n + 1) # << >> /\ Last(Append(at(n), n + 1)) = n + 1
    <3>1. \A s \in Seq(Nat) : /\ Len(Append(s, n + 1)) = Len(s) + 1
                              /\ Append(s, n + 1)[Len(s) + 1] = n + 1
      OBVIOUS
    <3>2. Append(at(n), n + 1) # << >>
      BY <1>1
    <3> QED BY <1>1, <3>1, <3>2 DEF Last
  <2> QED BY <1>2, <1>3, <1>4, <2>1
<1>5. CASE n + 1 \notin S
  BY <1>2, <1>3, <1>5
<1> QED BY <1>4, <1>5

LEMMA UsageStep ==
  ASSUME NEW text, NEW n \in Nat
  PROVE  /\ PlainUpTo(text, n + 1) =
              IF n + 1 \in PlainEnds(text) THEN LineAt(text, n + 1)[1] ELSE PlainUpTo(text, n)
         /\ UsageUpTo(text, n + 1) =
              IF n + 1 \in UsageEnds(text) THEN LineAt(text, n + 1)[1] ELSE UsageUpTo(text, n)
<1>1. \A m : /\ PlainUpTo(text, m) = LastOf(PlainEnds(text), text, m)
             /\ UsageUpTo(text, m) = LastOf(UsageEnds(text), text, m)
  BY DEF PlainUpTo, UsageUpTo, LastOf
<1> QED BY <1>1, LastStep

\* Nothing is added where nothing ends.
LEMMA NothingBetween ==
  ASSUME NEW text, NEW m \in Nat, NEW n \in Nat, m <= n,
         \A i \in m + 1..n : i \notin LiveEnds(text)
  PROVE  DeltasUpTo(text, n) = DeltasUpTo(text, m) /\ PlainUpTo(text, n) = PlainUpTo(text, m)
<1>1. \A i \in m + 1..n : i \notin DeltaEnds(text) /\ i \notin PlainEnds(text)
  BY EndsNest
<1>2. InOrder(DeltaEnds(text), n) = InOrder(DeltaEnds(text), m)
  BY <1>1, InOrderSkips
<1>3. InOrder(PlainEnds(text), n) = InOrder(PlainEnds(text), m)
  BY <1>1, InOrderSkips
<1> QED BY <1>2, <1>3 DEF DeltasUpTo, PlainUpTo, LastOf

LEMMA DeltasGrow ==
  ASSUME NEW text, NEW m \in Nat, NEW n \in Nat, m <= n
  PROVE  IsPrefix(DeltasUpTo(text, m), DeltasUpTo(text, n))
<1> DEFINE a == InOrder(DeltaEnds(text), m)
           b == InOrder(DeltaEnds(text), n)
           Delta(i) == Tail(LineAt(text, i))
<1>1. a \in Seq(Nat) /\ b \in Seq(Nat)
  BY InOrderType
<1>2. Len(a) <= Len(b) /\ \A k \in 1..Len(a) : b[k] = a[k]
  BY InOrderGrows
<1>3. /\ DeltasUpTo(text, m) = [k \in 1..Len(a) |-> Delta(a[k])]
      /\ DeltasUpTo(text, n) = [k \in 1..Len(b) |-> Delta(b[k])]
  BY DEF DeltasUpTo
<1> HIDE DEF a, b, Delta
<1>4. IsPrefix([k \in 1..Len(a) |-> Delta(a[k])], [k \in 1..Len(b) |-> Delta(b[k])])
  BY <1>1, <1>2 DEF IsPrefix
<1> QED BY <1>3, <1>4

-----------------------------------------------------------------------------
\* Decoding is the identity on an ASCII response.
LEMMA MeaningOfAscii ==
  ASSUME stream \in Seq(Bytes), IsAscii(stream)
  PROVE  /\ LineDeltas = DeltasUpTo(stream, Len(stream))
         /\ PlainUsage = PlainUpTo(stream, Len(stream))
<1>1. Response = stream
  BY LossyOfAscii DEF Response, IsAscii
<1> QED BY <1>1 DEF LineDeltas, PlainUsage

LEMMA AsciiIsText ==
  ASSUME stream \in Seq(Bytes), IsAscii(stream)
  PROVE  stream \in Seq(Chars)
<1>1. \A i \in 1..Len(stream) : stream[i] \in Bytes /\ stream[i] \notin {"x1", "x2"}
  BY DEF IsAscii
<1>2. \A i \in 1..Len(stream) : stream[i] \in Chars
  BY <1>1 DEF Chars
<1> QED BY <1>2

LEMMA FollowsInit == ASSUME Init, Streams \subseteq {s \in Seq(Bytes) : IsAscii(s)} PROVE FollowsInv
<1>1. stream \in Seq(Bytes) /\ IsAscii(stream) /\ Len(stream) \in Nat
  BY DEF Init
<1>2. Taken = 0 /\ arrived = 0 /\ buf = << >> /\ Len(buf) = 0
  <2>1. arrived = 0 /\ buf = << >>
    BY DEF Init
  <2>2. arrived = 0 /\ Len(buf) = 0
    BY <2>1
  <2>3. Taken = 0
    BY <2>2 DEF Taken
  <2> QED BY <2>1, <2>2, <2>3
<1>3. buf = SubSeq(stream, Taken + 1, arrived)
  BY <1>1, <1>2
<1>4. InOrder(DeltaEnds(stream), 0) = << >> /\ InOrder(PlainEnds(stream), 0) = << >>
  BY InOrderZero
<1>5. DeltasUpTo(stream, 0) = << >> /\ PlainUpTo(stream, 0) = NoUsage
  BY <1>4 DEF DeltasUpTo, PlainUpTo, LastOf
<1>6. chunks = DeltasUpTo(stream, Taken) /\ usage = PlainUpTo(stream, Taken)
  BY <1>2, <1>5 DEF Init
<1>7. \A n \in Ends(stream) : ~ (n <= Taken)
  BY <1>2 DEF Ends
<1>8. ChunksFollow
  <2>1. IsPrefix(DeltasUpTo(stream, 0), DeltasUpTo(stream, Len(stream)))
    BY <1>1, DeltasGrow
  <2> QED BY <1>1, <1>2, <1>6, <2>1, MeaningOfAscii DEF ChunksFollow
<1>9. DoneIsAll /\ AbortsForCause
  BY DEF Init, DoneIsAll, AbortsForCause
<1> QED BY <1>1, <1>2, <1>3, <1>6, <1>7, <1>8, <1>9 DEF FollowsInv

\* What the steps start from.
LEMMA BeforeStep ==
  ASSUME BoundedInv, FollowsInv
  PROVE  /\ stream \in Seq(Bytes) /\ stream \in Seq(Chars) /\ IsAscii(stream)
         /\ Len(stream) \in Nat /\ arrived \in 0..Len(stream)
         /\ buf \in Seq(Chars) /\ Len(buf) \in Nat /\ Len(buf) = arrived - Taken
         /\ Taken \in 0..arrived
         /\ \A i \in 1..Len(buf) : buf[i] = stream[Taken + i]
         /\ LineDeltas = DeltasUpTo(stream, Len(stream))
         /\ PlainUsage = PlainUpTo(stream, Len(stream))
<1>1. stream \in Seq(Bytes) /\ IsAscii(stream) /\ arrived \in 0..Len(stream) /\ buf \in Seq(Chars)
  BY DEF BoundedInv, TypeOK, FollowsInv
<1>2. Len(stream) \in Nat /\ Len(buf) \in Nat
  BY <1>1
<1>3. Len(buf) <= arrived /\ buf = SubSeq(stream, Taken + 1, arrived)
  BY DEF FollowsInv
<1>4. Taken \in 0..arrived /\ Len(buf) = arrived - Taken
  BY <1>1, <1>2, <1>3 DEF Taken
<1>5. \A i \in 1..Len(buf) : buf[i] = stream[Taken + i]
  <2> DEFINE t == Taken
  <2>1. t \in 0..arrived /\ Len(buf) = arrived - t /\ buf = SubSeq(stream, t + 1, arrived)
    BY <1>3, <1>4
  <2> HIDE DEF t
  <2>2. \A i \in 1..Len(buf) : buf[i] = stream[t + i]
    BY <1>1, <1>2, <2>1
  <2> QED BY <2>2 DEF t
<1> QED BY <1>1, <1>2, <1>4, <1>5, AsciiIsText, MeaningOfAscii

\* A line taken off the buffer is the next line of the response.
LEMMA TakeLineFollows ==
  ASSUME BoundedInv, FollowsInv, TakeLine
  PROVE  /\ Taken' \in Taken + 1..arrived
         /\ Len(buf') <= arrived
         /\ buf' = SubSeq(stream, Taken' + 1, arrived)
         /\ stream[Taken'] = "nl"
         /\ \A i \in Taken + 1..Taken' - 1 : stream[i] # "nl"
         /\ Line = LineAt(stream, Taken')
<1> DEFINE t == Taken
           e == t + LineEnd
<1>1. /\ stream \in Seq(Chars) /\ Len(stream) \in Nat /\ arrived \in 0..Len(stream)
      /\ buf \in Seq(Chars) /\ Len(buf) \in Nat /\ Len(buf) = arrived - t
      /\ t \in 0..arrived
      /\ \A i \in 1..Len(buf) : buf[i] = stream[t + i]
  BY BeforeStep
<1>2. /\ LineEnd \in 1..Len(buf)
      /\ buf[LineEnd] = "nl"
      /\ \A i \in 1..LineEnd - 1 : buf[i] # "nl"
  BY <1>1, LineFacts DEF TakeLine
<1>3. buf = SubSeq(stream, t + 1, arrived) /\ (t = 0 \/ stream[t] = "nl")
  BY DEF FollowsInv
<1>4. buf' = SubSeq(buf, LineEnd + 1, Len(buf)) /\ arrived' = arrived
  BY DEF TakeLine
<1>5. Taken' = arrived - Len(buf')
  BY <1>4 DEF Taken
<1> HIDE DEF t
<1>6. e \in t + 1..arrived
  BY <1>1, <1>2
<1>7. Len(buf') = arrived - e /\ \A i \in 1..Len(buf') : buf'[i] = stream[e + i]
  <2>1. Len(buf') = Len(buf) - LineEnd /\ \A i \in 1..Len(buf') : buf'[i] = buf[LineEnd + i]
    BY <1>1, <1>2, <1>4
  <2>2. ASSUME NEW i \in 1..Len(buf') PROVE buf'[i] = stream[e + i]
    <3>1. LineEnd + i \in 1..Len(buf) /\ t + (LineEnd + i) = e + i
      BY <1>1, <1>2, <2>1
    <3>2. buf'[i] = buf[LineEnd + i]
      BY <2>1
    <3>3. buf[LineEnd + i] = stream[t + (LineEnd + i)]
      BY <1>1, <3>1
    <3> QED BY <3>1, <3>2, <3>3, Zenon
  <2>3. Len(buf') = arrived - e
    BY <1>1, <1>2, <2>1
  <2> QED BY <2>2, <2>3, Zenon
<1>8. Taken' = e
  BY <1>1, <1>5, <1>6, <1>7
<1>9. buf' = SubSeq(stream, e + 1, arrived)
  <2>1. buf' \in Seq(Chars)
    BY <1>1, <1>2, <1>4
  <2> QED BY <1>1, <1>6, <1>7, <2>1
<1>10. stream[e] = "nl"
  BY <1>1, <1>2
<1>11. ASSUME NEW i \in t + 1..e - 1 PROVE stream[i] # "nl"
  <2>1. i - t \in 1..LineEnd - 1 /\ i - t \in 1..Len(buf) /\ t + (i - t) = i
    BY <1>1, <1>2
  <2> QED BY <1>1, <1>2, <2>1
<1>12. Line = LineAt(stream, e)
  <2>1. e \in 1..Len(stream) /\ t \in 0..e - 1
    BY <1>1, <1>6
  <2>2. LineAt(stream, e) = TrimEnd(SubSeq(stream, t + 1, e - 1))
    BY <1>1, <1>3, <1>11, <2>1, LineAtFrom
  <2>3. SubSeq(stream, t + 1, e - 1) = SubSeq(buf, 1, LineEnd - 1)
    BY <1>1, <1>2, <1>6
  <2> QED BY <2>2, <2>3 DEF Line
<1> HIDE DEF e
<1>13. Len(buf') <= arrived
  BY <1>1, <1>6, <1>7
<1> QED BY <1>6, <1>8, <1>9, <1>10, <1>11, <1>12, <1>13 DEF t

\* What the response carries up to the end of the line taken.
LEMMA TakenLineCarries ==
  ASSUME BoundedInv, FollowsInv, TakeLine
  PROVE  /\ Line # <<"F">> =>
              \A n \in Ends(stream) : n <= Taken' => LineAt(stream, n) # <<"F">>
         /\ Line = <<"F">> => \A n \in Taken + 1..Len(stream) : n \notin LiveEnds(stream)
         /\ DeltasUpTo(stream, Taken') =
              IF Line # <<"F">> /\ Len(Line) > 1 /\ Line[1] \in {"D", "B1"}
              THEN Append(chunks, Tail(Line)) ELSE chunks
         /\ PlainUpTo(stream, Taken') =
              IF Line # <<"F">> /\ Line # << >> /\ Line[1] \in {"U1", "U2"}
              THEN Line[1] ELSE usage
<1> DEFINE t == Taken
           e == Taken'
<1>1. /\ Len(stream) \in Nat /\ arrived \in 0..Len(stream)
      /\ t \in 0..arrived
  BY BeforeStep
<1>2. /\ e \in t + 1..arrived
      /\ stream[e] = "nl"
      /\ \A i \in t + 1..e - 1 : stream[i] # "nl"
      /\ Line = LineAt(stream, e)
  BY TakeLineFollows
<1>3. /\ \A n \in Ends(stream) : n <= t => LineAt(stream, n) # <<"F">>
      /\ chunks = DeltasUpTo(stream, t)
      /\ usage = PlainUpTo(stream, t)
  BY DEF FollowsInv, TakeLine
<1> HIDE DEF t, e
<1>4. e \in 1..Len(stream) /\ e \in Ends(stream) /\ e - 1 \in Nat /\ t \in Nat /\ t <= e - 1
  BY <1>1, <1>2 DEF Ends
<1>5. \A n \in Ends(stream) : n <= t \/ n = e \/ n > e
  BY <1>1, <1>2, <1>4 DEF Ends
<1>6. \A n \in t + 1..e - 1 : n \notin LiveEnds(stream)
  BY <1>1, <1>2, <1>4 DEF LiveEnds, Ends
<1>7. DeltasUpTo(stream, e - 1) = chunks /\ PlainUpTo(stream, e - 1) = usage
  BY <1>3, <1>4, <1>6, NothingBetween
<1>8. (e - 1) + 1 = e
  BY <1>4
<1>9. Ends(stream) \subseteq Nat
  BY <1>1 DEF Ends
<1>10. Line # <<"F">> => \A n \in Ends(stream) : n <= e => LineAt(stream, n) # <<"F">>
  BY <1>2, <1>3, <1>4, <1>5, <1>9
<1>11. Line = <<"F">> => \A n \in t + 1..Len(stream) : n \notin LiveEnds(stream)
  <2> SUFFICES ASSUME Line = <<"F">>, NEW n \in t + 1..Len(stream), n \in LiveEnds(stream)
               PROVE  FALSE
    OBVIOUS
  <2>1. n >= e
    BY <1>1, <1>4, <1>6
  <2>2. LineAt(stream, e) # <<"F">>
    BY <1>4, <2>1 DEF LiveEnds
  <2> QED BY <1>2, <2>2
<1>12. e \in LiveEnds(stream) <=> Line # <<"F">>
  BY <1>1, <1>2, <1>4, <1>10, <1>11 DEF LiveEnds
<1>13. /\ e \in DeltaEnds(stream) <=> Line # <<"F">> /\ Len(Line) > 1 /\ Line[1] \in {"D", "B1"}
       /\ e \in PlainEnds(stream) <=> Line # <<"F">> /\ Line # << >> /\ Line[1] \in {"U1", "U2"}
  BY <1>2, <1>12 DEF DeltaEnds, PlainEnds
<1>14. /\ DeltasUpTo(stream, e) =
            IF e \in DeltaEnds(stream) THEN Append(chunks, Tail(Line)) ELSE chunks
       /\ PlainUpTo(stream, e) =
            IF e \in PlainEnds(stream) THEN Line[1] ELSE usage
  BY <1>2, <1>4, <1>7, <1>8, DeltasStep, UsageStep
<1> QED BY <1>10, <1>11, <1>13, <1>14 DEF t, e

\* A turn of the loop that goes on keeps chunks and usage those of the lines
\* taken.
LEMMA LoopFollows ==
  ASSUME BoundedInv, FollowsInv, TakeLine, BoundedInv', pc' = "drain",
         Line # <<"F">>,
         chunks' = DeltasUpTo(stream, Taken'),
         usage' = PlainUpTo(stream, Taken')
  PROVE  FollowsInv'
<1>1. /\ IsAscii(stream) /\ Len(stream) \in Nat /\ arrived \in 0..Len(stream)
      /\ Taken \in 0..arrived
      /\ LineDeltas = DeltasUpTo(stream, Len(stream))
  BY BeforeStep
<1>2. /\ Taken' \in Taken + 1..arrived
      /\ Len(buf') <= arrived
      /\ buf' = SubSeq(stream, Taken' + 1, arrived)
      /\ stream[Taken'] = "nl"
  BY TakeLineFollows
<1>3. UNCHANGED <<stream, arrived>>
  BY DEF TakeLine
<1>4. \A n \in Ends(stream) : n <= Taken' => LineAt(stream, n) # <<"F">>
  BY TakenLineCarries
<1>5. LineDeltas' = LineDeltas
  BY <1>3 DEF LineDeltas, Response
<1>6. Taken' \in Nat /\ Taken' <= Len(stream)
  BY <1>1, <1>2
<1>7. IsPrefix(DeltasUpTo(stream, Taken'), DeltasUpTo(stream, Len(stream)))
  BY <1>1, <1>6, DeltasGrow
<1>8. ChunksFollow'
  BY <1>1, <1>5, <1>7 DEF ChunksFollow
<1>9. verdict' = "none"
  BY DEF BoundedInv, TypeOK
<1>10. DoneIsAll' /\ AbortsForCause'
  BY <1>9 DEF DoneIsAll, AbortsForCause
<1> QED BY <1>1, <1>2, <1>3, <1>4, <1>8, <1>10 DEF FollowsInv

LEMMA SkipLineFollows == ASSUME BoundedInv, FollowsInv, SkipLine, BoundedInv' PROVE FollowsInv'
<1> DEFINE e == parse_sse_line(Line)
<1>1. /\ TakeLine /\ pc' = "drain" /\ UNCHANGED <<usage, chunks>>
      /\ \/ Line = << >>
         \/ /\ Line # << >>
            /\ e.kind = "Other" \/ (e.kind = "Delta" /\ e.text = << >>)
  <2>1. TakeLine /\ UNCHANGED <<pc, usage, chunks>>
    BY DEF SkipLine
  <2>2. pc = "drain"
    BY <2>1 DEF TakeLine
  <2>3. \/ Line = << >>
        \/ /\ Line # << >>
           /\ e.kind = "Other" \/ (e.kind = "Delta" /\ e.text = << >>)
    BY DEF SkipLine
  <2> QED BY <2>1, <2>2, <2>3
<1>2. e.kind = "Delta" => Line[1] \in {"D", "B1"} /\ e.text = Tail(Line)
  BY ParseKinds
<1>3. e.kind = "Other" => Line[1] \notin {"D", "B1", "U1", "U2"} /\ Line # <<"F">>
  BY ParseKinds
<1> HIDE DEF e
<1>4. Line \in Seq(Chars)
  BY <1>1, TakeLineBounded
<1>5. /\ Line # <<"F">>
      /\ ~ (Len(Line) > 1 /\ Line[1] \in {"D", "B1"})
      /\ ~ (Line # << >> /\ Line[1] \in {"U1", "U2"})
  <2>1. CASE Line = << >>
    BY <2>1
  <2>2. CASE Line # << >> /\ e.kind = "Other"
    BY <1>3, <2>2
  <2>3. CASE Line # << >> /\ e.kind = "Delta" /\ e.text = << >>
    <3>1. Line[1] \in {"D", "B1"} /\ Tail(Line) = << >>
      BY <1>2, <2>3
    <3>2. ASSUME NEW l \in Seq(Chars), Tail(l) = << >> PROVE ~ (Len(l) > 1)
      <4> SUFFICES ASSUME l # << >> PROVE ~ (Len(l) > 1)
        OBVIOUS
      <4>1. Len(Tail(l)) = Len(l) - 1 /\ Len(l) \in Nat
        BY HeadTailProperties
      <4>2. Len(Tail(l)) = 0
        BY <3>2, EmptySeq, Zenon
      <4>3. Len(l) - 1 = 0
        BY <4>1, <4>2, Zenon
      <4>4. Len(l) \in Nat
        OBVIOUS
      <4>5. Len(l) = 1
        BY <4>3, <4>4
      <4> QED BY <4>5
    <3>3. Line # <<"F">>
      BY <3>1
    <3> QED BY <1>4, <3>1, <3>2, <3>3
  <2> QED BY <1>1, <2>1, <2>2, <2>3
<1>6. chunks' = DeltasUpTo(stream, Taken') /\ usage' = PlainUpTo(stream, Taken')
  BY <1>1, <1>5, TakenLineCarries
<1> QED BY <1>1, <1>5, <1>6, LoopFollows

LEMMA UsageLineFollows == ASSUME BoundedInv, FollowsInv, UsageLine, BoundedInv' PROVE FollowsInv'
<1> DEFINE e == parse_sse_line(Line)
<1>1. /\ TakeLine /\ pc' = "drain" /\ UNCHANGED chunks
      /\ Line # << >> /\ e.kind = "Usage" /\ usage' = e.usage
  BY DEF UsageLine, TakeLine
<1>2. Line[1] \in {"U1", "U2"} /\ usage' = Line[1]
  BY <1>1, ParseKinds
<1> HIDE DEF e
<1>3. Line # <<"F">> /\ Line[1] \notin {"D", "B1"}
  BY <1>2
<1>4. chunks' = DeltasUpTo(stream, Taken') /\ usage' = PlainUpTo(stream, Taken')
  BY <1>1, <1>2, <1>3, TakenLineCarries
<1> QED BY <1>1, <1>3, <1>4, LoopFollows

LEMMA DeltaLineFollows == ASSUME BoundedInv, FollowsInv, DeltaLine, BoundedInv' PROVE FollowsInv'
<1> DEFINE e == parse_sse_line(Line)
           text == Tail(Line)
           all == DeltasUpTo(stream, Len(stream))
           sent == DeltasUpTo(stream, Taken')
<1>1. /\ TakeLine /\ Line # << >> /\ e.kind = "Delta" /\ e.text # << >>
      /\ UNCHANGED usage
      /\ total' = total + ByteLen(e.text)
      /\ IF total' > MaxJobOutput
         THEN End("job exceeded output size limit") /\ UNCHANGED chunks
         ELSE chunks' = Append(chunks, e.text) /\ UNCHANGED <<pc, verdict>>
  BY DEF DeltaLine
<1>2. e.text = text /\ Line[1] \in {"D", "B1"}
  BY <1>1, ParseKinds
<1> HIDE DEF e
<1>3. Line \in Seq(Chars) /\ Line # <<"F">> /\ Len(Line) > 1 /\ Line[1] \notin {"U1", "U2"}
  <2>1. Line \in Seq(Chars)
    BY <1>1, TakeLineBounded
  <2>2. \A l \in Seq(Chars) : l # << >> /\ Tail(l) # << >> => Len(l) > 1 /\ Tail(l) \in Seq(Chars)
    OBVIOUS
  <2>3. Line # <<"F">>
    BY <1>2
  <2> QED BY <1>1, <1>2, <2>1, <2>2, <2>3
<1>4. text \in Seq(Chars)
  BY <1>3
<1> HIDE DEF text
<1>5. sent = Append(chunks, text) /\ PlainUpTo(stream, Taken') = usage
  BY <1>2, <1>3, <1>1, TakenLineCarries DEF text
<1>6. CASE ~ (total' > MaxJobOutput)
  <2>1. chunks' = sent /\ pc' = "drain" /\ usage' = PlainUpTo(stream, Taken')
    BY <1>1, <1>2, <1>5, <1>6 DEF TakeLine
  <2> QED BY <1>1, <1>3, <2>1, LoopFollows
<1>7. CASE total' > MaxJobOutput
  <2>1. /\ pc' = "ended" /\ verdict' = "job exceeded output size limit"
        /\ UNCHANGED <<stream, arrived, chunks>>
    BY <1>1, <1>7 DEF End, TakeLine
  <2>2. /\ IsAscii(stream) /\ Len(stream) \in Nat /\ arrived \in 0..Len(stream)
        /\ Taken \in 0..arrived /\ stream \in Seq(Chars)
        /\ LineDeltas = all
    BY BeforeStep
  <2>3. /\ Taken' \in Taken + 1..arrived
        /\ Len(buf') <= arrived
        /\ buf' = SubSeq(stream, Taken' + 1, arrived)
        /\ stream[Taken'] = "nl"
    BY <1>1, TakeLineFollows
  <2>4. Taken' \in Nat /\ Taken' <= Len(stream)
    BY <2>2, <2>3
  <2>5. sent \in Seq(Seq(Chars)) /\ all \in Seq(Seq(Chars)) /\ IsPrefix(sent, all)
    BY <2>2, <2>4, DeltasType, DeltasGrow
  <2>6. LineDeltas' = all
    BY <2>1, <2>2 DEF LineDeltas, Response
  <2>7. ChunksFollow
    BY DEF FollowsInv
  <2>8. ChunksFollow'
    BY <2>1, <2>2, <2>6, <2>7 DEF ChunksFollow
  <2>9. ByteLens(all) > MaxJobOutput
    <3>1. chunks \in Seq(Seq(Chars))
      <4>1. chunks \in Seq(Seq(Chars) \ {<< >>}) /\ Seq(Chars) \ {<< >>} \subseteq Seq(Chars)
        BY DEF BoundedInv, TypeOK
      <4> QED BY <4>1, SeqOfMore
    <3>2. ByteLens(sent) = ByteLens(chunks) + ByteLen(text)
      BY <1>4, <1>5, <3>1, ByteLensAppend
    <3>3. total = ByteLens(chunks)
      BY <1>1 DEF BoundedInv, TakeLine
    <3>4. total' = total + ByteLen(text)
      BY <1>1, <1>2
    <3>5. ByteLens(sent) <= ByteLens(all)
      BY <2>5, ByteLensOfPrefix
    <3>6. ByteLens(sent) = total'
      BY <3>2, <3>3, <3>4
    <3>7. ByteLens(sent) \in Nat /\ ByteLens(all) \in Nat
      BY <2>5, ByteLensType
    <3> QED BY <1>7, <3>5, <3>6, <3>7, SseAssumption
  <2>10. DoneIsAll' /\ AbortsForCause'
    BY <2>1, <2>6, <2>9 DEF DoneIsAll, AbortsForCause
  <2> QED BY <2>1, <2>2, <2>3, <2>8, <2>10 DEF FollowsInv
<1> QED BY <1>6, <1>7

\* [DONE] ends the response: nothing behind it counts.
LEMMA DoneLineFollows == ASSUME BoundedInv, FollowsInv, DoneLine, BoundedInv' PROVE FollowsInv'
<1>1. TakeLine /\ Line = <<"F">>
  BY ParseKinds DEF DoneLine
<1>2. /\ pc' = "ended" /\ verdict' = "done"
      /\ UNCHANGED <<stream, arrived, usage, chunks>>
  BY <1>1 DEF DoneLine, End, TakeLine
<1>3. /\ IsAscii(stream) /\ Len(stream) \in Nat /\ arrived \in 0..Len(stream)
      /\ Taken \in 0..arrived
      /\ LineDeltas = DeltasUpTo(stream, Len(stream))
      /\ PlainUsage = PlainUpTo(stream, Len(stream))
  BY BeforeStep
<1>4. /\ Taken' \in Taken + 1..arrived
      /\ Len(buf') <= arrived
      /\ buf' = SubSeq(stream, Taken' + 1, arrived)
      /\ stream[Taken'] = "nl"
  BY <1>1, TakeLineFollows
<1>5. \A n \in Taken + 1..Len(stream) : n \notin LiveEnds(stream)
  BY <1>1, TakenLineCarries
<1>6. chunks = DeltasUpTo(stream, Taken) /\ usage = PlainUpTo(stream, Taken)
  BY <1>1 DEF FollowsInv, TakeLine
<1>7. Taken \in Nat /\ Taken <= Len(stream)
  BY <1>3
<1>8. chunks = LineDeltas /\ usage = PlainUsage
  BY <1>3, <1>5, <1>6, <1>7, NothingBetween
<1>9. LineDeltas' = LineDeltas /\ PlainUsage' = PlainUsage
  BY <1>2 DEF LineDeltas, PlainUsage, Response
<1>10. ChunksFollow'
  <2>1. ChunksFollow
    BY DEF FollowsInv
  <2> QED BY <1>2, <1>9, <2>1 DEF ChunksFollow
<1>11. DoneIsAll' /\ AbortsForCause'
  BY <1>2, <1>8, <1>9 DEF DoneIsAll, AbortsForCause
<1> QED BY <1>2, <1>3, <1>4, <1>10, <1>11 DEF FollowsInv

\* The end of the body: what is left in the buffer is no line.
LEMMA ReadEndsFollows == ASSUME BoundedInv, FollowsInv, ReadEnds PROVE FollowsInv'
<1>1. /\ pc = "read" /\ arrived = Len(stream) /\ pc' = "ended" /\ verdict' = "done"
      /\ UNCHANGED <<stream, arrived, buf, usage, chunks>>
  BY DEF ReadEnds, End
<1> DEFINE t == Taken
<1>2. /\ Len(stream) \in Nat /\ t \in 0..arrived
      /\ Len(buf) \in Nat /\ Len(buf) = arrived - t
      /\ \A i \in 1..Len(buf) : buf[i] = stream[t + i]
      /\ LineDeltas = DeltasUpTo(stream, Len(stream))
      /\ PlainUsage = PlainUpTo(stream, Len(stream))
  BY BeforeStep
<1>3. chunks = DeltasUpTo(stream, t) /\ usage = PlainUpTo(stream, t)
  BY <1>1 DEF FollowsInv
<1>4. \A i \in 1..Len(buf) : buf[i] # "nl"
  BY <1>1 DEF BoundedInv, HasLine
<1> HIDE DEF t
<1>5. ASSUME NEW n \in t + 1..Len(stream) PROVE n \notin LiveEnds(stream)
  <2>1. n - t \in 1..Len(buf) /\ t + (n - t) = n
    BY <1>1, <1>2
  <2>2. stream[n] # "nl"
    BY <1>2, <1>4, <2>1
  <2> QED BY <2>2 DEF LiveEnds, Ends
<1>6. t \in Nat /\ t <= Len(stream)
  BY <1>1, <1>2
<1>7. chunks = LineDeltas /\ usage = PlainUsage
  BY <1>2, <1>3, <1>5, <1>6, NothingBetween
<1>8. LineDeltas' = LineDeltas /\ PlainUsage' = PlainUsage
  BY <1>1 DEF LineDeltas, PlainUsage, Response
<1>9. ChunksFollow'
  BY <1>1, <1>8 DEF FollowsInv, ChunksFollow
<1>10. DoneIsAll' /\ AbortsForCause'
  BY <1>1, <1>7, <1>8 DEF DoneIsAll, AbortsForCause
<1> QED BY <1>1, <1>9, <1>10 DEF FollowsInv, Taken

LEMMA SubSeqsJoin ==
  ASSUME NEW V, NEW s \in Seq(V), NEW i \in Nat, NEW m \in Nat, NEW n \in Nat,
         i <= m, m <= n, n <= Len(s)
  PROVE  SubSeq(s, i + 1, m) \o SubSeq(s, m + 1, n) = SubSeq(s, i + 1, n)
OBVIOUS

LEMMA SubSeqParts ==
  ASSUME NEW V, NEW s \in Seq(V), NEW i \in Nat, NEW n \in Nat, i <= n, n <= Len(s)
  PROVE  /\ SubSeq(s, i + 1, n) \in Seq(V) /\ Len(SubSeq(s, i + 1, n)) = n - i
         /\ \A k \in 1..n - i : /\ i + k \in 1..Len(s)
                                /\ SubSeq(s, i + 1, n)[k] = s[i + k]
<1>1. SubSeq(s, i + 1, n) \in Seq(V) /\ Len(SubSeq(s, i + 1, n)) = n - i
  OBVIOUS
<1>2. ASSUME NEW k \in 1..n - i PROVE i + k \in 1..Len(s)
  OBVIOUS
<1>3. ASSUME NEW k \in 1..n - i PROVE SubSeq(s, i + 1, n)[k] = s[i + k]
  OBVIOUS
<1> QED BY <1>1, <1>2, <1>3, Zenon

\* A chunk of an ASCII response arrives as it is.
LEMMA ReadChunkFollows == ASSUME BoundedInv, FollowsInv, ReadChunk, BoundedInv' PROVE FollowsInv'
<1>1. PICK n \in 1..MaxChunk :
        /\ arrived + n <= Len(stream)
        /\ arrived' = arrived + n
        /\ buf' = buf \o from_utf8_lossy(SubSeq(stream, arrived + 1, arrived + n))
  BY DEF ReadChunk
<1> DEFINE t == Taken
           bytes == SubSeq(stream, arrived + 1, arrived + n)
<1>2. /\ stream \in Seq(Bytes) /\ stream \in Seq(Chars) /\ IsAscii(stream)
      /\ Len(stream) \in Nat /\ arrived \in 0..Len(stream)
      /\ buf \in Seq(Chars) /\ Len(buf) \in Nat /\ Len(buf) = arrived - t
      /\ t \in 0..arrived
      /\ \A i \in 1..Len(buf) : buf[i] = stream[t + i]
      /\ LineDeltas = DeltasUpTo(stream, Len(stream))
  BY BeforeStep
<1>3. /\ pc = "read" /\ UNCHANGED <<stream, usage, chunks>>
      /\ \/ ByteLen(buf') > MaxSseBuffer /\ pc' = "ended"
            /\ verdict' = "upstream produced an oversized line"
         \/ pc' = "drain" /\ UNCHANGED verdict
  BY DEF ReadChunk, End
<1>4. /\ t = 0 \/ stream[t] = "nl"
      /\ buf = SubSeq(stream, t + 1, arrived)
      /\ \A m \in Ends(stream) : m <= t => LineAt(stream, m) # <<"F">>
      /\ chunks = DeltasUpTo(stream, t)
      /\ usage = PlainUpTo(stream, t)
      /\ ChunksFollow
  BY <1>3 DEF FollowsInv
<1> HIDE DEF t
<1>5. n \in Nat /\ n > 0 /\ n <= MaxChunk /\ MaxChunk \in Nat /\ MaxSseBuffer \in Nat
  BY SseAssumption
<1>6. bytes \in Seq(Bytes) /\ Len(bytes) = n /\ \A i \in 1..n : bytes[i] = stream[arrived + i]
  BY <1>1, <1>2, <1>5
<1>7. from_utf8_lossy(bytes) = bytes
  <2>1. ASSUME NEW i \in 1..Len(bytes) PROVE bytes[i] \notin {"x1", "x2"}
    <3>1. arrived + i \in 1..Len(stream) /\ bytes[i] = stream[arrived + i]
      BY <1>1, <1>2, <1>5, <1>6
    <3> QED BY <1>2, <3>1 DEF IsAscii
  <2> HIDE DEF bytes
  <2> QED BY <1>6, <2>1, LossyOfAscii
<1>8. buf' = SubSeq(stream, t + 1, arrived') /\ Len(buf') = arrived' - t /\ t <= arrived'
  <2>1. buf' = buf \o bytes
    BY <1>1, <1>7
  <2>2. arrived' \in Nat /\ arrived' <= Len(stream) /\ t \in Nat /\ t <= arrived
        /\ arrived \in Nat /\ arrived <= arrived'
    BY <1>1, <1>2, <1>5
  <2>3. buf' = SubSeq(stream, t + 1, arrived')
    <3>1. bytes = SubSeq(stream, arrived + 1, arrived')
      BY <1>1
    <3> HIDE DEF bytes
    <3>2. stream \in Seq(Chars)
      BY <1>2
    <3>3. SubSeq(stream, t + 1, arrived) \o SubSeq(stream, arrived + 1, arrived')
            = SubSeq(stream, t + 1, arrived')
      BY <2>2, <3>2, SubSeqsJoin
    <3> QED BY <1>4, <2>1, <3>1, <3>3, Zenon
  <2>4. Len(SubSeq(stream, t + 1, arrived')) = arrived' - t
    <3>1. stream \in Seq(Chars) /\ t <= arrived'
      BY <1>2, <2>2
    <3> QED BY <2>2, <3>1, SubSeqParts
  <2>5. t <= arrived'
    BY <2>2
  <2> QED BY <2>3, <2>4, <2>5, Zenon
<1>9. Taken' = t /\ Len(buf') <= arrived'
  BY <1>1, <1>2, <1>5, <1>8 DEF Taken
<1>10. LineDeltas' = LineDeltas
  BY <1>3 DEF LineDeltas, Response
<1>11. ChunksFollow'
  BY <1>3, <1>4, <1>10 DEF ChunksFollow
<1>12. DoneIsAll' /\ AbortsForCause'
  <2>1. CASE pc' = "drain" /\ UNCHANGED verdict
    <3>1. verdict' = "none"
      BY <2>1 DEF BoundedInv, TypeOK
    <3> QED BY <3>1 DEF DoneIsAll, AbortsForCause
  <2>2. CASE ByteLen(buf') > MaxSseBuffer /\ verdict' = "upstream produced an oversized line"
    <3>1. buf' \in Seq(Chars \ {"x", "?"})
      <4>1. buf' \in Seq(Chars)
        BY DEF BoundedInv, TypeOK
      <4>2. ASSUME NEW i \in 1..Len(buf') PROVE buf'[i] \in Chars \ {"x", "?"}
        <5>1. t + i \in 1..Len(stream) /\ buf'[i] = stream[t + i]
          <6>1. /\ arrived' \in Nat /\ arrived' <= Len(stream) /\ t \in Nat
                /\ t <= arrived' /\ i \in 1..arrived' - t
            BY <1>1, <1>2, <1>5, <1>8
          <6>2. t + i \in 1..Len(stream) /\ SubSeq(stream, t + 1, arrived')[i] = stream[t + i]
            <7>1. stream \in Seq(Chars)
              BY <1>2
            <7>2. \A k \in 1..arrived' - t : /\ t + k \in 1..Len(stream)
                                            /\ SubSeq(stream, t + 1, arrived')[k] = stream[t + k]
              BY <6>1, <7>1, SubSeqParts, Zenon
            <7> QED BY <6>1, <7>2, Zenon
          <6> QED BY <1>8, <6>2, Zenon
        <5>2. stream[t + i] \in Bytes
          BY <1>2, <5>1
        <5>3. stream[t + i] \notin {"x", "?"}
          BY <5>2 DEF Bytes
        <5>4. buf'[i] \in Chars
          BY <4>1
        <5> QED BY <5>1, <5>3, <5>4
      <4> QED BY <4>1, <4>2
    <3>2. ByteLen(buf') = Len(buf')
      BY <3>1, ByteLenOfAscii
    <3>3. arrived' - t > MaxSseBuffer
      BY <1>8, <2>2, <3>2
    <3>4. t \in 0..(arrived' - Stretch)
      BY <1>1, <1>2, <1>5, <3>3 DEF Stretch
    <3>5. ASSUME NEW k \in t + 1..t + Stretch PROVE stream[k] # "nl"
      <4>1. k - t \in 1..Len(buf) /\ t + (k - t) = k
        BY <1>1, <1>2, <1>5, <3>3 DEF Stretch
      <4>2. \A i \in 1..Len(buf) : buf[i] # "nl"
        BY <1>3 DEF BoundedInv, HasLine
      <4> QED BY <1>2, <4>1, <4>2
    <3>6. \E i \in 0..(arrived' - Stretch) : \A k \in i + 1..i + Stretch : stream'[k] # "nl"
      BY <1>3, <3>4, <3>5
    <3> QED BY <2>2, <3>6 DEF DoneIsAll, AbortsForCause, Stretch
  <2> QED BY <1>3, <2>1, <2>2
<1> QED BY <1>2, <1>3, <1>4, <1>8, <1>9, <1>11, <1>12 DEF FollowsInv

LEMMA FollowsNext ==
  ASSUME BoundedInv, FollowsInv, [Next]_vars
  PROVE  FollowsInv'
<1>1. BoundedInv'
  BY BoundedNext
<1>2. CASE ReadChunk
  BY <1>1, <1>2, ReadChunkFollows
<1>3. CASE ReadFails
  <2>1. /\ verdict' = "upstream stream error" /\ pc' = "ended"
        /\ UNCHANGED <<stream, arrived, buf, usage, chunks>>
    BY <1>3 DEF ReadFails, End
  <2>2. LineDeltas' = LineDeltas
    BY <2>1 DEF LineDeltas, Response
  <2>3. ChunksFollow' /\ DoneIsAll' /\ AbortsForCause'
    BY <2>1, <2>2 DEF FollowsInv, ChunksFollow, DoneIsAll, AbortsForCause
  <2> QED BY <2>1, <2>3 DEF FollowsInv, Taken
<1>4. CASE ReadEnds
  BY <1>4, ReadEndsFollows
<1>5. CASE SkipLine
  BY <1>1, <1>5, SkipLineFollows
<1>6. CASE DeltaLine
  BY <1>1, <1>6, DeltaLineFollows
<1>7. CASE UsageLine
  BY <1>1, <1>7, UsageLineFollows
<1>8. CASE DoneLine
  BY <1>1, <1>8, DoneLineFollows
<1>9. ASSUME UNCHANGED <<stream, arrived, buf, total, usage, chunks, verdict>>,
             pc' # "ended" => pc # "ended"
      PROVE  FollowsInv'
  <2>1. LineDeltas' = LineDeltas /\ PlainUsage' = PlainUsage
    BY <1>9 DEF LineDeltas, PlainUsage, Response
  <2>2. ChunksFollow' /\ DoneIsAll' /\ AbortsForCause'
    BY <1>9, <2>1 DEF FollowsInv, ChunksFollow, DoneIsAll, AbortsForCause
  <2> QED BY <1>9, <2>2 DEF FollowsInv, Taken
<1>10. CASE NoMoreLines
  <2>1. /\ UNCHANGED <<stream, arrived, buf, total, usage, chunks, verdict>>
        /\ pc # "ended"
    BY <1>10 DEF NoMoreLines
  <2> QED BY <1>9, <2>1
<1>11. CASE UNCHANGED vars
  <2>1. UNCHANGED <<stream, arrived, buf, total, usage, chunks, verdict, pc>>
    BY <1>11 DEF vars
  <2> QED BY <1>9, <2>1
<1> QED BY <1>2, <1>3, <1>4, <1>5, <1>6, <1>7, <1>8, <1>10, <1>11 DEF Next

-----------------------------------------------------------------------------
\* From the lines a line feed ends to all the lines of the response.
LEMMA PlainIsLast ==
  ASSUME NEW text, NEW n \in Nat, UsageUpTo(text, n) # "B1"
  PROVE  PlainUpTo(text, n) = UsageUpTo(text, n)
<1> DEFINE T == {m \in Nat : UsageUpTo(text, m) # "B1" => PlainUpTo(text, m) = UsageUpTo(text, m)}
<1>1. 0 \in T
  BY InOrderZero DEF PlainUpTo, LastOf, UsageUpTo
<1>2. ASSUME NEW m \in Nat, m \in T PROVE m + 1 \in T
  <2>1. UsageUpTo(text, m) # "B1" => PlainUpTo(text, m) = UsageUpTo(text, m)
    BY <1>2
  <2>2. /\ m + 1 \in PlainEnds(text) => m + 1 \in UsageEnds(text)
        /\ m + 1 \in UsageEnds(text) /\ LineAt(text, m + 1)[1] # "B1" => m + 1 \in PlainEnds(text)
    BY DEF PlainEnds, UsageEnds
  <2>3. UsageUpTo(text, m + 1) # "B1" => PlainUpTo(text, m + 1) = UsageUpTo(text, m + 1)
    BY <2>1, <2>2, UsageStep
  <2> QED BY <2>3
<1> HIDE DEF T
<1>3. n \in T
  BY <1>1, <1>2, Induction
<1> QED BY <1>3 DEF T

\* Closing the last line leaves the lines before it as they are.
LEMMA ClosedLines ==
  ASSUME NEW V, NEW text \in Seq(V), "nl" \in V, ~ Finished(text)
  PROVE  LET all == Closed(text)
         IN  /\ all \in Seq(V) /\ Len(all) = Len(text) + 1
             /\ \A m \in 1..Len(text) : LineAt(all, m) = LineAt(text, m)
             /\ \A m \in 1..Len(text) : m \in Ends(all) <=> m \in Ends(text)
<1> DEFINE all == Append(text, "nl")
<1>1. Closed(text) = all
  BY DEF Closed
<1>2. /\ all \in Seq(V) /\ Len(all) = Len(text) + 1 /\ Len(text) \in Nat
      /\ \A m \in 1..Len(text) : all[m] = text[m]
  OBVIOUS
<1> HIDE DEF all
<1>3. ASSUME NEW m \in 1..Len(text) PROVE LineAt(all, m) = LineAt(text, m)
  <2> DEFINE S == {0} \union {k \in 1..m - 1 : text[k] = "nl"}
  <2>1. {0} \union {k \in 1..m - 1 : all[k] = "nl"} = S
    <3>1. \A k \in 1..m - 1 : all[k] = text[k]
      BY <1>2
    <3>2. {k \in 1..m - 1 : all[k] = "nl"} = {k \in 1..m - 1 : text[k] = "nl"}
      BY <3>1
    <3> QED BY <3>2
  <2>2. m - 1 \in Nat /\ S \subseteq 0..m - 1 /\ S # {}
    BY <1>2
  <2>3. /\ LineAt(all, m) = TrimEnd(SubSeq(all, Max(S) + 1, m - 1))
        /\ LineAt(text, m) = TrimEnd(SubSeq(text, Max(S) + 1, m - 1))
    BY <2>1 DEF LineAt
  <2> HIDE DEF S
  <2>4. PICK f \in 0..m - 1 : f = Max(S)
    <3>1. Max(S) \in S
      BY <2>2, MaxIsGreatest
    <3> QED BY <2>2, <3>1
  <2>5. SubSeq(all, f + 1, m - 1) = SubSeq(text, f + 1, m - 1)
    <3>1. m - 1 \in Nat /\ f \in Nat /\ f <= m - 1 /\ m - 1 <= Len(text) /\ m - 1 <= Len(all)
      BY <1>2
    <3>2. /\ SubSeq(all, f + 1, m - 1) \in Seq(V) /\ Len(SubSeq(all, f + 1, m - 1)) = m - 1 - f
          /\ \A k \in 1..m - 1 - f : SubSeq(all, f + 1, m - 1)[k] = all[f + k]
      BY <1>2, <3>1, SubSeqParts
    <3>3. /\ SubSeq(text, f + 1, m - 1) \in Seq(V) /\ Len(SubSeq(text, f + 1, m - 1)) = m - 1 - f
          /\ \A k \in 1..m - 1 - f : SubSeq(text, f + 1, m - 1)[k] = text[f + k]
      BY <1>2, <3>1, SubSeqParts
    <3>4. \A k \in 1..m - 1 - f : f + k \in 1..Len(text)
      BY <3>1
    <3>5. \A k \in 1..m - 1 - f : SubSeq(all, f + 1, m - 1)[k] = SubSeq(text, f + 1, m - 1)[k]
      BY <1>2, <3>2, <3>3, <3>4
    <3> QED BY <3>2, <3>3, <3>5, SeqEqual
  <2> QED BY <2>3, <2>4, <2>5
<1>4. \A m \in 1..Len(text) : m \in Ends(all) <=> m \in Ends(text)
  BY <1>2 DEF Ends
<1> QED BY <1>1, <1>2, <1>3, <1>4

LEMMA ClosedCarries ==
  ASSUME NEW V, NEW text \in Seq(V), "nl" \in V, ~ Finished(text)
  PROVE  LET all == Closed(text)
         IN  /\ Len(all) = Len(text) + 1 /\ Len(text) \in Nat
             /\ DeltasUpTo(all, Len(text)) = DeltasUpTo(text, Len(text))
             /\ UsageUpTo(all, Len(text)) = UsageUpTo(text, Len(text))
             /\ (\E m \in Ends(text) : LineAt(text, m) = <<"F">>)
                   => Len(text) + 1 \notin LiveEnds(all)
<1> DEFINE all == Closed(text)
           n == Len(text)
<1>1. /\ Len(all) = n + 1 /\ n \in Nat
      /\ \A m \in 1..n : LineAt(all, m) = LineAt(text, m)
      /\ \A m \in 1..n : m \in Ends(all) <=> m \in Ends(text)
  BY ClosedLines
<1>2. Ends(text) \subseteq 1..n /\ Ends(all) \subseteq 1..n + 1
  BY <1>1 DEF Ends
<1> HIDE DEF all, n
<1>3. ASSUME NEW m \in 1..n PROVE m \in LiveEnds(all) <=> m \in LiveEnds(text)
  <2>1. \A k \in Ends(all) : k <= m => k \in Ends(text) /\ LineAt(all, k) = LineAt(text, k)
    BY <1>1, <1>2
  <2>2. \A k \in Ends(text) : k \in Ends(all) /\ LineAt(all, k) = LineAt(text, k)
    BY <1>1, <1>2
  <2> QED BY <1>1, <2>1, <2>2 DEF LiveEnds
<1>4. \A m \in 1..n : /\ m \in DeltaEnds(all) <=> m \in DeltaEnds(text)
                      /\ m \in UsageEnds(all) <=> m \in UsageEnds(text)
  BY <1>1, <1>3 DEF DeltaEnds, UsageEnds
<1> DEFINE Same(m) == /\ DeltasUpTo(all, m) = DeltasUpTo(text, m)
                      /\ UsageUpTo(all, m) = UsageUpTo(text, m)
           T == {m \in Nat : m <= n => Same(m)}
<1>5. 0 \in T
  BY InOrderZero DEF DeltasUpTo, UsageUpTo
<1>6. ASSUME NEW m \in Nat, m \in T PROVE m + 1 \in T
  <2> SUFFICES ASSUME m + 1 <= n PROVE Same(m + 1)
    OBVIOUS
  <2>1. Same(m)
    BY <1>1, <1>6
  <2>2. m + 1 \in 1..n
    BY <1>1
  <2> QED BY <1>1, <1>4, <2>1, <2>2, DeltasStep, UsageStep
<1> HIDE DEF T
<1>7. n \in T
  BY <1>1, <1>5, <1>6, Induction
<1>8. Same(n)
  BY <1>1, <1>7 DEF T
<1>9. (\E m \in Ends(text) : LineAt(text, m) = <<"F">>) => n + 1 \notin LiveEnds(all)
  <2> SUFFICES ASSUME NEW m \in Ends(text), LineAt(text, m) = <<"F">>, n + 1 \in LiveEnds(all)
               PROVE  FALSE
    OBVIOUS
  <2>1. m \in 1..n /\ m \in Ends(all) /\ LineAt(all, m) = <<"F">>
    BY <1>1, <1>2
  <2>2. m <= n + 1
    BY <1>1, <2>1
  <2> QED BY <2>1, <2>2 DEF LiveEnds
<1> QED BY <1>1, <1>8, <1>9 DEF all, n

LEMMA PrefixOfPrefix ==
  ASSUME NEW V, NEW a \in Seq(V), NEW b \in Seq(V), NEW c \in Seq(V),
         IsPrefix(a, b), IsPrefix(b, c)
  PROVE  IsPrefix(a, c)
BY DEF IsPrefix

\* What is proved of the lines a line feed ends gives the properties.
LEMMA FollowsGives ==
  ASSUME BoundedInv, FollowsInv
  PROVE  ChunksFollowTheResponse /\ DoneIsComplete /\ NoSpuriousAbort
<1> DEFINE text == stream
           n == Len(stream)
<1>1. /\ text \in Seq(Chars) /\ Response = text /\ n \in Nat
      /\ LineDeltas = DeltasUpTo(text, n) /\ PlainUsage = PlainUpTo(text, n)
  <2>1. stream \in Seq(Bytes) /\ stream \in Seq(Chars) /\ IsAscii(stream) /\ Len(stream) \in Nat
    BY BeforeStep
  <2>2. Response = stream
    BY <2>1, LossyOfAscii DEF Response, IsAscii
  <2> QED BY <2>1, <2>2 DEF LineDeltas, PlainUsage
<1>2. ChunksFollow /\ DoneIsAll /\ AbortsForCause
  BY DEF FollowsInv
<1>3. LineDeltas \in Seq(Seq(Chars))
  BY <1>1, DeltasType
<1>4. Deltas = DeltasUpTo(Closed(text), Len(Closed(text))) /\ LastUsage = UsageUpTo(Closed(text), Len(Closed(text)))
  BY <1>1 DEF Deltas, LastUsage
<1>5. HasDone <=> \E m \in Ends(text) : LineAt(text, m) = <<"F">>
  BY <1>1 DEF HasDone
<1> HIDE DEF text
<1>6. CASE Finished(text)
  <2>1. Closed(text) = text
    BY <1>6 DEF Closed
  <2>2. Deltas = LineDeltas /\ LastUsage = UsageUpTo(text, n)
    BY <1>1, <1>4, <2>1 DEF text
  <2>3. LastUsage # "B1" => PlainUsage = LastUsage
    BY <1>1, <2>2, PlainIsLast
  <2>4. Len(Deltas) <= Len(Deltas) + 1
    BY <1>3, <2>2
  <2>5. DoneIsComplete
    BY <1>2, <2>2, <2>3, <2>4 DEF DoneIsComplete, DoneIsAll
  <2> QED BY <1>2, <2>2, <2>5
        DEF ChunksFollowTheResponse, ChunksFollow, NoSpuriousAbort, AbortsForCause
<1>7. CASE ~ Finished(text)
  <2>1. /\ Len(Closed(text)) = n + 1
        /\ DeltasUpTo(Closed(text), n) = LineDeltas
        /\ UsageUpTo(Closed(text), n) = UsageUpTo(text, n)
        /\ HasDone => n + 1 \notin LiveEnds(Closed(text))
    <3>1. "nl" \in Chars
      BY DEF Chars, Bytes
    <3> QED BY <1>1, <1>5, <1>7, <3>1, ClosedCarries DEF text
  <2>2. /\ Deltas = IF n + 1 \in DeltaEnds(Closed(text))
                    THEN Append(LineDeltas, Tail(LineAt(Closed(text), n + 1))) ELSE LineDeltas
        /\ LastUsage = IF n + 1 \in UsageEnds(Closed(text))
                       THEN LineAt(Closed(text), n + 1)[1] ELSE UsageUpTo(text, n)
    BY <1>1, <1>4, <2>1, DeltasStep, UsageStep
  <2>3. HasDone => Deltas = LineDeltas /\ LastUsage = UsageUpTo(text, n)
    BY <2>1, <2>2, EndsNest
  <2>4. HasDone => (LastUsage # "B1" => PlainUsage = LastUsage)
    BY <1>1, <2>3, PlainIsLast
  <2>5. Len(Deltas) <= Len(LineDeltas) + 1
    <3>1. \A d : Len(Append(LineDeltas, d)) = Len(LineDeltas) + 1
      BY <1>3
    <3>2. Len(LineDeltas) \in Nat
      BY <1>3
    <3> QED BY <2>2, <3>1, <3>2
  <2>6. IsPrefix(LineDeltas, Deltas)
    <3>1. n + 1 \in Nat /\ n <= n + 1
      BY <1>1
    <3> QED BY <1>1, <1>4, <2>1, <3>1, DeltasGrow
  <2>7. DoneIsComplete
    BY <1>1, <1>2, <1>7, <2>3, <2>4, <2>5 DEF DoneIsComplete, DoneIsAll
  <2>8. Deltas \in Seq(Seq(Chars))
    <3>1. "nl" \in Chars
      BY DEF Chars, Bytes
    <3>2. Closed(text) \in Seq(Chars) /\ n + 1 \in Nat
      BY <1>1, <1>7, <3>1, ClosedLines DEF text
    <3> QED BY <1>4, <2>1, <3>2, DeltasType
  <2>9. ChunksFollowTheResponse
    <3>1. chunks \in Seq(Seq(Chars))
      <4>1. chunks \in Seq(Seq(Chars) \ {<< >>}) /\ Seq(Chars) \ {<< >>} \subseteq Seq(Chars)
        BY DEF BoundedInv, TypeOK
      <4> QED BY <4>1, SeqOfMore
    <3>2. IsPrefix(chunks, LineDeltas)
      BY <1>2 DEF ChunksFollow
    <3> QED BY <1>3, <2>6, <2>8, <3>1, <3>2, PrefixOfPrefix DEF ChunksFollowTheResponse
  <2>10. NoSpuriousAbort
    <3>1. ByteLens(LineDeltas) <= ByteLens(Deltas)
      BY <1>3, <2>6, <2>8, ByteLensOfPrefix
    <3>2. ByteLens(LineDeltas) \in Nat /\ ByteLens(Deltas) \in Nat
      BY <1>3, <2>8, ByteLensType
    <3>3. verdict = "job exceeded output size limit" => ByteLens(LineDeltas) > MaxJobOutput
      BY <1>2 DEF AbortsForCause
    <3>4. ByteLens(LineDeltas) > MaxJobOutput => ByteLens(Deltas) > MaxJobOutput
      BY <3>1, <3>2, SseAssumption
    <3> QED BY <1>2, <3>3, <3>4, Zenon DEF NoSpuriousAbort, AbortsForCause
  <2> QED BY <2>7, <2>9, <2>10
<1> QED BY <1>6, <1>7

-----------------------------------------------------------------------------
LEMMA Bounded == Spec => []BoundedInv
<1>1. BoundedInv /\ [Next]_vars => BoundedInv'
  BY BoundedNext
<1> QED BY BoundedInit, <1>1, PTL DEF Spec

\* The state keeps its types, for every response: what is sent is never empty,
\* and `ended` comes with a verdict (run.rs 305-367).
THEOREM TypeCorrect == Spec => []TypeOK
<1>1. BoundedInv => TypeOK
  BY DEF BoundedInv
<1> QED BY <1>1, Bounded, PTL

\* NX-4 for every response, ASCII or not, every cut of it and all limits: the
\* buffer and what was sent stay within bounds (limits.rs 55-62).
THEOREM AlwaysBounded == Spec => []MemoryIsBounded
<1>1. BoundedInv => MemoryIsBounded
  BY DEF BoundedInv, TypeOK, MemoryIsBounded
<1> QED BY <1>1, Bounded, PTL

\* What is left is about responses in ASCII: in the run sse_two_byte a chunk
\* that ends inside a character breaks it.
Ascii == \A s \in Streams : IsAscii(s)

LEMMA Follows == ASSUME Ascii PROVE Spec => [](BoundedInv /\ FollowsInv)
<1>1. Init => BoundedInv /\ FollowsInv
  <2>1. Streams \subseteq {s \in Seq(Bytes) : IsAscii(s)}
    BY StreamsAssumption DEF Ascii
  <2> QED BY <2>1, BoundedInit, FollowsInit
<1>2. BoundedInv /\ FollowsInv /\ [Next]_vars => (BoundedInv /\ FollowsInv)'
  BY BoundedNext, FollowsNext
<1> QED BY <1>1, <1>2, PTL DEF Spec

\* However the network cuts an ASCII response, the chunk frames are its deltas
\* in order, complete and without a repetition (run.rs 305-307, 331-353).
THEOREM AlwaysFollows == ASSUME Ascii PROVE Spec => []ChunksFollowTheResponse
<1>1. BoundedInv /\ FollowsInv => ChunksFollowTheResponse
  BY FollowsGives
<1> QED BY <1>1, Follows, PTL

\* `done` for an ASCII response means that every delta was sent, and the last
\* usage unless it came beside a content; a response that breaks off in a line
\* has lost at most that line's delta (run.rs 355-367, protocol.rs 131-139).
THEOREM AlwaysComplete == ASSUME Ascii PROVE Spec => []DoneIsComplete
<1>1. BoundedInv /\ FollowsInv => DoneIsComplete
  BY FollowsGives
<1> QED BY <1>1, Follows, PTL

\* A response is given up only for what is in it (run.rs 324-329, 341-347).
THEOREM AlwaysAbortsForCause == ASSUME Ascii PROVE Spec => []NoSpuriousAbort
<1>1. BoundedInv /\ FollowsInv => NoSpuriousAbort
  BY FollowsGives
<1> QED BY <1>1, Follows, PTL
=============================================================================
