--------------------------- MODULE GnmiPathProofs ----------------------------
(***************************************************************************)
(* Proofs about GnmiPath: for every path a user can write, what            *)
(* _build_path makes of its text and what _path_to_string prints of that.  *)
(*                                                                         *)
(* The functions of GnmiPath recur over the last token of a text.  That    *)
(* such a function exists, and what holds of every sequence, is proved by  *)
(* induction on the length: an induction is stated for a set T, and a      *)
(* lemma P uses it for {n \in Nat : P(n)}.                                 *)
(***************************************************************************)
EXTENDS GnmiPath, Integers, SequenceTheorems, FiniteSetTheorems, WellFoundedInduction, TLAPS

LEMMA MinOfNats ==
    ASSUME NEW T \in SUBSET Nat, T # {}
    PROVE  \E m \in T : \A k \in T : m <= k
  <1>1. PICK m \in T : \A y \in T : <<y, m>> \notin OpToRel(<, Nat)
    BY NatLessThanWellFounded, WFMin, Zenon
  <1>2. ASSUME NEW k \in T PROVE m <= k
    <2>1. <<k, m>> \notin {ss \in Nat \X Nat : ss[1] < ss[2]}
      BY <1>1 DEF OpToRel
    <2> QED
      BY <2>1
  <1> QED
    BY <1>2

LEMMA SetInduction ==
    ASSUME NEW T, 0 \in T, \A n \in Nat : n \in T => n + 1 \in T
    PROVE  Nat \subseteq T
  <1> SUFFICES ASSUME {n \in Nat : n \notin T} # {} PROVE FALSE
    OBVIOUS
  <1>1. PICK m \in {n \in Nat : n \notin T} : \A k \in {n \in Nat : n \notin T} : m <= k
    BY MinOfNats
  <1>2. m # 0 /\ m \in Nat
    OBVIOUS
  <1>3. m - 1 \in Nat /\ m - 1 \in T
    BY <1>1, <1>2
  <1> QED
    BY <1>3

\* A sequence is its front and its last element.
LEMMA FrontLast ==
    ASSUME NEW S, NEW s \in Seq(S), s # <<>>
    PROVE  /\ Seqs!Front(s) \in Seq(S) /\ Seqs!Last(s) \in S
           /\ Len(Seqs!Front(s)) = Len(s) - 1 /\ Len(s) \in Nat \ {0}
           /\ s = Append(Seqs!Front(s), Seqs!Last(s))
  <1>1. Len(s) \in Nat \ {0} /\ \A i \in 1..Len(s) : s[i] \in S
    BY EmptySeq, ElementOfSeq
  <1>2. /\ Seqs!Front(s) \in Seq(S) /\ Len(Seqs!Front(s)) = Len(s) - 1
        /\ \A i \in 1..(Len(s) - 1) : Seqs!Front(s)[i] = s[i]
    <2> DEFINE n == Len(s) - 1
    <2>1. n \in Nat /\ \A i \in 1..n : s[i] \in S
      BY <1>1
    <2>2. /\ SubSeq(s, 1, n) \in Seq(S) /\ Len(SubSeq(s, 1, n)) = IF 1 <= n THEN n - 1 + 1 ELSE 0
          /\ \A i \in 1..(n - 1 + 1) : SubSeq(s, 1, n)[i] = s[1 + i - 1]
      <3> HIDE DEF n
      <3> QED
        BY <2>1, SubSeqProperties
    <2>3. Seqs!Front(s) = SubSeq(s, 1, n)
      BY DEF Seqs!Front
    <2> HIDE DEF n
    <2>4. /\ SubSeq(s, 1, n) \in Seq(S) /\ Len(SubSeq(s, 1, n)) = n
          /\ \A i \in 1..n : SubSeq(s, 1, n)[i] = s[i]
      BY <2>1, <2>2
    <2> QED
      BY <2>3, <2>4 DEF n
  <1>3. Seqs!Last(s) = s[Len(s)] /\ Seqs!Last(s) \in S
    BY <1>1 DEF Seqs!Last
  <1>4. s = Append(Seqs!Front(s), Seqs!Last(s))
    BY <1>1, <1>2, <1>3, AppendProperties, SeqEqual
  <1> QED
    BY <1>1, <1>2, <1>3, <1>4

LEMMA FrontOfAppend ==
    ASSUME NEW S, NEW s \in Seq(S), NEW x \in S
    PROVE  /\ Append(s, x) \in Seq(S) /\ Append(s, x) # <<>>
           /\ Seqs!Front(Append(s, x)) = s /\ Seqs!Last(Append(s, x)) = x
  <1>1. Append(s, x) \in Seq(S) /\ Append(s, x) # <<>>
    BY AppendProperties
  <1>2. Append(s, x) = Append(Seqs!Front(Append(s, x)), Seqs!Last(Append(s, x)))
    BY <1>1, FrontLast
  <1>3. Seqs!Front(Append(s, x)) \in Seq(S) /\ Seqs!Last(Append(s, x)) \in S
    BY <1>1, FrontLast
  <1> QED
    BY <1>1, <1>2, <1>3, AppendInjective

LEMMA SeqInduction ==
    ASSUME NEW S, NEW T, <<>> \in T,
           \A s \in Seq(S), x \in S : s \in T => Append(s, x) \in T
    PROVE  Seq(S) \subseteq T
  <1> DEFINE N == {n \in Nat : \A s \in Seq(S) : Len(s) = n => s \in T}
  <1>1. 0 \in N
    BY EmptySeq
  <1>2. ASSUME NEW n \in Nat, n \in N PROVE n + 1 \in N
    <2> SUFFICES ASSUME NEW s \in Seq(S), Len(s) = n + 1 PROVE s \in T
      OBVIOUS
    <2>1. s # <<>>
      BY EmptySeq
    <2>2. Seqs!Front(s) \in Seq(S) /\ Seqs!Last(s) \in S /\ Len(Seqs!Front(s)) = n
          /\ s = Append(Seqs!Front(s), Seqs!Last(s))
      BY <2>1, FrontLast
    <2>3. Seqs!Front(s) \in T
      BY <1>2, <2>2
    <2> QED
      BY <2>2, <2>3
  <1>3. Nat \subseteq N
    <2> HIDE DEF N
    <2> QED
      BY <1>1, <1>2, SetInduction
  <1> QED
    BY <1>3, LenProperties
-----------------------------------------------------------------------------
(***************************************************************************)
(* Recursion over sequences.                                               *)
(***************************************************************************)
Runs(W, first, next, n) ==
    {F \in [0..n -> W] : F[0] = first /\ \A i \in 0..(n - 1) : F[i + 1] = next[F[i]]}

Iterations(W, first, next) ==
    {F \in [Nat -> W] : F[0] = first /\ \A n \in Nat : F[n + 1] = next[F[n]]}

\* What recurs over the last element of a sequence.
Scans(S, V, empty, step) ==
    {f \in [Seq(S) -> V] : \A s \in Seq(S) :
        f[s] = IF s = <<>> THEN empty ELSE step[<<f[Seqs!Front(s)], Seqs!Front(s), Seqs!Last(s)>>]}

LEMMA RunsExist ==
    ASSUME NEW W, NEW first \in W, NEW next \in [W -> W]
    PROVE  \A n \in Nat : Runs(W, first, next, n) # {}
  <1> DEFINE N == {n \in Nat : Runs(W, first, next, n) # {}}
  <1>1. 0 \in N
    <2>1. [i \in 0..0 |-> first] \in Runs(W, first, next, 0)
      BY DEF Runs
    <2> QED
      BY <2>1
  <1>2. ASSUME NEW n \in Nat, n \in N PROVE n + 1 \in N
    <2>1. PICK F \in [0..n -> W] : F[0] = first /\ \A i \in 0..(n - 1) : F[i + 1] = next[F[i]]
      BY <1>2 DEF Runs
    <2> DEFINE G == [i \in 0..(n + 1) |-> IF i = n + 1 THEN next[F[n]] ELSE F[i]]
    <2>2. G \in [0..(n + 1) -> W] /\ G[0] = first
      BY <2>1
    <2>3. ASSUME NEW i \in 0..n PROVE G[i + 1] = next[G[i]]
      <3>1. CASE i = n
        BY <3>1
      <3>2. CASE i # n
        BY <2>1, <3>2
      <3> QED
        BY <3>1, <3>2
    <2>4. G \in Runs(W, first, next, n + 1)
      <3> HIDE DEF G
      <3> QED
        BY <2>2, <2>3 DEF Runs
    <2> QED
      BY <2>4
  <1> HIDE DEF N
  <1>3. Nat \subseteq N
    BY <1>1, <1>2, SetInduction
  <1> QED
    BY <1>3 DEF N

LEMMA RunsAgree ==
    ASSUME NEW W, NEW first \in W, NEW next \in [W -> W],
           NEW n \in Nat, NEW m \in Nat,
           NEW F \in Runs(W, first, next, n), NEW G \in Runs(W, first, next, m)
    PROVE  \A i \in Nat : i <= n /\ i <= m => F[i] = G[i]
  <1> DEFINE N == {i \in Nat : i <= n /\ i <= m => F[i] = G[i]}
  <1>1. 0 \in N
    BY DEF Runs
  <1>2. ASSUME NEW i \in Nat, i \in N PROVE i + 1 \in N
    <2> SUFFICES ASSUME i + 1 <= n, i + 1 <= m PROVE F[i + 1] = G[i + 1]
      OBVIOUS
    <2>1. i \in 0..(n - 1) /\ i \in 0..(m - 1)
      OBVIOUS
    <2>2. F[i + 1] = next[F[i]] /\ G[i + 1] = next[G[i]]
      BY <2>1 DEF Runs
    <2>3. F[i] = G[i]
      BY <1>2
    <2> QED
      BY <2>2, <2>3
  <1> HIDE DEF N
  <1>3. Nat \subseteq N
    BY <1>1, <1>2, SetInduction
  <1> QED
    BY <1>3 DEF N

LEMMA IterationExists ==
    ASSUME NEW W, NEW first \in W, NEW next \in [W -> W]
    PROVE  Iterations(W, first, next) # {}
  <1> DEFINE R(n) == CHOOSE F : F \in Runs(W, first, next, n)
             F == [n \in Nat |-> R(n)[n]]
  <1>1. \A n \in Nat : R(n) \in Runs(W, first, next, n)
    BY RunsExist
  <1> HIDE DEF R
  <1>2. F \in [Nat -> W] /\ F[0] = first
    <2>1. \A n \in Nat : R(n)[n] \in W
      BY <1>1 DEF Runs
    <2>2. R(0)[0] = first
      BY <1>1 DEF Runs
    <2> QED
      BY <2>1, <2>2
  <1>3. ASSUME NEW n \in Nat PROVE F[n + 1] = next[F[n]]
    <2>1. R(n) \in Runs(W, first, next, n) /\ R(n + 1) \in Runs(W, first, next, n + 1)
      BY <1>1
    <2>2. R(n + 1)[n + 1] = next[R(n + 1)[n]]
      BY <2>1 DEF Runs
    <2>3. R(n + 1)[n] = R(n)[n]
      BY <2>1, RunsAgree
    <2> QED
      BY <2>2, <2>3
  <1>4. F \in Iterations(W, first, next)
    <2> HIDE DEF F
    <2> QED
      BY <1>2, <1>3 DEF Iterations
  <1> QED
    BY <1>4

\* A function that recurs over the last element of its argument exists.
LEMMA ScanExists ==
    ASSUME NEW S, NEW V, NEW empty \in V, NEW step \in [V \X Seq(S) \X S -> V]
    PROVE  Scans(S, V, empty, step) # {}
  <1> DEFINE W == [Seq(S) -> V]
             first == [s \in Seq(S) |-> empty]
             body(g, s) == IF s = <<>> THEN empty
                           ELSE step[<<g[Seqs!Front(s)], Seqs!Front(s), Seqs!Last(s)>>]
             next == [g \in W |-> [s \in Seq(S) |-> body(g, s)]]
  <1>1. first \in W
    OBVIOUS
  <1>2. ASSUME NEW g \in W, NEW s \in Seq(S) PROVE body(g, s) \in V
    BY FrontLast
  <1>3. next \in [W -> W]
    BY <1>2
  <1>4. PICK F \in [Nat -> W] : F[0] = first /\ \A n \in Nat : F[n + 1] = next[F[n]]
    <2>1. Iterations(W, first, next) # {}
      <3> HIDE DEF W, first, next
      <3> QED
        BY <1>1, <1>3, IterationExists
    <2> HIDE DEF W, first, next
    <2> QED
      BY <2>1 DEF Iterations
  <1> DEFINE f == [s \in Seq(S) |-> F[Len(s)][s]]
  <1>5. f \in [Seq(S) -> V]
    BY LenProperties
  <1>6. ASSUME NEW s \in Seq(S) PROVE f[s] = body(f, s)
    <2>1. CASE s = <<>>
      <3>1. Len(s) = 0
        BY <2>1, EmptySeq
      <3>2. f[s] = first[s]
        BY <3>1, <1>4
      <3> QED
        BY <2>1, <3>2
    <2>2. CASE s # <<>>
      <3> DEFINE front == Seqs!Front(s)  n == Len(front)
      <3>1. front \in Seq(S) /\ n \in Nat /\ Len(s) = n + 1
        <4>1. front \in Seq(S) /\ Len(front) = Len(s) - 1 /\ Len(s) \in Nat \ {0}
          BY <2>2, FrontLast
        <4> QED
          BY <4>1
      <3>2. f[s] = F[n + 1][s] /\ f[front] = F[n][front]
        BY <3>1
      <3>3. F[n] \in W /\ F[n + 1] = next[F[n]]
        BY <3>1, <1>4
      <3>4. F[n + 1][s] = body(F[n], s)
        BY <3>3
      <3> QED
        BY <2>2, <3>2, <3>4
    <2> QED
      BY <2>1, <2>2
  <1> HIDE DEF f
  <1> QED
    BY <1>5, <1>6 DEF Scans
-----------------------------------------------------------------------------
(***************************************************************************)
(* What the functions of GnmiPath return.                                  *)
(***************************************************************************)
LEMMA Literals ==
    ASSUME NEW S, NEW x \in S, NEW y \in S, NEW z \in S
    PROVE  /\ <<x>> \in Seq(S) /\ <<x, y>> \in Seq(S) /\ <<x, y, z>> \in Seq(S)
           /\ Append(<<>>, x) = <<x>>
  <1>1. <<x>> \in Seq(S) /\ Len(<<x>>) = 1 /\ <<x>>[1] = x
    BY SeqDef
  <1>2. Append(<<>>, x) \in Seq(S) /\ Len(Append(<<>>, x)) = 1 /\ Append(<<>>, x)[1] = x
    BY AppendProperties, EmptySeq
  <1>3. <<x, y>> \in Seq(S) /\ <<x, y, z>> \in Seq(S)
    OBVIOUS
  <1> QED
    BY <1>1, <1>2, <1>3, SeqEqual

LEMMA TextFacts ==
    /\ <<>> \in Text
    /\ \A s, t \in Text : s \o t \in Text
    /\ \A s \in Text, x \in Tokens : Append(s, x) \in Text /\ Append(s, x) # <<>>
    /\ \A x, y, z \in Tokens : <<x>> \in Text /\ <<x, y>> \in Text /\ <<x, y, z>> \in Text
  <1>1. <<>> \in Text
    BY EmptySeq DEF Text
  <1>2. ASSUME NEW s \in Text, NEW t \in Text PROVE s \o t \in Text
    BY ConcatProperties DEF Text
  <1>3. ASSUME NEW s \in Text, NEW x \in Tokens PROVE Append(s, x) \in Text /\ Append(s, x) # <<>>
    BY AppendProperties DEF Text
  <1>4. \A x, y, z \in Tokens : <<x>> \in Text /\ <<x, y>> \in Text /\ <<x, y, z>> \in Text
    BY Literals DEF Text
  <1> QED
    BY <1>1, <1>2, <1>3, <1>4

LEMMA ConcatEquations ==
    /\ Concat \in [Seq(Text) -> Text] /\ Concat[<<>>] = <<>>
    /\ \A s \in Seq(Text), t \in Text : Concat[Append(s, t)] = Concat[s] \o t
  <1> DEFINE step == [x \in Text \X Seq(Text) \X Text |-> x[1] \o x[3]]
             Body(f, s) == IF s = <<>> THEN <<>> ELSE f[Seqs!Front(s)] \o Seqs!Last(s)
  <1>1. step \in [Text \X Seq(Text) \X Text -> Text] /\ <<>> \in Text
    BY TextFacts
  <1>2. PICK f \in Scans(Text, Text, <<>>, step) : TRUE
    <2> HIDE DEF step
    <2> QED
      BY <1>1, ScanExists
  <1>3. \A s \in Seq(Text) : f[s] = Body(f, s)
    BY FrontLast DEF Scans
  <1>4. f = [s \in Seq(Text) |-> Body(f, s)]
    <2> HIDE DEF Body
    <2> QED
      BY <1>3 DEF Scans
  <1>5. Concat = [s \in Seq(Text) |-> Body(Concat, s)]
    BY <1>4, Zenon DEF Concat
  <1>6. \A s \in Seq(Text) : Concat[s] = Body(Concat, s)
    <2> HIDE DEF Body
    <2> QED
      BY <1>5
  <1>7. /\ <<>> \in Seq(Text) /\ Concat[<<>>] = <<>>
        /\ \A s \in Seq(Text), t \in Text : Append(s, t) \in Seq(Text) /\ Concat[Append(s, t)] = Concat[s] \o t
    <2>1. <<>> \in Seq(Text)
      BY EmptySeq
    <2>2. ASSUME NEW s \in Seq(Text), NEW t \in Text
          PROVE  Append(s, t) \in Seq(Text) /\ Concat[Append(s, t)] = Concat[s] \o t
      <3>1. Append(s, t) \in Seq(Text) /\ Append(s, t) # <<>>
            /\ Seqs!Front(Append(s, t)) = s /\ Seqs!Last(Append(s, t)) = t
        BY FrontOfAppend
      <3> QED
        BY <1>6, <3>1
    <2> QED
      BY <1>6, <2>1, <2>2
  <1>8. \A s \in Seq(Text) : Concat[s] \in Text
    <2> DEFINE T == {s \in Seq(Text) : Concat[s] \in Text}
    <2>1. <<>> \in T
      BY <1>1, <1>7
    <2>2. ASSUME NEW s \in Seq(Text), NEW t \in Text, s \in T PROVE Append(s, t) \in T
      BY <1>7, <2>2, TextFacts
    <2> HIDE DEF T
    <2>3. Seq(Text) \subseteq T
      BY <2>1, <2>2, SeqInduction
    <2> QED
      BY <2>3 DEF T
  <1> HIDE DEF Body
  <1>9. Concat \in [Seq(Text) -> Text]
    BY <1>5, <1>6, <1>8
  <1> QED
    BY <1>7, <1>9

\* What [parts EXCEPT ![Len(parts)] = new] is.
Replaced(parts, new) == [parts EXCEPT ![Len(parts)] = new]

LEMMA ReplaceLast ==
    ASSUME NEW S, NEW new \in S
    PROVE  /\ \A parts \in Seq(S) : Replaced(parts, new) \in Seq(S)
           /\ \A done \in Seq(S), old \in S : Replaced(Append(done, old), new) = Append(done, new)
  <1>1. ASSUME NEW parts \in Seq(S) PROVE Replaced(parts, new) \in Seq(S)
    <2>1. CASE parts = <<>>
      <3>1. Replaced(parts, new) = parts
        BY <2>1 DEF Replaced
      <3> QED
        BY <3>1
    <2>2. CASE parts # <<>>
      <3>1. Len(parts) \in 1..Len(parts)
        BY <2>2, EmptySeq
      <3> QED
        BY <3>1, ExceptSeq DEF Replaced
    <2> QED
      BY <2>1, <2>2
  <1>2. ASSUME NEW done \in Seq(S), NEW old \in S
        PROVE  Replaced(Append(done, old), new) = Append(done, new)
    <2> DEFINE n == Len(done)  a == Append(done, old)  b == Append(done, new)
    <2>1. n \in Nat
      BY LenProperties
    <2>2. a \in Seq(S) /\ Len(a) = n + 1 /\ \A i \in 1..n : a[i] = done[i]
      BY AppendProperties
    <2>3. b \in Seq(S) /\ Len(b) = n + 1 /\ b[n + 1] = new /\ \A i \in 1..n : b[i] = done[i]
      BY AppendProperties
    <2> HIDE DEF n, a, b
    <2> DEFINE c == [a EXCEPT ![n + 1] = new]
    <2>4. c \in Seq(S) /\ Len(c) = n + 1 /\ \A i \in 1..(n + 1) : c[i] = IF i = n + 1 THEN new ELSE a[i]
      <3>1. n + 1 \in 1..Len(a)
        BY <2>1, <2>2
      <3> QED
        BY <2>2, <3>1, ExceptSeq
    <2> HIDE DEF c
    <2>5. \A i \in 1..(n + 1) : c[i] = b[i]
      BY <2>1, <2>2, <2>3, <2>4
    <2>6. c = b
      BY <2>3, <2>4, <2>5, SeqEqual
    <2>7. Replaced(a, new) = c
      BY <2>2 DEF Replaced, c
    <2> QED
      BY <2>6, <2>7 DEF a, b
  <1> QED
    BY <1>1, <1>2

LEMMA ExtendFacts ==
    ASSUME NEW x \in Tokens
    PROVE  /\ \A parts \in Seq(Text) : parts # <<>> => Extend(parts, x) \in Seq(Text)
           /\ Extend(<<>>, x) = <<>>
           /\ \A done \in Seq(Text), s \in Text : Extend(Append(done, s), x) = Append(done, Append(s, x))
  <1>1. ASSUME NEW parts \in Seq(Text), parts # <<>> PROVE Extend(parts, x) \in Seq(Text)
    <2>1. parts[Len(parts)] \in Text
      BY <1>1, EmptySeq, ElementOfSeq
    <2>2. Append(parts[Len(parts)], x) \in Text
      BY <2>1, TextFacts
    <2> QED
      BY <2>2, ReplaceLast DEF Extend, Replaced
  <1>2. Extend(<<>>, x) = <<>>
    BY EmptySeq DEF Extend
  <1>3. ASSUME NEW done \in Seq(Text), NEW s \in Text
        PROVE  Extend(Append(done, s), x) = Append(done, Append(s, x))
    <2>1. Append(s, x) \in Text
      BY TextFacts
    <2>2. Append(done, s)[Len(Append(done, s))] = s
      BY AppendProperties, LenProperties
    <2>3. Replaced(Append(done, s), Append(s, x)) = Append(done, Append(s, x))
      BY <2>1, ReplaceLast
    <2> DEFINE parts == Append(done, s)
    <2>4. Extend(parts, x) = Replaced(parts, Append(parts[Len(parts)], x))
      BY DEF Extend, Replaced
    <2> QED
      BY <2>2, <2>3, <2>4
  <1> QED
    BY <1>1, <1>2, <1>3

Opens(s) == s = <<>> \/ Seqs!Last(s) = "/"

LEMMA ElementsEquations ==
    /\ Elements \in [Text -> Seq(Text)] /\ Elements[<<>>] = <<>>
    /\ \A s \in Text, x \in Tokens :
           Elements[Append(s, x)] = IF x = "/" THEN Elements[s]
                                    ELSE IF Opens(s) THEN Append(Elements[s], <<x>>)
                                    ELSE Extend(Elements[s], x)
  <1> DEFINE V == Seq(Text)
             Value(done, s, x) == IF x = "/" THEN done
                                  ELSE IF s = <<>> \/ Seqs!Last(s) = "/" THEN Append(done, <<x>>)
                                  ELSE Extend(done, x)
             step == [x \in V \X Text \X Tokens |-> Value(x[1], x[2], x[3])]
             Body(f, s) == IF s = <<>> THEN <<>> ELSE Value(f[Seqs!Front(s)], Seqs!Front(s), Seqs!Last(s))
  <1>0. ASSUME NEW s \in Text, s # <<>>
        PROVE  Seqs!Front(s) \in Text /\ Seqs!Last(s) \in Tokens
    BY <1>0, FrontLast DEF Text
  <1>1. ASSUME NEW done \in V, NEW s \in Text, NEW x \in Tokens PROVE Value(done, s, x) \in V
    <2>1. Append(done, <<x>>) \in V
      BY TextFacts, AppendProperties
    <2>2. Extend(done, x) \in V
      BY ExtendFacts
    <2> QED
      BY <2>1, <2>2
  <1>2. step \in [V \X Text \X Tokens -> V] /\ <<>> \in V
    <2>1. <<>> \in V
      BY EmptySeq
    <2> HIDE DEF Value, V
    <2> QED
      BY <1>1, <2>1
  <1>3. PICK f \in Scans(Tokens, V, <<>>, step) : TRUE
    <2> HIDE DEF step, V
    <2> QED
      BY <1>2, ScanExists DEF Text
  <1>4. \A s \in Text : f[s] = Body(f, s)
    <2> SUFFICES ASSUME NEW s \in Text PROVE f[s] = Body(f, s)
      OBVIOUS
    <2>1. f \in [Text -> V]
      BY DEF Scans, Text
    <2>2. f[s] = IF s = <<>> THEN <<>> ELSE step[<<f[Seqs!Front(s)], Seqs!Front(s), Seqs!Last(s)>>]
      BY DEF Scans, Text
    <2>3. CASE s # <<>>
      <3>1. Seqs!Front(s) \in Text /\ Seqs!Last(s) \in Tokens /\ f[Seqs!Front(s)] \in V
        BY <1>0, <2>1, <2>3
      <3> HIDE DEF Value, V
      <3> QED
        BY <2>2, <2>3, <3>1
    <2> QED
      BY <2>2, <2>3
  <1>5. f = [s \in Text |-> Body(f, s)]
    <2>1. f \in [Text -> V]
      BY DEF Scans, Text
    <2> HIDE DEF Body
    <2> QED
      BY <1>4, <2>1
  <1>6. Elements = [s \in Text |-> Body(Elements, s)]
    BY <1>5, Zenon DEF Elements
  <1>7. \A s \in Text : Elements[s] = Body(Elements, s)
    <2> HIDE DEF Body
    <2> QED
      BY <1>6
  <1>8. /\ Elements[<<>>] = <<>>
        /\ \A s \in Text, x \in Tokens : Elements[Append(s, x)] = Value(Elements[s], s, x)
    <2>1. <<>> \in Text
      BY TextFacts
    <2>2. ASSUME NEW s \in Text, NEW x \in Tokens
          PROVE  Elements[Append(s, x)] = Value(Elements[s], s, x)
      <3>1. Append(s, x) \in Text /\ Append(s, x) # <<>>
            /\ Seqs!Front(Append(s, x)) = s /\ Seqs!Last(Append(s, x)) = x
        BY FrontOfAppend DEF Text
      <3> HIDE DEF Value
      <3> QED
        BY <1>7, <3>1
    <2> HIDE DEF Value
    <2> QED
      BY <1>7, <2>1, <2>2
  <1>9. \A s \in Text : Elements[s] \in V
    <2> DEFINE T == {s \in Text : Elements[s] \in V}
    <2>1. <<>> \in T
      BY <1>2, <1>8, TextFacts
    <2>2. ASSUME NEW s \in Text, NEW x \in Tokens, s \in T PROVE Append(s, x) \in T
      <3>1. Append(s, x) \in Text
        BY TextFacts
      <3> HIDE DEF Value, V
      <3> QED
        BY <1>1, <1>8, <2>2, <3>1
    <2> HIDE DEF T
    <2>3. Text \subseteq T
      BY <2>1, <2>2, SeqInduction DEF Text
    <2> QED
      BY <2>3 DEF T
  <1> QED
    <2>1. Elements \in [Text -> V]
      <3> HIDE DEF Body, V
      <3> QED
        BY <1>6, <1>7, <1>9
    <2> QED
      BY <1>8, <2>1 DEF Opens

Cuts(s, x) == x = "[" /\ s # <<>> /\ Seqs!Last(s) = "]"

CutLast(parts) == Append(Replaced(parts, Seqs!Front(parts[Len(parts)])), <<>>)

LEMMA CutLastFacts ==
    /\ \A parts \in Seq(Text) : CutLast(parts) \in Seq(Text)
    /\ \A done \in Seq(Text), s \in Text, x \in Tokens :
           CutLast(Append(done, Append(s, x))) = Append(Append(done, s), <<>>)
  <1>1. ASSUME NEW parts \in Seq(Text) PROVE CutLast(parts) \in Seq(Text)
    <2>1. Replaced(parts, Seqs!Front(parts[Len(parts)])) \in Seq(Text)
      <3>1. CASE parts = <<>>
        <4>1. Replaced(parts, Seqs!Front(parts[Len(parts)])) = parts
          BY <3>1 DEF Replaced
        <4> QED
          BY <4>1
      <3>2. CASE parts # <<>>
        <4>1. parts[Len(parts)] \in Text
          BY <3>2, EmptySeq, ElementOfSeq
        <4>2. Seqs!Front(parts[Len(parts)]) \in Text
          <5>1. CASE parts[Len(parts)] = <<>>
            <6>1. Len(parts[Len(parts)]) - 1 < 1 /\ Len(parts[Len(parts)]) - 1 \in Int
              BY <5>1
            <6>2. Seqs!Front(parts[Len(parts)]) = <<>>
              BY <6>1, SubSeqEmpty DEF Seqs!Front
            <6> QED
              BY <6>2, TextFacts
          <5>2. CASE parts[Len(parts)] # <<>>
            BY <4>1, <5>2, FrontLast DEF Text
          <5> QED
            BY <5>1, <5>2
        <4> QED
          BY <4>2, ReplaceLast
      <3> QED
        BY <3>1, <3>2
    <2> QED
      BY <2>1, TextFacts, AppendProperties DEF CutLast
  <1>2. ASSUME NEW done \in Seq(Text), NEW s \in Text, NEW x \in Tokens
        PROVE  CutLast(Append(done, Append(s, x))) = Append(Append(done, s), <<>>)
    <2> DEFINE last == Append(s, x)  parts == Append(done, last)
    <2>1. last \in Text
      BY TextFacts
    <2>2. parts[Len(parts)] = last
      <3> HIDE DEF last
      <3> QED
        BY <2>1, FrontOfAppend DEF Seqs!Last
    <2>3. Seqs!Front(last) = s
      BY FrontOfAppend DEF Text
    <2>4. Replaced(parts, s) = Append(done, s)
      BY <2>1, ReplaceLast
    <2> HIDE DEF last, parts
    <2>5. CutLast(parts) = Append(Append(done, s), <<>>)
      BY <2>2, <2>3, <2>4 DEF CutLast
    <2> QED
      BY <2>5 DEF parts, last
  <1> QED
    BY <1>1, <1>2

LEMMA PairsEquations ==
    /\ Pairs \in [Text -> Seq(Text)] /\ Pairs[<<>>] = <<<<>>>>
    /\ \A s \in Text, x \in Tokens :
           Pairs[Append(s, x)] = IF Cuts(s, x) THEN CutLast(Pairs[s]) ELSE Extend(Pairs[s], x)
  <1> DEFINE V == Seq(Text)
             Value(done, s, x) == IF x = "[" /\ s # <<>> /\ Seqs!Last(s) = "]"
                                    THEN Append([done EXCEPT ![Len(done)] = Seqs!Front(@)], <<>>)
                                    ELSE Extend(done, x)
             step == [x \in V \X Text \X Tokens |-> Value(x[1], x[2], x[3])]
             Body(f, s) == IF s = <<>> THEN <<<<>>>> ELSE Value(f[Seqs!Front(s)], Seqs!Front(s), Seqs!Last(s))
  <1>0. ASSUME NEW s \in Text, s # <<>>
        PROVE  Seqs!Front(s) \in Text /\ Seqs!Last(s) \in Tokens
    BY <1>0, FrontLast DEF Text
  <1>1. ASSUME NEW done \in V, NEW s \in Text, NEW x \in Tokens PROVE Value(done, s, x) \in V
    <2>1. Append([done EXCEPT ![Len(done)] = Seqs!Front(@)], <<>>) \in V
      BY CutLastFacts DEF CutLast, Replaced
    <2>2. Extend(done, x) \in V
      BY ExtendFacts
    <2> QED
      BY <2>1, <2>2
  <1>2. step \in [V \X Text \X Tokens -> V] /\ <<<<>>>> \in V
    <2>1. <<<<>>>> \in V
      BY TextFacts, Literals
    <2> HIDE DEF Value, V
    <2> QED
      BY <1>1, <2>1
  <1>3. PICK f \in Scans(Tokens, V, <<<<>>>>, step) : TRUE
    <2> HIDE DEF step, V
    <2> QED
      BY <1>2, ScanExists DEF Text
  <1>4. \A s \in Text : f[s] = Body(f, s)
    <2> SUFFICES ASSUME NEW s \in Text PROVE f[s] = Body(f, s)
      OBVIOUS
    <2>1. f \in [Text -> V]
      BY DEF Scans, Text
    <2>2. f[s] = IF s = <<>> THEN <<<<>>>> ELSE step[<<f[Seqs!Front(s)], Seqs!Front(s), Seqs!Last(s)>>]
      BY DEF Scans, Text
    <2>3. CASE s # <<>>
      <3>1. Seqs!Front(s) \in Text /\ Seqs!Last(s) \in Tokens /\ f[Seqs!Front(s)] \in V
        BY <1>0, <2>1, <2>3
      <3> HIDE DEF Value, V
      <3> QED
        BY <2>2, <2>3, <3>1
    <2> QED
      BY <2>2, <2>3
  <1>5. f = [s \in Text |-> Body(f, s)]
    <2>1. f \in [Text -> V]
      BY DEF Scans, Text
    <2> HIDE DEF Body
    <2> QED
      BY <1>4, <2>1
  <1>6. Pairs = [s \in Text |-> Body(Pairs, s)]
    BY <1>5, Zenon DEF Pairs
  <1>7. \A s \in Text : Pairs[s] = Body(Pairs, s)
    <2> HIDE DEF Body
    <2> QED
      BY <1>6
  <1>8. /\ Pairs[<<>>] = <<<<>>>>
        /\ \A s \in Text, x \in Tokens : Pairs[Append(s, x)] = Value(Pairs[s], s, x)
    <2>1. <<>> \in Text
      BY TextFacts
    <2>2. ASSUME NEW s \in Text, NEW x \in Tokens
          PROVE  Pairs[Append(s, x)] = Value(Pairs[s], s, x)
      <3>1. Append(s, x) \in Text /\ Append(s, x) # <<>>
            /\ Seqs!Front(Append(s, x)) = s /\ Seqs!Last(Append(s, x)) = x
        BY FrontOfAppend DEF Text
      <3> HIDE DEF Value
      <3> QED
        BY <1>7, <3>1
    <2> HIDE DEF Value
    <2> QED
      BY <1>7, <2>1, <2>2
  <1>9. \A s \in Text : Pairs[s] \in V
    <2> DEFINE T == {s \in Text : Pairs[s] \in V}
    <2>1. <<>> \in T
      BY <1>2, <1>8, TextFacts
    <2>2. ASSUME NEW s \in Text, NEW x \in Tokens, s \in T PROVE Append(s, x) \in T
      <3>1. Append(s, x) \in Text
        BY TextFacts
      <3> HIDE DEF Value, V
      <3> QED
        BY <1>1, <1>8, <2>2, <3>1
    <2> HIDE DEF T
    <2>3. Text \subseteq T
      BY <2>1, <2>2, SeqInduction DEF Text
    <2> QED
      BY <2>3 DEF T
  <1> QED
    <2>1. Pairs \in [Text -> V]
      <3> HIDE DEF Body, V
      <3> QED
        BY <1>6, <1>7, <1>9
    <2> QED
      BY <1>8, <2>1 DEF Cuts, CutLast, Replaced
-----------------------------------------------------------------------------
(***************************************************************************)
(* Sequences.                                                              *)
(***************************************************************************)
Mapped(f, s) == [i \in DOMAIN s |-> f[s[i]]]

LEMMA MappedFacts ==
    ASSUME NEW S, NEW R, NEW f \in [S -> R]
    PROVE  /\ \A s \in Seq(S) : Mapped(f, s) \in Seq(R) /\ DOMAIN Mapped(f, s) = DOMAIN s
           /\ Mapped(f, <<>>) = <<>>
           /\ \A s \in Seq(S), x \in S : Mapped(f, Append(s, x)) = Append(Mapped(f, s), f[x])
  <1>1. ASSUME NEW s \in Seq(S)
        PROVE  /\ Mapped(f, s) \in Seq(R) /\ Len(Mapped(f, s)) = Len(s) /\ DOMAIN Mapped(f, s) = DOMAIN s
               /\ \A i \in 1..Len(s) : Mapped(f, s)[i] = f[s[i]]
    <2> DEFINE n == Len(s)
    <2>1. n \in Nat /\ DOMAIN s = 1..n /\ \A i \in 1..n : s[i] \in S
      BY LenProperties, ElementOfSeq
    <2>2. Mapped(f, s) \in [1..n -> R]
      BY <2>1 DEF Mapped
    <2>3. Mapped(f, s) \in Seq(R)
      BY <2>1, <2>2, SeqDef
    <2>4. Len(Mapped(f, s)) = n
      BY <2>1, <2>2, <2>3, LenProperties
    <2> QED
      BY <2>1, <2>3, <2>4 DEF Mapped
  <1>2. Mapped(f, <<>>) = <<>>
    BY <1>1, EmptySeq
  <1>3. ASSUME NEW s \in Seq(S), NEW x \in S
        PROVE  Mapped(f, Append(s, x)) = Append(Mapped(f, s), f[x])
    <2> DEFINE n == Len(s)  a == Mapped(f, Append(s, x))  b == Append(Mapped(f, s), f[x])
    <2>1. n \in Nat /\ Append(s, x) \in Seq(S) /\ Len(Append(s, x)) = n + 1
          /\ Append(s, x)[n + 1] = x /\ \A i \in 1..n : Append(s, x)[i] = s[i]
      BY LenProperties, AppendProperties
    <2>2. a \in Seq(R) /\ Len(a) = n + 1 /\ \A i \in 1..(n + 1) : a[i] = f[Append(s, x)[i]]
      BY <1>1, <2>1
    <2>3. b \in Seq(R) /\ Len(b) = n + 1 /\ b[n + 1] = f[x] /\ \A i \in 1..n : b[i] = Mapped(f, s)[i]
      <3>1. Mapped(f, s) \in Seq(R) /\ Len(Mapped(f, s)) = n /\ f[x] \in R
        BY <1>1
      <3> QED
        BY <3>1, AppendProperties
    <2>4. \A i \in 1..n : Mapped(f, s)[i] = f[s[i]]
      BY <1>1
    <2> HIDE DEF a, b, n
    <2>5. \A i \in 1..(n + 1) : a[i] = b[i]
      BY <2>1, <2>2, <2>3, <2>4
    <2> QED
      BY <2>2, <2>3, <2>5, SeqEqual DEF a, b
  <1> QED
    BY <1>1, <1>2, <1>3

LEMMA MappedText ==
    ASSUME NEW S, NEW f \in [S -> Text], NEW s \in Seq(S), NEW x \in S
    PROVE  Mapped(f, s) \in Seq(Text) /\ Mapped(f, Append(s, x)) = Append(Mapped(f, s), f[x])
  BY MappedFacts

\* Moving the brackets and slashes in a concatenation.
LEMMA Regroup ==
    ASSUME NEW S, NEW s \in Seq(S), NEW t \in Seq(S), NEW a \in S
    PROVE  /\ Append(s, a) \o t = s \o (<<a>> \o t)
           /\ s \o Append(t, a) = Append(s \o t, a)
           /\ <<>> \o s = s /\ s \o <<>> = s
  <1>1. <<a>> \in Seq(S) /\ Append(s, a) = s \o <<a>> /\ Append(t, a) = t \o <<a>>
    BY Literals, AppendIsConcat
  <1>2. s \o t \in Seq(S) /\ Append(s \o t, a) = (s \o t) \o <<a>>
    BY ConcatProperties, AppendIsConcat
  <1>3. (s \o <<a>>) \o t = s \o (<<a>> \o t) /\ (s \o t) \o <<a>> = s \o (t \o <<a>>)
    BY <1>1, ConcatAssociative
  <1> QED
    BY <1>1, <1>2, <1>3, ConcatEmptySeq

LEMMA RegroupThree ==
    ASSUME NEW S, NEW a \in S, NEW c \in S, NEW d \in S
    PROVE  <<a, c, d>> = <<a>> \o <<c, d>>
  <1>1. <<a>> \in Seq(S) /\ <<c, d>> \in Seq(S) /\ <<a, c, d>> \in Seq(S)
    BY Literals
  <1>2. <<a>> \o <<c, d>> \in Seq(S) /\ Len(<<a>> \o <<c, d>>) = 3
        /\ \A i \in 1..3 : (<<a>> \o <<c, d>>)[i] = IF i <= 1 THEN <<a>>[i] ELSE <<c, d>>[i - 1]
    BY <1>1, ConcatProperties
  <1>3. \A i \in 1..3 : <<a, c, d>>[i] = IF i <= 1 THEN <<a>>[i] ELSE <<c, d>>[i - 1]
    OBVIOUS
  <1> QED
    BY <1>1, <1>2, <1>3, SeqEqual

LEMMA RegroupTwo ==
    ASSUME NEW S, NEW a \in S, NEW c \in S
    PROVE  <<a, c>> = <<a>> \o <<c>>
  <1> DEFINE u == <<a>> \o <<c>>  w == <<a, c>>
  <1>1. <<a>> \in Seq(S) /\ <<c>> \in Seq(S) /\ w \in Seq(S) /\ Len(w) = 2 /\ w[1] = a /\ w[2] = c
    BY Literals
  <1>2. u \in Seq(S) /\ Len(u) = 2 /\ \A i \in 1..2 : u[i] = IF i <= 1 THEN <<a>>[i] ELSE <<c>>[i - 1]
    BY <1>1, ConcatProperties
  <1>3. u[1] = a /\ u[2] = c
    BY <1>2
  <1> HIDE DEF u, w
  <1>4. \A i \in 1..2 : u[i] = w[i]
    <2> SUFFICES ASSUME NEW i \in 1..2 PROVE u[i] = w[i]
      OBVIOUS
    <2>1. i = 1 \/ i = 2
      OBVIOUS
    <2> QED
      BY <1>1, <1>3, <2>1
  <1>5. u = w
    BY <1>1, <1>2, <1>4, SeqEqual
  <1> QED
    BY <1>5 DEF u, w

LEMMA RegroupKeys ==
    ASSUME NEW s \in Text, NEW t \in Text, NEW a \in Tokens, NEW b \in Tokens
    PROVE  (<<a>> \o s \o <<b>>) \o (<<a>> \o t \o <<b>>) =
               <<a>> \o (Append(Append(s, b), a) \o t) \o <<b>>
  <1>1. <<a>> \in Text /\ <<b>> \in Text
    BY TextFacts
  <1> DEFINE u == s \o <<b>>
  <1>2. u \in Text /\ s \o t \in Text /\ <<a>> \o t \in Text /\ <<a>> \o s \in Text /\ t \o <<b>> \in Text
    BY <1>1, ConcatProperties DEF Text
  <1>3. Append(s, b) = u /\ Append(u, a) = u \o <<a>> /\ u \o <<a>> \in Text
    BY <1>1, <1>2, AppendIsConcat, ConcatProperties DEF Text
  <1>4. <<a>> \o s \o <<b>> = <<a>> \o u
    BY <1>1, ConcatAssociative DEF Text
  <1>5. (u \o <<a>>) \o t = u \o (<<a>> \o t)
    BY <1>1, <1>2, ConcatAssociative DEF Text
  <1> HIDE DEF u
  <1> DEFINE w == <<a>> \o t
  <1>6. w \in Text /\ u \o w \in Text /\ w \o <<b>> \in Text
    BY <1>1, <1>2, ConcatProperties DEF Text
  <1>7. (<<a>> \o u) \o (w \o <<b>>) = <<a>> \o (u \o (w \o <<b>>))
    BY <1>1, <1>2, <1>6, ConcatAssociative DEF Text
  <1>8. (u \o w) \o <<b>> = u \o (w \o <<b>>)
    BY <1>1, <1>2, <1>6, ConcatAssociative DEF Text
  <1>9. (<<a>> \o (u \o w)) \o <<b>> = <<a>> \o ((u \o w) \o <<b>>)
    BY <1>1, <1>6, ConcatAssociative DEF Text
  <1> QED
    BY <1>3, <1>4, <1>5, <1>7, <1>8, <1>9
-----------------------------------------------------------------------------
(***************************************************************************)
(* Reading a text token by token.                                          *)
(***************************************************************************)
Free(s, tokens) == \A i \in DOMAIN s : s[i] \notin tokens

LEMMA FreeAppend ==
    ASSUME NEW S, NEW s \in Seq(S), NEW x \in S, NEW tokens
    PROVE  Free(Append(s, x), tokens) <=> Free(s, tokens) /\ x \notin tokens
  <1> DEFINE n == Len(s)  a == Append(s, x)
  <1>1. n \in Nat /\ DOMAIN s = 1..n
    BY LenProperties
  <1>2. a \in Seq(S) /\ Len(a) = n + 1 /\ a[n + 1] = x /\ \A i \in 1..n : a[i] = s[i]
    BY AppendProperties
  <1> HIDE DEF n, a
  <1>3. DOMAIN a = 1..(n + 1) /\ 1..(n + 1) = 1..n \cup {n + 1}
    BY <1>1, <1>2, LenProperties
  <1>4. Free(a, tokens) <=> \A i \in 1..n \cup {n + 1} : a[i] \notin tokens
    BY <1>3 DEF Free
  <1>5. Free(s, tokens) <=> \A i \in 1..n : s[i] \notin tokens
    BY <1>1 DEF Free
  <1>6. Free(a, tokens) <=> Free(s, tokens) /\ x \notin tokens
    BY <1>2, <1>4, <1>5
  <1> QED
    BY <1>6 DEF a

LEMMA FreeFacts ==
    ASSUME NEW tokens
    PROVE  /\ Free(<<>>, tokens)
           /\ \A s \in Text, x \in Tokens : Free(Append(s, x), tokens) <=> Free(s, tokens) /\ x \notin tokens
           /\ \A s, t \in Text : Free(s \o t, tokens) <=> Free(s, tokens) /\ Free(t, tokens)
  <1>1. Free(<<>>, tokens)
    BY DEF Free
  <1>2. \A s \in Text, x \in Tokens : Free(Append(s, x), tokens) <=> Free(s, tokens) /\ x \notin tokens
    BY FreeAppend DEF Text
  <1>3. ASSUME NEW s \in Text, NEW t \in Text
        PROVE  Free(s \o t, tokens) <=> Free(s, tokens) /\ Free(t, tokens)
    <2> DEFINE n == Len(s)  m == Len(t)  a == s \o t
    <2>1. n \in Nat /\ DOMAIN s = 1..n /\ m \in Nat /\ DOMAIN t = 1..m
      BY LenProperties DEF Text
    <2>2. a \in Text /\ Len(a) = n + m /\ \A i \in 1..(n + m) : a[i] = IF i <= n THEN s[i] ELSE t[i - n]
      BY ConcatProperties DEF Text
    <2>3. DOMAIN a = 1..(n + m)
      BY <2>2, LenProperties DEF Text
    <2> HIDE DEF n, m, a
    <2>4. ASSUME Free(a, tokens) PROVE Free(s, tokens) /\ Free(t, tokens)
      <3>1. ASSUME NEW i \in 1..n PROVE s[i] \notin tokens
        <4>1. i \in 1..(n + m) /\ a[i] = s[i]
          BY <2>1, <2>2
        <4> QED
          BY <2>3, <2>4, <4>1 DEF Free
      <3>2. ASSUME NEW i \in 1..m PROVE t[i] \notin tokens
        <4>1. i + n \in 1..(n + m) /\ a[i + n] = t[i]
          BY <2>1, <2>2
        <4> QED
          BY <2>3, <2>4, <4>1 DEF Free
      <3> QED
        BY <2>1, <3>1, <3>2 DEF Free
    <2>5. ASSUME Free(s, tokens), Free(t, tokens) PROVE Free(a, tokens)
      <3>1. ASSUME NEW i \in 1..(n + m) PROVE a[i] \notin tokens
        <4>1. CASE i <= n
          <5>1. i \in 1..n /\ a[i] = s[i]
            BY <2>1, <2>2, <4>1
          <5> QED
            BY <2>1, <2>5, <5>1 DEF Free
        <4>2. CASE ~(i <= n)
          <5>1. i - n \in 1..m /\ a[i] = t[i - n]
            BY <2>1, <2>2, <4>2
          <5> QED
            BY <2>1, <2>5, <5>1 DEF Free
        <4> QED
          BY <4>1, <4>2
      <3> QED
        BY <2>3, <3>1 DEF Free
    <2>6. Free(a, tokens) <=> Free(s, tokens) /\ Free(t, tokens)
      BY <2>4, <2>5
    <2> QED
      BY <2>6 DEF a
  <1> QED
    BY <1>1, <1>2, <1>3

LEMMA FreeOne ==
    ASSUME NEW tokens, NEW x, x \notin tokens
    PROVE  Free(<<x>>, tokens)
  <1> DEFINE s == <<x>>
  <1>1. DOMAIN s = {1} /\ s[1] = x
    OBVIOUS
  <1> HIDE DEF s
  <1>2. Free(s, tokens)
    BY <1>1 DEF Free
  <1> QED
    BY <1>2 DEF s

\* An element without slashes behind a slash is one more element.
LEMMA ElementsOfElement ==
    ASSUME NEW s \in Text, Opens(s), NEW e \in Text, Free(e, {"/"}), e # <<>>
    PROVE  Elements[s \o e] = Append(Elements[s], e)
  <1> DEFINE T == {t \in Text : Free(t, {"/"}) /\ t # <<>> => Elements[s \o t] = Append(Elements[s], t)}
  <1>1. <<>> \in T
    BY TextFacts
  <1>2. ASSUME NEW t \in Text, NEW x \in Tokens, t \in T PROVE Append(t, x) \in T
    <2> SUFFICES ASSUME Free(Append(t, x), {"/"}) PROVE Elements[s \o Append(t, x)] = Append(Elements[s], Append(t, x))
      BY TextFacts
    <2>1. Free(t, {"/"}) /\ x # "/"
      BY FreeFacts
    <2>2. s \o Append(t, x) = Append(s \o t, x) /\ s \o t \in Text
      BY Regroup, TextFacts DEF Text
    <2>3. Elements[s] \in Seq(Text)
      BY ElementsEquations
    <2>4. Elements[Append(s \o t, x)] = IF Opens(s \o t) THEN Append(Elements[s \o t], <<x>>)
                                                         ELSE Extend(Elements[s \o t], x)
      BY <2>1, <2>2, ElementsEquations
    <2>5. CASE t = <<>>
      <3>1. s \o t = s /\ Append(t, x) = <<x>>
        BY <2>5, ConcatEmptySeq, Literals DEF Text
      <3> QED
        BY <2>2, <2>4, <3>1
    <2>6. CASE t # <<>>
      <3>1. ~Opens(s \o t)
        <4>1. Len(t) \in Nat \ {0} /\ Len(s) \in Nat /\ DOMAIN t = 1..Len(t)
          BY <2>6, EmptySeq, LenProperties DEF Text
        <4>2. Len(s \o t) = Len(s) + Len(t) /\ (s \o t)[Len(s) + Len(t)] = t[Len(t)]
          BY <4>1, ConcatProperties DEF Text
        <4>3. t[Len(t)] # "/"
          BY <2>1, <4>1 DEF Free
        <4>4. s \o t # <<>>
          BY <4>1, <4>2
        <4> QED
          BY <4>2, <4>3, <4>4 DEF Opens, Seqs!Last
      <3>2. Elements[s \o t] = Append(Elements[s], t)
        BY <1>2, <2>1, <2>6
      <3> QED
        BY <2>2, <2>3, <2>4, <3>1, <3>2, ExtendFacts
    <2> QED
      BY <2>5, <2>6
  <1> HIDE DEF T
  <1>3. Text \subseteq T
    BY <1>1, <1>2, SeqInduction DEF Text
  <1> QED
    BY <1>3 DEF T

\* Text without "[" extends the last pair.
LEMMA PairsOfPair ==
    ASSUME NEW s \in Text, NEW done \in Seq(Text), NEW last \in Text, Pairs[s] = Append(done, last),
           NEW v \in Text, Free(v, {"["})
    PROVE  Pairs[s \o v] = Append(done, last \o v)
  <1> DEFINE T == {t \in Text : Free(t, {"["}) => Pairs[s \o t] = Append(done, last \o t)}
  <1>1. <<>> \in T
    <2>1. s \o <<>> = s /\ last \o <<>> = last
      BY ConcatEmptySeq DEF Text
    <2> QED
      BY <2>1, TextFacts
  <1>2. ASSUME NEW t \in Text, NEW x \in Tokens, t \in T PROVE Append(t, x) \in T
    <2> SUFFICES ASSUME Free(Append(t, x), {"["}) PROVE Pairs[s \o Append(t, x)] = Append(done, last \o Append(t, x))
      BY TextFacts
    <2>1. Free(t, {"["}) /\ x # "["
      BY FreeFacts
    <2>2. /\ s \o Append(t, x) = Append(s \o t, x) /\ s \o t \in Text
          /\ last \o Append(t, x) = Append(last \o t, x) /\ last \o t \in Text
      BY Regroup, TextFacts DEF Text
    <2>3. Pairs[Append(s \o t, x)] = Extend(Pairs[s \o t], x)
      BY <2>1, <2>2, PairsEquations DEF Cuts
    <2>4. Pairs[s \o t] = Append(done, last \o t)
      BY <1>2, <2>1
    <2>5. Extend(Append(done, last \o t), x) = Append(done, Append(last \o t, x))
      BY <2>2, ExtendFacts
    <2> QED
      BY <2>2, <2>3, <2>4, <2>5
  <1> HIDE DEF T
  <1>3. Text \subseteq T
    BY <1>1, <1>2, SeqInduction DEF Text
  <1> QED
    BY <1>3 DEF T

LEMMA MinMax ==
    ASSUME NEW T \in SUBSET Int, NEW m \in T
    PROVE  /\ (\A k \in T : m <= k) => Seqs!Min(T) = m
           /\ (\A k \in T : m >= k) => Seqs!Max(T) = m
  <1>1. ASSUME \A k \in T : m <= k PROVE Seqs!Min(T) = m
    <2>1. Seqs!Min(T) \in T /\ \A k \in T : Seqs!Min(T) <= k
      BY <1>1 DEF Seqs!Min
    <2>2. Seqs!Min(T) <= m /\ m <= Seqs!Min(T) /\ Seqs!Min(T) \in Int
      BY <1>1, <2>1
    <2> QED
      BY <2>2
  <1>2. ASSUME \A k \in T : m >= k PROVE Seqs!Max(T) = m
    <2>1. Seqs!Max(T) \in T /\ \A k \in T : Seqs!Max(T) >= k
      BY <1>2 DEF Seqs!Max
    <2>2. Seqs!Max(T) >= m /\ m >= Seqs!Max(T) /\ Seqs!Max(T) \in Int
      BY <1>2, <2>1
    <2> QED
      BY <2>2
  <1> QED
    BY <1>1, <1>2

\* The first token of its kind, behind s.
LEMMA FirstBehind ==
    ASSUME NEW S, NEW s \in Seq(S), NEW t \in Seq(S), t # <<>>, Free(s, {t[1]})
    PROVE  First(s \o t, t[1]) = Len(s) + 1
  <1> DEFINE n == Len(s)  a == s \o t  x == t[1]
  <1>1. n \in Nat /\ DOMAIN s = 1..n /\ Len(t) \in Nat \ {0}
    BY LenProperties, EmptySeq
  <1>2. a \in Seq(S) /\ Len(a) = n + Len(t) /\ \A i \in 1..(n + Len(t)) : a[i] = IF i <= n THEN s[i] ELSE t[i - n]
    BY ConcatProperties
  <1>3. \A i \in 1..n : s[i] # x
    BY <1>1 DEF Free
  <1> HIDE DEF n, a, x
  <1>4. DOMAIN a = 1..(n + Len(t))
    BY <1>2, LenProperties
  <1> DEFINE places == {i \in DOMAIN a : a[i] = x}
  <1>5. n + 1 \in places
    BY <1>1, <1>2, <1>4 DEF x
  <1>6. \A i \in places : n + 1 <= i
    <2> SUFFICES ASSUME NEW i \in places, i <= n PROVE FALSE
      BY <1>1, <1>4
    <2>1. i \in 1..n /\ a[i] = s[i]
      BY <1>1, <1>2, <1>4
    <2> QED
      BY <1>3, <2>1
  <1>7. places \in SUBSET Int
    BY <1>1, <1>4
  <1> HIDE DEF places
  <1>8. Seqs!Min(places) = n + 1
    BY <1>5, <1>6, <1>7, MinMax
  <1> QED
    BY <1>8 DEF First, places, a, x, n

LEMMA SubSeqIs ==
    ASSUME NEW S, NEW a, NEW t \in Seq(S), NEW k \in Nat,
           \A i \in 1..Len(t) : a[k + i] = t[i]
    PROVE  SubSeq(a, k + 1, k + Len(t)) = t
  <1> DEFINE lo == k + 1  hi == k + Len(t)  b == SubSeq(a, lo, hi)
  <1>1. Len(t) \in Nat /\ \A i \in 1..Len(t) : t[i] \in S
    BY LenProperties, ElementOfSeq
  <1>2. lo \in Int /\ hi \in Int /\ hi - lo + 1 = Len(t) /\ (~(lo <= hi) => Len(t) = 0)
    BY <1>1
  <1>3. \A i \in lo..hi : i - k \in 1..Len(t) /\ k + (i - k) = i
    BY <1>1
  <1>4. \A i \in lo..hi : a[i] \in S
    BY <1>1, <1>3
  <1>5. \A i \in 1..Len(t) : lo + i - 1 = k + i
    BY <1>1
  <1>6. /\ b \in Seq(S) /\ Len(b) = IF lo <= hi THEN hi - lo + 1 ELSE 0
        /\ \A i \in 1..(hi - lo + 1) : b[i] = a[lo + i - 1]
    <2> HIDE DEF lo, hi
    <2> QED
      BY <1>2, <1>4, SubSeqProperties
  <1> HIDE DEF b, lo, hi
  <1>7. Len(b) = Len(t) /\ \A i \in 1..Len(t) : b[i] = t[i]
    BY <1>2, <1>5, <1>6
  <1>8. b = t
    BY <1>6, <1>7, SeqEqual
  <1> QED
    BY <1>8 DEF b, lo, hi

\* Cutting a concatenation where its second part begins.
LEMMA CutBehind ==
    ASSUME NEW S, NEW s \in Seq(S), NEW t \in Seq(S)
    PROVE  /\ Before(s \o t, Len(s) + 1) = s
           /\ From(s \o t, Len(s) + 1) = t
  <1> DEFINE n == Len(s)  m == Len(t)  a == s \o t
  <1>1. n \in Nat /\ m \in Nat
    BY LenProperties
  <1>2. Len(a) = n + m /\ \A i \in 1..(n + m) : a[i] = IF i <= n THEN s[i] ELSE t[i - n]
    BY ConcatProperties
  <1> HIDE DEF n, m, a
  <1>3. SubSeq(a, 0 + 1, 0 + n) = s
    <2>1. \A i \in 1..n : a[0 + i] = s[i]
      BY <1>1, <1>2
    <2> QED
      BY <2>1, SubSeqIs DEF n
  <1>4. SubSeq(a, n + 1, n + m) = t
    <2>1. \A i \in 1..m : a[n + i] = t[i]
      BY <1>1, <1>2
    <2> QED
      BY <1>1, <2>1, SubSeqIs DEF m
  <1>5. n + 1 - 1 = n /\ 0 + n = n /\ 0 + 1 = 1
    BY <1>1
  <1> QED
    BY <1>2, <1>3, <1>4, <1>5 DEF Before, From, n, a

LEMMA StripBracketed ==
    ASSUME NEW S, NEW m \in Seq(S), NEW a \in S, NEW b \in S, m # <<>>,
           a \in {"[", "]"}, b \in {"[", "]"}, m[1] \notin {"[", "]"}, m[Len(m)] \notin {"[", "]"}
    PROVE  StripBrackets(<<a>> \o m \o <<b>>) = m
  <1> DEFINE n == Len(m)  u == <<a>> \o m  s == u \o <<b>>
             kept == {i \in DOMAIN s : s[i] \notin {"[", "]"}}
  <1>1. n \in Nat \ {0} /\ <<a>> \in Seq(S) /\ <<b>> \in Seq(S) /\ Len(<<a>>) = 1 /\ Len(<<b>>) = 1
    BY EmptySeq, Literals
  <1>2. u \in Seq(S) /\ Len(u) = 1 + n /\ \A i \in 1..(1 + n) : u[i] = IF i <= 1 THEN <<a>>[i] ELSE m[i - 1]
    BY <1>1, ConcatProperties
  <1>3. s \in Seq(S) /\ Len(s) = 1 + n + 1
        /\ \A i \in 1..(1 + n + 1) : s[i] = IF i <= 1 + n THEN u[i] ELSE <<b>>[i - (1 + n)]
    <2> HIDE DEF u
    <2> QED
      BY <1>1, <1>2, ConcatProperties
  <1>4. DOMAIN s = 1..(n + 2)
    <2>1. 1 + n + 1 = n + 2
      BY <1>1
    <2> HIDE DEF s
    <2> QED
      BY <1>3, <2>1, LenProperties
  <1>5. s[1] = a /\ s[n + 2] = b
    <2>1. u[1] = a
      BY <1>1, <1>2
    <2>2. s[1] = u[1] /\ s[n + 2] = <<b>>[1]
      <3> HIDE DEF u, s
      <3> QED
        BY <1>1, <1>3
    <2> QED
      BY <2>1, <2>2
  <1>6. \A i \in 1..n : s[i + 1] = m[i]
    <2> SUFFICES ASSUME NEW i \in 1..n PROVE s[i + 1] = m[i]
      OBVIOUS
    <2> HIDE DEF u, s
    <2>1. s[i + 1] = u[i + 1]
      BY <1>1, <1>3
    <2>2. u[i + 1] = m[i]
      BY <1>1, <1>2
    <2> QED
      BY <2>1, <2>2
  <1> HIDE DEF u, s
  <1>7. kept \in SUBSET Int /\ 2 \in kept /\ n + 1 \in kept
    <2>1. 2 \in DOMAIN s /\ n + 1 \in DOMAIN s /\ 1 \in 1..n /\ n \in 1..n
      BY <1>1, <1>4
    <2>2. s[2] = m[1] /\ s[n + 1] = m[n]
      BY <1>6, <2>1
    <2> QED
      BY <1>1, <1>4, <2>1, <2>2
  <1>8. \A i \in kept : 2 <= i /\ n + 1 >= i
    <2> SUFFICES ASSUME NEW i \in kept, ~(2 <= i /\ n + 1 >= i) PROVE FALSE
      OBVIOUS
    <2>1. i = 1 \/ i = n + 2
      BY <1>1, <1>4
    <2> QED
      BY <1>5, <2>1
  <1> HIDE DEF kept
  <1>9. Seqs!Min(kept) = 2 /\ Seqs!Max(kept) = n + 1 /\ kept # {}
    BY <1>7, <1>8, MinMax
  <1>10. SubSeq(s, 2, n + 1) = m
    <2>1. \A i \in 1..n : s[1 + i] = m[i]
      BY <1>1, <1>6
    <2>2. SubSeq(s, 1 + 1, 1 + n) = m
      BY <2>1, SubSeqIs
    <2>3. 1 + 1 = 2 /\ 1 + n = n + 1
      BY <1>1
    <2> QED
      BY <2>2, <2>3
  <1>11. StripBrackets(s) = IF kept = {} THEN <<>> ELSE SubSeq(s, Seqs!Min(kept), Seqs!Max(kept))
    BY DEF StripBrackets, kept
  <1> QED
    BY <1>9, <1>10, <1>11 DEF s, u
-----------------------------------------------------------------------------
(***************************************************************************)
(* The keys of an element.                                                 *)
(***************************************************************************)
PairText(kv) == <<kv.name, "=">> \o kv.value
PairTexts(ks) == [i \in DOMAIN ks |-> PairText(ks[i])]
KeysText(ks) == Concat[[i \in DOMAIN ks |-> KeyText(ks[i])]]
CarriedKey(kv) == Free(kv.value, {"/", "[", "]"})
CarriedKeys(ks) == \A i \in DOMAIN ks : CarriedKey(ks[i])

LEMMA TokenFacts ==
    /\ "/" \in Tokens /\ "[" \in Tokens /\ "]" \in Tokens /\ "=" \in Tokens /\ ":" \in Tokens
    /\ \A w \in Words : w \in Tokens /\ w \notin {"/", "[", "]", "=", ":", ""}
  BY WordsAssumption DEF Tokens, Punctuation

LEMMA KeyTexts ==
    /\ \A kv \in KeyRecords : KeyText(kv) \in Text /\ PairText(kv) \in Text
    /\ KeysText(<<>>) = <<>>
    /\ \A ks \in Seq(KeyRecords) :
           /\ KeysText(ks) \in Text /\ PairTexts(ks) \in Seq(Text)
           /\ \A kv \in KeyRecords :
                  /\ KeysText(Append(ks, kv)) = KeysText(ks) \o KeyText(kv)
                  /\ PairTexts(Append(ks, kv)) = Append(PairTexts(ks), PairText(kv))
  <1>1. ASSUME NEW kv \in KeyRecords PROVE KeyText(kv) \in Text /\ PairText(kv) \in Text
    <2>1. kv.value \in Text /\ kv.name \in Tokens
      BY TokenFacts DEF KeyRecords
    <2>2. <<kv.name, "=">> \in Text /\ <<"[", kv.name, "=">> \in Text /\ <<"]">> \in Text
      BY <2>1, TokenFacts, TextFacts
    <2> QED
      BY <2>1, <2>2, TextFacts DEF KeyText, PairText
  <1> DEFINE f == [kv \in KeyRecords |-> KeyText(kv)]
             g == [kv \in KeyRecords |-> PairText(kv)]
  <1>2. f \in [KeyRecords -> Text] /\ g \in [KeyRecords -> Text]
    BY <1>1
  <1>3. ASSUME NEW ks \in Seq(KeyRecords)
        PROVE  KeysText(ks) = Concat[Mapped(f, ks)] /\ PairTexts(ks) = Mapped(g, ks)
    <2>1. \A i \in DOMAIN ks : ks[i] \in KeyRecords
      BY ElementOfSeq, LenProperties
    <2>2. [i \in DOMAIN ks |-> KeyText(ks[i])] = Mapped(f, ks) /\ PairTexts(ks) = Mapped(g, ks)
      BY <2>1 DEF Mapped, PairTexts
    <2> QED
      BY <2>2 DEF KeysText
  <1>4. KeysText(<<>>) = <<>>
    <2>1. Mapped(f, <<>>) = <<>> /\ <<>> \in Seq(KeyRecords)
      BY <1>2, MappedFacts, EmptySeq
    <2> QED
      BY <1>3, <2>1, ConcatEquations
  <1>5. ASSUME NEW ks \in Seq(KeyRecords) PROVE KeysText(ks) \in Text /\ PairTexts(ks) \in Seq(Text)
    <2>1. Mapped(f, ks) \in Seq(Text) /\ Mapped(g, ks) \in Seq(Text)
      BY <1>2, MappedFacts
    <2> QED
      BY <1>3, <2>1, ConcatEquations
  <1>6. ASSUME NEW ks \in Seq(KeyRecords), NEW kv \in KeyRecords
        PROVE  /\ KeysText(Append(ks, kv)) = KeysText(ks) \o KeyText(kv)
               /\ PairTexts(Append(ks, kv)) = Append(PairTexts(ks), PairText(kv))
    <2>1. Append(ks, kv) \in Seq(KeyRecords)
      BY AppendProperties
    <2>2. f \in [KeyRecords -> Text] /\ g \in [KeyRecords -> Text] /\ f[kv] = KeyText(kv) /\ g[kv] = PairText(kv)
      BY <1>1
    <2> HIDE DEF f, g
    <2>3. /\ Mapped(f, Append(ks, kv)) = Append(Mapped(f, ks), KeyText(kv))
          /\ Mapped(f, ks) \in Seq(Text)
          /\ Mapped(g, Append(ks, kv)) = Append(Mapped(g, ks), PairText(kv))
      <3>1. Mapped(f, ks) \in Seq(Text) /\ Mapped(f, Append(ks, kv)) = Append(Mapped(f, ks), f[kv])
        BY <2>2, MappedFacts
      <3>2. Mapped(g, ks) \in Seq(Text) /\ Mapped(g, Append(ks, kv)) = Append(Mapped(g, ks), g[kv])
        BY <2>2, MappedFacts
      <3> QED
        BY <2>2, <3>1, <3>2
    <2>4. Concat[Append(Mapped(f, ks), KeyText(kv))] = Concat[Mapped(f, ks)] \o KeyText(kv)
      BY <1>1, <2>3, ConcatEquations
    <2> QED
      BY <1>3, <2>1, <2>3, <2>4
  <1> QED
    BY <1>1, <1>4, <1>5, <1>6

LEMMA CarriedPair ==
    ASSUME NEW kv \in KeyRecords, CarriedKey(kv)
    PROVE  LET p == PairText(kv) IN
           /\ p # <<>> /\ Len(p) \in Nat \ {0} /\ Free(p, {"["}) /\ Free(p, {"/"})
           /\ p[1] \notin {"[", "]"} /\ p[Len(p)] \notin {"[", "]"}
           /\ KeyText(kv) = <<"[">> \o p \o <<"]">>
  <1> DEFINE p == PairText(kv)  h == <<kv.name, "=">>
  <1>1. kv.value \in Text /\ kv.name \in Words /\ kv.name \in Tokens /\ h \in Text /\ p \in Text
    BY TokenFacts, TextFacts DEF KeyRecords, PairText
  <1>2. Free(h, {"/", "[", "]"})
    <2>1. DOMAIN h = 1..2 /\ h[1] = kv.name /\ h[2] = "="
      OBVIOUS
    <2>2. kv.name \notin {"/", "[", "]"} /\ "=" \notin {"/", "[", "]"}
      BY <1>1, TokenFacts
    <2>3. ASSUME NEW i \in 1..2 PROVE h[i] \notin {"/", "[", "]"}
      BY <2>1, <2>2
    <2> QED
      BY <2>1, <2>3 DEF Free
  <1>3. Free(p, {"/", "[", "]"})
    BY <1>1, <1>2, FreeFacts DEF PairText, CarriedKey
  <1>4. Len(p) \in Nat \ {0} /\ DOMAIN p = 1..Len(p)
    <2>1. Len(p) = Len(h) + Len(kv.value) /\ Len(kv.value) \in Nat /\ Len(h) = 2
      BY <1>1, ConcatProperties, LenProperties DEF Text, PairText
    <2> HIDE DEF p
    <2> QED
      BY <1>1, <2>1, LenProperties DEF Text
  <1>5. KeyText(kv) = <<"[">> \o p \o <<"]">>
    <2>1. PICK a, b, e \in Tokens : a = "[" /\ b = "]" /\ e = "="
      BY TokenFacts
    <2> DEFINE n == kv.name  v == kv.value
    <2>2. n \in Tokens /\ v \in Text
      BY <1>1
    <2> HIDE DEF n, v
    <2>3. <<a, n, e>> = <<a>> \o <<n, e>>
      BY <2>2, RegroupThree
    <2>4. <<a>> \in Text /\ <<n, e>> \in Text
      BY <2>2, TextFacts
    <2>5. (<<a>> \o <<n, e>>) \o v = <<a>> \o (<<n, e>> \o v)
      BY <2>2, <2>4, ConcatAssociative DEF Text
    <2>6. <<a, n, e>> \o v \o <<b>> = <<a>> \o (<<n, e>> \o v) \o <<b>>
      BY <2>3, <2>5
    <2> QED
      BY <2>1, <2>6 DEF KeyText, PairText, n, v
  <1> HIDE DEF p
  <1>6. p # <<>> /\ Free(p, {"["}) /\ Free(p, {"/"}) /\ p[1] \notin {"[", "]"} /\ p[Len(p)] \notin {"[", "]"}
    BY <1>3, <1>4 DEF Free
  <1> QED
    BY <1>4, <1>5, <1>6 DEF p
LEMMA EndsOfConcat ==
    ASSUME NEW S, NEW s \in Seq(S), NEW t \in Seq(S), s # <<>>, t # <<>>
    PROVE  /\ s \o t # <<>> /\ (s \o t)[1] = s[1]
           /\ (s \o t)[Len(s \o t)] = t[Len(t)]
  <1> DEFINE n == Len(s)  m == Len(t)  a == s \o t
  <1>1. n \in Nat \ {0} /\ m \in Nat \ {0}
    BY EmptySeq
  <1>2. Len(a) = n + m /\ \A i \in 1..(n + m) : a[i] = IF i <= n THEN s[i] ELSE t[i - n]
    BY ConcatProperties
  <1>3. a # <<>>
    <2>1. Len(a) # 0
      <3> HIDE DEF n, m, a
      <3> QED
        BY <1>1, <1>2
    <2> QED
      BY <2>1
  <1> HIDE DEF n, m, a
  <1>4. a[1] = s[1] /\ a[n + m] = t[m]
    BY <1>1, <1>2
  <1> QED
    BY <1>2, <1>3, <1>4 DEF n, m, a

\* m is what stands between the outer brackets of some keys.
Between(ks, m) ==
    /\ m \in Text /\ m # <<>> /\ Free(m, {"/"})
    /\ m[1] \notin {"[", "]"} /\ m[Len(m)] \notin {"[", "]"}
    /\ KeysText(ks) = <<"[">> \o m \o <<"]">>
    /\ Pairs[m] = PairTexts(ks)

LEMMA BetweenOne ==
    ASSUME NEW kv \in KeyRecords, CarriedKey(kv)
    PROVE  Between(Append(<<>>, kv), PairText(kv))
  <1> DEFINE p == PairText(kv)  ks == Append(<<>>, kv)
  <1>1. /\ p \in Text /\ p # <<>> /\ Free(p, {"["}) /\ Free(p, {"/"})
        /\ p[1] \notin {"[", "]"} /\ p[Len(p)] \notin {"[", "]"}
        /\ KeyText(kv) = <<"[">> \o p \o <<"]">>
    BY KeyTexts, CarriedPair
  <1>2. KeysText(ks) = KeyText(kv)
    <2>1. KeysText(ks) = KeysText(<<>>) \o KeyText(kv) /\ <<>> \in Seq(KeyRecords)
      BY KeyTexts, EmptySeq
    <2>2. KeyText(kv) \in Text
      BY KeyTexts
    <2>3. <<>> \o KeyText(kv) = KeyText(kv)
      BY <2>2, ConcatEmptySeq DEF Text
    <2> QED
      BY <2>1, <2>3, KeyTexts
  <1>3. PairTexts(ks) = Append(<<>>, p)
    <2>1. PairTexts(ks) = Append(PairTexts(<<>>), p)
      BY KeyTexts, EmptySeq
    <2>2. PairTexts(<<>>) = <<>>
      BY DEF PairTexts
    <2> QED
      BY <2>1, <2>2
  <1>4. Pairs[p] = Append(<<>>, p)
    <2>1. Pairs[<<>>] = Append(<<>>, <<>>) /\ <<>> \in Text /\ <<>> \in Seq(Text)
      BY PairsEquations, TextFacts, EmptySeq, Literals
    <2>2. Pairs[<<>> \o p] = Append(<<>>, <<>> \o p)
      <3> HIDE DEF p
      <3> QED
        BY <1>1, <2>1, PairsOfPair
    <2>3. <<>> \o p = p
      BY <1>1, ConcatEmptySeq DEF Text
    <2> QED
      BY <2>2, <2>3
  <1> HIDE DEF p, ks
  <1>5. Between(ks, p)
    BY <1>1, <1>2, <1>3, <1>4 DEF Between
  <1> QED
    BY <1>5 DEF ks, p

LEMMA BetweenMore ==
    ASSUME NEW ks \in Seq(KeyRecords), NEW m, Between(ks, m), ks # <<>>,
           NEW kv \in KeyRecords, CarriedKey(kv)
    PROVE  Between(Append(ks, kv), Append(Append(m, "]"), "[") \o PairText(kv))
  <1> DEFINE p == PairText(kv)  u == Append(m, "]")  w == Append(u, "[")
  <1>0. "[" \in Tokens /\ "]" \in Tokens
    BY TokenFacts
  <1>1. /\ p \in Text /\ p # <<>> /\ Free(p, {"["}) /\ Free(p, {"/"})
        /\ p[Len(p)] \notin {"[", "]"}
        /\ KeyText(kv) = <<"[">> \o p \o <<"]">>
    BY KeyTexts, CarriedPair
  <1>2. /\ m \in Text /\ m # <<>> /\ Free(m, {"/"}) /\ m[1] \notin {"[", "]"}
        /\ KeysText(ks) = <<"[">> \o m \o <<"]">> /\ Pairs[m] = PairTexts(ks)
    BY DEF Between
  <1>3. u \in Text /\ u # <<>> /\ u[1] = m[1] /\ Seqs!Last(u) = "]" /\ Free(u, {"/"})
    <2>1. u \in Text /\ u # <<>> /\ Seqs!Last(u) = "]"
      BY <1>0, <1>2, FrontOfAppend DEF Text
    <2>2. u[1] = m[1]
      BY <1>0, <1>2, EmptySeq, AppendProperties DEF Text
    <2>3. Free(u, {"/"})
      BY <1>0, <1>2, FreeFacts
    <2> QED
      BY <2>1, <2>2, <2>3
  <1>4. w \in Text /\ w # <<>> /\ w[1] = m[1] /\ Free(w, {"/"})
    <2> HIDE DEF u
    <2>1. w \in Text /\ w # <<>>
      BY <1>0, <1>3, FrontOfAppend DEF Text
    <2>2. w[1] = u[1]
      BY <1>0, <1>3, EmptySeq, AppendProperties DEF Text
    <2>3. Free(w, {"/"})
      BY <1>0, <1>3, FreeFacts
    <2> QED
      BY <1>3, <2>1, <2>2, <2>3
  <1>5. PairTexts(ks) \in Seq(Text) /\ PairTexts(ks) # <<>>
    <2>1. DOMAIN PairTexts(ks) = DOMAIN ks /\ 1 \in DOMAIN ks
      <3>1. Len(ks) \in Nat \ {0} /\ DOMAIN ks = 1..Len(ks)
        BY EmptySeq, LenProperties
      <3> QED
        BY <3>1 DEF PairTexts
    <2>2. PairTexts(ks) # <<>>
      <3> SUFFICES ASSUME PairTexts(ks) = <<>> PROVE FALSE
        OBVIOUS
      <3>1. DOMAIN PairTexts(ks) = {}
        OBVIOUS
      <3> QED
        BY <2>1, <3>1
    <2> QED
      BY <2>2, KeyTexts
  <1>6. Pairs[w] = Append(PairTexts(ks), <<>>)
    <2>1. PICK done \in Seq(Text), last \in Text : PairTexts(ks) = Append(done, last)
      BY <1>5, FrontLast
    <2>2. Pairs[u] = Append(done, Append(last, "]"))
      <3>1. Pairs[u] = Extend(Pairs[m], "]")
        BY <1>0, <1>2, PairsEquations DEF Cuts
      <3>2. Extend(Append(done, last), "]") = Append(done, Append(last, "]"))
        BY <1>0, ExtendFacts
      <3> QED
        BY <1>2, <2>1, <3>1, <3>2
    <2>3. Pairs[w] = CutLast(Pairs[u])
      <3>1. Cuts(u, "[")
        BY <1>3 DEF Cuts
      <3> HIDE DEF u
      <3> QED
        BY <1>0, <1>3, <3>1, PairsEquations
    <2>4. CutLast(Append(done, Append(last, "]"))) = Append(Append(done, last), <<>>)
      BY <1>0, CutLastFacts
    <2> QED
      BY <2>1, <2>2, <2>3, <2>4
  <1>7. KeysText(Append(ks, kv)) = <<"[">> \o (w \o p) \o <<"]">>
    <2>1. KeysText(Append(ks, kv)) = (<<"[">> \o m \o <<"]">>) \o (<<"[">> \o p \o <<"]">>)
      BY <1>1, <1>2, KeyTexts
    <2>2. (<<"[">> \o m \o <<"]">>) \o (<<"[">> \o p \o <<"]">>) = <<"[">> \o (w \o p) \o <<"]">>
      <3> HIDE DEF p
      <3> QED
        BY <1>0, <1>1, <1>2, RegroupKeys
    <2> QED
      BY <2>1, <2>2
  <1>8. PairTexts(Append(ks, kv)) = Append(PairTexts(ks), p)
    BY KeyTexts
  <1> HIDE DEF p, w
  <1>9. Pairs[w \o p] = Append(PairTexts(ks), p)
    <2>1. Pairs[w \o p] = Append(PairTexts(ks), <<>> \o p)
      <3>1. \A done \in Seq(Text), last \in Text :
                Pairs[w] = Append(done, last) => Pairs[w \o p] = Append(done, last \o p)
        BY <1>1, <1>4, PairsOfPair
      <3> QED
        BY <1>5, <1>6, <3>1, TextFacts
    <2>2. <<>> \o p = p
      BY <1>1, ConcatEmptySeq DEF Text
    <2> QED
      BY <2>1, <2>2
  <1>10. /\ w \o p \in Text /\ w \o p # <<>> /\ Free(w \o p, {"/"})
         /\ (w \o p)[1] = w[1] /\ (w \o p)[Len(w \o p)] = p[Len(p)]
    <2>1. w \o p \in Text /\ Free(w \o p, {"/"})
      BY <1>1, <1>4, FreeFacts, TextFacts
    <2>2. w \o p # <<>> /\ (w \o p)[1] = w[1] /\ (w \o p)[Len(w \o p)] = p[Len(p)]
      BY <1>1, <1>4, EndsOfConcat DEF Text
    <2> QED
      BY <2>1, <2>2
  <1>11. Between(Append(ks, kv), w \o p)
    <2>1. (w \o p)[1] \notin {"[", "]"} /\ (w \o p)[Len(w \o p)] \notin {"[", "]"}
      BY <1>1, <1>2, <1>4, <1>10
    <2> QED
      BY <1>7, <1>8, <1>9, <1>10, <2>1 DEF Between
  <1> QED
    BY <1>11 DEF p, w

LEMMA BetweenKeys ==
    ASSUME NEW ks \in Seq(KeyRecords), CarriedKeys(ks), ks # <<>>
    PROVE  \E m : Between(ks, m)
  <1> DEFINE T == {s \in Seq(KeyRecords) : CarriedKeys(s) /\ s # <<>> => \E m : Between(s, m)}
  <1>1. <<>> \in T
    BY EmptySeq
  <1>2. ASSUME NEW s \in Seq(KeyRecords), NEW kv \in KeyRecords, s \in T PROVE Append(s, kv) \in T
    <2> SUFFICES ASSUME CarriedKeys(Append(s, kv)) PROVE \E m : Between(Append(s, kv), m)
      BY AppendProperties
    <2>1. CarriedKeys(s) /\ CarriedKey(kv)
      <3> DEFINE n == Len(s)  a == Append(s, kv)
      <3>1. n \in Nat /\ DOMAIN s = 1..n /\ DOMAIN a = 1..(n + 1)
            /\ a[n + 1] = kv /\ \A i \in 1..n : a[i] = s[i]
        BY LenProperties, AppendProperties
      <3>2. \A i \in DOMAIN a : CarriedKey(a[i])
        BY DEF CarriedKeys
      <3> HIDE DEF n, a
      <3>3. CarriedKey(a[n + 1]) /\ \A i \in 1..n : CarriedKey(a[i])
        BY <3>1, <3>2
      <3>4. \A i \in 1..n : CarriedKey(s[i])
        BY <3>1, <3>3
      <3> QED
        BY <3>1, <3>3, <3>4 DEF CarriedKeys
    <2>2. CASE s = <<>>
      BY <2>1, <2>2, BetweenOne
    <2>3. CASE s # <<>>
      <3>1. PICK m : Between(s, m)
        BY <1>2, <2>1, <2>3
      <3> QED
        BY <2>1, <2>3, <3>1, BetweenMore
    <2> QED
      BY <2>2, <2>3
  <1> HIDE DEF T
  <1>3. Seq(KeyRecords) \subseteq T
    BY <1>1, <1>2, SeqInduction
  <1> QED
    BY <1>3 DEF T
LEMMA PairParts ==
    ASSUME NEW kv \in KeyRecords
    PROVE  /\ "=" \in Seqs!ToSet(PairText(kv)) /\ First(PairText(kv), "=") = 2
           /\ Before(PairText(kv), 2) = <<kv.name>> /\ From(PairText(kv), 3) = kv.value
  <1> DEFINE n == kv.name  v == kv.value
  <1>1. PICK e \in Tokens : e = "="
    BY TokenFacts
  <1>2. n \in Tokens /\ n # e /\ v \in Text
    BY <1>1, TokenFacts DEF KeyRecords
  <1>3. PairText(kv) = <<n, e>> \o v
    BY <1>1 DEF PairText
  <1> HIDE DEF n, v
  <1> DEFINE t == <<e>> \o v  p == <<n, e>> \o v
  <1>4. <<n>> \in Text /\ <<e>> \in Text /\ <<n, e>> \in Text /\ t \in Text
    BY <1>2, TextFacts
  <1>5. p = <<n>> \o t
    <2>1. <<n, e>> = <<n>> \o <<e>>
      BY <1>2, RegroupTwo
    <2>2. (<<n>> \o <<e>>) \o v = <<n>> \o (<<e>> \o v)
      BY <1>2, <1>4, ConcatAssociative DEF Text
    <2> QED
      BY <2>1, <2>2
  <1>6. t # <<>> /\ t[1] = e
    <2>1. Len(t) = 1 + Len(v) /\ t[1] = e /\ Len(v) \in Nat
      BY <1>2, <1>4, ConcatProperties, LenProperties DEF Text
    <2> HIDE DEF t
    <2>2. t # <<>>
      BY <2>1
    <2> QED
      BY <2>1, <2>2
  <1>7. Free(<<n>>, {e})
    BY <1>2 DEF Free
  <1>8. Len(<<n>>) = 1 /\ Len(<<n, e>>) = 2
    OBVIOUS
  <1> HIDE DEF t, p
  <1>9. First(p, e) = 2
    <2>1. First(<<n>> \o t, t[1]) = Len(<<n>>) + 1
      BY <1>4, <1>6, <1>7, FirstBehind DEF Text
    <2> QED
      BY <1>5, <1>6, <1>8, <2>1
  <1>10. Before(p, 2) = <<n>>
    <2>1. Before(<<n>> \o t, Len(<<n>>) + 1) = <<n>>
      BY <1>4, CutBehind DEF Text
    <2> QED
      BY <1>5, <1>8, <2>1
  <1>11. From(p, 3) = v
    <2>1. From(<<n, e>> \o v, Len(<<n, e>>) + 1) = v
      BY <1>2, <1>4, CutBehind DEF Text
    <2> QED
      BY <1>8, <2>1 DEF p
  <1>12. e \in Seqs!ToSet(p)
    <2>1. 2 \in DOMAIN p /\ p[2] = e
      <3>1. p \in Text /\ Len(p) = 1 + Len(t) /\ p[2] = t[1] /\ Len(t) \in Nat \ {0}
        BY <1>4, <1>5, <1>6, <1>8, ConcatProperties, EmptySeq DEF Text
      <3> QED
        BY <1>6, <3>1, LenProperties DEF Text
    <2> QED
      BY <2>1 DEF Seqs!ToSet
  <1> QED
    BY <1>1, <1>3, <1>9, <1>10, <1>11, <1>12 DEF n, v, p

\* The pairs of an element are read as the keys the user meant.
LEMMA KeyMapOfPairs ==
    ASSUME NEW e \in ElemRecords
    PROVE  KeyMap(PairTexts(e.keys)) = KeysMeant(e)
  <1> DEFINE ks == e.keys  pairs == PairTexts(ks)
             given == {i \in DOMAIN pairs : "=" \in Seqs!ToSet(pairs[i])}
             key(i) == Before(pairs[i], First(pairs[i], "="))
             last(k) == Seqs!Max({i \in given : key(i) = k})
             value(k) == From(pairs[last(k)], First(pairs[last(k)], "=") + 1)
  <1>1. /\ ks \in Seq(KeyRecords)
        /\ \A i, j \in DOMAIN ks : ks[i].name = ks[j].name => i = j
    BY DEF ElemRecords
  <1>2. KeyMap(pairs) = [k \in {key(i) : i \in given} |-> value(k)]
    BY DEF KeyMap
  <1>3. DOMAIN pairs = DOMAIN ks /\ \A i \in DOMAIN ks : pairs[i] = PairText(ks[i]) /\ ks[i] \in KeyRecords
    BY <1>1, ElementOfSeq, LenProperties DEF PairTexts
  <1>4. DOMAIN ks \in SUBSET Int
    BY <1>1, LenProperties
  <1> HIDE DEF ks, pairs
  <1>5. \A i \in DOMAIN ks : "=" \in Seqs!ToSet(pairs[i]) /\ key(i) = <<ks[i].name>>
                             /\ First(pairs[i], "=") + 1 = 3 /\ From(pairs[i], 3) = ks[i].value
    <2> SUFFICES ASSUME NEW i \in DOMAIN ks
                 PROVE  "=" \in Seqs!ToSet(pairs[i]) /\ key(i) = <<ks[i].name>>
                             /\ First(pairs[i], "=") + 1 = 3 /\ From(pairs[i], 3) = ks[i].value
      BY Zenon
    <2>1. pairs[i] = PairText(ks[i]) /\ ks[i] \in KeyRecords
      BY <1>3
    <2>2. /\ "=" \in Seqs!ToSet(pairs[i]) /\ First(pairs[i], "=") = 2
          /\ Before(pairs[i], 2) = <<ks[i].name>> /\ From(pairs[i], 3) = ks[i].value
      BY <2>1, PairParts
    <2> QED
      BY <2>2
  <1>6. given = DOMAIN ks
    BY <1>3, <1>5
  <1> HIDE DEF given, key
  <1>7. {key(i) : i \in given} = {<<ks[i].name>> : i \in DOMAIN ks}
    BY <1>5, <1>6
  <1>8. ASSUME NEW k \in {<<ks[i].name>> : i \in DOMAIN ks}
        PROVE  value(k) = ks[CHOOSE i \in DOMAIN ks : <<ks[i].name>> = k].value
    <2>1. PICK i \in DOMAIN ks : k = <<ks[i].name>>
      OBVIOUS
    <2>2. \A j \in DOMAIN ks : <<ks[j].name>> = k <=> j = i
      BY <1>1, <2>1 DEF ks
    <2>3. (CHOOSE j \in DOMAIN ks : <<ks[j].name>> = k) = i
      BY <2>2
    <2>4. {j \in given : key(j) = k} = {i}
      BY <1>5, <1>6, <2>2
    <2>5. last(k) = i
      <3>1. {i} \in SUBSET Int /\ i \in {i} /\ \A j \in {i} : i >= j
        BY <1>4
      <3>2. Seqs!Max({i}) = i
        BY <3>1, MinMax
      <3> QED
        BY <2>4, <3>2
    <2>6. value(k) = ks[i].value
      BY <1>5, <2>5
    <2> QED
      BY <2>3, <2>6
  <1>9. KeysMeant(e) = [k \in {<<ks[i].name>> : i \in DOMAIN ks} |->
                            ks[CHOOSE i \in DOMAIN ks : <<ks[i].name>> = k].value]
    BY DEF KeysMeant, ks
  <1> HIDE DEF value
  <1> QED
    BY <1>2, <1>7, <1>8, <1>9 DEF pairs, ks
-----------------------------------------------------------------------------
(***************************************************************************)
(* The elements of a path.                                                 *)
(***************************************************************************)
CarriedElem(e) == CarriedKeys(e.keys)

LEMMA NameFacts ==
    ASSUME NEW e \in ElemRecords
    PROVE  /\ NameOf(e) \in Text /\ NameOf(e) # <<>> /\ Free(NameOf(e), {"/"}) /\ Free(NameOf(e), {"["})
           /\ "[" \notin Seqs!ToSet(NameOf(e))
  <1>1. PICK c \in Tokens : c = ":"
    BY TokenFacts
  <1>2. e.name \in Words /\ (e.ns = "" \/ e.ns \in Words)
    BY DEF ElemRecords
  <1>3. /\ e.name \in Tokens /\ e.name \notin {"/", "["}
        /\ e.ns \in Words => e.ns \in Tokens /\ e.ns \notin {"/", "["} /\ e.ns # ""
    BY <1>2, TokenFacts
  <1>4. CASE e.ns = ""
    <2> DEFINE n == <<e.name>>
    <2>1. NameOf(e) = n
      BY <1>4 DEF NameOf
    <2>2. n \in Text /\ n # <<>>
      BY <1>3, TextFacts
    <2>3. DOMAIN n = {1} /\ n[1] = e.name
      OBVIOUS
    <2> HIDE DEF n
    <2>4. \A i \in DOMAIN n : n[i] \notin {"/", "["}
      BY <1>3, <2>3
    <2> QED
      BY <2>1, <2>2, <2>4 DEF Free, Seqs!ToSet
  <1>5. CASE e.ns \in Words
    <2> DEFINE n == <<e.ns, c, e.name>>
    <2>1. NameOf(e) = n
      BY <1>1, <1>3, <1>5 DEF NameOf
    <2>2. n \in Text /\ n # <<>>
      BY <1>3, <1>5, TextFacts
    <2>3. DOMAIN n = 1..3 /\ n[1] = e.ns /\ n[2] = c /\ n[3] = e.name
      OBVIOUS
    <2>4. c \notin {"/", "["}
      BY <1>1
    <2> HIDE DEF n
    <2>5. \A i \in DOMAIN n : n[i] \notin {"/", "["}
      <3> SUFFICES ASSUME NEW i \in 1..3 PROVE n[i] \notin {"/", "["}
        BY <2>3
      <3>1. i = 1 \/ i = 2 \/ i = 3
        OBVIOUS
      <3>2. n[i] = e.ns \/ n[i] = c \/ n[i] = e.name
        BY <2>3, <3>1
      <3> QED
        BY <1>3, <1>5, <2>4, <3>2
    <2> QED
      BY <2>1, <2>2, <2>5 DEF Free, Seqs!ToSet
  <1> QED
    BY <1>2, <1>4, <1>5

LEMMA ElemTexts ==
    ASSUME NEW e \in ElemRecords
    PROVE  /\ e.keys \in Seq(KeyRecords) /\ KeysText(e.keys) \in Text
           /\ ElemText(e) = NameOf(e) \o KeysText(e.keys)
           /\ ElemText(e) \in Text /\ ElemText(e) # <<>>
           /\ CarriedElem(e) => Free(ElemText(e), {"/"})
  <1> DEFINE n == NameOf(e)  k == KeysText(e.keys)
  <1>1. e.keys \in Seq(KeyRecords) /\ k \in Text
    BY KeyTexts DEF ElemRecords
  <1>2. ElemText(e) = n \o k
    BY DEF ElemText, KeysText
  <1>3. n \in Text /\ n # <<>> /\ Free(n, {"/"})
    BY NameFacts
  <1>4. CarriedElem(e) => Free(k, {"/"})
    <2>1. CASE e.keys = <<>>
      BY <2>1, KeyTexts, FreeFacts
    <2>2. ASSUME e.keys # <<>>, CarriedElem(e) PROVE Free(k, {"/"})
      <3>1. PICK m : Between(e.keys, m)
        BY <1>1, <2>2, BetweenKeys DEF CarriedElem
      <3>2. PICK a, b \in Tokens : a = "[" /\ b = "]"
        BY TokenFacts
      <3>3. m \in Text /\ Free(m, {"/"}) /\ k = <<a>> \o m \o <<b>>
        BY <3>1, <3>2 DEF Between
      <3>4. <<a>> \in Text /\ <<b>> \in Text /\ Free(<<a>>, {"/"}) /\ Free(<<b>>, {"/"})
        <4>1. a \notin {"/"} /\ b \notin {"/"}
          BY <3>2
        <4> QED
          BY <4>1, FreeOne, TextFacts
      <3>5. <<a>> \o m \in Text /\ Free(<<a>> \o m, {"/"})
        BY <3>3, <3>4, FreeFacts, TextFacts
      <3> HIDE DEF k
      <3> QED
        BY <3>3, <3>4, <3>5, FreeFacts
    <2> QED
      BY <2>1, <2>2
  <1> HIDE DEF n, k
  <1>5. n \o k \in Text /\ n \o k # <<>> /\ (Free(k, {"/"}) => Free(n \o k, {"/"}))
    <2>1. n \o k \in Text /\ (Free(k, {"/"}) => Free(n \o k, {"/"}))
      BY <1>1, <1>3, TextFacts, FreeFacts
    <2>2. Len(n \o k) = Len(n) + Len(k) /\ Len(n) \in Nat \ {0} /\ Len(k) \in Nat
      BY <1>1, <1>3, ConcatProperties, EmptySeq, LenProperties DEF Text
    <2>3. n \o k # <<>>
      <3> DEFINE s == n \o k
      <3>1. Len(s) # 0
        BY <2>2
      <3> HIDE DEF s
      <3>2. s # <<>>
        BY <3>1
      <3> QED
        BY <3>2 DEF s
    <2> QED
      BY <2>1, <2>3
  <1> QED
    BY <1>1, <1>2, <1>4, <1>5 DEF k, n

\* _build_path reads an element as the user meant it.
LEMMA BuildElemOfText ==
    ASSUME NEW e \in ElemRecords, CarriedElem(e)
    PROVE  BuildElem(ElemText(e)) = [name |-> NameOf(e), key |-> KeysMeant(e)]
  <1> DEFINE n == NameOf(e)  k == KeysText(e.keys)  s == ElemText(e)
  <1>1. /\ e.keys \in Seq(KeyRecords) /\ k \in Text /\ s = n \o k /\ s \in Text
        /\ n \in Text /\ Free(n, {"["}) /\ "[" \notin Seqs!ToSet(n)
    BY ElemTexts, NameFacts
  <1>2. CASE e.keys = <<>>
    <2>1. k = <<>>
      BY <1>2, KeyTexts
    <2>2. s = n
      BY <1>1, <2>1, ConcatEmptySeq DEF Text
    <2>3. KeysMeant(e) = NoKeys
      <3>1. DOMAIN e.keys = {}
        BY <1>2
      <3>2. {<<e.keys[i].name>> : i \in DOMAIN e.keys} = {}
        BY <3>1
      <3> QED
        BY <3>2 DEF KeysMeant, NoKeys
    <2> HIDE DEF n, s
    <2>4. BuildElem(s) = [name |-> s, key |-> NoKeys]
      BY <1>1, <2>2 DEF BuildElem
    <2> QED
      BY <2>2, <2>3, <2>4 DEF n, s
  <1>3. CASE e.keys # <<>>
    <2>1. PICK m : Between(e.keys, m)
      BY <1>1, <1>3, BetweenKeys DEF CarriedElem
    <2>2. PICK a, b \in Tokens : a = "[" /\ b = "]"
      BY TokenFacts
    <2>3. /\ m \in Text /\ m # <<>> /\ m[1] \notin {"[", "]"} /\ m[Len(m)] \notin {"[", "]"}
          /\ k = <<a>> \o m \o <<b>> /\ Pairs[m] = PairTexts(e.keys)
      BY <2>1, <2>2 DEF Between
    <2> HIDE DEF n, k, s
    <2>4. <<a>> \in Text /\ <<b>> \in Text /\ <<a>> \o m \in Text
          /\ <<a>> # <<>> /\ <<b>> # <<>>
      BY <2>3, TextFacts
    <2>5. k # <<>> /\ k[1] = a /\ k[Len(k)] = b
      <3>1. <<a>> \o m # <<>> /\ (<<a>> \o m)[1] = <<a>>[1]
        BY <2>3, <2>4, EndsOfConcat DEF Text
      <3> DEFINE u == <<a>> \o m
      <3>2. u \in Text /\ u # <<>> /\ u[1] = a /\ k = u \o <<b>>
        BY <2>3, <2>4, <3>1
      <3> HIDE DEF u
      <3>3. u \o <<b>> # <<>> /\ (u \o <<b>>)[1] = u[1] /\ (u \o <<b>>)[Len(u \o <<b>>)] = <<b>>[Len(<<b>>)]
        BY <2>4, <3>2, EndsOfConcat DEF Text
      <3>4. <<b>>[Len(<<b>>)] = b
        OBVIOUS
      <3> QED
        BY <3>2, <3>3, <3>4
    <2>6. {a, b} \subseteq Seqs!ToSet(s)
      <3>1. Len(k) \in Nat \ {0} /\ Len(n) \in Nat
        BY <1>1, <2>5, EmptySeq, LenProperties DEF Text
      <3>2. Len(s) = Len(n) + Len(k) /\ \A i \in 1..(Len(n) + Len(k)) : s[i] = IF i <= Len(n) THEN n[i] ELSE k[i - Len(n)]
        BY <1>1, ConcatProperties DEF Text
      <3>3. s[Len(n) + 1] = k[1] /\ s[Len(n) + Len(k)] = k[Len(k)]
        BY <3>1, <3>2
      <3>4. Len(n) + 1 \in DOMAIN s /\ Len(n) + Len(k) \in DOMAIN s
        <4>1. DOMAIN s = 1..(Len(n) + Len(k))
          BY <1>1, <3>2, LenProperties DEF Text
        <4> QED
          BY <3>1, <4>1
      <3> QED
        BY <2>5, <3>3, <3>4 DEF Seqs!ToSet
    <2>7. First(s, a) = Len(n) + 1
      <3>1. Free(n, {k[1]})
        BY <1>1, <2>2, <2>5
      <3>2. First(n \o k, k[1]) = Len(n) + 1
        BY <1>1, <2>5, <3>1, FirstBehind DEF Text
      <3> QED
        BY <1>1, <2>5, <3>2
    <2>8. Before(s, Len(n) + 1) = n /\ From(s, Len(n) + 1) = k
      BY <1>1, CutBehind DEF Text
    <2>9. StripBrackets(k) = m
      <3>1. StripBrackets(<<a>> \o m \o <<b>>) = m
        BY <2>2, <2>3, StripBracketed DEF Text
      <3> QED
        BY <2>3, <3>1
    <2>10. KeyMap(Pairs[m]) = KeysMeant(e)
      BY <2>3, KeyMapOfPairs
    <2>11. BuildElem(s) = [name |-> Before(s, First(s, a)), key |-> KeyMap(Pairs[StripBrackets(From(s, First(s, a)))])]
      BY <2>2, <2>6 DEF BuildElem
    <2>12. BuildElem(s) = [name |-> n, key |-> KeysMeant(e)]
      BY <2>7, <2>8, <2>9, <2>10, <2>11
    <2> QED
      BY <2>12 DEF s, n
  <1> QED
    BY <1>2, <1>3
Texts(es) == [i \in DOMAIN es |-> ElemText(es[i])]
Slashed(es) == Concat[[i \in DOMAIN es |-> <<"/">> \o ElemText(es[i])]]

LEMMA SlashedTexts ==
    /\ Slashed(<<>>) = <<>> /\ Texts(<<>>) = <<>>
    /\ \A es \in Seq(ElemRecords) :
           /\ Slashed(es) \in Text /\ Texts(es) \in Seq(Text)
           /\ \A e \in ElemRecords :
                  /\ Slashed(Append(es, e)) = Slashed(es) \o (<<"/">> \o ElemText(e))
                  /\ Texts(Append(es, e)) = Append(Texts(es), ElemText(e))
  <1>1. ASSUME NEW e \in ElemRecords PROVE ElemText(e) \in Text /\ <<"/">> \o ElemText(e) \in Text
    BY ElemTexts, TokenFacts, TextFacts
  <1> DEFINE f == [e \in ElemRecords |-> <<"/">> \o ElemText(e)]
             g == [e \in ElemRecords |-> ElemText(e)]
  <1>2. f \in [ElemRecords -> Text] /\ g \in [ElemRecords -> Text]
    BY <1>1
  <1>3. ASSUME NEW es \in Seq(ElemRecords)
        PROVE  Slashed(es) = Concat[Mapped(f, es)] /\ Texts(es) = Mapped(g, es)
    <2>1. \A i \in DOMAIN es : es[i] \in ElemRecords
      BY ElementOfSeq, LenProperties
    <2>2. [i \in DOMAIN es |-> <<"/">> \o ElemText(es[i])] = Mapped(f, es) /\ Texts(es) = Mapped(g, es)
      BY <2>1 DEF Mapped, Texts
    <2> QED
      BY <2>2 DEF Slashed
  <1>4. Slashed(<<>>) = <<>> /\ Texts(<<>>) = <<>>
    <2>1. Mapped(f, <<>>) = <<>> /\ Mapped(g, <<>>) = <<>> /\ <<>> \in Seq(ElemRecords)
      BY <1>2, MappedFacts, EmptySeq
    <2> QED
      BY <1>3, <2>1, ConcatEquations
  <1>5. ASSUME NEW es \in Seq(ElemRecords) PROVE Slashed(es) \in Text /\ Texts(es) \in Seq(Text)
    <2>1. Mapped(f, es) \in Seq(Text) /\ Mapped(g, es) \in Seq(Text)
      BY <1>2, MappedFacts
    <2> QED
      BY <1>3, <2>1, ConcatEquations
  <1>6. ASSUME NEW es \in Seq(ElemRecords), NEW e \in ElemRecords
        PROVE  /\ Slashed(Append(es, e)) = Slashed(es) \o (<<"/">> \o ElemText(e))
               /\ Texts(Append(es, e)) = Append(Texts(es), ElemText(e))
    <2> DEFINE t == <<"/">> \o ElemText(e)
    <2>1. Append(es, e) \in Seq(ElemRecords) /\ t \in Text
      BY <1>1, AppendProperties
    <2>2. f \in [ElemRecords -> Text] /\ g \in [ElemRecords -> Text] /\ f[e] = t /\ g[e] = ElemText(e)
      BY <1>1
    <2> HIDE DEF f, g, t
    <2>3. Mapped(f, es) \in Seq(Text) /\ Mapped(f, Append(es, e)) = Append(Mapped(f, es), f[e])
      <3>1. f \in [ElemRecords -> Text]
        BY <2>2
      <3> QED
        BY <3>1, MappedText
    <2>4. Mapped(g, es) \in Seq(Text) /\ Mapped(g, Append(es, e)) = Append(Mapped(g, es), g[e])
      BY <2>2, MappedFacts
    <2>5. Concat[Append(Mapped(f, es), t)] = Concat[Mapped(f, es)] \o t
      BY <2>1, <2>3, ConcatEquations
    <2> QED
      BY <1>3, <2>1, <2>2, <2>3, <2>4, <2>5 DEF t
  <1> QED
    BY <1>1, <1>4, <1>5, <1>6

\* All elements of es can be carried by text.
CarriedElems(es) == \A i \in DOMAIN es : CarriedElem(es[i])

LEMMA CarriedAppend ==
    ASSUME NEW es \in Seq(ElemRecords), NEW e \in ElemRecords, CarriedElems(Append(es, e))
    PROVE  CarriedElems(es) /\ CarriedElem(e)
  <1> DEFINE n == Len(es)  a == Append(es, e)
  <1>1. n \in Nat /\ DOMAIN es = 1..n /\ DOMAIN a = 1..(n + 1)
        /\ a[n + 1] = e /\ \A i \in 1..n : a[i] = es[i]
    BY LenProperties, AppendProperties
  <1>2. \A i \in DOMAIN a : CarriedElem(a[i])
    BY DEF CarriedElems
  <1> HIDE DEF n, a
  <1>3. CarriedElem(a[n + 1]) /\ \A i \in 1..n : CarriedElem(a[i])
    BY <1>1, <1>2
  <1>4. \A i \in 1..n : CarriedElem(es[i])
    BY <1>1, <1>3
  <1> QED
    BY <1>1, <1>3, <1>4 DEF CarriedElems

\* split('/') of the elements gives the elements.
LEMMA ElementsOfSlashed ==
    ASSUME NEW es \in Seq(ElemRecords), CarriedElems(es)
    PROVE  Elements[Slashed(es)] = Texts(es)
  <1> DEFINE T == {s \in Seq(ElemRecords) : CarriedElems(s) => Elements[Slashed(s)] = Texts(s)}
  <1>1. <<>> \in T
    BY SlashedTexts, ElementsEquations, EmptySeq
  <1>2. ASSUME NEW s \in Seq(ElemRecords), NEW e \in ElemRecords, s \in T PROVE Append(s, e) \in T
    <2> SUFFICES ASSUME CarriedElems(Append(s, e)) PROVE Elements[Slashed(Append(s, e))] = Texts(Append(s, e))
      BY AppendProperties
    <2>1. CarriedElems(s) /\ CarriedElem(e)
      BY CarriedAppend
    <2> DEFINE t == ElemText(e)  u == Slashed(s)  w == Append(u, "/")
    <2>2. t \in Text /\ t # <<>> /\ Free(t, {"/"}) /\ u \in Text
      BY <2>1, ElemTexts, SlashedTexts
    <2>3. Slashed(Append(s, e)) = u \o (<<"/">> \o t) /\ Texts(Append(s, e)) = Append(Texts(s), t)
      BY SlashedTexts
    <2>4. Elements[u] = Texts(s)
      BY <1>2, <2>1
    <2> HIDE DEF t, u
    <2>5. PICK c \in Tokens : c = "/"
      BY TokenFacts
    <2>6. w \in Text /\ Seqs!Last(w) = "/" /\ Elements[w] = Elements[u]
      <3>1. Append(u, c) \in Text /\ Seqs!Last(Append(u, c)) = c
        BY <2>2, FrontOfAppend DEF Text
      <3>2. Elements[Append(u, c)] = Elements[u]
        BY <2>2, <2>5, ElementsEquations
      <3> QED
        BY <2>5, <3>1, <3>2
    <2>7. u \o (<<"/">> \o t) = w \o t
      <3>1. Append(u, c) \o t = u \o (<<c>> \o t)
        BY <2>2, Regroup DEF Text
      <3> QED
        BY <2>5, <3>1
    <2> HIDE DEF w
    <2>8. Opens(w)
      BY <2>6 DEF Opens
    <2>9. Elements[w \o t] = Append(Elements[w], t)
      BY <2>2, <2>6, <2>8, ElementsOfElement
    <2> QED
      BY <2>3, <2>4, <2>6, <2>7, <2>9
  <1> HIDE DEF T
  <1>3. Seq(ElemRecords) \subseteq T
    BY <1>1, <1>2, SeqInduction
  <1> QED
    BY <1>3 DEF T

\* The text of some elements begins with the first of them.
Begins(es, rest) ==
    /\ rest \in Text /\ (rest # <<>> => rest[1] = "/")
    /\ Slashed(es) = <<"/">> \o (ElemText(es[1]) \o rest)

LEMMA SlashedBegins ==
    ASSUME NEW es \in Seq(ElemRecords), es # <<>>
    PROVE  es[1] \in ElemRecords /\ \E rest : Begins(es, rest)
  <1> DEFINE T == {s \in Seq(ElemRecords) : s # <<>> => \E rest : Begins(s, rest)}
  <1>1. <<>> \in T
    BY EmptySeq
  <1>2. ASSUME NEW s \in Seq(ElemRecords), NEW e \in ElemRecords, s \in T PROVE Append(s, e) \in T
    <2>1. Append(s, e) \in Seq(ElemRecords) /\ \A i \in 1..Len(s) : Append(s, e)[i] = s[i]
      BY AppendProperties
    <2> SUFFICES \E rest : Begins(Append(s, e), rest)
      BY <2>1
    <2>2. PICK c \in Tokens : c = "/"
      BY TokenFacts
    <2> DEFINE t == <<c>> \o ElemText(e)
    <2>3. /\ ElemText(e) \in Text /\ <<c>> \in Text /\ t \in Text /\ Slashed(s) \in Text
          /\ Slashed(Append(s, e)) = Slashed(s) \o t
      BY <2>2, ElemTexts, SlashedTexts, TextFacts
    <2>4. t # <<>> /\ t[1] = c
      <3>1. ElemText(e) # <<>> /\ <<c>> # <<>> /\ <<c>>[1] = c
        BY ElemTexts
      <3> QED
        BY <2>3, <3>1, EndsOfConcat DEF Text
    <2>5. CASE s = <<>>
      <3>1. Append(s, e)[1] = e
        BY <2>5
      <3>2. Slashed(Append(s, e)) = t
        <4>1. <<>> \o t = t
          BY <2>3, ConcatEmptySeq DEF Text
        <4> QED
          BY <2>3, <2>5, <4>1, SlashedTexts
      <3>3. ElemText(e) \o <<>> = ElemText(e)
        BY <2>3, ConcatEmptySeq DEF Text
      <3>4. Begins(Append(s, e), <<>>)
        BY <2>2, <3>1, <3>2, <3>3, TextFacts DEF Begins
      <3> QED
        BY <3>4
    <2>6. CASE s # <<>>
      <3>1. PICK rest : Begins(s, rest)
        BY <1>2, <2>6
      <3>2. Append(s, e)[1] = s[1]
        <4>1. Len(s) \in Nat \ {0}
          BY <2>6, EmptySeq
        <4>2. 1 \in 1..Len(s)
          BY <4>1
        <4> QED
          BY <2>1, <4>2
      <3> DEFINE first == ElemText(s[1])
      <3>3. s[1] \in ElemRecords
        <4>1. 1 \in 1..Len(s)
          BY <2>6, EmptySeq
        <4> QED
          BY <4>1, ElementOfSeq
      <3>4. rest \in Text /\ first \in Text /\ Slashed(s) = <<c>> \o (first \o rest)
            /\ (rest # <<>> => rest[1] = c)
        BY <2>2, <3>1, <3>3, ElemTexts DEF Begins
      <3> HIDE DEF first, t
      <3>5. first \o rest \in Text /\ rest \o t \in Text
        BY <2>3, <3>4, TextFacts
      <3>6. Slashed(Append(s, e)) = <<c>> \o (first \o (rest \o t))
        <4>1. (first \o rest) \o t = first \o (rest \o t)
          <5>1. first \in Text /\ rest \in Text /\ t \in Text
            BY <2>3, <3>4
          <5> QED
            BY <5>1, ConcatAssociative DEF Text
        <4> DEFINE u == first \o rest
        <4>2. u \in Text
          BY <3>5
        <4> HIDE DEF u
        <4>3. (<<c>> \o u) \o t = <<c>> \o (u \o t)
          BY <2>3, <4>2, ConcatAssociative DEF Text
        <4> QED
          BY <2>3, <3>4, <4>1, <4>3 DEF u
      <3>7. (rest \o t)[1] = c
        <4>1. CASE rest = <<>>
          <5>1. <<>> \o t = t
            BY <2>3, ConcatEmptySeq DEF Text
          <5> QED
            BY <2>4, <4>1, <5>1
        <4>2. CASE rest # <<>>
          BY <2>3, <2>4, <3>4, <4>2, EndsOfConcat DEF Text
        <4> QED
          BY <4>1, <4>2
      <3>8. Begins(Append(s, e), rest \o t)
        <4> DEFINE r == rest \o t
        <4>1. r \in Text /\ r[1] = "/" /\ Slashed(Append(s, e)) = <<"/">> \o (ElemText(Append(s, e)[1]) \o r)
          BY <2>2, <3>2, <3>5, <3>6, <3>7 DEF first
        <4> HIDE DEF r
        <4>2. Begins(Append(s, e), r)
          BY <4>1 DEF Begins
        <4> QED
          BY <4>2 DEF r
      <3> QED
        BY <3>8
    <2> QED
      BY <2>5, <2>6
  <1> HIDE DEF T
  <1>3. Seq(ElemRecords) \subseteq T
    BY <1>1, <1>2, SeqInduction
  <1>4. es[1] \in ElemRecords
    <2>1. 1 \in 1..Len(es)
      BY EmptySeq
    <2> QED
      BY <2>1, ElementOfSeq
  <1> QED
    BY <1>3, <1>4 DEF T
-----------------------------------------------------------------------------
(***************************************************************************)
(* The origin of a path.                                                   *)
(***************************************************************************)
LEMMA ElemsTexts ==
    ASSUME NEW es \in Seq(ElemRecords)
    PROVE  /\ ElemsText(es) = IF es = <<>> THEN <<"/">> ELSE Slashed(es)
           /\ ElemsText(es) \in Text /\ ElemsText(es) # <<>> /\ ElemsText(es)[1] = "/"
  <1>1. ElemsText(es) = IF es = <<>> THEN <<"/">> ELSE Slashed(es)
    BY DEF ElemsText, Slashed
  <1>2. CASE es = <<>>
    <2>1. PICK c \in Tokens : c = "/"
      BY TokenFacts
    <2>2. <<c>> \in Text /\ <<c>> # <<>> /\ <<c>>[1] = c
      BY TextFacts
    <2> QED
      BY <1>1, <1>2, <2>1, <2>2
  <1>3. CASE es # <<>>
    <2>1. es[1] \in ElemRecords
      BY <1>3, SlashedBegins
    <2>2. PICK rest : Begins(es, rest)
      BY <1>3, SlashedBegins
    <2>3. PICK c \in Tokens : c = "/"
      BY TokenFacts
    <2> DEFINE body == ElemText(es[1]) \o rest
    <2>4. body \in Text /\ <<c>> \in Text /\ Slashed(es) = <<c>> \o body
      BY <2>1, <2>2, <2>3, ElemTexts, TextFacts DEF Begins
    <2> HIDE DEF body
    <2>5. <<c>> \o body # <<>> /\ (<<c>> \o body)[1] = c
      <3>1. Len(<<c>> \o body) = 1 + Len(body) /\ Len(body) \in Nat /\ (<<c>> \o body)[1] = c
        BY <2>4, ConcatProperties, LenProperties DEF Text
      <3> DEFINE s == <<c>> \o body
      <3>2. Len(s) # 0
        BY <3>1
      <3> HIDE DEF s
      <3>3. s # <<>>
        BY <3>2
      <3> QED
        BY <3>1, <3>3 DEF s
    <2>6. Slashed(es) \in Text
      BY SlashedTexts
    <2> QED
      BY <1>1, <1>3, <2>3, <2>4, <2>5, <2>6
  <1> QED
    BY <1>1, <1>2, <1>3

LEMMA SplitOfText ==
    ASSUME NEW p \in PathRecords
    PROVE  SplitOriginPrefix(AsText(p)) = [origin |-> p.origin, rest |-> ElemsText(p.elems)]
  <1> DEFINE e == ElemsText(p.elems)  o == p.origin
  <1>1. p.elems \in Seq(ElemRecords) /\ (o = NoOrigin \/ o \in Identifiers)
    BY DEF PathRecords
  <1>2. e \in Text /\ e # <<>> /\ e[1] = "/"
    BY <1>1, ElemsTexts
  <1>3. CASE o = NoOrigin
    <2>1. AsText(p) = e
      <3>1. AsText(p) = <<>> \o e
        BY <1>3 DEF AsText
      <3> HIDE DEF e
      <3>2. <<>> \o e = e
        BY <1>2, ConcatEmptySeq DEF Text
      <3> QED
        BY <3>1, <3>2
    <2> HIDE DEF e
    <2>2. ~HasOriginPrefix(e)
      BY <1>2, WordsAssumption DEF HasOriginPrefix, Punctuation
    <2> QED
      BY <1>3, <2>1, <2>2 DEF SplitOriginPrefix, e
  <1>4. CASE o \in Identifiers
    <2>1. PICK c \in Tokens : c = ":"
      BY TokenFacts
    <2>2. o \in Tokens /\ o \in Identifiers /\ o # ""
      BY <1>4, WordsAssumption DEF Tokens
    <2> DEFINE h == <<o, c>>  s == h \o e
    <2>3. AsText(p) = s
      BY <2>1, <2>2 DEF AsText, NoOrigin
    <2>4. h \in Text /\ Len(h) = 2 /\ h[1] = o /\ h[2] = c
      BY <2>2, TextFacts
    <2> HIDE DEF e, h, o
    <2>5. Len(e) \in Nat \ {0}
      BY <1>2, EmptySeq DEF Text
    <2>6. Len(s) = 2 + Len(e) /\ \A i \in 1..(2 + Len(e)) : s[i] = IF i <= 2 THEN h[i] ELSE e[i - 2]
      <3>1. Len(s) = Len(h) + Len(e)
            /\ \A i \in 1..(Len(h) + Len(e)) : s[i] = IF i <= Len(h) THEN h[i] ELSE e[i - Len(h)]
        BY <1>2, <2>4, ConcatProperties DEF Text
      <3> HIDE DEF s
      <3> QED
        BY <2>4, <3>1
    <2>7. From(s, 3) = e
      <3>1. From(h \o e, Len(h) + 1) = e
        BY <1>2, <2>4, CutBehind DEF Text
      <3> QED
        BY <2>4, <3>1
    <2> HIDE DEF s
    <2>8. Len(s) >= 3 /\ s[1] = o /\ s[2] = c /\ s[3] = "/"
      BY <1>2, <2>4, <2>5, <2>6
    <2>9. HasOriginPrefix(s)
      BY <2>1, <2>2, <2>8 DEF HasOriginPrefix
    <2>10. SplitOriginPrefix(s) = [origin |-> o, rest |-> e]
      BY <2>7, <2>8, <2>9 DEF SplitOriginPrefix
    <2> QED
      BY <2>3, <2>10 DEF e, o
  <1> QED
    BY <1>1, <1>3, <1>4

LEMMA TailBehind ==
    ASSUME NEW S, NEW x \in S, NEW t \in Seq(S)
    PROVE  /\ Head(<<x>> \o t) = x /\ Tail(<<x>> \o t) = t /\ <<x>> \o t # <<>>
  <1> DEFINE s == <<x>> \o t
  <1>1. <<x>> \in Seq(S) /\ Len(<<x>>) = 1 /\ <<x>>[1] = x /\ Len(t) \in Nat
    BY Literals, LenProperties
  <1>2. s \in Seq(S) /\ Len(s) = 1 + Len(t) /\ \A i \in 1..(1 + Len(t)) : s[i] = IF i <= 1 THEN <<x>>[i] ELSE t[i - 1]
    BY <1>1, ConcatProperties
  <1> HIDE DEF s
  <1>3. s # <<>> /\ s[1] = x /\ \A i \in 1..Len(t) : s[i + 1] = t[i]
    BY <1>1, <1>2
  <1>4. Head(s) = s[1] /\ Tail(s) \in Seq(S) /\ Len(Tail(s)) = Len(s) - 1
        /\ \A i \in 1..(Len(s) - 1) : Tail(s)[i] = s[i + 1]
    BY <1>2, <1>3, HeadTailProperties
  <1>5. Len(Tail(s)) = Len(t) /\ \A i \in 1..Len(t) : Tail(s)[i] = t[i]
    BY <1>1, <1>2, <1>3, <1>4
  <1>6. Tail(s) = t
    BY <1>4, <1>5, SeqEqual
  <1> QED
    BY <1>3, <1>4, <1>6 DEF s

LEMMA FirstElementOfText ==
    ASSUME NEW es \in Seq(ElemRecords), CarriedElems(es)
    PROVE  FirstElement(ElemsText(es)) = IF es = <<>> THEN <<>> ELSE ElemText(es[1])
  <1>1. PICK c \in Tokens : c = "/"
    BY TokenFacts
  <1>2. CASE es = <<>>
    <2>1. ElemsText(es) = <<c>>
      BY <1>1, <1>2 DEF ElemsText
    <2>2. Head(<<c>>) = c /\ Tail(<<c>>) = <<>> /\ <<c>> # <<>>
      OBVIOUS
    <2>3. "/" \notin Seqs!ToSet(<<>>)
      BY DEF Seqs!ToSet
    <2> QED
      BY <1>1, <1>2, <2>1, <2>2, <2>3 DEF FirstElement
  <1>3. CASE es # <<>>
    <2>1. PICK rest : Begins(es, rest)
      BY <1>3, SlashedBegins
    <2> DEFINE t == ElemText(es[1])  body == t \o rest
    <2>2. t \in Text /\ Free(t, {"/"})
      <3>1. es[1] \in ElemRecords
        BY <1>3, SlashedBegins
      <3>2. 1 \in DOMAIN es
        <4>1. Len(es) \in Nat \ {0} /\ DOMAIN es = 1..Len(es)
          BY <1>3, EmptySeq, LenProperties
        <4> QED
          BY <4>1
      <3>3. CarriedElem(es[1])
        BY <3>2 DEF CarriedElems
      <3> QED
        BY <3>1, <3>3, ElemTexts
    <2>3. rest \in Text /\ (rest # <<>> => rest[1] = c) /\ ElemsText(es) = <<c>> \o body
      BY <1>1, <1>3, <2>1, ElemsTexts DEF Begins
    <2> HIDE DEF t
    <2>4. body \in Text
      BY <2>2, <2>3, TextFacts
    <2>5. CASE rest = <<>>
      <3>1. t \o <<>> = t
        BY <2>2, ConcatEmptySeq DEF Text
      <3>2. body = t
        BY <2>5, <3>1
      <3>3. "/" \notin Seqs!ToSet(t)
        BY <2>2 DEF Free, Seqs!ToSet
      <3> HIDE DEF body
      <3>4. Head(<<c>> \o body) = c /\ Tail(<<c>> \o body) = body /\ <<c>> \o body # <<>>
        BY <2>4, TailBehind DEF Text
      <3>5. FirstElement(<<c>> \o body) = t
        <4> DEFINE s == <<c>> \o body
        <4>1. s # <<>> /\ Head(s) = "/" /\ Tail(s) = t
          BY <1>1, <3>2, <3>4
        <4> HIDE DEF s
        <4>2. FirstElement(s) = t
          BY <3>3, <4>1 DEF FirstElement
        <4> QED
          BY <4>2 DEF s
      <3> QED
        BY <1>3, <2>3, <3>5 DEF t
    <2>6. CASE rest # <<>>
      <3>1. First(body, c) = Len(t) + 1
        <4>1. rest[1] = c /\ Free(t, {rest[1]})
          BY <1>1, <2>2, <2>3, <2>6
        <4>2. First(t \o rest, rest[1]) = Len(t) + 1
          BY <2>2, <2>3, <2>6, <4>1, FirstBehind DEF Text
        <4> QED
          BY <4>1, <4>2
      <3>2. Before(body, Len(t) + 1) = t
        BY <2>2, <2>3, CutBehind DEF Text
      <3>3. c \in Seqs!ToSet(body)
        <4>1. Len(rest) \in Nat \ {0} /\ Len(t) \in Nat
          BY <2>2, <2>3, <2>6, EmptySeq, LenProperties DEF Text
        <4>2. Len(body) = Len(t) + Len(rest) /\ \A i \in 1..(Len(t) + Len(rest)) : body[i] = IF i <= Len(t) THEN t[i] ELSE rest[i - Len(t)]
          BY <2>2, <2>3, ConcatProperties DEF Text
        <4> HIDE DEF body
        <4>3. Len(t) + 1 \in DOMAIN body
          <5>1. DOMAIN body = 1..(Len(t) + Len(rest))
            BY <2>4, <4>2, LenProperties DEF Text
          <5> QED
            BY <4>1, <5>1
        <4>4. body[Len(t) + 1] = rest[1]
          BY <4>1, <4>2
        <4> QED
          BY <2>3, <2>6, <4>3, <4>4 DEF Seqs!ToSet
      <3> HIDE DEF body
      <3>4. Head(<<c>> \o body) = c /\ Tail(<<c>> \o body) = body /\ <<c>> \o body # <<>>
        BY <2>4, TailBehind DEF Text
      <3>5. FirstElement(<<c>> \o body) = t
        <4> DEFINE s == <<c>> \o body
        <4>1. s # <<>> /\ Head(s) = "/" /\ Tail(s) = body
          BY <1>1, <3>4
        <4> HIDE DEF s
        <4>2. FirstElement(s) = t
          BY <1>1, <3>1, <3>2, <3>3, <4>1 DEF FirstElement
        <4> QED
          BY <4>2 DEF s
      <3> QED
        BY <1>3, <2>3, <3>5 DEF t
    <2> QED
      BY <2>5, <2>6
  <1> QED
    BY <1>2, <1>3
LEMMA NamespaceOfText ==
    ASSUME NEW e \in ElemRecords, CarriedElem(e)
    PROVE  NamespaceOrigin(ElemText(e)) = OriginOf(e.ns)
  <1> DEFINE k == KeysText(e.keys)  s == ElemText(e)
  <1>1. PICK c, b \in Tokens : c = ":" /\ b = "["
    BY TokenFacts
  <1>2. /\ e.keys \in Seq(KeyRecords) /\ k \in Text /\ s = NameOf(e) \o k /\ s \in Text
        /\ NameOf(e) \in Text /\ NameOf(e) # <<>>
    BY ElemTexts, NameFacts
  <1>3. k = <<>> \/ (k # <<>> /\ k[1] = b)
    <2>1. CASE e.keys = <<>>
      BY <2>1, KeyTexts
    <2>2. CASE e.keys # <<>>
      <3>1. PICK m : Between(e.keys, m)
        BY <1>2, <2>2, BetweenKeys DEF CarriedElem
      <3>2. PICK d \in Tokens : d = "]"
        BY TokenFacts
      <3>3. m \in Text /\ k = (<<b>> \o m) \o <<d>>
        BY <1>1, <3>1, <3>2 DEF Between
      <3>4. <<d>> \in Text /\ <<b>> \in Text /\ <<d>> # <<>>
        BY TextFacts
      <3> DEFINE u == <<b>> \o m
      <3>5. u \in Text /\ u # <<>> /\ u[1] = b
        <4>1. u \in Text
          BY <3>3, <3>4, TextFacts
        <4>2. Head(u) = b /\ u # <<>>
          BY <3>3, TailBehind DEF Text
        <4> HIDE DEF u
        <4> QED
          BY <4>1, <4>2
      <3> HIDE DEF u, k
      <3>6. u \o <<d>> # <<>> /\ (u \o <<d>>)[1] = u[1]
        BY <3>4, <3>5, EndsOfConcat DEF Text
      <3> QED
        BY <3>3, <3>5, <3>6 DEF u
    <2> QED
      BY <2>1, <2>2
  <1>4. e.name \in Words /\ (e.ns = "" \/ e.ns \in Words)
    BY DEF ElemRecords
  <1>5. /\ e.name \in Tokens /\ e.name \notin {c, b}
        /\ e.ns \in Words => e.ns \in Tokens /\ e.ns \notin {c, b} /\ e.ns # ""
    BY <1>1, <1>4, TokenFacts
  <1>6. CASE e.ns \in Words
    <2> DEFINE n == e.ns  t == <<c, e.name>> \o k
    <2>1. NameOf(e) = <<n, c, e.name>>
      BY <1>1, <1>5, <1>6 DEF NameOf
    <2>2. <<n>> \in Text /\ <<c, e.name>> \in Text /\ t \in Text /\ Len(<<n>>) = 1
      BY <1>2, <1>5, <1>6, TextFacts
    <2>3. s = <<n>> \o t
      <3>1. <<n, c, e.name>> = <<n>> \o <<c, e.name>>
        BY <1>5, <1>6, RegroupThree
      <3> HIDE DEF n, k, s
      <3>2. (<<n>> \o <<c, e.name>>) \o k = <<n>> \o (<<c, e.name>> \o k)
        BY <1>2, <2>2, ConcatAssociative DEF Text
      <3> QED
        BY <1>2, <2>1, <3>1, <3>2
    <2>4. t # <<>> /\ t[1] = c
      <3>1. Len(t) = 2 + Len(k) /\ Len(k) \in Nat /\ t[1] = c
        <4>1. Len(<<c, e.name>>) = 2 /\ <<c, e.name>>[1] = c
          OBVIOUS
        <4> DEFINE w == <<c, e.name>>
        <4>2. w \in Text /\ Len(w) = 2 /\ w[1] = c
          BY <2>2, <4>1
        <4> HIDE DEF w, k
        <4>3. Len(w \o k) = Len(w) + Len(k) /\ \A i \in 1..(Len(w) + Len(k)) : (w \o k)[i] = IF i <= Len(w) THEN w[i] ELSE k[i - Len(w)]
          BY <1>2, <4>2, ConcatProperties DEF Text
        <4>4. Len(k) \in Nat
          BY <1>2, LenProperties DEF Text
        <4> QED
          BY <4>2, <4>3, <4>4 DEF w
      <3> HIDE DEF t
      <3> QED
        BY <3>1
    <2>5. Free(<<n>>, {t[1]})
      BY <1>5, <1>6, <2>4, FreeOne
    <2> HIDE DEF n, t, s
    <2>6. First(s, c) = 2
      <3>1. First(<<n>> \o t, t[1]) = Len(<<n>>) + 1
        BY <2>2, <2>4, <2>5, FirstBehind DEF Text
      <3> QED
        BY <2>2, <2>3, <2>4, <3>1
    <2>7. Before(s, 2) = <<n>>
      <3>1. Before(<<n>> \o t, Len(<<n>>) + 1) = <<n>>
        BY <2>2, CutBehind DEF Text
      <3> QED
        BY <2>2, <2>3, <3>1
    <2>8. b \notin Seqs!ToSet(<<n>>)
      <3>1. Free(<<n>>, {b})
        BY <1>5, <1>6, FreeOne DEF n
      <3> QED
        BY <3>1 DEF Free, Seqs!ToSet
    <2>9. s[1] = n /\ s[2] = c /\ 2 \in DOMAIN s
      <3>1. Len(s) = 1 + Len(t) /\ \A i \in 1..(1 + Len(t)) : s[i] = IF i <= 1 THEN <<n>>[i] ELSE t[i - 1]
        BY <2>2, <2>3, ConcatProperties DEF Text
      <3>2. Len(t) \in Nat \ {0}
        BY <2>2, <2>4, EmptySeq DEF Text
      <3>3. DOMAIN s = 1..(1 + Len(t))
        BY <1>2, <3>1, LenProperties DEF Text
      <3>4. s[1] = <<n>>[1] /\ s[2] = t[1]
        BY <3>1, <3>2
      <3>5. <<n>>[1] = n
        OBVIOUS
      <3> QED
        BY <2>4, <3>2, <3>3, <3>4, <3>5
    <2>10. c \in Seqs!ToSet(s)
      BY <2>9 DEF Seqs!ToSet
    <2>11. NamespaceOrigin(s) = OriginOf(n)
      BY <1>1, <2>6, <2>7, <2>8, <2>9, <2>10 DEF NamespaceOrigin
    <2> QED
      BY <2>11 DEF s, n
  <1>7. CASE e.ns = ""
    <2> DEFINE n == <<e.name>>
    <2>1. OriginOf(e.ns) = NoOrigin
      BY <1>7, WordsAssumption DEF OriginOf
    <2>2. NameOf(e) = n /\ n \in Text /\ Len(n) = 1 /\ n[1] = e.name
      BY <1>5, <1>7, TextFacts DEF NameOf
    <2> HIDE DEF n, k, s
    <2>3. /\ Len(k) \in Nat /\ Len(s) = 1 + Len(k) /\ DOMAIN s = 1..(1 + Len(k))
          /\ \A i \in 1..(1 + Len(k)) : s[i] = IF i <= 1 THEN n[i] ELSE k[i - 1]
      <3>1. Len(s) = 1 + Len(k) /\ Len(k) \in Nat
            /\ \A i \in 1..(1 + Len(k)) : s[i] = IF i <= 1 THEN n[i] ELSE k[i - 1]
        <4>1. s = n \o k /\ n \in Text /\ k \in Text
          BY <1>2, <2>2
        <4>2. Len(n \o k) = Len(n) + Len(k)
              /\ \A i \in 1..(Len(n) + Len(k)) : (n \o k)[i] = IF i <= Len(n) THEN n[i] ELSE k[i - Len(n)]
          BY <4>1, ConcatProperties DEF Text
        <4>3. Len(k) \in Nat
          BY <4>1, LenProperties DEF Text
        <4> QED
          BY <2>2, <4>1, <4>2, <4>3
      <3>2. DOMAIN s = 1..Len(s)
        BY <1>2, LenProperties DEF Text
      <3> QED
        BY <3>1, <3>2
    <2>4. s[1] = e.name
      BY <2>2, <2>3
    <2>5. SUFFICES ASSUME c \in Seqs!ToSet(s) PROVE b \in Seqs!ToSet(Before(s, First(s, c)))
      BY <1>1, <2>1 DEF NamespaceOrigin, s
    <2> DEFINE places == {i \in DOMAIN s : s[i] = c}
    <2>6. places # {} /\ places \subseteq Nat
      BY <2>3, <2>5 DEF Seqs!ToSet
    <2>7. PICK f \in places : \A i \in places : f <= i
      BY <2>6, MinOfNats
    <2>8. First(s, c) = f
      <3>1. Seqs!Min(places) = f
        <4>1. places \in SUBSET Int
          BY <2>6
        <4> HIDE DEF places
        <4> QED
          BY <2>7, <4>1, MinMax
      <3> QED
        BY <3>1 DEF First
    <2>9. f \in 1..(1 + Len(k)) /\ s[f] = c
      BY <2>3, <2>7
    <2>10. f # 1
      BY <1>5, <2>4, <2>9
    <2>11. k # <<>>
      <3>1. Len(k) # 0
        BY <2>3, <2>9, <2>10
      <3> QED
        BY <3>1
    <2>12. s[2] = b
      <3>1. k[1] = b /\ Len(k) # 0
        BY <1>3, <2>11, EmptySeq, <1>2 DEF Text
      <3> QED
        BY <2>3, <3>1
    <2>13. f - 1 \in Nat /\ f - 1 >= 2 /\ f - 1 <= Len(s)
      <3>1. f # 2
        BY <1>1, <2>9, <2>12
      <3> QED
        BY <2>3, <2>9, <2>10, <3>1
    <2>14. b \in Seqs!ToSet(Before(s, f))
      <3> DEFINE h == f - 1  lo == 1
      <3>1. h \in Nat /\ h >= 2 /\ h <= Len(s) /\ \A i \in 1..h : s[i] \in Tokens
        <4>1. \A i \in 1..Len(s) : s[i] \in Tokens
          BY <1>2, ElementOfSeq DEF Text
        <4>2. Len(s) \in Nat
          BY <2>3
        <4>3. h \in Nat /\ h >= 2 /\ h <= Len(s)
          BY <2>13
        <4> HIDE DEF h
        <4> QED
          BY <4>1, <4>2, <4>3
      <3> HIDE DEF h
      <3>2. /\ SubSeq(s, 1, h) \in Seq(Tokens) /\ Len(SubSeq(s, 1, h)) = h
            /\ \A i \in 1..h : SubSeq(s, 1, h)[i] = s[i]
        <4>1. lo \in Int /\ h \in Int /\ \A i \in lo..h : s[i] \in Tokens
          BY <3>1
        <4> HIDE DEF lo
        <4>2. /\ SubSeq(s, lo, h) \in Seq(Tokens) /\ Len(SubSeq(s, lo, h)) = IF lo <= h THEN h - lo + 1 ELSE 0
              /\ \A i \in 1..(h - lo + 1) : SubSeq(s, lo, h)[i] = s[lo + i - 1]
          BY <4>1, SubSeqProperties
        <4> QED
          BY <3>1, <4>2 DEF lo
      <3>3. 2 \in DOMAIN SubSeq(s, 1, h)
        <4>1. DOMAIN SubSeq(s, 1, h) = 1..h
          BY <3>2, LenProperties
        <4> QED
          BY <3>1, <4>1
      <3>4. SubSeq(s, 1, h)[2] = b
        BY <2>12, <3>1, <3>2
      <3>5. Before(s, f) = SubSeq(s, 1, h)
        BY DEF Before, h
      <3> QED
        BY <3>3, <3>4, <3>5 DEF Seqs!ToSet
    <2> QED
      BY <2>8, <2>14
  <1> QED
    BY <1>4, <1>6, <1>7
-----------------------------------------------------------------------------
(***************************************************************************)
(* The round trip.                                                         *)
(***************************************************************************)
LEMMA CarriedMeans ==
    ASSUME NEW p \in PathRecords
    PROVE  /\ p.elems \in Seq(ElemRecords)
           /\ Carried(p) <=> CarriedElems(p.elems)
  <1>1. p.elems \in Seq(ElemRecords)
    BY DEF PathRecords
  <1>2. \A kv : Seqs!ToSet(kv.value) \cap {"/", "[", "]"} = {} <=> CarriedKey(kv)
    BY DEF Seqs!ToSet, CarriedKey, Free
  <1>3. Carried(p) <=> CarriedElems(p.elems)
    BY <1>2 DEF Carried, CarriedElems, CarriedElem, CarriedKeys
  <1> QED
    BY <1>1, <1>3

LEMMA BuildElemsOfText ==
    ASSUME NEW p \in PathRecords, Carried(p)
    PROVE  BuildElems(AsText(p)) = PlaceElems(p.elems)
  <1> DEFINE es == p.elems  text == ElemsText(es)
  <1>1. es \in Seq(ElemRecords) /\ CarriedElems(es)
    BY CarriedMeans
  <1>2. SplitOriginPrefix(AsText(p)).rest = text
    BY SplitOfText
  <1> HIDE DEF es
  <1>3. Elements[text] = Texts(es)
    <2>1. CASE es = <<>>
      <3>1. PICK c \in Tokens : c = "/"
        BY TokenFacts
      <3>2. text = Append(<<>>, c)
        BY <2>1, <3>1, Literals DEF ElemsText
      <3>3. Elements[Append(<<>>, c)] = <<>>
        BY <3>1, ElementsEquations, TextFacts
      <3> QED
        BY <2>1, <3>2, <3>3, SlashedTexts
    <2>2. CASE es # <<>>
      <3>1. text = Slashed(es)
        BY <1>1, <2>2, ElemsTexts
      <3> QED
        BY <1>1, <3>1, ElementsOfSlashed
    <2> QED
      BY <2>1, <2>2
  <1>4. DOMAIN Texts(es) = DOMAIN es /\ \A i \in DOMAIN es : Texts(es)[i] = ElemText(es[i])
    BY DEF Texts
  <1>5. \A i \in DOMAIN es : BuildElem(ElemText(es[i])) = [name |-> NameOf(es[i]), key |-> KeysMeant(es[i])]
    <2> SUFFICES ASSUME NEW i \in DOMAIN es
                 PROVE  BuildElem(ElemText(es[i])) = [name |-> NameOf(es[i]), key |-> KeysMeant(es[i])]
      OBVIOUS
    <2>1. es[i] \in ElemRecords /\ CarriedElem(es[i])
      BY <1>1, ElementOfSeq, LenProperties DEF CarriedElems
    <2> QED
      BY <2>1, BuildElemOfText
  <1> HIDE DEF text
  <1>6. BuildElems(AsText(p)) = [i \in DOMAIN es |-> BuildElem(ElemText(es[i]))]
    BY <1>2, <1>3, <1>4 DEF BuildElems
  <1> QED
    BY <1>5, <1>6 DEF PlaceElems, es

\* The path that _build_path makes of the text of a path, for every path whose
\* key values are free of slashes and brackets: its elements are those the user
\* meant, with their namespaces and keys, and its origin is the argument, else
\* the origin in front, else the one the namespace of the first element stands
\* for (gnmi_client.py:556-648).
THEOREM BuildPathOfText ==
    ASSUME NEW p \in PathRecords, Carried(p), NEW origin \in Words \cup {NoOrigin, NotGiven}
    PROVE  BuildPath(AsText(p), origin) =
               [origin |-> IF origin # NotGiven THEN origin ELSE Own(p),
                elem   |-> PlaceElems(p.elems)]
  <1> DEFINE es == p.elems  text == AsText(p)
  <1>1. es \in Seq(ElemRecords) /\ CarriedElems(es)
    BY CarriedMeans
  <1>2. SplitOriginPrefix(text) = [origin |-> p.origin, rest |-> ElemsText(es)]
    BY SplitOfText
  <1>3. FirstElement(ElemsText(es)) = IF es = <<>> THEN <<>> ELSE ElemText(es[1])
    BY <1>1, FirstElementOfText
  <1>4. NamespaceOrigin(FirstElement(ElemsText(es))) = IF es = <<>> THEN NoOrigin ELSE OriginOf(es[1].ns)
    <2> HIDE DEF es
    <2>1. CASE es = <<>>
      <3>1. ":" \notin Seqs!ToSet(<<>>)
        BY DEF Seqs!ToSet
      <3>2. NamespaceOrigin(<<>>) = NoOrigin
        BY <3>1 DEF NamespaceOrigin
      <3> QED
        BY <1>3, <2>1, <3>2
    <2>2. CASE es # <<>>
      <3>1. es[1] \in ElemRecords
        BY <1>1, <2>2, SlashedBegins
      <3>2. 1 \in DOMAIN es
        <4>1. Len(es) \in Nat \ {0} /\ DOMAIN es = 1..Len(es)
          BY <1>1, <2>2, EmptySeq, LenProperties
        <4> QED
          BY <4>1
      <3>3. CarriedElem(es[1])
        BY <1>1, <3>2 DEF CarriedElems
      <3>4. NamespaceOrigin(ElemText(es[1])) = OriginOf(es[1].ns)
        BY <3>1, <3>3, NamespaceOfText
      <3> QED
        BY <1>3, <2>2, <3>4
    <2> QED
      BY <2>1, <2>2
  <1>5. BuildElems(text) = PlaceElems(es)
    BY BuildElemsOfText
  <1> HIDE DEF text
  <1>6. FinalOrigin(text, origin) = IF origin # NotGiven THEN origin ELSE Own(p)
    <2>1. Own(p) = IF p.origin # NoOrigin THEN p.origin ELSE IF es = <<>> THEN NoOrigin ELSE OriginOf(es[1].ns)
      BY DEF Own
    <2> HIDE DEF es
    <2> QED
      BY <1>2, <1>4, <2>1 DEF FinalOrigin
  <1> QED
    BY <1>5, <1>6 DEF BuildPath, text

\* Two paths that are written alike have the same origin in front and name the
\* same elements, whatever tokens their values hold but slashes and brackets
\* (gnmi_client.py:582-616).
THEOREM TextIsUnambiguous ==
    ASSUME NEW p \in PathRecords, NEW q \in PathRecords, Carried(p), Carried(q), AsText(p) = AsText(q)
    PROVE  PlaceElems(p.elems) = PlaceElems(q.elems) /\ p.origin = q.origin
  <1>1. BuildElems(AsText(p)) = PlaceElems(p.elems) /\ BuildElems(AsText(q)) = PlaceElems(q.elems)
    BY BuildElemsOfText
  <1>2. SplitOriginPrefix(AsText(p)).origin = p.origin /\ SplitOriginPrefix(AsText(q)).origin = q.origin
    BY SplitOfText
  <1> QED
    BY <1>1, <1>2

LEMMA ElemsTextIsUnambiguous ==
    ASSUME NEW p \in PathRecords, NEW q \in PathRecords, Carried(p), Carried(q),
           ElemsText(p.elems) = ElemsText(q.elems)
    PROVE  PlaceElems(p.elems) = PlaceElems(q.elems)
  <1> DEFINE bare(r) == [origin |-> NoOrigin, elems |-> r.elems]
  <1>1. ASSUME NEW r \in PathRecords, Carried(r)
        PROVE  /\ bare(r) \in PathRecords /\ Carried(bare(r))
               /\ PlaceElems(bare(r).elems) = PlaceElems(r.elems)
               /\ SplitOriginPrefix(AsText(bare(r))) = [origin |-> NoOrigin, rest |-> ElemsText(r.elems)]
    <2>1. bare(r) \in PathRecords /\ Carried(bare(r)) /\ bare(r).elems = r.elems /\ bare(r).origin = NoOrigin
      BY <1>1 DEF PathRecords, Carried
    <2> HIDE DEF bare
    <2> QED
      BY <2>1, SplitOfText
  <1>2. ASSUME NEW r \in PathRecords, Carried(r)
        PROVE  LET elements == Elements[ElemsText(r.elems)]
               IN  [i \in DOMAIN elements |-> BuildElem(elements[i])] = PlaceElems(r.elems)
    <2>1. BuildElems(AsText(bare(r))) = PlaceElems(r.elems)
      <3> HIDE DEF bare
      <3> QED
        BY <1>1, <1>2, BuildElemsOfText
    <2>2. SplitOriginPrefix(AsText(bare(r))) = [origin |-> NoOrigin, rest |-> ElemsText(r.elems)]
      <3> HIDE DEF bare
      <3> QED
        BY <1>1, <1>2
    <2> HIDE DEF bare
    <2> QED
      BY <2>1, <2>2 DEF BuildElems
  <1> QED
    BY <1>2
LEMMA OneInSequence ==
    ASSUME NEW k
    PROVE  Seqs!SetToSeq({k}) = <<k>>
  <1>1. Seqs!Cardinality({k}) = Cardinality({k})
    BY Zenon DEF Cardinality, Seqs!Cardinality
  <1>2. Cardinality({k}) = 1
    BY FS_Singleton
  <1>3. \A f \in [1..1 -> {k}] : f = <<k>>
    OBVIOUS
  <1>4. <<k>> \in [1..1 -> {k}] /\ Seqs!IsInjective(<<k>>)
    BY DEF Seqs!IsInjective
  <1> QED
    BY <1>1, <1>2, <1>3, <1>4 DEF Seqs!SetToSeq

LEMMA PrintElemOfPlace ==
    ASSUME NEW e \in ElemRecords, Len(e.keys) <= 1
    PROVE  PrintElem([name |-> NameOf(e), key |-> KeysMeant(e)]) = ElemText(e)
  <1> DEFINE n == NameOf(e)  key == KeysMeant(e)  elem == [name |-> n, key |-> key]
  <1>1. /\ e.keys \in Seq(KeyRecords) /\ n \in Text
        /\ ElemText(e) = n \o KeysText(e.keys)
    BY ElemTexts, NameFacts
  <1>2. DOMAIN key = {<<e.keys[i].name>> : i \in DOMAIN e.keys}
    BY DEF KeysMeant
  <1> HIDE DEF n
  <1>3. CASE e.keys = <<>>
    <2>1. DOMAIN key = {}
      <3>1. DOMAIN e.keys = {}
        BY <1>3
      <3> QED
        BY <1>2, <3>1
    <2>2. n \o <<>> = n
      BY <1>1, ConcatEmptySeq DEF Text
    <2> HIDE DEF key
    <2>3. PrintElem(elem) = n
      BY <2>1 DEF PrintElem
    <2> QED
      BY <1>1, <1>3, <2>2, <2>3, KeyTexts DEF n, key
  <1>4. CASE e.keys # <<>>
    <2> DEFINE kv == e.keys[1]  k == <<kv.name>>
    <2>1. Len(e.keys) = 1 /\ DOMAIN e.keys = {1} /\ kv \in KeyRecords
      <3>1. Len(e.keys) \in Nat \ {0} /\ DOMAIN e.keys = 1..Len(e.keys)
        BY <1>1, <1>4, EmptySeq, LenProperties
      <3>2. Len(e.keys) = 1
        <4> DEFINE m == Len(e.keys)
        <4>1. m \in Nat \ {0} /\ m <= 1
          BY <3>1
        <4> HIDE DEF m
        <4>2. m = 1
          BY <4>1
        <4> QED
          BY <4>2 DEF m
      <3> QED
        BY <1>1, <3>1, <3>2, ElementOfSeq
    <2>2. DOMAIN key = {k}
      BY <1>2, <2>1
    <2>3. key[k] = kv.value
      <3>1. (CHOOSE i \in DOMAIN e.keys : <<e.keys[i].name>> = k) = 1
        BY <2>1
      <3>2. key[k] = e.keys[CHOOSE i \in DOMAIN e.keys : <<e.keys[i].name>> = k].value
        BY <2>1 DEF KeysMeant
      <3> QED
        BY <3>1, <3>2
    <2>4. KeysText(e.keys) = KeyText(kv)
      <3>1. e.keys = Append(<<>>, kv)
        <4>1. Append(<<>>, kv) \in Seq(KeyRecords) /\ Len(Append(<<>>, kv)) = 1 /\ Append(<<>>, kv)[1] = kv
          <5> HIDE DEF kv
          <5> QED
            BY <2>1, AppendProperties, EmptySeq
        <4> QED
          BY <1>1, <2>1, <4>1, SeqEqual
      <3> HIDE DEF kv
      <3>2. KeysText(Append(<<>>, kv)) = KeysText(<<>>) \o KeyText(kv) /\ KeyText(kv) \in Text
        BY <2>1, KeyTexts, EmptySeq
      <3>3. <<>> \o KeyText(kv) = KeyText(kv)
        BY <3>2, ConcatEmptySeq DEF Text
      <3> QED
        BY <3>1, <3>2, <3>3, KeyTexts
    <2> DEFINE pair == k \o <<"=">> \o kv.value
    <2>5. k \in Text /\ kv.value \in Text /\ pair \in Text
      <3>1. k \in Text /\ <<"=">> \in Text /\ kv.value \in Text
        BY <2>1, TokenFacts, TextFacts DEF KeyRecords
      <3>2. k \o <<"=">> \in Text
        BY <3>1, TextFacts
      <3> HIDE DEF k, kv
      <3> QED
        BY <3>1, <3>2, TextFacts
    <2>6. KeyText(kv) = <<"[">> \o pair \o <<"]">>
      <3>1. PICK a, b, q \in Tokens : a = "[" /\ b = "]" /\ q = "="
        BY TokenFacts
      <3> DEFINE w == kv.name  v == kv.value
      <3>2. w \in Tokens /\ v \in Text
        BY <2>1, TokenFacts DEF KeyRecords
      <3>3. KeyText(kv) = <<a, w, q>> \o v \o <<b>>
        BY <3>1 DEF KeyText
      <3>4. pair = (<<w>> \o <<q>>) \o v
        BY <3>1
      <3> HIDE DEF w, v, pair
      <3>5. <<a, w, q>> = <<a>> \o <<w, q>>
        BY <3>2, RegroupThree
      <3>6. <<w, q>> = <<w>> \o <<q>>
        BY <3>2, RegroupTwo
      <3>7. <<a>> \in Text /\ <<w, q>> \in Text
        BY <3>2, TextFacts
      <3>8. (<<a>> \o <<w, q>>) \o v = <<a>> \o (<<w, q>> \o v)
        BY <3>2, <3>7, ConcatAssociative DEF Text
      <3> QED
        BY <3>1, <3>3, <3>4, <3>5, <3>6, <3>8
    <2>7. Seqs!SetToSeq(DOMAIN key) = <<k>>
      <3> HIDE DEF key, k
      <3> QED
        BY <2>2, OneInSequence
    <2>8. Concat[<<pair>>] = pair
      <3> HIDE DEF pair
      <3>1. Concat[Append(<<>>, pair)] = <<>> \o pair /\ Append(<<>>, pair) = <<pair>>
        BY <2>5, ConcatEquations, EmptySeq, Literals
      <3>2. <<>> \o pair = pair
        BY <2>5, ConcatEmptySeq DEF Text
      <3> QED
        BY <3>1, <3>2
    <2> DEFINE keys == Seqs!SetToSeq(DOMAIN key)
               printed(i) == (IF i = 1 THEN <<>> ELSE <<",">>) \o keys[i] \o <<"=">> \o key[keys[i]]
    <2>9. PrintElem(elem) = n \o <<"[">> \o Concat[[i \in DOMAIN keys |-> printed(i)]] \o <<"]">>
      <3> HIDE DEF key
      <3>1. elem.name = n /\ elem.key = key /\ DOMAIN key # {}
        BY <2>2
      <3> HIDE DEF elem
      <3> QED
        BY <3>1 DEF PrintElem
    <2>10. [i \in DOMAIN keys |-> printed(i)] = <<pair>>
      <3>1. DOMAIN keys = {1} /\ keys[1] = k
        BY <2>7
      <3>2. printed(1) = pair
        <4>1. <<>> \o k = k
          <5> HIDE DEF k
          <5> QED
            BY <2>5, ConcatEmptySeq DEF Text
        <4>2. printed(1) = (<<>> \o k) \o <<"=">> \o key[k]
          <5> HIDE DEF keys, key, k
          <5> QED
            BY <3>1
        <4> HIDE DEF printed, key, k
        <4> QED
          BY <2>3, <4>1, <4>2
      <3> HIDE DEF keys, printed, pair
      <3>3. [i \in DOMAIN keys |-> printed(i)] = [i \in {1} |-> pair]
        BY <3>1, <3>2
      <3>4. <<pair>> = [i \in {1} |-> pair]
        OBVIOUS
      <3> QED
        BY <3>3, <3>4
    <2>11. PrintElem(elem) = n \o KeyText(kv)
      <3>1. PrintElem(elem) = n \o <<"[">> \o pair \o <<"]">>
        <4> HIDE DEF keys, printed, pair, elem
        <4> QED
          BY <2>8, <2>9, <2>10
      <3>2. <<"[">> \in Text /\ <<"]">> \in Text
        BY TokenFacts, TextFacts
      <3> HIDE DEF pair, kv
      <3> DEFINE a == <<"[">>  b == <<"]">>
      <3>3. a \in Text /\ b \in Text /\ a \o pair \in Text
        BY <2>5, <3>2, TextFacts
      <3> HIDE DEF a, b
      <3>4. (n \o a) \o pair = n \o (a \o pair)
        BY <1>1, <2>5, <3>3, ConcatAssociative DEF Text
      <3> DEFINE u == a \o pair
      <3>5. u \in Text
        BY <3>3
      <3> HIDE DEF u
      <3>6. (n \o u) \o b = n \o (u \o b)
        <4>1. n \in Text /\ u \in Text /\ b \in Text
          BY <1>1, <3>3, <3>5
        <4> QED
          BY <4>1, ConcatAssociative DEF Text
      <3> QED
        BY <2>6, <3>1, <3>4, <3>6 DEF u, a, b
    <2> QED
      BY <1>1, <2>4, <2>11 DEF n
  <1> QED
    BY <1>3, <1>4

\* _path_to_string prints a path that _build_path made of text like the user
\* wrote it, without its origin, if no element has more than one key.
THEOREM PathToStringOfPlace ==
    ASSUME NEW p \in PathRecords, OneKey(p), NEW origin
    PROVE  PathToString([origin |-> origin, elem |-> PlaceElems(p.elems)]) = ElemsText(p.elems)
  <1> DEFINE es == p.elems  path == [origin |-> origin, elem |-> PlaceElems(es)]
  <1>1. es \in Seq(ElemRecords)
    BY CarriedMeans
  <1>2. \A i \in DOMAIN es : PrintElem(PlaceElems(es)[i]) = ElemText(es[i])
    <2> SUFFICES ASSUME NEW i \in DOMAIN es PROVE PrintElem(PlaceElems(es)[i]) = ElemText(es[i])
      OBVIOUS
    <2>1. es[i] \in ElemRecords /\ Len(es[i].keys) <= 1
      BY <1>1, ElementOfSeq, LenProperties DEF OneKey
    <2>2. PlaceElems(es)[i] = [name |-> NameOf(es[i]), key |-> KeysMeant(es[i])]
      BY DEF PlaceElems
    <2> HIDE DEF es
    <2> QED
      BY <2>1, <2>2, PrintElemOfPlace
  <1>3. DOMAIN PlaceElems(es) = DOMAIN es
    BY DEF PlaceElems
  <1>4. PlaceElems(es) = <<>> <=> es = <<>>
    <2>1. DOMAIN <<>> = {}
      OBVIOUS
    <2>2. DOMAIN es = {} => es = <<>>
      <3> HIDE DEF es
      <3>1. es # <<>> => Len(es) \in Nat \ {0} /\ DOMAIN es = 1..Len(es)
        BY <1>1, EmptySeq, LenProperties
      <3>2. es # <<>> => 1 \in DOMAIN es
        BY <3>1
      <3> QED
        BY <3>2
    <2>3. es = <<>> => PlaceElems(es) = <<>>
      BY DEF PlaceElems
    <2> QED
      BY <1>3, <2>1, <2>2, <2>3
  <1> HIDE DEF es
  <1>5. [i \in DOMAIN PlaceElems(es) |-> <<"/">> \o PrintElem(PlaceElems(es)[i])] =
            [i \in DOMAIN es |-> <<"/">> \o ElemText(es[i])]
    BY <1>2, <1>3
  <1>6. path.elem = PlaceElems(es)
    OBVIOUS
  <1> HIDE DEF path
  <1>7. PathToString(path) = ElemsText(es)
    BY <1>4, <1>5, <1>6 DEF PathToString, ElemsText
  <1> QED
    BY <1>7 DEF path, es
=============================================================================
