---------------------------- MODULE LineReaderProofs ----------------------------
(***************************************************************************)
(* Proofs about the assembly of lines, for packets of any size and texts of *)
(* any length.  The search, the growth of the vector and the lines of a     *)
(* text are recursive functions, so the first parts prove that such         *)
(* functions exist and what they compute, by induction; the last part is    *)
(* the invariant of handler_read's loop.                                    *)
(***************************************************************************)
EXTENDS LineReader, Integers, WellFoundedInduction, SequenceTheorems, TLAPS

(* Numbers and induction.  The library's theorems about induction take a    *)
(* predicate, which the provers do not instantiate; its theorem about the   *)
(* least element of a set needs none.                                       *)
Below == {p \in Nat \X Nat : p[1] < p[2]}

LEMMA BelowWellFounded == IsWellFoundedOn(Below, Nat)
<1>1. Below = OpToRel(<, Nat)
  BY DEF Below, OpToRel
<1> QED BY <1>1, NatLessThanWellFounded

LEMMA InBelow == \A x, y \in Nat : x < y => <<x, y>> \in Below
BY DEF Below

(* A set of numbers has a least one.                                        *)
LEMMA Least ==
    ASSUME NEW T, T \subseteq Nat, T # {}
    PROVE  \E x \in T : \A y \in T : x <= y
<1>1. PICK x \in T : \A y \in T : ~ (<<y, x>> \in Below)
  BY BelowWellFounded, WFMin
<1>2. \A y \in T : ~ (y < x)
  BY <1>1, InBelow
<1> QED BY <1>1, <1>2

(* Induction, for a set instead of a predicate.                             *)
LEMMA Reaches ==
    ASSUME NEW T, 0 \in T, \A n \in Nat : n \in T => n + 1 \in T
    PROVE  Nat \subseteq T
<1> SUFFICES ASSUME Nat \ T # {} PROVE FALSE
  OBVIOUS
<1>1. PICK x \in Nat \ T : \A y \in Nat \ T : x <= y
  BY Least
<1>2. x # 0 /\ x - 1 \in Nat /\ ~ (x <= x - 1) /\ (x - 1) + 1 = x
  BY <1>1
<1>3. x - 1 \in T
  BY <1>1, <1>2
<1> QED BY <1>1, <1>2, <1>3

(* A function may be defined by its first value and by what comes next.     *)
Follows(f, b, t, first, next) ==
    f[b] = first /\ \A n \in b + 1 .. b + t : f[n] = next[<<n, f[n - 1]>>]

LEMMA Recursion ==
    ASSUME NEW V, NEW b \in Nat, NEW first \in V, NEW next \in [Nat \X V -> V], NEW t \in Nat
    PROVE  \E f \in [b .. b + t -> V] : Follows(f, b, t, first, next)
<1> DEFINE T == {m \in Nat : \E f \in [b .. b + m -> V] : Follows(f, b, m, first, next)}
<1>1. 0 \in T
  <2> DEFINE f == [n \in b .. b + 0 |-> first]
  <2>1. f \in [b .. b + 0 -> V] /\ Follows(f, b, 0, first, next)
    BY DEF Follows
  <2> QED BY <2>1
<1>2. ASSUME NEW m \in Nat, m \in T PROVE m + 1 \in T
  <2>1. PICK f \in [b .. b + m -> V] : Follows(f, b, m, first, next)
    BY <1>2
  <2> DEFINE last == next[<<b + m + 1, f[b + m]>>]
             g == [n \in b .. b + (m + 1) |-> IF n <= b + m THEN f[n] ELSE last]
  <2>2. last \in V
    BY <2>1
  <2>3. g \in [b .. b + (m + 1) -> V]
    <3> HIDE DEF last
    <3> QED BY <2>1, <2>2
  <2>4. ASSUME NEW n \in b + 1 .. b + (m + 1) PROVE g[n] = next[<<n, g[n - 1]>>]
    <3>1. CASE n <= b + m
      <4>1. f[n] = next[<<n, f[n - 1]>>]
        BY <2>1, <3>1 DEF Follows
      <4>2. g[n] = f[n] /\ g[n - 1] = f[n - 1]
        BY <3>1
      <4> HIDE DEF g
      <4> QED BY <4>1, <4>2
    <3>2. CASE n = b + m + 1
      <4>1. g[n] = last /\ g[n - 1] = f[n - 1] /\ n - 1 = b + m
        BY <3>2
      <4> HIDE DEF g
      <4> QED BY <3>2, <4>1
    <3> QED BY <3>1, <3>2
  <2>5. g[b] = first
    BY <2>1 DEF Follows
  <2> HIDE DEF g
  <2> QED BY <2>3, <2>4, <2>5 DEF Follows
<1>3. Nat \subseteq T
  <2> HIDE DEF T
  <2> QED BY <1>1, <1>2, Reaches
<1> QED BY <1>3

-----------------------------------------------------------------------------
(* The vector's array stays larger than the vector.                         *)
LEMMA GrownFits ==
    ASSUME NEW a \in Nat, NEW from \in Nat, NEW to \in Nat, from <= to, from < a, InitialSize <= a
    PROVE  Grown(a, from, to) \in Nat /\ to < Grown(a, from, to) /\ InitialSize <= Grown(a, from, to)
<1> DEFINE Step(n, c) == IF n = c THEN (c * 3) \div 2 ELSE c
           cap == CHOOSE f : f = [n \in from .. to |-> IF n = from THEN a
                             ELSE IF n = f[n - 1] THEN (f[n - 1] * 3) \div 2 ELSE f[n - 1]]
           next == [p \in Nat \X Nat |-> Step(p[1], p[2])]
<1>1. Grown(a, from, to) = cap[to]
  BY DEF Grown
<1>2. \A n, c \in Nat : Step(n, c) \in Nat /\ next[<<n, c>>] = Step(n, c)
  OBVIOUS
<1>3. next \in [Nat \X Nat -> Nat]
  OBVIOUS
<1>4. cap = [n \in from .. to |-> IF n = from THEN a
                             ELSE IF n = cap[n - 1] THEN (cap[n - 1] * 3) \div 2 ELSE cap[n - 1]]
  <2>1. PICK f \in [from .. from + (to - from) -> Nat] : Follows(f, from, to - from, a, next)
    <3>1. to - from \in Nat
      OBVIOUS
    <3> HIDE DEF next
    <3> QED BY <1>3, <3>1, Recursion
  <2>2. from + (to - from) = to
    OBVIOUS
  <2>3. \A n \in from .. to : f[n] = IF n = from THEN a ELSE Step(n, f[n - 1])
    <3> TAKE n \in from .. to
    <3>1. f[n] = IF n = from THEN a ELSE next[<<n, f[n - 1]>>]
      <4> HIDE DEF next
      <4> QED BY <2>1, <2>2 DEF Follows
    <3>2. n # from => n - 1 \in from .. to /\ f[n - 1] \in Nat /\ n \in Nat
      BY <2>1, <2>2
    <3> HIDE DEF next, Step
    <3> QED BY <1>2, <3>1, <3>2
  <2>4. f = [n \in from .. to |-> IF n = from THEN a ELSE Step(n, f[n - 1])]
    <3>1. f = [n \in from .. to |-> f[n]]
      BY <2>1, <2>2
    <3> HIDE DEF Step
    <3> QED BY <2>3, <3>1
  <2> QED BY <2>4
<1> HIDE DEF cap
<1> DEFINE T == {m \in Nat : from + m <= to =>
                   cap[from + m] \in Nat /\ from + m < cap[from + m] /\ InitialSize <= cap[from + m]}
<1>5. 0 \in T
  BY <1>4
<1>6. ASSUME NEW m \in Nat, m \in T PROVE m + 1 \in T
  <2> SUFFICES ASSUME from + (m + 1) <= to
               PROVE  LET c == cap[from + (m + 1)] IN
                      c \in Nat /\ from + (m + 1) < c /\ InitialSize <= c
    OBVIOUS
  <2> DEFINE c == cap[from + m]
  <2>1. c \in Nat /\ from + m < c /\ InitialSize <= c
    BY <1>6
  <2>2. cap[from + (m + 1)] = IF from + m + 1 = c THEN (c * 3) \div 2 ELSE c
    BY <1>4
  <2> HIDE DEF c
  <2> QED BY <2>1, <2>2 DEF InitialSize
<1>7. to - from \in T
  <2>1. Nat \subseteq T
    <3> HIDE DEF T
    <3> QED BY <1>5, <1>6, Reaches
  <2> QED BY <2>1
<1> QED BY <1>1, <1>7

-----------------------------------------------------------------------------
(* The search for a line break.                                             *)
LEMMA SearchSteps ==
    ASSUME NEW s \in Seq(Bytes)
    PROVE  \E f \in [0 .. Len(s) -> 0 .. 2] :
             /\ f[0] = 0
             /\ \A i \in 1 .. Len(s) :
                  f[i] = IF f[i - 1] < 2 /\ s[i] = CRLF[f[i - 1] + 1] THEN f[i - 1] + 1 ELSE 0
             /\ find_first_entry_str(s) = {i \in 1 .. Len(s) : f[i] = 2}
<1> DEFINE Step(i, c) == IF c < 2 /\ s[i] = CRLF[c + 1] THEN c + 1 ELSE 0
           seq_i == CHOOSE f : f = [i \in 0 .. Len(s) |-> IF i = 0 THEN 0
                      ELSE IF f[i - 1] < 2 /\ s[i] = CRLF[f[i - 1] + 1] THEN f[i - 1] + 1 ELSE 0]
           next == [p \in Nat \X (0 .. 2) |-> Step(p[1], p[2])]
<1>1. find_first_entry_str(s) = {i \in 1 .. Len(s) : seq_i[i] = 2}
  BY DEF find_first_entry_str
<1>2. \A i \in Nat, c \in 0 .. 2 : Step(i, c) \in 0 .. 2 /\ next[<<i, c>>] = Step(i, c)
  OBVIOUS
<1>3. next \in [Nat \X (0 .. 2) -> 0 .. 2]
  OBVIOUS
<1>4. Len(s) \in Nat /\ 0 + Len(s) = Len(s)
  OBVIOUS
<1>5. PICK f \in [0 .. Len(s) -> 0 .. 2] : Follows(f, 0, Len(s), 0, next)
  <2>1. 0 \in 0 .. 2 /\ 0 \in Nat
    OBVIOUS
  <2>2. \E f \in [0 .. 0 + Len(s) -> 0 .. 2] : Follows(f, 0, Len(s), 0, next)
    <3> HIDE DEF next
    <3> QED BY <1>3, <1>4, <2>1, Recursion
  <2> HIDE DEF next
  <2> QED BY <1>4, <2>2
<1>6. \A i \in 0 .. Len(s) : f[i] = IF i = 0 THEN 0 ELSE Step(i, f[i - 1])
  <2> TAKE i \in 0 .. Len(s)
  <2>1. f[i] = IF i = 0 THEN 0 ELSE next[<<i, f[i - 1]>>]
    <3> HIDE DEF next
    <3> QED BY <1>4, <1>5 DEF Follows
  <2>2. i # 0 => i \in Nat /\ f[i - 1] \in 0 .. 2
    BY <1>4, <1>5
  <2> HIDE DEF next, Step
  <2> QED BY <1>2, <2>1, <2>2
<1>7. seq_i = [i \in 0 .. Len(s) |-> IF i = 0 THEN 0 ELSE Step(i, seq_i[i - 1])]
  <2>1. f = [i \in 0 .. Len(s) |-> IF i = 0 THEN 0 ELSE Step(i, f[i - 1])]
    <3>1. f = [i \in 0 .. Len(s) |-> f[i]]
      BY <1>5
    <3> HIDE DEF Step
    <3> QED BY <1>6, <3>1
  <2> QED BY <2>1
<1> HIDE DEF seq_i
<1> DEFINE T == {m \in Nat : m <= Len(s) => seq_i[m] \in 0 .. 2}
<1>8. Nat \subseteq T
  <2>1. 0 \in T
    BY <1>7
  <2>2. ASSUME NEW m \in Nat, m \in T PROVE m + 1 \in T
    <3> SUFFICES ASSUME m + 1 <= Len(s) PROVE seq_i[m + 1] \in 0 .. 2
      OBVIOUS
    <3>1. seq_i[m] \in 0 .. 2
      BY <1>4, <2>2
    <3>2. seq_i[m + 1] = Step(m + 1, seq_i[m])
      BY <1>4, <1>7
    <3> HIDE DEF Step, next
    <3> QED BY <1>2, <3>1, <3>2
  <2> HIDE DEF T
  <2> QED BY <2>1, <2>2, Reaches
<1>9. \A m \in 0 .. Len(s) : seq_i[m] \in 0 .. 2
  BY <1>8
<1>10. seq_i \in [0 .. Len(s) -> 0 .. 2]
  <2>1. seq_i = [m \in 0 .. Len(s) |-> seq_i[m]]
    BY <1>7
  <2> QED BY <1>9, <2>1
<1>11. seq_i[0] = 0
  BY <1>4, <1>7
<1>12. \A i \in 1 .. Len(s) :
          seq_i[i] = IF seq_i[i - 1] < 2 /\ s[i] = CRLF[seq_i[i - 1] + 1] THEN seq_i[i - 1] + 1 ELSE 0
  BY <1>4, <1>7
<1> QED BY <1>1, <1>10, <1>11, <1>12

(* A piece of a sequence.                                                   *)
LEMMA PieceOf ==
    ASSUME NEW S, NEW s \in Seq(S), NEW m \in Nat \ {0}, NEW n \in Nat, m <= n + 1, n <= Len(s)
    PROVE  /\ SubSeq(s, m, n) \in Seq(S) /\ Len(SubSeq(s, m, n)) = n + 1 - m
           /\ \A k \in 1 .. n + 1 - m : SubSeq(s, m, n)[k] = s[m + k - 1]
<1>1. \A i \in m .. n : s[i] \in S
  OBVIOUS
<1>2. m \in Int /\ n \in Int /\ n - m + 1 = n + 1 - m
  OBVIOUS
<1>3. /\ SubSeq(s, m, n) \in Seq(S)
      /\ Len(SubSeq(s, m, n)) = IF m <= n THEN n - m + 1 ELSE 0
      /\ \A k \in 1 .. n - m + 1 : SubSeq(s, m, n)[k] = s[m + k - 1]
  BY <1>1, <1>2, SubSeqProperties
<1> QED BY <1>2, <1>3

(* The two bytes of a line break.                                           *)
Break(s, i) == s[i - 1] = "CR" /\ s[i] = "LF"

(* A line ends at a break.                                                  *)
LEMMA BreaksEnd ==
    ASSUME NEW s \in Seq(Bytes), NEW i \in 2 .. Len(s)
    PROVE  i \in LineEnds(s) <=> Break(s, i)
<1> DEFINE piece == SubSeq(s, i - 1, i)
<1>1. piece = << s[i - 1], s[i] >>
  <2>1. Len(piece) = 2 /\ piece[1] = s[i - 1] /\ piece[2] = s[i] /\ piece \in Seq(Bytes)
    BY PieceOf
  <2> HIDE DEF piece
  <2> QED BY <2>1
<1>2. i \in LineEnds(s) <=> piece = CRLF
  BY DEF LineEnds
<1> QED BY <1>1, <1>2 DEF CRLF, Break

(* What the search finds is a line break.                                   *)
LEMMA FoundIsBreak ==
    ASSUME NEW s \in Seq(Bytes), NEW i \in find_first_entry_str(s)
    PROVE  i \in LineEnds(s)
<1>1. PICK f \in [0 .. Len(s) -> 0 .. 2] :
             /\ f[0] = 0
             /\ \A k \in 1 .. Len(s) :
                  f[k] = IF f[k - 1] < 2 /\ s[k] = CRLF[f[k - 1] + 1] THEN f[k - 1] + 1 ELSE 0
             /\ find_first_entry_str(s) = {k \in 1 .. Len(s) : f[k] = 2}
  BY SearchSteps
<1>2. i \in 1 .. Len(s) /\ f[i] = 2 /\ Len(s) \in Nat
  BY <1>1
<1>3. f[i - 1] \in 0 .. 2
  BY <1>1, <1>2
<1>4. f[i - 1] = 1 /\ s[i] = "LF"
  BY <1>1, <1>2, <1>3 DEF CRLF
<1>5. i - 1 \in 1 .. Len(s)
  BY <1>1, <1>2, <1>4
<1>6. f[i - 2] \in 0 .. 2
  BY <1>1, <1>5
<1>7. f[i - 1] = IF f[i - 2] < 2 /\ s[i - 1] = CRLF[f[i - 2] + 1] THEN f[i - 2] + 1 ELSE 0
  BY <1>1, <1>5
<1>8. s[i - 1] = "CR"
  BY <1>4, <1>6, <1>7 DEF CRLF
<1> QED BY <1>2, <1>4, <1>5, <1>8, BreaksEnd DEF Break

(* No CR follows another.                                                   *)
NoDoubleCR(s) == \A i \in 2 .. Len(s) : s[i - 1] = "CR" => s[i] # "CR"

(* Of a text without two CR in a row it finds the first line break.         *)
LEMMA FirstIsFound ==
    ASSUME NEW s \in Seq(Bytes), NoDoubleCR(s), NEW i \in LineEnds(s), \A k \in LineEnds(s) : i <= k
    PROVE  i \in find_first_entry_str(s)
<1>1. PICK f \in [0 .. Len(s) -> 0 .. 2] :
             /\ f[0] = 0
             /\ \A k \in 1 .. Len(s) :
                  f[k] = IF f[k - 1] < 2 /\ s[k] = CRLF[f[k - 1] + 1] THEN f[k - 1] + 1 ELSE 0
             /\ find_first_entry_str(s) = {k \in 1 .. Len(s) : f[k] = 2}
  BY SearchSteps
<1>2. i \in 2 .. Len(s) /\ s[i - 1] = "CR" /\ s[i] = "LF"
  <2>1. i \in 2 .. Len(s)
    BY DEF LineEnds
  <2> QED BY <2>1, BreaksEnd DEF Break
<1>3. \A k \in 1 .. Len(s) : k < i => f[k] # 2
  <2>1. \A k \in 1 .. Len(s) : f[k] = 2 => k \in LineEnds(s)
    BY <1>1, FoundIsBreak
  <2> QED BY <1>2, <2>1 DEF LineEnds
<1>4. f[i - 2] \in 0 .. 2 /\ f[i - 2] # 2
  <2>1. i - 2 \in 0 .. Len(s) /\ i - 2 < i /\ (i - 2 = 0 \/ i - 2 \in 1 .. Len(s))
    BY <1>2
  <2>2. f[i - 2] \in 0 .. 2
    BY <1>1, <2>1
  <2>3. f[i - 2] # 2
    BY <1>1, <1>3, <2>1
  <2> QED BY <2>2, <2>3
<1>5. f[i - 2] # 1
  <2> SUFFICES ASSUME f[i - 2] = 1 PROVE FALSE
    OBVIOUS
  <2>1. i - 2 \in 1 .. Len(s) /\ f[i - 3] \in 0 .. 2
    <3>1. i - 2 # 0
      BY <1>1
    <3>2. i - 2 \in 1 .. Len(s) /\ i - 3 \in 0 .. Len(s)
      BY <1>2, <3>1
    <3> QED BY <1>1, <3>2
  <2>2. f[i - 2] = IF f[i - 3] < 2 /\ s[i - 2] = CRLF[f[i - 3] + 1] THEN f[i - 3] + 1 ELSE 0
    <3>1. (i - 2) - 1 = i - 3
      BY <1>2
    <3> QED BY <1>1, <2>1, <3>1
  <2>3. s[i - 2] = "CR"
    BY <2>1, <2>2 DEF CRLF
  <2>4. i - 1 \in 2 .. Len(s) /\ (i - 1) - 1 = i - 2
    BY <1>2, <2>1
  <2> QED BY <1>2, <2>3, <2>4 DEF NoDoubleCR
<1>6. f[i - 1] = 1
  <2>1. f[i - 2] = 0
    BY <1>4, <1>5
  <2>2. f[i - 1] = IF f[i - 2] < 2 /\ s[i - 1] = CRLF[f[i - 2] + 1] THEN f[i - 2] + 1 ELSE 0
    BY <1>1, <1>2
  <2> QED BY <1>2, <2>1, <2>2 DEF CRLF
<1>7. f[i] = 2
  BY <1>1, <1>2, <1>6 DEF CRLF
<1> QED BY <1>1, <1>2, <1>7

-----------------------------------------------------------------------------
(* Sequences of sequences.                                                  *)

(* Functions that begin alike and go on alike are alike.                    *)
GoAlike(f, g, lo, hi) ==
    f[lo] = g[lo] /\ \A n \in lo .. hi : n # lo /\ f[n - 1] = g[n - 1] => f[n] = g[n]

LEMMA Same ==
    ASSUME NEW f, NEW g, NEW lo \in Nat, NEW hi \in Nat, GoAlike(f, g, lo, hi)
    PROVE  \A n \in lo .. hi : f[n] = g[n]
<1> DEFINE T == {m \in Nat : lo + m <= hi => f[lo + m] = g[lo + m]}
<1>1. 0 \in T
  BY DEF GoAlike
<1>2. ASSUME NEW m \in Nat, m \in T PROVE m + 1 \in T
  <2> SUFFICES ASSUME lo + (m + 1) <= hi PROVE f[lo + (m + 1)] = g[lo + (m + 1)]
    OBVIOUS
  <2>1. f[lo + m] = g[lo + m]
    BY <1>2
  <2>2. /\ lo + (m + 1) \in lo .. hi /\ lo + (m + 1) # lo
        /\ (lo + (m + 1)) - 1 = lo + m
    OBVIOUS
  <2> QED BY <2>1, <2>2 DEF GoAlike
<1>3. Nat \subseteq T
  <2> HIDE DEF T
  <2> QED BY <1>1, <1>2, Reaches
<1>4. ASSUME NEW n \in lo .. hi PROVE f[n] = g[n]
  <2>1. n - lo \in T /\ lo + (n - lo) = n
    BY <1>3
  <2> QED BY <2>1
<1> QED BY <1>4

(* How FlattenSeq goes on from sequence to sequence.                        *)
LEMMA FlattenSteps ==
    ASSUME NEW S, NEW ls \in Seq(Seq(S)), ls # <<>>
    PROVE  \E f \in [1 .. Len(ls) -> Seq(S)] :
             /\ f[1] = ls[1]
             /\ \A i \in 2 .. Len(ls) : f[i] = f[i - 1] \o ls[i]
             /\ FlattenSeq(ls) = f[Len(ls)]
<1> DEFINE flatten == CHOOSE f :
             f = [i \in 1 .. Len(ls) |-> IF i = 1 THEN ls[i] ELSE f[i - 1] \o ls[i]]
           next == [p \in Nat \X Seq(S) |-> IF p[1] \in DOMAIN ls THEN p[2] \o ls[p[1]] ELSE p[2]]
           t == Len(ls) - 1
<1>1. Len(ls) \in Nat /\ Len(ls) # 0 /\ t \in Nat /\ 1 + t = Len(ls) /\ DOMAIN ls = 1 .. Len(ls)
  OBVIOUS
<1>2. FlattenSeq(ls) = flatten[Len(ls)]
  BY <1>1 DEF FlattenSeq
<1>3. ls[1] \in Seq(S) /\ next \in [Nat \X Seq(S) -> Seq(S)] /\ 1 \in Nat
  OBVIOUS
<1>4. PICK f \in [1 .. 1 + t -> Seq(S)] : Follows(f, 1, t, ls[1], next)
  <2> HIDE DEF next, t
  <2> QED BY <1>1, <1>3, Recursion
<1>5. ASSUME NEW i \in 1 .. Len(ls)
      PROVE  f[i] = IF i = 1 THEN ls[i] ELSE f[i - 1] \o ls[i]
  <2>1. f[i] = IF i = 1 THEN ls[1] ELSE next[<<i, f[i - 1]>>]
    <3> HIDE DEF next, t
    <3> QED BY <1>1, <1>4 DEF Follows
  <2>2. i # 1 => i \in Nat /\ f[i - 1] \in Seq(S) /\ i \in DOMAIN ls
    <3> HIDE DEF t
    <3> QED BY <1>1, <1>4
  <2>3. i # 1 => next[<<i, f[i - 1]>>] = f[i - 1] \o ls[i]
    BY <2>2
  <2> HIDE DEF next
  <2> QED BY <2>1, <2>3
<1>6. flatten = [i \in 1 .. Len(ls) |-> IF i = 1 THEN ls[i] ELSE flatten[i - 1] \o ls[i]]
  <2>1. f = [i \in 1 .. Len(ls) |-> IF i = 1 THEN ls[i] ELSE f[i - 1] \o ls[i]]
    <3>1. f = [i \in 1 .. Len(ls) |-> f[i]]
      <4> HIDE DEF t
      <4> QED BY <1>1, <1>4
    <3> QED BY <1>5, <3>1
  <2> QED BY <2>1
<1> HIDE DEF flatten
<1>7. \A i \in 1 .. Len(ls) : f[i] = flatten[i]
  <2>1. f[1] = flatten[1]
    BY <1>1, <1>5, <1>6
  <2>2. ASSUME NEW i \in 1 .. Len(ls), i # 1, f[i - 1] = flatten[i - 1] PROVE f[i] = flatten[i]
    <3>1. f[i] = f[i - 1] \o ls[i] /\ flatten[i] = flatten[i - 1] \o ls[i]
      BY <1>1, <1>5, <1>6, <2>2
    <3> QED BY <2>2, <3>1
  <2>3. \A i \in 1 .. Len(ls) : i # 1 /\ f[i - 1] = flatten[i - 1] => f[i] = flatten[i]
    BY <2>2
  <2>4. GoAlike(f, flatten, 1, Len(ls))
    BY <2>1, <2>3 DEF GoAlike
  <2>5. 1 \in Nat
    OBVIOUS
  <2> HIDE DEF t
  <2> QED BY <1>1, <2>4, <2>5, Same
<1>8. f \in [1 .. Len(ls) -> Seq(S)]
  <2> HIDE DEF t
  <2> QED BY <1>1, <1>4
<1>9. f[1] = ls[1] /\ (\A i \in 2 .. Len(ls) : f[i] = f[i - 1] \o ls[i])
  <2>1. f[1] = ls[1]
    BY <1>1, <1>5
  <2>2. ASSUME NEW i \in 2 .. Len(ls) PROVE f[i] = f[i - 1] \o ls[i]
    <3>1. i \in 1 .. Len(ls) /\ i # 1
      BY <1>1
    <3> QED BY <1>5, <3>1
  <2> QED BY <2>1, <2>2
<1>10. FlattenSeq(ls) = f[Len(ls)]
  BY <1>1, <1>2, <1>7
<1> QED BY <1>8, <1>9, <1>10

LEMMA FlattenEmpty == FlattenSeq(<<>>) = <<>>
BY DEF FlattenSeq

LEMMA FlattenTyped ==
    ASSUME NEW S, NEW ls \in Seq(Seq(S))
    PROVE  FlattenSeq(ls) \in Seq(S)
<1>1. CASE ls = <<>>
  <2>1. FlattenSeq(ls) = <<>>
    BY <1>1, FlattenEmpty
  <2> QED BY <2>1
<1>2. CASE ls # <<>>
  <2>1. PICK f \in [1 .. Len(ls) -> Seq(S)] : FlattenSeq(ls) = f[Len(ls)]
    BY <1>2, FlattenSteps
  <2>2. Len(ls) \in 1 .. Len(ls)
    BY <1>2
  <2> QED BY <2>1, <2>2
<1> QED BY <1>1, <1>2

(* One more sequence is put behind the others.                              *)
LEMMA FlattenAppend ==
    ASSUME NEW S, NEW ls \in Seq(Seq(S)), NEW l \in Seq(S)
    PROVE  FlattenSeq(Append(ls, l)) = FlattenSeq(ls) \o l
<1> DEFINE al == Append(ls, l)
           n == Len(ls)
<1>1. /\ al \in Seq(Seq(S)) /\ al # <<>> /\ Len(al) = n + 1 /\ n \in Nat
      /\ al[n + 1] = l /\ \A i \in 1 .. n : al[i] = ls[i]
  <2>1. n \in Nat
    OBVIOUS
  <2> QED BY <2>1, AppendProperties
<1> HIDE DEF al
<1>2. PICK g \in [1 .. Len(al) -> Seq(S)] :
        /\ g[1] = al[1]
        /\ \A i \in 2 .. Len(al) : g[i] = g[i - 1] \o al[i]
        /\ FlattenSeq(al) = g[Len(al)]
  BY <1>1, FlattenSteps
<1>3. CASE ls = <<>>
  <2>1. n = 0
    BY <1>3
  <2>2. FlattenSeq(al) = l
    BY <1>1, <1>2, <2>1
  <2>3. FlattenSeq(ls) \o l = l
    BY <1>3, FlattenEmpty
  <2> QED BY <2>2, <2>3 DEF al
<1>4. CASE ls # <<>>
  <2>1. PICK f \in [1 .. Len(ls) -> Seq(S)] :
          /\ f[1] = ls[1]
          /\ \A i \in 2 .. Len(ls) : f[i] = f[i - 1] \o ls[i]
          /\ FlattenSeq(ls) = f[Len(ls)]
    BY <1>4, FlattenSteps
  <2>2. n # 0 /\ n - 1 \in Nat /\ 1 + (n - 1) = n
    BY <1>1, <1>4
  <2>3. f[1] = g[1]
    BY <1>1, <1>2, <2>1, <2>2
  <2>4. ASSUME NEW i \in 1 .. n, i # 1, f[i - 1] = g[i - 1] PROVE f[i] = g[i]
    <3>1. i \in 2 .. Len(ls) /\ i \in 2 .. Len(al) /\ al[i] = ls[i]
      BY <1>1, <2>4
    <3>2. f[i] = f[i - 1] \o ls[i] /\ g[i] = g[i - 1] \o al[i]
      BY <1>2, <2>1, <3>1
    <3> QED BY <2>4, <3>1, <3>2
  <2>5. \A i \in 1 .. n : f[i] = g[i]
    <3>1. 1 \in Nat /\ n \in Nat
      BY <1>1
    <3>2. \A i \in 1 .. n : i # 1 /\ f[i - 1] = g[i - 1] => f[i] = g[i]
      BY <2>4
    <3>3. GoAlike(f, g, 1, n)
      BY <2>3, <3>2 DEF GoAlike
    <3> QED BY <3>1, <3>3, Same
  <2>6. f[n] = g[n]
    BY <2>2, <2>5
  <2>7. g[n + 1] = g[n] \o l
    <3>1. n + 1 \in 2 .. Len(al) /\ (n + 1) - 1 = n
      BY <1>1, <2>2
    <3> QED BY <1>1, <1>2, <3>1
  <2> QED BY <1>1, <1>2, <2>1, <2>6, <2>7 DEF al
<1> QED BY <1>3, <1>4

-----------------------------------------------------------------------------
(* The lines of a text.                                                     *)
LEMMA LastEndIs ==
    ASSUME NEW s, NEW i \in Nat \ {0}
    PROVE  /\ LastEnd(s, i) \in 0 .. i - 1
           /\ LastEnd(s, i) # 0 => LastEnd(s, i) \in LineEnds(s)
           /\ \A e \in LineEnds(s) : e \in Nat /\ e < i => e <= LastEnd(s, i)
<1> DEFINE E == {0} \cup {e \in LineEnds(s) : e < i}
           D == {i - e : e \in E}
<1>1. E \subseteq 0 .. i - 1 /\ 0 \in E
  <2>1. \A e \in LineEnds(s) : e \in Nat
    BY DEF LineEnds
  <2> QED BY <2>1
<1>2. D \subseteq Nat /\ i - 0 \in D
  BY <1>1
<1>3. PICK d \in D : \A x \in D : d <= x
  <2> HIDE DEF D
  <2> QED BY <1>2, Least
<1>4. PICK m \in E : d = i - m
  BY <1>3
<1>5. \A e \in E : e <= m
  <2> TAKE e \in E
  <2>1. d <= i - e
    BY <1>3
  <2>2. e \in 0 .. i - 1 /\ m \in 0 .. i - 1
    BY <1>1
  <2> HIDE DEF E, D
  <2> QED BY <2>1, <2>2, <1>4
<1>6. LastEnd(s, i) \in E /\ \A e \in E : e <= LastEnd(s, i)
  <2>1. \A e \in E : m >= e
    BY <1>1, <1>5
  <2>2. \E x \in E : \A e \in E : x >= e
    BY <2>1
  <2> DEFINE top == CHOOSE x \in E : \A e \in E : x >= e
  <2>3. top \in E /\ \A e \in E : top >= e
    <3> HIDE DEF E
    <3> QED BY <2>2
  <2>4. LastEnd(s, i) = top
    BY DEF LastEnd, Max
  <2> HIDE DEF top, E
  <2> QED BY <1>1, <2>3, <2>4
<1> HIDE DEF D
<1>7. LastEnd(s, i) \in 0 .. i - 1
  <2> HIDE DEF E
  <2> QED BY <1>1, <1>6
<1>8. LastEnd(s, i) # 0 => LastEnd(s, i) \in LineEnds(s)
  BY <1>6
<1>9. \A e \in LineEnds(s) : e \in Nat /\ e < i => e <= LastEnd(s, i)
  BY <1>6
<1> QED BY <1>7, <1>8, <1>9

(* How LinesOf goes on from byte to byte.                                   *)
LinesTo(f, s) ==
    /\ f \in [0 .. Len(s) -> Seq(Seq(Bytes))] /\ f[0] = <<>>
    /\ \A i \in 1 .. Len(s) :
         f[i] = IF i \in LineEnds(s) THEN Append(f[i - 1], SubSeq(s, LastEnd(s, i) + 1, i))
                ELSE f[i - 1]

LEMMA LinesSteps ==
    ASSUME NEW s \in Seq(Bytes)
    PROVE  \E f : LinesTo(f, s) /\ LinesOf(s) = f[Len(s)]
<1> DEFINE Text == Seq(Seq(Bytes))
           piece(i) == SubSeq(s, LastEnd(s, i) + 1, i)
           Step(i, c) == IF i \in LineEnds(s) THEN Append(c, piece(i)) ELSE c
           lines == CHOOSE f : f = [i \in 0 .. Len(s) |-> IF i = 0 THEN <<>>
                      ELSE IF i \in LineEnds(s)
                           THEN Append(f[i - 1], SubSeq(s, LastEnd(s, i) + 1, i))
                           ELSE f[i - 1]]
           next == [p \in Nat \X Text |-> Step(p[1], p[2])]
<1>1. LinesOf(s) = lines[Len(s)]
  BY DEF LinesOf
<1>2. Len(s) \in Nat /\ 0 + Len(s) = Len(s) /\ <<>> \in Text /\ 0 \in Nat
  OBVIOUS
<1>3. \A i \in LineEnds(s) : piece(i) \in Seq(Bytes)
  <2> TAKE i \in LineEnds(s)
  <2>1. i \in 2 .. Len(s)
    BY DEF LineEnds
  <2>2. LastEnd(s, i) \in 0 .. i - 1
    BY <2>1, LastEndIs
  <2>3. LastEnd(s, i) + 1 \in Nat \ {0} /\ i \in Nat /\ LastEnd(s, i) + 1 <= i + 1 /\ i <= Len(s)
    BY <2>1, <2>2
  <2> QED BY <2>3, PieceOf
<1>4. \A i \in Nat, c \in Text : Step(i, c) \in Text /\ next[<<i, c>>] = Step(i, c)
  <2> TAKE i \in Nat, c \in Text
  <2>1. Step(i, c) \in Text
    <3> HIDE DEF piece
    <3> QED BY <1>3
  <2> HIDE DEF Step
  <2> QED BY <2>1
<1>5. next \in [Nat \X Text -> Text]
  <2> HIDE DEF Step, Text
  <2> QED BY <1>4
<1>6. PICK f \in [0 .. 0 + Len(s) -> Text] : Follows(f, 0, Len(s), <<>>, next)
  <2> HIDE DEF next, Text
  <2> QED BY <1>2, <1>5, Recursion
<1>7. ASSUME NEW i \in 0 .. Len(s)
      PROVE  f[i] = IF i = 0 THEN <<>> ELSE Step(i, f[i - 1])
  <2>1. f[i] = IF i = 0 THEN <<>> ELSE next[<<i, f[i - 1]>>]
    <3> HIDE DEF next, Text
    <3> QED BY <1>2, <1>6 DEF Follows
  <2>2. i # 0 => i \in Nat /\ f[i - 1] \in Text
    <3>1. i # 0 => i \in Nat /\ i - 1 \in 0 .. 0 + Len(s)
      BY <1>2
    <3> HIDE DEF Text, next, Step
    <3> QED BY <1>6, <3>1
  <2>3. i # 0 => next[<<i, f[i - 1]>>] = Step(i, f[i - 1])
    <3> HIDE DEF next, Step, Text
    <3> QED BY <1>4, <2>2
  <2> HIDE DEF next, Step, Text
  <2> QED BY <2>1, <2>3
<1>8. f \in [0 .. Len(s) -> Text]
  <2> HIDE DEF Text
  <2> QED BY <1>2, <1>6
<1> HIDE DEF next, Text
<1>9. lines = [i \in 0 .. Len(s) |-> IF i = 0 THEN <<>> ELSE Step(i, lines[i - 1])]
  <2>1. f = [i \in 0 .. Len(s) |-> IF i = 0 THEN <<>> ELSE Step(i, f[i - 1])]
    <3>1. f = [i \in 0 .. Len(s) |-> f[i]]
      BY <1>8
    <3> HIDE DEF Step
    <3> QED BY <1>7, <3>1
  <2> QED BY <2>1
<1> HIDE DEF lines
<1>10. \A i \in 0 .. Len(s) : f[i] = lines[i]
  <2>1. f[0] = lines[0]
    BY <1>2, <1>7, <1>9
  <2>2. ASSUME NEW i \in 0 .. Len(s), i # 0, f[i - 1] = lines[i - 1] PROVE f[i] = lines[i]
    <3>1. f[i] = Step(i, f[i - 1])
      BY <1>7, <2>2
    <3>2. lines[i] = Step(i, lines[i - 1])
      BY <1>9, <2>2
    <3> HIDE DEF Step
    <3> QED BY <2>2, <3>1, <3>2
  <2>3. GoAlike(f, lines, 0, Len(s))
    BY <2>1, <2>2 DEF GoAlike
  <2> QED BY <1>2, <2>3, Same
<1>11. LinesTo(f, s)
  <2>1. f[0] = <<>>
    BY <1>2, <1>7
  <2>2. ASSUME NEW i \in 1 .. Len(s) PROVE f[i] = Step(i, f[i - 1])
    <3>1. i \in 0 .. Len(s) /\ i # 0
      BY <1>2
    <3> HIDE DEF Step
    <3> QED BY <1>7, <3>1
  <2> QED BY <1>8, <2>1, <2>2 DEF LinesTo, Text
<1>12. LinesOf(s) = f[Len(s)]
  BY <1>1, <1>2, <1>10
<1> QED BY <1>11, <1>12

(* Where the lines of a text end that is put together.                      *)
LEMMA EndsOfConcat ==
    ASSUME NEW s \in Seq(Bytes), NEW t \in Seq(Bytes), NEW i \in 2 .. Len(s) + Len(t)
    PROVE  /\ s \o t \in Seq(Bytes) /\ Len(s \o t) = Len(s) + Len(t)
           /\ i <= Len(s) => (i \in LineEnds(s \o t) <=> i \in LineEnds(s))
           /\ i > Len(s) + 1 => (i \in LineEnds(s \o t) <=> i - Len(s) \in LineEnds(t))
           /\ i = Len(s) + 1 => (i \in LineEnds(s \o t) <=> s[Len(s)] = "CR" /\ t[1] = "LF")
<1> DEFINE u == s \o t
           n == Len(s)
<1>1. /\ u \in Seq(Bytes) /\ Len(u) = n + Len(t) /\ n \in Nat /\ Len(t) \in Nat
      /\ \A k \in 1 .. n + Len(t) : u[k] = IF k <= n THEN s[k] ELSE t[k - n]
  BY ConcatProperties
<1> HIDE DEF u
<1>2. i \in LineEnds(u) <=> Break(u, i)
  BY <1>1, BreaksEnd
<1>3. u[i - 1] = (IF i - 1 <= n THEN s[i - 1] ELSE t[i - 1 - n]) /\ u[i] = IF i <= n THEN s[i] ELSE t[i - n]
  <2>1. i - 1 \in 1 .. n + Len(t) /\ i \in 1 .. n + Len(t) /\ (i - 1) - n = i - 1 - n
    BY <1>1
  <2> QED BY <1>1, <2>1
<1>4. ASSUME i <= n PROVE i \in LineEnds(u) <=> i \in LineEnds(s)
  <2>1. i \in 2 .. Len(s) /\ u[i - 1] = s[i - 1] /\ u[i] = s[i]
    BY <1>1, <1>3, <1>4
  <2>2. i \in LineEnds(s) <=> Break(s, i)
    BY <2>1, BreaksEnd
  <2> QED BY <1>2, <2>1, <2>2 DEF Break
<1>5. ASSUME i > n + 1 PROVE i \in LineEnds(u) <=> i - n \in LineEnds(t)
  <2>1. i - n \in 2 .. Len(t) /\ u[i - 1] = t[(i - n) - 1] /\ u[i] = t[i - n]
    <3>1. i - 1 - n = (i - n) - 1 /\ ~ (i <= n) /\ ~ (i - 1 <= n) /\ i - n \in 2 .. Len(t)
      BY <1>1, <1>5
    <3> QED BY <1>3, <3>1
  <2>2. i - n \in LineEnds(t) <=> Break(t, i - n)
    BY <2>1, BreaksEnd
  <2> QED BY <1>2, <2>1, <2>2 DEF Break
<1>6. ASSUME i = n + 1 PROVE i \in LineEnds(u) <=> s[n] = "CR" /\ t[1] = "LF"
  <2>1. i - 1 = n /\ i - n = 1 /\ ~ (i <= n) /\ i - 1 <= n
    BY <1>1, <1>6
  <2>2. u[i - 1] = s[n] /\ u[i] = t[1]
    BY <1>3, <2>1
  <2> QED BY <1>2, <2>2 DEF Break
<1> QED BY <1>1, <1>4, <1>5, <1>6 DEF u

(* What follows makes no difference to the lines that came before.          *)
LEMMA LinesOfPrefix ==
    ASSUME NEW s \in Seq(Bytes), NEW t \in Seq(Bytes), NEW f, LinesTo(f, s \o t)
    PROVE  LinesOf(s) = f[Len(s)]
<1> DEFINE u == s \o t
           n == Len(s)
<1>1. u \in Seq(Bytes) /\ Len(u) = n + Len(t) /\ n \in Nat /\ Len(t) \in Nat
  BY ConcatProperties
<1>2. PICK g : LinesTo(g, s) /\ LinesOf(s) = g[n]
  BY LinesSteps
<1>3. ASSUME NEW i \in 2 .. n PROVE i \in LineEnds(u) <=> i \in LineEnds(s)
  <2>1. i \in 2 .. Len(s) + Len(t) /\ i <= Len(s)
    BY <1>1
  <2> QED BY <2>1, EndsOfConcat
<1>4. ASSUME NEW i \in 1 .. n PROVE i \in LineEnds(u) <=> i \in LineEnds(s)
  <2>1. i \in LineEnds(u) \/ i \in LineEnds(s) => i \in 2 .. n
    BY <1>1, <1>4 DEF LineEnds
  <2> QED BY <1>3, <2>1
<1>5. ASSUME NEW i \in 1 .. n PROVE LastEnd(u, i) = LastEnd(s, i)
  <2>1. \A e \in Nat : e < i => (e \in LineEnds(u) <=> e \in LineEnds(s))
    <3> TAKE e \in Nat
    <3>1. e = 0 => e \notin LineEnds(u) /\ e \notin LineEnds(s)
      BY DEF LineEnds
    <3>2. e # 0 /\ e < i => e \in 1 .. n
      BY <1>1, <1>5
    <3> QED BY <1>4, <3>1, <3>2
  <2>2. (\A e \in LineEnds(u) : e \in Nat) /\ (\A e \in LineEnds(s) : e \in Nat)
    BY DEF LineEnds
  <2>3. {e \in LineEnds(u) : e < i} = {e \in LineEnds(s) : e < i}
    BY <2>1, <2>2
  <2> QED BY <2>3 DEF LastEnd
<1>6. ASSUME NEW i \in LineEnds(s)
      PROVE  SubSeq(u, LastEnd(u, i) + 1, i) = SubSeq(s, LastEnd(s, i) + 1, i)
  <2>1. i \in 2 .. n
    BY <1>6 DEF LineEnds
  <2>2. LastEnd(s, i) \in 0 .. i - 1 /\ LastEnd(u, i) = LastEnd(s, i)
    BY <1>5, <2>1, LastEndIs
  <2>3. LastEnd(s, i) + 1 \in 1 .. Len(s) /\ i \in 1 .. Len(s)
    BY <1>1, <2>1, <2>2
  <2>4. SubSeq(u, LastEnd(s, i) + 1, i) = SubSeq(s, LastEnd(s, i) + 1, i)
    BY <2>3, SubSeqOfConcat1
  <2> QED BY <2>2, <2>4
<1> HIDE DEF u
<1>7. ASSUME NEW i \in 0 .. n, i # 0, f[i - 1] = g[i - 1] PROVE f[i] = g[i]
  <2>1. i \in 1 .. n /\ i \in 1 .. Len(u)
    BY <1>1, <1>7
  <2>2. f[i] = IF i \in LineEnds(u) THEN Append(f[i - 1], SubSeq(u, LastEnd(u, i) + 1, i)) ELSE f[i - 1]
    BY <2>1 DEF LinesTo, u
  <2>3. g[i] = IF i \in LineEnds(s) THEN Append(g[i - 1], SubSeq(s, LastEnd(s, i) + 1, i)) ELSE g[i - 1]
    BY <1>2, <2>1 DEF LinesTo
  <2>4. i \in LineEnds(u) <=> i \in LineEnds(s)
    BY <1>4, <2>1
  <2>5. CASE i \in LineEnds(s)
    <3>1. SubSeq(u, LastEnd(u, i) + 1, i) = SubSeq(s, LastEnd(s, i) + 1, i)
      BY <1>6, <2>5
    <3>2. f[i] = Append(f[i - 1], SubSeq(u, LastEnd(u, i) + 1, i))
      BY <2>2, <2>4, <2>5
    <3>3. g[i] = Append(g[i - 1], SubSeq(s, LastEnd(s, i) + 1, i))
      BY <2>3, <2>5
    <3> QED BY <1>7, <3>1, <3>2, <3>3
  <2>6. CASE i \notin LineEnds(s)
    BY <1>7, <2>2, <2>3, <2>4, <2>6
  <2> QED BY <2>5, <2>6
<1>8. GoAlike(f, g, 0, n)
  <2>1. f[0] = g[0]
    BY <1>2 DEF LinesTo
  <2> QED BY <1>7, <2>1 DEF GoAlike
<1>9. \A i \in 0 .. n : f[i] = g[i]
  <2>1. 0 \in Nat
    OBVIOUS
  <2> QED BY <1>1, <1>8, <2>1, Same
<1> QED BY <1>1, <1>2, <1>9

(* A text that ends where a line ends.                                      *)
Closed(s) == s = <<>> \/ Len(s) \in LineEnds(s)

LEMMA ClosedByLF == ASSUME NEW s \in Seq(Bytes), Closed(s) PROVE s[Len(s)] # "CR" \/ s = <<>>
<1> SUFFICES ASSUME Len(s) \in LineEnds(s) PROVE s[Len(s)] # "CR"
  BY DEF Closed
<1>1. Len(s) \in 2 .. Len(s)
  BY DEF LineEnds
<1> QED BY <1>1, BreaksEnd DEF Break

(* The beginning of a line is no line.                                      *)
LEMMA LinesUntilEnd ==
    ASSUME NEW s \in Seq(Bytes), NEW t \in Seq(Bytes), Closed(s), NEW m \in 0 .. Len(t),
           \A e \in LineEnds(t) : e > m, NEW f, LinesTo(f, s \o t)
    PROVE  /\ f[Len(s) + m] = LinesOf(s)
           /\ \A i \in Len(s) + 1 .. Len(s) + m : i \notin LineEnds(s \o t)
<1> DEFINE u == s \o t
           n == Len(s)
           same == [i \in n .. n + m |-> f[n]]
<1>1. u \in Seq(Bytes) /\ Len(u) = n + Len(t) /\ n \in Nat /\ Len(t) \in Nat
  BY ConcatProperties
<1>2. LinesOf(s) = f[n]
  BY LinesOfPrefix
<1>3. ASSUME NEW i \in n + 1 .. n + m PROVE i \notin LineEnds(u)
  <2>1. i \in Nat /\ i # 0 /\ (i = 1 => i \notin LineEnds(u))
    BY <1>1 DEF LineEnds
  <2>2. CASE i = n + 1
    <3>1. i # 1 => i \in 2 .. Len(s) + Len(t) /\ s # <<>>
      BY <1>1, <2>1, <2>2
    <3>2. i # 1 => (i \in LineEnds(u) => s[Len(s)] = "CR")
      BY <2>2, <3>1, EndsOfConcat
    <3> QED BY <2>1, <3>1, <3>2, ClosedByLF
  <2>3. CASE i # n + 1
    <3>1. i \in 2 .. Len(s) + Len(t) /\ i > Len(s) + 1
      BY <1>1, <2>3
    <3>2. i \in LineEnds(u) <=> i - Len(s) \in LineEnds(t)
      BY <3>1, EndsOfConcat
    <3>3. ~ (i - Len(s) > m)
      BY <1>1
    <3> QED BY <3>2, <3>3
  <2> QED BY <2>2, <2>3
<1> HIDE DEF u
<1>4. ASSUME NEW i \in n .. n + m, i # n, f[i - 1] = same[i - 1] PROVE f[i] = same[i]
  <2>1. i \in n + 1 .. n + m /\ i \in 1 .. Len(u) /\ i - 1 \in n .. n + m
    BY <1>1, <1>4
  <2>2. f[i] = f[i - 1]
    <3>1. f[i] = IF i \in LineEnds(u) THEN Append(f[i - 1], SubSeq(u, LastEnd(u, i) + 1, i)) ELSE f[i - 1]
      BY <2>1 DEF LinesTo, u
    <3> QED BY <1>3, <2>1, <3>1
  <2>3. same[i] = f[n] /\ same[i - 1] = f[n]
    BY <2>1
  <2> QED BY <1>4, <2>2, <2>3
<1>5. n + m \in Nat /\ n \in n .. n + m /\ n + m \in n .. n + m
  BY <1>1
<1>6. GoAlike(f, same, n, n + m)
  <2>1. f[n] = same[n]
    BY <1>5
  <2> HIDE DEF same
  <2> QED BY <1>4, <2>1 DEF GoAlike
<1>7. f[n + m] = same[n + m]
  <2> HIDE DEF same
  <2> QED BY <1>1, <1>5, <1>6, Same
<1> QED BY <1>2, <1>3, <1>5, <1>7 DEF u

(* Text without a line's end has no effect on the lines.                    *)
LEMMA LinesWithRest ==
    ASSUME NEW s \in Seq(Bytes), NEW t \in Seq(Bytes), Closed(s), LineEnds(t) = {}
    PROVE  LinesOf(s \o t) = LinesOf(s)
<1>1. s \o t \in Seq(Bytes) /\ Len(s \o t) = Len(s) + Len(t) /\ Len(t) \in 0 .. Len(t)
  BY ConcatProperties
<1>2. PICK f : LinesTo(f, s \o t) /\ LinesOf(s \o t) = f[Len(s \o t)]
  BY <1>1, LinesSteps
<1>3. \A e \in LineEnds(t) : e > Len(t)
  OBVIOUS
<1> QED BY <1>1, <1>2, <1>3, LinesUntilEnd

(* A text that is one line.                                                 *)
IsLine(l) == LineEnds(l) = {Len(l)}

(* A line that is put behind lines is the next one.                         *)
LEMMA LinesWithLine ==
    ASSUME NEW s \in Seq(Bytes), NEW l \in Seq(Bytes), Closed(s), IsLine(l)
    PROVE  LinesOf(s \o l) = Append(LinesOf(s), l) /\ Closed(s \o l)
<1> DEFINE u == s \o l
           n == Len(s)
           k == Len(l)
<1>1. /\ u \in Seq(Bytes) /\ Len(u) = n + k /\ n \in Nat /\ k \in Nat
      /\ \A i \in 1 .. n + k : u[i] = IF i <= n THEN s[i] ELSE l[i - n]
  BY ConcatProperties
<1>2. k \in 2 .. k
  BY DEF IsLine, LineEnds
<1>3. PICK f : LinesTo(f, s \o l) /\ LinesOf(s \o l) = f[Len(s \o l)]
  BY <1>1, LinesSteps
<1>4. /\ f[n + (k - 1)] = LinesOf(s)
      /\ \A i \in n + 1 .. n + (k - 1) : i \notin LineEnds(s \o l)
  <2>1. k - 1 \in 0 .. Len(l) /\ \A e \in LineEnds(l) : e > k - 1
    BY <1>1, <1>2 DEF IsLine
  <2> QED BY <1>3, <2>1, LinesUntilEnd
<1>5. n + k \in LineEnds(u)
  <2>1. n + k \in 2 .. Len(s) + Len(l) /\ n + k > Len(s) + 1 /\ n + k - Len(s) = k
    BY <1>1, <1>2
  <2>2. k \in LineEnds(l)
    BY DEF IsLine
  <2> QED BY <2>1, <2>2, EndsOfConcat
<1>6. LastEnd(u, n + k) = n
  <2>1. n + k \in Nat \ {0}
    BY <1>1, <1>2
  <2>2. /\ LastEnd(u, n + k) \in 0 .. n + k - 1
        /\ LastEnd(u, n + k) # 0 => LastEnd(u, n + k) \in LineEnds(u)
        /\ \A e \in LineEnds(u) : e \in Nat /\ e < n + k => e <= LastEnd(u, n + k)
    BY <2>1, LastEndIs
  <2>3. LastEnd(u, n + k) <= n
    <3>1. LastEnd(u, n + k) \notin n + 1 .. n + (k - 1)
      BY <1>1, <1>4, <2>2
    <3> QED BY <1>1, <1>2, <2>2, <3>1
  <2>4. LastEnd(u, n + k) >= n
    <3>1. CASE s = <<>>
      BY <2>2, <3>1
    <3>2. CASE n \in LineEnds(s)
      <4>1. n \in 2 .. n
        BY <3>2 DEF LineEnds
      <4>2. n \in 2 .. Len(s) + Len(l) /\ n <= Len(s) /\ n < n + k
        BY <1>1, <1>2, <4>1
      <4>3. n \in LineEnds(u)
        BY <3>2, <4>2, EndsOfConcat
      <4> QED BY <1>1, <2>2, <4>2, <4>3
    <3> QED BY <3>1, <3>2 DEF Closed
  <2> QED BY <1>1, <2>2, <2>3, <2>4
<1>7. SubSeq(u, n + 1, n + k) = l
  <2>1. n + 1 \in Len(s) + 1 .. Len(s) + Len(l) /\ n + k \in Len(s) + 1 .. Len(s) + Len(l)
    BY <1>1, <1>2
  <2>2. SubSeq(s \o l, n + 1, n + k) = SubSeq(l, n + 1 - Len(s), n + k - Len(s))
    BY <2>1, SubSeqOfConcat2
  <2>3. n + 1 - Len(s) = 1 /\ n + k - Len(s) = Len(l)
    BY <1>1
  <2>4. SubSeq(l, 1, Len(l)) = l
    BY SubSeqFull
  <2> QED BY <2>2, <2>3, <2>4
<1> HIDE DEF u
<1>8. LinesOf(u) = Append(LinesOf(s), l)
  <2>1. n + k \in 1 .. Len(u) /\ (n + k) - 1 = n + (k - 1)
    BY <1>1, <1>2
  <2>2. f[n + k] = Append(f[(n + k) - 1], SubSeq(u, LastEnd(u, n + k) + 1, n + k))
    BY <1>3, <1>5, <2>1 DEF LinesTo, u
  <2>3. LinesOf(u) = f[n + k]
    BY <1>1, <1>3 DEF u
  <2> QED BY <1>4, <1>6, <1>7, <2>1, <2>2, <2>3
<1>9. Closed(u)
  BY <1>1, <1>5 DEF Closed
<1> QED BY <1>8, <1>9 DEF u

(* Whatever follows, the lines there were are the first.                    *)
LEMMA LinesGrow ==
    ASSUME NEW s \in Seq(Bytes), NEW t \in Seq(Bytes)
    PROVE  /\ LinesOf(s) \in Seq(Seq(Bytes)) /\ LinesOf(s \o t) \in Seq(Seq(Bytes))
           /\ Len(LinesOf(s)) <= Len(LinesOf(s \o t))
           /\ \A k \in 1 .. Len(LinesOf(s)) : LinesOf(s \o t)[k] = LinesOf(s)[k]
<1> DEFINE u == s \o t
           n == Len(s)
           lines == LinesOf(s)
<1>1. u \in Seq(Bytes) /\ Len(u) = n + Len(t) /\ n \in Nat /\ Len(t) \in Nat
  BY ConcatProperties
<1>2. PICK f : LinesTo(f, s \o t) /\ LinesOf(s \o t) = f[Len(s \o t)]
  BY <1>1, LinesSteps
<1>3. lines = f[n]
  BY <1>2, LinesOfPrefix
<1> HIDE DEF u, lines
<1>4. \A i \in 0 .. Len(u) : f[i] \in Seq(Seq(Bytes))
  BY <1>2 DEF LinesTo, u
<1>5. lines \in Seq(Seq(Bytes)) /\ Len(lines) \in Nat
  <2>1. n \in 0 .. Len(u)
    BY <1>1
  <2>2. lines \in Seq(Seq(Bytes))
    BY <1>3, <1>4, <2>1
  <2> QED BY <2>2
<1> DEFINE Extends(ls) == Len(lines) <= Len(ls) /\ \A k \in 1 .. Len(lines) : ls[k] = lines[k]
           T == {m \in Nat : m <= Len(t) => Extends(f[n + m])}
<1>6. 0 \in T
  <2>1. f[n + 0] = lines
    BY <1>1, <1>3
  <2>2. Extends(lines)
    BY <1>5
  <2> QED BY <2>1, <2>2
<1>7. ASSUME NEW m \in Nat, m \in T PROVE m + 1 \in T
  <2> SUFFICES ASSUME m + 1 <= Len(t) PROVE Extends(f[n + (m + 1)])
    OBVIOUS
  <2> DEFINE i == n + (m + 1)
             ls == f[n + m]
             l == SubSeq(u, LastEnd(u, i) + 1, i)
  <2>1. /\ i \in 1 .. Len(u) /\ i - 1 = n + m /\ n + m \in 0 .. Len(u) /\ m <= Len(t)
        /\ i \in Nat \ {0}
    BY <1>1
  <2>2. ls \in Seq(Seq(Bytes)) /\ Extends(ls)
    BY <1>4, <1>7, <2>1
  <2>3. f[i] = IF i \in LineEnds(u) THEN Append(ls, l) ELSE ls
    BY <1>2, <2>1 DEF LinesTo, u
  <2>4. l \in Seq(Bytes)
    <3>1. LastEnd(u, i) \in 0 .. i - 1
      BY <2>1, LastEndIs
    <3>2. LastEnd(u, i) + 1 \in Nat \ {0} /\ LastEnd(u, i) + 1 <= i + 1 /\ i \in Nat /\ i <= Len(u)
      BY <1>1, <2>1, <3>1
    <3> HIDE DEF i
    <3> QED BY <1>1, <3>2, PieceOf
  <2> HIDE DEF i, ls, l
  <2>5. Len(Append(ls, l)) = Len(ls) + 1 /\ \A k \in 1 .. Len(ls) : Append(ls, l)[k] = ls[k]
    BY <2>2, <2>4, AppendProperties
  <2>6. Extends(Append(ls, l))
    <3>1. Len(ls) \in Nat
      BY <2>2
    <3> QED BY <1>5, <2>2, <2>5, <3>1
  <2>7. Extends(f[i])
    BY <2>2, <2>3, <2>6
  <2> QED BY <2>7 DEF i
<1>8. Extends(f[n + Len(t)])
  <2>1. Nat \subseteq T
    <3> HIDE DEF T
    <3> QED BY <1>6, <1>7, Reaches
  <2> HIDE DEF Extends
  <2> QED BY <1>1, <2>1
<1>9. LinesOf(u) = f[n + Len(t)] /\ LinesOf(u) \in Seq(Seq(Bytes))
  <2>1. n + Len(t) \in 0 .. Len(u)
    BY <1>1
  <2> QED BY <1>1, <1>2, <1>4, <2>1 DEF u
<1> QED BY <1>5, <1>8, <1>9 DEF lines, u

(* A text of nothing has no lines.                                          *)
LEMMA NoLines == LinesOf(<<>>) = <<>> /\ Closed(<<>>)
<1>1. PICK f : LinesTo(f, <<>>) /\ LinesOf(<<>>) = f[Len(<<>>)]
  <2>1. <<>> \in Seq(Bytes)
    OBVIOUS
  <2> QED BY <2>1, LinesSteps
<1>2. Len(<<>>) = 0
  OBVIOUS
<1> QED BY <1>1, <1>2 DEF LinesTo, Closed

-----------------------------------------------------------------------------
(* The invariant.                                                           *)

(* The array holds the vector and a byte behind it.                         *)
Room == InitialSize <= allocated /\ TerminatorFits

(* Between two packets the buffer is not processed, and while a reply is    *)
(* sent it is empty.  While it is scanned there is something to scan,       *)
(* behind a line's end.                                                     *)
Scans ==
    /\ phase # "scan" => end = 0
    /\ phase = "reply" => buffer = <<>> /\ letter = <<>> /\ sent = <<>>
    /\ phase = "scan" => end < Len(buffer) /\ (end # 0 => buffer[end] = "LF")

(* The letter's lines are those of the text they make up.                   *)
Parsed ==
    mode = "data" =>
        /\ \A k \in 1 .. Len(letter) : letter[k] # DataEnd
        /\ ~DoubleCR => LinesOf(FlattenSeq(letter)) = letter /\ Closed(FlattenSeq(letter))
        /\ phase = "read" /\ ~DoubleCR => LineEnds(buffer) = {}

IInv == TypeOK /\ Room /\ Scans /\ NothingLost /\ Parsed

-----------------------------------------------------------------------------
(* The next piece of the buffer.                                            *)
Behind == SubSeq(buffer, sub_str_iterate + 1, Len(buffer))

(* Where the next piece is, and what is behind it.                          *)
LEMMA PieceIs ==
    ASSUME TypeOK
    PROVE  /\ Rest \in Seq(Bytes) /\ Len(Rest) = Len(buffer) - end
           /\ \A k \in 1 .. Len(buffer) - end : Rest[k] = buffer[end + k]
           /\ sub_str_iterate \in end .. Len(buffer)
           /\ Line \in Seq(Bytes) /\ Len(Line) = sub_str_iterate - end
           /\ Behind \in Seq(Bytes) /\ Line \o Behind = Rest
           /\ \/ find_first_entry_str(Rest) = {} /\ sub_str_iterate = Len(buffer)
              \/ /\ sub_str_iterate - end \in find_first_entry_str(Rest)
                 /\ \A i \in find_first_entry_str(Rest) : sub_str_iterate - end <= i
<1> DEFINE found == find_first_entry_str(Rest)
           n == Len(buffer)
<1>1. buffer \in Seq(Bytes) /\ n \in Nat /\ end \in 0 .. n
  BY DEF TypeOK
<1>2. /\ Rest \in Seq(Bytes) /\ Len(Rest) = n - end
      /\ \A k \in 1 .. n - end : Rest[k] = buffer[end + k]
  <2>1. end + 1 \in Nat \ {0} /\ end + 1 <= n + 1 /\ n + 1 - (end + 1) = n - end
    BY <1>1
  <2>2. /\ Rest \in Seq(Bytes) /\ Len(Rest) = n + 1 - (end + 1)
        /\ \A k \in 1 .. n + 1 - (end + 1) : Rest[k] = buffer[end + 1 + k - 1]
    BY <1>1, <2>1, PieceOf DEF Rest
  <2>3. \A k \in 1 .. n - end : end + 1 + k - 1 = end + k
    BY <1>1
  <2> QED BY <2>1, <2>2, <2>3
<1>3. found \subseteq 1 .. Len(Rest) /\ found \subseteq Nat
  <2>1. \A i \in found : i \in LineEnds(Rest)
    BY <1>2, FoundIsBreak
  <2>2. \A i \in found : i \in 2 .. Len(Rest)
    BY <2>1 DEF LineEnds
  <2> HIDE DEF found
  <2> QED BY <1>2, <2>2
<1>4. /\ sub_str_iterate \in end .. n
      /\ \/ found = {} /\ sub_str_iterate = n
         \/ sub_str_iterate - end \in found /\ \A i \in found : sub_str_iterate - end <= i
  <2>1. CASE found = {}
    BY <1>1, <2>1 DEF sub_str_iterate
  <2>2. CASE found # {}
    <3> DEFINE m == CHOOSE x \in found : \A y \in found : x <= y
    <3>1. sub_str_iterate = end + m
      BY <2>2 DEF sub_str_iterate, Min
    <3>2. m \in found /\ \A i \in found : m <= i
      <4>1. \E x \in found : \A y \in found : x <= y
        <5> HIDE DEF found
        <5> QED BY <1>3, <2>2, Least
      <4> QED BY <4>1
    <3> HIDE DEF m, found
    <3>3. m \in 1 .. n - end
      BY <1>2, <1>3, <3>2
    <3>4. sub_str_iterate - end = m /\ sub_str_iterate \in end .. n
      BY <1>1, <3>1, <3>3
    <3> QED BY <3>2, <3>4
  <2> QED BY <2>1, <2>2
<1> HIDE DEF found
<1>5. Line \in Seq(Bytes) /\ Len(Line) = sub_str_iterate - end
  <2>1. /\ end + 1 \in Nat \ {0} /\ sub_str_iterate \in Nat /\ end + 1 <= sub_str_iterate + 1
        /\ sub_str_iterate <= n /\ sub_str_iterate + 1 - (end + 1) = sub_str_iterate - end
    BY <1>1, <1>4
  <2> QED BY <1>1, <2>1, PieceOf DEF Line
<1>6. Behind \in Seq(Bytes)
  <2>1. sub_str_iterate + 1 \in Nat \ {0} /\ sub_str_iterate + 1 <= n + 1
    BY <1>1, <1>4
  <2> QED BY <1>1, <2>1, PieceOf DEF Behind
<1>7. Line \o Behind = Rest
  <2>1. end + 1 \in 1 .. n + 1 /\ sub_str_iterate \in (end + 1) - 1 .. n /\ n \in sub_str_iterate .. n
    BY <1>1, <1>4
  <2> QED BY <1>1, <2>1, ConcatAdjacentSubSeq DEF Line, Behind, Rest
<1> QED BY <1>2, <1>4, <1>5, <1>6, <1>7 DEF found

(* What the check for a line's end (server.c:222) says.                     *)
LEMMA EndIs ==
    ASSUME TypeOK
    PROVE  is_line_and <=> /\ sub_str_iterate >= 2
                           /\ Break(buffer, sub_str_iterate)
<1> DEFINE i == sub_str_iterate
<1>1. buffer \in Seq(Bytes) /\ i \in 0 .. Len(buffer)
  BY PieceIs DEF TypeOK
<1> HIDE DEF i
<1>2. i >= 2 => (SubSeq(buffer, i - 1, i) = CRLF <=> Break(buffer, i))
  <2>1. i >= 2 => i \in 2 .. Len(buffer)
    BY <1>1
  <2>2. i >= 2 => (i \in LineEnds(buffer) <=> SubSeq(buffer, i - 1, i) = CRLF)
    BY <2>1 DEF LineEnds
  <2> QED BY <1>1, <2>1, <2>2, BreaksEnd
<1> QED BY <1>2 DEF is_line_and, i

(* A piece without an end is all that is left.                              *)
LEMMA PartialIsRest ==
    ASSUME TypeOK, ~is_line_and
    PROVE  find_first_entry_str(Rest) = {} /\ Line = Rest
<1>1. find_first_entry_str(Rest) = {}
  <2> SUFFICES ASSUME sub_str_iterate - end \in find_first_entry_str(Rest) PROVE FALSE
    BY PieceIs
  <2> DEFINE i == sub_str_iterate - end
  <2>1. i \in 2 .. Len(Rest) /\ Break(Rest, i)
    <3>1. i \in LineEnds(Rest)
      BY PieceIs, FoundIsBreak
    <3>2. i \in 2 .. Len(Rest)
      BY <3>1 DEF LineEnds
    <3> HIDE DEF i
    <3> QED BY <3>1, <3>2, PieceIs, BreaksEnd
  <2>2. end \in Nat /\ sub_str_iterate = end + i /\ sub_str_iterate - 1 = end + (i - 1)
        /\ Len(buffer) \in Nat
    BY PieceIs DEF TypeOK
  <2> HIDE DEF i
  <2>3. i \in 1 .. Len(buffer) - end /\ i - 1 \in 1 .. Len(buffer) - end
    BY <2>1, <2>2, PieceIs
  <2>4. Rest[i] = buffer[end + i] /\ Rest[i - 1] = buffer[end + (i - 1)]
    BY <2>3, PieceIs
  <2>5. sub_str_iterate >= 2
    BY <2>1, <2>2
  <2> QED BY <2>1, <2>2, <2>4, <2>5, EndIs DEF Break
<1>2. sub_str_iterate = Len(buffer)
  BY <1>1, PieceIs
<1> QED BY <1>1, <1>2 DEF Line, Rest

(* Where the search finds nothing there is no line break.                   *)
LEMMA NothingFound ==
    ASSUME NEW s \in Seq(Bytes), NoDoubleCR(s), find_first_entry_str(s) = {}
    PROVE  LineEnds(s) = {}
<1> SUFFICES ASSUME LineEnds(s) # {} PROVE FALSE
  OBVIOUS
<1>1. LineEnds(s) \subseteq Nat
  BY DEF LineEnds
<1>2. PICK i \in LineEnds(s) : \A k \in LineEnds(s) : i <= k
  BY <1>1, Least
<1> QED BY <1>2, FirstIsFound

(* A piece with an end is a line, if no CR is followed by another.          *)
LEMMA PieceIsLine ==
    ASSUME TypeOK, phase = "scan", Scans, is_line_and, NoDoubleCR(Rest)
    PROVE  IsLine(Line)
<1> DEFINE i == sub_str_iterate
           m == sub_str_iterate - end
<1>1. i \in 2 .. Len(buffer) /\ Break(buffer, i) /\ end \in Nat /\ Len(buffer) \in Nat /\ i = end + m
      /\ m \in Nat
  BY PieceIs, EndIs DEF TypeOK
<1>2. find_first_entry_str(Rest) # {}
  <2> SUFFICES ASSUME find_first_entry_str(Rest) = {} PROVE FALSE
    OBVIOUS
  <2>1. LineEnds(Rest) = {} /\ i = Len(buffer)
    BY PieceIs, NothingFound
  <2>2. end < i /\ (end # 0 => end # i - 1)
    BY <1>1, <2>1 DEF Scans, Break
  <2> HIDE DEF i, m
  <2>3. m >= 2 /\ m \in 1 .. Len(buffer) - end /\ m - 1 \in 1 .. Len(buffer) - end
    BY <1>1, <2>1, <2>2
  <2>4. Rest[m] = buffer[i] /\ Rest[m - 1] = buffer[i - 1]
    <3>1. Rest[m] = buffer[end + m] /\ Rest[m - 1] = buffer[end + (m - 1)]
      BY <2>3, PieceIs
    <3>2. end + (m - 1) = i - 1
      BY <1>1
    <3> QED BY <1>1, <3>1, <3>2
  <2>5. m \in 2 .. Len(Rest) /\ Break(Rest, m)
    BY <1>1, <2>3, <2>4, PieceIs DEF Break
  <2> QED BY <2>1, <2>5, PieceIs, BreaksEnd
<1>3. m \in find_first_entry_str(Rest) /\ \A k \in find_first_entry_str(Rest) : m <= k
  BY <1>2, PieceIs
<1>4. Len(Line) = m /\ Line \in Seq(Bytes) /\ Behind \in Seq(Bytes) /\ Line \o Behind = Rest
  BY PieceIs
<1> HIDE DEF i, m
<1>5. m \in LineEnds(Rest) /\ m \in 2 .. Len(Rest)
  <2>1. m \in LineEnds(Rest)
    BY <1>3, PieceIs, FoundIsBreak
  <2> QED BY <2>1 DEF LineEnds
<1>6. \A e \in LineEnds(Rest) : m <= e
  <2>1. LineEnds(Rest) \subseteq Nat
    BY DEF LineEnds
  <2>2. PICK e \in LineEnds(Rest) : \A k \in LineEnds(Rest) : e <= k
    BY <1>5, <2>1, Least
  <2>3. m <= e
    BY <1>3, <2>2, PieceIs, FirstIsFound
  <2> QED BY <1>1, <2>1, <2>2, <2>3
<1>7. \A e \in 2 .. m : e \in LineEnds(Line) <=> e \in LineEnds(Rest)
  <2> TAKE e \in 2 .. m
  <2>1. e \in 2 .. Len(Line) + Len(Behind) /\ e <= Len(Line)
    <3>1. Len(Behind) \in Nat
      BY <1>4
    <3> QED BY <1>1, <1>4, <3>1
  <2> QED BY <1>4, <2>1, EndsOfConcat
<1>8. \A e \in LineEnds(Line) : e \in 2 .. m
  BY <1>4 DEF LineEnds
<1>9. m \in 2 .. m
  BY <1>1, <1>5
<1>10. \A e \in LineEnds(Line) : e = m
  BY <1>1, <1>6, <1>7, <1>8
<1>11. m \in LineEnds(Line)
  BY <1>5, <1>7, <1>9
<1> QED BY <1>4, <1>10, <1>11 DEF IsLine

(* Two CR in a row are somewhere in the text or in neither part of it.      *)
LEMMA DoubleCRIs ==
    ASSUME TypeOK, NothingLost, mode = "data", ~DoubleCR
    PROVE  NoDoubleCR(Rest)
<1> DEFINE s == FlattenSeq(letter)
           n == Len(s)
<1>1. s \in Seq(Bytes) /\ Rest \in Seq(Bytes) /\ s \o Rest = sent
  BY PieceIs, FlattenTyped DEF TypeOK, NothingLost
<1> HIDE DEF s
<1>2. /\ n \in Nat /\ Len(Rest) \in Nat /\ Len(sent) = n + Len(Rest)
      /\ \A i \in 1 .. n + Len(Rest) : sent[i] = IF i <= n THEN s[i] ELSE Rest[i - n]
  <2>1. n \in Nat /\ Len(Rest) \in Nat
    BY <1>1
  <2> QED BY <1>1, <2>1, ConcatProperties
<1>3. ASSUME NEW i \in 2 .. Len(Rest), Rest[i - 1] = "CR", Rest[i] = "CR" PROVE FALSE
  <2>1. /\ n + i \in 2 .. Len(sent) /\ n + i \in 1 .. n + Len(Rest) /\ (n + i) - 1 \in 1 .. n + Len(Rest)
        /\ ~ (n + i <= n) /\ ~ ((n + i) - 1 <= n) /\ (n + i) - n = i /\ ((n + i) - 1) - n = i - 1
    BY <1>2
  <2>2. sent[n + i] = Rest[i] /\ sent[(n + i) - 1] = Rest[i - 1]
    BY <1>2, <2>1
  <2> QED BY <1>3, <2>1, <2>2 DEF DoubleCR
<1> QED BY <1>3 DEF NoDoubleCR

LEMMA TextsJoin ==
    ASSUME NEW s \in Seq(Bytes), NEW t \in Seq(Bytes), NEW u \in Seq(Bytes)
    PROVE  s \o t \in Seq(Bytes) /\ (s \o t) \o u = s \o (t \o u)
<1>1. s \o t \in Seq(Bytes)
  OBVIOUS
<1>2. (s \o t) \o u = s \o (t \o u)
  BY ConcatAssociative
<1> QED BY <1>1, <1>2

LEMMA PrefixOfJoined ==
    ASSUME NEW s \in Seq(Bytes), NEW t \in Seq(Bytes)
    PROVE  IsPrefix(s, s \o t)
<1> DEFINE u == s \o t
           n == Len(s)
<1>1. /\ u \in Seq(Bytes) /\ Len(u) = n + Len(t) /\ n \in Nat /\ Len(t) \in Nat
      /\ \A k \in 1 .. n + Len(t) : u[k] = IF k <= n THEN s[k] ELSE t[k - n]
  BY ConcatProperties
<1> HIDE DEF u
<1>2. n <= Len(u) /\ 1 \in Nat \ {0} /\ 1 <= n + 1 /\ n + 1 - 1 = n
  BY <1>1
<1>3. /\ SubSeq(u, 1, n) \in Seq(Bytes) /\ Len(SubSeq(u, 1, n)) = n
      /\ \A k \in 1 .. n : SubSeq(u, 1, n)[k] = u[1 + k - 1]
  BY <1>1, <1>2, PieceOf
<1>4. \A k \in 1 .. n : SubSeq(u, 1, n)[k] = s[k]
  <2> TAKE k \in 1 .. n
  <2>1. k \in 1 .. n + Len(t) /\ k <= n /\ 1 + k - 1 = k
    BY <1>1
  <2> QED BY <1>1, <1>3, <2>1
<1>5. SubSeq(u, 1, n) = s
  BY <1>3, <1>4
<1>6. SubSeq(s, 1, n) = s
  BY SubSeqFull
<1> QED BY <1>2, <1>5, <1>6 DEF IsPrefix, u

LEMMA RestIsBuffer == ASSUME TypeOK, end = 0 PROVE Rest = buffer
<1>1. SubSeq(buffer, 1, Len(buffer)) = buffer
  BY SubSeqFull DEF TypeOK
<1>2. 0 + 1 = 1
  OBVIOUS
<1> QED BY <1>1, <1>2 DEF Rest

LEMMA EmptyRest == ASSUME buffer = <<>>, end = 0 PROVE Rest = <<>>
BY SubSeqEmpty DEF Rest

-----------------------------------------------------------------------------
(* The steps.                                                               *)

(* Where nothing is to be read, nothing can be wrong.                       *)
LEMMA EmptyKeeps ==
    ASSUME allocated \in Nat, Room, phase' = "reply", mode' \in {"command", "data"},
           buffer' = <<>>, end' = 0, letter' = <<>>, sent' = <<>>,
           allocated' = allocated \/ allocated' = InitialSize, Len(buffer) \in Nat
    PROVE  IInv'
<1>1. Len(<<>>) = 0 /\ <<>> \in Seq(Bytes) /\ <<>> \in Seq(Seq(Bytes)) /\ 0 \in 0 .. 0
  OBVIOUS
<1>2. allocated' \in Nat /\ InitialSize <= allocated' /\ 0 < allocated'
  BY DEF Room, InitialSize
<1>3. TypeOK'
  BY <1>1, <1>2 DEF TypeOK
<1>4. Room' /\ Scans'
  BY <1>1, <1>2 DEF Room, TerminatorFits, Scans
<1>5. NothingLost'
  <2>1. Rest' = <<>>
    BY SubSeqEmpty DEF Rest
  <2>2. <<>> \o <<>> = <<>>
    OBVIOUS
  <2> QED BY <2>1, <2>2, FlattenEmpty DEF NothingLost
<1>6. Parsed'
  BY <1>1, FlattenEmpty, NoLines DEF Parsed
<1> QED BY <1>3, <1>4, <1>5, <1>6 DEF IInv

LEMMA InitHolds == Init => IInv
<1> SUFFICES ASSUME Init PROVE IInv
  OBVIOUS
<1>1. Len(<<>>) = 0 /\ <<>> \in Seq(Bytes) /\ <<>> \in Seq(Seq(Bytes)) /\ 0 \in 0 .. 0
  OBVIOUS
<1>2. TypeOK /\ Room /\ Scans
  BY <1>1 DEF Init, TypeOK, Room, TerminatorFits, Scans, InitialSize
<1>3. NothingLost /\ Parsed
  BY DEF Init, NothingLost, Parsed
<1> QED BY <1>2, <1>3 DEF IInv

LEMMA AnswerKeeps ==
    ASSUME IInv, CommandLine \/ LetterEnd PROVE IInv'
<1>1. allocated \in Nat /\ Room /\ Len(buffer) \in Nat
  BY DEF IInv, TypeOK
<1>2. mode' \in {"command", "data"} /\ Answer
  BY DEF CommandLine, LetterEnd
<1> QED BY <1>1, <1>2, EmptyKeeps DEF Answer

LEMMA ReconnectKeeps == ASSUME IInv, Reconnect PROVE IInv'
<1>1. allocated \in Nat /\ Room /\ Len(buffer) \in Nat
  BY DEF IInv, TypeOK
<1> QED BY <1>1, EmptyKeeps DEF Reconnect

LEMMA ReplySentKeeps == ASSUME IInv, ReplySent PROVE IInv'
<1>1. UNCHANGED <<mode, buffer, allocated, end, letter, sent>> /\ phase = "reply" /\ phase' = "read"
  BY DEF ReplySent
<1>2. TypeOK' /\ Room'
  BY <1>1 DEF IInv, TypeOK, Room, TerminatorFits
<1>3. Scans'
  BY <1>1 DEF IInv, Scans
<1>4. NothingLost'
  BY <1>1 DEF IInv, NothingLost, Rest
<1>5. Parsed'
  <2>1. LineEnds(buffer) = {}
    <3>1. buffer = <<>> /\ Len(<<>>) = 0
      BY <1>1 DEF IInv, Scans
    <3>2. 2 .. 0 = {}
      OBVIOUS
    <3> QED BY <3>1, <3>2 DEF LineEnds
  <2>2. DoubleCR' <=> DoubleCR
    BY <1>1 DEF DoubleCR
  <2> QED BY <1>1, <2>1, <2>2 DEF IInv, Parsed
<1> QED BY <1>2, <1>3, <1>4, <1>5 DEF IInv

LEMMA ReceiveKeeps == ASSUME IInv, Receive PROVE IInv'
<1> DEFINE n == Len(buffer)
<1>1. /\ buffer \in Seq(Bytes) /\ sent \in Seq(Bytes) /\ n \in Nat /\ end = 0 /\ phase = "read"
      /\ allocated \in Nat /\ n < allocated /\ InitialSize <= allocated
  BY DEF IInv, TypeOK, Room, TerminatorFits, Scans, Receive
<1>2. PICK k \in 1 .. MaxPacket : \E packet \in [1 .. k -> Bytes] :
         /\ buffer' = buffer \o packet
         /\ allocated' = Grown(allocated, n, n + k)
         /\ sent' = sent \o packet
  BY DEF Receive
<1>3. PICK packet \in [1 .. k -> Bytes] :
         /\ buffer' = buffer \o packet
         /\ allocated' = Grown(allocated, n, n + k)
         /\ sent' = sent \o packet
  BY <1>2
<1>4. phase' = "scan" /\ UNCHANGED <<mode, end, letter>>
  BY DEF Receive
<1>5. k \in Nat /\ k >= 1 /\ packet \in Seq(Bytes) /\ Len(packet) = k
  <2>1. k \in Nat /\ k >= 1
    BY LineReaderAssumption
  <2> QED BY <2>1
<1>6. /\ buffer' \in Seq(Bytes) /\ Len(buffer') = n + k /\ sent' \in Seq(Bytes)
      /\ Len(sent') = Len(sent) + k /\ \A i \in 1 .. Len(sent) : sent'[i] = sent[i]
  <2>1. /\ buffer \o packet \in Seq(Bytes) /\ Len(buffer \o packet) = n + k
    BY <1>1, <1>5, ConcatProperties
  <2>2. /\ sent \o packet \in Seq(Bytes) /\ Len(sent \o packet) = Len(sent) + k
        /\ \A i \in 1 .. Len(sent) + k :
             (sent \o packet)[i] = IF i <= Len(sent) THEN sent[i] ELSE packet[i - Len(sent)]
    BY <1>1, <1>5, ConcatProperties
  <2>3. Len(sent) \in Nat
    BY <1>1
  <2> QED BY <1>3, <1>5, <2>1, <2>2, <2>3
<1>7. allocated' \in Nat /\ n + k < allocated' /\ InitialSize <= allocated'
  <2>1. n + k \in Nat /\ n <= n + k
    BY <1>1, <1>5
  <2> QED BY <1>1, <1>3, <2>1, GrownFits
<1>8. TypeOK'
  BY <1>1, <1>4, <1>5, <1>6, <1>7 DEF IInv, TypeOK
<1>9. Room' /\ Scans'
  BY <1>1, <1>4, <1>5, <1>6, <1>7 DEF Room, TerminatorFits, Scans
<1>10. NothingLost'
  <2> SUFFICES ASSUME mode = "data" PROVE FlattenSeq(letter) \o Rest' = sent'
    BY <1>4 DEF NothingLost
  <2> DEFINE s == FlattenSeq(letter)
  <2>1. s \in Seq(Bytes)
    BY FlattenTyped DEF IInv, TypeOK
  <2>2. s \o buffer = sent
    BY <1>1, RestIsBuffer DEF IInv, NothingLost
  <2>3. Rest' = buffer'
    <3>1. end' = 0
      BY <1>1, <1>4
    <3>2. SubSeq(buffer', 1, Len(buffer')) = buffer'
      BY <1>6, SubSeqFull
    <3>3. 0 + 1 = 1
      OBVIOUS
    <3> QED BY <3>1, <3>2, <3>3 DEF Rest
  <2>4. (s \o buffer) \o packet = s \o (buffer \o packet)
    BY <1>1, <1>5, <2>1, TextsJoin
  <2> QED BY <1>3, <2>2, <2>3, <2>4
<1>11. Parsed'
  <2>1. DoubleCR => DoubleCR'
    <3> SUFFICES ASSUME NEW i \in 2 .. Len(sent), sent[i - 1] = "CR", sent[i] = "CR" PROVE DoubleCR'
      BY DEF DoubleCR
    <3>1. Len(sent) \in Nat
      BY <1>1
    <3>2. i \in 2 .. Len(sent') /\ i - 1 \in 1 .. Len(sent) /\ i \in 1 .. Len(sent)
      BY <1>5, <1>6, <3>1
    <3>3. sent'[i - 1] = "CR" /\ sent'[i] = "CR"
      BY <1>6, <3>2
    <3> QED BY <3>2, <3>3 DEF DoubleCR
  <2> QED BY <1>4, <2>1 DEF IInv, Parsed
<1> QED BY <1>8, <1>9, <1>10, <1>11 DEF IInv

LEMMA KeepPartialKeeps == ASSUME IInv, KeepPartial PROVE IInv'
<1>1. /\ phase = "scan" /\ ~is_line_and /\ phase' = "read" /\ buffer' = Line /\ end' = 0
      /\ UNCHANGED <<mode, allocated, letter, sent>>
  BY DEF KeepPartial
<1>2. TypeOK
  BY DEF IInv
<1>3. find_first_entry_str(Rest) = {} /\ Line = Rest
  BY <1>1, <1>2, PartialIsRest
<1>4. Line \in Seq(Bytes) /\ Len(Line) = Len(buffer) - end /\ Len(buffer) \in Nat /\ end \in 0 .. Len(buffer)
  BY <1>2, <1>3, PieceIs DEF TypeOK
<1>5. TypeOK'
  BY <1>1, <1>2, <1>4 DEF TypeOK
<1>6. Room' /\ Scans'
  BY <1>1, <1>2, <1>4 DEF IInv, TypeOK, Room, TerminatorFits, Scans
<1>7. Rest' = Rest
  <2>1. SubSeq(Line, 1, Len(Line)) = Line
    BY <1>4, SubSeqFull
  <2>2. 0 + 1 = 1
    OBVIOUS
  <2>3. Rest' = SubSeq(Line, 0 + 1, Len(Line))
    BY <1>1 DEF Rest
  <2> QED BY <1>3, <2>1, <2>2, <2>3
<1>8. NothingLost'
  BY <1>1, <1>7 DEF IInv, NothingLost
<1>9. Parsed'
  <2>1. DoubleCR' <=> DoubleCR
    BY <1>1 DEF DoubleCR
  <2>2. mode = "data" /\ ~DoubleCR => LineEnds(buffer') = {}
    BY <1>1, <1>2, <1>3, <1>4, DoubleCRIs, NothingFound DEF IInv
  <2> QED BY <1>1, <2>1, <2>2 DEF IInv, Parsed
<1> QED BY <1>5, <1>6, <1>8, <1>9 DEF IInv

LEMMA LetterLineKeeps == ASSUME IInv, LetterLine PROVE IInv'
<1> DEFINE i == sub_str_iterate
           s == FlattenSeq(letter)
<1>1. /\ phase = "scan" /\ mode = "data" /\ is_line_and /\ Line # DataEnd
      /\ letter' = Append(letter, Line) /\ UNCHANGED <<mode, allocated, sent>>
      /\ \/ i # Len(buffer) /\ end' = i /\ UNCHANGED <<phase, buffer>>
         \/ i = Len(buffer) /\ end' = 0 /\ phase' = "read" /\ buffer' = <<>>
  BY DEF LetterLine, IsDataEnd
<1>2. TypeOK /\ NothingLost /\ Scans
  BY DEF IInv
<1>3. /\ Line \in Seq(Bytes) /\ Behind \in Seq(Bytes) /\ Line \o Behind = Rest
      /\ i \in 0 .. Len(buffer) /\ Len(buffer) \in Nat /\ letter \in Seq(Seq(Bytes))
      /\ s \in Seq(Bytes) /\ s \o Rest = sent /\ buffer \in Seq(Bytes)
  <2>1. s \in Seq(Bytes)
    BY <1>2, FlattenTyped DEF TypeOK
  <2>2. i \in 0 .. Len(buffer)
    BY <1>2, PieceIs DEF TypeOK
  <2>3. Line \in Seq(Bytes) /\ Behind \in Seq(Bytes) /\ Line \o Behind = Rest
    BY <1>2, PieceIs
  <2>4. letter \in Seq(Seq(Bytes)) /\ buffer \in Seq(Bytes) /\ Len(buffer) \in Nat
    BY <1>2 DEF TypeOK
  <2> QED BY <1>1, <1>2, <2>1, <2>2, <2>3, <2>4 DEF NothingLost
<1>4. i >= 2 /\ buffer[i] = "LF"
  BY <1>1, <1>2, EndIs DEF Break
<1>5. FlattenSeq(letter') = s \o Line
  BY <1>1, <1>3, FlattenAppend
<1>6. Rest' = Behind
  <2>1. CASE i # Len(buffer)
    <3>1. end' = i /\ buffer' = buffer
      BY <1>1, <2>1
    <3> QED BY <3>1 DEF Rest, Behind
  <2>2. CASE i = Len(buffer)
    <3>1. buffer' = <<>> /\ end' = 0
      BY <1>1, <2>2
    <3>2. Rest' = <<>>
      BY <3>1, SubSeqEmpty DEF Rest
    <3>3. Behind = <<>>
      BY <1>3, <2>2, SubSeqEmpty DEF Behind
    <3> QED BY <3>2, <3>3
  <2> QED BY <2>1, <2>2
<1> HIDE DEF i, s
<1>7. TypeOK'
  <2>1. letter' \in Seq(Seq(Bytes))
    BY <1>1, <1>3
  <2>2. CASE i # Len(buffer)
    <3>1. end' = i /\ phase' = phase /\ buffer' = buffer
      BY <1>1, <2>2
    <3> QED BY <1>1, <1>2, <1>3, <2>1, <3>1 DEF TypeOK
  <2>3. CASE i = Len(buffer)
    <3>1. buffer' = <<>> /\ end' = 0 /\ phase' = "read"
      BY <1>1, <2>3
    <3>2. Len(<<>>) = 0 /\ <<>> \in Seq(Bytes) /\ 0 \in 0 .. 0
      OBVIOUS
    <3> QED BY <1>1, <1>2, <2>1, <3>1, <3>2 DEF TypeOK
  <2> QED BY <2>2, <2>3
<1>8. Room'
  <2>1. Len(buffer') <= Len(buffer)
    <3>1. Len(<<>>) = 0
      OBVIOUS
    <3> QED BY <1>1, <1>3, <3>1
  <2>2. Len(buffer') \in Nat /\ allocated \in Nat
    BY <1>2, <1>7 DEF TypeOK
  <2> QED BY <1>1, <1>3, <2>1, <2>2 DEF IInv, Room, TerminatorFits
<1>9. Scans'
  <2>1. CASE i # Len(buffer)
    <3>1. end' = i /\ phase' = "scan" /\ buffer' = buffer /\ i < Len(buffer)
      BY <1>1, <1>3, <2>1
    <3> QED BY <1>4, <3>1 DEF Scans
  <2>2. CASE i = Len(buffer)
    BY <1>1, <2>2 DEF Scans
  <2> QED BY <2>1, <2>2
<1>10. NothingLost'
  <2>1. (s \o Line) \o Behind = s \o (Line \o Behind)
    BY <1>3, TextsJoin
  <2> QED BY <1>1, <1>3, <1>5, <1>6, <2>1 DEF NothingLost
<1>11. Parsed'
  <2>1. \A k \in 1 .. Len(letter') : letter'[k] # DataEnd
    <3> DEFINE n == Len(letter)
    <3>1. /\ n \in Nat /\ Len(letter') = n + 1 /\ letter'[n + 1] = Line
          /\ \A k \in 1 .. n : letter'[k] = letter[k]
      <4>1. n \in Nat
        BY <1>3
      <4> QED BY <1>1, <1>3, <4>1, AppendProperties
    <3>2. \A k \in 1 .. n : letter[k] # DataEnd
      BY <1>1 DEF IInv, Parsed
    <3>3. \A k \in 1 .. n + 1 : k \in 1 .. n \/ k = n + 1
      BY <3>1
    <3> HIDE DEF n
    <3> QED BY <1>1, <3>1, <3>2, <3>3
  <2>2. DoubleCR' <=> DoubleCR
    BY <1>1 DEF DoubleCR
  <2>3. ~DoubleCR => LinesOf(s \o Line) = Append(letter, Line) /\ Closed(s \o Line)
    <3> SUFFICES ASSUME ~DoubleCR
                 PROVE  LinesOf(s \o Line) = Append(letter, Line) /\ Closed(s \o Line)
      OBVIOUS
    <3>1. IsLine(Line)
      BY <1>1, <1>2, DoubleCRIs, PieceIsLine
    <3>2. LinesOf(s) = letter /\ Closed(s)
      BY <1>1 DEF IInv, Parsed, s
    <3> QED BY <1>3, <3>1, <3>2, LinesWithLine
  <2>4. phase' = "read" => LineEnds(buffer') = {}
    <3>1. phase' = "read" => buffer' = <<>>
      BY <1>1
    <3>2. Len(<<>>) = 0 /\ 2 .. 0 = {}
      OBVIOUS
    <3> QED BY <3>1, <3>2 DEF LineEnds
  <2> QED BY <1>1, <1>5, <2>1, <2>2, <2>3, <2>4 DEF Parsed
<1> QED BY <1>7, <1>8, <1>9, <1>10, <1>11 DEF IInv

(* All steps together.                                                      *)
LEMMA NextKeeps == IInv /\ [Next]_vars => IInv'
<1> SUFFICES ASSUME IInv, [Next]_vars PROVE IInv'
  OBVIOUS
<1>1. CASE Receive
  BY <1>1, ReceiveKeeps
<1>2. CASE ReplySent
  BY <1>2, ReplySentKeeps
<1>3. CASE Reconnect
  BY <1>3, ReconnectKeeps
<1>4. CASE CommandLine \/ LetterEnd
  BY <1>4, AnswerKeeps
<1>5. CASE LetterLine
  BY <1>5, LetterLineKeeps
<1>6. CASE KeepPartial
  BY <1>6, KeepPartialKeeps
<1>7. CASE UNCHANGED vars
  <2>1. UNCHANGED <<mode, phase, buffer, allocated, end, letter, sent>>
    BY <1>7 DEF vars
  <2>2. TypeOK' /\ Room' /\ Scans'
    BY <2>1 DEF IInv, TypeOK, Room, TerminatorFits, Scans
  <2>3. NothingLost'
    BY <2>1 DEF IInv, NothingLost, Rest
  <2>4. Parsed'
    BY <2>1 DEF IInv, Parsed, DoubleCR
  <2> QED BY <2>2, <2>3, <2>4 DEF IInv
<1> QED BY <1>1, <1>2, <1>3, <1>4, <1>5, <1>6, <1>7 DEF Next

-----------------------------------------------------------------------------
(* The theorems.                                                            *)

(* The buffer, the lines and what was sent agree in every reachable state,  *)
(* for packets of any size.                                                 *)
THEOREM InductiveInvariant == Spec => []IInv
<1> QED BY InitHolds, NextKeeps, PTL DEF Spec

(* The variables of the line assembly keep their types.                     *)
THEOREM TypeCorrect == Spec => []TypeOK
<1>1. IInv => TypeOK
  BY DEF IInv
<1> QED BY <1>1, InductiveInvariant, PTL

(* The '\0' behind a line is written inside the array (server.c:226).       *)
THEOREM TerminatorCorrect == Spec => []TerminatorFits
<1>1. IInv => TerminatorFits
  BY DEF IInv, Room
<1> QED BY <1>1, InductiveInvariant, PTL

(* handler_read loses, repeats and reorders no byte of a letter.            *)
THEOREM NothingLostCorrect == Spec => []NothingLost
<1>1. IInv => NothingLost
  BY DEF IInv
<1> QED BY <1>1, InductiveInvariant, PTL

(* How recv cuts the text makes no difference to the lines.                 *)
THEOREM LinesCorrect == Spec => []LinesAsSent
<1>1. IInv => LinesAsSent
  <2> SUFFICES ASSUME IInv, mode = "data", phase = "read", ~DoubleCR
               PROVE  letter = SentLines /\ LineEnds(buffer) = {}
    BY DEF LinesAsSent
  <2>1. TypeOK /\ end = 0 /\ buffer \in Seq(Bytes) /\ FlattenSeq(letter) \in Seq(Bytes)
    BY FlattenTyped DEF IInv, Scans, TypeOK
  <2>2. FlattenSeq(letter) \o buffer = sent
    BY <2>1, RestIsBuffer DEF IInv, NothingLost
  <2>3. LinesOf(FlattenSeq(letter)) = letter /\ Closed(FlattenSeq(letter)) /\ LineEnds(buffer) = {}
    BY DEF IInv, Parsed
  <2>4. LinesOf(FlattenSeq(letter) \o buffer) = letter
    BY <2>1, <2>3, LinesWithRest
  <2> QED BY <2>2, <2>3, <2>4 DEF SentLines
<1> QED BY <1>1, InductiveInvariant, PTL

(* What the session has got and the next line are the beginning of the text. *)
LEMMA LineIsNext ==
    ASSUME TypeOK, NothingLost, mode = "data"
    PROVE  IsPrefix(FlattenSeq(letter) \o Line, sent)
<1>1. PICK s \in Seq(Bytes) : s = FlattenSeq(letter)
  BY FlattenTyped DEF TypeOK
<1>2. Line \in Seq(Bytes) /\ Behind \in Seq(Bytes) /\ s \o (Line \o Behind) = sent
  BY <1>1, PieceIs DEF NothingLost
<1>3. (s \o Line) \o Behind = sent /\ s \o Line \in Seq(Bytes)
  BY <1>2, TextsJoin
<1>4. IsPrefix(s \o Line, (s \o Line) \o Behind)
  BY <1>2, <1>3, PrefixOfJoined
<1> QED BY <1>1, <1>3, <1>4

(* A letter ends with a dot and CRLF and has all that was sent before them; *)
(* if the text has no two CR in a row, the dot is its first line of its own.*)
(* Of text with "\r\r\n" the second half is not claimed: there               *)
(* find_first_entry_str misses the line of the dot.                         *)
THEOREM EndCorrect == Spec => EndsAtDot
<1> DEFINE Ends == mode = "data" /\ phase = "scan" /\ mode' = "command" =>
                     /\ IsPrefix(FlattenSeq(letter) \o DataEnd, sent)
                     /\ ~DoubleCR => \A k \in 1 .. Len(letter) :
                                       letter[k] = SentLines[k] /\ letter[k] # DataEnd
<1>1. IInv /\ [Next]_vars => Ends
  <2> SUFFICES ASSUME IInv, [Next]_vars, mode = "data", phase = "scan", mode' = "command"
               PROVE  /\ IsPrefix(FlattenSeq(letter) \o DataEnd, sent)
                      /\ ~DoubleCR => \A k \in 1 .. Len(letter) :
                                        letter[k] = SentLines[k] /\ letter[k] # DataEnd
    OBVIOUS
  <2> DEFINE s == FlattenSeq(letter)
  <2>1. LetterEnd
    BY DEF Next, vars, Receive, ReplySent, Reconnect, CommandLine, LetterLine, KeepPartial
  <2>2. Line = DataEnd
    BY <2>1 DEF LetterEnd, IsDataEnd
  <2>3. /\ s \in Seq(Bytes) /\ Rest \in Seq(Bytes) /\ Line \in Seq(Bytes) /\ Behind \in Seq(Bytes)
        /\ Line \o Behind = Rest /\ s \o Rest = sent
    BY PieceIs, FlattenTyped DEF IInv, TypeOK, NothingLost
  <2>4. IsPrefix(s \o DataEnd, sent)
    BY <2>2, LineIsNext DEF IInv
  <2>5. ASSUME ~DoubleCR, NEW k \in 1 .. Len(letter)
        PROVE  letter[k] = SentLines[k] /\ letter[k] # DataEnd
    <3>1. LinesOf(s) = letter
      BY <2>5 DEF IInv, Parsed
    <3>2. \A j \in 1 .. Len(LinesOf(s)) : LinesOf(s \o Rest)[j] = LinesOf(s)[j]
      BY <2>3, LinesGrow
    <3>3. letter[k] # DataEnd
      BY DEF IInv, Parsed
    <3> HIDE DEF s
    <3> QED BY <2>3, <3>1, <3>2, <3>3 DEF SentLines
  <2> QED BY <2>4, <2>5
<1>2. Spec => [][Ends]_vars
  BY <1>1, InductiveInvariant, PTL DEF Spec
<1> QED BY <1>2 DEF EndsAtDot
=================================================================================
