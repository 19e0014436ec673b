------------------------------ MODULE CopyProofs ------------------------------
(***************************************************************************)
(* What FormatDecode makes of a tuple, for every tuple and list of types:  *)
(* the line it puts together is read back as the columns of the tuple, no  *)
(* column is lost, no decoder reads behind the tuple's end, and a date and *)
(* a time are those that were stored; and, for every limit, initial size   *)
(* and sequence of requests, the buffer the line stands in keeps room for  *)
(* its terminator and its arithmetic within int.                           *)
(***************************************************************************)
EXTENDS StringInfo, TupleDecode, DataFacts

-------------------------------------------------------------------------------
(* A sequence is taken apart one element after the other: h[i] is what has *)
(* been made of the first i.                                               *)
Steps(h, A, e, g, s) == /\ h \in [0..Len(s) -> A] /\ h[0] = e
                        /\ \A i \in 1..Len(s) : h[i] = g[<<h[i - 1], s[i]>>]

LEMMA StepsExist ==
  ASSUME NEW A, NEW S, NEW e \in A, NEW g \in [A \X S -> A], NEW s \in Seq(S)
  PROVE  \E h : Steps(h, A, e, g, s)
<1> DEFINE n == Len(s)
           q == [z \in A \X (1..n) |-> g[<<z[1], s[z[2]]>>]]
<1>1. n \in Nat /\ \A i \in 1..n : s[i] \in S
  OBVIOUS
<1>2. \A a \in A : \A i \in 1..n : q[<<a, i>>] = g[<<a, s[i]>>] /\ q[<<a, i>>] \in A
  <2> SUFFICES ASSUME NEW a \in A, NEW i \in 1..n
               PROVE  q[<<a, i>>] = g[<<a, s[i]>>] /\ q[<<a, i>>] \in A
    OBVIOUS
  <2>1. s[i] \in S
    BY <1>1
  <2> HIDE DEF n
  <2> QED BY <2>1
<1>3. q \in [A \X (1..n) -> A]
  <2> SUFFICES ASSUME NEW z \in A \X (1..n) PROVE g[<<z[1], s[z[2]]>>] \in A
    OBVIOUS
  <2>1. z[1] \in A /\ z[2] \in 1..n
    OBVIOUS
  <2>2. s[z[2]] \in S
    BY <1>1, <2>1
  <2> QED BY <2>1, <2>2
<1> HIDE DEF n, q
<1>4. PICK h : Recurs(h, n, A, e, q)
  BY <1>1, <1>3, Recursion
<1>5. h \in [0..n -> A] /\ h[0] = e /\ \A i \in 1..n : h[i] = q[<<h[i - 1], i>>]
  BY <1>4 DEF Recurs
<1>6. ASSUME NEW i \in 1..n PROVE h[i] = g[<<h[i - 1], s[i]>>]
  <2>1. i - 1 \in 0..n
    BY <1>1
  <2> QED BY <1>2, <1>5, <2>1
<1> QED BY <1>5, <1>6 DEF Steps, n

(* There is one way to do it.                                              *)
Stepped(acc, A, e, g, s) ==
  /\ acc[0] = e
  /\ \A i \in 1..Len(s) : acc[i - 1] \in A => acc[i] = g[<<acc[i - 1], s[i]>>]
Same(h, k, s) == \A i \in 0..Len(s) : h[i] = k[i]

LEMMA StepsUnique ==
  ASSUME NEW A, NEW e, NEW g, NEW s, Len(s) \in Nat, NEW h, Steps(h, A, e, g, s),
         NEW acc, Stepped(acc, A, e, g, s)
  PROVE  Same(acc, h, s)
<1> DEFINE n == Len(s)
           P == {i \in 0..n : acc[i] = h[i]}
<1>1. h \in [0..n -> A] /\ h[0] = e /\ \A i \in 1..n : h[i] = g[<<h[i - 1], s[i]>>]
  BY DEF Steps
<1>2. acc[0] = e /\ \A i \in 1..n : acc[i - 1] \in A => acc[i] = g[<<acc[i - 1], s[i]>>]
  BY DEF Stepped
<1>3. 0 \in P
  BY <1>1, <1>2
<1>4. ASSUME NEW i \in 0..(n - 1), i \in P PROVE i + 1 \in P
  <2>1. i + 1 \in 1..n /\ (i + 1) - 1 = i /\ i \in 0..n
    OBVIOUS
  <2>2. acc[i] = h[i] /\ h[i] \in A
    BY <1>1, <1>4, <2>1
  <2>3. acc[i + 1] = g[<<acc[i], s[i + 1]>>] /\ h[i + 1] = g[<<h[i], s[i + 1]>>]
    BY <1>1, <1>2, <2>1, <2>2
  <2> QED BY <2>1, <2>2, <2>3
<1> HIDE DEF P
<1>5. 0..n \subseteq P
  BY <1>3, <1>4, UpTo
<1> QED BY <1>5 DEF P, Same

(* One more element is one more step.                                      *)
OneMore(h, k, A, g, s, c, t) == h[Len(s)] \in A /\ k[Len(t)] = g[<<h[Len(s)], c>>]

LEMMA StepsAppend ==
  ASSUME NEW A, NEW S, NEW e \in A, NEW g \in [A \X S -> A], NEW s \in Seq(S), NEW c \in S,
         NEW t, t = Append(s, c),
         NEW h, Stepped(h, A, e, g, s), NEW k, Stepped(k, A, e, g, t)
  PROVE  OneMore(h, k, A, g, s, c, t)
<1> DEFINE n == Len(s)
<1>1. /\ n \in Nat /\ Len(t) = n + 1 /\ t[n + 1] = c
      /\ \A i \in 1..n : t[i] = s[i]
  BY AppendProperties
<1>2. PICK f : Steps(f, A, e, g, s)
  BY StepsExist
<1>3. k[0] = e /\ \A i \in 1..Len(t) : k[i - 1] \in A => k[i] = g[<<k[i - 1], t[i]>>]
  BY DEF Stepped
<1>4. Stepped(k, A, e, g, s)
  <2> HIDE DEF n
  <2>1. \A i \in 1..n : i \in 1..Len(t)
    BY <1>1
  <2>2. \A i \in 1..n : k[i - 1] \in A => k[i] = g[<<k[i - 1], s[i]>>]
    BY <1>1, <1>3, <2>1
  <2> QED BY <1>3, <2>2 DEF Stepped, n
<1>5. Same(h, f, s) /\ Same(k, f, s)
  BY <1>1, <1>2, <1>4, StepsUnique
<1> HIDE DEF n
<1>6. n \in 0..n /\ n + 1 \in 1..Len(t) /\ (n + 1) - 1 = n
  BY <1>1
<1>7. f[n] \in A /\ h[n] = f[n] /\ k[n] = f[n]
  BY <1>2, <1>5, <1>6 DEF Same, Steps, n
<1>8. k[n + 1] = g[<<k[n], t[n + 1]>>]
  BY <1>3, <1>6, <1>7
<1> QED BY <1>1, <1>7, <1>8 DEF n, OneMore

(* Induction over sequences, with a set in place of a predicate.           *)
LEMMA SeqInduction ==
  ASSUME NEW S, NEW P, <<>> \in P,
         \A s \in Seq(S) : \A c \in S : s \in P => Append(s, c) \in P
  PROVE  Seq(S) \subseteq P
<1> SUFFICES ASSUME NEW s \in Seq(S) PROVE s \in P
  OBVIOUS
<1> DEFINE Q == {n \in Nat : \A t \in Seq(S) : Len(t) = n => t \in P}
<1>1. 0 \in Q
  <2>1. \A t \in Seq(S) : Len(t) = 0 => t = <<>>
    OBVIOUS
  <2> QED BY <2>1
<1>2. ASSUME NEW n \in Nat, n \in Q PROVE n + 1 \in Q
  <2> SUFFICES ASSUME NEW t \in Seq(S), Len(t) = n + 1 PROVE t \in P
    OBVIOUS
  <2>1. t # <<>>
    BY EmptySeq
  <2>2. PICK r \in Seq(S), c \in S : t = Append(r, c)
    BY <2>1, SequenceEmptyOrAppend
  <2>3. Len(r) = n
    BY <2>2, AppendProperties
  <2>4. r \in P
    BY <1>2, <2>3
  <2> QED BY <2>2, <2>4
<1> HIDE DEF Q
<1>3. Nat \subseteq Q
  BY <1>1, <1>2, NatInduct
<1>4. Len(s) \in Q
  BY <1>3
<1> QED BY <1>4 DEF Q

-------------------------------------------------------------------------------
(* What COPY makes of a line, one character after the other.               *)
LEMMA SplitOne ==
  ASSUME NEW S, NEW s \in Seq(S), NEW c \in S
  PROVE  /\ Split(<<>>) = << <<>> >>
         /\ Split(s) \in Seq(Seq(S)) /\ Split(s) # <<>>
         /\ Split(Append(s, c)) = Broken(Split(s), c)
<1> DEFINE A == {a \in Seq(Seq(S)) : a # <<>>}
           e == << <<>> >>
           g == [z \in A \X S |-> Broken(z[1], z[2])]
<1>1. e \in A
  OBVIOUS
<1>2. \A a \in A, d \in S : Broken(a, d) \in A
  <2> SUFFICES ASSUME NEW a \in A, NEW d \in S PROVE Broken(a, d) \in A
    OBVIOUS
  <2>1. a \in Seq(Seq(S)) /\ a # <<>> /\ Len(a) \in 1..Len(a) /\ <<>> \in Seq(S)
    OBVIOUS
  <2>2. CASE d = TAB
    <3>1. Append(a, <<>>) \in Seq(Seq(S)) /\ Append(a, <<>>) # <<>>
      BY <2>1, AppendProperties
    <3> QED BY <2>2, <3>1 DEF Broken
  <2>3. CASE d # TAB
    <3>1. Append(a[Len(a)], d) \in Seq(S)
      BY <2>1
    <3> DEFINE b == [a EXCEPT ![Len(a)] = Append(a[Len(a)], d)]
    <3>2. b \in Seq(Seq(S)) /\ Len(b) = Len(a)
      BY <2>1, <3>1, ExceptSeq
    <3>3. Broken(a, d) = b
      BY <2>3 DEF Broken
    <3>4. b # <<>>
      BY <2>1, <3>2, EmptySeq
    <3> QED BY <3>2, <3>3, <3>4
  <2> QED BY <2>2, <2>3
<1> HIDE DEF A, e
<1>3. g \in [A \X S -> A] /\ \A a \in A, d \in S : g[<<a, d>>] = Broken(a, d)
  BY <1>2
<1>4. ASSUME NEW t \in Seq(S)
      PROVE  \E h : Stepped(h, A, e, g, t) /\ Split(t) = h[Len(t)]
  <2> DEFINE n == Len(t)
             Makes(h) == h = [i \in 0..n |-> IF i = 0 THEN e ELSE Broken(h[i - 1], t[i])]
             acc == CHOOSE h : Makes(h)
  <2>1. PICK h : Steps(h, A, e, g, t)
    <3> HIDE DEF g
    <3> QED BY <1>1, <1>3, StepsExist
  <2>2. n \in Nat /\ h \in [0..n -> A] /\ h[0] = e /\ \A i \in 1..n : t[i] \in S
    BY <2>1 DEF Steps
  <2>3. \A i \in 1..n : h[i - 1] \in A /\ h[i] = Broken(h[i - 1], t[i])
    <3> HIDE DEF n
    <3>1. \A i \in 1..n : h[i] = g[<<h[i - 1], t[i]>>]
      BY <2>1 DEF Steps, n
    <3>2. \A i \in 1..n : i - 1 \in 0..n
      BY <2>2
    <3> HIDE DEF g
    <3> QED BY <1>3, <2>2, <3>1, <3>2
  <2>4. Makes(h)
    <3>1. \A i \in 0..n : i = 0 \/ i \in 1..n
      BY <2>2
    <3> HIDE DEF n
    <3> QED BY <2>2, <2>3, <3>1
  <2>5. Makes(acc)
    <3> HIDE DEF Makes
    <3> QED BY <2>4
  <2>6. Split(t) = acc[n]
    BY DEF Split, e, Makes, acc
  <2> HIDE DEF acc
  <2>7. Stepped(acc, A, e, g, t)
    <3>1. 0 \in 0..n /\ \A i \in 1..n : i \in 0..n /\ i # 0
      BY <2>2
    <3> HIDE DEF n, g
    <3>2. acc[0] = e /\ \A i \in 1..n : acc[i] = Broken(acc[i - 1], t[i])
      BY <2>5, <3>1
    <3> QED BY <1>3, <2>2, <3>2 DEF Stepped, n
  <2> QED BY <2>6, <2>7
<1> HIDE DEF g
<1>5. Split(<<>>) = e
  <2>1. PICK h : Stepped(h, A, e, g, <<>>) /\ Split(<<>>) = h[Len(<<>>)]
    BY <1>4, EmptySeq
  <2> QED BY <2>1 DEF Stepped
<1>6. PICK h : Stepped(h, A, e, g, s) /\ Split(s) = h[Len(s)]
  BY <1>4
<1> DEFINE t == Append(s, c)
<1>7. PICK k : Stepped(k, A, e, g, t) /\ Split(t) = k[Len(t)]
  <2>1. t \in Seq(S)
    OBVIOUS
  <2> QED BY <1>4, <2>1
<1>8. Split(s) \in A /\ Split(t) = g[<<Split(s), c>>]
  <2>0. t = Append(s, c)
    OBVIOUS
  <2> HIDE DEF t
  <2>1. OneMore(h, k, A, g, s, c, t)
    BY <1>1, <1>3, <1>6, <1>7, <2>0, StepsAppend
  <2> QED BY <1>6, <1>7, <2>1 DEF OneMore
<1>9. Split(Append(s, c)) = Broken(Split(s), c)
  BY <1>3, <1>8
<1> QED BY <1>5, <1>8, <1>9 DEF A, e

LEMMA ConcatAppend ==
  ASSUME NEW S, NEW s \in Seq(S), NEW t \in Seq(S), NEW c \in S
  PROVE  s \o Append(t, c) = Append(s \o t, c)
  OBVIOUS

(* A text without a tab is put behind the column the line ends with.       *)
Lengthened(b, a, t) == /\ Len(b) = Len(a) /\ b[Len(a)] = a[Len(a)] \o t
                       /\ \A i \in 1..(Len(a) - 1) : b[i] = a[i]

LEMMA SplitText ==
  ASSUME NEW S, NEW s \in Seq(S), NEW t \in Seq(S \ {TAB})
  PROVE  Lengthened(Split(s \o t), Split(s), t)
<1> DEFINE P == {r \in Seq(S \ {TAB}) : Lengthened(Split(s \o r), Split(s), r)}
           a == Split(s)
<1>1. a \in Seq(Seq(S)) /\ a # <<>>
  <2>1. CASE S = {}
    <3>1. s = <<>> /\ a = << <<>> >>
      <4>1. s = <<>>
        BY <2>1
      <4>2. <<>> \in Seq({0}) /\ 0 \in {0}
        OBVIOUS
      <4>3. Split(<<>>) = << <<>> >>
        BY <4>2, SplitOne
      <4> QED BY <4>1, <4>3
    <3> HIDE DEF a
    <3> QED BY <3>1
  <2>2. CASE S # {}
    <3>1. PICK c : c \in S
      BY <2>2
    <3> QED BY <3>1, SplitOne
  <2> QED BY <2>1, <2>2
<1>2. Len(a) \in Nat \ {0} /\ \A i \in 1..Len(a) : a[i] \in Seq(S)
  <2> HIDE DEF a
  <2> QED BY <1>1
<1> HIDE DEF a
<1>3. <<>> \in P
  <2>1. s \o <<>> = s /\ a[Len(a)] \o <<>> = a[Len(a)] /\ <<>> \in Seq(S \ {TAB})
    BY <1>2
  <2> QED BY <2>1 DEF Lengthened, a
<1>4. ASSUME NEW r \in Seq(S \ {TAB}), NEW c \in S \ {TAB}, r \in P
      PROVE  Append(r, c) \in P
  <2> DEFINE b == Split(s \o r)
             d == Split(s \o Append(r, c))
             m == Len(a)
  <2>1. s \o r \in Seq(S) /\ s \o Append(r, c) = Append(s \o r, c) /\ Append(r, c) \in Seq(S \ {TAB})
    OBVIOUS
  <2>2. b \in Seq(Seq(S)) /\ b # <<>> /\ d = Broken(b, c)
    BY <2>1, SplitOne
  <2>3. Lengthened(b, a, r)
    BY <1>4 DEF a
  <2>4. c # TAB
    OBVIOUS
  <2> HIDE DEF b, d
  <2>5. /\ m \in Nat \ {0} /\ Len(b) = m /\ m \in 1..m /\ b[m] = a[m] \o r
        /\ \A i \in 1..(m - 1) : b[i] = a[i]
    BY <1>2, <2>3 DEF Lengthened
  <2>6. d = [b EXCEPT ![m] = Append(b[m], c)]
    BY <2>2, <2>4, <2>5 DEF Broken
  <2>7. Append(b[m], c) \in Seq(S)
    <3>1. b[m] \in Seq(S) /\ c \in S
      BY <2>2, <2>5, ElementOfSeq
    <3> QED BY <3>1
  <2>8. Len(d) = m /\ d[m] = Append(b[m], c) /\ \A i \in 1..(m - 1) : d[i] = b[i]
    BY <2>2, <2>5, <2>6, <2>7
  <2>9. Append(a[m] \o r, c) = a[m] \o Append(r, c)
    <3>1. a[m] \in Seq(S) /\ r \in Seq(S) /\ c \in S
      BY <1>2
    <3> DEFINE u == a[m]
    <3>2. u \in Seq(S) /\ r \in Seq(S) /\ c \in S
      BY <3>1
    <3> HIDE DEF u
    <3>3. u \o Append(r, c) = Append(u \o r, c)
      BY ONLY <3>2, ConcatAppend
    <3> QED BY <3>3 DEF u
  <2>10. Lengthened(d, a, Append(r, c))
    BY <2>5, <2>8, <2>9 DEF Lengthened
  <2> QED BY <2>1, <2>10 DEF d, a
<1> HIDE DEF P
<1>5. Seq(S \ {TAB}) \subseteq P
  BY <1>3, <1>4, SeqInduction
<1> QED BY <1>5 DEF P

(* A tab and a text without one are one more column.                       *)
LEMMA SplitColumn ==
  ASSUME NEW S, NEW line \in Seq(S), NEW t \in Seq(S), TAB \notin Range(t)
  PROVE  /\ Split(t) = <<t>>
         /\ Split(line \o <<TAB>> \o t) = Append(Split(line), t)
<1> DEFINE T == S \cup {TAB}
           a == Split(line)
           b == Split(Append(line, TAB))
           d == Split(Append(line, TAB) \o t)
<1>1. line \in Seq(T) /\ TAB \in T /\ <<>> \in Seq(T) /\ Append(line, TAB) \in Seq(T)
  OBVIOUS
<1>2. t \in Seq(T \ {TAB})
  BY DEF Range
<1>3. line \o <<TAB>> \o t = Append(line, TAB) \o t
  <2> HIDE DEF T
  <2> QED BY <1>1, AppendIsConcat
<1>4. a \in Seq(Seq(T)) /\ a # <<>> /\ b = Broken(a, TAB) /\ Split(<<>>) = << <<>> >>
  <2> HIDE DEF T
  <2> QED BY <1>1, SplitOne
<1>5. Lengthened(d, b, t) /\ Lengthened(Split(<<>> \o t), Split(<<>>), t)
  <2> HIDE DEF T
  <2> QED BY <1>1, <1>2, SplitText
<1>6. Split(t) = <<t>>
  <2>1. <<>> \o t = t
    BY <1>2, ConcatEmptySeq
  <2> DEFINE e == Split(t)
  <2>2. Lengthened(e, << <<>> >>, t)
    BY <1>4, <1>5, <2>1
  <2>3. e \in Seq(Seq(T))
    <3>1. t \in Seq(T)
      OBVIOUS
    <3> HIDE DEF T
    <3> QED BY <1>1, <3>1, SplitOne
  <2> HIDE DEF e
  <2>4. Len(e) = 1 /\ e[1] = t
    BY <2>1, <2>2 DEF Lengthened
  <2>5. e = <<t>>
    BY <2>3, <2>4
  <2> QED BY <2>5 DEF e
<1>7. d = Append(a, t)
  <2>1. d \in Seq(Seq(T))
    <3>1. Append(line, TAB) \o t \in Seq(T)
      BY <1>1, <1>2
    <3> HIDE DEF T
    <3> QED BY <1>1, <3>1, SplitOne
  <2>2. t \in Seq(T)
    OBVIOUS
  <2>3. b = Append(a, <<>>)
    BY <1>4 DEF Broken
  <2>4. <<>> \o t = t
    BY <1>2, ConcatEmptySeq
  <2> HIDE DEF T, a, b, d
  <2>5. Len(b) = Len(a) + 1 /\ b[Len(b)] = <<>> /\ \A i \in 1..Len(a) : b[i] = a[i]
    BY <1>1, <1>4, <2>3, AppendProperties
  <2>6. Len(a) \in Nat /\ Len(d) = Len(a) + 1 /\ d[Len(a) + 1] = t /\ \A i \in 1..Len(a) : d[i] = a[i]
    BY <1>4, <1>5, <2>4, <2>5 DEF Lengthened
  <2>7. /\ Append(a, t) \in Seq(Seq(T)) /\ Len(Append(a, t)) = Len(a) + 1
        /\ Append(a, t)[Len(a) + 1] = t /\ \A i \in 1..Len(a) : Append(a, t)[i] = a[i]
    BY <1>4, <2>2, AppendProperties
  <2>8. \A i \in 1..(Len(a) + 1) : i \in 1..Len(a) \/ i = Len(a) + 1
    BY <2>6
  <2> DEFINE f == Append(a, t)
  <2> HIDE DEF f
  <2>9. d = f
    BY <2>1, <2>6, <2>7, <2>8, SeqEqual DEF f
  <2> QED BY <2>9 DEF f
<1> QED BY <1>3, <1>6, <1>7 DEF d, a

-------------------------------------------------------------------------------
(* Texts are put together one after the other.                             *)
LEMMA FlattenOne ==
  ASSUME NEW S, NEW s \in Seq(Seq(S)), NEW x \in Seq(S)
  PROVE  /\ FlattenSeq(<<>>) = <<>> /\ FlattenSeq(s) \in Seq(S)
         /\ FlattenSeq(Append(s, x)) = FlattenSeq(s) \o x
<1> DEFINE A == Seq(S)
           g == [z \in A \X A |-> z[1] \o z[2]]
<1>1. <<>> \in A /\ g \in [A \X A -> A] /\ \A a \in A, d \in A : g[<<a, d>>] = a \o d
  <2>1. <<>> \in A /\ \A a \in A, d \in A : a \o d \in A
    OBVIOUS
  <2> HIDE DEF A
  <2> QED BY <2>1
<1>2. FlattenSeq(<<>>) = <<>>
  BY DEF FlattenSeq
<1> HIDE DEF A, g
<1>3. ASSUME NEW t \in Seq(A)
      PROVE  \E h : Stepped(h, A, <<>>, g, t) /\ FlattenSeq(t) = h[Len(t)]
  <2> DEFINE n == Len(t)
             Makes(h) == h = [i \in 1..n |-> IF i = 1 THEN t[i] ELSE h[i - 1] \o t[i]]
             flat == CHOOSE h : Makes(h)
             acc == [i \in 0..n |-> IF i = 0 THEN <<>> ELSE flat[i]]
  <2>1. PICK h : Steps(h, A, <<>>, g, t)
    BY <1>1, StepsExist
  <2>2. n \in Nat /\ h \in [0..n -> A] /\ h[0] = <<>> /\ \A i \in 1..n : t[i] \in A
    BY <2>1 DEF Steps
  <2>3. \A i \in 1..n : h[i - 1] \in A /\ h[i] = h[i - 1] \o t[i]
    <3> HIDE DEF n
    <3>1. \A i \in 1..n : h[i] = g[<<h[i - 1], t[i]>>]
      BY <2>1 DEF Steps, n
    <3>2. \A i \in 1..n : i - 1 \in 0..n
      BY <2>2
    <3> QED BY <1>1, <2>2, <3>1, <3>2
  <2> DEFINE k == [i \in 1..n |-> h[i]]
  <2>4. Makes(k)
    <3> SUFFICES ASSUME NEW i \in 1..n PROVE h[i] = IF i = 1 THEN t[i] ELSE k[i - 1] \o t[i]
      OBVIOUS
    <3>1. CASE i = 1
      <4>1. h[i] = <<>> \o t[i] /\ t[i] \in A
        <5>1. i - 1 = 0
          BY <3>1
        <5> HIDE DEF n
        <5> QED BY <2>2, <2>3, <5>1
      <4>2. <<>> \o t[i] = t[i]
        BY <4>1, ConcatEmptySeq DEF A
      <4> QED BY <3>1, <4>1, <4>2
    <3>2. CASE i # 1
      <4>1. i - 1 \in 1..n
        BY <2>2, <3>2
      <4>2. k[i - 1] = h[i - 1]
        BY <4>1
      <4> QED BY <2>3, <3>2, <4>2
    <3> QED BY <3>1, <3>2
  <2>5. Makes(flat)
    <3> HIDE DEF Makes, k
    <3> QED BY <2>4
  <2>6. FlattenSeq(t) = acc[n]
    <3>1. FlattenSeq(t) = IF n = 0 THEN t ELSE flat[n]
      BY DEF FlattenSeq
    <3>2. n = 0 => t = <<>>
      OBVIOUS
    <3>3. n \in 0..n
      BY <2>2
    <3> HIDE DEF n, flat
    <3> QED BY <3>1, <3>2, <3>3
  <2> HIDE DEF flat
  <2>7. Stepped(acc, A, <<>>, g, t)
    <3>1. ASSUME NEW i \in 1..n, acc[i - 1] \in A PROVE acc[i] = g[<<acc[i - 1], t[i]>>]
      <4>1. i - 1 \in 0..n /\ i \in 0..n /\ i # 0 /\ (i # 1 => i - 1 # 0)
        BY <2>2
      <4>2. g[<<acc[i - 1], t[i]>>] = acc[i - 1] \o t[i]
        <5> HIDE DEF acc, n
        <5> QED BY <1>1, <2>2, <3>1
      <4>3. CASE i = 1
        <5>1. acc[0] = <<>> /\ acc[i] = flat[i] /\ flat[i] = t[i]
          <6>1. 0 \in 0..n
            BY <2>2
          <6> HIDE DEF n
          <6> QED BY <2>5, <4>1, <4>3, <6>1
        <5>2. <<>> \o t[i] = t[i]
          BY <2>2, ConcatEmptySeq DEF A
        <5>3. i - 1 = 0
          BY <4>3
        <5> HIDE DEF acc
        <5> QED BY <4>2, <5>1, <5>2, <5>3
      <4>4. CASE i # 1
        <5>1. acc[i] = flat[i] /\ acc[i - 1] = flat[i - 1]
          <6> HIDE DEF n
          <6> QED BY <4>1, <4>4
        <5>2. flat[i] = flat[i - 1] \o t[i]
          <6> HIDE DEF n
          <6> QED BY <2>5, <4>4
        <5> HIDE DEF acc
        <5> QED BY <4>2, <5>1, <5>2
      <4> QED BY <4>3, <4>4
    <3>2. acc[0] = <<>>
      BY <2>2
    <3> HIDE DEF acc
    <3> QED BY <3>1, <3>2 DEF Stepped, n
  <2> HIDE DEF acc
  <2> QED BY <2>6, <2>7
<1>4. s \in Seq(A) /\ x \in A
  BY DEF A
<1>5. PICK h : Stepped(h, A, <<>>, g, s) /\ FlattenSeq(s) = h[Len(s)]
  BY <1>3, <1>4
<1> DEFINE t == Append(s, x)
<1>6. PICK k : Stepped(k, A, <<>>, g, t) /\ FlattenSeq(t) = k[Len(t)]
  <2>1. t \in Seq(A)
    BY <1>4
  <2> HIDE DEF t
  <2> QED BY <1>3, <2>1
<1>7. FlattenSeq(s) \in A /\ FlattenSeq(t) = g[<<FlattenSeq(s), x>>]
  <2>0. t = Append(s, x)
    OBVIOUS
  <2> HIDE DEF t
  <2>1. OneMore(h, k, A, g, s, x, t)
    BY <1>1, <1>4, <1>5, <1>6, <2>0, StepsAppend
  <2> QED BY <1>5, <1>6, <2>1 DEF OneMore
<1>8. FlattenSeq(t) = FlattenSeq(s) \o x
  <2> HIDE DEF t
  <2> QED BY <1>1, <1>4, <1>7
<1> QED BY <1>2, <1>7, <1>8 DEF A

(* The characters an encoded text has.                                     *)
Marks == {NUL, TAB, NL, CR}
Safe(S) == (S \cup {BS, C(48), C(110), C(114)}) \ Marks

LEMMA CharsDiffer ==
  /\ NUL # TAB /\ NUL # NL /\ NUL # CR /\ NUL # BS /\ TAB # NL /\ TAB # CR /\ TAB # BS
  /\ NL # CR /\ NL # BS /\ CR # BS
  /\ {BS, C(48), C(110), C(114), C(78)} \cap Marks = {}
  /\ C(48) # C(110) /\ C(48) # C(114) /\ C(48) # C(116) /\ C(110) # C(114) /\ C(110) # C(116)
  /\ C(114) # C(116) /\ BS \notin {C(48), C(110), C(114), C(116), C(78)}
  /\ C(78) \notin {C(48), C(110), C(114), C(116)}
<1>1. \A a, b : C(a) = C(b) => a = b
  BY DEF C
<1> QED BY <1>1 DEF NUL, TAB, NL, CR, BS, Marks

LEMMA CharEncoded ==
  ASSUME NEW S, NEW c \in S
  PROVE  /\ EncodeChar(c) \in Seq(Safe(S)) /\ EncodeChar(c) # <<>>
         /\ c \in Marks \cup {BS} => \E d : EncodeChar(c) = <<BS, d>> /\ (c # TAB => Meaning(d) = c)
         /\ c \notin Marks \cup {BS} => EncodeChar(c) = <<c>>
<1>1. {BS, C(48), C(114)} \subseteq Safe(S) /\ (c \notin Marks => c \in Safe(S))
  BY CharsDiffer DEF Safe
<1>2. CASE c = NUL
  <2>1. EncodeChar(c) = <<BS, C(48)>>
    BY <1>2, CharsDiffer DEF EncodeChar
  <2>2. Meaning(C(48)) = c
    BY <1>2, CharsDiffer DEF Meaning
  <2> QED BY <1>1, <1>2, <2>1, <2>2 DEF Marks
<1>3. CASE c = CR \/ c = TAB
  <2>1. EncodeChar(c) = <<BS, C(114)>>
    BY <1>3, CharsDiffer DEF EncodeChar
  <2>2. c # TAB => Meaning(C(114)) = c
    BY <1>3, CharsDiffer DEF Meaning
  <2> QED BY <1>1, <1>3, <2>1, <2>2 DEF Marks
<1>4. CASE c = NL
  <2>1. EncodeChar(c) = <<BS, C(110)>> /\ C(110) \in Safe(S)
    BY <1>4, CharsDiffer DEF EncodeChar, Safe
  <2>2. Meaning(C(110)) = c
    BY <1>4, CharsDiffer DEF Meaning
  <2> QED BY <1>1, <1>4, <2>1, <2>2 DEF Marks
<1>5. CASE c = BS
  <2>1. EncodeChar(c) = <<BS, BS>>
    BY <1>5, CharsDiffer DEF EncodeChar
  <2>2. Meaning(BS) = c
    BY <1>5, CharsDiffer DEF Meaning
  <2> QED BY <1>1, <1>5, <2>1, <2>2 DEF Marks
<1>6. CASE c \notin Marks \cup {BS}
  <2>1. EncodeChar(c) = <<c>>
    BY <1>6 DEF EncodeChar, Marks
  <2> QED BY <1>1, <1>6, <2>1
<1> QED BY <1>2, <1>3, <1>4, <1>5, <1>6 DEF Marks

LEMMA EncodeOne ==
  ASSUME NEW S, NEW t \in Seq(S), NEW c \in S
  PROVE  /\ Encode(<<>>) = <<>> /\ Encode(t) \in Seq(Safe(S))
         /\ Encode(Append(t, c)) = Encode(t) \o EncodeChar(c)
<1> DEFINE Q(u) == [i \in DOMAIN u |-> EncodeChar(u[i])]
           x == EncodeChar(c)
           u == Append(t, c)
<1>1. Q(<<>>) = <<>> /\ <<>> \in Seq(Seq(Safe(S)))
  OBVIOUS
<1>2. x \in Seq(Safe(S)) /\ \A d \in S : EncodeChar(d) \in Seq(Safe(S))
  BY CharEncoded
<1>3. Q(t) \in Seq(Seq(Safe(S))) /\ Len(Q(t)) = Len(t)
  <2>1. DOMAIN t = 1..Len(t) /\ Len(t) \in Nat /\ \A i \in 1..Len(t) : t[i] \in S
    OBVIOUS
  <2>2. Q(t) \in [1..Len(t) -> Seq(Safe(S))]
    BY <1>2, <2>1
  <2> HIDE DEF Q
  <2> QED BY <2>1, <2>2
<1>4. u \in Seq(S) /\ Len(u) = Len(t) + 1 /\ u[Len(t) + 1] = c /\ \A i \in 1..Len(t) : u[i] = t[i]
  BY AppendProperties
<1>5. Q(u) = Append(Q(t), x)
  <2> HIDE DEF u
  <2>1. Q(u) \in Seq(Seq(Safe(S))) /\ Len(Q(u)) = Len(t) + 1
    BY <1>2, <1>4
  <2>2. /\ Append(Q(t), x) \in Seq(Seq(Safe(S))) /\ Len(Append(Q(t), x)) = Len(t) + 1
        /\ \A i \in 1..Len(t) : Append(Q(t), x)[i] = Q(t)[i]
        /\ Append(Q(t), x)[Len(t) + 1] = x
    <3> HIDE DEF Q, x
    <3> QED BY <1>2, <1>3, AppendProperties
  <2>3. ASSUME NEW i \in 1..(Len(t) + 1) PROVE Q(u)[i] = Append(Q(t), x)[i]
    <3>1. Q(u)[i] = EncodeChar(u[i])
      BY <1>4
    <3>2. CASE i = Len(t) + 1
      <4> HIDE DEF Q
      <4> QED BY <1>4, <2>2, <3>1, <3>2
    <3>3. CASE i # Len(t) + 1
      <4>1. i \in 1..Len(t) /\ Q(t)[i] = EncodeChar(t[i])
        BY <3>3
      <4> HIDE DEF Q
      <4> QED BY <1>4, <2>2, <3>1, <4>1
    <3> QED BY <3>2, <3>3
  <2> DEFINE v == Append(Q(t), x)
             w == Q(u)
  <2> HIDE DEF v, w
  <2>4. w = v
    BY <2>1, <2>2, <2>3, SeqEqual DEF v, w
  <2> QED BY <2>4 DEF v, w
<1>6. Encode(<<>>) = FlattenSeq(Q(<<>>)) /\ Encode(t) = FlattenSeq(Q(t)) /\ Encode(u) = FlattenSeq(Q(u))
  BY DEF Encode
<1> HIDE DEF Q, x, u
<1>7. FlattenSeq(<<>>) = <<>> /\ FlattenSeq(Q(t)) \in Seq(Safe(S))
      /\ FlattenSeq(Append(Q(t), x)) = FlattenSeq(Q(t)) \o x
  BY <1>2, <1>3, FlattenOne
<1> QED BY <1>1, <1>5, <1>6, <1>7 DEF x, u

(* Reading back.                                                           *)
LEMMA UnescapeOne ==
  ASSUME NEW S, NEW s \in Seq(S), NEW c \in S
  PROVE  /\ Unescaped(<<>>) = [text |-> <<>>, escaped |-> FALSE]
         /\ Unescaped(Append(s, c)) = Read(Unescaped(s), c)
<1> DEFINE T == S \cup {Meaning(d) : d \in S}
           A == [text : Seq(T), escaped : BOOLEAN]
           e == [text |-> <<>>, escaped |-> FALSE]
           g == [z \in A \X S |-> Read(z[1], z[2])]
<1>1. e \in A
  OBVIOUS
<1>2. \A a \in A, d \in S : Read(a, d) \in A
  <2> SUFFICES ASSUME NEW a \in A, NEW d \in S PROVE Read(a, d) \in A
    OBVIOUS
  <2>1. a.text \in Seq(T) /\ d \in T /\ Meaning(d) \in T
    OBVIOUS
  <2> HIDE DEF T
  <2>2. Append(a.text, d) \in Seq(T) /\ Append(a.text, Meaning(d)) \in Seq(T)
    BY <2>1
  <2> QED BY <2>1, <2>2 DEF Read
<1> HIDE DEF A, e
<1>3. g \in [A \X S -> A] /\ \A a \in A, d \in S : g[<<a, d>>] = Read(a, d)
  BY <1>2
<1>4. ASSUME NEW t \in Seq(S)
      PROVE  \E h : Stepped(h, A, e, g, t) /\ Unescaped(t) = h[Len(t)]
  <2> DEFINE n == Len(t)
             Makes(h) == h = [i \in 0..n |-> IF i = 0 THEN e ELSE Read(h[i - 1], t[i])]
             acc == CHOOSE h : Makes(h)
  <2>1. PICK h : Steps(h, A, e, g, t)
    <3> HIDE DEF g
    <3> QED BY <1>1, <1>3, StepsExist
  <2>2. n \in Nat /\ h \in [0..n -> A] /\ h[0] = e /\ \A i \in 1..n : t[i] \in S
    BY <2>1 DEF Steps
  <2>3. \A i \in 1..n : h[i - 1] \in A /\ h[i] = Read(h[i - 1], t[i])
    <3> HIDE DEF n
    <3>1. \A i \in 1..n : h[i] = g[<<h[i - 1], t[i]>>]
      BY <2>1 DEF Steps, n
    <3>2. \A i \in 1..n : i - 1 \in 0..n
      BY <2>2
    <3> HIDE DEF g
    <3> QED BY <1>3, <2>2, <3>1, <3>2
  <2>4. Makes(h)
    <3>1. \A i \in 0..n : i = 0 \/ i \in 1..n
      BY <2>2
    <3> HIDE DEF n
    <3> QED BY <2>2, <2>3, <3>1
  <2>5. Makes(acc)
    <3> HIDE DEF Makes
    <3> QED BY <2>4
  <2>6. Unescaped(t) = acc[n]
    BY DEF Unescaped, e, Makes, acc
  <2> HIDE DEF acc
  <2>7. Stepped(acc, A, e, g, t)
    <3>1. 0 \in 0..n /\ \A i \in 1..n : i \in 0..n /\ i # 0
      BY <2>2
    <3> HIDE DEF n, g
    <3>2. acc[0] = e /\ \A i \in 1..n : acc[i] = Read(acc[i - 1], t[i])
      BY <2>5, <3>1
    <3> QED BY <1>3, <2>2, <3>2 DEF Stepped, n
  <2> QED BY <2>6, <2>7
<1> HIDE DEF g
<1>5. Unescaped(<<>>) = e
  <2>1. PICK h : Stepped(h, A, e, g, <<>>) /\ Unescaped(<<>>) = h[Len(<<>>)]
    BY <1>4, EmptySeq
  <2> QED BY <2>1 DEF Stepped
<1>6. PICK h : Stepped(h, A, e, g, s) /\ Unescaped(s) = h[Len(s)]
  BY <1>4
<1> DEFINE t == Append(s, c)
<1>7. PICK k : Stepped(k, A, e, g, t) /\ Unescaped(t) = k[Len(t)]
  <2>1. t \in Seq(S)
    OBVIOUS
  <2> QED BY <1>4, <2>1
<1>8. Unescaped(s) \in A /\ Unescaped(t) = g[<<Unescaped(s), c>>]
  <2>0. t = Append(s, c)
    OBVIOUS
  <2> HIDE DEF t
  <2>1. OneMore(h, k, A, g, s, c, t)
    BY <1>1, <1>3, <1>6, <1>7, <2>0, StepsAppend
  <2> QED BY <1>6, <1>7, <2>1 DEF OneMore
<1>9. Unescaped(t) = Read(Unescaped(s), c)
  BY <1>3, <1>8
<1> QED BY <1>5, <1>9 DEF e

Plain(t) == [text |-> t, escaped |-> FALSE]

LEMMA EncodedRead ==
  ASSUME NEW S, NEW t \in Seq(S \ {TAB})
  PROVE  Unescaped(Encode(t)) = Plain(t)
<1> DEFINE Z == S \ {TAB}
           P == {r \in Seq(Z) : Unescaped(Encode(r)) = Plain(r)}
<1>1. <<>> \in P
  <2>1. <<>> \in Seq({0}) /\ 0 \in {0}
    OBVIOUS
  <2>2. Encode(<<>>) = <<>> /\ Unescaped(<<>>) = [text |-> <<>>, escaped |-> FALSE]
    BY <2>1, EncodeOne, UnescapeOne
  <2> QED BY <2>2 DEF Plain
<1>2. ASSUME NEW r \in Seq(Z), NEW c \in Z, r \in P PROVE Append(r, c) \in P
  <2> DEFINE a == Encode(r)
             x == EncodeChar(c)
             b == Encode(Append(r, c))
  <2>1. a \in Seq(Safe(Z)) /\ b = a \o x /\ Append(r, c) \in Seq(Z)
    <3>1. Append(r, c) \in Seq(Z)
      BY AppendProperties
    <3> HIDE DEF Z
    <3> QED BY <3>1, EncodeOne
  <2>2. Unescaped(a) = Plain(r)
    BY <1>2
  <2>3. c # TAB
    OBVIOUS
  <2>4. Unescaped(b) = Plain(Append(r, c))
    <3>1. CASE c \notin Marks \cup {BS}
      <4>1. x = <<c>>
        BY <3>1, CharEncoded
      <4>2. c \in Safe(Z)
        BY <3>1 DEF Safe
      <4>3. b = Append(a, c)
        BY <2>1, <4>1, <4>2, AppendIsConcat
      <4>4. Unescaped(b) = Read(Unescaped(a), c)
        <5> HIDE DEF Z, a, b, x
        <5> QED BY <2>1, <4>2, <4>3, UnescapeOne
      <4> QED BY <2>2, <3>1, <4>4 DEF Read, Plain
    <3>2. CASE c \in Marks \cup {BS}
      <4>1. PICK d : x = <<BS, d>> /\ Meaning(d) = c
        BY <2>3, <3>2, CharEncoded
      <4> DEFINE T == Safe(Z) \cup {BS, d}
      <4>2. a \in Seq(T) /\ BS \in T /\ d \in T /\ Append(a, BS) \in Seq(T)
        <5>1. Safe(Z) \subseteq T /\ BS \in T /\ d \in T
          OBVIOUS
        <5> HIDE DEF T, a, Z
        <5>2. a \in Seq(T)
          BY <2>1, <5>1, SeqMonotonic
        <5> QED BY <5>1, <5>2
      <4>3. a \o <<BS, d>> = Append(Append(a, BS), d)
        <5> HIDE DEF T, a
        <5> QED BY <4>2
      <4>4. Unescaped(Append(a, BS)) = Read(Unescaped(a), BS)
        <5> HIDE DEF T, a
        <5> QED BY <4>2, UnescapeOne
      <4>5. Unescaped(Append(Append(a, BS), d)) = Read(Unescaped(Append(a, BS)), d)
        <5> HIDE DEF T, a
        <5> QED BY <4>2, UnescapeOne
      <4> HIDE DEF a, b, x
      <4>6. b = Append(Append(a, BS), d)
        BY <2>1, <4>1, <4>3
      <4>7. Unescaped(Append(a, BS)) = [text |-> r, escaped |-> TRUE]
        BY <2>2, <4>4 DEF Read, Plain
      <4>8. Unescaped(b) = Read([text |-> r, escaped |-> TRUE], d)
        BY <4>5, <4>6, <4>7
      <4> QED BY <4>1, <4>8 DEF Read, Plain
    <3> QED BY <3>1, <3>2
  <2> QED BY <2>1, <2>4
<1> HIDE DEF P, Z
<1>3. Seq(Z) \subseteq P
  BY <1>1, <1>2, SeqInduction
<1> QED BY <1>3 DEF P, Z

(* No encoded text ends the line or its column early; it is read back as   *)
(* it was if it had no tab, and is not mistaken for a NULL.                *)
Encoded(t) == /\ Encode(t) \in Seq(Range(Encode(t))) /\ Marks \cap Range(Encode(t)) = {}
              /\ Encode(t) = <<>> <=> t = <<>>
              /\ TAB \notin Range(t) => Unescape(Encode(t)) = t /\ Encode(t) # NULL

LEMMA TextEncoded ==
  ASSUME NEW S, NEW t \in Seq(S)
  PROVE  Encoded(t)
<1> DEFINE a == Encode(t)
<1>0. <<>> \in Seq({0}) /\ 0 \in {0}
  OBVIOUS
<1>1. Encode(<<>>) = <<>> /\ Unescaped(<<>>) = [text |-> <<>>, escaped |-> FALSE]
  BY <1>0, EncodeOne, UnescapeOne
<1>2. a \in Seq(Safe(S)) /\ (a = <<>> <=> t = <<>>)
  <2>1. CASE t = <<>>
    <3>1. a = <<>>
      BY <1>1, <2>1
    <3> HIDE DEF a
    <3> QED BY <2>1, <3>1
  <2>2. CASE t # <<>>
    <3>1. PICK r \in Seq(S), c \in S : t = Append(r, c)
      BY <2>2, SequenceEmptyOrAppend
    <3>2. Encode(r) \in Seq(Safe(S)) /\ a = Encode(r) \o EncodeChar(c)
      BY <3>1, EncodeOne
    <3>3. EncodeChar(c) \in Seq(Safe(S)) /\ EncodeChar(c) # <<>>
      BY CharEncoded
    <3> DEFINE u == Encode(r)
               x == EncodeChar(c)
    <3> HIDE DEF a, u, x
    <3>4. u \o x \in Seq(Safe(S)) /\ u \o x # <<>>
      BY <3>2, <3>3 DEF u, x
    <3> QED BY <2>2, <3>2, <3>4 DEF u, x
  <2> QED BY <2>1, <2>2
<1>3. a \in Seq(Range(a)) /\ Range(a) \subseteq Safe(S)
  <2> HIDE DEF a
  <2> QED BY <1>2 DEF Range
<1>4. Marks \cap Safe(S) = {}
  BY DEF Safe
<1>5. ASSUME TAB \notin Range(t) PROVE Unescape(a) = t /\ a # NULL
  <2>1. t \in Seq(S \ {TAB})
    BY <1>5 DEF Range
  <2>2. Unescaped(a) = Plain(t)
    BY <2>1, EncodedRead
  <2>3. Unescape(a) = t
    BY <2>2 DEF Unescape, Plain
  <2>4. ASSUME a = NULL PROVE FALSE
    <3> DEFINE d == C(78)
    <3>1. <<BS>> \in Seq({BS, d}) /\ <<BS, d>> = Append(<<BS>>, d) /\ <<BS>> = Append(<<>>, BS)
          /\ <<>> \in Seq({BS, d}) /\ BS \in {BS, d} /\ d \in {BS, d}
      OBVIOUS
    <3> HIDE DEF d
    <3>2. Unescaped(<<BS>>) = Read([text |-> <<>>, escaped |-> FALSE], BS)
      BY <1>1, <3>1, UnescapeOne
    <3>3. Unescaped(<<BS, d>>) = Read(Unescaped(<<BS>>), d)
      BY <3>1, UnescapeOne
    <3>4. Meaning(d) = d
      BY CharsDiffer DEF Meaning, d
    <3>5. Unescaped(<<BS, d>>) = [text |-> <<d>>, escaped |-> FALSE]
      <4>1. Unescaped(<<BS>>) = [text |-> <<>>, escaped |-> TRUE]
        BY <3>2 DEF Read
      <4>2. Append(<<>>, d) = <<d>>
        OBVIOUS
      <4>3. Read([text |-> <<>>, escaped |-> TRUE], d) =
              [text |-> Append(<<>>, Meaning(d)), escaped |-> FALSE]
        BY DEF Read
      <4> HIDE DEF d
      <4> QED BY <3>3, <3>4, <4>1, <4>2, <4>3
    <3>6. t = <<d>>
      BY <2>2, <2>4, <3>5 DEF NULL, Plain, d
    <3>7. Encode(<<d>>) = Encode(<<>>) \o EncodeChar(d)
      <4>1. <<d>> = Append(<<>>, d)
        OBVIOUS
      <4> QED BY <3>1, <4>1, EncodeOne
    <3>8. EncodeChar(d) = <<d>>
      <4>1. d \notin Marks \cup {BS}
        BY CharsDiffer DEF d
      <4> QED BY <3>1, <4>1, CharEncoded
    <3>9. Encode(<<d>>) = <<d>>
      BY <1>1, <3>7, <3>8
    <3>10. <<BS, d>> # <<d>>
      OBVIOUS
    <3> QED BY <2>4, <3>6, <3>9, <3>10 DEF NULL, d
  <2> QED BY <2>3, <2>4
<1> HIDE DEF a
<1> QED BY <1>2, <1>3, <1>4, <1>5 DEF Encoded, a

(* A character or record of no special meaning is printed as it is.        *)
LEMMA SingleEncoded ==
  ASSUME NEW r, r \notin Marks \cup {BS}
  PROVE  Encode(<<r>>) = <<r>> /\ TAB \notin Range(<<r>>) /\ Encoded(<<r>>)
<1>1. <<r>> \in Seq({r}) /\ <<>> \in Seq({r}) /\ r \in {r} /\ <<r>> = Append(<<>>, r)
  OBVIOUS
<1>2. Encode(<<r>>) = Encode(<<>>) \o EncodeChar(r) /\ Encode(<<>>) = <<>>
  BY <1>1, EncodeOne
<1>3. EncodeChar(r) = <<r>>
  BY <1>1, CharEncoded
<1>4. <<>> \o <<r>> = <<r>>
  OBVIOUS
<1>5. TAB \notin Range(<<r>>)
  BY DEF Range, Marks
<1>6. Encoded(<<r>>)
  BY <1>1, TextEncoded
<1> QED BY <1>2, <1>3, <1>4, <1>5, <1>6

LEMMA RecordEncoded ==
  ASSUME NEW r, DOMAIN r # {"char"}
  PROVE  Encode(<<r>>) = <<r>> /\ TAB \notin Range(<<r>>) /\ Encoded(<<r>>)
<1>1. \A b : DOMAIN C(b) = {"char"}
  BY DEF C
<1>2. r \notin Marks \cup {BS}
  BY <1>1 DEF Marks, NUL, TAB, NL, CR, BS
<1> QED BY <1>2, SingleEncoded

LEMMA DatesAreRecords ==
  ASSUME NEW bytes
  PROVE  /\ DOMAIN DateText(bytes) # {"char"} /\ DOMAIN TimestampText(bytes) # {"char"}
         /\ DOMAIN TimeText(bytes) # {"char"} /\ DOMAIN TimeTzText(bytes) # {"char"}
<1>1. \A d : "bc" \in DOMAIN Printed(d)
  BY DEF Printed
<1>2. \A x : DOMAIN [infinity |-> x] # {"char"}
  OBVIOUS
<1>3. DOMAIN DateText(bytes) # {"char"}
  <2>1. (\E x : DateText(bytes) = [infinity |-> x]) \/ (\E d : DateText(bytes) = Printed(d))
    BY DEF DateText
  <2> QED BY <1>1, <1>2, <2>1
<1>4. DOMAIN TimestampText(bytes) # {"char"}
  <2>1. (\E x : TimestampText(bytes) = [infinity |-> x])
        \/ (\E d, u : TimestampText(bytes) = [date |-> d, clock |-> u])
    BY DEF TimestampText
  <2>2. \A d, u : "date" \in DOMAIN [date |-> d, clock |-> u]
    OBVIOUS
  <2> QED BY <1>2, <2>1, <2>2
<1>5. DOMAIN TimeText(bytes) # {"char"}
  BY DEF TimeText, Clock
<1>6. DOMAIN TimeTzText(bytes) # {"char"}
  BY DEF TimeTzText
<1> QED BY <1>3, <1>4, <1>5, <1>6

LEMMA NumericsAreRecords ==
  ASSUME NEW bytes
  PROVE  DOMAIN NumericText(bytes) # {"char"}
<1>1. (\E x : NumericText(bytes) = [special |-> x])
      \/ (\E x, y, z : NumericText(bytes) = [negative |-> x, front |-> y, behind |-> z])
  BY DEF NumericText
<1>2. \A x, y, z : "front" \in DOMAIN [negative |-> x, front |-> y, behind |-> z]
  OBVIOUS
<1>3. \A x : "special" \in DOMAIN [special |-> x]
  OBVIOUS
<1> QED BY <1>1, <1>2, <1>3

-------------------------------------------------------------------------------
(* What is appended for a column, and what COPY makes of it.               *)
Text(column) ==
  IF column = NullColumn THEN NULL
  ELSE IF column.form # "toasted" /\ column.type \in {"string", "char", "name"}
    THEN Encode(Value(column)) ELSE Value(column)
Reading(text) == IF text = NULL THEN NoValue ELSE Unescape(text)
IsText(t) == t \in Seq(Range(t)) /\ Marks \cap Range(t) = {}

LEMMA FixedTexts ==
  ASSUME NEW type \in FixedTypes \ {"char", "name"}, NEW bytes
  PROVE  \E r : FixedText(type, bytes) = <<r>> /\ Encode(<<r>>) = <<r>> /\ Encoded(<<r>>)
<1>1. CASE type \in {"date", "timestamp", "time", "timetz"}
  <2>1. \E r : FixedText(type, bytes) = <<r>> /\ DOMAIN r # {"char"}
    BY <1>1, DatesAreRecords DEF FixedText
  <2> QED BY <2>1, RecordEncoded
<1>2. CASE type = "bool"
  <2>1. \E b \in {116, 102} : FixedText(type, bytes) = <<C(b)>>
    BY <1>2 DEF FixedText
  <2>2. \A b \in {116, 102} : C(b) \notin Marks \cup {BS}
    <3>1. \A a, b : C(a) = C(b) => a = b
      BY DEF C
    <3> QED BY <3>1 DEF NUL, TAB, NL, CR, BS, Marks
  <2> QED BY <2>1, <2>2, SingleEncoded
<1>3. CASE type \notin {"date", "timestamp", "time", "timetz", "bool"}
  <2> DEFINE r == [type |-> type, bytes |-> bytes]
  <2>1. FixedText(type, bytes) = <<r>>
    BY <1>3 DEF FixedText
  <2>2. DOMAIN r # {"char"}
    OBVIOUS
  <2> HIDE DEF r
  <2> QED BY <2>1, <2>2, RecordEncoded
<1> QED BY <1>1, <1>2, <1>3

(* The bytes of a string and of a name are characters.                     *)
LEMMA CharsAreText ==
  ASSUME NEW bytes \in Seq(0..255)
  PROVE  \E S : Chars(bytes) \in Seq(S) /\ CString(bytes) \in Seq(S)
<1> DEFINE S == {C(b) : b \in 0..255}
<1>1. \A b \in Seq(0..255) : Chars(b) \in Seq(S)
  <2> SUFFICES ASSUME NEW b \in Seq(0..255) PROVE Chars(b) \in Seq(S)
    OBVIOUS
  <2>1. DOMAIN b = 1..Len(b) /\ Len(b) \in Nat /\ \A i \in 1..Len(b) : b[i] \in 0..255
    <3>1. \A i \in 1..Len(b) : b[i] \in 0..255
      BY ElementOfSeq
    <3> HIDE DEF S
    <3> QED BY <3>1
  <2>2. Chars(b) \in [1..Len(b) -> S]
    BY <2>1 DEF Chars
  <2> HIDE DEF S
  <2> QED BY <2>1, <2>2
<1> DEFINE I == {i \in 1..Len(bytes) : bytes[i] = 0}
           end == IF I # {} THEN Min(I) ELSE 0
           cut == IF end = 0 THEN bytes ELSE SubSeq(bytes, 1, end - 1)
<1>2. CString(bytes) = Chars(cut)
  BY DEF CString, SelectInSeq
<1>3. cut \in Seq(0..255)
  <2>1. CASE end = 0
    BY <2>1
  <2>2. CASE end # 0
    <3>1. I # {} /\ I \subseteq 1..Len(bytes) /\ Len(bytes) \in Nat
      BY <2>2
    <3>2. IsFiniteSet(I) /\ I \subseteq Int
      <4>1. IsFiniteSet(1..Len(bytes))
        BY <3>1, FS_Interval
      <4>2. 1..Len(bytes) \subseteq Int
        OBVIOUS
      <4> HIDE DEF I
      <4>3. IsFiniteSet(I)
        BY <3>1, <4>1, FS_Subset
      <4> QED BY <3>1, <4>2, <4>3
    <3> HIDE DEF I
    <3>3. end \in I
      BY <3>1, <3>2, MinIs
    <3> HIDE DEF end
    <3>6. end \in 1..Len(bytes)
      BY <3>1, <3>3
    <3>7. \A i \in 1..Len(bytes) : bytes[i] \in 0..255
      BY ElementOfSeq
    <3>4. end - 1 \in Int /\ 1 \in Int /\ \A i \in 1..(end - 1) : bytes[i] \in 0..255
      BY <3>1, <3>6, <3>7
    <3>5. SubSeq(bytes, 1, end - 1) \in Seq(0..255)
      BY <3>4, SubSeqProperties
    <3> QED BY <2>2, <3>5
  <2> QED BY <2>1, <2>2
<1> HIDE DEF cut, S
<1> QED BY <1>1, <1>2, <1>3

(* What is printed for a column holds no mark, is empty only for an empty  *)
(* value, and is read as the value if that has no tab.                     *)
Readable(c) == /\ IsText(Text(c)) /\ (Text(c) = <<>> <=> Value(c) = <<>>)
               /\ ~HasTab(Value(c)) => Reading(Text(c)) = Value(c)

LEMMA ColumnText ==
  ASSUME NEW c, IsColumn(c)
  PROVE  Readable(c)
<1>1. CASE c = NullColumn
  <2>1. Text(c) = NULL /\ Value(c) = NoValue
    BY <1>1 DEF Text, Value
  <2>2. NULL \in Seq(Range(NULL)) /\ Range(NULL) = {BS, C(78)} /\ NULL # <<>>
    BY DEF NULL, Range
  <2>3. Marks \cap {BS, C(78)} = {}
    BY CharsDiffer DEF Marks
  <2>4. NoValue # <<>>
    BY DEF NoValue
  <2> QED BY <2>1, <2>2, <2>3, <2>4 DEF Readable, IsText, Reading
<1>2. ASSUME c # NullColumn, NEW v, v = Value(c), Text(c) = Encode(v), Encoded(v)
      PROVE  Readable(c)
  BY <1>2 DEF Readable, IsText, Reading, Encoded, HasTab
<1> DEFINE bytes == IF c.form = "packed" THEN Decompress(c.bytes) ELSE c.bytes
<1>3. ASSUME c # NullColumn, NEW r, Value(c) = <<r>>, Encode(<<r>>) = <<r>>, Encoded(<<r>>)
      PROVE  Readable(c)
  <2>1. Text(c) = Encode(<<r>>)
    BY <1>3 DEF Text
  <2> QED BY <1>2, <1>3, <2>1
<1>4. CASE c # NullColumn /\ c.form = "toasted" /\ c.type \in Varlena
  <2>1. Value(c) = <<Toasted(StoredHow(c))>>
    BY <1>4 DEF Value, Varlena
  <2>2. \A x : DOMAIN Toasted(x) # {"char"}
    BY DEF Toasted
  <2> QED BY <1>3, <1>4, <2>1, <2>2, RecordEncoded
<1>5. CASE c # NullColumn /\ c.form \in {"short", "plain", "packed"} /\ c.type \in Varlena
  <2>1. bytes \in Seq(0..255)
    BY <1>5 DEF IsColumn
  <2>2. CASE c.type = "numeric"
    <3>1. Value(c) = <<NumericText(bytes)>>
      BY <1>5, <2>2 DEF Value
    <3> HIDE DEF bytes
    <3> QED BY <1>3, <1>5, <3>1, NumericsAreRecords, RecordEncoded
  <2>3. CASE c.type = "string"
    <3>1. Value(c) = Chars(bytes) /\ Text(c) = Encode(Value(c))
      BY <1>5, <2>3 DEF Value, Text
    <3> HIDE DEF bytes
    <3>2. Encoded(Chars(bytes))
      BY <2>1, CharsAreText, TextEncoded
    <3> QED BY <1>2, <1>5, <3>1, <3>2
  <2> QED BY <1>5, <2>2, <2>3 DEF Varlena
<1>6. CASE c # NullColumn /\ c.form = "fixed" /\ c.type \in FixedTypes
  <2>1. c.bytes \in Seq(0..255)
    BY <1>6 DEF IsColumn
  <2>2. CASE c.type \in {"char", "name"}
    <3>1. Value(c) \in {Chars(c.bytes), CString(c.bytes)} /\ Text(c) = Encode(Value(c))
      BY <1>6, <2>2 DEF Value, Text
    <3>2. Encoded(Chars(c.bytes)) /\ Encoded(CString(c.bytes))
      BY <2>1, CharsAreText, TextEncoded
    <3> QED BY <1>2, <1>6, <3>1, <3>2
  <2>3. CASE c.type \notin {"char", "name"}
    <3>1. Value(c) = FixedText(c.type, c.bytes)
      BY <1>6, <2>3 DEF Value, FixedTypes, Varlena
    <3> QED BY <1>3, <1>6, <2>3, <3>1, FixedTexts
  <2> QED BY <2>2, <2>3
<1> QED BY <1>1, <1>4, <1>5, <1>6 DEF IsColumn

-------------------------------------------------------------------------------
(* The line so far holds these texts: it has no mark but tabs, and COPY    *)
(* finds in it all texts from the first one that is not empty.             *)
First(texts, f) == /\ f \in DOMAIN texts /\ texts[f] # <<>>
                   /\ \A j \in 1..(f - 1) : texts[j] = <<>>
Holds(line, texts) ==
  /\ line \in Seq(Range(line)) /\ {NUL, NL, CR} \cap Range(line) = {}
  /\ line = <<>> <=> \A j \in DOMAIN texts : texts[j] = <<>>
  /\ \A f \in DOMAIN texts : First(texts, f) => Split(line) = SubSeq(texts, f, Len(texts))

LEMMA HoldsMore ==
  ASSUME NEW S, NEW texts \in Seq(S), NEW t \in S, IsText(t), NEW line, Holds(line, texts),
         NEW more, more = Append(texts, t)
  PROVE  Holds(Appended(line, t), more)
<1> DEFINE n == Len(texts)
<1>1. /\ n \in Nat /\ DOMAIN texts = 1..n /\ more \in Seq(S) /\ Len(more) = n + 1
      /\ DOMAIN more = 1..(n + 1) /\ more[n + 1] = t /\ \A i \in 1..n : more[i] = texts[i]
  OBVIOUS
<1>2. /\ t \in Seq(Range(t)) /\ {NUL, NL, CR, TAB} \cap Range(t) = {}
      /\ line \in Seq(Range(line)) /\ {NUL, NL, CR} \cap Range(line) = {}
  BY DEF IsText, Marks, Holds
<1> DEFINE A == Range(line) \cup Range(t)
<1>3. Split(t) = <<t>> /\ Split(line \o <<TAB>> \o t) = Append(Split(line), t)
  <2>1. line \in Seq(A) /\ t \in Seq(A) /\ TAB \notin Range(t)
    BY <1>2
  <2> HIDE DEF A
  <2> QED BY <2>1, SplitColumn
<1>4. CASE line = <<>>
  <2>1. Appended(line, t) = t /\ \A j \in 1..n : texts[j] = <<>>
    BY <1>1, <1>2, <1>4 DEF Appended, Holds
  <2>2. t = <<>> <=> \A j \in 1..(n + 1) : more[j] = <<>>
    BY <1>1, <2>1
  <2>3. ASSUME NEW f \in 1..(n + 1), First(more, f) PROVE Split(t) = SubSeq(more, f, n + 1)
    <3>1. f = n + 1
      BY <1>1, <2>1, <2>3 DEF First
    <3>2. SubSeq(more, n + 1, n + 1) = <<t>>
      <4> DEFINE s == SubSeq(more, n + 1, n + 1)
                 u == <<t>>
      <4>1. n + 1 \in Int /\ \A i \in (n + 1)..(n + 1) : more[i] \in S
        BY <1>1
      <4>2. s \in Seq(S) /\ Len(s) = 1 /\ s[1] = t
        BY <1>1, <4>1, SubSeqProperties
      <4>3. u \in Seq(S) /\ Len(u) = 1 /\ u[1] = t
        OBVIOUS
      <4> HIDE DEF s, u
      <4>4. Len(s) = Len(u) /\ \A i \in 1..Len(s) : s[i] = u[i]
        BY <4>2, <4>3
      <4>5. s = u
        BY <4>2, <4>3, <4>4, SeqEqual
      <4> QED BY <4>5 DEF s, u
    <3> QED BY <1>3, <3>1, <3>2
  <2> QED BY <1>1, <1>2, <2>1, <2>2, <2>3 DEF Holds
<1>5. CASE line # <<>>
  <2> DEFINE l == line \o <<TAB>> \o t
  <2>1. Appended(line, t) = l
    BY <1>5 DEF Appended
  <2>2. l \in Seq(A \cup {TAB}) /\ l # <<>>
    BY <1>2
  <2>3. Range(l) \subseteq A \cup {TAB} /\ l \in Seq(Range(l))
    <3> HIDE DEF l
    <3> QED BY <2>2 DEF Range
  <2>4. {NUL, NL, CR} \cap Range(l) = {}
    <3>1. Range(l) \subseteq Range(line) \cup Range(t) \cup {TAB}
      BY <2>3
    <3>2. \A c \in {NUL, NL, CR} : c \notin Range(line) /\ c \notin Range(t) /\ c # TAB
      BY <1>2, CharsDiffer
    <3> HIDE DEF l, A
    <3> QED BY ONLY <3>1, <3>2
  <2>5. PICK j \in 1..n : texts[j] # <<>>
    BY <1>1, <1>5 DEF Holds
  <2>6. ~\A i \in 1..(n + 1) : more[i] = <<>>
    BY <1>1, <2>5
  <2>7. ASSUME NEW f \in 1..(n + 1), First(more, f) PROVE Split(l) = SubSeq(more, f, n + 1)
    <3>1. f \in 1..n
      <4>1. f <= j
        BY <1>1, <2>5, <2>7 DEF First
      <4> QED BY <1>1, <2>5, <4>1
    <3>2. First(texts, f)
      BY <1>1, <2>7, <3>1 DEF First
    <3>3. Split(line) = SubSeq(texts, f, n)
      BY <1>1, <3>1, <3>2 DEF Holds
    <3>4. SubSeq(more, f, n + 1) = Append(SubSeq(texts, f, n), t)
      <4>1. f \in 1..Len(more) /\ n + 1 \in f..Len(more) /\ (n + 1) - 1 = n /\ more \in Seq(S)
        BY <1>1, <3>1
      <4>2. SubSeq(more, f, n + 1) = SubSeq(more, f, (n + 1) - 1) \o <<more[n + 1]>>
        BY ONLY <4>1, SubSeqRecursiveSecond
      <4>3. SubSeq(texts, f, n) \in Seq(S)
        BY <1>1, <3>1
      <4>4. SubSeq(more, f, n) = SubSeq(texts, f, n)
        <5>1. \A i \in 1..(n - f + 1) : more[i + f - 1] = texts[i + f - 1]
          BY <1>1, <3>1
        <5>2. /\ SubSeq(more, f, n) = [i \in 1..(n - f + 1) |-> more[i + f - 1]]
              /\ SubSeq(texts, f, n) = [i \in 1..(n - f + 1) |-> texts[i + f - 1]]
          BY <1>1, <3>1
        <5> QED BY ONLY <5>1, <5>2
      <4>5. Append(SubSeq(texts, f, n), t) = SubSeq(texts, f, n) \o <<t>>
        BY ONLY <4>3, t \in S, AppendIsConcat
      <4>6. more[n + 1] = t /\ (n + 1) - 1 = n
        BY <1>1, <4>1
      <4> QED BY ONLY <4>2, <4>4, <4>5, <4>6
    <3>5. Split(l) = Append(Split(line), t)
      BY <1>3
    <3> HIDE DEF l
    <3> QED BY ONLY <3>3, <3>4, <3>5
  <2> HIDE DEF l
  <2> QED BY <1>1, <2>1, <2>2, <2>3, <2>4, <2>6, <2>7 DEF Holds
<1> QED BY <1>4, <1>5

-------------------------------------------------------------------------------
(* One sequence of bytes within another.                                   *)
Byte == 0..255
Within(part, p, whole) ==
  /\ part \in Seq(Byte) /\ whole \in Seq(Byte) /\ p \in Nat /\ p + Len(part) <= Len(whole)
  /\ \A i \in 1..Len(part) : whole[p + i] = part[i]

LEMMA WithinConcat ==
  ASSUME NEW a \in Seq(Byte), NEW b \in Seq(Byte), NEW c, c = a \o b
  PROVE  Within(a, 0, c) /\ Within(b, Len(a), c) /\ Len(c) = Len(a) + Len(b) /\ c \in Seq(Byte)
<1>1. /\ Len(a) \in Nat /\ Len(b) \in Nat /\ c \in Seq(Byte) /\ Len(c) = Len(a) + Len(b)
      /\ \A i \in 1..(Len(a) + Len(b)) : c[i] = IF i <= Len(a) THEN a[i] ELSE b[i - Len(a)]
  BY ConcatProperties
<1>2. \A i \in 1..Len(a) : c[0 + i] = a[i]
  BY <1>1
<1>3. \A i \in 1..Len(b) : c[Len(a) + i] = b[i]
  BY <1>1
<1> QED BY <1>1, <1>2, <1>3 DEF Within

LEMMA WithinWithin ==
  ASSUME NEW a, NEW b, NEW c, NEW p, NEW q, Within(a, p, b), Within(b, q, c),
         NEW r, r = q + p
  PROVE  Within(a, r, c)
<1>1. /\ a \in Seq(Byte) /\ b \in Seq(Byte) /\ c \in Seq(Byte) /\ p \in Nat /\ q \in Nat /\ r \in Nat
      /\ Len(a) \in Nat /\ Len(b) \in Nat /\ Len(c) \in Nat
      /\ p + Len(a) <= Len(b) /\ q + Len(b) <= Len(c)
  <2>1. a \in Seq(Byte) /\ b \in Seq(Byte) /\ p \in Nat /\ p + Len(a) <= Len(b)
    BY Zenon DEF Within
  <2>2. c \in Seq(Byte) /\ q \in Nat /\ q + Len(b) <= Len(c)
    BY Zenon DEF Within
  <2>3. Len(a) \in Nat /\ Len(b) \in Nat /\ Len(c) \in Nat
    BY ONLY <2>1, <2>2
  <2>4. r \in Nat
    BY ONLY <2>1, <2>2, r = q + p
  <2> QED BY ONLY <2>1, <2>2, <2>3, <2>4
<1>2. ASSUME NEW i \in 1..Len(a) PROVE c[r + i] = a[i]
  <2>1. p + i \in 1..Len(b) /\ b[p + i] = a[i]
    BY <1>1 DEF Within
  <2>2. c[q + (p + i)] = b[p + i]
    BY <1>1, <2>1 DEF Within
  <2>3. r + i = q + (p + i)
    BY <1>1
  <2> QED BY <2>1, <2>2, <2>3
<1> QED BY <1>1, <1>2 DEF Within

LEMMA PaddingBound ==
  ASSUME NEW at \in Nat, NEW align \in {1, 2, 4, 8}
  PROVE  Padding(at, align) \in 0..(align - 1)
BY DEF Padding

LEMMA ZeroBytes ==
  ASSUME NEW n \in Nat
  PROVE  Zeros(n) \in Seq(Byte) /\ Len(Zeros(n)) = n /\ \A i \in 1..n : Zeros(n)[i] = 0
<1>1. Zeros(n) \in [1..n -> Byte]
  BY DEF Zeros, Byte
<1>2. Zeros(n) \in Seq(Byte)
  BY <1>1
<1>3. DOMAIN Zeros(n) = 1..n /\ DOMAIN Zeros(n) = 1..Len(Zeros(n)) /\ Len(Zeros(n)) \in Nat
  BY <1>1, <1>2
<1> QED BY <1>2, <1>3 DEF Zeros

LEMMA WordBytes ==
  ASSUME NEW n \in Nat, n < 2^32
  PROVE  Word(n) \in Seq(Byte) /\ Len(Word(n)) = 4
<1>1. n % 256 \in Byte /\ (n \div 256) % 256 \in Byte /\ (n \div 65536) % 256 \in Byte
      /\ n \div 16777216 \in Byte
  BY DEF Byte
<1> QED BY <1>1 DEF Word

FixedSizes(t) == t.width \in Nat \ {0} /\ t.align \in {1, 2, 4, 8}
LEMMA FixedTypeSizes ==
  ASSUME NEW type \in FixedTypes
  PROVE  FixedSizes(FixedType(type))
<1>1. FixedSizes(Fixed(2, 2)) /\ FixedSizes(Fixed(4, 4)) /\ FixedSizes(Fixed(8, 8))
      /\ FixedSizes(Fixed(12, 8)) /\ FixedSizes(Fixed(6, 4)) /\ FixedSizes(Fixed(16, 1))
      /\ FixedSizes(Fixed(NameDataLen, 1)) /\ FixedSizes(Fixed(1, 1))
  BY NameAssumption DEF FixedSizes, Fixed
<1> HIDE DEF FixedSizes, Fixed
<1> QED BY <1>1 DEF FixedType, FixedTypes

(* The padding in front of a value: zeros, up to its alignment.            *)
Filled(data, a) == data \o Zeros(Padding(Len(data), a))
Padded(w, data, a) ==
  /\ Within(data, 0, w) /\ Len(data) + Padding(Len(data), a) <= Len(w)
  /\ \A i \in 1..Padding(Len(data), a) : w[Len(data) + i] = 0

LEMMA FilledFacts ==
  ASSUME NEW data \in Seq(Byte), NEW a \in {1, 2, 4, 8}
  PROVE  /\ Padded(Filled(data, a), data, a) /\ Filled(data, a) \in Seq(Byte)
         /\ Len(Filled(data, a)) = Len(data) + Padding(Len(data), a)
         /\ Padding(Len(data), a) \in 0..7 /\ Len(data) \in Nat
<1> DEFINE pad == Padding(Len(data), a)
           z == Zeros(pad)
           f == Filled(data, a)
<1>1. Len(data) \in Nat /\ pad \in 0..7 /\ pad \in Nat
  <2>1. Len(data) \in Nat
    OBVIOUS
  <2>2. pad \in 0..(a - 1)
    BY <2>1, PaddingBound
  <2> HIDE DEF pad
  <2> QED BY <2>1, <2>2
<1>2. z \in Seq(Byte) /\ Len(z) = pad /\ \A i \in 1..pad : z[i] = 0
  <2> HIDE DEF pad
  <2> QED BY <1>1, ZeroBytes
<1>3. f = data \o z
  BY DEF Filled
<1> HIDE DEF f, z, pad
<1>4. Within(data, 0, f) /\ Within(z, Len(data), f) /\ Len(f) = Len(data) + Len(z) /\ f \in Seq(Byte)
  BY <1>2, <1>3, WithinConcat
<1>5. \A i \in 1..pad : f[Len(data) + i] = 0
  BY <1>2, <1>4 DEF Within
<1> QED BY <1>1, <1>2, <1>4, <1>5 DEF Padded, f, pad

LEMMA PaddedLonger ==
  ASSUME NEW data \in Seq(Byte), NEW a \in {1, 2, 4, 8}, NEW v, Padded(v, data, a),
         NEW w, Within(v, 0, w)
  PROVE  Padded(w, data, a)
<1> DEFINE pad == Padding(Len(data), a)
<1>1. Len(data) \in Nat /\ pad \in Nat /\ Len(v) \in Nat /\ Len(w) \in Nat
  <2>1. Len(data) \in Nat /\ pad \in 0..7
    BY FilledFacts
  <2> HIDE DEF pad
  <2> QED BY <2>1 DEF Within
<1>2. Within(data, 0, v) /\ Len(data) + pad <= Len(v) /\ \A i \in 1..pad : v[Len(data) + i] = 0
  BY DEF Padded
<1>3. Len(v) <= Len(w) /\ \A i \in 1..Len(v) : w[i] = v[i]
  BY <1>1 DEF Within
<1>4. Within(data, 0, w)
  BY <1>2, WithinWithin
<1> HIDE DEF pad
<1>5. \A i \in 1..pad : w[Len(data) + i] = 0
  <2>1. \A i \in 1..pad : Len(data) + i \in 1..Len(v)
    BY <1>1, <1>2
  <2> QED BY <1>2, <1>3, <2>1
<1>6. Len(data) + pad <= Len(w)
  BY <1>1, <1>2, <1>3
<1> QED BY <1>4, <1>5, <1>6 DEF Padded, pad

(* Where the parts of a value stand behind the columns in front of it.     *)
AfterFixed(w, data, c) ==
  LET t == FixedType(c.type)
      at == Len(data) + Padding(Len(data), t.align)
  IN  FixedSizes(t) /\ Padded(w, data, t.align) /\ Within(c.bytes, at, w) /\ Len(w) = at + t.width
AfterShort(w, data, c) ==
  /\ Within(data, 0, w) /\ Within(<<2 * (Len(c.bytes) + 1) + 1>>, Len(data), w)
  /\ Within(c.bytes, Len(data) + 1, w) /\ Len(w) = Len(data) + 1 + Len(c.bytes)
AfterPlain(w, data, c) ==
  LET at == Len(data) + Padding(Len(data), 4)
  IN  /\ Padded(w, data, 4) /\ Within(Word(4 * (Len(c.bytes) + 4)), at, w)
      /\ Within(c.bytes, at + 4, w) /\ Len(w) = at + 4 + Len(c.bytes)
AfterPacked(w, data, c) ==
  LET at == Len(data) + Padding(Len(data), 4)
  IN  /\ Padded(w, data, 4) /\ Within(Word(4 * (Len(c.bytes) + 8) + 2), at, w)
      /\ Within(Word(Len(Decompress(c.bytes))), at + 4, w)
      /\ Within(c.bytes, at + 8, w) /\ Len(w) = at + 8 + Len(c.bytes)
AfterToasted(w, data, c) ==
  /\ Within(data, 0, w) /\ Within(<<1, OnDisk>>, Len(data), w)
  /\ Within(c.bytes, Len(data) + 2, w) /\ Len(w) = Len(data) + 2 + Len(c.bytes)

LEMMA StoredFixed ==
  ASSUME NEW data \in Seq(Byte), NEW c, IsColumn(c), c # NullColumn, c.form = "fixed"
  PROVE  AfterFixed(Stored(data, c), data, c)
<1> DEFINE w == Stored(data, c)
           t == FixedType(c.type)
           f == Filled(data, t.align)
<1>1. c.bytes \in Seq(Byte) /\ c.type \in FixedTypes /\ Len(c.bytes) = t.width
  BY DEF IsColumn, Byte
<1>2. FixedSizes(t) /\ t.align \in {1, 2, 4, 8}
  BY <1>1, FixedTypeSizes DEF FixedSizes
<1>3. w = f \o c.bytes
  BY DEF Stored, Filled
<1>4. Padded(f, data, t.align) /\ f \in Seq(Byte) /\ Len(f) = Len(data) + Padding(Len(data), t.align)
  <2> HIDE DEF t
  <2> QED BY <1>2, FilledFacts
<1> HIDE DEF w, f, t
<1>5. Within(f, 0, w) /\ Within(c.bytes, Len(f), w) /\ Len(w) = Len(f) + Len(c.bytes)
  BY <1>1, <1>3, <1>4, WithinConcat
<1>6. Padded(w, data, t.align)
  BY <1>2, <1>4, <1>5, PaddedLonger
<1> QED BY <1>1, <1>2, <1>4, <1>5, <1>6 DEF AfterFixed, w, t

LEMMA StoredShort ==
  ASSUME NEW data \in Seq(Byte), NEW c, IsColumn(c), c # NullColumn, c.form = "short"
  PROVE  AfterShort(Stored(data, c), data, c)
<1> DEFINE w == Stored(data, c)
           b == 2 * (Len(c.bytes) + 1) + 1
           f == data \o <<b>>
<1>1. c.bytes \in Seq(Byte) /\ b \in Byte
  <2>1. c.bytes \in Seq(Byte) /\ Len(c.bytes) < 127
    BY DEF IsColumn, Byte
  <2>2. Len(c.bytes) \in Nat
    BY <2>1
  <2>3. b \in Byte
    <3>1. \A n \in Nat : n < 127 => 2 * (n + 1) + 1 \in Byte
      BY DEF Byte
    <3> QED BY <2>1, <2>2, <3>1
  <2> QED BY <2>1, <2>3
<1>2. <<b>> \in Seq(Byte) /\ Len(<<b>>) = 1
  <2> HIDE DEF b
  <2> QED BY <1>1
<1>3. w = f \o c.bytes
  <2>1. w = Append(data, b) \o c.bytes
    BY DEF Stored
  <2>2. Append(data, b) = data \o <<b>>
    <3> HIDE DEF b
    <3> QED BY <1>1, AppendIsConcat
  <2> QED BY <2>1, <2>2
<1> DEFINE d == <<b>>
<1>4. Within(data, 0, f) /\ Within(d, Len(data), f) /\ Len(f) = Len(data) + 1 /\ f \in Seq(Byte)
      /\ d \in Seq(Byte)
  <2> HIDE DEF b
  <2> QED BY <1>2, WithinConcat
<1> HIDE DEF w, f, d, b
<1>5. Within(f, 0, w) /\ Within(c.bytes, Len(f), w) /\ Len(w) = Len(f) + Len(c.bytes)
  BY <1>1, <1>3, <1>4, WithinConcat
<1>6. Within(data, 0, w) /\ Within(d, Len(data), w)
  <2>1. Len(data) \in Nat /\ 0 + Len(data) = Len(data) /\ 0 + 0 = 0
    OBVIOUS
  <2> QED BY <1>4, <1>5, <2>1, WithinWithin
<1> QED BY <1>1, <1>4, <1>5, <1>6 DEF AfterShort, w, d, b

LEMMA StoredToasted ==
  ASSUME NEW data \in Seq(Byte), NEW c, IsColumn(c), c # NullColumn, c.form = "toasted"
  PROVE  AfterToasted(Stored(data, c), data, c)
<1> DEFINE w == Stored(data, c)
           d == <<1, OnDisk>>
           f == data \o d
<1>1. c.bytes \in Seq(Byte)
  BY DEF IsColumn, Byte
<1>2. d \in Seq(Byte) /\ Len(d) = 2
  BY DEF OnDisk, Byte
<1>3. w = f \o c.bytes
  BY DEF Stored
<1>4. Within(data, 0, f) /\ Within(d, Len(data), f) /\ Len(f) = Len(data) + 2 /\ f \in Seq(Byte)
  <2>1. f = data \o d
    OBVIOUS
  <2> HIDE DEF f, d
  <2>2. Within(data, 0, f) /\ Within(d, Len(data), f) /\ Len(f) = Len(data) + Len(d) /\ f \in Seq(Byte)
    BY <1>2, <2>1, WithinConcat
  <2> QED BY <1>2, <2>2
<1> HIDE DEF w, d, f
<1>5. Within(f, 0, w) /\ Within(c.bytes, Len(f), w) /\ Len(w) = Len(f) + Len(c.bytes)
  BY <1>1, <1>3, <1>4, WithinConcat
<1>6. Within(data, 0, w) /\ Within(d, Len(data), w)
  <2>1. Len(data) \in Nat /\ 0 + Len(data) = Len(data) /\ 0 + 0 = 0
    OBVIOUS
  <2> QED BY <1>4, <1>5, <2>1, WithinWithin
<1> QED BY <1>1, <1>4, <1>5, <1>6 DEF AfterToasted, w, d

Three(w, a, b, d) == /\ Within(a, 0, w) /\ Within(b, Len(a), w) /\ Within(d, Len(a) + Len(b), w)
                     /\ Len(w) = Len(a) + Len(b) + Len(d) /\ w \in Seq(Byte)

LEMMA ThreeParts ==
  ASSUME NEW a \in Seq(Byte), NEW b \in Seq(Byte), NEW d \in Seq(Byte), NEW w, w = (a \o b) \o d
  PROVE  Three(w, a, b, d)
<1> DEFINE f == a \o b
<1>1. w = f \o d /\ f = a \o b
  OBVIOUS
<1> HIDE DEF f
<1>2. Within(a, 0, f) /\ Within(b, Len(a), f) /\ Len(f) = Len(a) + Len(b) /\ f \in Seq(Byte)
  BY <1>1, WithinConcat
<1>3. Within(f, 0, w) /\ Within(d, Len(f), w) /\ Len(w) = Len(f) + Len(d) /\ w \in Seq(Byte)
  BY <1>1, <1>2, WithinConcat
<1>4. Len(a) \in Nat /\ 0 + Len(a) = Len(a) /\ 0 + 0 = 0
  OBVIOUS
<1>5. Within(a, 0, w) /\ Within(b, Len(a), w)
  BY <1>2, <1>3, <1>4, WithinWithin
<1> QED BY <1>2, <1>3, <1>5 DEF Three

LEMMA PaddingNat ==
  ASSUME NEW data \in Seq(Byte), NEW a \in {1, 2, 4, 8}
  PROVE  Padding(Len(data), a) \in Nat /\ Len(data) \in Nat
<1>1. Padding(Len(data), a) \in 0..7
  BY FilledFacts
<1> QED BY <1>1

LEMMA StoredPlain ==
  ASSUME NEW data \in Seq(Byte), NEW c, IsColumn(c), c # NullColumn, c.form = "plain"
  PROVE  AfterPlain(Stored(data, c), data, c) /\ Len(c.bytes) + 4 < 2^30
<1> DEFINE w == Stored(data, c)
           b == Word(4 * (Len(c.bytes) + 4))
           z == Filled(data, 4)
<1>1. c.bytes \in Seq(Byte) /\ Len(c.bytes) \in Nat /\ Len(c.bytes) < 2^30 - 8
  <2>1. c.bytes \in Seq(Byte) /\ Len(c.bytes) < 2^30 - 8
    BY DEF IsColumn, Byte
  <2> QED BY <2>1
<1>2. b \in Seq(Byte) /\ Len(b) = 4
  <2>1. \A n \in Nat : n < 2^30 - 8 => 4 * (n + 4) \in Nat /\ 4 * (n + 4) < 2^32
    OBVIOUS
  <2>2. 4 * (Len(c.bytes) + 4) \in Nat /\ 4 * (Len(c.bytes) + 4) < 2^32
    BY <1>1, <2>1
  <2> QED BY <2>2, WordBytes
<1>3. w = (z \o b) \o c.bytes
  BY DEF Stored, Filled
<1>4. Padded(z, data, 4) /\ z \in Seq(Byte) /\ Len(z) = Len(data) + Padding(Len(data), 4)
  BY FilledFacts
<1> HIDE DEF w, z, b
<1>5. Within(z, 0, w) /\ Within(b, Len(z), w) /\ Within(c.bytes, Len(z) + Len(b), w)
      /\ Len(w) = Len(z) + Len(b) + Len(c.bytes)
  <2>1. Three(w, z, b, c.bytes)
    BY <1>1, <1>2, <1>3, <1>4, ThreeParts
  <2> QED BY <2>1 DEF Three
<1>6. Padded(w, data, 4)
  BY <1>4, <1>5, PaddedLonger
<1>7. Len(c.bytes) + 4 < 2^30
  BY <1>1
<1> QED BY <1>2, <1>4, <1>5, <1>6, <1>7 DEF AfterPlain, w, b

LEMMA StoredPacked ==
  ASSUME NEW data \in Seq(Byte), NEW c, IsColumn(c), c # NullColumn, c.form = "packed"
  PROVE  /\ AfterPacked(Stored(data, c), data, c) /\ Len(c.bytes) + 8 < 2^30
         /\ Len(Decompress(c.bytes)) \in 0..(2^30 - 1)
<1> DEFINE w == Stored(data, c)
           b == Word(4 * (Len(c.bytes) + 8) + 2)
           r == Word(Len(Decompress(c.bytes)))
           z == Filled(data, 4)
           f == (z \o b) \o r
<1>1. c.bytes \in Seq(Byte) /\ Len(c.bytes) \in Nat /\ Len(c.bytes) < 2^30 - 8
  <2>1. c.bytes \in Seq(Byte) /\ Len(c.bytes) < 2^30 - 8
    BY DEF IsColumn, Byte
  <2> QED BY <2>1
<1>2. Len(Decompress(c.bytes)) \in Nat /\ Len(Decompress(c.bytes)) < 2^30
  <2>1. Decompress(c.bytes) \in Seq(Byte) /\ Len(Decompress(c.bytes)) < 2^30
    BY DEF IsColumn, Byte
  <2> QED BY <2>1
<1>3. b \in Seq(Byte) /\ Len(b) = 4
  <2>1. \A n \in Nat : n < 2^30 - 8 => 4 * (n + 8) + 2 \in Nat /\ 4 * (n + 8) + 2 < 2^32
    OBVIOUS
  <2>2. 4 * (Len(c.bytes) + 8) + 2 \in Nat /\ 4 * (Len(c.bytes) + 8) + 2 < 2^32
    BY <1>1, <2>1
  <2> QED BY <2>2, WordBytes
<1>4. r \in Seq(Byte) /\ Len(r) = 4
  BY <1>2, WordBytes
<1>5. w = f \o c.bytes
  BY DEF Stored, Filled
<1>6. Padded(z, data, 4) /\ z \in Seq(Byte) /\ Len(z) = Len(data) + Padding(Len(data), 4)
      /\ Len(data) + Padding(Len(data), 4) \in Nat
  BY FilledFacts
<1>7. f = (z \o b) \o r
  OBVIOUS
<1> HIDE DEF w, z, b, r, f
<1>8. Within(z, 0, f) /\ Within(b, Len(z), f) /\ Within(r, Len(z) + Len(b), f)
      /\ Len(f) = Len(z) + Len(b) + Len(r) /\ f \in Seq(Byte)
  <2>1. Three(f, z, b, r)
    BY <1>3, <1>4, <1>6, <1>7, ThreeParts
  <2> QED BY <2>1 DEF Three
<1>9. Within(f, 0, w) /\ Within(c.bytes, Len(f), w) /\ Len(w) = Len(f) + Len(c.bytes)
  BY <1>1, <1>5, <1>8, WithinConcat
<1>10. Len(z) \in Nat /\ 0 + Len(z) = Len(z) /\ 0 + (Len(z) + 4) = Len(z) + 4 /\ 0 + 0 = 0
  BY <1>6
<1>11. Within(z, 0, w) /\ Within(b, Len(z), w) /\ Within(r, Len(z) + 4, w)
  <2>1. Within(r, Len(z) + 4, f)
    BY <1>3, <1>8
  <2>2. Within(z, 0, w)
    BY <1>8, <1>9, <1>10, WithinWithin
  <2>3. Within(b, Len(z), w)
    BY <1>8, <1>9, <1>10, WithinWithin
  <2>4. Within(r, Len(z) + 4, w)
    BY <1>9, <1>10, <2>1, WithinWithin
  <2> QED BY <2>2, <2>3, <2>4
<1>12. Padded(w, data, 4)
  BY <1>6, <1>11, PaddedLonger
<1>13. Len(f) = Len(z) + 8 /\ Len(c.bytes) + 8 < 2^30 /\ Len(Decompress(c.bytes)) \in 0..(2^30 - 1)
  BY <1>1, <1>2, <1>3, <1>4, <1>8, <1>10
<1> QED BY <1>6, <1>9, <1>11, <1>12, <1>13 DEF AfterPacked, w, b, r

(* A column is stored behind those in front of it, and takes a byte.       *)
Grown(w, data, c) ==
  /\ Within(data, 0, w) /\ w \in Seq(Byte)
  /\ c = NullColumn => w = data
  /\ c # NullColumn => Len(data) < Len(w)

LEMMA StoredGrows ==
  ASSUME NEW data \in Seq(Byte), NEW c, IsColumn(c)
  PROVE  Grown(Stored(data, c), data, c)
<1> DEFINE w == Stored(data, c)
<1>1. CASE c = NullColumn
  <2>1. w = data
    BY <1>1 DEF Stored
  <2>2. Within(data, 0, data)
    BY DEF Within
  <2> HIDE DEF w
  <2> QED BY <1>1, <2>1, <2>2 DEF Grown, w
<1>2. ASSUME c # NullColumn, Within(data, 0, w), Len(data) < Len(w)
      PROVE  Grown(w, data, c)
  BY <1>2 DEF Grown, Within
<1>3. ASSUME c # NullColumn, NEW a \in {1, 2, 4, 8}, Padded(w, data, a), NEW k \in Nat,
             Len(w) = Len(data) + Padding(Len(data), a) + k + 1
      PROVE  Grown(w, data, c)
  <2>1. Padding(Len(data), a) \in Nat /\ Len(data) \in Nat
    BY PaddingNat
  <2> HIDE DEF w
  <2> QED BY <1>2, <1>3, <2>1 DEF Padded
<1>4. CASE c # NullColumn /\ c.form = "fixed"
  <2>1. AfterFixed(w, data, c)
    BY <1>4, StoredFixed
  <2> HIDE DEF w
  <2> DEFINE t == FixedType(c.type)
  <2>2. FixedSizes(t) /\ Padded(w, data, t.align) /\ Len(w) = Len(data) + Padding(Len(data), t.align) + t.width
    BY <2>1 DEF AfterFixed
  <2> HIDE DEF t
  <2>3. t.align \in {1, 2, 4, 8} /\ t.width - 1 \in Nat /\ t.width \in Nat
    BY <2>2 DEF FixedSizes
  <2>4. Padding(Len(data), t.align) \in Nat /\ Len(data) \in Nat
    BY <2>3, PaddingNat
  <2>5. Len(w) = Len(data) + Padding(Len(data), t.align) + (t.width - 1) + 1
    BY <2>2, <2>3, <2>4
  <2> QED BY <1>3, <1>4, <2>2, <2>3, <2>5 DEF w
<1>5. CASE c # NullColumn /\ c.form = "short"
  <2>1. AfterShort(w, data, c)
    BY <1>5, StoredShort
  <2> HIDE DEF w
  <2>2. Len(c.bytes) \in Nat /\ Len(data) \in Nat
    BY <2>1 DEF AfterShort, Within
  <2>3. Within(data, 0, w) /\ Len(data) < Len(w)
    <3>1. Within(data, 0, w) /\ Len(w) = Len(data) + 1 + Len(c.bytes)
      BY <2>1 DEF AfterShort
    <3>2. \A x, y, z : x \in Nat /\ y \in Nat /\ z = x + 1 + y => x < z
      OBVIOUS
    <3>3. Len(data) < Len(w)
      BY <2>2, <3>1, <3>2
    <3> QED BY <3>1, <3>3
  <2> QED BY <1>2, <1>5, <2>3 DEF w
<1>6. CASE c # NullColumn /\ c.form = "toasted"
  <2>1. AfterToasted(w, data, c)
    BY <1>6, StoredToasted
  <2> HIDE DEF w
  <2>2. Len(c.bytes) \in Nat /\ Len(data) \in Nat
    BY <2>1 DEF AfterToasted, Within
  <2>3. Within(data, 0, w) /\ Len(data) < Len(w)
    <3>1. Within(data, 0, w) /\ Len(w) = Len(data) + 2 + Len(c.bytes)
      BY <2>1 DEF AfterToasted
    <3>2. \A x, y, z : x \in Nat /\ y \in Nat /\ z = x + 2 + y => x < z
      OBVIOUS
    <3>3. Len(data) < Len(w)
      BY <2>2, <3>1, <3>2
    <3> QED BY <3>1, <3>3
  <2> QED BY <1>2, <1>6, <2>3 DEF w
<1>7. CASE c # NullColumn /\ c.form = "plain"
  <2>1. AfterPlain(w, data, c)
    BY <1>7, StoredPlain
  <2> HIDE DEF w
  <2>2. Len(c.bytes) \in Nat /\ Padding(Len(data), 4) \in Nat /\ Len(data) \in Nat
    BY <2>1, PaddingNat DEF AfterPlain, Within
  <2>3. Len(w) = Len(data) + Padding(Len(data), 4) + (Len(c.bytes) + 3) + 1 /\ Len(c.bytes) + 3 \in Nat
    BY <2>1, <2>2 DEF AfterPlain
  <2> QED BY <1>3, <1>7, <2>1, <2>3 DEF AfterPlain, w
<1>8. CASE c # NullColumn /\ c.form = "packed"
  <2>1. AfterPacked(w, data, c)
    BY <1>8, StoredPacked
  <2> HIDE DEF w
  <2>2. Len(c.bytes) \in Nat /\ Padding(Len(data), 4) \in Nat /\ Len(data) \in Nat
    BY <2>1, PaddingNat DEF AfterPacked, Within
  <2>3. Len(w) = Len(data) + Padding(Len(data), 4) + (Len(c.bytes) + 7) + 1 /\ Len(c.bytes) + 7 \in Nat
    BY <2>1, <2>2 DEF AfterPacked
  <2>4. Padded(w, data, 4)
    BY <2>1 DEF AfterPacked
  <2>5. 4 \in {1, 2, 4, 8} /\ c # NullColumn
    BY <1>8
  <2>6. Grown(w, data, c)
    BY <1>3, <2>3, <2>4, <2>5 DEF w
  <2> QED BY <2>6 DEF w
<1>9. c # NullColumn => c.form \in {"fixed", "short", "toasted", "plain", "packed"}
  BY DEF IsColumn
<1> QED BY <1>1, <1>4, <1>5, <1>6, <1>7, <1>8, <1>9

LEMMA LayoutOne ==
  ASSUME NEW S, \A c \in S : IsColumn(c), NEW s \in Seq(S), NEW c \in S, NEW s1, s1 = Append(s, c)
  PROVE  /\ Layout(<<>>) = <<>> /\ Layout(s) \in Seq(Byte)
         /\ Layout(s1) = Stored(Layout(s), c)
<1> DEFINE A == Seq(Byte)
           e == <<>>
           g == [z \in A \X S |-> Stored(z[1], z[2])]
<1>1. e \in A
  OBVIOUS
<1>2. \A a \in A, d \in S : Stored(a, d) \in A
  BY StoredGrows DEF Grown
<1> HIDE DEF A, e
<1>3. g \in [A \X S -> A] /\ \A a \in A, d \in S : g[<<a, d>>] = Stored(a, d)
  BY <1>2
<1>4. ASSUME NEW t \in Seq(S)
      PROVE  \E h : Stepped(h, A, e, g, t) /\ Layout(t) = h[Len(t)]
  <2> DEFINE n == Len(t)
             Makes(h) == h = [i \in 0..n |-> IF i = 0 THEN e ELSE Stored(h[i - 1], t[i])]
             acc == CHOOSE h : Makes(h)
  <2>1. PICK h : Steps(h, A, e, g, t)
    <3> HIDE DEF g
    <3> QED BY <1>1, <1>3, StepsExist
  <2>2. n \in Nat /\ h \in [0..n -> A] /\ h[0] = e /\ \A i \in 1..n : t[i] \in S
    BY <2>1 DEF Steps
  <2>3. \A i \in 1..n : h[i - 1] \in A /\ h[i] = Stored(h[i - 1], t[i])
    <3> HIDE DEF n
    <3>1. \A i \in 1..n : h[i] = g[<<h[i - 1], t[i]>>]
      BY <2>1 DEF Steps, n
    <3>2. \A i \in 1..n : i - 1 \in 0..n
      BY <2>2
    <3> HIDE DEF g
    <3> QED BY <1>3, <2>2, <3>1, <3>2
  <2>4. Makes(h)
    <3>1. \A i \in 0..n : i = 0 \/ i \in 1..n
      BY <2>2
    <3> HIDE DEF n
    <3> QED BY <2>2, <2>3, <3>1
  <2>5. Makes(acc)
    <3> HIDE DEF Makes
    <3> QED BY <2>4
  <2>6. Layout(t) = acc[n]
    BY DEF Layout, e, Makes, acc
  <2> HIDE DEF acc
  <2>7. Stepped(acc, A, e, g, t)
    <3>1. 0 \in 0..n /\ \A i \in 1..n : i \in 0..n /\ i # 0
      BY <2>2
    <3> HIDE DEF n, g
    <3>2. acc[0] = e /\ \A i \in 1..n : acc[i] = Stored(acc[i - 1], t[i])
      BY <2>5, <3>1
    <3> QED BY <1>3, <2>2, <3>2 DEF Stepped, n
  <2> QED BY <2>6, <2>7
<1> HIDE DEF g
<1>5. Layout(<<>>) = e
  <2>1. PICK h : Stepped(h, A, e, g, <<>>) /\ Layout(<<>>) = h[Len(<<>>)]
    BY <1>4, EmptySeq
  <2> QED BY <2>1 DEF Stepped
<1>6. PICK h : Stepped(h, A, e, g, s) /\ Layout(s) = h[Len(s)]
  BY <1>4
<1>7. PICK k : Stepped(k, A, e, g, s1) /\ Layout(s1) = k[Len(s1)]
  <2>1. s1 \in Seq(S)
    OBVIOUS
  <2> QED BY <1>4, <2>1
<1>8. Layout(s) \in A /\ Layout(s1) = g[<<Layout(s), c>>]
  <2>1. OneMore(h, k, A, g, s, c, s1)
    BY <1>1, <1>3, <1>6, <1>7, StepsAppend
  <2> QED BY <1>6, <1>7, <2>1 DEF OneMore
<1>9. Layout(s1) = Stored(Layout(s), c)
  BY <1>3, <1>8
<1> QED BY <1>5, <1>8, <1>9 DEF A, e

(* The bytes of the first k columns come first.                            *)
Leading(columns, k) == Layout(SubSeq(columns, 1, k))
Laying(columns, k) ==
  /\ Leading(columns, k - 1) \in Seq(Byte) /\ IsColumn(columns[k])
  /\ Leading(columns, k) = Stored(Leading(columns, k - 1), columns[k])
  /\ Grown(Leading(columns, k), Leading(columns, k - 1), columns[k])
Columns(columns) == columns \in Seq(Range(columns)) /\ \A k \in DOMAIN columns : IsColumn(columns[k])

LEMMA LeadingOne ==
  ASSUME NEW columns, Columns(columns), NEW k \in 1..Len(columns)
  PROVE  Laying(columns, k)
<1> DEFINE S == Range(columns)
           s == SubSeq(columns, 1, k - 1)
           s1 == SubSeq(columns, 1, k)
<1>1. columns \in Seq(S) /\ columns[k] \in S /\ \A c \in S : IsColumn(c)
  <2>1. columns \in Seq(S) /\ DOMAIN columns = 1..Len(columns)
    BY DEF Columns
  <2>2. \A c \in S : IsColumn(c)
    BY DEF Columns, Range
  <2> QED BY <2>1, <2>2 DEF Range
<1> HIDE DEF S
<1>2. s \in Seq(S) /\ s1 = Append(s, columns[k])
  <2>1. Len(columns) \in Nat /\ k \in Nat /\ k - 1 \in Int /\ 1 \in Int /\ 1 \in 1..Len(columns) /\ k \in 1..Len(columns)
    BY <1>1
  <2>2. \A i \in 1..(k - 1) : columns[i] \in S
    BY <1>1, <2>1
  <2>3. s \in Seq(S)
    BY <2>1, <2>2, SubSeqProperties
  <2>4. s1 = s \o <<columns[k]>>
    BY <1>1, <2>1, SubSeqRecursiveSecond
  <2> HIDE DEF s, s1
  <2>5. Append(s, columns[k]) = s \o <<columns[k]>>
    BY <1>1, <2>3, AppendIsConcat
  <2> QED BY <2>3, <2>4, <2>5
<1> HIDE DEF s, s1
<1>3. Layout(s) \in Seq(Byte) /\ Layout(s1) = Stored(Layout(s), columns[k])
  BY <1>1, <1>2, LayoutOne
<1>4. Grown(Stored(Layout(s), columns[k]), Layout(s), columns[k])
  BY <1>1, <1>3, StoredGrows
<1> QED BY <1>1, <1>3, <1>4 DEF Laying, Leading, s, s1

LEMMA LeadingFirst ==
  ASSUME NEW columns, Columns(columns)
  PROVE  /\ Leading(columns, 0) = <<>> /\ Leading(columns, Len(columns)) = Layout(columns)
         /\ \A k \in 0..Len(columns) : Leading(columns, k) \in Seq(Byte)
<1> DEFINE S == Range(columns)
<1>1. columns \in Seq(S) /\ Len(columns) \in Nat
  BY DEF Columns
<1>2. SubSeq(columns, 1, 0) = <<>> /\ SubSeq(columns, 1, Len(columns)) = columns
  <2>1. 1 \in Int /\ 0 \in Int /\ 0 < 1
    OBVIOUS
  <2>2. SubSeq(columns, 1, 0) = <<>>
    BY <2>1, SubSeqEmpty
  <2> HIDE DEF S
  <2>3. SubSeq(columns, 1, Len(columns)) = columns
    BY <1>1, SubSeqFull
  <2> QED BY <2>2, <2>3
<1>3. Layout(<<>>) = <<>>
  <2> DEFINE n == [null |-> TRUE]
  <2>1. \A c \in {n} : IsColumn(c)
    BY DEF IsColumn, NullColumn
  <2>2. <<>> \in Seq({n}) /\ n \in {n} /\ Append(<<>>, n) = Append(<<>>, n)
    OBVIOUS
  <2> HIDE DEF n
  <2> QED BY <2>1, <2>2, LayoutOne
<1>4. \A k \in 0..Len(columns) : Leading(columns, k) \in Seq(Byte)
  <2>1. Leading(columns, 0) \in Seq(Byte)
    BY <1>2, <1>3, EmptySeq DEF Leading
  <2>2. \A k \in 1..Len(columns) : Leading(columns, k) \in Seq(Byte)
    BY LeadingOne DEF Laying, Grown
  <2> QED BY <1>1, <2>1, <2>2
<1> QED BY <1>2, <1>3, <1>4 DEF Leading

LEMMA LeadingWithin ==
  ASSUME NEW columns, Columns(columns), NEW m \in 0..Len(columns), NEW k \in 0..m
  PROVE  Within(Leading(columns, k), 0, Leading(columns, m))
<1> DEFINE P == {i \in 0..Len(columns) : i >= k => Within(Leading(columns, k), 0, Leading(columns, i))}
<1>1. Len(columns) \in Nat
  BY DEF Columns
<1>2. ASSUME NEW i \in 0..Len(columns) PROVE Within(Leading(columns, i), 0, Leading(columns, i))
  <2>1. Leading(columns, i) \in Seq(Byte)
    BY LeadingFirst
  <2> QED BY <2>1 DEF Within
<1>3. 0 \in P
  BY <1>1, <1>2
<1>4. ASSUME NEW i \in 0..(Len(columns) - 1), i \in P PROVE i + 1 \in P
  <2>1. i \in Nat /\ i + 1 \in 1..Len(columns) /\ (i + 1) - 1 = i
    BY <1>1, <1>4
  <2>2. Laying(columns, i + 1)
    BY <2>1, LeadingOne
  <2>3. Within(Leading(columns, i), 0, Leading(columns, i + 1))
    BY <2>1, <2>2 DEF Laying, Grown
  <2>4. CASE i >= k
    <3>1. Within(Leading(columns, k), 0, Leading(columns, i)) /\ 0 + 0 = 0
      BY <1>4, <2>4
    <3>2. Within(Leading(columns, k), 0, Leading(columns, i + 1))
      BY <2>3, <3>1, WithinWithin
    <3> QED BY <2>1, <3>2
  <2>5. CASE i + 1 = k
    BY <1>2, <2>1, <2>5
  <2>6. CASE i + 1 < k
    BY <2>1, <2>6
  <2> QED BY <2>1, <2>4, <2>5, <2>6
<1> HIDE DEF P
<1>5. 0..Len(columns) \subseteq P
  BY <1>1, <1>3, <1>4, UpTo
<1> QED BY <1>5 DEF P

-------------------------------------------------------------------------------
(* Numbers of three and four bytes.                                        *)
Horner(a, b, c, d) ==
  /\ 256 * (256 * (256 * d + c) + b) + a = a + 256 * b + 65536 * c + 16777216 * d
  /\ 256 * (65536 * d + 256 * c + b) + a = 16777216 * d + 65536 * c + 256 * b + a
  /\ 256 * (256 * d + c) + b = 65536 * d + 256 * c + b
  /\ 256 * 0 + a = a
LEMMA HornerHolds ==
  ASSUME NEW a \in Int, NEW b \in Int, NEW c \in Int, NEW d \in Int
  PROVE  Horner(a, b, c, d)
  BY DEF Horner

LEMMA UnsignedUnfolded ==
  ASSUME NEW s \in Seq(Byte), NEW n \in 3..4, Len(s) = n
  PROVE  Unsigned(s) = s[1] + 256 * s[2] + 65536 * s[3] + IF n = 4 THEN 16777216 * s[4] ELSE 0
<1> DEFINE h == [i \in 0..n |-> IF i = 0 THEN 0 ELSE IF i = 1 THEN s[n]
                                ELSE IF i = 2 THEN 256 * s[n] + s[n - 1]
                                ELSE IF i = 3 THEN 65536 * s[n] + 256 * s[n - 1] + s[n - 2]
                                ELSE 16777216 * s[n] + 65536 * s[n - 1] + 256 * s[n - 2] + s[n - 3]]
           Makes(f) == f = [i \in 0..n |-> IF i = 0 THEN 0 ELSE 256 * f[i - 1] + s[n - i + 1]]
           acc == CHOOSE f : Makes(f)
<1>1. \A i \in 1..n : s[i] \in Int
  <2>1. \A i \in 1..n : s[i] \in Byte
    BY ElementOfSeq
  <2>2. Byte \subseteq Int
    BY DEF Byte
  <2> HIDE DEF h
  <2> QED BY <2>1, <2>2
<1>6. s[1] \in Int /\ s[2] \in Int /\ s[3] \in Int /\ (n = 4 => s[4] \in Int)
  <2>1. 1 \in 1..n /\ 2 \in 1..n /\ 3 \in 1..n /\ (n = 4 => 4 \in 1..n)
    OBVIOUS
  <2> HIDE DEF h
  <2> QED BY <1>1, <2>1
<1>2. Makes(h)
  <2>1. ASSUME NEW i \in 0..n
        PROVE  h[i] = IF i = 0 THEN 0 ELSE 256 * h[i - 1] + s[n - i + 1]
    <3>2. CASE n = 3
      <4>1. h[0] = 0 /\ h[1] = s[3] /\ h[2] = 256 * s[3] + s[2]
            /\ h[3] = 65536 * s[3] + 256 * s[2] + s[1]
        BY <3>2
      <4>2. i = 0 \/ i = 1 \/ i = 2 \/ i = 3
        BY <3>2
      <4> HIDE DEF h
      <4>3. CASE i = 0
        BY <4>1, <4>3
      <4>4. CASE i # 0
        <5>1. CASE i = 1
          BY <1>6, <3>2, <4>1, <5>1
        <5>2. CASE i = 2
          BY <1>6, <3>2, <4>1, <5>2
        <5>3. CASE i = 3
          <6>1. h[i - 1] = 256 * s[3] + s[2] /\ s[n - i + 1] = s[1]
            BY <3>2, <4>1, <5>3
          <6>2. 256 * (256 * s[3] + s[2]) + s[1] = 65536 * s[3] + 256 * s[2] + s[1]
            BY <1>6
          <6> QED BY <4>1, <5>3, <6>1, <6>2
        <5> QED BY <4>2, <4>4, <5>1, <5>2, <5>3
      <4> QED BY <4>3, <4>4
    <3>3. CASE n = 4
      <4>1. h[0] = 0 /\ h[1] = s[4] /\ h[2] = 256 * s[4] + s[3]
            /\ h[3] = 65536 * s[4] + 256 * s[3] + s[2]
            /\ h[4] = 16777216 * s[4] + 65536 * s[3] + 256 * s[2] + s[1]
        BY <3>3
      <4>2. i = 0 \/ i = 1 \/ i = 2 \/ i = 3 \/ i = 4
        BY <3>3
      <4> HIDE DEF h
      <4>3. Horner(s[1], s[2], s[3], s[4]) /\ Horner(s[4], s[4], s[4], s[4])
        BY <1>6, <3>3, HornerHolds
      <4>4. CASE i = 0
        BY <4>1, <4>4
      <4>5. CASE i = 1
        <5>1. h[i - 1] = 0 /\ s[n - i + 1] = s[4]
          BY <3>3, <4>1, <4>5
        <5>2. 256 * 0 + s[4] = s[4]
          BY ONLY <4>3, SMT DEF Horner
        <5> QED BY ONLY <4>1, <4>5, <5>1, <5>2
      <4>6. CASE i = 2
        <5>1. h[i - 1] = s[4] /\ s[n - i + 1] = s[3]
          BY <3>3, <4>1, <4>6
        <5> QED BY ONLY <4>1, <4>6, <5>1
      <4>7. CASE i = 3
        <5>1. h[i - 1] = 256 * s[4] + s[3] /\ s[n - i + 1] = s[2]
          BY <3>3, <4>1, <4>7
        <5>2. 256 * (256 * s[4] + s[3]) + s[2] = 65536 * s[4] + 256 * s[3] + s[2]
          BY ONLY <4>3, SMT DEF Horner
        <5> QED BY ONLY <4>1, <4>7, <5>1, <5>2
      <4>8. CASE i = 4
        <5>1. h[i - 1] = 65536 * s[4] + 256 * s[3] + s[2] /\ s[n - i + 1] = s[1]
          BY <3>3, <4>1, <4>8
        <5>2. 256 * (65536 * s[4] + 256 * s[3] + s[2]) + s[1]
              = 16777216 * s[4] + 65536 * s[3] + 256 * s[2] + s[1]
          BY ONLY <4>3, SMT DEF Horner
        <5> QED BY ONLY <4>1, <4>8, <5>1, <5>2
      <4> QED BY ONLY <4>2, <4>4, <4>5, <4>6, <4>7, <4>8
    <3> QED BY <3>2, <3>3
  <2>2. DOMAIN h = 0..n
    OBVIOUS
  <2>3. h = [i \in 0..n |-> h[i]]
    OBVIOUS
  <2> HIDE DEF h
  <2> QED BY <2>1, <2>3
<1>3. Makes(acc)
  <2> HIDE DEF Makes, h
  <2> QED BY <1>2
<1>4. Unsigned(s) = acc[n]
  BY DEF Unsigned
<1>5. acc[0] = 0 /\ \A i \in 1..n : acc[i] = 256 * acc[i - 1] + s[n - i + 1]
  <2>1. acc = [i \in 0..n |-> IF i = 0 THEN 0 ELSE 256 * acc[i - 1] + s[n - i + 1]]
    BY <1>3
  <2> HIDE DEF acc
  <2>2. 0 \in 0..n /\ \A i \in 1..n : i \in 0..n /\ i # 0
    OBVIOUS
  <2> QED BY <2>1, <2>2
<1> HIDE DEF acc, h, Makes
<1>7. acc[1] = 256 * acc[0] + s[n] /\ acc[2] = 256 * acc[1] + s[n - 1]
      /\ acc[3] = 256 * acc[2] + s[n - 2] /\ (n = 4 => acc[4] = 256 * acc[3] + s[n - 3])
  <2>1. 1 \in 1..n /\ 2 \in 1..n /\ 3 \in 1..n /\ (n = 4 => 4 \in 1..n)
    OBVIOUS
  <2>2. acc[1] = 256 * acc[1 - 1] + s[n - 1 + 1] /\ acc[2] = 256 * acc[2 - 1] + s[n - 2 + 1]
        /\ acc[3] = 256 * acc[3 - 1] + s[n - 3 + 1] /\ (n = 4 => acc[4] = 256 * acc[4 - 1] + s[n - 4 + 1])
    BY <1>5, <2>1
  <2>3. n - 1 + 1 = n /\ n - 2 + 1 = n - 1 /\ n - 3 + 1 = n - 2 /\ (n = 4 => n - 4 + 1 = n - 3)
    OBVIOUS
  <2> QED BY <2>2, <2>3
<1>8. CASE n = 3
  <2>1. acc[1] = s[3] /\ acc[2] = 256 * s[3] + s[2] /\ acc[3] = 256 * (256 * s[3] + s[2]) + s[1]
    BY <1>5, <1>6, <1>7, <1>8
  <2> QED BY <1>4, <1>6, <1>8, <2>1
<1>9. CASE n = 4
  <2>1. acc[1] = s[4] /\ acc[2] = 256 * s[4] + s[3] /\ acc[3] = 256 * (256 * s[4] + s[3]) + s[2]
        /\ acc[4] = 256 * (256 * (256 * s[4] + s[3]) + s[2]) + s[1]
    BY <1>5, <1>6, <1>7, <1>9
  <2>2. s[1] \in Int /\ s[2] \in Int /\ s[3] \in Int /\ s[4] \in Int
    BY <1>6, <1>9
  <2>3. Unsigned(s) = acc[4]
    BY <1>4, <1>9
  <2>4. 256 * (256 * (256 * s[4] + s[3]) + s[2]) + s[1]
        = s[1] + 256 * s[2] + 65536 * s[3] + 16777216 * s[4]
    <3>1. Horner(s[1], s[2], s[3], s[4])
      BY <2>2, HornerHolds
    <3> QED BY ONLY <3>1, SMT DEF Horner
  <2> QED BY <1>9, <2>1, <2>3, <2>4
<1> QED BY <1>8, <1>9

(* What is read of the tuple.                                              *)
Fetched(p, n) == /\ Bytes(p, n) \in Seq(Byte) /\ Len(Bytes(p, n)) = n
                 /\ \A i \in 1..n : Bytes(p, n)[i] = tuple.bytes[p + i]

LEMMA BytesFetched ==
  ASSUME tuple.bytes \in Seq(Byte), NEW p \in Nat, NEW n \in Nat, p + n <= Len(tuple.bytes)
  PROVE  Fetched(p, n)
<1> DEFINE b == tuple.bytes
           s == SubSeq(b, p + 1, p + n)
<1>1. p + 1 \in Int /\ p + n \in Int /\ Len(b) \in Nat /\ p + n <= Len(b)
  OBVIOUS
<1>2. \A i \in (p + 1)..(p + n) : b[i] \in Byte
  <2>1. \A i \in 1..Len(b) : b[i] \in Byte
    BY ElementOfSeq
  <2> HIDE DEF b
  <2> QED BY <1>1, <2>1
<1> HIDE DEF b
<1>3. /\ s \in Seq(Byte) /\ Len(s) = IF p + 1 <= p + n THEN (p + n) - (p + 1) + 1 ELSE 0
      /\ \A i \in 1..((p + n) - (p + 1) + 1) : s[i] = b[(p + 1) + i - 1]
  BY <1>1, <1>2, SubSeqProperties
<1>4. Bytes(p, n) = s
  BY DEF Bytes, b
<1> HIDE DEF s
<1>5. Len(s) = n
  BY <1>3
<1>6. \A i \in 1..n : s[i] = b[p + i]
  <2> SUFFICES ASSUME NEW i \in 1..n PROVE s[i] = b[p + i]
    OBVIOUS
  <2>1. i \in 1..((p + n) - (p + 1) + 1) /\ (p + 1) + i - 1 = p + i
    OBVIOUS
  <2> QED BY <1>3, <2>1
<1> QED BY <1>3, <1>4, <1>5, <1>6 DEF Fetched, b

LEMMA BytesWithin ==
  ASSUME NEW s, NEW p, Within(s, p, tuple.bytes)
  PROVE  Bytes(p, Len(s)) = s /\ Fetched(p, Len(s))
<1>1. tuple.bytes \in Seq(Byte) /\ s \in Seq(Byte) /\ p \in Nat /\ Len(s) \in Nat
      /\ p + Len(s) <= Len(tuple.bytes) /\ \A i \in 1..Len(s) : tuple.bytes[p + i] = s[i]
  BY DEF Within
<1>2. Fetched(p, Len(s))
  BY <1>1, BytesFetched
<1> DEFINE b == Bytes(p, Len(s))
<1>3. b \in Seq(Byte) /\ Len(b) = Len(s) /\ \A i \in 1..Len(b) : b[i] = s[i]
  BY <1>1, <1>2 DEF Fetched
<1> HIDE DEF b
<1>4. b = s
  BY <1>1, <1>3, SeqEqual
<1> QED BY <1>2, <1>4 DEF b

(* The length in a word of four bytes, above its two low bits, and the     *)
(* length of the value that has been packed, in the word behind it.        *)
LongLength(at) == Unsigned(SubSeq(Bytes(at, 4), 2, 4)) * 64 + Bytes(at, 1)[1] \div 4
RawLength(at) == Unsigned(Append(Bytes(at + 4, 3), Bytes(at + 7, 1)[1] % 64))

LEMMA ByteNat == \A x \in Byte : x \in Nat /\ x \in Int
BY DEF Byte

LEMMA FirstFetched ==
  ASSUME tuple.bytes \in Seq(Byte), NEW p \in Nat, p + 1 <= Len(tuple.bytes)
  PROVE  Bytes(p, 1)[1] = tuple.bytes[p + 1] /\ tuple.bytes[p + 1] \in Byte
<1>1. Fetched(p, 1)
  BY BytesFetched
<1>2. 1 \in 1..1 /\ p + 1 \in 1..Len(tuple.bytes)
  OBVIOUS
<1>3. tuple.bytes[p + 1] \in Byte
  BY <1>2, ElementOfSeq
<1> QED BY <1>1, <1>2, <1>3 DEF Fetched

LEMMA LongLengthRead ==
  ASSUME tuple.bytes \in Seq(Byte), NEW at \in Nat, at + 4 <= Len(tuple.bytes)
  PROVE  /\ LongLength(at) = (tuple.bytes[at + 2] + 256 * tuple.bytes[at + 3] + 65536 * tuple.bytes[at + 4]) * 64
                             + tuple.bytes[at + 1] \div 4
         /\ LongLength(at) \in Nat
<1> DEFINE b == tuple.bytes
           f == Bytes(at, 4)
           s == SubSeq(f, 2, 4)
<1>1. Fetched(at, 4)
  BY BytesFetched
<1>2. f \in Seq(Byte) /\ Len(f) = 4 /\ f[2] = b[at + 2] /\ f[3] = b[at + 3] /\ f[4] = b[at + 4]
  <2>1. 2 \in 1..4 /\ 3 \in 1..4 /\ 4 \in 1..4
    OBVIOUS
  <2> HIDE DEF b
  <2>2. \A i \in 1..4 : f[i] = b[at + i]
    BY <1>1 DEF Fetched, b
  <2> HIDE DEF f
  <2>3. f \in Seq(Byte) /\ Len(f) = 4
    BY <1>1 DEF Fetched, f
  <2> QED BY <2>1, <2>2, <2>3
<1>3. f[2] \in Byte /\ f[3] \in Byte /\ f[4] \in Byte
  <2>1. 2 \in 1..Len(f) /\ 3 \in 1..Len(f) /\ 4 \in 1..Len(f)
    BY <1>2
  <2> HIDE DEF f, b
  <2> QED BY <1>2, <2>1, ElementOfSeq
<1> HIDE DEF f, b
<1>4. s \in Seq(Byte) /\ Len(s) = 3 /\ s[1] = f[2] /\ s[2] = f[3] /\ s[3] = f[4]
  <2>1. \A i \in 2..4 : f[i] \in Byte
    <3>1. \A i \in 2..4 : i = 2 \/ i = 3 \/ i = 4
      OBVIOUS
    <3> QED BY <1>3, <3>1
  <2>2. /\ s \in Seq(Byte) /\ Len(s) = IF 2 <= 4 THEN 4 - 2 + 1 ELSE 0
        /\ \A i \in 1..(4 - 2 + 1) : s[i] = f[2 + i - 1]
    BY <2>1, SubSeqProperties
  <2> HIDE DEF s
  <2>3. Len(s) = 3 /\ \A i \in 1..3 : s[i] = f[i + 1]
    BY <2>2
  <2>4. 1 \in 1..3 /\ 2 \in 1..3 /\ 3 \in 1..3 /\ 1 + 1 = 2 /\ 2 + 1 = 3 /\ 3 + 1 = 4
    OBVIOUS
  <2> QED BY <2>2, <2>3, <2>4
<1> HIDE DEF s
<1>5. Unsigned(s) = f[2] + 256 * f[3] + 65536 * f[4]
  <2>1. 3 \in 3..4 /\ 3 # 4
    OBVIOUS
  <2>2. Unsigned(s) = s[1] + 256 * s[2] + 65536 * s[3] + IF 3 = 4 THEN 16777216 * s[4] ELSE 0
    BY <1>4, <2>1, UnsignedUnfolded
  <2>3. f[2] \in Int /\ f[3] \in Int /\ f[4] \in Int
    BY <1>3, ByteNat
  <2>4. s[1] = f[2] /\ s[2] = f[3] /\ s[3] = f[4]
    BY <1>4
  <2> QED BY ONLY <2>1, <2>2, <2>3, <2>4
<1>6. Bytes(at, 1)[1] = b[at + 1] /\ b[at + 1] \in Byte
  <2>1. at + 1 <= Len(tuple.bytes)
    OBVIOUS
  <2> QED BY <2>1, FirstFetched DEF b
<1>7. LongLength(at) = (f[2] + 256 * f[3] + 65536 * f[4]) * 64 + b[at + 1] \div 4
  BY <1>5, <1>6 DEF LongLength, s, f
<1>8. LongLength(at) \in Nat
  <2>1. f[2] \in Nat /\ f[3] \in Nat /\ f[4] \in Nat /\ b[at + 1] \in Nat
    BY <1>3, <1>6, ByteNat
  <2>2. f[2] + 256 * f[3] + 65536 * f[4] \in Nat /\ b[at + 1] \div 4 \in Nat
    <3>1. f[2] + 256 * f[3] + 65536 * f[4] \in Nat
      BY ONLY <2>1
    <3>2. b[at + 1] \div 4 \in Nat
      BY ONLY <2>1
    <3> QED BY <3>1, <3>2
  <2> QED BY <1>7, <2>2
<1> QED BY <1>2, <1>7, <1>8 DEF b

LEMMA WordRead ==
  ASSUME NEW n \in Nat, n < 2^32, NEW at, Within(Word(n), at, tuple.bytes)
  PROVE  /\ LongLength(at) = n \div 4 /\ Bytes(at, 1)[1] = n % 256 /\ tuple.bytes[at + 1] = n % 256
         /\ at \in Nat /\ at + 4 <= Len(tuple.bytes)
<1> DEFINE b == tuple.bytes
           w == Word(n)
<1>1. w \in Seq(Byte) /\ Len(w) = 4
  BY WordBytes
<1>2. w[1] = n % 256 /\ w[2] = (n \div 256) % 256 /\ w[3] = (n \div 65536) % 256 /\ w[4] = n \div 16777216
  BY DEF Word
<1> HIDE DEF w, b
<1>3. b \in Seq(Byte) /\ at \in Nat /\ at + 4 <= Len(b) /\ \A i \in 1..4 : b[at + i] = w[i]
  BY <1>1 DEF Within, b, w
<1>4. b[at + 1] = w[1] /\ b[at + 2] = w[2] /\ b[at + 3] = w[3] /\ b[at + 4] = w[4]
  <2>1. 1 \in 1..4 /\ 2 \in 1..4 /\ 3 \in 1..4 /\ 4 \in 1..4
    OBVIOUS
  <2> QED BY <1>3, <2>1
<1>5. LongLength(at) = (b[at + 2] + 256 * b[at + 3] + 65536 * b[at + 4]) * 64 + b[at + 1] \div 4
  BY <1>3, LongLengthRead DEF b
<1>6. (((n \div 256) % 256) + 256 * ((n \div 65536) % 256) + 65536 * (n \div 16777216)) * 64
      + ((n % 256) \div 4) = n \div 4
  OBVIOUS
<1>7. LongLength(at) = n \div 4
  BY <1>2, <1>4, <1>5, <1>6
<1>8. Bytes(at, 1)[1] = b[at + 1]
  <2>1. at + 1 <= Len(b)
    BY <1>3
  <2> QED BY <1>3, <2>1, FirstFetched DEF b
<1> QED BY <1>2, <1>3, <1>4, <1>7, <1>8 DEF b

LEMMA RawRead ==
  ASSUME NEW n \in 0..(2^30 - 1), NEW at \in Nat, Within(Word(n), at + 4, tuple.bytes)
  PROVE  /\ RawLength(at) = n /\ Bytes(at + 7, 1)[1] \div 64 < 2 /\ at + 8 <= Len(tuple.bytes)
<1> DEFINE b == tuple.bytes
           w == Word(n)
           f == Bytes(at + 4, 3)
           s == Append(f, b[at + 8] % 64)
<1>1. w \in Seq(Byte) /\ Len(w) = 4
  <2>1. n \in Nat /\ n < 2^32
    OBVIOUS
  <2> QED BY <2>1, WordBytes
<1>2. w[1] = n % 256 /\ w[2] = (n \div 256) % 256 /\ w[3] = (n \div 65536) % 256 /\ w[4] = n \div 16777216
  BY DEF Word
<1> HIDE DEF w, b
<1>3. b \in Seq(Byte) /\ (at + 4) + 4 <= Len(b) /\ \A i \in 1..4 : b[at + 4 + i] = w[i]
  BY <1>1 DEF Within, b, w
<1>4. b[at + 5] = w[1] /\ b[at + 6] = w[2] /\ b[at + 7] = w[3] /\ b[at + 8] = w[4]
  <2>1. 1 \in 1..4 /\ 2 \in 1..4 /\ 3 \in 1..4 /\ 4 \in 1..4
        /\ at + 4 + 1 = at + 5 /\ at + 4 + 2 = at + 6 /\ at + 4 + 3 = at + 7 /\ at + 4 + 4 = at + 8
    OBVIOUS
  <2> QED BY <1>3, <2>1
<1>5. Fetched(at + 4, 3)
  <2>1. at + 4 \in Nat /\ 3 \in Nat /\ (at + 4) + 3 <= Len(b)
    BY <1>3
  <2> QED BY <1>3, <2>1, BytesFetched DEF b
<1>6. f \in Seq(Byte) /\ Len(f) = 3 /\ f[1] = w[1] /\ f[2] = w[2] /\ f[3] = w[3]
  <2>1. 1 \in 1..3 /\ 2 \in 1..3 /\ 3 \in 1..3
        /\ at + 4 + 1 = at + 5 /\ at + 4 + 2 = at + 6 /\ at + 4 + 3 = at + 7
    OBVIOUS
  <2>2. f \in Seq(Byte) /\ Len(f) = 3 /\ \A i \in 1..3 : f[i] = b[at + 4 + i]
    BY <1>5 DEF Fetched, b
  <2> HIDE DEF f
  <2> QED BY <1>4, <2>1, <2>2
<1>7. Bytes(at + 7, 1)[1] = b[at + 8]
  <2>1. at + 7 \in Nat /\ (at + 7) + 1 <= Len(b) /\ (at + 7) + 1 = at + 8
    BY <1>3
  <2> QED BY <1>3, <2>1, FirstFetched DEF b
<1>8. RawLength(at) = Unsigned(s)
  BY <1>7 DEF RawLength
<1>9. w[4] \in 0..63 /\ w[4] % 64 = w[4] /\ w[4] \div 64 < 2
  BY <1>2
<1> HIDE DEF f
<1>10. s \in Seq(Byte) /\ Len(s) = 4 /\ s[1] = f[1] /\ s[2] = f[2] /\ s[3] = f[3] /\ s[4] = w[4]
  <2>1. b[at + 8] % 64 = w[4] /\ w[4] \in Byte
    BY <1>4, <1>9 DEF Byte
  <2> DEFINE x == b[at + 8] % 64
  <2>2. x \in Byte /\ x = w[4] /\ s = Append(f, x)
    BY <2>1
  <2> HIDE DEF x, s
  <2>3. s \in Seq(Byte) /\ Len(s) = Len(f) + 1 /\ s[Len(f) + 1] = x /\ \A i \in 1..Len(f) : s[i] = f[i]
    BY <1>6, <2>2, AppendProperties
  <2>4. 1 \in 1..Len(f) /\ 2 \in 1..Len(f) /\ 3 \in 1..Len(f) /\ Len(f) + 1 = 4
    BY <1>6
  <2> QED BY <2>2, <2>3, <2>4
<1> HIDE DEF s
<1>11. Unsigned(s) = s[1] + 256 * s[2] + 65536 * s[3] + 16777216 * s[4]
  <2>1. 4 \in 3..4
    OBVIOUS
  <2>2. Unsigned(s) = s[1] + 256 * s[2] + 65536 * s[3] + IF 4 = 4 THEN 16777216 * s[4] ELSE 0
    BY <1>10, <2>1, UnsignedUnfolded
  <2> QED BY <2>2
<1>12. (n % 256) + 256 * ((n \div 256) % 256) + 65536 * ((n \div 65536) % 256) + 16777216 * (n \div 16777216) = n
  OBVIOUS
<1>13. RawLength(at) = n
  BY <1>2, <1>6, <1>8, <1>10, <1>11, <1>12
<1> QED BY <1>3, <1>4, <1>7, <1>9, <1>13 DEF b

-------------------------------------------------------------------------------
(* Each form of a column is read from behind the columns in front of it.   *)
AtColumn(data, c) ==
  /\ data \in Seq(Byte) /\ IsColumn(c) /\ c # NullColumn
  /\ Within(Stored(data, c), 0, tuple.bytes)
  /\ offset = Len(data) /\ size = Len(tuple.bytes) - offset
TakenAs(data, c) == Callback(c.type) = Used(Len(Stored(data, c)) - Len(data), Text(c))

LEMMA InTuple ==
  ASSUME NEW w, Within(w, 0, tuple.bytes), NEW s, NEW p, Within(s, p, w)
  PROVE  Within(s, p, tuple.bytes)
<1>1. p \in Nat /\ p = 0 + p
  BY DEF Within
<1> QED BY <1>1, WithinWithin

LEMMA ReadFixed ==
  ASSUME NEW data, NEW c, AtColumn(data, c), c.form = "fixed"
  PROVE  TakenAs(data, c)
<1> DEFINE w == Stored(data, c)
           t == FixedType(c.type)
           delta == Padding(Len(data), t.align)
<1>1. c.type \in FixedTypes /\ c.bytes \in Seq(Byte) /\ Len(c.bytes) = t.width
  BY DEF IsColumn, AtColumn, Byte
<1>2. AfterFixed(w, data, c)
  BY StoredFixed DEF AtColumn
<1>3. /\ FixedSizes(t) /\ Within(c.bytes, Len(data) + delta, w)
      /\ Len(w) = Len(data) + delta + t.width
  BY <1>2 DEF AfterFixed
<1> HIDE DEF w, delta, t
<1>4. Within(c.bytes, Len(data) + delta, tuple.bytes)
  BY <1>3, InTuple DEF AtColumn, w
<1>5. Bytes(Len(data) + delta, t.width) = c.bytes
  BY <1>1, <1>4, BytesWithin
<1>6. /\ Len(data) \in Nat /\ delta \in Nat /\ t.width \in Nat /\ Len(tuple.bytes) \in Nat
      /\ Len(data) + delta + t.width <= Len(tuple.bytes)
  <2>1. t.align \in {1, 2, 4, 8} /\ t.width \in Nat /\ data \in Seq(Byte)
    BY <1>3 DEF FixedSizes, AtColumn
  <2>2. Len(data) \in Nat /\ delta \in Nat
    BY <2>1, PaddingNat DEF delta
  <2>3. Len(w) <= Len(tuple.bytes) /\ Len(tuple.bytes) \in Nat
    BY DEF AtColumn, Within, w
  <2> QED BY <1>3, <2>1, <2>2, <2>3
<1>7. ~(size < delta + t.width)
  BY <1>6 DEF AtColumn
<1>8. DecodeFixed(c.type) = Used(delta + t.width, FixedText(c.type, c.bytes))
  <2>1. offset = Len(data)
    BY DEF AtColumn
  <2> QED BY <1>5, <1>7, <2>1 DEF DecodeFixed, t, delta
<1>9. Callback(c.type) = DecodeFixed(c.type)
  BY <1>1 DEF Callback, FixedTypes, Varlena
<1>10. Text(c) = FixedText(c.type, c.bytes)
  <2>1. c # NullColumn
    BY DEF AtColumn
  <2>2. CASE c.type = "char"
    <3>1. Text(c) = Encode(Chars(c.bytes))
      BY <2>1, <2>2 DEF Text, Value, Varlena
    <3> QED BY <2>2, <3>1 DEF FixedText
  <2>3. CASE c.type = "name"
    <3>1. Text(c) = Encode(CString(c.bytes))
      BY <2>1, <2>3 DEF Text, Value, Varlena
    <3> QED BY <2>3, <3>1 DEF FixedText
  <2>4. CASE c.type \notin {"char", "name"}
    BY <1>1, <2>1, <2>4 DEF Text, Value, Varlena, FixedTypes
  <2> QED BY <2>2, <2>3, <2>4
<1>11. Len(w) - Len(data) = delta + t.width
  BY <1>3, <1>6
<1> QED BY <1>8, <1>9, <1>10, <1>11 DEF TakenAs, w

(* What parse_value makes of the bytes of a sound string or numeric.       *)
LEMMA ParsesSound ==
  ASSUME NEW c, IsColumn(c), c # NullColumn, c.form \in {"short", "plain", "packed"},
         NEW value, value = IF c.form = "packed" THEN Decompress(c.bytes) ELSE c.bytes,
         NEW n, n = Len(value), NEW used
  PROVE  ParseValue(c.type, value, n, used) = Used(used, Text(c)) /\ c.type \in Varlena
<1>1. c.type \in Varlena /\ value \in Seq(0..255) /\ Sound(c.type, value)
  BY DEF IsColumn
<1>2. n \in Nat
  BY <1>1
<1>3. CASE c.type = "string"
  <2>1. Text(c) = Encode(Chars(value))
    BY <1>3 DEF Text, Value, Varlena
  <2>2. ~(n < 0)
    BY <1>2
  <2> QED BY <1>1, <1>3, <2>1, <2>2 DEF ParseValue
<1>4. CASE c.type = "numeric"
  <2>1. Text(c) = <<NumericText(value)>>
    BY <1>4 DEF Text, Value, Varlena
  <2> DEFINE h == HeaderSize(Unsigned(SubSeq(value, 1, 2)))
  <2>2. n >= 2 /\ n >= h /\ NumericPrints(value)
    BY <1>1, <1>4 DEF Sound
  <2>3. h \in {2, 4}
    BY DEF HeaderSize
  <2> HIDE DEF h
  <2>4. ~(n < 0) /\ n \notin {0, 1} /\ ~(n < h)
    <3>1. n >= 2 /\ n >= h
      BY <2>2
    <3> QED BY ONLY <1>2, <2>3, <3>1
  <2> QED BY <1>1, <1>4, <2>1, <2>2, <2>4 DEF ParseValue, h
<1> QED BY <1>1, <1>3, <1>4 DEF Varlena

LEMMA ReadShort ==
  ASSUME NEW data, NEW c, AtColumn(data, c), c.form = "short"
  PROVE  TakenAs(data, c)
<1> DEFINE w == Stored(data, c)
           n == Len(c.bytes)
           first == tuple.bytes[offset + 1]
           d == <<2 * (n + 1) + 1>>
<1>1. AfterShort(w, data, c)
  BY StoredShort DEF AtColumn
<1>2. n \in Nat /\ n < 127
  <2>1. c.bytes \in Seq(0..255) /\ n < 127
    BY DEF IsColumn, AtColumn
  <2> QED BY <2>1
<1>3. Within(d, Len(data), w) /\ Within(c.bytes, Len(data) + 1, w) /\ Len(w) = Len(data) + 1 + n
  BY <1>1 DEF AfterShort
<1> HIDE DEF w, n, d
<1>4. Within(d, Len(data), tuple.bytes) /\ Within(c.bytes, Len(data) + 1, tuple.bytes)
  BY <1>3, InTuple DEF AtColumn, w
<1>5. first = 2 * (n + 1) + 1
  <2>1. 1 \in 1..Len(d) /\ d[1] = 2 * (n + 1) + 1
    BY DEF d
  <2>2. tuple.bytes[Len(data) + 1] = d[1]
    BY <1>4, <2>1 DEF Within
  <2> QED BY <2>1, <2>2 DEF AtColumn
<1> HIDE DEF first
<1>6. first # 1 /\ first % 2 = 1 /\ first \div 2 = n + 1
  BY <1>2, <1>5
<1>7. Bytes(offset + 1, n) = c.bytes
  BY <1>4, BytesWithin DEF AtColumn, n
<1>8. Len(data) \in Nat /\ Len(w) <= Len(tuple.bytes) /\ Len(tuple.bytes) \in Nat /\ Len(w) \in Nat
  BY DEF AtColumn, Within, w
<1>9. ~(n + 1 > size)
  <2>1. offset = Len(data) /\ size = Len(tuple.bytes) - offset
    BY DEF AtColumn
  <2> QED BY <1>2, <1>3, <1>8, <2>1
<1>10. ParseValue(c.type, c.bytes, n, n + 1) = Used(n + 1, Text(c)) /\ c.type \in Varlena
  BY ParsesSound DEF AtColumn, n
<1>11. Short(c.type) = Used(n + 1, Text(c))
  <2>1. (n + 1) - 1 = n
    BY <1>2
  <2>2. Short(c.type) = IF n + 1 > size THEN Failed
                        ELSE ParseValue(c.type, Bytes(offset + 1, (n + 1) - 1), (n + 1) - 1, n + 1)
    BY <1>6 DEF Short, first
  <2> QED BY <1>7, <1>9, <1>10, <2>1, <2>2
<1>12. Callback(c.type) = Short(c.type)
  <2>1. Callback(c.type) = ExtractData(c.type)
    BY <1>10 DEF Callback, Varlena
  <2>2. ExtractData(c.type) = Short(c.type)
    BY <1>6 DEF ExtractData, first
  <2> QED BY <2>1, <2>2
<1>13. Len(w) - Len(data) = n + 1
  BY <1>2, <1>3, <1>8
<1> QED BY <1>11, <1>12, <1>13 DEF TakenAs, w

(* A long value is not mistaken for a short one: its padding is zero, and  *)
(* so is the lowest bit of its first byte.                                 *)
LEMMA LongIsLong ==
  ASSUME NEW data \in Seq(Byte), NEW type \in Varlena, Padded(tuple.bytes, data, 4), offset = Len(data),
         NEW at, at = offset + Padding(offset, 4),
         tuple.bytes[at + 1] % 2 = 0, size = Len(tuple.bytes) - offset
  PROVE  /\ Callback(type) = Long(type, Padding(offset, 4))
         /\ offset \in Nat /\ Padding(offset, 4) \in Nat
<1> DEFINE pad == Padding(offset, 4)
           first == tuple.bytes[offset + 1]
<1>1. offset \in Nat /\ pad \in Nat /\ Len(tuple.bytes) \in Nat
  <2>1. offset \in Nat /\ pad \in Nat
    BY PaddingNat
  <2>2. Len(tuple.bytes) \in Nat
    BY DEF Padded, Within
  <2> QED BY <2>1, <2>2
<1>2. offset + pad <= Len(tuple.bytes) /\ \A i \in 1..pad : tuple.bytes[offset + i] = 0
  BY DEF Padded
<1> HIDE DEF pad
<1>3. first % 2 = 0
  <2>1. CASE pad = 0
    <3>1. at = offset
      BY <1>1, <2>1 DEF pad
    <3> QED BY <3>1
  <2>2. CASE pad # 0
    <3>1. 1 \in 1..pad
      BY <1>1, <2>2
    <3>2. first = 0
      BY <1>2, <3>1
    <3> QED BY <3>2
  <2> QED BY <2>1, <2>2
<1>4. first # 1 /\ first % 2 # 1
  BY <1>3
<1>5. ~(pad > size)
  BY <1>1, <1>2
<1>6. ExtractData(type) = IF pad > size THEN Outside ELSE Long(type, pad)
  BY <1>4 DEF ExtractData, first, pad
<1>7. Callback(type) = ExtractData(type)
  BY DEF Callback, Varlena
<1> QED BY <1>1, <1>5, <1>6, <1>7 DEF pad

LEMMA ReadPlain ==
  ASSUME NEW data, NEW c, AtColumn(data, c), c.form = "plain"
  PROVE  TakenAs(data, c)
<1> DEFINE w == Stored(data, c)
           n == Len(c.bytes)
           word == Word(4 * (n + 4))
           pad == Padding(offset, 4)
           at == offset + pad
<1>1. AfterPlain(w, data, c) /\ n + 4 < 2^30 /\ data \in Seq(Byte) /\ offset = Len(data)
  BY StoredPlain DEF AtColumn
<1>2. n \in Nat
  <2>1. c.bytes \in Seq(0..255)
    BY DEF IsColumn, AtColumn
  <2> QED BY <2>1
<1>3. /\ Padded(w, data, 4) /\ Within(word, at, w) /\ Within(c.bytes, at + 4, w)
      /\ Len(w) = at + 4 + n
  BY <1>1 DEF AfterPlain
<1> HIDE DEF w, n, word
<1>4. /\ Padded(tuple.bytes, data, 4)
      /\ Within(word, at, tuple.bytes) /\ Within(c.bytes, at + 4, tuple.bytes)
  <2>1. Within(w, 0, tuple.bytes)
    BY DEF AtColumn, w
  <2>2. Padded(tuple.bytes, data, 4)
    BY <1>1, <1>3, <2>1, PaddedLonger
  <2> HIDE DEF at
  <2>3. Within(word, at, tuple.bytes)
    BY <1>3, <2>1, InTuple
  <2>4. Within(c.bytes, at + 4, tuple.bytes)
    BY <1>3, <2>1, InTuple
  <2> QED BY <2>2, <2>3, <2>4
<1> DEFINE number == 4 * (n + 4)
<1>5. number \in Nat /\ number < 2^32 /\ number \div 4 = n + 4 /\ (number % 256) % 4 = 0
      /\ (number % 256) % 2 = 0
  BY <1>1, <1>2
<1>6. /\ LongLength(at) = n + 4 /\ Bytes(at, 1)[1] % 4 = 0 /\ tuple.bytes[at + 1] % 2 = 0
  <2>1. Within(Word(number), at, tuple.bytes)
    BY <1>4 DEF word
  <2> HIDE DEF number, at
  <2>2. LongLength(at) = number \div 4 /\ Bytes(at, 1)[1] = number % 256
        /\ tuple.bytes[at + 1] = number % 256
    BY <1>5, <2>1, WordRead
  <2> QED BY <1>5, <2>2
<1>7. ParseValue(c.type, c.bytes, n, pad + (n + 4)) = Used(pad + (n + 4), Text(c)) /\ c.type \in Varlena
  <2> HIDE DEF pad
  <2> QED BY ParsesSound DEF AtColumn, n
<1>8. size = Len(tuple.bytes) - offset /\ Len(w) <= Len(tuple.bytes)
      /\ Len(w) \in Nat /\ Len(tuple.bytes) \in Nat
  BY DEF AtColumn, Within, w
<1>9. Callback(c.type) = Long(c.type, pad) /\ offset \in Nat /\ pad \in Nat
  BY <1>1, <1>4, <1>6, <1>7, <1>8, LongIsLong
<1>10. Bytes(at + 4, n) = c.bytes
  BY <1>4, BytesWithin DEF n
<1> HIDE DEF pad
<1>11. size - pad >= 4 /\ n + 4 <= size - pad /\ (n + 4) - 4 = n /\ Len(w) - Len(data) = pad + (n + 4)
  BY <1>1, <1>2, <1>3, <1>8, <1>9
<1>12. Long(c.type, pad) = ParseValue(c.type, c.bytes, n, pad + (n + 4))
  <2>1. Long(c.type, pad) = ParseValue(c.type, Bytes(at + 4, (n + 4) - 4), (n + 4) - 4, pad + (n + 4))
    <3> DEFINE claimed == LongLength(at)
    <3>1. size - pad >= 4 /\ claimed <= size - pad /\ Bytes(at, 1)[1] % 4 = 0 /\ claimed = n + 4
      BY <1>6, <1>11
    <3>2. ~(size - pad < 4) /\ ~(claimed > size - pad)
      BY <1>2, <1>8, <1>9, <3>1
    <3>3. Long(c.type, pad) = ParseValue(c.type, Bytes(at + 4, claimed - 4), claimed - 4, pad + claimed)
      BY <3>1, <3>2 DEF Long, LongLength
    <3> QED BY <3>1, <3>3
  <2> QED BY <1>10, <1>11, <2>1
<1> QED BY <1>7, <1>9, <1>11, <1>12 DEF TakenAs, w

LEMMA ReadPacked ==
  ASSUME NEW data, NEW c, AtColumn(data, c), c.form = "packed"
  PROVE  TakenAs(data, c)
<1> DEFINE w == Stored(data, c)
           n == Len(c.bytes)
           value == Decompress(c.bytes)
           m == Len(value)
           word == Word(4 * (n + 8) + 2)
           pad == Padding(offset, 4)
           at == offset + pad
<1>1. AfterPacked(w, data, c) /\ n + 8 < 2^30 /\ data \in Seq(Byte) /\ offset = Len(data)
      /\ m \in 0..(2^30 - 1)
  BY StoredPacked DEF AtColumn
<1>2. n \in Nat
  <2>1. c.bytes \in Seq(0..255)
    BY DEF IsColumn, AtColumn
  <2> QED BY <2>1
<1>3. /\ Padded(w, data, 4) /\ Within(word, at, w) /\ Within(c.bytes, at + 8, w)
      /\ Within(Word(m), at + 4, w) /\ Len(w) = at + 8 + n
  BY <1>1 DEF AfterPacked
<1> HIDE DEF w, n, word, m, value
<1>4. /\ Padded(tuple.bytes, data, 4) /\ Within(Word(m), at + 4, tuple.bytes)
      /\ Within(word, at, tuple.bytes) /\ Within(c.bytes, at + 8, tuple.bytes)
  <2>1. Within(w, 0, tuple.bytes)
    BY DEF AtColumn, w
  <2>2. Padded(tuple.bytes, data, 4)
    BY <1>1, <1>3, <2>1, PaddedLonger
  <2> HIDE DEF at
  <2>3. Within(word, at, tuple.bytes) /\ Within(Word(m), at + 4, tuple.bytes)
    BY <1>3, <2>1, InTuple
  <2>4. Within(c.bytes, at + 8, tuple.bytes)
    BY <1>3, <2>1, InTuple
  <2> QED BY <2>2, <2>3, <2>4
<1> DEFINE number == 4 * (n + 8) + 2
<1>5. number \in Nat /\ number < 2^32 /\ number \div 4 = n + 8 /\ (number % 256) % 4 = 2
      /\ (number % 256) % 2 = 0
  BY <1>1, <1>2
<1>6. /\ LongLength(at) = n + 8 /\ Bytes(at, 1)[1] % 4 = 2 /\ tuple.bytes[at + 1] % 2 = 0 /\ at \in Nat
  <2>1. Within(Word(number), at, tuple.bytes)
    BY <1>4 DEF word
  <2> HIDE DEF number, at
  <2>2. LongLength(at) = number \div 4 /\ Bytes(at, 1)[1] = number % 256 /\ at \in Nat
        /\ tuple.bytes[at + 1] = number % 256
    BY <1>5, <2>1, WordRead
  <2> QED BY <1>5, <2>2
<1>7. ParseValue(c.type, value, m, pad + (n + 8)) = Used(pad + (n + 8), Text(c)) /\ c.type \in Varlena
  <2> HIDE DEF pad
  <2>1. value = IF c.form = "packed" THEN Decompress(c.bytes) ELSE c.bytes
    BY DEF value
  <2> QED BY <2>1, ParsesSound DEF AtColumn, m
<1>8. size = Len(tuple.bytes) - offset /\ Len(w) <= Len(tuple.bytes)
      /\ Len(w) \in Nat /\ Len(tuple.bytes) \in Nat
  BY DEF AtColumn, Within, w
<1>9. Callback(c.type) = Long(c.type, pad) /\ offset \in Nat /\ pad \in Nat
  BY <1>1, <1>4, <1>6, <1>7, <1>8, LongIsLong
<1>10. Bytes(at + 8, n) = c.bytes
  BY <1>4, BytesWithin DEF n
<1>11. RawLength(at) = m /\ Bytes(at + 7, 1)[1] \div 64 < 2
  <2> HIDE DEF at
  <2> QED BY <1>1, <1>4, <1>6, RawRead
<1> HIDE DEF pad
<1>12. size - pad >= 8 /\ n + 8 <= size - pad /\ (n + 8) - 8 = n /\ Len(w) - Len(data) = pad + (n + 8)
  BY <1>1, <1>2, <1>3, <1>8, <1>9
<1>13. Long(c.type, pad) = ParseValue(c.type, value, m, pad + (n + 8))
  <2> DEFINE claimed == LongLength(at)
             payload == Bytes(at + 8, claimed - 8)
             raw == RawLength(at)
  <2>1. size - pad >= 8 /\ claimed <= size - pad /\ Bytes(at, 1)[1] % 4 = 2 /\ claimed = n + 8 /\ claimed >= 8
        /\ Bytes(at, 1)[1] % 4 # 0
    BY <1>2, <1>6, <1>12
  <2>2. ~(size - pad < 4) /\ ~(claimed > size - pad)
    BY <1>2, <1>8, <1>9, <2>1
  <2>3. payload = c.bytes
    BY <1>10, <1>12, <2>1
  <2>4. Len(Decompress(payload)) = raw
    BY <1>11, <2>3 DEF m, value
  <2>5. Long(c.type, pad) = IF Bytes(at + 7, 1)[1] \div 64 < 2 /\ claimed >= 8 /\ Len(Decompress(payload)) = raw
                              THEN ParseValue(c.type, Decompress(payload), raw, pad + claimed)
                              ELSE Used(pad + claimed, <<[remark |-> "corrupted"]>>)
    BY <2>1, <2>2 DEF Long, LongLength, RawLength
  <2>6. Long(c.type, pad) = ParseValue(c.type, Decompress(payload), raw, pad + claimed)
    BY <1>11, <2>1, <2>4, <2>5
  <2> QED BY <1>11, <2>1, <2>3, <2>6 DEF value
<1> QED BY <1>7, <1>9, <1>12, <1>13 DEF TakenAs, w

PartOf(q, n, s, i, j) ==
  Bytes(q, n) = SubSeq(s, i, j) /\ SubSeq(s, i, j) \in Seq(Byte) /\ Len(SubSeq(s, i, j)) = n

LEMMA PartRead ==
  ASSUME NEW s, NEW p, Within(s, p, tuple.bytes), NEW i \in 1..Len(s), NEW j \in i..Len(s),
         NEW q, q = p + i - 1, NEW n, n = j - i + 1
  PROVE  PartOf(q, n, s, i, j)
<1> DEFINE b == tuple.bytes
           u == Bytes(q, n)
           v == SubSeq(s, i, j)
<1>1. /\ s \in Seq(Byte) /\ b \in Seq(Byte) /\ p \in Nat /\ Len(s) \in Nat /\ Len(b) \in Nat
      /\ p + Len(s) <= Len(b) /\ \A k \in 1..Len(s) : b[p + k] = s[k]
  <2>1. /\ s \in Seq(Byte) /\ b \in Seq(Byte) /\ p \in Nat
        /\ p + Len(s) <= Len(b) /\ \A k \in 1..Len(s) : b[p + k] = s[k]
    BY Zenon DEF Within
  <2> QED BY ONLY <2>1
<1>2. i \in Nat /\ j \in Nat /\ q \in Nat /\ n \in Nat /\ q + n <= Len(b)
  <2> DEFINE l == Len(s)
             m == Len(b)
  <2>1. l \in Nat /\ m \in Nat /\ p \in Nat /\ p + l <= m /\ i \in 1..l /\ j \in i..l
        /\ q = p + i - 1 /\ n = j - i + 1
    BY <1>1
  <2> HIDE DEF l, m
  <2>2. i \in Nat /\ j \in Nat /\ q \in Nat /\ n \in Nat /\ q + n <= m
    BY ONLY <2>1
  <2> QED BY <2>2 DEF m
<1>3. Fetched(q, n)
  BY <1>1, <1>2, BytesFetched
<1>4. u \in Seq(Byte) /\ Len(u) = n /\ \A k \in 1..n : u[k] = b[q + k]
  BY <1>3 DEF Fetched
<1> HIDE DEF b, u
<1>5. /\ v \in Seq(Byte) /\ Len(v) = IF i <= j THEN j - i + 1 ELSE 0
      /\ \A k \in 1..(j - i + 1) : v[k] = s[i + k - 1]
  <2>1. \A k \in i..j : s[k] \in Byte
    <3>1. \A k \in 1..Len(s) : s[k] \in Byte
      BY <1>1, ElementOfSeq
    <3> QED BY <1>1, <1>2, <3>1
  <2> QED BY <1>2, <2>1, SubSeqProperties
<1> HIDE DEF v
<1>6. \A k \in 1..n : u[k] = v[k]
  <2> SUFFICES ASSUME NEW k \in 1..n PROVE u[k] = v[k]
    OBVIOUS
  <2>1. i + k - 1 \in 1..Len(s) /\ q + k = p + (i + k - 1)
    BY <1>1, <1>2
  <2>2. v[k] = s[i + k - 1] /\ u[k] = b[q + k]
    BY <1>4, <1>5
  <2>3. b[p + (i + k - 1)] = s[i + k - 1]
    BY <1>1, <2>1
  <2> QED BY <2>1, <2>2, <2>3
<1>7. Len(v) = n
  BY <1>2, <1>5
<1>8. u = v
  BY <1>4, <1>5, <1>6, <1>7, SeqEqual
<1> QED BY <1>5, <1>7, <1>8 DEF PartOf, u, v

LEMMA ReadToasted ==
  ASSUME NEW data, NEW c, AtColumn(data, c), c.form = "toasted"
  PROVE  TakenAs(data, c)
<1> DEFINE w == Stored(data, c)
           b == c.bytes
           d == <<1, OnDisk>>
           bytes == tuple.bytes
           word(i) == Bytes(offset + i, 4)
           raw == Unsigned(SubSeq(b, 1, 4))
           stored == StoredSize(c)
<1>1. /\ b \in Seq(Byte) /\ Len(b) = 16 /\ c.type \in Varlena /\ stored <= raw - 4
  BY DEF IsColumn, AtColumn, Byte
<1>2. AfterToasted(w, data, c)
  BY StoredToasted DEF AtColumn
<1>3. Within(d, offset, w) /\ Within(b, offset + 2, w) /\ Len(w) = offset + 2 + Len(b)
  BY <1>2 DEF AfterToasted, AtColumn
<1> HIDE DEF w, d, b
<1>4. Within(d, offset, bytes) /\ Within(b, offset + 2, bytes)
  <2> HIDE DEF bytes
  <2>1. Within(w, 0, bytes)
    BY DEF AtColumn, w, bytes
  <2>2. offset + 2 = 0 + (offset + 2)
    BY <1>3 DEF Within
  <2> QED BY <1>3, <2>1, <2>2, InTuple DEF bytes
<1>5. /\ offset \in Nat /\ Len(w) <= Len(bytes) /\ Len(w) \in Nat /\ Len(bytes) \in Nat
      /\ size = Len(bytes) - offset /\ Len(data) = offset
  BY <1>4 DEF AtColumn, Within, w
<1>6. bytes[offset + 1] = 1 /\ bytes[offset + 2] = 18
  <2>1. Len(d) = 2 /\ d[1] = 1 /\ d[2] = 18
    BY DEF d, OnDisk
  <2>2. 1 \in 1..Len(d) /\ 2 \in 1..Len(d)
    BY <2>1
  <2> HIDE DEF bytes
  <2> QED BY <1>4, <2>1, <2>2 DEF Within
<1> HIDE DEF bytes
<1>7. size >= 18 /\ Len(w) - Len(data) = 18
  BY <1>1, <1>3, <1>5
<1>8. word(2) = SubSeq(b, 1, 4) /\ SubSeq(b, 1, 4) \in Seq(Byte) /\ Len(SubSeq(b, 1, 4)) = 4
  <2>1. 1 \in 1..Len(b) /\ 4 \in 1..Len(b) /\ offset + 2 = (offset + 2) + 1 - 1 /\ 4 = 4 - 1 + 1
    BY <1>1, <1>5
  <2>2. PartOf(offset + 2, 4, b, 1, 4)
    BY <1>4, <2>1, PartRead DEF bytes
  <2> QED BY <2>2 DEF PartOf
<1>9. word(6) = SubSeq(b, 5, 8) /\ SubSeq(b, 5, 8) \in Seq(Byte) /\ Len(SubSeq(b, 5, 8)) = 4
  <2>1. 5 \in 1..Len(b) /\ 8 \in 5..Len(b) /\ offset + 6 = (offset + 2) + 5 - 1 /\ 4 = 8 - 5 + 1
    BY <1>1, <1>5
  <2>2. PartOf(offset + 6, 4, b, 5, 8)
    BY <1>4, <2>1, PartRead DEF bytes
  <2> QED BY <2>2 DEF PartOf
<1>10. SubSeq(word(6), 1, 3) = SubSeq(b, 5, 7) /\ word(6)[4] = b[8]
       /\ SubSeq(b, 5, 7) \in Seq(Byte) /\ Len(SubSeq(b, 5, 7)) = 3
  <2>1. 5 \in 1..Len(b) /\ 7 \in 5..Len(b) /\ 8 \in 5..Len(b) /\ 8 \in 1..Len(b) /\ 1 \in 1..(8 - 5 + 1) /\ 3 \in 1..(8 - 5 + 1)
    BY <1>1
  <2>2. SubSeq(SubSeq(b, 5, 8), 1, 3) = SubSeq(b, 5 + 1 - 1, 5 + 3 - 1)
    BY <1>1, <2>1, SubSeqOfSubSeq
  <2>3. \A i \in 5..8 : b[i] \in Byte
    <3>1. \A i \in 5..8 : i \in 1..Len(b)
      BY <1>1
    <3> QED BY <1>1, <3>1, ElementOfSeq
  <2>4. \A i \in 1..(8 - 5 + 1) : SubSeq(b, 5, 8)[i] = b[5 + i - 1]
    BY <2>3, SubSeqProperties
  <2>5. SubSeq(b, 5, 8)[4] = b[8]
    <3>1. 4 \in 1..(8 - 5 + 1) /\ 5 + 4 - 1 = 8
      OBVIOUS
    <3> QED BY <2>4, <3>1
  <2>6. SubSeq(b, 5, 7) \in Seq(Byte) /\ Len(SubSeq(b, 5, 7)) = IF 5 <= 7 THEN 7 - 5 + 1 ELSE 0
    <3>1. \A i \in 5..7 : b[i] \in Byte
      BY <2>3
    <3> QED BY <3>1, SubSeqProperties
  <2>7. 5 + 1 - 1 = 5 /\ 5 + 3 - 1 = 7
    OBVIOUS
  <2>8. SubSeq(SubSeq(b, 5, 8), 1, 3) = SubSeq(b, 5, 7)
    BY <2>2, <2>7
  <2>9. Len(SubSeq(b, 5, 7)) = 3
    BY <2>6
  <2> HIDE DEF word
  <2> QED BY <1>9, <2>5, <2>6, <2>8, <2>9
<1>11. b[8] \in Byte /\ b[8] % 64 \in Byte
  <2>1. 8 \in 1..Len(b)
    BY <1>1
  <2>2. b[8] \in Byte
    BY <1>1, <2>1, ElementOfSeq
  <2> QED BY <2>2 DEF Byte
<1> DEFINE low == SubSeq(b, 5, 7)
           high == b[8] % 64
<1>12. stored = Unsigned(Append(low, high)) /\ stored \in Int
  <2>1. low \in Seq(Byte) /\ high \in Byte /\ Len(low) = 3
    BY <1>10, <1>11
  <2>2. stored = Unsigned(low \o <<high>>)
    BY DEF StoredSize, b
  <2> HIDE DEF low, high
  <2>3. Append(low, high) = low \o <<high>>
    BY <2>1, AppendIsConcat
  <2> DEFINE s == Append(low, high)
  <2>4. s \in Seq(Byte) /\ Len(s) = 4
    <3>1. Append(low, high) \in Seq(Byte) /\ Len(Append(low, high)) = Len(low) + 1
      BY ONLY <2>1, AppendProperties
    <3>2. Len(low) + 1 = 4
      BY <2>1
    <3> QED BY ONLY <3>1, <3>2
  <2> HIDE DEF s
  <2>5. Unsigned(s) \in Int
    <3>1. 4 \in 3..4
      OBVIOUS
    <3>2. Unsigned(s) = s[1] + 256 * s[2] + 65536 * s[3] + IF 4 = 4 THEN 16777216 * s[4] ELSE 0
      BY <2>4, <3>1, UnsignedUnfolded
    <3>3. s[1] \in Int /\ s[2] \in Int /\ s[3] \in Int /\ s[4] \in Int
      <4>1. 1 \in 1..Len(s) /\ 2 \in 1..Len(s) /\ 3 \in 1..Len(s) /\ 4 \in 1..Len(s)
        BY <2>4
      <4> QED BY <2>4, <4>1, ElementOfSeq, ByteNat
    <3> QED BY ONLY <3>2, <3>3
  <2> QED BY <2>2, <2>3, <2>5 DEF s
<1>13. raw \in Int
  <2> DEFINE s == SubSeq(b, 1, 4)
  <2>1. s \in Seq(Byte) /\ Len(s) = 4
    BY <1>8
  <2> HIDE DEF s
  <2>2. 4 \in 3..4
    OBVIOUS
  <2>3. Unsigned(s) = s[1] + 256 * s[2] + 65536 * s[3] + IF 4 = 4 THEN 16777216 * s[4] ELSE 0
    BY <2>1, <2>2, UnsignedUnfolded
  <2>4. s[1] \in Int /\ s[2] \in Int /\ s[3] \in Int /\ s[4] \in Int
    <3>1. 1 \in 1..Len(s) /\ 2 \in 1..Len(s) /\ 3 \in 1..Len(s) /\ 4 \in 1..Len(s)
      BY <2>1
    <3> QED BY <2>1, <3>1, ElementOfSeq, ByteNat
  <2>5. Unsigned(s) \in Int
    BY ONLY <2>3, <2>4
  <2> QED BY <2>5 DEF s
<1> DEFINE packed == Unsigned(Append(SubSeq(word(6), 1, 3), word(6)[4] % 64)) < Unsigned(word(2)) - 4
           how == IF packed THEN Method(word(6)[4]) ELSE "uncompressed"
<1>14. how = StoredHow(c)
  <2>1. packed <=> stored < raw - 4
    BY <1>8, <1>10, <1>12
  <2>2. StoredHow(c) = IF stored = raw - 4 THEN "uncompressed" ELSE Method(b[8])
    BY DEF StoredHow, b
  <2>3. packed <=> ~(stored = raw - 4)
    <3> HIDE DEF packed, stored, raw
    <3> QED BY <1>1, <1>12, <1>13, <2>1
  <2>4. Method(word(6)[4]) = Method(b[8])
    BY <1>10
  <2> HIDE DEF packed, stored, raw, word
  <2> QED BY <2>2, <2>3, <2>4
<1>15. External = Used(18, <<Toasted(how)>>)
  <2>1. size > 1 /\ ~(18 > size)
    BY <1>5, <1>7
  <2>2. ExternalSize(18) = 18
    BY DEF ExternalSize, OnDisk
  <2> QED BY <1>6, <2>1, <2>2 DEF External, OnDisk, bytes
<1>16. Text(c) = <<Toasted(StoredHow(c))>>
  <2>1. c # NullColumn
    BY DEF AtColumn
  <2> QED BY <1>1, <2>1 DEF Text, Value, Varlena
<1>17. Callback(c.type) = External
  <2>1. Callback(c.type) = ExtractData(c.type)
    BY <1>1 DEF Callback, Varlena
  <2>2. ExtractData(c.type) = External
    BY <1>6 DEF ExtractData, bytes
  <2> QED BY <2>1, <2>2
<1> HIDE DEF how
<1> QED BY <1>7, <1>14, <1>15, <1>16, <1>17 DEF TakenAs, w

LEMMA ReadColumn ==
  ASSUME NEW data, NEW c, AtColumn(data, c)
  PROVE  TakenAs(data, c)
<1>1. c.form \in {"fixed", "short", "plain", "packed", "toasted"}
  BY DEF AtColumn, IsColumn
<1> QED BY <1>1, ReadFixed, ReadShort, ReadPlain, ReadPacked, ReadToasted

-------------------------------------------------------------------------------
(* Whatever the bytes are, no callback uses more of them than there are.   *)
Bounded(r) == /\ r.ret \in {"used", "failed", "outside", "exit"}
              /\ r.ret = "used" => r.used \in 0..size

LEMMA ResultsBounded ==
  /\ Bounded(Failed) /\ Bounded(Outside) /\ Bounded(Exits)
  /\ \A n \in 0..size : \A text : Bounded(Used(n, text))
BY DEF Bounded, Failed, Outside, Exits, Used

LEMMA ParseBounded ==
  ASSUME NEW type \in Varlena, NEW bytes, NEW length, NEW used \in 0..size
  PROVE  Bounded(ParseValue(type, bytes, length, used))
<1> HIDE DEF Bounded, Failed, Outside, Exits, Used
<1>1. CASE type = "string"
  <2>1. ParseValue(type, bytes, length, used) \in {Exits, Used(used, Encode(Chars(bytes)))}
    BY <1>1 DEF ParseValue
  <2> QED BY <2>1, ResultsBounded
<1>2. CASE type = "numeric"
  <2>1. ParseValue(type, bytes, length, used) \in {Failed, Outside, Used(used, <<NumericText(bytes)>>)}
    BY <1>2 DEF ParseValue
  <2> QED BY <2>1, ResultsBounded
<1> QED BY <1>1, <1>2 DEF Varlena

Inside == tuple.bytes \in Seq(Byte) /\ offset \in Nat /\ size \in Nat \ {0} /\ offset + size = Len(tuple.bytes)

LEMMA FixedBounded ==
  ASSUME Inside, NEW type \in FixedTypes
  PROVE  Bounded(DecodeFixed(type))
<1> DEFINE t == FixedType(type)
           delta == Padding(offset, t.align)
           text == FixedText(type, Bytes(offset + delta, t.width))
<1>1. t.width \in Nat /\ t.align \in {1, 2, 4, 8}
  BY FixedTypeSizes DEF FixedSizes
<1>2. delta \in Nat
  <2>1. delta \in 0..(t.align - 1)
    <3> HIDE DEF t
    <3> QED BY <1>1, PaddingBound DEF Inside
  <2> HIDE DEF delta, t
  <2> QED BY <1>1, <2>1
<1>3. DecodeFixed(type) = IF size < delta + t.width THEN Failed ELSE Used(delta + t.width, text)
  BY DEF DecodeFixed
<1> HIDE DEF t, delta, text
<1>4. ~(size < delta + t.width) => delta + t.width \in 0..size
  BY <1>1, <1>2 DEF Inside
<1> QED BY <1>3, <1>4, ResultsBounded

LEMMA ExternalBounded ==
  ASSUME Inside
  PROVE  Bounded(External)
<1> DEFINE tag == IF size > 1 THEN tuple.bytes[offset + 2] ELSE 0
           claimed == ExternalSize(tag)
<1>1. claimed \in {2, 10, 18}
  <2> HIDE DEF tag
  <2> QED BY DEF ExternalSize
<1>2. \E text : External = IF claimed > size THEN Failed ELSE Used(claimed, text)
  BY DEF External
<1> HIDE DEF claimed
<1>3. ~(claimed > size) => claimed \in 0..size
  BY <1>1 DEF Inside
<1> QED BY <1>2, <1>3, ResultsBounded

LEMMA ShortBounded ==
  ASSUME Inside, NEW type \in Varlena
  PROVE  Bounded(Short(type))
<1> DEFINE claimed == tuple.bytes[offset + 1] \div 2
           parsed == ParseValue(type, Bytes(offset + 1, claimed - 1), claimed - 1, claimed)
<1>1. claimed \in Nat
  <2>1. offset + 1 <= Len(tuple.bytes) /\ offset \in Nat /\ tuple.bytes \in Seq(Byte)
    BY DEF Inside
  <2>2. tuple.bytes[offset + 1] \in Nat
    BY <2>1, FirstFetched, ByteNat
  <2> QED BY <2>2
<1>2. Short(type) = IF claimed > size THEN Failed ELSE parsed
  BY DEF Short
<1> HIDE DEF claimed
<1>3. ~(claimed > size) => claimed \in 0..size
  BY <1>1 DEF Inside
<1>4. ~(claimed > size) => Bounded(parsed)
  BY <1>3, ParseBounded
<1> HIDE DEF parsed
<1> QED BY <1>2, <1>4, ResultsBounded

LEMMA LongBounded ==
  ASSUME Inside, NEW type \in Varlena, NEW padding \in Nat, padding <= size
  PROVE  Bounded(Long(type, padding))
<1> DEFINE at == offset + padding
           claimed == LongLength(at)
           plain == ParseValue(type, Bytes(at + 4, claimed - 4), claimed - 4, padding + claimed)
           payload == Bytes(at + 8, claimed - 8)
           packed == ParseValue(type, Decompress(payload), RawLength(at), padding + claimed)
           remark == Used(padding + claimed, <<[remark |-> "corrupted"]>>)
           fits == size - padding >= 4 /\ claimed <= size - padding
<1>1. Long(type, padding) = Failed
      \/ (fits /\ Long(type, padding) \in {plain, packed, remark})
  <2>1. CASE size - padding < 4
    <3>1. ~(size - padding >= 4) /\ ~(size - padding >= 8)
      BY <2>1 DEF Inside
    <3> QED BY <2>1, <3>1 DEF Long
  <2>2. CASE size - padding >= 4 /\ claimed > size - padding
    <3>1. claimed \in Nat
      <4>1. at \in Nat /\ at + 4 <= Len(tuple.bytes) /\ tuple.bytes \in Seq(Byte)
        BY <2>2 DEF Inside
      <4> HIDE DEF at
      <4> QED BY <4>1, LongLengthRead
    <3> HIDE DEF claimed
    <3>2. ~(size - padding < 4) /\ ~(claimed <= size - padding)
      BY <2>2, <3>1 DEF Inside
    <3> QED BY <2>2, <3>2 DEF Long, claimed, LongLength
  <2>3. CASE size - padding >= 4 /\ ~(claimed > size - padding)
    <3>1. claimed \in Nat
      <4>1. at \in Nat /\ at + 4 <= Len(tuple.bytes) /\ tuple.bytes \in Seq(Byte)
        BY <2>3 DEF Inside
      <4> HIDE DEF at
      <4> QED BY <4>1, LongLengthRead
    <3>2. fits /\ ~(size - padding < 4)
      <4> HIDE DEF claimed
      <4> QED BY <2>3, <3>1 DEF Inside
    <3>3. Long(type, padding) \in {Failed, plain, packed, remark}
      BY <2>3, <3>2 DEF Long, LongLength, RawLength
    <3> QED BY <3>2, <3>3
  <2>4. (size - padding < 4) \/ (size - padding >= 4)
    BY DEF Inside
  <2> QED BY <2>1, <2>2, <2>3, <2>4
<1>2. ASSUME fits PROVE padding + claimed \in 0..size
  <2>1. at \in Nat /\ at + 4 <= Len(tuple.bytes) /\ tuple.bytes \in Seq(Byte)
    BY <1>2 DEF Inside
  <2>2. claimed \in Nat
    <3> HIDE DEF at
    <3> QED BY <2>1, LongLengthRead
  <2> HIDE DEF claimed, at
  <2> QED BY <1>2, <2>2 DEF Inside
<1>3. ASSUME fits PROVE Bounded(plain) /\ Bounded(packed) /\ Bounded(remark)
  BY <1>2, <1>3, ParseBounded, ResultsBounded
<1> HIDE DEF plain, packed, remark, fits
<1> QED BY <1>1, <1>3, ResultsBounded

LEMMA CallbackBounded ==
  ASSUME Inside, NEW type \in Types
  PROVE  Bounded(Callback(type))
<1>1. CASE type = "~"
  <2>1. Callback(type) = Used(size, <<>>)
    BY <1>1 DEF Callback, DecodeIgnore, Varlena
  <2>2. size \in 0..size
    BY DEF Inside
  <2> QED BY <2>1, <2>2, ResultsBounded
<1>2. CASE type \in Varlena
  <2> DEFINE padding == Padding(offset, 4)
  <2>1. padding \in Nat
    BY DEF Padding, Inside
  <2>2. Callback(type) = ExtractData(type)
    BY <1>2 DEF Callback, Varlena
  <2>3. \/ ExtractData(type) \in {External, Short(type), Outside}
        \/ ~(padding > size) /\ ExtractData(type) = Long(type, padding)
    BY DEF ExtractData
  <2> HIDE DEF padding
  <2>4. ~(padding > size) => padding <= size
    BY <2>1 DEF Inside
  <2> QED BY <1>2, <2>1, <2>2, <2>3, <2>4, ExternalBounded, ShortBounded, LongBounded, ResultsBounded
<1>3. CASE type \in FixedTypes
  <2>1. Callback(type) = DecodeFixed(type)
    BY <1>3 DEF Callback, FixedTypes, Varlena
  <2> QED BY <1>3, <2>1, FixedBounded
<1> QED BY <1>1, <1>2, <1>3 DEF Types

-------------------------------------------------------------------------------
(* While the types agree with the columns, the position is behind the      *)
(* columns that have been read, and the line holds their texts.            *)
Printings(k) == [j \in 1..k |-> Text(tuple.columns[j])]
Stands(k) == offset = Len(Leading(tuple.columns, k)) /\ Holds(copyString, Printings(k))
Follows ==
  \A n \in 0..Common : Agrees(n) =>
    /\ attr <= n => outcome = "decoding"
    /\ attr <= n + 1 => Stands(attr - 1)

(* Behind the last column there are no bytes left, and only a tuple with a *)
(* NULL goes on there.                                                     *)
NoneBehind ==
  Agrees(Common) =>
    /\ outcome \in {"decoding", "row", "error"}
    /\ attr > Len(tuple.columns) => size = 0
    /\ attr > Len(tuple.columns) + 1 => \E k \in DOMAIN tuple.columns : tuple.columns[k] = NullColumn

(* A "~" takes what the columns in front of it have left.                  *)
Ignoring(n) == /\ n >= 0 /\ tuple.types[n + 1] = "~" /\ Agrees(n) /\ n < Len(tuple.columns)
               /\ tuple.columns[n + 1] # NullColumn
Ignored ==
  LET n == Len(tuple.types) - 1
  IN  Ignoring(n) => /\ outcome \in {"decoding", "row"}
                     /\ attr = n + 2 => size = 0 /\ Holds(copyString, Printings(n))

Outcomes == /\ outcome = "row" => size = 0 /\ attr = Len(tuple.types) + 1
            /\ outcome = "error" /\ attr > Len(tuple.types) => size # 0

TupleInv == tuple \in Tuples /\ TypeOK /\ Follows /\ NoneBehind /\ Ignored /\ Outcomes

TupleFacts(t) == /\ t.types \in Seq(Types) /\ Len(t.types) \in Nat /\ t.bytes \in Seq(Byte)
                 /\ Len(t.bytes) \in Nat /\ Columns(t.columns) /\ Len(t.columns) \in Nat
                 /\ DOMAIN t.columns = 1..Len(t.columns)

LEMMA TuplesAreFacts ==
  ASSUME NEW t \in Tuples
  PROVE  TupleFacts(t)
<1>1. /\ t.types \in Seq(Types) /\ t.bytes \in Seq(Byte) /\ Columns(t.columns)
  BY TuplesAssumption DEF Columns, Byte
<1>2. t.columns \in Seq(Range(t.columns))
  BY <1>1 DEF Columns
<1> QED BY <1>1, <1>2 DEF TupleFacts

LEMMA CommonIs ==
  ASSUME tuple \in Tuples
  PROVE  /\ Common \in Nat /\ Common <= Len(tuple.types) /\ Common <= Len(tuple.columns)
         /\ Common = Len(tuple.types) \/ Common = Len(tuple.columns)
<1>1. Len(tuple.types) \in Nat /\ Len(tuple.columns) \in Nat
  BY TuplesAreFacts DEF TupleFacts
<1> QED BY <1>1 DEF Common

PrintingsAre(k) == /\ \E S : Printings(k - 1) \in Seq(S) /\ Text(tuple.columns[k]) \in S
                   /\ Printings(k) = Append(Printings(k - 1), Text(tuple.columns[k]))

LEMMA PrintingsMore ==
  ASSUME tuple \in Tuples, NEW k \in 1..Len(tuple.columns)
  PROVE  PrintingsAre(k)
<1> DEFINE S == {Text(tuple.columns[j]) : j \in 1..Len(tuple.columns)}
           p == Printings(k - 1)
           q == Printings(k)
           t == Text(tuple.columns[k])
<1>1. Len(tuple.columns) \in Nat /\ k \in Nat /\ k - 1 \in Nat
  BY TuplesAreFacts DEF TupleFacts
<1>2. /\ \A j \in 1..(k - 1) : Text(tuple.columns[j]) \in S
      /\ \A j \in 1..k : Text(tuple.columns[j]) \in S
  BY <1>1
<1>3. p \in [1..(k - 1) -> S] /\ q \in [1..k -> S] /\ t \in S
  BY <1>2 DEF Printings
<1>4. \A j \in 1..(k - 1) : p[j] = Text(tuple.columns[j])
  BY DEF Printings
<1>5. \A j \in 1..k : q[j] = Text(tuple.columns[j])
  BY DEF Printings
<1> HIDE DEF S, p, q
<1>6. p \in Seq(S) /\ Len(p) = k - 1 /\ q \in Seq(S) /\ Len(q) = k
  BY <1>1, <1>3
<1> DEFINE a == Append(p, t)
<1>7. a \in Seq(S) /\ Len(a) = Len(p) + 1 /\ a[Len(p) + 1] = t /\ \A j \in 1..Len(p) : a[j] = p[j]
  BY <1>3, <1>6, AppendProperties
<1> HIDE DEF a, t
<1>8. \A j \in 1..k : q[j] = a[j]
  <2> SUFFICES ASSUME NEW j \in 1..k PROVE q[j] = a[j]
    OBVIOUS
  <2>1. CASE j = k
    <3>1. q[k] = t
      BY <1>5 DEF t
    <3>2. a[k] = t
      BY <1>1, <1>6, <1>7
    <3> QED BY <2>1, <3>1, <3>2
  <2>2. CASE j # k
    <3>1. j \in 1..(k - 1)
      BY <1>1, <2>2
    <3> QED BY <1>4, <1>5, <1>6, <1>7, <3>1
  <2> QED BY <2>1, <2>2
<1>9. Len(a) = k
  BY <1>1, <1>6, <1>7
<1>10. q = a
  BY <1>6, <1>7, <1>8, <1>9, SeqEqual
<1> QED BY <1>3, <1>6, <1>10 DEF PrintingsAre, p, q, a, t

(* The column at which an agreeing list of types stands.                   *)
AtNext == LET c == tuple.columns[attr] IN
  /\ Null <=> c = NullColumn
  /\ c = NullColumn => Text(c) = NULL /\ offset = Len(Leading(tuple.columns, attr))
  /\ c # NullColumn => /\ size > 0 /\ tuple.types[attr] # "~"
                       /\ Callback(tuple.types[attr])
                          = Used(Len(Leading(tuple.columns, attr)) - offset, Text(c))
  /\ Holds(Appended(copyString, Text(c)), Printings(attr))
  /\ Len(Leading(tuple.columns, attr)) \in Nat

LEMMA ColumnNext ==
  ASSUME TupleInv, Decoding, NEW n \in 0..Common, Agrees(n), attr <= n
  PROVE  AtNext
<1> DEFINE columns == tuple.columns
           c == columns[attr]
           data == Leading(columns, attr - 1)
           next == Leading(columns, attr)
           m == Len(columns)
<1>1. /\ TupleFacts(tuple) /\ Common \in Nat /\ Common <= m /\ m \in Nat
  BY TuplesAreFacts, CommonIs DEF TupleInv, TupleFacts
<1>2. attr \in 1..m /\ attr \in 1..n /\ attr <= n + 1
  BY <1>1 DEF TupleInv, TypeOK
<1>3. /\ Columns(columns) /\ tuple.bytes \in Seq(Byte) /\ DOMAIN columns = 1..m
  BY <1>1 DEF TupleFacts
<1>4. Laying(columns, attr)
  BY <1>2, <1>3, LeadingOne
<1>5. /\ data \in Seq(Byte) /\ IsColumn(c) /\ next = Stored(data, c) /\ Grown(next, data, c)
  BY <1>4 DEF Laying
<1>6. /\ offset = Len(data) /\ Holds(copyString, Printings(attr - 1))
  BY <1>2 DEF TupleInv, Follows, Stands
<1>7. tuple.bytes = Layout(columns) /\ Named(attr)
  BY <1>2 DEF Agrees, Laid
<1>8. Within(next, 0, tuple.bytes)
  <2>1. Leading(columns, m) = Layout(columns)
    BY <1>3, LeadingFirst
  <2>2. m \in 0..m /\ attr \in 0..m
    BY <1>1, <1>2
  <2> HIDE DEF m, columns
  <2> QED BY <1>3, <1>7, <2>1, <2>2, LeadingWithin DEF m
<1>9. Len(next) \in Nat /\ Len(data) \in Nat /\ Len(tuple.bytes) \in Nat /\ Len(next) <= Len(tuple.bytes)
  BY <1>5, <1>8 DEF Within
<1>10. Null <=> c = NullColumn
  <2>1. IsNull(columns, attr) <=> c = NullColumn
    BY <1>2, <1>3 DEF IsNull
  <2> QED BY <2>1 DEF Null
<1>11. Holds(Appended(copyString, Text(c)), Printings(attr))
  <2>1. Readable(c)
    BY <1>5, ColumnText
  <2>2. IsText(Text(c))
    BY <2>1 DEF Readable
  <2>3. PrintingsAre(attr)
    BY <1>2, PrintingsMore DEF TupleInv
  <2>4. PICK S : Printings(attr - 1) \in Seq(S) /\ Text(c) \in S
    BY <2>3 DEF PrintingsAre
  <2>5. Printings(attr) = Append(Printings(attr - 1), Text(c))
    BY <2>3 DEF PrintingsAre
  <2> HIDE DEF c
  <2> QED BY <1>6, <2>2, <2>4, <2>5, HoldsMore
<1>12. CASE c = NullColumn
  <2>1. next = data
    BY <1>5, <1>12 DEF Grown
  <2>2. Text(c) = NULL
    BY <1>12 DEF Text
  <2> QED BY <1>6, <1>9, <1>10, <1>11, <1>12, <2>1, <2>2 DEF AtNext
<1>13. CASE c # NullColumn
  <2>1. size = Len(tuple.bytes) - offset
    BY <1>6, <1>9 DEF TupleInv, TypeOK
  <2>2. size > 0
    <3>1. Len(data) < Len(next)
      BY <1>5, <1>13 DEF Grown
    <3>2. offset = Len(data)
      BY <1>6
    <3>3. \A x, y, z \in Nat : x < y /\ y <= z => z - x > 0
      OBVIOUS
    <3>4. Len(tuple.bytes) - Len(data) > 0
      BY <1>9, <3>1, <3>3
    <3> QED BY <2>1, <3>2, <3>4
  <2>3. AtColumn(data, c)
    BY <1>5, <1>6, <1>8, <1>13, <2>1 DEF AtColumn
  <2>4. TakenAs(data, c)
    BY <2>3, ReadColumn
  <2>5. tuple.types[attr] = c.type
    BY <1>7, <1>13 DEF Named
  <2>6. c.type # "~"
    <3>1. c.type \in FixedTypes \cup Varlena
      BY <1>5, <1>13 DEF IsColumn
    <3> QED BY <3>1 DEF FixedTypes, Varlena
  <2>7. Callback(tuple.types[attr]) = Used(Len(next) - offset, Text(c))
    BY <1>5, <1>6, <2>4, <2>5 DEF TakenAs
  <2> QED BY <1>9, <1>10, <1>11, <1>13, <2>2, <2>5, <2>6, <2>7 DEF AtNext
<1> QED BY <1>12, <1>13

LEMMA InitTupleInv == Init => TupleInv
<1> SUFFICES ASSUME Init PROVE TupleInv
  OBVIOUS
<1> DEFINE columns == tuple.columns
<1>1. /\ tuple \in Tuples /\ attr = 1 /\ offset = 0 /\ size = Len(tuple.bytes)
      /\ copyString = <<>> /\ outcome = "decoding"
  BY DEF Init
<1>2. TupleFacts(tuple) /\ Common \in Nat
  BY <1>1, TuplesAreFacts, CommonIs
<1>3. TypeOK
  <2>1. Len(tuple.types) \in Nat /\ Len(tuple.bytes) \in Nat
    BY <1>2 DEF TupleFacts
  <2> QED BY <1>1, <2>1 DEF TypeOK
<1>4. Stands(0)
  <2>1. Leading(columns, 0) = <<>>
    BY <1>2, LeadingFirst DEF TupleFacts
  <2>2. DOMAIN Printings(0) = {}
    BY DEF Printings
  <2>3. Holds(<<>>, Printings(0))
    <3>1. <<>> \in Seq(Range(<<>>)) /\ Range(<<>>) = {}
      BY DEF Range
    <3> QED BY <2>2, <3>1 DEF Holds
  <2>4. Len(<<>>) = 0
    OBVIOUS
  <2> QED BY <1>1, <2>1, <2>3, <2>4 DEF Stands
<1>5. Follows
  <2>1. attr - 1 = 0
    BY <1>1
  <2> QED BY <1>1, <1>4, <2>1 DEF Follows
<1>6. NoneBehind
  <2> SUFFICES ASSUME Agrees(Common) PROVE NoneBehind
    BY DEF NoneBehind
  <2>1. Len(columns) \in Nat
    BY <1>2 DEF TupleFacts
  <2>2. attr > Len(columns) => Len(columns) = 0 /\ ~(attr > Len(columns) + 1)
    BY <1>1, <2>1
  <2>3. ~(attr > Len(columns) + 1)
    BY <1>1, <2>1
  <2>4. ASSUME Len(columns) = 0 PROVE size = 0
    <3>1. Leading(columns, 0) = <<>> /\ Leading(columns, 0) = Layout(columns)
      BY <1>2, <2>4, LeadingFirst DEF TupleFacts
    <3>2. tuple.bytes = <<>>
      BY <3>1 DEF Agrees, Laid
    <3> QED BY <1>1, <3>2
  <2> QED BY <1>1, <2>2, <2>3, <2>4 DEF NoneBehind
<1>7. Ignored
  <2>1. Len(tuple.types) \in Nat
    BY <1>2 DEF TupleFacts
  <2> DEFINE n == Len(tuple.types) - 1
  <2>2. Ignoring(n) => attr # n + 2
    BY <1>1, <2>1 DEF Ignoring
  <2> HIDE DEF n
  <2> QED BY <1>1, <2>2 DEF Ignored, n
<1> QED BY <1>1, <1>3, <1>5, <1>6, <1>7 DEF TupleInv, Outcomes

(* Nothing behind the position is left when it is behind the last column.  *)
LEMMA BehindLast ==
  ASSUME tuple \in Tuples, Laid, NEW at, at = Len(Leading(tuple.columns, Len(tuple.columns)))
  PROVE  at = Len(tuple.bytes)
<1>1. Leading(tuple.columns, Len(tuple.columns)) = Layout(tuple.columns)
  BY TuplesAreFacts, LeadingFirst DEF TupleFacts
<1> QED BY <1>1 DEF Laid

NextTypes == tuple' = tuple /\ TypeOK' /\ attr' >= attr
LEMMA TypeOKNext ==
  ASSUME TupleInv, Step
  PROVE  NextTypes
<1> DEFINE t == Len(tuple.types)
           b == Len(tuple.bytes)
<1>1. t \in Nat /\ b \in Nat /\ attr \in 1..(t + 1) /\ tuple.types \in Seq(Types) /\ tuple.bytes \in Seq(Byte)
      /\ offset \in 0..b /\ size \in 0..b /\ offset + size = b
  BY TuplesAreFacts DEF TupleInv, TypeOK, TupleFacts
<1>2. outcome \in {"decoding", "row", "error", "outside", "exit"}
  BY DEF TupleInv, TypeOK
<1>3. CASE AppendNull
  <2>1. tuple' = tuple /\ attr' = attr + 1 /\ offset' = offset /\ size' = size /\ outcome' = outcome /\ attr <= t
    BY <1>3 DEF AppendNull, Null, Decoding
  <2>2. attr' \in 1..(t + 1) /\ attr' >= attr
    BY <1>1, <2>1
  <2> QED BY <1>1, <1>2, <2>1, <2>2 DEF NextTypes, TypeOK
<1>4. CASE NoBytesLeft
  <2>1. tuple' = tuple /\ attr' = attr /\ offset' = offset /\ size' = size /\ outcome' = "error"
    BY <1>4 DEF NoBytesLeft
  <2> QED BY <1>1, <2>1 DEF NextTypes, TypeOK
<1>5. CASE Finish
  <2>1. tuple' = tuple /\ attr' = attr /\ offset' = offset /\ size' = size /\ outcome' \in {"error", "row"}
    BY <1>5 DEF Finish
  <2> QED BY <1>1, <2>1 DEF NextTypes, TypeOK
<1>6. CASE DecodeColumn
  <2> DEFINE r == Callback(tuple.types[attr])
  <2>1. size > 0 /\ attr <= t /\ tuple' = tuple
    BY <1>6 DEF DecodeColumn, Decoding
  <2>2. tuple.types[attr] \in Types
    <3>1. attr \in 1..t
      BY <1>1, <2>1
    <3> QED BY <1>1, <3>1, ElementOfSeq
  <2>3. Inside
    BY <1>1, <2>1 DEF Inside
  <2>4. Bounded(r)
    BY <2>2, <2>3, CallbackBounded
  <2> HIDE DEF r
  <2>5. CASE r.ret = "used"
    <3>1. offset' = offset + r.used /\ size' = size - r.used /\ attr' = attr + 1 /\ outcome' = outcome
      BY <1>6, <2>5 DEF DecodeColumn, r
    <3>2. r.used \in 0..size
      BY <2>4, <2>5 DEF Bounded
    <3>3. offset' \in 0..b /\ size' \in 0..b /\ offset' + size' = b /\ attr' \in 1..(t + 1) /\ attr' >= attr
      <4>1. \A o, s, u, l \in Nat : o + s = l /\ u <= s =>
              /\ o + u \in 0..l /\ s - u \in 0..l /\ (o + u) + (s - u) = l
        OBVIOUS
      <4>2. offset \in Nat /\ size \in Nat /\ b \in Nat /\ r.used \in Nat /\ r.used <= size
        BY <1>1, <3>2
      <4> HIDE DEF b, t
      <4>3. offset' \in 0..b /\ size' \in 0..b /\ offset' + size' = b
        BY <1>1, <3>1, <4>1, <4>2
      <4>4. attr' \in 1..(t + 1) /\ attr' >= attr
        BY <1>1, <2>1, <3>1
      <4> QED BY <4>3, <4>4
    <3> QED BY <1>2, <2>1, <3>1, <3>3 DEF NextTypes, TypeOK
  <2>6. CASE r.ret # "used"
    <3>1. offset' = offset /\ size' = size /\ attr' = attr
          /\ outcome' = IF r.ret = "failed" THEN "error" ELSE r.ret
      BY <1>6, <2>6 DEF DecodeColumn, r
    <3>2. outcome' \in {"decoding", "row", "error", "outside", "exit"}
      BY <2>4, <2>6, <3>1 DEF Bounded
    <3> QED BY <1>1, <2>1, <3>1, <3>2 DEF NextTypes, TypeOK
  <2> QED BY <2>5, <2>6
<1> QED BY <1>3, <1>4, <1>5, <1>6 DEF Step

(* One step of an agreeing list of types.                                  *)
Advances == /\ outcome' = "decoding" /\ attr' = attr + 1
            /\ offset' = Len(Leading(tuple.columns, attr)) /\ Holds(copyString', Printings(attr))
            /\ copyString' = Appended(copyString, Text(tuple.columns[attr]))
LEMMA AdvanceNext ==
  ASSUME TupleInv, Step, NEW n \in 0..Common, Agrees(n), attr <= n
  PROVE  Advances
<1> DEFINE c == tuple.columns[attr]
           at == Len(Leading(tuple.columns, attr))
<1>1. attr <= Len(tuple.types) /\ ~(attr > Len(tuple.types))
  <2>1. Common \in Nat /\ Common <= Len(tuple.types) /\ Len(tuple.types) \in Nat
    BY CommonIs, TuplesAreFacts DEF TupleInv, TupleFacts
  <2>2. attr \in Nat
    BY <2>1 DEF TupleInv, TypeOK
  <2> QED BY <2>1, <2>2
<1>2. Decoding
  <2>1. outcome = "decoding"
    BY DEF TupleInv, Follows
  <2> QED BY <1>1, <2>1 DEF Decoding
<1>3. AtNext
  BY <1>2, ColumnNext
<1>4. /\ Null <=> c = NullColumn
      /\ c = NullColumn => Text(c) = NULL /\ offset = at
      /\ c # NullColumn => size > 0 /\ tuple.types[attr] # "~"
                           /\ Callback(tuple.types[attr]) = Used(at - offset, Text(c))
      /\ Holds(Appended(copyString, Text(c)), Printings(attr)) /\ at \in Nat
  BY <1>3 DEF AtNext
<1>5. ~Finish
  BY <1>1 DEF Finish
<1>6. offset \in Nat /\ size \in Nat
  <2>1. Len(tuple.bytes) \in Nat
    BY TuplesAreFacts DEF TupleInv, TupleFacts
  <2> QED BY <2>1 DEF TupleInv, TypeOK
<1> HIDE DEF c, at
<1>7. CASE c = NullColumn
  <2>1. AppendNull
    BY <1>4, <1>5, <1>7 DEF Step, NoBytesLeft, DecodeColumn
  <2>2. /\ copyString' = Appended(copyString, Text(c)) /\ attr' = attr + 1
        /\ offset' = at /\ outcome' = "decoding"
    BY <1>2, <1>4, <1>7, <2>1 DEF AppendNull, Decoding
  <2> QED BY <1>4, <2>2 DEF Advances, at, c
<1>8. CASE c # NullColumn
  <2>1. size # 0
    BY <1>4, <1>6, <1>8
  <2>2. DecodeColumn
    BY <1>4, <1>5, <1>8, <2>1 DEF Step, NoBytesLeft, AppendNull
  <2> DEFINE r == Callback(tuple.types[attr])
  <2>3. r = Used(at - offset, Text(c))
    BY <1>4, <1>8
  <2>4. r.ret = "used" /\ r.used = at - offset /\ r.text = Text(c)
    <3> HIDE DEF r
    <3> QED BY <2>3 DEF Used
  <2>5. /\ copyString' = Appended(copyString, r.text) /\ attr' = attr + 1
        /\ offset' = offset + r.used /\ outcome' = outcome
    <3>1. tuple.types[attr] # "~" /\ r.ret = "used"
      BY <1>4, <1>8, <2>4
    <3> QED BY <2>2, <3>1 DEF DecodeColumn
  <2> HIDE DEF r
  <2>6. offset' = at
    BY <1>4, <1>6, <2>4, <2>5
  <2> QED BY <1>2, <1>4, <2>4, <2>5, <2>6 DEF Advances, at, c, Decoding
<1> QED BY <1>7, <1>8

(* A step that does not go to the next type leaves line and position.      *)
LEMMA StaysNext ==
  ASSUME TupleInv, Step
  PROVE  /\ attr' = attr => offset' = offset /\ size' = size /\ copyString' = copyString
         /\ size = 0 => size' = 0 /\ outcome' \in {"decoding", "row", "error"}
         /\ size = 0 /\ attr' # attr => attr' = attr + 1 /\ Null
         /\ attr' \in {attr, attr + 1}
<1>1. attr \in Nat /\ attr # attr + 1 /\ (size = 0 => ~(size > 0))
  BY TuplesAreFacts DEF TupleInv, TypeOK, TupleFacts
<1>2. CASE AppendNull
  BY <1>1, <1>2 DEF AppendNull, Null, Decoding
<1>3. CASE NoBytesLeft
  BY <1>1, <1>3 DEF NoBytesLeft
<1>4. CASE Finish
  BY <1>1, <1>4 DEF Finish
<1>5. CASE DecodeColumn
  BY <1>1, <1>5 DEF DecodeColumn
<1> QED BY <1>2, <1>3, <1>4, <1>5 DEF Step

LEMMA FollowsNext ==
  ASSUME TupleInv, Step
  PROVE  Follows'
<1>1. tuple' = tuple /\ attr' >= attr /\ attr' \in {attr, attr + 1} /\ attr \in Nat /\ Common \in Nat
  BY TypeOKNext, StaysNext, TuplesAreFacts, CommonIs DEF NextTypes, TupleInv, TypeOK, TupleFacts
<1>2. Common' = Common /\ \A n : Agrees(n)' <=> Agrees(n)
  BY <1>1 DEF Common, Agrees, Laid, Named
<1>3. ASSUME NEW k, attr' - 1 = k, offset' = Len(Leading(tuple.columns, k)), Holds(copyString', Printings(k))
      PROVE  Stands(attr - 1)'
  <2>1. Printings(attr - 1)' = Printings(k)
    BY <1>1, <1>3 DEF Printings
  <2>2. tuple'.columns = tuple.columns
    BY <1>1
  <2> QED BY <1>3, <2>1, <2>2 DEF Stands
<1>5. ASSUME NEW n \in 0..Common, Agrees(n)
      PROVE  /\ attr' <= n => outcome' = "decoding"
             /\ attr' <= n + 1 => Stands(attr - 1)'
  <2>1. CASE attr <= n
    <3>1. Advances
      BY <1>5, <2>1, AdvanceNext
    <3>2. attr' - 1 = attr /\ outcome' = "decoding"
      BY <1>1, <3>1 DEF Advances
    <3>3. Stands(attr - 1)'
      BY <1>3, <3>1, <3>2 DEF Advances
    <3> QED BY <3>2, <3>3
  <2>2. CASE attr = n + 1
    <3>1. ~(attr' <= n) /\ (attr' <= n + 1 => attr' = attr)
      BY <1>1, <2>2
    <3>2. Stands(attr - 1)
      BY <1>1, <1>5, <2>2 DEF TupleInv, Follows
    <3>3. attr' = attr => Stands(attr - 1)'
      BY <1>3, <3>2, StaysNext DEF Stands
    <3> QED BY <3>1, <3>3
  <2>3. CASE attr > n + 1
    BY <1>1, <2>3
  <2> QED BY <1>1, <2>1, <2>2, <2>3
<1>6. \A n \in 0..Common : Agrees(n) => /\ attr' <= n => outcome' = "decoding"
                                        /\ attr' <= n + 1 => Stands(attr - 1)'
  BY <1>5
<1> QED BY <1>2, <1>6 DEF Follows

LEMMA NoneBehindNext ==
  ASSUME TupleInv, Step
  PROVE  NoneBehind'
<1> DEFINE m == Len(tuple.columns)
           l == Len(tuple.types)
           NullThere == \E k \in DOMAIN tuple.columns : tuple.columns[k] = NullColumn
<1>1. /\ tuple' = tuple /\ TypeOK' /\ attr' >= attr /\ attr' \in {attr, attr + 1} /\ attr \in Nat
      /\ Common \in Nat /\ m \in Nat /\ l \in Nat /\ tuple \in Tuples
      /\ Common <= l /\ Common <= m /\ (Common = l \/ Common = m) /\ attr' \in 1..(l + 1)
  <2>1. tuple' = tuple /\ TypeOK' /\ attr' >= attr
    BY TypeOKNext DEF NextTypes
  <2>2. attr' \in {attr, attr + 1}
    BY StaysNext
  <2>3. attr \in Nat /\ m \in Nat /\ l \in Nat /\ tuple \in Tuples
    BY TuplesAreFacts DEF TupleInv, TypeOK, TupleFacts
  <2>4. attr' \in 1..(l + 1)
    BY <2>1 DEF TypeOK
  <2> QED BY <2>1, <2>2, <2>3, <2>4, CommonIs
<1>2. Common' = Common /\ \A n : Agrees(n)' <=> Agrees(n)
  BY <1>1 DEF Common, Agrees, Laid, Named
<1> SUFFICES ASSUME Agrees(Common)
             PROVE  /\ outcome' \in {"decoding", "row", "error"}
                    /\ attr' > m => size' = 0
                    /\ attr' > m + 1 => NullThere
  BY <1>1, <1>2 DEF NoneBehind
<1>3. /\ outcome \in {"decoding", "row", "error"}
      /\ attr > m => size = 0
      /\ attr > m + 1 => NullThere
  BY DEF TupleInv, NoneBehind
<1> HIDE DEF m, l, NullThere
<1>4. CASE attr <= Common
  <2>1. Advances
    BY <1>1, <1>4, AdvanceNext
  <2>2. attr' <= m + 1
    BY <1>1, <1>4, <2>1 DEF Advances
  <2>3. ASSUME attr' > m PROVE size' = 0
    <3>1. attr = m
      BY <1>1, <1>4, <2>1, <2>3 DEF Advances
    <3>2. offset' = Len(Leading(tuple.columns, m)) /\ Laid
      BY <2>1, <3>1 DEF Advances, Agrees
    <3>3. offset' = Len(tuple.bytes)
      BY <1>1, <3>2, BehindLast DEF m
    <3>4. Len(tuple.bytes) \in Nat /\ size' \in 0..Len(tuple.bytes) /\ offset' + size' = Len(tuple.bytes)
      BY <1>1, TuplesAreFacts DEF TypeOK, TupleFacts
    <3> QED BY <3>3, <3>4
  <2> QED BY <1>1, <2>1, <2>2, <2>3 DEF Advances
<1>5. CASE attr > Common /\ attr > m
  <2>1. size = 0
    BY <1>3, <1>5
  <2>2. size' = 0 /\ outcome' \in {"decoding", "row", "error"} /\ (attr' # attr => attr' = attr + 1 /\ Null)
    BY <2>1, StaysNext
  <2>3. ASSUME attr' > m + 1 PROVE NullThere
    <3>1. CASE attr > m + 1
      BY <1>3, <3>1
    <3>2. CASE ~(attr > m + 1)
      <4>1. Null
        BY <1>1, <2>2, <2>3, <3>2
      <4> QED BY <4>1 DEF Null, IsNull, NullThere
    <3> QED BY <3>1, <3>2
  <2> QED BY <2>2, <2>3
<1>6. CASE attr > Common /\ ~(attr > m)
  <2>1. attr = l + 1 /\ attr' = attr
    BY <1>1, <1>6
  <2>2. Finish
    <3>1. ~(attr <= l)
      BY <1>1, <2>1
    <3> QED BY <3>1 DEF Step, AppendNull, NoBytesLeft, DecodeColumn, Null, Decoding, l
  <2>3. outcome' \in {"row", "error"}
    BY <2>2 DEF Finish
  <2> QED BY <1>1, <1>6, <2>1, <2>3
<1> QED BY <1>1, <1>4, <1>5, <1>6

LEMMA IgnoredNext ==
  ASSUME TupleInv, Step
  PROVE  Ignored'
<1> DEFINE l == Len(tuple.types)
           n == l - 1
           m == Len(tuple.columns)
           columns == tuple.columns
<1>1. /\ tuple' = tuple /\ attr' \in {attr, attr + 1} /\ attr \in 1..(l + 1) /\ l \in Nat /\ m \in Nat
      /\ attr' \in 1..(l + 1)
  <2>1. tuple' = tuple /\ TypeOK'
    BY TypeOKNext DEF NextTypes
  <2>2. attr' \in {attr, attr + 1}
    BY StaysNext
  <2>3. l \in Nat /\ m \in Nat
    BY TuplesAreFacts DEF TupleInv, TupleFacts
  <2> QED BY <2>1, <2>2, <2>3 DEF TypeOK, TupleInv
<1>2. Ignoring(n)' <=> Ignoring(n)
  BY <1>1 DEF Ignoring, Agrees, Common, Laid, Named
<1>3. Printings(n)' = Printings(n)
  BY <1>1 DEF Printings
<1> SUFFICES ASSUME Ignoring(n)
             PROVE  /\ outcome' \in {"decoding", "row"}
                    /\ attr' = n + 2 => size' = 0 /\ Holds(copyString', Printings(n))
  BY <1>1, <1>2, <1>3 DEF Ignored
<1>4. /\ n \in Nat /\ tuple.types[n + 1] = "~" /\ Agrees(n) /\ n < m /\ columns[n + 1] # NullColumn
      /\ n \in 0..Common /\ n + 1 \in 1..m /\ n + 1 = l
  <2>1. n >= 0 /\ tuple.types[n + 1] = "~" /\ Agrees(n) /\ n < m /\ columns[n + 1] # NullColumn
    BY DEF Ignoring
  <2>2. n <= Common /\ Common \in Nat
    BY <2>1, CommonIs DEF Agrees, TupleInv
  <2> QED BY <1>1, <2>1, <2>2
<1>5. /\ outcome \in {"decoding", "row"}
      /\ attr = n + 2 => size = 0 /\ Holds(copyString, Printings(n))
  BY DEF TupleInv, Ignored
<1>6. CASE attr <= n
  <2>1. Advances
    BY <1>4, <1>6, AdvanceNext
  <2>2. attr' # n + 2
    BY <1>1, <1>4, <1>6, <2>1 DEF Advances
  <2> QED BY <2>1, <2>2 DEF Advances
<1>7. CASE attr = n + 1
  <2>1. Stands(n)
    <3>1. attr <= n + 1 /\ attr - 1 = n
      BY <1>4, <1>7
    <3> QED BY <1>4, <3>1 DEF TupleInv, Follows
  <2>2. size > 0
    <3> DEFINE data == Leading(columns, n)
               next == Leading(columns, n + 1)
    <3>1. Columns(columns) /\ (n + 1) - 1 = n
      BY <1>4, TuplesAreFacts DEF TupleInv, TupleFacts
    <3>2. Laying(columns, n + 1)
      BY <1>4, <3>1, LeadingOne
    <3>3. Len(data) < Len(next) /\ data \in Seq(Byte) /\ next \in Seq(Byte)
      BY <1>4, <3>1, <3>2 DEF Laying, Grown
    <3>4. Within(next, 0, Leading(columns, m))
      <4>1. m \in 0..m /\ n + 1 \in 0..m
        BY <1>1, <1>4
      <4> QED BY <3>1, <4>1, LeadingWithin
    <3>5. Leading(columns, m) = tuple.bytes
      BY <1>4, <3>1, LeadingFirst DEF Agrees, Laid
    <3>6. Len(next) <= Len(tuple.bytes) /\ Len(tuple.bytes) \in Nat
      BY <3>3, <3>4, <3>5 DEF Within
    <3>7. offset = Len(data) /\ offset + size = Len(tuple.bytes) /\ size \in 0..Len(tuple.bytes)
      BY <2>1 DEF Stands, TupleInv, TypeOK
    <3> HIDE DEF data, next
    <3>8. Len(data) \in Nat /\ Len(next) \in Nat
      BY <3>3
    <3>9. \A x, y, z, s \in Nat : x < y /\ y <= z /\ x + s = z => s > 0
      OBVIOUS
    <3>10. size \in Nat
      BY <3>6, <3>7
    <3> QED BY <3>3, <3>6, <3>7, <3>8, <3>9, <3>10
  <2>3. ~Null
    <3>1. attr <= Len(tuple.columns)
      BY <1>4, <1>7
    <3>2. tuple.columns[attr] # NullColumn
      BY <1>4, <1>7
    <3> QED BY <3>1, <3>2 DEF Null, IsNull
  <2>4. DecodeColumn
    <3>1. ~(attr > Len(tuple.types)) /\ size # 0
      BY <1>1, <1>4, <1>7, <2>2, TuplesAreFacts DEF TupleInv, TupleFacts
    <3> QED BY <2>3, <3>1 DEF Step, AppendNull, NoBytesLeft, Finish
  <2>5. Callback(tuple.types[attr]) = Used(size, <<>>) /\ tuple.types[attr] = "~"
    <3>1. tuple.types[attr] = "~"
      BY <1>4, <1>7
    <3> QED BY <3>1 DEF Callback, DecodeIgnore, Varlena
  <2>6. Used(size, <<>>).ret = "used" /\ Used(size, <<>>).used = size
    BY DEF Used
  <2>7. copyString' = copyString /\ size' = size - size /\ outcome' = outcome
    BY <2>4, <2>5, <2>6 DEF DecodeColumn
  <2>8. size - size = 0
    BY TuplesAreFacts DEF TupleInv, TypeOK, TupleFacts
  <2>9. outcome = "decoding"
    BY <2>4 DEF DecodeColumn, Decoding
  <2> QED BY <2>1, <2>7, <2>8, <2>9 DEF Stands
<1>8. CASE attr = n + 2
  <2>1. ~(attr <= Len(tuple.types))
    BY <1>1, <1>4, <1>8
  <2>2. Finish
    BY <2>1 DEF Step, AppendNull, NoBytesLeft, DecodeColumn, Null, Decoding
  <2>3. size = 0 /\ Holds(copyString, Printings(n))
    BY <1>5, <1>8
  <2> QED BY <2>2, <2>3 DEF Finish
<1>9. attr <= n \/ attr = n + 1 \/ attr = n + 2
  BY <1>1, <1>4
<1> QED BY <1>6, <1>7, <1>8, <1>9

LEMMA NextTupleInv == TupleInv /\ [Next]_vars => TupleInv'
<1> SUFFICES ASSUME TupleInv, [Next]_vars PROVE TupleInv'
  OBVIOUS
<1>1. CASE Step
  <2>1. tuple' = tuple /\ TypeOK'
    BY <1>1, TypeOKNext DEF NextTypes
  <2>2. Outcomes'
    <3>1. CASE Finish
      <4>1. outcome = "decoding" /\ attr > Len(tuple.types) /\ attr' = attr /\ size' = size /\ tuple' = tuple
            /\ outcome' = IF size # 0 THEN "error" ELSE "row"
        BY <3>1 DEF Finish
      <4>2. attr \in 1..(Len(tuple.types) + 1) /\ Len(tuple.types) \in Nat
        BY TuplesAreFacts DEF TupleInv, TypeOK, TupleFacts
      <4>3. attr = Len(tuple.types) + 1
        BY <4>1, <4>2
      <4> QED BY <4>1, <4>3 DEF Outcomes
    <3>2. CASE AppendNull
      BY <3>2 DEF AppendNull, Null, Decoding, Outcomes
    <3>3. CASE NoBytesLeft
      <4>1. ~(attr > Len(tuple.types))
        <5>1. attr <= Len(tuple.types) /\ Len(tuple.types) \in Nat /\ attr \in 1..(Len(tuple.types) + 1)
          BY <3>3, TuplesAreFacts DEF NoBytesLeft, Decoding, TupleInv, TypeOK, TupleFacts
        <5> QED BY <5>1
      <4> QED BY <3>3, <4>1 DEF NoBytesLeft, Outcomes
    <3>4. CASE DecodeColumn
      <4> DEFINE r == Callback(tuple.types[attr])
      <4>1. outcome = "decoding" /\ attr <= Len(tuple.types) /\ size > 0
        BY <3>4 DEF DecodeColumn, Decoding
      <4>2. CASE r.ret = "used"
        <5>1. outcome' = outcome
          BY <3>4, <4>2 DEF DecodeColumn
        <5> QED BY <4>1, <5>1 DEF Outcomes
      <4>3. CASE r.ret # "used"
        <5>1. attr' = attr /\ outcome' = (IF r.ret = "failed" THEN "error" ELSE r.ret) /\ tuple' = tuple
          BY <3>4, <4>3 DEF DecodeColumn
        <5>2. Bounded(r)
          <6>1. /\ TupleFacts(tuple) /\ offset \in 0..Len(tuple.bytes) /\ size \in 0..Len(tuple.bytes)
                /\ offset + size = Len(tuple.bytes) /\ attr \in 1..(Len(tuple.types) + 1)
            BY TuplesAreFacts DEF TupleInv, TypeOK
          <6>2. attr \in 1..Len(tuple.types)
            BY <4>1, <6>1 DEF TupleFacts
          <6>3. tuple.types[attr] \in Types
            BY <6>1, <6>2, ElementOfSeq DEF TupleFacts
          <6>4. Inside
            BY <4>1, <6>1 DEF Inside, TupleFacts
          <6> QED BY <6>3, <6>4, CallbackBounded
        <5>3. outcome' # "row"
          <6> HIDE DEF r
          <6> QED BY <5>1, <5>2 DEF Bounded
        <5>4. ~(attr > Len(tuple.types))
          BY <4>1, TuplesAreFacts DEF TupleInv, TypeOK, TupleFacts
        <5> QED BY <5>1, <5>3, <5>4 DEF Outcomes
      <4> QED BY <4>2, <4>3
    <3> QED BY <1>1, <3>1, <3>2, <3>3, <3>4 DEF Step
  <2> QED BY <1>1, <2>1, <2>2, FollowsNext, NoneBehindNext, IgnoredNext DEF TupleInv
<1>2. CASE UNCHANGED vars
  <2>1. /\ tuple' = tuple /\ attr' = attr /\ offset' = offset /\ size' = size
        /\ copyString' = copyString /\ outcome' = outcome
    BY <1>2 DEF vars
  <2>2. TypeOK' /\ Outcomes'
    BY <2>1 DEF TupleInv, TypeOK, Outcomes
  <2>3. Follows'
    BY <2>1 DEF TupleInv, Follows, Common, Agrees, Laid, Named, Stands, Printings
  <2>4. NoneBehind'
    BY <2>1 DEF TupleInv, NoneBehind, Common, Agrees, Laid, Named
  <2>5. Ignored'
    BY <2>1 DEF TupleInv, Ignored, Ignoring, Common, Agrees, Laid, Named, Printings
  <2> QED BY <2>1, <2>2, <2>3, <2>4, <2>5 DEF TupleInv
<1> QED BY <1>1, <1>2 DEF Next, Ended

-------------------------------------------------------------------------------
(* What COPY reads from a line that holds the texts of the first n columns *)
(* of the tuple.                                                           *)
LEMMA PrintingsFacts ==
  ASSUME tuple \in Tuples, NEW n \in 1..Len(tuple.columns)
  PROVE  /\ \E S : Printings(n) \in Seq(S)
         /\ Len(Printings(n)) = n /\ DOMAIN Printings(n) = 1..n /\ n \in Nat \ {0}
         /\ \A k \in 1..n : /\ Printings(n)[k] = Text(tuple.columns[k])
                            /\ IsColumn(tuple.columns[k]) /\ k \in DOMAIN tuple.columns
<1> DEFINE S == {Text(tuple.columns[j]) : j \in 1..n}
           p == Printings(n)
<1>1. Len(tuple.columns) \in Nat /\ DOMAIN tuple.columns = 1..Len(tuple.columns) /\ n \in Nat \ {0}
  BY TuplesAreFacts DEF TupleFacts
<1>2. \A k \in 1..n : k \in DOMAIN tuple.columns
  BY <1>1
<1>3. \A k \in 1..n : IsColumn(tuple.columns[k])
  BY <1>2, TuplesAreFacts DEF TupleFacts, Columns
<1>4. p \in [1..n -> S] /\ \A k \in 1..n : p[k] = Text(tuple.columns[k])
  BY DEF Printings
<1> HIDE DEF S, p
<1>5. p \in Seq(S) /\ Len(p) = n /\ DOMAIN p = 1..n
  BY <1>1, <1>4
<1> QED BY <1>1, <1>2, <1>3, <1>4, <1>5 DEF p

LEMMA LineRead ==
  ASSUME tuple \in Tuples, NEW n \in 1..Len(tuple.columns), NEW line, Holds(line, Printings(n)),
         Value(tuple.columns[1]) # <<>>, \A k \in 1..n : ~HasTab(Value(tuple.columns[k]))
  PROVE  ReadBack(line) = [k \in 1..n |-> Value(tuple.columns[k])]
<1> DEFINE p == Printings(n)
<1>1. PICK S : p \in Seq(S)
  BY PrintingsFacts
<1>2. /\ Len(p) = n /\ DOMAIN p = 1..n /\ n \in Nat \ {0}
      /\ \A k \in 1..n : p[k] = Text(tuple.columns[k]) /\ IsColumn(tuple.columns[k])
  BY PrintingsFacts
<1> HIDE DEF p
<1>3. First(p, 1)
  <2>1. 1 \in 1..n /\ \A j \in 1..(1 - 1) : p[j] = <<>>
    BY <1>2
  <2>2. Readable(tuple.columns[1])
    BY <1>2, <2>1, ColumnText
  <2> QED BY <1>2, <2>1, <2>2 DEF First, Readable
<1>4. Split(line) = p
  <2>1. Split(line) = SubSeq(p, 1, Len(p))
    <3>1. Holds(line, p)
      BY DEF p
    <3>2. \A f \in DOMAIN p : First(p, f) => Split(line) = SubSeq(p, f, Len(p))
      BY <3>1 DEF Holds
    <3> QED BY <1>3, <3>2 DEF First
  <2>2. SubSeq(p, 1, Len(p)) = p
    BY <1>1, SubSeqFull
  <2> QED BY <2>1, <2>2
<1>5. ReadBack(line) = [k \in 1..n |-> Reading(p[k])]
  BY <1>2, <1>4 DEF ReadBack, Reading
<1>6. \A k \in 1..n : Reading(p[k]) = Value(tuple.columns[k])
  BY <1>2, ColumnText DEF Readable
<1> QED BY <1>5, <1>6

(* The first text of a line that is not empty, if there is one. *)
Leftmost(filled) == CHOOSE k \in filled : \A j \in filled : k <= j

LEMMA LineSplit ==
  ASSUME tuple \in Tuples, NEW n \in 1..Len(tuple.columns), NEW line, Holds(line, Printings(n)),
         NEW filled, filled = {k \in 1..n : Value(tuple.columns[k]) # <<>>}
  PROVE  Len(Split(line)) = n - IF filled = {} THEN n - 1 ELSE Leftmost(filled) - 1
<1> DEFINE p == Printings(n)
<1>1. PICK S : p \in Seq(S)
  BY PrintingsFacts
<1>2. /\ Len(p) = n /\ DOMAIN p = 1..n /\ n \in Nat \ {0}
      /\ \A k \in 1..n : p[k] = Text(tuple.columns[k]) /\ IsColumn(tuple.columns[k])
  BY PrintingsFacts
<1> HIDE DEF p
<1>3. \A k \in 1..n : p[k] = <<>> <=> k \notin filled
  BY <1>2, ColumnText DEF Readable
<1>4. CASE filled = {}
  <2>1. line = <<>>
    BY <1>2, <1>3, <1>4 DEF Holds, p
  <2>2. Split(<<>>) = << <<>> >>
    <3>1. <<>> \in Seq({0}) /\ 0 \in {0}
      OBVIOUS
    <3> QED BY <3>1, SplitOne
  <2>3. Len(Split(line)) = 1
    BY <2>1, <2>2
  <2> QED BY <1>2, <1>4, <2>3
<1>5. CASE filled # {}
  <2> DEFINE f == Leftmost(filled)
  <2>1. f \in filled /\ \A j \in filled : f <= j
    <3>1. PICK g \in filled : TRUE
      BY <1>5
    <3> DEFINE P == {i \in 0..n : \A j \in filled : j > i} 
    <3>2. filled \subseteq 1..n /\ 0 \in P
      BY <1>2
    <3>3. ASSUME \A k \in filled : ~ \A j \in filled : k <= j PROVE FALSE
      <4>1. ASSUME NEW i \in 0..(n - 1), i \in P PROVE i + 1 \in P
        <5>1. i + 1 \notin filled
          <6>1. ASSUME i + 1 \in filled PROVE FALSE
            <7>1. \A j \in filled : j > i /\ j \in 1..n
              BY <3>2, <4>1
            <7>2. \A j \in filled : i + 1 <= j
              BY <1>2, <7>1
            <7> QED BY <3>3, <6>1, <7>2
          <6> QED BY <6>1
        <5>2. \A j \in filled : j > i /\ j # i + 1 /\ j \in 1..n
          BY <3>2, <4>1, <5>1
        <5>3. \A j \in filled : j > i + 1
          BY <1>2, <5>2
        <5> QED BY <1>2, <5>3
      <4> HIDE DEF P
      <4>2. 0..n \subseteq P
        BY <1>2, <3>2, <4>1, UpTo
      <4>3. n \in P
        BY <1>2, <4>2
      <4>4. g > n /\ g \in 1..n
        BY <3>2, <4>3 DEF P
      <4> QED BY <1>2, <4>4
    <3>4. \E k \in filled : \A j \in filled : k <= j
      BY <3>3
    <3> QED BY <3>4 DEF Leftmost
  <2> HIDE DEF f
  <2>2. f \in 1..n
    BY <2>1
  <2>3. First(p, f)
    <3>1. p[f] # <<>>
      BY <1>3, <2>1, <2>2
    <3>2. \A j \in 1..(f - 1) : p[j] = <<>>
      <4> SUFFICES ASSUME NEW j \in 1..(f - 1) PROVE p[j] = <<>>
        OBVIOUS
      <4>1. j \in 1..n /\ ~(f <= j)
        BY <1>2, <2>2
      <4>2. j \notin filled
        BY <2>1, <4>1
      <4> QED BY <1>3, <4>1, <4>2
    <3> QED BY <1>2, <2>2, <3>1, <3>2 DEF First
  <2>4. Split(line) = SubSeq(p, f, n)
    <3>1. Holds(line, p)
      BY DEF p
    <3>2. \A i \in DOMAIN p : First(p, i) => Split(line) = SubSeq(p, i, Len(p))
      BY <3>1 DEF Holds
    <3> QED BY <1>2, <2>2, <2>3, <3>2
  <2>5. Len(SubSeq(p, f, n)) = n - f + 1
    BY <1>1, <1>2, <2>2
  <2>6. Len(Split(line)) = n - (f - 1)
    BY <1>2, <2>2, <2>4, <2>5
  <2> QED BY <1>5, <2>6 DEF f
<1> QED BY <1>4, <1>5

-------------------------------------------------------------------------------
(* The properties of a tuple follow from the invariant.                    *)
LEMMA StaysInsideHolds == TupleInv => StaysInside
  BY DEF TupleInv, StaysInside, NoneBehind

(* Where a tuple ends whose types are those of its columns. *)
AtEnd == /\ Len(tuple.types) = Len(tuple.columns) /\ Len(tuple.columns) \in Nat
         /\ outcome = "row" /\ Holds(copyString, Printings(Len(tuple.columns)))

LEMMA ExactEnds ==
  ASSUME TupleInv, Exact, outcome # "decoding"
  PROVE  AtEnd
<1> DEFINE m == Len(tuple.columns)
<1>1. Len(tuple.types) = m /\ m \in Nat /\ Agrees(m)
  BY TuplesAreFacts DEF TupleInv, TupleFacts, Exact
<1>2. Common = m
  BY <1>1, CommonIs DEF TupleInv
<1>3. attr \in 1..(m + 1)
  BY <1>1 DEF TupleInv, TypeOK
<1>4. m \in 0..Common
  BY <1>1, <1>2
<1>5. (attr <= m => outcome = "decoding") /\ (attr <= m + 1 => Stands(attr - 1))
  BY <1>1, <1>4 DEF TupleInv, Follows
<1>6. attr = m + 1 /\ attr - 1 = m
  BY <1>1, <1>3, <1>5
<1>7. Holds(copyString, Printings(m))
  <2>1. Stands(m)
    BY <1>1, <1>5, <1>6
  <2> QED BY <2>1 DEF Stands
<1>8. outcome = "row"
  <2>1. outcome \in {"row", "error"} /\ (attr > m => size = 0)
    BY <1>1, <1>2 DEF TupleInv, NoneBehind
  <2>2. attr > m /\ attr > Len(tuple.types)
    BY <1>1, <1>6
  <2>3. outcome # "error"
    BY <2>1, <2>2 DEF TupleInv, Outcomes
  <2> QED BY <2>1, <2>3
<1> QED BY <1>1, <1>7, <1>8 DEF AtEnd

LEMMA ValuesAre ==
  ASSUME tuple \in Tuples
  PROVE  /\ DOMAIN Values = 1..Len(tuple.columns) /\ Len(tuple.columns) \in Nat
         /\ Values = [k \in 1..Len(tuple.columns) |-> Value(tuple.columns[k])]
         /\ \A k \in 1..Len(tuple.columns) : Values[k] = Value(tuple.columns[k])
         /\ Len(Values) = Len(tuple.columns) /\ \E S : Values \in Seq(S)
<1> DEFINE m == Len(tuple.columns)
           S == {Value(tuple.columns[k]) : k \in 1..m}
<1>1. m \in Nat /\ DOMAIN tuple.columns = 1..m
  BY TuplesAreFacts DEF TupleFacts
<1>2. Values = [k \in 1..m |-> Value(tuple.columns[k])]
  BY <1>1 DEF Values
<1>3. Values \in [1..m -> S]
  BY <1>2
<1> HIDE DEF S
<1>4. Values \in Seq(S) /\ Len(Values) = m
  BY <1>1, <1>3
<1> QED BY <1>1, <1>2, <1>4

LEMMA ReadsBackHolds == TupleInv => ReadsBack
<1> SUFFICES ASSUME TupleInv, outcome # "decoding", Exact, tuple.columns # <<>>,
                    Values[1] # <<>>, \A k \in DOMAIN Values : ~HasTab(Values[k])
             PROVE  outcome = "row" /\ ReadBack(copyString) = Values
  BY DEF ReadsBack
<1> DEFINE m == Len(tuple.columns)
<1>1. AtEnd
  BY ExactEnds
<1>2. tuple \in Tuples /\ m \in 1..m /\ 1 \in 1..m
  <2>1. m \in Nat /\ tuple.columns \in Seq(Range(tuple.columns))
    BY TuplesAreFacts DEF TupleInv, TupleFacts, Columns
  <2>2. m # 0
    BY <2>1
  <2> QED BY <2>1, <2>2 DEF TupleInv
<1>3. Value(tuple.columns[1]) # <<>> /\ \A k \in 1..m : ~HasTab(Value(tuple.columns[k]))
  BY <1>2, ValuesAre
<1>4. ReadBack(copyString) = [k \in 1..m |-> Value(tuple.columns[k])]
  BY <1>1, <1>2, <1>3, LineRead DEF AtEnd
<1> QED BY <1>1, <1>2, <1>4, ValuesAre DEF AtEnd

LEMMA BreaksKeptHolds == TupleInv => BreaksKept
<1> SUFFICES ASSUME TupleInv, outcome = "row", Exact, tuple.columns # <<>>
             PROVE  LET filled == {k \in DOMAIN Values : Values[k] # <<>>}
                        lost == IF filled = {} THEN Len(Values) - 1
                                ELSE (CHOOSE k \in filled : \A j \in filled : k <= j) - 1
                    IN  /\ Len(Split(copyString)) = Len(Values) - lost
                        /\ {NL, CR, NUL} \cap Range(copyString) = {}
  BY DEF BreaksKept
<1> DEFINE m == Len(tuple.columns)
           filled == {k \in DOMAIN Values : Values[k] # <<>>}
           lost == IF filled = {} THEN Len(Values) - 1 ELSE Leftmost(filled) - 1
<1>1. AtEnd
  BY ExactEnds
<1>2. tuple \in Tuples /\ m \in 1..m
  <2>1. m \in Nat /\ tuple.columns \in Seq(Range(tuple.columns))
    BY TuplesAreFacts DEF TupleInv, TupleFacts, Columns
  <2>2. m # 0
    BY <2>1
  <2> QED BY <2>1, <2>2 DEF TupleInv
<1>3. filled = {k \in 1..m : Value(tuple.columns[k]) # <<>>} /\ Len(Values) = m
  BY <1>2, ValuesAre
<1> HIDE DEF filled
<1>4. Len(Split(copyString)) = m - IF filled = {} THEN m - 1 ELSE Leftmost(filled) - 1
  BY <1>1, <1>2, <1>3, LineSplit DEF AtEnd
<1>5. Len(Split(copyString)) = Len(Values) - lost
  BY <1>3, <1>4
<1>6. {NL, CR, NUL} \cap Range(copyString) = {}
  <2>1. {NUL, NL, CR} \cap Range(copyString) = {}
    BY <1>1 DEF AtEnd, Holds
  <2> QED BY <2>1
<1> QED BY <1>5, <1>6 DEF filled, Leftmost

LEMMA NoneMissingHolds == TupleInv => NoneMissing
<1> SUFFICES ASSUME TupleInv, outcome = "row", Agrees(Common)
             PROVE  /\ \A k \in Rest : tuple.columns[k] = NullColumn
                    /\ Len(tuple.types) > Len(tuple.columns)
                         => \E k \in DOMAIN tuple.columns : tuple.columns[k] = NullColumn
  BY DEF NoneMissing
<1> DEFINE m == Len(tuple.columns)
           l == Len(tuple.types)
           columns == tuple.columns
<1>1. /\ m \in Nat /\ l \in Nat /\ Columns(columns) /\ Common \in Nat /\ Common <= m
      /\ Common = l \/ Common = m
  BY TuplesAreFacts, CommonIs DEF TupleInv, TupleFacts
<1>2. size = 0 /\ attr = l + 1
  BY DEF TupleInv, Outcomes
<1>3. ASSUME NEW k \in Rest PROVE columns[k] = NullColumn
  <2> DEFINE n == Common
             next == Leading(columns, k)
             data == Leading(columns, k - 1)
  <2>1. k \in (n + 1)..m
    BY <1>3 DEF Rest
  <2>2. /\ n = l /\ n \in 0..Common /\ attr <= n + 1 /\ attr - 1 = n
        /\ k \in 1..m /\ k \in 0..m /\ m \in 0..m /\ k - 1 \in 0..m /\ n \in 0..(k - 1)
    BY <1>1, <1>2, <2>1
  <2>3. Stands(n)
    <3>1. Stands(attr - 1)
      BY <2>2 DEF TupleInv, Follows
    <3> QED BY <2>2, <3>1
  <2>4. offset = Len(Leading(columns, n)) /\ offset + 0 = Len(tuple.bytes) /\ Len(tuple.bytes) \in Nat
    BY <1>2, <2>3, TuplesAreFacts DEF Stands, TupleInv, TypeOK, TupleFacts
  <2>5. Leading(columns, m) = tuple.bytes
    BY <1>1, LeadingFirst DEF Agrees, Laid
  <2>6. Within(Leading(columns, n), 0, data) /\ Within(next, 0, Leading(columns, m))
    BY <1>1, <2>2, LeadingWithin
  <2>7. Grown(next, data, columns[k])
    BY <1>1, <2>2, LeadingOne DEF Laying
  <2> HIDE DEF next, data
  <2>8. /\ Len(Leading(columns, n)) <= Len(data) /\ Len(next) <= Len(tuple.bytes)
        /\ Len(data) \in Nat /\ Len(next) \in Nat
    BY <2>5, <2>6 DEF Within
  <2>9. Len(tuple.bytes) <= Len(data)
    BY <2>4, <2>8
  <2>10. ~(Len(data) < Len(next))
    BY <2>4, <2>8, <2>9
  <2> QED BY <2>7, <2>10 DEF Grown
<1>4. ASSUME l > m PROVE \E k \in DOMAIN columns : columns[k] = NullColumn
  <2>1. attr > m + 1
    BY <1>1, <1>2, <1>4
  <2> QED BY <2>1 DEF TupleInv, NoneBehind
<1> QED BY <1>3, <1>4

LEMMA IgnoresRestHolds == TupleInv => IgnoresRest
<1> DEFINE n == Len(tuple.types) - 1
           columns == tuple.columns
<1> SUFFICES ASSUME TupleInv, outcome # "decoding", tuple.types # <<>>, Last(tuple.types) = "~",
                    Agrees(n), n < Len(columns), columns[n + 1] # NullColumn
             PROVE  /\ outcome = "row"
                    /\ n > 0 /\ Values[1] # <<>> /\ (\A k \in 1..n : ~HasTab(Values[k]))
                         => ReadBack(copyString) = SubSeq(Values, 1, n)
  BY DEF IgnoresRest
<1>1. /\ tuple \in Tuples /\ Len(columns) \in Nat /\ Len(tuple.types) \in Nat \ {0}
      /\ Last(tuple.types) = tuple.types[n + 1]
  <2>1. tuple \in Tuples /\ Len(columns) \in Nat /\ tuple.types \in Seq(Types)
    BY TuplesAreFacts DEF TupleInv, TupleFacts
  <2>2. Len(tuple.types) \in Nat \ {0}
    BY <2>1
  <2>3. n + 1 = Len(tuple.types)
    BY <2>2
  <2> QED BY <2>1, <2>2, <2>3 DEF Last
<1>2. n >= 0 /\ n \in Nat
  BY <1>1
<1>3. Ignoring(n)
  BY <1>1, <1>2 DEF Ignoring
<1>4. outcome = "row"
  BY <1>3 DEF TupleInv, Ignored
<1>5. attr = n + 2
  <2>1. attr = Len(tuple.types) + 1
    BY <1>4 DEF TupleInv, Outcomes
  <2> QED BY <1>1, <2>1
<1>6. Holds(copyString, Printings(n))
  BY <1>3, <1>5 DEF TupleInv, Ignored
<1>7. ASSUME n > 0, Values[1] # <<>>, \A k \in 1..n : ~HasTab(Values[k])
      PROVE  ReadBack(copyString) = SubSeq(Values, 1, n)
  <2> DEFINE v == Values
             s == SubSeq(v, 1, n)
  <2>1. n \in 1..Len(columns) /\ 1 \in 1..Len(columns) /\ \A k \in 1..n : k \in 1..Len(columns)
    BY <1>1, <1>2, <1>7
  <2>2. \A k \in 1..Len(columns) : v[k] = Value(columns[k])
    BY <1>1, ValuesAre
  <2>3. Value(columns[1]) # <<>> /\ \A k \in 1..n : ~HasTab(Value(columns[k]))
    BY <1>7, <2>1, <2>2
  <2>4. ReadBack(copyString) = [k \in 1..n |-> Value(columns[k])]
    BY <1>1, <1>6, <2>1, <2>3, LineRead
  <2>5. PICK S : v \in Seq(S)
    BY <1>1, ValuesAre
  <2>6. Len(v) = Len(columns)
    BY <1>1, ValuesAre
  <2> HIDE DEF v
  <2>7. s = [i \in 1..n |-> v[i]]
    <3>1. s = [i \in 1..(n - 1 + 1) |-> v[i + 1 - 1]]
      BY <1>2, <2>5, SMT DEF s
    <3>2. n - 1 + 1 = n /\ \A i \in 1..n : i + 1 - 1 = i
      BY <1>2
    <3> QED BY <3>1, <3>2
  <2>8. [i \in 1..n |-> v[i]] = [k \in 1..n |-> Value(columns[k])]
    BY <2>1, <2>2
  <2> QED BY <2>4, <2>7, <2>8 DEF v
<1> QED BY <1>4, <1>7

-------------------------------------------------------------------------------
(* Dates and times.                                                        *)

(* A number of any width is a number. *)
LEMMA SignedIsInt ==
  ASSUME NEW s \in Seq(Byte), Len(s) # 0
  PROVE  Signed(s) \in Int
<1> DEFINE n == Len(s)
           At(i) == IF i = n /\ s[i] >= 128 THEN s[i] - 256 ELSE s[i]
           Makes(f) == f = [i \in 0..n |-> IF i = 0 THEN 0 ELSE 256 * f[i - 1] + At(n - i + 1)]
           acc == CHOOSE f : Makes(f)
           g == [z \in Int \X (1..n) |-> 256 * z[1] + At(n - z[2] + 1)]
<1>1. n \in Nat /\ \A i \in 1..n : At(i) \in Int
  <2>1. n \in Nat /\ \A i \in 1..n : s[i] \in Byte
    BY ElementOfSeq
  <2>2. \A x \in Byte : x \in Int
    BY DEF Byte
  <2> HIDE DEF n
  <2>3. \A i \in 1..n : At(i) \in Int
    BY <2>1, <2>2
  <2> QED BY <2>1, <2>3
<1> HIDE DEF n, At
<1>2. \A x \in Int, i \in 1..n : 256 * x + At(n - i + 1) \in Int
  <2> SUFFICES ASSUME NEW x \in Int, NEW i \in 1..n PROVE 256 * x + At(n - i + 1) \in Int
    OBVIOUS
  <2>1. n - i + 1 \in 1..n
    BY <1>1
  <2>2. At(n - i + 1) \in Int
    BY <1>1, <2>1
  <2> QED BY <2>2
<1>3. g \in [Int \X (1..n) -> Int] /\ \A x \in Int, i \in 1..n : g[<<x, i>>] = 256 * x + At(n - i + 1)
  <2>1. \A x \in Int, i \in 1..n : g[<<x, i>>] = 256 * x + At(n - i + 1)
    OBVIOUS
  <2>2. \A z \in Int \X (1..n) : 256 * z[1] + At(n - z[2] + 1) \in Int
    <3> SUFFICES ASSUME NEW z \in Int \X (1..n) PROVE 256 * z[1] + At(n - z[2] + 1) \in Int
      OBVIOUS
    <3>1. z[1] \in Int /\ z[2] \in 1..n
      OBVIOUS
    <3> QED BY <1>2, <3>1
  <2> QED BY <2>1, <2>2
<1> HIDE DEF g
<1>4. PICK h : Recurs(h, n, Int, 0, g)
  <2>1. 0 \in Int
    OBVIOUS
  <2> QED BY <1>1, <1>3, <2>1, Recursion
<1>5. h \in [0..n -> Int] /\ h[0] = 0 /\ \A i \in 1..n : h[i] = g[<<h[i - 1], i>>]
  BY <1>4 DEF Recurs
<1>6. \A i \in 1..n : i - 1 \in 0..n /\ h[i] = 256 * h[i - 1] + At(n - i + 1)
  <2> SUFFICES ASSUME NEW i \in 1..n PROVE i - 1 \in 0..n /\ h[i] = 256 * h[i - 1] + At(n - i + 1)
    OBVIOUS
  <2>1. i - 1 \in 0..n
    BY <1>1
  <2>2. h[i - 1] \in Int
    BY <1>5, <2>1
  <2>3. h[i] = g[<<h[i - 1], i>>]
    BY <1>5
  <2>4. g[<<h[i - 1], i>>] = 256 * h[i - 1] + At(n - i + 1)
    BY <1>3, <2>2
  <2> QED BY <2>1, <2>3, <2>4
<1>7. Makes(h)
  <2>1. \A i \in 0..n : i = 0 \/ i \in 1..n
    BY <1>1
  <2>2. \A i \in 0..n : h[i] = IF i = 0 THEN 0 ELSE 256 * h[i - 1] + At(n - i + 1)
    BY <1>1, <1>5, <1>6, <2>1
  <2> QED BY <1>5, <2>2
<1>8. Makes(acc)
  <2> HIDE DEF Makes
  <2> QED BY <1>7
<1>9. Signed(s) = acc[n]
  BY DEF Signed, n, At
<1>10. acc[0] = 0 /\ \A i \in 1..n : i \in 0..n /\ acc[i] = 256 * acc[i - 1] + At(n - i + 1)
  <2>1. acc = [i \in 0..n |-> IF i = 0 THEN 0 ELSE 256 * acc[i - 1] + At(n - i + 1)]
    BY <1>8
  <2> HIDE DEF acc
  <2>2. 0 \in 0..n /\ \A i \in 1..n : i \in 0..n /\ i # 0
    BY <1>1
  <2> QED BY <2>1, <2>2
<1> HIDE DEF acc, Makes
<1> DEFINE P == {i \in 0..n : acc[i] \in Int}
<1>11. 0 \in P
  BY <1>1, <1>10
<1>12. ASSUME NEW i \in 0..(n - 1), i \in P PROVE i + 1 \in P
  <2>1. i + 1 \in 1..n /\ (i + 1) - 1 = i
    BY <1>1
  <2>2. acc[i] \in Int
    BY <1>12
  <2>3. acc[i + 1] = 256 * acc[i] + At(n - (i + 1) + 1) /\ i + 1 \in 0..n
    BY <1>10, <2>1
  <2> QED BY <1>2, <2>1, <2>2, <2>3
<1> HIDE DEF P
<1>13. 0..n \subseteq P
  BY <1>1, <1>11, <1>12, UpTo
<1>14. n \in P
  BY <1>1, <1>13
<1> QED BY <1>9, <1>14 DEF P

(* Quotient and remainder of a number below zero, too. *)
LEMMA DivModInt ==
  ASSUME NEW a \in Int, NEW n \in Nat \ {0}
  PROVE  /\ a \div n \in Int
         /\ a % n \in 0..(n - 1)
         /\ a = (a \div n) * n + (a % n)
<1>1. a \div n \in Int /\ a % n \in 0..(n - 1)
  BY SMTT(30)
<1>2. a = n * (a \div n) + (a % n)
  BY SMTT(30)
<1>3. n * (a \div n) = (a \div n) * n
  BY <1>1, SMTT(30)
<1> QED BY <1>1, <1>2, <1>3

LEMMA DivModIntUnique ==
  ASSUME NEW q \in Int, NEW n \in Nat \ {0}, NEW r \in 0..(n - 1), NEW a \in Int, a = q * n + r
  PROVE  a \div n = q /\ a % n = r
<1> DEFINE d == a \div n
           m == a % n
<1>2. d \in Int /\ m \in 0..(n - 1) /\ a = d * n + m
  BY DivModInt
<1> HIDE DEF d, m
<1>4. ~(d < q)
  <2> SUFFICES ASSUME d < q PROVE FALSE
    OBVIOUS
  <2>1. d + 1 <= q
    BY <1>2
  <2>2. (d + 1) * n <= q * n
    BY <1>2, <2>1, SMTT(30)
  <2>3. (d + 1) * n = d * n + n /\ d * n \in Int /\ q * n \in Int
    BY <1>2, SMTT(30)
  <2> QED BY <1>2, <2>2, <2>3
<1>5. ~(q < d)
  <2> SUFFICES ASSUME q < d PROVE FALSE
    OBVIOUS
  <2>1. q + 1 <= d
    BY <1>2
  <2>2. (q + 1) * n <= d * n
    BY <1>2, <2>1, SMTT(30)
  <2>3. (q + 1) * n = q * n + n /\ d * n \in Int /\ q * n \in Int
    BY <1>2, SMTT(30)
  <2> QED BY <1>2, <2>2, <2>3
<1>6. d = q
  BY <1>2, <1>4, <1>5
<1>7. m = r
  <2>1. q * n \in Int
    BY SMTT(30)
  <2> QED BY <1>2, <1>6, <2>1
<1> QED BY <1>6, <1>7 DEF d, m

(* The time of day.                                                        *)
LEMMA ClockTrue ==
  ASSUME NEW usecs \in Int, usecs \in 0..UsecPerDay
  PROVE  IsClock(Clock(usecs), usecs)
<1> DEFINE U == UsecPerSec
           secs == usecs \div U
           usec == usecs % U
<1>1. U \in Nat \ {0} /\ usecs \in Nat /\ usecs <= 86400 * U
  <2>1. U \in Nat \ {0}
    BY UsecAssumption
  <2> HIDE DEF U
  <2>2. 86400 * U \in Nat
    BY <2>1, SMT
  <2>3. UsecPerDay = 86400 * U
    BY SMT DEF UsecPerDay, SecPerDay, U
  <2> QED BY <2>1, <2>2, <2>3, SMT
<1>2. secs \in Nat /\ usec \in 0..(U - 1) /\ usecs = secs * U + usec
  <2>1. usecs \in Nat /\ U \in Nat \ {0}
    BY <1>1
  <2> HIDE DEF U
  <2> QED BY ONLY <2>1, DivMod
<1>3. Quot(usecs, U) = secs /\ Rem(usecs, U) = usec
  <2>1. Quot(usecs, U) = secs
    BY <1>1, SMT DEF Quot
  <2>2. Rem(usecs, U) = usecs - secs * U
    BY <2>1, SMT DEF Rem
  <2> HIDE DEF U, secs, usec
  <2>3. secs * U \in Int
    BY <1>1, <1>2, SMT
  <2> QED BY <1>1, <1>2, <2>1, <2>2, <2>3, SMT
<1> HIDE DEF secs, usec
<1>4. secs <= 86400
  <2> HIDE DEF U
  <2> SUFFICES ASSUME secs >= 86401 PROVE FALSE
    BY <1>2, SMT
  <2>1. secs * U >= 86401 * U
    BY <1>1, <1>2, SMTT(30)
  <2>2. secs * U \in Int /\ 86401 * U = 86400 * U + U
    BY <1>1, <1>2, SMT
  <2> QED BY <1>1, <1>2, <2>1, <2>2, SMT
<1> DEFINE h == (secs \div 60) \div 60
           mi == (secs \div 60) % 60
           se == secs % 60
<1>5. /\ h \in 0..24 /\ mi \in 0..59 /\ se \in 0..59 /\ (h * 60 + mi) * 60 + se = secs
  BY <1>2, <1>4, SMT
<1>6. Quot(Quot(secs, 60), 60) = h /\ Rem(Quot(secs, 60), 60) = mi /\ Rem(secs, 60) = se
  BY <1>2, SMT DEF Quot, Rem
<1> HIDE DEF h, mi, se
<1>7. Clock(usecs) = [hour |-> h, minute |-> mi, second |-> se, usec |-> usec]
  BY <1>3, <1>6 DEF Clock, U
<1>8. usec \in 0..(UsecPerSec - 1) /\ usecs = ((h * 60 + mi) * 60 + se) * UsecPerSec + usec
  BY <1>2, <1>5 DEF U
<1> QED BY <1>5, <1>7, <1>8 DEF IsClock

DayLength == UsecPerDay \in Nat \ {0}
LEMMA DayHasLength == DayLength
<1>1. UsecPerSec \in Nat \ {0}
  BY UsecAssumption
<1>2. 86400 * UsecPerSec \in Nat \ {0}
  BY <1>1, SMT
<1> QED BY <1>2, SMT DEF DayLength, UsecPerDay, SecPerDay

(* A timestamp's day and what is left of it, before 2000, too.             *)
LEMMA DayAndTimeTrue ==
  ASSUME NEW stamp \in Int
  PROVE  /\ DayAndTime(stamp)[1] = stamp \div UsecPerDay
         /\ DayAndTime(stamp)[2] = stamp % UsecPerDay
         /\ stamp \div UsecPerDay \in Int /\ stamp % UsecPerDay \in 0..(UsecPerDay - 1)
<1> DEFINE D == UsecPerDay
           day == Quot(stamp, D)
           rest == stamp - day * D
           parts == DayAndTime(stamp)
<1>1. D \in Nat \ {0}
  BY DayHasLength DEF DayLength
<1>2. parts = IF rest < 0 THEN <<day - 1, rest + D>> ELSE <<day, rest>>
  BY DEF DayAndTime
<1>3. /\ stamp \div D \in Int /\ stamp % D \in 0..(D - 1) /\ stamp = (stamp \div D) * D + (stamp % D)
  <2> HIDE DEF D
  <2> QED BY <1>1, DivModInt
<1>4. CASE stamp >= 0
  <2>1. day = stamp \div D
    BY <1>4 DEF Quot
  <2> DEFINE q == stamp \div D
             r == stamp % D
  <2> HIDE DEF D, parts, day, q, r
  <2>2. q * D \in Int
    BY <1>1, <1>3, SMT DEF q
  <2>3. rest = r
    BY <1>1, <1>3, <2>1, <2>2, SMT DEF q, r
  <2>4. ~(rest < 0)
    BY <1>1, <1>3, <2>3, SMT DEF r
  <2>5. parts = <<q, r>>
    BY <1>2, <2>1, <2>3, <2>4 DEF q
  <2> QED BY <1>3, <2>5 DEF parts, D, q, r
<1>5. CASE stamp < 0
  <2> DEFINE q == (-stamp) \div D
             r == (-stamp) % D
  <2>1. day = -q
    BY <1>5, SMT DEF Quot
  <2>2. q \in Int /\ r \in 0..(D - 1) /\ -stamp = q * D + r
    <3>1. -stamp \in Int
      OBVIOUS
    <3> HIDE DEF D
    <3> QED BY <1>1, <3>1, DivModInt
  <2> HIDE DEF D, parts, day, q, r
  <2>3. q * D \in Int /\ (-q) * D = -(q * D) /\ (-q - 1) * D = -(q * D) - D
    BY <1>1, <2>2, SMTT(30)
  <2>4. rest = -r
    BY <1>1, <2>1, <2>2, <2>3, SMT
  <2>5. CASE r = 0
    <3> DEFINE p == -q
    <3>1. stamp = p * D + r /\ p \in Int
      BY <1>1, <2>2, <2>3, <2>5, SMT
    <3>2. stamp \div D = p /\ stamp % D = r
      <4> HIDE DEF p
      <4> QED BY <1>1, <2>2, <3>1, DivModIntUnique
    <3>3. parts = <<-q, 0>>
      BY <1>2, <2>1, <2>4, <2>5, SMT
    <3> QED BY <1>3, <2>5, <3>2, <3>3 DEF parts, D
  <2>6. CASE r # 0
    <3> DEFINE p == -q - 1
               t == D - r
    <3>1. stamp = p * D + t /\ t \in 0..(D - 1) /\ p \in Int
      BY <1>1, <2>2, <2>3, <2>6, SMT
    <3>2. stamp \div D = p /\ stamp % D = t
      <4> HIDE DEF p, t
      <4> QED BY <1>1, <3>1, DivModIntUnique
    <3>3. rest < 0 /\ rest + D = D - r
      BY <1>1, <2>2, <2>4, <2>6, SMT
    <3> HIDE DEF rest
    <3>4. parts = <<-q - 1, D - r>>
      BY <1>2, <2>1, <3>3
    <3> QED BY <1>3, <3>2, <3>4 DEF parts, D
  <2> QED BY <2>2, <2>5, <2>6
<1> QED BY <1>4, <1>5

(* The zone of a time: hours and minutes of what is west, without sign.    *)
IsZone(text, west) ==
  LET shown == (text.zoneHour * 60 + text.zoneMinute) * IF text.east THEN -60 ELSE 60
  IN  text.zoneMinute < 60 /\ west - shown \in IF west < 0 THEN -59..0 ELSE 0..59
LEMMA ZoneTrue ==
  ASSUME NEW bytes, NEW west \in Int, west = Signed(SubSeq(bytes, 9, 12))
  PROVE  IsZone(TimeTzText(bytes), west) /\ TimeTzText(bytes).clock = Clock(Signed(SubSeq(bytes, 1, 8)))
<1> DEFINE zone == -Quot(west, 60)
           Abs(n) == IF n < 0 THEN -n ELSE n
           hour == Abs(Quot(zone, 60))
           minute == Abs(Rem(zone, 60))
           clock == Clock(Signed(SubSeq(bytes, 1, 8)))
<1>1. TimeTzText(bytes) = [clock |-> clock, east |-> zone > 0, zoneHour |-> hour, zoneMinute |-> minute]
  BY DEF TimeTzText
<1>2. zone \in Int /\ west + 60 * zone \in IF west < 0 THEN -59..0 ELSE 0..59
  BY SMT DEF Quot
<1> HIDE DEF zone
<1>3. hour \in Nat /\ minute \in Nat /\ minute < 60 /\ hour * 60 + minute = Abs(zone)
  BY <1>2, SMT DEF Quot, Rem
<1> HIDE DEF hour, minute, clock
<1>4. (hour * 60 + minute) * (IF zone > 0 THEN -60 ELSE 60) = -60 * zone
  <2>1. hour * 60 + minute = IF zone < 0 THEN -zone ELSE zone
    BY <1>3
  <2> QED BY <1>2, <1>3, <2>1, SMT
<1>5. west - (-60 * zone) = west + 60 * zone
  BY <1>2, SMT
<1> DEFINE text == TimeTzText(bytes)
<1>6. /\ text.zoneHour = hour /\ text.zoneMinute = minute /\ text.east = (zone > 0) /\ text.clock = clock
  BY <1>1
<1> HIDE DEF text
<1>7. (text.zoneHour * 60 + text.zoneMinute) * (IF text.east THEN -60 ELSE 60) = -60 * zone
  BY <1>4, <1>6
<1>8. IsZone(text, west)
  BY <1>2, <1>3, <1>5, <1>6, <1>7 DEF IsZone
<1> QED BY <1>6, <1>8 DEF text, clock

(* Where j2date has come to: r days behind the first of a March of a year  *)
(* divisible by 400, in its century c, the year s behind it, and the day k *)
(* of that year, in a calendar with a leap year every four years.          *)
InCycle(r, c, s, y0, k) ==
  /\ c \in 0..3 /\ y0 \in 0..3 /\ s \in 0..400 /\ s % 4 = y0
  /\ k \in Nat /\ k <= IF y0 = 0 THEN 365 ELSE 364
  /\ r + 60 + c = 365 * s + (s + 3) \div 4 + k
  /\ 36524 * c <= r /\ (c < 3 => r < 36524 * (c + 1))

CycleOf(r, c, rest, t, y0) ==
  /\ rest \in Nat /\ rest <= 1460 /\ t \in Nat /\ t <= 100
  /\ InCycle(r, c, 4 * t + y0, y0, rest - 365 * y0 - (IF y0 = 0 THEN 0 ELSE 1))

LEMMA CycleSplit ==
  ASSUME NEW r \in Nat, r <= 146096, NEW c \in Int, c = (4 * r + 3) \div 146097,
         NEW rest \in Int, rest = (r + 60 + c) % 1461, NEW t \in Int, t = (r + 60 + c) \div 1461,
         NEW y0 \in Int, y0 = (rest * 4) \div 1461
  PROVE  CycleOf(r, c, rest, t, y0)
<1> DEFINE u == r + 60 + c
           s == 4 * t + y0
           k == rest - 365 * y0 - (IF y0 = 0 THEN 0 ELSE 1)
<1>1. /\ c \in 0..3 /\ 146097 * c <= 4 * r + 3 /\ 4 * r + 3 < 146097 * c + 146097
  BY SMT
<1>2. /\ u \in Nat /\ u <= 146159 /\ t \in Nat /\ t <= 100 /\ rest \in Nat /\ rest <= 1460
      /\ u = 1461 * t + rest
  BY <1>1, SMT
<1>3. 36524 * c <= r /\ (c < 3 => r < 36524 * (c + 1))
  BY <1>1, SMT
<1>4. t = 100 => rest <= 59
  BY <1>1, <1>2, SMT
<1>5. y0 \in 0..3 /\ 1461 * y0 <= 4 * rest /\ 4 * rest < 1461 * y0 + 1461
  BY <1>2, SMT
<1>6. s \in Nat /\ s <= 400
  BY <1>2, <1>4, <1>5, SMT
<1>7. s % 4 = y0 /\ (s + 3) \div 4 = t + (IF y0 = 0 THEN 0 ELSE 1)
  BY <1>2, <1>5, SMT
<1>8. k \in Nat /\ k <= IF y0 = 0 THEN 365 ELSE 364
  BY <1>2, <1>5, SMT
<1>9. r + 60 + c = 365 * s + (s + 3) \div 4 + k
  BY <1>2, <1>5, <1>7, SMT DEF u
<1> HIDE DEF s, k, u
<1>10. InCycle(r, c, s, y0, k)
  BY <1>1, <1>3, <1>5, <1>6, <1>7, <1>8, <1>9 DEF InCycle
<1> QED BY <1>2, <1>10 DEF s, k, CycleOf

(* The month i, counted from March, and the day d of it that comes e days  *)
(* after the first of March; j2date finds both by a multiplication.        *)
MarchBased(i, d, e) ==
  /\ i \in 1..12 /\ d \in Nat /\ d >= 1
  /\ d <= <<31, 30, 31, 30, 31, 31, 30, 31, 30, 31, 31, 29>>[i]
  /\ e = <<0, 31, 61, 92, 122, 153, 184, 214, 245, 275, 306, 337>>[i] + d - 1

LEMMA MonthSplit ==
  ASSUME NEW e \in Nat, e <= 365,
         NEW month, month = ((e + 123) * 2141) \div 65536
  PROVE  MarchBased(month - 3, (e + 123) - (7834 * month) \div 256, e)
<1>1. CASE 0 <= e /\ e < 31
  <2>1. month = 4
    BY <1>1, SMT
  <2> QED BY <1>1, <2>1, SMT DEF MarchBased
<1>2. CASE 31 <= e /\ e < 61
  <2>1. month = 5
    BY <1>2, SMT
  <2> QED BY <1>2, <2>1, SMT DEF MarchBased
<1>3. CASE 61 <= e /\ e < 92
  <2>1. month = 6
    BY <1>3, SMT
  <2> QED BY <1>3, <2>1, SMT DEF MarchBased
<1>4. CASE 92 <= e /\ e < 122
  <2>1. month = 7
    BY <1>4, SMT
  <2> QED BY <1>4, <2>1, SMT DEF MarchBased
<1>5. CASE 122 <= e /\ e < 153
  <2>1. month = 8
    BY <1>5, SMT
  <2> QED BY <1>5, <2>1, SMT DEF MarchBased
<1>6. CASE 153 <= e /\ e < 184
  <2>1. month = 9
    BY <1>6, SMT
  <2> QED BY <1>6, <2>1, SMT DEF MarchBased
<1>7. CASE 184 <= e /\ e < 214
  <2>1. month = 10
    BY <1>7, SMT
  <2> QED BY <1>7, <2>1, SMT DEF MarchBased
<1>8. CASE 214 <= e /\ e < 245
  <2>1. month = 11
    BY <1>8, SMT
  <2> QED BY <1>8, <2>1, SMT DEF MarchBased
<1>9. CASE 245 <= e /\ e < 275
  <2>1. month = 12
    BY <1>9, SMT
  <2> QED BY <1>9, <2>1, SMT DEF MarchBased
<1>10. CASE 275 <= e /\ e < 306
  <2>1. month = 13
    BY <1>10, SMT
  <2> QED BY <1>10, <2>1, SMT DEF MarchBased
<1>11. CASE 306 <= e /\ e < 337
  <2>1. month = 14
    BY <1>11, SMT
  <2> QED BY <1>11, <2>1, SMT DEF MarchBased
<1>12. CASE 337 <= e /\ e < 366
  <2>1. month = 15
    BY <1>12, SMT
  <2> QED BY <1>12, <2>1, SMT DEF MarchBased
<1> QED BY <1>1, <1>2, <1>3, <1>4, <1>5, <1>6, <1>7, <1>8, <1>9, <1>10, <1>11, <1>12, SMT

(* Day d of month m comes k days after the first of January, in a year     *)
(* with a 29th of February if y0 = 0.                                      *)
InYear(m, d, k, y0) ==
  /\ m \in 1..12 /\ d \in Nat /\ d >= 1
  /\ d <= <<31, IF y0 = 0 THEN 29 ELSE 28, 31, 30, 31, 30, 31, 31, 30, 31, 30, 31>>[m]
  /\ k = <<0, 31, 59, 90, 120, 151, 181, 212, 243, 273, 304, 334>>[m]
         + (IF m > 2 /\ y0 = 0 THEN 1 ELSE 0) + d - 1

LEMMA FromJanuary ==
  ASSUME NEW k \in Nat, NEW y0 \in 0..3, k <= IF y0 = 0 THEN 365 ELSE 364,
         NEW e, e = IF y0 = 0 THEN (k + 306) % 366 ELSE (k + 306) % 365,
         NEW i, NEW d, MarchBased(i, d, e), NEW m, m = ((i + 3 + 10) % 12) + 1
  PROVE  InYear(m, d, k, y0)
<1>1. i \in 1..12
  BY DEF MarchBased
<1>2. e = IF k <= (IF y0 = 0 THEN 59 ELSE 58) THEN k + 306 ELSE IF y0 = 0 THEN k - 60 ELSE k - 59
  BY SMT
<1>3. CASE i = 1
  <2>1. m = 3
    BY <1>3, SMT
  <2> QED BY <1>1, <1>2, <1>3, <2>1, SMT DEF MarchBased, InYear
<1>4. CASE i = 2
  <2>1. m = 4
    BY <1>4, SMT
  <2> QED BY <1>1, <1>2, <1>4, <2>1, SMT DEF MarchBased, InYear
<1>5. CASE i = 3
  <2>1. m = 5
    BY <1>5, SMT
  <2> QED BY <1>1, <1>2, <1>5, <2>1, SMT DEF MarchBased, InYear
<1>6. CASE i = 4
  <2>1. m = 6
    BY <1>6, SMT
  <2> QED BY <1>1, <1>2, <1>6, <2>1, SMT DEF MarchBased, InYear
<1>7. CASE i = 5
  <2>1. m = 7
    BY <1>7, SMT
  <2> QED BY <1>1, <1>2, <1>7, <2>1, SMT DEF MarchBased, InYear
<1>8. CASE i = 6
  <2>1. m = 8
    BY <1>8, SMT
  <2> QED BY <1>1, <1>2, <1>8, <2>1, SMT DEF MarchBased, InYear
<1>9. CASE i = 7
  <2>1. m = 9
    BY <1>9, SMT
  <2> QED BY <1>1, <1>2, <1>9, <2>1, SMT DEF MarchBased, InYear
<1>10. CASE i = 8
  <2>1. m = 10
    BY <1>10, SMT
  <2> QED BY <1>1, <1>2, <1>10, <2>1, SMT DEF MarchBased, InYear
<1>11. CASE i = 9
  <2>1. m = 11
    BY <1>11, SMT
  <2> QED BY <1>1, <1>2, <1>11, <2>1, SMT DEF MarchBased, InYear
<1>12. CASE i = 10
  <2>1. m = 12
    BY <1>12, SMT
  <2> QED BY <1>1, <1>2, <1>12, <2>1, SMT DEF MarchBased, InYear
<1>13. CASE i = 11
  <2>1. m = 1
    BY <1>13, SMT
  <2> QED BY <1>1, <1>2, <1>13, <2>1, SMT DEF MarchBased, InYear
<1>14. CASE i = 12
  <2>1. m = 2
    BY <1>14, SMT
  <2> QED BY <1>1, <1>2, <1>14, <2>1, SMT DEF MarchBased, InYear
<1> QED BY <1>1, <1>3, <1>4, <1>5, <1>6, <1>7, <1>8, <1>9, <1>10, <1>11, <1>12, <1>13, <1>14, SMT

(* A year of 400 with the days before it: a 29th of February is missing in *)
(* the first three of the years divisible by 100, and the century is       *)
(* counted from the day behind it.                                         *)
LEMMA CenturyIs ==
  ASSUME NEW r \in Nat, r <= 146096, NEW c, NEW s, NEW y0, NEW k, InCycle(r, c, s, y0, k)
  PROVE  /\ s % 100 # 0 => c = (s - 1) \div 100
         /\ s \in {100, 200, 300} => k # 59 /\ c = ((s - 1) \div 100) + (IF k >= 60 THEN 1 ELSE 0)
         /\ s = 0 => c = 0
         /\ s = 400 => c = 3
         /\ s % 100 = 0 => s \in {0, 100, 200, 300, 400} /\ y0 = 0
<1>1. /\ c \in 0..3 /\ y0 \in 0..3 /\ s \in Nat /\ s <= 400 /\ s % 4 = y0
      /\ k \in Nat /\ k <= IF y0 = 0 THEN 365 ELSE 364
      /\ r + 60 + c = 365 * s + (s + 3) \div 4 + k
      /\ 36524 * c <= r /\ (c < 3 => r < 36524 * (c + 1))
  BY SMT DEF InCycle
<1>2. s % 100 # 0 => c = (s - 1) \div 100
  BY <1>1, SMTT(30)
<1>3. s \in {100, 200, 300} => k # 59 /\ c = ((s - 1) \div 100) + (IF k >= 60 THEN 1 ELSE 0)
  BY <1>1, SMTT(30)
<1>4. (s = 0 => c = 0) /\ (s = 400 => c = 3)
  BY <1>1, SMTT(30)
<1>5. s % 100 = 0 => s \in {0, 100, 200, 300, 400} /\ y0 = 0
  BY <1>1, SMTT(30)
<1> QED BY <1>2, <1>3, <1>4, <1>5

(* The years of 400 behind a year divisible by 400 are those of any other. *)
LEMMA YearsRepeat ==
  ASSUME NEW a \in Int, NEW s \in Nat, s <= 400, NEW y, y = 400 * a + s
  PROVE  /\ Multiples(y, 4) = 100 * a + (s - 1) \div 4
         /\ Multiples(y, 100) = 4 * a + (s - 1) \div 100
         /\ Multiples(y, 400) = a + (s - 1) \div 400
         /\ LeapYear(y) <=> s % 4 = 0 /\ s \notin {100, 200, 300}
<1>1. Multiples(y, 4) = 100 * a + (s - 1) \div 4
  BY SMTT(30) DEF Multiples
<1>2. Multiples(y, 100) = 4 * a + (s - 1) \div 100
  BY SMTT(30) DEF Multiples
<1>3. Multiples(y, 400) = a + (s - 1) \div 400
  BY SMTT(30) DEF Multiples
<1>4. LeapYear(y) <=> s % 4 = 0 /\ s \notin {100, 200, 300}
  BY SMTT(30) DEF LeapYear
<1> QED BY <1>1, <1>2, <1>3, <1>4

IsDate(y, m, d, n) == /\ y \in Int /\ m \in 1..12 /\ d \in 1..MonthLength(y, m)
                      /\ DaysFrom2000(y, m, d) = n

LEMMA DayOfCycle ==
  ASSUME NEW r \in Nat, r <= 146096, NEW c, NEW s \in Int, NEW y0, NEW k, InCycle(r, c, s, y0, k),
         NEW m, NEW d, InYear(m, d, k, y0), NEW a \in Int, NEW y \in Int, y = 400 * a + s
  PROVE  IsDate(y, m, d, 146097 * (a - 5) + r + 60)
<1>1. /\ c \in 0..3 /\ y0 \in 0..3 /\ s \in Nat /\ s <= 400 /\ s % 4 = y0
      /\ k \in Nat /\ k <= IF y0 = 0 THEN 365 ELSE 364
      /\ r + 60 + c = 365 * s + (s + 3) \div 4 + k
  BY SMT DEF InCycle
<1>2. /\ Multiples(y, 4) = 100 * a + (s - 1) \div 4
      /\ Multiples(y, 100) = 4 * a + (s - 1) \div 100
      /\ Multiples(y, 400) = a + (s - 1) \div 400
      /\ LeapYear(y) <=> s % 4 = 0 /\ s \notin {100, 200, 300}
  BY <1>1, YearsRepeat, SMT
<1>3. /\ s % 100 # 0 => c = (s - 1) \div 100
      /\ s \in {100, 200, 300} => k # 59 /\ c = ((s - 1) \div 100) + (IF k >= 60 THEN 1 ELSE 0)
      /\ s = 0 => c = 0
      /\ s = 400 => c = 3
      /\ s % 100 = 0 => s \in {0, 100, 200, 300, 400} /\ y0 = 0
  BY CenturyIs, SMT
<1>4. m \in 1..12 /\ d \in Nat /\ d >= 1
  BY SMT DEF InYear
<1>5. d <= MonthLength(y, m)
  <2>1. CASE m = 2
    <3>1. d <= (IF y0 = 0 THEN 29 ELSE 28) /\ k = 31 + d - 1
      BY <2>1, SMT DEF InYear
    <3>2. MonthLength(y, m) = IF LeapYear(y) THEN 29 ELSE 28
      BY <2>1, SMT DEF MonthLength
    <3> QED BY <1>1, <1>2, <1>3, <1>4, <3>1, <3>2, SMT
  <2>2. CASE m # 2
    <3>1. d <= MonthLength(y, m)
      BY <1>4, <2>2, SMT DEF InYear, MonthLength
    <3> QED BY <3>1
  <2> QED BY <2>1, <2>2
<1>6. MonthLength(y, m) \in Nat
  BY <1>4, SMT DEF MonthLength
<1>7. /\ DaysBefore(y, m) \in Int
      /\ DaysBefore(y, m) + d - 1
           = IF s \in {100, 200, 300} /\ k >= 60 THEN k - 1 ELSE k
  <2> DEFINE b == <<0, 31, 59, 90, 120, 151, 181, 212, 243, 273, 304, 334>>[m]
  <2>1. b \in Nat /\ (m <= 2 => b + 29 <= 60) /\ (m > 2 => b >= 59)
    BY <1>4, SMT
  <2>2. k = b + (IF m > 2 /\ y0 = 0 THEN 1 ELSE 0) + d - 1
    BY SMT DEF InYear
  <2>3. DaysBefore(y, m) = b + IF m > 2 /\ LeapYear(y) THEN 1 ELSE 0
    BY SMT DEF DaysBefore
  <2>4. m = 2 => d <= 29 /\ b = 31
    BY SMT DEF InYear
  <2>5. m = 1 => d <= 31 /\ b = 0
    BY SMT DEF InYear
  <2> HIDE DEF b
  <2> QED BY <1>1, <1>2, <1>3, <1>4, <2>1, <2>2, <2>3, <2>4, <2>5, SMT
<1>8. DaysFrom2000(y, m, d)
        = 365 * (y - 2000) + ((100 * a + (s - 1) \div 4) - (4 * a + (s - 1) \div 100) + (a + (s - 1) \div 400))
          - 484 + (DaysBefore(y, m) + d - 1)
  BY <1>1, <1>2, <1>4, <1>7, SMT DEF DaysFrom2000
<1>9. DaysFrom2000(y, m, d) = 146097 * (a - 5) + r + 60
  BY <1>1, <1>3, <1>7, <1>8, SMTT(30)
<1> QED BY <1>1, <1>4, <1>5, <1>6, <1>9, SMT DEF IsDate

(* j2date is the calendar, for every day, before Christ too.               *)
LEMMA CalendarDay ==
  ASSUME NEW n \in Int
  PROVE  LET date == J2Date(n + EpochJDate)
         IN  /\ date.year \in Int /\ date.month \in 1..12
             /\ date.day \in 1..MonthLength(date.year, date.month)
             /\ DaysFrom2000(date.year, date.month, date.day) = n
<1> DEFINE since == n + 2451545 + 32044
           q == since \div 146097
           r == since - q * 146097
           c == (r * 4 + 3) \div 146097
           julian == since + 60 + q * 3 + c
           quad == julian \div 1461
           rest == julian % 1461
           y0 == (rest * 4) \div 1461
           e == IF y0 # 0 THEN (rest + 305) % 365 ELSE (rest + 306) % 366
           month == ((e + 123) * 2141) \div 65536
           m == ((month + 10) % 12) + 1
           d == (e + 123) - (7834 * month) \div 256
           y == y0 + quad * 4 - 4800
           date == J2Date(n + EpochJDate)
<1>1. date = [year |-> y, month |-> m, day |-> d]
  BY SMT DEF J2Date, EpochJDate
<1>2. since \in Int /\ q \in Int /\ r \in Nat /\ r <= 146096 /\ since = 146097 * q + r
  BY SMT
<1> DEFINE t == (r + 60 + c) \div 1461
           s == 4 * t + y0
           k == rest - 365 * y0 - (IF y0 = 0 THEN 0 ELSE 1)
<1> HIDE DEF q, r
<1>3. c \in Nat /\ c = (4 * r + 3) \div 146097
  BY <1>2, SMT
<1> HIDE DEF since, c
<1>4. /\ quad = 100 * q + t
      /\ rest = (r + 60 + c) % 1461
  <2>1. julian = 1461 * (100 * q) + (r + 60 + c)
    BY <1>2, <1>3, SMT
  <2> HIDE DEF julian
  <2> QED BY <1>2, <1>3, <2>1, SMT
<1> HIDE DEF julian, quad, rest, t
<1>5. y0 = (rest * 4) \div 1461
  BY SMT
<1> HIDE DEF y0
<1>6. /\ rest \in Nat /\ rest <= 1460 /\ t \in Nat /\ t <= 100
      /\ InCycle(r, c, s, y0, k)
  <2>1. t = (r + 60 + c) \div 1461
    BY SMT DEF t
  <2>2. c \in Int /\ rest \in Int /\ t \in Int
    BY <1>2, <1>3, <1>4, <2>1, SMT
  <2>3. y0 \in Int
    BY <1>5, <2>2, SMT
  <2>4. CycleOf(r, c, rest, t, y0)
    BY <1>2, <1>3, <1>4, <1>5, <2>1, <2>2, <2>3, CycleSplit, SMT
  <2> QED BY <2>4, SMT DEF CycleOf
<1>7. /\ y0 \in 0..3 /\ k \in Nat /\ k <= IF y0 = 0 THEN 365 ELSE 364
  BY <1>6, SMT DEF InCycle
<1>8. /\ e \in Nat /\ e <= 365
      /\ e = IF y0 = 0 THEN (k + 306) % 366 ELSE (k + 306) % 365
  BY <1>6, <1>7, SMT
<1> HIDE DEF k, e
<1>9. MarchBased(month - 3, d, e)
  BY <1>8, MonthSplit, SMT
<1>10. m = ((month - 3 + 3 + 10) % 12) + 1
  <2>1. month \in Int
    BY <1>8, SMT
  <2> HIDE DEF month
  <2> QED BY <2>1, SMT
<1> HIDE DEF month, m, d
<1>11. InYear(m, d, k, y0)
  BY <1>7, <1>8, <1>9, <1>10, FromJanuary, SMT
<1>12. y = 400 * (q - 12) + s
  BY <1>2, <1>4, <1>6, <1>7, SMT
<1>13. q - 12 \in Int /\ y \in Int
  BY <1>2, <1>6, <1>7, <1>12, SMT
<1> DEFINE a == q - 12
<1>13a. s \in Int /\ a \in Int /\ y = 400 * a + s /\ y \in Int
  BY <1>6, <1>7, <1>12, <1>13, SMT
<1> HIDE DEF y, s, a
<1>14. IsDate(y, m, d, 146097 * (a - 5) + r + 60)
  BY <1>2, <1>6, <1>11, <1>13a, DayOfCycle, SMT
<1>15. 146097 * (a - 5) + r + 60 = n
  BY <1>2, SMT DEF since, a
<1> HIDE DEF date
<1> QED BY <1>1, <1>14, <1>15, SMT DEF date, IsDate

(* The line of a row of a single column is the text of that column.        *)
SoleText == Exact /\ Len(tuple.columns) = 1 /\ attr = 2 => copyString = Text(tuple.columns[1])

LEMMA NextSoleText == TupleInv /\ SoleText /\ [Next]_vars => SoleText'
<1> SUFFICES ASSUME TupleInv, SoleText, [Next]_vars, Exact', Len(tuple.columns)' = 1, attr' = 2
             PROVE  copyString' = Text(tuple.columns[1])'
  BY DEF SoleText
<1>1. CASE UNCHANGED vars
  BY <1>1 DEF vars, SoleText, Exact, Agrees, Common, Laid, Named, Text, Value
<1>2. CASE Step
  <2>1. tuple' = tuple /\ attr' \in {attr, attr + 1} /\ attr \in Nat
    BY <1>2, TypeOKNext, StaysNext, TuplesAreFacts DEF NextTypes, TupleInv, TypeOK, TupleFacts
  <2>2. Exact /\ Len(tuple.columns) = 1 /\ Text(tuple.columns[1])' = Text(tuple.columns[1])
    BY <2>1 DEF Exact, Agrees, Common, Laid, Named
  <2>3. CASE attr = 2
    <3>1. copyString' = copyString
      BY <1>2, <2>3, StaysNext
    <3> QED BY <2>2, <2>3, <3>1 DEF SoleText
  <2>4. CASE attr = 1
    <3>1. Common = 1 /\ Agrees(1) /\ 1 \in 0..Common /\ attr <= 1
      BY <2>2, <2>4 DEF Exact, Common
    <3>2. Advances
      BY <1>2, <3>1, AdvanceNext
    <3>3. Holds(copyString, Printings(0))
      <4>1. attr <= 1 + 1 /\ attr - 1 = 0
        BY <2>4
      <4> QED BY <3>1, <4>1 DEF TupleInv, Follows, Stands
    <3>4. copyString = <<>>
      <4>1. DOMAIN Printings(0) = {}
        BY DEF Printings
      <4> QED BY <3>3, <4>1 DEF Holds
    <3>5. IsText(Text(tuple.columns[1]))
      <4>1. IsColumn(tuple.columns[1])
        <5>1. TupleFacts(tuple) /\ 1 \in DOMAIN tuple.columns
          BY <2>2, TuplesAreFacts DEF TupleInv, TupleFacts
        <5> QED BY <5>1 DEF TupleFacts, Columns
      <4> QED BY <4>1, ColumnText DEF Readable
    <3>6. copyString' = <<>> \o Text(tuple.columns[1])
      BY <2>4, <3>2, <3>4 DEF Advances, Appended
    <3>7. Text(tuple.columns[1]) \in Seq(Range(Text(tuple.columns[1])))
      BY <3>5 DEF IsText
    <3>8. copyString' = Text(tuple.columns[1])
      BY <3>6, <3>7, ConcatEmptySeq
    <3> QED BY <2>2, <3>8
  <2> QED BY <2>1, <2>3, <2>4
<1>3. CASE Ended
  BY <1>1, <1>3 DEF Ended
<1> QED BY <1>1, <1>2, <1>3 DEF Next

(* So the line of a row of one value of a fixed size is the text of it,    *)
(* and the tuple holds nothing but the value.                              *)
SoleRead(type) ==
  /\ tuple.bytes \in Seq(Byte) /\ Len(tuple.bytes) = FixedType(type).width
  /\ copyString = FixedText(type, tuple.bytes) /\ InRange(type, tuple.bytes)

LEMMA SoleIsRead ==
  ASSUME TupleInv, SoleText, NEW type \in FixedTypes \ {"char", "name"}, Sole(type)
  PROVE  SoleRead(type)
<1> DEFINE columns == tuple.columns
           c == columns[1]
<1>1. TupleFacts(tuple) /\ outcome = "row" /\ Exact /\ tuple.types = <<type>> /\ columns # <<NullColumn>>
  BY TuplesAreFacts DEF TupleInv, Sole
<1>2. Len(columns) = 1 /\ Columns(columns) /\ DOMAIN columns = 1..1 /\ columns \in Seq(Range(columns))
  BY <1>1 DEF TupleFacts, Exact, Columns
<1>3. c # NullColumn /\ IsColumn(c)
  <2>1. columns = <<columns[1]>>
    BY <1>2
  <2>2. c # NullColumn
    BY <1>1, <2>1
  <2>3. 1 \in DOMAIN columns
    BY <1>2
  <2> QED BY <1>2, <2>2, <2>3 DEF Columns
<1>4. attr = 2
  BY <1>1 DEF TupleInv, Outcomes
<1>5. c.type = type /\ tuple.bytes = Layout(columns)
  <2>1. Agrees(1) /\ 1 \in 1..1
    BY <1>1, <1>2 DEF Exact
  <2>2. Named(1) /\ Laid
    BY <2>1 DEF Agrees
  <2>3. tuple.types[1] = type
    BY <1>1
  <2> QED BY <1>3, <2>2, <2>3 DEF Named, Laid
<1>6. /\ c.form = "fixed" /\ c.bytes \in Seq(Byte) /\ Len(c.bytes) = FixedType(type).width
      /\ InRange(type, c.bytes)
  BY <1>3, <1>5 DEF IsColumn, FixedTypes, Varlena, Byte
<1>7. tuple.bytes = c.bytes
  <2> DEFINE w == Stored(<<>>, c)
             t == FixedType(type)
  <2>1. tuple.bytes = w /\ w \in Seq(Byte)
    <3>1. Leading(columns, 0) = <<>> /\ Leading(columns, 1) = Layout(columns)
      BY <1>2, LeadingFirst
    <3>2. Laying(columns, 1)
      <4>1. 1 \in 1..Len(columns)
        BY <1>2
      <4> QED BY <1>2, <4>1, LeadingOne
    <3>3. Leading(columns, 1) = Stored(Leading(columns, 1 - 1), c)
      BY <3>2 DEF Laying
    <3>4. tuple.bytes \in Seq(Byte) /\ 1 - 1 = 0
      BY <1>1 DEF TupleFacts
    <3> QED BY <1>5, <3>1, <3>3, <3>4
  <2>2. AfterFixed(w, <<>>, c)
    <3>1. <<>> \in Seq(Byte)
      OBVIOUS
    <3> HIDE DEF w, c
    <3> QED BY <1>3, <1>6, <3>1, StoredFixed DEF w
  <2>3. FixedSizes(t) /\ Within(c.bytes, Len(<<>>) + Padding(Len(<<>>), t.align), w)
        /\ Len(w) = Len(<<>>) + Padding(Len(<<>>), t.align) + t.width
    BY <1>5, <2>2 DEF AfterFixed
  <2>4. Len(<<>>) + Padding(Len(<<>>), t.align) = 0
    <3>1. t.align \in {1, 2, 4, 8}
      BY <2>3 DEF FixedSizes
    <3> HIDE DEF t
    <3>2. Padding(0, t.align) = 0
      BY <3>1 DEF Padding
    <3> QED BY <3>2
  <2>5. t.width \in Nat
    BY <2>3 DEF FixedSizes
  <2> HIDE DEF w, t, c
  <2>6. Len(w) = t.width /\ Within(c.bytes, 0, w)
    BY <2>3, <2>4, <2>5
  <2>7. \A i \in 1..Len(c.bytes) : w[0 + i] = c.bytes[i]
    BY <2>6 DEF Within
  <2>8. \A i \in 1..Len(w) : w[i] = c.bytes[i]
    BY <1>6, <2>5, <2>6, <2>7 DEF t
  <2> QED BY <1>6, <2>1, <2>6, <2>8, SeqEqual DEF t
<1>8. Text(c) = FixedText(type, c.bytes)
  <2>1. type \notin Varlena \cup {"char", "name"}
    BY DEF FixedTypes, Varlena
  <2>2. Value(c) = FixedText(type, c.bytes)
    BY <1>3, <1>5, <1>6, <2>1 DEF Value, Varlena
  <2> QED BY <1>3, <1>5, <2>1, <2>2 DEF Text, Varlena
<1>9. copyString = Text(c)
  BY <1>1, <1>2, <1>4 DEF SoleText
<1> QED BY <1>6, <1>7, <1>8, <1>9 DEF SoleRead

(* What is printed of a day is the day.                                    *)
LEMMA PrintedDay ==
  ASSUME NEW n \in Int
  PROVE  IsDay(Printed(J2Date(n + EpochJDate)), n)
<1> DEFINE date == J2Date(n + EpochJDate)
           text == Printed(date)
<1>1. /\ date.year \in Int /\ date.month \in 1..12
      /\ date.day \in 1..MonthLength(date.year, date.month)
      /\ DaysFrom2000(date.year, date.month, date.day) = n
  BY CalendarDay
<1> HIDE DEF date
<1>2. /\ text.year = IF date.year <= 0 THEN 1 - date.year ELSE date.year
      /\ text.month = date.month /\ text.day = date.day /\ text.bc = (date.year <= 0)
  BY DEF Printed
<1> HIDE DEF text
<1>3. YearOf(text) = date.year /\ text.year > 0
  <2> DEFINE y == date.year
  <2>1. y \in Int /\ text.year = (IF y <= 0 THEN 1 - y ELSE y) /\ text.bc = (y <= 0)
    BY <1>1, <1>2
  <2> HIDE DEF y
  <2>2. CASE y <= 0
    <3>1. text.bc /\ text.year = 1 - y
      BY <2>1, <2>2, Zenon
    <3>2. 1 - (1 - y) = y /\ 1 - y > 0
      BY <2>1, <2>2
    <3> QED BY <3>1, <3>2 DEF YearOf, y
  <2>3. CASE ~(y <= 0)
    <3>1. ~text.bc /\ text.year = y
      BY <2>1, <2>3, Zenon
    <3>2. y > 0
      BY <2>1, <2>3
    <3> QED BY <3>1, <3>2 DEF YearOf, y
  <2> QED BY <2>2, <2>3
<1> QED BY <1>1, <1>2, <1>3 DEF IsDay, text, date

LEMMA DatesTrueHolds == TupleInv /\ SoleText => DatesTrue
<1> SUFFICES ASSUME TupleInv, SoleText PROVE DatesTrue
  OBVIOUS
<1> DEFINE bytes == tuple.bytes
           text == copyString[1]
<1>1. ASSUME Sole("date"), DOMAIN text # Limits
      PROVE  IsDay(text, Signed(bytes))
  <2>1. SoleRead("date")
    BY <1>1, SoleIsRead DEF FixedTypes
  <2>2. bytes \in Seq(Byte) /\ Len(bytes) = 4 /\ copyString = <<DateText(bytes)>>
    BY <2>1 DEF SoleRead, FixedType, Fixed, FixedText
  <2>3. text = DateText(bytes) /\ Signed(bytes) \in Int
    <3>1. Len(bytes) # 0 /\ text = DateText(bytes)
      BY <2>2
    <3> QED BY <2>2, <3>1, SignedIsInt
  <2>4. text = Printed(J2Date(Signed(bytes) + EpochJDate))
    BY <1>1, <2>3 DEF DateText, Limits
  <2> QED BY <2>3, <2>4, PrintedDay
<1>2. ASSUME Sole("timestamp"), DOMAIN text # Limits
      PROVE  /\ IsDay(text.date, Signed(bytes) \div UsecPerDay)
             /\ IsClock(text.clock, Signed(bytes) % UsecPerDay)
  <2> DEFINE stamp == Signed(bytes)
             parts == DayAndTime(stamp)
  <2>1. SoleRead("timestamp")
    BY <1>2, SoleIsRead DEF FixedTypes
  <2>2. bytes \in Seq(Byte) /\ Len(bytes) = 8 /\ copyString = <<TimestampText(bytes)>>
    BY <2>1 DEF SoleRead, FixedType, Fixed, FixedText
  <2>3. text = TimestampText(bytes) /\ stamp \in Int
    <3>1. Len(bytes) # 0 /\ text = TimestampText(bytes)
      BY <2>2
    <3> QED BY <2>2, <3>1, SignedIsInt
  <2>4. text = [date |-> Printed(J2Date(parts[1] + EpochJDate)), clock |-> Clock(parts[2])]
    BY <1>2, <2>3 DEF TimestampText, Limits
  <2> HIDE DEF stamp
  <2>5. /\ parts[1] = stamp \div UsecPerDay /\ parts[2] = stamp % UsecPerDay
        /\ parts[1] \in Int /\ parts[2] \in 0..(UsecPerDay - 1)
    BY <2>3, DayAndTimeTrue
  <2> HIDE DEF parts, text
  <2>6. parts[2] \in Int /\ parts[2] \in 0..UsecPerDay
    BY <2>5, DayHasLength DEF DayLength
  <2>7. IsDay(text.date, parts[1]) /\ IsClock(text.clock, parts[2])
    BY <2>4, <2>5, <2>6, PrintedDay, ClockTrue
  <2> QED BY <2>5, <2>7 DEF stamp, text
<1> QED BY <1>1, <1>2 DEF DatesTrue

LEMMA TimesTrueHolds == TupleInv /\ SoleText => TimesTrue
<1> SUFFICES ASSUME TupleInv, SoleText PROVE TimesTrue
  OBVIOUS
<1> DEFINE bytes == tuple.bytes
           text == copyString[1]
           usecs == Signed(SubSeq(bytes, 1, 8))
           west == Signed(SubSeq(bytes, 9, 12))
<1>1. ASSUME NEW type \in {"time", "timetz"}, Sole(type)
      PROVE  usecs \in Int /\ usecs \in 0..UsecPerDay /\ SoleRead(type)
  <2>1. SoleRead(type)
    BY <1>1, SoleIsRead DEF FixedTypes
  <2>2. usecs \in 0..UsecPerDay
    BY <1>1, <2>1 DEF SoleRead, InRange
  <2>3. usecs \in Int
    BY <2>2, DayHasLength DEF DayLength
  <2> QED BY <2>1, <2>2, <2>3
<1>2. ASSUME Sole("time")
      PROVE  IsClock(text, Signed(bytes))
  <2>1. SoleRead("time") /\ usecs \in Int /\ usecs \in 0..UsecPerDay
    BY <1>1, <1>2
  <2>2. bytes \in Seq(Byte) /\ Len(bytes) = 8 /\ copyString = <<TimeText(bytes)>>
    BY <2>1 DEF SoleRead, FixedType, Fixed, FixedText
  <2>3. SubSeq(bytes, 1, 8) = bytes
    BY <2>2, SubSeqFull
  <2>4. text = Clock(usecs) /\ usecs = Signed(bytes)
    BY <2>2, <2>3 DEF TimeText
  <2> HIDE DEF usecs, text
  <2> QED BY <2>1, <2>4, ClockTrue DEF text
<1>3. ASSUME Sole("timetz")
      PROVE  IsClock(text.clock, usecs) /\ IsZone(text, west)
  <2>1. SoleRead("timetz") /\ usecs \in Int /\ usecs \in 0..UsecPerDay
    BY <1>1, <1>3
  <2>2. bytes \in Seq(Byte) /\ Len(bytes) = 12 /\ copyString = <<TimeTzText(bytes)>>
    BY <2>1 DEF SoleRead, FixedType, Fixed, FixedText
  <2>3. west \in Int
    <3> DEFINE zone == SubSeq(bytes, 9, 12)
    <3>1. 9 \in Int /\ 12 \in Int /\ \A i \in 9..12 : i \in 1..Len(bytes) /\ bytes[i] \in Byte
      <4>1. \A i \in 1..12 : bytes[i] \in Byte
        BY <2>2, ElementOfSeq
      <4>2. \A i \in 9..12 : i \in 1..12
        OBVIOUS
      <4> QED BY <2>2, <4>1, <4>2
    <3>2. zone \in Seq(Byte) /\ Len(zone) = IF 9 <= 12 THEN 12 - 9 + 1 ELSE 0
      BY <3>1, SubSeqProperties
    <3> HIDE DEF zone
    <3>3. Len(zone) # 0
      BY <3>2
    <3>4. Signed(zone) \in Int
      BY <3>2, <3>3, SignedIsInt
    <3> QED BY <3>4 DEF zone
  <2>4. IsZone(TimeTzText(bytes), west) /\ TimeTzText(bytes).clock = Clock(usecs)
    BY <2>3, ZoneTrue
  <2>5. text = TimeTzText(bytes)
    BY <2>2
  <2> HIDE DEF usecs, west, text
  <2>6. IsClock(Clock(usecs), usecs)
    BY <2>1, ClockTrue
  <2> QED BY <2>4, <2>5, <2>6
<1> QED BY <1>2, <1>3 DEF TimesTrue, IsZone

-------------------------------------------------------------------------------
(* What FormatDecode has read and printed of a tuple is, after every       *)
(* column, what the columns in front of its position were stored as.       *)
THEOREM TupleInvariant == Spec => []TupleInv
  BY InitTupleInv, NextTupleInv, PTL DEF Spec

(* FormatDecode's decoders stay within every tuple that has not been       *)
(* damaged, and none of them ends the program.                             *)
THEOREM TupleStaysInside == Spec => []StaysInside
  BY TupleInvariant, StaysInsideHolds, PTL

(* COPY reads from the line of any row the columns the tuple was stored    *)
(* with: CopyAppend and CopyAppendEncode let no text pass for a NULL, a    *)
(* column break or the end of the line.                                    *)
THEOREM TupleReadsBack == Spec => []ColumnsReadBack
<1>1. TupleInv => ColumnsReadBack
  BY ReadsBackHolds, BreaksKeptHolds DEF ColumnsReadBack
<1> QED BY <1>1, TupleInvariant, PTL

(* FormatDecode prints no row for which the list of types was too short    *)
(* or too long for the values stored, but for those that "~" leaves out.   *)
THEOREM TupleLosesNoColumn == Spec => []NoColumnLost
<1>1. TupleInv => NoColumnLost
  BY NoneMissingHolds, IgnoresRestHolds DEF NoColumnLost
<1> QED BY <1>1, TupleInvariant, PTL

(* A date, a time and a timestamp of any tuple are printed as the day of   *)
(* the calendar and the time of day that were stored, in every year and    *)
(* for every count of microseconds: j2date's arithmetic is the Gregorian   *)
(* calendar, and decode_timestamp_internal counts back from 2000 too.      *)
THEOREM CalendarIsTrue == Spec => [](DatesTrue /\ TimesTrue)
<1>1. Init => SoleText
  BY DEF Init, SoleText
<1>2. TupleInv /\ SoleText => DatesTrue /\ TimesTrue
  BY DatesTrueHolds, TimesTrueHolds
<1>3. Spec => []SoleText
  BY <1>1, TupleInvariant, NextSoleText, PTL DEF Spec
<1> QED BY <1>2, <1>3, TupleInvariant, PTL

-------------------------------------------------------------------------------
(* While the size is being doubled more space is needed than there is, and *)
(* the size is between twice the old one and twice the limit.              *)
Doubling == pc = "grow" => /\ needed > maxlen
                           /\ newlen >= 2 * maxlen
                           /\ newlen <= 2 * MaxAllocSize

BufferInv == BufferTypeOK /\ RoomForTerminator /\ NoIntOverflow /\ Doubling

LEMMA InitBufferInv == BufferInit => BufferInv
  BY LimitAssumption DEF BufferInit, BufferInv, BufferTypeOK, RoomForTerminator, NoIntOverflow, Doubling

LEMMA NextBufferInv == BufferInv /\ [BufferNext]_bufferVars => BufferInv'
<1> SUFFICES ASSUME BufferInv, [BufferNext]_bufferVars PROVE BufferInv'
  OBVIOUS
<1> USE LimitAssumption DEF BufferInv, BufferTypeOK, RoomForTerminator, NoIntOverflow, Doubling
<1>1. CASE resetStringInfo
  BY <1>1 DEF resetStringInfo
<1>2. ASSUME NEW n \in Requests, Refuse(n) PROVE BufferInv'
  BY <1>2 DEF Refuse
<1>3. ASSUME NEW n \in Requests, AppendInPlace(n) PROVE BufferInv'
  <2>1. n \in Int
    BY <1>3
  <2> QED BY <1>3, <2>1 DEF AppendInPlace, Accepts
<1>4. ASSUME NEW n \in Requests, StartGrowing(n) PROVE BufferInv'
  <2>1. n \in Int
    BY <1>4
  <2> QED BY <1>4, <2>1 DEF StartGrowing, Accepts
<1>5. CASE Double
  BY <1>5 DEF Double
<1>6. CASE Grow
  BY <1>6 DEF Grow, Clamped
<1>7. CASE ReallocFails
  BY <1>7 DEF ReallocFails
<1>8. CASE UNCHANGED bufferVars
  BY <1>8 DEF bufferVars
<1> QED BY <1>1, <1>2, <1>3, <1>4, <1>5, <1>6, <1>7, <1>8 DEF BufferNext, appendBinaryStringInfo, Enlarge, Exited

(* The buffer always has room for the terminating zero. *)
THEOREM BufferHasRoom == BufferSpec => []RoomForTerminator
<1>1. BufferInv => RoomForTerminator
  BY DEF BufferInv
<1> QED BY <1>1, InitBufferInv, NextBufferInv, PTL DEF BufferSpec

(* enlargeStringInfo() computes within int. *)
THEOREM NoOverflow == BufferSpec => []NoIntOverflow
<1>1. BufferInv => NoIntOverflow
  BY DEF BufferInv
<1> QED BY <1>1, InitBufferInv, NextBufferInv, PTL DEF BufferSpec

(* Appends keep the text, and growth is geometric. *)
THEOREM GeometricGrowth == BufferSpec => GrowsGeometrically
<1> DEFINE A == /\ len' < len => len' = 0 /\ maxlen' = maxlen
                /\ maxlen' # maxlen => maxlen' >= 2 * maxlen \/ maxlen' = MaxAllocSize
<1>1. BufferInv /\ [BufferNext]_bufferVars => [A]_bufferVars
  <2> SUFFICES ASSUME BufferInv, BufferNext PROVE A
    BY DEF bufferVars
  <2> USE LimitAssumption DEF BufferInv, BufferTypeOK, RoomForTerminator, NoIntOverflow, Doubling
  <2>1. CASE resetStringInfo
    BY <2>1 DEF resetStringInfo
  <2>2. ASSUME NEW n \in Requests, Refuse(n) \/ AppendInPlace(n) \/ StartGrowing(n)
        PROVE  A
    BY <2>2 DEF Refuse, AppendInPlace, StartGrowing, Accepts
  <2>3. CASE Double \/ ReallocFails
    BY <2>3 DEF Double, ReallocFails
  <2>4. CASE Grow
    BY <2>4 DEF Grow, Clamped
  <2>5. CASE Exited
    BY <2>5 DEF Exited, bufferVars
  <2> QED BY <2>1, <2>2, <2>3, <2>4, <2>5 DEF BufferNext, appendBinaryStringInfo, Enlarge
<1> QED BY <1>1, InitBufferInv, NextBufferInv, PTL DEF BufferSpec, GrowsGeometrically
===============================================================================
