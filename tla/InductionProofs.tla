-------------------------- MODULE InductionProofs --------------------------
(***************************************************************************)
(* Induction over numbers and sequences, and what it shows of FlattenSeq.  *)
(*                                                                         *)
(* The induction theorems of the library take the predicate as an          *)
(* operator; here it is a set, which every prover can instantiate: that    *)
(* < is well-founded on Nat and that a well-founded relation has minimal   *)
(* elements are stated of sets.                                            *)
(***************************************************************************)
EXTENDS Integers, SequencesExt, SequenceTheorems, WellFoundedInduction, TLAPS

(* A set with 0, and with n + 1 whenever with n, has every number.         *)
LEMMA NatSetInduction ==
  ASSUME NEW S, 0 \in S, \A n \in Nat : n \in S => n + 1 \in S
  PROVE  Nat \subseteq S
<1> DEFINE T == Nat \ S
           R == OpToRel(<, Nat)
<1> SUFFICES ASSUME T # {} PROVE FALSE
  OBVIOUS
<1>1. PICK x \in T : \A y \in T : <<y, x>> \notin R
  <2>1. IsWellFoundedOn(R, Nat)
    BY NatLessThanWellFounded
  <2>2. T \subseteq Nat
    OBVIOUS
  <2> HIDE DEF T, R
  <2> QED
    BY <2>1, <2>2, WFMin
<1>2. x \in Nat \ {0} /\ x - 1 \in T
  OBVIOUS
<1>3. <<x - 1, x>> \in R
  BY <1>2 DEF OpToRel
<1> QED
  BY <1>1, <1>2, <1>3

(* A set with <<>>, and with Append(s, x) whenever with s, has every       *)
(* sequence.                                                               *)
LEMMA SeqSetInduction ==
  ASSUME NEW A, NEW T, <<>> \in T,
         \A s \in Seq(A) : \A x \in A : s \in T => Append(s, x) \in T
  PROVE  Seq(A) \subseteq T
<1> DEFINE S == {n \in Nat : \A s \in Seq(A) : Len(s) = n => s \in T}
<1>1. 0 \in S
  BY EmptySeq
<1>2. ASSUME NEW n \in Nat, n \in S PROVE n + 1 \in S
  <2> SUFFICES ASSUME NEW s \in Seq(A), Len(s) = n + 1 PROVE s \in T
    OBVIOUS
  <2>1. s # <<>>
    BY EmptySeq
  <2>2. PICK u \in Seq(A), x \in A : s = Append(u, x)
    BY <2>1, SequenceEmptyOrAppend
  <2>3. Len(u) = n
    BY <2>2, AppendProperties, LenProperties
  <2> QED
    BY <1>2, <2>2, <2>3
<1>3. Nat \subseteq S
  <2> HIDE DEF S
  <2> QED
    BY <1>1, <1>2, NatSetInduction
<1> QED
  BY <1>3, LenProperties

(* f concatenates the first n sequences of s, one after the other. *)
Concatenates(f, s, n) ==
  f = [i \in 1..n |-> IF i = 1 THEN s[i] ELSE f[i - 1] \o s[i]]

(* What such a function is at i.                                           *)
LEMMA ConcatenatesAt ==
  ASSUME NEW f, NEW s, NEW n \in Nat, Concatenates(f, s, n), NEW i \in 1..n
  PROVE  f[i] = IF i = 1 THEN s[i] ELSE f[i - 1] \o s[i]
<1> DEFINE g == [k \in 1..n |-> IF k = 1 THEN s[k] ELSE f[k - 1] \o s[k]]
<1>1. g[i] = IF i = 1 THEN s[i] ELSE f[i - 1] \o s[i]
  OBVIOUS
<1>2. f = g
  BY Zenon DEF Concatenates
<1> QED
  BY <1>1, <1>2, Zenon

(* It begins with the first sequence ...                                   *)
LEMMA ConcatenatesFirst ==
  ASSUME NEW f, NEW s, NEW n \in Nat \ {0}, Concatenates(f, s, n)
  PROVE  f[1] = s[1]
<1>1. 1 \in 1..n
  OBVIOUS
<1> QED
  BY <1>1, ConcatenatesAt

(* ... and goes on with the next.                                          *)
LEMMA ConcatenatesNext ==
  ASSUME NEW f, NEW s, NEW n \in Nat, Concatenates(f, s, n),
         NEW i \in Nat \ {0}, i + 1 <= n
  PROVE  f[i + 1] = f[i] \o s[i + 1]
<1> DEFINE g == [k \in 1..n |-> IF k = 1 THEN s[k] ELSE f[k - 1] \o s[k]]
<1>1. g[i + 1] = f[i] \o s[i + 1]
  <2>1. i + 1 \in 1..n /\ i + 1 # 1 /\ (i + 1) - 1 = i
    OBVIOUS
  <2>2. g[i + 1] = f[(i + 1) - 1] \o s[i + 1]
    BY <2>1
  <2> QED
    BY <2>1, <2>2, Zenon
<1>2. f = g
  BY Zenon DEF Concatenates
<1> QED
  BY <1>1, <1>2, Zenon

(* The recursive definition of FlattenSeq defines something: there is such *)
(* a function for every n.                                                 *)
LEMMA ConcatenationExists ==
  ASSUME NEW s, NEW n \in Nat
  PROVE  \E f : Concatenates(f, s, n)
<1> DEFINE S == {k \in Nat : \E f : Concatenates(f, s, k)}
<1>1. 0 \in S
  <2>1. Concatenates([i \in 1..0 |-> <<>>], s, 0)
    BY DEF Concatenates
  <2> QED
    BY <2>1, Zenon
<1>2. ASSUME NEW k \in Nat, k \in S PROVE k + 1 \in S
  <2>1. PICK f : Concatenates(f, s, k)
    BY <1>2
  <2> DEFINE g == [i \in 1..(k + 1) |->
                     IF i = 1 THEN s[i] ELSE f[i - 1] \o s[i]]
  <2>2. ASSUME NEW i \in 1..(k + 1), i # 1
        PROVE  f[i - 1] = g[i - 1]
    <3>1. i - 1 \in 1..k
      BY <2>2
    <3>2. g[i - 1] = IF i - 1 = 1 THEN s[i - 1] ELSE f[i - 1 - 1] \o s[i - 1]
      BY <3>1
    <3>3. f[i - 1] = IF i - 1 = 1 THEN s[i - 1] ELSE f[i - 1 - 1] \o s[i - 1]
      BY <2>1, <3>1, ConcatenatesAt
    <3> QED
      BY <3>2, <3>3, Zenon
  <2>3. g = [i \in 1..(k + 1) |-> IF i = 1 THEN s[i] ELSE g[i - 1] \o s[i]]
    <3> HIDE DEF g
    <3> SUFFICES ASSUME NEW i \in 1..(k + 1)
                 PROVE  (IF i = 1 THEN s[i] ELSE f[i - 1] \o s[i])
                           = (IF i = 1 THEN s[i] ELSE g[i - 1] \o s[i])
      BY Zenon DEF g
    <3> QED
      BY <2>2, Zenon
  <2>4. Concatenates(g, s, k + 1)
    <3> HIDE DEF g
    <3> QED
      BY <2>3, Zenon DEF Concatenates
  <2>5. k + 1 \in Nat
    OBVIOUS
  <2> QED
    BY <2>4, <2>5, Zenon
<1>3. Nat \subseteq S
  <2> HIDE DEF S
  <2> QED
    BY <1>1, <1>2, NatSetInduction
<1> QED
  BY <1>3

(* FlattenSeq is the last value of one.                                    *)
LEMMA FlattenIsConcatenation ==
  ASSUME NEW s, NEW n \in Nat \ {0}, Len(s) = n
  PROVE  \E f : Concatenates(f, s, n) /\ FlattenSeq(s) = f[n]
<1> DEFINE F == CHOOSE f : Concatenates(f, s, n)
<1>1. Concatenates(F, s, n)
  <2>1. \E f : Concatenates(f, s, n)
    BY ConcatenationExists
  <2> QED
    BY <2>1, Zenon
<1>2. FlattenSeq(s) = F[n]
  <2>1. Len(s) # 0
    OBVIOUS
  <2> QED
    BY <2>1, Zenon DEF FlattenSeq, Concatenates
<1> QED
  BY <1>1, <1>2, Zenon

(* Concatenations of lists that agree up to n agree there.                 *)
LEMMA ConcatenationsAgree ==
  ASSUME NEW f, NEW g, NEW s, NEW t, NEW n \in Nat, NEW m \in Nat, m <= n,
         Concatenates(f, s, n), Concatenates(g, t, m),
         \A i \in 1..m : s[i] = t[i]
  PROVE  \A i \in 1..m : f[i] = g[i]
<1> DEFINE S == {k \in Nat : k \in 1..m => f[k] = g[k]}
<1>1. 0 \in S
  OBVIOUS
<1>2. ASSUME NEW k \in Nat, k \in S PROVE k + 1 \in S
  <2> SUFFICES ASSUME k + 1 \in 1..m PROVE f[k + 1] = g[k + 1]
    OBVIOUS
  <2>1. /\ f[k + 1] = IF k + 1 = 1 THEN s[k + 1] ELSE f[k] \o s[k + 1]
        /\ g[k + 1] = IF k + 1 = 1 THEN t[k + 1] ELSE g[k] \o t[k + 1]
    <3>1. k + 1 - 1 = k /\ k + 1 \in 1..n
      OBVIOUS
    <3> QED
      BY <3>1, ConcatenatesAt
  <2>2. k + 1 # 1 => f[k] = g[k]
    BY <1>2
  <2> QED
    BY <2>1, <2>2
<1>3. Nat \subseteq S
  <2> HIDE DEF S
  <2> QED
    BY <1>1, <1>2, NatSetInduction
<1> QED
  BY <1>3

(* Sequences over A are concatenated to sequences over A.                  *)
LEMMA ConcatenationType ==
  ASSUME NEW A, NEW s \in Seq(Seq(A)), NEW f, Concatenates(f, s, Len(s))
  PROVE  \A i \in 1..Len(s) : f[i] \in Seq(A)
<1> DEFINE S == {k \in Nat : k \in 1..Len(s) => f[k] \in Seq(A)}
<1>1. 0 \in S
  OBVIOUS
<1>2. ASSUME NEW k \in Nat, k \in S PROVE k + 1 \in S
  <2> SUFFICES ASSUME k + 1 \in 1..Len(s) PROVE f[k + 1] \in Seq(A)
    OBVIOUS
  <2>1. f[k + 1] = IF k + 1 = 1 THEN s[k + 1] ELSE f[k] \o s[k + 1]
    <3>1. k + 1 - 1 = k /\ Len(s) \in Nat
      BY LenProperties
    <3> QED
      BY <3>1, ConcatenatesAt
  <2>2. k + 1 # 1 => f[k] \in Seq(A)
    BY <1>2, LenProperties
  <2>3. s[k + 1] \in Seq(A)
    BY ElementOfSeq
  <2> QED
    BY <2>1, <2>2, <2>3, ConcatProperties
<1>3. Nat \subseteq S
  <2> HIDE DEF S
  <2> QED
    BY <1>1, <1>2, NatSetInduction
<1> QED
  BY <1>3, LenProperties

(* Nothing is flattened to nothing.                                        *)
LEMMA FlattenEmpty == FlattenSeq(<<>>) = <<>>
  BY DEF FlattenSeq

(* What it makes of sequences over A is one.                               *)
LEMMA FlattenType ==
  ASSUME NEW A, NEW s \in Seq(Seq(A))
  PROVE  FlattenSeq(s) \in Seq(A)
<1>1. CASE Len(s) = 0
  <2>1. s = <<>> /\ <<>> \in Seq(A)
    BY <1>1, EmptySeq
  <2> QED
    BY <2>1, FlattenEmpty
<1>2. CASE Len(s) # 0
  <2>1. Len(s) \in Nat \ {0}
    BY <1>2, LenProperties
  <2>2. PICK f : Concatenates(f, s, Len(s)) /\ FlattenSeq(s) = f[Len(s)]
    BY <2>1, FlattenIsConcatenation
  <2> QED
    BY <2>1, <2>2, ConcatenationType
<1> QED
  BY <1>1, <1>2

(* One sequence is itself.                                                 *)
LEMMA FlattenOne ==
  ASSUME NEW s, Len(s) = 1
  PROVE  FlattenSeq(s) = s[1]
<1>1. PICK f : Concatenates(f, s, 1) /\ FlattenSeq(s) = f[1]
  <2>1. 1 \in Nat \ {0}
    OBVIOUS
  <2> QED
    BY <2>1, FlattenIsConcatenation, Zenon
<1> QED
  BY <1>1, ConcatenatesFirst

(* Lists that agree but for one sequence more at the end differ by it.     *)
LEMMA FlattenGrows ==
  ASSUME NEW s, NEW t, NEW n \in Nat \ {0}, Len(s) = n, Len(t) = n + 1,
         \A i \in 1..n : t[i] = s[i]
  PROVE  FlattenSeq(t) = FlattenSeq(s) \o t[n + 1]
<1>1. PICK f : Concatenates(f, s, n) /\ FlattenSeq(s) = f[n]
  BY FlattenIsConcatenation
<1>2. PICK g : Concatenates(g, t, n + 1) /\ FlattenSeq(t) = g[n + 1]
  BY FlattenIsConcatenation
<1>3. g[n + 1] = g[n] \o t[n + 1]
  <2>1. n + 1 \in Nat /\ n + 1 <= n + 1
    OBVIOUS
  <2>2. Concatenates(g, t, n + 1)
    BY <1>2
  <2> HIDE DEF Concatenates
  <2> QED
    BY ONLY <2>1, <2>2, n \in Nat \ {0}, ConcatenatesNext
<1>4. g[n] = f[n]
  <2>1. n + 1 \in Nat /\ n <= n + 1 /\ n \in 1..n
    OBVIOUS
  <2>2. Concatenates(g, t, n + 1) /\ Concatenates(f, s, n)
    BY <1>1, <1>2
  <2>3. \A i \in 1..n : g[i] = f[i]
    BY ONLY <2>1, <2>2, n \in Nat, \A i \in 1..n : t[i] = s[i], ConcatenationsAgree
  <2> QED
    BY <2>1, <2>3
<1> QED
  BY <1>1, <1>2, <1>3, <1>4

(* Flattening is appending: the list has one sequence more, the result its *)
(* elements.                                                               *)
LEMMA FlattenAppend ==
  ASSUME NEW A, NEW s \in Seq(Seq(A)), NEW x \in Seq(A)
  PROVE  FlattenSeq(Append(s, x)) = FlattenSeq(s) \o x
<1> DEFINE t == Append(s, x)
           n == Len(s)
<1>1. /\ n \in Nat /\ Len(t) = n + 1 /\ t[n + 1] = x
      /\ \A i \in 1..n : t[i] = s[i]
  BY AppendProperties, LenProperties
<1>2. CASE n = 0
  <2>1. s = <<>> /\ <<>> \o x = x /\ Len(t) = 1
    BY <1>1, <1>2, EmptySeq, ConcatEmptySeq
  <2>2. FlattenSeq(t) = t[1]
    BY <2>1, FlattenOne
  <2> QED
    BY <1>1, <1>2, <2>1, <2>2, FlattenEmpty
<1>3. CASE n # 0
  <2>1. FlattenSeq(t) = FlattenSeq(s) \o t[n + 1]
    <3> HIDE DEF t
    <3>1. n \in Nat \ {0} /\ Len(s) = n
      BY <1>1, <1>3
    <3> HIDE DEF n
    <3> QED
      BY <1>1, <3>1, FlattenGrows
  <2> QED
    BY <1>1, <2>1
<1> QED
  BY <1>2, <1>3

(* From the other end: the first sequence, and what the rest makes.        *)
LEMMA FlattenHead ==
  ASSUME NEW A, NEW s \in Seq(Seq(A)), s # <<>>
  PROVE  FlattenSeq(s) = Head(s) \o FlattenSeq(Tail(s))
<1> DEFINE S == {t \in Seq(Seq(A)) :
                    t # <<>> => FlattenSeq(t) = Head(t) \o FlattenSeq(Tail(t))}
<1>1. <<>> \in S
  BY EmptySeq
<1>2. ASSUME NEW u \in Seq(Seq(A)), u \in S, NEW x \in Seq(A)
      PROVE  Append(u, x) \in S
  <2>1. /\ Append(u, x) \in Seq(Seq(A))
        /\ FlattenSeq(Append(u, x)) = FlattenSeq(u) \o x
        /\ Head(Append(u, x)) = IF u = <<>> THEN x ELSE Head(u)
        /\ Tail(Append(u, x)) = IF u = <<>> THEN <<>> ELSE Append(Tail(u), x)
    BY AppendProperties, FlattenAppend, HeadTailAppend
  <2>2. CASE u = <<>>
    <3>1. <<>> \o x = x /\ x \o <<>> = x
      BY ConcatEmptySeq
    <3> QED
      BY <2>1, <2>2, <3>1, FlattenEmpty
  <2>3. CASE u # <<>>
    <3>1. Head(u) \in Seq(A) /\ Tail(u) \in Seq(Seq(A))
      BY <2>3, HeadTailProperties
    <3>2. /\ FlattenSeq(Append(Tail(u), x)) = FlattenSeq(Tail(u)) \o x
          /\ FlattenSeq(Tail(u)) \in Seq(A)
      BY <3>1, FlattenAppend, FlattenType
    <3>3. FlattenSeq(u) = Head(u) \o FlattenSeq(Tail(u))
      BY <1>2, <2>3
    <3>4. (Head(u) \o FlattenSeq(Tail(u))) \o x = Head(u) \o (FlattenSeq(Tail(u)) \o x)
      <4>1. \A a, b, c \in Seq(A) : (a \o b) \o c = a \o (b \o c)
        BY ONLY ConcatAssociative
      <4> QED
        BY <3>1, <3>2, <4>1, Zenon
    <3> QED
      BY <2>1, <2>3, <3>2, <3>3, <3>4
  <2> QED
    BY <2>2, <2>3
<1>3. Seq(Seq(A)) \subseteq S
  <2> HIDE DEF S
  <2> QED
    BY <1>1, <1>2, SeqSetInduction
<1> QED
  BY <1>3
=============================================================================
