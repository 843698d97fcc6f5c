-------------------------- MODULE SqlEditorProofs --------------------------
(***************************************************************************)
(* What holds of the text panels for every value of the constants.         *)
(***************************************************************************)
EXTENDS SqlEditor, SequenceTheorems, FiniteSetTheorems, TLAPS

(***************************************************************************)
(* Induction and recursion over the naturals.                              *)
(***************************************************************************)
\* A set of naturals has a least element.
LEMMA Least ==
    ASSUME NEW T, T \subseteq Nat, T # {}
    PROVE  \E n \in T : \A m \in T : n <= m
    <1> DEFINE R == {ss \in Nat \X Nat : ss[1] < ss[2]}
    <1>1. IsWellFoundedOn(R, Nat)  BY NatLessThanWellFounded DEF OpToRel
    <1>2. ASSUME NEW n \in Nat, NEW m \in Nat, <<m, n>> \notin R PROVE n <= m  BY <1>2
    <1> HIDE DEF R
    <1>3. \E n \in T : \A m \in T : ~ (<<m, n>> \in R)  BY <1>1, WFMin
    <1> QED  BY <1>2, <1>3

\* Induction over a set: the form that the provers can use.
LEMMA Induction ==
    ASSUME NEW S, 0 \in S, \A n \in Nat : n \in S => n + 1 \in S
    PROVE  Nat \subseteq S
    <1> DEFINE T == Nat \ S
    <1>1. ASSUME NEW n \in T, \A m \in T : n <= m PROVE FALSE
        <2>1. n \in Nat /\ n \notin S /\ n # 0  OBVIOUS
        <2>2. n - 1 \in Nat /\ ~ n <= n - 1 /\ (n - 1) + 1 = n  BY <2>1
        <2>3. n - 1 \in S  BY <1>1, <2>2
        <2> QED  BY <2>1, <2>2, <2>3
    <1>2. T \subseteq Nat  OBVIOUS
    <1> HIDE DEF T
    <1>3. T = {}  BY <1>1, <1>2, Least
    <1> QED  BY <1>3 DEF T

\* A recursion over the naturals has a solution.
Recurs(f, n, base, step) ==
    f[0] = base /\ \A i \in 0 .. n - 1 : f[i + 1] = step[<<i, f[i]>>]

\* Two functions that recur alike agree as far as both go.
LEMMA RecursionOnce ==
    ASSUME NEW base, NEW step, NEW f, NEW g, NEW n \in Nat, NEW m \in Nat,
           Recurs(f, n, base, step), Recurs(g, m, base, step)
    PROVE  \A i \in Nat : i <= n /\ i <= m => f[i] = g[i]
    <1> DEFINE S == {i \in Nat : i <= n /\ i <= m => f[i] = g[i]}
    <1>1. 0 \in S  BY DEF Recurs
    <1>2. ASSUME NEW i \in Nat, i \in S PROVE i + 1 \in S
        <2> SUFFICES ASSUME i + 1 <= n, i + 1 <= m PROVE f[i + 1] = g[i + 1]  OBVIOUS
        <2>1. i \in 0 .. n - 1 /\ i \in 0 .. m - 1 /\ f[i] = g[i]  BY <1>2
        <2> QED  BY <2>1 DEF Recurs
    <1> HIDE DEF S
    <1>3. Nat \subseteq S  BY <1>1, <1>2, Induction
    <1> QED  BY <1>3 DEF S

\* There is a function that recurs.
LEMMA Recursion ==
    ASSUME NEW T, NEW base \in T, NEW step \in [Nat \X T -> T]
    PROVE  \E f \in [Nat -> T] : \A n \in Nat : Recurs(f, n, base, step)
    <1> DEFINE S == {n \in Nat : \E f \in [0 .. n -> T] : Recurs(f, n, base, step)}
    <1>1. 0 \in S
        <2> DEFINE f == [i \in 0 .. 0 |-> base]
        <2>1. f \in [0 .. 0 -> T] /\ Recurs(f, 0, base, step)  BY DEF Recurs
        <2> QED  BY <2>1
    <1>2. ASSUME NEW n \in Nat, n \in S PROVE n + 1 \in S
        <2>1. PICK g \in [0 .. n -> T] : Recurs(g, n, base, step)  BY <1>2
        <2> DEFINE f == [i \in 0 .. n + 1 |-> IF i = n + 1 THEN step[<<n, g[n]>>] ELSE g[i]]
        <2>2. step[<<n, g[n]>>] \in T  OBVIOUS
        <2>3. f \in [0 .. n + 1 -> T]  BY <2>2
        <2>4. f[n + 1] = step[<<n, g[n]>>] /\ \A i \in 0 .. n : f[i] = g[i]
            <3>1. \A i \in 0 .. n : i \in 0 .. n + 1 /\ i # n + 1  OBVIOUS
            <3> QED  BY <3>1
        <2> HIDE DEF f
        <2>5. \A i \in 0 .. n : f[i + 1] = step[<<i, f[i]>>]
            <3> TAKE i \in 0 .. n
            <3>1. CASE i = n  BY <2>4, <3>1
            <3>2. CASE i # n
                <4>1. i \in 0 .. n - 1 /\ i + 1 \in 0 .. n  BY <3>2
                <4> QED  BY <2>1, <2>4, <4>1 DEF Recurs
            <3> QED  BY <3>1, <3>2
        <2>6. f[0] = base  BY <2>1, <2>4 DEF Recurs
        <2>7. Recurs(f, n + 1, base, step)  BY <2>5, <2>6 DEF Recurs
        <2> QED  BY <2>3, <2>7
    <1>3. \A n \in Nat : \E f \in [0 .. n -> T] : Recurs(f, n, base, step)
        <2> HIDE DEF S
        <2>1. Nat \subseteq S  BY <1>1, <1>2, Induction
        <2> QED  BY <2>1 DEF S
    <1> DEFINE sol(n) == CHOOSE f \in [0 .. n -> T] : Recurs(f, n, base, step)
               F == [n \in Nat |-> sol(n)[n]]
    <1>4. \A n \in Nat : sol(n) \in [0 .. n -> T] /\ Recurs(sol(n), n, base, step)
        <2> TAKE n \in Nat
        <2>1. \E f \in [0 .. n -> T] : Recurs(f, n, base, step)  BY <1>3
        <2> QED  BY <2>1, Zenon
    <1> HIDE DEF sol
    <1>5. F \in [Nat -> T]  BY <1>4
    <1>6. ASSUME NEW n \in Nat PROVE F[n + 1] = step[<<n, F[n]>>]
        <2>1. Recurs(sol(n), n, base, step) /\ Recurs(sol(n + 1), n + 1, base, step)  BY <1>4
        <2>2. sol(n)[n] = sol(n + 1)[n]  BY <2>1, RecursionOnce
        <2>3. sol(n + 1)[n + 1] = step[<<n, sol(n + 1)[n]>>]  BY <2>1 DEF Recurs
        <2> QED  BY <2>2, <2>3
    <1>7. F[0] = base  BY <1>4 DEF Recurs
    <1>8. \A n \in Nat : Recurs(F, n, base, step)  BY <1>6, <1>7 DEF Recurs
    <1> HIDE DEF F
    <1> QED  BY <1>5, <1>8

(***************************************************************************)
(* Sequences put end to end.                                               *)
(***************************************************************************)
IsFlattening(f, ss) ==
    f[0] = <<>> /\ \A i \in 1 .. Len(ss) : f[i] = f[i - 1] \o ss[i]

\* The prefixes of a flattening.
LEMMA FlatteningExists ==
    ASSUME NEW E, NEW ss \in Seq(Seq(E))
    PROVE  \E f \in [Nat -> Seq(E)] : IsFlattening(f, ss)
    <1> DEFINE T == Seq(E)
               step == [p \in Nat \X T |-> IF p[1] + 1 <= Len(ss) THEN p[2] \o ss[p[1] + 1] ELSE p[2]]
    <1>1. step \in [Nat \X T -> T]
        <2> SUFFICES ASSUME NEW p \in Nat \X T, p[1] + 1 <= Len(ss) PROVE p[2] \o ss[p[1] + 1] \in T  OBVIOUS
        <2>1. p[1] + 1 \in 1 .. Len(ss)  OBVIOUS
        <2>2. ss[p[1] + 1] \in Seq(E) /\ p[2] \in Seq(E)  BY <2>1
        <2> QED  BY <2>2
    <1>2. <<>> \in T  OBVIOUS
    <1>3. \A i \in Nat, x \in T : i + 1 <= Len(ss) => step[<<i, x>>] = x \o ss[i + 1]  OBVIOUS
    <1> HIDE DEF T, step
    <1>4. PICK f \in [Nat -> T] : \A n \in Nat : Recurs(f, n, <<>>, step)  BY <1>1, <1>2, Recursion
    <1>5. ASSUME NEW i \in 1 .. Len(ss) PROVE f[i] = f[i - 1] \o ss[i]
        <2>1. i \in Nat /\ i - 1 \in 0 .. i - 1 /\ i - 1 \in Nat /\ (i - 1) + 1 = i /\ i <= Len(ss)  OBVIOUS
        <2>2. f[i] = step[<<i - 1, f[i - 1]>>]  BY <1>4, <2>1 DEF Recurs
        <2>3. f[i - 1] \in T  BY <2>1
        <2> QED  BY <1>3, <2>1, <2>2, <2>3
    <1>6. f[0] = <<>>  BY <1>4 DEF Recurs
    <1>7. IsFlattening(f, ss)  BY <1>5, <1>6 DEF IsFlattening
    <1> QED  BY <1>7 DEF T

Grows(f, ss, n) == \A i \in 1 .. n : f[i] = f[i - 1] \o ss[i]

LEMMA FlatteningOnce ==
    ASSUME NEW f, NEW g, NEW ss, NEW n \in Nat, f[0] = g[0], Grows(f, ss, n), Grows(g, ss, n)
    PROVE  f[n] = g[n]
    <1> DEFINE S == {i \in Nat : i <= n => f[i] = g[i]}
    <1>1. 0 \in S  OBVIOUS
    <1>2. ASSUME NEW i \in Nat, i \in S PROVE i + 1 \in S
        <2> SUFFICES ASSUME i + 1 <= n PROVE f[i + 1] = g[i + 1]  OBVIOUS
        <2>1. i + 1 \in 1 .. n /\ (i + 1) - 1 = i /\ f[i] = g[i]  BY <1>2
        <2>2. f[i + 1] = f[i] \o ss[i + 1] /\ g[i + 1] = g[i] \o ss[i + 1]  BY <2>1 DEF Grows
        <2> QED  BY <2>1, <2>2
    <1> HIDE DEF S
    <1>3. Nat \subseteq S  BY <1>1, <1>2, Induction
    <1> QED  BY <1>3 DEF S

FlattenFn(f, ss) == f = [i \in 1 .. Len(ss) |-> IF i = 1 THEN ss[i] ELSE f[i - 1] \o ss[i]]

LEMMA FlattenDef ==
    ASSUME NEW ss, Len(ss) # 0
    PROVE  FlattenSeq(ss) = (CHOOSE f : FlattenFn(f, ss))[Len(ss)]
    BY DEF FlattenSeq, FlattenFn

\* What flattens step by step is the flattening.
LEMMA FlattenIs ==
    ASSUME NEW E, NEW ss \in Seq(Seq(E)), NEW h, IsFlattening(h, ss)
    PROVE  FlattenSeq(ss) = h[Len(ss)]
    <1>1. PICK n \in Nat : n = Len(ss)  OBVIOUS
    <1>2. CASE n = 0
        <2>1. FlattenSeq(ss) = ss /\ ss = <<>>
            <3>1. Len(ss) = 0  BY <1>1, <1>2
            <3>2. ss = <<>>  BY <3>1, EmptySeq
            <3> QED  BY <3>1, <3>2 DEF FlattenSeq
        <2> QED  BY <1>1, <1>2, <2>1 DEF IsFlattening
    <1>3. CASE n # 0
        <2>1. PICK f \in [Nat -> Seq(E)] : IsFlattening(f, ss)  BY FlatteningExists
        <2> DEFINE g == [i \in 1 .. n |-> f[i]]
        <2>2. f[1] = ss[1]
            <3>1. 1 \in 1 .. n /\ 1 - 1 = 0  BY <1>1, <1>3
            <3>2. f[0] = <<>> /\ f[1] = f[0] \o ss[1]  BY <1>1, <2>1, <3>1 DEF IsFlattening
            <3>3. ss[1] \in Seq(E)  BY <1>1, <3>1, ElementOfSeq
            <3> QED  BY <3>2, <3>3, ConcatEmptySeq
        <2>3. \A i \in 1 .. n : g[i] = IF i = 1 THEN ss[i] ELSE g[i - 1] \o ss[i]
            <3> TAKE i \in 1 .. n
            <3>1. i # 1 => i - 1 \in 1 .. n  BY <1>1
            <3>2. g[i] = f[i] /\ (i # 1 => g[i - 1] = f[i - 1])  BY <3>1
            <3>3. f[i] = f[i - 1] \o ss[i]  BY <1>1, <2>1 DEF IsFlattening
            <3> HIDE DEF g
            <3> QED  BY <2>2, <3>2, <3>3
        <2>4. FlattenFn(g, ss)  BY <1>1, <2>3 DEF FlattenFn
        <2> HIDE DEF g
        <2>5. PICK c : FlattenFn(c, ss) /\ c = CHOOSE x : FlattenFn(x, ss)  BY <2>4, Zenon
        <2>6. \A i \in 1 .. n : c[i] = IF i = 1 THEN ss[i] ELSE c[i - 1] \o ss[i]  BY <1>1, <2>5 DEF FlattenFn
        <2> DEFINE d == [i \in 0 .. n |-> IF i = 0 THEN <<>> ELSE c[i]]
        <2>7. d[0] = <<>> /\ \A i \in 1 .. n : d[i] = c[i]  BY <1>1
        <2> HIDE DEF d
        <2>8. \A i \in 1 .. n : d[i] = d[i - 1] \o ss[i]
            <3> TAKE i \in 1 .. n
            <3>1. CASE i = 1
                <4>1. ss[1] \in Seq(E)  BY <1>1, <1>3
                <4>2. <<>> \o ss[1] = ss[1]  BY <4>1, ConcatEmptySeq
                <4>3. d[i - 1] = <<>> /\ d[i] = ss[1]  BY <2>6, <2>7, <3>1
                <4> QED  BY <3>1, <4>2, <4>3
            <3>2. CASE i # 1
                <4>1. i - 1 \in 1 .. n  BY <1>1, <3>2
                <4> QED  BY <2>6, <2>7, <3>2, <4>1
            <3> QED  BY <3>1, <3>2
        <2>9. d[n] = h[n]
            <3>1. h[0] = <<>> /\ \A i \in 1 .. n : h[i] = h[i - 1] \o ss[i]  BY <1>1 DEF IsFlattening
            <3>2. d[0] = h[0]  BY <2>7, <3>1
            <3>3. Grows(h, ss, n) /\ Grows(d, ss, n)  BY <2>8, <3>1 DEF Grows
            <3> QED  BY <3>2, <3>3, FlatteningOnce, Zenon
        <2>10. FlattenSeq(ss) = c[n]  BY <1>1, <1>3, <2>5, FlattenDef
        <2>11. n \in 1 .. n  BY <1>1, <1>3
        <2>12. FlattenSeq(ss) = h[n]  BY <2>7, <2>9, <2>10, <2>11
        <2> QED  BY <1>1, <2>12
    <1> QED  BY <1>2, <1>3

LEMMA FlattenType ==
    ASSUME NEW E, NEW ss \in Seq(Seq(E)) PROVE FlattenSeq(ss) \in Seq(E)
    <1>1. PICK f \in [Nat -> Seq(E)] : IsFlattening(f, ss)  BY FlatteningExists
    <1>2. Len(ss) \in Nat /\ FlattenSeq(ss) = f[Len(ss)]  BY <1>1, FlattenIs
    <1> QED  BY <1>1, <1>2

LEMMA FlattenEmpty == FlattenSeq(<<>>) = <<>>
    BY DEF FlattenSeq

\* To flatten two sequences end to end is to flatten each.
LEMMA FlattenConcat ==
    ASSUME NEW E, NEW ss \in Seq(Seq(E)), NEW tt \in Seq(Seq(E))
    PROVE  FlattenSeq(ss \o tt) = FlattenSeq(ss) \o FlattenSeq(tt)
    <1>a. \A x, y, z \in Seq(E) : (x \o y) \o z = x \o (y \o z)  OBVIOUS
    <1> DEFINE a == ss \o tt
    <1>0. PICK n \in Nat, m \in Nat : n = Len(ss) /\ m = Len(tt)  OBVIOUS
    <1>1. n \in Nat /\ m \in Nat /\ a \in Seq(Seq(E)) /\ Len(a) = n + m  BY <1>0
    <1>2. (\A i \in 1 .. n : a[i] = ss[i]) /\ \A i \in 1 .. m : a[n + i] = tt[i]  BY <1>0
    <1> HIDE DEF a
    <1>3. PICK f \in [Nat -> Seq(E)] : IsFlattening(f, a)  BY <1>1, FlatteningExists
    <1>4. PICK g \in [Nat -> Seq(E)] : IsFlattening(g, tt)  BY FlatteningExists
    <1>5. IsFlattening(f, ss)
        <2>1. \A i \in 1 .. n : i \in 1 .. Len(a)  BY <1>1
        <2> QED  BY <1>2, <1>3, <2>1, <1>0 DEF IsFlattening
    <1>6. FlattenSeq(ss) = f[n] /\ FlattenSeq(tt) = g[m] /\ FlattenSeq(a) = f[n + m]
        <2>1. FlattenSeq(ss) = f[n]  BY <1>0, <1>5, FlattenIs
        <2>2. FlattenSeq(tt) = g[m]  BY <1>0, <1>4, FlattenIs
        <2>3. FlattenSeq(a) = f[Len(a)]  BY <1>1, <1>3, FlattenIs
        <2> QED  BY <1>1, <2>1, <2>2, <2>3
    <1>7. f[n] \in Seq(E)  BY <1>1, <1>3
    <1> DEFINE P(i) == f[n + i] = f[n] \o g[i]
               S == {i \in Nat : i <= m => P(i)}
    <1>8. 0 \in S
        <2>1. g[0] = <<>> /\ n + 0 = n  BY <1>1, <1>4 DEF IsFlattening
        <2>2. f[n] \o <<>> = f[n]  BY <1>7, ConcatEmptySeq
        <2> QED  BY <2>1, <2>2
    <1>9. ASSUME NEW i \in Nat, i \in S PROVE i + 1 \in S
        <2> SUFFICES ASSUME i + 1 <= m PROVE P(i + 1)
            <3> HIDE DEF P
            <3> QED  OBVIOUS
        <2>1. /\ i + 1 \in 1 .. m /\ (i + 1) - 1 = i /\ n + (i + 1) \in 1 .. Len(a)
              /\ (n + (i + 1)) - 1 = n + i /\ i <= m  BY <1>1
        <2>2. f[n + i] = f[n] \o g[i]  BY <1>9, <2>1
        <2>3. f[n + (i + 1)] = f[n + i] \o tt[i + 1]
            <3>1. f[n + (i + 1)] = f[(n + (i + 1)) - 1] \o a[n + (i + 1)]  BY <1>3, <2>1 DEF IsFlattening
            <3> QED  BY <1>2, <2>1, <3>1
        <2>4. g[i + 1] = g[i] \o tt[i + 1]
            <3>1. g[i + 1] = g[(i + 1) - 1] \o tt[i + 1]  BY <1>0, <1>4, <2>1 DEF IsFlattening
            <3> QED  BY <2>1, <3>1
        <2>5. tt[i + 1] \in Seq(E) /\ g[i] \in Seq(E)
            <3>1. i + 1 \in 1 .. Len(tt)  BY <1>0, <2>1
            <3>2. tt[i + 1] \in Seq(E)  BY <3>1, ElementOfSeq
            <3> QED  BY <1>4, <3>2
        <2>6. (f[n] \o g[i]) \o tt[i + 1] = f[n] \o (g[i] \o tt[i + 1])
            BY <1>a, <1>7, <2>5, Zenon
        <2> QED  BY <2>2, <2>3, <2>4, <2>6
    <1>10. Nat \subseteq S
        <2> HIDE DEF P, S
        <2> QED  BY <1>8, <1>9, Induction
    <1>11. f[n + m] = f[n] \o g[m]
        <2> HIDE DEF P
        <2>1. P(m)  BY <1>0, <1>10
        <2> QED  BY <2>1 DEF P
    <1>12. FlattenSeq(a) = FlattenSeq(ss) \o FlattenSeq(tt)  BY <1>6, <1>11
    <1> QED  BY <1>12 DEF a

LEMMA FlattenOne ==
    ASSUME NEW E, NEW s \in Seq(E) PROVE FlattenSeq(<<s>>) = s
    <1> DEFINE ss == <<s>>
               f == [i \in 0 .. 1 |-> IF i = 0 THEN <<>> ELSE s]
    <1>1. ss \in Seq(Seq(E)) /\ Len(ss) = 1 /\ ss[1] = s  OBVIOUS
    <1>2. f[0] = <<>> /\ f[1] = s /\ <<>> \o s = s  OBVIOUS
    <1> HIDE DEF ss, f
    <1>3. IsFlattening(f, ss)  BY <1>1, <1>2 DEF IsFlattening
    <1>4. FlattenSeq(ss) = s  BY <1>1, <1>2, <1>3, FlattenIs
    <1> QED  BY <1>4 DEF ss

\* Induction over the sequences of a set, at their ends.
LEMMA SeqInduction ==
    ASSUME NEW E, NEW S, <<>> \in S, \A s \in Seq(E), e \in E : s \in S => Append(s, e) \in S
    PROVE  Seq(E) \subseteq S
    <1> DEFINE N == {n \in Nat : \A s \in Seq(E) : Len(s) = n => s \in S}
    <1>1. 0 \in N
        <2>1. \A s \in Seq(E) : Len(s) = 0 => s = <<>>  BY EmptySeq
        <2> QED  BY <2>1
    <1>2. ASSUME NEW n \in Nat, n \in N PROVE n + 1 \in N
        <2> SUFFICES ASSUME NEW s \in Seq(E), Len(s) = n + 1 PROVE s \in S  OBVIOUS
        <2>1. s # <<>>  OBVIOUS
        <2>2. PICK r \in Seq(E), e \in E : s = Append(r, e)  BY <2>1, SequenceEmptyOrAppend
        <2>3. Len(r) = n  BY <2>2
        <2> QED  BY <1>2, <2>2, <2>3
    <1> HIDE DEF N
    <1>3. Nat \subseteq N  BY <1>1, <1>2, Induction
    <1> QED  BY <1>3 DEF N

\* What every piece has, and concatenation keeps, the flattening has.
LEMMA FlattenClosed ==
    ASSUME NEW E, NEW G, G \subseteq Seq(E), <<>> \in G, \A x, y \in G : x \o y \in G
    PROVE  \A ss \in Seq(G) : FlattenSeq(ss) \in G
    <1> DEFINE S == {ss \in Seq(G) : FlattenSeq(ss) \in G}
    <1>1. <<>> \in S  BY FlattenEmpty
    <1>2. ASSUME NEW ss \in Seq(G), NEW e \in G, ss \in S PROVE Append(ss, e) \in S
        <2>1. Append(ss, e) = ss \o <<e>> /\ Append(ss, e) \in Seq(G)  BY AppendIsConcat, AppendProperties
        <2>2. ss \in Seq(Seq(E)) /\ <<e>> \in Seq(Seq(E)) /\ e \in Seq(E)  BY SeqMonotonic
        <2>3. FlattenSeq(ss \o <<e>>) = FlattenSeq(ss) \o FlattenSeq(<<e>>)  BY <2>2, FlattenConcat
        <2>4. FlattenSeq(<<e>>) = e  BY <2>2, FlattenOne
        <2>5. FlattenSeq(ss) \in G  BY <1>2
        <2>6. PICK f \in G : f = FlattenSeq(ss)  BY <2>5
        <2>7. f \o e \in G  OBVIOUS
        <2> QED  BY <2>1, <2>3, <2>4, <2>6, <2>7
    <1> HIDE DEF S
    <1>3. Seq(G) \subseteq S  BY <1>1, <1>2, SeqInduction
    <1> QED  BY <1>3 DEF S

\* A function put to each element.
Each(g, s) == [i \in DOMAIN s |-> g[s[i]]]

Maps(g, E, F) == \A e \in E : g[e] \in F

LEMMA EachType ==
    ASSUME NEW E, NEW F, NEW g, Maps(g, E, F), NEW s \in Seq(E)
    PROVE  /\ Each(g, s) \in Seq(F) /\ Len(Each(g, s)) = Len(s)
           /\ \A i \in 1 .. Len(s) : Each(g, s)[i] = g[s[i]]
    BY DEF Each, Maps

LEMMA EachConcat ==
    ASSUME NEW E, NEW F, NEW g, Maps(g, E, F), NEW a \in Seq(E), NEW b \in Seq(E)
    PROVE  Each(g, a \o b) = Each(g, a) \o Each(g, b)
    <1>1. a \o b \in Seq(E) /\ Len(a \o b) = Len(a) + Len(b)
          /\ \A i \in 1 .. Len(a) + Len(b) : (a \o b)[i] = IF i <= Len(a) THEN a[i] ELSE b[i - Len(a)]
        BY ConcatProperties
    <1>2. PICK c \in Seq(E) : c = a \o b  BY <1>1
    <1>3. PICK x \in Seq(F) : x = Each(g, a) /\ Len(x) = Len(a) /\ \A i \in 1 .. Len(a) : x[i] = g[a[i]]
        <2>1. Each(g, a) \in Seq(F) /\ Len(Each(g, a)) = Len(a)  BY EachType
        <2>2. \A i \in 1 .. Len(a) : Each(g, a)[i] = g[a[i]]  BY EachType
        <2> QED  BY <2>1, <2>2, Zenon
    <1>4. PICK y \in Seq(F) : y = Each(g, b) /\ Len(y) = Len(b) /\ \A i \in 1 .. Len(b) : y[i] = g[b[i]]
        <2>1. Each(g, b) \in Seq(F) /\ Len(Each(g, b)) = Len(b)  BY EachType
        <2>2. \A i \in 1 .. Len(b) : Each(g, b)[i] = g[b[i]]  BY EachType
        <2> QED  BY <2>1, <2>2, Zenon
    <1>5. PICK z \in Seq(F) : z = Each(g, c) /\ Len(z) = Len(c) /\ \A i \in 1 .. Len(c) : z[i] = g[c[i]]
        <2>1. Each(g, c) \in Seq(F) /\ Len(Each(g, c)) = Len(c)  BY EachType
        <2>2. \A i \in 1 .. Len(c) : Each(g, c)[i] = g[c[i]]  BY EachType
        <2> QED  BY <2>1, <2>2, Zenon
    <1>6. x \o y \in Seq(F) /\ Len(x \o y) = Len(x) + Len(y)
          /\ \A i \in 1 .. Len(x) + Len(y) : (x \o y)[i] = IF i <= Len(x) THEN x[i] ELSE y[i - Len(x)]
        BY ConcatProperties
    <1>7. PICK w \in Seq(F) : w = x \o y  BY <1>6
    <1>8. Len(a) \in Nat /\ Len(b) \in Nat /\ Len(z) = Len(a) + Len(b) /\ Len(w) = Len(a) + Len(b)
        BY <1>1, <1>2, <1>3, <1>4, <1>5, <1>6, <1>7
    <1>9. ASSUME NEW i \in 1 .. Len(w) PROVE w[i] = z[i]
        <2>1. i \in 1 .. Len(a) + Len(b) /\ i \in 1 .. Len(c) /\ z[i] = g[c[i]]
            BY <1>1, <1>2, <1>5, <1>8
        <2>2. CASE i <= Len(a)
            <3>1. i \in 1 .. Len(a)  BY <1>8, <2>1, <2>2
            <3>2. c[i] = a[i]  BY <1>1, <1>2, <2>1, <2>2
            <3>3. w[i] = x[i]  BY <1>3, <1>4, <1>6, <1>7, <2>1, <2>2
            <3> QED  BY <1>3, <2>1, <3>1, <3>2, <3>3
        <2>3. CASE ~ i <= Len(a)
            <3>1. i - Len(a) \in 1 .. Len(b)  BY <1>8, <2>1, <2>3
            <3>2. c[i] = b[i - Len(a)]  BY <1>1, <1>2, <2>1, <2>3
            <3>3. w[i] = y[i - Len(a)]  BY <1>3, <1>4, <1>6, <1>7, <2>1, <2>3
            <3> QED  BY <1>4, <2>1, <3>1, <3>2, <3>3
        <2> QED  BY <2>2, <2>3
    <1>10. w = z  BY <1>8, <1>9, SeqEqual
    <1> QED  BY <1>2, <1>3, <1>4, <1>5, <1>7, <1>10, Zenon

LEMMA EachOne ==
    ASSUME NEW g, NEW e
    PROVE  Each(g, <<e>>) = <<g[e]>>
    <1>1. DOMAIN <<e>> = 1 .. 1 /\ <<e>>[1] = e  OBVIOUS
    <1>2. Each(g, <<e>>) = [i \in 1 .. 1 |-> g[e]]  BY <1>1 DEF Each
    <1> QED  BY <1>2

LEMMA EachNone ==
    ASSUME NEW g PROVE Each(g, <<>>) = <<>>
    BY DEF Each

(***************************************************************************)
(* A text and its lines.                                                   *)
(***************************************************************************)
Byte == Letters \cup Marks \cup {Space, More}
AnyByte  == Byte \cup {NewLine}

\* The second byte of a character follows the first.
Whole(s) == \A i \in 1 .. Len(s) : s[i] = More => i > 1 /\ s[i - 1] \in Wide
Flat == {s \in Seq(AnyByte) : Whole(s)}

Pieces == Seq(Flat)

\* The provers reason better about an operator that they do not know.
a ++ b == a \o b

\* Texts, and lines of texts, are monoids.
LEMMA FlatLaws ==
    /\ <<>> \in Flat /\ <<NewLine>> \in Flat
    /\ \A x, y \in Flat : x ++ y \in Flat
    /\ \A x, y, z \in Flat : (x ++ y) ++ z = x ++ (y ++ z)
    /\ \A x \in Flat : <<>> ++ x = x /\ x ++ <<>> = x
    <1>1. <<>> \in Flat /\ <<NewLine>> \in Flat
        <2>1. NewLine # More /\ NewLine \in AnyByte  BY DEF AnyByte, NewLine, More
        <2>2. <<NewLine>> \in Seq(AnyByte) /\ Len(<<NewLine>>) = 1 /\ <<NewLine>>[1] = NewLine  BY <2>1
        <2>3. Whole(<<NewLine>>)
            <3> HIDE DEF NewLine
            <3> QED  BY <2>1, <2>2 DEF Whole
        <2>4. <<>> \in Seq(AnyByte) /\ Whole(<<>>)  BY DEF Whole
        <2> QED  BY <2>2, <2>3, <2>4 DEF Flat
    <1>2. ASSUME NEW x \in Flat, NEW y \in Flat PROVE x \o y \in Flat
        <2>1. PICK n \in Nat, m \in Nat : n = Len(x) /\ m = Len(y)  BY DEF Flat
        <2>2. PICK z \in Seq(AnyByte) : /\ z = x \o y /\ Len(z) = n + m
                                        /\ \A i \in 1 .. n : z[i] = x[i]
                                        /\ \A i \in 1 .. m : z[n + i] = y[i]
            <3>1. x \o y \in Seq(AnyByte) /\ Len(x \o y) = n + m  BY <2>1, ConcatProperties DEF Flat
            <3>2. \A i \in 1 .. n : (x \o y)[i] = x[i]  BY <2>1, ConcatProperties DEF Flat
            <3>3. \A i \in 1 .. m : (x \o y)[n + i] = y[i]  BY <2>1, ConcatProperties DEF Flat
            <3> QED  BY <3>1, <3>2, <3>3
        <2>3. ASSUME NEW i \in 1 .. n + m, z[i] = More PROVE i > 1 /\ z[i - 1] \in Wide
            <3>1. CASE i <= n
                <4>1. i \in 1 .. n /\ x[i] = More  BY <2>2, <2>3, <3>1
                <4>2. i > 1 /\ x[i - 1] \in Wide  BY <2>1, <4>1 DEF Flat, Whole
                <4>3. i - 1 \in 1 .. n  BY <4>1, <4>2
                <4> QED  BY <2>2, <4>2, <4>3
            <3>2. CASE i > n
                <4>1. PICK k \in 1 .. m : i = n + k  BY <3>2, i - n \in 1 .. m, i = n + (i - n)
                <4>2. y[k] = More  BY <2>2, <2>3, <4>1
                <4>3. k > 1 /\ y[k - 1] \in Wide  BY <2>1, <4>2 DEF Flat, Whole
                <4>4. k - 1 \in 1 .. m /\ n + (k - 1) = i - 1 /\ i > 1  BY <4>1, <4>3
                <4> QED  BY <2>2, <4>3, <4>4
            <3> QED  BY <3>1, <3>2
        <2> QED  BY <2>2, <2>3 DEF Flat, Whole
    <1>3. \A x, y, z \in Flat : (x \o y) \o z = x \o (y \o z)
        <2> SUFFICES ASSUME NEW x \in Seq(AnyByte), NEW y \in Seq(AnyByte), NEW z \in Seq(AnyByte)
                     PROVE  (x \o y) \o z = x \o (y \o z)  BY DEF Flat
        <2> QED  OBVIOUS
    <1>4. \A x \in Flat : <<>> \o x = x /\ x \o <<>> = x  BY DEF Flat
    <1> QED  BY <1>1, <1>2, <1>3, <1>4, Zenon DEF ++

LEMMA PiecesBytes == Pieces \subseteq Seq(Seq(AnyByte)) /\ Flat \subseteq Seq(AnyByte)
    <1>1. Flat \subseteq Seq(AnyByte)  BY DEF Flat
    <1> QED  BY <1>1, SeqMonotonic DEF Pieces

LEMMA PiecesLaws ==
    /\ <<>> \in Pieces /\ \A l \in Flat : <<l>> \in Pieces
    /\ \A x, y \in Pieces : x ++ y \in Pieces
    /\ \A x, y, z \in Pieces : (x ++ y) ++ z = x ++ (y ++ z)
    /\ \A x \in Pieces : <<>> ++ x = x /\ x ++ <<>> = x
    <1>1. <<>> \in Pieces /\ \A l \in Flat : <<l>> \in Pieces  BY DEF Pieces
    <1>2. \A x, y \in Pieces : x \o y \in Pieces  BY DEF Pieces
    <1>3. \A x, y, z \in Pieces : (x \o y) \o z = x \o (y \o z)  BY DEF Pieces
    <1>4. \A x \in Pieces : <<>> \o x = x /\ x \o <<>> = x  BY DEF Pieces
    <1> QED  BY <1>1, <1>2, <1>3, <1>4, Zenon DEF ++

LEMMA FlattenPieces == \A ss \in Pieces : FlattenSeq(ss) \in Flat
    <1>1. \A x, y \in Flat : x \o y \in Flat  BY FlatLaws DEF ++
    <1> QED  BY <1>1, FlatLaws, PiecesBytes, FlattenClosed DEF Pieces

PutBefore == [l \in Flat |-> <<NewLine>> \o l]
PutAfter  == [l \in Flat |-> l \o <<NewLine>>]

\* Lines that follow one, and lines that one follows.
Led(ls)   == FlattenSeq(Each(PutBefore, ls))
Ended(ls) == FlattenSeq(Each(PutAfter, ls))

LEMMA PutTypes ==
    /\ Maps(PutBefore, Flat, Flat) /\ Maps(PutAfter, Flat, Flat)
    /\ \A l \in Flat : PutBefore[l] = <<NewLine>> ++ l /\ PutAfter[l] = l ++ <<NewLine>>
    <1>1. \A l \in Flat : PutBefore[l] = <<NewLine>> ++ l /\ PutAfter[l] = l ++ <<NewLine>>
        BY DEF PutBefore, PutAfter, ++
    <1> QED  BY <1>1, FlatLaws DEF Maps

LEMMA LedLaws ==
    /\ Led(<<>>) = <<>>
    /\ \A l \in Flat : Led(<<l>>) = <<NewLine>> ++ l
    /\ \A x, y \in Pieces : Led(x ++ y) = Led(x) ++ Led(y)
    /\ \A x \in Pieces : Led(x) \in Flat
    <1>1. Led(<<>>) = <<>>  BY EachNone, FlattenEmpty DEF Led
    <1>2. ASSUME NEW l \in Flat PROVE Led(<<l>>) = <<NewLine>> ++ l
        <2>1. PICK m \in Flat : m = PutBefore[l]  BY PutTypes DEF Maps
        <2>2. Each(PutBefore, <<l>>) = <<m>>  BY <2>1, EachOne, Zenon
        <2>3. FlattenSeq(<<m>>) = m  BY PiecesBytes, FlattenOne
        <2> QED  BY <2>1, <2>2, <2>3, PutTypes DEF Led
    <1>3. ASSUME NEW x \in Pieces PROVE Led(x) \in Flat /\ Each(PutBefore, x) \in Pieces
        <2>1. Each(PutBefore, x) \in Pieces  BY PutTypes, EachType, Zenon DEF Pieces
        <2> QED  BY <2>1, FlattenPieces DEF Led
    <1>4. ASSUME NEW x \in Pieces, NEW y \in Pieces PROVE Led(x ++ y) = Led(x) ++ Led(y)
        <2>1. Each(PutBefore, x \o y) = Each(PutBefore, x) \o Each(PutBefore, y)
            BY PutTypes, EachConcat DEF Pieces
        <2>2. PICK v \in Pieces, w \in Pieces : v = Each(PutBefore, x) /\ w = Each(PutBefore, y)  BY <1>3
        <2>3. FlattenSeq(v \o w) = FlattenSeq(v) \o FlattenSeq(w)  BY PiecesBytes, FlattenConcat
        <2> QED  BY <2>1, <2>2, <2>3, Zenon DEF Led, ++
    <1> QED  BY <1>1, <1>2, <1>3, <1>4

LEMMA EndedLaws ==
    /\ Ended(<<>>) = <<>>
    /\ \A l \in Flat : Ended(<<l>>) = l ++ <<NewLine>>
    /\ \A x, y \in Pieces : Ended(x ++ y) = Ended(x) ++ Ended(y)
    /\ \A x \in Pieces : Ended(x) \in Flat
    <1>1. Ended(<<>>) = <<>>  BY EachNone, FlattenEmpty DEF Ended
    <1>2. ASSUME NEW l \in Flat PROVE Ended(<<l>>) = l ++ <<NewLine>>
        <2>1. PICK m \in Flat : m = PutAfter[l]  BY PutTypes DEF Maps
        <2>2. Each(PutAfter, <<l>>) = <<m>>  BY <2>1, EachOne, Zenon
        <2>3. FlattenSeq(<<m>>) = m  BY PiecesBytes, FlattenOne
        <2> QED  BY <2>1, <2>2, <2>3, PutTypes DEF Ended
    <1>3. ASSUME NEW x \in Pieces PROVE Ended(x) \in Flat /\ Each(PutAfter, x) \in Pieces
        <2>1. Each(PutAfter, x) \in Pieces  BY PutTypes, EachType, Zenon DEF Pieces
        <2> QED  BY <2>1, FlattenPieces DEF Ended
    <1>4. ASSUME NEW x \in Pieces, NEW y \in Pieces PROVE Ended(x ++ y) = Ended(x) ++ Ended(y)
        <2>1. Each(PutAfter, x \o y) = Each(PutAfter, x) \o Each(PutAfter, y)
            BY PutTypes, EachConcat DEF Pieces
        <2>2. PICK v \in Pieces, w \in Pieces : v = Each(PutAfter, x) /\ w = Each(PutAfter, y)  BY <1>3
        <2>3. FlattenSeq(v \o w) = FlattenSeq(v) \o FlattenSeq(w)  BY PiecesBytes, FlattenConcat
        <2> QED  BY <2>1, <2>2, <2>3, Zenon DEF Ended, ++
    <1> QED  BY <1>1, <1>2, <1>3, <1>4

\* A newline put before what is ended is one put after what is led.
LEMMA Shift == \A ls \in Pieces : <<NewLine>> ++ Ended(ls) = Led(ls) ++ <<NewLine>>
    <1> DEFINE P(ls) == <<NewLine>> ++ Ended(ls) = Led(ls) ++ <<NewLine>>
               S == {ls \in Pieces : P(ls)}
    <1>1. <<>> \in S  BY FlatLaws, PiecesLaws, LedLaws, EndedLaws
    <1>2. ASSUME NEW ls \in Pieces, NEW l \in Flat, ls \in S PROVE Append(ls, l) \in S
        <2>1. Append(ls, l) = ls ++ <<l>> /\ Append(ls, l) \in Pieces
            <3>1. Append(ls, l) = ls \o <<l>>  BY AppendIsConcat DEF Pieces
            <3> QED  BY <3>1, PiecesLaws DEF ++
        <2>2. PICK n \in Flat : n = <<NewLine>>  BY FlatLaws
        <2>3. PICK x \in Flat, y \in Flat : x = Ended(ls) /\ y = Led(ls)  BY LedLaws, EndedLaws
        <2>4. n ++ x = y ++ n  BY <1>2, <2>2, <2>3
        <2>a. <<l>> \in Pieces  BY PiecesLaws
        <2>5. Ended(ls ++ <<l>>) = x ++ (l ++ n)  BY <2>2, <2>3, <2>a, EndedLaws
        <2>6. Led(ls ++ <<l>>) = y ++ (n ++ l)  BY <2>2, <2>3, <2>a, LedLaws
        <2>7. n ++ (x ++ (l ++ n)) = (y ++ (n ++ l)) ++ n
            <3>1. n ++ (x ++ (l ++ n)) = (n ++ x) ++ (l ++ n)  BY FlatLaws
            <3>2. (y ++ (n ++ l)) ++ n = (y ++ n) ++ (l ++ n)  BY FlatLaws
            <3> QED  BY <2>4, <3>1, <3>2
        <2>8. P(Append(ls, l))  BY <2>1, <2>2, <2>5, <2>6, <2>7, Zenon
        <2> HIDE DEF P
        <2> QED  BY <2>1, <2>8
    <1> HIDE DEF P, S
    <1>3. Pieces \subseteq S  BY <1>1, <1>2, SeqInduction DEF Pieces
    <1>4. \A ls \in Pieces : P(ls)  BY <1>3 DEF S
    <1> QED  BY <1>4 DEF P

LEMMA TextOfFirst ==
    ASSUME NEW a \in Flat, NEW Y \in Pieces
    PROVE  Text(<<a>> ++ Y) = a ++ Led(Y)
    <1>0. Y \in Seq(Flat)  BY DEF Pieces
    <1>1. PICK ls \in Seq(Flat) : ls = <<a>> \o Y /\ Len(ls) = 1 + Len(Y) /\ ls[1] = a
                                  /\ \A i \in 1 .. Len(Y) : ls[1 + i] = Y[i]
        <2>1. <<a>> \o Y \in Seq(Flat) /\ Len(<<a>> \o Y) = 1 + Len(Y) /\ (<<a>> \o Y)[1] = a  BY <1>0
        <2>2. \A i \in 1 .. Len(Y) : (<<a>> \o Y)[1 + i] = Y[i]  BY <1>0
        <2> QED  BY <2>1, <2>2
    <1>2. PICK e \in Seq(Flat) : e = Each(PutBefore, Y) /\ Len(e) = Len(Y)
        <2>1. Each(PutBefore, Y) \in Seq(Flat) /\ Len(Each(PutBefore, Y)) = Len(Y)  BY <1>0, EachType, PutTypes
        <2> QED  BY <2>1
    <1>3. \A i \in 1 .. Len(Y) : e[i] = PutBefore[Y[i]]
        <2>1. \A i \in 1 .. Len(Y) : Each(PutBefore, Y)[i] = PutBefore[Y[i]]  BY <1>0, EachType, PutTypes
        <2> QED  BY <1>2, <2>1
    <1>4. \A i \in 1 .. Len(Y) : <<NewLine>> \o ls[1 + i] = e[i]
        <2> TAKE i \in 1 .. Len(Y)
        <2>1. Y[i] \in Flat /\ ls[1 + i] = Y[i]  BY <1>0, <1>1
        <2>2. PutBefore[Y[i]] = <<NewLine>> \o Y[i]  BY <2>1, PutTypes DEF ++
        <2> QED  BY <1>3, <2>1, <2>2, Zenon
    <1> DEFINE g == [i \in DOMAIN ls |-> IF i = 1 THEN ls[i] ELSE <<NewLine>> \o ls[i]]
    <1>5. PICK h \in Seq(Flat) : h = <<a>> \o e /\ Len(h) = 1 + Len(Y) /\ h[1] = a
                                 /\ \A i \in 1 .. Len(Y) : h[1 + i] = e[i]
        <2>1. <<a>> \o e \in Seq(Flat) /\ Len(<<a>> \o e) = 1 + Len(Y) /\ (<<a>> \o e)[1] = a  BY <1>2
        <2>2. \A i \in 1 .. Len(Y) : (<<a>> \o e)[1 + i] = e[i]  BY <1>2
        <2> QED  BY <2>1, <2>2
    <1>6. g = h
        <2>1. DOMAIN h = DOMAIN ls /\ DOMAIN ls = 1 .. 1 + Len(Y) /\ Len(Y) \in Nat  BY <1>1, <1>5
        <2>2. ASSUME NEW i \in DOMAIN ls PROVE h[i] = IF i = 1 THEN ls[i] ELSE <<NewLine>> \o ls[i]
            <3>1. CASE i = 1  BY <1>1, <1>5, <3>1
            <3>2. CASE i # 1
                <4>1. i - 1 \in 1 .. Len(Y) /\ 1 + (i - 1) = i  BY <2>1, <3>2
                <4>2. h[i] = e[i - 1] /\ <<NewLine>> \o ls[1 + (i - 1)] = e[i - 1]  BY <1>4, <1>5, <4>1
                <4>3. <<NewLine>> \o ls[i] = e[i - 1]  BY <4>1, <4>2, Zenon
                <4> QED  BY <3>2, <4>2, <4>3, Zenon
            <3> QED  BY <3>1, <3>2
        <2>3. h = [i \in DOMAIN ls |-> h[i]]  BY <2>1
        <2> QED  BY <2>2, <2>3
    <1> HIDE DEF g
    <1>7. Text(ls) = FlattenSeq(h)  BY <1>6 DEF Text, g
    <1>8. FlattenSeq(<<a>> \o e) = FlattenSeq(<<a>>) \o FlattenSeq(e)
        <2>1. <<a>> \in Seq(Flat)  OBVIOUS
        <2> QED  BY <1>2, <2>1, PiecesBytes, FlattenConcat DEF Pieces
    <1>9. FlattenSeq(<<a>>) = a  BY PiecesBytes, FlattenOne
    <1> QED  BY <1>1, <1>2, <1>5, <1>7, <1>8, <1>9, Zenon DEF Led, ++

\* A text around one of its lines.
LEMMA TextAround ==
    ASSUME NEW X \in Pieces, NEW a \in Flat, NEW Y \in Pieces
    PROVE  Text(X ++ (<<a>> ++ Y)) = Ended(X) ++ (a ++ Led(Y))
    <1>1. CASE X = <<>>
        <2>1. X ++ (<<a>> ++ Y) = <<a>> ++ Y  BY <1>1, PiecesLaws
        <2>2. a ++ Led(Y) \in Flat  BY FlatLaws, LedLaws
        <2>3. Ended(X) ++ (a ++ Led(Y)) = a ++ Led(Y)  BY <1>1, <2>2, FlatLaws, EndedLaws
        <2> QED  BY <2>1, <2>3, TextOfFirst, Zenon
    <1>2. CASE X # <<>>
        <2>1. PICK x \in Flat, Z \in Pieces : X = <<x>> ++ Z
            <3>1. Head(X) \in Flat /\ Tail(X) \in Seq(Flat) /\ X = <<Head(X)>> \o Tail(X)  BY <1>2 DEF Pieces
            <3> QED  BY <3>1 DEF Pieces, ++
        <2>2. PICK V \in Pieces : V = Z ++ (<<a>> ++ Y) /\ X ++ (<<a>> ++ Y) = <<x>> ++ V
            <3>1. <<a>> \in Pieces /\ <<x>> \in Pieces  BY PiecesLaws
            <3>2. PICK W \in Pieces : W = <<a>> ++ Y  BY <3>1, PiecesLaws
            <3>3. PICK V \in Pieces : V = Z ++ W  BY PiecesLaws
            <3>4. (<<x>> ++ Z) ++ W = <<x>> ++ (Z ++ W)  BY <3>1, PiecesLaws
            <3> QED  BY <2>1, <3>2, <3>3, <3>4, Zenon
        <2>3. Text(X ++ (<<a>> ++ Y)) = x ++ Led(V)  BY <2>2, TextOfFirst, Zenon
        <2>5. PICK n \in Flat : n = <<NewLine>>  BY FlatLaws
        <2>6. PICK y \in Flat, z \in Flat, e \in Flat : y = Led(Y) /\ z = Led(Z) /\ e = Ended(Z)
            BY LedLaws, EndedLaws
        <2>4. <<a>> \in Pieces /\ <<a>> ++ Y \in Pieces /\ <<x>> \in Pieces  BY PiecesLaws
        <2>7. Led(V) = z ++ ((n ++ a) ++ y)
            <3>1. Led(V) = Led(Z) ++ Led(<<a>> ++ Y)  BY <2>2, <2>4, LedLaws
            <3>2. Led(<<a>> ++ Y) = Led(<<a>>) ++ Led(Y)  BY <2>4, LedLaws
            <3>3. Led(<<a>>) = n ++ a  BY <2>5, LedLaws
            <3> QED  BY <2>6, <3>1, <3>2, <3>3, Zenon
        <2>8. Ended(X) = (x ++ n) ++ e
            <3>1. Ended(X) = Ended(<<x>>) ++ Ended(Z)  BY <2>1, <2>4, EndedLaws
            <3>2. Ended(<<x>>) = x ++ n  BY <2>5, EndedLaws
            <3> QED  BY <2>6, <3>1, <3>2, Zenon
        <2>9. n ++ e = z ++ n  BY <2>5, <2>6, Shift
        <2>10. ((x ++ n) ++ e) ++ (a ++ y) = x ++ (z ++ ((n ++ a) ++ y))
            <3>0. PICK w \in Flat : w = a ++ y  BY FlatLaws
            <3>1. ((x ++ n) ++ e) ++ w = x ++ ((n ++ e) ++ w)  BY FlatLaws
            <3>2. (z ++ n) ++ w = z ++ (n ++ w)  BY FlatLaws
            <3>3. (n ++ a) ++ y = n ++ w  BY <3>0, FlatLaws
            <3> QED  BY <2>9, <3>0, <3>1, <3>2, <3>3, Zenon
        <2> QED  BY <2>3, <2>6, <2>7, <2>8, <2>10, Zenon
    <1> QED  BY <1>1, <1>2

\* The last line of a text.
LEMMA LastLine ==
    ASSUME NEW ls \in Pieces, ls # <<>>
    PROVE  \E X \in Pieces, a \in Flat : ls = X ++ <<a>> /\ ls = Append(X, a) /\ Text(ls) = Ended(X) ++ a
    <1>1. PICK X \in Pieces, a \in Flat : ls = Append(X, a)
        BY SequenceEmptyOrAppend DEF Pieces
    <1>2. ls = X ++ <<a>>  BY <1>1, AppendIsConcat DEF Pieces, ++
    <1>3. <<>> \in Pieces /\ <<a>> ++ <<>> = <<a>> /\ Led(<<>>) = <<>> /\ a ++ <<>> = a
        BY FlatLaws, PiecesLaws, LedLaws
    <1>4. Text(X ++ (<<a>> ++ <<>>)) = Ended(X) ++ (a ++ Led(<<>>))  BY <1>3, TextAround
    <1> QED  BY <1>1, <1>2, <1>3, <1>4

LEMMA TextAppend ==
    ASSUME NEW X \in Pieces, NEW a \in Flat
    PROVE  Append(X, a) \in Pieces /\ Text(Append(X, a)) = Ended(X) ++ a
    <1>1. Append(X, a) \in Pieces /\ Append(X, a) # <<>>  BY AppendProperties DEF Pieces
    <1>2. PICK Y \in Pieces, b \in Flat : Append(X, a) = Append(Y, b) /\ Text(Append(X, a)) = Ended(Y) ++ b
        BY <1>1, LastLine
    <1>3. X = Y /\ a = b  BY <1>2, AppendInjective DEF Pieces
    <1> QED  BY <1>1, <1>2, <1>3

LEMMA TextType ==
    ASSUME NEW ls \in Pieces, ls # <<>> PROVE Text(ls) \in Flat
    <1>1. PICK X \in Pieces, a \in Flat : Text(ls) = Ended(X) ++ a  BY LastLine
    <1> QED  BY <1>1, FlatLaws, EndedLaws

(***************************************************************************)
(* Cutting a text into its lines.                                          *)
(***************************************************************************)
Cuts(f, bytes) ==
    f = [n \in 0 .. Len(bytes) |->
           IF n = 0 THEN <<<<>>>>
           ELSE LET ls == f[n - 1]
                IN  IF bytes[n] = NewLine THEN Append(ls, <<>>)
                    ELSE [ls EXCEPT ![Len(ls)] = Append(@, bytes[n])]]

LEMMA CutDef == \A s : Cut(s) = (CHOOSE f : Cuts(f, s))[Len(s)]
    BY DEF Cut, Cuts

\* The recursive function of Cut exists.
LEMMA CutsExist ==
    ASSUME NEW E, NEW s \in Seq(E) PROVE \E f : Cuts(f, s)
    <1> DEFINE T == Seq(Seq(E))
               step == [p \in Nat \X T |->
                          IF p[1] + 1 <= Len(s)
                          THEN IF s[p[1] + 1] = NewLine THEN Append(p[2], <<>>)
                               ELSE [p[2] EXCEPT ![Len(p[2])] = Append(@, s[p[1] + 1])]
                          ELSE p[2]]
    <1>1. step \in [Nat \X T -> T]
        <2> SUFFICES ASSUME NEW p \in Nat \X T PROVE step[p] \in T  OBVIOUS
        <2>1. PICK n \in Nat, ls \in Seq(Seq(E)) : p = <<n, ls>>  OBVIOUS
        <2>2. Append(ls, <<>>) \in T  OBVIOUS
        <2>3. ASSUME n + 1 <= Len(s) PROVE [ls EXCEPT ![Len(ls)] = Append(@, s[n + 1])] \in T
            <3>1. s[n + 1] \in E  BY <2>3
            <3>2. PICK b \in E : b = s[n + 1]  BY <3>1
            <3>3. CASE ls = <<>>
                <4>1. [ls EXCEPT ![Len(ls)] = Append(@, b)] = <<>>  BY <3>3
                <4>2. <<>> \in T  OBVIOUS
                <4> QED  BY <3>2, <4>1, <4>2, Zenon
            <3>4. CASE ls # <<>>
                <4>1. Len(ls) \in 1 .. Len(ls)  BY <3>4
                <4>2. ls[Len(ls)] \in Seq(E)  BY <4>1
                <4>3. Append(ls[Len(ls)], b) \in Seq(E)  BY <4>2
                <4> QED  BY <3>2, <4>1, <4>3
            <3> QED  BY <3>3, <3>4
        <2> QED  BY <2>1, <2>2, <2>3
    <1>2. <<<<>>>> \in T  OBVIOUS
    <1>3. \A n \in Nat, ls \in T : n + 1 <= Len(s) =>
             step[<<n, ls>>] = IF s[n + 1] = NewLine THEN Append(ls, <<>>)
                               ELSE [ls EXCEPT ![Len(ls)] = Append(@, s[n + 1])]  OBVIOUS
    <1> HIDE DEF T, step
    <1>4. PICK f \in [Nat -> T] : \A n \in Nat : Recurs(f, n, <<<<>>>>, step)  BY <1>1, <1>2, Recursion
    <1> DEFINE g == [n \in 0 .. Len(s) |-> f[n]]
               body(h, n) == IF n = 0 THEN <<<<>>>>
                             ELSE LET ls == h[n - 1]
                                  IN  IF s[n] = NewLine THEN Append(ls, <<>>)
                                      ELSE [ls EXCEPT ![Len(ls)] = Append(@, s[n])]
    <1>5. ASSUME NEW n \in 0 .. Len(s) PROVE f[n] = body(g, n)
        <2>1. CASE n = 0
            <3>1. f[0] = <<<<>>>>  BY <1>4 DEF Recurs
            <3> QED  BY <2>1, <3>1
        <2>2. CASE n # 0
            <3>1. n - 1 \in Nat /\ n - 1 \in 0 .. n - 1 /\ n - 1 \in 0 .. Len(s) /\ (n - 1) + 1 = n /\ n \in Nat /\ n <= Len(s)
                BY <2>2
            <3>2. f[n] = step[<<n - 1, f[n - 1]>>]  BY <1>4, <3>1 DEF Recurs
            <3>3. f[n - 1] \in T /\ g[n - 1] = f[n - 1]  BY <3>1
            <3>4. f[n] = IF s[n] = NewLine THEN Append(f[n - 1], <<>>)
                         ELSE [f[n - 1] EXCEPT ![Len(f[n - 1])] = Append(@, s[n])]  BY <1>3, <3>1, <3>2, <3>3
            <3> QED  BY <2>2, <3>3, <3>4
        <2> QED  BY <2>1, <2>2
    <1> HIDE DEF body
    <1>6. g = [n \in 0 .. Len(s) |-> body(g, n)]  BY <1>5
    <1> HIDE DEF g
    <1>7. Cuts(g, s)  BY <1>6 DEF Cuts, body
    <1> QED  BY <1>7
\* What is made of the first n bytes: its text is these bytes, and its last
\* line ends as they end.
CutTo(ls, s, n) ==
    \E X \in Pieces, a \in Flat :
        /\ ls = Append(X, a)
        /\ Text(ls) = SubSeq(s, 1, n)
        /\ n > 0 => IF s[n] = NewLine THEN a = <<>> ELSE a # <<>> /\ a[Len(a)] = s[n]

IsAppend(t, s, e, n) ==
    /\ t = Append(s, e) /\ Len(s) = n /\ Len(t) = n + 1 /\ t[n + 1] = e
    /\ \A i \in 1 .. n : t[i] = s[i]

LEMMA AppendIs ==
    ASSUME NEW E, NEW s \in Seq(E), NEW e \in E
    PROVE  \E t \in Seq(E), n \in Nat : IsAppend(t, s, e, n)
    <1>1. Append(s, e) \in Seq(E) /\ Len(Append(s, e)) = Len(s) + 1 /\ Append(s, e)[Len(s) + 1] = e
        BY AppendProperties
    <1>2. \A i \in 1 .. Len(s) : Append(s, e)[i] = s[i]  BY AppendProperties
    <1>3. IsAppend(Append(s, e), s, e, Len(s)) /\ Len(s) \in Nat  BY <1>1, <1>2 DEF IsAppend
    <1> QED  BY <1>1, <1>3

LEMMA AppendByte ==
    ASSUME NEW a \in Flat, NEW b \in AnyByte, b = More => a # <<>> /\ a[Len(a)] \in Wide
    PROVE  /\ Append(a, b) \in Flat /\ Append(a, b) = a ++ <<b>>
           /\ Append(a, b) # <<>> /\ Append(a, b)[Len(Append(a, b))] = b
    <1>1. a \in Seq(AnyByte) /\ Whole(a)  BY DEF Flat
    <1>2. PICK c \in Seq(AnyByte), n \in Nat : IsAppend(c, a, b, n)  BY <1>1, AppendIs
    <1>3. /\ c = Append(a, b) /\ Len(a) = n /\ Len(c) = n + 1 /\ c[n + 1] = b
          /\ \A i \in 1 .. n : c[i] = a[i]
        BY <1>2 DEF IsAppend
    <1>4. ASSUME NEW i \in 1 .. n + 1, c[i] = More PROVE i > 1 /\ c[i - 1] \in Wide
        <2>1. CASE i = n + 1
            <3>1. n > 0 /\ a[n] \in Wide  BY <1>1, <1>2, <1>3, <1>4, <2>1
            <3> QED  BY <1>3, <2>1, <3>1
        <2>2. CASE i # n + 1
            <3>1. i \in 1 .. n /\ a[i] = More  BY <1>3, <1>4, <2>2
            <3>2. i > 1 /\ a[i - 1] \in Wide  BY <1>1, <1>3, <3>1 DEF Whole
            <3> QED  BY <1>3, <3>1, <3>2
        <2> QED  BY <2>1, <2>2
    <1>5. Whole(c)  BY <1>3, <1>4 DEF Whole
    <1>6. Append(a, b) = a ++ <<b>>  BY <1>1, AppendIsConcat DEF ++
    <1>7. c # <<>> /\ c[Len(c)] = b  BY <1>3
    <1> QED  BY <1>3, <1>5, <1>6, <1>7 DEF Flat

LEMMA NotWide == NewLine \notin Wide /\ More \notin Wide /\ Space \notin Wide /\ Space # More /\ NewLine # More
    BY TextInputAssumption DEF NewLine, More, Space

\* The bytes up to the n-th, and one more.
LEMMA OneMore ==
    ASSUME NEW E, NEW s \in Seq(E), NEW n \in Nat, n < Len(s)
    PROVE  /\ SubSeq(s, 1, n) \in Seq(E) /\ SubSeq(s, 1, n + 1) = SubSeq(s, 1, n) \o <<s[n + 1]>>
           /\ s[n + 1] \in E
    <1>1. SubSeq(s, 1, n + 1) = Append(SubSeq(s, 1, (n + 1) - 1), s[n + 1])
        BY SubSeqRecursiveSecond
    <1>2. SubSeq(s, 1, n) \in Seq(E)  BY SubSeqProperties
    <1>3. (n + 1) - 1 = n /\ s[n + 1] \in E  OBVIOUS
    <1>4. Append(SubSeq(s, 1, n), s[n + 1]) = SubSeq(s, 1, n) \o <<s[n + 1]>>  BY <1>2, <1>3, AppendIsConcat
    <1> QED  BY <1>1, <1>2, <1>3, <1>4, Zenon

\* One byte more: a newline starts a line, another byte ends up in the last.
LEMMA CutStep ==
    ASSUME NEW s \in Flat, NEW n \in Nat, n < Len(s), NEW ls, CutTo(ls, s, n)
    PROVE  CutTo(IF s[n + 1] = NewLine THEN Append(ls, <<>>)
                 ELSE [ls EXCEPT ![Len(ls)] = Append(@, s[n + 1])], s, n + 1)
    <1>1. PICK X \in Pieces, a \in Flat :
             /\ ls = Append(X, a) /\ Text(ls) = SubSeq(s, 1, n)
             /\ n > 0 => IF s[n] = NewLine THEN a = <<>> ELSE a # <<>> /\ a[Len(a)] = s[n]
        BY DEF CutTo
    <1>2. PICK b \in AnyByte : b = s[n + 1] /\ SubSeq(s, 1, n + 1) = SubSeq(s, 1, n) ++ <<b>>
        BY OneMore DEF Flat, ++
    <1>3. ls \in Pieces /\ Text(ls) = Ended(X) ++ a /\ Ended(X) \in Flat  BY <1>1, TextAppend, EndedLaws
    <1>4. CASE b = NewLine
        <2>1. Append(ls, <<>>) \in Pieces /\ Text(Append(ls, <<>>)) = Ended(ls) ++ <<>>
            BY <1>3, FlatLaws, TextAppend
        <2>2. Ended(ls) \in Flat /\ Ended(ls) = Ended(X) ++ (a ++ <<b>>)
            <3>1. ls = X ++ <<a>>  BY <1>1, AppendIsConcat DEF Pieces, ++
            <3>2. <<a>> \in Pieces /\ Ended(<<a>>) = a ++ <<b>>  BY <1>4, PiecesLaws, EndedLaws
            <3> QED  BY <1>3, <3>1, <3>2, EndedLaws
        <2>3. (Ended(X) ++ a) ++ <<b>> = Ended(X) ++ (a ++ <<b>>)  BY <1>3, <1>4, FlatLaws
        <2>4. Text(Append(ls, <<>>)) = SubSeq(s, 1, n + 1)
            <3>1. Ended(ls) ++ <<>> = Ended(ls)  BY <2>2, FlatLaws
            <3> QED  BY <1>1, <1>2, <1>3, <2>1, <2>2, <2>3, <3>1, Zenon
        <2>5. s[n + 1] = NewLine /\ n + 1 > 0  BY <1>2, <1>4
        <2>6. CutTo(Append(ls, <<>>), s, n + 1)
            <3>1. ls \in Pieces /\ <<>> \in Flat  BY <1>3, FlatLaws
            <3> QED  BY <2>4, <2>5, <3>1, Zenon DEF CutTo
        <2> QED  BY <2>5, <2>6
    <1>5. CASE b # NewLine
        <2>1. b = More => a # <<>> /\ a[Len(a)] \in Wide
            <3> SUFFICES ASSUME b = More PROVE a # <<>> /\ a[Len(a)] \in Wide  OBVIOUS
            <3>1. n + 1 \in 1 .. Len(s) /\ (n + 1) - 1 = n  BY DEF Flat
            <3>2. n + 1 > 1 /\ s[(n + 1) - 1] \in Wide  BY <1>2, <3>1 DEF Flat, Whole
            <3>3. n > 0 /\ s[n] \in Wide  BY <3>1, <3>2
            <3> QED  BY <1>1, <3>3, NotWide
        <2>2. PICK c \in Flat : /\ c = Append(a, b) /\ c = a ++ <<b>>
                                /\ c # <<>> /\ c[Len(c)] = b
            BY <2>1, AppendByte
        <2>3. [ls EXCEPT ![Len(ls)] = Append(@, b)] = Append(X, c)
            <3>1. ls \in Seq(Flat) /\ X \in Seq(Flat)  BY <1>3 DEF Pieces
            <3>2. PICK d \in Seq(Flat), m \in Nat : IsAppend(d, X, c, m)  BY <3>1, AppendIs
            <3>4. d = Append(X, c) /\ Len(X) = m /\ Len(d) = m + 1 /\ d[m + 1] = c /\ \A i \in 1 .. m : d[i] = X[i]
                BY <3>2 DEF IsAppend
            <3>3. Len(ls) = m + 1 /\ ls[m + 1] = a /\ \A i \in 1 .. m : ls[i] = X[i]
                BY <1>1, <3>1, <3>4, AppendProperties
            <3>5. PICK e : e = [ls EXCEPT ![m + 1] = c]  OBVIOUS
            <3>6. e \in Seq(Flat) /\ Len(e) = m + 1 /\ e[m + 1] = c /\ \A i \in 1 .. m : e[i] = ls[i]
                BY <3>1, <3>3, <3>5
            <3>7. \A i \in 1 .. m + 1 : e[i] = d[i]
                <4> TAKE i \in 1 .. m + 1
                <4>1. CASE i = m + 1  BY <3>4, <3>6, <4>1
                <4>2. CASE i # m + 1
                    <5>1. i \in 1 .. m  BY <4>2
                    <5> QED  BY <3>3, <3>4, <3>6, <5>1
                <4> QED  BY <4>1, <4>2
            <3>8. e = d  BY <3>4, <3>6, <3>7, SeqEqual
            <3> QED  BY <2>2, <3>3, <3>4, <3>5, <3>8, Zenon
        <2>4. Text(Append(X, c)) = SubSeq(s, 1, n + 1)
            <3>1. Text(Append(X, c)) = Ended(X) ++ c  BY TextAppend
            <3>2. (Ended(X) ++ a) ++ <<b>> = Ended(X) ++ (a ++ <<b>>)
                <4>1. PICK x \in Flat : x = Ended(X)  BY <1>3
                <4>2. x \in Seq(AnyByte) /\ a \in Seq(AnyByte) /\ <<b>> \in Seq(AnyByte)  BY DEF Flat
                <4>3. (x \o a) \o <<b>> = x \o (a \o <<b>>)  BY <4>2, ConcatAssociative
                <4> QED  BY <4>1, <4>3, Zenon DEF ++
            <3> QED  BY <1>1, <1>2, <1>3, <2>2, <3>1, <3>2, Zenon
        <2>5. s[n + 1] # NewLine /\ n + 1 > 0 /\ c[Len(c)] = s[n + 1]  BY <1>2, <1>5, <2>2
        <2>6. CutTo(Append(X, c), s, n + 1)  BY <2>2, <2>4, <2>5, Zenon DEF CutTo
        <2> QED  BY <1>2, <2>3, <2>5, <2>6, Zenon
    <1> QED  BY <1>4, <1>5

\* Cutting a text at its newlines loses nothing.
LEMMA CutIs ==
    ASSUME NEW s \in Flat
    PROVE  Cut(s) \in Pieces /\ Cut(s) # <<>> /\ Text(Cut(s)) = s
    <1>0. s \in Seq(AnyByte)  BY DEF Flat
    <1>1. \E f : Cuts(f, s)  BY <1>0, CutsExist
    <1>2. PICK f : Cuts(f, s) /\ f = CHOOSE x : Cuts(x, s)  BY <1>1, Zenon
    <1>3. Cut(s) = f[Len(s)]  BY <1>2, CutDef, Zenon
    <1>4. f[0] = <<<<>>>>  BY <1>0, <1>2 DEF Cuts
    <1>5. ASSUME NEW n \in Nat, n < Len(s)
          PROVE  f[n + 1] = IF s[n + 1] = NewLine THEN Append(f[n], <<>>)
                            ELSE [f[n] EXCEPT ![Len(f[n])] = Append(@, s[n + 1])]
        <2>1. n + 1 \in 0 .. Len(s) /\ n + 1 # 0 /\ (n + 1) - 1 = n  BY <1>0, <1>5
        <2> DEFINE body(m) == IF m = 0 THEN <<<<>>>>
                              ELSE LET ls == f[m - 1]
                                   IN  IF s[m] = NewLine THEN Append(ls, <<>>)
                                       ELSE [ls EXCEPT ![Len(ls)] = Append(@, s[m])]
        <2>2. f = [m \in 0 .. Len(s) |-> body(m)]  BY <1>2 DEF Cuts
        <2>3. f[n + 1] = body(n + 1)
            <3> HIDE DEF body
            <3> QED  BY <2>1, <2>2
        <2>4. body(n + 1) = IF s[n + 1] = NewLine THEN Append(f[(n + 1) - 1], <<>>)
                            ELSE [f[(n + 1) - 1] EXCEPT ![Len(f[(n + 1) - 1])] = Append(@, s[n + 1])]
            BY <2>1, Zenon
        <2>5. f[(n + 1) - 1] = f[n]  BY <2>1
        <2> HIDE DEF body
        <2> QED  BY <2>3, <2>4, <2>5, Zenon
    <1> DEFINE S == {n \in Nat : n <= Len(s) => CutTo(f[n], s, n)}
    <1>6. 0 \in S
        <2>1. <<<<>>>> = Append(<<>>, <<>>)  OBVIOUS
        <2>2. Text(<<<<>>>>) = Ended(<<>>) ++ <<>>
            <3>1. Text(Append(<<>>, <<>>)) = Ended(<<>>) ++ <<>>  BY FlatLaws, PiecesLaws, TextAppend
            <3> QED  BY <2>1, <3>1, Zenon
        <2>3. Text(<<<<>>>>) = SubSeq(s, 1, 0)
            <3>1. SubSeq(s, 1, 0) = <<>>  BY <1>0
            <3> QED  BY <2>2, <3>1, FlatLaws, EndedLaws
        <2>4. CutTo(f[0], s, 0)
            <3>1. ~ 0 > 0  OBVIOUS
            <3> QED  BY <1>4, <2>1, <2>3, <3>1, FlatLaws, PiecesLaws, Zenon DEF CutTo
        <2> QED  BY <2>4
    <1>7. ASSUME NEW n \in Nat, n \in S PROVE n + 1 \in S
        <2> SUFFICES ASSUME n + 1 <= Len(s) PROVE CutTo(f[n + 1], s, n + 1)  OBVIOUS
        <2>1. n < Len(s) /\ n <= Len(s)  BY <1>0
        <2>2. CutTo(f[n], s, n)  BY <1>7, <2>1
        <2>3. CutTo(IF s[n + 1] = NewLine THEN Append(f[n], <<>>)
                    ELSE [f[n] EXCEPT ![Len(f[n])] = Append(@, s[n + 1])], s, n + 1)
            BY <2>1, <2>2, CutStep
        <2> QED  BY <1>5, <2>1, <2>3, Zenon
    <1> HIDE DEF S
    <1>8. Nat \subseteq S  BY <1>6, <1>7, Induction
    <1>9. CutTo(f[Len(s)], s, Len(s))  BY <1>0, <1>8 DEF S
    <1>10. PICK X \in Pieces, a \in Flat : Cut(s) = Append(X, a) /\ Text(Cut(s)) = SubSeq(s, 1, Len(s))
        BY <1>3, <1>9 DEF CutTo
    <1>11. SubSeq(s, 1, Len(s)) = s  BY <1>0, SubSeqFull
    <1>12. Append(X, a) \in Pieces /\ Append(X, a) # <<>>  BY AppendProperties DEF Pieces
    <1> QED  BY <1>10, <1>11, <1>12

LEMMA MinIs ==
    ASSUME NEW T, T \subseteq Nat, T # {}
    PROVE  Min(T) \in T /\ \A y \in T : Min(T) <= y
    <1>1. \E x \in T : \A y \in T : x <= y  BY Least
    <1> QED  BY <1>1 DEF Min

LEMMA MaxIs ==
    ASSUME NEW n \in Nat, NEW T, T \subseteq 0 .. n, T # {}
    PROVE  Max(T) \in T /\ \A y \in T : y <= Max(T)
    <1> DEFINE U == {x \in Nat : x <= n /\ n - x \in T}
    <1>1. \A y \in T : n - y \in U /\ n - (n - y) = y  OBVIOUS
    <1>2. U \subseteq Nat /\ U # {}  BY <1>1
    <1>3. \A u \in U : u \in Nat /\ n - u \in T  OBVIOUS
    <1> HIDE DEF U
    <1>4. PICK u \in U : \A v \in U : u <= v  BY <1>2, Least
    <1>5. \A y \in T : n - u >= y  BY <1>1, <1>3, <1>4
    <1>6. \E x \in T : \A y \in T : x >= y  BY <1>3, <1>4, <1>5
    <1>7. Max(T) \in T /\ \A y \in T : Max(T) >= y  BY <1>6 DEF Max
    <1> QED  BY <1>7

\* A text loses at most a final newline in its lines.
LEMMA LinesIs ==
    ASSUME NEW s \in Flat
    PROVE  /\ Lines(s) \in Pieces /\ Lines(s) # <<>>
           /\ Text(Lines(s)) \in Flat
           /\ s = Text(Lines(s)) \/ s = Text(Lines(s)) ++ <<NewLine>>
    <1>1. PICK ls \in Pieces : ls = Cut(s) /\ ls # <<>> /\ Text(ls) = s  BY CutIs
    <1>2. CASE ~ (Len(ls) > 1 /\ ls[Len(ls)] = <<>>)
        <2>1. Lines(s) = ls  BY <1>1, <1>2 DEF Lines
        <2> QED  BY <1>1, <2>1
    <1>3. CASE Len(ls) > 1 /\ ls[Len(ls)] = <<>>
        <2>1. PICK X \in Pieces, a \in Flat : ls = Append(X, a) /\ Text(ls) = Ended(X) ++ a  BY <1>1, LastLine
        <2>2. PICK d \in Pieces, m \in Nat : IsAppend(d, X, a, m)  BY AppendIs DEF Pieces
        <2>3. d = ls /\ Len(X) = m /\ Len(ls) = m + 1 /\ ls[m + 1] = a /\ \A i \in 1 .. m : ls[i] = X[i]
            BY <2>1, <2>2 DEF IsAppend
        <2>4. m > 0 /\ a = <<>> /\ X # <<>>  BY <1>3, <2>3
        <2>5. Lines(s) = X
            <3>1. X \in Seq(Flat) /\ ls \in Seq(Flat)  BY DEF Pieces
            <3>2. PICK F \in Seq(Flat) : F = SubSeq(ls, 1, m) /\ Len(F) = m /\ \A i \in 1 .. m : F[i] = ls[i]
                <4>1. \A i \in 1 .. m : ls[i] \in Flat  BY <2>3, <3>1
                <4>2. SubSeq(ls, 1, m) \in Seq(Flat) /\ Len(SubSeq(ls, 1, m)) = m  BY <2>4, <4>1, SubSeqProperties
                <4>3. \A i \in 1 .. m : SubSeq(ls, 1, m)[i] = ls[i]  BY <3>1, <2>3
                <4> QED  BY <4>2, <4>3
            <3>3. F = X  BY <2>3, <3>1, <3>2, SeqEqual
            <3>4. Front(ls) = SubSeq(ls, 1, m)
                <4>1. (m + 1) - 1 = m  OBVIOUS
                <4> QED  BY <2>3, <4>1, Zenon DEF Front
            <3> QED  BY <1>1, <1>3, <3>2, <3>3, <3>4 DEF Lines
        <2>6. PICK Y \in Pieces, b \in Flat : X = Y ++ <<b>> /\ Text(X) = Ended(Y) ++ b  BY <2>4, LastLine
        <2>7. <<b>> \in Pieces  BY PiecesLaws
        <2>8. Ended(X) = Ended(Y) ++ (b ++ <<NewLine>>)  BY <2>6, <2>7, EndedLaws
        <2>9. Ended(Y) ++ (b ++ <<NewLine>>) = (Ended(Y) ++ b) ++ <<NewLine>>  BY EndedLaws, FlatLaws
        <2>10. s = Ended(X)
            <3>1. Ended(X) ++ <<>> = Ended(X)  BY EndedLaws, FlatLaws
            <3> QED  BY <1>1, <2>1, <2>4, <3>1
        <2>11. Text(X) \in Flat  BY <2>4, TextType
        <2> QED  BY <2>4, <2>5, <2>6, <2>8, <2>9, <2>10, <2>11, Zenon
    <1> QED  BY <1>2, <1>3, TextType, <1>1

\* A final newline makes no difference without the last lines.
LEMMA WithoutLast ==
    ASSUME NEW x \in Flat
    PROVE  WithoutLastLines(x ++ <<NewLine>>) = WithoutLastLines(x)
    <1>0. x \in Seq(AnyByte) /\ NewLine \in AnyByte  BY DEF Flat, AnyByte
    <1>1. PICK y \in Seq(AnyByte), n \in Nat : IsAppend(y, x, NewLine, n)  BY <1>0, AppendIs
    <1>2. /\ y = x ++ <<NewLine>> /\ Len(x) = n /\ Len(y) = n + 1 /\ y[n + 1] = NewLine
          /\ \A i \in 1 .. n : y[i] = x[i]
        <2>1. Append(x, NewLine) = x ++ <<NewLine>>  BY <1>0, AppendIsConcat DEF ++
        <2> QED  BY <1>1, <2>1 DEF IsAppend
    <1> DEFINE T == {0} \cup {i \in DOMAIN x : x[i] # NewLine}
    <1>3. {0} \cup {i \in DOMAIN y : y[i] # NewLine} = T
        <2>1. DOMAIN y = 1 .. n + 1 /\ DOMAIN x = 1 .. n  BY <1>0, <1>2
        <2>2. \A i \in 1 .. n + 1 : i \in 1 .. n \/ i = n + 1  OBVIOUS
        <2>3. \A i \in 1 .. n : i \in 1 .. n + 1  OBVIOUS
        <2> HIDE DEF NewLine
        <2> QED  BY <1>2, <2>1, <2>2, <2>3
    <1>4. Max(T) \in 0 .. n
        <2>1. T \subseteq 0 .. n /\ T # {}  BY <1>0, <1>2
        <2> HIDE DEF T
        <2> QED  BY <2>1, MaxIs
    <1> HIDE DEF T
    <1>5. PICK m \in 0 .. n : m = Max(T)  BY <1>4
    <1>6. SubSeq(y, 1, m) = SubSeq(x, 1, m)
        <2>1. \A i \in 1 .. m : i \in 1 .. n /\ y[i] = x[i]  BY <1>2
        <2>2. PICK a : a = SubSeq(x, 1, m)  OBVIOUS
        <2>3. PICK b : b = SubSeq(y, 1, m)  OBVIOUS
        <2>4. a \in Seq(AnyByte) /\ Len(a) = m /\ \A i \in 1 .. m : a[i] = x[i]
            BY <1>0, <1>2, <2>2
        <2>5. b \in Seq(AnyByte) /\ Len(b) = m /\ \A i \in 1 .. m : b[i] = y[i]
            BY <1>0, <1>2, <2>3
        <2>6. a = b  BY <2>1, <2>4, <2>5, SeqEqual
        <2> QED  BY <2>2, <2>3, <2>6
    <1> QED  BY <1>2, <1>3, <1>5, <1>6, Zenon DEF WithoutLastLines, Before, T

LEMMA LinesWithoutLast ==
    ASSUME NEW s \in Flat
    PROVE  WithoutLastLines(Text(Lines(s))) = WithoutLastLines(s)
    <1>1. PICK x \in Flat : x = Text(Lines(s))  BY LinesIs
    <1>2. s = x \/ s = x ++ <<NewLine>>  BY <1>1, LinesIs, Zenon
    <1>3. WithoutLastLines(x ++ <<NewLine>>) = WithoutLastLines(x)  BY WithoutLast
    <1> QED  BY <1>1, <1>2, <1>3, Zenon

(***************************************************************************)
(* The bytes of characters.                                                *)
(***************************************************************************)
Char == Letters \cup Marks \cup {Space, NewLine}
BytesOf == [ch \in Char |-> Bytes(ch)]

\* Every character has bytes, and a second one only if it is wide.
LEMMA BytesType ==
    /\ \A ch \in Char : BytesOf[ch] = Bytes(ch)
    /\ Maps(BytesOf, Char, Flat) /\ More \notin Char
    <1>1. More \notin Char  BY TextInputAssumption DEF Char, More, Space, NewLine
    <1>2. Wide \subseteq Char /\ Char \subseteq AnyByte /\ More \in AnyByte
        BY TextInputAssumption DEF Char, AnyByte, Byte
    <1>3. ASSUME NEW ch \in Char PROVE Bytes(ch) \in Flat
        <2> HIDE DEF More
        <2>1. CASE ch \in Wide
            <3>0. <<ch, More>> \in Seq(AnyByte) /\ Len(<<ch, More>>) = 2
                  /\ <<ch, More>>[1] = ch /\ <<ch, More>>[2] = More
                BY <1>2
            <3>1. PICK s \in Seq(AnyByte) : s = <<ch, More>> /\ Len(s) = 2 /\ s[1] = ch /\ s[2] = More
                BY <3>0, Zenon
            <3>2. Whole(s)
                <4>1. \A i \in 1 .. 2 : i = 1 \/ i = 2  OBVIOUS
                <4> QED  BY <1>1, <2>1, <3>1, <4>1 DEF Whole
            <3> QED  BY <2>1, <3>1, <3>2 DEF Bytes, Flat
        <2>2. CASE ch \notin Wide
            <3>0. <<ch>> \in Seq(AnyByte) /\ Len(<<ch>>) = 1 /\ <<ch>>[1] = ch  BY <1>2
            <3>1. PICK s \in Seq(AnyByte) : s = <<ch>> /\ Len(s) = 1 /\ s[1] = ch  BY <3>0, Zenon
            <3>2. Whole(s)
                <4>1. \A i \in 1 .. 1 : i = 1  OBVIOUS
                <4> QED  BY <1>1, <3>1, <4>1 DEF Whole
            <3> QED  BY <2>2, <3>1, <3>2 DEF Bytes, Flat
        <2> QED  BY <2>1, <2>2
    <1>4. \A ch \in Char : BytesOf[ch] = Bytes(ch)  BY DEF BytesOf
    <1> QED  BY <1>1, <1>3, <1>4 DEF Maps

LEMMA InBytesIs ==
    ASSUME NEW s \in Seq(Char)
    PROVE  /\ InBytes(s) \in Flat /\ InBytes(s) = FlattenSeq(Each(BytesOf, s))
           /\ Each(BytesOf, s) \in Pieces
    <1>1. \A i \in DOMAIN s : BytesOf[s[i]] = Bytes(s[i])  BY BytesType
    <1>2. [i \in DOMAIN s |-> Bytes(s[i])] = Each(BytesOf, s)  BY <1>1 DEF Each
    <1>3. InBytes(s) = FlattenSeq(Each(BytesOf, s))  BY <1>2, Zenon DEF InBytes
    <1>4. Each(BytesOf, s) \in Pieces  BY BytesType, EachType DEF Pieces
    <1> QED  BY <1>3, <1>4, FlattenPieces

\* What is typed, cut into lines.
LEMMA LinesOfIs ==
    ASSUME NEW s \in Seq(Char)
    PROVE  LinesOf(s) \in Pieces /\ LinesOf(s) # <<>> /\ Text(LinesOf(s)) = InBytes(s)
    <1>1. PICK b \in Flat : b = InBytes(s)  BY InBytesIs
    <1>2. Cut(b) \in Pieces /\ Cut(b) # <<>> /\ Text(Cut(b)) = b  BY CutIs
    <1> QED  BY <1>1, <1>2, Zenon DEF LinesOf

(***************************************************************************)
(* Parts of lines and of texts.                                            *)
(***************************************************************************)
IsSlice(u, s, i, n) == Len(u) = n /\ \A j \in 1 .. n : u[j] = s[i + j]

LEMMA SliceIs ==
    ASSUME NEW E, NEW s \in Seq(E), NEW i \in Nat, NEW k \in Nat, i <= k, k <= Len(s)
    PROVE  SubSeq(s, i + 1, k) \in Seq(E) /\ IsSlice(SubSeq(s, i + 1, k), s, i, k - i)
    <1>1. \A j \in i + 1 .. k : s[j] \in E  OBVIOUS
    <1>2. SubSeq(s, i + 1, k) \in Seq(E) /\ Len(SubSeq(s, i + 1, k)) = k - i  BY <1>1, SubSeqProperties
    <1>3. \A j \in 1 .. k - i : SubSeq(s, i + 1, k)[j] = s[i + j]  OBVIOUS
    <1> QED  BY <1>2, <1>3 DEF IsSlice

LEMMA SplitIs ==
    ASSUME NEW E, NEW s \in Seq(E), NEW i \in Nat, i <= Len(s)
    PROVE  /\ SubSeq(s, 1, i) \in Seq(E) /\ IsSlice(SubSeq(s, 1, i), s, 0, i)
           /\ SubSeq(s, i + 1, Len(s)) \in Seq(E) /\ IsSlice(SubSeq(s, i + 1, Len(s)), s, i, Len(s) - i)
           /\ s = SubSeq(s, 1, i) \o SubSeq(s, i + 1, Len(s))
    <1>1. SubSeq(s, 1, i) \in Seq(E) /\ IsSlice(SubSeq(s, 1, i), s, 0, i)
        <2>1. SubSeq(s, 0 + 1, i) \in Seq(E) /\ IsSlice(SubSeq(s, 0 + 1, i), s, 0, i - 0)  BY SliceIs
        <2>2. 0 + 1 = 1 /\ i - 0 = i  OBVIOUS
        <2> QED  BY <2>1, <2>2
    <1>2. SubSeq(s, i + 1, Len(s)) \in Seq(E) /\ IsSlice(SubSeq(s, i + 1, Len(s)), s, i, Len(s) - i)
        BY SliceIs
    <1>3. s = SubSeq(s, 1, i) \o SubSeq(s, i + 1, Len(s))
        <2>1. SubSeq(s, 1, i) \o SubSeq(s, i + 1, Len(s)) = SubSeq(s, 1, Len(s))
            <3>1. PICK n \in Nat : n = Len(s)  OBVIOUS
            <3>2. 1 \in 1 .. n + 1 /\ i \in 1 - 1 .. n /\ n \in i .. n  BY <3>1
            <3> QED  BY <3>1, <3>2, ConcatAdjacentSubSeq
        <2> QED  BY <2>1, SubSeqFull
    <1> QED  BY <1>1, <1>2, <1>3

LEMMA FlatLen == \A s \in Flat : Len(s) \in Nat
    BY DEF Flat

\* A line cut at a boundary is two lines.
LEMMA LineSplit ==
    ASSUME NEW l \in Flat, NEW i \in Nat, i <= Len(l)
    PROVE  /\ Before(l, i) \in Flat /\ IsSlice(Before(l, i), l, 0, i)
           /\ IsSlice(After(l, i), l, i, Len(l) - i)
           /\ Boundary(l, i) => After(l, i) \in Flat /\ l = Before(l, i) ++ After(l, i)
    <1>0. l \in Seq(AnyByte) /\ Whole(l)  BY DEF Flat
    <1>m. PICK m \in Nat : m = Len(l) /\ i <= m  BY <1>0
    <1>1. PICK b \in Seq(AnyByte), a \in Seq(AnyByte) :
             /\ b = SubSeq(l, 1, i) /\ IsSlice(b, l, 0, i) /\ a = SubSeq(l, i + 1, Len(l))
             /\ IsSlice(a, l, i, Len(l) - i) /\ l = b \o a
        <2>1. /\ SubSeq(l, 1, i) \in Seq(AnyByte) /\ IsSlice(SubSeq(l, 1, i), l, 0, i)
              /\ SubSeq(l, i + 1, Len(l)) \in Seq(AnyByte)
              /\ IsSlice(SubSeq(l, i + 1, Len(l)), l, i, Len(l) - i)
            BY <1>0, SplitIs
        <2>2. l = SubSeq(l, 1, i) \o SubSeq(l, i + 1, Len(l))  BY <1>0, SplitIs
        <2> QED  BY <2>1, <2>2, Zenon
    <1>2. Whole(b)
        <2>1. ASSUME NEW j \in 1 .. i, b[j] = More PROVE j > 1 /\ b[j - 1] \in Wide
            <3>1. j \in 1 .. Len(l) /\ l[j] = More
                <4>1. b[j] = l[0 + j] /\ 0 + j = j  BY <1>1, <2>1 DEF IsSlice
                <4> QED  BY <1>m, <2>1, <4>1
            <3>2. j > 1 /\ l[j - 1] \in Wide  BY <1>0, <3>1 DEF Whole
            <3>3. j - 1 \in 1 .. i /\ 0 + (j - 1) = j - 1  BY <3>2
            <3>4. b[j - 1] = l[0 + (j - 1)]  BY <1>1, <3>3 DEF IsSlice
            <3> QED  BY <3>2, <3>3, <3>4
        <2>2. Len(b) = i  BY <1>1 DEF IsSlice
        <2> QED  BY <2>1, <2>2 DEF Whole
    <1>3. ASSUME Boundary(l, i) PROVE Whole(a)
        <2>a. m - i \in Nat  BY <1>m
        <2>0. PICK n \in Nat : n = Len(l) - i /\ n = m - i  BY <1>m, <2>a, Zenon
        <2>1. ASSUME NEW j \in 1 .. n, a[j] = More PROVE j > 1 /\ a[j - 1] \in Wide
            <3>1. i + j \in 1 .. Len(l) /\ l[i + j] = More
                <4>1. a[j] = l[i + j]  BY <1>1, <2>0, <2>1 DEF IsSlice
                <4> QED  BY <1>m, <2>0, <2>1, <4>1
            <3>2. i + j > 1 /\ l[(i + j) - 1] \in Wide  BY <1>0, <3>1 DEF Whole
            <3>3. j # 1
                <4> SUFFICES ASSUME j = 1 PROVE FALSE  OBVIOUS
                <4>1. i \in 1 .. Len(l) - 1  BY <1>m, <3>1, <3>2
                <4> QED  BY <1>3, <3>1, <4>1 DEF Boundary
            <3>4. j - 1 \in 1 .. n /\ i + (j - 1) = (i + j) - 1  BY <3>3
            <3>5. a[j - 1] = l[i + (j - 1)]  BY <1>1, <2>0, <3>4 DEF IsSlice
            <3> QED  BY <3>2, <3>3, <3>4, <3>5
        <2>2. Len(a) = n  BY <1>1, <2>0 DEF IsSlice
        <2> QED  BY <2>1, <2>2 DEF Whole
    <1>4. b \in Flat /\ (Boundary(l, i) => a \in Flat)  BY <1>2, <1>3 DEF Flat
    <1> QED  BY <1>1, <1>4, Zenon DEF Before, After, ++

LEMMA PiecesSplit ==
    ASSUME NEW ls \in Pieces, NEW r \in Nat, r <= Len(ls)
    PROVE  /\ SubSeq(ls, 1, r) \in Pieces /\ IsSlice(SubSeq(ls, 1, r), ls, 0, r)
           /\ SubSeq(ls, r + 1, Len(ls)) \in Pieces /\ IsSlice(SubSeq(ls, r + 1, Len(ls)), ls, r, Len(ls) - r)
           /\ ls = SubSeq(ls, 1, r) ++ SubSeq(ls, r + 1, Len(ls))
    BY SplitIs DEF Pieces, ++

\* A text around its line r.
LEMMA AroundLine ==
    ASSUME NEW ls \in Pieces, NEW r \in Nat, r < Len(ls)
    PROVE  /\ SubSeq(ls, 1, r) \in Pieces /\ SubSeq(ls, r + 2, Len(ls)) \in Pieces /\ ls[r + 1] \in Flat
           /\ ls = SubSeq(ls, 1, r) ++ (<<ls[r + 1]>> ++ SubSeq(ls, r + 2, Len(ls)))
    <1>1. ls \in Seq(Flat) /\ Len(ls) \in Nat  BY DEF Pieces
    <1>2. SubSeq(ls, r + 1, Len(ls)) = <<ls[r + 1]>> \o SubSeq(ls, (r + 1) + 1, Len(ls))
        BY <1>1, SubSeqRecursiveFirst
    <1>3. SubSeq(ls, 1, r) \in Pieces /\ ls = SubSeq(ls, 1, r) ++ SubSeq(ls, r + 1, Len(ls))
        BY <1>1, PiecesSplit
    <1>4. SubSeq(ls, (r + 1) + 1, Len(ls)) \in Pieces  BY <1>1, PiecesSplit
    <1>5. (r + 1) + 1 = r + 2 /\ ls[r + 1] \in Flat  BY <1>1
    <1> QED  BY <1>2, <1>3, <1>4, <1>5, Zenon DEF ++

(***************************************************************************)
(* The buffer.  An operation that cuts inside a character leaves a broken  *)
(* one; every other leaves lines in which no second byte is without its    *)
(* first, with the cursor in them.                                         *)
(***************************************************************************)
Anchors == [set : BOOLEAN, row : Nat, col : Nat]

IsBuffer(t) ==
    t = [lines |-> t.lines, row |-> t.row, col |-> t.col, anchor |-> t.anchor, ok |-> t.ok]

Same(u, t) == IsBuffer(u) /\ u.ok = t.ok /\ u.lines = t.lines

Broken(t) == IsBuffer(t) /\ t.ok = FALSE

Sound(t) ==
    /\ IsBuffer(t) /\ t.ok = TRUE
    /\ t.lines \in Pieces /\ Len(t.lines) > 0 /\ t.anchor \in Anchors

InPlace(t) ==
    /\ t.row \in Nat /\ t.row < Len(t.lines)
    /\ t.col \in Nat /\ t.col <= Len(t.lines[t.row + 1])

BufferOK(t) == Sound(t) /\ InPlace(t)
Fine(t) == Broken(t) \/ BufferOK(t)

IsPos(p) == p.row \in Nat /\ p.col \in Nat

LEMMA LineIs ==
    ASSUME NEW ls \in Pieces, NEW r \in Nat, r < Len(ls)
    PROVE  ls[r + 1] \in Flat /\ Len(ls[r + 1]) \in Nat
    BY FlatLen DEF Pieces

LEMMA PiecesLen == \A ls \in Pieces : Len(ls) \in Nat
    BY DEF Pieces

LEMMA PosIs == \A r, c : Pos(r, c).row = r /\ Pos(r, c).col = c
    BY DEF Pos

LEMMA AtIs == \A r \in Nat, c \in Nat : At(Pos(r, c)) \in Anchors
    BY DEF At, Pos, Anchors

\* clamp_position answers a place in the text.
LEMMA ClampIs ==
    ASSUME NEW t, t.lines \in Pieces, Len(t.lines) > 0, NEW pos, IsPos(pos)
    PROVE  /\ Clamp(t, pos).row \in Nat /\ Clamp(t, pos).row < Len(t.lines)
           /\ Clamp(t, pos).col \in Nat /\ Clamp(t, pos).col <= Len(t.lines[Clamp(t, pos).row + 1])
           /\ IsPos(Clamp(t, pos)) /\ Clamp(t, pos) = Pos(Clamp(t, pos).row, Clamp(t, pos).col)
           /\ pos.row < Len(t.lines) /\ pos.col <= Len(t.lines[pos.row + 1])
                => Clamp(t, pos) = Pos(pos.row, pos.col)
    <1>1. PICK n \in Nat : n = Len(t.lines)  BY PiecesLen
    <1>2. PICK r \in Nat : r = MinOf(pos.row, LastRow(t)) /\ r < n /\ (pos.row < n => r = pos.row)
        BY <1>1 DEF MinOf, LastRow, IsPos
    <1>3. PICK m \in Nat : m = Len(t.lines[r + 1])  BY <1>1, <1>2, LineIs
    <1>4. PICK c \in Nat : c = MinOf(pos.col, m) /\ c <= m /\ (pos.col <= m => c = pos.col)
        BY DEF MinOf, IsPos
    <1>5. Clamp(t, pos) = Pos(r, c)  BY <1>2, <1>3, <1>4, Zenon DEF Clamp, Line
    <1>6. Pos(r, c).row = r /\ Pos(r, c).col = c  BY DEF Pos
    <1> QED  BY <1>1, <1>2, <1>3, <1>4, <1>5, <1>6 DEF IsPos

LEMMA SetCursorIs ==
    ASSUME NEW t, IsBuffer(t), NEW pos
    PROVE  /\ Same(SetCursor(t, pos), t) /\ SetCursor(t, pos).anchor = t.anchor
           /\ SetCursor(t, pos).row = Clamp(t, pos).row /\ SetCursor(t, pos).col = Clamp(t, pos).col
    <1>1. PICK p : p = Clamp(t, pos)  OBVIOUS
    <1>2. PICK u : u = [t EXCEPT !.row = p.row, !.col = p.col]  OBVIOUS
    <1>3. SetCursor(t, pos) = u  BY <1>1, <1>2, Zenon DEF SetCursor
    <1>4. IsBuffer(u) /\ u.ok = t.ok /\ u.lines = t.lines /\ u.anchor = t.anchor /\ u.row = p.row /\ u.col = p.col
        BY <1>2 DEF IsBuffer
    <1> QED  BY <1>1, <1>3, <1>4, Zenon DEF Same

LEMMA SetCursorFine ==
    ASSUME NEW t, Sound(t), NEW pos, IsPos(pos)
    PROVE  BufferOK(SetCursor(t, pos))
    <1>1. IsBuffer(t) /\ t.lines \in Pieces /\ Len(t.lines) > 0  BY DEF Sound
    <1>2. PICK u : u = SetCursor(t, pos)  OBVIOUS
    <1>3. Same(u, t) /\ u.anchor = t.anchor /\ u.row = Clamp(t, pos).row /\ u.col = Clamp(t, pos).col
        BY <1>1, <1>2, SetCursorIs
    <1>4. PICK r, c : r = Clamp(t, pos).row /\ c = Clamp(t, pos).col  OBVIOUS
    <1>5. r \in Nat /\ r < Len(t.lines) /\ c \in Nat /\ c <= Len(t.lines[r + 1])  BY <1>1, <1>4, ClampIs
    <1>6. InPlace(u)  BY <1>3, <1>4, <1>5 DEF InPlace, Same
    <1>7. Sound(u)  BY <1>3 DEF Sound, Same
    <1> QED  BY <1>2, <1>6, <1>7 DEF BufferOK

LEMMA MoveToEndFine ==
    ASSUME NEW t, Sound(t)
    PROVE  BufferOK(MoveToEnd(t)) /\ Same(MoveToEnd(t), t) /\ MoveToEnd(t).anchor = t.anchor
    <1>1. IsBuffer(t) /\ t.lines \in Pieces /\ Len(t.lines) > 0  BY DEF Sound
    <1>2. PICK u : u = MoveToEnd(t)  OBVIOUS
    <1>3. Same(u, t) /\ u.anchor = t.anchor /\ u.row = LastRow(t) /\ u.col = Len(Line(t, LastRow(t)))
        BY <1>1, <1>2 DEF MoveToEnd, IsBuffer, Same
    <1>n. PICK n \in Nat : n = Len(t.lines) /\ n > 0  BY <1>1, PiecesLen
    <1>r. n - 1 \in Nat /\ n - 1 < n /\ LastRow(t) = n - 1  BY <1>n DEF LastRow
    <1>4. PICK r \in Nat : r = LastRow(t) /\ r < Len(t.lines)  BY <1>n, <1>r
    <1>5. Len(t.lines[r + 1]) \in Nat  BY <1>1, <1>4, LineIs
    <1>6. InPlace(u)  BY <1>3, <1>4, <1>5 DEF InPlace, Same, Line
    <1>7. Sound(u)  BY <1>3 DEF Sound, Same
    <1> QED  BY <1>2, <1>3, <1>6, <1>7 DEF BufferOK

\* set_text leaves the cursor at the end and no selection.
LEMMA SetTextFine ==
    ASSUME NEW s \in Flat
    PROVE  BufferOK(SetText(s)) /\ SetText(s).lines = Lines(s) /\ ~ SetText(s).anchor.set
    <1>1. PICK b : b = Buffer(Lines(s), 0, 0)  OBVIOUS
    <1>2. IsBuffer(b) /\ b.ok = TRUE /\ b.lines = Lines(s) /\ b.anchor = NoAnchor  BY <1>1 DEF Buffer, IsBuffer
    <1>3. Lines(s) \in Pieces /\ Lines(s) # <<>>  BY LinesIs
    <1>4. Len(Lines(s)) > 0  BY <1>3, PiecesLen, EmptySeq DEF Pieces
    <1>5. NoAnchor \in Anchors /\ ~ NoAnchor.set  BY DEF NoAnchor, Anchors
    <1>6. Sound(b)  BY <1>2, <1>3, <1>4, <1>5 DEF Sound
    <1>7. BufferOK(MoveToEnd(b)) /\ MoveToEnd(b).lines = b.lines /\ MoveToEnd(b).anchor = b.anchor
        BY <1>6, MoveToEndFine DEF Same
    <1> QED  BY <1>1, <1>2, <1>5, <1>7 DEF SetText

LEMMA ClearSelectionIs ==
    ASSUME NEW t, IsBuffer(t)
    PROVE  /\ Same(ClearSelection(t), t) /\ ClearSelection(t).anchor = NoAnchor
           /\ ClearSelection(t).row = t.row /\ ClearSelection(t).col = t.col
    BY DEF ClearSelection, IsBuffer, Same

LEMMA ClearSelectionFine ==
    ASSUME NEW t, BufferOK(t) PROVE BufferOK(ClearSelection(t))
    <1>1. NoAnchor \in Anchors  BY DEF NoAnchor, Anchors
    <1>2. IsBuffer(t)  BY DEF BufferOK, Sound
    <1>3. PICK u : u = ClearSelection(t)  OBVIOUS
    <1>4. Same(u, t) /\ u.anchor = NoAnchor /\ u.row = t.row /\ u.col = t.col  BY <1>2, <1>3, ClearSelectionIs
    <1>5. BufferOK(u)  BY <1>1, <1>4 DEF BufferOK, Sound, InPlace, Same
    <1> QED  BY <1>3, <1>5

\* In a sound buffer the cursor is where it is.
LEMMA CursorIs ==
    ASSUME NEW t, BufferOK(t)
    PROVE  CursorPosition(t) = Pos(t.row, t.col) /\ IsPos(Pos(t.row, t.col))
    <1>1. t.lines \in Pieces /\ Len(t.lines) > 0 /\ InPlace(t)  BY DEF BufferOK, Sound
    <1>2. PICK r \in Nat, c \in Nat : r = t.row /\ c = t.col  BY <1>1 DEF InPlace
    <1>3. PICK p : p = Pos(r, c) /\ p.row = r /\ p.col = c  BY PosIs
    <1>4. IsPos(p)  BY <1>3 DEF IsPos
    <1>5. Clamp(t, p) = Pos(p.row, p.col)  BY <1>1, <1>2, <1>3, <1>4, ClampIs DEF InPlace
    <1> QED  BY <1>2, <1>3, <1>4, <1>5 DEF CursorPosition

LEMMA PrepareFine ==
    ASSUME NEW t, BufferOK(t), NEW extend \in BOOLEAN
    PROVE  BufferOK(PrepareSelection(t, extend)) /\ PrepareSelection(t, extend).lines = t.lines
           /\ PrepareSelection(t, extend).row = t.row /\ PrepareSelection(t, extend).col = t.col
    <1>0. IsBuffer(t)  BY DEF BufferOK, Sound
    <1>1. CASE ~ extend
        <2>1. PrepareSelection(t, extend) = ClearSelection(t)  BY <1>1 DEF PrepareSelection
        <2> QED  BY <1>0, <2>1, ClearSelectionFine, ClearSelectionIs DEF Same
    <1>2. CASE extend /\ ~ t.anchor.set
        <2>1. PICK u : u = [t EXCEPT !.anchor = At(CursorPosition(t))]  OBVIOUS
        <2>2. PrepareSelection(t, extend) = u  BY <1>2, <2>1 DEF PrepareSelection
        <2>3. PICK a : a = At(CursorPosition(t))  OBVIOUS
        <2>4. a \in Anchors
            <3>1. t.row \in Nat /\ t.col \in Nat  BY DEF BufferOK, InPlace
            <3>2. CursorPosition(t) = Pos(t.row, t.col)  BY CursorIs
            <3> QED  BY <2>3, <3>1, <3>2, AtIs
        <2>5. Same(u, t) /\ u.anchor = a /\ u.row = t.row /\ u.col = t.col  BY <1>0, <2>1, <2>3 DEF IsBuffer, Same
        <2>6. BufferOK(u)  BY <2>4, <2>5 DEF BufferOK, Sound, InPlace, Same
        <2> QED  BY <2>2, <2>5, <2>6 DEF Same
    <1>3. CASE extend /\ t.anchor.set
        <2>1. PrepareSelection(t, extend) = t  BY <1>3 DEF PrepareSelection
        <2> QED  BY <2>1
    <1> QED  BY <1>1, <1>2, <1>3

(***************************************************************************)
(* The selection, and what is cut out.                                     *)
(***************************************************************************)
LEMMA PrecedesIs ==
    ASSUME NEW a, IsPos(a), NEW b, IsPos(b)
    PROVE  /\ Precedes(a, b) \/ Precedes(b, a)
           /\ Precedes(a, b) => a.row <= b.row
    BY DEF Precedes, IsPos

\* selection_range: the anchor and the cursor, in order, and one at least in the text.
LEMMA RangeIs ==
    ASSUME NEW t, BufferOK(t)
    PROVE  \E s, e : /\ SelectionRange(t) = [start |-> s, end |-> e]
                     /\ IsPos(s) /\ IsPos(e) /\ Precedes(s, e) /\ s.row < Len(t.lines)
                     /\ \/ s = Pos(t.anchor.row, t.anchor.col) /\ e = Pos(t.row, t.col)
                        \/ e = Pos(t.anchor.row, t.anchor.col) /\ s = Pos(t.row, t.col)
                     /\ HasSelection(t) => s # e
    <1>1. PICK h : h = Pos(t.row, t.col) /\ IsPos(h) /\ CursorPosition(t) = h  BY CursorIs
    <1>2. PICK a : a = Pos(t.anchor.row, t.anchor.col)  OBVIOUS
    <1>3. a.row \in Nat /\ a.col \in Nat
        <2>1. t.anchor.row \in Nat /\ t.anchor.col \in Nat  BY DEF BufferOK, Sound, Anchors
        <2> QED  BY <1>2, <2>1, PosIs
    <1>4. IsPos(a)  BY <1>3 DEF IsPos
    <1>5. h.row < Len(t.lines) /\ h.row \in Nat  BY <1>1, PosIs DEF BufferOK, InPlace
    <1>6. SelectionRange(t) = IF Precedes(a, h) THEN [start |-> a, end |-> h] ELSE [start |-> h, end |-> a]
        BY <1>1, <1>2, Zenon DEF SelectionRange
    <1>7. HasSelection(t) => a # h  BY <1>1, <1>2 DEF HasSelection
    <1>8. Len(t.lines) \in Nat  BY PiecesLen DEF BufferOK, Sound
    <1>9. CASE Precedes(a, h)
        <2>1. a.row < Len(t.lines)  BY <1>1, <1>3, <1>4, <1>5, <1>8, <1>9, PrecedesIs
        <2> QED  BY <1>1, <1>2, <1>4, <1>6, <1>7, <1>9, <2>1, Zenon
    <1>10. CASE ~ Precedes(a, h)
        <2>1. Precedes(h, a)  BY <1>1, <1>4, <1>10, PrecedesIs
        <2> QED  BY <1>1, <1>2, <1>4, <1>5, <1>6, <1>7, <1>10, <2>1, Zenon
    <1> QED  BY <1>9, <1>10

LEMMA InTextIs ==
    ASSUME NEW t, t.lines \in Pieces, NEW r \in Nat PROVE InText(t, r) <=> r < Len(t.lines)
    <1>1. PICK n \in Nat : n = Len(t.lines)  BY PiecesLen
    <1> QED  BY <1>1 DEF InText, LastRow

LEMMA ColIs ==
    ASSUME NEW t, t.lines \in Pieces, NEW p, IsPos(p), p.row < Len(t.lines)
    PROVE  /\ ColOf(t, p) \in Nat /\ ColOf(t, p) <= Len(t.lines[p.row + 1])
           /\ p.col <= Len(t.lines[p.row + 1]) => ColOf(t, p) = p.col
    <1>1. PICK m \in Nat : m = Len(t.lines[p.row + 1])  BY LineIs DEF IsPos
    <1>2. ColOf(t, p) = MinOf(p.col, m)  BY <1>1 DEF ColOf, Line
    <1> QED  BY <1>1, <1>2 DEF MinOf, IsPos

Range2(s, e) == [start |-> s, end |-> e]

LEMMA Range2Is == \A s, e : Range2(s, e).start = s /\ Range2(s, e).end = e
    BY DEF Range2

LEMMA JoinedFine ==
    ASSUME NEW t, IsBuffer(t), t.ok = TRUE, t.anchor \in Anchors, t.lines \in Pieces,
           NEW r \in Nat, r < Len(t.lines), NEW l \in Flat, NEW k \in Nat, k < Len(t.lines),
           NEW u, IsBuffer(u), u.ok = TRUE, u.anchor = t.anchor,
           u.lines = SubSeq(t.lines, 1, r) \o <<l>> \o SubSeq(t.lines, k + 2, Len(t.lines))
    PROVE  Sound(u)
    <1>1. PICK n \in Nat : n = Len(t.lines)  BY PiecesLen
    <1>2. k + 1 \in Nat /\ k + 1 <= n /\ (k + 1) + 1 = k + 2 /\ r <= n  BY <1>1
    <1>3. PICK X \in Pieces : X = SubSeq(t.lines, 1, r)  BY <1>1, <1>2, PiecesSplit
    <1>4. PICK Y \in Pieces : Y = SubSeq(t.lines, k + 2, n)  BY <1>1, <1>2, PiecesSplit
    <1>5. X \in Seq(Flat) /\ Y \in Seq(Flat) /\ <<l>> \in Seq(Flat)  BY DEF Pieces
    <1>6. X \o <<l>> \o Y \in Seq(Flat) /\ Len(X \o <<l>> \o Y) > 0  BY <1>5
    <1>7. u.lines \in Pieces /\ Len(u.lines) > 0  BY <1>1, <1>3, <1>4, <1>6 DEF Pieces
    <1> QED  BY <1>7 DEF Sound

\* remove_range leaves a sound buffer, or panics.
LEMMA RemoveFine ==
    ASSUME NEW t, BufferOK(t), NEW s, IsPos(s), NEW e, IsPos(e), Precedes(s, e), s.row < Len(t.lines)
    PROVE  /\ Broken(RemoveRange(t, Range2(s, e))) \/ Sound(RemoveRange(t, Range2(s, e)))
    <1>0. IsBuffer(t) /\ t.ok = TRUE /\ t.anchor \in Anchors /\ t.lines \in Pieces  BY DEF BufferOK, Sound
    <1>1. PICK from \in Nat : from = ColOf(t, s) /\ from <= Len(Line(t, s.row))  BY <1>0, ColIs DEF Line
    <1>2. PICK to : to = IF InText(t, e.row) THEN ColOf(t, e) ELSE 0  OBVIOUS
    <1>3. PICK tail : tail = IF InText(t, e.row) THEN After(Line(t, e.row), to) ELSE <<>>  OBVIOUS
    <1>4. PICK cuts : cuts = (/\ Boundary(Line(t, s.row), from)
                              /\ InText(t, e.row) => Boundary(Line(t, e.row), to))
        OBVIOUS
    <1>5. PICK joined : joined = Before(Line(t, s.row), from) \o tail  OBVIOUS
    <1>6. PICK kept : kept = IF InText(t, e.row) THEN SubSeq(t.lines, e.row + 2, Len(t.lines))
                             ELSE SubSeq(t.lines, s.row + 2, Len(t.lines))  OBVIOUS
    <1>7. PICK u : u = [t EXCEPT !.lines = SubSeq(t.lines, 1, s.row) \o <<joined>> \o kept,
                                 !.ok = @ /\ cuts]  OBVIOUS
    <1>8. RemoveRange(t, Range2(s, e)) = t \/ RemoveRange(t, Range2(s, e)) = u
        <2>1. Range2(s, e).start = s /\ Range2(s, e).end = e  BY Range2Is
        <2>2. cuts = (/\ Boundary(Line(t, s.row), from)
                      /\ InText(t, e.row) => Boundary(Line(t, e.row), to))  BY <1>4, Zenon
        <2> QED  BY <1>1, <1>2, <1>3, <1>5, <1>6, <1>7, <2>1, <2>2, Zenon DEF RemoveRange
    <1>9. IsBuffer(u) /\ u.ok = (t.ok /\ cuts) /\ u.anchor = t.anchor
          /\ u.lines = SubSeq(t.lines, 1, s.row) \o <<joined>> \o kept
        <2>1. PICK ls : ls = SubSeq(t.lines, 1, s.row) \o <<joined>> \o kept  OBVIOUS
        <2>2. u = [t EXCEPT !.lines = ls, !.ok = @ /\ cuts]  BY <1>7, <2>1, Zenon
        <2>3. IsBuffer(u) /\ u.ok = (t.ok /\ cuts) /\ u.anchor = t.anchor /\ u.lines = ls
            BY <1>0, <2>2 DEF IsBuffer
        <2> QED  BY <2>1, <2>3
    <1>10. CASE ~ cuts
        <2>1. Broken(u)  BY <1>0, <1>9, <1>10 DEF Broken
        <2> QED  BY <1>8, <2>1 DEF BufferOK
    <1>11. CASE cuts
        <2>1. PICK n \in Nat : n = Len(t.lines)  BY <1>0, PiecesLen
        <2>2. s.row \in Nat /\ e.row \in Nat  BY DEF IsPos
        <2>3. PICK b \in Flat : b = Before(Line(t, s.row), from)
            <3>1. Line(t, s.row) \in Flat  BY <1>0, <2>2, LineIs DEF Line
            <3> QED  BY <1>1, <3>1, LineSplit
        <2>4. tail \in Flat
            <3>1. CASE InText(t, e.row)
                <4>1. e.row < Len(t.lines)  BY <1>0, <2>2, <3>1, InTextIs
                <4>2. Line(t, e.row) \in Flat  BY <1>0, <2>2, <4>1, LineIs DEF Line
                <4>3. to \in Nat /\ to <= Len(Line(t, e.row))  BY <1>0, <1>2, <3>1, <4>1, ColIs DEF Line
                <4>4. Boundary(Line(t, e.row), to)  BY <1>4, <1>11, <3>1, Zenon
                <4> QED  BY <1>3, <3>1, <4>2, <4>3, <4>4, LineSplit
            <3>2. CASE ~ InText(t, e.row)  BY <1>3, <3>2, FlatLaws
            <3> QED  BY <3>1, <3>2
        <2>5. joined \in Flat  BY <1>5, <2>3, <2>4, FlatLaws DEF ++
        <2>6. PICK k \in Nat : k < Len(t.lines) /\ kept = SubSeq(t.lines, k + 2, Len(t.lines))
            <3>1. CASE InText(t, e.row)
                <4>1. e.row < Len(t.lines)  BY <1>0, <2>2, <3>1, InTextIs
                <4> QED  BY <1>6, <2>2, <3>1, <4>1
            <3>2. CASE ~ InText(t, e.row)  BY <1>6, <2>2, <3>2
            <3> QED  BY <3>1, <3>2
        <2>7. u.ok = TRUE  BY <1>0, <1>9, <1>11
        <2>8. Sound(u)
            <3>1. u.lines = SubSeq(t.lines, 1, s.row) \o <<joined>> \o SubSeq(t.lines, k + 2, Len(t.lines))
                BY <1>9, <2>6, Zenon
            <3>2. IsBuffer(u) /\ u.anchor = t.anchor  BY <1>9
            <3> HIDE DEF Sound
            <3> QED  BY <1>0, <2>2, <2>5, <2>6, <2>7, <3>1, <3>2, JoinedFine
        <2> QED  BY <1>8, <2>8 DEF BufferOK
    <1> QED  BY <1>10, <1>11

LEMMA SetCursorBroken == \A t, pos : Broken(t) => Broken(SetCursor(t, pos))
    <1> SUFFICES ASSUME NEW t, NEW pos, Broken(t) PROVE Broken(SetCursor(t, pos))  OBVIOUS
    <1> QED  BY SetCursorIs DEF Broken, Same

LEMMA ClearBroken == \A t : Broken(t) => Broken(ClearSelection(t))
    BY ClearSelectionIs DEF Broken, Same

LEMMA CollapseFine ==
    ASSUME NEW t, BufferOK(t) PROVE Fine(Collapse(t))
    <1>1. CASE ~ HasSelection(t)  BY <1>1 DEF Collapse, Fine
    <1>2. CASE HasSelection(t)
        <2>1. PICK s, e : /\ SelectionRange(t) = Range2(s, e)
                          /\ IsPos(s) /\ IsPos(e) /\ Precedes(s, e) /\ s.row < Len(t.lines)
            <3>1. PICK s, e : /\ SelectionRange(t) = [start |-> s, end |-> e]
                              /\ IsPos(s) /\ IsPos(e) /\ Precedes(s, e) /\ s.row < Len(t.lines)
                BY RangeIs
            <3> QED  BY <3>1, Zenon DEF Range2
        <2>2. PICK r : r = RemoveRange(t, Range2(s, e))  OBVIOUS
        <2>3. Broken(r) \/ Sound(r)  BY <2>1, <2>2, RemoveFine
        <2>4. Collapse(t) = ClearSelection(SetCursor(r, s))
            BY <1>2, <2>1, <2>2, Range2Is, Zenon DEF Collapse, CutOut
        <2>5. CASE Broken(r)  BY <2>4, <2>5, SetCursorBroken, ClearBroken DEF Fine
        <2>6. CASE Sound(r)  BY <2>1, <2>4, <2>6, SetCursorFine, ClearSelectionFine DEF Fine
        <2> QED  BY <2>3, <2>5, <2>6
    <1> QED  BY <1>1, <1>2

(***************************************************************************)
(* What is put in.                                                         *)
(***************************************************************************)
IsAround(ls, n, A, m, Y) ==
    /\ ls \in Pieces /\ n < Len(ls) /\ ls[n + 1] = m
    /\ SubSeq(ls, 1, n) = A /\ SubSeq(ls, n + 2, Len(ls)) = Y

LEMMA AroundIs ==
    ASSUME NEW A \in Pieces, NEW m \in Flat, NEW Y \in Pieces
    PROVE  IsAround(A ++ (<<m>> ++ Y), Len(A), A, m, Y)
    <1>n. PICK n \in Nat : n = Len(A)  BY PiecesLen
    <1>l. PICK ls : ls = A ++ (<<m>> ++ Y)  OBVIOUS
    <1>1. A \in Seq(Flat) /\ Y \in Seq(Flat) /\ <<m>> \in Seq(Flat)  BY DEF Pieces
    <1>2. PICK k \in Nat : k = Len(Y)  BY <1>1
    <1>3. PICK B \in Seq(Flat) : /\ B = <<m>> \o Y /\ Len(B) = 1 + k /\ B[1] = m
                                /\ \A i \in 1 .. k : B[1 + i] = Y[i]
        <2>1. <<m>> \o Y \in Seq(Flat) /\ Len(<<m>> \o Y) = 1 + k /\ (<<m>> \o Y)[1] = m  BY <1>1, <1>2
        <2>2. \A i \in 1 .. k : (<<m>> \o Y)[1 + i] = Y[i]  BY <1>1, <1>2
        <2> QED  BY <2>1, <2>2
    <1>4. ls = A \o B  BY <1>l, <1>3, Zenon DEF ++
    <1>5. PICK L \in Seq(Flat) : /\ L = A \o B /\ Len(L) = n + (1 + k)
                                 /\ \A i \in 1 .. n : L[i] = A[i]
                                 /\ \A i \in 1 .. 1 + k : L[n + i] = B[i]
        <2>1. A \o B \in Seq(Flat) /\ Len(A \o B) = n + (1 + k)  BY <1>n, <1>1, <1>3, ConcatProperties
        <2>2. \A i \in 1 .. n : (A \o B)[i] = A[i]  BY <1>n, <1>1, <1>3, ConcatProperties
        <2>3. \A i \in 1 .. 1 + k : (A \o B)[n + i] = B[i]  BY <1>n, <1>1, <1>3, ConcatProperties
        <2> QED  BY <2>1, <2>2, <2>3
    <1>6. ls \in Pieces /\ n < Len(ls) /\ ls[n + 1] = m
        <2>1. L[n + 1] = B[1]  BY <1>5
        <2>2. n < n + (1 + k)  OBVIOUS
        <2>3. L \in Pieces  BY DEF Pieces
        <2> QED  BY <1>3, <1>4, <1>5, <2>1, <2>2, <2>3, Zenon
    <1>7. SubSeq(ls, 1, n) = A
        <2>0. n <= Len(L)  BY <1>5
        <2>1. PICK S \in Seq(Flat) : S = SubSeq(L, 1, n) /\ IsSlice(S, L, 0, n)  BY <2>0, SplitIs
        <2>2. Len(S) = n /\ \A i \in 1 .. n : S[i] = A[i]  BY <1>5, <2>1 DEF IsSlice
        <2>3. S = A  BY <1>n, <1>1, <2>2, SeqEqual
        <2> QED  BY <1>4, <1>5, <2>1, <2>3
    <1>8. SubSeq(ls, n + 2, Len(ls)) = Y
        <2>1. n + 1 \in Nat /\ n + 1 <= Len(L) /\ (n + 1) + 1 = n + 2 /\ Len(L) - (n + 1) = k  BY <1>5
        <2>2. PICK S \in Seq(Flat) : S = SubSeq(L, n + 2, Len(L)) /\ IsSlice(S, L, n + 1, k)
            <3>1. SubSeq(L, (n + 1) + 1, Len(L)) \in Seq(Flat)
                  /\ IsSlice(SubSeq(L, (n + 1) + 1, Len(L)), L, n + 1, Len(L) - (n + 1))
                BY <2>1, SplitIs
            <3> QED  BY <2>1, <3>1, Zenon
        <2>3. ASSUME NEW i \in 1 .. k PROVE S[i] = Y[i]
            <3>1. S[i] = L[(n + 1) + i]  BY <2>2 DEF IsSlice
            <3>2. (n + 1) + i = n + (1 + i) /\ 1 + i \in 1 .. 1 + k  OBVIOUS
            <3>3. L[n + (1 + i)] = B[1 + i]  BY <1>5, <3>2
            <3> QED  BY <1>3, <3>1, <3>2, <3>3
        <2>4. Len(S) = k  BY <2>2 DEF IsSlice
        <2>5. S = Y  BY <1>1, <1>2, <2>3, <2>4, SeqEqual
        <2> QED  BY <1>4, <1>5, <2>2, <2>5
    <1> QED  BY <1>n, <1>l, <1>6, <1>7, <1>8, Zenon DEF IsAround

\* Parts put behind b: all but the last line, and the last one.
AsParts(parts, n, b, F, last) ==
    /\ last = IF n = 1 THEN b \o parts[1] ELSE parts[n]
    /\ F = (IF n = 1 THEN <<>> ELSE <<b \o parts[1]>>) \o SubSeq(parts, 2, n - 1)
    /\ Len(F) = n - 1
    /\ Ended(F) ++ last = b ++ Text(parts)

\* What insert_text makes of the parts, the last of which holds the cursor.
LEMMA PartsIs ==
    ASSUME NEW parts \in Pieces, NEW n \in Nat, n = Len(parts), n > 0, NEW b \in Flat
    PROVE  \E F \in Pieces, last \in Flat : AsParts(parts, n, b, F, last)
    <1>1. parts \in Seq(Flat)  BY DEF Pieces
    <1>2. parts[1] \in Flat /\ parts[n] \in Flat  BY <1>1
    <1>3. PICK p \in Flat, q \in Flat : p = parts[1] /\ q = parts[n]  BY <1>2
    <1>4. PICK c \in Flat : c = b ++ p  BY FlatLaws
    <1>5. CASE n = 1
        <2>1. SubSeq(parts, 2, n - 1) = <<>>  BY <1>5
        <2>2. <<>> \o SubSeq(parts, 2, n - 1) = <<>>  BY <2>1
        <2>3. Text(parts) = p
            <3>1. parts = Append(<<>>, p)
                <4>0. <<p>> \in Seq(Flat) /\ Len(<<p>>) = 1 /\ <<p>>[1] = p /\ Append(<<>>, p) = <<p>>  OBVIOUS
                <4>1. PICK Q \in Seq(Flat) : Q = Append(<<>>, p) /\ Len(Q) = 1 /\ Q[1] = p  BY <4>0
                <4>2. Len(parts) = 1 /\ \A i \in 1 .. 1 : parts[i] = Q[i]  BY <1>3, <1>5, <4>1
                <4>3. parts = Q  BY <1>1, <4>1, <4>2, SeqEqual
                <4> QED  BY <4>1, <4>3
            <3>2. Text(Append(<<>>, p)) = Ended(<<>>) ++ p  BY PiecesLaws, TextAppend
            <3> QED  BY <3>1, <3>2, EndedLaws, FlatLaws
        <2>4. Ended(<<>>) ++ c = c  BY EndedLaws, FlatLaws
        <2>5. <<>> \in Pieces /\ Len(<<>>) = 0 /\ 0 = n - 1  BY <1>5, PiecesLaws
        <2>6. AsParts(parts, n, b, <<>>, c)
            BY <1>3, <1>4, <1>5, <2>2, <2>3, <2>4, <2>5, Zenon DEF AsParts, ++
        <2> QED  BY <2>5, <2>6
    <1>6. CASE n # 1
        <2>1. PICK k \in Nat : k = n - 1 /\ 1 <= k /\ k <= Len(parts)  BY <1>6
        <2>2. PICK M \in Pieces : M = SubSeq(parts, 2, n - 1) /\ Len(M) = n - 2
            <3>1. SubSeq(parts, 1 + 1, k) \in Seq(Flat) /\ IsSlice(SubSeq(parts, 1 + 1, k), parts, 1, k - 1)
                BY <1>1, <2>1, SliceIs
            <3>2. 1 + 1 = 2 /\ k - 1 = n - 2  BY <2>1
            <3> QED  BY <2>1, <3>1, <3>2 DEF Pieces, IsSlice
        <2>3. parts = <<p>> ++ (M ++ <<q>>)
            <3>1. SubSeq(parts, 1, n) = <<parts[1]>> \o SubSeq(parts, 1 + 1, n)  BY <1>1, SubSeqRecursiveFirst
            <3>2. SubSeq(parts, 2, n) = SubSeq(parts, 2, n - 1) \o <<parts[n]>>
                <4>1. 2 \in 1 .. Len(parts) /\ n \in 2 .. Len(parts)  BY <1>6
                <4> QED  BY <1>1, <4>1, SubSeqRecursiveSecond
            <3>3. SubSeq(parts, 1, n) = parts  BY <1>1, SubSeqFull
            <3>4. SubSeq(parts, 1 + 1, n) = SubSeq(parts, 2, n)  OBVIOUS
            <3> QED  BY <1>3, <2>2, <3>1, <3>2, <3>3, <3>4, Zenon DEF ++
        <2>4. PICK V \in Pieces : V = M ++ <<q>>  BY PiecesLaws
        <2>5. Text(parts) = p ++ Led(V)  BY <2>3, <2>4, TextOfFirst
        <2>6. PICK F \in Pieces : F = <<c>> ++ M  BY PiecesLaws
        <2>7. Ended(F) ++ q = c ++ Led(V)
            <3>1. Text(F ++ <<q>>) = Ended(F) ++ q
                <4>1. F ++ <<q>> = Append(F, q)  BY AppendIsConcat DEF Pieces, ++
                <4> QED  BY <4>1, TextAppend
            <3>2. F ++ <<q>> = <<c>> ++ V  BY <2>4, <2>6, PiecesLaws
            <3>3. Text(<<c>> ++ V) = c ++ Led(V)  BY TextOfFirst
            <3> QED  BY <3>1, <3>2, <3>3
        <2>8. c ++ Led(V) = b ++ (p ++ Led(V))
            <3>1. PICK v \in Flat : v = Led(V)  BY LedLaws
            <3> QED  BY <1>4, <3>1, FlatLaws
        <2>9. Len(F) = n - 1
            <3>1. M \in Seq(Flat) /\ <<c>> \in Seq(Flat) /\ Len(<<c>>) = 1  BY DEF Pieces
            <3>2. Len(<<c>> \o M) = 1 + (n - 2)  BY <2>2, <3>1
            <3> QED  BY <2>6, <3>2 DEF ++
        <2>10. AsParts(parts, n, b, F, q)
            BY <1>3, <1>4, <1>6, <2>2, <2>5, <2>6, <2>7, <2>8, <2>9, Zenon DEF AsParts, ++
        <2> QED  BY <2>10
    <1> QED  BY <1>5, <1>6

LEMMA CutAt ==
    ASSUME NEW a \in Flat, NEW b \in Flat
    PROVE  /\ Len(a ++ b) = Len(a) + Len(b)
           /\ Before(a ++ b, Len(a)) = a /\ After(a ++ b, Len(a)) = b /\ Boundary(a ++ b, Len(a))
    <1>1. a \in Seq(AnyByte) /\ b \in Seq(AnyByte) /\ Whole(b)  BY DEF Flat
    <1>2. PICK n \in Nat, k \in Nat : n = Len(a) /\ k = Len(b)  BY <1>1
    <1>3. PICK L \in Seq(AnyByte) : /\ L = a \o b /\ Len(L) = n + k
                                    /\ \A i \in 1 .. n : L[i] = a[i]
                                    /\ \A i \in 1 .. k : L[n + i] = b[i]
        <2>1. a \o b \in Seq(AnyByte) /\ Len(a \o b) = n + k  BY <1>1, <1>2, ConcatProperties
        <2>2. \A i \in 1 .. n : (a \o b)[i] = a[i]  BY <1>1, <1>2, ConcatProperties
        <2>3. \A i \in 1 .. k : (a \o b)[n + i] = b[i]  BY <1>1, <1>2, ConcatProperties
        <2> QED  BY <2>1, <2>2, <2>3
    <1>4. n <= Len(L) /\ Len(L) - n = k /\ Len(L) \in Nat  BY <1>3
    <1>5. SubSeq(L, 1, n) = a
        <2>1. PICK S \in Seq(AnyByte) : S = SubSeq(L, 1, n) /\ IsSlice(S, L, 0, n)  BY <1>4, SplitIs
        <2>2. Len(S) = n /\ \A i \in 1 .. n : S[i] = a[i]  BY <1>3, <2>1 DEF IsSlice
        <2> QED  BY <1>1, <1>2, <2>1, <2>2, SeqEqual
    <1>6. SubSeq(L, n + 1, Len(L)) = b
        <2>1. PICK S \in Seq(AnyByte) : S = SubSeq(L, n + 1, Len(L)) /\ IsSlice(S, L, n, Len(L) - n)
            BY <1>4, SplitIs
        <2>2. Len(S) = k /\ \A i \in 1 .. k : S[i] = b[i]  BY <1>3, <1>4, <2>1 DEF IsSlice
        <2> QED  BY <1>1, <1>2, <2>1, <2>2, SeqEqual
    <1>7. Boundary(L, n)
        <2> SUFFICES ASSUME n \in 1 .. Len(L) - 1 PROVE L[n + 1] # More  BY <1>4 DEF Boundary
        <2>1. 1 \in 1 .. k  BY <1>3
        <2>2. b[1] # More  BY <1>1, <1>2, <2>1 DEF Whole
        <2> QED  BY <1>3, <2>1, <2>2
    <1> QED  BY <1>2, <1>3, <1>5, <1>6, <1>7 DEF ++, Before, After

\* The text before and after a place in it.
Pre(ls, r, c)  == Ended(SubSeq(ls, 1, r)) ++ Before(ls[r + 1], c)
Post(ls, r, c) == After(ls[r + 1], c) ++ Led(SubSeq(ls, r + 2, Len(ls)))

Place(ls, r, c) ==
    /\ ls \in Pieces /\ r \in Nat /\ r < Len(ls)
    /\ c \in Nat /\ c <= Len(ls[r + 1]) /\ Boundary(ls[r + 1], c)

IsPlace(ls, r, c, X, b, a, Y) ==
    /\ X = SubSeq(ls, 1, r) /\ b = Before(ls[r + 1], c) /\ Len(X) = r /\ Len(b) = c
    /\ a = After(ls[r + 1], c) /\ Y = SubSeq(ls, r + 2, Len(ls))
    /\ ls[r + 1] = b ++ a /\ ls = X ++ (<<b ++ a>> ++ Y)
    /\ Pre(ls, r, c) = Ended(X) ++ b /\ Post(ls, r, c) = a ++ Led(Y)
    /\ Pre(ls, r, c) \in Flat /\ Post(ls, r, c) \in Flat
    /\ Text(ls) = Pre(ls, r, c) ++ Post(ls, r, c)

LEMMA PlaceIs ==
    ASSUME NEW ls, NEW r, NEW c, Place(ls, r, c)
    PROVE  \E X \in Pieces, b \in Flat, a \in Flat, Y \in Pieces : IsPlace(ls, r, c, X, b, a, Y)
    <1>1. ls \in Pieces /\ r \in Nat /\ r < Len(ls) /\ c \in Nat /\ c <= Len(ls[r + 1]) /\ Boundary(ls[r + 1], c)
        BY DEF Place
    <1>2. PICK X \in Pieces, Y \in Pieces, l \in Flat :
             /\ X = SubSeq(ls, 1, r) /\ Y = SubSeq(ls, r + 2, Len(ls)) /\ l = ls[r + 1]
             /\ ls = X ++ (<<l>> ++ Y)
        BY <1>1, AroundLine
    <1>3. Len(X) = r
        <2>1. IsSlice(SubSeq(ls, 1, r), ls, 0, r)  BY <1>1, PiecesLen, PiecesSplit
        <2> QED  BY <1>2, <2>1 DEF IsSlice
    <1>4. PICK b \in Flat, a \in Flat : /\ b = Before(l, c) /\ Len(b) = c
                                        /\ a = After(l, c) /\ l = b ++ a
        <2>1. Before(l, c) \in Flat /\ IsSlice(Before(l, c), l, 0, c)  BY <1>1, <1>2, LineSplit
        <2>2. After(l, c) \in Flat /\ l = Before(l, c) ++ After(l, c)  BY <1>1, <1>2, LineSplit
        <2> QED  BY <2>1, <2>2 DEF IsSlice
    <1>5. Pre(ls, r, c) = Ended(X) ++ b /\ Post(ls, r, c) = a ++ Led(Y)  BY <1>2, <1>4 DEF Pre, Post
    <1>6. PICK e \in Flat, f \in Flat : e = Ended(X) /\ f = Led(Y)  BY EndedLaws, LedLaws
    <1>7. Text(ls) = e ++ (l ++ f)
        <2>1. Text(X ++ (<<l>> ++ Y)) = Ended(X) ++ (l ++ Led(Y))  BY TextAround
        <2> QED  BY <1>2, <1>6, <2>1, Zenon
    <1>8. e ++ ((b ++ a) ++ f) = (e ++ b) ++ (a ++ f)  BY FlatLaws
    <1>9. Pre(ls, r, c) \in Flat /\ Post(ls, r, c) \in Flat  BY <1>5, <1>6, FlatLaws
    <1>10. Text(ls) = Pre(ls, r, c) ++ Post(ls, r, c)  BY <1>4, <1>5, <1>6, <1>7, <1>8, Zenon
    <1>11. IsPlace(ls, r, c, X, b, a, Y)
        BY <1>2, <1>3, <1>4, <1>5, <1>9, <1>10, Zenon DEF IsPlace
    <1> QED  BY <1>11

\* Lines made around a place.
LEMMA MadePlace ==
    ASSUME NEW A \in Pieces, NEW b \in Flat, NEW a \in Flat, NEW Y \in Pieces,
           NEW ls, ls = A ++ (<<b ++ a>> ++ Y), NEW r \in Nat, r = Len(A), NEW c \in Nat, c = Len(b)
    PROVE  /\ Place(ls, r, c) /\ Pre(ls, r, c) = Ended(A) ++ b /\ Post(ls, r, c) = a ++ Led(Y)
    <1>1. PICK m \in Flat : m = b ++ a  BY FlatLaws
    <1>0. ls = A ++ (<<m>> ++ Y)  BY <1>1
    <1>2. /\ ls \in Pieces /\ r < Len(ls) /\ ls[r + 1] = m
          /\ SubSeq(ls, 1, r) = A /\ SubSeq(ls, r + 2, Len(ls)) = Y
        <2>1. IsAround(ls, r, A, m, Y)  BY <1>0, AroundIs, Zenon
        <2> QED  BY <2>1 DEF IsAround
    <1>3. Len(m) = Len(b) + Len(a) /\ Before(m, c) = b /\ After(m, c) = a /\ Boundary(m, c)
        BY <1>1, CutAt
    <1>4. c <= Len(m)  BY <1>3, FlatLen
    <1> QED  BY <1>2, <1>3, <1>4 DEF Place, Pre, Post

Made(ls, r, c, A, b, a, Y) ==
    Place(ls, r, c) /\ Pre(ls, r, c) = Ended(A) ++ b /\ Post(ls, r, c) = a ++ Led(Y)

LEMMA MadeIs ==
    ASSUME NEW A \in Pieces, NEW b \in Flat, NEW a \in Flat, NEW Y \in Pieces
    PROVE  Made(A ++ (<<b ++ a>> ++ Y), Len(A), Len(b), A, b, a, Y)
    <1>1. PICK n \in Nat, k \in Nat : n = Len(A) /\ k = Len(b)  BY PiecesLen, FlatLen
    <1>2. PICK ls : ls = A ++ (<<b ++ a>> ++ Y)  OBVIOUS
    <1>3. Place(ls, n, k) /\ Pre(ls, n, k) = Ended(A) ++ b /\ Post(ls, n, k) = a ++ Led(Y)
        BY <1>1, <1>2, MadePlace
    <1> QED  BY <1>1, <1>2, <1>3, Zenon DEF Made

At2(t) == Place(t.lines, t.row, t.col)
PreT(t) == Pre(t.lines, t.row, t.col)
PostT(t) == Post(t.lines, t.row, t.col)

\* What is inserted stands before the cursor, and nothing else changes.
LEMMA InsertPartsIs ==
    ASSUME NEW t, BufferOK(t), NEW parts \in Pieces, parts # <<>>
    PROVE  IF At2(t)
           THEN /\ BufferOK(InsertParts(t, parts)) /\ At2(InsertParts(t, parts))
                /\ PreT(InsertParts(t, parts)) = PreT(t) ++ Text(parts)
                /\ PostT(InsertParts(t, parts)) = PostT(t)
                /\ InsertParts(t, parts).anchor = t.anchor
           ELSE Broken(InsertParts(t, parts))
    <1>1. IsBuffer(t) /\ t.ok = TRUE /\ t.anchor \in Anchors /\ t.lines \in Pieces /\ InPlace(t)
        BY DEF BufferOK, Sound
    <1>2. PICK line, r, c : line = t.lines[r + 1] /\ r = t.row /\ c = t.col  OBVIOUS
    <1>3. r \in Nat /\ r < Len(t.lines) /\ c \in Nat /\ c <= Len(line)  BY <1>1, <1>2 DEF InPlace
    <1>4. line \in Flat /\ Len(line) \in Nat  BY <1>1, <1>2, <1>3, LineIs
    <1>5. MinOf(t.col, Len(line)) = c /\ Line(t, t.row) = line  BY <1>2, <1>3, <1>4 DEF MinOf, Line
    <1>6. PICK n \in Nat : n = Len(parts) /\ n > 0
        <2>1. parts \in Seq(Flat)  BY DEF Pieces
        <2> QED  BY <2>1, EmptySeq
    <1>7. PICK b \in Flat : b = Before(line, c)  BY <1>3, <1>4, LineSplit
    <1>8. PICK F \in Pieces, last \in Flat : AsParts(parts, n, b, F, last)  BY <1>6, PartsIs
    <1>9. PICK ls : ls = SubSeq(t.lines, 1, r) \o (F \o <<last \o After(line, c)>>)
                         \o SubSeq(t.lines, r + 2, Len(t.lines))
        OBVIOUS
    <1>10. PICK u : u = [t EXCEPT !.lines = ls, !.row = @ + n - 1, !.col = Len(last), !.ok = @ /\ Boundary(line, c)]
        OBVIOUS
    <1>11. InsertParts(t, parts) = u
        BY <1>2, <1>5, <1>6, <1>7, <1>8, <1>9, <1>10, Zenon DEF InsertParts, Splice, AsParts
    <1>12. /\ IsBuffer(u) /\ u.lines = ls /\ u.row = r + n - 1 /\ u.col = Len(last)
           /\ u.anchor = t.anchor /\ u.ok = (t.ok /\ Boundary(line, c))
        BY <1>1, <1>2, <1>10 DEF IsBuffer
    <1>13. At2(t) <=> Boundary(line, c)  BY <1>1, <1>2, <1>3 DEF At2, Place
    <1>14. CASE ~ At2(t)
        <2>1. Broken(u)  BY <1>1, <1>12, <1>13, <1>14 DEF Broken
        <2> QED  BY <1>11, <1>14, <2>1
    <1>15. CASE At2(t)
        <2>1. PICK X \in Pieces, a \in Flat, Y \in Pieces :
                 /\ X = SubSeq(t.lines, 1, r) /\ Len(X) = r
                 /\ a = After(line, c) /\ Y = SubSeq(t.lines, r + 2, Len(t.lines))
                 /\ PreT(t) = Ended(X) ++ b /\ PostT(t) = a ++ Led(Y)
            <3>1. Place(t.lines, r, c)  BY <1>2, <1>15 DEF At2
            <3>2. PICK X \in Pieces, x \in Flat, a \in Flat, Y \in Pieces : IsPlace(t.lines, r, c, X, x, a, Y)
                BY <3>1, PlaceIs
            <3> QED  BY <1>2, <1>7, <3>2, Zenon DEF IsPlace, PreT, PostT
        <2>2. PICK A \in Pieces : A = X ++ F /\ Len(A) = u.row /\ u.row \in Nat
            <3>1. Len(F) = n - 1  BY <1>8 DEF AsParts
            <3>2. X \in Seq(Flat) /\ F \in Seq(Flat)  BY DEF Pieces
            <3>3. Len(X \o F) = r + (n - 1)  BY <2>1, <3>1, <3>2, ConcatProperties
            <3>4. r + (n - 1) = u.row /\ u.row \in Nat  BY <1>3, <1>6, <1>12
            <3> QED  BY <3>3, <3>4, PiecesLaws DEF ++
        <2>3. ls = A ++ (<<last ++ a>> ++ Y)
            <3>1. PICK M \in Pieces : M = <<last ++ a>>  BY FlatLaws, PiecesLaws
            <3>2. ls = (X ++ (F ++ M)) ++ Y  BY <1>9, <2>1, <3>1, Zenon DEF ++
            <3>3. (X ++ (F ++ M)) ++ Y = (X ++ F) ++ (M ++ Y)  BY PiecesLaws
            <3> QED  BY <2>2, <3>1, <3>2, <3>3
        <2>4. Len(last) \in Nat  BY FlatLen
        <2>5. /\ Place(ls, u.row, u.col) /\ Pre(ls, u.row, u.col) = Ended(A) ++ last
              /\ Post(ls, u.row, u.col) = a ++ Led(Y)
            BY <1>12, <2>2, <2>3, <2>4, MadePlace
        <2>6. Ended(A) ++ last = PreT(t) ++ Text(parts)
            <3>1. PICK x \in Flat, f \in Flat : x = Ended(X) /\ f = Ended(F)  BY EndedLaws
            <3>2. Ended(A) = x ++ f  BY <2>2, <3>1, EndedLaws
            <3>3. f ++ last = b ++ Text(parts)  BY <1>8, <3>1 DEF AsParts
            <3>4. PICK p \in Flat : p = Text(parts)  BY TextType
            <3>5. (x ++ f) ++ last = x ++ (f ++ last)  BY FlatLaws
            <3>6. x ++ (b ++ p) = (x ++ b) ++ p  BY FlatLaws
            <3> QED  BY <2>1, <3>1, <3>2, <3>3, <3>4, <3>5, <3>6, Zenon
        <2>7. BufferOK(u)
            <3>1. Boundary(line, c)  BY <1>13, <1>15
            <3>2. u.ok = TRUE  BY <1>1, <1>12, <3>1
            <3>3. InPlace(u) /\ Len(u.lines) > 0 /\ u.lines \in Pieces
                <4>1. Len(ls) \in Nat  BY <2>5, PiecesLen DEF Place
                <4> QED  BY <1>12, <2>5, <4>1 DEF InPlace, Place
            <3> QED  BY <1>1, <1>12, <3>2, <3>3 DEF BufferOK, Sound
        <2> QED  BY <1>11, <1>12, <1>15, <2>1, <2>5, <2>6, <2>7, Zenon DEF At2, PreT, PostT
    <1> QED  BY <1>14, <1>15

(***************************************************************************)
(* Every edit leaves a sound buffer, or a broken one.                      *)
(***************************************************************************)
LEMMA RemoveBroken ==
    ASSUME NEW t, Broken(t), NEW range PROVE Broken(RemoveRange(t, range))
    <1>1. ASSUME NEW ls, NEW c PROVE Broken([t EXCEPT !.lines = ls, !.ok = @ /\ c])
        <2>1. IsBuffer(t) /\ t.ok = FALSE  BY DEF Broken
        <2>2. PICK u : u = [t EXCEPT !.lines = ls, !.ok = @ /\ c]  OBVIOUS
        <2>3. IsBuffer(u) /\ u.ok = (t.ok /\ c)  BY <2>1, <2>2 DEF IsBuffer
        <2>4. (t.ok /\ c) = FALSE  BY <2>1
        <2> QED  BY <2>2, <2>3, <2>4, Zenon DEF Broken
    <1> QED  BY <1>1, Zenon DEF RemoveRange

LEMMA CollapseBroken == \A t : Broken(t) => Broken(Collapse(t))
    BY RemoveBroken, SetCursorBroken, ClearBroken, Zenon DEF Collapse, CutOut

LEMMA InsertPartsBroken ==
    ASSUME NEW t, Broken(t), NEW parts PROVE Broken(InsertParts(t, parts))
    <1>1. ASSUME NEW ls, NEW r, NEW c, NEW b PROVE Broken([t EXCEPT !.lines = ls, !.row = r, !.col = c, !.ok = @ /\ b])
        <2>1. IsBuffer(t) /\ t.ok = FALSE  BY DEF Broken
        <2>2. PICK u : u = [t EXCEPT !.lines = ls, !.row = r, !.col = c, !.ok = @ /\ b]  OBVIOUS
        <2>3. IsBuffer(u) /\ u.ok = (t.ok /\ b)  BY <2>1, <2>2 DEF IsBuffer
        <2>4. (t.ok /\ b) = FALSE  BY <2>1
        <2> QED  BY <2>2, <2>3, <2>4, Zenon DEF Broken
    <1>2. PICK r : r = t.row + Len(parts) - 1  OBVIOUS
    <1>3. \A ls, c, b : [t EXCEPT !.lines = ls, !.row = @ + Len(parts) - 1, !.col = c, !.ok = @ /\ b]
                      = [t EXCEPT !.lines = ls, !.row = r, !.col = c, !.ok = @ /\ b]
        BY <1>2
    <1> QED  BY <1>1, <1>3, Zenon DEF InsertParts

LEMMA InsertTextBroken == \A t, with : Broken(t) => Broken(InsertText(t, with))
    BY CollapseBroken, InsertPartsBroken, Zenon DEF InsertText

LEMMA InsertTextFine ==
    ASSUME NEW t, Fine(t), NEW with \in Seq(Char) PROVE Fine(InsertText(t, with))
    <1>1. CASE Broken(t)  BY <1>1, InsertTextBroken DEF Fine
    <1>2. CASE BufferOK(t)
        <2>1. CASE with = <<>>
            <3>1. InsertText(t, with) = t  BY <2>1 DEF InsertText
            <3> QED  BY <3>1
        <2>2. CASE with # <<>>
            <3>1. InsertText(t, with) = InsertParts(Collapse(t), LinesOf(with))  BY <2>2 DEF InsertText
            <3>2. PICK parts \in Pieces : parts = LinesOf(with) /\ parts # <<>>  BY LinesOfIs
            <3>3. PICK u : u = Collapse(t) /\ Fine(u)  BY <1>2, CollapseFine
            <3>4. CASE Broken(u)  BY <3>1, <3>2, <3>3, <3>4, InsertPartsBroken DEF Fine
            <3>5. CASE BufferOK(u)
                <4>1. BufferOK(InsertParts(u, parts)) \/ Broken(InsertParts(u, parts))
                    BY <3>2, <3>5, InsertPartsIs
                <4> QED  BY <3>1, <3>2, <3>3, <4>1 DEF Fine
            <3> QED  BY <3>3, <3>4, <3>5 DEF Fine
        <2> QED  BY <2>1, <2>2
    <1> QED  BY <1>1, <1>2 DEF Fine

\* The places before and after one in a line.
LEMMA PrevIs ==
    ASSUME NEW l \in Flat, NEW i \in Nat, 0 < i, i <= Len(l)
    PROVE  LET p == PrevBoundary(l, i) IN
           /\ p \in Nat /\ p < i /\ Boundary(l, p)
           /\ \A j \in 0 .. i - 1 : Boundary(l, j) => j <= p
    <1>1. PICK n \in Nat : n = Len(l) /\ i <= n  BY FlatLen
    <1>2. PICK S : S = {j \in 0 .. i - 1 : j = 0 \/ Boundary(l, j)}  OBVIOUS
    <1>3. i - 1 \in Nat /\ S \subseteq 0 .. i - 1 /\ 0 \in S  BY <1>2
    <1>4. Max(S) \in S /\ \A y \in S : y <= Max(S)  BY <1>3, MaxIs
    <1>5. Boundary(l, 0)
        <2>1. 1 \in 1 .. n => l[1] # More
            <3> SUFFICES ASSUME l[1] = More, 1 \in 1 .. n PROVE FALSE  OBVIOUS
            <3>1. Whole(l)  BY DEF Flat
            <3> QED  BY <1>1, <3>1 DEF Whole
        <2> QED  BY <1>1, <2>1 DEF Boundary
    <1>6. PrevBoundary(l, i) = Max(S)  BY <1>2, Zenon DEF PrevBoundary
    <1>7. Max(S) \in 0 .. i - 1 /\ Boundary(l, Max(S))  BY <1>2, <1>4, <1>5
    <1>8. ASSUME NEW j \in 0 .. i - 1, Boundary(l, j) PROVE j <= Max(S)
        <2>1. j \in S  BY <1>2, <1>8
        <2> QED  BY <1>4, <2>1
    <1> HIDE DEF Boundary
    <1> QED  BY <1>6, <1>7, <1>8

LEMMA NextIs ==
    ASSUME NEW l \in Flat, NEW i \in Nat, i < Len(l)
    PROVE  NextBoundary(l, i) \in Nat /\ NextBoundary(l, i) <= Len(l) /\ Boundary(l, NextBoundary(l, i))
    <1>1. PICK n \in Nat : n = Len(l) /\ i < n  BY FlatLen
    <1>2. PICK S : S = {j \in i + 1 .. Len(l) : Boundary(l, j)}  OBVIOUS
    <1>3. S \subseteq Nat  BY <1>1, <1>2
    <1>4. n \in S  BY <1>1, <1>2 DEF Boundary
    <1>5. Min(S) \in S  BY <1>3, <1>4, MinIs
    <1>6. NextBoundary(l, i) = Min(S)  BY <1>2, Zenon DEF NextBoundary
    <1> QED  BY <1>1, <1>2, <1>5, <1>6

LEMMA BeforeBefore ==
    ASSUME NEW l \in Flat, NEW i \in Nat, i <= Len(l), NEW p \in Nat, p <= i
    PROVE  /\ Before(Before(l, i), p) = Before(l, p)
           /\ Boundary(l, p) => Boundary(Before(l, i), p)
    <1>0. PICK n \in Nat : n = Len(l) /\ i <= n /\ p <= n  BY FlatLen
    <1>1. PICK b \in Flat : b = Before(l, i) /\ IsSlice(b, l, 0, i)  BY LineSplit
    <1>2. Len(b) = i /\ \A j \in 1 .. i : b[j] = l[j]  BY <1>1 DEF IsSlice
    <1>3. PICK c \in Flat : c = Before(l, p) /\ IsSlice(c, l, 0, p)  BY <1>0, LineSplit
    <1>4. PICK d \in Flat : d = Before(b, p) /\ IsSlice(d, b, 0, p)  BY <1>2, LineSplit
    <1>5. Len(c) = p /\ Len(d) = p /\ \A j \in 1 .. p : c[j] = d[j]
        <2>1. \A j \in 1 .. p : j \in 1 .. i  OBVIOUS
        <2> QED  BY <1>2, <1>3, <1>4, <2>1 DEF IsSlice
    <1>6. c = d
        <2>1. c \in Seq(AnyByte) /\ d \in Seq(AnyByte)  BY DEF Flat
        <2> QED  BY <1>5, <2>1, SeqEqual
    <1>7. Boundary(l, p) => Boundary(b, p)
        <2> SUFFICES ASSUME Boundary(l, p), p \in 1 .. Len(b) - 1 PROVE b[p + 1] # More
            BY <1>2 DEF Boundary
        <2>1. p \in 1 .. Len(l) - 1 /\ p + 1 \in 1 .. i  BY <1>0, <1>2
        <2> QED  BY <1>2, <2>1 DEF Boundary
    <1> QED  BY <1>1, <1>3, <1>4, <1>6, <1>7

\* A character: a byte and those that follow it.
OneChar(ch) == ch \in Flat /\ Len(ch) > 0 /\ \A k \in 2 .. Len(ch) : ch[k] = More

\* What is between a boundary and the one before it is a character.
LEMMA LastChar ==
    ASSUME NEW l \in Flat, NEW i \in Nat, 0 < i, i <= Len(l)
    PROVE  \E ch : OneChar(ch) /\ Before(l, i) = Before(l, PrevBoundary(l, i)) ++ ch
    <1>0. PICK n \in Nat : n = Len(l) /\ i <= n  BY FlatLen
    <1>1. PICK p \in Nat : /\ p = PrevBoundary(l, i) /\ p < i /\ Boundary(l, p)
                           /\ \A j \in 0 .. i - 1 : Boundary(l, j) => j <= p
        BY PrevIs
    <1>2. PICK b \in Flat : b = Before(l, i) /\ IsSlice(b, l, 0, i)  BY LineSplit
    <1>3. Len(b) = i /\ \A j \in 1 .. i : b[j] = l[j]  BY <1>2 DEF IsSlice
    <1>4. Before(b, p) = Before(l, p) /\ Boundary(b, p)  BY <1>1, <1>2, BeforeBefore
    <1>5. PICK ch \in Flat : ch = After(b, p) /\ b = Before(b, p) ++ ch /\ IsSlice(ch, b, p, i - p)
        <2>1. p <= Len(b)  BY <1>1, <1>3
        <2> QED  BY <1>3, <1>4, <2>1, LineSplit
    <1>6. Len(ch) = i - p /\ \A k \in 1 .. i - p : ch[k] = l[p + k]
        <2>1. \A k \in 1 .. i - p : p + k \in 1 .. i  BY <1>1
        <2> QED  BY <1>3, <1>5, <2>1 DEF IsSlice
    <1>7. ASSUME NEW k \in 2 .. i - p PROVE ch[k] = More
        <2>1. p + k - 1 \in 1 .. i - 1 /\ p + k - 1 > p /\ (p + k - 1) + 1 = p + k /\ k \in 1 .. i - p
            BY <1>1
        <2>2. ~ Boundary(l, p + k - 1)  BY <1>1, <2>1
        <2>3. l[p + k] = More  BY <1>0, <2>1, <2>2 DEF Boundary
        <2> QED  BY <1>6, <2>1, <2>3
    <1>8. OneChar(ch)
        <2>1. Len(ch) > 0  BY <1>1, <1>6
        <2> QED  BY <1>6, <1>7, <2>1 DEF OneChar
    <1> QED  BY <1>1, <1>2, <1>4, <1>5, <1>8

\* One line of a text replaced.
LEMMA LineReplaced ==
    ASSUME NEW ls \in Pieces, NEW r \in Nat, r < Len(ls), NEW l \in Flat
    PROVE  [ls EXCEPT ![r + 1] = l] = SubSeq(ls, 1, r) ++ (<<l>> ++ SubSeq(ls, r + 2, Len(ls)))
    <1>1. PICK n \in Nat : n = Len(ls) /\ r < n  BY PiecesLen
    <1>2. PICK A \in Pieces, Y \in Pieces : /\ A = SubSeq(ls, 1, r) /\ Y = SubSeq(ls, r + 2, Len(ls))
        BY AroundLine
    <1>3. IsSlice(A, ls, 0, r) /\ IsSlice(Y, ls, r + 1, n - (r + 1))
        <2>1. r + 1 \in Nat /\ r + 1 <= Len(ls) /\ (r + 1) + 1 = r + 2  BY <1>1
        <2>2. IsSlice(A, ls, 0, r)  BY <1>2, PiecesSplit
        <2>3. IsSlice(SubSeq(ls, (r + 1) + 1, Len(ls)), ls, r + 1, Len(ls) - (r + 1))  BY <2>1, PiecesSplit
        <2> QED  BY <1>1, <1>2, <2>1, <2>2, <2>3, Zenon
    <1>4. PICK B \in Seq(Flat) : /\ B = <<l>> \o Y /\ Len(B) = n - r /\ B[1] = l
                                 /\ \A i \in 1 .. n - (r + 1) : B[1 + i] = Y[i]
        <2>1. Y \in Seq(Flat) /\ <<l>> \in Seq(Flat) /\ Len(Y) = n - (r + 1)  BY <1>3 DEF Pieces, IsSlice
        <2>2. <<l>> \o Y \in Seq(Flat) /\ Len(<<l>> \o Y) = n - r /\ (<<l>> \o Y)[1] = l  BY <1>1, <2>1
        <2>3. \A i \in 1 .. n - (r + 1) : (<<l>> \o Y)[1 + i] = Y[i]  BY <1>1, <2>1
        <2> QED  BY <2>2, <2>3
    <1>5. PICK L \in Seq(Flat) : /\ L = A \o B /\ Len(L) = n
                                 /\ \A i \in 1 .. r : L[i] = A[i]
                                 /\ \A i \in 1 .. n - r : L[r + i] = B[i]
        <2>1. A \in Seq(Flat) /\ Len(A) = r  BY <1>3 DEF Pieces, IsSlice
        <2>2. A \o B \in Seq(Flat) /\ Len(A \o B) = n  BY <1>1, <1>4, <2>1, ConcatProperties
        <2>3. \A i \in 1 .. r : (A \o B)[i] = A[i]  BY <1>4, <2>1, ConcatProperties
        <2>4. \A i \in 1 .. n - r : (A \o B)[r + i] = B[i]  BY <1>4, <2>1, ConcatProperties
        <2> QED  BY <2>2, <2>3, <2>4
    <1>6. PICK M : M = [ls EXCEPT ![r + 1] = l]  OBVIOUS
    <1>7. M \in Seq(Flat) /\ Len(M) = n /\ M[r + 1] = l /\ \A i \in 1 .. n : i # r + 1 => M[i] = ls[i]
        <2>1. ls \in Seq(Flat) /\ r + 1 \in 1 .. n  BY <1>1 DEF Pieces
        <2> QED  BY <1>1, <1>6, <2>1
    <1>8. ASSUME NEW i \in 1 .. n PROVE L[i] = M[i]
        <2>1. CASE i <= r
            <3>1. i \in 1 .. r /\ i # r + 1  BY <2>1
            <3>2. A[i] = ls[i]  BY <1>3, <3>1 DEF IsSlice
            <3> QED  BY <1>5, <1>7, <3>1, <3>2
        <2>2. CASE i = r + 1
            <3>1. 1 \in 1 .. n - r /\ L[r + 1] = B[1]  BY <1>1, <1>5
            <3> QED  BY <1>4, <1>7, <2>2, <3>1
        <2>3. CASE i > r + 1
            <3>1. PICK k \in Nat : k = i - (r + 1)  BY <2>3
            <3>2. k \in 1 .. n - (r + 1) /\ 1 + k \in 1 .. n - r /\ r + (1 + k) = i /\ (r + 1) + k = i
                BY <1>1, <2>3, <3>1
            <3>3. L[i] = B[1 + k]  BY <1>5, <3>2
            <3>4. B[1 + k] = Y[k]  BY <1>4, <3>2
            <3>5. Y[k] = ls[(r + 1) + k]  BY <1>3, <3>2 DEF IsSlice
            <3>6. L[i] = ls[i]  BY <3>2, <3>3, <3>4, <3>5, Zenon
            <3>7. M[i] = ls[i]  BY <1>7, <2>3
            <3> QED  BY <3>6, <3>7
        <2> QED  BY <2>1, <2>2, <2>3
    <1>9. L = M  BY <1>5, <1>7, <1>8, SeqEqual
    <1>10. A ++ (<<l>> ++ Y) = L  BY <1>4, <1>5, Zenon DEF ++
    <1> QED  BY <1>2, <1>6, <1>9, <1>10

LEMMA PlacedFine ==
    ASSUME NEW u, IsBuffer(u), u.ok = TRUE, u.anchor \in Anchors, Place(u.lines, u.row, u.col)
    PROVE  BufferOK(u) /\ At2(u)
    <1>1. Len(u.lines) \in Nat  BY PiecesLen DEF Place
    <1> QED  BY <1>1 DEF BufferOK, Sound, InPlace, At2, Place

\* Backspace without a selection: what is before the cursor loses a character,
\* when there is one.
Back(t, u, ch) ==
    /\ BufferOK(u) /\ At2(u) /\ PostT(u) = PostT(t) /\ PreT(t) = PreT(u) ++ ch
    /\ OneChar(ch) \/ (ch = <<>> /\ PreT(t) = <<>>)

\* Backspace takes the character before the cursor.
LEMMA BackspaceIs ==
    ASSUME NEW t, BufferOK(t), ~ HasSelection(t)
    PROVE  IF At2(t) THEN \E ch \in Flat : Back(t, Backspace(t), ch) ELSE Broken(Backspace(t))
    <1>1. IsBuffer(t) /\ t.ok = TRUE /\ t.anchor \in Anchors /\ t.lines \in Pieces /\ InPlace(t)
        BY DEF BufferOK, Sound
    <1>2. PICK line, r, c : line = t.lines[r + 1] /\ r = t.row /\ c = t.col  OBVIOUS
    <1>3. r \in Nat /\ r < Len(t.lines) /\ c \in Nat /\ c <= Len(line)  BY <1>1, <1>2 DEF InPlace
    <1>4. line \in Flat /\ Len(line) \in Nat /\ Line(t, t.row) = line  BY <1>1, <1>2, <1>3, LineIs DEF Line
    <1>5. At2(t) <=> Boundary(line, c)  BY <1>1, <1>2, <1>3 DEF At2, Place
    <1>6. CASE c > 0
        <2>1. PICK p \in Nat : p = PrevBoundary(line, c) /\ p < c /\ Boundary(line, p)  BY <1>3, <1>4, <1>6, PrevIs
        <2>2. p <= Len(line)  BY <1>3, <1>4, <2>1
        <2>3. PICK l : l = Before(line, p) \o After(line, c)  OBVIOUS
        <2>4. PICK ls : ls = [t.lines EXCEPT ![r + 1] = l]  OBVIOUS
        <2>5. PICK u : u = [t EXCEPT !.lines = ls, !.col = p, !.ok = @ /\ Boundary(line, c)]  OBVIOUS
        <2>6. Backspace(t) = u
            <3>1. [t EXCEPT !.lines[t.row + 1] = l, !.col = p, !.ok = @ /\ Boundary(line, t.col)] = u
                BY <1>2, <2>4, <2>5
            <3>2. t.col > 0 /\ ~ t.col = 0  BY <1>2, <1>3, <1>6
            <3>3. PrevBoundary(line, t.col) = p /\ Before(line, p) \o After(line, t.col) = l  BY <1>2, <2>1, <2>3
            <3> QED  BY <1>4, <3>1, <3>2, <3>3, Zenon DEF Backspace
        <2>7. IsBuffer(u) /\ u.lines = ls /\ u.row = r /\ u.col = p /\ u.anchor = t.anchor
              /\ u.ok = (t.ok /\ Boundary(line, c))
            BY <1>1, <1>2, <2>5 DEF IsBuffer
        <2>8. CASE ~ At2(t)
            <3>1. Broken(u)  BY <1>1, <1>5, <2>7, <2>8 DEF Broken
            <3> QED  BY <2>6, <2>8, <3>1
        <2>9. CASE At2(t)
            <3>1. PICK X \in Pieces, b \in Flat, a \in Flat, Y \in Pieces : IsPlace(t.lines, r, c, X, b, a, Y)
                BY <1>2, <2>9, PlaceIs DEF At2
            <3>2. /\ X = SubSeq(t.lines, 1, r) /\ b = Before(line, c) /\ Len(X) = r
                  /\ a = After(line, c) /\ Y = SubSeq(t.lines, r + 2, Len(t.lines))
                  /\ PreT(t) = Ended(X) ++ b /\ PostT(t) = a ++ Led(Y)
                BY <1>2, <3>1, Zenon DEF IsPlace, PreT, PostT
            <3>3. PICK ch : OneChar(ch) /\ b = Before(line, p) ++ ch  BY <1>3, <1>4, <1>6, <2>1, <3>2, LastChar
            <3>4. PICK d \in Flat : d = Before(line, p) /\ Len(d) = p
                <4>1. Before(line, p) \in Flat /\ IsSlice(Before(line, p), line, 0, p)  BY <1>4, <2>2, LineSplit
                <4> QED  BY <4>1 DEF IsSlice
            <3>5. l = d ++ a /\ l \in Flat  BY <2>3, <3>2, <3>4, FlatLaws DEF ++
            <3>6. ls = X ++ (<<d ++ a>> ++ Y)  BY <1>1, <1>3, <2>4, <3>2, <3>5, LineReplaced
            <3>7. /\ Place(ls, r, p) /\ Pre(ls, r, p) = Ended(X) ++ d /\ Post(ls, r, p) = a ++ Led(Y)
                <4>1. Made(ls, r, p, X, d, a, Y)  BY <3>2, <3>4, <3>6, MadeIs, Zenon
                <4> QED  BY <4>1 DEF Made
            <3>8. BufferOK(u) /\ At2(u)
                <4>1. Boundary(line, c)  BY <1>5, <2>9
                <4>2. u.ok = TRUE  BY <1>1, <2>7, <4>1
                <4> QED  BY <1>1, <2>7, <3>7, <4>2, PlacedFine
            <3>9. PreT(t) = PreT(u) ++ ch
                <4>1. PICK x \in Flat : x = Ended(X)  BY EndedLaws
                <4>2. ch \in Flat  BY <3>3 DEF OneChar
                <4>3. x ++ (d ++ ch) = (x ++ d) ++ ch  BY <4>2, FlatLaws
                <4> QED  BY <2>7, <3>2, <3>3, <3>4, <3>7, <4>1, <4>3, Zenon DEF PreT
            <3>10. PostT(u) = PostT(t)  BY <2>7, <3>2, <3>7, Zenon DEF PostT
            <3>11. Back(t, u, ch) /\ ch \in Flat  BY <3>3, <3>8, <3>9, <3>10, Zenon DEF Back, OneChar
            <3> QED  BY <2>6, <2>9, <3>11
        <2> QED  BY <2>8, <2>9
    <1>7. ASSUME c = 0 PROVE /\ At2(t) /\ \E X \in Pieces, Y \in Pieces :
                                  /\ X = SubSeq(t.lines, 1, r) /\ Y = SubSeq(t.lines, r + 2, Len(t.lines))
                                  /\ PreT(t) = Ended(X) /\ PostT(t) = line ++ Led(Y)
                                  /\ t.lines = X ++ (<<line>> ++ Y) /\ Len(X) = r
        <2>1. PICK X \in Pieces, Y \in Pieces : /\ X = SubSeq(t.lines, 1, r) /\ Y = SubSeq(t.lines, r + 2, Len(t.lines))
                                                /\ t.lines = X ++ (<<line>> ++ Y)
            <3>1. /\ SubSeq(t.lines, 1, r) \in Pieces /\ SubSeq(t.lines, r + 2, Len(t.lines)) \in Pieces
                  /\ t.lines = SubSeq(t.lines, 1, r) ++ (<<t.lines[r + 1]>> ++ SubSeq(t.lines, r + 2, Len(t.lines)))
                BY <1>1, <1>3, AroundLine
            <3> QED  BY <1>2, <3>1, Zenon
        <2>2. Len(X) = r
            <3>n. PICK n \in Nat : n = Len(t.lines)  BY <1>1, PiecesLen
            <3>0. r <= Len(t.lines)  BY <1>3, <3>n
            <3>1. IsSlice(SubSeq(t.lines, 1, r), t.lines, 0, r)  BY <1>1, <1>3, <3>0, PiecesSplit
            <3> QED  BY <2>1, <3>1 DEF IsSlice
        <2>3. <<>> ++ line = line /\ <<>> \in Flat /\ Len(<<>>) = 0  BY <1>4, FlatLaws
        <2>4. t.lines = X ++ (<<<<>> ++ line>> ++ Y)  BY <2>1, <2>3
        <2>5. /\ Place(t.lines, r, c) /\ Pre(t.lines, r, c) = Ended(X) ++ <<>>
              /\ Post(t.lines, r, c) = line ++ Led(Y)
            BY <1>3, <1>4, <1>7, <2>2, <2>3, <2>4, MadePlace
        <2>6. Ended(X) ++ <<>> = Ended(X)  BY EndedLaws, FlatLaws
        <2> QED  BY <1>2, <2>1, <2>2, <2>5, <2>6, Zenon DEF At2, PreT, PostT
    <1>8. CASE c = 0 /\ r > 0
        <2>1. At2(t)  BY <1>7, <1>8
        <2>2. PICK X \in Pieces, Y \in Pieces :
                  /\ X = SubSeq(t.lines, 1, r) /\ Y = SubSeq(t.lines, r + 2, Len(t.lines))
                  /\ PreT(t) = Ended(X) /\ PostT(t) = line ++ Led(Y)
            BY <1>7, <1>8
        <2>3. PICK q \in Nat : q = r - 1 /\ q < Len(t.lines) /\ q + 1 = r /\ Len(t.lines) \in Nat
            BY <1>1, <1>3, <1>8, PiecesLen
        <2>4. PICK m \in Flat : m = t.lines[q + 1] /\ Len(m) \in Nat /\ m = Line(t, t.row - 1)
            <3>1. t.lines[q + 1] \in Flat /\ Len(t.lines[q + 1]) \in Nat  BY <1>1, <2>3, LineIs
            <3> QED  BY <1>2, <2>3, <3>1 DEF Line
        <2>5. PICK A \in Pieces : A = SubSeq(t.lines, 1, q) /\ X = A ++ <<m>> /\ Len(A) = q
            <3>1. SubSeq(t.lines, 1, q) \in Pieces /\ SubSeq(t.lines, 1, q + 1) = SubSeq(t.lines, 1, q) \o <<t.lines[q + 1]>>
                BY <1>1, <2>3, OneMore DEF Pieces
            <3>2. IsSlice(SubSeq(t.lines, 1, q), t.lines, 0, q)  BY <1>1, <2>3, PiecesSplit
            <3> QED  BY <2>2, <2>3, <2>4, <3>1, <3>2, Zenon DEF ++, IsSlice
        <2>6. PICK ls : ls = SubSeq(t.lines, 1, q) \o <<m \o line>> \o SubSeq(t.lines, r + 2, Len(t.lines))
            OBVIOUS
        <2>7. PICK u : u = [t EXCEPT !.lines = ls, !.row = @ - 1, !.col = Len(m)]  OBVIOUS
        <2>8. Backspace(t) = u
            <3>1. ~ t.col > 0 /\ t.col = 0 /\ t.row > 0  BY <1>2, <1>3, <1>8
            <3>2. Splice(t, t.row - 1, t.row, <<m \o line>>) = ls  BY <1>2, <2>3, <2>6, Zenon DEF Splice
            <3> QED  BY <1>4, <2>4, <2>7, <3>1, <3>2, Zenon DEF Backspace
        <2>9. IsBuffer(u) /\ u.lines = ls /\ u.row = q /\ u.col = Len(m) /\ u.anchor = t.anchor /\ u.ok = TRUE
            BY <1>1, <1>2, <2>3, <2>7 DEF IsBuffer
        <2>10. ls = A ++ (<<m ++ line>> ++ Y)
            <3>1. PICK M \in Pieces : M = <<m ++ line>>  BY <1>4, FlatLaws, PiecesLaws
            <3>2. ls = (A ++ M) ++ Y  BY <2>2, <2>5, <2>6, <3>1, Zenon DEF ++
            <3> QED  BY <3>1, <3>2, PiecesLaws
        <2>11. Place(ls, q, Len(m)) /\ Pre(ls, q, Len(m)) = Ended(A) ++ m /\ Post(ls, q, Len(m)) = line ++ Led(Y)
            <3>1. Made(ls, q, Len(m), A, m, line, Y)  BY <1>4, <2>5, <2>10, MadeIs, Zenon
            <3> QED  BY <3>1 DEF Made
        <2>12. BufferOK(u) /\ At2(u)  BY <1>1, <2>9, <2>11, PlacedFine
        <2>13. PreT(t) = PreT(u) ++ <<NewLine>>
            <3>1. PICK x \in Flat : x = Ended(A)  BY EndedLaws
            <3>2. Ended(X) = x ++ (m ++ <<NewLine>>)
                <4>1. <<m>> \in Pieces /\ Ended(<<m>>) = m ++ <<NewLine>>  BY EndedLaws, PiecesLaws
                <4> QED  BY <2>5, <3>1, <4>1, EndedLaws
            <3>3. x ++ (m ++ <<NewLine>>) = (x ++ m) ++ <<NewLine>>  BY FlatLaws
            <3> QED  BY <2>2, <2>9, <2>11, <3>1, <3>2, <3>3, Zenon DEF PreT
        <2>14. OneChar(<<NewLine>>)
            <3>1. Len(<<NewLine>>) = 1 /\ <<NewLine>> \in Flat  BY FlatLaws
            <3> QED  BY <3>1 DEF OneChar
        <2>15. Back(t, u, <<NewLine>>) /\ <<NewLine>> \in Flat
            BY <2>2, <2>9, <2>11, <2>12, <2>13, <2>14, Zenon DEF Back, PostT, OneChar
        <2> QED  BY <2>1, <2>8, <2>15
    <1>9. CASE c = 0 /\ r = 0
        <2>1. At2(t)  BY <1>7, <1>9
        <2>2. PICK X \in Pieces : PreT(t) = Ended(X) /\ Len(X) = 0  BY <1>7, <1>9
        <2>3. X = <<>>  BY <2>2, EmptySeq DEF Pieces
        <2>4. PreT(t) = <<>>  BY <2>2, <2>3, EndedLaws
        <2>5. Backspace(t) = t
            <3>1. ~ t.col > 0 /\ ~ t.row > 0  BY <1>2, <1>3, <1>9
            <3> QED  BY <3>1, Zenon DEF Backspace
        <2>6. <<>> ++ <<>> = <<>> /\ <<>> \in Flat  BY FlatLaws
        <2>7. Back(t, t, <<>>)  BY <2>1, <2>4, <2>6, Zenon DEF Back
        <2> QED  BY <2>1, <2>5, <2>6, <2>7
    <1>10. c > 0 \/ (c = 0 /\ r > 0) \/ (c = 0 /\ r = 0)  BY <1>3
    <1> QED  BY <1>6, <1>8, <1>9, <1>10

(***************************************************************************)
(* Moving the cursor.                                                      *)
(***************************************************************************)
LEMMA MovedFine ==
    ASSUME NEW t, BufferOK(t), NEW r \in Nat, r < Len(t.lines), NEW c \in Nat, c <= Len(t.lines[r + 1]),
           NEW u, u = [t EXCEPT !.row = r, !.col = c]
    PROVE  BufferOK(u) /\ u.lines = t.lines
    <1>1. IsBuffer(t)  BY DEF BufferOK, Sound
    <1>2. Same(u, t) /\ u.anchor = t.anchor /\ u.row = r /\ u.col = c  BY <1>1 DEF IsBuffer, Same
    <1> QED  BY <1>2 DEF BufferOK, Sound, InPlace, Same

LEMMA MoveToRowFine ==
    ASSUME NEW t, BufferOK(t), NEW r \in Nat, r < Len(t.lines)
    PROVE  BufferOK(MoveToRow(t, r))
    <1>1. t.lines \in Pieces /\ t.col \in Nat  BY DEF BufferOK, Sound, InPlace
    <1>2. PICK m \in Nat : m = Len(t.lines[r + 1])  BY <1>1, LineIs
    <1>3. PICK c \in Nat : c = MinOf(t.col, m) /\ c <= m  BY <1>1 DEF MinOf
    <1>4. MoveToRow(t, r) = [t EXCEPT !.row = r, !.col = c]  BY <1>2, <1>3 DEF MoveToRow
    <1> QED  BY <1>2, <1>3, <1>4, MovedFine

LEMMA MoveUpDownFine ==
    ASSUME NEW t, BufferOK(t) PROVE BufferOK(MoveUp(t)) /\ BufferOK(MoveDown(t))
    <1>1. PICK r \in Nat, n \in Nat : r = t.row /\ n = Len(t.lines) /\ r < n
        BY PiecesLen DEF BufferOK, Sound, InPlace
    <1>2. MoveUp(t) = IF r > 0 THEN MoveToRow(t, r - 1) ELSE t  BY <1>1 DEF MoveUp
    <1>3. MoveDown(t) = IF r < n - 1 THEN MoveToRow(t, r + 1) ELSE t  BY <1>1 DEF MoveDown, LastRow
    <1>4. r > 0 => r - 1 \in Nat /\ r - 1 < n  BY <1>1
    <1>5. r < n - 1 => r + 1 \in Nat /\ r + 1 < n  BY <1>1
    <1>6. r > 0 => BufferOK(MoveToRow(t, r - 1))  BY <1>1, <1>4, MoveToRowFine
    <1>7. r < n - 1 => BufferOK(MoveToRow(t, r + 1))  BY <1>1, <1>5, MoveToRowFine
    <1> QED  BY <1>2, <1>3, <1>6, <1>7

LEMMA MovedOrBroken ==
    ASSUME NEW t, BufferOK(t), NEW c \in Nat, c <= Len(t.lines[t.row + 1]), NEW b \in BOOLEAN,
           NEW u, u = [t EXCEPT !.col = c, !.ok = @ /\ b]
    PROVE  Fine(u)
    <1>1. IsBuffer(t) /\ t.ok = TRUE  BY DEF BufferOK, Sound
    <1>2. IsBuffer(u) /\ u.ok = b /\ u.lines = t.lines /\ u.anchor = t.anchor /\ u.row = t.row /\ u.col = c
        BY <1>1 DEF IsBuffer
    <1>3. CASE ~ b  BY <1>2, <1>3 DEF Fine, Broken
    <1>4. CASE b  BY <1>2, <1>4 DEF Fine, BufferOK, Sound, InPlace
    <1> QED  BY <1>3, <1>4

\* A cursor that moves stays in the text, or the line cannot be cut where it was.
LEMMA MoveLeftFine ==
    ASSUME NEW t, BufferOK(t) PROVE Fine(MoveLeft(t))
    <1>1. t.lines \in Pieces  BY DEF BufferOK, Sound
    <1>2. PICK r \in Nat, n \in Nat, c \in Nat : r = t.row /\ n = Len(t.lines) /\ r < n /\ c = t.col
        BY <1>1, PiecesLen DEF BufferOK, InPlace
    <1>3. PICK line \in Flat, m \in Nat : line = t.lines[r + 1] /\ m = Len(line) /\ Line(t, t.row) = line /\ c <= m
        <2>1. t.lines[r + 1] \in Flat /\ Len(t.lines[r + 1]) \in Nat  BY <1>1, <1>2, LineIs
        <2> QED  BY <1>2, <2>1 DEF Line, BufferOK, InPlace
    <1>4. Boundary(line, c) \in BOOLEAN  BY DEF Boundary
    <1>5. CASE c > 0
        <2>1. PICK p \in Nat : p = PrevBoundary(line, c) /\ p <= m
            <3>1. PrevBoundary(line, c) \in Nat /\ PrevBoundary(line, c) < c  BY <1>3, <1>5, PrevIs
            <3> QED  BY <1>3, <3>1
        <2>2. MoveLeft(t) = [t EXCEPT !.col = p, !.ok = @ /\ Boundary(line, c)]
            BY <1>2, <1>3, <1>5, <2>1 DEF MoveLeft
        <2> QED  BY <1>2, <1>3, <1>4, <2>1, <2>2, MovedOrBroken
    <1>6. CASE c = 0 /\ r > 0
        <2>1. PICK q \in Nat : q = r - 1 /\ q < n  BY <1>2, <1>6
        <2>2. PICK k \in Nat : k = Len(t.lines[q + 1])  BY <1>1, <1>2, <2>1, LineIs
        <2>3. MoveLeft(t) = [t EXCEPT !.row = q, !.col = k]  BY <1>2, <1>6, <2>1, <2>2 DEF MoveLeft, Line
        <2>4. k <= Len(t.lines[q + 1]) /\ q < Len(t.lines)  BY <1>2, <2>1, <2>2
        <2>5. BufferOK(MoveLeft(t))  BY <2>3, <2>4, MovedFine
        <2> QED  BY <2>5 DEF Fine
    <1>7. CASE c = 0 /\ r = 0  BY <1>2, <1>7 DEF MoveLeft, Fine
    <1> QED  BY <1>5, <1>6, <1>7

LEMMA MoveRightFine ==
    ASSUME NEW t, BufferOK(t) PROVE Fine(MoveRight(t))
    <1>1. t.lines \in Pieces  BY DEF BufferOK, Sound
    <1>2. PICK r \in Nat, n \in Nat, c \in Nat : r = t.row /\ n = Len(t.lines) /\ r < n /\ c = t.col
        BY <1>1, PiecesLen DEF BufferOK, InPlace
    <1>3. PICK line \in Flat, m \in Nat : line = t.lines[r + 1] /\ m = Len(line) /\ Line(t, t.row) = line /\ c <= m
        <2>1. t.lines[r + 1] \in Flat /\ Len(t.lines[r + 1]) \in Nat  BY <1>1, <1>2, LineIs
        <2> QED  BY <1>2, <2>1 DEF Line, BufferOK, InPlace
    <1>4. Boundary(line, c) \in BOOLEAN  BY DEF Boundary
    <1>5. CASE c < m
        <2>1. PICK p \in Nat : p = NextBoundary(line, c) /\ p <= m
            <3>1. NextBoundary(line, c) \in Nat /\ NextBoundary(line, c) <= Len(line)  BY <1>3, <1>5, NextIs
            <3> QED  BY <1>3, <3>1
        <2>2. MoveRight(t) = [t EXCEPT !.col = p, !.ok = @ /\ Boundary(line, c)]
            BY <1>2, <1>3, <1>5, <2>1 DEF MoveRight
        <2> QED  BY <1>2, <1>3, <1>4, <2>1, <2>2, MovedOrBroken
    <1>6. CASE ~ c < m /\ r < n - 1
        <2>1. PICK q \in Nat : q = r + 1 /\ q < n  BY <1>2, <1>6
        <2>2. PICK k \in Nat : k = Len(t.lines[q + 1])  BY <1>1, <1>2, <2>1, LineIs
        <2>3. MoveRight(t) = [t EXCEPT !.row = q, !.col = 0]  BY <1>2, <1>3, <1>6, <2>1 DEF MoveRight, LastRow
        <2>4. 0 <= k  OBVIOUS
        <2> QED  BY <1>2, <2>1, <2>2, <2>3, <2>4, MovedFine DEF Fine
    <1>7. CASE ~ c < m /\ ~ r < n - 1  BY <1>2, <1>3, <1>7 DEF MoveRight, LastRow, Fine
    <1> QED  BY <1>5, <1>6, <1>7

(***************************************************************************)
(* Indenting, and the lines that a click adds.                             *)
(***************************************************************************)
LEMMA IndentIs == Indent \in Flat /\ Indent \in Seq(Char)
    <1>1. IndentWidth \in Nat  BY TextInputAssumption
    <1>2. Indent \in Seq({Space})  BY <1>1 DEF Indent
    <1>3. {Space} \subseteq Char /\ {Space} \subseteq AnyByte  BY DEF Char, AnyByte, Byte
    <1>4. Indent \in Seq(Char) /\ Indent \in Seq(AnyByte)  BY <1>2, <1>3, SeqMonotonic
    <1>5. Whole(Indent)
        <2>1. \A i \in 1 .. Len(Indent) : Indent[i] = Space  BY <1>2
        <2>2. Space # More  BY NotWide
        <2> QED  BY <2>1, <2>2 DEF Whole
    <1> QED  BY <1>4, <1>5 DEF Flat

\* Outdenting takes spaces only, which are whole characters.
LEMMA SpacesIs ==
    ASSUME NEW l \in Flat
    PROVE  /\ Spaces(l) \in Nat /\ Spaces(l) <= Len(l) /\ After(l, Spaces(l)) \in Flat
           /\ Len(After(l, Spaces(l))) = Len(l) - Spaces(l)
    <1>1. PICK n \in Nat : n = Len(l) /\ DOMAIN l = 1 .. n  BY DEF Flat
    <1>2. PICK T : T = {i \in DOMAIN l : l[i] # Space}  OBVIOUS
    <1>3. PICK q \in Nat : /\ q = IF T = {} THEN Len(l) ELSE Min(T) - 1
                           /\ q <= n /\ \A j \in 1 .. q : l[j] = Space
        <2>1. CASE T = {}  BY <1>1, <1>2, <2>1
        <2>2. CASE T # {}
            <3>1. T \subseteq Nat  BY <1>1, <1>2
            <3>2. Min(T) \in T /\ \A y \in T : Min(T) <= y  BY <2>2, <3>1, MinIs
            <3>3. PICK m \in 1 .. n : m = Min(T)  BY <1>1, <1>2, <3>2
            <3>4. ASSUME NEW j \in 1 .. m - 1 PROVE l[j] = Space
                <4>1. ~ m <= j /\ j \in 1 .. n  OBVIOUS
                <4>2. j \notin T  BY <3>2, <3>3, <4>1
                <4> QED  BY <1>1, <1>2, <4>1, <4>2
            <3>5. m - 1 \in Nat /\ m - 1 <= n  OBVIOUS
            <3> QED  BY <2>2, <3>3, <3>4, <3>5
        <2> QED  BY <2>1, <2>2
    <1>4. PICK k \in Nat : k = Spaces(l) /\ k <= q
        <2>1. Spaces(l) = MinOf(IndentWidth, q)  BY <1>2, <1>3, Zenon DEF Spaces
        <2>2. IndentWidth \in Nat  BY TextInputAssumption
        <2> QED  BY <2>1, <2>2 DEF MinOf
    <1>5. Boundary(l, k)
        <2> SUFFICES ASSUME k \in 1 .. Len(l) - 1, l[k + 1] = More PROVE FALSE  BY <1>1, <1>3, <1>4 DEF Boundary
        <2>1. k + 1 \in 1 .. Len(l) /\ (k + 1) - 1 = k  BY <1>1
        <2>2. l[k] \in Wide  BY <2>1 DEF Flat, Whole
        <2>3. k \in 1 .. q  BY <1>4
        <2> QED  BY <1>3, <2>2, <2>3, NotWide
    <1>6. k <= Len(l)  BY <1>1, <1>3, <1>4
    <1>7. After(l, k) \in Flat /\ IsSlice(After(l, k), l, k, Len(l) - k)  BY <1>5, <1>6, LineSplit
    <1> QED  BY <1>4, <1>6, <1>7 DEF IsSlice

\* Cursor and anchor follow the lines that are indented.
LEMMA IndentFine ==
    ASSUME NEW t, BufferOK(t) PROVE BufferOK(IndentSelection(t))
    <1>1. IsBuffer(t) /\ t.ok = TRUE /\ t.anchor \in Anchors /\ t.lines \in Pieces /\ Len(t.lines) > 0
          /\ t.row \in Nat /\ t.col \in Nat
        BY DEF BufferOK, Sound, InPlace
    <1>2. PICK rows : rows = SelectedRows(t)  OBVIOUS
    <1>3. PICK ls : ls = [i \in DOMAIN t.lines |-> IF i - 1 \in rows THEN Indent \o t.lines[i] ELSE t.lines[i]]
        OBVIOUS
    <1>4. ls \in Pieces /\ Len(ls) = Len(t.lines)
        <2>1. PICK n \in Nat : n = Len(t.lines) /\ DOMAIN t.lines = 1 .. n  BY <1>1 DEF Pieces
        <2>2. ASSUME NEW i \in 1 .. n
              PROVE  (IF i - 1 \in rows THEN Indent \o t.lines[i] ELSE t.lines[i]) \in Flat
            <3>1. t.lines[i] \in Flat  BY <1>1, <2>1 DEF Pieces
            <3>2. Indent ++ t.lines[i] \in Flat  BY <3>1, IndentIs, FlatLaws
            <3> QED  BY <3>1, <3>2 DEF ++
        <2>3. ls \in [1 .. n -> Flat]  BY <1>3, <2>1, <2>2
        <2>4. ls \in Seq(Flat) /\ Len(ls) = n  BY <2>3
        <2> QED  BY <2>1, <2>4 DEF Pieces
    <1>5. PICK a : a = IF t.anchor.row \in rows THEN [t.anchor EXCEPT !.col = @ + IndentWidth] ELSE t.anchor
        OBVIOUS
    <1>6. PICK p : p = IF Pos(t.row, t.col).row \in rows
                       THEN [Pos(t.row, t.col) EXCEPT !.col = @ + IndentWidth] ELSE Pos(t.row, t.col)
        OBVIOUS
    <1>7. IndentWidth \in Nat  BY TextInputAssumption
    <1>8. a \in Anchors  BY <1>1, <1>5, <1>7 DEF Anchors
    <1>9. IsPos(p)  BY <1>1, <1>6, <1>7 DEF IsPos, Pos
    <1>10. PICK u : u = [t EXCEPT !.lines = ls, !.anchor = a]  OBVIOUS
    <1>11. IsBuffer(u) /\ u.ok = TRUE /\ u.lines = ls /\ u.anchor = a  BY <1>1, <1>10 DEF IsBuffer
    <1>12. Sound(u)  BY <1>1, <1>4, <1>8, <1>11 DEF Sound
    <1>13. IndentSelection(t) = SetCursor(u, p)
        BY <1>2, <1>3, <1>5, <1>6, <1>10, Zenon DEF IndentSelection
    <1> QED  BY <1>9, <1>12, <1>13, SetCursorFine

LEMMA InsertTabFine ==
    ASSUME NEW t, BufferOK(t) PROVE Fine(InsertTab(t))
    <1>1. BufferOK(IndentSelection(t))  BY IndentFine
    <1>2. Fine(t)  BY DEF Fine
    <1>3. Fine(InsertText(t, Indent))  BY <1>2, IndentIs, InsertTextFine
    <1>4. InsertTab(t) = IndentSelection(t) \/ InsertTab(t) = InsertText(t, Indent)  BY DEF InsertTab
    <1> QED  BY <1>1, <1>3, <1>4 DEF Fine

LEMMA EnsureFine ==
    ASSUME NEW t, BufferOK(t), NEW n \in Nat PROVE BufferOK(EnsureLines(t, n))
    <1>1. IsBuffer(t) /\ t.ok = TRUE /\ t.anchor \in Anchors /\ t.lines \in Pieces  BY DEF BufferOK, Sound
    <1>2. PICK m \in Nat, r \in Nat : m = Len(t.lines) /\ r = t.row /\ r < m
        BY <1>1, PiecesLen DEF BufferOK, InPlace
    <1>3. PICK k \in Nat : k = Minus(n, Len(t.lines))
        <2>1. Minus(n, m) \in Nat  BY DEF Minus
        <2> QED  BY <1>2, <2>1
    <1>4. PICK e : e = [i \in 1 .. k |-> <<>>]  OBVIOUS
    <1>5. e \in Seq(Flat) /\ Len(e) = k  BY <1>4, FlatLaws
    <1>6. PICK ls \in Seq(Flat) : ls = t.lines \o e /\ Len(ls) = m + k /\ \A i \in 1 .. m : ls[i] = t.lines[i]
        <2>1. PICK x \in Seq(Flat) : x = t.lines /\ Len(x) = m  BY <1>1, <1>2 DEF Pieces
        <2>2. x \o e \in Seq(Flat) /\ Len(x \o e) = m + k  BY <1>5, <2>1, ConcatProperties
        <2>3. \A i \in 1 .. m : (x \o e)[i] = x[i]  BY <1>5, <2>1, ConcatProperties
        <2> QED  BY <2>1, <2>2, <2>3
    <1>7. PICK u : u = [t EXCEPT !.lines = ls]  OBVIOUS
    <1>8. EnsureLines(t, n) = u  BY <1>3, <1>4, <1>6, <1>7, Zenon DEF EnsureLines
    <1>9. IsBuffer(u) /\ u.ok = TRUE /\ u.lines = ls /\ u.anchor = t.anchor /\ u.row = t.row /\ u.col = t.col
        BY <1>1, <1>7 DEF IsBuffer
    <1>10. ls \in Pieces /\ Len(ls) > 0 /\ r < Len(ls) /\ ls[r + 1] = t.lines[r + 1]
        <2>1. r + 1 \in 1 .. m  BY <1>2
        <2> QED  BY <1>2, <1>6, <2>1 DEF Pieces
    <1> QED  BY <1>1, <1>2, <1>8, <1>9, <1>10 DEF BufferOK, Sound, InPlace

LEMMA AfterNone == \A l \in Flat : After(l, 0) = l
    BY SubSeqFull DEF After, Flat

LEMMA SelectedRowsIs ==
    ASSUME NEW t, BufferOK(t), NEW r \in SelectedRows(t)
    PROVE  r \in Nat /\ r < Len(t.lines)
    <1>1. PICK s, e : /\ SelectionRange(t) = [start |-> s, end |-> e] /\ IsPos(s) /\ IsPos(e)
        BY RangeIs
    <1>2. PICK n \in Nat : n = Len(t.lines) /\ n > 0  BY PiecesLen DEF BufferOK, Sound
    <1>3. PICK x \in Nat, y \in Nat : x = s.row /\ y = e.row  BY <1>1 DEF IsPos
    <1>4. SelectionRange(t).start.row = x /\ SelectionRange(t).end.row = y  BY <1>1, <1>3
    <1>5. SelectedRows(t) = x .. MinOf(y, n - 1)  BY <1>2, <1>4 DEF SelectedRows, LastRow
    <1> QED  BY <1>2, <1>5 DEF MinOf

Clip(a, b) == Minus(a, b) \in Nat /\ (\A m \in Nat : b <= m /\ a <= m => Minus(a, b) <= m - b)

LEMMA MinusIs == \A a, b \in Nat : Clip(a, b)
    BY DEF Minus, Clip

\* Cursor and anchor follow the lines that are outdented.
LEMMA OutdentFine ==
    ASSUME NEW t, BufferOK(t) PROVE BufferOK(Outdent(t))
    <1>1. IsBuffer(t) /\ t.ok = TRUE /\ t.anchor \in Anchors /\ t.lines \in Pieces
          /\ t.row \in Nat /\ t.col \in Nat /\ t.row < Len(t.lines)
        BY DEF BufferOK, Sound, InPlace
    <1>2. PICK rows : rows = IF HasSelection(t) THEN SelectedRows(t) ELSE {t.row}  OBVIOUS
    <1>3. \A r \in rows : r \in Nat /\ r < Len(t.lines)  BY <1>1, <1>2, SelectedRowsIs
    <1> DEFINE gone(r) == IF r \in rows THEN Spaces(Line(t, r)) ELSE 0
               Gone(r) == /\ gone(r) \in Nat /\ gone(r) <= Len(t.lines[r + 1])
                          /\ After(t.lines[r + 1], gone(r)) \in Flat
                          /\ Len(After(t.lines[r + 1], gone(r))) = Len(t.lines[r + 1]) - gone(r)
    <1>4. ASSUME NEW r \in Nat, r < Len(t.lines) PROVE Gone(r)
        <2>1. PICK l \in Flat, m \in Nat : l = t.lines[r + 1] /\ m = Len(l)  BY <1>1, <1>4, LineIs
        <2>2. Line(t, r) = l  BY <2>1 DEF Line
        <2>3. CASE r \in rows
            <3>1. gone(r) = Spaces(l)  BY <2>2, <2>3
            <3> HIDE DEF gone
            <3> QED  BY <2>1, <3>1, SpacesIs
        <2>4. CASE r \notin rows
            <3>1. gone(r) = 0  BY <2>4
            <3>2. After(l, 0) = l /\ 0 <= m /\ m = m - 0  BY AfterNone
            <3> HIDE DEF gone
            <3> QED  BY <2>1, <3>1, <3>2
        <2> QED  BY <2>3, <2>4
    <1>5. PICK ls : ls = [i \in DOMAIN t.lines |-> After(t.lines[i], gone(i - 1))]  OBVIOUS
    <1>6. ASSUME NEW r \in Nat, r \in rows PROVE gone(r) \in Nat
        BY <1>3, <1>4, <1>6
    <1>7. \A pos : pos.row \notin rows => gone(pos.row) = 0  OBVIOUS
    <1>8. PICK a : a = IF t.anchor.row \in rows
                       THEN [t.anchor EXCEPT !.col = Minus(@, gone(t.anchor.row))] ELSE t.anchor
        OBVIOUS
    <1>9. PICK p : p = IF Pos(t.row, t.col).row \in rows
                       THEN [Pos(t.row, t.col) EXCEPT !.col = Minus(@, gone(Pos(t.row, t.col).row))]
                       ELSE Pos(t.row, t.col)
        OBVIOUS
    <1>10. PICK cut : cut = [t EXCEPT !.lines = ls]  OBVIOUS
    <1>11. PICK u : u = [cut EXCEPT !.anchor = a]  OBVIOUS
    <1>12. PICK v : v = [cut EXCEPT !.col = Minus(@, gone(t.row))]  OBVIOUS
    <1>13. Outdent(t) = SetCursor(u, p) \/ Outdent(t) = v
        BY <1>2, <1>5, <1>8, <1>9, <1>10, <1>11, <1>12, Zenon DEF Outdent
    <1>14. ls \in Pieces /\ Len(ls) = Len(t.lines)
           /\ \A r \in Nat : r < Len(t.lines) => ls[r + 1] = After(t.lines[r + 1], gone(r))
        <2>1. PICK n \in Nat : n = Len(t.lines) /\ DOMAIN t.lines = 1 .. n  BY <1>1 DEF Pieces
        <2>2. ASSUME NEW i \in 1 .. n PROVE After(t.lines[i], gone(i - 1)) \in Flat
            <3>1. PICK r \in Nat : r = i - 1 /\ r < Len(t.lines) /\ r + 1 = i  BY <2>1
            <3> HIDE DEF gone
            <3> QED  BY <1>4, <3>1
        <2> HIDE DEF gone
        <2>3. ls \in [1 .. n -> Flat]  BY <1>5, <2>1, <2>2
        <2>4. ls \in Seq(Flat) /\ Len(ls) = n  BY <2>3
        <2>5. ASSUME NEW r \in Nat, r < n PROVE ls[r + 1] = After(t.lines[r + 1], gone(r))
            <3>1. r + 1 \in 1 .. n /\ (r + 1) - 1 = r  BY <2>5
            <3> QED  BY <1>5, <2>1, <3>1
        <2> QED  BY <2>1, <2>4, <2>5 DEF Pieces
    <1>15. a \in Anchors
        <2>1. t.anchor.row \in rows => Minus(t.anchor.col, gone(t.anchor.row)) \in Nat
            <3>1. t.anchor.row \in Nat /\ t.anchor.col \in Nat  BY <1>1 DEF Anchors
            <3> HIDE DEF gone
            <3> QED  BY <1>6, <3>1, MinusIs DEF Clip
        <2> HIDE DEF gone
        <2> QED  BY <1>1, <1>8, <2>1 DEF Anchors
    <1>16. IsPos(p)
        <2>1. Pos(t.row, t.col).row = t.row /\ Pos(t.row, t.col).col = t.col  BY PosIs
        <2>2. t.row \in rows => Minus(t.col, gone(t.row)) \in Nat
            <3> HIDE DEF gone
            <3> QED  BY <1>1, <1>6, MinusIs DEF Clip
        <2> HIDE DEF gone
        <2>3. p = IF t.row \in rows THEN [Pos(t.row, t.col) EXCEPT !.col = Minus(@, gone(t.row))] ELSE Pos(t.row, t.col)
            BY <1>9, <2>1, Zenon
        <2> QED  BY <1>1, <2>2, <2>3 DEF IsPos, Pos
    <1>17. BufferOK(SetCursor(u, p))
        <2>1. IsBuffer(u) /\ u.ok = TRUE /\ u.lines = ls /\ u.anchor = a  BY <1>1, <1>10, <1>11 DEF IsBuffer
        <2>2. Len(ls) > 0  BY <1>1, <1>14, PiecesLen
        <2>3. Sound(u)  BY <1>14, <1>15, <2>1, <2>2 DEF Sound
        <2> QED  BY <1>16, <2>3, SetCursorFine
    <1>18. BufferOK(v)
        <2>1. PICK g \in Nat : g = gone(t.row) /\ g <= Len(t.lines[t.row + 1])
                               /\ Len(After(t.lines[t.row + 1], g)) = Len(t.lines[t.row + 1]) - g
            <3> HIDE DEF gone
            <3> QED  BY <1>1, <1>4
        <2>2. PICK m \in Nat : m = Len(t.lines[t.row + 1]) /\ t.col <= m  BY <1>1, LineIs DEF BufferOK, InPlace
        <2>3. PICK c \in Nat : c = Minus(t.col, g) /\ c <= m - g
            <3>1. Clip(t.col, g)  BY <1>1, MinusIs
            <3> QED  BY <1>1, <2>1, <2>2, <3>1 DEF Clip
        <2>4. v = [t EXCEPT !.lines = ls, !.col = c]
            <3> HIDE DEF gone
            <3>1. cut.col = t.col  BY <1>1, <1>10 DEF IsBuffer
            <3> QED  BY <1>1, <1>10, <1>12, <2>1, <2>3, <3>1 DEF IsBuffer
        <2>5. IsBuffer(v) /\ v.ok = TRUE /\ v.lines = ls /\ v.anchor = t.anchor /\ v.row = t.row /\ v.col = c
            BY <1>1, <2>4 DEF IsBuffer
        <2>6. ls[t.row + 1] = After(t.lines[t.row + 1], g)
            <3> HIDE DEF gone
            <3> QED  BY <1>1, <1>14, <2>1
        <2>7. c <= Len(ls[t.row + 1])  BY <2>1, <2>2, <2>3, <2>6
        <2>8. Len(ls) > 0 /\ t.row < Len(ls)  BY <1>1, <1>14, PiecesLen
        <2> QED  BY <1>1, <1>14, <2>5, <2>7, <2>8 DEF BufferOK, Sound, InPlace
    <1> QED  BY <1>13, <1>17, <1>18

(***************************************************************************)
(* Completions.                                                            *)
(***************************************************************************)
\* The cursor's line, with a part of it replaced.
Replaced(t, start, end, with, u) ==
    /\ BufferOK(u) /\ At2(u)
    /\ PreT(u) = Pre(t.lines, t.row, start) ++ with
    /\ PostT(u) = Post(t.lines, t.row, end)

\* What a completion puts in the line stands before the cursor.
LEMMA ReplaceInLineIs ==
    ASSUME NEW t, BufferOK(t), NEW start \in Nat, NEW end \in Nat, NEW with \in Flat
    PROVE  IF Boundary(t.lines[t.row + 1], start) /\ Boundary(t.lines[t.row + 1], end)
           THEN Replaced(t, start, end, with, ReplaceInLine(t, start, end, with))
           ELSE Broken(ReplaceInLine(t, start, end, with))
    <1>1. IsBuffer(t) /\ t.ok = TRUE /\ t.lines \in Pieces /\ InPlace(t)  BY DEF BufferOK, Sound
    <1>2. PICK line, r : line = t.lines[r + 1] /\ r = t.row  OBVIOUS
    <1>3. r \in Nat /\ r < Len(t.lines)  BY <1>1, <1>2 DEF InPlace
    <1>4. line \in Flat /\ Len(line) \in Nat /\ Line(t, t.row) = line  BY <1>1, <1>2, <1>3, LineIs DEF Line
    <1>5. PICK l : l = Before(line, start) \o with \o After(line, end)  OBVIOUS
    <1>6. PICK ls : ls = [t.lines EXCEPT ![r + 1] = l]  OBVIOUS
    <1>7. PICK k \in Nat : k = Len(with)  BY FlatLen
    <1>8. PICK cuts \in BOOLEAN : cuts = (end <= Len(line) /\ Boundary(line, start) /\ Boundary(line, end))
        BY DEF Boundary
    <1>9. PICK u : u = [t EXCEPT !.lines = ls, !.col = start + k, !.anchor = NoAnchor, !.ok = @ /\ cuts]
        OBVIOUS
    <1>10. ReplaceInLine(t, start, end, with) = u
        <2>1. [t EXCEPT !.lines[t.row + 1] = l, !.col = start + k, !.anchor = NoAnchor,
                        !.ok = @ /\ end <= Len(line) /\ Boundary(line, start) /\ Boundary(line, end)] = u
            <3>1. (t.ok /\ end <= Len(line) /\ Boundary(line, start) /\ Boundary(line, end)) = (t.ok /\ cuts)
                BY <1>8
            <3> QED  BY <1>2, <1>6, <1>9, <3>1
        <2> QED  BY <1>4, <1>5, <1>7, <2>1, Zenon DEF ReplaceInLine
    <1>11. IsBuffer(u) /\ u.lines = ls /\ u.row = r /\ u.col = start + k /\ u.anchor = NoAnchor /\ u.ok = cuts
        BY <1>1, <1>2, <1>9 DEF IsBuffer
    <1>12. cuts <=> Boundary(line, start) /\ Boundary(line, end)  BY <1>8 DEF Boundary
    <1>13. CASE ~ cuts
        <2>1. Broken(u)  BY <1>11, <1>13 DEF Broken
        <2> QED  BY <1>2, <1>10, <1>12, <1>13, <2>1
    <1>14. CASE cuts
        <2>1. Place(t.lines, r, start) /\ Place(t.lines, r, end)
            BY <1>1, <1>2, <1>3, <1>12, <1>14 DEF Place, Boundary
        <2>2. PICK X \in Pieces, b \in Flat, a \in Flat, Y \in Pieces : IsPlace(t.lines, r, start, X, b, a, Y)
            BY <2>1, PlaceIs
        <2>3. PICK V \in Pieces, d \in Flat, e \in Flat, W \in Pieces : IsPlace(t.lines, r, end, V, d, e, W)
            BY <2>1, PlaceIs
        <2>4. X = SubSeq(t.lines, 1, r) /\ Len(X) = r /\ b = Before(line, start) /\ Len(b) = start
              /\ Pre(t.lines, r, start) = Ended(X) ++ b
            BY <1>2, <2>2, Zenon DEF IsPlace
        <2>5. W = SubSeq(t.lines, r + 2, Len(t.lines)) /\ e = After(line, end)
              /\ Post(t.lines, r, end) = e ++ Led(W)
            BY <1>2, <2>3, Zenon DEF IsPlace
        <2>6. PICK c \in Flat : c = b ++ with /\ Len(c) = start + k
            <3>1. b ++ with \in Flat  BY FlatLaws
            <3>2. Len(b ++ with) = Len(b) + Len(with)  BY CutAt
            <3> QED  BY <1>7, <2>4, <3>1, <3>2
        <2>7. l = c ++ e /\ l \in Flat  BY <1>5, <2>4, <2>5, <2>6, FlatLaws DEF ++
        <2>8. ls = X ++ (<<c ++ e>> ++ W)  BY <1>1, <1>3, <1>6, <2>4, <2>5, <2>7, LineReplaced
        <2>9. Made(ls, r, start + k, X, c, e, W)  BY <2>4, <2>6, <2>8, MadeIs, Zenon
        <2>10. Place(ls, r, start + k) /\ Pre(ls, r, start + k) = Ended(X) ++ c /\ Post(ls, r, start + k) = e ++ Led(W)
            BY <2>9 DEF Made
        <2>11. BufferOK(u) /\ At2(u)
            <3>1. NoAnchor \in Anchors  BY DEF NoAnchor, Anchors
            <3> QED  BY <1>11, <1>14, <2>10, <3>1, PlacedFine
        <2>12. Ended(X) ++ c = (Ended(X) ++ b) ++ with
            <3>1. PICK x \in Flat : x = Ended(X)  BY EndedLaws
            <3> QED  BY <2>6, <3>1, FlatLaws
        <2>13. Replaced(t, start, end, with, u)
            BY <1>2, <1>11, <2>4, <2>5, <2>10, <2>11, <2>12, Zenon DEF Replaced, PreT, PostT
        <2> QED  BY <1>2, <1>10, <1>12, <1>14, <2>13
    <1> QED  BY <1>13, <1>14

(***************************************************************************)
(* The components of a line: a scan from its start, which counts quotes.   *)
(***************************************************************************)
Kept(scan, b) ==
    IF b = Quote THEN IF scan = "open" THEN "closed" ELSE "open"
    ELSE IF scan = "open" THEN "open"
    ELSE IF IdentifierByte(b) THEN "word" ELSE "none"

Scans(f, line) ==
    f = [n \in 0 .. Len(line) |->
           IF n = 0 THEN "none"
           ELSE IF line[n] = Quote
           THEN IF f[n - 1] = "open" THEN "closed" ELSE "open"
           ELSE IF f[n - 1] = "open" THEN "open"
           ELSE IF IdentifierByte(line[n]) THEN "word" ELSE "none"]

LEMMA ScanDef == \A l : Scan(l) = CHOOSE f : Scans(f, l)
    BY DEF Scan, Scans

\* The recursive function of Scan exists.
LEMMA ScanIs ==
    ASSUME NEW l \in Flat
    PROVE  /\ Scan(l)[0] = "none"
           /\ \A n \in Nat : n < Len(l) => Scan(l)[n + 1] = Kept(Scan(l)[n], l[n + 1])
    <1>1. PICK N \in Nat : N = Len(l)  BY FlatLen
    <1> DEFINE T == {"none", "word", "open", "closed"}
               step == [p \in Nat \X T |-> Kept(p[2], l[p[1] + 1])]
    <1>2. step \in [Nat \X T -> T]
        <2>1. \A x, b : Kept(x, b) \in T  BY DEF Kept
        <2> HIDE DEF T
        <2> QED  BY <2>1
    <1>3. "none" \in T  OBVIOUS
    <1>4. \A n \in Nat, x \in T : step[<<n, x>>] = Kept(x, l[n + 1])
        <2> HIDE DEF T
        <2> QED  OBVIOUS
    <1> HIDE DEF T, step
    <1>5. PICK f \in [Nat -> T] : \A n \in Nat : Recurs(f, n, "none", step)  BY <1>2, <1>3, Recursion
    <1> DEFINE g == [n \in 0 .. N |-> f[n]]
               body(h, n) == IF n = 0 THEN "none" ELSE Kept(h[n - 1], l[n])
    <1>6. ASSUME NEW n \in 0 .. N PROVE f[n] = body(g, n)
        <2>1. CASE n = 0
            <3>1. f[0] = "none"  BY <1>5 DEF Recurs
            <3> QED  BY <2>1, <3>1
        <2>2. CASE n # 0
            <3>1. n - 1 \in Nat /\ n - 1 \in 0 .. n - 1 /\ n - 1 \in 0 .. N /\ (n - 1) + 1 = n /\ n \in Nat
                BY <2>2
            <3>2. f[n] = step[<<n - 1, f[n - 1]>>]  BY <1>5, <3>1 DEF Recurs
            <3>3. f[n - 1] \in T /\ g[n - 1] = f[n - 1]  BY <3>1
            <3>4. f[n] = Kept(f[n - 1], l[n])  BY <1>4, <3>1, <3>2, <3>3
            <3> QED  BY <2>2, <3>3, <3>4
        <2> QED  BY <2>1, <2>2
    <1> HIDE DEF body
    <1>7. g = [n \in 0 .. N |-> body(g, n)]  BY <1>6
    <1> HIDE DEF g
    <1>8. Scans(g, l)  BY <1>1, <1>7 DEF Scans, body, Kept
    <1>9. PICK h : h = Scan(l) /\ Scans(h, l)  BY <1>8, ScanDef, Zenon
    <1>10. h = [n \in 0 .. N |-> body(h, n)]  BY <1>1, <1>9 DEF Scans, body, Kept
    <1>11. h[0] = "none"  BY <1>10 DEF body
    <1>12. ASSUME NEW n \in Nat, n < Len(l) PROVE h[n + 1] = Kept(h[n], l[n + 1])
        <2>1. n + 1 \in 0 .. N /\ n + 1 # 0 /\ (n + 1) - 1 = n  BY <1>1, <1>12
        <2>2. h[n + 1] = body(h, n + 1)  BY <1>10, <2>1
        <2> QED  BY <2>1, <2>2 DEF body
    <1> QED  BY <1>9, <1>11, <1>12

Quotes(l, n) == {i \in 1 .. n : l[i] = Quote}

\* One byte more changes the parity of the quotes when it is one.
LEMMA OddStep ==
    ASSUME NEW l, NEW n \in Nat
    PROVE  /\ ~ Odd(l, 0)
           /\ Odd(l, n + 1) <=> IF l[n + 1] = Quote THEN ~ Odd(l, n) ELSE Odd(l, n)
    <1>1. ~ Odd(l, 0)
        <2>1. {i \in 1 .. 0 : l[i] = Quote} = {}  OBVIOUS
        <2>2. Cardinality({}) = 0  BY FS_EmptySet
        <2>3. 0 % 2 # 1  OBVIOUS
        <2> QED  BY <2>1, <2>2, <2>3 DEF Odd
    <1>2. IsFiniteSet(Quotes(l, n)) /\ n + 1 \notin Quotes(l, n)
        <2>1. IsFiniteSet(1 .. n) /\ Quotes(l, n) \subseteq 1 .. n  BY FS_Interval DEF Quotes
        <2>2. IsFiniteSet(Quotes(l, n))  BY <2>1, FS_Subset
        <2>3. n + 1 \notin 1 .. n  OBVIOUS
        <2> QED  BY <2>1, <2>2, <2>3
    <1>3. PICK c \in Nat : c = Cardinality(Quotes(l, n))  BY <1>2, FS_CardinalityType
    <1>4. Odd(l, n) <=> c % 2 = 1  BY <1>3, Zenon DEF Odd, Quotes
    <1>5. Odd(l, n + 1) <=> Cardinality(Quotes(l, n + 1)) % 2 = 1  BY Zenon DEF Odd, Quotes
    <1>6. 1 .. n + 1 = (1 .. n) \cup {n + 1}  OBVIOUS
    <1>7. CASE l[n + 1] = Quote
        <2>1. Quotes(l, n + 1) = Quotes(l, n) \cup {n + 1}  BY <1>6, <1>7 DEF Quotes
        <2>2. Cardinality(Quotes(l, n + 1)) = c + 1  BY <1>2, <1>3, <2>1, FS_AddElement
        <2>3. (c + 1) % 2 = 1 <=> ~ c % 2 = 1  OBVIOUS
        <2> QED  BY <1>1, <1>4, <1>5, <1>7, <2>2, <2>3
    <1>8. CASE l[n + 1] # Quote
        <2>1. Quotes(l, n + 1) = Quotes(l, n)  BY <1>6, <1>8 DEF Quotes
        <2> QED  BY <1>1, <1>3, <1>4, <1>5, <1>8, <2>1
    <1> QED  BY <1>7, <1>8

\* The scan counts the quotes.
Counted(l, n) ==
    /\ Scan(l)[n] = "open" <=> Odd(l, n)
    /\ n > 0 => /\ Scan(l)[n] = "closed" <=> l[n] = Quote /\ ~ Odd(l, n)
                /\ Scan(l)[n] = "word" <=> l[n] # Quote /\ ~ Odd(l, n) /\ IdentifierByte(l[n])
                /\ Scan(l)[n] \in {"open", "closed", "word", "none"}

LEMMA ScanCounts ==
    ASSUME NEW l \in Flat, NEW n \in 0 .. Len(l)
    PROVE  Counted(l, n)
    <1>1. PICK N \in Nat : N = Len(l)  BY FlatLen
    <1> DEFINE S == {m \in Nat : m <= N => Counted(l, m)}
    <1>2. 0 \in S
        <2>1. Scan(l)[0] = "none" /\ ~ Odd(l, 0)  BY ScanIs, OddStep, 0 \in Nat
        <2> QED  BY <2>1 DEF Counted
    <1>3. ASSUME NEW m \in Nat, m \in S PROVE m + 1 \in S
        <2> SUFFICES ASSUME m + 1 <= N PROVE Counted(l, m + 1)  OBVIOUS
        <2>1. m < N /\ m <= N /\ m + 1 > 0  OBVIOUS
        <2>2. Scan(l)[m] = "open" <=> Odd(l, m)  BY <1>3, <2>1 DEF Counted
        <2>3. Scan(l)[m + 1] = Kept(Scan(l)[m], l[m + 1])  BY <1>1, <2>1, ScanIs
        <2>4. Odd(l, m + 1) <=> IF l[m + 1] = Quote THEN ~ Odd(l, m) ELSE Odd(l, m)  BY OddStep
        <2>5. PICK x : x = Scan(l)[m + 1] /\ x = Kept(Scan(l)[m], l[m + 1])  BY <2>3
        <2>6. x = "open" <=> Odd(l, m + 1)  BY <2>2, <2>4, <2>5 DEF Kept
        <2>7. /\ x = "closed" <=> l[m + 1] = Quote /\ ~ Odd(l, m + 1)
              /\ x = "word" <=> l[m + 1] # Quote /\ ~ Odd(l, m + 1) /\ IdentifierByte(l[m + 1])
              /\ x \in {"open", "closed", "word", "none"}
            BY <2>2, <2>4, <2>5 DEF Kept
        <2> QED  BY <2>5, <2>6, <2>7, Zenon DEF Counted
    <1> HIDE DEF S
    <1>4. Nat \subseteq S  BY <1>2, <1>3, Induction
    <1> QED  BY <1>1, <1>4 DEF S

\* So every byte is of the part that the reference says.
LEMMA PartsAre ==
    ASSUME NEW l \in Flat
    PROVE  DOMAIN Parts(l) = 1 .. Len(l) /\ \A n \in 1 .. Len(l) : Parts(l)[n] = PartAt(l, n)
    <1>1. PICK N \in Nat : N = Len(l) /\ DOMAIN l = 1 .. N  BY DEF Flat
    <1>2. ASSUME NEW n \in 1 .. N
          PROVE  (IF Scan(l)[n] \in {"open", "closed"} THEN "quoted" ELSE Scan(l)[n]) = PartAt(l, n)
        <2>1. Counted(l, n) /\ n > 0  BY <1>1, ScanCounts
        <2> QED  BY <2>1 DEF Counted, PartAt
    <1>3. PICK x : x = Scan(l)  OBVIOUS
    <1>4. Parts(l) = [n \in 1 .. N |-> IF x[n] \in {"open", "closed"} THEN "quoted" ELSE x[n]]
        BY <1>1, <1>3, Zenon DEF Parts
    <1> QED  BY <1>1, <1>2, <1>3, <1>4

\* Both bytes of a character are of one part, and of one that counts.
LEMMA PartOfMore ==
    ASSUME NEW l \in Flat, NEW n \in Nat, n + 1 \in 1 .. Len(l), l[n + 1] = More
    PROVE  n \in 1 .. Len(l) /\ PartAt(l, n) = PartAt(l, n + 1) /\ PartAt(l, n) # "none"
    <1>1. (n + 1) - 1 = n  OBVIOUS
    <1>2. n + 1 > 1 /\ l[n] \in Wide  BY <1>1 DEF Flat, Whole
    <1>3. n \in 1 .. Len(l)  BY <1>2, FlatLen
    <1>4. More # Quote /\ l[n] # Quote /\ IdentifierByte(l[n]) /\ IdentifierByte(More)
        BY <1>2, TextInputAssumption, SqlEditorAssumption DEF IdentifierByte, More, Quote
    <1>5. Odd(l, n + 1) <=> Odd(l, n)  BY <1>4, OddStep
    <1> QED  BY <1>3, <1>4, <1>5 DEF PartAt

(***************************************************************************)
(* The component around byte i of a line.                                  *)
(***************************************************************************)
Run(l, v, j, k) == \A n \in j .. k : PartAt(l, n) = v

Word(l, v, i, s, e) ==
    /\ s \in 1 .. i /\ e \in i .. Len(l) /\ Run(l, v, s, e)
    /\ s = 1 \/ PartAt(l, s - 1) # v
    /\ e = Len(l) \/ PartAt(l, e + 1) # v

LEMMA ComponentIs ==
    ASSUME NEW l \in Flat, NEW i \in 1 .. Len(l), NEW v, v = PartAt(l, i)
    PROVE  \A j : j \in Component(l, i) <=> /\ j \in 1 .. Len(l) /\ v # "none"
                                            /\ j <= i => Run(l, v, j, i)
                                            /\ ~ j <= i => Run(l, v, i, j)
    <1>1. PICK n \in Nat : n = Len(l) /\ DOMAIN l = 1 .. n  BY DEF Flat
    <1>2. PICK p : p = Parts(l)  OBVIOUS
    <1>3. (\A j \in 1 .. n : p[j] = PartAt(l, j)) /\ p[i] = v  BY <1>1, <1>2, PartsAre
    <1>4. Component(l, i) = {j \in 1 .. n : p[i] # "none" /\ IF j <= i THEN \A k \in j .. i : p[k] = p[i]
                                                           ELSE \A k \in i .. j : p[k] = p[i]}
        BY <1>1, <1>2, Zenon DEF Component
    <1>5. ASSUME NEW j \in 1 .. n
          PROVE  /\ (\A k \in j .. i : p[k] = p[i]) <=> Run(l, v, j, i)
                 /\ (\A k \in i .. j : p[k] = p[i]) <=> Run(l, v, i, j)
        <2>1. j .. i \subseteq 1 .. n /\ i .. j \subseteq 1 .. n  BY <1>1
        <2> QED  BY <1>3, <2>1 DEF Run
    <1> QED  BY <1>1, <1>3, <1>4, <1>5

\* The bytes between those of other parts, from boundary to boundary.
LEMMA WordIs ==
    ASSUME NEW l \in Flat, NEW i \in 1 .. Len(l), NEW v, v = PartAt(l, i), v # "none",
           NEW whole, whole = Component(l, i)
    PROVE  \E s, e : /\ s = CHOOSE j \in whole : j - 1 \notin whole
                     /\ e = CHOOSE j \in whole : j + 1 \notin whole
                     /\ Word(l, v, i, s, e) /\ Boundary(l, s - 1) /\ Boundary(l, e)
    <1>1. PICK n \in Nat : n = Len(l) /\ DOMAIN l = 1 .. n  BY DEF Flat
    <1>3. \A j : j \in whole <=> /\ j \in 1 .. n
                                 /\ j <= i => Run(l, v, j, i)
                                 /\ ~ j <= i => Run(l, v, i, j)
        BY <1>1, ComponentIs
    <1>4. i \in whole  BY <1>1, <1>3 DEF Run
    <1>5. PICK s : s \in whole /\ s - 1 \notin whole /\ s = CHOOSE j \in whole : j - 1 \notin whole
        <2>1. PICK m \in whole : \A j \in whole : m <= j
            <3>1. whole \subseteq Nat /\ whole # {}  BY <1>3, <1>4
            <3> QED  BY <3>1, Least
        <2>2. m \in Nat /\ ~ m <= m - 1  BY <1>3
        <2>3. m - 1 \notin whole  BY <2>1, <2>2
        <2> QED  BY <2>3, Zenon
    <1>6. PICK e : e \in whole /\ e + 1 \notin whole /\ e = CHOOSE j \in whole : j + 1 \notin whole
        <2>1. PICK m \in whole : \A j \in whole : j <= m
            <3>1. whole \subseteq 0 .. n /\ whole # {}  BY <1>3, <1>4
            <3> QED  BY <3>1, MaxIs
        <2>2. m \in Nat /\ ~ m + 1 <= m  BY <1>3
        <2>3. m + 1 \notin whole  BY <2>1, <2>2
        <2> QED  BY <2>3, Zenon
    <1>7. s \in 1 .. i /\ Run(l, v, s, i) /\ (s = 1 \/ PartAt(l, s - 1) # v)
        <2>1. s \in 1 .. n  BY <1>3, <1>5
        <2>2. s <= i
            <3> SUFFICES ASSUME ~ s <= i PROVE s - 1 \in whole  BY <1>5
            <3>1. Run(l, v, i, s)  BY <1>3, <1>5
            <3>2. s - 1 \in 1 .. n /\ i .. s - 1 \subseteq i .. s  BY <1>1, <2>1
            <3>3. Run(l, v, i, s - 1)  BY <3>1, <3>2 DEF Run
            <3>4. s - 1 <= i => s - 1 = i  BY <1>1, <2>1
            <3>5. s - 1 <= i => Run(l, v, s - 1, i)  BY <3>3, <3>4
            <3> QED  BY <1>3, <3>2, <3>3, <3>5
        <2>3. Run(l, v, s, i)  BY <1>3, <1>5, <2>2
        <2>4. s = 1 \/ PartAt(l, s - 1) # v
            <3> SUFFICES ASSUME s # 1, PartAt(l, s - 1) = v PROVE s - 1 \in whole  BY <1>5
            <3>1. s - 1 \in 1 .. n /\ s - 1 <= i /\ \A j \in s - 1 .. i : j = s - 1 \/ j \in s .. i
                BY <1>1, <2>1, <2>2
            <3>2. Run(l, v, s - 1, i)  BY <2>3, <3>1 DEF Run
            <3> QED  BY <1>3, <3>1, <3>2
        <2> QED  BY <2>1, <2>2, <2>3, <2>4
    <1>8. e \in i .. n /\ Run(l, v, i, e) /\ (e = n \/ PartAt(l, e + 1) # v)
        <2>1. e \in 1 .. n  BY <1>3, <1>6
        <2>2. e >= i
            <3> SUFFICES ASSUME e < i PROVE e + 1 \in whole  BY <1>1, <1>6, <2>1
            <3>1. Run(l, v, e, i)  BY <1>1, <1>3, <1>6, <2>1
            <3>2. e + 1 \in 1 .. n /\ e + 1 <= i /\ e + 1 .. i \subseteq e .. i  BY <1>1, <2>1
            <3>3. Run(l, v, e + 1, i)  BY <3>1, <3>2 DEF Run
            <3> QED  BY <1>3, <3>2, <3>3
        <2>3. Run(l, v, i, e)
            <3>1. CASE e = i
                <4>1. Run(l, v, i, i)  BY <1>1 DEF Run
                <4> QED  BY <3>1, <4>1
            <3>2. CASE e # i
                <4>1. ~ e <= i  BY <1>1, <2>1, <2>2, <3>2
                <4> QED  BY <1>3, <1>6, <4>1
            <3> QED  BY <3>1, <3>2
        <2>4. e = n \/ PartAt(l, e + 1) # v
            <3> SUFFICES ASSUME e # n, PartAt(l, e + 1) = v PROVE e + 1 \in whole  BY <1>6
            <3>1. e + 1 \in 1 .. n /\ ~ e + 1 <= i /\ \A j \in i .. e + 1 : j = e + 1 \/ j \in i .. e
                BY <1>1, <2>1, <2>2
            <3>2. Run(l, v, i, e + 1)  BY <2>3, <3>1 DEF Run
            <3> QED  BY <1>3, <3>1, <3>2
        <2> QED  BY <1>1, <2>1, <2>2, <2>3, <2>4
    <1>9. Run(l, v, s, e)
        <2>1. \A j \in s .. e : j \in s .. i \/ j \in i .. e  BY <1>1, <1>7, <1>8
        <2> QED  BY <1>7, <1>8, <2>1 DEF Run
    <1>10. Word(l, v, i, s, e)  BY <1>1, <1>7, <1>8, <1>9 DEF Word
    <1>11. Boundary(l, s - 1)
        <2>1. s - 1 \in Nat /\ s - 1 <= n /\ (s - 1) + 1 = s /\ s \in 1 .. Len(l) /\ s \in s .. e
            BY <1>1, <1>7, <1>8
        <2> SUFFICES ASSUME l[s] = More PROVE FALSE  BY <1>1, <2>1 DEF Boundary
        <2>2. s - 1 \in 1 .. n /\ PartAt(l, s - 1) = PartAt(l, s)  BY <1>1, <2>1, PartOfMore
        <2>3. PartAt(l, s) = v  BY <1>9, <2>1 DEF Run
        <2> QED  BY <1>7, <2>1, <2>2, <2>3
    <1>12. Boundary(l, e)
        <2> SUFFICES ASSUME e # n, l[e + 1] = More PROVE FALSE  BY <1>1, <1>8 DEF Boundary
        <2>1. e \in Nat /\ e + 1 \in 1 .. Len(l) /\ e \in s .. e  BY <1>1, <1>7, <1>8
        <2>2. PartAt(l, e) = PartAt(l, e + 1)  BY <2>1, PartOfMore
        <2>3. PartAt(l, e) = v  BY <1>9, <2>1 DEF Run
        <2> QED  BY <1>8, <2>2, <2>3
    <1> QED  BY <1>5, <1>6, <1>10, <1>11, <1>12, Zenon

\* The part of the line that a completion starts from, and the one it replaces.
Columns(t, from, to) ==
    /\ from = IF HasSelection(t) THEN SelectionRange(t).start.col ELSE t.col
    /\ to = IF HasSelection(t) THEN SelectionRange(t).end.col ELSE t.col
    /\ from <= to /\ (HasSelection(t) <=> from < to)

InWord(l, from, to) ==
    /\ to \in 1 .. Len(l) /\ PartAt(l, to) # "none"
    /\ from < to => Run(l, PartAt(l, to), from + 1, to)

Chosen(l, from, to, start, end) ==
    IF InWord(l, from, to)
    THEN Word(l, PartAt(l, to), to, start + 1, end) /\ Boundary(l, start) /\ Boundary(l, end)
    ELSE start = from /\ end = to

Token2(t, line, from, to, with) ==
    LET whole == IF to \in DOMAIN line THEN Component(line, to) ELSE {}
        inside == (IF HasSelection(t) THEN from + 1 ELSE to) \in whole
        start == IF inside THEN CHOOSE i \in whole : i - 1 \notin whole ELSE from + 1
        end   == IF inside THEN CHOOSE i \in whole : i + 1 \notin whole ELSE to
    IN  ReplaceInLine(t, start - 1, end, LinesOf(with)[1])

OneRow(t) == HasSelection(t) => SelectionRange(t).start.row = SelectionRange(t).end.row

LEMMA ColumnsIs ==
    ASSUME NEW t, BufferOK(t), OneRow(t)
    PROVE  \E from, to \in Nat : Columns(t, from, to)
    <1>1. t.col \in Nat  BY DEF BufferOK, InPlace
    <1>2. CASE ~ HasSelection(t)
        <2>1. t.col <= t.col /\ ~ t.col < t.col  BY <1>1
        <2>2. Columns(t, t.col, t.col)  BY <1>2, <2>1 DEF Columns
        <2> QED  BY <1>1, <2>2
    <1>3. CASE HasSelection(t)
        <2>1. PICK s, e : /\ SelectionRange(t) = [start |-> s, end |-> e]
                          /\ IsPos(s) /\ IsPos(e) /\ Precedes(s, e) /\ s # e
                          /\ s = Pos(s.row, s.col) /\ e = Pos(e.row, e.col)
            <3>1. PICK s, e : /\ SelectionRange(t) = [start |-> s, end |-> e]
                              /\ IsPos(s) /\ IsPos(e) /\ Precedes(s, e)
                              /\ \/ s = Pos(t.anchor.row, t.anchor.col) /\ e = Pos(t.row, t.col)
                                 \/ e = Pos(t.anchor.row, t.anchor.col) /\ s = Pos(t.row, t.col)
                              /\ HasSelection(t) => s # e
                BY RangeIs
            <3>2. \A r, c : Pos(r, c) = Pos(Pos(r, c).row, Pos(r, c).col)  BY PosIs
            <3> QED  BY <1>3, <3>1, <3>2
        <2>2. SelectionRange(t).start = s /\ SelectionRange(t).end = e  BY <2>1
        <2>3. s.row = e.row  BY <1>3, <2>2 DEF OneRow
        <2>4. s.col # e.col  BY <2>1, <2>3
        <2>5. s.col \in Nat /\ e.col \in Nat /\ s.col < e.col /\ s.col <= e.col
            BY <2>1, <2>3, <2>4 DEF Precedes, IsPos
        <2>6. Columns(t, s.col, e.col)  BY <1>3, <2>2, <2>5, Zenon DEF Columns
        <2> QED  BY <2>5, <2>6
    <1> QED  BY <1>2, <1>3

\* replace_current_token replaces the selection or the component around it.
LEMMA ReplaceTokenIs ==
    ASSUME NEW t, BufferOK(t), OneRow(t), NEW with, NEW from \in Nat, NEW to \in Nat, Columns(t, from, to)
    PROVE  \E start, end \in Nat :
              /\ Chosen(Line(t, t.row), from, to, start, end)
              /\ ReplaceCurrentToken(t, with) = ReplaceInLine(t, start, end, LinesOf(with)[1])
    <1>1. t.lines \in Pieces /\ InPlace(t)  BY DEF BufferOK, Sound
    <1>2. PICK line \in Flat, n \in Nat : line = Line(t, t.row) /\ n = Len(line) /\ DOMAIN line = 1 .. n
        <2>1. Line(t, t.row) \in Flat /\ Len(Line(t, t.row)) \in Nat  BY <1>1, LineIs DEF InPlace, Line
        <2> QED  BY <2>1 DEF Flat
    <1>3. from <= to /\ (HasSelection(t) <=> from < to)  BY DEF Columns
    <1>4. PICK whole : whole = IF to \in DOMAIN line THEN Component(line, to) ELSE {}  OBVIOUS
    <1>5. PICK i : i = IF HasSelection(t) THEN from + 1 ELSE to  OBVIOUS
    <1>6. i \in whole <=> InWord(line, from, to)
        <2>1. CASE to \notin 1 .. n  BY <1>2, <1>4, <2>1 DEF InWord
        <2>2. CASE to \in 1 .. n
            <3>1. PICK v : v = PartAt(line, to)  OBVIOUS
            <3>2. whole = Component(line, to)  BY <1>2, <1>4, <2>2
            <3>3. i \in 1 .. n /\ i <= to  BY <1>3, <1>5, <2>2
            <3>4. i \in whole <=> v # "none" /\ Run(line, v, i, to)
                BY <1>2, <2>2, <3>1, <3>2, <3>3, ComponentIs
            <3>5. CASE from < to
                <4>1. i = from + 1  BY <1>3, <1>5, <3>5
                <4> QED  BY <1>2, <2>2, <3>1, <3>4, <3>5, <4>1 DEF InWord
            <3>6. CASE ~ from < to
                <4>1. i = to  BY <1>3, <1>5, <3>6
                <4>2. Run(line, v, to, to)  BY <3>1 DEF Run
                <4> QED  BY <1>2, <2>2, <3>1, <3>4, <3>6, <4>1, <4>2 DEF InWord
            <3> QED  BY <3>5, <3>6
        <2> QED  BY <2>1, <2>2
    <1>7. PICK s : s = CHOOSE j \in whole : j - 1 \notin whole  OBVIOUS
    <1>8. PICK e : e = CHOOSE j \in whole : j + 1 \notin whole  OBVIOUS
    <1>9. /\ InWord(line, from, to)
             => ReplaceCurrentToken(t, with) = ReplaceInLine(t, s - 1, e, LinesOf(with)[1])
          /\ ~ InWord(line, from, to)
             => ReplaceCurrentToken(t, with) = ReplaceInLine(t, (from + 1) - 1, to, LinesOf(with)[1])
        <2>1. ~ (HasSelection(t) /\ SelectionRange(t).start.row # SelectionRange(t).end.row)  BY DEF OneRow
        <2>2. ReplaceCurrentToken(t, with) =
                  Token2(t, Line(t, t.row), IF HasSelection(t) THEN SelectionRange(t).start.col ELSE t.col,
                         IF HasSelection(t) THEN SelectionRange(t).end.col ELSE t.col, with)
            BY <2>1, Zenon DEF ReplaceCurrentToken, Token2
        <2>3. ReplaceCurrentToken(t, with) = Token2(t, line, from, to, with)
            BY <1>2, <2>2, Zenon DEF Columns
        <2> QED  BY <1>4, <1>5, <1>6, <1>7, <1>8, <2>3, Zenon DEF Token2
    <1>10. CASE ~ InWord(line, from, to)
        <2>1. (from + 1) - 1 = from  OBVIOUS
        <2>2. ReplaceCurrentToken(t, with) = ReplaceInLine(t, from, to, LinesOf(with)[1])
            BY <1>9, <1>10, <2>1, Zenon
        <2>3. Chosen(line, from, to, from, to)  BY <1>10, Zenon DEF Chosen
        <2> QED  BY <1>2, <2>2, <2>3
    <1>11. CASE InWord(line, from, to)
        <2>1. to \in 1 .. Len(line) /\ PartAt(line, to) # "none"  BY <1>11 DEF InWord
        <2>2. whole = Component(line, to)  BY <1>2, <1>4, <2>1
        <2>3. Word(line, PartAt(line, to), to, s, e) /\ Boundary(line, s - 1) /\ Boundary(line, e)
            <3>1. PICK v : v = PartAt(line, to)  OBVIOUS
            <3>2. to \in 1 .. Len(line) /\ v # "none"  BY <2>1, <3>1
            <3>3. \E p, q : /\ p = CHOOSE j \in whole : j - 1 \notin whole
                            /\ q = CHOOSE j \in whole : j + 1 \notin whole
                            /\ Word(line, v, to, p, q) /\ Boundary(line, p - 1) /\ Boundary(line, q)
                BY <2>2, <3>1, <3>2, WordIs, Zenon
            <3>4. Word(line, v, to, s, e) /\ Boundary(line, s - 1) /\ Boundary(line, e)
                BY <1>7, <1>8, <3>3, Zenon
            <3> QED  BY <3>1, <3>4
        <2>4. PICK a \in Nat, b \in Nat : a = s - 1 /\ b = e /\ a + 1 = s  BY <1>2, <2>3 DEF Word
        <2>5. ReplaceCurrentToken(t, with) = ReplaceInLine(t, a, b, LinesOf(with)[1])
            BY <1>9, <1>11, <2>4, Zenon
        <2>6. Chosen(line, from, to, a, b)  BY <1>11, <2>3, <2>4, Zenon DEF Chosen
        <2> QED  BY <1>2, <2>5, <2>6
    <1> QED  BY <1>10, <1>11

\* A completion leaves a sound buffer, or panics.
LEMMA ReplaceTokenFine ==
    ASSUME NEW t, BufferOK(t), NEW with \in Seq(Char), with # <<>>
    PROVE  Fine(ReplaceCurrentToken(t, with))
    <1>1. CASE ~ OneRow(t)
        <2>1. ReplaceCurrentToken(t, with) = InsertText(t, with)  BY <1>1, Zenon DEF OneRow, ReplaceCurrentToken
        <2>2. Fine(t)  BY DEF Fine
        <2> QED  BY <2>1, <2>2, InsertTextFine
    <1>2. CASE OneRow(t)
        <2>1. PICK start, end \in Nat :
                  ReplaceCurrentToken(t, with) = ReplaceInLine(t, start, end, LinesOf(with)[1])
            <3>1. PICK from, to \in Nat : Columns(t, from, to)  BY <1>2, ColumnsIs
            <3> QED  BY <1>2, <3>1, ReplaceTokenIs
        <2>2. PICK w \in Flat : w = LinesOf(with)[1]
            <3>1. LinesOf(with) \in Pieces /\ LinesOf(with) # <<>>  BY LinesOfIs
            <3>2. Len(LinesOf(with)) > 0 /\ Len(LinesOf(with)) \in Nat  BY <3>1, EmptySeq, PiecesLen DEF Pieces
            <3>3. 0 < Len(LinesOf(with)) /\ 0 + 1 = 1 /\ 0 \in Nat  BY <3>2
            <3>4. LinesOf(with)[0 + 1] \in Flat  BY <3>1, <3>3, LineIs
            <3> QED  BY <3>3, <3>4
        <2>3. BufferOK(ReplaceInLine(t, start, end, w)) \/ Broken(ReplaceInLine(t, start, end, w))
            BY ReplaceInLineIs DEF Replaced
        <2> QED  BY <2>1, <2>2, <2>3 DEF Fine
    <1> QED  BY <1>1, <1>2

(***************************************************************************)
(* What the panels do with a buffer.                                       *)
(***************************************************************************)
LEMMA CountIs ==
    ASSUME NEW s \in Seq(AnyByte) PROVE CharCount(s) \in Nat
    <1>1. PICK n \in Nat : n = Len(s) /\ DOMAIN s = 1 .. n  OBVIOUS
    <1>2. IsFiniteSet(1 .. n)  BY FS_Interval
    <1>3. PICK T : T = {i \in DOMAIN s : s[i] # More}  OBVIOUS
    <1>4. IsFiniteSet(T)  BY <1>1, <1>2, <1>3, FS_Subset
    <1>5. Cardinality(T) \in Nat  BY <1>4, FS_CardinalityType
    <1> QED  BY <1>3, <1>5 DEF CharCount

LEMMA SelectedTextType ==
    ASSUME NEW t, BufferOK(t) PROVE SelectedText(t) \in Seq(AnyByte)
    <1>1. t.lines \in Pieces  BY DEF BufferOK, Sound
    <1>2. PICK s, e : /\ SelectionRange(t) = Range2(s, e) /\ IsPos(s) /\ IsPos(e)
                      /\ s.row <= e.row /\ s.row < Len(t.lines)
        <2>1. PICK s, e : /\ SelectionRange(t) = [start |-> s, end |-> e]
                          /\ IsPos(s) /\ IsPos(e) /\ Precedes(s, e) /\ s.row < Len(t.lines)
            BY RangeIs
        <2>2. s.row <= e.row  BY <2>1, PrecedesIs
        <2> QED  BY <2>1, <2>2, Zenon DEF Range2
    <1>3. PICK n \in Nat, x \in Nat, y \in Nat : n = Len(t.lines) /\ x = s.row /\ y = e.row /\ x < n /\ x <= y
        BY <1>1, <1>2, PiecesLen DEF IsPos
    <1>4. PICK k \in Nat : k = MinOf(y, LastRow(t)) - x + 1 /\ k > 0 /\ x + k <= n /\ x + k <= y + 1
        <2>1. PICK q \in Nat : q = MinOf(y, LastRow(t)) /\ x <= q /\ q < n /\ q <= y
            BY <1>3 DEF MinOf, LastRow
        <2>2. q - x + 1 \in Nat /\ q - x + 1 > 0 /\ x + (q - x + 1) <= n /\ x + (q - x + 1) <= y + 1
            BY <1>3, <2>1
        <2> QED  BY <2>1, <2>2
    <1> DEFINE piece(i) == LET line == Line(t, i)
                               from == IF i = x THEN ColOf(t, s) ELSE 0
                               to   == IF i = y THEN ColOf(t, e) ELSE Len(line)
                           IN  SubSeq(line, from + 1, to)
    <1>5. PICK ps : ps = [i \in 1 .. k |-> piece(x + i - 1)]  OBVIOUS
    <1>6. SelectedText(t) = Text(ps)
        <2>1. Range2(s, e).start = s /\ Range2(s, e).end = e  BY Range2Is
        <2>2. 1 .. (MinOf(y, LastRow(t)) - x + 1) = 1 .. k  BY <1>4
        <2> QED  BY <1>2, <1>3, <1>5, <2>1, <2>2, Zenon DEF SelectedText
    <1>7. ASSUME NEW i \in 1 .. k PROVE piece(x + i - 1) \in Seq(AnyByte)
        <2>1. PICK r \in Nat : r = x + i - 1 /\ r < n /\ r <= y  BY <1>4
        <2>2. PICK line \in Seq(AnyByte), m \in Nat : line = Line(t, r) /\ m = Len(line) /\ line = t.lines[r + 1]
            <3>1. t.lines[r + 1] \in Flat /\ Len(t.lines[r + 1]) \in Nat  BY <1>1, <1>3, <2>1, LineIs
            <3> QED  BY <3>1 DEF Line, Flat
        <2>3. PICK from \in Nat : from = IF r = x THEN ColOf(t, s) ELSE 0
            BY <1>1, <1>2, ColIs
        <2>4. PICK to \in Nat : to = (IF r = y THEN ColOf(t, e) ELSE Len(line)) /\ to <= m
            <3>1. r = y => ColOf(t, e) \in Nat /\ ColOf(t, e) <= m
                BY <1>1, <1>2, <1>3, <2>1, <2>2, ColIs
            <3> QED  BY <2>2, <3>1
        <2>5. SubSeq(line, from + 1, to) \in Seq(AnyByte)
            <3>1. CASE from <= to  BY <2>2, <2>4, <3>1, SliceIs
            <3>2. CASE ~ from <= to  BY <2>2, <3>2
            <3> QED  BY <3>1, <3>2
        <2> QED  BY <2>1, <2>2, <2>3, <2>4, <2>5
    <1> HIDE DEF piece
    <1>8. PICK qs \in Seq(Seq(AnyByte)) :
             qs = [i \in DOMAIN ps |-> IF i = 1 THEN ps[i] ELSE <<NewLine>> \o ps[i]]
        <2>1. ps \in Seq(Seq(AnyByte))  BY <1>5, <1>7
        <2>2. <<NewLine>> \in Seq(AnyByte)  BY FlatLaws DEF Flat
        <2>3. PICK nl \in Seq(AnyByte) : nl = <<NewLine>>  BY <2>2
        <2>4. DOMAIN ps = 1 .. k /\ \A i \in 1 .. k : ps[i] \in Seq(AnyByte)  BY <1>5, <1>7
        <2>5. \A i \in 1 .. k : (IF i = 1 THEN ps[i] ELSE nl \o ps[i]) \in Seq(AnyByte)
            BY <2>4, ConcatProperties
        <2>6. PICK qs : qs = [i \in DOMAIN ps |-> IF i = 1 THEN ps[i] ELSE nl \o ps[i]]  OBVIOUS
        <2>7. qs \in [1 .. k -> Seq(AnyByte)]  BY <2>4, <2>5, <2>6
        <2>8. qs \in Seq(Seq(AnyByte))  BY <2>7
        <2> QED  BY <2>3, <2>6, <2>8
    <1>9. Text(ps) = FlattenSeq(qs)  BY <1>8, Zenon DEF Text
    <1> QED  BY <1>6, <1>8, <1>9, FlattenType

LEMMA RoomIs ==
    ASSUME NEW t, BufferOK(t) PROVE Room(t) \in Nat
    <1>1. t.lines \in Pieces /\ t.lines # <<>>
        <2>1. t.lines \in Pieces /\ Len(t.lines) > 0  BY DEF BufferOK, Sound
        <2>2. Len(<<>>) = 0  OBVIOUS
        <2> QED  BY <2>1, <2>2
    <1>2. Length(t) \in Nat  BY <1>1, TextType, CountIs DEF Length, Flat
    <1>3. SelectedChars(t) \in Nat  BY SelectedTextType, CountIs DEF SelectedChars
    <1>4. Minus(Limit, Length(t)) \in Nat
        <2>1. Limit \in Nat  BY SqlEditorAssumption
        <2> QED  BY <1>2, <2>1 DEF Minus
    <1> QED  BY <1>3, <1>4 DEF Room

LEMMA AndFine ==
    ASSUME NEW t, Fine(t), NEW b \in BOOLEAN PROVE Fine([t EXCEPT !.ok = @ /\ b])
    <1>1. IsBuffer(t) /\ t.ok \in BOOLEAN  BY DEF Fine, Broken, BufferOK, Sound
    <1>2. PICK u : u = [t EXCEPT !.ok = @ /\ b]  OBVIOUS
    <1>3. /\ IsBuffer(u) /\ u.ok = (t.ok /\ b) /\ u.lines = t.lines /\ u.anchor = t.anchor
          /\ u.row = t.row /\ u.col = t.col
        BY <1>1, <1>2 DEF IsBuffer
    <1>4. CASE t.ok /\ b
        <2>1. BufferOK(t) /\ u.ok = TRUE  BY <1>1, <1>3, <1>4 DEF Fine, Broken
        <2>2. BufferOK(u)  BY <1>3, <2>1 DEF BufferOK, Sound, InPlace
        <2> QED  BY <1>2, <2>2 DEF Fine
    <1>5. CASE ~ (t.ok /\ b)
        <2>1. Broken(u)  BY <1>1, <1>3, <1>5 DEF Broken
        <2> QED  BY <1>2, <2>1 DEF Fine
    <1> QED  BY <1>4, <1>5

LEMMA PrefixIs ==
    ASSUME NEW with \in Seq(Char), NEW n \in Nat
    PROVE  SubSeq(with, 1, MinOf(n, Len(with))) \in Seq(Char)
    <1>1. PICK k \in Nat : k = MinOf(n, Len(with)) /\ k <= Len(with)  BY DEF MinOf
    <1>2. SubSeq(with, 0 + 1, k) \in Seq(Char)  BY <1>1, SliceIs
    <1> QED  BY <1>1, <1>2

\* So does what is put into the semantic query.
LEMMA InsertLimitedFine ==
    ASSUME NEW t, BufferOK(t), NEW with \in Seq(Char) PROVE Fine(InsertLimited(t, with))
    <1>1. PICK w \in Seq(Char) : w = SubSeq(with, 1, MinOf(Room(t), Len(with)))  BY RoomIs, PrefixIs
    <1>2. Fine(InsertText(t, w))  BY InsertTextFine DEF Fine
    <1>3. PICK b \in BOOLEAN : b = SelectionCuts(t)  BY DEF SelectionCuts
    <1>4. InsertLimited(t, with) = [InsertText(t, w) EXCEPT !.ok = @ /\ b]
        BY <1>1, <1>3, Zenon DEF InsertLimited
    <1> QED  BY <1>2, <1>4, AndFine

LEMMA AtCursorFine ==
    ASSUME NEW t, Fine(t) PROVE Fine(AtCursor(t)) /\ AtCursor(t).lines = t.lines
    <1>1. PICK b \in BOOLEAN : b = Boundary(Line(t, t.row), t.col)  BY DEF Boundary
    <1>2. AtCursor(t) = [t EXCEPT !.ok = @ /\ b]  BY <1>1, Zenon DEF AtCursor
    <1>3. IsBuffer(t)  BY DEF Fine, Broken, BufferOK, Sound
    <1>4. AtCursor(t).lines = t.lines  BY <1>2, <1>3 DEF IsBuffer
    <1> QED  BY <1>2, <1>4, AndFine

(***************************************************************************)
(* The invariant.                                                          *)
(***************************************************************************)
Item == [text : Seq(Chars) \ {<<>>}, kind : Kinds, score : Nat]

PopupOK(p) ==
    /\ p \in [items : Seq(Item), selected : Nat]
    /\ p.selected <= Len(p.items)

TypeOK ==
    /\ panel \in {"editor", "semantic"}
    /\ Fine(text)
    /\ PopupOK(popup)
    /\ overlay \in [shown : BOOLEAN, original : Flat]
    /\ own \in Flat

IInv == TypeOK /\ OverlayRestoresText

LEMMA PopupsAre ==
    /\ PopupOK(NoPopup)
    /\ \A batch \in Batches : PopupOK([items |-> batch, selected |-> 0])
    <1>1. ASSUME NEW items \in Seq(Item) PROVE PopupOK([items |-> items, selected |-> 0])
        <2>1. Len(items) \in Nat  OBVIOUS
        <2> QED  BY <2>1 DEF PopupOK
    <1>2. <<>> \in Seq(Item)  OBVIOUS
    <1>3. \A batch \in Batches : batch \in Seq(Item)  BY SqlEditorAssumption DEF Item
    <1> QED  BY <1>1, <1>2, <1>3 DEF NoPopup

LEMMA ItemIs ==
    ASSUME NEW item \in Item PROVE item.text \in Seq(Char) /\ item.text # <<>>
    <1>1. Chars \subseteq Char  BY DEF Chars, Char
    <1>2. item.text \in Seq(Chars) /\ item.text # <<>>  BY DEF Item
    <1> QED  BY <1>1, <1>2, SeqMonotonic

LEMMA CurrentIs ==
    ASSUME PopupOK(popup), popup.selected > 0
    PROVE  Current \in Item
    <1>1. popup.items \in Seq(Item) /\ popup.selected \in 1 .. Len(popup.items)  BY DEF PopupOK
    <1> QED  BY <1>1 DEF Current

\* So does an accepted completion.
SpaceAnd(with) == <<Space>> \o with

LEMMA SpaceIs ==
    ASSUME NEW with \in Seq(Char)
    PROVE  SpaceAnd(with) \in Seq(Char) /\ SpaceAnd(with) # <<>>
    <1>1. Space \in Char  BY DEF Chars, Char
    <1>2. <<Space>> \in Seq(Char) /\ Len(<<Space>>) = 1  BY <1>1
    <1>3. <<Space>> \o with \in Seq(Char) /\ Len(<<Space>> \o with) = 1 + Len(with)
        BY <1>2, ConcatProperties
    <1>4. Len(with) \in Nat /\ Len(<<>>) = 0  OBVIOUS
    <1> QED  BY <1>3, <1>4 DEF SpaceAnd

LEMMA InsertCompletionIs ==
    \A t, item : InsertCompletion(t, item) =
        IF item.kind = "Keyword" /\ AfterClosedQuote(t) THEN InsertText(t, SpaceAnd(item.text))
        ELSE ReplaceCurrentToken(t, item.text)
    BY Zenon DEF InsertCompletion, SpaceAnd

LEMMA InsertCompletionFine ==
    ASSUME NEW t, BufferOK(t), NEW item \in Item PROVE Fine(InsertCompletion(t, item))
    <1>1. item.text \in Seq(Char) /\ item.text # <<>>  BY ItemIs
    <1>2. CASE item.kind = "Keyword" /\ AfterClosedQuote(t)
        <2>1. InsertCompletion(t, item) = InsertText(t, SpaceAnd(item.text))
            BY <1>2, InsertCompletionIs, Zenon
        <2>2. Fine(t)  BY DEF Fine
        <2> QED  BY <1>1, <2>1, <2>2, SpaceIs, InsertTextFine
    <1>3. CASE ~ (item.kind = "Keyword" /\ AfterClosedQuote(t))
        <2>1. InsertCompletion(t, item) = ReplaceCurrentToken(t, item.text)
            BY <1>3, InsertCompletionIs, Zenon
        <2> QED  BY <1>1, <2>1, ReplaceTokenFine
    <1> QED  BY <1>2, <1>3

LEMMA BufferText ==
    ASSUME NEW t, BufferOK(t) PROVE Text(t.lines) \in Flat
    <1>1. t.lines \in Pieces /\ Len(t.lines) > 0  BY DEF BufferOK, Sound
    <1>2. Len(<<>>) = 0  OBVIOUS
    <1> QED  BY <1>1, <1>2, TextType

LEMMA FineOk == \A t : Fine(t) => t.ok \in BOOLEAN /\ (t.ok => BufferOK(t))
    BY DEF Fine, Broken, BufferOK, Sound

LEMMA OverIs == Broken(Over)
    <1>1. PICK x : x = <<<<>>>>  OBVIOUS
    <1>2. PICK a : a = NoAnchor  OBVIOUS
    <1>3. PICK b : b = Buffer(x, 0, 0)  OBVIOUS
    <1>4. IsBuffer(b)  BY <1>2, <1>3 DEF Buffer, IsBuffer
    <1>5. PICK u : u = [b EXCEPT !.ok = FALSE]  OBVIOUS
    <1>6. IsBuffer(u) /\ u.ok = FALSE  BY <1>4, <1>5 DEF IsBuffer
    <1>7. Over = u  BY <1>1, <1>3, <1>5, Zenon DEF Over
    <1> QED  BY <1>6, <1>7 DEF Broken

\* A handler leaves a text.
LEMMA LeavesInv ==
    ASSUME TypeOK, OverlayRestoresText, text.ok, NEW t, Fine(t), Leaves(t), overlay' = overlay
    PROVE  Fine(text') /\ own' \in Flat /\ OverlayRestoresText'
    <1>1. own \in Flat /\ overlay \in [shown : BOOLEAN, original : Flat]  BY DEF TypeOK
    <1>2. WithoutLastLines(IF overlay.shown THEN overlay.original ELSE Text(text.lines)) = WithoutLastLines(own)
        BY DEF OverlayRestoresText
    <1>3. /\ text' = IF t.ok THEN t ELSE Over
          /\ own' = IF overlay.shown \/ ~ t.ok \/ t.lines = text.lines THEN own ELSE Text(t.lines)
        BY DEF Leaves
    <1>4. CASE ~ t.ok
        <2>1. text' = Over /\ own' = own /\ text'.ok = FALSE  BY <1>3, <1>4, OverIs DEF Broken
        <2> QED  BY <1>1, <2>1, OverIs DEF Fine, OverlayRestoresText
    <1>5. CASE t.ok
        <2>1. BufferOK(t) /\ text' = t /\ Text(t.lines) \in Flat  BY <1>3, <1>5, FineOk, BufferText
        <2>2. CASE overlay.shown
            <3>1. own' = own  BY <1>3, <2>2
            <3> QED  BY <1>1, <1>2, <2>1, <2>2, <3>1 DEF Fine, OverlayRestoresText
        <2>3. CASE ~ overlay.shown
            <3>1. CASE t.lines = text.lines
                <4>1. own' = own  BY <1>3, <3>1
                <4> QED  BY <1>1, <1>2, <2>1, <2>3, <3>1, <4>1 DEF Fine, OverlayRestoresText
            <3>2. CASE t.lines # text.lines
                <4>1. own' = Text(t.lines)  BY <1>3, <1>5, <2>3, <3>2
                <4> QED  BY <2>1, <2>3, <4>1 DEF Fine, OverlayRestoresText
            <3> QED  BY <3>1, <3>2
        <2> QED  BY <2>2, <2>3
    <1> QED  BY <1>4, <1>5

\* A handler that asks for completions keeps the invariant.
LEMMA RefreshedInv ==
    ASSUME IInv, text.ok, NEW t, Fine(t), Refreshed(t), panel' = panel, overlay' = overlay
    PROVE  IInv'
    <1>1. TypeOK /\ OverlayRestoresText /\ PopupOK(popup)  BY DEF IInv, TypeOK
    <1>2. PICK u : Fine(u) /\ Leaves(u)
        <2>1. Fine(IF t.ok THEN AtCursor(t) ELSE t)  BY AtCursorFine
        <2> QED  BY <2>1 DEF Refreshed
    <1>3. Fine(text') /\ own' \in Flat /\ OverlayRestoresText'  BY <1>1, <1>2, LeavesInv
    <1>4. PopupOK(popup')
        <2>1. popup' = popup \/ popup' = NoPopup \/ \E batch \in Batches : popup' = [items |-> batch, selected |-> 0]
            BY Zenon DEF Refreshed
        <2> QED  BY <1>1, <2>1, PopupsAre
    <1> QED  BY <1>1, <1>3, <1>4 DEF IInv, TypeOK

LEMMA LeftInv ==
    ASSUME IInv, text.ok, NEW t, Fine(t), Leaves(t), panel' = panel, overlay' = overlay,
           PopupOK(popup')
    PROVE  IInv'
    <1>1. TypeOK /\ OverlayRestoresText  BY DEF IInv
    <1>2. Fine(text') /\ own' \in Flat /\ OverlayRestoresText'  BY <1>1, LeavesInv
    <1> QED  BY <1>1, <1>2 DEF IInv, TypeOK

\* A text, and the one that a preview hides.
Good(s) ==
    /\ s.overlay \in [shown : BOOLEAN, original : Flat]
    /\ BufferOK(s.text)
    /\ WithoutLastLines(IF s.overlay.shown THEN s.overlay.original ELSE Text(s.text.lines))
       = WithoutLastLines(own)

\* So does one that shows a preview or ends it.
LEMMA SetsInv ==
    ASSUME IInv, NEW s, Good(s), Sets(s), UNCHANGED <<panel, popup, own>>
    PROVE  IInv'
    <1>1. text' = s.text /\ overlay' = s.overlay  BY DEF Sets
    <1>2. OverlayRestoresText'  BY <1>1 DEF OverlayRestoresText, Good
    <1> QED  BY <1>1, <1>2 DEF IInv, TypeOK, Fine, Good

LEMMA TextsAre ==
    /\ \A s \in Pastes \cup {Placeholder, Preview, SelectTopSql} : s \in Seq(Char)
    /\ \A s \in {Placeholder, Preview, SelectTopSql} : InBytes(s) \in Flat
    <1>1. Chars \cup {NewLine} \subseteq Char  BY DEF Chars, Char
    <1>2. \A s \in Pastes \cup {Placeholder, Preview, SelectTopSql} : s \in Seq(Char)
        BY <1>1, SqlEditorAssumption, SeqMonotonic
    <1> QED  BY <1>2, InBytesIs

LEMMA PanelsGood == ASSUME IInv, text.ok PROVE Good(Panels)
    <1>1. Panels.text = text /\ Panels.overlay = overlay  BY DEF Panels
    <1>2. BufferOK(text)  BY FineOk DEF IInv, TypeOK
    <1> QED  BY <1>1, <1>2 DEF Good, IInv, TypeOK, OverlayRestoresText

\* A preview hides the text of the user.
LEMMA ShownGood == ASSUME NEW s, Good(s) PROVE Good(ShowEditorOverlay(s))
    <1>1. PICK p : p = SetText(InBytes(Preview)) /\ BufferOK(p)  BY TextsAre, SetTextFine
    <1>2. PICK o : o = IF s.overlay.shown THEN s.overlay ELSE [shown |-> TRUE, original |-> Text(s.text.lines)]
        OBVIOUS
    <1>3. PICK u : u = ShowEditorOverlay(s)  OBVIOUS
    <1>4. u.text = p /\ u.overlay = o
        <2>1. u = [text |-> p, overlay |-> o]  BY <1>1, <1>2, <1>3, Zenon DEF ShowEditorOverlay
        <2> QED  BY <2>1
    <1>5. Text(s.text.lines) \in Flat  BY BufferText DEF Good
    <1>6. o \in [shown : BOOLEAN, original : Flat] /\ o.shown
        BY <1>2, <1>5 DEF Good
    <1>7. WithoutLastLines(o.original) = WithoutLastLines(own)
        <2>1. CASE s.overlay.shown  BY <1>2, <2>1 DEF Good
        <2>2. CASE ~ s.overlay.shown
            <3>1. o.original = Text(s.text.lines)  BY <1>2, <2>2
            <3> QED  BY <2>2, <3>1 DEF Good
        <2> QED  BY <2>1, <2>2
    <1> QED  BY <1>1, <1>3, <1>4, <1>6, <1>7 DEF Good

\* Its end gives it back.
LEMMA ClearedGood == ASSUME NEW s, Good(s) PROVE Good(ClearEditorOverlay(s))
    <1>1. CASE ~ s.overlay.shown  BY <1>1 DEF ClearEditorOverlay
    <1>2. CASE s.overlay.shown
        <2>1. PICK x \in Flat : x = s.overlay.original /\ WithoutLastLines(x) = WithoutLastLines(own)
            BY <1>2 DEF Good
        <2>2. PICK p : p = SetText(x) /\ BufferOK(p) /\ p.lines = Lines(x)  BY SetTextFine
        <2>3. PICK u : u = ClearEditorOverlay(s)  OBVIOUS
        <2>4. u.text = p /\ u.overlay = NoOverlay
            <3>1. u = [text |-> p, overlay |-> NoOverlay]
                BY <1>2, <2>1, <2>2, <2>3, Zenon DEF ClearEditorOverlay
            <3> QED  BY <3>1
        <2>5. NoOverlay \in [shown : BOOLEAN, original : Flat] /\ ~ NoOverlay.shown
            BY FlatLaws DEF NoOverlay
        <2>6. WithoutLastLines(Text(p.lines)) = WithoutLastLines(own)  BY <2>1, <2>2, LinesWithoutLast
        <2> QED  BY <2>2, <2>3, <2>4, <2>5, <2>6 DEF Good
    <1> QED  BY <1>1, <1>2

(***************************************************************************)
(* Every step keeps it.                                                    *)
(***************************************************************************)
LEMMA OkFine == ASSUME IInv, text.ok PROVE BufferOK(text) /\ Fine(text)
    BY FineOk DEF IInv, TypeOK, Fine

LEMMA InsertFine ==
    ASSUME NEW t, Fine(t), NEW with \in Seq(Char), panel = "editor" \/ BufferOK(t)
    PROVE  Fine(Insert(t, with))
    <1>1. CASE panel = "editor"  BY <1>1, InsertTextFine DEF Insert
    <1>2. CASE panel # "editor"  BY <1>2, InsertLimitedFine DEF Insert
    <1> QED  BY <1>1, <1>2

LEMMA AcceptInv ==
    ASSUME IInv, text.ok, NEW item \in Item, AcceptCompletion(item), panel' = panel, overlay' = overlay
    PROVE  IInv'
    <1>1. PICK t : t = InsertCompletion(text, item) /\ Fine(t)  BY OkFine, InsertCompletionFine
    <1>2. Refreshed(t) \/ (Leaves(t) /\ popup' = NoPopup)  BY <1>1 DEF AcceptCompletion
    <1>3. CASE Refreshed(t)  BY <1>1, <1>3, RefreshedInv
    <1>4. CASE Leaves(t) /\ popup' = NoPopup  BY <1>1, <1>4, PopupsAre, LeftInv
    <1> QED  BY <1>2, <1>3, <1>4

LEMMA PopupKeyInv == ASSUME IInv, PopupKey PROVE IInv'
    <1>1. PopupOK(popup)  BY DEF IInv, TypeOK
    <1>2. ASSUME PopupOK(popup'), UNCHANGED <<panel, text, overlay, own>> PROVE IInv'
        BY <1>2 DEF IInv, TypeOK, OverlayRestoresText
    <1>3. CASE SelectCompletion
        <2>1. UNCHANGED <<panel, text, overlay, own>> /\ popup.items # <<>>
            BY <1>3 DEF SelectCompletion, EditorKey, TextKey, Visible
        <2>2. PICK n \in Nat, k \in Nat : n = Len(popup.items) /\ k = popup.selected /\ k <= n
            BY <1>1 DEF PopupOK
        <2>3. n > 0  BY <1>1, <2>1, <2>2, EmptySeq DEF PopupOK
        <2>4. PICK j : popup' = [popup EXCEPT !.selected = j]
                       /\ \/ j = IF k = 0 THEN 1 ELSE MinOf(k + 1, n)
                          \/ j = IF k = 0 THEN n ELSE IF k = 1 THEN 1 ELSE k - 1
            BY <1>3, <2>2 DEF SelectCompletion
        <2>5. j \in Nat /\ j <= n  BY <2>2, <2>3, <2>4 DEF MinOf
        <2>6. PopupOK(popup')  BY <1>1, <2>2, <2>4, <2>5 DEF PopupOK
        <2> QED  BY <1>2, <2>1, <2>6
    <1>4. CASE CloseCompletions
        <2>1. UNCHANGED <<panel, text, overlay, own>> /\ popup' = NoPopup
            BY <1>4 DEF CloseCompletions, EditorKey, TextKey
        <2> QED  BY <1>2, <2>1, PopupsAre
    <1>5. CASE EnterAccepts
        <2>1. text.ok /\ UNCHANGED <<panel, overlay>> /\ popup.selected > 0 /\ AcceptCompletion(Current)
            BY <1>5 DEF EnterAccepts, EditorKey, TextKey
        <2>2. Current \in Item  BY <1>1, <2>1, CurrentIs
        <2> QED  BY <2>1, <2>2, AcceptInv
    <1> QED  BY <1>3, <1>4, <1>5 DEF PopupKey

LEMMA EditKeyInv == ASSUME IInv, EditKey PROVE IInv'
    <1>1. PopupOK(popup)  BY DEF IInv, TypeOK
    <1>2. ASSUME NEW t, Fine(t), TextKey, Refreshed(t) PROVE IInv'
        BY <1>2, RefreshedInv DEF TextKey
    <1>3. ASSUME TextKey PROVE BufferOK(text) /\ Fine(text)  BY <1>3, OkFine DEF TextKey
    <1>4. ASSUME NEW ch \in Chars, TypeChar(ch) PROVE IInv'
        <2>1. TextKey /\ Refreshed(Insert(Committed(ch), <<ch>>))  BY <1>4 DEF TypeChar
        <2>2. <<ch>> \in Seq(Char)  BY DEF Chars, Char
        <2>3. Fine(Committed(ch)) /\ (panel = "editor" \/ BufferOK(Committed(ch)))
            <3>1. CASE panel = "editor" /\ ch = Space /\ popup.selected > 0 /\ Current.score = 0
                <4>1. Committed(ch) = InsertCompletion(text, Current)  BY <3>1, Zenon DEF Committed
                <4>2. Current \in Item  BY <1>1, <3>1, CurrentIs
                <4> QED  BY <1>3, <2>1, <3>1, <4>1, <4>2, InsertCompletionFine
            <3>2. CASE ~ (panel = "editor" /\ ch = Space /\ popup.selected > 0 /\ Current.score = 0)
                <4>1. Committed(ch) = text  BY <3>2, Zenon DEF Committed
                <4> QED  BY <1>3, <2>1, <4>1
            <3> QED  BY <3>1, <3>2
        <2>4. Fine(Insert(Committed(ch), <<ch>>))  BY <2>2, <2>3, InsertFine
        <2> QED  BY <1>2, <2>1, <2>4
    <1>5. ASSUME NEW with \in Pastes, Paste(with) PROVE IInv'
        <2>1. TextKey /\ Refreshed(Insert(text, with))  BY <1>5 DEF Paste
        <2>2. with \in Seq(Char)  BY TextsAre
        <2>3. Fine(Insert(text, with))  BY <1>3, <2>1, <2>2, InsertFine
        <2> QED  BY <1>2, <2>1, <2>3
    <1>6. CASE EnterBreaks
        <2>1. TextKey /\ Refreshed(Newline(text))  BY <1>6 DEF EnterBreaks, EditorKey
        <2>2. <<NewLine>> \in Seq(Char)  BY DEF Char
        <2>3. Fine(Newline(text))  BY <1>3, <2>1, <2>2, InsertTextFine DEF Newline
        <2> QED  BY <1>2, <2>1, <2>3
    <1>7. CASE BackspaceKey
        <2>1. TextKey /\ Refreshed(Backspace(text))  BY <1>7 DEF BackspaceKey
        <2>2. BufferOK(text)  BY <1>3, <2>1
        <2>3. CASE HasSelection(text)
            <3>1. Backspace(text) = Collapse(text)  BY <2>3, Zenon DEF Backspace
            <3> QED  BY <1>2, <2>1, <2>2, <3>1, CollapseFine
        <2>4. CASE ~ HasSelection(text)
            <3>1. Fine(Backspace(text))  BY <2>2, <2>4, BackspaceIs DEF Back, Fine
            <3> QED  BY <1>2, <2>1, <3>1
        <2> QED  BY <2>3, <2>4
    <1>8. CASE TabKey
        <2>1. TextKey /\ (Refreshed(InsertTab(text)) \/ Refreshed(text))  BY <1>8 DEF TabKey
        <2>2. Fine(InsertTab(text)) /\ Fine(text)  BY <1>3, <2>1, InsertTabFine
        <2> QED  BY <1>2, <2>1, <2>2
    <1>9. CASE BackTabKey
        <2>1. TextKey /\ Refreshed(Outdent(text))  BY <1>9 DEF BackTabKey
        <2>2. Fine(Outdent(text))  BY <1>3, <2>1, OutdentFine DEF Fine
        <2> QED  BY <1>2, <2>1, <2>2
    <1> QED  BY <1>4, <1>5, <1>6, <1>7, <1>8, <1>9 DEF EditKey

LEMMA MoveKeyInv == ASSUME IInv, NEW extend \in BOOLEAN, MoveKey(extend) PROVE IInv'
    <1>1. PICK t : t = PrepareSelection(text, extend)  OBVIOUS
    <1>2. TextKey /\ \/ Refreshed(MoveUp(t)) \/ Refreshed(MoveDown(t))
                     \/ Refreshed(MoveLeft(t)) \/ Refreshed(MoveRight(t))
        BY <1>1, Zenon DEF MoveKey
    <1>3. text.ok /\ panel' = panel /\ overlay' = overlay  BY <1>2 DEF TextKey
    <1>4. BufferOK(t)  BY <1>1, <1>3, OkFine, PrepareFine
    <1>5. Fine(MoveUp(t)) /\ Fine(MoveDown(t)) /\ Fine(MoveLeft(t)) /\ Fine(MoveRight(t))
        BY <1>4, MoveUpDownFine, MoveLeftFine, MoveRightFine DEF Fine
    <1> QED  BY <1>2, <1>3, <1>5, RefreshedInv

LEMMA HitIs == ASSUME NEW p \in Hits(text), text.ok, IInv PROVE IsPos(p)
    <1>1. PICK r \in 0 .. LastRow(text), c \in 0 .. MaxBytes : p = Pos(r, c)  BY DEF Hits, Places
    <1>2. Pos(r, c).row = r /\ Pos(r, c).col = c  BY PosIs
    <1>3. r \in Nat /\ c \in Nat
        <2>1. MaxBytes \in Nat  BY SqlEditorAssumption
        <2>2. LastRow(text) \in Int
            <3>1. Len(text.lines) \in Nat  BY OkFine, PiecesLen DEF BufferOK, Sound
            <3> QED  BY <3>1 DEF LastRow
        <2> QED  BY <2>1, <2>2
    <1> QED  BY <1>1, <1>2, <1>3 DEF IsPos

LEMMA FocusedFine == ASSUME IInv, text.ok PROVE BufferOK(Focused)
    BY OkFine, MoveToEndFine DEF Focused, BufferOK

LEMMA SetFine ==
    ASSUME NEW t, BufferOK(t), NEW p, IsPos(p) PROVE Fine(SetCursor(t, p))
    BY SetCursorFine DEF BufferOK, Fine

LEMMA MouseInv == ASSUME IInv, Mouse PROVE IInv'
    <1>1. ASSUME NEW t, Fine(t), Click, Refreshed(t) PROVE IInv'
        BY <1>1, RefreshedInv DEF Click
    <1>2. ASSUME Click PROVE text.ok /\ BufferOK(Focused)
        BY <1>2, FocusedFine DEF Click
    <1>3. ASSUME NEW p \in Hits(text), NEW extend \in BOOLEAN, ClickText(p, extend) PROVE IInv'
        <2>1. Click /\ Refreshed(SetCursor(PrepareSelection(Focused, extend), p))  BY <1>3 DEF ClickText
        <2>2. BufferOK(PrepareSelection(Focused, extend)) /\ IsPos(p)  BY <1>2, <2>1, PrepareFine, HitIs
        <2> QED  BY <1>1, <2>1, <2>2, SetFine
    <1>4. ASSUME NEW r \in 0 .. MaxLines - 1, NEW extend \in BOOLEAN, ClickRow(r, extend) PROVE IInv'
        <2>1. r \in Nat /\ r + 1 \in Nat  BY SqlEditorAssumption
        <2>2. PICK p : p = Pos(r, CursorPosition(Focused).col)  OBVIOUS
        <2>3. Click /\ Refreshed(SetCursor(PrepareSelection(EnsureLines(Focused, r + 1), extend), p))
            BY <1>4, <2>2, Zenon DEF ClickRow
        <2>4. BufferOK(PrepareSelection(EnsureLines(Focused, r + 1), extend))
            BY <1>2, <2>1, <2>3, EnsureFine, PrepareFine
        <2>5. IsPos(p)
            <3>1. CursorPosition(Focused) = Pos(Focused.row, Focused.col) /\ IsPos(Pos(Focused.row, Focused.col))
                BY <1>2, <2>3, CursorIs
            <3> QED  BY <2>1, <2>2, <3>1, PosIs DEF IsPos
        <2> QED  BY <1>1, <2>3, <2>4, <2>5, SetFine
    <1>5. ASSUME NEW i \in DOMAIN popup.items, ClickCompletion(i) PROVE IInv'
        <2>1. Click /\ AcceptCompletion(popup.items[i])  BY <1>5 DEF ClickCompletion
        <2>2. popup.items[i] \in Item
            <3>1. popup.items \in Seq(Item)  BY DEF IInv, TypeOK, PopupOK
            <3> QED  BY <3>1
        <2>3. text.ok /\ panel' = panel /\ overlay' = overlay  BY <2>1 DEF Click
        <2> QED  BY <2>1, <2>2, <2>3, AcceptInv
    <1>6. ASSUME NEW from \in DragStarts, NEW to \in Hits(text), Drag(from, to) PROVE IInv'
        <2>1. PICK t : t = SetCursor(ClearSelection(Focused), from)  OBVIOUS
        <2>2. Click /\ from \in Hits(text) /\ Refreshed(SetCursor([t EXCEPT !.anchor = At(from)], to))
            BY <1>6, <2>1, Zenon DEF Drag
        <2>3. IsPos(from) /\ IsPos(to)  BY <1>2, <2>2, HitIs
        <2>4. BufferOK(t)
            <3>1. BufferOK(ClearSelection(Focused))  BY <1>2, <2>2, ClearSelectionFine
            <3> QED  BY <2>1, <2>3, <3>1, SetCursorFine DEF BufferOK
        <2>5. PICK u : u = [t EXCEPT !.anchor = At(from)]  OBVIOUS
        <2>6. Sound(u)
            <3>1. At(from) \in Anchors  BY <2>3 DEF IsPos, At, Anchors
            <3>2. IsBuffer(u) /\ u.ok = t.ok /\ u.lines = t.lines /\ u.anchor = At(from)
                BY <2>4, <2>5 DEF BufferOK, Sound, IsBuffer
            <3> QED  BY <2>4, <3>1, <3>2 DEF BufferOK, Sound
        <2>7. Fine(SetCursor(u, to))  BY <2>3, <2>6, SetCursorFine DEF Fine
        <2> QED  BY <1>1, <2>2, <2>5, <2>7
    <1> QED  BY <1>3, <1>4, <1>5, <1>6 DEF Mouse

LEMMA FocusInv == ASSUME IInv, FocusOther \/ FocusEditor PROVE IInv'
    <1>1. CASE FocusOther
        <2>1. UNCHANGED <<panel, text, own, overlay>> /\ popup' = NoPopup  BY <1>1 DEF FocusOther
        <2> QED  BY <2>1, PopupsAre DEF IInv, TypeOK, OverlayRestoresText
    <1>2. CASE FocusEditor
        <2>1. text.ok /\ Leaves(MoveToEnd(text)) /\ UNCHANGED <<panel, popup, overlay>>  BY <1>2 DEF FocusEditor
        <2>2. Fine(MoveToEnd(text))  BY <2>1, OkFine, MoveToEndFine DEF BufferOK, Fine
        <2>3. PopupOK(popup')  BY <2>1 DEF IInv, TypeOK
        <2> QED  BY <2>1, <2>2, <2>3, LeftInv
    <1> QED  BY <1>1, <1>2

LEMMA GridInv == ASSUME IInv, Grid PROVE IInv'
    <1>1. ASSUME NEW s, Sets(s), text.ok, UNCHANGED <<panel, popup, own>>,
                 \/ s = Panels \/ s = ShowEditorOverlay(Panels) \/ s = ClearEditorOverlay(Panels)
                 \/ s = ShowEditorOverlay(ClearEditorOverlay(Panels))
          PROVE  IInv'
        <2>1. Good(s)  BY <1>1, PanelsGood, ShownGood, ClearedGood
        <2> QED  BY <1>1, <2>1, SetsInv
    <1>2. GridKey => text.ok /\ UNCHANGED <<panel, popup, own>>  BY DEF GridKey, Elsewhere
    <1>3. CASE EditCell
        <2>1. PICK s : s = ShowEditorOverlay(IF grid.armed /\ ~ grid.editing
                                             THEN ClearEditorOverlay(Panels) ELSE Panels)  OBVIOUS
        <2>2. GridKey /\ Sets(s)  BY <1>3, <2>1, Zenon DEF EditCell
        <2>3. s = ShowEditorOverlay(Panels) \/ s = ShowEditorOverlay(ClearEditorOverlay(Panels))
            BY <2>1, Zenon
        <2> QED  BY <1>1, <1>2, <2>2, <2>3
    <1>4. CASE SubmitEdit \/ CancelEdit \/ ConfirmDelete \/ FocusCell \/ ArmDelete
        <2>1. GridKey /\ \/ Sets(Panels) \/ Sets(ClearEditorOverlay(Panels))
                         \/ Sets(ShowEditorOverlay(Panels))
            BY <1>4, Zenon DEF SubmitEdit, CancelEdit, ConfirmDelete, FocusCell, ArmDelete
        <2> QED  BY <1>1, <1>2, <2>1
    <1>5. CASE SelectTop
        <2>1. text.ok /\ UNCHANGED <<panel, popup, overlay>>
              /\ Leaves(SetCursor(SetText(InBytes(SelectTopSql)), Pos(0, 0)))
            BY <1>5 DEF SelectTop, Elsewhere
        <2>2. BufferOK(SetText(InBytes(SelectTopSql)))  BY TextsAre, SetTextFine
        <2>3. IsPos(Pos(0, 0))  BY PosIs DEF IsPos
        <2>4. Fine(SetCursor(SetText(InBytes(SelectTopSql)), Pos(0, 0)))  BY <2>2, <2>3, SetFine
        <2>5. PopupOK(popup')  BY <2>1 DEF IInv, TypeOK
        <2> QED  BY <2>1, <2>4, <2>5, LeftInv
    <1>6. CASE RunQuery
        <2>1. UNCHANGED <<panel, text, popup, overlay, own>>  BY <1>6 DEF RunQuery
        <2> QED  BY <2>1 DEF IInv, TypeOK, OverlayRestoresText
    <1> QED  BY <1>3, <1>4, <1>5, <1>6 DEF Grid

LEMMA AnswersInv == ASSUME IInv, Answers PROVE IInv'
    <1>1. Answer /\ (Sets(Panels) \/ Sets(ClearEditorOverlay(Panels)))
        BY Zenon DEF Answers, AnswerSuccess, AnswerError, AnswerCanceled
    <1>2. text.ok /\ UNCHANGED <<panel, popup, own>>  BY <1>1 DEF Answer
    <1>3. Good(Panels) /\ Good(ClearEditorOverlay(Panels))  BY <1>2, PanelsGood, ClearedGood
    <1> QED  BY <1>1, <1>2, <1>3, SetsInv

\* The invariant holds at first.
LEMMA Initially == Init => IInv
    <1> SUFFICES ASSUME Init PROVE IInv  OBVIOUS
    <1>1. PICK s \in Flat : text = SetText(s)
        <2>1. PICK x : x = IF panel = "editor" THEN InBytes(Placeholder) ELSE <<>>  OBVIOUS
        <2>2. x \in Flat  BY <2>1, TextsAre, FlatLaws
        <2> QED  BY <2>1, <2>2, Zenon DEF Init
    <1>2. BufferOK(text)  BY <1>1, SetTextFine
    <1>3. own = Text(text.lines) /\ own \in Flat  BY <1>2, BufferText DEF Init
    <1>4. popup = NoPopup /\ overlay = NoOverlay /\ panel \in {"editor", "semantic"}  BY DEF Init
    <1>5. NoOverlay \in [shown : BOOLEAN, original : Flat] /\ ~ NoOverlay.shown  BY FlatLaws DEF NoOverlay
    <1>6. TypeOK  BY <1>2, <1>3, <1>4, <1>5, PopupsAre DEF TypeOK, Fine
    <1>7. OverlayRestoresText  BY <1>3, <1>4, <1>5 DEF OverlayRestoresText
    <1> QED  BY <1>6, <1>7 DEF IInv

\* Every step keeps it.
LEMMA Stepwise == IInv /\ [Next]_vars => IInv'
    <1> SUFFICES ASSUME IInv, [Next]_vars PROVE IInv'  OBVIOUS
    <1>1. CASE PopupKey  BY <1>1, PopupKeyInv
    <1>2. CASE EditKey  BY <1>2, EditKeyInv
    <1>3. ASSUME NEW extend \in BOOLEAN, MoveKey(extend) PROVE IInv'  BY <1>3, MoveKeyInv
    <1>4. CASE Mouse  BY <1>4, MouseInv
    <1>5. CASE FocusOther \/ FocusEditor  BY <1>5, FocusInv
    <1>6. CASE Grid  BY <1>6, GridInv
    <1>7. CASE Answers  BY <1>7, AnswersInv
    <1>8. CASE UNCHANGED vars  BY <1>8 DEF vars, IInv, TypeOK, OverlayRestoresText
    <1> QED  BY <1>1, <1>2, <1>3, <1>4, <1>5, <1>6, <1>7, <1>8 DEF Next

\* The inductive invariant: in a buffer no second byte is without its first, and
\* the cursor is in the text, or the session panicked; the selection of the popup is
\* not past its list; and the text of the user is shown, or hidden by the preview.
THEOREM Invariance == Spec => []IInv
    <1>1. Init => IInv  BY Initially
    <1>2. IInv /\ [Next]_vars => IInv'  BY Stepwise
    <1> QED  BY <1>1, <1>2, PTL DEF Spec

\* The text that the user left in the editor survives every preview, whatever
\* edits, deletes and answers come in between (clear_editor_overlay).
THEOREM OverlayRestoresTextHolds == Spec => []OverlayRestoresText
    <1>1. Spec => []IInv  BY Invariance
    <1>2. IInv => OverlayRestoresText  BY DEF IInv
    <1> QED  BY <1>1, <1>2, PTL

(***************************************************************************)
(* An edit in the text as one sequence of bytes.                           *)
(***************************************************************************)
\* A place cuts the text, at the length of what is before it.

(***************************************************************************)
(* An edit in the text as one sequence of bytes.                           *)
(***************************************************************************)
\* A place cuts the text, at the length of what is before it.
LEMMA PlaceCuts ==
    ASSUME NEW ls, NEW r, NEW c, Place(ls, r, c)
    PROVE  /\ Pre(ls, r, c) \in Flat /\ Post(ls, r, c) \in Flat
           /\ Text(ls) = Pre(ls, r, c) ++ Post(ls, r, c)
           /\ Before(Text(ls), Len(Pre(ls, r, c))) = Pre(ls, r, c)
           /\ After(Text(ls), Len(Pre(ls, r, c))) = Post(ls, r, c)
    <1>1. PICK X \in Pieces, b \in Flat, a \in Flat, Y \in Pieces : IsPlace(ls, r, c, X, b, a, Y)
        BY PlaceIs
    <1>2. PICK p \in Flat, q \in Flat : p = Pre(ls, r, c) /\ q = Post(ls, r, c) /\ Text(ls) = p ++ q
        BY <1>1, Zenon DEF IsPlace
    <1>3. Before(p ++ q, Len(p)) = p /\ After(p ++ q, Len(p)) = q  BY CutAt
    <1> QED  BY <1>2, <1>3, Zenon

LEMMA OffsetIs ==
    ASSUME NEW ls, NEW p, Place(ls, p.row, p.col)
    PROVE  Offset(ls, p) = Len(Pre(ls, p.row, p.col))
    <1>1. PICK X \in Pieces, b \in Flat, a \in Flat, Y \in Pieces : IsPlace(ls, p.row, p.col, X, b, a, Y)
        BY PlaceIs
    <1>2. /\ X = SubSeq(ls, 1, p.row) /\ b = Before(ls[p.row + 1], p.col)
          /\ Pre(ls, p.row, p.col) = Ended(X) ++ b
        BY <1>1, Zenon DEF IsPlace
    <1>3. X \o <<b>> = Append(X, b)  BY AppendIsConcat DEF Pieces
    <1>4. Text(Append(X, b)) = Ended(X) ++ b  BY TextAppend
    <1> QED  BY <1>2, <1>3, <1>4, Zenon DEF Offset

LEMMA ValidIs ==
    ASSUME NEW t, BufferOK(t), NEW p, IsPos(p), Valid(t, p)
    PROVE  Place(t.lines, p.row, p.col)
    <1>1. t.lines \in Pieces  BY DEF BufferOK, Sound
    <1>2. p.row < Len(t.lines)  BY <1>1, InTextIs DEF Valid, IsPos
    <1>3. Boundary(t.lines[p.row + 1], p.col)  BY DEF Valid, Line
    <1> QED  BY <1>1, <1>2, <1>3 DEF Place, IsPos, Boundary

\* Where the bytes of two texts are in their concatenation.
Joined(c, a, b) ==
    /\ Len(c) = Len(a) + Len(b)
    /\ \A j \in 1 .. Len(a) : c[j] = a[j]
    /\ \A j \in 1 .. Len(b) : c[Len(a) + j] = b[j]

LEMMA ConcatIs ==
    ASSUME NEW a \in Flat, NEW b \in Flat
    PROVE  Joined(a ++ b, a, b)
    <1>1. a \in Seq(AnyByte) /\ b \in Seq(AnyByte)  BY DEF Flat
    <1>2. Len(a \o b) = Len(a) + Len(b)  BY <1>1
    <1>3. \A j \in 1 .. Len(a) : (a \o b)[j] = a[j]  BY <1>1
    <1>4. \A j \in 1 .. Len(b) : (a \o b)[Len(a) + j] = b[j]  BY <1>1
    <1> QED  BY <1>2, <1>3, <1>4 DEF ++, Joined

\* A newline that leads.
LEMMA NewLineFirst ==
    ASSUME NEW y \in Flat
    PROVE  Len(<<NewLine>> ++ y) > 0 /\ (<<NewLine>> ++ y)[1] = NewLine
    <1>1. PICK n \in Flat : n = <<NewLine>>  BY FlatLaws
    <1>2. PICK k \in Nat : k = Len(y)  BY FlatLen
    <1>3. Len(n) = 1 /\ n[1] = NewLine /\ 1 \in 1 .. 1  BY <1>1
    <1>4. Joined(n ++ y, n, y)  BY ConcatIs
    <1>5. Len(n ++ y) = 1 + k /\ (n ++ y)[1] = n[1]  BY <1>2, <1>3, <1>4 DEF Joined
    <1>6. Len(n ++ y) > 0  BY <1>5
    <1> QED  BY <1>1, <1>3, <1>5, <1>6

\* What is between two places: a part of a line, or lines.
Slice(ls, s, e) ==
    IF s.row = e.row THEN SubSeq(ls[s.row + 1], s.col + 1, e.col)
    ELSE Text(<<After(ls[s.row + 1], s.col)>>
              ++ (SubSeq(ls, s.row + 2, e.row) ++ <<Before(ls[e.row + 1], e.col)>>))

Between(ls, s, e, m) ==
    /\ m = Slice(ls, s, e) /\ Len(m) > 0
    /\ Pre(ls, e.row, e.col) = Pre(ls, s.row, s.col) ++ m
    /\ Post(ls, s.row, s.col) = m ++ Post(ls, e.row, e.col)

\* Two places on a row.
LEMMA BetweenOnRow ==
    ASSUME NEW ls, NEW s, NEW e, Place(ls, s.row, s.col), Place(ls, e.row, e.col),
           s.row = e.row, s.col < e.col
    PROVE  \E m \in Flat : Between(ls, s, e, m)
    <1>1. PICK r, c, d, l : r = s.row /\ r = e.row /\ c = s.col /\ d = e.col /\ l = ls[r + 1]  OBVIOUS
    <1>2. ls \in Pieces /\ r \in Nat /\ c \in Nat /\ d \in Nat /\ c < d /\ d <= Len(l)
          /\ Boundary(l, c) /\ Boundary(l, d) /\ r < Len(ls)
        BY <1>1 DEF Place
    <1>3. l \in Flat /\ Len(l) \in Nat  BY <1>1, <1>2, LineIs
    <1>4. PICK B \in Flat, b \in Flat, m \in Flat :
             B = Before(l, d) /\ b = Before(l, c) /\ m = After(B, c) /\ B = b ++ m /\ Len(m) = d - c
        <2>1. Before(l, d) \in Flat /\ IsSlice(Before(l, d), l, 0, d)  BY <1>2, <1>3, LineSplit
        <2>2. PICK B \in Flat : B = Before(l, d) /\ Len(B) = d  BY <2>1 DEF IsSlice
        <2>3. Before(B, c) = Before(l, c) /\ Boundary(B, c)  BY <1>2, <1>3, <2>2, BeforeBefore
        <2>4. c <= Len(B)  BY <1>2, <2>2
        <2>5. Before(B, c) \in Flat /\ After(B, c) \in Flat /\ B = Before(B, c) ++ After(B, c)
              /\ IsSlice(After(B, c), B, c, Len(B) - c)
            BY <1>2, <2>3, <2>4, LineSplit
        <2> QED  BY <2>2, <2>3, <2>5 DEF IsSlice
    <1>5. PICK X \in Pieces, x \in Flat, a \in Flat, Y \in Pieces : IsPlace(ls, r, c, X, x, a, Y)
        BY <1>1, PlaceIs
    <1>6. PICK V \in Pieces, v \in Flat, w \in Flat, W \in Pieces : IsPlace(ls, r, d, V, v, w, W)
        BY <1>1, PlaceIs
    <1>7. /\ x = b /\ v = B /\ V = X /\ W = Y
          /\ Pre(ls, r, c) = Ended(X) ++ b /\ Pre(ls, r, d) = Ended(X) ++ B
          /\ Post(ls, r, c) = a ++ Led(Y) /\ Post(ls, r, d) = w ++ Led(Y)
          /\ l = B ++ w /\ a = After(l, c) /\ Len(b) = c
        BY <1>1, <1>4, <1>5, <1>6, Zenon DEF IsPlace
    <1>8. PICK X1 \in Flat, Y1 \in Flat : X1 = Ended(X) /\ Y1 = Led(Y)  BY EndedLaws, LedLaws
    <1>9. Pre(ls, r, d) = Pre(ls, r, c) ++ m
        <2>1. X1 ++ (b ++ m) = (X1 ++ b) ++ m  BY FlatLaws
        <2> QED  BY <1>4, <1>7, <1>8, <2>1, Zenon
    <1>10. a = m ++ w
        <2>0. (b ++ m) ++ w = b ++ (m ++ w)  BY FlatLaws
        <2>1. l = b ++ (m ++ w)  BY <1>4, <1>7, <2>0, Zenon
        <2>2. m ++ w \in Flat  BY FlatLaws
        <2>3. After(b ++ (m ++ w), Len(b)) = m ++ w  BY <2>2, CutAt
        <2> QED  BY <1>7, <2>1, <2>3
    <1>11. Post(ls, r, c) = m ++ Post(ls, r, d)  BY <1>7, <1>8, <1>10, FlatLaws
    <1>12. m = SubSeq(l, c + 1, d)
        <2>1. SubSeq(l, c + 1, d) \in Seq(AnyByte) /\ IsSlice(SubSeq(l, c + 1, d), l, c, d - c)
            <3>1. l \in Seq(AnyByte) /\ c <= d  BY <1>2, <1>3 DEF Flat
            <3> QED  BY <1>2, <3>1, SliceIs
        <2>2. PICK S \in Seq(AnyByte) : S = SubSeq(l, c + 1, d) /\ Len(S) = d - c /\ \A j \in 1 .. d - c : S[j] = l[c + j]
            BY <2>1 DEF IsSlice
        <2>3. IsSlice(B, l, 0, d) /\ IsSlice(m, B, c, Len(B) - c)
            <3>1. IsSlice(B, l, 0, d)  BY <1>2, <1>3, <1>4, LineSplit
            <3>2. Len(B) = d /\ c <= Len(B)  BY <1>2, <3>1 DEF IsSlice
            <3> QED  BY <1>2, <1>4, <3>1, <3>2, LineSplit
        <2>4. ASSUME NEW j \in 1 .. d - c PROVE m[j] = S[j]
            <3>1. Len(B) = d  BY <2>3 DEF IsSlice
            <3>2. m[j] = B[c + j] /\ c + j \in 1 .. d  BY <1>2, <2>3, <3>1 DEF IsSlice
            <3>3. B[c + j] = l[0 + (c + j)] /\ 0 + (c + j) = c + j  BY <2>3, <3>2 DEF IsSlice
            <3> QED  BY <2>2, <3>2, <3>3
        <2>5. m \in Seq(AnyByte)  BY DEF Flat
        <2>6. Len(m) = Len(S) /\ Len(S) = d - c  BY <1>4, <2>2
        <2>7. m = S  BY <2>2, <2>4, <2>5, <2>6, SeqEqual
        <2> QED  BY <2>2, <2>7
    <1>13. Len(m) > 0
        <2>1. Len(m) = d - c  BY <1>4
        <2>2. d - c > 0  BY <1>2
        <2> QED  BY <2>1, <2>2
    <1>14. m = Slice(ls, s, e)  BY <1>1, <1>12 DEF Slice
    <1> QED  BY <1>1, <1>9, <1>11, <1>13, <1>14, Zenon DEF Between

StartOf(u, s, n) == Len(u) = n /\ \A j \in 1 .. n : u[j] = s[j]

LEMMA PrefixOf ==
    ASSUME NEW E, NEW s \in Seq(E), NEW n \in Nat, n <= Len(s)
    PROVE  SubSeq(s, 1, n) \in Seq(E) /\ StartOf(SubSeq(s, 1, n), s, n)
    <1>1. PICK u \in Seq(E) : u = SubSeq(s, 1, n) /\ IsSlice(u, s, 0, n)  BY SplitIs
    <1>2. \A j \in 1 .. n : u[j] = s[0 + j] /\ 0 + j = j  BY <1>1 DEF IsSlice
    <1>3. Len(u) = n  BY <1>1 DEF IsSlice
    <1> QED  BY <1>1, <1>2, <1>3 DEF StartOf

\* The lines from one to another.
LEMMA LinesBetween ==
    ASSUME NEW ls \in Pieces, NEW r \in Nat, NEW q \in Nat, r < q, q < Len(ls)
    PROVE  LET X == SubSeq(ls, 1, r)
               M == SubSeq(ls, r + 2, q)
               Y == SubSeq(ls, q + 2, Len(ls))
           IN  /\ M \in Pieces /\ Len(M) = q - r - 1
               /\ SubSeq(ls, 1, q) = X ++ (<<ls[r + 1]>> ++ M)
               /\ SubSeq(ls, r + 2, Len(ls)) = M ++ (<<ls[q + 1]>> ++ Y)
    <1>1. PICK n \in Nat : n = Len(ls)  BY PiecesLen
    <1>2. PICK X \in Pieces, Y \in Pieces, k \in Flat, l \in Flat, V \in Pieces :
             /\ X = SubSeq(ls, 1, r) /\ k = ls[r + 1] /\ V = SubSeq(ls, 1, q)
             /\ l = ls[q + 1] /\ Y = SubSeq(ls, q + 2, n)
             /\ ls = V ++ (<<l>> ++ Y)
        <2>1. r < Len(ls)  BY <1>1
        <2>2. SubSeq(ls, 1, r) \in Pieces /\ ls[r + 1] \in Flat  BY <2>1, AroundLine
        <2>3. SubSeq(ls, 1, q) \in Pieces /\ SubSeq(ls, q + 2, n) \in Pieces /\ ls[q + 1] \in Flat
              /\ ls = SubSeq(ls, 1, q) ++ (<<ls[q + 1]>> ++ SubSeq(ls, q + 2, n))
            BY <1>1, AroundLine
        <2> QED  BY <2>2, <2>3
    <1>3. Len(V) = q /\ \A j \in 1 .. q : V[j] = ls[j]
        <2>1. IsSlice(V, ls, 0, q)  BY <1>1, <1>2, PiecesSplit
        <2> QED  BY <2>1 DEF IsSlice
    <1>4. PICK M \in Pieces : /\ M = SubSeq(V, r + 2, Len(V)) /\ V = X ++ (<<k>> ++ M)
        <2>1. r < Len(V)  BY <1>3
        <2>2. SubSeq(V, 1, r) = X
            <3>1. V \in Seq(Flat) /\ ls \in Seq(Flat) /\ r <= Len(V) /\ r <= Len(ls)  BY <1>1, <1>3 DEF Pieces
            <3>2. PICK S \in Seq(Flat) : S = SubSeq(V, 1, r) /\ Len(S) = r /\ \A j \in 1 .. r : S[j] = V[j]
                <4>1. SubSeq(V, 1, r) \in Seq(Flat) /\ StartOf(SubSeq(V, 1, r), V, r)  BY <3>1, PrefixOf
                <4> QED  BY <4>1 DEF StartOf
            <3>3. X \in Seq(Flat) /\ Len(X) = r /\ \A j \in 1 .. r : X[j] = ls[j]
                <4>1. SubSeq(ls, 1, r) \in Seq(Flat) /\ StartOf(SubSeq(ls, 1, r), ls, r)  BY <3>1, PrefixOf
                <4> QED  BY <1>2, <4>1 DEF StartOf
            <3>4. \A j \in 1 .. r : S[j] = X[j]  BY <1>3, <3>2, <3>3
            <3> QED  BY <3>2, <3>3, <3>4, SeqEqual
        <2>3. V[r + 1] = k
            <3>1. r + 1 \in 1 .. q  OBVIOUS
            <3> QED  BY <1>2, <1>3, <3>1
        <2>4. SubSeq(V, r + 2, Len(V)) \in Pieces
              /\ V = SubSeq(V, 1, r) ++ (<<V[r + 1]>> ++ SubSeq(V, r + 2, Len(V)))
            BY <2>1, AroundLine
        <2> QED  BY <2>2, <2>3, <2>4, Zenon
    <1>5. M = SubSeq(ls, r + 2, q) /\ Len(M) = q - r - 1
        <2>0. r + 1 \in Nat /\ r + 1 <= q /\ r + 2 = (r + 1) + 1 /\ q - (r + 1) = q - r - 1 /\ q <= Len(ls) /\ q <= Len(V)
            BY <1>1, <1>3
        <2>1. V \in Seq(Flat) /\ ls \in Seq(Flat)  BY DEF Pieces
        <2>2. PICK S \in Seq(Flat) : S = SubSeq(ls, (r + 1) + 1, q) /\ IsSlice(S, ls, r + 1, q - (r + 1))
            BY <2>0, <2>1, SliceIs
        <2>3. PICK T \in Seq(Flat) : T = SubSeq(V, (r + 1) + 1, q) /\ IsSlice(T, V, r + 1, q - (r + 1))
            BY <2>0, <2>1, SliceIs
        <2>4. \A j \in 1 .. q - (r + 1) : S[j] = T[j]
            <3> TAKE j \in 1 .. q - (r + 1)
            <3>1. (r + 1) + j \in 1 .. q  BY <2>0
            <3> QED  BY <1>3, <2>2, <2>3, <3>1 DEF IsSlice
        <2>5. Len(S) = q - (r + 1) /\ Len(T) = q - (r + 1)  BY <2>2, <2>3 DEF IsSlice
        <2>6. S = T  BY <2>4, <2>5, SeqEqual
        <2> QED  BY <1>3, <1>4, <2>0, <2>2, <2>3, <2>5, <2>6, Zenon
    <1>6. SubSeq(ls, r + 2, n) = M ++ (<<l>> ++ Y)
        <2>0. PICK Z \in Pieces : Z = M ++ (<<l>> ++ Y)  BY PiecesLaws
        <2>1. ls = X ++ (<<k>> ++ Z)
            <3>1. <<l>> ++ Y \in Pieces /\ <<k>> ++ M \in Pieces /\ <<k>> \in Pieces  BY PiecesLaws
            <3>2. (X ++ (<<k>> ++ M)) ++ (<<l>> ++ Y) = X ++ ((<<k>> ++ M) ++ (<<l>> ++ Y))  BY <3>1, PiecesLaws
            <3>3. (<<k>> ++ M) ++ (<<l>> ++ Y) = <<k>> ++ (M ++ (<<l>> ++ Y))  BY <3>1, PiecesLaws
            <3> QED  BY <1>2, <1>4, <2>0, <3>2, <3>3, Zenon
        <2>2. Len(X) = r
            <3>1. r <= Len(ls)  BY <1>1
            <3>2. IsSlice(SubSeq(ls, 1, r), ls, 0, r)  BY <3>1, PiecesSplit
            <3> QED  BY <1>2, <3>2 DEF IsSlice
        <2>3. IsAround(ls, r, X, k, Z)  BY <2>1, <2>2, AroundIs, Zenon
        <2> QED  BY <1>1, <2>0, <2>3 DEF IsAround
    <1> QED  BY <1>1, <1>2, <1>4, <1>5, <1>6, Zenon

\* Two places on two rows.
LEMMA BetweenRows ==
    ASSUME NEW ls, NEW s, NEW e, Place(ls, s.row, s.col), Place(ls, e.row, e.col), s.row < e.row
    PROVE  \E m \in Flat : Between(ls, s, e, m)
    <1>1. PICK r, q, c, d : r = s.row /\ q = e.row /\ c = s.col /\ d = e.col  OBVIOUS
    <1>2. ls \in Pieces /\ r \in Nat /\ q \in Nat /\ r < q /\ q < Len(ls)  BY <1>1 DEF Place
    <1>3. PICK X \in Pieces, b \in Flat, a \in Flat, Y \in Pieces : IsPlace(ls, r, c, X, b, a, Y)
        BY <1>1, PlaceIs
    <1>4. PICK V \in Pieces, v \in Flat, w \in Flat, W \in Pieces : IsPlace(ls, q, d, V, v, w, W)
        BY <1>1, PlaceIs
    <1>5. PICK M \in Pieces : /\ M = SubSeq(ls, r + 2, q)
                              /\ V = X ++ (<<b ++ a>> ++ M) /\ Y = M ++ (<<v ++ w>> ++ W)
        <2>1. X = SubSeq(ls, 1, r) /\ ls[r + 1] = b ++ a /\ Y = SubSeq(ls, r + 2, Len(ls))
            BY <1>3, Zenon DEF IsPlace
        <2>2. V = SubSeq(ls, 1, q) /\ ls[q + 1] = v ++ w /\ W = SubSeq(ls, q + 2, Len(ls))
            BY <1>4, Zenon DEF IsPlace
        <2>3. /\ SubSeq(ls, r + 2, q) \in Pieces
              /\ SubSeq(ls, 1, q) = SubSeq(ls, 1, r) ++ (<<ls[r + 1]>> ++ SubSeq(ls, r + 2, q))
              /\ SubSeq(ls, r + 2, Len(ls))
                   = SubSeq(ls, r + 2, q) ++ (<<ls[q + 1]>> ++ SubSeq(ls, q + 2, Len(ls)))
            BY <1>2, LinesBetween
        <2> QED  BY <2>1, <2>2, <2>3, Zenon
    <1>6. PICK n \in Flat, x \in Flat, lm \in Flat, em \in Flat, lw \in Flat :
             n = <<NewLine>> /\ x = Ended(X) /\ lm = Led(M) /\ em = Ended(M) /\ lw = Led(W)
        BY FlatLaws, LedLaws, EndedLaws
    <1>7. n ++ em = lm ++ n  BY <1>6, Shift
    <1>8. PICK k \in Flat : k = b ++ a  BY FlatLaws
    <1>9. PICK l \in Flat : l = v ++ w  BY FlatLaws
    <1>10. Ended(V) = x ++ ((k ++ n) ++ em)
        <2>1. <<k>> \in Pieces /\ <<k>> ++ M \in Pieces  BY PiecesLaws
        <2>2. Ended(X ++ (<<k>> ++ M)) = Ended(X) ++ Ended(<<k>> ++ M)  BY <2>1, EndedLaws
        <2>3. Ended(<<k>> ++ M) = Ended(<<k>>) ++ Ended(M)  BY <2>1, EndedLaws
        <2>4. Ended(<<k>>) = k ++ n  BY <1>6, EndedLaws
        <2> QED  BY <1>5, <1>6, <1>8, <2>2, <2>3, <2>4, Zenon
    <1>11. Led(Y) = lm ++ ((n ++ l) ++ lw)
        <2>1. <<l>> \in Pieces /\ <<l>> ++ W \in Pieces  BY PiecesLaws
        <2>2. Led(M ++ (<<l>> ++ W)) = Led(M) ++ Led(<<l>> ++ W)  BY <2>1, LedLaws
        <2>3. Led(<<l>> ++ W) = Led(<<l>>) ++ Led(W)  BY <2>1, LedLaws
        <2>4. Led(<<l>>) = n ++ l  BY <1>6, LedLaws
        <2> QED  BY <1>5, <1>6, <1>9, <2>2, <2>3, <2>4, Zenon
    <1>12. PICK m \in Flat : m = a ++ (n ++ (em ++ v))
        <2>1. PICK z \in Flat : z = em ++ v  BY FlatLaws
        <2>2. PICK y \in Flat : y = n ++ z  BY FlatLaws
        <2>3. a ++ y \in Flat  BY FlatLaws
        <2> QED  BY <2>1, <2>2, <2>3
    <1>13. Pre(ls, q, d) = Pre(ls, r, c) ++ m
        <2>1. Pre(ls, q, d) = Ended(V) ++ v /\ Pre(ls, r, c) = x ++ b
            BY <1>3, <1>4, <1>6, Zenon DEF IsPlace
        <2>2. PICK z \in Flat : z = em ++ v  BY FlatLaws
        <2>3. PICK y \in Flat : y = n ++ z  BY FlatLaws
        <2>4. PICK g \in Flat : g = (k ++ n) ++ em /\ k ++ n \in Flat  BY FlatLaws
        <2>5. (x ++ g) ++ v = x ++ (g ++ v)  BY FlatLaws
        <2>6. g ++ v = (k ++ n) ++ z  BY <2>2, <2>4, FlatLaws
        <2>7. (k ++ n) ++ z = k ++ y  BY <2>3, FlatLaws
        <2>8. (b ++ a) ++ y = b ++ (a ++ y)  BY FlatLaws
        <2>9. a ++ y \in Flat  BY FlatLaws
        <2>10. x ++ (b ++ (a ++ y)) = (x ++ b) ++ (a ++ y)  BY <2>9, FlatLaws
        <2> QED  BY <1>8, <1>10, <1>12, <2>1, <2>2, <2>3, <2>4, <2>5, <2>6, <2>7, <2>8, <2>10, Zenon
    <1>14. Post(ls, r, c) = m ++ Post(ls, q, d)
        <2>1. Post(ls, r, c) = a ++ Led(Y) /\ Post(ls, q, d) = w ++ lw
            BY <1>3, <1>4, <1>6, Zenon DEF IsPlace
        <2>2. PICK g \in Flat : g = w ++ lw  BY FlatLaws
        <2>3. PICK h \in Flat : h = v ++ g  BY FlatLaws
        <2>4. (n ++ l) ++ lw = n ++ (l ++ lw)  BY FlatLaws
        <2>5. l ++ lw = h  BY <1>9, <2>2, <2>3, FlatLaws
        <2>6. lm ++ (n ++ h) = (lm ++ n) ++ h  BY FlatLaws
        <2>7. (n ++ em) ++ h = n ++ (em ++ h)  BY FlatLaws
        <2>8. em ++ (v ++ g) = (em ++ v) ++ g  BY FlatLaws
        <2>9. PICK z \in Flat : z = em ++ v  BY FlatLaws
        <2>10. n ++ (z ++ g) = (n ++ z) ++ g  BY FlatLaws
        <2>11. PICK y \in Flat : y = n ++ z  BY FlatLaws
        <2>12. a ++ (y ++ g) = (a ++ y) ++ g  BY FlatLaws
        <2>13. Led(Y) = y ++ g
            BY <1>7, <1>11, <2>3, <2>4, <2>5, <2>6, <2>7, <2>8, <2>9, <2>10, <2>11, Zenon
        <2> QED  BY <1>12, <2>1, <2>2, <2>9, <2>11, <2>12, <2>13, Zenon
    <1>15. Text(<<a>> ++ (M ++ <<v>>)) = m
        <2>1. <<v>> \in Pieces /\ M ++ <<v>> \in Pieces  BY PiecesLaws
        <2>2. Text(<<a>> ++ (M ++ <<v>>)) = a ++ Led(M ++ <<v>>)  BY <2>1, TextOfFirst
        <2>3. Led(M ++ <<v>>) = lm ++ (n ++ v)
            <3>1. Led(M ++ <<v>>) = Led(M) ++ Led(<<v>>)  BY <2>1, LedLaws
            <3>2. Led(<<v>>) = n ++ v  BY <1>6, LedLaws
            <3> QED  BY <1>6, <3>1, <3>2, Zenon
        <2>4. lm ++ (n ++ v) = (lm ++ n) ++ v  BY FlatLaws
        <2>5. (n ++ em) ++ v = n ++ (em ++ v)  BY FlatLaws
        <2> QED  BY <1>7, <1>12, <2>2, <2>3, <2>4, <2>5, Zenon
    <1>16. m = Slice(ls, s, e)
        <2>1. a = After(ls[r + 1], c) /\ v = Before(ls[q + 1], d)  BY <1>3, <1>4, Zenon DEF IsPlace
        <2>2. s.row # e.row  BY <1>1, <1>2
        <2> QED  BY <1>1, <1>5, <1>15, <2>1, <2>2, Zenon DEF Slice
    <1>17. Len(m) > 0
        <2>1. PICK y \in Flat : y = em ++ v  BY FlatLaws
        <2>2. Len(n ++ y) = Len(n) + Len(y) /\ n ++ y \in Flat  BY CutAt, FlatLaws
        <2>3. Len(a ++ (n ++ y)) = Len(a) + Len(n ++ y)  BY <2>2, CutAt
        <2>4. Len(n) = 1  BY <1>6
        <2>5. Len(a) \in Nat /\ Len(y) \in Nat  BY FlatLen
        <2>6. Len(a ++ (n ++ y)) > 0  BY <2>2, <2>3, <2>4, <2>5
        <2> QED  BY <1>12, <2>1, <2>6
    <1> QED  BY <1>1, <1>13, <1>14, <1>16, <1>17, Zenon DEF Between

\* What precedes the later of two places is what precedes the other and what is between.
LEMMA BetweenIs ==
    ASSUME NEW ls, NEW s, NEW e, Place(ls, s.row, s.col), Place(ls, e.row, e.col),
           Precedes(s, e), s.row = e.row => s.col # e.col
    PROVE  \E m \in Flat : Between(ls, s, e, m)
    <1>1. s.row \in Nat /\ e.row \in Nat /\ s.col \in Nat /\ e.col \in Nat  BY DEF Place
    <1>2. s.row < e.row \/ (s.row = e.row /\ s.col < e.col)  BY <1>1 DEF Precedes
    <1> QED  BY <1>2, BetweenOnRow, BetweenRows

LEMMA TextOfOne == \A a \in Flat : Text(<<a>>) = a
    <1> SUFFICES ASSUME NEW a \in Flat PROVE Text(<<a>>) = a  OBVIOUS
    <1>1. <<>> \in Pieces /\ <<a>> ++ <<>> = <<a>> /\ Led(<<>>) = <<>> /\ a ++ <<>> = a
        BY FlatLaws, PiecesLaws, LedLaws
    <1>2. Text(<<a>> ++ <<>>) = a ++ Led(<<>>)  BY <1>1, TextOfFirst
    <1> QED  BY <1>1, <1>2, Zenon

\* The pieces of the lines from row r to row q, between columns c and d.
PieceOf(ls, r, c, q, d, i) ==
    SubSeq(ls[i + 1], (IF i = r THEN c ELSE 0) + 1, IF i = q THEN d ELSE Len(ls[i + 1]))

PiecesOf(ls, r, c, q, d) == [i \in 1 .. q - r + 1 |-> PieceOf(ls, r, c, q, d, r + i - 1)]

PiecedTogether(ls, r, c, q, d) ==
    PiecesOf(ls, r, c, q, d)
        = <<After(ls[r + 1], c)>> ++ (SubSeq(ls, r + 2, q) ++ <<Before(ls[q + 1], d)>>)

LEMMA PiecesAre ==
    ASSUME NEW ls \in Pieces, NEW r \in Nat, NEW q \in Nat, r < q, q < Len(ls),
           NEW c, After(ls[r + 1], c) \in Flat, NEW d, Before(ls[q + 1], d) \in Flat
    PROVE  PiecedTogether(ls, r, c, q, d)
    <1>0. PICK a \in Flat, v \in Flat : a = After(ls[r + 1], c) /\ v = Before(ls[q + 1], d)  OBVIOUS
    <1>1. PICK n \in Nat : n = q - r - 1 /\ q - r + 1 = n + 2 /\ q = r + n + 1 /\ r + 1 + n <= Len(ls)
        BY PiecesLen
    <1>2. PICK M \in Seq(Flat) : M = SubSeq(ls, r + 2, q) /\ Len(M) = n /\ \A j \in 1 .. n : M[j] = ls[r + 1 + j]
        <2>1. r + 1 \in Nat /\ r + 1 <= q /\ q <= Len(ls) /\ (r + 1) + 1 = r + 2 /\ q - (r + 1) = n  BY <1>1, PiecesLen
        <2>2. SubSeq(ls, (r + 1) + 1, q) \in Seq(Flat) /\ IsSlice(SubSeq(ls, (r + 1) + 1, q), ls, r + 1, q - (r + 1))
            BY <2>1, SliceIs DEF Pieces
        <2> QED  BY <2>1, <2>2 DEF IsSlice
    <1>3. PICK Q \in Seq(Flat) : /\ Q = <<a>> ++ (M ++ <<v>>) /\ Len(Q) = n + 2 /\ Q[1] = a /\ Q[n + 2] = v
                                 /\ \A j \in 1 .. n : Q[j + 1] = M[j]
        <2>1. PICK N \in Seq(Flat) : /\ N = M \o <<v>> /\ Len(N) = n + 1 /\ N[n + 1] = v
                                     /\ \A j \in 1 .. n : N[j] = M[j]
            <3>1. <<v>> \in Seq(Flat) /\ Len(<<v>>) = 1 /\ <<v>>[1] = v  OBVIOUS
            <3>2. M \o <<v>> \in Seq(Flat) /\ Len(M \o <<v>>) = n + 1  BY <1>2, <3>1
            <3>3. (M \o <<v>>)[n + 1] = v  BY <1>2, <3>1
            <3>4. \A j \in 1 .. n : (M \o <<v>>)[j] = M[j]  BY <1>2, <3>1
            <3> QED  BY <3>2, <3>3, <3>4
        <2>2. PICK Q \in Seq(Flat) : /\ Q = <<a>> \o N /\ Len(Q) = n + 2 /\ Q[1] = a
                                     /\ \A j \in 1 .. n + 1 : Q[j + 1] = N[j]
            <3>1. <<a>> \in Seq(Flat) /\ Len(<<a>>) = 1 /\ <<a>>[1] = a  OBVIOUS
            <3>2. <<a>> \o N \in Seq(Flat) /\ Len(<<a>> \o N) = n + 2  BY <2>1, <3>1
            <3>3. (<<a>> \o N)[1] = a  BY <2>1, <3>1
            <3>4. \A j \in 1 .. n + 1 : (<<a>> \o N)[j + 1] = N[j]  BY <2>1, <3>1
            <3> QED  BY <3>2, <3>3, <3>4
        <2>3. Q[(n + 1) + 1] = N[n + 1] /\ (n + 1) + 1 = n + 2  BY <2>2
        <2>4. Q[n + 2] = v  BY <2>1, <2>3
        <2>5. \A j \in 1 .. n : j \in 1 .. n + 1 /\ Q[j + 1] = M[j]  BY <2>1, <2>2
        <2> QED  BY <2>1, <2>2, <2>4, <2>5, Zenon DEF ++
    <1>4. ASSUME NEW i \in 1 .. n + 2 PROVE PieceOf(ls, r, c, q, d, r + i - 1) = Q[i]
        <2>1. PICK k \in Nat : k = r + i - 1 /\ k <= q /\ k + 1 = r + i /\ k < Len(ls)  BY <1>1, PiecesLen
        <2>2. CASE i = 1
            <3>1. k = r /\ k # q  BY <2>1, <2>2
            <3>2. PieceOf(ls, r, c, q, d, k) = SubSeq(ls[r + 1], c + 1, Len(ls[r + 1]))  BY <3>1 DEF PieceOf
            <3> QED  BY <1>0, <1>3, <2>1, <2>2, <3>2 DEF After
        <2>3. CASE i = n + 2
            <3>1. k = q /\ k # r /\ 0 + 1 = 1  BY <1>1, <2>1, <2>3
            <3>2. PieceOf(ls, r, c, q, d, k) = SubSeq(ls[q + 1], 1, d)  BY <3>1 DEF PieceOf
            <3> QED  BY <1>0, <1>3, <2>1, <2>3, <3>2 DEF Before
        <2>4. CASE i # 1 /\ i # n + 2
            <3>1. k # q /\ k # r /\ 0 + 1 = 1  BY <1>1, <2>1, <2>4
            <3>2. PieceOf(ls, r, c, q, d, k) = SubSeq(ls[k + 1], 1, Len(ls[k + 1]))  BY <3>1 DEF PieceOf
            <3>3. ls[k + 1] \in Seq(AnyByte)  BY <2>1, LineIs DEF Flat
            <3>4. SubSeq(ls[k + 1], 1, Len(ls[k + 1])) = ls[k + 1]  BY <3>3, SubSeqFull
            <3>5. PICK j \in 1 .. n : j + 1 = i  BY <2>4, i - 1 \in 1 .. n, (i - 1) + 1 = i
            <3>6. r + 1 + j = k + 1  BY <2>1, <3>5
            <3>7. Q[i] = ls[k + 1]  BY <1>2, <1>3, <3>5, <3>6
            <3> QED  BY <2>1, <3>2, <3>4, <3>7
        <2> QED  BY <2>2, <2>3, <2>4
    <1>5. [i \in 1 .. n + 2 |-> PieceOf(ls, r, c, q, d, r + i - 1)] = Q
        <2>1. PICK f : f = [i \in 1 .. n + 2 |-> PieceOf(ls, r, c, q, d, r + i - 1)]  OBVIOUS
        <2>2. f = [i \in 1 .. n + 2 |-> f[i]] /\ \A i \in 1 .. n + 2 : f[i] = Q[i]
            <3>1. \A i \in 1 .. n + 2 : f[i] = PieceOf(ls, r, c, q, d, r + i - 1)  BY <2>1
            <3>2. f = [i \in 1 .. n + 2 |-> f[i]]  BY <2>1
            <3> QED  BY <1>4, <3>1, <3>2
        <2>3. Q = [i \in 1 .. n + 2 |-> Q[i]]
            <3>1. Len(Q) = n + 2  BY <1>3
            <3>2. DOMAIN Q = 1 .. n + 2  BY <3>1
            <3> QED  BY <3>2
        <2>4. f = Q  BY <2>2, <2>3
        <2> QED  BY <2>1, <2>4
    <1>6. PiecesOf(ls, r, c, q, d) = Q  BY <1>1, <1>5, Zenon DEF PiecesOf
    <1> QED  BY <1>0, <1>2, <1>3, <1>6, Zenon DEF PiecedTogether

\* The text of the selection is what is between its ends.
LEMMA SelectedTextIs ==
    ASSUME NEW t, t.lines \in Pieces, NEW s, NEW e, SelectionRange(t) = Range2(s, e),
           Place(t.lines, s.row, s.col), Place(t.lines, e.row, e.col),
           NEW m \in Flat, Between(t.lines, s, e, m), Precedes(s, e)
    PROVE  SelectedText(t) = m
    <1>1. PICK ls, r, q, c, d : ls = t.lines /\ r = s.row /\ q = e.row /\ c = s.col /\ d = e.col  OBVIOUS
    <1>2. ls \in Pieces /\ r \in Nat /\ q \in Nat /\ r <= q /\ q < Len(ls) /\ c \in Nat /\ d \in Nat
        BY <1>1 DEF Place, Precedes
    <1>3. MinOf(q, LastRow(t)) = q  BY <1>1, <1>2, PiecesLen DEF MinOf, LastRow
    <1>4. ColOf(t, s) = c /\ ColOf(t, e) = d
        <2>1. IsPos(s) /\ IsPos(e)  BY <1>1, <1>2 DEF IsPos
        <2>2. c <= Len(ls[r + 1]) /\ d <= Len(ls[q + 1]) /\ r < Len(ls)  BY <1>1 DEF Place
        <2> QED  BY <1>1, <1>2, <2>1, <2>2, ColIs
    <1> DEFINE piece(i) == LET line == Line(t, i)
                               from == IF i = r THEN ColOf(t, s) ELSE 0
                               to   == IF i = q THEN ColOf(t, e) ELSE Len(line)
                           IN  SubSeq(line, from + 1, to)
    <1>5. SelectedText(t) = Text([i \in 1 .. q - r + 1 |-> piece(r + i - 1)])
        <2>1. Range2(s, e).start = s /\ Range2(s, e).end = e  BY Range2Is
        <2> QED  BY <1>1, <1>3, <2>1, Zenon DEF SelectedText
    <1>6. \A i : piece(i) = PieceOf(ls, r, c, q, d, i)  BY <1>1, <1>4 DEF PieceOf, Line
    <1> HIDE DEF piece
    <1>7. SelectedText(t) = Text(PiecesOf(ls, r, c, q, d))
        <2>1. [i \in 1 .. q - r + 1 |-> piece(r + i - 1)] = PiecesOf(ls, r, c, q, d)
            BY <1>6 DEF PiecesOf
        <2> QED  BY <1>5, <2>1, Zenon
    <1>8. CASE r = q
        <2>1. q - r + 1 = 1  BY <1>2, <1>8
        <2>2. PieceOf(ls, r, c, q, d, r + 1 - 1) = SubSeq(ls[r + 1], c + 1, d)
            <3>1. r + 1 - 1 = r  BY <1>2
            <3> QED  BY <1>8, <3>1 DEF PieceOf
        <2>3. m = SubSeq(ls[r + 1], c + 1, d)  BY <1>1, <1>8 DEF Between, Slice
        <2>4. [i \in 1 .. 1 |-> PieceOf(ls, r, c, q, d, r + i - 1)] = <<m>>
            <3>1. \A i \in 1 .. 1 : PieceOf(ls, r, c, q, d, r + i - 1) = m
                <4>1. \A i \in 1 .. 1 : i = 1  OBVIOUS
                <4> QED  BY <2>2, <2>3, <4>1
            <3>2. <<m>> = [i \in 1 .. 1 |-> m]  OBVIOUS
            <3> QED  BY <3>1, <3>2
        <2>5. PiecesOf(ls, r, c, q, d) = <<m>>  BY <2>1, <2>4, Zenon DEF PiecesOf
        <2> QED  BY <1>7, <2>5, TextOfOne, Zenon
    <1>9. CASE r # q
        <2>1. PICK a \in Flat, v \in Flat : a = After(ls[r + 1], c) /\ v = Before(ls[q + 1], d)
            <3>1. \E X \in Pieces, b \in Flat, a \in Flat, Y \in Pieces : IsPlace(ls, r, c, X, b, a, Y)
                BY <1>1, PlaceIs
            <3>2. \E X \in Pieces, b \in Flat, a \in Flat, Y \in Pieces : IsPlace(ls, q, d, X, b, a, Y)
                BY <1>1, PlaceIs
            <3> QED  BY <3>1, <3>2, Zenon DEF IsPlace
        <2>2. m = Text(<<a>> ++ (SubSeq(ls, r + 2, q) ++ <<v>>))
            BY <1>1, <1>9, <2>1 DEF Between, Slice
        <2>3. r < q  BY <1>2, <1>9
        <2>4. PiecesOf(ls, r, c, q, d) = <<a>> ++ (SubSeq(ls, r + 2, q) ++ <<v>>)
            <3>1. After(ls[r + 1], c) \in Flat /\ Before(ls[q + 1], d) \in Flat  BY <2>1
            <3>2. ls \in Pieces /\ r \in Nat /\ q \in Nat /\ q < Len(ls)  BY <1>2
            <3>3. PiecedTogether(ls, r, c, q, d)  BY <2>3, <3>1, <3>2, PiecesAre
            <3> QED  BY <2>1, <3>3, Zenon DEF PiecedTogether
        <2> QED  BY <1>7, <2>2, <2>4, Zenon
    <1> QED  BY <1>8, <1>9

\* What is removed between two places leaves what is before and after.
LEMMA RemoveIs ==
    ASSUME NEW t, BufferOK(t), NEW s, NEW e,
           Place(t.lines, s.row, s.col), Place(t.lines, e.row, e.col),
           Precedes(s, e), s.row = e.row => s.col # e.col
    PROVE  LET u == RemoveRange(t, Range2(s, e))
           IN  /\ Sound(u) /\ Place(u.lines, s.row, s.col)
               /\ Pre(u.lines, s.row, s.col) = Pre(t.lines, s.row, s.col)
               /\ Post(u.lines, s.row, s.col) = Post(t.lines, e.row, e.col)
    <1>0. IsBuffer(t) /\ t.ok = TRUE /\ t.anchor \in Anchors /\ t.lines \in Pieces  BY DEF BufferOK, Sound
    <1>1. PICK r, q, c, d : r = s.row /\ q = e.row /\ c = s.col /\ d = e.col  OBVIOUS
    <1>2. /\ r \in Nat /\ q \in Nat /\ c \in Nat /\ d \in Nat /\ r < Len(t.lines) /\ q < Len(t.lines)
          /\ c <= Len(t.lines[r + 1]) /\ d <= Len(t.lines[q + 1])
          /\ Boundary(t.lines[r + 1], c) /\ Boundary(t.lines[q + 1], d)
        BY <1>1 DEF Place
    <1>3. IsPos(s) /\ IsPos(e)  BY <1>1, <1>2 DEF IsPos
    <1>4. ColOf(t, s) = c /\ ColOf(t, e) = d /\ InText(t, q)
        <2>1. ColOf(t, s) = c /\ ColOf(t, e) = d  BY <1>0, <1>1, <1>2, <1>3, ColIs
        <2> QED  BY <1>0, <1>2, <2>1, InTextIs
    <1>5. PICK X \in Pieces, b \in Flat, a \in Flat, Y \in Pieces : IsPlace(t.lines, r, c, X, b, a, Y)
        BY <1>1, PlaceIs
    <1>6. PICK V \in Pieces, v \in Flat, w \in Flat, W \in Pieces : IsPlace(t.lines, q, d, V, v, w, W)
        BY <1>1, PlaceIs
    <1>7. /\ X = SubSeq(t.lines, 1, r) /\ b = Before(t.lines[r + 1], c) /\ Len(X) = r /\ Len(b) = c
          /\ Pre(t.lines, r, c) = Ended(X) ++ b
          /\ w = After(t.lines[q + 1], d) /\ W = SubSeq(t.lines, q + 2, Len(t.lines))
          /\ Post(t.lines, q, d) = w ++ Led(W)
        BY <1>5, <1>6, Zenon DEF IsPlace
    <1>8. PICK ls : ls = X \o <<b \o w>> \o W  OBVIOUS
    <1>9. PICK u : u = [t EXCEPT !.lines = ls, !.ok = @ /\ TRUE]  OBVIOUS
    <1>10. RemoveRange(t, Range2(s, e)) = u
        <2>1. Range2(s, e).start = s /\ Range2(s, e).end = e  BY Range2Is
        <2>2. ~ (s.row = e.row /\ c >= d)  BY <1>1, <1>2 DEF Precedes
        <2>3. Line(t, r) = t.lines[r + 1] /\ Line(t, q) = t.lines[q + 1]  BY DEF Line
        <2>4. (/\ Boundary(Line(t, s.row), ColOf(t, s))
               /\ InText(t, e.row) => Boundary(Line(t, e.row), ColOf(t, e))) = TRUE
            BY <1>1, <1>2, <1>4, <2>3
        <2> QED  BY <1>1, <1>4, <1>7, <1>8, <1>9, <2>1, <2>2, <2>3, <2>4, Zenon DEF RemoveRange
    <1>11. IsBuffer(u) /\ u.ok = TRUE /\ u.anchor = t.anchor /\ u.lines = ls
        BY <1>0, <1>9 DEF IsBuffer
    <1>12. ls = X ++ (<<b ++ w>> ++ W)
        <2>1. <<b ++ w>> \in Pieces  BY FlatLaws, PiecesLaws
        <2>2. PICK z \in Pieces : z = <<b ++ w>>  BY <2>1
        <2>3. (X ++ z) ++ W = X ++ (z ++ W)  BY PiecesLaws
        <2> QED  BY <1>8, <2>2, <2>3, Zenon DEF ++
    <1>13. Made(ls, r, c, X, b, w, W)  BY <1>7, <1>12, MadeIs, Zenon
    <1>14. Place(ls, r, c) /\ Pre(ls, r, c) = Ended(X) ++ b /\ Post(ls, r, c) = w ++ Led(W)
        BY <1>13 DEF Made
    <1>15. ls \in Pieces /\ Len(ls) > 0
        <2>1. ls \in Pieces /\ r < Len(ls)  BY <1>14 DEF Place
        <2> QED  BY <1>2, <2>1, PiecesLen
    <1>16. Sound(u)  BY <1>0, <1>11, <1>15 DEF Sound
    <1> QED  BY <1>1, <1>7, <1>10, <1>11, <1>14, <1>16, Zenon

\* A buffer cut in three: what is before the selection, it, and the rest.
Cut3(t, L, m, R) ==
    /\ Text(t.lines) = L ++ (m ++ R)
    /\ From(t) = Len(L) /\ To(t) = Len(L) + Len(m)
    /\ IF HasSelection(t) THEN Len(m) > 0 /\ SelectedText(t) = m /\ SelectionCuts(t) ELSE m = <<>>
    /\ BufferOK(Collapse(t)) /\ At2(Collapse(t))
    /\ PreT(Collapse(t)) = L /\ PostT(Collapse(t)) = R

AtEnds(t, L, m) ==
    LET s == SelectionRange(t).start
        e == SelectionRange(t).end
    IN  /\ Place(t.lines, s.row, s.col) /\ Place(t.lines, e.row, e.col)
        /\ L = Pre(t.lines, s.row, s.col) /\ L ++ m = Pre(t.lines, e.row, e.col)
        /\ s.row = e.row => s.row = t.row

\* A selection that is collapsed is cut out, and the cursor is where it was.
LEMMA CollapseIs ==
    ASSUME NEW t, BufferOK(t), HasSelection(t), NEW s, NEW e, SelectionRange(t) = Range2(s, e),
           Place(t.lines, s.row, s.col), Place(t.lines, e.row, e.col),
           Precedes(s, e), s.row = e.row => s.col # e.col
    PROVE  /\ BufferOK(Collapse(t)) /\ At2(Collapse(t))
           /\ PreT(Collapse(t)) = Pre(t.lines, s.row, s.col)
           /\ PostT(Collapse(t)) = Post(t.lines, e.row, e.col)
    <1>1. PICK u : u = RemoveRange(t, Range2(s, e))  OBVIOUS
    <1>2. /\ Sound(u) /\ Place(u.lines, s.row, s.col)
          /\ Pre(u.lines, s.row, s.col) = Pre(t.lines, s.row, s.col)
          /\ Post(u.lines, s.row, s.col) = Post(t.lines, e.row, e.col)
        BY <1>1, RemoveIs
    <1>3. IsPos(s)  BY DEF Place, IsPos
    <1>4. PICK v : v = SetCursor(u, s)  OBVIOUS
    <1>5. BufferOK(v) /\ v.lines = u.lines /\ v.row = s.row /\ v.col = s.col
        <2>1. u.lines \in Pieces /\ s.row < Len(u.lines) /\ s.col <= Len(u.lines[s.row + 1])  BY <1>2 DEF Place
        <2>2. Clamp(u, s) = Pos(s.row, s.col)  BY <1>2, <1>3, <2>1, ClampIs DEF Sound
        <2>3. Same(v, u) /\ v.row = Clamp(u, s).row /\ v.col = Clamp(u, s).col
            BY <1>2, <1>4, SetCursorIs DEF Sound
        <2>4. BufferOK(v)  BY <1>2, <1>3, <1>4, SetCursorFine
        <2> QED  BY <2>2, <2>3, <2>4, PosIs DEF Same
    <1>6. PICK w : w = ClearSelection(v)  OBVIOUS
    <1>7. BufferOK(w) /\ w.lines = v.lines /\ w.row = v.row /\ w.col = v.col
        <2>1. IsBuffer(v)  BY <1>5 DEF BufferOK, Sound
        <2>2. w.row = v.row /\ w.col = v.col /\ w.lines = v.lines
            BY <1>6, <2>1 DEF ClearSelection, IsBuffer
        <2> QED  BY <1>5, <1>6, <2>2, ClearSelectionFine
    <1>8. Collapse(t) = w  BY <1>1, <1>4, <1>6, Range2Is, Zenon DEF Collapse, CutOut
    <1> QED  BY <1>2, <1>5, <1>7, <1>8, Zenon DEF At2, PreT, PostT

LEMMA PlacesCut ==
    ASSUME NEW t, t.lines \in Pieces, NEW s, NEW e, SelectionRange(t) = Range2(s, e),
           Place(t.lines, s.row, s.col), Place(t.lines, e.row, e.col)
    PROVE  SelectionCuts(t)
    <1>1. ASSUME NEW p, Place(t.lines, p.row, p.col) PROVE Boundary(Line(t, p.row), ColOf(t, p))
        <2>1. IsPos(p) /\ p.row < Len(t.lines) /\ p.col <= Len(t.lines[p.row + 1])
              /\ Boundary(t.lines[p.row + 1], p.col)
            BY <1>1 DEF Place, IsPos
        <2>2. ColOf(t, p) = p.col  BY <2>1, ColIs
        <2> QED  BY <2>1, <2>2 DEF Line
    <1>2. SelectionRange(t).start = s /\ SelectionRange(t).end = e  BY Range2Is
    <1> QED  BY <1>1, <1>2, Zenon DEF SelectionCuts

\* The text before a selection, in it and after it.
LEMMA CutAtSelection ==
    ASSUME NEW t, BufferOK(t), HasSelection(t), CursorsValid(t)
    PROVE  \E L, m, R \in Flat : Cut3(t, L, m, R) /\ AtEnds(t, L, m)
    <1>1. PICK a, h : a = Pos(t.anchor.row, t.anchor.col) /\ h = Pos(t.row, t.col)  OBVIOUS
    <1>2. t.anchor.set /\ IsPos(a) /\ IsPos(h) /\ IsPos(t.anchor) /\ t.lines \in Pieces
        <2>1. t.anchor.set  BY DEF HasSelection
        <2>2. t.anchor \in Anchors /\ t.row \in Nat /\ t.col \in Nat /\ t.lines \in Pieces
            BY DEF BufferOK, Sound, InPlace
        <2>3. IsPos(t.anchor)  BY <2>2 DEF Anchors, IsPos
        <2> QED  BY <1>1, <2>1, <2>2, <2>3, PosIs DEF IsPos
    <1>3. Place(t.lines, h.row, h.col)  BY <1>1, <1>2, ValidIs DEF CursorsValid
    <1>4. Place(t.lines, a.row, a.col)
        <2>1. Place(t.lines, t.anchor.row, t.anchor.col)  BY <1>2, ValidIs DEF CursorsValid
        <2> QED  BY <1>1, <2>1, PosIs
    <1>5. Cursor(t) = Offset(t.lines, h) /\ Anchor(t) = Offset(t.lines, a)
        <2>1. Offset(t.lines, t.anchor) = Offset(t.lines, a)
            <3>1. a.row = t.anchor.row /\ a.col = t.anchor.col  BY <1>1, PosIs
            <3> QED  BY <3>1, Zenon DEF Offset
        <2> QED  BY <1>1, <1>2, <2>1 DEF Cursor, Anchor
    <1>6. PICK s, e : /\ SelectionRange(t) = Range2(s, e) /\ Precedes(s, e) /\ s # e
                      /\ \/ s = a /\ e = h
                         \/ e = a /\ s = h
        <2>1. PICK s, e : /\ SelectionRange(t) = [start |-> s, end |-> e] /\ Precedes(s, e)
                          /\ \/ s = Pos(t.anchor.row, t.anchor.col) /\ e = Pos(t.row, t.col)
                             \/ e = Pos(t.anchor.row, t.anchor.col) /\ s = Pos(t.row, t.col)
                          /\ HasSelection(t) => s # e
            BY RangeIs
        <2> QED  BY <1>1, <2>1 DEF Range2
    <1>7. Place(t.lines, s.row, s.col) /\ Place(t.lines, e.row, e.col)  BY <1>3, <1>4, <1>6
    <1>8. s.row = e.row => s.col # e.col
        <2>1. s = Pos(s.row, s.col) /\ e = Pos(e.row, e.col)  BY <1>1, <1>6, PosIs
        <2> QED  BY <1>6, <2>1
    <1>9. PICK m \in Flat : Between(t.lines, s, e, m)  BY <1>6, <1>7, <1>8, BetweenIs
    <1>10. PICK L \in Flat, R \in Flat, M \in Flat, Q \in Flat :
              /\ L = Pre(t.lines, s.row, s.col) /\ M = Post(t.lines, s.row, s.col) /\ Text(t.lines) = L ++ M
              /\ Q = Pre(t.lines, e.row, e.col) /\ R = Post(t.lines, e.row, e.col)
        BY <1>7, PlaceCuts
    <1>11. Q = L ++ m /\ M = m ++ R /\ Len(m) > 0  BY <1>9, <1>10 DEF Between
    <1>12. Offset(t.lines, s) = Len(L) /\ Offset(t.lines, e) = Len(L) + Len(m)
        <2>1. Offset(t.lines, s) = Len(L) /\ Offset(t.lines, e) = Len(Q)  BY <1>7, <1>10, OffsetIs
        <2>2. Len(L ++ m) = Len(L) + Len(m)  BY CutAt
        <2> QED  BY <1>11, <2>1, <2>2
    <1>13. From(t) = Len(L) /\ To(t) = Len(L) + Len(m)
        <2>1. PICK x \in Nat, y \in Nat : x = Len(L) /\ y = Len(m)  BY FlatLen
        <2>2. \/ Anchor(t) = x /\ Cursor(t) = x + y
              \/ Cursor(t) = x /\ Anchor(t) = x + y
            BY <1>5, <1>6, <1>12, <2>1
        <2>3. From(t) = x  BY <2>1, <2>2 DEF From, MinOf
        <2>4. To(t) = x + y  BY <2>1, <2>2, <2>3 DEF To
        <2> QED  BY <2>1, <2>3, <2>4
    <1>14. SelectedText(t) = m  BY <1>2, <1>6, <1>7, <1>9, SelectedTextIs
    <1>15. SelectionCuts(t)  BY <1>2, <1>6, <1>7, PlacesCut
    <1>16. /\ BufferOK(Collapse(t)) /\ At2(Collapse(t))
           /\ PreT(Collapse(t)) = L /\ PostT(Collapse(t)) = R
        BY <1>6, <1>7, <1>8, <1>10, CollapseIs
    <1>17. Cut3(t, L, m, R)  BY <1>10, <1>11, <1>13, <1>14, <1>15, <1>16, Zenon DEF Cut3
    <1>18. s.row = e.row => s.row = t.row
        <2>1. h.row = t.row  BY <1>1, PosIs
        <2> QED  BY <1>6, <2>1
    <1>19. SelectionRange(t).start = s /\ SelectionRange(t).end = e  BY <1>6, Range2Is
    <1>20. AtEnds(t, L, m)  BY <1>7, <1>10, <1>11, <1>18, <1>19, Zenon DEF AtEnds
    <1> QED  BY <1>17, <1>20

\* The text before a cursor and after it.
LEMMA CutAtCursor ==
    ASSUME NEW t, BufferOK(t), ~ HasSelection(t), CursorsValid(t)
    PROVE  \E L, m, R \in Flat : Cut3(t, L, m, R) /\ At2(t) /\ PreT(t) = L /\ PostT(t) = R /\ m = <<>>
    <1>1. PICK h : h = Pos(t.row, t.col) /\ h.row = t.row /\ h.col = t.col  BY PosIs
    <1>2. IsPos(h)  BY <1>1 DEF BufferOK, InPlace, IsPos
    <1>3. Place(t.lines, t.row, t.col)  BY <1>1, <1>2, ValidIs DEF CursorsValid
    <1>4. PICK L \in Flat, R \in Flat : L = PreT(t) /\ R = PostT(t) /\ Text(t.lines) = L ++ R
        BY <1>3, PlaceCuts DEF PreT, PostT
    <1>5. Cursor(t) = Len(L)
        <2>1. Offset(t.lines, h) = Len(Pre(t.lines, h.row, h.col))  BY <1>1, <1>3, OffsetIs
        <2> QED  BY <1>1, <1>4, <2>1 DEF Cursor, PreT
    <1>6. Anchor(t) = Len(L)
        <2>1. CASE ~ t.anchor.set  BY <1>5, <2>1 DEF Anchor
        <2>2. CASE t.anchor.set
            <3>1. Pos(t.anchor.row, t.anchor.col) = Pos(t.row, t.col)
                <4>1. CursorPosition(t) = Pos(t.row, t.col)  BY CursorIs
                <4> QED  BY <2>2, <4>1 DEF HasSelection
            <3>2. t.anchor.row = h.row /\ t.anchor.col = h.col  BY <1>1, <3>1, PosIs
            <3>3. Offset(t.lines, t.anchor) = Offset(t.lines, h)  BY <3>2, Zenon DEF Offset
            <3> QED  BY <1>1, <1>5, <2>2, <3>3, Zenon DEF Anchor, Cursor
        <2> QED  BY <2>1, <2>2
    <1>7. From(t) = Len(L) /\ To(t) = Len(L) + Len(<<>>)
        <2>1. PICK x \in Nat : x = Len(L)  BY FlatLen
        <2>2. From(t) = x  BY <1>5, <1>6, <2>1 DEF From, MinOf
        <2>3. To(t) = x  BY <1>5, <1>6, <2>1, <2>2 DEF To
        <2> QED  BY <2>1, <2>2, <2>3
    <1>8. Collapse(t) = t  BY DEF Collapse
    <1>9. <<>> \in Flat /\ L ++ (<<>> ++ R) = L ++ R  BY FlatLaws
    <1>10. At2(t)  BY <1>3 DEF At2
    <1>11. Cut3(t, L, <<>>, R)  BY <1>4, <1>7, <1>8, <1>9, <1>10, Zenon DEF Cut3
    <1> QED  BY <1>4, <1>9, <1>10, <1>11

LEMMA Cut3Is ==
    ASSUME NEW t, BufferOK(t), CursorsValid(t)
    PROVE  \E L, m, R \in Flat : Cut3(t, L, m, R)
    BY CutAtSelection, CutAtCursor, Zenon

\* What stands in the place of a part of the text.
LEMMA ReplacesIs ==
    ASSUME NEW t, NEW L \in Flat, NEW m \in Flat, NEW R \in Flat, Text(t.lines) = L ++ (m ++ R),
           NEW u, BufferOK(u), At2(u), NEW w \in Flat, PreT(u) = L ++ w, PostT(u) = R
    PROVE  Replaces(u, t, Len(L), Len(L) + Len(m), w)
    <1>1. Place(u.lines, u.row, u.col) /\ Pre(u.lines, u.row, u.col) = L ++ w /\ Post(u.lines, u.row, u.col) = R
        BY DEF At2, PreT, PostT
    <1>2. Text(u.lines) = (L ++ w) ++ R  BY <1>1, PlaceCuts
    <1>3. Cursor(u) = Len(L) + Len(w)
        <2>1. PICK h : h = Pos(u.row, u.col) /\ h.row = u.row /\ h.col = u.col  BY PosIs
        <2>2. Offset(u.lines, h) = Len(Pre(u.lines, h.row, h.col))  BY <1>1, <2>1, OffsetIs
        <2>3. Len(L ++ w) = Len(L) + Len(w)  BY CutAt
        <2> QED  BY <1>1, <2>1, <2>2, <2>3, Zenon DEF Cursor
    <1>4. Before(Text(t.lines), Len(L)) = L
        <2>1. m ++ R \in Flat  BY FlatLaws
        <2> QED  BY <2>1, CutAt
    <1>5. After(Text(t.lines), Len(L) + Len(m)) = R
        <2>1. L ++ m \in Flat /\ L ++ (m ++ R) = (L ++ m) ++ R  BY FlatLaws
        <2>2. After((L ++ m) ++ R, Len(L ++ m)) = R /\ Len(L ++ m) = Len(L) + Len(m)  BY <2>1, CutAt
        <2> QED  BY <2>1, <2>2, Zenon
    <1>6. u.ok  BY DEF BufferOK, Sound
    <1> QED  BY <1>2, <1>3, <1>4, <1>5, <1>6, Zenon DEF Replaces, ++

\* An insertion replaces the selection.
LEMMA InsertReplaces ==
    ASSUME NEW t, NEW L \in Flat, NEW m \in Flat, NEW R \in Flat, Cut3(t, L, m, R),
           NEW with \in Seq(Char), with # <<>>
    PROVE  LET u == InsertText(t, with)
           IN  /\ BufferOK(u) /\ At2(u) /\ PreT(u) = L ++ InBytes(with) /\ PostT(u) = R
               /\ Replaces(u, t, From(t), To(t), InBytes(with))
    <1>1. PICK c : c = Collapse(t) /\ BufferOK(c) /\ At2(c) /\ PreT(c) = L /\ PostT(c) = R  BY DEF Cut3
    <1>2. PICK ps \in Pieces : ps = LinesOf(with) /\ ps # <<>> /\ Text(ps) = InBytes(with)  BY LinesOfIs
    <1>3. PICK u : u = InsertParts(c, ps)  OBVIOUS
    <1>4. BufferOK(u) /\ At2(u) /\ PreT(u) = L ++ InBytes(with) /\ PostT(u) = R
        BY <1>1, <1>2, <1>3, InsertPartsIs
    <1>5. InsertText(t, with) = u  BY <1>1, <1>2, <1>3, Zenon DEF InsertText
    <1>6. InBytes(with) \in Flat  BY InBytesIs
    <1>7. Text(t.lines) = L ++ (m ++ R) /\ From(t) = Len(L) /\ To(t) = Len(L) + Len(m)  BY DEF Cut3
    <1>8. Replaces(u, t, Len(L), Len(L) + Len(m), InBytes(with))  BY <1>4, <1>6, <1>7, ReplacesIs
    <1> QED  BY <1>4, <1>5, <1>7, <1>8, Zenon

\* Where the character that ends at byte n starts.
CharStart(all, n) == Max({0} \cup {i \in 0 .. n - 1 : Boundary(all, i)})

LEMMA CharStartIs ==
    ASSUME NEW K \in Flat, NEW ch \in Flat, OneChar(ch), NEW R \in Flat
    PROVE  CharStart(K ++ (ch ++ R), Len(K) + Len(ch)) = Len(K)
    <1>1. PICK k \in Nat, n \in Nat, r \in Nat : k = Len(K) /\ n = Len(ch) /\ r = Len(R)  BY FlatLen
    <1>2. n > 0  BY <1>1 DEF OneChar
    <1>3. PICK C \in Flat : C = ch ++ R /\ Len(C) = n + r
        <2>1. ch ++ R \in Flat /\ Len(ch ++ R) = Len(ch) + Len(R)  BY FlatLaws, CutAt
        <2> QED  BY <1>1, <2>1
    <1>4. PICK A \in Flat : A = K ++ C /\ Len(A) = k + (n + r) /\ Boundary(A, k)
        <2>1. K ++ C \in Flat /\ Len(K ++ C) = Len(K) + Len(C) /\ Boundary(K ++ C, Len(K))  BY FlatLaws, CutAt
        <2> QED  BY <1>1, <1>3, <2>1
    <1>5. \A j \in 1 .. n : A[k + j] = ch[j]
        <2> TAKE j \in 1 .. n
        <2>1. K \in Seq(AnyByte) /\ ch \in Seq(AnyByte) /\ R \in Seq(AnyByte) /\ C \in Seq(AnyByte)  BY DEF Flat
        <2>2. C = ch \o R /\ A = K \o C  BY <1>3, <1>4 DEF ++
        <2>3. C[j] = ch[j]  BY <1>1, <2>1, <2>2, ConcatProperties
        <2>4. j \in 1 .. Len(C)  BY <1>3
        <2>5. A[k + j] = C[j]
            <3>1. k + j \in 1 .. Len(K) + Len(C) /\ ~ k + j <= Len(K) /\ (k + j) - Len(K) = j  BY <1>1, <1>3, <2>4
            <3>2. (K \o C)[k + j] = IF k + j <= Len(K) THEN K[k + j] ELSE C[(k + j) - Len(K)]
                BY <2>1, <3>1, ConcatProperties
            <3> QED  BY <2>2, <3>1, <3>2, Zenon
        <2> QED  BY <2>3, <2>5
    <1>6. PICK S : S = {0} \cup {i \in 0 .. k + n - 1 : Boundary(A, i)}  OBVIOUS
    <1>7. S \subseteq 0 .. k + n /\ 0 \in S  BY <1>6
    <1>8. PICK M \in Nat : M = Max(S) /\ M \in S /\ \A y \in S : y <= M
        <2>1. k + n \in Nat /\ S # {}  BY <1>7
        <2>2. Max(S) \in S /\ \A y \in S : y <= Max(S)  BY <1>7, <2>1, MaxIs
        <2>3. \A y \in S : y \in Nat  BY <1>7, <2>1
        <2> QED  BY <2>2, <2>3
    <1>9. k \in S  BY <1>2, <1>4, <1>6
    <1>10. \A i \in S : i <= k
        <2> SUFFICES ASSUME NEW i \in S, i > k PROVE FALSE  BY <1>7
        <2>1. i \in Nat /\ i <= k + n - 1 /\ Boundary(A, i)  BY <1>6, <1>7
        <2>2. PICK j \in 2 .. n : i + 1 = k + j
            <3>1. (i + 1) - k \in 2 .. n /\ i + 1 = k + ((i + 1) - k)  BY <2>1
            <3> QED  BY <3>1
        <2>3. A[i + 1] = More
            <3>1. j \in 1 .. n  OBVIOUS
            <3> QED  BY <1>1, <1>5, <2>2, <3>1 DEF OneChar
        <2>4. i \in 1 .. Len(A) - 1  BY <1>4, <2>1
        <2> QED  BY <2>1, <2>3, <2>4 DEF Boundary
    <1>11. Max(S) = k
        <2>1. M <= k /\ k <= M  BY <1>8, <1>9, <1>10
        <2> QED  BY <1>8, <2>1
    <1>12. CharStart(A, k + n) = Max(S)  BY <1>6 DEF CharStart
    <1> QED  BY <1>1, <1>3, <1>4, <1>11, <1>12

Erased(t) == IF From(t) < To(t) THEN From(t) ELSE CharStart(Text(t.lines), From(t))

\* Backspace takes the selection, or one whole character.
LEMMA BackspaceReplaces ==
    ASSUME NEW t, BufferOK(t), CursorsValid(t)
    PROVE  Replaces(Backspace(t), t, Erased(t), To(t), <<>>)
    <1>1. CASE HasSelection(t)
        <2>1. PICK L \in Flat, m \in Flat, R \in Flat : Cut3(t, L, m, R)  BY <1>1, CutAtSelection
        <2>2. /\ Text(t.lines) = L ++ (m ++ R) /\ From(t) = Len(L) /\ To(t) = Len(L) + Len(m) /\ Len(m) > 0
              /\ BufferOK(Collapse(t)) /\ At2(Collapse(t)) /\ PreT(Collapse(t)) = L /\ PostT(Collapse(t)) = R
            BY <1>1, <2>1 DEF Cut3
        <2>3. Backspace(t) = Collapse(t)  BY <1>1 DEF Backspace
        <2>4. <<>> \in Flat /\ L ++ <<>> = L  BY FlatLaws
        <2>5. Replaces(Collapse(t), t, Len(L), Len(L) + Len(m), <<>>)  BY <2>2, <2>4, ReplacesIs
        <2>6. From(t) < To(t)
            <3>1. PICK x \in Nat, y \in Nat : x = Len(L) /\ y = Len(m)  BY FlatLen
            <3> QED  BY <2>2, <3>1
        <2> QED  BY <2>2, <2>3, <2>5, <2>6, Zenon DEF Erased
    <1>2. CASE ~ HasSelection(t)
        <2>1. PICK L \in Flat, R \in Flat : Cut3(t, L, <<>>, R) /\ At2(t) /\ PreT(t) = L /\ PostT(t) = R
            BY <1>2, CutAtCursor
        <2>2. PICK x \in Nat : x = Len(L) /\ From(t) = x /\ To(t) = x
            <3>1. From(t) = Len(L) /\ To(t) = Len(L) + Len(<<>>)  BY <2>1 DEF Cut3
            <3>2. Len(<<>>) = 0 /\ Len(L) \in Nat  BY FlatLen
            <3> QED  BY <3>1, <3>2
        <2>3. PICK u : u = Backspace(t)  OBVIOUS
        <2>4. PICK ch \in Flat : Back(t, u, ch)  BY <1>2, <2>1, <2>3, BackspaceIs
        <2>5. PICK K \in Flat : K = PreT(u)
            <3>1. Place(u.lines, u.row, u.col)  BY <2>4 DEF Back, At2
            <3> QED  BY <3>1, PlaceCuts DEF PreT
        <2>6. /\ BufferOK(u) /\ At2(u) /\ PostT(u) = R /\ L = K ++ ch
              /\ OneChar(ch) \/ (ch = <<>> /\ L = <<>>)
            BY <2>1, <2>4, <2>5 DEF Back
        <2>7. Text(t.lines) = K ++ (ch ++ R)
            <3>1. Text(t.lines) = L ++ (<<>> ++ R)  BY <2>1 DEF Cut3
            <3>2. <<>> ++ R = R /\ (K ++ ch) ++ R = K ++ (ch ++ R)  BY FlatLaws
            <3> QED  BY <2>6, <3>1, <3>2, Zenon
        <2>8. x = Len(K) + Len(ch)
            <3>1. Len(K ++ ch) = Len(K) + Len(ch)  BY CutAt
            <3> QED  BY <2>2, <2>6, <3>1
        <2>9. Replaces(u, t, Len(K), Len(K) + Len(ch), <<>>)
            <3>1. <<>> \in Flat /\ K ++ <<>> = K  BY FlatLaws
            <3> QED  BY <2>5, <2>6, <2>7, <3>1, ReplacesIs
        <2>10. CharStart(Text(t.lines), x) = Len(K)
            <3>1. CASE OneChar(ch)  BY <2>7, <2>8, <3>1, CharStartIs
            <3>2. CASE ch = <<>> /\ L = <<>>
                <4>1. x = 0 /\ Len(K) = 0
                    <5>1. Len(<<>>) = 0  OBVIOUS
                    <5>2. x = 0 /\ Len(ch) = 0  BY <2>2, <3>2, <5>1, Zenon
                    <5>3. Len(K) \in Nat  BY FlatLen
                    <5> QED  BY <2>8, <5>2, <5>3
                <4>2. PICK S : S = {0} \cup {i \in 0 .. 0 - 1 : Boundary(Text(t.lines), i)}  OBVIOUS
                <4>3. 0 \in S /\ \A i \in S : i = 0  BY <4>2
                <4>4. S \subseteq 0 .. 0  BY <4>3
                <4>5. Max(S) \in S  BY <4>3, <4>4, MaxIs
                <4>6. Max(S) = 0  BY <4>3, <4>5
                <4> QED  BY <4>1, <4>2, <4>6 DEF CharStart
            <3> QED  BY <2>6, <3>1, <3>2
        <2>11. Erased(t) = Len(K)  BY <2>2, <2>10 DEF Erased
        <2> QED  BY <2>2, <2>3, <2>8, <2>9, <2>11
    <1> QED  BY <1>1, <1>2

\* Lines that a newline leads.
LEMMA LedStart ==
    ASSUME NEW Y \in Pieces
    PROVE  IF Y = <<>> THEN Led(Y) = <<>> ELSE Len(Led(Y)) > 0 /\ Led(Y)[1] = NewLine
    <1>1. CASE Y = <<>>  BY <1>1, LedLaws
    <1>2. CASE Y # <<>>
        <2>1. PICK y \in Flat, Z \in Pieces : Y = <<y>> ++ Z
            <3>1. Head(Y) \in Flat /\ Tail(Y) \in Seq(Flat) /\ Y = <<Head(Y)>> \o Tail(Y)  BY <1>2 DEF Pieces
            <3> QED  BY <3>1 DEF Pieces, ++
        <2>2. PICK n \in Flat, z \in Flat : n = <<NewLine>> /\ z = Led(Z)  BY FlatLaws, LedLaws
        <2>3. Led(Y) = (n ++ y) ++ z
            <3>1. <<y>> \in Pieces  BY PiecesLaws
            <3>2. Led(Y) = Led(<<y>>) ++ Led(Z)  BY <2>1, <3>1, LedLaws
            <3>3. Led(<<y>>) = n ++ y  BY <2>2, LedLaws
            <3> QED  BY <2>2, <3>2, <3>3, Zenon
        <2>4. PICK q \in Flat : q = y ++ z /\ (n ++ y) ++ z = n ++ q  BY FlatLaws
        <2>5. Len(<<NewLine>> ++ q) > 0 /\ (<<NewLine>> ++ q)[1] = NewLine  BY NewLineFirst
        <2>6. Led(Y) = <<NewLine>> ++ q  BY <2>2, <2>3, <2>4, Zenon
        <2> QED  BY <1>2, <2>5, <2>6, Zenon
    <1> QED  BY <1>1, <1>2

(***************************************************************************)
(* The identifier at the cursor, in its line.                              *)
(***************************************************************************)
First(from, to) == IF from < to THEN from + 1 ELSE from
Grown(l, v, from, to) == {r \in (0 .. from) \X (to .. Len(l)) : Run(l, v, r[1] + 1, r[2])}
Widest(G) == CHOOSE r \in G : \A q \in G : r[1] <= q[1] /\ q[2] <= r[2]
Wordy(l, first, from, to) ==
    first > 0 /\ PartAt(l, first) # "none" /\ Run(l, PartAt(l, first), from + 1, to)

LEMMA TokenDef ==
    \A l, from, to :
        Token(l, from, to) = IF Wordy(l, First(from, to), from, to)
                             THEN Widest(Grown(l, PartAt(l, First(from, to)), from, to))
                             ELSE <<from, to>>
    BY Zenon DEF Token, Wordy, Widest, Grown, Run, First

\* A run of bytes of a part between others is the widest around what it holds.
LEMMA WidestIs ==
    ASSUME NEW l \in Flat, NEW v, NEW i \in Nat, NEW from \in Nat, NEW to \in Nat, NEW j \in Nat,
           i <= from, from <= to, to <= j, j <= Len(l), Run(l, v, i + 1, j),
           i > 0 => PartAt(l, i) # v,
           j < Len(l) => PartAt(l, j + 1) # v
    PROVE  Widest(Grown(l, v, from, to)) = <<i, j>>
    <1>1. PICK N \in Nat : N = Len(l)  BY FlatLen
    <1>2. PICK G : G = Grown(l, v, from, to)  OBVIOUS
    <1>0. <<i, j>>[1] = i /\ <<i, j>>[2] = j  OBVIOUS
    <1>3. PICK p : p = <<i, j>> /\ p[1] = i /\ p[2] = j  BY <1>0, Zenon
    <1>4. p \in G
        <2>1. p \in (0 .. from) \X (to .. N)  BY <1>1, <1>3
        <2> QED  BY <1>1, <1>2, <1>3, <2>1 DEF Grown
    <1>5. ASSUME NEW q \in G PROVE q[1] \in Nat /\ q[2] \in Nat /\ i <= q[1] /\ q[2] <= j /\ q = <<q[1], q[2]>>
        <2>1. q \in (0 .. from) \X (to .. N) /\ Run(l, v, q[1] + 1, q[2])  BY <1>1, <1>2 DEF Grown
        <2>2. PICK a \in 0 .. from, b \in to .. N : a = q[1] /\ b = q[2] /\ q = <<a, b>>  BY <2>1
        <2>3. i <= a
            <3> SUFFICES ASSUME a < i PROVE FALSE  BY <2>2
            <3>1. i \in a + 1 .. b /\ i > 0  BY <2>2
            <3>2. PartAt(l, i) = v  BY <2>1, <2>2, <3>1 DEF Run
            <3> QED  BY <3>1, <3>2
        <2>4. b <= j
            <3> SUFFICES ASSUME j < b PROVE FALSE  BY <2>2
            <3>1. j + 1 \in a + 1 .. b /\ j < N  BY <1>1, <2>2
            <3>2. PartAt(l, j + 1) = v  BY <2>1, <2>2, <3>1 DEF Run
            <3> QED  BY <1>1, <3>1, <3>2
        <2> QED  BY <2>2, <2>3, <2>4
    <1>6. \A q \in G : p[1] <= q[1] /\ q[2] <= p[2]  BY <1>3, <1>5
    <1>7. PICK w : w = Widest(G)  OBVIOUS
    <1>8. w \in G /\ \A q \in G : w[1] <= q[1] /\ q[2] <= w[2]  BY <1>4, <1>6, <1>7, Zenon DEF Widest
    <1>9. w[1] = i /\ w[2] = j
        <2>1. w[1] \in Nat /\ w[2] \in Nat /\ i <= w[1] /\ w[2] <= j  BY <1>5, <1>8
        <2>2. w[1] <= i /\ j <= w[2]  BY <1>3, <1>4, <1>8
        <2> QED  BY <2>1, <2>2
    <1>10. w = <<w[1], w[2]>>  BY <1>5, <1>8
    <1> QED  BY <1>2, <1>7, <1>9, <1>10

\* Both find out by their own byte whether there is an identifier.
LEMMA WordyIs ==
    ASSUME NEW l \in Flat, NEW from \in Nat, NEW to \in Nat, from <= to, to <= Len(l)
    PROVE  /\ Wordy(l, First(from, to), from, to) <=> InWord(l, from, to)
           /\ InWord(l, from, to) => PartAt(l, First(from, to)) = PartAt(l, to)
    <1>1. PICK n \in Nat : n = Len(l)  BY FlatLen
    <1>2. CASE from < to
        <2>1. PICK f \in Nat : f = First(from, to) /\ f = from + 1 /\ f > 0  BY <1>2 DEF First
        <2>2. to \in 1 .. n /\ f \in f .. to /\ to \in f .. to  BY <1>1, <1>2, <2>1
        <2>3. Run(l, PartAt(l, f), f, to) => PartAt(l, to) = PartAt(l, f)  BY <2>2 DEF Run
        <2>4. Run(l, PartAt(l, to), f, to) => PartAt(l, f) = PartAt(l, to)  BY <2>2 DEF Run
        <2>5. Wordy(l, f, from, to) <=> PartAt(l, f) # "none" /\ Run(l, PartAt(l, f), f, to)
            BY <2>1 DEF Wordy
        <2>6. InWord(l, from, to) <=> PartAt(l, to) # "none" /\ Run(l, PartAt(l, to), f, to)
            BY <1>1, <1>2, <2>1, <2>2 DEF InWord
        <2> QED  BY <2>1, <2>3, <2>4, <2>5, <2>6
    <1>3. CASE ~ from < to
        <2>1. from = to /\ First(from, to) = to  BY <1>3 DEF First
        <2>2. to > 0 <=> to \in 1 .. n  BY <1>1
        <2>3. Run(l, PartAt(l, to), to + 1, to)  BY DEF Run
        <2>4. Wordy(l, to, to, to) <=> to > 0 /\ PartAt(l, to) # "none"  BY <2>3 DEF Wordy
        <2>5. InWord(l, to, to) <=> to \in 1 .. n /\ PartAt(l, to) # "none"  BY <1>1 DEF InWord
        <2> QED  BY <2>1, <2>2, <2>4, <2>5
    <1> QED  BY <1>2, <1>3

\* What replace_current_token replaces in its line is the token there.
LEMMA TokenIs ==
    ASSUME NEW l \in Flat, NEW from \in Nat, NEW to \in Nat, from <= to, to <= Len(l),
           Boundary(l, from), Boundary(l, to),
           NEW start \in Nat, NEW end \in Nat, Chosen(l, from, to, start, end)
    PROVE  /\ Token(l, from, to) = <<start, end>>
           /\ start <= end /\ end <= Len(l) /\ Boundary(l, start) /\ Boundary(l, end)
    <1>1. PICK n \in Nat : n = Len(l)  BY FlatLen
    <1>2. CASE ~ InWord(l, from, to)
        <2>1. start = from /\ end = to  BY <1>2 DEF Chosen
        <2>2. Token(l, from, to) = <<from, to>>  BY <1>2, WordyIs, TokenDef, Zenon
        <2> QED  BY <2>1, <2>2
    <1>3. CASE InWord(l, from, to)
        <2>1. PICK v : v = PartAt(l, to)  OBVIOUS
        <2>2. Word(l, v, to, start + 1, end) /\ Boundary(l, start) /\ Boundary(l, end)
            BY <1>3, <2>1 DEF Chosen
        <2>3. PICK s1 \in Nat : s1 = start + 1 /\ Word(l, v, to, s1, end) /\ s1 - 1 = start  BY <2>2
        <2>4. /\ s1 <= to /\ to <= end /\ end <= n /\ Run(l, v, s1, end)
              /\ s1 = 1 \/ PartAt(l, start) # v
              /\ end = n \/ PartAt(l, end + 1) # v
            BY <1>1, <2>3 DEF Word
        <2>5. start <= from
            <3>1. CASE from < to
                <4> SUFFICES ASSUME start > from PROVE FALSE  OBVIOUS
                <4>1. start \in from + 1 .. to /\ s1 # 1  BY <2>3, <2>4
                <4>2. Run(l, v, from + 1, to)  BY <1>3, <2>1, <3>1 DEF InWord
                <4>3. PartAt(l, start) = v  BY <4>1, <4>2 DEF Run
                <4> QED  BY <2>4, <4>1, <4>3
            <3>2. CASE ~ from < to  BY <2>3, <2>4, <3>2
            <3> QED  BY <3>1, <3>2
        <2>6. /\ start > 0 => PartAt(l, start) # v
              /\ end < Len(l) => PartAt(l, end + 1) # v
            BY <1>1, <2>3, <2>4
        <2>7. Run(l, v, start + 1, end)  BY <2>3, <2>4
        <2>8. Widest(Grown(l, v, from, to)) = <<start, end>>  BY <1>1, <2>4, <2>5, <2>6, <2>7, WidestIs
        <2>9. Wordy(l, First(from, to), from, to) /\ PartAt(l, First(from, to)) = v
            BY <1>3, <2>1, WordyIs
        <2>10. Token(l, from, to) = <<start, end>>  BY <2>8, <2>9, TokenDef, Zenon
        <2>11. start <= end /\ end <= Len(l)  BY <1>1, <2>3, <2>4
        <2> QED  BY <2>2, <2>10, <2>11
    <1> QED  BY <1>2, <1>3

\* The length of what is before a place.
LEMMA PreLen ==
    ASSUME NEW ls, NEW r, NEW c, Place(ls, r, c), NEW x, x = Len(Ended(SubSeq(ls, 1, r)))
    PROVE  Len(Pre(ls, r, c)) = x + c
    <1>1. PICK X \in Pieces, b \in Flat, a \in Flat, Y \in Pieces : IsPlace(ls, r, c, X, b, a, Y)
        BY PlaceIs
    <1>2. X = SubSeq(ls, 1, r) /\ Len(b) = c /\ Pre(ls, r, c) = Ended(X) ++ b  BY <1>1, Zenon DEF IsPlace
    <1>3. Len(Ended(X) ++ b) = Len(Ended(X)) + Len(b)  BY EndedLaws, CutAt
    <1> QED  BY <1>2, <1>3

\* The columns of a selection within a row, and its ends in the text.
OnRow(t, x, from, to) ==
    /\ Columns(t, from, to)
    /\ Place(t.lines, t.row, from) /\ Place(t.lines, t.row, to)
    /\ From(t) = x + from /\ To(t) = x + to

LEMMA OnRowIs ==
    ASSUME NEW t, BufferOK(t), CursorsValid(t), OneRow(t),
           NEW x \in Nat, x = Len(Ended(SubSeq(t.lines, 1, t.row)))
    PROVE  \E from, to \in Nat : OnRow(t, x, from, to)
    <1>0. PICK p \in Nat, q \in Nat : Columns(t, p, q)  BY ColumnsIs
    <1>1. CASE HasSelection(t)
        <2>1. PICK L \in Flat, m \in Flat, R \in Flat : Cut3(t, L, m, R) /\ AtEnds(t, L, m)
            BY <1>1, CutAtSelection
        <2>2. PICK s, e : s = SelectionRange(t).start /\ e = SelectionRange(t).end  OBVIOUS
        <2>3. s.row = e.row  BY <1>1, <2>2 DEF OneRow
        <2>4. /\ Place(t.lines, s.row, s.col) /\ Place(t.lines, e.row, e.col)
              /\ L = Pre(t.lines, s.row, s.col) /\ L ++ m = Pre(t.lines, e.row, e.col)
              /\ s.row = t.row
            BY <2>1, <2>2, <2>3 DEF AtEnds
        <2>5. PICK from \in Nat, to \in Nat :
                 from = s.col /\ to = e.col /\ Place(t.lines, t.row, from) /\ Place(t.lines, t.row, to)
            <3>1. s.col \in Nat /\ e.col \in Nat  BY <2>4 DEF Place
            <3> QED  BY <2>3, <2>4, <3>1
        <2>6. Columns(t, from, to)
            <3>1. p = from /\ q = to  BY <1>0, <1>1, <2>2, <2>5 DEF Columns
            <3> QED  BY <1>0, <3>1
        <2>7. L = Pre(t.lines, t.row, from) /\ L ++ m = Pre(t.lines, t.row, to)
            BY <2>3, <2>4, <2>5, Zenon
        <2>8. Len(L) = x + from /\ Len(L ++ m) = x + to  BY <2>5, <2>7, PreLen
        <2>9. Len(L ++ m) = Len(L) + Len(m)  BY CutAt
        <2>10. From(t) = x + from /\ To(t) = x + to  BY <2>1, <2>8, <2>9 DEF Cut3
        <2> QED  BY <2>5, <2>6, <2>10 DEF OnRow
    <1>2. CASE ~ HasSelection(t)
        <2>1. PICK L \in Flat, R \in Flat : Cut3(t, L, <<>>, R) /\ At2(t) /\ PreT(t) = L
            BY <1>2, CutAtCursor
        <2>2. PICK c \in Nat : c = t.col /\ Place(t.lines, t.row, c)  BY <2>1 DEF At2, Place
        <2>3. Columns(t, c, c)
            <3>1. p = c /\ q = c  BY <1>0, <1>2, <2>2 DEF Columns
            <3> QED  BY <1>0, <3>1
        <2>4. L = Pre(t.lines, t.row, c)  BY <2>1, <2>2 DEF PreT
        <2>5. Len(L) = x + c  BY <2>2, <2>4, PreLen
        <2>6. From(t) = x + c /\ To(t) = x + c
            <3>1. From(t) = Len(L) /\ To(t) = Len(L) + Len(<<>>)  BY <2>1 DEF Cut3
            <3> QED  BY <2>5, <3>1
        <2> QED  BY <2>2, <2>3, <2>6 DEF OnRow
    <1> QED  BY <1>1, <1>2

Plain == Char \ {NewLine}
NoNewLine(s) == \A i \in 1 .. Len(s) : s[i] # NewLine

\* What holds no newline is one line.
LEMMA PlainBytes ==
    ASSUME NEW with \in Seq(Plain)
    PROVE  with \in Seq(Char) /\ InBytes(with) \in Flat /\ NoNewLine(InBytes(with))
    <1>1. with \in Seq(Char)
        <2>1. Plain \subseteq Char  BY DEF Plain
        <2> QED  BY <2>1
    <1>2. PICK G : G = {s \in Flat : NoNewLine(s)}  OBVIOUS
    <1>3. G \subseteq Seq(AnyByte)  BY <1>2 DEF Flat
    <1>4. <<>> \in G  BY <1>2, FlatLaws DEF NoNewLine
    <1>5. \A x, y \in G : x \o y \in G
        <2> TAKE x \in G, y \in G
        <2>1. x \in Flat /\ y \in Flat /\ NoNewLine(x) /\ NoNewLine(y)  BY <1>2
        <2>2. PICK z \in Flat : z = x ++ y  BY <2>1, FlatLaws
        <2>3. PICK n \in Nat, m \in Nat : n = Len(x) /\ m = Len(y)  BY <2>1, FlatLen
        <2>4. /\ Len(z) = n + m /\ (\A j \in 1 .. n : z[j] = x[j])
              /\ \A j \in 1 .. m : z[n + j] = y[j]
            <3>1. Joined(z, x, y)  BY <2>1, <2>2, ConcatIs
            <3> QED  BY <2>3, <3>1 DEF Joined
        <2>5. NoNewLine(z)
            <3> SUFFICES ASSUME NEW i \in 1 .. n + m PROVE z[i] # NewLine  BY <2>4 DEF NoNewLine
            <3>1. CASE i <= n
                <4>1. i \in 1 .. n  BY <3>1
                <4> QED  BY <2>1, <2>3, <2>4, <4>1 DEF NoNewLine
            <3>2. CASE i > n
                <4>1. i - n \in 1 .. m /\ n + (i - n) = i  BY <3>2
                <4>2. z[n + (i - n)] = y[i - n]  BY <2>4, <4>1
                <4>3. y[i - n] # NewLine  BY <2>1, <2>3, <4>1 DEF NoNewLine
                <4> QED  BY <4>1, <4>2, <4>3
            <3> QED  BY <3>1, <3>2
        <2> QED  BY <1>2, <2>2, <2>5 DEF ++
    <1>6. \A ss \in Seq(G) : FlattenSeq(ss) \in G  BY <1>3, <1>4, <1>5, FlattenClosed
    <1>7. Maps(BytesOf, Plain, G)
        <2> SUFFICES ASSUME NEW ch \in Plain PROVE BytesOf[ch] \in G  BY DEF Maps
        <2>1. ch \in Char /\ ch # NewLine  BY DEF Plain
        <2>2. BytesOf[ch] = Bytes(ch) /\ BytesOf[ch] \in Flat  BY <2>1, BytesType DEF Maps
        <2>3. NoNewLine(Bytes(ch))
            <3>1. CASE ch \in Wide
                <4>1. Len(<<ch, More>>) = 2 /\ <<ch, More>>[1] = ch /\ <<ch, More>>[2] = More  OBVIOUS
                <4>2. \A i \in 1 .. 2 : i = 1 \/ i = 2  OBVIOUS
                <4> QED  BY <2>1, <3>1, <4>1, <4>2, NotWide DEF Bytes, NoNewLine
            <3>2. CASE ch \notin Wide
                <4>1. Len(<<ch>>) = 1 /\ <<ch>>[1] = ch  OBVIOUS
                <4>2. \A i \in 1 .. 1 : i = 1  OBVIOUS
                <4> QED  BY <2>1, <3>2, <4>1, <4>2 DEF Bytes, NoNewLine
            <3> QED  BY <3>1, <3>2
        <2> QED  BY <1>2, <2>2, <2>3
    <1>8. Each(BytesOf, with) \in Seq(G)  BY <1>7, EachType
    <1>9. InBytes(with) = FlattenSeq(Each(BytesOf, with))  BY <1>1, InBytesIs
    <1> QED  BY <1>1, <1>2, <1>6, <1>8, <1>9

LEMMA OneLineIs ==
    ASSUME NEW with \in Seq(Plain)
    PROVE  LinesOf(with)[1] = InBytes(with)
    <1>1. PICK b \in Flat : b = InBytes(with) /\ NoNewLine(b)  BY PlainBytes
    <1>2. PICK ps \in Pieces : ps = LinesOf(with) /\ ps # <<>> /\ Text(ps) = b
        BY <1>1, PlainBytes, LinesOfIs
    <1>3. PICK a \in Flat, Y \in Pieces : ps = <<a>> ++ Y
        <2>1. Head(ps) \in Flat /\ Tail(ps) \in Seq(Flat) /\ ps = <<Head(ps)>> \o Tail(ps)
            BY <1>2 DEF Pieces
        <2> QED  BY <2>1 DEF Pieces, ++
    <1>4. b = a ++ Led(Y)  BY <1>2, <1>3, TextOfFirst
    <1>5. Y = <<>>
        <2> SUFFICES ASSUME Y # <<>> PROVE FALSE  OBVIOUS
        <2>1. PICK z \in Flat : z = Led(Y) /\ Len(z) > 0 /\ z[1] = NewLine  BY LedStart, LedLaws
        <2>2. PICK n \in Nat, m \in Nat : n = Len(a) /\ m = Len(z)  BY FlatLen
        <2>3. Joined(a ++ z, a, z)  BY ConcatIs
        <2>4. Joined(b, a, z)  BY <1>4, <2>1, <2>3, Zenon
        <2>5. 1 \in 1 .. m /\ n + 1 \in 1 .. n + m  BY <2>1, <2>2
        <2>6. Len(b) = n + m /\ b[n + 1] = z[1]  BY <2>2, <2>4, <2>5 DEF Joined
        <2> QED  BY <1>1, <2>1, <2>5, <2>6 DEF NoNewLine
    <1>6. ps = <<a>> /\ b = a
        <2>1. <<a>> \in Pieces  BY PiecesLaws
        <2>2. <<a>> ++ <<>> = <<a>> /\ Led(<<>>) = <<>> /\ a ++ <<>> = a
            BY <2>1, PiecesLaws, LedLaws, FlatLaws
        <2> QED  BY <1>3, <1>4, <1>5, <2>2, Zenon
    <1>7. <<a>>[1] = a  OBVIOUS
    <1> QED  BY <1>1, <1>2, <1>6, <1>7, Zenon

\* From a place to another on its row, with other bytes between them.
LEMMA RowReplaces ==
    ASSUME NEW t, BufferOK(t), NEW x \in Nat, x = Len(Ended(SubSeq(t.lines, 1, t.row))),
           NEW start \in Nat, NEW end \in Nat, start <= end,
           Place(t.lines, t.row, start), Place(t.lines, t.row, end),
           NEW w \in Flat, NEW u, Replaced(t, start, end, w, u)
    PROVE  Replaces(u, t, x + start, x + end, w)
    <1>1. PICK L \in Flat, R \in Flat : L = Pre(t.lines, t.row, start) /\ R = Post(t.lines, t.row, end)
        BY PlaceCuts
    <1>2. BufferOK(u) /\ At2(u) /\ PreT(u) = L ++ w /\ PostT(u) = R  BY <1>1 DEF Replaced
    <1>3. PICK m \in Flat : Post(t.lines, t.row, start) = m ++ R /\ Pre(t.lines, t.row, end) = L ++ m
        <2>1. CASE start < end
            <3>1. PICK s, e : s = Pos(t.row, start) /\ e = Pos(t.row, end)  OBVIOUS
            <3>2. s.row = t.row /\ s.col = start /\ e.row = t.row /\ e.col = end  BY <3>1, PosIs
            <3>3. PICK m \in Flat : Between(t.lines, s, e, m)
                <4>1. Place(t.lines, s.row, s.col) /\ Place(t.lines, e.row, e.col)  BY <3>2, Zenon
                <4>2. s.row = e.row /\ s.col < e.col  BY <2>1, <3>2
                <4> QED  BY <4>1, <4>2, BetweenOnRow
            <3>4. /\ Pre(t.lines, e.row, e.col) = Pre(t.lines, s.row, s.col) ++ m
                  /\ Post(t.lines, s.row, s.col) = m ++ Post(t.lines, e.row, e.col)
                BY <3>3 DEF Between
            <3> QED  BY <1>1, <3>2, <3>4, Zenon
        <2>2. CASE start = end
            <3>1. <<>> \in Flat /\ <<>> ++ R = R /\ L ++ <<>> = L  BY FlatLaws
            <3> QED  BY <1>1, <2>2, <3>1
        <2> QED  BY <2>1, <2>2
    <1>4. Text(t.lines) = L ++ (m ++ R)  BY <1>1, <1>3, PlaceCuts
    <1>5. Len(L) = x + start /\ Len(L) + Len(m) = x + end
        <2>1. Len(L ++ m) = Len(L) + Len(m)  BY CutAt
        <2>2. Len(L) = x + start  BY <1>1, PreLen
        <2>3. Len(L ++ m) = x + end  BY <1>3, PreLen
        <2> QED  BY <2>1, <2>2, <2>3
    <1>6. Replaces(u, t, Len(L), Len(L) + Len(m), w)  BY <1>2, <1>4, ReplacesIs
    <1> QED  BY <1>5, <1>6, Zenon

\* A selection is of one row when its anchor is on the row of the cursor.
LEMMA OneRowIs ==
    ASSUME NEW t, BufferOK(t)
    PROVE  OneRow(t) <=> ~ (t.anchor.set /\ t.anchor.row # t.row)
    <1>1. PICK a, h : a = Pos(t.anchor.row, t.anchor.col) /\ h = Pos(t.row, t.col) /\ CursorPosition(t) = h
        BY CursorIs
    <1>2. a.row = t.anchor.row /\ h.row = t.row  BY <1>1, PosIs
    <1>3. PICK s, e : /\ SelectionRange(t) = [start |-> s, end |-> e]
                      /\ \/ s = a /\ e = h
                         \/ e = a /\ s = h
        BY <1>1, RangeIs
    <1>4. SelectionRange(t).start = s /\ SelectionRange(t).end = e  BY <1>3
    <1>5. OneRow(t) <=> (HasSelection(t) => s.row = e.row)  BY <1>4 DEF OneRow
    <1>6. HasSelection(t) <=> t.anchor.set /\ a # h  BY <1>1, Zenon DEF HasSelection
    <1>7. t.anchor.row # t.row => a # h  BY <1>2
    <1>8. s.row = e.row <=> t.anchor.row = t.row  BY <1>2, <1>3
    <1> QED  BY <1>5, <1>6, <1>7, <1>8

\* Where a line starts in its text.
LEMMA StartIs ==
    ASSUME NEW t, BufferOK(t)
    PROVE  \E x \in Nat : x = Len(Ended(SubSeq(t.lines, 1, t.row))) /\ Offset(t.lines, Pos(t.row, 0)) = x
    <1>1. t.lines \in Pieces /\ t.row \in Nat /\ t.row < Len(t.lines)  BY DEF BufferOK, Sound, InPlace
    <1>2. PICK x \in Nat : x = Len(Ended(SubSeq(t.lines, 1, t.row)))
        <2>1. SubSeq(t.lines, 1, t.row) \in Pieces  BY <1>1, AroundLine
        <2> QED  BY <2>1, EndedLaws, FlatLen
    <1>3. PICK l \in Flat, n \in Nat : l = t.lines[t.row + 1] /\ n = Len(l)  BY <1>1, LineIs
    <1>4. Boundary(l, 0) /\ 0 <= n
        <2>1. 0 \notin 1 .. n - 1  BY <1>3
        <2> QED  BY <1>3, <2>1 DEF Boundary
    <1>5. PICK p : p = Pos(t.row, 0) /\ p.row = t.row /\ p.col = 0  BY PosIs
    <1>6. Place(t.lines, t.row, 0)  BY <1>1, <1>3, <1>4 DEF Place
    <1>7. Len(Pre(t.lines, t.row, 0)) = x + 0  BY <1>2, <1>6, PreLen
    <1>8. Offset(t.lines, p) = Len(Pre(t.lines, t.row, 0))  BY <1>5, <1>6, OffsetIs
    <1> QED  BY <1>2, <1>5, <1>7, <1>8

\* A completion takes the place of the token at the cursor, and only that.
CompletionReplaces(t, with) ==
    Replaces(ReplaceCurrentToken(t, with), t, Completed(t).from, Completed(t).to, InBytes(with))

LEMMA CompletedIs ==
    \A t : Completed(t) = IF t.anchor.set /\ t.anchor.row # t.row THEN [from |-> From(t), to |-> To(t)]
             ELSE LET x == Offset(t.lines, Pos(t.row, 0))
                  IN  [from |-> x + Token(Line(t, t.row), From(t) - x, To(t) - x)[1],
                       to |-> x + Token(Line(t, t.row), From(t) - x, To(t) - x)[2]]
    BY Zenon DEF Completed

LEMMA TokenReplaced ==
    ASSUME NEW t, BufferOK(t), CursorsValid(t), NEW with \in Seq(Plain), with # <<>>
    PROVE  CompletionReplaces(t, with)
    <1>1. CASE OneRow(t)
        <2>1. PICK x \in Nat : /\ x = Len(Ended(SubSeq(t.lines, 1, t.row)))
                               /\ Offset(t.lines, Pos(t.row, 0)) = x
            BY StartIs
        <2>2. PICK from \in Nat, to \in Nat : OnRow(t, x, from, to)  BY <1>1, <2>1, OnRowIs
        <2>3. Columns(t, from, to) /\ from <= to  BY <2>2 DEF OnRow, Columns
        <2>4. PICK start \in Nat, end \in Nat :
                 /\ Chosen(Line(t, t.row), from, to, start, end)
                 /\ ReplaceCurrentToken(t, with) = ReplaceInLine(t, start, end, LinesOf(with)[1])
            BY <1>1, <2>3, ReplaceTokenIs
        <2>5. PICK l \in Flat : /\ l = Line(t, t.row) /\ l = t.lines[t.row + 1]
                                /\ to <= Len(l) /\ Boundary(l, from) /\ Boundary(l, to)
            <3>1. t.lines \in Pieces /\ t.row \in Nat /\ t.row < Len(t.lines)
                BY DEF BufferOK, Sound, InPlace
            <3>2. t.lines[t.row + 1] \in Flat  BY <3>1, LineIs
            <3> QED  BY <2>2, <3>2 DEF OnRow, Place, Line
        <2>6. /\ Token(l, from, to) = <<start, end>>
              /\ start <= end /\ end <= Len(l) /\ Boundary(l, start) /\ Boundary(l, end)
            BY <2>3, <2>4, <2>5, TokenIs
        <2>7. Place(t.lines, t.row, start) /\ Place(t.lines, t.row, end)
            <3>1. Place(t.lines, t.row, to)  BY <2>2 DEF OnRow
            <3>2. start <= Len(l)
                <4>1. Len(l) \in Nat  BY FlatLen
                <4> QED  BY <2>6, <4>1
            <3> QED  BY <2>5, <2>6, <3>1, <3>2 DEF Place
        <2>8. Completed(t).from = x + start /\ Completed(t).to = x + end
            <3>1. From(t) - x = from /\ To(t) - x = to  BY <2>2 DEF OnRow
            <3>2. Token(Line(t, t.row), From(t) - x, To(t) - x) = <<start, end>>  BY <2>5, <2>6, <3>1
            <3>3. <<start, end>>[1] = start /\ <<start, end>>[2] = end  OBVIOUS
            <3>4. Completed(t) = [from |-> x + start, to |-> x + end]
                BY <1>1, <2>1, <3>2, <3>3, OneRowIs, CompletedIs, Zenon
            <3> QED  BY <3>4
        <2>9. PICK w \in Flat : w = InBytes(with) /\ w = LinesOf(with)[1]  BY PlainBytes, OneLineIs
        <2>10. PICK u : u = ReplaceInLine(t, start, end, w)  OBVIOUS
        <2>11. Replaced(t, start, end, w, u)  BY <2>5, <2>6, <2>10, ReplaceInLineIs
        <2>12. Replaces(u, t, x + start, x + end, w)  BY <2>1, <2>6, <2>7, <2>11, RowReplaces
        <2>13. ReplaceCurrentToken(t, with) = u  BY <2>4, <2>9, <2>10, Zenon
        <2> QED  BY <2>8, <2>9, <2>12, <2>13, Zenon DEF CompletionReplaces
    <1>2. CASE ~ OneRow(t)
        <2>1. HasSelection(t) /\ SelectionRange(t).start.row # SelectionRange(t).end.row
            BY <1>2 DEF OneRow
        <2>2. ReplaceCurrentToken(t, with) = InsertText(t, with)
            BY <2>1, Zenon DEF ReplaceCurrentToken
        <2>3. with \in Seq(Char)  BY PlainBytes
        <2>4. PICK L \in Flat, m \in Flat, R \in Flat : Cut3(t, L, m, R)  BY Cut3Is
        <2>5. Replaces(InsertText(t, with), t, From(t), To(t), InBytes(with))
            BY <2>3, <2>4, InsertReplaces
        <2>6. Completed(t) = [from |-> From(t), to |-> To(t)]  BY <1>2, OneRowIs, CompletedIs, Zenon
        <2>7. Completed(t).from = From(t) /\ Completed(t).to = To(t)  BY <2>6
        <2> QED  BY <2>2, <2>5, <2>7, Zenon DEF CompletionReplaces
    <1> QED  BY <1>1, <1>2

\* A quoted identifier ends at the cursor when a quote that is paired does, and
\* no other follows.
LEMMA ClosesIs ==
    ASSUME NEW t, BufferOK(t), CursorsValid(t) PROVE AfterClosedQuote(t) <=> Closes(t)
    <1>1. PICK line \in Flat, n \in Nat, c \in Nat :
             line = Line(t, t.row) /\ n = Len(line) /\ DOMAIN line = 1 .. n /\ c = t.col /\ c <= n
        <2>1. t.lines \in Pieces /\ InPlace(t)  BY DEF BufferOK, Sound
        <2>2. Line(t, t.row) \in Flat /\ t.col \in Nat /\ t.col <= Len(Line(t, t.row))
            BY <2>1, LineIs DEF InPlace, Line
        <2> QED  BY <2>2, FlatLen DEF Flat
    <1>2. HasSelection(t) <=> From(t) # To(t)
        <2>1. PICK L \in Flat, m \in Flat, R \in Flat : Cut3(t, L, m, R)  BY Cut3Is
        <2>2. PICK x \in Nat, y \in Nat : x = Len(L) /\ y = Len(m) /\ From(t) = x /\ To(t) = x + y
            BY <2>1, FlatLen DEF Cut3
        <2>3. HasSelection(t) => y > 0  BY <2>1, <2>2 DEF Cut3
        <2>4. ~ HasSelection(t) => y = 0
            <3>1. Len(<<>>) = 0  OBVIOUS
            <3> QED  BY <2>1, <2>2, <3>1 DEF Cut3
        <2> QED  BY <2>2, <2>3, <2>4
    <1>3. c \in 1 .. n <=> c > 0  BY <1>1
    <1>4. ASSUME c \in 1 .. n PROVE Scan(line)[c] = "closed" <=> line[c] = Quote /\ ~ Odd(line, c)
        <2>1. Counted(line, c) /\ c > 0  BY <1>1, <1>4, ScanCounts
        <2> QED  BY <2>1 DEF Counted
    <1>5. ASSUME c \in 1 .. n, line[c] = Quote, ~ Odd(line, c)
          PROVE  c + 1 \notin Component(line, c) <=> (c < n => line[c + 1] # Quote)
        <2>1. PartAt(line, c) = "quoted"  BY <1>5 DEF PartAt
        <2>2. c + 1 \in Component(line, c) <=> c + 1 \in 1 .. n /\ Run(line, "quoted", c, c + 1)
            <3>1. ~ c + 1 <= c  OBVIOUS
            <3> QED  BY <1>1, <1>5, <2>1, <3>1, ComponentIs
        <2>3. Run(line, "quoted", c, c + 1) <=> PartAt(line, c + 1) = "quoted"
            <3>1. \A j \in c .. c + 1 : j = c \/ j = c + 1  OBVIOUS
            <3>2. c + 1 \in c .. c + 1  OBVIOUS
            <3> QED  BY <2>1, <3>1, <3>2 DEF Run
        <2>4. PartAt(line, c + 1) = "quoted" <=> line[c + 1] = Quote
            <3>1. Odd(line, c + 1) <=> line[c + 1] = Quote  BY <1>5, OddStep
            <3> QED  BY <3>1 DEF PartAt
        <2>5. c + 1 \in 1 .. n <=> c < n  OBVIOUS
        <2> QED  BY <2>2, <2>3, <2>4, <2>5
    <1>6. AfterClosedQuote(t) <=> /\ ~ HasSelection(t) /\ c \in 1 .. n
                                  /\ Scan(line)[c] = "closed" /\ c + 1 \notin Component(line, c)
        BY <1>1, Zenon DEF AfterClosedQuote
    <1>7. Closes(t) <=> /\ From(t) = To(t) /\ c > 0 /\ line[c] = Quote /\ ~ Odd(line, c)
                        /\ c < n => line[c + 1] # Quote
        BY <1>1, Zenon DEF Closes
    <1> QED  BY <1>2, <1>3, <1>4, <1>5, <1>6, <1>7

(***************************************************************************)
(* Characters are counted by their first bytes.                            *)
(***************************************************************************)
One(e) == IF e # More THEN 1 ELSE 0

LEMMA CountNone == CharCount(<<>>) = 0
    <1>1. {i \in DOMAIN <<>> : <<>>[i] # More} = {}  OBVIOUS
    <1> QED  BY <1>1, FS_EmptySet DEF CharCount

\* One byte more counts, unless it is the second of a character.
LEMMA CountAppend ==
    ASSUME NEW s \in Seq(AnyByte), NEW e \in AnyByte
    PROVE  CharCount(Append(s, e)) = CharCount(s) + One(e)
    <1>1. PICK t \in Seq(AnyByte), n \in Nat : IsAppend(t, s, e, n)  BY AppendIs
    <1>2. /\ t = Append(s, e) /\ Len(s) = n /\ Len(t) = n + 1 /\ t[n + 1] = e
          /\ \A i \in 1 .. n : t[i] = s[i]
        BY <1>1 DEF IsAppend
    <1>3. DOMAIN s = 1 .. n /\ DOMAIN t = 1 .. n + 1  BY <1>2
    <1>4. PICK S, T : S = {i \in 1 .. n : s[i] # More} /\ T = {i \in 1 .. n + 1 : t[i] # More}  OBVIOUS
    <1>5. CharCount(s) = Cardinality(S) /\ CharCount(t) = Cardinality(T)
        BY <1>3, <1>4, Zenon DEF CharCount
    <1>6. IsFiniteSet(S) /\ n + 1 \notin S
        <2>1. IsFiniteSet(1 .. n) /\ S \subseteq 1 .. n  BY <1>4, FS_Interval
        <2>2. IsFiniteSet(S)  BY <2>1, FS_Subset
        <2>3. n + 1 \notin 1 .. n  OBVIOUS
        <2> QED  BY <2>1, <2>2, <2>3
    <1>7. 1 .. n + 1 = (1 .. n) \cup {n + 1}  OBVIOUS
    <1>8. CASE e # More
        <2>1. T = S \cup {n + 1}  BY <1>2, <1>4, <1>7, <1>8
        <2>2. Cardinality(S \cup {n + 1}) = Cardinality(S) + 1  BY <1>6, FS_AddElement
        <2> QED  BY <1>2, <1>5, <1>8, <2>1, <2>2 DEF One
    <1>9. CASE e = More
        <2>1. T = S  BY <1>2, <1>4, <1>7, <1>9
        <2>2. CharCount(s) \in Nat  BY CountIs
        <2> QED  BY <1>2, <1>5, <1>9, <2>1, <2>2 DEF One
    <1> QED  BY <1>8, <1>9

LEMMA CountConcat ==
    ASSUME NEW a \in Flat, NEW b \in Flat
    PROVE  CharCount(a ++ b) = CharCount(a) + CharCount(b)
    <1>1. a \in Seq(AnyByte) /\ b \in Seq(AnyByte)  BY DEF Flat
    <1>2. PICK S : S = {s \in Seq(AnyByte) : CharCount(a \o s) = CharCount(a) + CharCount(s)}  OBVIOUS
    <1>3. <<>> \in S
        <2>1. a \o <<>> = a /\ CharCount(a) \in Nat  BY <1>1, CountIs
        <2> QED  BY <1>2, <2>1, CountNone
    <1>4. \A s \in Seq(AnyByte), e \in AnyByte : s \in S => Append(s, e) \in S
        <2> SUFFICES ASSUME NEW s \in Seq(AnyByte), NEW e \in AnyByte, s \in S
                     PROVE  CharCount(a \o Append(s, e)) = CharCount(a) + CharCount(Append(s, e))
            BY <1>2
        <2>1. a \o Append(s, e) = Append(a \o s, e)
            <3>1. <<e>> \in Seq(AnyByte) /\ a \o s \in Seq(AnyByte)  BY <1>1
            <3>2. Append(s, e) = s \o <<e>> /\ Append(a \o s, e) = (a \o s) \o <<e>>  BY <3>1, AppendIsConcat
            <3>3. (a \o s) \o <<e>> = a \o (s \o <<e>>)  BY <1>1, <3>1, ConcatAssociative
            <3> QED  BY <3>2, <3>3, Zenon
        <2>2. PICK c \in Seq(AnyByte) : c = a \o s
            <3>1. a \o s \in Seq(AnyByte)  BY <1>1
            <3> QED  BY <3>1, Zenon
        <2>3. CharCount(Append(c, e)) = CharCount(c) + One(e)  BY CountAppend
        <2>4. CharCount(Append(s, e)) = CharCount(s) + One(e)  BY CountAppend
        <2>5. CharCount(c) = CharCount(a) + CharCount(s)  BY <1>2, <2>2
        <2>6. PICK x \in Nat, y \in Nat : x = CharCount(a) /\ y = CharCount(s)  BY <1>1, CountIs
        <2>7. PICK o \in Nat : o = One(e)  BY DEF One
        <2>8. (x + y) + o = x + (y + o)  OBVIOUS
        <2> QED  BY <2>1, <2>2, <2>3, <2>4, <2>5, <2>6, <2>7, <2>8, Zenon
    <1>5. Seq(AnyByte) \subseteq S  BY <1>3, <1>4, SeqInduction
    <1> QED  BY <1>1, <1>2, <1>5 DEF ++

\* What is typed has as many characters as its bytes count.
LEMMA InBytesAppend ==
    ASSUME NEW s \in Seq(Char), NEW ch \in Char
    PROVE  /\ Append(s, ch) \in Seq(Char) /\ Bytes(ch) \in Flat
           /\ InBytes(Append(s, ch)) = InBytes(s) ++ Bytes(ch)
    <1>1. Append(s, ch) = s \o <<ch>> /\ s \o <<ch>> \in Seq(Char) /\ <<ch>> \in Seq(Char)
        BY AppendIsConcat
    <1>2. BytesOf[ch] = Bytes(ch) /\ Bytes(ch) \in Flat /\ Maps(BytesOf, Char, Flat)
        <2>1. Maps(BytesOf, Char, Flat)  BY BytesType
        <2>2. BytesOf[ch] = Bytes(ch)  BY BytesType
        <2> QED  BY <2>1, <2>2 DEF Maps
    <1>3. Each(BytesOf, s \o <<ch>>) = Each(BytesOf, s) \o Each(BytesOf, <<ch>>)
        <2>1. PICK c \in Seq(Char) : c = <<ch>>  BY <1>1, Zenon
        <2>2. Maps(BytesOf, Char, Flat)  BY <1>2
        <2>3. Each(BytesOf, s \o c) = Each(BytesOf, s) \o Each(BytesOf, c)  BY <2>2, EachConcat
        <2> QED  BY <2>1, <2>3, Zenon
    <1>4. Each(BytesOf, <<ch>>) = <<Bytes(ch)>>  BY <1>2, EachOne
    <1>5. PICK x \in Pieces : x = Each(BytesOf, s) /\ InBytes(s) = FlattenSeq(x)  BY InBytesIs
    <1>6. InBytes(s \o <<ch>>) = FlattenSeq(x \o <<Bytes(ch)>>)
        BY <1>1, <1>3, <1>4, <1>5, InBytesIs
    <1>7. x \in Seq(Seq(AnyByte)) /\ Bytes(ch) \in Seq(AnyByte)  BY <1>2, PiecesBytes
    <1>8. <<Bytes(ch)>> \in Seq(Seq(AnyByte))  BY <1>7
    <1>9. FlattenSeq(x \o <<Bytes(ch)>>) = FlattenSeq(x) \o FlattenSeq(<<Bytes(ch)>>)  BY <1>7, <1>8, FlattenConcat
    <1>10. FlattenSeq(<<Bytes(ch)>>) = Bytes(ch)  BY <1>7, FlattenOne
    <1> QED  BY <1>1, <1>2, <1>5, <1>6, <1>9, <1>10, Zenon DEF ++

LEMMA CountBytes ==
    ASSUME NEW ch \in Char PROVE CharCount(Bytes(ch)) = 1
    <1>1. ch # More /\ ch \in AnyByte /\ More \in AnyByte
        <2>1. ch # More  BY BytesType
        <2>2. Char \subseteq AnyByte /\ More \in AnyByte  BY DEF Char, AnyByte, Byte
        <2> QED  BY <2>1, <2>2
    <1>2. PICK e \in Seq(AnyByte) : e = <<>>
        <2>1. <<>> \in Seq(AnyByte)  OBVIOUS
        <2> QED  BY <2>1, Zenon
    <1>3. PICK a \in Seq(AnyByte) : a = Append(e, ch) /\ a = <<ch>>
        <2>1. <<ch>> \in Seq(AnyByte)  BY <1>1
        <2>2. Append(e, ch) = e \o <<ch>>  BY <1>1, AppendIsConcat
        <2>3. e \o <<ch>> = <<ch>>  BY <1>2, <2>1, ConcatEmptySeq
        <2> QED  BY <2>1, <2>2, <2>3, Zenon
    <1>4. CharCount(a) = 0 + One(ch)  BY <1>1, <1>2, <1>3, CountAppend, CountNone
    <1>5. CharCount(a) = 1  BY <1>1, <1>4 DEF One
    <1>6. CASE ch \notin Wide  BY <1>3, <1>5, <1>6 DEF Bytes
    <1>7. CASE ch \in Wide
        <2>1. Append(a, More) = <<ch, More>>
            <3>1. PICK t \in Seq(AnyByte) : t = Append(a, More) /\ Len(t) = 2 /\ t[1] = ch /\ t[2] = More
                <4>1. PICK t \in Seq(AnyByte), n \in Nat : IsAppend(t, a, More, n)  BY <1>1, AppendIs
                <4>2. Len(a) = 1 /\ a[1] = ch /\ 1 \in 1 .. 1  BY <1>3
                <4>3. n = 1  BY <4>1, <4>2 DEF IsAppend
                <4>4. t = Append(a, More) /\ Len(t) = 1 + 1 /\ t[1 + 1] = More /\ t[1] = a[1]
                    BY <4>1, <4>2, <4>3 DEF IsAppend
                <4>5. 1 + 1 = 2  OBVIOUS
                <4> QED  BY <4>2, <4>4, <4>5, Zenon
            <3>2. PICK u \in Seq(AnyByte) : u = <<ch, More>> /\ Len(u) = 2 /\ u[1] = ch /\ u[2] = More
                <4>1. /\ <<ch, More>> \in Seq(AnyByte) /\ Len(<<ch, More>>) = 2
                      /\ <<ch, More>>[1] = ch /\ <<ch, More>>[2] = More
                    BY <1>1
                <4> QED  BY <4>1, Zenon
            <3>3. \A i \in 1 .. 2 : t[i] = u[i]
                <4>1. \A i \in 1 .. 2 : i = 1 \/ i = 2  OBVIOUS
                <4> QED  BY <3>1, <3>2, <4>1
            <3> QED  BY <3>1, <3>2, <3>3, SeqEqual
        <2>2. CharCount(Append(a, More)) = CharCount(a) + One(More)  BY <1>1, CountAppend
        <2>3. One(More) = 0  BY DEF One
        <2> QED  BY <1>5, <1>7, <2>1, <2>2, <2>3 DEF Bytes
    <1> QED  BY <1>6, <1>7

\* What is typed counts as many characters as it has.
LEMMA CountInBytes ==
    ASSUME NEW with \in Seq(Char) PROVE CharCount(InBytes(with)) = Len(with)
    <1>1. PICK S : S = {s \in Seq(Char) : CharCount(InBytes(s)) = Len(s)}  OBVIOUS
    <1>2. <<>> \in S
        <2>1. <<>> \in Seq(Char) /\ Len(<<>>) = 0  OBVIOUS
        <2>2. InBytes(<<>>) = <<>>  BY <2>1, InBytesIs, EachNone, FlattenEmpty
        <2> QED  BY <1>1, <2>1, <2>2, CountNone
    <1>3. \A s \in Seq(Char), ch \in Char : s \in S => Append(s, ch) \in S
        <2> SUFFICES ASSUME NEW s \in Seq(Char), NEW ch \in Char, CharCount(InBytes(s)) = Len(s)
                     PROVE  Append(s, ch) \in S
            BY <1>1
        <2>1. /\ Append(s, ch) \in Seq(Char) /\ Bytes(ch) \in Flat
              /\ InBytes(Append(s, ch)) = InBytes(s) ++ Bytes(ch)
            BY InBytesAppend
        <2>2. CharCount(InBytes(s) ++ Bytes(ch)) = CharCount(InBytes(s)) + CharCount(Bytes(ch))
            BY <2>1, InBytesIs, CountConcat
        <2>3. Len(Append(s, ch)) = Len(s) + 1  OBVIOUS
        <2>4. CharCount(InBytes(Append(s, ch))) = Len(Append(s, ch))
            BY <2>1, <2>2, <2>3, CountBytes
        <2> QED  BY <1>1, <2>1, <2>4
    <1>4. Seq(Char) \subseteq S  BY <1>2, <1>3, SeqInduction
    <1> QED  BY <1>1, <1>4

(***************************************************************************)
(* The limit of the semantic query.                                        *)
(***************************************************************************)
\* The prefix of an insertion for which there is room.
Fit(t, with) == SubSeq(with, 1, MinOf(Room(t), Len(with)))

LEMMA FitIs ==
    ASSUME NEW with \in Seq(Char), NEW t, BufferOK(t)
    PROVE  /\ Fit(t, with) \in Seq(Char)
           /\ Len(Fit(t, with)) = MinOf(Room(t), Len(with))
           /\ Len(with) <= Room(t) => Fit(t, with) = with
    <1>1. PICK r \in Nat, n \in Nat : r = Room(t) /\ n = Len(with)  BY RoomIs
    <1>2. PICK k \in Nat : k = MinOf(r, n) /\ k <= n /\ (n <= r => k = n)  BY DEF MinOf
    <1>3. PICK f \in Seq(Char) : f = SubSeq(with, 1, k) /\ StartOf(f, with, k)
        BY <1>1, <1>2, PrefixOf
    <1>4. f = Fit(t, with)  BY <1>1, <1>2, <1>3 DEF Fit
    <1>5. Len(f) = k /\ \A j \in 1 .. k : f[j] = with[j]  BY <1>3 DEF StartOf
    <1>6. n <= r => f = with
        <2> SUFFICES ASSUME n <= r PROVE f = with  OBVIOUS
        <2>1. Len(f) = n /\ Len(with) = n /\ \A j \in 1 .. n : f[j] = with[j]  BY <1>1, <1>2, <1>5
        <2> QED  BY <2>1, SeqEqual
    <1> QED  BY <1>1, <1>2, <1>4, <1>5, <1>6

LEMMA LimitedIs ==
    ASSUME NEW t, NEW with, SelectionCuts(t), NEW u, u = InsertText(t, Fit(t, with)), BufferOK(u)
    PROVE  InsertLimited(t, with) = u
    <1>1. IsBuffer(u) /\ u.ok = TRUE  BY DEF BufferOK, Sound
    <1>2. [u EXCEPT !.ok = @ /\ TRUE] = u  BY <1>1 DEF IsBuffer
    <1>3. SelectionCuts(t) = TRUE  OBVIOUS
    <1> QED  BY <1>2, <1>3, Zenon DEF InsertLimited, Fit

KeepsLimit(t, with) ==
    LET u == InsertLimited(t, with)
        fits == Replaces(InsertLimited(t, with), t, From(t), To(t), InBytes(with))
    IN  /\ CharCount(Text(u.lines)) <= Max({Limit, CharCount(Text(t.lines))})
        /\ CharCount(Text(u.lines)) < Limit => fits

\* The counts of the three parts of a text.
LEMMA CountParts ==
    ASSUME NEW L \in Flat, NEW m \in Flat, NEW R \in Flat
    PROVE  CharCount(L ++ (m ++ R)) = CharCount(L) + (CharCount(m) + CharCount(R))
    <1>1. m ++ R \in Flat  BY FlatLaws
    <1>2. CharCount(L ++ (m ++ R)) = CharCount(L) + CharCount(m ++ R)  BY <1>1, CountConcat
    <1>3. CharCount(m ++ R) = CharCount(m) + CharCount(R)  BY CountConcat
    <1> QED  BY <1>2, <1>3

LEMMA LimitMax ==
    ASSUME NEW a \in Nat, NEW b \in Nat
    PROVE  Max({a, b}) \in Nat /\ a <= Max({a, b}) /\ b <= Max({a, b})
    <1>1. {a, b} \subseteq 0 .. a + b /\ {a, b} # {} /\ a + b \in Nat  OBVIOUS
    <1>2. Max({a, b}) \in {a, b} /\ \A y \in {a, b} : y <= Max({a, b})  BY <1>1, MaxIs
    <1> QED  BY <1>2

\* An insertion never takes a query past its limit, and what it leaves out is
\* only what has no room.
LEMMA LimitKept ==
    ASSUME NEW t, BufferOK(t), CursorsValid(t), NEW with \in Seq(Char), with # <<>>
    PROVE  KeepsLimit(t, with)
    <1>1. PICK L \in Flat, m \in Flat, R \in Flat : Cut3(t, L, m, R)  BY Cut3Is
    <1>2. PICK a \in Nat, b \in Nat, c \in Nat : a = CharCount(L) /\ b = CharCount(m) /\ c = CharCount(R)
        BY CountIs DEF Flat
    <1>3. PICK n \in Nat : n = Len(with) /\ n > 0
        BY EmptySeq
    <1>4. Text(t.lines) = L ++ (m ++ R) /\ CharCount(Text(t.lines)) = a + (b + c)
        <2>1. Text(t.lines) = L ++ (m ++ R)  BY <1>1 DEF Cut3
        <2> QED  BY <1>2, <2>1, CountParts
    <1>5. SelectedChars(t) = b /\ SelectionCuts(t)
        <2>1. CASE HasSelection(t)
            <3>1. SelectedText(t) = m /\ SelectionCuts(t)  BY <1>1, <2>1 DEF Cut3
            <3> QED  BY <1>2, <2>1, <3>1 DEF SelectedChars
        <2>2. CASE ~ HasSelection(t)
            <3>1. m = <<>>  BY <1>1, <2>2 DEF Cut3
            <3>2. b = 0  BY <1>2, <3>1, CountNone
            <3> QED  BY <2>2, <3>2 DEF SelectedChars, SelectionCuts
        <2> QED  BY <2>1, <2>2
    <1>6. Limit \in Nat  BY SqlEditorAssumption
    <1>7. PICK r \in Nat : /\ r = Room(t)
                           /\ IF Limit < a + (b + c) THEN r = b ELSE r + (a + c) = Limit
        <2>1. Room(t) = Minus(Limit, a + (b + c)) + b  BY <1>4, <1>5 DEF Room, Length
        <2>2. CASE Limit < a + (b + c)  BY <2>1, <2>2 DEF Minus
        <2>3. CASE ~ Limit < a + (b + c)
            <3>1. Minus(Limit, a + (b + c)) = Limit - (a + (b + c))  BY <2>3 DEF Minus
            <3>2. Limit - (a + (b + c)) + b \in Nat
                  /\ (Limit - (a + (b + c)) + b) + (a + c) = Limit
                BY <1>6, <2>3
            <3> QED  BY <2>1, <2>3, <3>1, <3>2
        <2> QED  BY <2>2, <2>3
    <1>8. PICK f \in Seq(Char), k \in Nat :
             f = Fit(t, with) /\ k = Len(f) /\ k <= r /\ k <= n /\ (k = r \/ k = n) /\ (n <= r => f = with)
        <2>1. /\ Fit(t, with) \in Seq(Char) /\ Len(Fit(t, with)) = MinOf(r, n)
              /\ n <= r => Fit(t, with) = with
            BY <1>3, <1>7, FitIs
        <2>2. MinOf(r, n) \in Nat /\ MinOf(r, n) <= r /\ MinOf(r, n) <= n /\ (MinOf(r, n) = r \/ MinOf(r, n) = n)
            BY DEF MinOf
        <2> QED  BY <2>1, <2>2
    <1>9. PICK u : /\ u = InsertLimited(t, with)
                   /\ CharCount(Text(u.lines)) = a + c + (IF k = 0 THEN b ELSE k)
                   /\ k > 0 => Replaces(u, t, From(t), To(t), InBytes(f))
        <2>1. CASE f # <<>>
            <3>1. PICK u : u = InsertText(t, f)  OBVIOUS
            <3>2. /\ BufferOK(u) /\ At2(u) /\ PreT(u) = L ++ InBytes(f) /\ PostT(u) = R
                  /\ Replaces(u, t, From(t), To(t), InBytes(f))
                BY <1>1, <2>1, <3>1, InsertReplaces
            <3>3. InsertLimited(t, with) = u  BY <1>5, <1>8, <3>1, <3>2, LimitedIs
            <3>4. k > 0  BY <1>8, <2>1, EmptySeq
            <3>5. CharCount(Text(u.lines)) = a + c + k
                <4>1. PICK w \in Flat : w = InBytes(f)  BY InBytesIs
                <4>2. Text(u.lines) = (L ++ w) ++ R
                    <5>1. Place(u.lines, u.row, u.col)  BY <3>2 DEF At2
                    <5>2. Text(u.lines) = PreT(u) ++ PostT(u)  BY <5>1, PlaceCuts DEF PreT, PostT
                    <5> QED  BY <3>2, <4>1, <5>2, Zenon
                <4>3. (L ++ w) ++ R = L ++ (w ++ R)  BY FlatLaws
                <4>4. CharCount(L ++ (w ++ R)) = CharCount(L) + (CharCount(w) + CharCount(R))  BY CountParts
                <4>5. CharCount(w) = k  BY <1>8, <4>1, CountInBytes
                <4>6. CharCount(Text(u.lines)) = a + (k + c)  BY <1>2, <4>2, <4>3, <4>4, <4>5, Zenon
                <4> QED  BY <4>6
            <3> QED  BY <3>2, <3>3, <3>4, <3>5
        <2>2. CASE f = <<>>
            <3>1. k = 0  BY <1>8, <2>2, EmptySeq
            <3>2. InsertText(t, f) = t  BY <2>2, Zenon DEF InsertText
            <3>3. InsertLimited(t, with) = t  BY <1>5, <1>8, <3>2, LimitedIs
            <3>4. a + (b + c) = a + c + b  OBVIOUS
            <3> QED  BY <1>4, <3>1, <3>3, <3>4
        <2> QED  BY <2>1, <2>2
    <1>10. PICK x \in Nat : x = CharCount(Text(u.lines)) /\ x = a + c + (IF k = 0 THEN b ELSE k)  BY <1>9
    <1>11. PICK z \in Nat : z = Max({Limit, CharCount(Text(t.lines))}) /\ Limit <= z /\ a + (b + c) <= z
        BY <1>4, <1>6, LimitMax
    <1>12. x <= z /\ (x < Limit => k = n /\ n <= r /\ k > 0)
        <2>1. PICK lim \in Nat : lim = Limit  BY <1>6
        <2>2. k <= r /\ k <= n /\ (k = r \/ k = n) /\ n > 0  BY <1>3, <1>8
        <2>3. IF lim < a + (b + c) THEN r = b ELSE r + (a + c) = lim  BY <1>7, <2>1
        <2>4. lim <= z /\ a + (b + c) <= z  BY <1>11, <2>1
        <2>5. CASE k = 0
            <3>1. x = a + c + b  BY <1>10, <2>5
            <3>2. r = 0  BY <2>2, <2>5
            <3>3. ~ x < lim  BY <2>3, <3>1, <3>2
            <3> QED  BY <2>1, <2>4, <3>1, <3>3
        <2>6. CASE k > 0
            <3>1. x = a + c + k  BY <1>10, <2>6
            <3>2. x <= z  BY <2>2, <2>3, <2>4, <3>1
            <3>3. x < lim => k = n /\ n <= r  BY <2>2, <2>3, <3>1
            <3> QED  BY <2>1, <2>6, <3>2, <3>3
        <2> QED  BY <2>5, <2>6
    <1>14. x < Limit => Replaces(u, t, From(t), To(t), InBytes(with))
        BY <1>8, <1>9, <1>12
    <1> QED  BY <1>9, <1>10, <1>11, <1>12, <1>14, Zenon DEF KeepsLimit

(***************************************************************************)
(* The property.                                                           *)
(***************************************************************************)
\* What the two panels make of an insertion.
LEMMA EditorInserts == ASSUME panel = "editor" PROVE \A t, with : Insert(t, with) = InsertText(t, with)
    BY Zenon DEF Insert

LEMMA QueryInserts ==
    ASSUME panel = "semantic" PROVE \A t, with : Insert(t, with) = InsertLimited(t, with)
    <1>1. panel # "editor"  OBVIOUS
    <1> QED  BY <1>1, Zenon DEF Insert

Typed == {<<ch>> : ch \in Chars} \cup (Pastes \ {<<>>})

LEMMA TypedIs == ASSUME NEW with \in Typed PROVE with \in Seq(Char) /\ with # <<>>
    <1>1. CASE with \in Pastes \ {<<>>}  BY <1>1, TextsAre
    <1>2. CASE with \notin Pastes \ {<<>>}
        <2>1. PICK ch \in Chars : with = <<ch>>  BY <1>2 DEF Typed
        <2>2. ch \in Char  BY DEF Chars, Char
        <2>3. <<ch>> \in Seq(Char) /\ Len(<<ch>>) = 1  BY <2>2
        <2>4. Len(<<>>) = 0  OBVIOUS
        <2> QED  BY <2>1, <2>3, <2>4
    <1> QED  BY <1>1, <1>2

\* A completion that is offered is never empty and never has a newline.
LEMMA OfferedIs ==
    ASSUME NEW batch \in Batches, NEW i \in DOMAIN batch
    PROVE  batch[i].text \in Seq(Plain) /\ batch[i].text \in Seq(Char) /\ batch[i].text # <<>>
    <1>1. batch \in Seq(Item)  BY SqlEditorAssumption DEF Item
    <1>2. batch[i] \in Item  BY <1>1
    <1>3. batch[i].text \in Seq(Chars) /\ batch[i].text # <<>>  BY <1>2 DEF Item
    <1>4. Chars \subseteq Plain
        <2>1. \A ch \in Letters \cup Marks : ch # NewLine  BY TextInputAssumption DEF NewLine
        <2>2. Space # NewLine  BY DEF Space, NewLine
        <2> QED  BY <2>1, <2>2 DEF Chars, Plain, Char
    <1>5. batch[i].text \in Seq(Char)  BY <1>2, ItemIs
    <1> QED  BY <1>3, <1>4, <1>5

Edited ==
    /\ Replaces(Backspace(text), text, Erased(text), To(text), <<>>)
    /\ panel = "editor" =>
         \A with \in Typed : Replaces(Insert(text, with), text, From(text), To(text), InBytes(with))
    /\ panel = "semantic" => \A with \in Typed :
         LET u == Insert(text, with)
             fits == Replaces(Insert(text, with), text, From(text), To(text), InBytes(with))
         IN  /\ CharCount(Text(u.lines)) <= Max({Limit, CharCount(Text(text.lines))})
             /\ CharCount(Text(u.lines)) < Limit => fits

\* The property, with its parts named.
LEMMA EditedIs == (text.ok /\ CursorsValid(text) => Edited) => EditsReplaceSelection
    BY Zenon DEF EditsReplaceSelection, Edited, Typed, Erased, CharStart

LEMMA EditsAre == ASSUME IInv, text.ok, CursorsValid(text) PROVE Edited
    <1>1. BufferOK(text)  BY OkFine
    <1>2. Replaces(Backspace(text), text, Erased(text), To(text), <<>>)  BY <1>1, BackspaceReplaces
    <1>3. ASSUME panel = "editor", NEW with \in Typed
          PROVE  Replaces(Insert(text, with), text, From(text), To(text), InBytes(with))
        <2>1. with \in Seq(Char) /\ with # <<>>  BY TypedIs
        <2>2. PICK L \in Flat, m \in Flat, R \in Flat : Cut3(text, L, m, R)  BY <1>1, Cut3Is
        <2>3. Replaces(InsertText(text, with), text, From(text), To(text), InBytes(with))
            BY <2>1, <2>2, InsertReplaces
        <2> QED  BY <1>3, <2>3, EditorInserts
    <1>4. ASSUME panel = "semantic", NEW with \in Typed PROVE KeepsLimit(text, with)
        BY <1>1, TypedIs, LimitKept
    <1>5. ASSUME panel = "semantic" PROVE \A with : Insert(text, with) = InsertLimited(text, with)
        BY <1>5, QueryInserts
    <1>6. ASSUME panel = "semantic", NEW with \in Typed
          PROVE  LET u == Insert(text, with)
                     fits == Replaces(Insert(text, with), text, From(text), To(text), InBytes(with))
                 IN  /\ CharCount(Text(u.lines)) <= Max({Limit, CharCount(Text(text.lines))})
                     /\ CharCount(Text(u.lines)) < Limit => fits
        <2>1. KeepsLimit(text, with)  BY <1>4, <1>6
        <2>2. Insert(text, with) = InsertLimited(text, with)  BY <1>5, <1>6
        <2>3. PICK u : u = Insert(text, with) /\ u = InsertLimited(text, with)  BY <2>2
        <2>4. /\ CharCount(Text(u.lines)) <= Max({Limit, CharCount(Text(text.lines))})
              /\ CharCount(Text(u.lines)) < Limit
                    => Replaces(u, text, From(text), To(text), InBytes(with))
            BY <2>1, <2>3, Zenon DEF KeepsLimit
        <2> QED  BY <2>3, <2>4, Zenon
    <1> QED  BY <1>2, <1>3, <1>6, Zenon DEF Edited

\* Whenever cursor and anchor stand between characters, what is typed or pasted
\* takes the place of the selection, Backspace takes it or one character, and a
\* query keeps its limit, for every text, alphabet and paste (text_input).
THEOREM EditsReplaceSelectionHolds == Spec => []EditsReplaceSelection
    <1>1. IInv => EditsReplaceSelection  BY EditedIs, EditsAre
    <1> QED  BY <1>1, Invariance, PTL

(***************************************************************************)
(* A completion.                                                           *)
(***************************************************************************)
Accepted(t, item) ==
    IF item.kind = "Keyword" /\ Closes(t)
    THEN Replaces(InsertCompletion(t, item), t, From(t), To(t), InBytes(SpaceAnd(item.text)))
    ELSE Replaces(InsertCompletion(t, item), t, Completed(t).from, Completed(t).to, InBytes(item.text))

\* The property, with its parts named.
LEMMA AcceptedIs ==
    (text.ok /\ CursorsValid(text) =>
        \A batch \in Batches : \A i \in DOMAIN batch : Accepted(text, batch[i]))
    => CompletionReplacesComponent
    BY Zenon DEF CompletionReplacesComponent, Accepted, SpaceAnd

LEMMA CompletionsAre ==
    ASSUME IInv, text.ok, CursorsValid(text), NEW batch \in Batches, NEW i \in DOMAIN batch
    PROVE  Accepted(text, batch[i])
    <1>1. BufferOK(text)  BY OkFine
    <1>2. PICK item : item = batch[i]  OBVIOUS
    <1>3. item.text \in Seq(Plain) /\ item.text \in Seq(Char) /\ item.text # <<>>  BY <1>2, OfferedIs
    <1>4. AfterClosedQuote(text) <=> Closes(text)  BY <1>1, ClosesIs
    <1>5. CASE item.kind = "Keyword" /\ Closes(text)
        <2>1. InsertCompletion(text, item) = InsertText(text, SpaceAnd(item.text))
            BY <1>4, <1>5, InsertCompletionIs, Zenon
        <2>2. SpaceAnd(item.text) \in Seq(Char) /\ SpaceAnd(item.text) # <<>>  BY <1>3, SpaceIs
        <2>3. PICK L \in Flat, m \in Flat, R \in Flat : Cut3(text, L, m, R)  BY <1>1, Cut3Is
        <2>4. Replaces(InsertText(text, SpaceAnd(item.text)), text, From(text), To(text),
                       InBytes(SpaceAnd(item.text)))
            BY <2>2, <2>3, InsertReplaces
        <2> QED  BY <1>2, <1>5, <2>1, <2>4, Zenon DEF Accepted
    <1>6. CASE ~ (item.kind = "Keyword" /\ Closes(text))
        <2>1. InsertCompletion(text, item) = ReplaceCurrentToken(text, item.text)
            BY <1>4, <1>6, InsertCompletionIs, Zenon
        <2>2. CompletionReplaces(text, item.text)  BY <1>1, <1>3, TokenReplaced
        <2> QED  BY <1>2, <1>6, <2>1, <2>2, Zenon DEF Accepted, CompletionReplaces
    <1> QED  BY <1>5, <1>6

\* An accepted completion takes the place of the component that holds the cursor
\* or the selection, as the quotes of its line say, and a keyword after a quoted
\* identifier follows it, for every text, quoted or not, and everything that the
\* service may offer (insert_completion_text).
THEOREM CompletionReplacesComponentHolds == Spec => []CompletionReplacesComponent
    <1>1. IInv => CompletionReplacesComponent  BY AcceptedIs, CompletionsAre
    <1> QED  BY <1>1, Invariance, PTL
=============================================================================
