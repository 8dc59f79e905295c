-------------------------- MODULE PortRules_proofs --------------------------
(***************************************************************************)
(* The two implementations of the manual port rules agree on every file    *)
(* and every request that both can read, whatever the ports, the addresses *)
(* and the limits.                                                         *)
(* One validates a whole list, the other adds its rules one by one, so the *)
(* argument is an induction over the rules added; it is made in terms of   *)
(* sets of numbers, from the well-foundedness of <.                        *)
(***************************************************************************)
EXTENDS PortRules, Integers, FiniteSetTheorems, SequenceTheorems, WellFoundedInduction, TLAPS

(* A set of numbers that is not empty has a least one.                     *)
LEMMA LeastNat ==
  ASSUME NEW T, T \subseteq Nat, T # {}
  PROVE  \E m \in T : \A n \in T : m <= n
<1> DEFINE R == OpToRel(<, Nat)
<1>1. IsWellFoundedOn(R, Nat)
  BY NatLessThanWellFounded, Zenon
<1>2. \A x, y \in Nat : x < y => <<x, y>> \in R
  BY DEF OpToRel
<1> HIDE DEF R
<1>3. PICK m \in T : \A n \in T : ~ (<<n, m>> \in R)
  BY <1>1, WFMin
<1>4. \A n \in T : m <= n
  <2> TAKE n \in T
  <2>1. n \in Nat /\ m \in Nat
    OBVIOUS
  <2>2. ~ (n < m)
    BY <1>2, <1>3, <2>1
  <2> QED
    BY <2>1, <2>2
<1> QED
  BY <1>4

LEMMA SetInduction ==
  ASSUME NEW S, 0 \in S, \A n \in Nat : n \in S => n + 1 \in S
  PROVE  Nat \subseteq S
<1> DEFINE T == Nat \ S
<1> SUFFICES ASSUME T # {} PROVE FALSE
  OBVIOUS
<1>1. PICK m \in T : \A n \in T : m <= n
  BY LeastNat
<1>2. m - 1 \in Nat /\ m - 1 \in S
  BY <1>1
<1> QED
  BY <1>1, <1>2

(* What holds at 0 and is carried by every step holds up to N.             *)
LEMMA UpTo ==
  ASSUME NEW N \in Nat, NEW S, 0 \in S, \A i \in 1 .. N : i - 1 \in S => i \in S
  PROVE  0 .. N \subseteq S
<1> DEFINE T == S \cup {n \in Nat : n > N}
<1>1. \A n \in Nat : n \in T => n + 1 \in T
  OBVIOUS
<1>2. Nat \subseteq T
  BY <1>1, SetInduction
<1> QED
  BY <1>2

(* The functions that start with x and go on as G says.                    *)
Recursive(N, X, x, G) ==
    {g \in [0 .. N -> X] : g[0] = x /\ \A i \in 1 .. N : g[i] = G[<<i, g[i - 1]>>]}

(* There is one, over 0 .. N.                                              *)
LEMMA Recursion ==
  ASSUME NEW N \in Nat, NEW X, NEW x \in X, NEW G \in [(1 .. N) \X X -> X]
  PROVE  Recursive(N, X, x, G) # {}
<1> DEFINE Upto(n) == Recursive(n, X, x, G)
<1> DEFINE S == {n \in 0 .. N : Upto(n) # {}}
<1>1. 0 \in S
  <2>1. [i \in 0 .. 0 |-> x] \in Upto(0)
    BY DEF Recursive
  <2> QED
    BY <2>1
<1>2. ASSUME NEW i \in 1 .. N, i - 1 \in S PROVE i \in S
  <2>1. PICK g \in Upto(i - 1) : TRUE
    BY <1>2
  <2> DEFINE h == [k \in 0 .. i |-> IF k = i THEN G[<<i, g[i - 1]>>] ELSE g[k]]
  <2>2. g[i - 1] \in X /\ G[<<i, g[i - 1]>>] \in X
    BY DEF Recursive
  <2>3. h \in [0 .. i -> X] /\ h[0] = x
    BY <2>2 DEF Recursive
  <2>4. ASSUME NEW k \in 1 .. i PROVE h[k] = G[<<k, h[k - 1]>>]
    <3>1. k \in 0 .. i /\ k - 1 \in 0 .. i /\ k - 1 # i
      OBVIOUS
    <3>2. h[k - 1] = g[k - 1]
      BY <3>1
    <3>3. CASE k = i
      BY <3>1, <3>2, <3>3
    <3>4. CASE k # i
      <4>1. k \in 1 .. i - 1
        BY <3>4
      <4>2. g[k] = G[<<k, g[k - 1]>>]
        BY <4>1 DEF Recursive
      <4>3. h[k] = g[k]
        BY <3>1, <3>4
      <4> HIDE DEF h
      <4> QED
        BY <3>2, <4>2, <4>3
    <3> QED
      BY <3>3, <3>4
  <2> HIDE DEF h
  <2>5. h \in Upto(i)
    BY <2>3, <2>4 DEF Recursive
  <2> QED
    BY <2>5
<1>3. N \in S
  <2> HIDE DEF S
  <2> QED
    BY <1>1, <1>2, UpTo
<1> QED
  BY <1>3

-----------------------------------------------------------------------------
(* Adding the rules one by one.                                            *)

(* The first k rules may be beside each other.                             *)
ValidTo(s, k, ssh) ==
    /\ k <= MaxRules
    /\ \A i \in 1 .. k :
          /\ ~HitsSsh(s[i], ssh)
          /\ \A j \in 1 .. i - 1 : ~Clash(s[i], s[j])

CheckedTo(s, k, ssh) == IF ValidTo(s, k, ssh) THEN SubSeq(s, 1, k) ELSE Refused

LEMMA ClashSymmetric == \A r, o : Clash(r, o) <=> Clash(o, r)
  BY DEF Clash

LEMMA CheckedToEnd ==
  ASSUME NEW s \in Seq(Rule), NEW ssh
  PROVE  GoChecked(s, ssh) = CheckedTo(s, Len(s), ssh)
<1>1. SubSeq(s, 1, Len(s)) = s
  BY SubSeqFull
<1>2. GoValid(s, ssh) <=> ValidTo(s, Len(s), ssh)
  BY LenProperties DEF GoValid, ValidTo
<1> QED
  BY <1>1, <1>2 DEF GoChecked, CheckedTo

LEMMA PrefixTyped ==
  ASSUME NEW s \in Seq(Rule), NEW k \in 0 .. Len(s)
  PROVE  /\ SubSeq(s, 1, k) \in Seq(Rule) /\ Len(SubSeq(s, 1, k)) = k
         /\ \A i \in 1 .. k : SubSeq(s, 1, k)[i] = s[i]
         /\ SubSeq(s, 1, k) # Refused
<1>1. k \in Nat /\ \A i \in 1 .. k : s[i] \in Rule
  BY LenProperties
<1>2. /\ SubSeq(s, 1, k) \in Seq(Rule) /\ Len(SubSeq(s, 1, k)) = IF 1 <= k THEN k - 1 + 1 ELSE 0
      /\ \A i \in 1 .. k - 1 + 1 : SubSeq(s, 1, k)[i] = s[1 + i - 1]
  BY <1>1, SubSeqProperties
<1>3. \A i \in 1 .. k : SubSeq(s, 1, k)[i] = s[i]
  BY <1>1, <1>2
<1>4. SubSeq(s, 1, k) # Refused
  BY <1>2, RefusedAssumption, Zenon
<1> QED
  BY <1>1, <1>2, <1>3, <1>4

(* What the next rule is checked for is what makes the list one longer.    *)
LEMMA AddOneChecks ==
  ASSUME NEW s \in Seq(Rule), NEW ssh, NEW k \in 0 .. Len(s) - 1
  PROVE  AwkAddOne(CheckedTo(s, k, ssh), s[k + 1], ssh) = CheckedTo(s, k + 1, ssh)
<1> DEFINE pre == SubSeq(s, 1, k)
<1>0. Len(s) \in Nat /\ MaxRules \in Nat
  BY LenProperties, PortAssumption
<1>1. /\ pre \in Seq(Rule) /\ Len(pre) = k /\ pre # Refused
      /\ \A i \in 1 .. k : pre[i] = s[i]
  BY <1>0, PrefixTyped
<1>2. DOMAIN pre = 1 .. k
  BY <1>1, LenProperties
<1> HIDE DEF pre
<1>3. CASE ~ValidTo(s, k, ssh)
  <2>1. ~ValidTo(s, k + 1, ssh)
    BY <1>0, <1>3 DEF ValidTo
  <2> QED
    BY <1>3, <2>1 DEF CheckedTo, AwkAddOne
<1>4. CASE ValidTo(s, k, ssh)
  <2>1. (\E i \in 1 .. k : Clash(pre[i], s[k + 1])) <=> \E j \in 1 .. k : Clash(s[k + 1], s[j])
    BY <1>1, ClashSymmetric
  <2>2. ValidTo(s, k + 1, ssh) <=>
           /\ ~HitsSsh(s[k + 1], ssh) /\ k # MaxRules
           /\ ~\E j \in 1 .. k : Clash(s[k + 1], s[j])
    BY <1>0, <1>4 DEF ValidTo
  <2>3. SubSeq(s, 1, k + 1) = Append(pre, s[k + 1])
    BY <1>0, SubSeqRecursiveSecond, LenProperties DEF pre
  <2>4. CheckedTo(s, k, ssh) = pre
    BY <1>4 DEF CheckedTo, pre
  <2>5. AwkAddOne(pre, s[k + 1], ssh) =
          IF ValidTo(s, k + 1, ssh) THEN Append(pre, s[k + 1]) ELSE Refused
    BY <1>1, <1>2, <2>1, <2>2 DEF AwkAddOne
  <2> QED
    BY <2>3, <2>4, <2>5 DEF CheckedTo
<1> QED
  BY <1>3, <1>4

(* Adding t to a checked list is checking the list with t behind it: a     *)
(* list that was refused stays refused, whatever is added.                 *)
LEMMA AddAllChecks ==
  ASSUME NEW s \in Seq(Rule), NEW t \in Seq(Rule), NEW ssh
  PROVE  AwkAddAll(GoChecked(s, ssh), t, ssh) = GoChecked(s \o t, ssh)
<1> DEFINE all == s \o t
           n == Len(s)
           N == Len(t)
           x == GoChecked(s, ssh)
           w == [i \in 0 .. N |-> CheckedTo(all, n + i, ssh)]
           P(g) == g = [i \in 0 .. N |-> IF i = 0 THEN x ELSE AwkAddOne(g[i - 1], t[i], ssh)]
<1>1. /\ n \in Nat /\ N \in Nat /\ all \in Seq(Rule) /\ Len(all) = n + N
      /\ \A i \in 1 .. n : all[i] = s[i]
      /\ \A i \in 1 .. N : all[n + i] = t[i]
  BY ConcatProperties, LenProperties
<1>2. w[0] = x
  <2>1. ValidTo(s, n, ssh) <=> ValidTo(all, n, ssh)
    BY <1>1 DEF ValidTo
  <2>2. SubSeq(all, 1, n) = s
    <3>1. /\ SubSeq(all, 1, n) \in Seq(Rule) /\ Len(SubSeq(all, 1, n)) = n
          /\ \A i \in 1 .. n : SubSeq(all, 1, n)[i] = all[i]
      BY <1>1, PrefixTyped
    <3> QED
      BY <1>1, <3>1, SeqEqual
  <2>3. SubSeq(s, 1, n) = s
    BY SubSeqFull
  <2> QED
    BY <1>1, <2>1, <2>2, <2>3, CheckedToEnd DEF CheckedTo
<1>3. \A i \in 1 .. N : w[i] = AwkAddOne(w[i - 1], t[i], ssh)
  <2> TAKE i \in 1 .. N
  <2>1. n + i - 1 \in 0 .. Len(all) - 1 /\ n + i - 1 + 1 = n + i
    BY <1>1
  <2>2. AwkAddOne(CheckedTo(all, n + i - 1, ssh), all[n + i], ssh) = CheckedTo(all, n + i, ssh)
    BY <1>1, <2>1, AddOneChecks
  <2>3. w[i] = CheckedTo(all, n + i, ssh) /\ w[i - 1] = CheckedTo(all, n + i - 1, ssh)
    BY <1>1
  <2> HIDE DEF w, all
  <2> QED
    BY <1>1, <2>2, <2>3
<1>4. P(w)
  <2> DEFINE v == [i \in 0 .. N |-> IF i = 0 THEN x ELSE AwkAddOne(w[i - 1], t[i], ssh)]
  <2>1. \A i \in 0 .. N : w[i] = v[i]
    <3> HIDE DEF w, N, x
    <3> QED
      BY <1>1, <1>2, <1>3
  <2>2. w = v
    <3>1. w = [i \in 0 .. N |-> w[i]] /\ v = [i \in 0 .. N |-> v[i]]
      OBVIOUS
    <3> HIDE DEF w, v
    <3> QED
      BY <2>1, <3>1
  <2> QED
    BY <2>2
<1> DEFINE g == CHOOSE g : P(g)
<1>5. P(g)
  <2> HIDE DEF P, w
  <2> QED
    BY <1>4
<1>6. g[N] = w[N]
  <2> DEFINE S == {i \in 0 .. N : g[i] = w[i]}
  <2>1. g[0] = x /\ \A i \in 1 .. N : g[i] = AwkAddOne(g[i - 1], t[i], ssh)
    <3> HIDE DEF g, N, x
    <3> QED
      BY <1>1, <1>5
  <2>2. 0 \in S /\ \A i \in 1 .. N : i - 1 \in S => i \in S
    <3> HIDE DEF g, w, N, x, P
    <3> QED
      BY <1>1, <1>2, <1>3, <2>1
  <2>3. 0 .. N \subseteq S
    <3> HIDE DEF S
    <3> QED
      BY <1>1, <2>2, UpTo
  <2> QED
    BY <1>1, <2>3
<1>7. AwkAddAll(x, t, ssh) = g[N]
  BY DEF AwkAddAll
<1>8. w[N] = GoChecked(all, ssh)
  <2>1. w[N] = CheckedTo(all, n + N, ssh)
    BY <1>1
  <2> QED
    BY <1>1, <2>1, CheckedToEnd
<1> QED
  BY <1>6, <1>7, <1>8

LEMMA ReadChecks ==
  ASSUME NEW file \in Seq(Rule), NEW ssh
  PROVE  AwkRead(file, ssh) = GoChecked(file, ssh)
<1>1. <<>> \in Seq(Rule) /\ <<>> \o file = file
  BY ConcatEmptySeq, EmptySeq
<1>2. GoChecked(<<>>, ssh) = <<>>
  BY PortAssumption, EmptySeq DEF GoChecked, GoValid
<1> QED
  BY <1>1, <1>2, AddAllChecks DEF AwkRead

-----------------------------------------------------------------------------
(* Removing rules.                                                         *)

(* kept is what is kept of the first 0, 1, 2... rules of s.                *)
Keeps(kept, s, proto, addr, hosts) ==
    /\ kept[0] = <<>>
    /\ \A i \in 1 .. Len(s) :
          kept[i] = IF Asked(s[i], proto, addr, hosts) THEN kept[i - 1]
                    ELSE Append(kept[i - 1], s[i])

LEMMA WithoutKeeps ==
  ASSUME NEW s \in Seq(Rule), NEW proto, NEW addr, NEW hosts
  PROVE  \E kept \in [0 .. Len(s) -> Seq(Rule)] :
            /\ Keeps(kept, s, proto, addr, hosts)
            /\ Without(s, proto, addr, hosts) = kept[Len(s)]
<1> DEFINE N == Len(s)
           none == <<>>
           Lists == Seq(Rule)
           KeepOne(i, sofar) == IF Asked(s[i], proto, addr, hosts) THEN sofar
                                ELSE Append(sofar, s[i])
           G == [a \in (1 .. N) \X Lists |-> KeepOne(a[1], a[2])]
           P(g) == g = [i \in 0 .. N |-> IF i = 0 THEN none ELSE KeepOne(i, g[i - 1])]
<1>1. N \in Nat /\ none \in Lists
  BY LenProperties, EmptySeq
<1>2. \A i \in 1 .. N, sofar \in Lists : KeepOne(i, sofar) \in Lists
  BY LenProperties, AppendProperties
<1>3. PICK h \in [0 .. N -> Lists] :
        h[0] = none /\ \A i \in 1 .. N : h[i] = G[<<i, h[i - 1]>>]
  <2>1. G \in [(1 .. N) \X Lists -> Lists]
    <3> HIDE DEF KeepOne, N, Lists
    <3> QED
      BY <1>2
  <2> HIDE DEF G, N, none, Lists
  <2>2. Recursive(N, Lists, none, G) # {}
    BY <1>1, <2>1, Recursion
  <2> QED
    BY <2>2 DEF Recursive
<1>4. \A i \in 1 .. N : h[i] = KeepOne(i, h[i - 1])
  <2> HIDE DEF KeepOne, N, Lists, none
  <2> TAKE i \in 1 .. N
  <2>1. h[i - 1] \in Lists /\ h[i] = G[<<i, h[i - 1]>>]
    <3> HIDE DEF G
    <3> QED
      BY <1>1, <1>3
  <2> QED
    BY <2>1
<1>5. P(h)
  <2> DEFINE v == [i \in 0 .. N |-> IF i = 0 THEN none ELSE KeepOne(i, h[i - 1])]
  <2>1. \A i \in 0 .. N : h[i] = v[i]
    <3> HIDE DEF N, none, KeepOne
    <3> QED
      BY <1>1, <1>3, <1>4
  <2>2. h = v
    <3>1. h = [i \in 0 .. N |-> h[i]] /\ v = [i \in 0 .. N |-> v[i]]
      OBVIOUS
    <3> HIDE DEF v
    <3> QED
      BY <2>1, <3>1
  <2> QED
    BY <2>2
<1> DEFINE g == CHOOSE g : P(g)
<1>6. P(g)
  <2> HIDE DEF P
  <2> QED
    BY <1>5
<1>7. g[0] = none /\ \A i \in 1 .. N : g[i] = KeepOne(i, g[i - 1])
  <2> HIDE DEF g, N, none, KeepOne
  <2> QED
    BY <1>1, <1>6
<1>8. g[N] = h[N]
  <2> DEFINE S == {i \in 0 .. N : g[i] = h[i]}
  <2>1. 0 \in S /\ \A i \in 1 .. N : i - 1 \in S => i \in S
    <3> HIDE DEF g, N, P, none, KeepOne
    <3> QED
      BY <1>1, <1>3, <1>4, <1>7
  <2>2. 0 .. N \subseteq S
    <3> HIDE DEF S
    <3> QED
      BY <1>1, <2>1, UpTo
  <2> HIDE DEF g, N
  <2> QED
    BY <1>1, <2>2
<1>9. Without(s, proto, addr, hosts) = g[N]
  BY DEF Without
<1>10. Without(s, proto, addr, hosts) = h[N]
  <2> HIDE DEF g
  <2> QED
    BY <1>8, <1>9
<1> QED
  BY <1>3, <1>4, <1>10 DEF Keeps

(* What is kept of a list are rules of it, as many as were not asked for,  *)
(* and those of a valid list may be beside each other.                     *)
LEMMA KeptSound ==
  ASSUME NEW s \in Seq(Rule), NEW ssh, GoValid(s, ssh), NEW proto, NEW addr, NEW hosts
  PROVE  LET kept == Without(s, proto, addr, hosts) IN
         /\ kept \in Seq(Rule) /\ GoValid(kept, ssh)
         /\ Len(kept) + Cardinality({i \in 1 .. Len(s) : Asked(s[i], proto, addr, hosts)})
              = Len(s)
<1> DEFINE N == Len(s)
           A(i) == Asked(s[i], proto, addr, hosts)
           Gone(i) == {j \in 1 .. i : A(j)}
<1>1. PICK h \in [0 .. N -> Seq(Rule)] :
        Keeps(h, s, proto, addr, hosts) /\ Without(s, proto, addr, hosts) = h[N]
  BY WithoutKeeps
<1>2. N \in Nat /\ DOMAIN s = 1 .. N /\ \A i \in 1 .. N : s[i] \in Rule
  BY LenProperties
<1> DEFINE W(i) ==
      /\ Len(h[i]) + Cardinality(Gone(i)) = i
      /\ \A a \in 1 .. Len(h[i]) :
            /\ \E b \in 1 .. i : h[i][a] = s[b]
            /\ \A c \in 1 .. a - 1 : ~Clash(h[i][a], h[i][c])
<1>3. W(0)
  <2>1. h[0] = <<>> /\ Len(h[0]) = 0
    BY <1>1, EmptySeq DEF Keeps
  <2>2. Gone(0) = {} /\ Cardinality(Gone(0)) = 0
    BY FS_EmptySet
  <2> QED
    BY <2>1, <2>2
<1>4. \A i \in 0 .. N : IsFiniteSet(Gone(i)) /\ Cardinality(Gone(i)) \in Nat
  <2> TAKE i \in 0 .. N
  <2>1. IsFiniteSet(1 .. i) /\ Gone(i) \subseteq 1 .. i
    BY FS_Interval
  <2> QED
    BY <2>1, FS_Subset, FS_CardinalityType
<1>5. ASSUME NEW i \in 1 .. N, W(i - 1) PROVE W(i)
  <2>0. h[i - 1] \in Seq(Rule) /\ Len(h[i - 1]) \in Nat /\ i - 1 \in 0 .. N
    <3>1. i - 1 \in 0 .. N
      BY <1>2
    <3>2. h[i - 1] \in Seq(Rule)
      BY <3>1
    <3> HIDE DEF W, N
    <3> QED
      BY <3>1, <3>2, LenProperties
  <2>3. i \in Nat /\ Cardinality(Gone(i - 1)) \in Nat /\ Cardinality(Gone(i)) \in Nat
    <3> HIDE DEF W, N, Gone
    <3> QED
      BY <1>2, <1>4, <2>0
  <2>4. Len(h[i - 1]) + Cardinality(Gone(i - 1)) = i - 1
    BY <1>5
  <2>1. CASE A(i)
    <3>1. h[i] = h[i - 1]
      BY <1>1, <2>1 DEF Keeps
    <3>2. Gone(i) = Gone(i - 1) \cup {i} /\ i \notin Gone(i - 1)
      BY <2>1
    <3>3. Cardinality(Gone(i)) = Cardinality(Gone(i - 1)) + 1
      <4> HIDE DEF Gone, W, N
      <4> QED
        BY <1>4, <2>0, <3>2, FS_AddElement
    <3>4. Len(h[i]) + Cardinality(Gone(i)) = i
      <4> HIDE DEF Gone, W, N
      <4> QED
        BY <2>0, <2>3, <2>4, <3>1, <3>3
    <3>5. ASSUME NEW a \in 1 .. Len(h[i])
          PROVE  /\ \E b \in 1 .. i : h[i][a] = s[b]
                 /\ \A c \in 1 .. a - 1 : ~Clash(h[i][a], h[i][c])
      <4>1. PICK b \in 1 .. i - 1 : h[i - 1][a] = s[b]
        BY <1>5, <3>1
      <4> QED
        BY <1>5, <3>1, <4>1
    <3> HIDE DEF Gone
    <3> QED
      BY <3>4, <3>5
  <2>2. CASE ~A(i)
    <3>1. /\ h[i] = Append(h[i - 1], s[i]) /\ Len(h[i]) = Len(h[i - 1]) + 1
          /\ \A a \in 1 .. Len(h[i - 1]) : h[i][a] = h[i - 1][a]
          /\ h[i][Len(h[i - 1]) + 1] = s[i]
      <4>1. h[i] = Append(h[i - 1], s[i])
        BY <1>1, <2>2 DEF Keeps
      <4>2. s[i] \in Rule
        BY <1>2
      <4> QED
        BY <2>0, <4>1, <4>2, AppendProperties
    <3>2. Gone(i) = Gone(i - 1)
      BY <2>2
    <3>3. \A a \in 1 .. Len(h[i - 1]) : ~Clash(s[i], h[i - 1][a])
      BY <1>2, <1>5 DEF GoValid
    <3>4. Len(h[i]) + Cardinality(Gone(i)) = i
      <4>1. Len(h[i]) = Len(h[i - 1]) + 1 /\ Len(h[i - 1]) \in Nat
        BY <2>0, <3>1
      <4>2. Cardinality(Gone(i)) = Cardinality(Gone(i - 1))
        BY <3>2
      <4> HIDE DEF Gone, W, N
      <4> QED
        BY <2>3, <2>4, <4>1, <4>2
    <3>5. ASSUME NEW a \in 1 .. Len(h[i])
          PROVE  /\ \E b \in 1 .. i : h[i][a] = s[b]
                 /\ \A c \in 1 .. a - 1 : ~Clash(h[i][a], h[i][c])
      <4>1. CASE a = Len(h[i - 1]) + 1
        BY <2>0, <3>1, <3>3, <4>1
      <4>2. CASE a # Len(h[i - 1]) + 1
        <5>1. a \in 1 .. Len(h[i - 1])
          BY <2>0, <3>1, <4>2
        <5> QED
          BY <1>5, <2>0, <3>1, <5>1
      <4> QED
        BY <4>1, <4>2
    <3> HIDE DEF Gone
    <3> QED
      BY <3>4, <3>5
  <2> QED
    BY <2>1, <2>2
<1>6. W(N)
  <2> DEFINE S == {i \in 0 .. N : W(i)}
  <2>1. 0 \in S /\ \A i \in 1 .. N : i - 1 \in S => i \in S
    <3> HIDE DEF W, N
    <3> QED
      BY <1>2, <1>3, <1>5
  <2>2. 0 .. N \subseteq S
    <3> HIDE DEF S
    <3> QED
      BY <1>2, <2>1, UpTo
  <2>3. N \in S
    <3> HIDE DEF S
    <3> QED
      BY <1>2, <2>2
  <2> HIDE DEF W
  <2> QED
    BY <2>3
<1>7. h[N] \in Seq(Rule) /\ DOMAIN h[N] = 1 .. Len(h[N]) /\ Len(h[N]) \in Nat
  BY <1>2, LenProperties
<1>8. GoValid(h[N], ssh)
  <2>1. Len(h[N]) <= N /\ N <= MaxRules
    <3> HIDE DEF Gone
    <3> QED
      BY <1>2, <1>4, <1>6, <1>7 DEF GoValid
  <2>2. \A a \in 1 .. Len(h[N]) : ~HitsSsh(h[N][a], ssh)
    BY <1>2, <1>6 DEF GoValid
  <2> QED
    BY <1>2, <1>6, <1>7, <2>1, <2>2, PortAssumption DEF GoValid
<1> QED
  BY <1>1, <1>6, <1>7, <1>8

(* Both count the rules they remove, one by what is gone, the other by     *)
(* what is left.                                                           *)
LEMMA SameRemove ==
  ASSUME NEW file \in Seq(Rule), NEW ssh, NEW proto, NEW addr, NEW hosts \in Ranges
  PROVE  AwkRemove(file, ssh, proto, addr, hosts) = GoRemove(file, ssh, proto, addr, hosts)
<1> DEFINE kept == Without(file, proto, addr, hosts)
           gone == {i \in DOMAIN file : Asked(file[i], proto, addr, hosts)}
           size == hosts[2] - hosts[1] + 1
<1>1. AwkRead(file, ssh) = GoChecked(file, ssh) /\ file # Refused
  BY ReadChecks, RefusedAssumption
<1>2. CASE ~GoValid(file, ssh)
  BY <1>1, <1>2 DEF AwkRemove, GoRemove, GoChecked
<1>3. CASE GoValid(file, ssh)
  <2>1. kept \in Seq(Rule) /\ GoValid(kept, ssh) /\ Len(kept) + Cardinality(gone) = Len(file)
    <3>1. gone = {i \in 1 .. Len(file) : Asked(file[i], proto, addr, hosts)}
      BY LenProperties
    <3> QED
      BY <1>3, <3>1, KeptSound
  <2>2. Len(kept) \in Nat /\ Len(file) \in Nat /\ IsFiniteSet(gone) /\ Cardinality(gone) \in Nat
    <3>1. DOMAIN file = 1 .. Len(file) /\ Len(file) \in Nat
      BY LenProperties
    <3>2. IsFiniteSet(1 .. Len(file)) /\ gone \subseteq 1 .. Len(file)
      BY <3>1, FS_Interval
    <3> HIDE DEF kept, gone
    <3> QED
      BY <2>1, <3>1, <3>2, FS_Subset, FS_CardinalityType, LenProperties
  <2>3. Len(file) - Len(kept) # size <=> Cardinality(gone) # size
    <3> HIDE DEF kept, gone, size
    <3> QED
      BY <2>1, <2>2
  <2>4. AwkRead(file, ssh) = file
    BY <1>1, <1>3 DEF GoChecked
  <2>5. AwkRemove(file, ssh, proto, addr, hosts) =
          IF Cardinality(gone) # size THEN Refused ELSE kept
    BY <1>1, <2>4 DEF AwkRemove
  <2>6. GoRemove(file, ssh, proto, addr, hosts) =
          IF Len(file) - Len(kept) # size THEN Refused ELSE kept
    BY <1>3, <2>1 DEF GoRemove, GoChecked
  <2> QED
    BY <2>3, <2>5, <2>6
<1> QED
  BY <1>2, <1>3

LEMMA RangeTyped ==
  ASSUME NEW proto \in Protocols, NEW addr \in Addresses,
         NEW hosts \in Ranges, NEW guests \in Ranges,
         hosts[2] - hosts[1] = guests[2] - guests[1]
  PROVE  LET range == RangeRules(proto, addr, hosts, guests) IN
         /\ range \in Seq(Rule) /\ Len(range) = hosts[2] - hosts[1] + 1
         /\ \A i \in 1 .. Len(range) : Asked(range[i], proto, addr, hosts)
         /\ \A i \in 1 .. Len(range) :
               /\ range[i].proto = proto /\ range[i].addr = addr
               /\ range[i].host = hosts[1] + i - 1
<1> DEFINE n == hosts[2] - hosts[1] + 1
           range == RangeRules(proto, addr, hosts, guests)
           R(i) == [proto |-> proto, addr |-> addr,
                    host |-> hosts[1] + i - 1, guest |-> guests[1] + i - 1]
<1>1. /\ MaxPort \in Nat
      /\ hosts[1] \in 1 .. MaxPort /\ hosts[2] \in 1 .. MaxPort /\ hosts[1] <= hosts[2]
      /\ guests[1] \in 1 .. MaxPort /\ guests[2] \in 1 .. MaxPort
  BY PortAssumption DEF Ranges, Port
<1>2. n \in Nat
  BY <1>1
<1>3. ASSUME NEW i \in 1 .. n
      PROVE  /\ hosts[1] + i - 1 \in 1 .. MaxPort /\ hosts[1] + i - 1 \in hosts[1] .. hosts[2]
             /\ guests[1] + i - 1 \in 1 .. MaxPort
  BY <1>1
<1>4. \A i \in 1 .. n : R(i) \in Rule /\ Asked(R(i), proto, addr, hosts)
  BY <1>3 DEF Rule, Port, Asked
<1>5. range = [i \in 1 .. n |-> R(i)]
  BY DEF RangeRules
<1>6. range \in [1 .. n -> Rule] /\ \A i \in 1 .. n : range[i] = R(i)
  <2> HIDE DEF n, range, R
  <2> QED
    BY <1>4, <1>5
<1>7. range \in Seq(Rule) /\ Len(range) = n
  <2> HIDE DEF n, range
  <2> QED
    BY <1>2, <1>6
<1>8. \A i \in 1 .. n : Asked(range[i], proto, addr, hosts)
  <2> HIDE DEF n, range, R
  <2> QED
    BY <1>4, <1>6
<1>9. \A i \in 1 .. n : /\ range[i].proto = proto /\ range[i].addr = addr
                        /\ range[i].host = hosts[1] + i - 1
  <2> HIDE DEF n, range
  <2> QED
    BY <1>6
<1> QED
  BY <1>7, <1>8, <1>9

(* What was added is found again, and nothing else: a rule of the file on  *)
(* one of its ports would have stood in its way.                           *)
LEMMA RemoveUndoesAdd ==
  ASSUME NEW file \in Seq(Rule), NEW ssh,
         NEW proto \in Protocols, NEW addr \in Addresses,
         NEW hosts \in Ranges, NEW guests \in Ranges,
         hosts[2] - hosts[1] = guests[2] - guests[1],
         GoValid(file \o RangeRules(proto, addr, hosts, guests), ssh)
  PROVE  GoRemove(file \o RangeRules(proto, addr, hosts, guests), ssh, proto, addr, hosts) = file
<1> DEFINE range == RangeRules(proto, addr, hosts, guests)
           new == file \o range
           n == Len(file)
           size == hosts[2] - hosts[1] + 1
<1>1. /\ range \in Seq(Rule) /\ Len(range) = size /\ size \in Nat
      /\ \A i \in 1 .. size : Asked(range[i], proto, addr, hosts)
      /\ \A i \in 1 .. size : /\ range[i].proto = proto /\ range[i].addr = addr
                              /\ range[i].host = hosts[1] + i - 1
  BY RangeTyped, LenProperties
<1>2. /\ n \in Nat /\ new \in Seq(Rule) /\ Len(new) = n + size /\ DOMAIN new = 1 .. n + size
      /\ \A i \in 1 .. n : new[i] = file[i]
      /\ \A i \in 1 .. size : new[n + i] = range[i]
  <2>1. n \in Nat /\ new \in Seq(Rule) /\ Len(new) = n + size
    <3> HIDE DEF range, size
    <3> QED
      BY <1>1, ConcatProperties, LenProperties
  <2>2. \A i \in 1 .. n + size : new[i] = IF i <= n THEN file[i] ELSE range[i - n]
    BY <1>1, ConcatProperties
  <2> HIDE DEF new, range, n, size
  <2> QED
    BY <1>1, <2>1, <2>2, LenProperties
<1>3. GoValid(new, ssh)
  OBVIOUS
<1> HIDE DEF new, range, n
<1>4. ASSUME NEW i \in 1 .. n PROVE ~Asked(file[i], proto, addr, hosts)
  <2> SUFFICES ASSUME Asked(file[i], proto, addr, hosts) PROVE FALSE
    OBVIOUS
  <2> DEFINE k == file[i].host - hosts[1] + 1
             m == n + k
  <2>1. hosts[1] \in Nat /\ hosts[2] \in Nat
    BY DEF Ranges, Port
  <2>2. file[i].host \in hosts[1] .. hosts[2] /\ k \in 1 .. size
    BY <2>1 DEF Asked
  <2>3. range[k].proto = proto /\ range[k].addr = addr /\ range[k].host = file[i].host
    <3>1. hosts[1] + k - 1 = file[i].host
      BY <2>1, <2>2
    <3> HIDE DEF k, size
    <3> QED
      BY <1>1, <2>2, <3>1
  <2>4. Clash(new[m], new[i])
    <3>1. new[n + k] = range[k] /\ new[i] = file[i]
      <4> HIDE DEF k, size
      <4> QED
        BY <1>2, <2>2
    <3> HIDE DEF k
    <3> QED
      BY <2>3, <3>1 DEF Clash, Asked
  <2>5. m \in DOMAIN new /\ i \in 1 .. m - 1
    <3> HIDE DEF k, size
    <3> QED
      BY <1>1, <1>2, <2>2
  <2>6. \A a \in DOMAIN new : \A b \in 1 .. a - 1 : ~Clash(new[a], new[b])
    BY <1>3 DEF GoValid
  <2> HIDE DEF m
  <2> QED
    BY <2>4, <2>5, <2>6
<1>5. PICK h \in [0 .. Len(new) -> Seq(Rule)] :
        Keeps(h, new, proto, addr, hosts) /\ Without(new, proto, addr, hosts) = h[Len(new)]
  <2>1. new \in Seq(Rule)
    BY <1>2
  <2> QED
    BY <2>1, WithoutKeeps
<1>6. n \in Nat /\ size \in Nat
  BY <1>1, <1>2
<1> DEFINE First(i) == SubSeq(file, 1, i)
           S == {i \in 0 .. n + size : h[i] = IF i <= n THEN First(i) ELSE file}
<1>7. First(n) = file
  BY SubSeqFull DEF n
<1>8. First(0) = <<>>
  BY SubSeqEmpty
<1>9. 0 \in S
  <2>1. h[0] = First(0) /\ 0 <= n
    BY <1>5, <1>8, <1>6 DEF Keeps
  <2> HIDE DEF First, size
  <2> QED
    BY <1>6, <2>1
<1>10. ASSUME NEW i \in 1 .. n + size, i - 1 \in S PROVE i \in S
  <2>1. h[i] = IF Asked(new[i], proto, addr, hosts) THEN h[i - 1] ELSE Append(h[i - 1], new[i])
    BY <1>2, <1>5 DEF Keeps
  <2>2. CASE i <= n
    <3>1. i \in 1 .. n /\ new[i] = file[i] /\ h[i - 1] = First(i - 1)
      <4>1. i \in 1 .. n /\ i - 1 <= n
        BY <1>6, <2>2
      <4> HIDE DEF First, size
      <4> QED
        BY <1>2, <1>10, <4>1
    <3>2. First(i) = Append(First(i - 1), file[i])
      <4>1. \A j \in 1 .. i : file[j] \in Rule
        BY <1>2, <3>1, LenProperties DEF n
      <4> QED
        BY <1>2, <3>1, <4>1, SubSeqRecursiveSecond DEF n
    <3>3. h[i] = First(i)
      <4> HIDE DEF First
      <4> QED
        BY <1>4, <2>1, <3>1, <3>2
    <3> QED
      BY <2>2, <3>3
  <2>3. CASE i > n
    <3>1. i - n \in 1 .. size /\ n + (i - n) = i
      BY <1>1, <1>2, <2>3
    <3>2. new[i] = range[i - n]
      <4> HIDE DEF size
      <4> QED
        BY <1>2, <3>1
    <3>3. Asked(new[i], proto, addr, hosts)
      BY <1>1, <3>1, <3>2
    <3>4. h[i - 1] = file
      <4>1. i - 1 = n \/ ~(i - 1 <= n)
        BY <1>6, <2>3
      <4> HIDE DEF First, size
      <4> QED
        BY <1>7, <1>10, <1>6, <4>1
    <3> QED
      BY <1>2, <2>1, <2>3, <3>3, <3>4
  <2> QED
    BY <1>2, <2>2, <2>3
<1>11. h[n + size] = file
  <2>1. 0 .. n + size \subseteq S
    <3>1. n + size \in Nat
      BY <1>6
    <3> HIDE DEF S, size
    <3> QED
      BY <3>1, <1>9, <1>10, UpTo
  <2>2. n + size \in S
    <3> HIDE DEF S, size
    <3> QED
      BY <1>6, <2>1
  <2>3. n + size = n \/ ~(n + size <= n)
    BY <1>6
  <2> HIDE DEF First, size
  <2> QED
    BY <1>7, <2>2, <2>3
<1>12. Without(new, proto, addr, hosts) = file
  BY <1>2, <1>5, <1>11
<1>13. GoValid(file, ssh)
  BY <1>2, <1>3, <1>12, KeptSound
<1>14. Len(new) - Len(file) = size
  BY <1>1, <1>2 DEF n
<1>15. GoRemove(new, ssh, proto, addr, hosts) = file
  BY <1>3, <1>12, <1>13, <1>14 DEF GoRemove, GoChecked
<1> QED
  BY <1>15 DEF new, range

(* Adding to a list of rules; and what was added can be removed again,     *)
(* leaving the list as it was.                                             *)
LEMMA SameAdd ==
  ASSUME NEW file \in Seq(Rule), NEW ssh,
         NEW proto \in Protocols, NEW addr \in Addresses,
         NEW hosts \in Ranges, NEW guests \in Ranges
  PROVE  LET new == GoAdd(file, ssh, proto, addr, hosts, guests) IN
         /\ AwkAdd(file, ssh, proto, addr, hosts, guests) = new
         /\ new # Refused => /\ new \in Seq(Rule) /\ GoValid(new, ssh)
                            /\ GoRemove(new, ssh, proto, addr, hosts) = file
<1> DEFINE range == RangeRules(proto, addr, hosts, guests)
<1>1. CASE hosts[2] - hosts[1] # guests[2] - guests[1]
  BY <1>1 DEF GoAdd, AwkAdd
<1>2. CASE hosts[2] - hosts[1] = guests[2] - guests[1]
  <2>1. range \in Seq(Rule) /\ file \o range \in Seq(Rule)
    BY <1>2, RangeTyped, ConcatProperties
  <2>2. AwkAdd(file, ssh, proto, addr, hosts, guests) = GoChecked(file \o range, ssh)
    BY ReadChecks, <1>2, <2>1, AddAllChecks DEF AwkAdd
  <2>3. ~GoValid(file, ssh) => ~GoValid(file \o range, ssh)
    <3>1. /\ Len(file) \in Nat /\ Len(range) \in Nat /\ DOMAIN file = 1 .. Len(file)
          /\ Len(file \o range) = Len(file) + Len(range)
          /\ DOMAIN (file \o range) = 1 .. Len(file) + Len(range)
          /\ \A i \in 1 .. Len(file) : (file \o range)[i] = file[i]
      BY <2>1, ConcatProperties, LenProperties
    <3> QED
      BY <3>1, PortAssumption DEF GoValid
  <2>4. GoAdd(file, ssh, proto, addr, hosts, guests) = GoChecked(file \o range, ssh)
    BY <1>2, <2>3 DEF GoAdd, GoChecked
  <2>5. GoChecked(file \o range, ssh) # Refused =>
           /\ GoValid(file \o range, ssh)
           /\ GoChecked(file \o range, ssh) = file \o range
    BY DEF GoChecked
  <2>6. GoValid(file \o range, ssh) =>
           GoRemove(file \o range, ssh, proto, addr, hosts) = file
    BY <1>2, RemoveUndoesAdd
  <2> HIDE DEF range
  <2> QED
    BY <2>1, <2>2, <2>4, <2>5, <2>6
<1> QED
  BY <1>1, <1>2

LEMMA RemoveSound ==
  ASSUME NEW file \in Seq(Rule), NEW ssh, NEW proto, NEW addr, NEW hosts,
         GoRemove(file, ssh, proto, addr, hosts) # Refused
  PROVE  /\ GoRemove(file, ssh, proto, addr, hosts) \in Seq(Rule)
         /\ GoValid(GoRemove(file, ssh, proto, addr, hosts), ssh)
  BY KeptSound DEF GoRemove, GoChecked

-----------------------------------------------------------------------------
(* Files: lines, written one way or another.                               *)

LEMMA RulesTyped ==
  ASSUME NEW file \in Seq(Line)
  PROVE  RulesOf(file) \in Seq(Rule)
<1>1. Len(file) \in Nat /\ DOMAIN file = 1 .. Len(file) /\ \A i \in 1 .. Len(file) : file[i] \in Line
  BY LenProperties
<1>2. RulesOf(file) \in [1 .. Len(file) -> Rule]
  BY <1>1 DEF RulesOf, Line
<1> QED
  BY <1>1, <1>2

(* What was written from rules is plain, and read as those rules.          *)
LEMMA EncodedRead ==
  ASSUME NEW rules \in Seq(Rule)
  PROVE  /\ Encoded(rules) \in Seq(Line)
         /\ FormsOf(Encoded(rules)) \subseteq {"plain"}
         /\ RulesOf(Encoded(rules)) = rules
<1> DEFINE n == Len(rules)
<1>1. n \in Nat /\ DOMAIN rules = 1 .. n /\ \A i \in 1 .. n : rules[i] \in Rule
  BY LenProperties
<1>2. /\ Encoded(rules) \in [1 .. n -> Line]
      /\ \A i \in 1 .. n : /\ Encoded(rules)[i].form = "plain"
                           /\ Encoded(rules)[i].rule = rules[i]
  BY <1>1 DEF Encoded, Line, Forms
<1>3. Encoded(rules) \in Seq(Line) /\ DOMAIN Encoded(rules) = 1 .. n
  BY <1>1, <1>2
<1>4. FormsOf(Encoded(rules)) \subseteq {"plain"}
  BY <1>2, <1>3 DEF FormsOf
<1>5. RulesOf(Encoded(rules)) = [i \in 1 .. n |-> rules[i]]
  BY <1>2, <1>3 DEF RulesOf
<1>6. rules = [i \in 1 .. n |-> rules[i]]
  BY <1>1
<1> QED
  BY <1>3, <1>4, <1>5, <1>6

LEMMA PlainIsEncoded ==
  ASSUME NEW file \in Seq(Line), FormsOf(file) \subseteq {"plain"}
  PROVE  file = Encoded(RulesOf(file))
<1> DEFINE n == Len(file)
<1>1. n \in Nat /\ DOMAIN file = 1 .. n /\ \A i \in 1 .. n : file[i] \in Line
  BY LenProperties
<1>2. DOMAIN RulesOf(file) = 1 .. n /\ \A i \in 1 .. n : RulesOf(file)[i] = file[i].rule
  BY <1>1 DEF RulesOf
<1>3. \A i \in 1 .. n : file[i] = [rule |-> RulesOf(file)[i], form |-> "plain"]
  BY <1>1, <1>2 DEF FormsOf, Line
<1>4. Encoded(RulesOf(file)) = [i \in 1 .. n |-> file[i]]
  BY <1>2, <1>3 DEF Encoded
<1>5. file = [i \in 1 .. n |-> file[i]]
  BY <1>1
<1> QED
  BY <1>4, <1>5

LEMMA EncodedLoads ==
  ASSUME NEW rules \in Seq(Rule), NEW ssh, GoValid(rules, ssh)
  PROVE  AwkLoad(Encoded(rules), ssh) = rules
  BY EncodedRead, ReadChecks DEF AwkLoad, AwkParsed, GoChecked

(* Two programs that make the same of the rules follow each other, if what *)
(* is made is a valid list.                                                *)
LEMMA FollowsRules ==
  ASSUME NEW forms, NEW ssh, NEW made,
         made # Refused => made \in Seq(Rule) /\ GoValid(made, ssh)
  PROVE  Follows(AwkParsed(forms, made), GoParsed(forms, made), forms, ssh)
<1>1. forms \subseteq {"plain"} => "junk" \notin forms
  OBVIOUS
<1>2. GoParsed(forms, made) \in {made, Refused}
  BY DEF GoParsed
<1>3. GoParsed(forms, made) # Refused =>
        AwkLoad(Encoded(GoParsed(forms, made)), ssh) = GoParsed(forms, made)
  BY <1>2, EncodedLoads
<1> QED
  BY <1>1, <1>3 DEF Follows, AwkParsed, GoParsed

(* On every file and request, for every port of SSH and any limits, the    *)
(* script gives the verdict of Windows and writes the same file, unless a  *)
(* port is written as only Windows takes it, and then it refuses; what     *)
(* Windows wrote from any file the script reads as it is; and a rule that  *)
(* was added can be removed again, leaving the rules as they were.         *)
THEOREM SamePrograms == \A sshs : \A file \in Seq(Line) : SameRules(file, sshs)
<1> TAKE sshs
<1> TAKE file \in Seq(Line)
<1> DEFINE rules == RulesOf(file)
<1>1. rules \in Seq(Rule)
  BY RulesTyped
<1> HIDE DEF rules
<1>2. ASSUME NEW ssh
      PROVE  Follows(AwkLoad(file, ssh), GoLoad(file, ssh), FormsOf(file), ssh)
  <2>1. AwkRead(rules, ssh) = GoChecked(rules, ssh)
    BY <1>1, ReadChecks
  <2>2. GoChecked(rules, ssh) # Refused =>
          GoChecked(rules, ssh) \in Seq(Rule) /\ GoValid(GoChecked(rules, ssh), ssh)
    BY <1>1 DEF GoChecked
  <2> QED
    BY <2>1, <2>2, FollowsRules DEF AwkLoad, GoLoad, rules
<1>3. ASSUME NEW ssh, NEW q \in Request
      PROVE  LET forms == FormsOf(file) \cup {q.form}
                 new   == GoAddTo(file, ssh, q)
             IN
             /\ Follows(AwkRemoveFrom(file, ssh, q), GoRemoveFrom(file, ssh, q), forms, ssh)
             /\ Follows(AwkAddTo(file, ssh, q), new, forms, ssh)
             /\ new # Refused => GoRemoveFrom(Encoded(new), ssh, q) = RulesOf(file)
  <2> DEFINE forms == FormsOf(file) \cup {q.form}
             new   == GoAdd(rules, ssh, q.proto, q.addr, q.hosts, q.guests)
             less  == GoRemove(rules, ssh, q.proto, q.addr, q.hosts)
  <2>1. /\ q.proto \in Protocols /\ q.addr \in Addresses
        /\ q.hosts \in Ranges /\ q.guests \in Ranges
    BY DEF Request
  <2>2. /\ AwkRemove(rules, ssh, q.proto, q.addr, q.hosts) = less
        /\ less # Refused => less \in Seq(Rule) /\ GoValid(less, ssh)
    BY <1>1, <2>1, SameRemove, RemoveSound
  <2>3. /\ AwkAdd(rules, ssh, q.proto, q.addr, q.hosts, q.guests) = new
        /\ new # Refused => /\ new \in Seq(Rule) /\ GoValid(new, ssh)
                            /\ GoRemove(new, ssh, q.proto, q.addr, q.hosts) = rules
    BY <1>1, <2>1, SameAdd
  <2> HIDE DEF forms, new, less
  <2>4. /\ AwkRemoveFrom(file, ssh, q) = AwkParsed(forms, less)
        /\ GoRemoveFrom(file, ssh, q) = GoParsed(forms, less)
    BY <2>2 DEF AwkRemoveFrom, GoRemoveFrom, forms, less, rules
  <2>5. /\ AwkAddTo(file, ssh, q) = AwkParsed(forms, new)
        /\ GoAddTo(file, ssh, q) = GoParsed(forms, new)
    BY <2>3 DEF AwkAddTo, GoAddTo, forms, new, rules
  <2>6. Follows(AwkParsed(forms, less), GoParsed(forms, less), forms, ssh)
    BY <2>2, FollowsRules
  <2>7. Follows(AwkParsed(forms, new), GoParsed(forms, new), forms, ssh)
    BY <2>3, FollowsRules
  <2>8. ASSUME GoParsed(forms, new) # Refused
        PROVE  GoRemoveFrom(Encoded(GoParsed(forms, new)), ssh, q) = rules
    <3>1. GoParsed(forms, new) = new /\ new # Refused /\ "junk" \notin forms
      BY <2>8 DEF GoParsed
    <3>2. /\ FormsOf(Encoded(new)) \subseteq {"plain"} /\ RulesOf(Encoded(new)) = new
      BY <2>3, <3>1, EncodedRead
    <3>3. "junk" \notin FormsOf(Encoded(new)) \cup {q.form}
      BY <3>1, <3>2 DEF forms
    <3>4. GoRemoveFrom(Encoded(new), ssh, q) = GoRemove(new, ssh, q.proto, q.addr, q.hosts)
      BY <3>2, <3>3 DEF GoRemoveFrom, GoParsed
    <3> QED
      BY <2>3, <3>1, <3>4
  <2> QED
    BY <2>4, <2>5, <2>6, <2>7, <2>8 DEF forms, rules
<1> QED
  BY <1>2, <1>3 DEF SameRules

-----------------------------------------------------------------------------
(* What the launcher relies on: a file that is not refused is plain, read  *)
(* as it is and valid, and an edit makes a list of rules or nothing.       *)

LEMMA LoadIsFile ==
  ASSUME NEW file \in Seq(Line), NEW ssh, AwkLoad(file, ssh) # Refused
  PROVE  /\ AwkLoad(file, ssh) \in Seq(Rule) /\ GoValid(AwkLoad(file, ssh), ssh)
         /\ file = Encoded(AwkLoad(file, ssh))
<1>1. FormsOf(file) \subseteq {"plain"} /\ AwkLoad(file, ssh) = AwkRead(RulesOf(file), ssh)
  BY DEF AwkLoad, AwkParsed
<1>2. RulesOf(file) \in Seq(Rule) /\ file = Encoded(RulesOf(file))
  BY <1>1, RulesTyped, PlainIsEncoded
<1>3. AwkRead(RulesOf(file), ssh) = RulesOf(file) /\ GoValid(RulesOf(file), ssh)
  BY <1>1, <1>2, ReadChecks DEF GoChecked
<1> QED
  BY <1>1, <1>2, <1>3

LEMMA EditWrites ==
  ASSUME NEW file \in Seq(Line), NEW ssh, NEW q \in Request
  PROVE  {AwkAddTo(file, ssh, q), AwkRemoveFrom(file, ssh, q)} \subseteq Seq(Rule) \cup {Refused}
<1>1. RulesOf(file) \in Seq(Rule)
  BY RulesTyped
<1>2. /\ q.proto \in Protocols /\ q.addr \in Addresses
      /\ q.hosts \in Ranges /\ q.guests \in Ranges
  BY DEF Request
<1>3. AwkAdd(RulesOf(file), ssh, q.proto, q.addr, q.hosts, q.guests) \in Seq(Rule) \cup {Refused}
  BY <1>1, <1>2, SameAdd
<1>4. AwkRemove(RulesOf(file), ssh, q.proto, q.addr, q.hosts) \in Seq(Rule) \cup {Refused}
  BY <1>1, <1>2, SameRemove, RemoveSound
<1> QED
  BY <1>3, <1>4 DEF AwkAddTo, AwkRemoveFrom, AwkParsed
=============================================================================
