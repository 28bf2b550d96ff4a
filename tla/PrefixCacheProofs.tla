-------------------------- MODULE PrefixCacheProofs --------------------------
(* Proofs about PrefixCache: what is restored is the session's own.         *)
EXTENDS PrefixCache, SequenceTheorems, FiniteSetTheorems, WellFoundedInduction, TLAPS

-----------------------------------------------------------------------------
(* Extremes exist.                                                         *)

Precedes == {p \in Nat \X Nat : p[1] < p[2]}

LEMMA LeastExists ==
  ASSUME NEW S \in SUBSET Nat, S # {}
  PROVE  \E x \in S : \A y \in S : x <= y
<1>1. IsWellFoundedOn(Precedes, Nat)
  BY NatLessThanWellFounded DEF OpToRel, Precedes
<1>2. PICK x \in S : \A y \in S : ~(<<y, x>> \in Precedes)
  BY <1>1, WFMin
<1>3. ASSUME NEW y \in S, y < x PROVE <<y, x>> \in Precedes
  <2>1. <<y, x>> \in Nat \X Nat /\ <<y, x>>[1] < <<y, x>>[2]
    BY <1>3
  <2>2. QED
    BY <2>1 DEF Precedes
<1>4. \A y \in S : ~(y < x)
  BY <1>2, <1>3
<1>5. \A y \in S : x <= y
  BY <1>4
<1>6. QED
  BY <1>5

LEMMA MinIs ==
  ASSUME NEW S \in SUBSET Nat, S # {}
  PROVE  Min(S) \in S /\ \A y \in S : Min(S) <= y
BY LeastExists DEF Min

LEMMA MaxIs ==
  ASSUME NEW b \in Nat, NEW S \in SUBSET (0..b), S # {}
  PROVE  Max(S) \in S /\ \A y \in S : y <= Max(S)
<1> DEFINE D == {b - x : x \in S}
<1>1. D \in SUBSET Nat /\ D # {}
  <2>1. \A x \in S : x \in Int /\ b - x \in Nat
    OBVIOUS
  <2>2. QED
    BY <2>1
<1>2. PICK d \in D : \A e \in D : d <= e
  BY <1>1, LeastExists
<1>3. PICK x \in S : d = b - x
  OBVIOUS
<1>4. \A y \in S : x >= y
  <2>1. \A y \in S : b - x <= b - y
    BY <1>2, <1>3
  <2>2. QED
    BY <2>1
<1>5. \E z \in S : \A y \in S : z >= y
  BY <1>4
<1>6. Max(S) \in S /\ \A y \in S : Max(S) >= y
  BY <1>5 DEF Max
<1>7. QED
  BY <1>6

LEMMA LongestIs ==
  ASSUME NEW b \in Nat, NEW S, S # {}, \A x \in S : Len(x) \in 0..b
  PROVE  Longest(S) \in S /\ \A y \in S : Len(y) <= Len(Longest(S))
<1> DEFINE L == {Len(x) : x \in S}
<1>1. L \in SUBSET (0..b) /\ L # {}
  OBVIOUS
<1>2. PICK x \in S : Len(x) = Max(L)
  BY <1>1, MaxIs
<1>3. \A y \in S : Len(y) <= Len(x)
  BY <1>1, <1>2, MaxIs
<1>4. QED
  BY <1>3 DEF Longest

LEMMA ShallowestIs ==
  ASSUME NEW S, S # {}, \A x \in S : Len(x) \in Nat
  PROVE  Shallowest(S) \in S /\ \A y \in S : Len(Shallowest(S)) <= Len(y)
<1> DEFINE L == {Len(x) : x \in S}
<1>1. L \in SUBSET Nat /\ L # {}
  OBVIOUS
<1>2. PICK x \in S : Len(x) = Min(L)
  BY <1>1, MinIs
<1>3. \A y \in S : Len(x) <= Len(y)
  BY <1>1, <1>2, MinIs
<1>4. QED
  BY <1>3 DEF Shallowest

-----------------------------------------------------------------------------
(* Prefixes of texts.                                                      *)

Texts == Seq(Int)

LEMMA CutIs ==
  ASSUME NEW T, NEW s \in Seq(T), NEW n \in 0..Len(s)
  PROVE  /\ Cut(s, n) \in Seq(T) /\ Len(Cut(s, n)) = n
         /\ \A i \in 1..n : Cut(s, n)[i] = s[i]
BY DEF Cut

LEMMA PrefixIs ==
  ASSUME NEW T, NEW s \in Seq(T), NEW t \in Seq(T)
  PROVE  IsPrefix(s, t) <=> Len(s) <= Len(t) /\ \A i \in 1..Len(s) : s[i] = t[i]
BY DEF IsPrefix

\* The order of prefixes.
LEMMA PrefixOrder ==
  ASSUME NEW x \in Texts, NEW y \in Texts, NEW z \in Texts
  PROVE  /\ IsPrefix(x, x) /\ IsPrefix(Root, x)
         /\ IsPrefix(x, y) => Len(x) <= Len(y)
         /\ IsPrefix(x, y) /\ Len(x) = Len(y) => x = y
         /\ IsPrefix(x, y) /\ IsPrefix(y, z) => IsPrefix(x, z)
         /\ IsPrefix(x, z) /\ IsPrefix(y, z) /\ Len(x) <= Len(y) => IsPrefix(x, y)
         /\ IsStrictPrefix(x, y) <=> IsPrefix(x, y) /\ Len(x) < Len(y)
<1>0. Len(x) \in Nat /\ Len(y) \in Nat /\ Len(z) \in Nat /\ Root \in Texts /\ Len(Root) = 0
  BY DEF Texts, Root
<1> DEFINE Pre(a, b) == Len(a) <= Len(b) /\ \A i \in 1..Len(a) : a[i] = b[i]
<1>1. \A a, b \in Texts : IsPrefix(a, b) <=> Pre(a, b)
  BY PrefixIs DEF Texts
<1>2. Pre(x, x) /\ Pre(Root, x)
  BY <1>0
<1>3. Pre(x, y) /\ Len(x) = Len(y) => x = y
  BY SeqEqual DEF Texts
<1>4. Pre(x, y) /\ Pre(y, z) => Pre(x, z)
  BY <1>0
<1>5. Pre(x, z) /\ Pre(y, z) /\ Len(x) <= Len(y) => Pre(x, y)
  BY <1>0
<1>6. Pre(x, y) => Len(x) <= Len(y)
  OBVIOUS
<1> HIDE DEF Pre
<1>7. IsStrictPrefix(x, y) <=> IsPrefix(x, y) /\ Len(x) < Len(y)
  BY <1>0, <1>1, <1>3, <1>6 DEF IsStrictPrefix
<1>8. QED
  BY <1>0, <1>1, <1>2, <1>3, <1>4, <1>5, <1>6, <1>7

LEMMA CutPrefix ==
  ASSUME NEW x \in Texts, NEW n \in 0..Len(x)
  PROVE  /\ Cut(x, n) \in Texts /\ Len(Cut(x, n)) = n /\ IsPrefix(Cut(x, n), x)
         /\ \A y \in Texts : IsPrefix(y, x) /\ Len(y) = n <=> y = Cut(x, n)
         /\ \A m \in 0..n : Cut(Cut(x, n), m) = Cut(x, m)
<1>1. Cut(x, n) \in Texts /\ Len(Cut(x, n)) = n /\ IsPrefix(Cut(x, n), x)
  BY CutIs, PrefixIs DEF Texts
<1>2. ASSUME NEW y \in Texts, IsPrefix(y, x), Len(y) = n PROVE y = Cut(x, n)
  <2>1. IsPrefix(y, Cut(x, n))
    BY <1>1, <1>2, PrefixOrder
  <2>2. QED
    BY <1>1, <1>2, <2>1, PrefixOrder
<1>3. ASSUME NEW m \in 0..n PROVE Cut(Cut(x, n), m) = Cut(x, m)
  <2>1. /\ Cut(Cut(x, n), m) \in Texts /\ Len(Cut(Cut(x, n), m)) = m
        /\ IsPrefix(Cut(Cut(x, n), m), Cut(x, n))
    BY <1>1, CutIs, PrefixIs DEF Texts
  <2>2. IsPrefix(Cut(Cut(x, n), m), x)
    BY <1>1, <2>1, PrefixOrder
  <2>3. /\ m \in 0..Len(x) /\ Cut(x, m) \in Texts /\ Len(Cut(x, m)) = m /\ IsPrefix(Cut(x, m), x)
    BY CutIs, PrefixIs DEF Texts
  <2>4. QED
    BY <2>1, <2>2, <2>3, PrefixOrder
<1>4. QED
  BY <1>1, <1>2, <1>3

\* What two texts have in common.
Meet(x, y) == LongestCommonPrefix({x, y})

LEMMA MeetIs ==
  ASSUME NEW x \in Texts, NEW y \in Texts
  PROVE  /\ Meet(x, y) \in Texts /\ IsPrefix(Meet(x, y), x) /\ IsPrefix(Meet(x, y), y)
         /\ \A z \in Texts : IsPrefix(z, x) /\ IsPrefix(z, y) => IsPrefix(z, Meet(x, y))
<1> DEFINE C == CommonPrefixes({x, y})
<1>1. \A z : z \in C <=> z \in Texts /\ IsPrefix(z, x) /\ IsPrefix(z, y)
  <2>1. \A s \in Texts : \A z : z \in Prefixes(s) <=> z \in Texts /\ IsPrefix(z, s)
    <3>1. \A s \in Texts : \A z : z \in Prefixes(s) <=> \E n \in 0..Len(s) : z = Cut(s, n)
      BY DEF Prefixes, Cut
    <3>2. \A s \in Texts, z \in Texts : IsPrefix(z, s) => Len(z) \in 0..Len(s) /\ z = Cut(s, Len(z))
      <4>1. ASSUME NEW s \in Texts, NEW z \in Texts, IsPrefix(z, s) PROVE Len(z) \in 0..Len(s)
        BY <4>1, PrefixOrder DEF Texts
      <4>2. QED
        BY <4>1, CutPrefix
    <3>3. \A s \in Texts : \A n \in 0..Len(s) : Cut(s, n) \in Texts /\ IsPrefix(Cut(s, n), s)
      BY CutPrefix
    <3>4. QED
      BY <3>1, <3>2, <3>3
  <2>2. \A z : z \in C <=> /\ z \in Prefixes(x) \/ z \in Prefixes(y)
                           /\ IsPrefix(z, x) /\ IsPrefix(z, y)
    BY DEF CommonPrefixes
  <2>3. QED
    BY <2>1, <2>2
<1>2. Meet(x, y) = Longest(C)
  BY DEF Meet, LongestCommonPrefix, Longest
<1>3. Root \in C /\ Len(x) \in Nat /\ \A z \in C : Len(z) \in 0..Len(x)
  <2>1. \A z \in C : Len(z) \in Nat /\ Len(z) <= Len(x)
    <3>1. \A z \in Texts : Len(z) \in Nat /\ (IsPrefix(z, x) => Len(z) <= Len(x))
      BY PrefixOrder DEF Texts
    <3>2. QED
      BY <1>1, <3>1
  <2>2. Root \in Texts /\ Len(x) \in Nat
    BY DEF Root, Texts
  <2>3. Root \in C
    BY <1>1, <2>2, PrefixOrder
  <2>4. QED
    BY <2>1, <2>2, <2>3
<1> HIDE DEF C
<1>4. Longest(C) \in C /\ \A z \in C : Len(z) <= Len(Longest(C))
  BY <1>3, LongestIs
<1>5. QED
  BY <1>1, <1>2, <1>4, PrefixOrder

-----------------------------------------------------------------------------
(* What a KVCache holds after a text, and a snapshot of it.                *)

History(s) == [i \in 1..Len(s) |-> Cut(s, i)]
Snap(a, n) == [from |-> a, ent |-> SubSeq(History(n), a + 1, Len(n))]

LEMMA HistoryIs ==
  ASSUME NEW s \in Texts
  PROVE  /\ History(s) \in Seq(Texts) /\ Len(History(s)) = Len(s)
         /\ \A i \in 1..Len(s) : History(s)[i] = Cut(s, i)
<1>1. Len(s) \in Nat /\ \A i \in 1..Len(s) : Cut(s, i) \in Texts
  <2>1. Len(s) \in Nat
    BY DEF Texts
  <2>2. \A i \in 1..Len(s) : i \in 0..Len(s)
    BY <2>1
  <2>3. QED
    BY <2>1, <2>2, CutPrefix
<1>2. QED
  BY <1>1 DEF History

LEMMA HistoryCut ==
  ASSUME NEW s \in Texts, NEW n \in 0..Len(s)
  PROVE  Cut(History(s), n) = History(Cut(s, n))
<1>1. Cut(s, n) \in Texts /\ Len(Cut(s, n)) = n /\ \A i \in 0..n : Cut(Cut(s, n), i) = Cut(s, i)
  BY CutPrefix
<1>2. /\ Cut(History(s), n) \in Seq(Texts) /\ Len(Cut(History(s), n)) = n
      /\ \A i \in 1..n : Cut(History(s), n)[i] = Cut(s, i)
  <2>1. n \in 0..Len(History(s)) /\ \A i \in 1..n : i \in 1..Len(s)
    BY HistoryIs
  <2>2. QED
    BY <2>1, HistoryIs, CutIs
<1>3. /\ History(Cut(s, n)) \in Seq(Texts) /\ Len(History(Cut(s, n))) = n
      /\ \A i \in 1..n : History(Cut(s, n))[i] = Cut(s, i)
  BY <1>1, HistoryIs
<1>4. QED
  BY <1>2, <1>3, SeqEqual

\* The entries of a snapshot; and what is recognised by its entries.
LEMMA SnapIs ==
  ASSUME NEW n \in Texts, NEW a \in 0..Len(n)
  PROVE  /\ Snap(a, n).from = a /\ Snap(a, n).ent \in Seq(Texts)
         /\ Len(Snap(a, n).ent) = Len(n) - a
         /\ \A i \in 1..(Len(n) - a) : Snap(a, n).ent[i] = Cut(n, a + i)
         /\ a < Len(n) => Snap(a, n) # NoKV
<1>1. /\ Len(n) \in Nat /\ History(n) \in Seq(Texts) /\ Len(History(n)) = Len(n)
      /\ \A i \in 1..Len(n) : History(n)[i] = Cut(n, i)
  BY HistoryIs DEF Texts
<1>2. /\ SubSeq(History(n), a + 1, Len(n)) \in Seq(Texts)
      /\ Len(SubSeq(History(n), a + 1, Len(n))) = Len(n) - a
      /\ \A i \in 1..(Len(n) - a) : SubSeq(History(n), a + 1, Len(n))[i] = History(n)[a + i]
  BY <1>1
<1>3. \A i \in 1..(Len(n) - a) : a + i \in 1..Len(n)
  BY <1>1
<1>4. a < Len(n) => Snap(a, n) # NoKV
  BY <1>1, <1>2 DEF Snap, NoKV
<1>5. QED
  BY <1>1, <1>2, <1>3, <1>4 DEF Snap

LEMMA EntriesEqual ==
  ASSUME NEW e \in Seq(Texts), NEW f \in Seq(Texts), Len(e) = Len(f),
         \A i \in 1..Len(e) : e[i] = f[i]
  PROVE  e = f
BY SeqEqual

LEMMA SnapHead ==
  ASSUME NEW n \in Texts, NEW a \in Nat, NEW at \in Nat, a < at, at <= Len(n)
  PROVE  Head_(Snap(a, n), at) = Snap(a, Cut(n, at))
<1>1. Len(n) \in Nat /\ a \in 0..Len(n) /\ at \in 0..Len(n)
  BY DEF Texts
<1>2. /\ Cut(n, at) \in Texts /\ Len(Cut(n, at)) = at
      /\ \A i \in 0..at : Cut(Cut(n, at), i) = Cut(n, i)
  BY <1>1, CutPrefix
<1> DEFINE e == Cut(Snap(a, n).ent, at - a)
           f == Snap(a, Cut(n, at)).ent
<1>3. Head_(Snap(a, n), at) = [from |-> a, ent |-> e]
  BY <1>1, SnapIs DEF Head_, Lesser, Snap
<1>4. /\ e \in Seq(Texts) /\ Len(e) = at - a
      /\ \A i \in 1..(at - a) : e[i] = Cut(n, a + i)
  <2> DEFINE g == Snap(a, n).ent
  <2>1. /\ g \in Seq(Texts) /\ Len(g) = Len(n) - a
        /\ \A i \in 1..(Len(n) - a) : g[i] = Cut(n, a + i)
    BY <1>1, SnapIs
  <2> HIDE DEF g
  <2>2. at - a \in 0..Len(g) /\ \A i \in 1..(at - a) : i \in 1..(Len(n) - a)
    BY <1>1, <2>1
  <2>3. /\ Cut(g, at - a) \in Seq(Texts) /\ Len(Cut(g, at - a)) = at - a
        /\ \A i \in 1..(at - a) : Cut(g, at - a)[i] = g[i]
    BY <2>1, <2>2, CutIs
  <2>4. QED
    BY <2>1, <2>2, <2>3 DEF g
<1>5. /\ f \in Seq(Texts) /\ Len(f) = at - a
      /\ \A i \in 1..(at - a) : f[i] = Cut(n, a + i)
  <2>1. /\ f \in Seq(Texts) /\ Len(f) = at - a
        /\ \A i \in 1..(at - a) : f[i] = Cut(Cut(n, at), a + i)
    <3>1. a \in 0..Len(Cut(n, at))
      BY <1>1, <1>2
    <3>2. QED
      BY <1>2, <3>1, SnapIs
  <2>2. \A i \in 1..(at - a) : a + i \in 0..at
    BY <1>1
  <2>3. QED
    BY <1>2, <2>1, <2>2
<1>6. e = f
  BY <1>4, <1>5, EntriesEqual
<1>7. QED
  BY <1>3, <1>6 DEF Snap

LEMMA SnapTail ==
  ASSUME NEW n \in Texts, NEW a \in Nat, NEW at \in Nat, a <= at, at < Len(n)
  PROVE  Tail_(Snap(a, n), at) = Snap(at, n)
<1>1. Len(n) \in Nat /\ a \in 0..Len(n) /\ at \in 0..Len(n)
  BY DEF Texts
<1>2. CASE a = at
  BY <1>1, <1>2, SnapIs DEF Tail_
<1>3. CASE a < at
  <2> DEFINE s == Snap(a, n)
             e == SubSeq(s.ent, at - a + 1, Len(s.ent))
             f == Snap(at, n).ent
  <2>1. /\ s.from = a /\ s.ent \in Seq(Texts) /\ Len(s.ent) = Len(n) - a
        /\ \A i \in 1..(Len(n) - a) : s.ent[i] = Cut(n, a + i)
    BY <1>1, SnapIs
  <2> HIDE DEF s
  <2>2. Tail_(s, at) = [from |-> at, ent |-> e]
    BY <1>1, <1>3, <2>1 DEF Tail_
  <2>3. /\ e \in Seq(Texts) /\ Len(e) = Len(n) - at
        /\ \A i \in 1..(Len(n) - at) : e[i] = s.ent[at - a + i]
    BY <1>1, <1>3, <2>1
  <2>4. \A i \in 1..(Len(n) - at) : at - a + i \in 1..(Len(n) - a) /\ a + (at - a + i) = at + i
    BY <1>1, <1>3
  <2>5. \A i \in 1..(Len(n) - at) : e[i] = Cut(n, at + i)
    BY <2>1, <2>3, <2>4
  <2>6. /\ f \in Seq(Texts) /\ Len(f) = Len(n) - at
        /\ \A i \in 1..(Len(n) - at) : f[i] = Cut(n, at + i)
    BY <1>1, SnapIs
  <2> HIDE DEF e, f
  <2>7. e = f
    BY <2>3, <2>5, <2>6, EntriesEqual
  <2>8. QED
    BY <2>2, <2>7 DEF s, f, Snap
<1>4. QED
  BY <1>1, <1>2, <1>3

LEMMA SnapJoined ==
  ASSUME NEW n \in Texts, NEW m \in Texts, IsPrefix(m, n), Len(m) < Len(n),
         NEW a \in Nat, a < Len(m)
  PROVE  Joined(Snap(a, m), Snap(Len(m), n)) = Snap(a, n)
<1>1. Len(n) \in Nat /\ Len(m) \in Nat /\ Len(m) \in 0..Len(n) /\ m = Cut(n, Len(m))
  <2>1. Len(n) \in Nat /\ Len(m) \in Nat /\ Len(m) \in 0..Len(n)
    BY DEF Texts
  <2>2. QED
    BY <2>1, CutPrefix
<1>2. \A i \in 0..Len(m) : Cut(m, i) = Cut(n, i)
  BY <1>1, CutPrefix
<1> DEFINE s == Snap(a, m).ent
           c == Snap(Len(m), n).ent
           f == Snap(a, n).ent
<1>3. /\ s \in Seq(Texts) /\ Len(s) = Len(m) - a
      /\ \A i \in 1..(Len(m) - a) : s[i] = Cut(n, a + i)
  <2>1. \A i \in 1..(Len(m) - a) : a + i \in 0..Len(m)
    BY <1>1
  <2>2. QED
    BY <1>1, <1>2, <2>1, SnapIs
<1>4. /\ c \in Seq(Texts) /\ Len(c) = Len(n) - Len(m)
      /\ \A i \in 1..(Len(n) - Len(m)) : c[i] = Cut(n, Len(m) + i)
  BY <1>1, SnapIs
<1>5. /\ f \in Seq(Texts) /\ Len(f) = Len(n) - a
      /\ \A i \in 1..(Len(n) - a) : f[i] = Cut(n, a + i)
  BY <1>1, SnapIs
<1>6. Joined(Snap(a, m), Snap(Len(m), n)) = [from |-> a, ent |-> s \o c]
  <2>1. Snap(a, m) # NoKV /\ Snap(Len(m), n) # NoKV
    BY <1>1, SnapIs
  <2>2. QED
    BY <2>1 DEF Joined, Snap
<1> HIDE DEF s, c, f
<1>7. s \o c = f
  <2>1. /\ s \o c \in Seq(Texts) /\ Len(s \o c) = Len(n) - a
        /\ \A i \in 1..(Len(n) - a) :
             (s \o c)[i] = IF i <= Len(m) - a THEN s[i] ELSE c[i - (Len(m) - a)]
    <3>1. /\ s \o c \in Seq(Texts) /\ Len(s \o c) = Len(s) + Len(c)
          /\ \A i \in 1..(Len(s) + Len(c)) :
               (s \o c)[i] = IF i <= Len(s) THEN s[i] ELSE c[i - Len(s)]
      BY <1>3, <1>4, ConcatProperties
    <3>2. Len(s) + Len(c) = Len(n) - a
      BY <1>1, <1>3, <1>4
    <3>3. QED
      BY <1>3, <3>1, <3>2
  <2>2. ASSUME NEW i \in 1..(Len(n) - a) PROVE (s \o c)[i] = f[i]
    <3>1. CASE i <= Len(m) - a
      BY <1>1, <1>3, <1>5, <2>1, <3>1
    <3>2. CASE ~(i <= Len(m) - a)
      <4>1. /\ i - (Len(m) - a) \in 1..(Len(n) - Len(m))
            /\ Len(m) + (i - (Len(m) - a)) = a + i
        BY <1>1, <3>2
      <4>2. QED
        BY <1>4, <1>5, <2>1, <3>2, <4>1
    <3>3. QED
      BY <3>1, <3>2
  <2>3. QED
    BY <1>5, <2>1, <2>2, EntriesEqual
<1>8. QED
  BY <1>6, <1>7 DEF f, Snap

\* A restore from a snapshot of n onto what agrees with n up to it.
LEMMA SnapRestored ==
  ASSUME NEW x \in Texts, NEW n \in Texts, NEW a \in 0..Len(x), NEW to \in a..Len(n),
         Cut(x, a) = Cut(n, a)
  PROVE  Cut(Cut(History(x), a) \o Snap(a, n).ent, to) = History(Cut(n, to))
<1>1. Len(n) \in Nat /\ Len(x) \in Nat /\ a \in 0..Len(n) /\ to \in 0..Len(n)
  BY DEF Texts
<1> DEFINE h == Cut(History(x), a)
           s == Snap(a, n).ent
<1>2. h = History(Cut(n, a))
  BY HistoryCut
<1>3. /\ h \in Seq(Texts) /\ Len(h) = a /\ \A i \in 1..a : h[i] = Cut(n, i)
  <2>1. /\ Cut(n, a) \in Texts /\ Len(Cut(n, a)) = a
        /\ \A i \in 0..a : Cut(Cut(n, a), i) = Cut(n, i)
    BY <1>1, CutPrefix
  <2>2. QED
    BY <1>2, <2>1, HistoryIs
<1>4. /\ s \in Seq(Texts) /\ Len(s) = Len(n) - a
      /\ \A i \in 1..(Len(n) - a) : s[i] = Cut(n, a + i)
  BY <1>1, SnapIs
<1>5. h \o s = History(n)
  <2> HIDE DEF h, s
  <2>1. /\ h \o s \in Seq(Texts) /\ Len(h \o s) = Len(n)
        /\ \A i \in 1..Len(n) : (h \o s)[i] = IF i <= a THEN h[i] ELSE s[i - a]
    BY <1>1, <1>3, <1>4
  <2>2. \A i \in 1..Len(n) : (h \o s)[i] = Cut(n, i)
    BY <1>1, <1>3, <1>4, <2>1
  <2>3. QED
    BY <2>1, <2>2, HistoryIs, EntriesEqual
<1>6. QED
  BY <1>1, <1>5, HistoryCut

-----------------------------------------------------------------------------
(* The nodes of the trie as a set of texts.                                *)

Closed(N) ==
  /\ N \subseteq Texts /\ IsFiniteSet(N) /\ Root \in N
  /\ \A x, y \in N : Meet(x, y) \in N

IsParent(N, p, n) ==
  p \in N /\ IsStrictPrefix(p, n) /\ \A m \in N : IsStrictPrefix(m, n) => IsPrefix(m, p)

Edge(N, n) == IF n = Root THEN 0 ELSE Len(Longest({m \in N : IsStrictPrefix(m, n)}))
Below(N, n) == {c \in N : c # Root /\ IsStrictPrefix(n, c) /\ Edge(N, c) = Len(n)}

LEMMA StartIsEdge ==
  ASSUME NEW t, NEW n
  PROVE  Start(t, n) = Edge(Nodes(t), n) /\ Children(t, n) = Below(Nodes(t), n)
<1>1. \A m : Start(t, m) = Edge(Nodes(t), m)
  BY DEF Start, Edge, Ancestors
<1>2. QED
  BY <1>1 DEF Children, Below

\* Every text but the root has a parent, and its edge starts there.
LEMMA ParentIs ==
  ASSUME NEW N \in SUBSET Texts, Root \in N, NEW n \in Texts, n # Root
  PROVE  /\ \E p \in N : IsParent(N, p, n)
         /\ \A p : IsParent(N, p, n) => Edge(N, n) = Len(p)
         /\ Edge(N, n) \in 0..(Len(n) - 1)
<1> DEFINE A == {m \in N : IsStrictPrefix(m, n)}
<1>1. Len(n) \in Nat /\ Len(n) # 0 /\ Root \in Texts /\ Len(Root) = 0
  BY EmptySeq DEF Texts, Root
<1>2. \A m \in A : m \in Texts /\ IsPrefix(m, n) /\ Len(m) < Len(n) /\ Len(m) \in 0..Len(n)
  <2>1. \A m \in A : m \in Texts /\ Len(m) \in Nat
    BY DEF Texts
  <2>2. \A m \in A : IsPrefix(m, n) /\ Len(m) < Len(n)
    BY <2>1, PrefixOrder
  <2>3. QED
    BY <1>1, <2>1, <2>2
<1>3. Root \in A
  BY <1>1, PrefixOrder
<1> DEFINE q == Longest(A)
<1> HIDE DEF A
<1>4. q \in A /\ \A m \in A : Len(m) <= Len(q)
  BY <1>1, <1>2, <1>3, LongestIs
<1>5. \A m \in A : IsPrefix(m, q)
  BY <1>2, <1>4, PrefixOrder
<1>6. IsParent(N, q, n)
  BY <1>4, <1>5 DEF IsParent, A
<1>7. Edge(N, n) = Len(q)
  BY DEF Edge, A
<1> HIDE DEF q
<1>8. ASSUME NEW p, IsParent(N, p, n) PROVE Edge(N, n) = Len(p)
  <2>1. p \in A /\ IsPrefix(q, p)
    BY <1>4, <1>8 DEF IsParent, A
  <2>2. IsPrefix(p, q)
    BY <1>5, <2>1
  <2>3. Len(p) = Len(q)
    BY <1>2, <1>4, <2>1, <2>2, PrefixOrder DEF Texts
  <2>4. QED
    BY <1>7, <2>3
<1>9. q \in N /\ Len(q) \in 0..(Len(n) - 1)
  BY <1>1, <1>2, <1>4, <1>6 DEF IsParent
<1>10. QED
  BY <1>6, <1>7, <1>8, <1>9

\* What is below a node is below a child of it.
LEMMA ChildAbove ==
  ASSUME NEW N \in SUBSET Texts, Root \in N, NEW n \in N, NEW x \in N, IsStrictPrefix(n, x)
  PROVE  \E c \in Below(N, n) : IsPrefix(c, x)
<1> DEFINE S == {m \in N : IsStrictPrefix(n, m) /\ IsPrefix(m, x)}
<1>1. \A m \in S : m \in Texts /\ Len(m) \in Nat
  BY DEF Texts
<1>2. x \in S
  BY PrefixOrder
<1> DEFINE c == Shallowest(S)
<1> HIDE DEF S
<1>3. c \in S /\ \A m \in S : Len(c) <= Len(m)
  BY <1>1, <1>2, ShallowestIs
<1> HIDE DEF c
<1>4. c \in N /\ c \in Texts /\ n \in Texts /\ x \in Texts /\ IsStrictPrefix(n, c) /\ IsPrefix(c, x)
  BY <1>1, <1>3 DEF S
<1>5. c # Root
  <2>1. Len(n) < Len(c) /\ Len(n) \in Nat /\ Len(Root) = 0
    BY <1>4, PrefixOrder DEF Texts, Root
  <2>2. QED
    BY <2>1
<1>6. ASSUME NEW m \in N, IsStrictPrefix(m, c) PROVE IsPrefix(m, n)
  <2>1. m \in Texts /\ Len(m) \in Nat /\ Len(n) \in Nat /\ Len(c) \in Nat
    BY <1>4 DEF Texts
  <2>2. IsPrefix(m, c) /\ Len(m) < Len(c) /\ IsPrefix(n, c) /\ IsPrefix(m, x)
    BY <1>4, <1>6, <2>1, PrefixOrder
  <2>3. CASE Len(m) <= Len(n)
    BY <1>4, <2>1, <2>2, <2>3, PrefixOrder
  <2>4. CASE Len(n) < Len(m)
    <3>1. IsStrictPrefix(n, m)
      BY <1>4, <2>1, <2>2, <2>4, PrefixOrder
    <3>2. m \in S
      BY <2>2, <3>1 DEF S
    <3>3. Len(c) <= Len(m)
      BY <1>3, <3>2
    <3>4. QED
      BY <2>1, <2>2, <3>3
  <2>5. QED
    BY <2>1, <2>3, <2>4
<1>7. IsParent(N, n, c)
  BY <1>4, <1>6 DEF IsParent
<1>8. c \in Below(N, n)
  BY <1>4, <1>5, <1>7, ParentIs DEF Below
<1>9. QED
  BY <1>4, <1>8

\* A new node on an edge.
LEMMA NodeSplit ==
  ASSUME NEW N, Closed(N), NEW n \in N, n # Root, NEW at \in Nat, Edge(N, n) < at, at < Len(n),
         NEW m, m = Cut(n, at)
  PROVE  /\ m \in Texts /\ Len(m) = at /\ IsStrictPrefix(m, n) /\ m # Root /\ m \notin N
         /\ Closed(N \cup {m})
         /\ Edge(N \cup {m}, m) = Edge(N, n) /\ Edge(N \cup {m}, n) = at
         /\ \A x \in N \ {n} : Edge(N \cup {m}, x) = Edge(N, x)
<1> DEFINE M == N \cup {m}
<1>1. N \in SUBSET Texts /\ Root \in N /\ n \in Texts /\ Len(n) \in Nat /\ IsFiniteSet(N)
  BY DEF Closed, Texts
<1>2. m \in Texts /\ Len(m) = at /\ IsPrefix(m, n) /\ IsStrictPrefix(m, n)
  <2>1. at \in 0..Len(n)
    BY <1>1
  <2>2. m \in Texts /\ Len(m) = at /\ IsPrefix(m, n)
    BY <1>1, <2>1, CutPrefix
  <2>3. QED
    BY <1>1, <2>2, PrefixOrder
<1>3. PICK p \in N : IsParent(N, p, n) /\ Edge(N, n) = Len(p)
  BY <1>1, ParentIs
<1>4. p \in Texts /\ Len(p) \in Nat /\ Len(p) < at /\ IsPrefix(p, n) /\ IsStrictPrefix(p, m)
  <2>1. p \in Texts /\ Len(p) \in Nat /\ Len(p) < at /\ IsPrefix(p, n)
    BY <1>1, <1>3, PrefixOrder DEF IsParent, Texts
  <2>2. IsPrefix(p, m)
    BY <1>1, <1>2, <2>1, PrefixOrder
  <2>3. QED
    BY <1>2, <2>1, <2>2, PrefixOrder
<1>5. m # Root
  BY <1>2, <1>4 DEF Root
<1>6. \A x \in N : x \in Texts /\ Len(x) \in Nat
  BY <1>1 DEF Texts
<1>7. ASSUME NEW x \in N, IsStrictPrefix(x, n) PROVE IsPrefix(x, p) /\ Len(x) <= Len(p)
  BY <1>1, <1>3, <1>4, <1>6, <1>7, PrefixOrder DEF IsParent
<1>8. m \notin N
  BY <1>2, <1>4, <1>7
<1>9. ASSUME NEW x \in N PROVE Meet(x, m) \in M
  <2>1. /\ Meet(x, n) \in N /\ Meet(x, n) \in Texts /\ x \in Texts
        /\ IsPrefix(Meet(x, n), x) /\ IsPrefix(Meet(x, n), n)
        /\ Meet(x, m) \in Texts /\ IsPrefix(Meet(x, m), x) /\ IsPrefix(Meet(x, m), m)
        /\ Len(Meet(x, n)) \in Nat /\ Len(Meet(x, m)) \in Nat
    <3>1. Meet(x, n) \in N /\ x \in Texts
      BY <1>6 DEF Closed
    <3>2. QED
      BY <1>1, <1>2, <3>1, MeetIs DEF Texts
  <2>2. CASE Len(Meet(x, n)) <= at
    <3>1. IsPrefix(Meet(x, n), m)
      BY <1>1, <1>2, <2>1, <2>2, PrefixOrder
    <3>2. IsPrefix(Meet(x, n), Meet(x, m))
      BY <1>2, <2>1, <3>1, MeetIs
    <3>3. IsPrefix(Meet(x, m), n)
      BY <1>1, <1>2, <2>1, PrefixOrder
    <3>4. IsPrefix(Meet(x, m), Meet(x, n))
      BY <1>1, <2>1, <3>3, MeetIs
    <3>5. Len(Meet(x, m)) = Len(Meet(x, n))
      BY <2>1, <3>2, <3>4, PrefixOrder
    <3>6. Meet(x, m) = Meet(x, n)
      BY <2>1, <3>4, <3>5, PrefixOrder
    <3>7. QED
      BY <2>1, <3>6
  <2>3. CASE at < Len(Meet(x, n))
    <3>1. IsPrefix(m, Meet(x, n))
      BY <1>1, <1>2, <2>1, <2>3, PrefixOrder
    <3>2. IsPrefix(m, x) /\ IsPrefix(m, m)
      BY <1>2, <2>1, <3>1, PrefixOrder
    <3>3. IsPrefix(m, Meet(x, m))
      BY <1>2, <2>1, <3>2, MeetIs
    <3>4. Len(m) <= Len(Meet(x, m)) /\ Len(Meet(x, m)) <= Len(m)
      BY <1>2, <2>1, <3>3, PrefixOrder
    <3>5. Meet(x, m) = m
      BY <1>2, <2>1, <3>4, PrefixOrder
    <3>6. QED
      BY <3>5
  <2>4. QED
    BY <1>2, <2>1, <2>2, <2>3
<1>10. Meet(m, m) = m
  <2>1. /\ Meet(m, m) \in Texts /\ IsPrefix(Meet(m, m), m) /\ IsPrefix(m, Meet(m, m))
        /\ Len(Meet(m, m)) \in Nat
    <3>1. IsPrefix(m, m)
      BY <1>2, PrefixOrder
    <3>2. QED
      BY <1>2, <3>1, MeetIs DEF Texts
  <2>2. Len(Meet(m, m)) = Len(m)
    BY <1>2, <2>1, PrefixOrder
  <2>3. QED
    BY <1>2, <2>1, <2>2, PrefixOrder
<1>11. \A x, y : Meet(x, y) = Meet(y, x)
  <2>1. \A x, y : {x, y} = {y, x}
    OBVIOUS
  <2>2. QED
    BY <2>1 DEF Meet
<1>12. Closed(M)
  <2>1. M \subseteq Texts /\ IsFiniteSet(M) /\ Root \in M
    BY <1>1, <1>2, FS_AddElement
  <2>2. ASSUME NEW x \in M, NEW y \in M PROVE Meet(x, y) \in M
    <3>1. CASE x \in N /\ y \in N
      BY <3>1 DEF Closed
    <3>2. CASE x \in N /\ y = m
      BY <1>9, <3>2
    <3>3. CASE x = m /\ y \in N
      BY <1>9, <1>11, <3>3
    <3>4. CASE x = m /\ y = m
      BY <1>10, <3>4
    <3>5. QED
      BY <3>1, <3>2, <3>3, <3>4
  <2>3. QED
    BY <2>1, <2>2 DEF Closed
<1>13. M \in SUBSET Texts /\ Root \in M
  BY <1>12 DEF Closed
<1>14. Edge(M, m) = Edge(N, n)
  <2>1. ASSUME NEW x \in M, IsStrictPrefix(x, m) PROVE IsPrefix(x, p)
    <3>1. x \in N /\ x \in Texts
      BY <1>6, <2>1 DEF IsStrictPrefix
    <3>2. IsPrefix(x, m) /\ Len(x) < Len(m)
      BY <1>2, <2>1, <3>1, PrefixOrder
    <3>3. IsPrefix(x, n)
      BY <1>1, <1>2, <3>1, <3>2, PrefixOrder
    <3>4. Len(x) < Len(n)
      BY <1>1, <1>2, <1>6, <3>1, <3>2
    <3>5. QED
      BY <1>1, <1>7, <3>1, <3>3, <3>4, PrefixOrder
  <2>2. IsParent(M, p, m)
    BY <1>3, <1>4, <2>1 DEF IsParent
  <2>3. QED
    BY <1>2, <1>3, <1>5, <1>13, <2>2, ParentIs
<1>15. Edge(M, n) = at
  <2>1. ASSUME NEW x \in M, IsStrictPrefix(x, n) PROVE IsPrefix(x, m)
    <3>1. CASE x = m
      BY <1>2, <3>1, PrefixOrder
    <3>2. CASE x \in N
      <4>1. IsPrefix(x, p) /\ IsPrefix(p, m)
        BY <1>2, <1>4, <1>7, <2>1, <3>2, PrefixOrder
      <4>2. QED
        BY <1>2, <1>4, <1>6, <3>2, <4>1, PrefixOrder
    <3>3. QED
      BY <3>1, <3>2
  <2>2. IsParent(M, m, n)
    BY <1>2, <2>1 DEF IsParent
  <2>3. QED
    BY <1>1, <1>2, <1>13, <2>2, ParentIs
<1>16. ASSUME NEW x \in N \ {n} PROVE Edge(M, x) = Edge(N, x)
  <2>1. CASE x = Root
    BY <2>1 DEF Edge
  <2>2. CASE x # Root
    <3>1. PICK q \in N : IsParent(N, q, x) /\ Edge(N, x) = Len(q)
      BY <1>1, <1>6, <2>2, ParentIs
    <3>2. q \in Texts /\ x \in Texts /\ IsStrictPrefix(q, x)
      BY <1>6, <3>1 DEF IsParent
    <3>3. ASSUME IsStrictPrefix(m, x) PROVE IsPrefix(m, q)
      <4>1. IsPrefix(m, x)
        BY <1>2, <3>2, <3>3, PrefixOrder
      <4>2. /\ Meet(x, n) \in N /\ IsPrefix(Meet(x, n), x) /\ IsPrefix(Meet(x, n), n)
            /\ IsPrefix(m, Meet(x, n)) /\ Meet(x, n) \in Texts
        <5>1. Meet(x, n) \in N
          BY DEF Closed
        <5>2. QED
          BY <1>1, <1>2, <1>6, <3>2, <4>1, <5>1, MeetIs
      <4>3. Meet(x, n) = n
        <5>1. Len(m) <= Len(Meet(x, n)) /\ Len(Meet(x, n)) <= Len(n) /\ Len(Meet(x, n)) \in Nat
          BY <1>1, <1>2, <4>2, PrefixOrder DEF Texts
        <5>2. ~IsStrictPrefix(Meet(x, n), n)
          BY <1>2, <1>4, <1>7, <4>2, <5>1
        <5>3. QED
          BY <1>1, <4>2, <5>1, <5>2, PrefixOrder
      <4>4. IsStrictPrefix(n, x)
        BY <4>2, <4>3 DEF IsStrictPrefix
      <4>5. IsPrefix(n, q)
        BY <3>1, <4>4 DEF IsParent
      <4>6. QED
        BY <1>1, <1>2, <3>2, <4>5, PrefixOrder
    <3>4. IsParent(M, q, x)
      BY <3>1, <3>3 DEF IsParent
    <3>5. QED
      BY <1>13, <2>2, <3>1, <3>2, <3>4, ParentIs
  <2>3. QED
    BY <2>1, <2>2
<1>17. QED
  BY <1>2, <1>5, <1>8, <1>12, <1>14, <1>15, <1>16

\* A new leaf.
BranchesAt(N, s, p) ==
  /\ p \in N /\ IsStrictPrefix(p, s)
  /\ \A x \in N, z \in Texts : IsPrefix(z, x) /\ IsPrefix(z, s) => Len(z) <= Len(p)

LEMMA NodeAdded ==
  ASSUME NEW N, Closed(N), NEW s \in Texts, NEW p, BranchesAt(N, s, p)
  PROVE  /\ s \notin N /\ s # Root /\ Closed(N \cup {s})
         /\ \A x \in N : ~IsPrefix(s, x)
<1> DEFINE M == N \cup {s}
<1>1. /\ N \in SUBSET Texts /\ Root \in N /\ IsFiniteSet(N)
      /\ \A x \in N : x \in Texts /\ Len(x) \in Nat
  BY DEF Closed, Texts
<1>2. p \in Texts /\ Len(p) \in Nat /\ Len(s) \in Nat /\ Len(p) < Len(s) /\ IsPrefix(p, s) /\ IsPrefix(s, s)
  BY <1>1, PrefixOrder DEF Texts, BranchesAt
<1>3. \A x \in N : ~IsPrefix(s, x)
  BY <1>2 DEF BranchesAt
<1>4. s \notin N /\ s # Root
  BY <1>1, <1>2, <1>3
<1>5. \A x \in Texts : IsPrefix(x, s) /\ Len(x) <= Len(p) => IsPrefix(x, p)
  BY <1>2, PrefixOrder
<1>6. ASSUME NEW x \in N PROVE Meet(x, s) \in N
  <2>0. p \in N
    BY DEF BranchesAt
  <2>1. /\ Meet(x, s) \in Texts /\ IsPrefix(Meet(x, s), x) /\ IsPrefix(Meet(x, s), s)
        /\ Meet(x, p) \in N /\ Meet(x, p) \in Texts /\ IsPrefix(Meet(x, p), x) /\ IsPrefix(Meet(x, p), p)
    <3>1. Meet(x, p) \in N
      BY <2>0 DEF Closed
    <3>2. QED
      BY <1>1, <1>2, <3>1, MeetIs
  <2>2. IsPrefix(Meet(x, s), p)
    BY <1>5, <2>1 DEF BranchesAt
  <2>3. IsPrefix(Meet(x, s), Meet(x, p))
    BY <1>1, <1>2, <2>1, <2>2, MeetIs
  <2>4. IsPrefix(Meet(x, p), s)
    BY <1>2, <2>1, PrefixOrder
  <2>5. IsPrefix(Meet(x, p), Meet(x, s))
    BY <1>1, <2>1, <2>4, MeetIs
  <2>6. Len(Meet(x, p)) = Len(Meet(x, s))
    <3>1. Len(Meet(x, p)) \in Nat /\ Len(Meet(x, s)) \in Nat
      BY <2>1 DEF Texts
    <3>2. QED
      BY <2>1, <2>3, <2>5, <3>1, PrefixOrder
  <2>7. QED
    BY <2>1, <2>5, <2>6, PrefixOrder
<1>7. Meet(s, s) = s
  <2>1. Meet(s, s) \in Texts /\ IsPrefix(Meet(s, s), s) /\ IsPrefix(s, Meet(s, s))
    BY <1>2, MeetIs
  <2>2. Len(Meet(s, s)) = Len(s)
    <3>1. Len(Meet(s, s)) \in Nat
      BY <2>1 DEF Texts
    <3>2. QED
      BY <1>2, <2>1, <3>1, PrefixOrder
  <2>3. QED
    BY <2>1, <2>2, PrefixOrder
<1>8. \A x, y : Meet(x, y) = Meet(y, x)
  <2>1. \A x, y : {x, y} = {y, x}
    OBVIOUS
  <2>2. QED
    BY <2>1 DEF Meet
<1>9. Closed(M)
  <2>1. M \subseteq Texts /\ IsFiniteSet(M) /\ Root \in M
    BY <1>1, FS_AddElement
  <2>2. ASSUME NEW x \in M, NEW y \in M PROVE Meet(x, y) \in M
    <3>1. CASE x \in N /\ y \in N
      BY <3>1 DEF Closed
    <3>2. CASE x \in N /\ y = s
      BY <1>6, <3>2
    <3>3. CASE x = s /\ y \in N
      BY <1>6, <1>8, <3>3
    <3>4. CASE x = s /\ y = s
      BY <1>7, <3>4
    <3>5. QED
      BY <3>1, <3>2, <3>3, <3>4
  <2>3. QED
    BY <2>1, <2>2 DEF Closed
<1>10. QED
  BY <1>3, <1>4, <1>9

LEMMA EdgesAdded ==
  ASSUME NEW N, NEW s, \A x \in N : ~IsPrefix(s, x)
  PROVE  \A x \in N : Edge(N \cup {s}, x) = Edge(N, x)
<1>1. ASSUME NEW x \in N PROVE Edge(N \cup {s}, x) = Edge(N, x)
  <2>1. ~IsStrictPrefix(s, x)
    BY DEF IsStrictPrefix
  <2>2. {m \in N \cup {s} : IsStrictPrefix(m, x)} = {m \in N : IsStrictPrefix(m, x)}
    BY <2>1
  <2>3. QED
    BY <2>2 DEF Edge
<1>2. QED
  BY <1>1

\* A leaf less.
LEMMA LeafDropped ==
  ASSUME NEW N, Closed(N), NEW n \in N, n # Root, Below(N, n) = {}
  PROVE  /\ Closed(N \ {n})
         /\ \A x \in N \ {n} : ~IsPrefix(n, x) /\ Edge(N \ {n}, x) = Edge(N, x)
<1>1. /\ N \in SUBSET Texts /\ Root \in N /\ IsFiniteSet(N)
      /\ \A x \in N : x \in Texts
  BY DEF Closed
<1>2. \A x \in N \ {n} : ~IsPrefix(n, x)
  <2>1. ASSUME NEW x \in N \ {n}, IsPrefix(n, x) PROVE FALSE
    <3>1. IsStrictPrefix(n, x)
      BY <2>1 DEF IsStrictPrefix
    <3>2. QED
      BY <1>1, <3>1, ChildAbove
  <2>2. QED
    BY <2>1
<1>3. Closed(N \ {n})
  <2>1. N \ {n} \subseteq Texts /\ IsFiniteSet(N \ {n}) /\ Root \in N \ {n}
    BY <1>1, FS_RemoveElement
  <2>2. ASSUME NEW x \in N \ {n}, NEW y \in N \ {n} PROVE Meet(x, y) \in N \ {n}
    <3>1. Meet(x, y) \in N /\ IsPrefix(Meet(x, y), x)
      BY <1>1, MeetIs DEF Closed
    <3>2. QED
      BY <1>2, <3>1
  <2>3. QED
    BY <2>1, <2>2 DEF Closed
<1>4. ASSUME NEW x \in N \ {n} PROVE Edge(N \ {n}, x) = Edge(N, x)
  <2>1. ~IsStrictPrefix(n, x)
    BY <1>2 DEF IsStrictPrefix
  <2>2. {m \in N \ {n} : IsStrictPrefix(m, x)} = {m \in N : IsStrictPrefix(m, x)}
    BY <2>1
  <2>3. QED
    BY <2>2 DEF Edge
<1>5. QED
  BY <1>2, <1>3, <1>4

\* A node with one child less: the child takes over its edge.
LEMMA NodeMerged ==
  ASSUME NEW N, Closed(N), NEW n \in N, n # Root, NEW c, Below(N, n) = {c}
  PROVE  /\ Closed(N \ {n})
         /\ \A x \in N \ {n} : IsPrefix(n, x) => IsPrefix(c, x)
<1> DEFINE M == N \ {n}
<1>1. /\ N \in SUBSET Texts /\ Root \in N /\ IsFiniteSet(N) /\ n \in Texts
      /\ \A x \in N : x \in Texts /\ Len(x) \in Nat
  BY DEF Closed, Texts
<1>2. c \in N /\ c # Root /\ IsStrictPrefix(n, c) /\ Edge(N, c) = Len(n) /\ c \in Texts
  BY <1>1 DEF Below
<1>3. c # n /\ Len(n) < Len(c) /\ IsPrefix(n, c)
  BY <1>1, <1>2, PrefixOrder DEF IsStrictPrefix
<1>4. ASSUME NEW x \in M, IsPrefix(n, x) PROVE IsPrefix(c, x)
  <2>1. IsStrictPrefix(n, x)
    BY <1>4 DEF IsStrictPrefix
  <2>2. QED
    BY <1>1, <2>1, ChildAbove
<1>5. Closed(M)
  <2>1. M \subseteq Texts /\ IsFiniteSet(M) /\ Root \in M
    BY <1>1, FS_RemoveElement
  <2>2. ASSUME NEW x \in M, NEW y \in M PROVE Meet(x, y) \in M
    <3>1. /\ Meet(x, y) \in N /\ IsPrefix(Meet(x, y), x) /\ IsPrefix(Meet(x, y), y)
      BY <1>1, MeetIs DEF Closed
    <3>2. ASSUME Meet(x, y) = n PROVE FALSE
      <4>1. IsPrefix(c, x) /\ IsPrefix(c, y)
        BY <1>4, <3>1, <3>2
      <4>2. IsPrefix(c, n)
        BY <1>1, <1>2, <3>2, <4>1, MeetIs
      <4>3. QED
        BY <1>1, <1>2, <1>3, <4>2, PrefixOrder
    <3>3. QED
      BY <3>1, <3>2
  <2>3. QED
    BY <2>1, <2>2 DEF Closed
<1>6. QED
  BY <1>4, <1>5

LEMMA ChildEdgeMerged ==
  ASSUME NEW N, Closed(N), NEW n \in N, n # Root, NEW c, Below(N, n) = {c}
  PROVE  Edge(N \ {n}, c) = Edge(N, n)
<1> DEFINE M == N \ {n}
<1>1. /\ N \in SUBSET Texts /\ Root \in N /\ n \in Texts
      /\ \A x \in N : x \in Texts /\ Len(x) \in Nat
  BY DEF Closed, Texts
<1>2. c \in N /\ c # Root /\ IsStrictPrefix(n, c) /\ Edge(N, c) = Len(n) /\ c \in Texts
  BY <1>1 DEF Below
<1>3. c # n /\ Len(n) < Len(c) /\ IsPrefix(n, c)
  BY <1>1, <1>2, PrefixOrder DEF IsStrictPrefix
<1>6. M \in SUBSET Texts /\ Root \in M
  BY <1>1
<1>7. Edge(M, c) = Edge(N, n)
  <2>1. PICK p \in N : IsParent(N, p, n) /\ Edge(N, n) = Len(p)
    BY <1>1, ParentIs
  <2>2. p \in M /\ IsStrictPrefix(p, n) /\ p \in Texts
    BY <1>1, <2>1 DEF IsParent, IsStrictPrefix
  <2>3. IsStrictPrefix(p, c)
    <3>1. IsPrefix(p, n) /\ Len(p) < Len(n) /\ Len(p) \in Nat /\ Len(c) \in Nat /\ Len(n) \in Nat
      BY <1>1, <1>2, <2>2, PrefixOrder
    <3>2. IsPrefix(p, c) /\ Len(p) < Len(c)
      BY <1>1, <1>2, <1>3, <2>2, <3>1, PrefixOrder
    <3>3. QED
      BY <1>2, <2>2, <3>2, PrefixOrder
  <2>4. ASSUME NEW x \in M, IsStrictPrefix(x, c) PROVE IsPrefix(x, p)
    <3>1. PICK q \in N : IsParent(N, q, c) /\ Edge(N, c) = Len(q)
      BY <1>1, <1>2, ParentIs
    <3>2. q \in Texts /\ IsPrefix(q, c) /\ Len(q) = Len(n)
      BY <1>1, <1>2, <3>1, PrefixOrder DEF IsParent
    <3>3. q = n
      <4>1. IsPrefix(q, n)
        BY <1>1, <1>2, <1>3, <3>2, PrefixOrder
      <4>2. QED
        BY <1>1, <3>2, <4>1, PrefixOrder
    <3>4. IsPrefix(x, n)
      BY <2>4, <3>1, <3>3 DEF IsParent
    <3>5. IsStrictPrefix(x, n)
      BY <3>4 DEF IsStrictPrefix
    <3>6. QED
      BY <2>1, <3>5 DEF IsParent
  <2>5. IsParent(M, p, c)
    BY <2>2, <2>3, <2>4 DEF IsParent
  <2>6. QED
    BY <1>2, <1>6, <2>1, <2>5, ParentIs
<1>8. QED
  BY <1>7

LEMMA EdgesMerged ==
  ASSUME NEW N, Closed(N), NEW n \in N, n # Root, NEW c, Below(N, n) = {c}
  PROVE  \A x \in N \ {n, c} : Edge(N \ {n}, x) = Edge(N, x)
<1> DEFINE M == N \ {n}
<1>1. /\ N \in SUBSET Texts /\ Root \in N /\ n \in Texts
      /\ \A x \in N : x \in Texts /\ Len(x) \in Nat
  BY DEF Closed, Texts
<1>2. c \in N /\ c # Root /\ IsStrictPrefix(n, c) /\ Edge(N, c) = Len(n) /\ c \in Texts
  BY <1>1 DEF Below
<1>3. c # n /\ Len(n) < Len(c) /\ IsPrefix(n, c)
  BY <1>1, <1>2, PrefixOrder DEF IsStrictPrefix
<1>4. \A x \in M : IsPrefix(n, x) => IsPrefix(c, x)
  BY NodeMerged
<1>6. M \in SUBSET Texts /\ Root \in M
  BY <1>1
<1>8. ASSUME NEW x \in N \ {n, c} PROVE Edge(M, x) = Edge(N, x)
  <2>1. CASE x = Root
    BY <2>1 DEF Edge
  <2>2. CASE x # Root
    <3>1. PICK q \in N : IsParent(N, q, x) /\ Edge(N, x) = Len(q)
      BY <1>1, <2>2, ParentIs
    <3>2. q # n
      <4>1. ASSUME q = n PROVE FALSE
        <5>1. IsStrictPrefix(n, x)
          BY <3>1, <4>1 DEF IsParent
        <5>2. IsPrefix(c, x)
          BY <1>4, <5>1 DEF IsStrictPrefix
        <5>3. IsStrictPrefix(c, x)
          BY <5>2 DEF IsStrictPrefix
        <5>4. IsPrefix(c, n)
          BY <1>2, <3>1, <4>1, <5>3 DEF IsParent
        <5>5. QED
          BY <1>1, <1>2, <1>3, <5>4, PrefixOrder
      <4>2. QED
        BY <4>1
    <3>3. IsParent(M, q, x)
      BY <3>1, <3>2 DEF IsParent
    <3>4. QED
      BY <1>1, <1>6, <2>2, <3>1, <3>3, ParentIs
  <2>3. QED
    BY <2>1, <2>2
<1>9. QED
  BY <1>8

-----------------------------------------------------------------------------
(* Tries.                                                                  *)

IsTrie(t) == t = [kv |-> t.kv, state |-> t.state, user |-> t.user, path |-> t.path]

Forest(t) ==
  /\ IsTrie(t) /\ Closed(Nodes(t))
  /\ DOMAIN t.state = Nodes(t)
  /\ t.user \subseteq Nodes(t) \ {Root}

OnPath(t, F) == F \in Nodes(t) /\ t.path = {n \in Nodes(t) : IsPrefix(n, F)}

Tree(t) == Forest(t) /\ OnPath(t, Frontier(t))

\* Every snapshot is what it is of; only the nodes of X may lack their range.
Holds(t, X) ==
  \A n \in Nodes(t) :
    /\ t.state[n] \in {NoState, n}
    /\ n # Root => t.kv[n] = Snap(Edge(Nodes(t), n), n) \/ (n \in X /\ t.kv[n] = NoKV)

LEMMA ClosedNodes ==
  ASSUME NEW N, Closed(N)
  PROVE  /\ N \in SUBSET Texts /\ Root \in N /\ Root \in Texts /\ Len(Root) = 0
         /\ \A n \in N : n \in Texts /\ Len(n) \in Nat /\ IsPrefix(Root, n) /\ IsPrefix(n, n)
<1>1. N \in SUBSET Texts /\ Root \in N /\ Len(Root) = 0
  BY DEF Closed, Root
<1>2. \A n \in Texts : Len(n) \in Nat /\ IsPrefix(Root, n) /\ IsPrefix(n, n)
  BY PrefixOrder DEF Texts
<1>3. QED
  BY <1>1, <1>2

LEMMA FrontierIs ==
  ASSUME NEW t, Forest(t), NEW F, OnPath(t, F)
  PROVE  Frontier(t) = F /\ Tree(t)
<1>1. F \in t.path /\ F \in Texts /\ \A n \in t.path : n \in Texts /\ IsPrefix(n, F)
  BY ClosedNodes DEF Forest, OnPath
<1>2. Len(F) \in Nat /\ \A n \in t.path : Len(n) \in 0..Len(F)
  <2>1. \A n \in t.path : Len(n) \in Nat /\ Len(n) <= Len(F)
    BY <1>1, PrefixOrder DEF Texts
  <2>2. QED
    BY <1>1, <2>1 DEF Texts
<1>3. Frontier(t) \in t.path /\ Len(F) <= Len(Frontier(t))
  BY <1>1, <1>2, LongestIs DEF Frontier
<1>4. Frontier(t) = F
  BY <1>1, <1>2, <1>3, PrefixOrder
<1>5. QED
  BY <1>4 DEF Tree

\* What Match finds: a path from the first node down, all of whose nodes but the
\* last are matched whole; and no node has more in common with the text.
MatchOf(N, from, s, m, e) ==
  /\ m.matched \in Nat /\ Len(from) <= m.matched /\ m.matched <= Len(s)
  /\ e \in N /\ IsPrefix(from, e) /\ IsPrefix(Cut(s, m.matched), e)
  /\ m.matched <= Len(e)
  /\ m.path = {n \in N : IsPrefix(from, n) /\ IsPrefix(n, e)}
  /\ \A n \in m.path : n = e \/ Len(n) < m.matched
  /\ \A n \in N, z \in Texts :
       IsPrefix(from, n) /\ IsPrefix(z, n) /\ IsPrefix(z, s) => Len(z) <= m.matched

LEMMA MatchIs ==
  ASSUME NEW t, Forest(t), NEW from \in Nodes(t), NEW s \in Texts, IsPrefix(from, s),
         NEW m, m = Match(t, from, s), NEW e, e = Longest(m.path)
  PROVE  MatchOf(Nodes(t), from, s, m, e)
<1> DEFINE N == Nodes(t)
           B == {n \in N : IsPrefix(from, n)}
           W == {n \in B : IsPrefix(n, s)}
           C == {Common(n, s) : n \in B}
           k == Max(C)
           last == Longest(W)
           X == {c \in Below(N, last) : k > Len(last) /\ Common(c, s) = k}
<1>1. m.path = W \cup X /\ m.matched = k
  BY StartIsEdge DEF Match
<1>2. /\ N \in SUBSET Texts /\ Root \in N /\ Closed(N) /\ Len(s) \in Nat
      /\ \A n \in N : n \in Texts /\ Len(n) \in Nat /\ IsPrefix(n, n)
  BY ClosedNodes DEF Forest, Texts
<1>3. from \in Texts /\ from \in B /\ from \in W /\ Len(from) \in Nat /\ Len(from) <= Len(s)
  BY <1>2, PrefixOrder
<1>4. ASSUME NEW n \in N
      PROVE  /\ Meet(n, s) \in Texts /\ IsPrefix(Meet(n, s), n) /\ IsPrefix(Meet(n, s), s)
             /\ Common(n, s) = Len(Meet(n, s)) /\ Common(n, s) \in 0..Len(s)
             /\ Common(n, s) <= Len(n)
             /\ \A z \in Texts : IsPrefix(z, n) /\ IsPrefix(z, s)
                  => IsPrefix(z, Meet(n, s)) /\ Len(z) <= Common(n, s)
  <2>1. Meet(n, s) \in Texts /\ IsPrefix(Meet(n, s), n) /\ IsPrefix(Meet(n, s), s)
        /\ \A z \in Texts : IsPrefix(z, n) /\ IsPrefix(z, s) => IsPrefix(z, Meet(n, s))
    BY <1>2, MeetIs
  <2>2. Common(n, s) = Len(Meet(n, s)) /\ Len(Meet(n, s)) \in Nat
    BY <2>1 DEF Common, Meet, Texts
  <2>3. QED
    BY <1>2, <2>1, <2>2, PrefixOrder
<1>5. C \in SUBSET (0..Len(s)) /\ C # {}
  BY <1>3, <1>4
<1>6. k \in C /\ k \in 0..Len(s) /\ \A n \in B : Common(n, s) <= k
  <2>1. k \in C /\ \A i \in C : i <= k
    BY <1>2, <1>5, MaxIs
  <2>2. QED
    BY <1>5, <2>1
<1>7. Len(from) <= k
  BY <1>3, <1>4, <1>6
<1>8. last \in W /\ \A n \in W : Len(n) <= Len(last)
  <2>1. \A n \in W : Len(n) \in 0..Len(s)
    BY <1>2, PrefixOrder
  <2>2. QED
    BY <1>2, <1>3, <2>1, LongestIs
<1>9. last \in N /\ last \in Texts /\ IsPrefix(from, last) /\ IsPrefix(last, s) /\ Len(last) \in Nat
      /\ Len(last) <= k
  <2>1. last \in N /\ last \in B /\ last \in Texts /\ IsPrefix(from, last) /\ IsPrefix(last, s) /\ Len(last) \in Nat
    BY <1>2, <1>8
  <2>2. Len(last) <= Common(last, s)
    BY <1>2, <1>4, <2>1
  <2>3. QED
    BY <1>4, <1>6, <2>1, <2>2
<1>10. PICK d \in B : Common(d, s) = k
  BY <1>6
<1>11. Cut(s, k) \in Texts /\ Len(Cut(s, k)) = k /\ IsPrefix(Cut(s, k), s) /\ IsPrefix(Cut(s, k), d)
  <2>1. Cut(s, k) \in Texts /\ Len(Cut(s, k)) = k /\ IsPrefix(Cut(s, k), s)
        /\ \A y \in Texts : IsPrefix(y, s) /\ Len(y) = k <=> y = Cut(s, k)
    BY <1>6, CutPrefix
  <2>2. Meet(d, s) = Cut(s, k) /\ IsPrefix(Meet(d, s), d)
    BY <1>4, <1>10, <2>1
  <2>3. QED
    BY <2>1, <2>2
<1> HIDE DEF k
<1>12. \A n \in W : IsPrefix(n, last)
  BY <1>2, <1>8, <1>9, PrefixOrder
<1>13. W = {n \in N : IsPrefix(from, n) /\ IsPrefix(n, last)}
  <2>1. \A n \in N : IsPrefix(n, last) => IsPrefix(n, s)
    BY <1>2, <1>9, PrefixOrder
  <2>2. QED
    BY <1>12, <2>1
<1>14. \A n \in W : n = last \/ Len(n) < Len(last)
  BY <1>2, <1>8, <1>9, <1>12, PrefixOrder
<1> HIDE DEF last
<1>15. /\ e \in N /\ IsPrefix(from, e) /\ IsPrefix(Cut(s, k), e) /\ k <= Len(e)
       /\ m.path = {n \in N : IsPrefix(from, n) /\ IsPrefix(n, e)}
       /\ \A n \in m.path : n = e \/ Len(n) < k
  <2>1. CASE k = Len(last)
    <3>1. m.path = W
      BY <1>1, <1>9, <2>1
    <3>2. e = last
      <4>1. \A n \in W : Len(n) \in 0..Len(s)
        BY <1>2, PrefixOrder
      <4>2. e \in W /\ Len(last) <= Len(e)
        BY <1>2, <1>8, <3>1, <4>1, LongestIs
      <4>3. QED
        BY <1>2, <1>9, <1>14, <4>2
    <3>3. last = Cut(s, k)
      BY <1>6, <1>9, <2>1, CutPrefix
    <3>4. QED
      BY <1>2, <1>9, <1>13, <1>14, <2>1, <3>1, <3>2, <3>3
  <2>2. CASE Len(last) < k
    <3>1. IsStrictPrefix(last, d)
      <4>1. IsPrefix(last, Cut(s, k))
        BY <1>6, <1>9, <1>11, <2>2, PrefixOrder
      <4>2. IsPrefix(last, d) /\ Len(Cut(s, k)) <= Len(d)
        BY <1>2, <1>9, <1>11, <4>1, PrefixOrder
      <4>3. QED
        BY <1>2, <1>6, <1>9, <1>11, <2>2, <4>2, PrefixOrder
    <3>2. PICK c \in Below(N, last) : IsPrefix(c, d)
      BY <1>2, <1>9, <3>1, ChildAbove
    <3>3. c \in N /\ c \in Texts /\ Len(c) \in Nat /\ c # Root /\ IsStrictPrefix(last, c) /\ Edge(N, c) = Len(last)
          /\ d \in N /\ d \in Texts
      BY <1>2, <3>2 DEF Below
    <3>4. IsPrefix(last, c) /\ Len(last) < Len(c) /\ IsPrefix(from, c)
      BY <1>3, <1>9, <3>3, PrefixOrder
    <3>5. k < Len(c)
      <4>1. ASSUME Len(c) <= k PROVE FALSE
        <5>1. IsPrefix(c, Cut(s, k))
          BY <1>6, <1>11, <3>2, <3>3, <4>1, PrefixOrder
        <5>2. IsPrefix(c, s)
          BY <1>11, <3>3, <5>1, PrefixOrder
        <5>3. Len(c) <= Len(last)
          BY <1>8, <3>3, <3>4, <5>2
        <5>4. QED
          BY <1>9, <3>3, <3>4, <5>3
      <4>2. QED
        BY <1>6, <3>3, <4>1
    <3>6. IsPrefix(Cut(s, k), c)
      BY <1>6, <1>11, <3>2, <3>3, <3>5, PrefixOrder
    <3>7. Common(c, s) = k
      <4>1. k <= Common(c, s)
        BY <1>4, <1>11, <3>3, <3>6
      <4>2. Common(c, s) <= k /\ Common(c, s) \in 0..Len(s)
        BY <1>4, <1>6, <3>3, <3>4
      <4>3. QED
        BY <1>6, <4>1, <4>2
    <3>8. ASSUME NEW b \in X PROVE b = c
      <4>1. b \in N /\ b \in Texts /\ Len(b) \in Nat /\ b # Root /\ IsStrictPrefix(last, b) /\ Edge(N, b) = Len(last)
            /\ Common(b, s) = k
        BY <1>2 DEF Below
      <4>2. /\ Meet(b, s) \in Texts /\ IsPrefix(Meet(b, s), b) /\ IsPrefix(Meet(b, s), s)
            /\ Len(Meet(b, s)) = k
        BY <1>4, <4>1
      <4>3. Meet(b, s) = Cut(s, k)
        BY <1>6, <4>2, CutPrefix
      <4>4. IsPrefix(Cut(s, k), b)
        BY <4>2, <4>3
      <4> DEFINE w == Meet(b, c)
      <4>5. w \in N /\ w \in Texts /\ Len(w) \in Nat /\ IsPrefix(w, b) /\ IsPrefix(w, c) /\ IsPrefix(Cut(s, k), w)
        <5>1. w \in N
          BY <1>2, <3>3, <4>1 DEF Closed
        <5>2. IsPrefix(w, b) /\ IsPrefix(w, c) /\ IsPrefix(Cut(s, k), w)
          BY <1>11, <3>3, <3>6, <4>1, <4>4, MeetIs
        <5>3. QED
          BY <1>2, <5>1, <5>2
      <4> HIDE DEF w
      <4>6. k <= Len(w)
        BY <1>11, <4>5, PrefixOrder
      <4>7. ASSUME NEW x \in N, x # Root, Edge(N, x) = Len(last), IsPrefix(w, x) PROVE w = x
        <5>1. PICK p \in N : IsParent(N, p, x) /\ Edge(N, x) = Len(p)
          BY <1>2, <4>7, ParentIs
        <5>2. CASE IsStrictPrefix(w, x)
          <6>1. IsPrefix(w, p)
            BY <4>5, <5>1, <5>2 DEF IsParent
          <6>2. Len(w) <= Len(last)
            BY <1>2, <4>5, <4>7, <5>1, <6>1, PrefixOrder
          <6>3. QED
            BY <1>6, <1>9, <2>2, <4>5, <4>6, <6>2
        <5>3. QED
          BY <4>7, <5>2 DEF IsStrictPrefix
      <4>8. w = b /\ w = c
        BY <3>3, <4>1, <4>5, <4>7
      <4>9. QED
        BY <4>8
    <3>9. X = {c}
      <4>1. c \in X
        BY <2>2, <3>2, <3>7, <1>6, <1>9
      <4>2. QED
        BY <3>8, <4>1
    <3>10. m.path = W \cup {c}
      BY <1>1, <3>9
    <3>11. e = c
      <4>1. \A n \in m.path : Len(n) \in 0..Len(c) /\ (n = c \/ Len(n) < Len(c))
        BY <1>2, <1>8, <1>9, <3>3, <3>4, <3>10
      <4>2. e \in m.path /\ Len(c) <= Len(e)
        BY <3>3, <3>10, <4>1, LongestIs
      <4>3. QED
        BY <3>3, <4>1, <4>2
    <3>12. ASSUME NEW n \in N, IsPrefix(from, n), IsPrefix(n, c), n # c PROVE n \in W
      <4>1. IsStrictPrefix(n, c)
        BY <3>12 DEF IsStrictPrefix
      <4>2. PICK p \in N : IsParent(N, p, c) /\ Edge(N, c) = Len(p)
        BY <1>2, <3>3, ParentIs
      <4>3. p = last
        <5>1. p \in Texts /\ IsPrefix(last, p)
          BY <1>2, <1>9, <3>3, <4>2 DEF IsParent
        <5>2. QED
          BY <1>9, <3>3, <4>2, <5>1, PrefixOrder
      <4>4. IsPrefix(n, last)
        BY <3>12, <4>1, <4>2, <4>3 DEF IsParent
      <4>5. QED
        BY <1>13, <3>12, <4>4
    <3>13. m.path = {n \in N : IsPrefix(from, n) /\ IsPrefix(n, c)}
      <4>1. \A n \in W : IsPrefix(n, c)
        BY <1>2, <1>9, <1>12, <3>3, <3>4, PrefixOrder
      <4>2. c \in N /\ IsPrefix(from, c) /\ IsPrefix(c, c)
        BY <1>2, <3>3, <3>4
      <4>3. QED
        BY <3>10, <3>12, <4>1, <4>2
    <3>14. \A n \in m.path : n = c \/ Len(n) < k
      BY <1>2, <1>6, <1>8, <1>9, <2>2, <3>10
    <3>15. QED
      BY <1>6, <3>3, <3>4, <3>5, <3>6, <3>11, <3>13, <3>14
  <2>3. QED
    BY <1>6, <1>9, <2>1, <2>2
<1>16. ASSUME NEW n \in N, NEW z \in Texts, IsPrefix(from, n), IsPrefix(z, n), IsPrefix(z, s)
       PROVE  Len(z) <= k
  <2>1. Len(z) <= Common(n, s) /\ Common(n, s) <= k /\ Common(n, s) \in 0..Len(s) /\ Len(z) \in Nat
    BY <1>4, <1>6, <1>16 DEF Texts
  <2>2. QED
    BY <1>6, <2>1
<1>17. m.matched = k /\ k \in 0..Len(s)
  BY <1>1, <1>6
<1>18. /\ e \in N /\ IsPrefix(from, e) /\ IsPrefix(Cut(s, m.matched), e) /\ m.matched <= Len(e)
       /\ m.path = {n \in N : IsPrefix(from, n) /\ IsPrefix(n, e)}
       /\ \A n \in m.path : n = e \/ Len(n) < m.matched
  BY <1>15, <1>17
<1>19. \A n \in N, z \in Texts :
         IsPrefix(from, n) /\ IsPrefix(z, n) /\ IsPrefix(z, s) => Len(z) <= m.matched
  BY <1>16, <1>17
<1>20. m.matched \in Nat /\ Len(from) <= m.matched /\ m.matched <= Len(s)
  BY <1>2, <1>7, <1>17
<1>21. QED
  BY <1>18, <1>19, <1>20 DEF MatchOf

-----------------------------------------------------------------------------
(* What the operations on a trie keep.                                     *)

LEMMA PathSet ==
  ASSUME NEW t, Forest(t), NEW P, NEW u, u = [t EXCEPT !.path = P]
  PROVE  /\ Forest(u) /\ Nodes(u) = Nodes(t) /\ u.path = P /\ u.user = t.user
         /\ \A X : Holds(t, X) => Holds(u, X)
<1>1. u = [kv |-> t.kv, state |-> t.state, user |-> t.user, path |-> P]
  BY DEF Forest, IsTrie
<1>2. u.kv = t.kv /\ u.state = t.state /\ u.user = t.user /\ u.path = P /\ IsTrie(u) /\ Nodes(u) = Nodes(t)
  BY <1>1 DEF IsTrie, Nodes
<1>3. QED
  BY <1>2 DEF Forest, Holds

LEMMA SplitKeeps ==
  ASSUME NEW t, Forest(t), Holds(t, {}), NEW n \in Nodes(t), n # Root,
         NEW at \in Nat, Edge(Nodes(t), n) < at, at < Len(n),
         NEW m, m = Cut(n, at), NEW u, u = Split(t, n, at)
  PROVE  /\ m \in Texts /\ Len(m) = at /\ IsStrictPrefix(m, n) /\ m # Root
         /\ Nodes(u) = Nodes(t) \cup {m} /\ u.path = t.path /\ u.user = t.user
         /\ Forest(u) /\ Holds(u, {})
<1> DEFINE N == Nodes(t)
           M == N \cup {m}
           a == Edge(N, n)
<1>1. /\ m \in Texts /\ Len(m) = at /\ IsStrictPrefix(m, n) /\ m # Root /\ m \notin N
      /\ Closed(M)
      /\ Edge(M, m) = a /\ Edge(M, n) = at
      /\ \A x \in N \ {n} : Edge(M, x) = Edge(N, x)
  <2>1. Closed(N)
    BY DEF Forest
  <2>2. QED
    BY <2>1, NodeSplit
<1>2. n \in Texts /\ a \in Nat /\ Len(n) \in Nat
  <2>1. N \in SUBSET Texts /\ Root \in N /\ n \in Texts /\ Len(n) \in Nat
    BY ClosedNodes DEF Forest
  <2>2. QED
    BY <2>1, ParentIs
<1>3. t.kv[n] = Snap(a, n)
  BY DEF Holds
<1>4. Head_(t.kv[n], at) = Snap(a, m) /\ Tail_(t.kv[n], at) = Snap(at, n)
  BY <1>2, <1>3, SnapHead, SnapTail
<1> DEFINE kv == With(With(t.kv, n, Snap(at, n)), m, Snap(a, m))
           st == With(t.state, m, NoState)
<1>5. u = [kv |-> kv, state |-> st, user |-> t.user, path |-> t.path]
  <2>1. u = [t EXCEPT !.kv = With(With(t.kv, n, Tail_(t.kv[n], at)), Cut(n, at), Head_(t.kv[n], at)),
                      !.state = With(t.state, Cut(n, at), NoState)]
    BY DEF Split
  <2>2. u = [t EXCEPT !.kv = kv, !.state = st]
    BY <1>4, <2>1
  <2> HIDE DEF kv, st
  <2>3. QED
    BY <2>2 DEF Forest, IsTrie
<1>6. /\ DOMAIN kv = M /\ kv[m] = Snap(a, m) /\ kv[n] = Snap(at, n)
      /\ \A x \in N \ {n} : kv[x] = t.kv[x]
  <2>1. m # n
    BY <1>1 DEF IsStrictPrefix
  <2>2. \A x \in N \ {n} : x # m /\ x # n /\ x \in DOMAIN t.kv
    BY <1>1 DEF Nodes
  <2>3. QED
    BY <2>1, <2>2 DEF With, Nodes
<1>7. DOMAIN st = M /\ st[m] = NoState /\ \A x \in N : st[x] = t.state[x]
  BY <1>1 DEF With, Forest
<1> HIDE DEF kv, st
<1>8. u.kv = kv /\ u.state = st /\ u.user = t.user /\ u.path = t.path /\ IsTrie(u) /\ Nodes(u) = M
  BY <1>5, <1>6 DEF IsTrie, Nodes
<1>9. Forest(u)
  BY <1>1, <1>7, <1>8 DEF Forest
<1>10. Holds(u, {})
  <2>1. ASSUME NEW x \in M
        PROVE  /\ st[x] \in {NoState, x}
               /\ x # Root => kv[x] = Snap(Edge(M, x), x)
    <3>1. CASE x = m
      BY <1>1, <1>6, <1>7, <3>1
    <3>2. CASE x = n
      BY <1>1, <1>6, <1>7, <3>2 DEF Holds
    <3>3. CASE x \in N \ {n}
      BY <1>1, <1>6, <1>7, <3>3 DEF Holds
    <3>4. QED
      BY <3>1, <3>2, <3>3
  <2>2. QED
    BY <1>8, <2>1 DEF Holds
<1>11. QED
  BY <1>1, <1>8, <1>9, <1>10

LEMMA AppendKeeps ==
  ASSUME NEW t, Forest(t), Holds(t, {}), NEW s \in Texts, NEW p, BranchesAt(Nodes(t), s, p), NEW u, u = Append_(t, s)
  PROVE  /\ Nodes(u) = Nodes(t) \cup {s} /\ u.path = t.path /\ u.user = t.user
         /\ s # Root /\ \A x \in Nodes(t) : ~IsPrefix(s, x)
         /\ Forest(u) /\ Holds(u, {s})
<1> DEFINE N == Nodes(t)
           M == N \cup {s}
           kv == With(t.kv, s, NoKV)
           st == With(t.state, s, NoState)
<1>1. /\ s \notin N /\ s # Root /\ Closed(M)
      /\ \A x \in N : ~IsPrefix(s, x) /\ Edge(M, x) = Edge(N, x)
  <2>1. Closed(N)
    BY DEF Forest
  <2>2. s \notin N /\ s # Root /\ Closed(M) /\ \A x \in N : ~IsPrefix(s, x)
    BY <2>1, NodeAdded
  <2>3. \A x \in N : Edge(M, x) = Edge(N, x)
    BY <2>2, EdgesAdded
  <2>4. QED
    BY <2>2, <2>3
<1>2. u = [kv |-> kv, state |-> st, user |-> t.user, path |-> t.path]
  BY DEF Append_, Forest, IsTrie
<1>3. DOMAIN kv = M /\ kv[s] = NoKV /\ \A x \in N : kv[x] = t.kv[x]
  BY <1>1 DEF With, Nodes
<1>4. DOMAIN st = M /\ st[s] = NoState /\ \A x \in N : st[x] = t.state[x]
  BY <1>1 DEF With, Forest
<1> HIDE DEF kv, st
<1>5. u.kv = kv /\ u.state = st /\ u.user = t.user /\ u.path = t.path /\ IsTrie(u) /\ Nodes(u) = M
  BY <1>2, <1>3 DEF IsTrie, Nodes
<1>6. Forest(u)
  BY <1>1, <1>4, <1>5 DEF Forest
<1>7. Holds(u, {s})
  <2>1. ASSUME NEW x \in M
        PROVE  /\ st[x] \in {NoState, x}
               /\ x # Root => kv[x] = Snap(Edge(M, x), x) \/ (x \in {s} /\ kv[x] = NoKV)
    <3>1. CASE x = s
      BY <1>3, <1>4, <3>1
    <3>2. CASE x \in N
      BY <1>1, <1>3, <1>4, <3>2 DEF Holds
    <3>3. QED
      BY <3>1, <3>2
  <2>2. QED
    BY <1>5, <2>1 DEF Holds
<1>8. QED
  BY <1>1, <1>5, <1>6, <1>7

\* A leaf that is not on the path is removed.
LEMMA RemoveKeeps ==
  ASSUME NEW t, Tree(t), Holds(t, {}), NEW n \in Nodes(t), n # Root, n # Frontier(t),
         Below(Nodes(t), n) = {}, NEW u, u = Removed(t, n)
  PROVE  /\ Tree(u) /\ Holds(u, {}) /\ Frontier(u) = Frontier(t)
         /\ Nodes(u) \subseteq Nodes(t)
<1> DEFINE N == Nodes(t)
           M == N \ {n}
           F == Frontier(t)
<1>1. /\ Closed(M)
      /\ \A x \in M : ~IsPrefix(n, x) /\ Edge(M, x) = Edge(N, x)
  BY LeafDropped DEF Tree, Forest
<1>2. /\ u.kv = Restrict(t.kv, M) /\ u.state = Restrict(t.state, M)
      /\ u.user = t.user \ {n} /\ u.path = t.path /\ IsTrie(u)
  BY DEF Removed, Tree, Forest, IsTrie
<1>3. Nodes(u) = M /\ DOMAIN u.state = M
  BY <1>2 DEF Restrict, Nodes
<1>4. \A x \in M : u.kv[x] = t.kv[x] /\ u.state[x] = t.state[x]
  BY <1>2 DEF Restrict
<1>5. F \in M /\ ~IsPrefix(n, F)
  BY <1>1 DEF Tree, OnPath
<1>6. Forest(u)
  BY <1>1, <1>2, <1>3 DEF Forest, Tree
<1>7. OnPath(u, F)
  BY <1>2, <1>3, <1>5 DEF OnPath, Tree
<1>8. Holds(u, {})
  BY <1>1, <1>3, <1>4 DEF Holds
<1>9. QED
  BY <1>3, <1>6, <1>7, <1>8, FrontierIs

\* A node with one child gives it its edge.
LEMMA MergeKeeps ==
  ASSUME NEW t, Tree(t), Holds(t, {}), NEW n \in Nodes(t), n # Root, n # Frontier(t),
         NEW c, Below(Nodes(t), n) = {c}, NEW u, u = Merge(t, n, c)
  PROVE  /\ Tree(u) /\ Holds(u, {}) /\ Frontier(u) = Frontier(t)
         /\ Nodes(u) \subseteq Nodes(t)
<1> DEFINE N == Nodes(t)
           M == N \ {n}
           F == Frontier(t)
<1>1. /\ c \in N /\ c # Root /\ c # n /\ IsStrictPrefix(n, c) /\ Edge(N, c) = Len(n)
      /\ Closed(M) /\ Edge(M, c) = Edge(N, n)
      /\ \A x \in M : IsPrefix(n, x) => IsPrefix(c, x)
      /\ \A x \in N \ {n, c} : Edge(M, x) = Edge(N, x)
  <2>1. Closed(N) /\ n \in N /\ Below(N, n) = {c}
    BY DEF Tree, Forest
  <2> HIDE DEF N
  <2>2. c \in N /\ c # Root /\ c # n /\ IsStrictPrefix(n, c) /\ Edge(N, c) = Len(n)
    BY <2>1 DEF Below, IsStrictPrefix
  <2>3. Closed(M)
    BY <2>1, NodeMerged
  <2>4. \A x \in M : IsPrefix(n, x) => IsPrefix(c, x)
    BY <2>1, NodeMerged
  <2>5. Edge(M, c) = Edge(N, n)
    BY <2>1, ChildEdgeMerged
  <2>6. \A x \in N \ {n, c} : Edge(M, x) = Edge(N, x)
    BY <2>1, EdgesMerged
  <2>7. QED
    BY <2>2, <2>3, <2>4, <2>5, <2>6
<1>2. N \in SUBSET Texts /\ Root \in N /\ n \in Texts /\ c \in Texts /\ F \in N /\ F \in Texts /\ F \in M
  BY <1>1, ClosedNodes DEF Tree, Forest, OnPath
<1> DEFINE kv == [t.kv EXCEPT ![c] = Joined(t.kv[n], t.kv[c])]
           P == IF n \in t.path THEN (t.path \ {n}) \cup {c} ELSE t.path
<1>3. /\ u.kv = Restrict(kv, M) /\ u.state = Restrict(t.state, M)
      /\ u.user = t.user \ {n} /\ u.path = P /\ IsTrie(u)
  <2> DEFINE v == [t EXCEPT !.kv[c] = Joined(t.kv[n], @),
                            !.path = IF n \in @ THEN (@ \ {n}) \cup {c} ELSE @]
  <2>1. t = [kv |-> t.kv, state |-> t.state, user |-> t.user, path |-> t.path]
    BY DEF Tree, Forest, IsTrie
  <2>2. v = [kv |-> kv, state |-> t.state, user |-> t.user, path |-> P]
    <3>1. v = [t EXCEPT !.kv = kv, !.path = P]
      OBVIOUS
    <3> HIDE DEF kv, P, v
    <3>2. QED
      BY <2>1, <3>1
  <2> HIDE DEF kv, P
  <2>3. v.kv = kv /\ v.state = t.state /\ v.user = t.user /\ v.path = P
    BY <2>2
  <2>4. DOMAIN v.kv = N
    BY <2>3 DEF kv, Nodes
  <2>5. u = [v EXCEPT !.kv = Restrict(@, Nodes(v) \ {n}), !.state = Restrict(@, Nodes(v) \ {n}),
                      !.user = @ \ {n}]
    BY DEF Merge, Removed
  <2>6. Nodes(v) \ {n} = M
    BY <2>4 DEF Nodes
  <2> HIDE DEF v
  <2>7. u = [kv |-> Restrict(kv, M), state |-> Restrict(t.state, M), user |-> t.user \ {n}, path |-> P]
    BY <2>2, <2>5, <2>6
  <2>8. QED
    BY <2>7 DEF IsTrie
<1>4. Nodes(u) = M /\ DOMAIN u.state = M
  BY <1>3 DEF Restrict, Nodes
<1>5. /\ u.kv[c] = Joined(t.kv[n], t.kv[c])
      /\ \A x \in M \ {c} : u.kv[x] = t.kv[x]
      /\ \A x \in M : u.state[x] = t.state[x]
  BY <1>1, <1>3 DEF Restrict, Nodes
<1>6. Joined(t.kv[n], t.kv[c]) = Snap(Edge(N, n), c)
  <2>1. t.kv[n] = Snap(Edge(N, n), n) /\ t.kv[c] = Snap(Len(n), c)
    BY <1>1 DEF Holds
  <2>2. Edge(N, n) \in Nat /\ Edge(N, n) < Len(n)
    <3>1. Len(n) \in Nat
      BY <1>2 DEF Texts
    <3>2. Edge(N, n) \in 0..(Len(n) - 1)
      BY <1>2, ParentIs
    <3>3. QED
      BY <3>1, <3>2
  <2>3. IsPrefix(n, c) /\ Len(n) < Len(c)
    BY <1>1, <1>2, PrefixOrder
  <2>4. QED
    BY <1>2, <2>1, <2>2, <2>3, SnapJoined
<1>7. P = {x \in M : IsPrefix(x, F)}
  <2>1. t.path = {x \in N : IsPrefix(x, F)}
    BY DEF Tree, OnPath
  <2>2. CASE n \in t.path
    <3>1. IsPrefix(c, F)
      BY <1>1, <1>2, <2>1, <2>2
    <3>2. QED
      BY <1>1, <2>1, <2>2, <3>1
  <2>3. CASE n \notin t.path
    BY <2>1, <2>3
  <2>4. QED
    BY <2>2, <2>3
<1> HIDE DEF kv, P
<1>8. Forest(u)
  BY <1>1, <1>3, <1>4 DEF Forest, Tree
<1>9. OnPath(u, F)
  BY <1>2, <1>3, <1>4, <1>7 DEF OnPath
<1>10. Holds(u, {})
  <2>1. ASSUME NEW x \in M
        PROVE  u.state[x] \in {NoState, x} /\ (x # Root => u.kv[x] = Snap(Edge(M, x), x))
    <3>1. CASE x = c
      BY <1>1, <1>5, <1>6, <3>1 DEF Holds
    <3>2. CASE x # c
      BY <1>1, <1>5, <3>2 DEF Holds
    <3>3. QED
      BY <3>1, <3>2
  <2>2. QED
    BY <1>4, <2>1 DEF Holds
<1>11. QED
  BY <1>4, <1>8, <1>9, <1>10, FrontierIs

\* The first node of an edge is below the nodes above it.
LEMMA EdgeAbove ==
  ASSUME NEW N \in SUBSET Texts, Root \in N, NEW n \in Texts, n # Root, NEW q \in N, IsStrictPrefix(q, n)
  PROVE  Len(q) <= Edge(N, n)
<1>1. PICK p \in N : IsParent(N, p, n) /\ Edge(N, n) = Len(p)
  BY ParentIs
<1>2. IsPrefix(q, p) /\ q \in Texts /\ p \in Texts
  BY <1>1 DEF IsParent
<1>3. QED
  BY <1>1, <1>2, PrefixOrder

\* advancePath ends at the text it is given; only its node may lack data.
Grown(t, u, s) ==
  \A x \in Nodes(u) : x \in Nodes(t) \/ x = s \/ \E y \in Nodes(t) : x = Meet(s, y)

LEMMA AdvanceKeeps ==
  ASSUME NEW t, Tree(t), Holds(t, {}), NEW s \in Texts, IsPrefix(Frontier(t), s),
         NEW u, u = Advanced(t, s)
  PROVE  /\ Tree(u) /\ Frontier(u) = s /\ Holds(u, {s}) /\ Nodes(t) \subseteq Nodes(u)
         /\ Grown(t, u, s)
<1>1. PICK m, F : m = Match(t, F, s) /\ F = Frontier(t)
  OBVIOUS
<1>2. PICK e, at : e = Longest(m.path) /\ at = m.matched
  OBVIOUS
<1>3. PICK q : q = Cut(s, at)
  OBVIOUS
<1> DEFINE N == Nodes(t)
<1>4. Forest(t) /\ F \in N /\ t.path = {n \in N : IsPrefix(n, F)} /\ IsPrefix(F, s)
  BY <1>1 DEF Tree, OnPath
<1>5. /\ N \in SUBSET Texts /\ Root \in N /\ Closed(N) /\ F \in Texts /\ Len(F) \in Nat /\ Len(s) \in Nat
      /\ \A n \in N : n \in Texts /\ Len(n) \in Nat /\ IsPrefix(n, n)
  BY <1>4, ClosedNodes DEF Forest, Texts
<1>5a. MatchOf(N, F, s, m, e)
  BY <1>1, <1>2, <1>4, MatchIs
<1>6. /\ at \in Nat /\ Len(F) <= at /\ at <= Len(s)
      /\ e \in N /\ IsPrefix(F, e) /\ IsPrefix(q, e) /\ at <= Len(e)
  BY <1>2, <1>3, <1>5a DEF MatchOf
<1>7. /\ m.path = {n \in N : IsPrefix(F, n) /\ IsPrefix(n, e)}
      /\ \A n \in m.path : n = e \/ Len(n) < at
  BY <1>2, <1>5a DEF MatchOf
<1>8. \A n \in N, z \in Texts : IsPrefix(F, n) /\ IsPrefix(z, n) /\ IsPrefix(z, s) => Len(z) <= at
  BY <1>2, <1>5a DEF MatchOf
<1>9. q \in Texts /\ Len(q) = at /\ IsPrefix(q, s) /\ IsPrefix(F, q) /\ e \in Texts /\ IsPrefix(q, q)
  <2>1. q \in Texts /\ Len(q) = at /\ IsPrefix(q, s)
    BY <1>3, <1>5, <1>6, CutPrefix
  <2>2. QED
    BY <1>4, <1>5, <1>6, <2>1, PrefixOrder
<1> DEFINE split == IF Len(e) > at THEN Split(t, e, at) ELSE t
           P == split.path \cup IF Len(e) > at THEN (m.path \ {e}) \cup {Cut(e, at)} ELSE m.path
           v == [split EXCEPT !.path = P]
<1>10. u = IF at = Len(s) THEN v ELSE [Append_(v, s) EXCEPT !.path = @ \cup {s}]
  BY <1>1, <1>2 DEF Advanced
<1>11. Forest(v) /\ OnPath(v, q) /\ Holds(v, {}) /\ N \subseteq Nodes(v) /\ Nodes(v) \subseteq N \cup {q}
  <2>1. CASE Len(e) > at
    <3>1. Cut(e, at) = q
      <4>1. at \in 0..Len(e)
        BY <1>5, <1>6
      <4>2. QED
        BY <1>6, <1>9, <4>1, CutPrefix
    <3>2. e # Root /\ IsStrictPrefix(F, e)
      BY <1>5, <1>6, <1>9, <2>1, ClosedNodes, PrefixOrder
    <3>3. Edge(N, e) < at
      <4>1. PICK p \in N : IsParent(N, p, e) /\ Edge(N, e) = Len(p)
        BY <1>5, <1>9, <3>2, ParentIs
      <4>2. IsPrefix(F, p) /\ IsPrefix(p, e) /\ p # e
        BY <1>4, <3>2, <4>1 DEF IsParent, IsStrictPrefix
      <4>3. QED
        BY <1>7, <4>1, <4>2
    <3>4. PICK w : w = Split(t, e, at)
      OBVIOUS
    <3>5. Nodes(w) = N \cup {q} /\ w.path = t.path /\ Forest(w) /\ Holds(w, {})
      BY <1>4, <1>6, <2>1, <3>1, <3>2, <3>3, <3>4, SplitKeeps
    <3>6. split = w /\ P = t.path \cup (m.path \ {e}) \cup {q}
      BY <2>1, <3>1, <3>4, <3>5
    <3>7. P = {n \in N \cup {q} : IsPrefix(n, q)}
      <4>1. \A n \in N : IsPrefix(n, F) => IsPrefix(n, q)
        BY <1>5, <1>9, PrefixOrder
      <4>2. \A n \in N : IsPrefix(n, e) /\ Len(n) < at => IsPrefix(n, q)
        BY <1>5, <1>6, <1>9, PrefixOrder
      <4>3. ASSUME NEW n \in N, IsPrefix(n, q) PROVE IsPrefix(n, F) \/ (IsPrefix(F, n) /\ IsPrefix(n, e) /\ n # e)
        <5>1. IsPrefix(n, e) /\ Len(n) <= at
          BY <1>5, <1>6, <1>9, <4>3, PrefixOrder
        <5>2. IsPrefix(n, F) \/ IsPrefix(F, n)
          BY <1>5, <1>9, <4>3, PrefixOrder
        <5>3. n # e
          BY <1>5, <1>6, <2>1, <5>1
        <5>4. QED
          BY <5>1, <5>2, <5>3
      <4>4. QED
        BY <1>4, <1>7, <1>9, <3>6, <4>1, <4>2, <4>3
    <3> HIDE DEF split, P
    <3>8. QED
      BY <3>5, <3>6, <3>7, <1>9, PathSet DEF OnPath
  <2>2. CASE ~(Len(e) > at)
    <3>1. e = q
      <4>1. Len(e) = at
        BY <1>5, <1>6, <2>2
      <4>2. QED
        BY <1>6, <1>9, <4>1, PrefixOrder
    <3>2. split = t /\ P = t.path \cup m.path
      BY <2>2
    <3>3. P = {n \in N : IsPrefix(n, q)}
      <4>1. \A n \in N : IsPrefix(n, F) => IsPrefix(n, q)
        BY <1>5, <1>9, PrefixOrder
      <4>2. \A n \in N : IsPrefix(n, q) => IsPrefix(n, F) \/ IsPrefix(F, n)
        BY <1>5, <1>9, PrefixOrder
      <4>3. QED
        BY <1>4, <1>7, <3>1, <3>2, <4>1, <4>2
    <3> HIDE DEF split, P
    <3>4. QED
      BY <1>4, <1>6, <3>1, <3>2, <3>3, PathSet DEF OnPath
  <2>3. QED
    BY <2>1, <2>2
<1> HIDE DEF v
<1>11a. q = Meet(s, e)
  <2>1. /\ Meet(s, e) \in Texts /\ IsPrefix(Meet(s, e), s) /\ IsPrefix(Meet(s, e), e)
        /\ IsPrefix(q, Meet(s, e))
    BY <1>6, <1>9, MeetIs
  <2>2. Len(Meet(s, e)) <= at
    BY <1>6, <1>8, <2>1
  <2>3. Len(q) <= Len(Meet(s, e)) /\ Len(Meet(s, e)) \in Nat
    BY <1>9, <2>1, PrefixOrder DEF Texts
  <2>4. Len(Meet(s, e)) = Len(q)
    BY <1>6, <1>9, <2>2, <2>3
  <2>5. QED
    BY <1>9, <2>1, <2>4, PrefixOrder
<1>11b. \A x \in Nodes(v) : x \in N \/ \E y \in N : x = Meet(s, y)
  BY <1>6, <1>11, <1>11a
<1>12. CASE at = Len(s)
  <2>1. q = s
    BY <1>9, <1>12, PrefixOrder
  <2>2. u = v
    BY <1>10, <1>12
  <2>3. Holds(u, {s})
    BY <1>11, <2>2 DEF Holds
  <2>4. Grown(t, u, s)
    BY <1>11b, <2>2 DEF Grown
  <2>5. QED
    BY <1>11, <2>1, <2>2, <2>3, <2>4, FrontierIs
<1>13. CASE at # Len(s)
  <2>1. PICK w : w = Append_(v, s)
    OBVIOUS
  <2>2. u = [w EXCEPT !.path = w.path \cup {s}]
    BY <1>10, <1>13, <2>1
  <2>3. BranchesAt(Nodes(v), s, q)
    <3>1. q \in Nodes(v) /\ IsStrictPrefix(q, s)
      <4>1. Len(q) < Len(s)
        BY <1>5, <1>6, <1>9, <1>13
      <4>2. QED
        BY <1>9, <1>11, <4>1, PrefixOrder DEF OnPath
    <3>2. ASSUME NEW x \in Nodes(v), NEW z \in Texts, IsPrefix(z, x), IsPrefix(z, s)
          PROVE  Len(z) <= Len(q)
      <4>1. CASE x = q
        BY <1>9, <3>2, <4>1, PrefixOrder
      <4>2. CASE x \in N
        <5>1. CASE Len(z) <= Len(F)
          BY <1>5, <1>6, <1>9, <5>1 DEF Texts
        <5>2. CASE Len(F) <= Len(z)
          <6>1. IsPrefix(F, z)
            BY <1>4, <1>5, <3>2, <5>2, PrefixOrder
          <6>2. IsPrefix(F, x)
            BY <1>5, <3>2, <4>2, <6>1, PrefixOrder
          <6>3. QED
            BY <1>8, <1>9, <3>2, <4>2, <6>2
        <5>3. QED
          BY <1>5, <5>1, <5>2 DEF Texts
      <4>3. QED
        BY <1>11, <4>1, <4>2
    <3>3. QED
      BY <3>1, <3>2 DEF BranchesAt
  <2>4. /\ Nodes(w) = Nodes(v) \cup {s} /\ w.path = v.path
        /\ Forest(w) /\ Holds(w, {s})
    BY <1>11, <2>1, <2>3, AppendKeeps
  <2>5. v.path \cup {s} = {n \in Nodes(v) \cup {s} : IsPrefix(n, s)}
    <3>1. Nodes(v) \subseteq Texts
      BY <1>5, <1>9, <1>11
    <3>2. \A n \in Nodes(v) : IsPrefix(n, q) => IsPrefix(n, s)
      BY <1>9, <3>1, PrefixOrder
    <3>3. ASSUME NEW n \in Nodes(v), IsPrefix(n, s) PROVE IsPrefix(n, q)
      <4>1. n \in Texts /\ IsPrefix(n, n)
        BY <3>1, PrefixOrder
      <4>2. Len(n) <= Len(q)
        BY <2>3, <3>3, <4>1 DEF BranchesAt
      <4>3. QED
        BY <1>9, <3>3, <4>1, <4>2, PrefixOrder
    <3>4. IsPrefix(s, s)
      BY PrefixOrder
    <3>5. QED
      BY <1>11, <3>2, <3>3, <3>4 DEF OnPath
  <2>6. Forest(u) /\ Nodes(u) = Nodes(w) /\ u.path = v.path \cup {s} /\ Holds(u, {s})
    BY <2>2, <2>4, PathSet
  <2>7. OnPath(u, s)
    BY <2>4, <2>5, <2>6 DEF OnPath
  <2>8. Grown(t, u, s)
    BY <1>11b, <2>4, <2>6 DEF Grown
  <2>9. QED
    BY <1>11, <2>4, <2>6, <2>7, <2>8, FrontierIs
<1>14. QED
  BY <1>12, <1>13

\* The path of a match, cut off at an offset, is that of the offset's text.
LEMMA TrimKeeps ==
  ASSUME NEW t, Forest(t), Holds(t, {}), NEW e \in Nodes(t),
         NEW P, P = {n \in Nodes(t) : IsPrefix(n, e)},
         NEW at \in Nat, at <= Len(e), NEW q, q = Cut(e, at), NEW u, u = Trimmed(t, P, at)
  PROVE  /\ Tree(u) /\ Holds(u, {}) /\ Frontier(u) = q
         /\ Nodes(u) \subseteq Nodes(t) \cup {q}
<1> DEFINE N == Nodes(t)
<1>1. PICK K : K = {n \in P : n = Root \/ Edge(N, n) < at}
  OBVIOUS
<1>2. PICK f : f = Longest(K)
  OBVIOUS
<1>3. u = IF Len(f) > at THEN [Split(t, f, at) EXCEPT !.path = (K \ {f}) \cup {Cut(f, at)}]
          ELSE [t EXCEPT !.path = K]
  <2>1. K = {n \in P : n = Root \/ Start(t, n) < at}
    BY <1>1, StartIsEdge
  <2>2. QED
    BY <1>2, <2>1 DEF Trimmed
<1>4. /\ N \in SUBSET Texts /\ Root \in N /\ Closed(N) /\ e \in Texts /\ Len(e) \in Nat
      /\ Root \in Texts /\ Len(Root) = 0
      /\ \A n \in N : n \in Texts /\ Len(n) \in Nat /\ IsPrefix(n, n) /\ IsPrefix(Root, n)
  BY ClosedNodes DEF Forest, Texts
<1>5. /\ q \in Texts /\ Len(q) = at /\ IsPrefix(q, e) /\ IsPrefix(q, q)
      /\ \A x \in Texts : IsPrefix(x, e) /\ Len(x) = at => x = q
  <2>1. at \in 0..Len(e)
    BY <1>4
  <2>2. QED
    BY <1>2, <1>4, <2>1, CutPrefix, PrefixOrder
<1>6. f \in K /\ \A n \in K : Len(n) <= Len(f)
  <2>1. Root \in K
    BY <1>1, <1>4
  <2>2. \A n \in K : Len(n) \in 0..Len(e)
    BY <1>1, <1>4, PrefixOrder
  <2>3. QED
    BY <1>2, <1>4, <2>1, <2>2, LongestIs
<1>7. f \in N /\ f \in Texts /\ Len(f) \in Nat /\ IsPrefix(f, e) /\ (f = Root \/ Edge(N, f) < at)
  BY <1>1, <1>4, <1>6
<1>8. ASSUME NEW n \in N, IsPrefix(n, f), n # f PROVE Len(n) < at
  <2>1. IsStrictPrefix(n, f) /\ Len(n) < Len(f)
    BY <1>4, <1>7, <1>8, PrefixOrder DEF IsStrictPrefix
  <2>2. f # Root
    BY <1>4, <2>1
  <2>3. Len(n) <= Edge(N, f) /\ Edge(N, f) \in 0..(Len(f) - 1)
    BY <1>4, <1>7, <2>1, <2>2, EdgeAbove, ParentIs
  <2>4. QED
    BY <1>4, <1>7, <2>2, <2>3
<1>9. K = {n \in N : IsPrefix(n, f)}
  <2>1. \A n \in K : IsPrefix(n, f)
    BY <1>1, <1>4, <1>6, <1>7, PrefixOrder
  <2>2. ASSUME NEW n \in N, IsPrefix(n, f) PROVE n \in K
    <3>1. CASE n = f
      BY <1>6, <3>1
    <3>2. CASE n # f
      <4>1. Len(n) < at /\ IsPrefix(n, e)
        BY <1>4, <1>7, <1>8, <2>2, <3>2, PrefixOrder
      <4>2. n = Root \/ Edge(N, n) \in 0..(Len(n) - 1)
        BY <1>4, ParentIs
      <4>3. QED
        BY <1>1, <1>4, <4>1, <4>2
    <3>3. QED
      BY <3>1, <3>2
  <2>3. QED
    BY <1>1, <2>1, <2>2
<1>10. CASE Len(f) > at
  <2>1. Cut(f, at) = q
    <3>1. at \in 0..Len(f) /\ IsPrefix(q, f)
      BY <1>4, <1>5, <1>7, <1>10, PrefixOrder
    <3>2. QED
      BY <1>5, <1>7, <3>1, CutPrefix
  <2>2. f # Root /\ Edge(N, f) < at
    BY <1>4, <1>7, <1>10
  <2>3. PICK w : w = Split(t, f, at)
    OBVIOUS
  <2>4. Nodes(w) = N \cup {q} /\ Forest(w) /\ Holds(w, {})
    BY <1>7, <1>10, <2>1, <2>2, <2>3, SplitKeeps
  <2>5. (K \ {f}) \cup {q} = {n \in N \cup {q} : IsPrefix(n, q)}
    <3>1. \A n \in N : IsPrefix(n, f) /\ n # f => IsPrefix(n, q)
      <4>1. \A n \in N : IsPrefix(n, f) => IsPrefix(n, e)
        BY <1>4, <1>7, PrefixOrder
      <4>2. QED
        BY <1>4, <1>5, <1>8, <4>1, PrefixOrder
    <3>2. ASSUME NEW n \in N, IsPrefix(n, q) PROVE IsPrefix(n, f) /\ n # f
      <4>1. IsPrefix(q, f)
        BY <1>4, <1>5, <1>7, <1>10, PrefixOrder
      <4>2. IsPrefix(n, f) /\ Len(n) <= at
        BY <1>4, <1>5, <1>7, <3>2, <4>1, PrefixOrder
      <4>3. QED
        BY <1>7, <1>10, <4>2
    <3>3. QED
      BY <1>5, <1>9, <3>1, <3>2
  <2>6. PICK Q : Q = (K \ {f}) \cup {q}
    OBVIOUS
  <2>7. u = [w EXCEPT !.path = Q]
    BY <1>3, <1>10, <2>1, <2>3, <2>6
  <2>8. Forest(u) /\ Nodes(u) = Nodes(w) /\ u.path = Q /\ Holds(u, {})
    BY <2>4, <2>7, PathSet
  <2>9. OnPath(u, q)
    BY <2>4, <2>5, <2>6, <2>8 DEF OnPath
  <2>10. QED
    BY <1>2, <2>4, <2>8, <2>9, FrontierIs
<1>11. CASE ~(Len(f) > at)
  <2>1. Len(f) = at
    <3>1. ASSUME Len(f) < at PROVE FALSE
      <4>1. IsStrictPrefix(f, e)
        BY <1>4, <1>7, <3>1, PrefixOrder
      <4>2. PICK c \in Below(N, f) : IsPrefix(c, e)
        BY <1>4, <1>7, <4>1, ChildAbove
      <4>3. c \in N /\ IsStrictPrefix(f, c) /\ Edge(N, c) = Len(f)
        BY <4>2 DEF Below
      <4>4. c \in K
        BY <1>1, <3>1, <4>2, <4>3
      <4>5. Len(f) < Len(c) /\ Len(c) <= Len(f)
        BY <1>4, <1>6, <1>7, <4>3, <4>4, PrefixOrder
      <4>6. QED
        BY <1>4, <1>7, <4>3, <4>5
    <3>2. QED
      BY <1>7, <1>11, <3>1
  <2>2. f = q
    BY <1>5, <1>7, <2>1
  <2>3. u = [t EXCEPT !.path = K]
    BY <1>3, <1>11
  <2>4. Forest(u) /\ Nodes(u) = N /\ u.path = K /\ Holds(u, {})
    BY <2>3, PathSet
  <2>5. OnPath(u, q)
    BY <1>7, <1>9, <2>2, <2>4 DEF OnPath
  <2>6. QED
    BY <1>2, <2>4, <2>5, FrontierIs
<1>12. QED
  BY <1>10, <1>11

LEMMA CompactKeeps ==
  ASSUME NEW t, Tree(t), Holds(t, {}), NEW u, u = Compacted(t)
  PROVE  /\ Tree(u) /\ Holds(u, {}) /\ Frontier(u) = Frontier(t)
         /\ Nodes(u) \subseteq Nodes(t)
<1>1. PICK n, a : n = Frontier(t) /\ a = Longest(t.path \ {n})
  OBVIOUS
<1>2. u = IF n = Root \/ a = Root \/ a \in t.user \/ Children(t, a) # {n} THEN t ELSE Merge(t, a, n)
  BY <1>1 DEF Compacted
<1>3. CASE n = Root \/ a = Root \/ a \in t.user \/ Children(t, a) # {n}
  BY <1>2, <1>3
<1>4. CASE ~(n = Root \/ a = Root \/ a \in t.user \/ Children(t, a) # {n})
  <2>1. /\ t.path = {x \in Nodes(t) : IsPrefix(x, n)} /\ Root \in Nodes(t) /\ n \in Texts /\ Len(n) \in Nat
        /\ \A x \in Nodes(t) : x \in Texts /\ Len(x) \in Nat /\ IsPrefix(Root, n)
    BY <1>1, ClosedNodes DEF Tree, Forest, OnPath
  <2>2. Root \in t.path \ {n} /\ \A x \in t.path \ {n} : Len(x) \in 0..Len(n)
    BY <1>4, <2>1, PrefixOrder
  <2>3. a \in t.path \ {n}
    BY <1>1, <2>1, <2>2, LongestIs
  <2>4. a \in Nodes(t) /\ a # n /\ a # Root /\ Below(Nodes(t), a) = {n} /\ u = Merge(t, a, n)
    BY <1>2, <1>4, <2>1, <2>3, StartIsEdge
  <2>5. QED
    BY <1>1, <2>4, MergeKeeps
<1>5. QED
  BY <1>3, <1>4

LEMMA EvictKeeps ==
  ASSUME NEW t, Tree(t), Holds(t, {}), NEW n \in Nodes(t), n # Root, n # Frontier(t),
         Cardinality(Children(t, n)) <= 1,
         NEW u, u = IF Children(t, n) = {} THEN Removed(t, n)
                    ELSE Merge(t, n, CHOOSE c \in Children(t, n) : TRUE)
  PROVE  /\ Tree(u) /\ Holds(u, {}) /\ Frontier(u) = Frontier(t)
         /\ Nodes(u) \subseteq Nodes(t)
<1>1. PICK C : C = Below(Nodes(t), n) /\ C = Children(t, n)
  BY StartIsEdge
<1>2. CASE C = {}
  BY <1>1, <1>2, RemoveKeeps
<1>3. CASE C # {}
  <2>1. IsFiniteSet(C)
    <3>1. C \subseteq Nodes(t) /\ IsFiniteSet(Nodes(t))
      BY <1>1 DEF Below, Tree, Forest, Closed
    <3>2. QED
      BY <3>1, FS_Subset
  <2>2. Cardinality(C) = 1
    <3>1. Cardinality(C) \in Nat /\ Cardinality(C) # 0
      BY <1>3, <2>1, FS_CardinalityType, FS_EmptySet
    <3>2. QED
      BY <1>1, <3>1
  <2>3. PICK d : C = {d}
    BY <2>1, <2>2, FS_Singleton
  <2>4. u = Merge(t, n, d)
    BY <1>1, <2>3
  <2>5. Below(Nodes(t), n) = {d}
    BY <1>1, <2>3
  <2>6. QED
    BY <2>4, <2>5, MergeKeeps
<1>4. QED
  BY <1>2, <1>3

-----------------------------------------------------------------------------
(* The session.                                                            *)

\* Live caches after a text.
Full(s) == [kv |-> History(s), rec |-> s]

\* Where the session is, an eviction counted as the step that comes after it.
Phase == IF pc = "evict" THEN ret ELSE pc

Control ==
  /\ pc \in {"idle", "page", "evict", "schedule", "prefill", "attach", "decode", "close", "compact"}
  /\ pc = "evict" => ret \in {"schedule", "decode", "close", "compact"}
  /\ pc = "attach" => ret \in {"decode", "close"}

InHand ==
  /\ prompt \in Prompts \cup {NoPrompt} /\ outputs \in Texts
  /\ reuse \in 0..Len(prompt.tokens)

\* Between requests the caches are at the end of the path.
Resting == pc = "idle" => live = Full(Frontier(trie))

\* While a request is paged in, the caches hold its beginning, the recurrent one
\* no more than the other; and the nodes that are done are in them.
Paging ==
  pc = "page" =>
    /\ prompt \in Prompts
    /\ \E k, r \in 0..Matched.matched :
         r <= k /\ live = [kv |-> History(Cut(prompt.tokens, k)), rec |-> Cut(prompt.tokens, r)]
    /\ todo \subseteq Matched.path
    /\ \A n \in Matched.path \ todo :
         /\ Lesser(Len(n), Matched.matched) <= Len(live.kv)
         /\ trie.state[n] = n /\ Len(n) <= Matched.matched => Len(n) <= Len(live.rec)

\* From then on both are at one offset of the session, not before the trie.
Running ==
  Phase \notin {"idle", "page"} =>
    /\ live.rec \in Texts /\ live = Full(live.rec) /\ IsPrefix(live.rec, Stored)
    /\ IsPrefix(Frontier(trie), live.rec)
    /\ Phase \in {"schedule", "compact"} => Frontier(trie) = live.rec

\* What is pending is ahead of the trie, and what is behind the caches of it has
\* been captured, from an offset the trie has or will have reached.
Capturing ==
  /\ DOMAIN pending \subseteq 1..Len(prompt.tokens) /\ DOMAIN captured \subseteq DOMAIN pending
  /\ Phase \notin {"schedule", "prefill", "attach"} => DOMAIN pending = {}
  /\ \A o \in DOMAIN pending :
       Len(Frontier(trie)) < o /\ (o \in DOMAIN captured <=> o <= Len(live.rec))
  /\ \A o \in DOMAIN captured : \E f \in 0..(o - 1) :
       /\ captured[o] = [kv |-> Snap(f, Cut(Stored, o)), rec |-> Cut(Stored, o)]
       /\ f <= Len(Frontier(trie)) \/ f \in DOMAIN pending
  /\ Phase = "schedule" => base = Len(live.rec)
  /\ Phase = "prefill" =>
       /\ base \in 0..Len(live.rec)
       /\ base <= Len(Frontier(trie)) \/ base \in DOMAIN captured

Inv ==
  /\ Tree(trie) /\ Holds(trie, {})
  /\ Control /\ InHand /\ Resting /\ Paging /\ Running /\ Capturing

LEMMA FullIs ==
  ASSUME NEW s \in Texts
  PROVE  /\ Full(s).kv = History(s) /\ Full(s).rec = s /\ Len(Full(s).kv) = Len(s)
         /\ Offset(Full(s)) = Len(s) /\ Len(s) \in Nat
<1>1. Len(History(s)) = Len(s) /\ Len(s) \in Nat
  BY HistoryIs DEF Texts
<1>2. Full(s).kv = History(s) /\ Full(s).rec = s
  BY DEF Full
<1>3. QED
  BY <1>1, <1>2 DEF Offset, Lesser

LEMMA PromptIs ==
  ASSUME NEW p \in Prompts \cup {NoPrompt}
  PROVE  /\ p.tokens \in Texts /\ Len(p.tokens) \in Nat
         /\ p \in Prompts => p.tokens # <<>> /\ Len(p.tokens) > 0
         /\ \A i \in p.items : i[1] \in Nat /\ i[2] \in Nat
<1>1. CASE p \in Prompts
  <2>1. p.tokens \in Seq(Int) /\ p.tokens # <<>> /\ \A i \in p.items : i[1] \in Nat /\ i[2] \in Nat
    BY <1>1, PromptsAssumption
  <2>2. QED
    BY <2>1 DEF Texts
<1>2. CASE p = NoPrompt
  <2>1. p.tokens = <<>> /\ p.items = {}
    BY <1>2 DEF NoPrompt
  <2>2. CASE p \in Prompts
    BY <1>1, <2>2
  <2>3. CASE p \notin Prompts
    BY <2>1, <2>3 DEF Texts
  <2>4. QED
    BY <2>2, <2>3
<1>3. QED
  BY <1>1, <1>2

LEMMA StoredIs ==
  ASSUME InHand
  PROVE  /\ Stored \in Texts /\ Len(Stored) = Len(prompt.tokens) + Len(outputs)
         /\ prompt.tokens \in Texts /\ Len(prompt.tokens) \in Nat /\ Len(outputs) \in Nat
         /\ Len(prompt.tokens) <= Len(Stored) /\ Len(Stored) \in Nat
<1>1. prompt.tokens \in Seq(Int) /\ outputs \in Seq(Int)
  BY PromptIs DEF InHand, Texts
<1>2. QED
  BY <1>1 DEF Stored, Texts

\* Two texts that begin a third have the same beginnings.
LEMMA CutAgree ==
  ASSUME NEW x \in Texts, NEW y \in Texts, NEW e \in Texts, IsPrefix(x, e), IsPrefix(y, e),
         NEW n \in Nat, n <= Len(x), n <= Len(y)
  PROVE  Cut(x, n) = Cut(y, n)
<1>1. Len(x) \in Nat /\ Len(y) \in Nat /\ Len(e) \in Nat /\ Len(x) <= Len(e)
  BY PrefixOrder DEF Texts
<1>2. n \in 0..Len(x) /\ n \in 0..Len(y) /\ n \in 0..Len(e)
  BY <1>1
<1>3. /\ Cut(x, n) \in Texts /\ Len(Cut(x, n)) = n /\ IsPrefix(Cut(x, n), x)
      /\ Cut(y, n) \in Texts /\ Len(Cut(y, n)) = n /\ IsPrefix(Cut(y, n), y)
  BY <1>2, CutPrefix
<1>4. IsPrefix(Cut(x, n), e) /\ IsPrefix(Cut(y, n), e)
  BY <1>3, PrefixOrder
<1>5. QED
  BY <1>2, <1>3, <1>4, CutPrefix

\* A text is the beginning of any text it begins.
LEMMA CutSelf ==
  ASSUME NEW x \in Texts, NEW e \in Texts, IsPrefix(x, e)
  PROVE  x = Cut(e, Len(x)) /\ Len(x) \in 0..Len(e)
<1>1. Len(x) \in 0..Len(e)
  BY PrefixOrder DEF Texts
<1>2. QED
  BY <1>1, CutPrefix

\* The match of a request: a path, matched to an offset of the request, such that
\* no node is deeper that may be resumed at.
BestMatchOf(N, p, m, e) ==
  /\ m.matched \in 0..Len(p.tokens)
  /\ e \in N /\ IsPrefix(Cut(p.tokens, m.matched), e) /\ m.matched <= Len(e)
  /\ m.path = {n \in N : IsPrefix(n, e)}
  /\ \A n \in m.path : n = e \/ Len(n) < m.matched

LEMMA BestMatchIs ==
  ASSUME Forest(trie), NEW p \in Prompts, NEW most \in 0..Len(p.tokens),
         NEW m, m = BestMatch(p, most), NEW e, e = Longest(m.path)
  PROVE  /\ BestMatchOf(Nodes(trie), p, m, e) /\ m.matched <= most
         /\ \A n \in Nodes(trie) :
              IsPrefix(n, Cut(p.tokens, most)) /\ ~Inside(p, Len(n)) => Len(n) <= m.matched
<1> DEFINE N == Nodes(trie)
           Found(k, y) == y.matched \in 0..k /\ BestMatchOf(N, p, y, Longest(y.path))
           Deepest(k, y) == \A n \in N : IsPrefix(n, Cut(p.tokens, k)) => Len(n) <= y.matched
<1>1. p.tokens \in Texts /\ Len(p.tokens) \in Nat /\ \A i \in p.items : i[1] \in Nat /\ i[2] \in Nat
  BY PromptIs
<1>2. /\ N \in SUBSET Texts /\ Root \in N /\ Len(Root) = 0
      /\ \A n \in N : n \in Texts /\ Len(n) \in Nat /\ IsPrefix(n, n) /\ IsPrefix(Root, n)
  BY ClosedNodes DEF Forest
<1>3. ASSUME NEW k \in 0..Len(p.tokens), NEW y, y = Match(trie, Root, Cut(p.tokens, k))
      PROVE  Found(k, y) /\ Deepest(k, y)
  <2>1. PICK s, f : s = Cut(p.tokens, k) /\ f = Longest(y.path)
    OBVIOUS
  <2>2. s \in Texts /\ Len(s) = k /\ IsPrefix(Root, s) /\ \A i \in 0..k : Cut(s, i) = Cut(p.tokens, i)
    BY <1>1, <1>3, <2>1, CutPrefix, PrefixOrder
  <2>3. MatchOf(N, Root, s, y, f)
    BY <1>2, <1>3, <2>1, <2>2, MatchIs
  <2>4. /\ y.matched \in Nat /\ y.matched <= Len(s)
        /\ f \in N /\ IsPrefix(Cut(s, y.matched), f) /\ y.matched <= Len(f)
        /\ \A n \in y.path : n = f \/ Len(n) < y.matched
    BY <2>3 DEF MatchOf
  <2>5. y.path = {n \in N : IsPrefix(Root, n) /\ IsPrefix(n, f)}
    BY <2>3 DEF MatchOf
  <2>6. \A n \in N, z \in Texts :
          IsPrefix(Root, n) /\ IsPrefix(z, n) /\ IsPrefix(z, s) => Len(z) <= y.matched
    BY <2>3 DEF MatchOf
  <2>7. y.matched \in 0..k /\ Cut(s, y.matched) = Cut(p.tokens, y.matched)
    BY <2>2, <2>4
  <2>8. y.path = {n \in N : IsPrefix(n, f)}
    BY <1>2, <2>5
  <2>9. Found(k, y)
    <3>1. y.matched \in 0..Len(p.tokens)
      BY <1>1, <2>7
    <3>2. BestMatchOf(N, p, y, f)
      BY <2>4, <2>7, <2>8, <3>1 DEF BestMatchOf
    <3>3. QED
      BY <2>1, <2>7, <3>2
  <2>10. Deepest(k, y)
    BY <1>2, <2>1, <2>6
  <2>11. QED
    BY <2>9, <2>10
<1>4. PICK z : z = Match(trie, Root, Cut(p.tokens, most))
  OBVIOUS
<1>5. Found(most, z) /\ Deepest(most, z)
  BY <1>3, <1>4
<1> HIDE DEF Found, Deepest
<1>6. ASSUME ~Inside(p, z.matched)
      PROVE  /\ \E k \in 0..most : Found(k, m)
             /\ \A n \in N : IsPrefix(n, Cut(p.tokens, most)) /\ ~Inside(p, Len(n)) => Len(n) <= m.matched
  <2>1. m = z
    BY <1>4, <1>6 DEF BestMatch
  <2>2. \A n \in N : IsPrefix(n, Cut(p.tokens, most)) => Len(n) <= m.matched
    BY <1>5, <2>1 DEF Deepest
  <2>3. QED
    BY <1>5, <2>1, <2>2
<1>7. ASSUME Inside(p, z.matched)
      PROVE  /\ \E k \in 0..most : Found(k, m)
             /\ \A n \in N : IsPrefix(n, Cut(p.tokens, most)) /\ ~Inside(p, Len(n)) => Len(n) <= m.matched
  <2>1. PICK i \in p.items : /\ i[1] < z.matched /\ z.matched < i[1] + i[2]
                             /\ Before(p, z.matched) = i[1]
    BY <1>7 DEF Inside, Before
  <2>2. PICK k : k = i[1]
    OBVIOUS
  <2>3. k \in 0..most /\ k < z.matched /\ z.matched \in 0..most /\ k \in 0..Len(p.tokens)
    BY <1>1, <1>5, <2>1, <2>2 DEF Found
  <2>4. m = Match(trie, Root, Cut(p.tokens, k))
    BY <1>4, <1>7, <2>1, <2>2 DEF BestMatch
  <2>5. Found(k, m) /\ Deepest(k, m)
    BY <1>3, <2>3, <2>4
  <2>6. ASSUME NEW n \in N, IsPrefix(n, Cut(p.tokens, most)), ~Inside(p, Len(n))
        PROVE  Len(n) <= m.matched
    <3>1. Len(n) <= z.matched
      BY <1>5, <2>6 DEF Deepest
    <3>2. Len(n) <= k
      BY <1>1, <1>2, <2>1, <2>2, <2>3, <2>6, <3>1 DEF Inside
    <3>3. IsPrefix(n, Cut(p.tokens, k))
      <4>1. /\ Cut(p.tokens, most) \in Texts /\ IsPrefix(Cut(p.tokens, most), p.tokens)
            /\ Cut(p.tokens, k) \in Texts /\ IsPrefix(Cut(p.tokens, k), p.tokens) /\ Len(Cut(p.tokens, k)) = k
        BY <1>1, <2>3, CutPrefix
      <4>2. IsPrefix(n, p.tokens)
        BY <1>1, <1>2, <2>6, <4>1, PrefixOrder
      <4>3. QED
        BY <1>1, <1>2, <3>2, <4>1, <4>2, PrefixOrder
    <3>4. QED
      BY <2>5, <3>3 DEF Deepest
  <2>7. QED
    BY <2>3, <2>5, <2>6
<1>8. PICK k \in 0..most : Found(k, m)
  BY <1>6, <1>7
<1>9. BestMatchOf(N, p, m, e) /\ m.matched <= most
  BY <1>8 DEF Found
<1>10. QED
  BY <1>6, <1>7, <1>9

LEMMA MaxReuseIs ==
  ASSUME NEW p \in Prompts
  PROVE  MaxReuse(p) \in 0..Len(p.tokens)
BY PromptIs DEF MaxReuse

\* The caches taken back to what a path and a match share.
LEMMA RewoundIs ==
  ASSUME NEW F \in Texts, NEW n \in Nat, n <= Len(F)
  PROVE  Rewound(Full(F), n) = [kv |-> History(Cut(F, n)), rec |-> IF n = Len(F) THEN F ELSE Root]
<1>1. Full(F).kv = History(F) /\ Full(F).rec = F /\ Len(Full(F).kv) = Len(F)
  BY FullIs
<1>2. Cut(History(F), n) = History(Cut(F, n))
  <2>1. n \in 0..Len(F)
    BY DEF Texts
  <2>2. QED
    BY <2>1, HistoryCut
<1>3. QED
  BY <1>1, <1>2 DEF Rewound, Root

LEMMA BeginStep ==
  ASSUME Inv, NEW p \in Prompts, Begin(p)
  PROVE  Inv'
<1>1. PICK m, F : m = BestMatch(p, MaxReuse(p)) /\ F = Frontier(trie)
  OBVIOUS
<1>2. PICK sh : sh = Longest((trie.path \cap m.path) \cup {Root})
  OBVIOUS
<1>3. PICK to : to = Lesser(Len(sh), m.matched)
  OBVIOUS
<1>4. /\ pc = "idle" /\ live' = Rewound(live, to) /\ todo' = m.path
      /\ prompt' = p /\ reuse' = MaxReuse(p) /\ outputs' = <<>>
      /\ pending' = <<>> /\ captured' = <<>> /\ pc' = "page"
      /\ scoring' = scoring /\ trie' = trie /\ base' = base /\ ret' = ret
  BY <1>1, <1>2, <1>3 DEF Begin
<1>5. Matched' = m
  BY <1>1, <1>4 DEF Matched, BestMatch
<1>6. PICK e : e = Longest(m.path)
  OBVIOUS
<1>7. Tree(trie) /\ Forest(trie) /\ OnPath(trie, F) /\ live = Full(F)
  BY <1>1, <1>4 DEF Inv, Tree, Resting
<1>8. BestMatchOf(Nodes(trie), p, m, e)
  BY <1>1, <1>6, <1>7, BestMatchIs, MaxReuseIs
<1>9. p.tokens \in Texts /\ Len(p.tokens) \in Nat
  BY PromptIs
<1>10. PICK k : k = m.matched
  OBVIOUS
<1>11. /\ k \in 0..Len(p.tokens) /\ e \in Texts /\ F \in Texts /\ Len(e) \in Nat /\ Len(F) \in Nat
       /\ IsPrefix(Cut(p.tokens, k), e) /\ k <= Len(e)
       /\ m.path = {n \in Nodes(trie) : IsPrefix(n, e)}
       /\ trie.path = {n \in Nodes(trie) : IsPrefix(n, F)}
  BY <1>7, <1>8, <1>10, ClosedNodes DEF BestMatchOf, OnPath, Forest
<1>12. sh \in Texts /\ IsPrefix(sh, e) /\ IsPrefix(sh, F) /\ Len(sh) \in Nat /\ Len(sh) <= Len(F) /\ Len(sh) <= Len(e)
  <2>1. Root \in Nodes(trie) /\ IsPrefix(Root, e) /\ IsPrefix(Root, F) /\ \A n \in Nodes(trie) : n \in Texts
    BY <1>7, <1>11, ClosedNodes, PrefixOrder DEF Forest
  <2>2. PICK S : S = (trie.path \cap m.path) \cup {Root}
    OBVIOUS
  <2>3. \A n \in S : n \in Texts /\ IsPrefix(n, e) /\ IsPrefix(n, F)
    BY <1>11, <2>1, <2>2
  <2>4. \A n \in S : Len(n) \in Nat /\ Len(n) <= Len(F) /\ Len(n) <= Len(e)
    BY <1>11, <2>3, PrefixOrder DEF Texts
  <2>5. sh \in S
    <3>1. \A n \in S : Len(n) \in 0..Len(F)
      BY <1>11, <2>4
    <3>2. QED
      BY <1>2, <1>11, <2>2, <3>1, LongestIs
  <2>6. QED
    BY <2>3, <2>4, <2>5
<1>13. to \in Nat /\ to <= Len(sh) /\ to <= k /\ to <= Len(F)
  BY <1>3, <1>10, <1>11, <1>12 DEF Lesser
<1>14. Cut(F, to) = Cut(p.tokens, to)
  <2>1. Cut(F, to) = Cut(sh, to)
    <3>1. IsPrefix(F, F)
      BY <1>11, PrefixOrder
    <3>2. QED
      BY <1>11, <1>12, <1>13, <3>1, CutAgree
  <2>2. /\ Cut(p.tokens, k) \in Texts /\ Len(Cut(p.tokens, k)) = k
        /\ \A i \in 0..k : Cut(Cut(p.tokens, k), i) = Cut(p.tokens, i)
    BY <1>9, <1>11, CutPrefix
  <2>3. Cut(sh, to) = Cut(Cut(p.tokens, k), to)
    BY <1>11, <1>12, <1>13, <2>2, CutAgree
  <2>4. to \in 0..k
    BY <1>11, <1>13
  <2>5. QED
    BY <2>1, <2>2, <2>3, <2>4
<1>15. live' = [kv |-> History(Cut(p.tokens, to)), rec |-> IF to = Len(F) THEN F ELSE Root]
  BY <1>4, <1>7, <1>11, <1>13, <1>14, RewoundIs
<1>16. \E i, r \in 0..k :
         r <= i /\ live' = [kv |-> History(Cut(p.tokens, i)), rec |-> Cut(p.tokens, r)]
  <2>1. CASE to = Len(F)
    <3>1. F = Cut(p.tokens, to)
      <4>1. IsPrefix(F, F)
        BY <1>11, PrefixOrder
      <4>2. QED
        BY <1>11, <1>14, <2>1, <4>1, CutSelf
    <3>2. to \in 0..k /\ to <= to
      BY <1>11, <1>13
    <3>3. live' = [kv |-> History(Cut(p.tokens, to)), rec |-> Cut(p.tokens, to)]
      BY <1>15, <2>1, <3>1
    <3>4. QED
      BY <3>2, <3>3
  <2>2. CASE to # Len(F)
    <3>1. Cut(p.tokens, 0) = Root
      <4>1. Root \in Texts /\ Len(Root) = 0 /\ IsPrefix(Root, p.tokens) /\ 0 \in 0..Len(p.tokens)
        BY <1>9, PrefixOrder DEF Root, Texts
      <4>2. QED
        BY <1>9, <4>1, CutPrefix
    <3>2. to \in 0..k /\ 0 \in 0..k /\ 0 <= to
      BY <1>11, <1>13
    <3>3. live' = [kv |-> History(Cut(p.tokens, to)), rec |-> Cut(p.tokens, 0)]
      BY <1>15, <2>2, <3>1
    <3>4. QED
      BY <3>2, <3>3
  <2>3. QED
    BY <2>1, <2>2
<1>17. Paging'
  <2>1. todo' \subseteq Matched'.path /\ Matched'.path \ todo' = {}
    BY <1>4, <1>5
  <2>2. \E i, r \in 0..Matched'.matched :
          r <= i /\ live' = [kv |-> History(Cut(prompt'.tokens, i)), rec |-> Cut(prompt'.tokens, r)]
    BY <1>4, <1>5, <1>10, <1>16
  <2>3. QED
    BY <1>4, <2>1, <2>2 DEF Paging
<1>18. InHand'
  BY <1>4, <1>9, MaxReuseIs DEF InHand, Texts
<1>19. Control' /\ Resting' /\ Running'
  BY <1>4 DEF Control, Resting, Running, Phase
<1>20. Capturing'
  <2>1. DOMAIN pending' = {} /\ DOMAIN captured' = {}
    BY <1>4
  <2>2. Phase' = "page"
    BY <1>4 DEF Phase
  <2>3. QED
    BY <2>1, <2>2 DEF Capturing
<1>21. (Tree(trie) /\ Holds(trie, {}))'
  BY <1>4 DEF Inv
<1>22. QED
  BY <1>17, <1>18, <1>19, <1>20, <1>21 DEF Inv

\* While a request is paged in, no range is missing between what is restored and
\* what is to be restored.
LEMMA PageInStep ==
  ASSUME Inv, PageIn
  PROVE  Inv'
<1>1. PICK m, e, k : m = Matched /\ e = Longest(m.path) /\ k = m.matched
  OBVIOUS
<1>2. PICK n : n = Shallowest(todo)
  OBVIOUS
<1> DEFINE N == Nodes(trie)
           s == trie.kv[n]
           T == Lesser(Len(n), k)
           kvWanted == s # NoKV /\ Len(live.kv) < T
           kvFails == kvWanted /\ (T > s.from + Len(s.ent) \/ Len(live.kv) < s.from)
           recWanted == trie.state[n] # NoState /\ Len(live.rec) < T
           recFails == recWanted /\ T # Len(trie.state[n])
<1>3. /\ pc = "page" /\ todo # {}
      /\ scoring' = scoring /\ trie' = trie /\ prompt' = prompt /\ reuse' = reuse
      /\ outputs' = outputs /\ pending' = pending /\ captured' = captured /\ base' = base
      /\ pc' = pc /\ ret' = ret
  BY DEF PageIn
<1>4. /\ live' = [kv |-> IF kvWanted /\ ~kvFails THEN Cut(Cut(live.kv, s.from) \o s.ent, T) ELSE live.kv,
                  rec |-> IF recWanted /\ ~kvFails /\ ~recFails THEN trie.state[n] ELSE live.rec]
      /\ todo' = IF kvFails \/ recFails THEN {} ELSE todo \ {n}
  BY <1>1, <1>2 DEF PageIn
<1> DEFINE tok == prompt.tokens
<1>5. /\ Tree(trie) /\ Forest(trie) /\ Holds(trie, {}) /\ prompt \in Prompts /\ reuse \in 0..Len(tok)
      /\ todo \subseteq m.path
      /\ \A x \in m.path \ todo :
           /\ Lesser(Len(x), k) <= Len(live.kv)
           /\ trie.state[x] = x /\ Len(x) <= k => Len(x) <= Len(live.rec)
  BY <1>1, <1>3 DEF Inv, Tree, Paging, InHand
<1>6. PICK i \in 0..k, r \in 0..k :
        r <= i /\ live = [kv |-> History(Cut(tok, i)), rec |-> Cut(tok, r)]
  BY <1>1, <1>3 DEF Inv, Paging
<1>7. BestMatchOf(N, prompt, m, e)
  BY <1>1, <1>5, BestMatchIs DEF Matched
<1>8. tok \in Texts /\ Len(tok) \in Nat
  BY <1>5, PromptIs
<1>9. /\ k \in 0..Len(tok) /\ e \in N /\ IsPrefix(Cut(tok, k), e) /\ k <= Len(e)
      /\ m.path = {x \in N : IsPrefix(x, e)}
      /\ \A x \in m.path : x = e \/ Len(x) < k
  BY <1>1, <1>7 DEF BestMatchOf
<1>10. /\ N \in SUBSET Texts /\ Root \in N /\ Len(Root) = 0 /\ e \in Texts /\ Len(e) \in Nat
       /\ \A x \in N : x \in Texts /\ Len(x) \in Nat
  BY <1>5, <1>9, ClosedNodes DEF Forest
<1>11. n \in todo /\ \A x \in todo : Len(n) <= Len(x)
  BY <1>2, <1>3, <1>5, <1>9, <1>10, ShallowestIs
<1>12. n \in N /\ n \in Texts /\ Len(n) \in Nat /\ IsPrefix(n, e) /\ (n = e \/ Len(n) < k) /\ Len(n) <= Len(e)
  BY <1>5, <1>9, <1>10, <1>11, PrefixOrder
<1>13. T \in Nat /\ T <= k /\ T <= Len(n) /\ (T = k \/ T = Len(n))
  BY <1>9, <1>12 DEF Lesser
<1> HIDE DEF T
<1>14. /\ Cut(tok, k) \in Texts /\ Len(Cut(tok, k)) = k /\ \A j \in 0..k : Cut(Cut(tok, k), j) = Cut(tok, j)
       /\ \A j \in 0..k : Cut(tok, j) \in Texts /\ Len(Cut(tok, j)) = j
  <2>1. \A j \in 0..k : j \in 0..Len(tok)
    BY <1>8, <1>9
  <2>2. QED
    BY <1>8, <1>9, <2>1, CutPrefix
<1>15. \A j \in 0..k : j <= Len(n) => Cut(n, j) = Cut(tok, j)
  <2>1. ASSUME NEW j \in 0..k, j <= Len(n) PROVE Cut(n, j) = Cut(tok, j)
    <3>1. Cut(n, j) = Cut(Cut(tok, k), j)
      BY <1>9, <1>10, <1>12, <1>14, <2>1, CutAgree
    <3>2. QED
      BY <1>14, <3>1
  <2>2. QED
    BY <2>1
<1>16. live.kv = History(Cut(tok, i)) /\ live.rec = Cut(tok, r) /\ Len(live.kv) = i /\ Len(live.rec) = r
  BY <1>6, <1>14, HistoryIs
<1> DEFINE Done(i2, r2) ==
             /\ i <= i2 /\ r <= r2 /\ r2 <= i2 /\ T <= i2
             /\ live' = [kv |-> History(Cut(tok, i2)), rec |-> Cut(tok, r2)]
             /\ trie.state[n] = n /\ Len(n) <= k => Len(n) <= r2
<1>17. /\ todo' = todo \ {n} \/ n = e
       /\ \E i2, r2 \in 0..k : Done(i2, r2)
  <2>1. CASE n = Root
    <3>1. T = 0
      BY <1>10, <1>13, <2>1
    <3>2. ~kvWanted /\ ~recWanted
      BY <1>6, <1>16, <3>1
    <3>3. live' = live /\ todo' = todo \ {n}
      <4>1. live' = [kv |-> live.kv, rec |-> live.rec] /\ todo' = todo \ {n}
        BY <1>4, <3>2
      <4>2. QED
        BY <1>6, <4>1
    <3>4. Done(i, r)
      BY <1>6, <1>10, <2>1, <3>1, <3>3
    <3>5. QED
      BY <3>3, <3>4
  <2>2. CASE n # Root
    <3>1. PICK a : a = Edge(N, n)
      OBVIOUS
    <3>2. a \in 0..(Len(n) - 1) /\ s = Snap(a, n)
      BY <1>5, <1>10, <1>12, <2>2, <3>1, ParentIs DEF Holds
    <3>3. s # NoKV /\ s.from = a /\ Len(s.ent) = Len(n) - a
      BY <1>12, <3>2, SnapIs
    <3>4. a <= i
      <4>1. PICK p \in N : IsParent(N, p, n) /\ a = Len(p)
        BY <1>10, <1>12, <2>2, <3>1, ParentIs
      <4>2. p \in Texts /\ Len(p) \in Nat /\ IsPrefix(p, n) /\ Len(p) < Len(n) /\ IsPrefix(p, e)
        BY <1>10, <1>12, <4>1, PrefixOrder DEF IsParent
      <4>3. p \in m.path \ todo /\ Len(p) < k
        BY <1>9, <1>10, <1>11, <1>12, <4>1, <4>2
      <4>4. Lesser(Len(p), k) <= i
        BY <1>5, <1>16, <4>3
      <4>5. QED
        BY <4>1, <4>2, <4>3, <4>4 DEF Lesser
    <3>5. ~kvFails
      BY <1>12, <1>13, <1>16, <3>2, <3>3, <3>4
    <3>6. PICK i2 : i2 = IF i < T THEN T ELSE i
      OBVIOUS
    <3>7. i2 \in 0..k /\ i <= i2 /\ T <= i2
      BY <1>6, <1>9, <1>13, <3>6
    <3>8. live'.kv = History(Cut(tok, i2))
      <4>1. CASE i < T
        <5>1. live'.kv = Cut(Cut(History(Cut(tok, i)), a) \o s.ent, T)
          BY <1>4, <1>16, <3>3, <3>5, <4>1
        <5>2. Cut(Cut(tok, i), a) = Cut(n, a)
          <6>1. a \in 0..k /\ a <= Len(n) /\ a \in 0..i /\ i \in 0..Len(tok)
            BY <1>6, <1>8, <1>9, <1>12, <3>2, <3>4
          <6>2. Cut(Cut(tok, i), a) = Cut(tok, a)
            BY <1>8, <6>1, CutPrefix
          <6>3. QED
            BY <1>15, <6>1, <6>2
        <5>3. a \in 0..Len(Cut(tok, i)) /\ T \in a..Len(n) /\ Cut(tok, i) \in Texts
          BY <1>6, <1>12, <1>13, <1>14, <3>2, <3>4, <4>1
        <5>4. live'.kv = History(Cut(n, T))
          BY <1>12, <3>2, <5>1, <5>2, <5>3, SnapRestored
        <5>5. T \in 0..k /\ T <= Len(n)
          BY <1>9, <1>13
        <5>6. QED
          BY <1>15, <3>6, <4>1, <5>4, <5>5
      <4>2. CASE ~(i < T)
        BY <1>4, <1>16, <3>6, <4>2
      <4>3. QED
        BY <4>1, <4>2
    <3>9. trie.state[n] \in {NoState, n} /\ n # NoState
      BY <1>5, <1>12, <2>2 DEF Holds, NoState, Root
    <3>10. CASE recWanted /\ T = Len(n)
      <4>1. live'.rec = n /\ todo' = todo \ {n}
        BY <1>4, <3>5, <3>9, <3>10
      <4>2. n = Cut(tok, T)
        <5>1. T \in 0..k /\ T <= Len(n)
          BY <1>9, <1>13
        <5>2. IsPrefix(n, n)
          BY <1>12, PrefixOrder
        <5>3. n = Cut(n, T)
          BY <1>12, <3>10, <5>2, CutSelf
        <5>4. QED
          BY <1>15, <5>1, <5>3
      <4>3. live' = [kv |-> History(Cut(tok, i2)), rec |-> Cut(tok, T)]
        <5>1. live' = [kv |-> live'.kv, rec |-> live'.rec]
          BY <1>4
        <5>2. QED
          BY <3>8, <4>1, <4>2, <5>1
      <4>4. r < T
        BY <1>16, <3>10
      <4>5. Done(i2, T) /\ T \in 0..k
        BY <1>6, <1>9, <1>13, <3>7, <3>10, <4>3, <4>4
      <4>6. QED
        BY <3>7, <4>1, <4>5
    <3>11. CASE ~recWanted
      <4>1. live'.rec = Cut(tok, r) /\ todo' = todo \ {n}
        BY <1>4, <1>16, <3>5, <3>11
      <4>2. live' = [kv |-> History(Cut(tok, i2)), rec |-> Cut(tok, r)]
        <5>1. live' = [kv |-> live'.kv, rec |-> live'.rec]
          BY <1>4
        <5>2. QED
          BY <3>8, <4>1, <5>1
      <4>3. trie.state[n] = n /\ Len(n) <= k => Len(n) <= r
        <5>1. ASSUME trie.state[n] = n, Len(n) <= k PROVE Len(n) <= r
          <6>1. T = Len(n)
            BY <1>9, <1>12, <5>1 DEF T, Lesser
          <6>2. ~(r < T)
            BY <1>16, <3>9, <3>11, <5>1
          <6>3. QED
            BY <1>6, <1>12, <6>1, <6>2
        <5>2. QED
          BY <5>1
      <4>4. Done(i2, r)
        BY <1>6, <1>9, <3>7, <4>2, <4>3
      <4>5. QED
        BY <1>6, <3>7, <4>1, <4>4
    <3>12. CASE recWanted /\ T # Len(n)
      <4>1. live'.rec = Cut(tok, r)
        BY <1>4, <1>16, <3>5, <3>9, <3>12
      <4>2. live' = [kv |-> History(Cut(tok, i2)), rec |-> Cut(tok, r)]
        <5>1. live' = [kv |-> live'.kv, rec |-> live'.rec]
          BY <1>4
        <5>2. QED
          BY <3>8, <4>1, <5>1
      <4>3. ~(Len(n) <= k) /\ n = e
        BY <1>9, <1>12, <1>13, <3>12 DEF T, Lesser
      <4>4. Done(i2, r)
        BY <1>6, <1>9, <3>7, <4>2, <4>3
      <4>5. QED
        BY <1>6, <3>7, <4>3, <4>4
    <3>13. QED
      BY <3>10, <3>11, <3>12
  <2>3. QED
    BY <2>1, <2>2
<1>18. PICK i2 \in 0..k, r2 \in 0..k : Done(i2, r2)
  BY <1>17
<1>19. Len(live'.kv) = i2 /\ Len(live'.rec) = r2
  BY <1>14, <1>18, HistoryIs
<1>20. todo' \subseteq m.path
  BY <1>4, <1>5
<1>21. ASSUME NEW x \in m.path \ todo'
       PROVE  /\ Lesser(Len(x), k) <= i2
              /\ trie.state[x] = x /\ Len(x) <= k => Len(x) <= r2
  <2>1. CASE x \notin todo
    <3>1. /\ Lesser(Len(x), k) <= i /\ Lesser(Len(x), k) \in Nat
          /\ trie.state[x] = x /\ Len(x) <= k => Len(x) <= r
      BY <1>5, <1>9, <1>10, <1>16, <2>1, <1>21 DEF Lesser
    <3>2. Len(x) \in Nat
      BY <1>9, <1>10, <1>21
    <3>3. QED
      BY <1>6, <1>9, <1>18, <3>1, <3>2
  <2>2. CASE x \in todo
    <3>1. x = n
      <4>1. CASE todo' = todo \ {n}
        BY <2>2, <4>1, <1>21
      <4>2. CASE n = e
        <5>1. IsPrefix(x, n) /\ Len(n) <= Len(x) /\ x \in Texts
          BY <1>9, <1>10, <1>11, <1>21, <2>2, <4>2
        <5>2. QED
          BY <1>12, <5>1, PrefixOrder
      <4>3. QED
        BY <1>17, <4>1, <4>2
    <3>2. QED
      BY <1>18, <3>1 DEF T
  <2>3. QED
    BY <2>1, <2>2
<1>22. Matched' = m
  BY <1>1, <1>3 DEF Matched, BestMatch
<1>23. Paging'
  <2>1. \E y, z \in 0..Matched'.matched :
          z <= y /\ live' = [kv |-> History(Cut(prompt'.tokens, y)), rec |-> Cut(prompt'.tokens, z)]
    BY <1>1, <1>3, <1>18, <1>22
  <2>2. \A x \in Matched'.path \ todo' :
          /\ Lesser(Len(x), Matched'.matched) <= Len(live'.kv)
          /\ trie'.state[x] = x /\ Len(x) <= Matched'.matched => Len(x) <= Len(live'.rec)
    BY <1>1, <1>3, <1>19, <1>21, <1>22
  <2>3. QED
    BY <1>3, <1>5, <1>20, <1>22, <2>1, <2>2 DEF Paging
<1>24. Control' /\ InHand' /\ Resting' /\ Running'
  BY <1>3 DEF Inv, Control, InHand, Resting, Running, Phase
<1>25. Capturing'
  <2>1. DOMAIN pending = {} /\ DOMAIN captured = {}
    BY <1>3 DEF Inv, Capturing, Phase
  <2>2. QED
    BY <1>3, <2>1 DEF Capturing, Phase
<1>26. (Tree(trie) /\ Holds(trie, {}))'
  BY <1>3, <1>5
<1>27. QED
  BY <1>23, <1>24, <1>25, <1>26 DEF Inv

LEMMA TokensBegin ==
  ASSUME InHand
  PROVE  /\ IsPrefix(prompt.tokens, Stored)
         /\ \A n \in 0..Len(prompt.tokens) : Cut(prompt.tokens, n) = Cut(Stored, n)
<1>1. prompt.tokens \in Texts /\ outputs \in Texts /\ Stored \in Texts /\ Len(prompt.tokens) <= Len(Stored)
      /\ Len(prompt.tokens) \in Nat /\ Len(Stored) \in Nat
  BY StoredIs DEF InHand
<1>2. \A i \in 1..Len(prompt.tokens) : prompt.tokens[i] = Stored[i]
  BY <1>1 DEF Stored, Texts
<1>3. IsPrefix(prompt.tokens, Stored)
  BY <1>1, <1>2, PrefixIs DEF Texts
<1>4. ASSUME NEW n \in 0..Len(prompt.tokens) PROVE Cut(prompt.tokens, n) = Cut(Stored, n)
  <2>1. IsPrefix(Stored, Stored) /\ n \in Nat /\ n <= Len(Stored)
    BY <1>1, PrefixOrder
  <2>2. QED
    BY <1>1, <1>3, <2>1, CutAgree
<1>5. QED
  BY <1>3, <1>4

\* Where the caches are when all is paged in.
LEMMA SwitchedAt ==
  ASSUME Inv, Switched
  PROVE  \E r \in 0..Matched.matched :
           /\ prompt \in Prompts /\ Matched.matched \in 0..Len(prompt.tokens)
           /\ Len(live.rec) = r
           /\ Offset(live) = r /\ live' = Full(Cut(prompt.tokens, r)) /\ Offset(live') = r
           /\ trie' = Trimmed(trie, Matched.path, r)
           /\ pending' = IF r < Matched.matched THEN With(<<>>, Matched.matched, FALSE) ELSE <<>>
           /\ base' = r
<1>1. PICK m, k : m = Matched /\ k = m.matched
  OBVIOUS
<1> DEFINE tok == prompt.tokens
<1>2. /\ pc = "page" /\ prompt \in Prompts /\ Forest(trie) /\ reuse \in 0..Len(tok)
  BY DEF Switched, Inv, Paging, InHand, Tree
<1>3. tok \in Texts /\ Len(tok) \in Nat
  BY <1>2, PromptIs
<1>4. k \in 0..Len(tok)
  BY <1>1, <1>2, BestMatchIs DEF BestMatchOf, Matched
<1>5. PICK i \in 0..k, r \in 0..k :
        r <= i /\ live = [kv |-> History(Cut(tok, i)), rec |-> Cut(tok, r)]
  BY <1>1, <1>2 DEF Inv, Paging
<1>6. /\ Cut(tok, i) \in Texts /\ Len(Cut(tok, i)) = i
      /\ Cut(tok, r) \in Texts /\ Len(Cut(tok, r)) = r
      /\ Cut(Cut(tok, i), r) = Cut(tok, r)
  <2>1. i \in 0..Len(tok) /\ r \in 0..Len(tok) /\ r \in 0..i
    BY <1>3, <1>4, <1>5
  <2>2. QED
    BY <1>3, <2>1, CutPrefix
<1>7. live.kv = History(Cut(tok, i)) /\ live.rec = Cut(tok, r) /\ Len(live.kv) = i /\ Len(live.rec) = r
  BY <1>5, <1>6, HistoryIs
<1>8. Offset(live) = r
  BY <1>5, <1>7 DEF Offset, Lesser
<1>9. Aligned(live) = Full(Cut(tok, r))
  <2>1. Cut(History(Cut(tok, i)), r) = History(Cut(tok, r))
    <3>1. r \in 0..Len(Cut(tok, i))
      BY <1>5, <1>6
    <3>2. QED
      BY <1>6, <3>1, HistoryCut
  <2>2. Aligned(live) = [live EXCEPT !.kv = Cut(live.kv, r)]
    BY <1>5, <1>7 DEF Aligned
  <2>3. QED
    BY <1>5, <1>7, <2>1, <2>2 DEF Full
<1>10. Offset(Full(Cut(tok, r))) = r
  BY <1>6, FullIs
<1>11. /\ live' = Full(Cut(tok, r)) /\ trie' = Trimmed(trie, m.path, r)
       /\ pending' = IF r < k THEN With(<<>>, k, FALSE) ELSE <<>>
       /\ base' = r
  BY <1>1, <1>8, <1>9, <1>10 DEF Switched
<1>12. Offset(live') = r
  BY <1>10, <1>11
<1>13. QED
  BY <1>1, <1>2, <1>4, <1>7, <1>8, <1>11, <1>12

LEMMA SwitchedStep ==
  ASSUME Inv, Switched
  PROVE  Inv' /\ Nodes(trie') \subseteq Nodes(trie) \cup {live'.rec}
<1>1. PICK m, k, e : m = Matched /\ k = m.matched /\ e = Longest(m.path)
  OBVIOUS
<1> DEFINE tok == prompt.tokens
<1>2. PICK r \in 0..k :
        /\ prompt \in Prompts /\ k \in 0..Len(tok)
        /\ live' = Full(Cut(tok, r))
        /\ trie' = Trimmed(trie, m.path, r)
        /\ pending' = IF r < k THEN With(<<>>, k, FALSE) ELSE <<>>
        /\ base' = r
  BY <1>1, SwitchedAt
<1>3. /\ pc = "page" /\ pc' = "evict" /\ ret' = "schedule"
      /\ prompt' = prompt /\ reuse' = reuse /\ outputs' = outputs /\ captured' = captured
  BY DEF Switched
<1>4. /\ Tree(trie) /\ Forest(trie) /\ Holds(trie, {}) /\ InHand /\ reuse \in 0..Len(tok)
      /\ DOMAIN captured = {}
  BY <1>3 DEF Inv, Tree, InHand, Capturing, Phase
<1>5. BestMatchOf(Nodes(trie), prompt, m, e)
  BY <1>1, <1>2, <1>4, BestMatchIs DEF Matched
<1>6. /\ e \in Nodes(trie) /\ IsPrefix(Cut(tok, k), e) /\ k <= Len(e)
      /\ m.path = {n \in Nodes(trie) : IsPrefix(n, e)}
  BY <1>1, <1>5 DEF BestMatchOf
<1>7. /\ tok \in Texts /\ Len(tok) \in Nat /\ e \in Texts /\ Len(e) \in Nat
      /\ k \in Nat /\ r \in Nat /\ r <= k /\ r \in 0..Len(tok)
  BY <1>2, <1>4, <1>6, PromptIs, ClosedNodes DEF Forest
<1>8. PICK y : y = Cut(tok, r)
  OBVIOUS
<1>9. y \in Texts /\ Len(y) = r /\ IsPrefix(y, tok) /\ Cut(e, r) = y
  <2>1. y \in Texts /\ Len(y) = r /\ IsPrefix(y, tok)
    BY <1>7, <1>8, CutPrefix
  <2>2. /\ Cut(tok, k) \in Texts /\ Len(Cut(tok, k)) = k /\ \A j \in 0..k : Cut(Cut(tok, k), j) = Cut(tok, j)
    BY <1>2, <1>7, CutPrefix
  <2>3. Cut(e, r) = Cut(Cut(tok, k), r)
    <3>1. IsPrefix(e, e) /\ r <= Len(e)
      BY <1>6, <1>7, PrefixOrder
    <3>2. QED
      BY <1>6, <1>7, <2>2, <3>1, CutAgree
  <2>4. QED
    BY <1>8, <2>1, <2>2, <2>3
<1>10. /\ Tree(trie') /\ Holds(trie', {}) /\ Frontier(trie') = y
       /\ Nodes(trie') \subseteq Nodes(trie) \cup {y}
  <2>1. r <= Len(e)
    BY <1>6, <1>7
  <2>2. PICK t, u, P : t = trie /\ u = trie' /\ P = m.path
    OBVIOUS
  <2>3. /\ Forest(t) /\ Holds(t, {}) /\ e \in Nodes(t) /\ P = {n \in Nodes(t) : IsPrefix(n, e)}
        /\ u = Trimmed(t, P, r) /\ r \in Nat /\ y = Cut(e, r)
    BY <1>2, <1>4, <1>6, <1>7, <1>9, <2>2
  <2>4. Tree(u) /\ Holds(u, {}) /\ Frontier(u) = y /\ Nodes(u) \subseteq Nodes(t) \cup {y}
    BY <2>1, <2>3, TrimKeeps
  <2>5. QED
    BY <2>2, <2>4
<1>11. live' = Full(y) /\ live'.rec = y
  BY <1>2, <1>8, <1>9, FullIs
<1>12. Phase' = "schedule"
  BY <1>3 DEF Phase
<1>13. Running'
  <2>1. Stored' = Stored /\ IsPrefix(y, Stored)
    <3>1. Stored' = Stored
      BY <1>3 DEF Stored
    <3>2. QED
      BY <1>4, <1>7, <1>9, <3>1, StoredIs, TokensBegin, PrefixOrder
  <2>2. IsPrefix(y, y)
    BY <1>9, PrefixOrder
  <2>3. QED
    BY <1>9, <1>10, <1>11, <2>1, <2>2 DEF Running
<1>14. Capturing'
  <2>1. DOMAIN captured' = {}
    BY <1>3, <1>4
  <2>2. DOMAIN pending' \subseteq 1..Len(tok) /\ \A o \in DOMAIN pending' : r < o
    <3>1. CASE r < k
      <4>1. DOMAIN pending' = {k}
        BY <1>2, <3>1 DEF With
      <4>2. k \in 1..Len(tok)
        BY <1>2, <1>7, <3>1
      <4>3. QED
        BY <3>1, <4>1, <4>2
    <3>2. CASE ~(r < k)
      BY <1>2, <3>2
    <3>3. QED
      BY <3>1, <3>2
  <2>3. \A o \in DOMAIN pending' :
          Len(Frontier(trie')) < o /\ (o \in DOMAIN captured' <=> o <= Len(live'.rec))
    BY <1>7, <1>9, <1>10, <1>11, <2>1, <2>2
  <2>4. base' = Len(live'.rec)
    BY <1>2, <1>9, <1>11
  <2>5. QED
    BY <1>3, <1>12, <2>1, <2>2, <2>3, <2>4 DEF Capturing
<1>15. Control' /\ InHand' /\ Resting' /\ Paging'
  BY <1>3, <1>4 DEF Control, InHand, Resting, Paging
<1>16. QED
  BY <1>10, <1>11, <1>13, <1>14, <1>15 DEF Inv

\* What a request resumes at.
LEMMA SwitchedDeepest ==
  ASSUME Inv, Switched
  PROVE  \A n \in Nodes(trie) :
           trie.state[n] = n /\ IsPrefix(n, Cut(prompt.tokens, reuse)) /\ ~Inside(prompt, Len(n))
             => Len(n) <= Offset(live')
<1>1. PICK m, k, e : m = Matched /\ k = m.matched /\ e = Longest(m.path)
  OBVIOUS
<1> DEFINE tok == prompt.tokens
<1>2. PICK r \in 0..k : k \in 0..Len(tok) /\ prompt \in Prompts /\ Len(live.rec) = r /\ Offset(live') = r
  BY <1>1, SwitchedAt
<1>3. /\ pc = "page" /\ todo = {} /\ Forest(trie) /\ reuse \in 0..Len(tok)
  BY DEF Switched, Inv, Tree, InHand
<1>4. /\ BestMatchOf(Nodes(trie), prompt, m, e)
      /\ \A n \in Nodes(trie) : IsPrefix(n, Cut(tok, reuse)) /\ ~Inside(prompt, Len(n)) => Len(n) <= k
  BY <1>1, <1>2, <1>3, BestMatchIs DEF Matched
<1>5. /\ e \in Nodes(trie) /\ IsPrefix(Cut(tok, k), e)
      /\ m.path = {n \in Nodes(trie) : IsPrefix(n, e)}
  BY <1>1, <1>4 DEF BestMatchOf
<1>6. tok \in Texts /\ e \in Texts /\ \A n \in Nodes(trie) : n \in Texts /\ Len(n) \in Nat
  BY <1>2, <1>3, <1>5, PromptIs, ClosedNodes DEF Forest
<1>7. ASSUME NEW n \in Nodes(trie), trie.state[n] = n, IsPrefix(n, Cut(tok, reuse)), ~Inside(prompt, Len(n))
      PROVE  Len(n) <= r
  <2>1. Len(n) <= k
    BY <1>4, <1>7
  <2>2. /\ Cut(tok, reuse) \in Texts /\ IsPrefix(Cut(tok, reuse), tok)
        /\ Cut(tok, k) \in Texts /\ Len(Cut(tok, k)) = k /\ IsPrefix(Cut(tok, k), tok)
    BY <1>2, <1>3, <1>6, CutPrefix
  <2>3. IsPrefix(n, tok)
    BY <1>6, <1>7, <2>2, PrefixOrder
  <2>4. IsPrefix(n, Cut(tok, k))
    BY <1>6, <2>1, <2>2, <2>3, PrefixOrder
  <2>5. IsPrefix(n, e)
    BY <1>5, <1>6, <2>2, <2>4, PrefixOrder
  <2>6. n \in m.path \ todo
    BY <1>3, <1>5, <2>5
  <2>7. QED
    BY <1>1, <1>2, <1>3, <1>7, <2>1, <2>6 DEF Inv, Paging
<1>8. QED
  BY <1>2, <1>7

-----------------------------------------------------------------------------
(* The steps that move the session on.                                     *)

LEMMA EvictStep ==
  ASSUME Inv, NEW n \in Nodes(trie), Evict(n)
  PROVE  Inv' /\ Nodes(trie') \subseteq Nodes(trie)
<1>1. Tree(trie) /\ Holds(trie, {})
  BY DEF Inv
<1>2. n # Root /\ n # Frontier(trie) /\ Cardinality(Children(trie, n)) <= 1
  BY DEF Evict, Evictable
<1>3. /\ Tree(trie') /\ Holds(trie', {}) /\ Frontier(trie') = Frontier(trie)
      /\ Nodes(trie') \subseteq Nodes(trie)
  BY <1>1, <1>2, EvictKeeps DEF Evict
<1>4. /\ pc = "evict" /\ pc' = pc /\ ret' = ret /\ live' = live /\ prompt' = prompt
      /\ reuse' = reuse /\ outputs' = outputs /\ pending' = pending /\ captured' = captured
      /\ base' = base
  BY DEF Evict
<1>5. Phase' = Phase /\ Stored' = Stored
  BY <1>4 DEF Phase, Stored
<1>6. Control' /\ InHand' /\ Resting' /\ Paging'
  BY <1>4 DEF Inv, Control, InHand, Resting, Paging
<1>7. Running'
  BY <1>3, <1>4, <1>5 DEF Inv, Running
<1>8. Capturing'
  BY <1>3, <1>4, <1>5 DEF Inv, Capturing
<1>9. QED
  BY <1>3, <1>6, <1>7, <1>8 DEF Inv

\* A step that changes neither the trie nor the caches, nor where the session is.
LEMMA PhaseKept ==
  ASSUME Inv, UNCHANGED <<trie, live, prompt, reuse, outputs, pending, captured, base>>,
         Phase' = Phase, Control', Phase \notin {"idle", "page"}
  PROVE  Inv'
<1>1. Stored' = Stored
  BY DEF Stored
<1>2. pc \notin {"idle", "page"} /\ pc' \notin {"idle", "page"}
  BY DEF Inv, Control, Phase
<1>3. InHand' /\ Resting' /\ Paging'
  BY <1>2 DEF Inv, InHand, Resting, Paging
<1>4. Running'
  BY <1>1 DEF Inv, Running
<1>5. Capturing'
  BY <1>1 DEF Inv, Capturing
<1>6. QED
  BY <1>3, <1>4, <1>5 DEF Inv

LEMMA EnoughStep ==
  ASSUME Inv, Enough
  PROVE  Inv'
<1>1. pc = "evict" /\ pc' = ret /\ ret \in {"schedule", "decode", "close", "compact"} /\ ret' = "idle"
  BY DEF Enough, Inv, Control
<1>2. Phase = ret /\ Phase' = ret /\ Control'
  BY <1>1 DEF Phase, Control
<1>3. QED
  BY <1>1, <1>2, PhaseKept DEF Enough

LEMMA PrefillEndsStep ==
  ASSUME Inv, PrefillEnds
  PROVE  Inv'
<1>1. /\ pc = "prefill" /\ pc' = "attach" /\ ret' \in {"decode", "close"}
      /\ UNCHANGED <<trie, live, prompt, reuse, outputs, pending, captured, base>>
  BY DEF PrefillEnds
<1>2. Phase = "prefill" /\ Phase' = "attach" /\ Control' /\ Stored' = Stored
  BY <1>1 DEF Phase, Control, Stored
<1>3. InHand' /\ Resting' /\ Paging'
  BY <1>1 DEF Inv, InHand, Resting, Paging
<1>4. Running'
  BY <1>1, <1>2 DEF Inv, Running
<1>5. Capturing'
  BY <1>1, <1>2 DEF Inv, Capturing
<1>6. QED
  BY <1>1, <1>2, <1>3, <1>4, <1>5 DEF Inv

LEMMA AttachEndsStep ==
  ASSUME Inv, AttachEnds
  PROVE  Inv'
<1>1. /\ pc = "attach" /\ pc' = "evict" /\ ret' = ret /\ ret \in {"decode", "close"}
      /\ DOMAIN pending = {}
      /\ UNCHANGED <<trie, live, prompt, reuse, outputs, pending, captured, base>>
  BY DEF AttachEnds, Inv, Control
<1>2. Phase = "attach" /\ Phase' = ret /\ Control' /\ Stored' = Stored
  BY <1>1 DEF Phase, Control, Stored
<1>3. InHand' /\ Resting' /\ Paging'
  BY <1>1 DEF Inv, InHand, Resting, Paging
<1>4. Running'
  BY <1>1, <1>2 DEF Inv, Running
<1>5. Capturing'
  BY <1>1, <1>2 DEF Inv, Capturing
<1>6. QED
  BY <1>1, <1>2, <1>3, <1>4, <1>5 DEF Inv

LEMMA DecodeEndsStep ==
  ASSUME Inv, DecodeEnds
  PROVE  Inv'
<1>1. /\ pc = "decode" /\ pc' = "close"
      /\ UNCHANGED <<trie, live, prompt, reuse, outputs, pending, captured, base>>
  BY DEF DecodeEnds, Here
<1>2. Phase = "decode" /\ Phase' = "close" /\ Control' /\ Stored' = Stored
  BY <1>1 DEF Phase, Control, Stored
<1>3. InHand' /\ Resting' /\ Paging'
  BY <1>1 DEF Inv, InHand, Resting, Paging
<1>4. Running'
  BY <1>1, <1>2 DEF Inv, Running
<1>5. Capturing'
  BY <1>1, <1>2 DEF Inv, Capturing
<1>6. QED
  BY <1>1, <1>2, <1>3, <1>4, <1>5 DEF Inv

LEMMA ScheduleStep ==
  ASSUME Inv, NEW n \in 1..Len(prompt.tokens), Schedule(n)
  PROVE  Inv'
<1>1. PICK o : o = IF Inside(prompt, n) THEN After(prompt, n) ELSE n
  OBVIOUS
<1>2. /\ pc = "schedule" /\ pc' = "prefill" /\ ret' = ret
      /\ UNCHANGED <<trie, live, prompt, reuse, outputs, captured, base>>
      /\ pending' = IF o <= base \/ o > Len(prompt.tokens) THEN pending ELSE With(pending, o, TRUE)
  BY <1>1 DEF Schedule, Here
<1>3. Phase = "schedule" /\ Phase' = "prefill" /\ Control' /\ Stored' = Stored
  BY <1>2 DEF Phase, Control, Stored
<1>4. /\ live.rec \in Texts /\ Len(live.rec) \in Nat /\ base = Len(live.rec)
      /\ Frontier(trie) = live.rec /\ Len(prompt.tokens) \in Nat
  <2>1. prompt \in Prompts \cup {NoPrompt}
    BY DEF Inv, InHand
  <2>2. live.rec \in Texts /\ base = Len(live.rec) /\ Frontier(trie) = live.rec
    BY <1>3 DEF Inv, Running, Capturing
  <2>3. QED
    BY <2>1, <2>2, PromptIs DEF Texts
<1>5. o \in Nat
  <2>1. CASE Inside(prompt, n)
    <3>1. PICK i \in prompt.items : After(prompt, n) = i[1] + i[2]
      BY <2>1 DEF Inside, After
    <3>2. prompt \in Prompts \cup {NoPrompt}
      BY DEF Inv, InHand
    <3>3. i[1] \in Nat /\ i[2] \in Nat
      BY <3>2, PromptIs
    <3>4. QED
      BY <1>1, <2>1, <3>1, <3>3
  <2>2. CASE ~Inside(prompt, n)
    BY <1>1, <1>4, <2>2
  <2>3. QED
    BY <2>1, <2>2
<1>6. InHand' /\ Resting' /\ Paging'
  BY <1>2 DEF Inv, InHand, Resting, Paging
<1>7. Running'
  BY <1>2, <1>3 DEF Inv, Running
<1>8. /\ DOMAIN pending \subseteq DOMAIN pending'
      /\ DOMAIN pending' \subseteq DOMAIN pending \cup {x \in {o} : base < o /\ o <= Len(prompt.tokens)}
  <2>1. CASE o <= base \/ o > Len(prompt.tokens)
    BY <1>2, <2>1
  <2>2. CASE ~(o <= base \/ o > Len(prompt.tokens))
    <3>1. DOMAIN pending' = DOMAIN pending \cup {o}
      BY <1>2, <2>2 DEF With
    <3>2. base < o /\ o <= Len(prompt.tokens)
      BY <1>4, <1>5, <2>2
    <3>3. QED
      BY <3>1, <3>2
  <2>3. QED
    BY <2>1, <2>2
<1>9. Capturing
  BY DEF Inv
<1>10. /\ DOMAIN pending' \subseteq 1..Len(prompt'.tokens) /\ DOMAIN captured' \subseteq DOMAIN pending'
       /\ Phase' \notin {"schedule", "prefill", "attach"} => DOMAIN pending' = {}
  <2>1. DOMAIN pending' \subseteq 1..Len(prompt.tokens)
    <3>1. \A x \in {y \in {o} : base < o /\ o <= Len(prompt.tokens)} : x \in 1..Len(prompt.tokens)
      BY <1>4, <1>5
    <3>2. QED
      BY <1>8, <1>9, <3>1 DEF Capturing
  <2>2. QED
    BY <1>2, <1>3, <1>8, <1>9, <2>1 DEF Capturing
<1>11. \A x \in DOMAIN pending' :
         Len(Frontier(trie')) < x /\ (x \in DOMAIN captured' <=> x <= Len(live'.rec))
  <2>1. ASSUME NEW x \in DOMAIN pending
        PROVE  Len(Frontier(trie)) < x /\ (x \in DOMAIN captured <=> x <= Len(live.rec))
    BY <1>9, <2>1 DEF Capturing
  <2>2. ASSUME NEW x \in {o}, base < o, x \notin DOMAIN pending
        PROVE  Len(Frontier(trie)) < x /\ (x \in DOMAIN captured <=> x <= Len(live.rec))
    <3>1. x \notin DOMAIN captured
      BY <1>9, <2>2 DEF Capturing
    <3>2. QED
      BY <1>4, <1>5, <2>2, <3>1
  <2>3. QED
    BY <1>2, <1>8, <2>1, <2>2
<1>12. \A x \in DOMAIN captured' : \E f \in 0..(x - 1) :
         /\ captured'[x] = [kv |-> Snap(f, Cut(Stored', x)), rec |-> Cut(Stored', x)]
         /\ f <= Len(Frontier(trie')) \/ f \in DOMAIN pending'
  BY <1>2, <1>3, <1>8, <1>9 DEF Capturing
<1>13. Capturing'
  <2>1. base' \in 0..Len(live'.rec) /\ base' <= Len(Frontier(trie'))
    BY <1>2, <1>4
  <2>2. QED
    BY <1>3, <1>10, <1>11, <1>12, <2>1 DEF Capturing
<1>14. QED
  BY <1>2, <1>3, <1>6, <1>7, <1>13 DEF Inv

-----------------------------------------------------------------------------
(* Forwards.                                                               *)

LEMMA TextsEqual ==
  ASSUME NEW e \in Texts, NEW f \in Texts, Len(e) = Len(f),
         \A i \in 1..Len(e) : e[i] = f[i]
  PROVE  e = f
BY SeqEqual DEF Texts

\* A forward brings a text that s begins with up to an offset of s.
LEMMA ForwardIs ==
  ASSUME NEW s \in Texts, NEW x \in Texts, IsPrefix(x, s), NEW to \in Len(x)..Len(s)
  PROVE  /\ x \o SubSeq(s, Len(x) + 1, to) = Cut(s, to)
         /\ History(x) \o [i \in 1..(to - Len(x)) |-> Cut(s, Len(x) + i)] = History(Cut(s, to))
<1>1. Len(x) \in Nat /\ Len(s) \in Nat /\ to \in Nat /\ to \in 0..Len(s)
  BY DEF Texts
<1>2. /\ Cut(s, to) \in Texts /\ Len(Cut(s, to)) = to
      /\ \A m \in 0..to : Cut(Cut(s, to), m) = Cut(s, m)
  BY <1>1, CutPrefix
<1>3. \A i \in 1..to : Cut(s, to)[i] = s[i]
  BY <1>1, CutIs DEF Texts
<1>4. \A i \in 1..Len(x) : x[i] = s[i]
  BY PrefixIs DEF Texts
<1>5. x \o SubSeq(s, Len(x) + 1, to) = Cut(s, to)
  <2>1. PICK y : y = SubSeq(s, Len(x) + 1, to)
    OBVIOUS
  <2>2. /\ y \in Texts /\ Len(y) = to - Len(x)
        /\ \A i \in 1..(to - Len(x)) : y[i] = s[Len(x) + i]
    BY <1>1, <2>1 DEF Texts
  <2>3. x \o y \in Texts /\ Len(x \o y) = to
    BY <1>1, <2>2 DEF Texts
  <2>4. ASSUME NEW i \in 1..to PROVE (x \o y)[i] = Cut(s, to)[i]
    <3>1. CASE i <= Len(x)
      <4>1. (x \o y)[i] = x[i]
        BY <1>1, <2>2, <3>1 DEF Texts
      <4>2. QED
        BY <1>1, <1>3, <1>4, <3>1, <4>1
    <3>2. CASE i > Len(x)
      <4>1. (x \o y)[i] = y[i - Len(x)]
        BY <1>1, <2>2, <3>2 DEF Texts
      <4>2. i - Len(x) \in 1..(to - Len(x)) /\ Len(x) + (i - Len(x)) = i
        BY <1>1, <3>2
      <4>3. QED
        BY <1>3, <2>2, <4>1, <4>2
    <3>3. i <= Len(x) \/ i > Len(x)
      BY <1>1
    <3>4. QED
      BY <3>1, <3>2, <3>3
  <2>5. QED
    BY <1>2, <2>1, <2>3, <2>4, TextsEqual
<1>6. History(x) \o [i \in 1..(to - Len(x)) |-> Cut(s, Len(x) + i)] = History(Cut(s, to))
  <2>1. PICK y : y = [i \in 1..(to - Len(x)) |-> Cut(s, Len(x) + i)]
    OBVIOUS
  <2>2. \A i \in 1..(to - Len(x)) : Cut(s, Len(x) + i) \in Texts
    <3>1. \A i \in 1..(to - Len(x)) : Len(x) + i \in 0..Len(s)
      BY <1>1
    <3>2. QED
      BY <3>1, CutPrefix
  <2>3. /\ y \in Seq(Texts) /\ Len(y) = to - Len(x)
        /\ \A i \in 1..(to - Len(x)) : y[i] = Cut(s, Len(x) + i)
    <3>1. to - Len(x) \in Nat
      BY <1>1
    <3>2. QED
      BY <2>1, <2>2, <3>1
  <2>4. /\ History(x) \in Seq(Texts) /\ Len(History(x)) = Len(x)
        /\ \A i \in 1..Len(x) : History(x)[i] = Cut(x, i)
    BY HistoryIs
  <2>5. /\ History(Cut(s, to)) \in Seq(Texts) /\ Len(History(Cut(s, to))) = to
        /\ \A i \in 1..to : History(Cut(s, to))[i] = Cut(s, i)
    <3>1. /\ History(Cut(s, to)) \in Seq(Texts) /\ Len(History(Cut(s, to))) = to
          /\ \A i \in 1..to : History(Cut(s, to))[i] = Cut(Cut(s, to), i)
      BY <1>2, HistoryIs
    <3>2. QED
      BY <1>2, <3>1
  <2>6. History(x) \o y \in Seq(Texts) /\ Len(History(x) \o y) = to
    BY <1>1, <2>3, <2>4
  <2>7. ASSUME NEW i \in 1..to PROVE (History(x) \o y)[i] = History(Cut(s, to))[i]
    <3>1. CASE i <= Len(x)
      <4>1. (History(x) \o y)[i] = History(x)[i]
        BY <1>1, <2>3, <2>4, <3>1
      <4>2. Cut(x, i) = Cut(s, i)
        <5>1. x = Cut(s, Len(x)) /\ Len(x) \in 0..Len(s)
          BY CutSelf
        <5>2. \A m \in 0..Len(x) : Cut(Cut(s, Len(x)), m) = Cut(s, m)
          BY <5>1, CutPrefix
        <5>3. i \in 0..Len(x)
          BY <1>1, <3>1
        <5>4. QED
          BY <5>1, <5>2, <5>3
      <4>3. QED
        BY <1>1, <2>4, <2>5, <3>1, <4>1, <4>2
    <3>2. CASE i > Len(x)
      <4>1. (History(x) \o y)[i] = y[i - Len(x)]
        BY <1>1, <2>3, <2>4, <3>2
      <4>2. i - Len(x) \in 1..(to - Len(x)) /\ Len(x) + (i - Len(x)) = i
        BY <1>1, <3>2
      <4>3. QED
        BY <2>3, <2>5, <4>1, <4>2
    <3>3. i <= Len(x) \/ i > Len(x)
      BY <1>1
    <3>4. QED
      BY <3>1, <3>2, <3>3
  <2>8. QED
    BY <2>1, <2>5, <2>6, <2>7, EntriesEqual
<1>7. QED
  BY <1>5, <1>6

\* What a forward leaves in caches that held the beginning of the session.
LEMMA ForwardTo ==
  ASSUME InHand, live.rec \in Texts, live = Full(live.rec), IsPrefix(live.rec, Stored),
         NEW to \in Nat, Offset(live) <= to, Forward(to)
  PROVE  /\ to <= Len(Stored) /\ live' = Full(Cut(Stored, to))
         /\ Cut(Stored, to) \in Texts /\ Len(Cut(Stored, to)) = to
         /\ IsPrefix(Cut(Stored, to), Stored) /\ IsPrefix(live.rec, Cut(Stored, to))
<1>1. Stored \in Texts /\ Len(Stored) \in Nat
  BY StoredIs
<1>2. PICK x : x = live.rec
  OBVIOUS
<1>3. /\ x \in Texts /\ Len(x) \in Nat /\ live.kv = History(x) /\ Len(live.kv) = Len(x)
      /\ Offset(live) = Len(x)
  <2>1. Offset(Full(x)) = Len(x) /\ Full(x).kv = History(x) /\ Len(Full(x).kv) = Len(x) /\ Len(x) \in Nat
    BY <1>2, FullIs
  <2>2. QED
    BY <1>2, <2>1
<1>4. to \in Len(x)..Len(Stored) /\ to \in 0..Len(Stored)
  BY <1>1, <1>3 DEF Forward
<1>5. /\ x \o SubSeq(Stored, Len(x) + 1, to) = Cut(Stored, to)
      /\ History(x) \o [i \in 1..(to - Len(x)) |-> Cut(Stored, Len(x) + i)] = History(Cut(Stored, to))
  BY <1>1, <1>2, <1>3, <1>4, ForwardIs
<1>6. live' = [kv |-> History(x) \o [i \in 1..(to - Len(x)) |-> Cut(Stored, Len(x) + i)],
               rec |-> x \o SubSeq(Stored, Len(x) + 1, to)]
  BY <1>2, <1>3 DEF Forward
<1>7. live' = Full(Cut(Stored, to))
  BY <1>5, <1>6 DEF Full
<1>8. Cut(Stored, to) \in Texts /\ Len(Cut(Stored, to)) = to /\ IsPrefix(Cut(Stored, to), Stored)
  BY <1>1, <1>4, CutPrefix
<1>9. IsPrefix(x, Cut(Stored, to))
  BY <1>1, <1>2, <1>3, <1>4, <1>8, PrefixOrder
<1>10. QED
  BY <1>2, <1>4, <1>7, <1>8, <1>9

LEMMA SeedStep ==
  ASSUME Inv, Seed
  PROVE  Inv'
<1>1. /\ pc = "decode" /\ pc' = "decode" /\ Offset(live) < Len(Stored) /\ Forward(Len(Stored))
      /\ UNCHANGED <<scoring, trie, prompt, reuse, outputs, pending, captured, base, ret>>
  BY DEF Seed, Here
<1>2. Phase = "decode" /\ Phase' = "decode" /\ Control' /\ Stored' = Stored
  BY <1>1 DEF Phase, Control, Stored
<1>3. /\ InHand /\ live.rec \in Texts /\ live = Full(live.rec) /\ IsPrefix(live.rec, Stored)
      /\ IsPrefix(Frontier(trie), live.rec) /\ Tree(trie) /\ DOMAIN pending = {} /\ DOMAIN captured = {}
  BY <1>2 DEF Inv, Running, Capturing
<1>4. Stored \in Texts /\ Len(Stored) \in Nat
  BY <1>3, StoredIs
<1>5. Offset(live) = Len(live.rec) /\ Len(live.rec) \in Nat
  <2>1. Offset(Full(live.rec)) = Len(live.rec) /\ Len(live.rec) \in Nat
    BY <1>3, FullIs
  <2>2. QED
    BY <1>3, <2>1
<1>6. PICK y : y = Cut(Stored, Len(Stored))
  OBVIOUS
<1>7. /\ live' = Full(y) /\ y \in Texts
      /\ IsPrefix(y, Stored) /\ IsPrefix(live.rec, y)
  BY <1>1, <1>3, <1>4, <1>5, <1>6, ForwardTo
<1>8. live'.rec = y
  BY <1>7, FullIs
<1>9. IsPrefix(Frontier(trie), y)
  <2>1. Frontier(trie) \in Texts
    BY <1>3, ClosedNodes DEF Tree, Forest, OnPath
  <2>2. QED
    BY <1>3, <1>7, <2>1, PrefixOrder
<1>10. Running'
  BY <1>1, <1>2, <1>7, <1>8, <1>9 DEF Running
<1>11. Capturing'
  BY <1>1, <1>2, <1>3 DEF Inv, Capturing
<1>12. Tree(trie') /\ Holds(trie', {}) /\ InHand' /\ Resting' /\ Paging'
  BY <1>1 DEF Inv, InHand, Resting, Paging
<1>13. QED
  BY <1>2, <1>10, <1>11, <1>12 DEF Inv

LEMMA HistoryGrows ==
  ASSUME NEW s \in Texts, NEW tok \in Int
  PROVE  /\ Append(s, tok) \in Texts /\ Len(Append(s, tok)) = Len(s) + 1
         /\ IsPrefix(s, Append(s, tok))
         /\ Append(History(s), Append(s, tok)) = History(Append(s, tok))
<1>1. PICK z : z = Append(s, tok)
  OBVIOUS
<1>2. /\ z \in Texts /\ Len(z) = Len(s) + 1 /\ Len(s) \in Nat
      /\ \A i \in 1..Len(s) : z[i] = s[i]
  BY <1>1 DEF Texts
<1>3. IsPrefix(s, z)
  BY <1>2, PrefixIs DEF Texts
<1>4. /\ History(s) \in Seq(Texts) /\ Len(History(s)) = Len(s)
      /\ \A i \in 1..Len(s) : History(s)[i] = Cut(s, i)
  BY HistoryIs
<1>5. /\ History(z) \in Seq(Texts) /\ Len(History(z)) = Len(z)
      /\ \A i \in 1..Len(z) : History(z)[i] = Cut(z, i)
  BY <1>2, HistoryIs
<1>6. PICK e : e = Append(History(s), z)
  OBVIOUS
<1>7. /\ e \in Seq(Texts) /\ Len(e) = Len(z)
      /\ \A i \in 1..Len(s) : e[i] = History(s)[i]
      /\ e[Len(z)] = z
  BY <1>2, <1>4, <1>6
<1>8. ASSUME NEW i \in 1..Len(z) PROVE e[i] = History(z)[i]
  <2>1. CASE i = Len(z)
    <3>1. z = Cut(z, Len(z))
      BY <1>2, PrefixOrder, CutSelf
    <3>2. QED
      BY <1>5, <1>7, <2>1, <3>1
  <2>2. CASE i # Len(z)
    <3>1. i \in 1..Len(s) /\ i \in 0..Len(s)
      BY <1>2, <2>2
    <3>2. s = Cut(z, Len(s)) /\ Len(s) \in 0..Len(z)
      BY <1>2, <1>3, CutSelf
    <3>3. \A m \in 0..Len(s) : Cut(Cut(z, Len(s)), m) = Cut(z, m)
      BY <1>2, <3>2, CutPrefix
    <3>4. Cut(s, i) = Cut(z, i)
      BY <3>1, <3>2, <3>3
    <3>5. QED
      BY <1>4, <1>5, <1>7, <3>1, <3>4
  <2>3. QED
    BY <2>1, <2>2
<1>9. e = History(z)
  BY <1>5, <1>7, <1>8, EntriesEqual
<1>10. QED
  BY <1>1, <1>2, <1>3, <1>6, <1>9

LEMMA FrontierText ==
  ASSUME NEW t, Tree(t)
  PROVE  Frontier(t) \in Texts /\ Len(Frontier(t)) \in Nat
BY ClosedNodes DEF Tree, Forest, OnPath

LEMMA GroupedConcat ==
  \A a, b, c \in Seq(Int) : (a \o b) \o c = a \o (b \o c)
<1>1. ASSUME NEW a \in Seq(Int), NEW b \in Seq(Int), NEW c \in Seq(Int)
      PROVE  (a \o b) \o c = a \o (b \o c)
  <2>1. /\ (a \o b) \o c \in Seq(Int) /\ a \o (b \o c) \in Seq(Int)
        /\ Len((a \o b) \o c) = Len(a \o (b \o c))
        /\ \A i \in 1..Len((a \o b) \o c) : ((a \o b) \o c)[i] = (a \o (b \o c))[i]
    OBVIOUS
  <2>2. QED
    BY <2>1, SeqEqual
<1>2. QED
  BY <1>1

LEMMA DecodeStep ==
  ASSUME Inv, NEW tok \in Generated, Decode(tok)
  PROVE  Inv'
<1>1. /\ pc = "decode" /\ pc' = "decode" /\ Offset(live) = Len(Stored)
      /\ outputs' = Append(outputs, tok)
      /\ live' = [kv |-> Append(live.kv, Append(Stored, tok)), rec |-> Append(live.rec, tok)]
      /\ UNCHANGED <<scoring, trie, prompt, reuse, pending, captured, base, ret>>
  BY DEF Decode, Here
<1>2. Phase = "decode" /\ Phase' = "decode" /\ Control'
  BY <1>1 DEF Phase, Control
<1>3. /\ InHand /\ live.rec \in Texts /\ live = Full(live.rec) /\ IsPrefix(live.rec, Stored)
      /\ IsPrefix(Frontier(trie), live.rec) /\ Tree(trie) /\ DOMAIN pending = {} /\ DOMAIN captured = {}
  BY <1>2 DEF Inv, Running, Capturing
<1>4. Stored \in Texts /\ Len(Stored) \in Nat
  BY <1>3, StoredIs
<1>5. tok \in Int
  BY PromptsAssumption
<1>6. Offset(live) = Len(live.rec) /\ live.kv = History(live.rec)
  <2>1. Offset(Full(live.rec)) = Len(live.rec) /\ Full(live.rec).kv = History(live.rec)
    BY <1>3, FullIs
  <2>2. QED
    BY <1>3, <2>1
<1>7. live.rec = Stored
  <2>1. Len(live.rec) = Len(Stored)
    BY <1>1, <1>6
  <2>2. QED
    BY <1>3, <1>4, <2>1, PrefixOrder
<1>8. PICK y : y = Append(Stored, tok)
  OBVIOUS
<1>9. y \in Texts /\ IsPrefix(Stored, y) /\ Append(History(Stored), y) = History(y)
  BY <1>4, <1>5, <1>8, HistoryGrows
<1>10. live' = Full(y) /\ live'.rec = y
  <2>1. live' = Full(y)
    BY <1>1, <1>6, <1>7, <1>8, <1>9 DEF Full
  <2>2. QED
    BY <1>9, <2>1, FullIs
<1>11. Stored' = y /\ outputs' \in Texts
  <2>1. prompt.tokens \in Texts /\ outputs \in Texts
    BY <1>3, StoredIs DEF InHand
  <2>2. prompt.tokens \o Append(outputs, tok) = Append(prompt.tokens \o outputs, tok)
    <3>1. Append(outputs, tok) = outputs \o <<tok>> /\ <<tok>> \in Seq(Int)
      BY <1>5, <2>1, AppendIsConcat DEF Texts
    <3>2. Append(prompt.tokens \o outputs, tok) = (prompt.tokens \o outputs) \o <<tok>>
      <4>1. prompt.tokens \o outputs \in Seq(Int)
        BY <1>4 DEF Stored, Texts
      <4>2. QED
        BY <1>5, <4>1, AppendIsConcat
    <3>3. (prompt.tokens \o outputs) \o <<tok>> = prompt.tokens \o (outputs \o <<tok>>)
      <4>1. prompt.tokens \in Seq(Int) /\ outputs \in Seq(Int)
        BY <2>1 DEF Texts
      <4>2. QED
        BY <4>1, <3>1, GroupedConcat
    <3>4. QED
      BY <3>1, <3>2, <3>3
  <2>3. outputs' \in Texts
    BY <1>1, <1>5, <2>1, HistoryGrows
  <2>4. QED
    BY <1>1, <1>8, <2>2, <2>3 DEF Stored
<1>12. IsPrefix(Frontier(trie), y) /\ IsPrefix(y, y)
  BY <1>3, <1>4, <1>7, <1>9, FrontierText, PrefixOrder
<1>13. Running'
  BY <1>1, <1>2, <1>9, <1>10, <1>11, <1>12 DEF Running
<1>14. Capturing'
  BY <1>1, <1>2, <1>3 DEF Inv, Capturing
<1>15. Tree(trie') /\ Holds(trie', {}) /\ InHand' /\ Resting' /\ Paging'
  BY <1>1, <1>11 DEF Inv, InHand, Resting, Paging
<1>16. QED
  BY <1>2, <1>13, <1>14, <1>15 DEF Inv

-----------------------------------------------------------------------------
(* The end of a session.                                                   *)

\* The node where it holds nothing yet is given what was read.
Given(t, s, v) ==
  [t EXCEPT !.kv[s] = IF @ # NoKV THEN @ ELSE v,
            !.state[s] = IF @ # NoState THEN @ ELSE s]

LEMMA HeldKeeps ==
  ASSUME NEW t, Tree(t), NEW s, s = Frontier(t), s # Root, Holds(t, {s}),
         NEW v, v = Snap(Edge(Nodes(t), s), s),
         NEW u, u = Given(t, s, v)
  PROVE  Tree(u) /\ Holds(u, {}) /\ Frontier(u) = s /\ Nodes(u) = Nodes(t)
<1>1. /\ t = [kv |-> t.kv, state |-> t.state, user |-> t.user, path |-> t.path]
      /\ s \in Nodes(t) /\ DOMAIN t.state = Nodes(t) /\ DOMAIN t.kv = Nodes(t)
  BY DEF Tree, Forest, OnPath, IsTrie, Nodes
<1>2. PICK kv, st : /\ kv = [t.kv EXCEPT ![s] = IF t.kv[s] # NoKV THEN t.kv[s] ELSE v]
                    /\ st = [t.state EXCEPT ![s] = IF t.state[s] # NoState THEN t.state[s] ELSE s]
  OBVIOUS
<1>3. u = [kv |-> kv, state |-> st, user |-> t.user, path |-> t.path]
  BY <1>1, <1>2 DEF Given
<1>4. Nodes(u) = Nodes(t) /\ DOMAIN st = Nodes(t) /\ u.path = t.path /\ u.user = t.user
  BY <1>1, <1>2, <1>3 DEF Nodes
<1>5. Forest(u) /\ OnPath(u, s)
  BY <1>3, <1>4 DEF Tree, Forest, OnPath, IsTrie
<1>6. Holds(u, {})
  <2>1. ASSUME NEW n \in Nodes(u)
        PROVE  /\ u.state[n] \in {NoState, n}
               /\ n # Root => u.kv[n] = Snap(Edge(Nodes(u), n), n)
    <3>1. /\ t.state[n] \in {NoState, n}
          /\ n # Root => t.kv[n] = Snap(Edge(Nodes(t), n), n) \/ (n \in {s} /\ t.kv[n] = NoKV)
      BY <1>4, <2>1 DEF Holds
    <3>2. CASE n = s
      <4>1. /\ u.kv[n] = IF t.kv[s] # NoKV THEN t.kv[s] ELSE v
            /\ u.state[n] = IF t.state[s] # NoState THEN t.state[s] ELSE s
        BY <1>1, <1>2, <1>3, <3>2
      <4>2. QED
        BY <1>4, <3>1, <3>2, <4>1
    <3>3. CASE n # s
      <4>1. u.kv[n] = t.kv[n] /\ u.state[n] = t.state[n]
        BY <1>1, <1>2, <1>3, <1>4, <3>3
      <4>2. QED
        BY <1>4, <3>1, <3>3, <4>1
    <3>4. QED
      BY <3>2, <3>3
  <2>2. QED
    BY <2>1 DEF Holds
<1>7. QED
  BY <1>4, <1>5, <1>6, FrontierIs

\* The session object is gone and nothing is left of it.
LEMMA OverStep ==
  ASSUME Inv, SessionOver, live' = live, pending' = pending, captured' = captured,
         DOMAIN pending = {}, Tree(trie'), Holds(trie', {}), live = Full(Frontier(trie'))
  PROVE  Inv'
<1>1. /\ prompt' = NoPrompt /\ reuse' = 0 /\ outputs' = <<>> /\ pc' = "idle" /\ ret' = "idle"
      /\ DOMAIN captured = {}
  BY DEF SessionOver, Inv, Capturing
<1>2. Phase' = "idle" /\ Control' /\ Resting' /\ Paging' /\ Running'
  BY <1>1 DEF Phase, Control, Resting, Paging, Running
<1>3. InHand'
  BY <1>1 DEF InHand, NoPrompt, Texts
<1>4. Capturing'
  BY <1>1, <1>2 DEF Capturing
<1>5. QED
  BY <1>2, <1>3, <1>4 DEF Inv

LEMMA CompactStep ==
  ASSUME Inv, Compact
  PROVE  Inv' /\ Nodes(trie') \subseteq Nodes(trie)
<1>1. Phase = "compact" /\ pc = "compact"
  BY DEF Compact, Phase
<1>2. /\ live.rec \in Texts /\ live = Full(live.rec) /\ Frontier(trie) = live.rec
      /\ DOMAIN pending = {} /\ Tree(trie) /\ Holds(trie, {})
  BY <1>1 DEF Inv, Running, Capturing
<1>3. /\ Tree(trie') /\ Holds(trie', {}) /\ Frontier(trie') = Frontier(trie)
      /\ Nodes(trie') \subseteq Nodes(trie)
  BY <1>2, CompactKeeps DEF Compact
<1>4. SessionOver /\ live' = live /\ pending' = pending /\ captured' = captured
  BY DEF Compact
<1>5. live = Full(Frontier(trie'))
  BY <1>2, <1>3
<1>6. QED
  BY <1>2, <1>3, <1>4, <1>5, OverStep

LEMMA CloseStep ==
  ASSUME Inv, Close
  PROVE  Inv' /\ Grown(trie, trie', live.rec)
<1>1. pc = "close" /\ Phase = "close" /\ live' = live /\ pending' = pending /\ captured' = captured
  BY DEF Close, Phase
<1>2. PICK F, y : F = Frontier(trie) /\ y = live.rec
  OBVIOUS
<1>3. /\ InHand /\ y \in Texts /\ live = Full(y) /\ IsPrefix(y, Stored)
      /\ IsPrefix(F, y) /\ Tree(trie) /\ Holds(trie, {}) /\ DOMAIN pending = {} /\ DOMAIN captured = {}
  BY <1>1, <1>2 DEF Inv, Running, Capturing
<1>4. Offset(live) = Len(y) /\ Len(y) \in Nat /\ live.kv = History(y) /\ Len(live.kv) = Len(y)
  <2>1. Offset(Full(y)) = Len(y) /\ Len(y) \in Nat /\ Full(y).kv = History(y) /\ Len(Full(y).kv) = Len(y)
    BY <1>3, FullIs
  <2>2. QED
    BY <1>3, <2>1
<1>5. F \in Texts /\ Len(F) \in Nat /\ Len(F) <= Len(y) /\ Stored \in Texts /\ Len(Stored) \in Nat
  BY <1>2, <1>3, FrontierText, StoredIs, PrefixOrder
<1>6. CASE Offset(live) > Len(Frontier(trie))
  <2>1. PICK s, t : /\ s = F \o SubSeq(Stored, Len(F) + 1, Len(y))
                    /\ t = Advanced(trie, s)
    OBVIOUS
  <2>2. /\ trie' = PagedOut(t, Frontier(t)) /\ pc' = "evict" /\ ret' = "compact"
        /\ UNCHANGED <<prompt, reuse, outputs, base>>
    BY <1>2, <1>4, <1>6, <2>1 DEF Close
  <2>3. IsPrefix(F, Stored) /\ Len(y) <= Len(Stored)
    BY <1>3, <1>5, StoredIs, PrefixOrder
  <2>4. s = y
    <3>1. Len(y) \in Len(F)..Len(Stored)
      BY <1>4, <1>5, <2>3
    <3>2. s = Cut(Stored, Len(y))
      BY <1>5, <2>1, <2>3, <3>1, ForwardIs
    <3>3. QED
      BY <1>3, <1>5, <3>2, CutSelf
  <2>5. Tree(t) /\ Frontier(t) = y /\ Holds(t, {y}) /\ Grown(trie, t, y)
    BY <1>2, <1>3, <2>1, <2>4, AdvanceKeeps
  <2>6. y # Root
    BY <1>2, <1>4, <1>5, <1>6 DEF Root
  <2>7. PICK v : v = [from |-> Start(t, y), ent |-> SubSeq(live.kv, Start(t, y) + 1, Len(live.kv))]
    OBVIOUS
  <2>8. v = Snap(Edge(Nodes(t), y), y)
    BY <1>4, <2>7, StartIsEdge DEF Snap
  <2>9. trie' = Given(t, y, v)
    BY <1>2, <2>2, <2>5, <2>7 DEF PagedOut, Given
  <2>10. Tree(trie') /\ Holds(trie', {}) /\ Frontier(trie') = y /\ Nodes(trie') = Nodes(t)
    BY <2>5, <2>6, <2>8, <2>9, HeldKeeps
  <2>11. Phase' = "compact" /\ Control' /\ Stored' = Stored
    BY <2>2 DEF Phase, Control, Stored
  <2>12. Running'
    <3>1. IsPrefix(y, y)
      BY <1>3, PrefixOrder
    <3>2. QED
      BY <1>1, <1>2, <1>3, <2>10, <2>11, <3>1 DEF Running
  <2>13. Capturing'
    BY <1>1, <1>3, <2>2, <2>11 DEF Capturing
  <2>14. InHand' /\ Resting' /\ Paging'
    BY <1>3, <2>2 DEF InHand, Resting, Paging
  <2>15. Grown(trie, trie', live.rec)
    BY <1>2, <2>5, <2>10 DEF Grown
  <2>16. QED
    BY <2>10, <2>11, <2>12, <2>13, <2>14, <2>15 DEF Inv
<1>7. CASE ~(Offset(live) > Len(Frontier(trie)))
  <2>1. SessionOver /\ trie' = trie
    BY <1>7 DEF Close
  <2>2. F = y
    <3>1. Len(F) = Len(y)
      BY <1>2, <1>4, <1>5, <1>7
    <3>2. QED
      BY <1>3, <1>5, <3>1, PrefixOrder
  <2>3. live = Full(Frontier(trie')) /\ Tree(trie') /\ Holds(trie', {})
    BY <1>2, <1>3, <2>1, <2>2
  <2>4. Grown(trie, trie', live.rec)
    BY <2>1 DEF Grown
  <2>5. QED
    BY <1>1, <1>3, <2>1, <2>3, <2>4, OverStep
<1>8. QED
  BY <1>6, <1>7

-----------------------------------------------------------------------------
(* Prefill: a chunk is read and the caches capture what it crosses.        *)

\* A capture up to an offset inside what was read.
LEMMA SnapInside ==
  ASSUME NEW s \in Texts, NEW to \in 0..Len(s), NEW o \in 0..to, NEW a \in 0..o
  PROVE  [from |-> a, ent |-> SubSeq(History(Cut(s, to)), a + 1, o)] = Snap(a, Cut(s, o))
<1>1. Len(s) \in Nat /\ to \in Nat /\ o \in Nat /\ a \in Nat /\ o \in 0..Len(s)
  BY DEF Texts
<1>2. /\ Cut(s, to) \in Texts /\ Len(Cut(s, to)) = to
      /\ \A m \in 0..to : Cut(Cut(s, to), m) = Cut(s, m)
  BY CutPrefix
<1>3. Cut(s, o) \in Texts /\ Len(Cut(s, o)) = o /\ Cut(Cut(s, to), o) = Cut(s, o)
  BY <1>1, <1>2, CutPrefix
<1>4. PICK g, h : g = History(Cut(s, to)) /\ h = History(Cut(s, o))
  OBVIOUS
<1>5. /\ g \in Seq(Texts) /\ Len(g) = to /\ h \in Seq(Texts) /\ Len(h) = o
  BY <1>2, <1>3, <1>4, HistoryIs
<1>6. h = Cut(g, o)
  BY <1>2, <1>3, <1>4, HistoryCut
<1>7. \A i \in 1..o : h[i] = g[i]
  BY <1>1, <1>5, <1>6, CutIs
<1>8. SubSeq(g, a + 1, o) = SubSeq(h, a + 1, o)
  <2>1. PICK u, v : u = SubSeq(g, a + 1, o) /\ v = SubSeq(h, a + 1, o)
    OBVIOUS
  <2>2. /\ u \in Seq(Texts) /\ Len(u) = o - a
        /\ \A i \in 1..(o - a) : u[i] = g[a + i]
    BY <1>1, <1>5, <2>1
  <2>3. /\ v \in Seq(Texts) /\ Len(v) = o - a
        /\ \A i \in 1..(o - a) : v[i] = h[a + i]
    BY <1>1, <1>5, <2>1
  <2>4. \A i \in 1..(o - a) : a + i \in 1..o
    BY <1>1
  <2>5. \A i \in 1..Len(u) : u[i] = v[i]
    BY <1>7, <2>2, <2>3, <2>4
  <2>6. u = v
    BY <2>2, <2>3, <2>5, EntriesEqual
  <2>7. QED
    BY <2>1, <2>6
<1>9. Len(Cut(s, o)) = o
  BY <1>3
<1>10. QED
  BY <1>4, <1>8, <1>9 DEF Snap

\* Each offset that is crossed is captured whole, from the last capture on.
LEMMA CapturesIs ==
  ASSUME Inv, pc = "prefill", NEW to \in Nat, Offset(live) < to, to <= Len(Stored),
         live' = Full(Cut(Stored, to)), Captures(to)
  PROVE  /\ DOMAIN captured' = {o \in DOMAIN pending : o <= to}
         /\ \A o \in DOMAIN captured' : \E f \in 0..(o - 1) :
              /\ captured'[o] = [kv |-> Snap(f, Cut(Stored, o)), rec |-> Cut(Stored, o)]
              /\ f <= Len(Frontier(trie)) \/ f \in DOMAIN pending
         /\ base' \in 0..to
         /\ base' <= Len(Frontier(trie)) \/ base' \in DOMAIN captured'
<1>1. Phase = "prefill"
  BY DEF Phase
<1>2. /\ InHand /\ live.rec \in Texts /\ live = Full(live.rec) /\ Capturing
  BY <1>1 DEF Inv, Running
<1>3. PICK x : x = Len(live.rec)
  OBVIOUS
<1>4. x \in Nat /\ Len(live.kv) = x /\ Offset(live) = x /\ x < to
  <2>1. Offset(Full(live.rec)) = x /\ x \in Nat /\ Len(Full(live.rec).kv) = x
    BY <1>2, <1>3, FullIs
  <2>2. QED
    BY <1>2, <2>1
<1>5. /\ base \in 0..x
      /\ base <= Len(Frontier(trie)) \/ base \in DOMAIN captured
      /\ DOMAIN pending \subseteq 1..Len(prompt.tokens) /\ DOMAIN captured \subseteq DOMAIN pending
      /\ \A o \in DOMAIN pending : o \in DOMAIN captured <=> o <= x
  BY <1>1, <1>2, <1>3 DEF Capturing
<1>6. Stored \in Texts /\ Len(Stored) \in Nat /\ Len(prompt.tokens) \in Nat /\ to \in 0..Len(Stored)
  BY <1>2, StoredIs
<1>7. PICK crossed : crossed = {o \in DOMAIN pending : x < o /\ o <= to}
  OBVIOUS
<1> DEFINE from(o) == Max({base} \cup {c \in crossed : c < o})
<1>8. /\ captured' = [o \in crossed \cup DOMAIN captured |->
                        IF o \in crossed
                        THEN [kv |-> [from |-> from(o), ent |-> SubSeq(live'.kv, from(o) + 1, o)],
                              rec |-> Cut(live'.rec, o)]
                        ELSE captured[o]]
      /\ base' = Max({base} \cup crossed)
  BY <1>4, <1>7 DEF Captures
<1>9. \A o \in DOMAIN pending : o \in Nat
  BY <1>5, <1>6
<1>10. DOMAIN captured' = {o \in DOMAIN pending : o <= to}
  <2>1. DOMAIN captured' = crossed \cup DOMAIN captured
    BY <1>8
  <2>2. \A o \in DOMAIN pending : o \in crossed \cup DOMAIN captured <=> o <= to
    BY <1>4, <1>5, <1>7, <1>9
  <2>3. crossed \cup DOMAIN captured \subseteq DOMAIN pending
    BY <1>5, <1>7
  <2>4. QED
    BY <2>1, <2>2, <2>3
<1>11. ASSUME NEW o \in crossed
       PROVE  /\ from(o) \in 0..(o - 1)
              /\ from(o) <= Len(Frontier(trie)) \/ from(o) \in DOMAIN pending
  <2>1. PICK S : S = {base} \cup {c \in crossed : c < o}
    OBVIOUS
  <2>2. o \in Nat /\ o - 1 \in Nat /\ base <= o - 1 /\ base \in Nat
    BY <1>4, <1>5, <1>7, <1>9, <1>11
  <2>3. S \in SUBSET (0..(o - 1)) /\ S # {}
    <3>1. \A c \in {d \in crossed : d < o} : c \in 0..(o - 1)
      BY <1>7, <1>9, <2>2
    <3>2. base \in 0..(o - 1)
      BY <2>2
    <3>3. QED
      BY <2>1, <3>1, <3>2
  <2>4. Max(S) \in S
    BY <2>2, <2>3, MaxIs
  <2>5. S \subseteq {base} \cup DOMAIN pending
    BY <1>7, <2>1
  <2>6. Max(S) \in 0..(o - 1)
    BY <2>3, <2>4
  <2>7. Max(S) <= Len(Frontier(trie)) \/ Max(S) \in DOMAIN pending
    BY <1>5, <2>4, <2>5
  <2>8. QED
    BY <2>1, <2>6, <2>7
<1>12. ASSUME NEW o \in DOMAIN captured'
       PROVE  \E f \in 0..(o - 1) :
                /\ captured'[o] = [kv |-> Snap(f, Cut(Stored, o)), rec |-> Cut(Stored, o)]
                /\ f <= Len(Frontier(trie)) \/ f \in DOMAIN pending
  <2>1. CASE o \in crossed
    <3>1. PICK f : f = from(o)
      OBVIOUS
    <3>2. f \in 0..(o - 1) /\ (f <= Len(Frontier(trie)) \/ f \in DOMAIN pending)
      BY <1>11, <2>1, <3>1
    <3>3. o \in Nat /\ o \in 0..to /\ f \in 0..o
      BY <1>7, <1>9, <2>1, <3>2
    <3>4. live'.kv = History(Cut(Stored, to)) /\ live'.rec = Cut(Stored, to)
      BY DEF Full
    <3>5. captured'[o] = [kv |-> [from |-> f, ent |-> SubSeq(History(Cut(Stored, to)), f + 1, o)],
                          rec |-> Cut(Cut(Stored, to), o)]
      BY <1>8, <2>1, <3>1, <3>4
    <3>6. [from |-> f, ent |-> SubSeq(History(Cut(Stored, to)), f + 1, o)] = Snap(f, Cut(Stored, o))
      BY <1>6, <3>3, SnapInside
    <3>7. Cut(Cut(Stored, to), o) = Cut(Stored, o)
      BY <1>6, <3>3, CutPrefix
    <3>8. QED
      BY <3>2, <3>5, <3>6, <3>7
  <2>2. CASE o \notin crossed
    <3>1. o \in DOMAIN captured /\ captured'[o] = captured[o]
      BY <1>8, <1>12, <2>2
    <3>2. QED
      BY <1>2, <3>1 DEF Capturing
  <2>3. QED
    BY <2>1, <2>2
<1>13. base' \in 0..to /\ (base' <= Len(Frontier(trie)) \/ base' \in DOMAIN captured')
  <2>1. PICK S : S = {base} \cup crossed
    OBVIOUS
  <2>2. S \in SUBSET (0..to) /\ S # {}
    <3>1. \A c \in crossed : c \in 0..to
      BY <1>7, <1>9
    <3>2. base \in 0..to
      BY <1>4, <1>5
    <3>3. QED
      BY <2>1, <3>1, <3>2
  <2>3. Max(S) \in S
    BY <2>2, MaxIs
  <2>4. base' = Max(S)
    BY <1>8, <2>1
  <2>5. S \subseteq {base} \cup DOMAIN captured' /\ DOMAIN captured \subseteq DOMAIN captured'
    BY <1>8, <2>1
  <2>6. QED
    BY <1>5, <2>2, <2>3, <2>4, <2>5
<1>14. QED
  BY <1>10, <1>12, <1>13

LEMMA PrefillStep ==
  ASSUME Inv, NEW to \in 1..Len(prompt.tokens), Prefill(to)
  PROVE  Inv'
<1>1. /\ pc = "prefill" /\ pc' = "prefill" /\ Offset(live) < to /\ Forward(to) /\ Captures(to)
      /\ UNCHANGED <<scoring, trie, prompt, reuse, outputs, pending, todo, ret>>
  BY DEF Prefill, Here
<1>2. Phase = "prefill" /\ Phase' = "prefill" /\ Control' /\ Stored' = Stored
  BY <1>1 DEF Phase, Control, Stored
<1>3. /\ InHand /\ live.rec \in Texts /\ live = Full(live.rec) /\ IsPrefix(live.rec, Stored)
      /\ IsPrefix(Frontier(trie), live.rec) /\ Tree(trie) /\ Capturing
  BY <1>2 DEF Inv, Running
<1>4. to \in Nat /\ Stored \in Texts /\ Len(Stored) \in Nat
  BY <1>3, StoredIs
<1>5. Offset(live) = Len(live.rec) /\ Len(live.rec) \in Nat
  <2>1. Offset(Full(live.rec)) = Len(live.rec) /\ Len(live.rec) \in Nat
    BY <1>3, FullIs
  <2>2. QED
    BY <1>3, <2>1
<1>6. PICK y : y = Cut(Stored, to)
  OBVIOUS
<1>7. /\ to <= Len(Stored) /\ live' = Full(y) /\ y \in Texts /\ Len(y) = to
      /\ IsPrefix(y, Stored) /\ IsPrefix(live.rec, y)
  <2>1. Offset(live) <= to
    BY <1>1, <1>4, <1>5
  <2>2. QED
    BY <1>1, <1>3, <1>4, <1>6, <2>1, ForwardTo
<1>8. live'.rec = y
  BY <1>7, FullIs
<1>9. IsPrefix(Frontier(trie), y)
  BY <1>3, <1>7, FrontierText, PrefixOrder
<1>10. Running'
  BY <1>1, <1>2, <1>7, <1>8, <1>9 DEF Running
<1>11. /\ DOMAIN captured' = {o \in DOMAIN pending : o <= to}
       /\ \A o \in DOMAIN captured' : \E f \in 0..(o - 1) :
            /\ captured'[o] = [kv |-> Snap(f, Cut(Stored, o)), rec |-> Cut(Stored, o)]
            /\ f <= Len(Frontier(trie)) \/ f \in DOMAIN pending
       /\ base' \in 0..to
       /\ base' <= Len(Frontier(trie)) \/ base' \in DOMAIN captured'
  BY <1>1, <1>4, <1>6, <1>7, CapturesIs
<1>12. Capturing'
  <2>1. DOMAIN pending' \subseteq 1..Len(prompt'.tokens) /\ DOMAIN captured' \subseteq DOMAIN pending'
    BY <1>1, <1>3, <1>11 DEF Capturing
  <2>2. \A o \in DOMAIN pending' :
          Len(Frontier(trie')) < o /\ (o \in DOMAIN captured' <=> o <= Len(live'.rec))
    BY <1>1, <1>3, <1>7, <1>8, <1>11 DEF Capturing
  <2>3. \A o \in DOMAIN captured' : \E f \in 0..(o - 1) :
          /\ captured'[o] = [kv |-> Snap(f, Cut(Stored', o)), rec |-> Cut(Stored', o)]
          /\ f <= Len(Frontier(trie')) \/ f \in DOMAIN pending'
    BY <1>1, <1>2, <1>11
  <2>4. /\ base' \in 0..Len(live'.rec)
        /\ base' <= Len(Frontier(trie')) \/ base' \in DOMAIN captured'
    BY <1>1, <1>7, <1>8, <1>11
  <2>5. QED
    BY <1>2, <2>1, <2>2, <2>3, <2>4 DEF Capturing
<1>13. Tree(trie') /\ Holds(trie', {}) /\ InHand' /\ Resting' /\ Paging'
  BY <1>1 DEF Inv, InHand, Resting, Paging
<1>14. QED
  BY <1>2, <1>10, <1>12, <1>13 DEF Inv

-----------------------------------------------------------------------------
(* The captured snapshots are attached.                                    *)

\* A restore point is set.
Marked(t, n, user) == IF user THEN [t EXCEPT !.user = @ \cup {n}] ELSE t

LEMMA MarkKeeps ==
  ASSUME NEW t, Tree(t), NEW X, Holds(t, X), NEW user, Frontier(t) # Root,
         NEW u, u = Marked(t, Frontier(t), user)
  PROVE  Tree(u) /\ Holds(u, X) /\ Frontier(u) = Frontier(t) /\ Nodes(u) = Nodes(t)
<1>1. CASE user
  <2>1. PICK U : U = t.user \cup {Frontier(t)}
    OBVIOUS
  <2>2. u = [kv |-> t.kv, state |-> t.state, user |-> U, path |-> t.path]
    BY <1>1, <2>1 DEF Tree, Forest, IsTrie, Marked
  <2>3. Nodes(u) = Nodes(t) /\ u.path = t.path /\ u.state = t.state /\ u.kv = t.kv
    BY <2>2 DEF Nodes
  <2>4. Forest(u) /\ OnPath(u, Frontier(t))
    BY <2>1, <2>2, <2>3 DEF Tree, Forest, OnPath, IsTrie
  <2>5. Holds(u, X)
    BY <2>3 DEF Holds
  <2>6. QED
    BY <2>3, <2>4, <2>5, FrontierIs
<1>2. CASE ~user
  BY <1>2 DEF Marked
<1>3. QED
  BY <1>1, <1>2

\* The state the trie is in when an offset that was captured is attached.
LEMMA AttachKeeps ==
  ASSUME NEW t, Tree(t), Holds(t, {}), NEW s \in Texts, IsPrefix(Frontier(t), s),
         Len(Frontier(t)) < Len(s), NEW f \in Nat, f <= Len(Frontier(t)),
         NEW snaps, snaps = [kv |-> Snap(f, s), rec |-> s], NEW user,
         NEW a, a = Advanced(t, s),
         NEW u, u = Compacted(Attached(Marked(a, s, user), s, snaps))
  PROVE  Tree(u) /\ Holds(u, {}) /\ Frontier(u) = s /\ Grown(t, u, s)
<1>1. /\ Tree(a) /\ Frontier(a) = s /\ Holds(a, {s}) /\ Nodes(t) \subseteq Nodes(a)
      /\ Grown(t, a, s)
  BY AdvanceKeeps
<1>2. PICK F : F = Frontier(t)
  OBVIOUS
<1>3. F \in Texts /\ Len(F) \in Nat /\ Len(s) \in Nat /\ F \in Nodes(t)
  BY <1>2, FrontierText DEF Tree, OnPath, Texts
<1>4. s # Root
  BY <1>2, <1>3 DEF Root
<1>5. PICK b : b = Marked(a, s, user)
  OBVIOUS
<1>6. Tree(b) /\ Holds(b, {s}) /\ Frontier(b) = s /\ Nodes(b) = Nodes(a)
  BY <1>1, <1>4, <1>5, MarkKeeps
<1>7. PICK at : at = Edge(Nodes(b), s)
  OBVIOUS
<1>8. at \in Nat /\ f <= at /\ at < Len(s)
  <2>1. Nodes(b) \in SUBSET Texts /\ Root \in Nodes(b)
    BY <1>6, ClosedNodes DEF Tree, Forest
  <2>2. IsStrictPrefix(F, s) /\ F \in Nodes(b)
    BY <1>1, <1>2, <1>3, <1>6, PrefixOrder
  <2>3. Len(F) <= at
    BY <1>4, <1>7, <2>1, <2>2, EdgeAbove
  <2>4. at \in 0..(Len(s) - 1)
    BY <1>4, <1>7, <2>1, ParentIs
  <2>5. QED
    BY <1>2, <1>3, <2>3, <2>4
<1>9. Tail_(snaps.kv, Start(b, s)) = Snap(at, s)
  <2>1. Start(b, s) = at
    BY <1>7, StartIsEdge
  <2>2. QED
    BY <1>8, <2>1, SnapTail
<1>10. PICK v : v = Snap(at, s)
  OBVIOUS
<1>11. PICK c : c = Attached(b, s, snaps)
  OBVIOUS
<1>12. c = Given(b, s, v)
  BY <1>9, <1>10, <1>11 DEF Attached, Given
<1>13. Tree(c) /\ Holds(c, {}) /\ Frontier(c) = s /\ Nodes(c) = Nodes(a)
  BY <1>4, <1>6, <1>7, <1>10, <1>12, HeldKeeps
<1>14. Tree(u) /\ Holds(u, {}) /\ Frontier(u) = s /\ Nodes(u) \subseteq Nodes(a)
  BY <1>5, <1>11, <1>13, CompactKeeps
<1>15. QED
  BY <1>1, <1>14 DEF Grown

LEMMA AttachStep ==
  ASSUME Inv, Attach
  PROVE  Inv' /\ \E o \in DOMAIN pending : Grown(trie, trie', Cut(Stored, o))
<1>1. PICK o, F, x : o = Min(DOMAIN pending) /\ F = Frontier(trie) /\ x = live.rec
  OBVIOUS
<1>2. /\ pc = "attach" /\ pc' = "attach" /\ DOMAIN pending # {}
      /\ pending' = [p \in DOMAIN pending \ {o} |-> pending[p]]
      /\ captured' = [p \in DOMAIN captured \ {o} |-> captured[p]]
      /\ UNCHANGED <<live, outputs, base, scoring, prompt, reuse, todo, ret>>
  BY <1>1 DEF Attach, Here
<1>3. Phase = "attach" /\ Phase' = "attach" /\ Control' /\ Stored' = Stored
  <2>1. Phase = "attach" /\ Phase' = "attach" /\ Stored' = Stored
    BY <1>2 DEF Phase, Stored
  <2>2. QED
    BY <1>2, <2>1 DEF Inv, Control
<1>4. /\ InHand /\ x \in Texts /\ live = Full(x) /\ IsPrefix(x, Stored)
      /\ IsPrefix(F, x) /\ Tree(trie) /\ Holds(trie, {}) /\ Capturing
  BY <1>1, <1>3 DEF Inv, Running
<1>5. /\ Stored \in Texts /\ Len(Stored) \in Nat /\ Len(prompt.tokens) \in Nat
      /\ Len(prompt.tokens) <= Len(Stored)
      /\ F \in Texts /\ Len(F) \in Nat /\ Len(x) \in Nat /\ Offset(live) = Len(x)
  <2>1. Offset(Full(x)) = Len(x) /\ Len(x) \in Nat
    BY <1>4, FullIs
  <2>2. QED
    BY <1>1, <1>4, <2>1, StoredIs, FrontierText
<1>6. /\ DOMAIN pending \subseteq 1..Len(prompt.tokens) /\ DOMAIN captured \subseteq DOMAIN pending
      /\ \A p \in DOMAIN pending : Len(F) < p /\ (p \in DOMAIN captured <=> p <= Len(x))
  BY <1>1, <1>4 DEF Capturing
<1>7. o \in DOMAIN pending /\ o \in Nat /\ \A p \in DOMAIN pending : p \in Nat /\ o <= p
  <2>1. DOMAIN pending \in SUBSET Nat
    BY <1>5, <1>6
  <2>2. o \in DOMAIN pending /\ \A p \in DOMAIN pending : o <= p
    BY <1>1, <1>2, <2>1, MinIs
  <2>3. QED
    BY <2>1, <2>2
<1>8. Len(F) < o /\ o \in 0..Len(Stored) /\ o > 0
  BY <1>5, <1>6, <1>7
<1>9. /\ DOMAIN pending' = DOMAIN pending \ {o} /\ DOMAIN captured' = DOMAIN captured \ {o}
      /\ \A p \in DOMAIN captured' : captured'[p] = captured[p]
  BY <1>2
<1>10. InHand' /\ Resting' /\ Paging'
  BY <1>2 DEF Inv, InHand, Resting, Paging
<1>11. CASE o > Offset(live)
  <2>1. trie' = trie
    BY <1>1, <1>11 DEF Attach
  <2>2. DOMAIN captured = {}
    <3>1. \A p \in DOMAIN pending : p \notin DOMAIN captured
      BY <1>5, <1>6, <1>7, <1>11
    <3>2. QED
      BY <1>6, <3>1
  <2>3. Running'
    BY <1>2, <1>3, <2>1 DEF Inv, Running
  <2>4. Capturing'
    BY <1>2, <1>3, <1>4, <1>9, <2>1, <2>2 DEF Capturing
  <2>5. Grown(trie, trie', Cut(Stored, o))
    BY <2>1 DEF Grown
  <2>6. QED
    BY <1>3, <1>4, <1>7, <1>10, <2>1, <2>3, <2>4, <2>5 DEF Inv
<1>12. CASE ~(o > Offset(live))
  <2>1. o <= Len(x) /\ o \in DOMAIN captured
    BY <1>5, <1>6, <1>7, <1>12
  <2>2. PICK s : s = Cut(Stored, o)
    OBVIOUS
  <2>3. s \in Texts /\ Len(s) = o /\ IsPrefix(s, Stored)
    BY <1>5, <1>8, <2>2, CutPrefix
  <2>4. IsPrefix(F, s) /\ IsPrefix(s, x)
    <3>1. IsPrefix(F, Stored)
      BY <1>4, <1>5, PrefixOrder
    <3>2. QED
      BY <1>4, <1>5, <1>8, <2>1, <2>3, <3>1, PrefixOrder
  <2>5. F \o SubSeq(Stored, Len(F) + 1, o) = s
    <3>1. IsPrefix(F, Stored) /\ o \in Len(F)..Len(Stored)
      BY <1>4, <1>5, <1>8, PrefixOrder
    <3>2. QED
      BY <1>5, <2>2, <3>1, ForwardIs
  <2>6. PICK f \in 0..(o - 1) :
          /\ captured[o] = [kv |-> Snap(f, s), rec |-> s]
          /\ f <= Len(F) \/ f \in DOMAIN pending
    BY <1>1, <1>4, <2>1, <2>2 DEF Capturing
  <2>7. f \in Nat /\ f <= Len(F)
    BY <1>7, <2>6
  <2>8. PICK a : a = Advanced(trie, s)
    OBVIOUS
  <2>9. Frontier(a) = s
    BY <1>1, <1>4, <2>3, <2>4, <2>8, AdvanceKeeps
  <2>10. trie' = Compacted(Attached(Marked(a, s, pending[o]), s, captured[o]))
    BY <1>1, <1>8, <1>12, <2>1, <2>5, <2>8, <2>9 DEF Attach, Marked
  <2>11. /\ Tree(trie') /\ Holds(trie', {}) /\ Frontier(trie') = s
         /\ Grown(trie, trie', s)
    BY <1>1, <1>4, <1>8, <2>3, <2>4, <2>6, <2>7, <2>8, <2>10, AttachKeeps
  <2>12. Running'
    BY <1>1, <1>2, <1>3, <1>4, <2>4, <2>11 DEF Running
  <2>13. Capturing'
    <3>1. DOMAIN pending' \subseteq 1..Len(prompt'.tokens) /\ DOMAIN captured' \subseteq DOMAIN pending'
      BY <1>2, <1>6, <1>9
    <3>2. \A p \in DOMAIN pending' :
            Len(Frontier(trie')) < p /\ (p \in DOMAIN captured' <=> p <= Len(live'.rec))
      BY <1>1, <1>2, <1>6, <1>7, <1>9, <2>3, <2>11
    <3>3. ASSUME NEW p \in DOMAIN captured'
          PROVE  \E g \in 0..(p - 1) :
                   /\ captured'[p] = [kv |-> Snap(g, Cut(Stored', p)), rec |-> Cut(Stored', p)]
                   /\ g <= Len(Frontier(trie')) \/ g \in DOMAIN pending'
      <4>1. PICK g \in 0..(p - 1) :
              /\ captured[p] = [kv |-> Snap(g, Cut(Stored, p)), rec |-> Cut(Stored, p)]
              /\ g <= Len(F) \/ g \in DOMAIN pending
        BY <1>1, <1>4, <1>9, <3>3 DEF Capturing
      <4>2. p \in Nat /\ g \in Nat
        BY <1>6, <1>7, <1>9, <3>3
      <4>3. g <= Len(Frontier(trie')) \/ g \in DOMAIN pending'
        BY <1>5, <1>8, <1>9, <2>3, <2>11, <4>1, <4>2
      <4>4. QED
        BY <1>3, <1>9, <3>3, <4>1, <4>3
    <3>4. QED
      BY <1>3, <3>1, <3>2, <3>3 DEF Capturing
  <2>14. QED
    BY <1>3, <1>7, <1>10, <2>2, <2>11, <2>12, <2>13 DEF Inv
<1>13. QED
  BY <1>11, <1>12

-----------------------------------------------------------------------------
(* The invariant, and what follows from it.                                *)

LEMMA InitInv ==
  ASSUME Init
  PROVE  Inv
<1>1. /\ trie = [kv |-> [n \in {Root} |-> NoKV], state |-> [n \in {Root} |-> NoState],
                 user |-> {}, path |-> {Root}]
      /\ live = Freed /\ prompt = NoPrompt /\ reuse = 0 /\ outputs = <<>>
      /\ pending = <<>> /\ captured = <<>> /\ pc = "idle"
  BY DEF Init
<1>2. Root \in Texts /\ Len(Root) = 0 /\ IsPrefix(Root, Root)
  <2>1. Root \in Texts /\ Len(Root) = 0
    BY DEF Root, Texts
  <2>2. QED
    BY <2>1, PrefixOrder
<1>3. /\ Nodes(trie) = {Root} /\ trie.kv = [n \in {Root} |-> NoKV]
      /\ trie.state = [n \in {Root} |-> NoState] /\ trie.user = {} /\ trie.path = {Root}
  BY <1>1 DEF Nodes
<1>4. Closed({Root})
  <2>1. IsFiniteSet({Root})
    BY FS_Singleton
  <2>2. Meet(Root, Root) = Root
    <3>1. Meet(Root, Root) \in Texts /\ IsPrefix(Meet(Root, Root), Root)
      BY <1>2, MeetIs
    <3>2. Len(Meet(Root, Root)) = 0
      <4>1. Len(Meet(Root, Root)) \in Nat
        BY <3>1 DEF Texts
      <4>2. Len(Meet(Root, Root)) <= 0
        BY <1>2, <3>1, PrefixOrder
      <4>3. QED
        BY <4>1, <4>2
    <3>3. QED
      BY <1>2, <3>1, <3>2, PrefixOrder
  <2>3. QED
    BY <1>2, <2>1, <2>2 DEF Closed
<1>5. Forest(trie) /\ OnPath(trie, Root)
  <2>1. IsTrie(trie)
    BY <1>1 DEF IsTrie
  <2>2. QED
    BY <1>2, <1>3, <1>4, <2>1 DEF Forest, OnPath
<1>6. Tree(trie) /\ Frontier(trie) = Root
  BY <1>5, FrontierIs
<1>7. Holds(trie, {})
  BY <1>3 DEF Holds
<1>8. live = Full(Root)
  <2>1. History(Root) = <<>>
    <3>1. History(Root) \in Seq(Texts) /\ Len(History(Root)) = 0
      BY <1>2, HistoryIs
    <3>2. QED
      BY <3>1
  <2>2. QED
    BY <1>1, <2>1 DEF Full, Freed, Root
<1>9. Phase = "idle" /\ Control /\ Resting /\ Paging /\ Running
  BY <1>1, <1>6, <1>8 DEF Phase, Control, Resting, Paging, Running
<1>10. InHand
  BY <1>1 DEF InHand, NoPrompt, Texts
<1>11. Capturing
  BY <1>1, <1>9 DEF Capturing
<1>12. QED
  BY <1>6, <1>7, <1>9, <1>10, <1>11 DEF Inv

LEMMA NextInv ==
  ASSUME Inv, [Next]_vars
  PROVE  Inv'
<1>1. ASSUME NEW p \in Prompts, Begin(p) PROVE Inv'
  BY <1>1, BeginStep
<1>2. CASE PageIn
  BY <1>2, PageInStep
<1>3. CASE Switched
  BY <1>3, SwitchedStep
<1>4. ASSUME NEW n \in Nodes(trie), Evict(n) PROVE Inv'
  BY <1>4, EvictStep
<1>5. CASE Enough
  BY <1>5, EnoughStep
<1>6. ASSUME NEW n \in 1..Len(prompt.tokens), Schedule(n) PROVE Inv'
  BY <1>6, ScheduleStep
<1>7. ASSUME NEW n \in 1..Len(prompt.tokens), Prefill(n) PROVE Inv'
  BY <1>7, PrefillStep
<1>8. CASE PrefillEnds
  BY <1>8, PrefillEndsStep
<1>9. CASE Attach
  BY <1>9, AttachStep
<1>10. CASE AttachEnds
  BY <1>10, AttachEndsStep
<1>11. CASE Seed
  BY <1>11, SeedStep
<1>12. ASSUME NEW tok \in Generated, Decode(tok) PROVE Inv'
  BY <1>12, DecodeStep
<1>13. CASE DecodeEnds
  BY <1>13, DecodeEndsStep
<1>14. CASE Close
  BY <1>14, CloseStep
<1>15. CASE Compact
  BY <1>15, CompactStep
<1>16. CASE UNCHANGED vars
  <2>1. /\ UNCHANGED <<trie, live, prompt, reuse, outputs, pending, captured, base>>
        /\ todo' = todo /\ pc' = pc /\ ret' = ret
    BY <1>16 DEF vars
  <2>2. Phase' = Phase /\ Stored' = Stored
    BY <2>1 DEF Phase, Stored
  <2>3. Control' /\ InHand' /\ Resting'
    BY <2>1 DEF Inv, Control, InHand, Resting
  <2>4. Paging'
    <3>1. Matched' = Matched
      BY <1>16 DEF vars, Matched, BestMatch
    <3>2. QED
      BY <2>1, <3>1 DEF Inv, Paging
  <2>5. Running'
    BY <2>1, <2>2 DEF Inv, Running
  <2>6. Capturing'
    BY <2>1, <2>2 DEF Inv, Capturing
  <2>7. QED
    BY <2>1, <2>3, <2>4, <2>5, <2>6 DEF Inv
<1>17. QED
  BY <1>1, <1>2, <1>3, <1>4, <1>5, <1>6, <1>7, <1>8, <1>9, <1>10, <1>11, <1>12, <1>13,
     <1>14, <1>15, <1>16 DEF Next

\* The inductive invariant holds in every state of every session.
THEOREM InvHolds == Spec => []Inv
<1>1. Init => Inv
  BY InitInv
<1>2. Inv /\ [Next]_vars => Inv'
  BY NextInv
<1>3. QED
  BY <1>1, <1>2, PTL DEF Spec

\* Types, and no schedule left behind by a session.
THEOREM Typed == Spec => []TypeOK
<1>1. Inv => TypeOK
  <2>1. SUFFICES ASSUME Inv PROVE TypeOK
    OBVIOUS
  <2>2. /\ DOMAIN trie.state = Nodes(trie) /\ trie.user \subseteq Nodes(trie) /\ Root \notin trie.user
        /\ trie.path \subseteq Nodes(trie)
    BY <2>1 DEF Inv, Tree, Forest, OnPath
  <2>3. /\ DOMAIN captured \subseteq DOMAIN pending /\ DOMAIN pending \subseteq 1 .. Len(prompt.tokens)
        /\ pc = "idle" => DOMAIN pending = {}
    BY <2>1 DEF Inv, Capturing, Phase
  <2>4. reuse \in 0 .. Len(prompt.tokens)
    BY <2>1 DEF Inv, InHand
  <2>5. pc \in {"idle", "page", "evict", "schedule", "prefill", "attach", "decode", "close", "compact"}
    BY <2>1 DEF Inv, Control
  <2>6. QED
    BY <2>2, <2>3, <2>4, <2>5 DEF TypeOK
<1>2. QED
  BY <1>1, InvHolds, PTL

\* What the model attends to was computed from the tokens of the session in
\* hand, and the layers are at one offset: whatever prepare restored and
\* however the prefill, the captures and the decoder moved the caches on.
THEOREM LiveIsTrue == Spec => []LiveTrue
<1>1. Inv => LiveTrue
  <2>1. SUFFICES ASSUME Inv, pc \notin {"idle", "page"}
                 PROVE  /\ Len(live.kv) = Len(live.rec) /\ Len(live.rec) <= Len(Stored)
                        /\ live.rec = Cut(Stored, Len(live.rec))
                        /\ \A i \in DOMAIN live.kv : live.kv[i] = Cut(Stored, i)
    BY DEF LiveTrue
  <2>2. Phase \notin {"idle", "page"}
    BY <2>1 DEF Inv, Control, Phase
  <2>3. PICK x : x = live.rec
    OBVIOUS
  <2>4. x \in Texts /\ live = Full(x) /\ IsPrefix(x, Stored) /\ Stored \in Texts
    BY <2>1, <2>2, <2>3, StoredIs DEF Inv, Running
  <2>5. live.kv = History(x)
    BY <2>4, FullIs
  <2>6. /\ History(x) \in Seq(Texts) /\ Len(History(x)) = Len(x)
        /\ \A i \in 1..Len(x) : History(x)[i] = Cut(x, i)
    BY <2>4, HistoryIs
  <2>7. x = Cut(Stored, Len(x)) /\ Len(x) \in 0..Len(Stored) /\ Len(Stored) \in Nat /\ Len(x) \in Nat
    BY <2>4, CutSelf DEF Texts
  <2>8. \A m \in 0..Len(x) : Cut(Cut(Stored, Len(x)), m) = Cut(Stored, m)
    BY <2>4, <2>7, CutPrefix
  <2>9. \A i \in 1..Len(x) : Cut(x, i) = Cut(Stored, i)
    BY <2>7, <2>8
  <2>10. DOMAIN History(x) = 1..Len(x)
    BY <2>6
  <2>11. \A i \in DOMAIN live.kv : live.kv[i] = Cut(Stored, i)
    BY <2>5, <2>6, <2>9, <2>10
  <2>12. QED
    BY <2>3, <2>5, <2>6, <2>7, <2>11
<1>2. QED
  BY <1>1, InvHolds, PTL

\* Every snapshot in the trie covers its node's edge with entries computed
\* from the node's tokens, and a whole state is that of the node's end.
THEOREM SnapshotsAreTrue == Spec => []SnapshotsTrue
<1>1. Inv => SnapshotsTrue
  <2>1. SUFFICES ASSUME Inv, NEW n \in Nodes(trie)
                 PROVE  /\ trie.state[n] \in {NoState, n}
                        /\ n # Root =>
                             /\ trie.kv[n].from = Start(trie, n)
                             /\ trie.kv[n].from + Len(trie.kv[n].ent) = Len(n)
                             /\ \A i \in DOMAIN trie.kv[n].ent :
                                  trie.kv[n].ent[i] = Cut(n, trie.kv[n].from + i)
    BY DEF SnapshotsTrue
  <2>2. /\ trie.state[n] \in {NoState, n}
        /\ n # Root => trie.kv[n] = Snap(Edge(Nodes(trie), n), n)
    BY <2>1 DEF Inv, Holds
  <2>3. ASSUME n # Root
        PROVE  /\ trie.kv[n].from = Start(trie, n)
               /\ trie.kv[n].from + Len(trie.kv[n].ent) = Len(n)
               /\ \A i \in DOMAIN trie.kv[n].ent :
                    trie.kv[n].ent[i] = Cut(n, trie.kv[n].from + i)
    <3>1. PICK a, s : a = Edge(Nodes(trie), n) /\ s = trie.kv[n]
      OBVIOUS
    <3>2. a = Start(trie, n) /\ s = Snap(a, n)
      BY <2>2, <2>3, <3>1, StartIsEdge
    <3>3. Nodes(trie) \in SUBSET Texts /\ Root \in Nodes(trie) /\ n \in Texts /\ Len(n) \in Nat
      BY <2>1, ClosedNodes DEF Inv, Tree, Forest
    <3>4. a \in 0..(Len(n) - 1) /\ a \in 0..Len(n)
      <4>1. a \in 0..(Len(n) - 1)
        BY <2>3, <3>1, <3>3, ParentIs
      <4>2. QED
        BY <3>3, <4>1
    <3>5. /\ s.from = a /\ s.ent \in Seq(Texts) /\ Len(s.ent) = Len(n) - a
          /\ \A i \in 1..(Len(n) - a) : s.ent[i] = Cut(n, a + i)
      BY <3>2, <3>3, <3>4, SnapIs
    <3>6. DOMAIN s.ent = 1..(Len(n) - a)
      BY <3>5
    <3>7. s.from + Len(s.ent) = Len(n)
      BY <3>3, <3>4, <3>5
    <3>8. QED
      BY <3>1, <3>2, <3>5, <3>6, <3>7
  <2>4. QED
    BY <2>2, <2>3
<1>2. QED
  BY <1>1, InvHolds, PTL

\* The active path is that of its frontier, the caches are at its end between
\* requests, and what two nodes share is a node.
THEOREM PathIsLive == Spec => []PathLive
<1>1. Inv => PathLive
  <2>1. SUFFICES ASSUME Inv PROVE PathLive
    OBVIOUS
  <2>2. trie.path = {n \in Nodes(trie) : IsPrefix(n, Frontier(trie))}
    BY <2>1 DEF Inv, Tree, OnPath
  <2>3. pc = "idle" => live.rec = Frontier(trie)
    BY <2>1 DEF Inv, Resting, Full
  <2>4. \A x, y \in Nodes(trie) : LongestCommonPrefix({x, y}) \in Nodes(trie)
    BY <2>1 DEF Inv, Tree, Forest, Closed, Meet
  <2>5. QED
    BY <2>2, <2>3, <2>4 DEF PathLive
<1>2. QED
  BY <1>1, InvHolds, PTL

\* A request resumes at the deepest whole state at or below its match.
THEOREM Deepest == Spec => ResumesDeepest
<1>1. Inv => [Switched =>
                \A n \in Nodes(trie) :
                  trie.state[n] = n /\ IsPrefix(n, Cut(prompt.tokens, reuse)) /\ ~Inside(prompt, Len(n))
                    => Len(n) <= Offset(live')]_vars
  BY SwitchedDeepest
<1>2. QED
  BY <1>1, InvHolds, PTL DEF ResumesDeepest

-----------------------------------------------------------------------------
(* Media items.                                                            *)

\* What a session can have read, and a text that ends inside no item.
Said(n) ==
  n = Root \/ \E q \in Prompts, o \in Seq(Generated) : IsPrefix(n, q.tokens \o o)
IsStored(w, q, o) == q \in Prompts /\ o \in Seq(Generated) /\ w = q.tokens \o o
Clean(n) ==
  \A p \in Prompts : IsPrefix(n, p.tokens) => ~Inside(p, Len(n))

\* The nodes, and the request in hand.
Kept == \A n \in Nodes(trie) : Said(n)

Request == outputs \in Seq(Generated) /\ (pc # "idle" => prompt \in Prompts)

\* Where a session may be closed: inside no item, one token short of its prompt,
\* or where it started.
ShortOf(p) == Cut(p.tokens, Len(p.tokens) - 1)
Rested == Clean(live.rec) \/ live.rec = ShortOf(prompt) \/ live.rec = Frontier(trie)

Ends ==
  /\ pc = "page" => live.rec \in Nodes(trie)
  /\ \A o \in DOMAIN pending : ~Inside(prompt, o)
  /\ Phase = "prefill" => Rested
  /\ pc = "attach" /\ ret = "close" => Rested
  /\ Phase = "close" => Rested

ItemsInv == Kept /\ Request /\ Ends

LEMMA ItemIs ==
  ASSUME NEW p \in Prompts, NEW i \in p.items, NEW a, a = i[1], NEW b, b = i[1] + i[2],
         NEW c, c = Cut(p.tokens, a + 1), NEW d, d = Cut(p.tokens, b)
  PROVE  /\ a \in Nat /\ b \in Nat /\ a < b /\ b <= Len(p.tokens) /\ p.tokens \in Texts
         /\ c \in Texts /\ Len(c) = a + 1 /\ IsPrefix(c, p.tokens)
         /\ d \in Texts /\ Len(d) = b /\ IsPrefix(d, p.tokens)
         /\ c[a + 1] \notin Generated
         /\ \A q \in Prompts : IsPrefix(c, q.tokens) => i \in q.items /\ IsPrefix(d, q.tokens)
<1>1. p.tokens \in Texts /\ Len(p.tokens) \in Nat /\ i[1] \in Nat /\ i[2] \in Nat
  BY PromptIs
<1>2. /\ i[2] > 0 /\ b <= Len(p.tokens) /\ p.tokens[a + 1] \notin Generated
  BY ItemsAssumption
<1>3. a \in Nat /\ b \in Nat /\ a < b /\ a + 1 \in 0..Len(p.tokens) /\ b \in 0..Len(p.tokens)
  BY <1>1, <1>2
<1>4. /\ c \in Texts /\ Len(c) = a + 1 /\ IsPrefix(c, p.tokens)
      /\ d \in Texts /\ Len(d) = b /\ IsPrefix(d, p.tokens)
  BY <1>1, <1>3, CutPrefix
<1>5. c[a + 1] = p.tokens[a + 1]
  <2>1. \A k \in 1..(a + 1) : c[k] = p.tokens[k]
    BY <1>1, <1>3, CutIs DEF Texts
  <2>2. QED
    BY <1>3, <2>1
<1>6. ASSUME NEW q \in Prompts, IsPrefix(c, q.tokens) PROVE i \in q.items /\ IsPrefix(d, q.tokens)
  <2>1. /\ c = SubSeq(p.tokens, 1, i[1] + 1) /\ d = SubSeq(p.tokens, 1, i[1] + i[2])
    BY DEF Cut
  <2>2. IsPrefix(SubSeq(p.tokens, 1, i[1] + 1), q.tokens)
    BY <1>6, <2>1
  <2>3. i \in q.items /\ IsPrefix(SubSeq(p.tokens, 1, i[1] + i[2]), q.tokens)
    BY <2>2, ItemsAssumption
  <2>4. QED
    BY <2>1, <2>3
<1>7. QED
  BY <1>1, <1>2, <1>3, <1>4, <1>5, <1>6

LEMMA PrefixText ==
  ASSUME NEW x \in Texts, NEW y \in Texts
  PROVE  IsPrefix(x, y) <=> Len(x) <= Len(y) /\ \A i \in 1..Len(x) : x[i] = y[i]
BY PrefixIs DEF Texts

LEMMA SaidText ==
  ASSUME NEW q, NEW o, NEW w, IsStored(w, q, o)
  PROVE  /\ w \in Texts /\ o \in Texts /\ q.tokens \in Texts /\ IsPrefix(q.tokens, w)
         /\ Len(w) = Len(q.tokens) + Len(o) /\ Len(q.tokens) \in Nat /\ Len(o) \in Nat
         /\ \A k \in 1..Len(w) : k > Len(q.tokens) => w[k] \in Generated
<1>1. q.tokens \in Texts /\ Len(q.tokens) \in Nat
  BY PromptIs DEF IsStored
<1>2. o \in Texts /\ Len(o) \in Nat /\ \A k \in 1..Len(o) : o[k] \in Generated
  <2>1. /\ Len(o) \in Nat /\ o = [k \in 1..Len(o) |-> o[k]]
        /\ \A k \in 1..Len(o) : o[k] \in Generated
    BY DEF IsStored
  <2>2. \A k \in 1..Len(o) : o[k] \in Int
    BY <2>1, PromptsAssumption
  <2>3. o \in [1..Len(o) -> Int]
    BY <2>1, <2>2
  <2>4. o \in Seq(Int)
    BY <2>1, <2>3
  <2>5. QED
    BY <2>1, <2>4 DEF Texts
<1>3. PICK x : x = q.tokens
  OBVIOUS
<1>4. /\ w \in Texts /\ Len(w) = Len(x) + Len(o)
      /\ \A k \in 1..Len(x) : w[k] = x[k]
      /\ \A k \in 1..Len(w) : k > Len(x) => w[k] = o[k - Len(x)]
  BY <1>1, <1>2, <1>3 DEF Texts, IsStored
<1>5. IsPrefix(x, w)
  <2>1. x \in Texts /\ Len(x) <= Len(w)
    BY <1>1, <1>2, <1>3, <1>4
  <2>2. QED
    BY <1>4, <2>1, PrefixText
<1>6. ASSUME NEW k \in 1..Len(w), k > Len(x) PROVE w[k] \in Generated
  <2>1. k - Len(x) \in 1..Len(o)
    BY <1>1, <1>2, <1>3, <1>4, <1>6
  <2>2. QED
    BY <1>2, <1>4, <1>6, <2>1
<1>7. QED
  BY <1>1, <1>2, <1>3, <1>4, <1>5, <1>6

\* A session that has read the first token of an item has the item.
LEMMA ItemCarried ==
  ASSUME NEW q, NEW o, NEW w, IsStored(w, q, o),
         NEW p \in Prompts, NEW i \in p.items, NEW a, a = i[1], NEW b, b = i[1] + i[2],
         NEW c, c = Cut(p.tokens, a + 1), NEW d, d = Cut(p.tokens, b), IsPrefix(c, w)
  PROVE  i \in q.items /\ IsPrefix(d, q.tokens) /\ IsPrefix(d, w)
<1>1. /\ w \in Texts /\ q.tokens \in Texts /\ IsPrefix(q.tokens, w)
      /\ Len(q.tokens) \in Nat /\ Len(w) \in Nat
      /\ \A k \in 1..Len(w) : k > Len(q.tokens) => w[k] \in Generated
  <2>1. /\ w \in Texts /\ q.tokens \in Texts /\ IsPrefix(q.tokens, w) /\ Len(q.tokens) \in Nat
        /\ \A k \in 1..Len(w) : k > Len(q.tokens) => w[k] \in Generated
    BY SaidText
  <2>2. Len(w) \in Nat
    BY <2>1 DEF Texts
  <2>3. QED
    BY <2>1, <2>2
<1>2. /\ a \in Nat /\ c \in Texts /\ Len(c) = a + 1 /\ d \in Texts
      /\ c[a + 1] \notin Generated
      /\ IsPrefix(c, q.tokens) => i \in q.items /\ IsPrefix(d, q.tokens)
  BY ItemIs DEF IsStored
<1>3. a + 1 <= Len(w) /\ w[a + 1] = c[a + 1]
  <2>1. Len(c) <= Len(w) /\ \A k \in 1..Len(c) : c[k] = w[k]
    BY <1>1, <1>2, PrefixText
  <2>2. a + 1 \in 1..Len(c)
    BY <1>2
  <2>3. QED
    BY <1>2, <2>1, <2>2
<1>4. a + 1 <= Len(q.tokens)
  <2>1. a + 1 \in 1..Len(w)
    BY <1>1, <1>2, <1>3
  <2>2. ~(a + 1 > Len(q.tokens))
    BY <1>1, <1>2, <1>3, <2>1
  <2>3. QED
    BY <1>1, <1>2, <2>2
<1>5. IsPrefix(c, q.tokens)
  BY <1>1, <1>2, <1>4, PrefixOrder
<1>6. QED
  BY <1>1, <1>2, <1>5, PrefixOrder

LEMMA ItemCrossed ==
  ASSUME NEW x \in Texts, Said(x),
         NEW p \in Prompts, NEW i \in p.items, NEW a, a = i[1], NEW b, b = i[1] + i[2],
         NEW c, c = Cut(p.tokens, a + 1), NEW d, d = Cut(p.tokens, b), IsPrefix(c, x)
  PROVE  IsPrefix(d, x) \/ IsPrefix(x, d)
<1>1. a \in Nat /\ c \in Texts /\ Len(c) = a + 1 /\ d \in Texts
  BY ItemIs
<1>2. x # Root
  <2>1. a + 1 <= Len(x)
    BY <1>1, PrefixOrder
  <2>2. QED
    BY <1>1, <2>1 DEF Root
<1>3. PICK q \in Prompts, o \in Seq(Generated) : IsPrefix(x, q.tokens \o o)
  BY <1>2 DEF Said
<1>4. PICK w : w = q.tokens \o o /\ IsStored(w, q, o)
  BY DEF IsStored
<1>5. w \in Texts /\ IsPrefix(x, w)
  BY <1>3, <1>4, SaidText
<1>6. IsPrefix(c, w)
  BY <1>1, <1>5, PrefixOrder
<1>7. IsPrefix(d, w)
  BY <1>4, <1>6, ItemCarried
<1>8. Len(d) \in Nat /\ Len(x) \in Nat
  BY <1>1 DEF Texts
<1>9. Len(d) <= Len(x) \/ Len(x) <= Len(d)
  BY <1>8
<1>10. QED
  BY <1>1, <1>5, <1>7, <1>9, PrefixOrder

\* Where two texts part is inside no item, unless one of them ends there.
LEMMA MeetClean ==
  ASSUME NEW x \in Texts, NEW y \in Texts, Said(x), Said(y)
  PROVE  /\ Clean(Meet(x, y)) \/ Meet(x, y) \in {x, y}
         /\ Said(Meet(x, y))
<1>1. PICK m : m = Meet(x, y)
  OBVIOUS
<1>2. /\ m \in Texts /\ IsPrefix(m, x) /\ IsPrefix(m, y) /\ Len(m) \in Nat
      /\ \A z \in Texts : IsPrefix(z, x) /\ IsPrefix(z, y) => IsPrefix(z, m)
  BY <1>1, MeetIs DEF Texts
<1>3. ASSUME NEW p \in Prompts, IsPrefix(m, p.tokens), Inside(p, Len(m)) PROVE m \in {x, y}
  <2>1. PICK i \in p.items : i[1] < Len(m) /\ Len(m) < i[1] + i[2]
    BY <1>3 DEF Inside
  <2>2. PICK a, b : a = i[1] /\ b = i[1] + i[2]
    OBVIOUS
  <2>3. PICK c, d : c = Cut(p.tokens, a + 1) /\ d = Cut(p.tokens, b)
    OBVIOUS
  <2>4. /\ a \in Nat /\ b \in Nat /\ p.tokens \in Texts
        /\ c \in Texts /\ Len(c) = a + 1 /\ IsPrefix(c, p.tokens)
        /\ d \in Texts /\ Len(d) = b /\ IsPrefix(d, p.tokens)
    BY <2>2, <2>3, ItemIs
  <2>5. a < Len(m) /\ Len(m) < b
    BY <2>1, <2>2
  <2>6. IsPrefix(c, m)
    BY <1>2, <1>3, <2>4, <2>5, PrefixOrder
  <2>7. IsPrefix(c, x) /\ IsPrefix(c, y)
    BY <1>2, <2>4, <2>6, PrefixOrder
  <2>8. /\ IsPrefix(d, x) \/ IsPrefix(x, d)
        /\ IsPrefix(d, y) \/ IsPrefix(y, d)
    BY <2>2, <2>3, <2>7, ItemCrossed
  <2>9. ~(IsPrefix(d, x) /\ IsPrefix(d, y))
    <3>1. ~IsPrefix(d, m)
      BY <1>2, <2>4, <2>5, PrefixOrder
    <3>2. QED
      BY <1>2, <2>4, <3>1
  <2>10. IsPrefix(x, y) \/ IsPrefix(y, x)
    <3>1. Len(x) \in Nat /\ Len(y) \in Nat
      BY DEF Texts
    <3>2. Len(x) <= Len(y) \/ Len(y) <= Len(x)
      BY <3>1
    <3>3. QED
      BY <2>4, <2>8, <2>9, <3>2, PrefixOrder
  <2>11. m = x \/ m = y
    <3>1. ASSUME NEW z \in Texts, IsPrefix(m, z), IsPrefix(z, m) PROVE m = z
      <4>1. Len(m) <= Len(z) /\ Len(z) <= Len(m) /\ Len(z) \in Nat
        BY <1>2, <3>1, PrefixOrder DEF Texts
      <4>2. Len(m) = Len(z)
        BY <1>2, <4>1
      <4>3. QED
        BY <1>2, <3>1, <4>2, PrefixOrder
    <3>2. IsPrefix(x, m) \/ IsPrefix(y, m)
      BY <1>2, <2>10, PrefixOrder
    <3>3. QED
      BY <1>2, <3>1, <3>2
  <2>12. QED
    BY <2>11
<1>4. Said(m)
  <2>1. CASE x = Root
    <3>1. Len(m) <= Len(Root) /\ Len(Root) = 0
      BY <1>2, <2>1, PrefixOrder DEF Root
    <3>2. Len(m) = Len(x)
      BY <1>2, <2>1, <3>1
    <3>3. m = Root
      BY <1>2, <2>1, <3>2, PrefixOrder
    <3>4. QED
      BY <3>3 DEF Said
  <2>2. CASE x # Root
    <3>1. PICK q \in Prompts, o \in Seq(Generated) : IsPrefix(x, q.tokens \o o)
      BY <2>2 DEF Said
    <3>2. q.tokens \o o \in Texts
      BY SaidText DEF IsStored
    <3>3. IsPrefix(m, q.tokens \o o)
      BY <1>2, <3>1, <3>2, PrefixOrder
    <3>4. QED
      BY <3>3 DEF Said
  <2>3. QED
    BY <2>1, <2>2
<1>5. QED
  BY <1>1, <1>3, <1>4 DEF Clean

\* An offset of a prompt that is inside none of its items is inside no other's.
LEMMA CleanHere ==
  ASSUME NEW q \in Prompts, NEW k \in 0..Len(q.tokens), ~Inside(q, k),
         NEW n, n = Cut(q.tokens, k)
  PROVE  Clean(n)
<1>1. q.tokens \in Texts /\ n \in Texts /\ Len(n) = k /\ IsPrefix(n, q.tokens) /\ k \in Nat
  BY PromptIs, CutPrefix
<1>2. ASSUME NEW p \in Prompts, IsPrefix(n, p.tokens), Inside(p, Len(n)) PROVE FALSE
  <2>1. PICK i \in p.items : i[1] < k /\ k < i[1] + i[2]
    BY <1>1, <1>2 DEF Inside
  <2>2. PICK c : c = Cut(p.tokens, i[1] + 1)
    OBVIOUS
  <2>3. /\ p.tokens \in Texts /\ i[1] \in Nat
        /\ c \in Texts /\ Len(c) = i[1] + 1 /\ IsPrefix(c, p.tokens)
        /\ IsPrefix(c, q.tokens) => i \in q.items
    BY <2>2, ItemIs
  <2>4. IsPrefix(c, n)
    BY <1>1, <1>2, <2>1, <2>3, PrefixOrder
  <2>5. i \in q.items
    BY <1>1, <2>3, <2>4, PrefixOrder
  <2>6. QED
    BY <2>1, <2>5 DEF Inside
<1>3. QED
  BY <1>2 DEF Clean

\* All that a session has read ends inside no item.
LEMMA CleanStored ==
  ASSUME NEW q, NEW o, NEW w, IsStored(w, q, o)
  PROVE  Clean(w)
<1>1. /\ w \in Texts /\ q.tokens \in Texts /\ IsPrefix(q.tokens, w)
      /\ Len(w) \in Nat /\ Len(q.tokens) \in Nat /\ Len(q.tokens) <= Len(w)
  <2>1. /\ w \in Texts /\ q.tokens \in Texts /\ IsPrefix(q.tokens, w) /\ Len(q.tokens) \in Nat
    BY SaidText
  <2>2. QED
    BY <2>1, PrefixOrder DEF Texts
<1>2. ASSUME NEW p \in Prompts, IsPrefix(w, p.tokens), Inside(p, Len(w)) PROVE FALSE
  <2>1. PICK i \in p.items : i[1] < Len(w) /\ Len(w) < i[1] + i[2]
    BY <1>2 DEF Inside
  <2>2. PICK a, b : a = i[1] /\ b = i[1] + i[2]
    OBVIOUS
  <2>3. PICK c, d : c = Cut(p.tokens, a + 1) /\ d = Cut(p.tokens, b)
    OBVIOUS
  <2>4. /\ a \in Nat /\ b \in Nat /\ p.tokens \in Texts
        /\ c \in Texts /\ Len(c) = a + 1 /\ IsPrefix(c, p.tokens)
        /\ d \in Texts /\ Len(d) = b
    BY <2>2, <2>3, ItemIs
  <2>5. IsPrefix(c, w)
    <3>1. Len(c) <= Len(w)
      BY <1>1, <2>1, <2>2, <2>4
    <3>2. QED
      BY <1>1, <1>2, <2>4, <3>1, PrefixOrder
  <2>6. IsPrefix(d, q.tokens)
    BY <2>2, <2>3, <2>5, ItemCarried
  <2>7. b <= Len(q.tokens)
    BY <1>1, <2>4, <2>6, PrefixOrder
  <2>8. QED
    BY <1>1, <2>1, <2>2, <2>4, <2>7
<1>3. QED
  BY <1>2 DEF Clean

\* A node that is new is the text it was grown for, or ends inside no item.
LEMMA GrownItems ==
  ASSUME NEW t, Tree(t), \A n \in Nodes(t) : Said(n),
         NEW s \in Texts, Said(s), NEW u, Grown(t, u, s)
  PROVE  \A n \in Nodes(u) : Said(n) /\ (n \in Nodes(t) \/ n = s \/ Clean(n))
<1>1. \A n \in Nodes(t) : n \in Texts
  BY ClosedNodes DEF Tree, Forest
<1>2. \A n \in Nodes(t) :
        Said(Meet(s, n)) /\ (Clean(Meet(s, n)) \/ Meet(s, n) = s \/ Meet(s, n) = n)
  BY <1>1, MeetClean
<1>3. QED
  BY <1>2 DEF Grown

\* A match ends inside no item of the prompt.
LEMMA MatchedOutside ==
  ASSUME Forest(trie), NEW p \in Prompts, NEW most \in 0..Len(p.tokens)
  PROVE  ~Inside(p, BestMatch(p, most).matched)
<1> DEFINE tok == p.tokens
<1>1. tok \in Texts /\ Len(tok) \in Nat /\ most \in Nat /\ Root \in Nodes(trie)
  BY PromptIs, ClosedNodes DEF Forest
<1>2. PICK s, m, e : s = Cut(tok, most) /\ m = Match(trie, Root, s) /\ e = Longest(m.path)
  OBVIOUS
<1>3. BestMatch(p, most) = IF Inside(p, m.matched)
                           THEN Match(trie, Root, Cut(tok, Before(p, m.matched))) ELSE m
  BY <1>2 DEF BestMatch
<1>4. CASE ~Inside(p, m.matched)
  BY <1>3, <1>4
<1>5. CASE Inside(p, m.matched)
  <2>1. s \in Texts /\ Len(s) = most /\ IsPrefix(s, tok) /\ IsPrefix(Root, s)
    BY <1>1, <1>2, CutPrefix, PrefixOrder
  <2>2. MatchOf(Nodes(trie), Root, s, m, e)
    BY <1>1, <1>2, <2>1, MatchIs
  <2>3. PICK k : k = m.matched
    OBVIOUS
  <2>4. k \in Nat /\ k <= Len(s) /\ e \in Nodes(trie) /\ IsPrefix(Cut(s, k), e)
    BY <2>2, <2>3 DEF MatchOf
  <2>5. PICK i \in p.items : i[1] < k /\ k < i[1] + i[2] /\ Before(p, k) = i[1]
    <3>1. \E i \in p.items : i[1] < k /\ k < i[1] + i[2]
      BY <1>5, <2>3 DEF Inside
    <3>2. QED
      BY <3>1 DEF Before
  <2>6. PICK a : a = i[1]
    OBVIOUS
  <2>7. a \in Nat /\ a < k /\ k < a + i[2] /\ Before(p, k) = a
    BY <2>5, <2>6, PromptIs
  <2>8. PICK z, m2, e2 : z = Cut(tok, a) /\ m2 = Match(trie, Root, z) /\ e2 = Longest(m2.path)
    OBVIOUS
  <2>9. a \in 0..Len(tok) /\ a <= most
    <3>1. a <= most
      BY <1>1, <2>1, <2>4, <2>7
    <3>2. QED
      BY <1>1, <2>7, <3>1
  <2>10. z \in Texts /\ Len(z) = a /\ IsPrefix(z, tok) /\ IsPrefix(z, z) /\ IsPrefix(Root, z)
    <3>1. z \in Texts /\ Len(z) = a /\ IsPrefix(z, tok)
      BY <1>1, <2>8, <2>9, CutPrefix
    <3>2. QED
      BY <3>1, PrefixOrder
  <2>11. MatchOf(Nodes(trie), Root, z, m2, e2)
    BY <1>1, <2>8, <2>10, MatchIs
  <2>12. IsPrefix(z, e)
    <3>1. e \in Texts
      BY <2>4, ClosedNodes DEF Forest
    <3>2. Cut(s, k) \in Texts /\ Len(Cut(s, k)) = k /\ IsPrefix(Cut(s, k), s)
      <4>1. k \in 0..Len(s)
        BY <1>1, <2>1, <2>4
      <4>2. QED
        BY <2>1, <4>1, CutPrefix
    <3>3. IsPrefix(Cut(s, k), tok)
      BY <1>1, <2>1, <3>2, PrefixOrder
    <3>4. IsPrefix(z, Cut(s, k))
      BY <1>1, <2>7, <2>10, <3>2, <3>3, PrefixOrder
    <3>5. QED
      BY <2>4, <2>10, <3>1, <3>2, <3>4, PrefixOrder
  <2>13. m2.matched \in Nat /\ m2.matched <= a
    BY <2>10, <2>11 DEF MatchOf
  <2>14. a <= m2.matched
    <3>1. IsPrefix(Root, e)
      BY <2>4, ClosedNodes DEF Forest
    <3>2. QED
      BY <2>4, <2>10, <2>11, <2>12, <3>1 DEF MatchOf
  <2>15. BestMatch(p, most).matched = a
    BY <1>3, <1>5, <2>3, <2>7, <2>8, <2>13, <2>14
  <2>16. ~Inside(p, a)
    <3>1. ASSUME NEW j \in p.items, j[1] < a, a < j[1] + j[2] PROVE FALSE
      <4>1. i = j \/ i[1] + i[2] <= j[1] \/ j[1] + j[2] <= i[1]
        BY ItemsAssumption
      <4>2. i[1] \in Nat /\ i[2] \in Nat /\ j[1] \in Nat /\ j[2] \in Nat
        BY PromptIs
      <4>3. QED
        BY <2>6, <3>1, <4>1, <4>2
    <3>2. QED
      BY <3>1 DEF Inside
  <2>17. QED
    BY <2>15, <2>16
<1>6. QED
  BY <1>4, <1>5

\* The end of an item is inside no other.
LEMMA AfterOutside ==
  ASSUME NEW p \in Prompts, NEW n \in Nat, Inside(p, n)
  PROVE  ~Inside(p, After(p, n))
<1>1. PICK i \in p.items : After(p, n) = i[1] + i[2]
  BY DEF Inside, After
<1>2. ASSUME NEW j \in p.items, j[1] < i[1] + i[2], i[1] + i[2] < j[1] + j[2] PROVE FALSE
  <2>1. i = j \/ i[1] + i[2] <= j[1] \/ j[1] + j[2] <= i[1]
    BY ItemsAssumption
  <2>2. i[1] \in Nat /\ i[2] \in Nat /\ j[1] \in Nat /\ j[2] \in Nat
    BY PromptIs
  <2>3. QED
    BY <1>2, <2>1, <2>2
<1>3. QED
  BY <1>1, <1>2 DEF Inside

\* An offset of what the session has read that is inside none of its items.
LEMMA CleanCut ==
  ASSUME InHand, prompt \in Prompts, NEW k \in 0..Len(prompt.tokens), ~Inside(prompt, k)
  PROVE  Clean(Cut(Stored, k))
<1>1. Cut(prompt.tokens, k) = Cut(Stored, k)
  BY TokensBegin
<1>2. QED
  BY <1>1, CleanHere

LEMMA SaidCut ==
  ASSUME InHand, prompt \in Prompts, outputs \in Seq(Generated), NEW x, IsPrefix(x, Stored)
  PROVE  Said(x)
BY DEF Said, Stored

LEMMA BeginItems ==
  ASSUME Inv, ItemsInv, NEW p \in Prompts, Begin(p)
  PROVE  ItemsInv'
<1>1. /\ pc = "idle" /\ pc' = "page" /\ prompt' = p
      /\ outputs' = <<>> /\ pending' = <<>> /\ trie' = trie
  BY DEF Begin
<1>2. Kept'
  BY <1>1 DEF ItemsInv, Kept
<1>3. Request'
  BY <1>1 DEF Request
<1>4. live'.rec \in Nodes(trie)
  <2>1. PICK m, s : /\ m = BestMatch(p, MaxReuse(p))
                    /\ s = Longest((trie.path \cap m.path) \cup {Root})
    OBVIOUS
  <2>2. live' = Rewound(live, Lesser(Len(s), m.matched))
    BY <2>1 DEF Begin
  <2>3. PICK target : target = Lesser(Len(s), m.matched)
    OBVIOUS
  <2>4. live'.rec = IF target = Len(live.rec) THEN live.rec ELSE <<>>
    BY <2>2, <2>3 DEF Rewound
  <2>5. live.rec = Frontier(trie)
    BY <1>1 DEF Inv, Resting, Full
  <2>6. Frontier(trie) \in Nodes(trie) /\ <<>> \in Nodes(trie)
    BY ClosedNodes DEF Inv, Tree, OnPath, Forest, Root
  <2>7. QED
    BY <2>4, <2>5, <2>6
<1>5. Ends'
  BY <1>1, <1>4 DEF Ends, Phase
<1>6. QED
  BY <1>2, <1>3, <1>5 DEF ItemsInv

LEMMA PageInItems ==
  ASSUME Inv, ItemsInv, PageIn
  PROVE  ItemsInv'
<1>1. /\ pc = "page" /\ pc' = "page" /\ todo # {}
      /\ UNCHANGED <<trie, prompt, reuse, outputs, pending, ret>>
  BY DEF PageIn
<1>2. Kept' /\ Request'
  BY <1>1 DEF ItemsInv, Kept, Request
<1>3. live'.rec \in Nodes(trie)
  <2>1. PICK n : n = Shallowest(todo)
    OBVIOUS
  <2>2. n \in Nodes(trie)
    <3>1. Forest(trie) /\ prompt \in Prompts /\ reuse \in 0..Len(prompt.tokens) /\ todo \subseteq Matched.path
      BY <1>1 DEF Inv, Tree, Paging, InHand
    <3>2. PICK m, e : m = Matched /\ e = Longest(m.path)
      OBVIOUS
    <3>3. BestMatchOf(Nodes(trie), prompt, m, e)
      BY <3>1, <3>2, BestMatchIs DEF Matched
    <3>4. todo \subseteq Nodes(trie)
      BY <3>1, <3>2, <3>3 DEF BestMatchOf
    <3>5. \A x \in todo : Len(x) \in Nat
      BY <3>1, <3>4, ClosedNodes DEF Forest
    <3>6. QED
      BY <1>1, <2>1, <3>4, <3>5, ShallowestIs
  <2>3. live'.rec = live.rec \/ live'.rec = trie.state[n]
    BY <2>1 DEF PageIn
  <2>4. trie.state[n] \in {Root, n} /\ Root \in Nodes(trie)
    BY <2>2, ClosedNodes DEF Inv, Holds, NoState, Root, Tree, Forest
  <2>5. live.rec \in Nodes(trie)
    BY <1>1 DEF ItemsInv, Ends
  <2>6. QED
    BY <2>2, <2>3, <2>4, <2>5
<1>4. Ends'
  BY <1>1, <1>3 DEF ItemsInv, Ends, Phase
<1>5. QED
  BY <1>2, <1>4 DEF ItemsInv

LEMMA SwitchedItems ==
  ASSUME Inv, ItemsInv, Switched
  PROVE  ItemsInv' /\ Nodes(trie') \subseteq Nodes(trie) /\ live'.rec \in Nodes(trie)
<1>1. /\ pc = "page" /\ pc' = "evict" /\ ret' = "schedule"
      /\ prompt' = prompt /\ reuse' = reuse /\ outputs' = outputs
  BY DEF Switched
<1>2. PICK k : k = Matched.matched
  OBVIOUS
<1>3. PICK r \in 0..k :
        /\ prompt \in Prompts /\ k \in 0..Len(prompt.tokens) /\ Len(live.rec) = r
        /\ live' = Full(Cut(prompt.tokens, r))
        /\ pending' = IF r < k THEN With(<<>>, k, FALSE) ELSE <<>>
  BY <1>2, SwitchedAt
<1>4. live'.rec = live.rec
  <2>1. PICK i \in 0..k, q \in 0..k : live = [kv |-> History(Cut(prompt.tokens, i)), rec |-> Cut(prompt.tokens, q)]
    BY <1>1, <1>2 DEF Inv, Paging
  <2>2. prompt.tokens \in Texts /\ q \in 0..Len(prompt.tokens)
    BY <1>3, <2>1, PromptIs
  <2>3. live.rec = Cut(prompt.tokens, q) /\ Len(live.rec) = q
    BY <2>1, <2>2, CutPrefix
  <2>4. q = r
    BY <1>3, <2>3
  <2>5. QED
    BY <1>3, <2>3, <2>4 DEF Full
<1>5. live.rec \in Nodes(trie) /\ Kept /\ Request
  BY <1>1 DEF ItemsInv, Ends
<1>10. Nodes(trie') \subseteq Nodes(trie)
  <2>1. Nodes(trie') \subseteq Nodes(trie) \cup {live'.rec}
    BY SwitchedStep
  <2>2. QED
    BY <1>4, <1>5, <2>1
<1>6. Kept'
  BY <1>5, <1>10 DEF Kept
<1>7. Request'
  BY <1>1, <1>5 DEF Request
<1>8. Ends'
  <2>1. ~Inside(prompt, k)
    <3>1. Forest(trie) /\ reuse \in 0..Len(prompt.tokens)
      BY DEF Inv, Tree, InHand
    <3>2. QED
      BY <1>2, <1>3, <3>1, MatchedOutside DEF Matched
  <2>2. \A o \in DOMAIN pending' : o = k
    BY <1>3 DEF With
  <2>3. QED
    BY <1>1, <2>1, <2>2 DEF Ends, Phase
<1>9. QED
  BY <1>4, <1>5, <1>6, <1>7, <1>8, <1>10 DEF ItemsInv

LEMMA EvictItems ==
  ASSUME Inv, ItemsInv, NEW n \in Nodes(trie), Evict(n)
  PROVE  ItemsInv' /\ Nodes(trie') \subseteq Nodes(trie)
<1>1. /\ pc = "evict" /\ pc' = "evict"
      /\ UNCHANGED <<live, prompt, reuse, outputs, pending, ret>>
  BY DEF Evict
<1>2. Nodes(trie') \subseteq Nodes(trie)
  BY EvictStep
<1>3. Kept' /\ Request'
  BY <1>1, <1>2 DEF ItemsInv, Kept, Request
<1>4. Frontier(trie') = Frontier(trie)
  BY EvictKeeps DEF Evict, Evictable, Inv
<1>5. Ends'
  BY <1>1, <1>4 DEF ItemsInv, Ends, Phase, Rested
<1>6. QED
  BY <1>2, <1>3, <1>5 DEF ItemsInv

LEMMA EnoughItems ==
  ASSUME Inv, ItemsInv, Enough
  PROVE  ItemsInv'
<1>1. /\ pc = "evict" /\ pc' = ret /\ ret \in {"schedule", "decode", "close", "compact"}
      /\ UNCHANGED <<trie, live, prompt, reuse, outputs, pending>>
  BY DEF Enough, Inv, Control
<1>2. Kept' /\ Request'
  BY <1>1 DEF ItemsInv, Kept, Request
<1>3. Ends'
  BY <1>1 DEF ItemsInv, Ends, Phase, Rested
<1>4. QED
  BY <1>2, <1>3 DEF ItemsInv

LEMMA ScheduleItems ==
  ASSUME Inv, ItemsInv, NEW n \in 1..Len(prompt.tokens), Schedule(n)
  PROVE  ItemsInv'
<1>1. PICK o : o = IF Inside(prompt, n) THEN After(prompt, n) ELSE n
  OBVIOUS
<1>2. /\ pc = "schedule" /\ pc' = "prefill"
      /\ UNCHANGED <<trie, live, prompt, reuse, outputs>>
      /\ pending' = IF o <= base \/ o > Len(prompt.tokens) THEN pending ELSE With(pending, o, TRUE)
  BY <1>1 DEF Schedule, Here
<1>3. prompt \in Prompts /\ n \in Nat
  <2>1. prompt \in Prompts
    BY <1>2 DEF ItemsInv, Request
  <2>2. Len(prompt.tokens) \in Nat
    BY <2>1, PromptIs
  <2>3. QED
    BY <2>1, <2>2
<1>4. ~Inside(prompt, o)
  BY <1>1, <1>3, AfterOutside
<1>5. Kept' /\ Request'
  BY <1>2 DEF ItemsInv, Kept, Request
<1>6. \A x \in DOMAIN pending' : x \in DOMAIN pending \/ x = o
  BY <1>2 DEF With
<1>7. live.rec = Frontier(trie)
  <2>1. Phase = "schedule"
    BY <1>2 DEF Phase
  <2>2. QED
    BY <2>1 DEF Inv, Running
<1>8. Rested'
  BY <1>2, <1>7 DEF Rested
<1>9. \A x \in DOMAIN pending' : ~Inside(prompt', x)
  BY <1>2, <1>4, <1>6 DEF ItemsInv, Ends
<1>10. Ends'
  BY <1>2, <1>8, <1>9 DEF Ends, Phase
<1>11. QED
  BY <1>5, <1>10 DEF ItemsInv

LEMMA PrefillItems ==
  ASSUME Inv, ItemsInv, NEW to \in 1..Len(prompt.tokens), Prefill(to)
  PROVE  ItemsInv'
<1>1. /\ pc = "prefill" /\ pc' = "prefill"
      /\ Offset(live) < to /\ Whole(to) /\ Forward(to)
      /\ UNCHANGED <<trie, prompt, reuse, outputs, pending>>
  BY DEF Prefill, Here
<1>2. prompt \in Prompts
  BY <1>1 DEF ItemsInv, Request
<1>3. Len(prompt.tokens) \in Nat
  BY <1>2, PromptIs
<1>4. /\ InHand /\ live.rec \in Texts /\ live = Full(live.rec) /\ IsPrefix(live.rec, Stored)
  <2>1. Phase = "prefill"
    BY <1>1 DEF Phase
  <2>2. QED
    BY <2>1 DEF Inv, Running
<1>5. Offset(live) <= to /\ to \in Nat /\ to \in 0..Len(prompt.tokens)
  <2>1. Offset(Full(live.rec)) = Len(live.rec) /\ Len(live.rec) \in Nat
    BY <1>4, FullIs
  <2>2. QED
    BY <1>1, <1>3, <1>4, <2>1
<1>6. PICK y : y = Cut(Stored, to)
  OBVIOUS
<1>7. live' = Full(y) /\ y \in Texts /\ Len(y) = to
  BY <1>1, <1>4, <1>5, <1>6, ForwardTo
<1>8. live'.rec = y
  BY <1>7, FullIs
<1>9. Clean(y) \/ y = ShortOf(prompt)
  <2>1. CASE Inside(prompt, to)
    <3>1. to = Len(prompt.tokens) - 1
      BY <1>1, <2>1 DEF Whole
    <3>2. Cut(prompt.tokens, to) = Cut(Stored, to)
      BY <1>2, <1>4, <1>5, TokensBegin
    <3>3. QED
      BY <1>6, <3>1, <3>2 DEF ShortOf
  <2>2. CASE ~Inside(prompt, to)
    BY <1>2, <1>4, <1>5, <1>6, <2>2, CleanCut
  <2>3. QED
    BY <2>1, <2>2
<1>10. Kept' /\ Request'
  BY <1>1 DEF ItemsInv, Kept, Request
<1>11. Rested'
  BY <1>1, <1>8, <1>9 DEF Rested
<1>12. Ends'
  BY <1>1, <1>11 DEF ItemsInv, Ends, Phase
<1>13. QED
  BY <1>10, <1>12 DEF ItemsInv

LEMMA PrefillEndsItems ==
  ASSUME ItemsInv, PrefillEnds
  PROVE  ItemsInv'
<1>1. /\ pc = "prefill" /\ pc' = "attach"
      /\ UNCHANGED <<trie, live, prompt, reuse, outputs, pending>>
  BY DEF PrefillEnds
<1>2. Rested'
  BY <1>1 DEF ItemsInv, Ends, Phase, Rested
<1>3. Kept' /\ Request'
  BY <1>1 DEF ItemsInv, Kept, Request
<1>4. Ends'
  BY <1>1, <1>2 DEF ItemsInv, Ends, Phase
<1>5. QED
  BY <1>3, <1>4 DEF ItemsInv

\* What is pending is ahead of the trie, so a session that has read nothing
\* attaches nothing.
LEMMA AttachAhead ==
  ASSUME Inv, Attach, live.rec = Frontier(trie)
  PROVE  trie' = trie
<1>1. PICK o : o = Min(DOMAIN pending)
  OBVIOUS
<1>2. /\ pc = "attach" /\ DOMAIN pending # {} /\ (o > Offset(live) => trie' = trie)
  BY <1>1 DEF Attach
<1>3. live.rec \in Texts /\ live = Full(live.rec)
  BY <1>2 DEF Inv, Running, Phase
<1>4. Offset(live) = Len(live.rec) /\ Len(live.rec) \in Nat
  <2>1. Offset(Full(live.rec)) = Len(live.rec) /\ Len(live.rec) \in Nat
    BY <1>3, FullIs
  <2>2. QED
    BY <1>3, <2>1
<1>5. o \in DOMAIN pending /\ o \in Nat
  <2>1. DOMAIN pending \in SUBSET Nat
    <3>1. DOMAIN pending \subseteq 1..Len(prompt.tokens) /\ Len(prompt.tokens) \in Nat
      BY <1>3, StoredIs DEF Inv, Capturing
    <3>2. QED
      BY <3>1
  <2>2. QED
    BY <1>1, <1>2, <2>1, MinIs
<1>6. Len(Frontier(trie)) < o
  BY <1>5 DEF Inv, Capturing
<1>7. QED
  BY <1>2, <1>4, <1>5, <1>6

LEMMA AttachItems ==
  ASSUME Inv, ItemsInv, Attach
  PROVE  ItemsInv' /\ \A n \in Nodes(trie') : n \in Nodes(trie) \/ Clean(n)
<1>1. /\ pc = "attach" /\ pc' = "attach"
      /\ DOMAIN pending' \subseteq DOMAIN pending
      /\ UNCHANGED <<live, outputs, prompt, reuse, ret>>
  BY DEF Attach, Here
<1>2. PICK o \in DOMAIN pending : Grown(trie, trie', Cut(Stored, o))
  BY AttachStep
<1>3. prompt \in Prompts /\ outputs \in Seq(Generated) /\ InHand /\ ~Inside(prompt, o)
  BY <1>1 DEF ItemsInv, Request, Ends, Inv
<1>4. o \in 0..Len(prompt.tokens) /\ o \in 0..Len(Stored) /\ Stored \in Texts
  <2>1. DOMAIN pending \subseteq 1..Len(prompt.tokens)
    BY DEF Inv, Capturing
  <2>2. /\ Len(prompt.tokens) \in Nat /\ Len(Stored) \in Nat /\ Len(prompt.tokens) <= Len(Stored)
        /\ Stored \in Texts
    BY <1>3, StoredIs
  <2>3. o \in 1..Len(prompt.tokens)
    BY <2>1
  <2>4. QED
    BY <2>2, <2>3
<1>5. PICK s : s = Cut(Stored, o)
  OBVIOUS
<1>6. s \in Texts /\ IsPrefix(s, Stored)
  BY <1>4, <1>5, CutPrefix
<1>7. Clean(s) /\ Said(s)
  BY <1>3, <1>4, <1>5, <1>6, CleanCut, SaidCut
<1>8. PICK t, u : t = trie /\ u = trie'
  OBVIOUS
<1>9. Tree(t) /\ (\A n \in Nodes(t) : Said(n)) /\ Grown(t, u, s)
  BY <1>2, <1>5, <1>8 DEF Inv, ItemsInv, Kept
<1>10. \A n \in Nodes(u) : Said(n) /\ (n \in Nodes(t) \/ Clean(n))
  BY <1>6, <1>7, <1>9, GrownItems
<1>11. Kept'
  BY <1>8, <1>10 DEF Kept
<1>12. Request'
  BY <1>1 DEF ItemsInv, Request
<1>13. live.rec = Frontier(trie) => trie' = trie
  BY AttachAhead
<1>14. ret' = "close" => Rested'
  BY <1>1, <1>13 DEF ItemsInv, Ends, Rested
<1>15. Ends'
  BY <1>1, <1>14 DEF ItemsInv, Ends, Phase
<1>16. QED
  BY <1>8, <1>10, <1>11, <1>12, <1>15 DEF ItemsInv

LEMMA AttachEndsItems ==
  ASSUME Inv, ItemsInv, AttachEnds
  PROVE  ItemsInv'
<1>1. /\ pc = "attach" /\ pc' = "evict"
      /\ UNCHANGED <<trie, live, prompt, reuse, outputs, pending, ret>>
  BY DEF AttachEnds
<1>2. ret \in {"decode", "close"}
  BY <1>1 DEF Inv, Control
<1>3. Kept' /\ Request'
  BY <1>1 DEF ItemsInv, Kept, Request
<1>4. Ends'
  BY <1>1, <1>2 DEF ItemsInv, Ends, Phase, Rested
<1>5. QED
  BY <1>3, <1>4 DEF ItemsInv

LEMMA SeedItems ==
  ASSUME ItemsInv, Seed
  PROVE  ItemsInv'
<1>1. /\ pc = "decode" /\ pc' = "decode"
      /\ UNCHANGED <<trie, prompt, reuse, outputs, pending>>
  BY DEF Seed, Here
<1>2. Kept' /\ Request' /\ Ends'
  BY <1>1 DEF ItemsInv, Kept, Request, Ends, Phase
<1>3. QED
  BY <1>2 DEF ItemsInv

LEMMA DecodeItems ==
  ASSUME ItemsInv, NEW tok \in Generated, Decode(tok)
  PROVE  ItemsInv'
<1>1. /\ pc = "decode" /\ pc' = "decode" /\ outputs' = Append(outputs, tok)
      /\ UNCHANGED <<trie, prompt, reuse, pending>>
  BY DEF Decode, Here
<1>2. outputs' \in Seq(Generated)
  BY <1>1 DEF ItemsInv, Request
<1>3. Kept' /\ Request' /\ Ends'
  BY <1>1, <1>2 DEF ItemsInv, Kept, Request, Ends, Phase
<1>4. QED
  BY <1>3 DEF ItemsInv

LEMMA DecodeEndsItems ==
  ASSUME Inv, ItemsInv, DecodeEnds
  PROVE  ItemsInv'
<1>1. /\ pc = "decode" /\ pc' = "close" /\ Offset(live) = Len(Stored)
      /\ UNCHANGED <<trie, live, prompt, reuse, outputs, pending>>
  BY DEF DecodeEnds, Here
<1>2. /\ InHand /\ live.rec \in Texts /\ live = Full(live.rec) /\ IsPrefix(live.rec, Stored)
  <2>1. Phase = "decode"
    BY <1>1 DEF Phase
  <2>2. QED
    BY <2>1 DEF Inv, Running
<1>3. live.rec = Stored
  <2>1. Offset(Full(live.rec)) = Len(live.rec)
    BY <1>2, FullIs
  <2>2. Len(live.rec) = Len(Stored) /\ Stored \in Texts
    BY <1>1, <1>2, <2>1, StoredIs
  <2>3. QED
    BY <1>2, <2>2, PrefixOrder
<1>4. Clean(live'.rec)
  <2>1. IsStored(Stored, prompt, outputs)
    BY <1>1 DEF ItemsInv, Request, IsStored, Stored
  <2>2. Clean(Stored)
    BY <2>1, CleanStored
  <2>3. QED
    BY <1>1, <1>3, <2>2
<1>5. Kept' /\ Request'
  BY <1>1 DEF ItemsInv, Kept, Request
<1>6. Ends'
  BY <1>1, <1>4 DEF ItemsInv, Ends, Phase, Rested
<1>7. QED
  BY <1>5, <1>6 DEF ItemsInv

LEMMA CloseItems ==
  ASSUME Inv, ItemsInv, Close
  PROVE  /\ ItemsInv'
         /\ \A n \in Nodes(trie') : n \in Nodes(trie) \/ Clean(n) \/ n = ShortOf(prompt)
<1>1. pc = "close" /\ Phase = "close" /\ live' = live /\ pending' = pending
  BY DEF Close, Phase
<1>2. /\ InHand /\ live.rec \in Texts /\ IsPrefix(live.rec, Stored) /\ DOMAIN pending = {}
  BY <1>1 DEF Inv, Running, Capturing
<1>3. prompt \in Prompts /\ outputs \in Seq(Generated) /\ Rested
  BY <1>1 DEF ItemsInv, Request, Ends
<1>4. Said(live.rec)
  BY <1>2, <1>3, SaidCut
<1>5. PICK t, u, s : t = trie /\ u = trie' /\ s = live.rec
  OBVIOUS
<1>6. Tree(t) /\ (\A n \in Nodes(t) : Said(n)) /\ Grown(t, u, s)
  BY <1>5, CloseStep DEF Inv, ItemsInv, Kept
<1>7. \A n \in Nodes(u) : Said(n) /\ (n \in Nodes(t) \/ n = s \/ Clean(n))
  BY <1>2, <1>4, <1>5, <1>6, GrownItems
<1>13. Frontier(trie) \in Nodes(trie)
  BY DEF Inv, Tree, OnPath
<1>14. \A n \in Nodes(trie') : n \in Nodes(trie) \/ Clean(n) \/ n = ShortOf(prompt)
  BY <1>3, <1>5, <1>7, <1>13 DEF Rested
<1>8. Kept'
  BY <1>5, <1>7 DEF Kept
<1>9. \/ pc' = "evict" /\ ret' = "compact" /\ UNCHANGED <<prompt, reuse, outputs>>
      \/ pc' = "idle" /\ outputs' = <<>>
  BY DEF Close, SessionOver
<1>10. Request'
  <2>1. CASE pc' = "evict" /\ UNCHANGED <<prompt, reuse, outputs>>
    BY <1>1, <2>1 DEF ItemsInv, Request
  <2>2. CASE pc' = "idle" /\ outputs' = <<>>
    <3>1. <<>> \in Seq(Generated)
      OBVIOUS
    <3>2. QED
      BY <2>2, <3>1 DEF Request
  <2>3. QED
    BY <1>9, <2>1, <2>2
<1>11. Ends'
  BY <1>1, <1>2, <1>9 DEF Ends, Phase
<1>12. QED
  BY <1>8, <1>10, <1>11, <1>14 DEF ItemsInv

LEMMA CompactItems ==
  ASSUME Inv, ItemsInv, Compact
  PROVE  ItemsInv' /\ Nodes(trie') \subseteq Nodes(trie)
<1>1. pc = "compact" /\ pc' = "idle" /\ outputs' = <<>> /\ pending' = pending
  BY DEF Compact, SessionOver
<1>2. DOMAIN pending = {}
  BY <1>1 DEF Inv, Capturing, Phase
<1>3. Nodes(trie') \subseteq Nodes(trie)
  BY CompactStep
<1>4. Kept'
  BY <1>3 DEF ItemsInv, Kept
<1>5. Request' /\ Ends'
  BY <1>1, <1>2 DEF Request, Ends, Phase
<1>6. QED
  BY <1>3, <1>4, <1>5 DEF ItemsInv

LEMMA InitItems ==
  ASSUME Init
  PROVE  ItemsInv
<1>1. Nodes(trie) = {Root} /\ outputs = <<>> /\ pc = "idle" /\ pending = <<>>
  BY DEF Init, Nodes
<1>3. Kept
  BY <1>1 DEF Kept, Said
<1>4. Request /\ Ends
  BY <1>1 DEF Request, Ends, Phase
<1>5. QED
  BY <1>3, <1>4 DEF ItemsInv

LEMMA NextItems ==
  ASSUME Inv, ItemsInv, [Next]_vars
  PROVE  /\ ItemsInv'
         /\ \A n \in Nodes(trie') :
              n \in Nodes(trie) \/ Clean(n) \/ (pc = "close" /\ n = ShortOf(prompt))
<1> DEFINE Whole_ == \A n \in Nodes(trie') :
                       n \in Nodes(trie) \/ Clean(n) \/ (pc = "close" /\ n = ShortOf(prompt))
<1>1. trie' = trie => Whole_
  OBVIOUS
<1>2. Nodes(trie') \subseteq Nodes(trie) => Whole_
  OBVIOUS
<1>3. ASSUME NEW p \in Prompts, Begin(p) PROVE ItemsInv' /\ Whole_
  BY <1>1, <1>3, BeginItems DEF Begin
<1>4. ASSUME PageIn PROVE ItemsInv' /\ Whole_
  BY <1>1, <1>4, PageInItems DEF PageIn
<1>5. ASSUME Switched PROVE ItemsInv' /\ Whole_
  BY <1>2, <1>5, SwitchedItems
<1>6. ASSUME NEW n \in Nodes(trie), Evict(n) PROVE ItemsInv' /\ Whole_
  BY <1>2, <1>6, EvictItems
<1>7. ASSUME Enough PROVE ItemsInv' /\ Whole_
  BY <1>1, <1>7, EnoughItems DEF Enough
<1>8. ASSUME NEW n \in 1..Len(prompt.tokens), Schedule(n) PROVE ItemsInv' /\ Whole_
  BY <1>1, <1>8, ScheduleItems DEF Schedule
<1>9. ASSUME NEW n \in 1..Len(prompt.tokens), Prefill(n) PROVE ItemsInv' /\ Whole_
  BY <1>1, <1>9, PrefillItems DEF Prefill
<1>10. ASSUME PrefillEnds PROVE ItemsInv' /\ Whole_
  BY <1>1, <1>10, PrefillEndsItems DEF PrefillEnds
<1>11. ASSUME Attach PROVE ItemsInv' /\ Whole_
  BY <1>11, AttachItems
<1>12. ASSUME AttachEnds PROVE ItemsInv' /\ Whole_
  BY <1>1, <1>12, AttachEndsItems DEF AttachEnds
<1>13. ASSUME Seed PROVE ItemsInv' /\ Whole_
  BY <1>1, <1>13, SeedItems DEF Seed
<1>14. ASSUME NEW tok \in Generated, Decode(tok) PROVE ItemsInv' /\ Whole_
  BY <1>1, <1>14, DecodeItems DEF Decode
<1>15. ASSUME DecodeEnds PROVE ItemsInv' /\ Whole_
  BY <1>1, <1>15, DecodeEndsItems DEF DecodeEnds
<1>16. ASSUME Close PROVE ItemsInv' /\ Whole_
  BY <1>16, CloseItems DEF Close
<1>17. ASSUME Compact PROVE ItemsInv' /\ Whole_
  BY <1>2, <1>17, CompactItems
<1>18. ASSUME UNCHANGED vars PROVE ItemsInv' /\ Whole_
  <2>1. UNCHANGED <<trie, live, prompt, reuse, outputs, pending, pc, ret>>
    BY <1>18 DEF vars
  <2>2. Kept' /\ Request' /\ Ends'
    BY <2>1 DEF ItemsInv, Kept, Request, Ends, Phase, Rested
  <2>3. QED
    BY <1>1, <2>1, <2>2 DEF ItemsInv
<1>19. QED
  BY <1>3, <1>4, <1>5, <1>6, <1>7, <1>8, <1>9, <1>10, <1>11, <1>12, <1>13, <1>14, <1>15,
     <1>16, <1>17, <1>18 DEF Next

\* Where a session may capture a snapshot is inside no item of its prompt, and
\* where it may be closed is inside none either, or is one token short of its
\* prompt, or is where it started.
THEOREM ItemsKept == Spec => []ItemsInv
<1>1. Init => ItemsInv
  BY InitItems
<1>2. Inv /\ ItemsInv /\ [Next]_vars => ItemsInv'
  BY NextItems
<1>3. QED
  BY <1>1, <1>2, InvHolds, PTL DEF Spec

LEMMA ItemsStep ==
  ASSUME Inv, ItemsInv, [Next]_vars
  PROVE  /\ \A p \in Prompts, n \in Nodes(trie') \ Nodes(trie) :
              IsPrefix(n, p.tokens) /\ Inside(p, Len(n)) =>
                pc = "close" /\ n = Cut(prompt.tokens, Len(prompt.tokens) - 1)
         /\ Switched /\ Inside(prompt, Offset(live')) =>
              Cut(prompt.tokens, Offset(live')) \in Nodes(trie)
<1>1. ASSUME NEW p \in Prompts, NEW n \in Nodes(trie') \ Nodes(trie),
             IsPrefix(n, p.tokens), Inside(p, Len(n))
      PROVE  pc = "close" /\ n = Cut(prompt.tokens, Len(prompt.tokens) - 1)
  <2>1. ~Clean(n)
    BY <1>1 DEF Clean
  <2>2. pc = "close" /\ n = ShortOf(prompt)
    BY <2>1, NextItems
  <2>3. QED
    BY <2>2 DEF ShortOf
<1>2. ASSUME Switched PROVE Cut(prompt.tokens, Offset(live')) \in Nodes(trie)
  <2>1. PICK r \in 0..Matched.matched :
          /\ prompt \in Prompts /\ Matched.matched \in 0..Len(prompt.tokens)
          /\ live' = Full(Cut(prompt.tokens, r)) /\ Offset(live') = r
    BY <1>2, SwitchedAt
  <2>2. live'.rec = Cut(prompt.tokens, r)
    BY <2>1 DEF Full
  <2>3. live'.rec \in Nodes(trie)
    BY <1>2, SwitchedItems
  <2>4. QED
    BY <2>1, <2>2, <2>3
<1>3. QED
  BY <1>1, <1>2

\* No step but the closing of a session one token short of its prompt makes a
\* node inside a media item, and no request resumes inside one but at a node.
THEOREM ItemsAreWhole == Spec => ItemsWhole
<1>1. Inv /\ ItemsInv /\ [Next]_vars =>
        [/\ \A p \in Prompts, n \in Nodes(trie') \ Nodes(trie) :
              IsPrefix(n, p.tokens) /\ Inside(p, Len(n)) =>
                pc = "close" /\ n = Cut(prompt.tokens, Len(prompt.tokens) - 1)
         /\ Switched /\ Inside(prompt, Offset(live')) =>
              Cut(prompt.tokens, Offset(live')) \in Nodes(trie)]_vars
  BY ItemsStep
<1>2. QED
  BY <1>1, InvHolds, ItemsKept, PTL DEF Spec, ItemsWhole
=============================================================================
