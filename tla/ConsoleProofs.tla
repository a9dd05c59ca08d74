---------------------------- MODULE ConsoleProofs ----------------------------
(***************************************************************************)
(* Proofs about the three parts of the console that MCConsole checks       *)
(* together: the dialog with the name of a runner, the settings and the    *)
(* theme, for any scopes, texts, numbers, saves and tabs.  Each part has   *)
(* its own specification, and nothing is assumed about the others.         *)
(*                                                                         *)
(* The dialog removes entries from a list and the name loses characters by *)
(* one operator, Kept, which is a recursion over positions.  No induction  *)
(* theorem that takes an operator can be used here; a recursion is solved  *)
(* with the least element of a set instead (UpTo), and KeptIsSubsequence   *)
(* says once what Kept returns.  SelectorInv is the key to the dialog: an  *)
(* object per key in what is fetched, no key twice on the right.           *)
(***************************************************************************)
EXTENDS RunnerName, Settings, Theme, FiniteSetTheorems, SequenceTheorems, TLAPS

-----------------------------------------------------------------------------
(* Recursion over positions.                                               *)

\* Induction over 0..n: a set that holds 0 and each successor holds them all.
LEMMA UpTo ==
    ASSUME NEW n \in Nat, NEW S, 0 \in S, \A i \in 1..n : i - 1 \in S => i \in S
    PROVE  \A i \in 0..n : i \in S
<1> SUFFICES ASSUME NEW k \in 0..n, k \notin S PROVE FALSE
  OBVIOUS
<1> DEFINE Missing == {i \in 0..n : i \notin S}
           Less == OpToRel(<, Nat)
<1>1. PICK least \in Missing : \A i \in Missing : ~(<<i, least>> \in Less)
  <2>1. IsWellFoundedOn(Less, Nat)
    BY NatLessThanWellFounded
  <2>2. Missing \subseteq Nat /\ Missing # {}
    OBVIOUS
  <2> HIDE DEF Less, Missing
  <2> QED  BY <2>1, <2>2, WFMin
<1>2. least \in 1..n
  OBVIOUS
<1>3. least - 1 \notin Missing
  <2>1. <<least - 1, least>> \in Less
    BY <1>2 DEF OpToRel
  <2> QED  BY <1>1, <2>1
<1> QED  BY <1>2, <1>3

\* f starts at base and takes step i from one value to the next.
Follows(f, n, base, step) == f[0] = base /\ \A i \in 1..n : f[i] = step[i][f[i - 1]]

\* A recursion over 0..n with values in S has a solution.
LEMMA Recursion ==
    ASSUME NEW n \in Nat, NEW S, NEW base \in S, NEW step \in [1..n -> [S -> S]]
    PROVE  \E f \in [0..n -> S] : Follows(f, n, base, step)
<1> DEFINE Solved == {m \in 0..n : \E f \in [0..m -> S] : Follows(f, m, base, step)}
<1>1. 0 \in Solved
  <2>1. [i \in 0..0 |-> base] \in [0..0 -> S] /\ Follows([i \in 0..0 |-> base], 0, base, step)
    BY DEF Follows
  <2>2. \E f \in [0..0 -> S] : Follows(f, 0, base, step)
    BY <2>1
  <2> QED  BY <2>2
<1>2. ASSUME NEW m \in 1..n, m - 1 \in Solved PROVE m \in Solved
  <2>1. PICK f \in [0..(m - 1) -> S] : Follows(f, m - 1, base, step)
    BY <1>2
  <2> DEFINE g == [i \in 0..m |-> IF i = m THEN step[m][f[m - 1]] ELSE f[i]]
  <2>2. step[m][f[m - 1]] \in S
    <3>1. step[m] \in [S -> S] /\ f[m - 1] \in S
      OBVIOUS
    <3> QED  BY <3>1
  <2>3. g \in [0..m -> S]
    BY <2>2
  <2>4. Follows(g, m, base, step)
    <3>1. g[0] = base
      BY <2>1 DEF Follows
    <3>2. ASSUME NEW i \in 1..m PROVE g[i] = step[i][g[i - 1]]
      <4>1. g[i - 1] = f[i - 1]
        OBVIOUS
      <4>2. CASE i = m
        <5>1. g[i] = step[m][f[m - 1]]
          BY <4>2
        <5> HIDE DEF g
        <5> QED  BY <4>1, <4>2, <5>1
      <4>3. CASE i # m
        <5>1. i \in 1..(m - 1) /\ g[i] = f[i]
          BY <4>3
        <5> QED  BY <2>1, <4>1, <5>1 DEF Follows
      <4> QED  BY <4>2, <4>3
    <3> QED  BY <3>1, <3>2 DEF Follows
  <2> HIDE DEF g
  <2>5. \E h \in [0..m -> S] : Follows(h, m, base, step)
    BY <2>3, <2>4
  <2> QED  BY <2>5
<1> HIDE DEF Solved
<1>3. n \in Solved
  <2>1. \A m \in 0..n : m \in Solved
    BY <1>1, <1>2, UpTo, Zenon
  <2> QED  BY <2>1
<1> QED  BY <1>3 DEF Solved

\* What Kept is: the last value of a recursion over the positions.
LEMMA KeptUnfolds ==
    ASSUME NEW S, NEW seq \in Seq(S), NEW at
    PROVE  \E f \in [0..Len(seq) -> Seq(S)] :
              /\ Kept(seq, at) = f[Len(seq)] /\ f[0] = <<>>
              /\ \A i \in 1..Len(seq) :
                    f[i] = IF i \in at THEN Append(f[i - 1], seq[i]) ELSE f[i - 1]
<1> DEFINE n == Len(seq)
           Lists == Seq(S)
           NextOf(i, x) == IF i \in at THEN Append(x, seq[i]) ELSE x
           step == [i \in 1..n |-> [x \in Lists |-> NextOf(i, x)]]
           Values(f) == [i \in 0..n |->
                           IF i = 0 THEN <<>>
                           ELSE IF i \in at THEN Append(f[i - 1], seq[i]) ELSE f[i - 1]]
           upTo == CHOOSE f : f = Values(f)
<1>1. n \in Nat /\ <<>> \in Lists
  OBVIOUS
<1>2. \A i \in 1..n, x \in Lists : NextOf(i, x) \in Lists
  <2>1. \A i \in 1..n : seq[i] \in S
    OBVIOUS
  <2> HIDE DEF n
  <2> QED  BY <2>1
<1>3. PICK f \in [0..n -> Lists] : f[0] = <<>> /\ \A i \in 1..n : f[i] = NextOf(i, f[i - 1])
  <2> HIDE DEF n, Lists, NextOf
  <2>1. step \in [1..n -> [Lists -> Lists]]
    BY <1>2
  <2>2. \A i \in 1..n, x \in Lists : step[i][x] = NextOf(i, x)
    OBVIOUS
  <2> HIDE DEF step
  <2>3. PICK f \in [0..n -> Lists] : Follows(f, n, <<>>, step)
    BY <1>1, <2>1, Recursion
  <2>4. \A i \in 1..n : f[i - 1] \in Lists
    BY <1>1, <2>3
  <2> QED  BY <2>2, <2>3, <2>4 DEF Follows
<1>4. f = Values(f)
  <2>1. ASSUME NEW i \in 0..n
        PROVE  f[i] = IF i = 0 THEN <<>>
                      ELSE IF i \in at THEN Append(f[i - 1], seq[i]) ELSE f[i - 1]
    <3>1. i # 0 => i \in 1..n
      BY <1>1
    <3> HIDE DEF n, Lists
    <3> QED  BY <1>3, <3>1
  <2> HIDE DEF n, Lists
  <2>2. f = [i \in 0..n |-> f[i]]
    OBVIOUS
  <2> QED  BY <2>1, <2>2
<1>5. upTo = Values(upTo)
  <2> HIDE DEF Values
  <2> QED  BY <1>4
<1>6. \A i \in 0..n : upTo[i] = f[i]
  <2> DEFINE Same == {i \in 0..n : upTo[i] = f[i]}
  <2> HIDE DEF upTo, n, Lists
  <2>1. 0 \in Same
    BY <1>1, <1>3, <1>5
  <2>2. ASSUME NEW i \in 1..n, i - 1 \in Same PROVE i \in Same
    <3>1. i \in 0..n /\ i # 0 /\ upTo[i - 1] = f[i - 1]
      BY <1>1, <2>2
    <3>2. upTo[i] = IF i \in at THEN Append(upTo[i - 1], seq[i]) ELSE upTo[i - 1]
      BY <1>5, <3>1
    <3> QED  BY <1>3, <3>1, <3>2
  <2>3. \A i \in 0..n : i \in Same
    <3> HIDE DEF Same
    <3> QED  BY <1>1, <2>1, <2>2, UpTo
  <2> QED  BY <2>3
<1>7. Kept(seq, at) = upTo[n]
  BY DEF Kept
<1>8. Kept(seq, at) = f[n]
  <2> HIDE DEF upTo, n
  <2> QED  BY <1>1, <1>6, <1>7
<1> QED  BY <1>3, <1>8

\* pos gives the positions in seq, all of those in at up to m, of the n entries
\* of t, in order.
Positions(pos, n, t, seq, at, m) ==
    /\ pos \in [1..n -> at \cap (1..m)]
    /\ \A j \in 1..n : t[j] = seq[pos[j]]
    /\ \A j, k \in 1..n : j < k => pos[j] < pos[k]
    /\ \A i \in at \cap (1..m) : \E j \in 1..n : pos[j] = i

Lists(t, seq, at, m) == \E pos : Positions(pos, Len(t), t, seq, at, m)

\* What Kept computes: the entries at these positions, each once and in order.
LEMMA KeptIsSubsequence ==
    ASSUME NEW S, NEW seq \in Seq(S), NEW at
    PROVE  Kept(seq, at) \in Seq(S) /\ Lists(Kept(seq, at), seq, at, Len(seq))
<1> DEFINE n == Len(seq)
<1>1. PICK f \in [0..n -> Seq(S)] :
         /\ Kept(seq, at) = f[n] /\ f[0] = <<>>
         /\ \A i \in 1..n : f[i] = IF i \in at THEN Append(f[i - 1], seq[i]) ELSE f[i - 1]
  BY KeptUnfolds
<1>2. n \in Nat /\ \A i \in 1..n : seq[i] \in S
  OBVIOUS
<1> DEFINE Good == {i \in 0..n : Lists(f[i], seq, at, i)}
<1> HIDE DEF n
<1>3. 0 \in Good
  <2>1. Lists(<<>>, seq, at, 0)
    <3>1. Positions(<<>>, 0, <<>>, seq, at, 0)
      <4>1. 1..0 = {} /\ at \cap (1..0) = {} /\ <<>> \in [{} -> {}]
        OBVIOUS
      <4> QED  BY <4>1 DEF Positions
    <3>2. Len(<<>>) = 0
      OBVIOUS
    <3> QED  BY <3>1, <3>2 DEF Lists
  <2> QED  BY <1>1, <1>2, <2>1
<1>4. ASSUME NEW i \in 1..n, i - 1 \in Good PROVE i \in Good
  <2>1. i - 1 \in 0..n /\ i \in 0..n /\ seq[i] \in S /\ f[i - 1] \in Seq(S)
    BY <1>2
  <2> DEFINE t == f[i - 1]
             len == Len(t)
  <2>2. t \in Seq(S) /\ len \in Nat
    BY <2>1
  <2>3. PICK pos : Positions(pos, len, t, seq, at, i - 1)
    BY <1>4 DEF Lists
  <2> HIDE DEF t, len
  <2>4. CASE i \notin at
    <3>1. f[i] = t /\ at \cap (1..i) = at \cap (1..(i - 1))
      BY <1>1, <1>2, <2>1, <2>4 DEF t
    <3>2. Lists(t, seq, at, i)
      BY <2>3, <3>1 DEF Lists, len, Positions
    <3> QED  BY <2>1, <3>1, <3>2
  <2>5. CASE i \in at
    <3> DEFINE u == Append(t, seq[i])
               longer == [j \in 1..(len + 1) |-> IF j = len + 1 THEN i ELSE pos[j]]
    <3>1. f[i] = u
      BY <1>1, <2>5 DEF t
    <3>2. /\ Len(u) = len + 1 /\ u[len + 1] = seq[i]
          /\ \A j \in 1..len : u[j] = t[j]
      BY <2>1, <2>2 DEF len
    <3> HIDE DEF u
    <3>3. at \cap (1..i) = (at \cap (1..(i - 1))) \cup {i}
      BY <1>2, <2>1, <2>5
    <3>4. \A j \in 1..(len + 1) : j = len + 1 \/ j \in 1..len
      BY <2>2
    <3>5. longer \in [1..(len + 1) -> at \cap (1..i)]
      BY <2>3, <3>3, <3>4 DEF Positions
    <3>6. \A j \in 1..(len + 1) : u[j] = seq[longer[j]]
      BY <2>2, <2>3, <3>2, <3>4 DEF Positions
    <3>7. ASSUME NEW j \in 1..(len + 1), NEW k \in 1..(len + 1), j < k
          PROVE  longer[j] < longer[k]
      <4>1. j \in 1..len /\ pos[j] \in 1..(i - 1) /\ longer[j] = pos[j]
        BY <2>2, <2>3, <3>7 DEF Positions
      <4>2. CASE k = len + 1
        BY <2>1, <4>1, <4>2
      <4>3. CASE k \in 1..len
        BY <2>2, <2>3, <3>7, <4>1, <4>3 DEF Positions
      <4> QED  BY <3>4, <4>2, <4>3
    <3>8. ASSUME NEW p \in at \cap (1..i) PROVE \E j \in 1..(len + 1) : longer[j] = p
      <4>1. CASE p = i
        <5>1. len + 1 \in 1..(len + 1) /\ longer[len + 1] = p
          BY <2>2, <4>1
        <5> QED  BY <5>1
      <4>2. CASE p \in at \cap (1..(i - 1))
        <5>1. PICK j \in 1..len : pos[j] = p
          BY <2>3, <4>2 DEF Positions
        <5>2. j \in 1..(len + 1) /\ longer[j] = p
          BY <2>2, <5>1
        <5> QED  BY <5>2
      <4> QED  BY <3>3, <4>1, <4>2
    <3> HIDE DEF longer
    <3>9. Lists(u, seq, at, i)
      <4>1. Positions(longer, len + 1, u, seq, at, i)
        BY <3>5, <3>6, <3>7, <3>8 DEF Positions
      <4> QED  BY <3>2, <4>1 DEF Lists
    <3> QED  BY <2>1, <3>1, <3>9
  <2> QED  BY <2>4, <2>5
<1>5. n \in Good
  <2> HIDE DEF Good
  <2>1. \A i \in 0..n : i \in Good
    BY <1>2, <1>3, <1>4, UpTo
  <2> QED  BY <1>2, <2>1
<1> QED  BY <1>1, <1>2, <1>5 DEF n

-----------------------------------------------------------------------------
(* Lists of repositories.                                                  *)

Distinct(seq) == \A i, j \in DOMAIN seq : seq[i].key = seq[j].key => i = j

\* A list in which no key is twice has as many entries as keys.
LEMMA DistinctCounts ==
    ASSUME NEW seq \in Seq(Object), Distinct(seq)
    PROVE  Len(seq) = Cardinality(KeysOf(seq))
<1> DEFINE f == [i \in 1..Len(seq) |-> seq[i].key]
<1>1. Len(seq) \in Nat /\ DOMAIN seq = 1..Len(seq)
  OBVIOUS
<1>2. f \in Bijection(1..Len(seq), KeysOf(seq))
  BY <1>1 DEF Bijection, Injection, Surjection, IsInjective, Distinct, KeysOf
<1>3. ExistsBijection(1..Len(seq), KeysOf(seq))
  BY <1>2 DEF ExistsBijection
<1> QED  BY <1>1, <1>3, FS_CountingElements

\* The empty list.
LEMMA EmptyDistinct == <<>> \in Seq(Object) /\ Distinct(<<>>) /\ KeysOf(<<>>) = {}
BY DEF Distinct, KeysOf

\* A set, listed in some order.
LEMMA SetToSeqLists ==
    ASSUME NEW S, IsFiniteSet(S)
    PROVE  /\ SetToSeq(S) \in Seq(S) /\ ToSet(SetToSeq(S)) \subseteq S
           /\ \A i, j \in DOMAIN SetToSeq(S) : SetToSeq(S)[i] = SetToSeq(S)[j] => i = j
<1>1. PICK f \in Bijection(1..Cardinality(S), S) : TRUE
  BY FS_CardinalityType DEF ExistsBijection
<1>2. f \in [1..Cardinality(S) -> S] /\ IsInjective(f)
  BY <1>1 DEF Bijection, Injection
<1>3. SetToSeq(S) \in [1..Cardinality(S) -> S] /\ IsInjective(SetToSeq(S))
  BY <1>2 DEF SetToSeq
<1>4. Cardinality(S) \in Nat
  BY FS_CardinalityType
<1>5. SetToSeq(S) \in Seq(S)
  BY <1>3, <1>4, SeqDef
<1> QED  BY <1>3, <1>5 DEF IsInjective, ToSet

\* Two lists with different keys, one after the other.
LEMMA ConcatDistinct ==
    ASSUME NEW s \in Seq(Object), NEW t \in Seq(Object), Distinct(s), Distinct(t),
           KeysOf(s) \cap KeysOf(t) = {}
    PROVE  /\ s \o t \in Seq(Object) /\ Distinct(s \o t)
           /\ KeysOf(s \o t) = KeysOf(s) \cup KeysOf(t)
<1> DEFINE u == s \o t
<1>1. /\ u \in Seq(Object) /\ Len(u) = Len(s) + Len(t)
      /\ \A i \in 1..Len(u) : u[i] = IF i <= Len(s) THEN s[i] ELSE t[i - Len(s)]
  BY ConcatProperties
<1>2. /\ Len(s) \in Nat /\ DOMAIN s = 1..Len(s)
      /\ Len(t) \in Nat /\ DOMAIN t = 1..Len(t) /\ DOMAIN u = 1..Len(u)
  BY <1>1, LenProperties
<1> HIDE DEF u
<1>3. \A i \in DOMAIN u : \/ i \in DOMAIN s /\ u[i] = s[i]
                          \/ i - Len(s) \in DOMAIN t /\ u[i] = t[i - Len(s)] /\ i \notin DOMAIN s
  BY <1>1, <1>2
<1>4. Distinct(u)
  <2> SUFFICES ASSUME NEW i \in DOMAIN u, NEW j \in DOMAIN u, u[i].key = u[j].key PROVE i = j
    BY DEF Distinct
  <2>1. i \in Int /\ j \in Int
    BY <1>1, <1>2
  <2>2. \A a \in DOMAIN s, b \in DOMAIN t : s[a].key # t[b].key
    BY DEF KeysOf
  <2>3. CASE i \in DOMAIN s /\ u[i] = s[i] /\ j \in DOMAIN s /\ u[j] = s[j]
    BY <2>3 DEF Distinct
  <2>4. CASE /\ i - Len(s) \in DOMAIN t /\ u[i] = t[i - Len(s)]
             /\ j - Len(s) \in DOMAIN t /\ u[j] = t[j - Len(s)]
    <3>1. i - Len(s) = j - Len(s)
      BY <2>4 DEF Distinct
    <3> QED  BY <1>2, <2>1, <3>1
  <2> HIDE DEF Distinct
  <2> QED  BY <1>3, <2>2, <2>3, <2>4
<1>5. KeysOf(u) = KeysOf(s) \cup KeysOf(t)
  <2>1. KeysOf(u) \subseteq KeysOf(s) \cup KeysOf(t)
    BY <1>3 DEF KeysOf
  <2>2. ASSUME NEW i \in DOMAIN s PROVE s[i].key \in KeysOf(u)
    BY <1>1, <1>2 DEF KeysOf
  <2>3. ASSUME NEW i \in DOMAIN t PROVE t[i].key \in KeysOf(u)
    <3>1. i + Len(s) \in DOMAIN u /\ u[i + Len(s)] = t[i]
      BY <1>1, <1>2
    <3> QED  BY <3>1 DEF KeysOf
  <2> QED  BY <2>1, <2>2, <2>3 DEF KeysOf
<1> QED  BY <1>1, <1>4, <1>5 DEF u

\* A list from which entries went.
LEMMA KeptDistinct ==
    ASSUME NEW seq \in Seq(Object), NEW at, Distinct(seq)
    PROVE  /\ Kept(seq, at) \in Seq(Object) /\ Distinct(Kept(seq, at))
           /\ KeysOf(Kept(seq, at)) \subseteq KeysOf(seq)
<1> DEFINE t == Kept(seq, at)
<1>1. t \in Seq(Object) /\ Lists(t, seq, at, Len(seq))
  BY KeptIsSubsequence
<1> HIDE DEF t
<1>2. PICK pos : Positions(pos, Len(t), t, seq, at, Len(seq))
  BY <1>1 DEF Lists
<1>3. Len(t) \in Nat /\ DOMAIN t = 1..Len(t) /\ Len(seq) \in Nat /\ DOMAIN seq = 1..Len(seq)
  BY <1>1
<1>4. \A j \in DOMAIN t : pos[j] \in DOMAIN seq /\ pos[j] \in Int /\ t[j] = seq[pos[j]]
  BY <1>2, <1>3 DEF Positions
<1>5. \A j, k \in DOMAIN t : pos[j] = pos[k] => j = k
  <2> SUFFICES ASSUME NEW j \in DOMAIN t, NEW k \in DOMAIN t, pos[j] = pos[k], j # k PROVE FALSE
    OBVIOUS
  <2>1. j < k \/ k < j
    BY <1>3
  <2> QED  BY <1>2, <1>3, <1>4, <2>1 DEF Positions
<1> QED  BY <1>1, <1>4, <1>5 DEF t, Distinct, KeysOf

-----------------------------------------------------------------------------
(* The dialog.                                                             *)

\* Draft and selection hold no key twice and only keys that were fetched; of
\* one fetch there is one object per key.
SelectorInv ==
    /\ SelectorTypeOK
    /\ Distinct(rightPanel) /\ Distinct(selected)
    /\ KeysOf(rightPanel) \cup KeysOf(selected) \subseteq offered
    /\ repos # NoList =>
          /\ \A r, q \in repos : r.key = q.key => r = q
          /\ \A r \in repos : r.key \in offered

\* The list has finitely many objects.
LEMMA ItemsFinite ==
    ASSUME SelectorInv, NEW S \in SUBSET LeftItems
    PROVE  IsFiniteSet(S)
<1>1. CASE repos = NoList
  BY <1>1, FS_EmptySet DEF LeftItems
<1>2. CASE repos # NoList
  <2> DEFINE f == [r \in repos |-> r.key]
  <2>1. f \in Injection(repos, Keys)
    BY <1>2 DEF SelectorInv, SelectorTypeOK, Object, Injection, IsInjective
  <2>2. IsFiniteSet(repos)
    BY <2>1, RepoSelectorAssumption, FS_Injection
  <2>3. S \in SUBSET repos
    BY <1>2 DEF LeftItems
  <2> QED  BY <2>2, <2>3, FS_Subset
<1> QED  BY <1>1, <1>2

\* What moves to the right is new there.
LEMMA MoveRightKeeps ==
    ASSUME SelectorInv, MoveRight
    PROVE  /\ rightPanel' \in Seq(Object) /\ Distinct(rightPanel')
           /\ KeysOf(rightPanel') \subseteq offered
<1> DEFINE S == {r \in LeftItems : r.key \in leftSelected}
           t == SetToSeq(S)
<1>1. \A r \in S : r \in Object /\ r.key \in offered /\ r.key \notin KeysOf(rightPanel)
  BY DEF SelectorInv, SelectorTypeOK, LeftItems
<1>2. \A r, q \in S : r.key = q.key => r = q
  BY DEF SelectorInv, LeftItems
<1>3. rightPanel' = rightPanel \o t
  BY DEF MoveRight
<1>4. /\ t \in Seq(S) /\ \A i \in DOMAIN t : t[i] \in S
      /\ \A i, j \in DOMAIN t : t[i] = t[j] => i = j
  <2>1. IsFiniteSet(S)
    BY ItemsFinite
  <2> HIDE DEF S
  <2>2. t \in Seq(S) /\ \A i, j \in DOMAIN t : t[i] = t[j] => i = j
    BY <2>1, SetToSeqLists
  <2> HIDE DEF t
  <2> QED  BY <2>2
<1> HIDE DEF S, t
<1>5. t \in Seq(Object)
  BY <1>1, <1>4, SeqMonotonic
<1>6. Distinct(t) /\ KeysOf(t) \cap KeysOf(rightPanel) = {} /\ KeysOf(t) \subseteq offered
  BY <1>1, <1>2, <1>4 DEF Distinct, KeysOf
<1>7. rightPanel \in Seq(Object) /\ Distinct(rightPanel) /\ KeysOf(rightPanel) \subseteq offered
  BY DEF SelectorInv, SelectorTypeOK
<1> QED  BY <1>3, <1>5, <1>6, <1>7, ConcatDistinct

LEMMA SelectorInitially == SelectorInit => SelectorInv
BY EmptyDistinct, RepoSelectorAssumption DEF SelectorInit, SelectorInv, SelectorTypeOK

\* Every step of the dialog keeps the invariant.
LEMMA SelectorStep == SelectorInv /\ [SelectorNext]_selectorVars => SelectorInv'
<1> SUFFICES ASSUME SelectorInv, [SelectorNext]_selectorVars PROVE SelectorInv'
  OBVIOUS
<1> USE RepoSelectorAssumption DEF SelectorInv, SelectorTypeOK
<1>1. CASE OpenDialog
  BY <1>1 DEF OpenDialog, Draft
<1>2. CASE Fetch
  <2>1. PICK S \in SUBSET Keys, n \in {0, 1} :
          repos' = {[key |-> k, fetch |-> n] : k \in S} /\ offered' = offered \cup S
    BY <1>2 DEF Fetch
  <2>2. /\ repos' \in SUBSET Object /\ \A r \in repos' : r.key \in S
        /\ \A r, q \in repos' : r.key = q.key => r = q
    BY <2>1 DEF Object
  <2>3. offered' \subseteq Keys /\ offered \subseteq offered' /\ S \subseteq offered'
    BY <2>1
  <2> QED  BY <1>2, <2>2, <2>3 DEF Fetch, draft
<1>3. CASE Type
  BY <1>3 DEF Type
<1>4. CASE DebounceFires
  BY <1>4 DEF DebounceFires
<1>5. CASE ToggleLeft
  <2>1. \A r \in LeftItems : r.key \in Keys
    BY DEF LeftItems, Object
  <2> QED  BY <1>5, <2>1 DEF ToggleLeft, Toggle
<1>6. CASE ToggleRight
  <2>1. KeysOf(rightPanel) \subseteq Keys
    OBVIOUS
  <2> QED  BY <1>6, <2>1 DEF ToggleRight, Toggle
<1>7. CASE MoveRight
  BY <1>7, MoveRightKeeps DEF MoveRight
<1>8. CASE MoveLeft
  BY <1>8, KeptDistinct DEF MoveLeft
<1>9. CASE Confirm \/ Cancel
  BY <1>9, EmptyDistinct DEF Confirm, Cancel, Draft
<1>10. CASE UNCHANGED selectorVars
  BY <1>10 DEF selectorVars, draft
<1> QED
  BY <1>1, <1>2, <1>3, <1>4, <1>5, <1>6, <1>7, <1>8, <1>9, <1>10 DEF SelectorNext

\* A step of the form with its name leaves the dialog alone or is a step of it.
LEMMA NextSelects == [Next]_vars => [SelectorNext]_selectorVars
BY DEF Next, vars, TypeName, ResetToAuto, FixFormat, Edit

LEMMA SelectorInvariant == Spec => []SelectorInv
<1>1. Init => SelectorInv
  BY SelectorInitially DEF Init
<1> QED  BY <1>1, SelectorStep, NextSelects, PTL DEF Spec

\* No scope is selected twice, in the draft or in the form.
THEOREM DistinctCorrect == Spec => []DistinctSelection
<1>1. SelectorInv => DistinctSelection
  BY DistinctCounts DEF SelectorInv, SelectorTypeOK, DistinctSelection
<1> QED  BY <1>1, SelectorInvariant, PTL

-----------------------------------------------------------------------------
(* The dialog implements the selection of the form.                        *)

LEMMA SelectionStep ==
    SelectorInv /\ [SelectorNext]_selectorVars
      => [Abstract!Offer \/ Abstract!Choose]_<<KeysOf(selected), offered>>
<1> SUFFICES ASSUME SelectorInv, [SelectorNext]_selectorVars
             PROVE  \/ Abstract!Offer \/ Abstract!Choose
                    \/ UNCHANGED <<KeysOf(selected), offered>>
  OBVIOUS
<1>1. CASE Fetch
  BY <1>1 DEF Fetch, Abstract!Offer
<1>2. CASE Confirm
  <2>1. KeysOf(selected)' = KeysOf(rightPanel) /\ UNCHANGED offered
    BY <1>2 DEF Confirm
  <2>2. KeysOf(rightPanel) \subseteq offered
    BY DEF SelectorInv
  <2>3. KeysOf(rightPanel) # {}
    <3>1. 1 \in DOMAIN rightPanel
      BY <1>2 DEF SelectorInv, SelectorTypeOK, Confirm
    <3> QED  BY <3>1 DEF KeysOf
  <2>4. KeysOf(selected)' \in (SUBSET offered) \ {{}}
    BY <2>1, <2>2, <2>3
  <2> QED  BY <2>1, <2>4 DEF Abstract!Choose
<1>3. CASE UNCHANGED <<selected, offered>>
  BY <1>3
<1> QED
  BY <1>1, <1>2, <1>3 DEF SelectorNext, OpenDialog, Type, DebounceFires, ToggleLeft, ToggleRight,
     MoveRight, MoveLeft, Cancel, selectorVars

\* The selection changes as a whole, to scopes that were offered, and is never
\* empty again.
THEOREM SelectionCorrect == Spec => SelectionPromise
<1>1. Init => Abstract!Init
  BY EmptyDistinct DEF Init, SelectorInit, Abstract!Init
<1>2. SelectorInv /\ [Next]_vars => [Abstract!Offer \/ Abstract!Choose]_<<KeysOf(selected), offered>>
  BY SelectionStep, NextSelects
<1> QED  BY <1>1, <1>2, SelectorInvariant, PTL DEF Spec, SelectionPromise, Abstract!Spec

-----------------------------------------------------------------------------
(* The name.                                                               *)

Clean == {"a", "-"}

NoDoubleDash(s) == \A i \in 1..(Len(s) - 1) : ~(s[i] = "-" /\ s[i + 1] = "-")

NoDashAtTheEnds(s) == s # <<>> => s[1] # "-" /\ s[Len(s)] # "-"

LEMMA LoweredTyped == \A s \in Seq(Chars) : Lowered(s) \in Seq(Clean)
<1> SUFFICES ASSUME NEW s \in Seq(Chars) PROVE Lowered(s) \in Seq(Clean)
  OBVIOUS
<1>1. Len(s) \in Nat /\ DOMAIN s = 1..Len(s)
  OBVIOUS
<1>2. \A i \in DOMAIN s : s[i] \in Chars
  OBVIOUS
<1>3. Lowered(s) \in [1..Len(s) -> Clean]
  BY <1>1, <1>2 DEF Lowered, Chars, Clean
<1> QED  BY <1>1, <1>3

\* Of every run of dashes the first is kept, and everything else is.
LEMMA CollapsedShape ==
    ASSUME NEW s \in Seq(Clean)
    PROVE  Collapsed(s) \in Seq(Clean) /\ NoDoubleDash(Collapsed(s))
<1> DEFINE at == {i \in DOMAIN s : s[i] = "-" /\ i > 1 => s[i - 1] # "-"}
           t == Collapsed(s)
<1>1. t = Kept(s, at)
  BY DEF Collapsed
<1>2. t \in Seq(Clean) /\ Lists(t, s, at, Len(s))
  BY <1>1, KeptIsSubsequence
<1> HIDE DEF t
<1>3. PICK pos : Positions(pos, Len(t), t, s, at, Len(s))
  BY <1>2 DEF Lists
<1>4. Len(s) \in Nat /\ DOMAIN s = 1..Len(s) /\ Len(t) \in Nat
  BY <1>2
<1>5. ASSUME NEW j \in 1..(Len(t) - 1), t[j] = "-", t[j + 1] = "-" PROVE FALSE
  <2>1. j \in 1..Len(t) /\ j + 1 \in 1..Len(t) /\ j < j + 1
    BY <1>4
  <2> DEFINE p == pos[j]
             q == pos[j + 1]
  <2>2. p \in at /\ q \in at /\ p < q /\ s[p] = "-" /\ s[q] = "-"
    BY <1>3, <1>5, <2>1 DEF Positions
  <2>3. p \in 1..Len(s) /\ q \in 1..Len(s)
    BY <1>4, <2>2
  <2> HIDE DEF p, q
  <2>4. s[q - 1] # "-" /\ q - 1 \in 1..Len(s)
    BY <1>4, <2>2, <2>3
  <2>5. q - 1 \in at \cap (1..Len(s)) /\ p < q - 1
    BY <1>4, <2>2, <2>3, <2>4
  <2>6. PICK k \in 1..Len(t) : pos[k] = q - 1
    BY <1>3, <2>5 DEF Positions
  <2>7. k < j \/ k = j \/ k = j + 1 \/ j + 1 < k
    BY <1>4, <2>1
  <2>8. k < j => pos[k] < p
    BY <1>3, <2>1 DEF Positions, p
  <2>9. j + 1 < k => q < pos[k]
    BY <1>3, <2>1 DEF Positions, q
  <2> QED  BY <2>3, <2>5, <2>6, <2>7, <2>8, <2>9 DEF p, q
<1> QED  BY <1>2, <1>5 DEF NoDoubleDash, t

\* Where no dash follows another, trimming one at either end leaves none there.
LEMMA TrimmedShape ==
    ASSUME NEW s \in Seq(Clean), NoDoubleDash(s)
    PROVE  /\ Trimmed(s) \in Seq(Clean) /\ NoDoubleDash(Trimmed(s))
           /\ NoDashAtTheEnds(Trimmed(s))
<1> DEFINE front == IF s # <<>> /\ Head(s) = "-" THEN Tail(s) ELSE s
           t == IF front # <<>> /\ Last(front) = "-" THEN Front(front) ELSE front
<1>1. t = Trimmed(s)
  BY DEF Trimmed
<1>2. front \in Seq(Clean) /\ NoDoubleDash(front) /\ (front # <<>> => front[1] # "-")
  <2>1. CASE s # <<>> /\ Head(s) = "-"
    <3>1. /\ Tail(s) \in Seq(Clean) /\ Len(s) \in Nat \ {0} /\ Len(Tail(s)) = Len(s) - 1
          /\ \A i \in 1..(Len(s) - 1) : Tail(s)[i] = s[i + 1]
          /\ s[1] = "-"
      BY <2>1
    <3>2. \A i \in 1..(Len(s) - 2) : i + 1 \in 1..(Len(s) - 1) /\ i + 1 + 1 = (i + 1) + 1
      BY <3>1
    <3>3. NoDoubleDash(Tail(s))
      BY <3>1, <3>2 DEF NoDoubleDash
    <3>4. Tail(s) # <<>> => Tail(s)[1] # "-"
      <4>1. Tail(s) # <<>> => Len(s) > 1
        BY <3>1
      <4>2. Len(s) > 1 => 1 \in 1..(Len(s) - 1)
        BY <3>1
      <4> QED  BY <3>1, <4>1, <4>2 DEF NoDoubleDash
    <3> QED  BY <2>1, <3>1, <3>3, <3>4
  <2>2. CASE ~(s # <<>> /\ Head(s) = "-")
    BY <2>2
  <2> QED  BY <2>1, <2>2
<1> HIDE DEF front
<1>3. t \in Seq(Clean) /\ NoDoubleDash(t) /\ NoDashAtTheEnds(t)
  <2>1. CASE front # <<>> /\ Last(front) = "-"
    <3> DEFINE u == SubSeq(front, 1, Len(front) - 1)
    <3>1. Len(front) \in Nat \ {0} /\ front[Len(front)] = "-"
      BY <1>2, <2>1 DEF Last
    <3>2. /\ u \in Seq(Clean) /\ Len(u) = Len(front) - 1
          /\ \A i \in 1..(Len(front) - 1) : u[i] = front[i]
      BY <1>2, <3>1
    <3>3. t = u
      BY <2>1 DEF Front
    <3> HIDE DEF u
    <3>4. NoDoubleDash(u)
      <4>1. ASSUME NEW i \in 1..(Len(u) - 1)
            PROVE  /\ i \in 1..(Len(front) - 1)
                   /\ u[i] = front[i] /\ u[i + 1] = front[i + 1]
        <5>1. i \in 1..(Len(front) - 1) /\ i + 1 \in 1..(Len(front) - 1)
          BY <3>1, <3>2
        <5> QED  BY <3>2, <5>1
      <4> QED  BY <1>2, <4>1 DEF NoDoubleDash
    <3>5. ASSUME u # <<>> PROVE u[1] # "-" /\ u[Len(u)] # "-"
      <4>1. Len(u) \in 1..(Len(front) - 1) /\ 1 \in 1..(Len(front) - 1)
        BY <3>1, <3>2, <3>5
      <4>2. u[Len(u)] = front[Len(u)] /\ u[1] = front[1]
        BY <3>2, <4>1
      <4>3. ~(front[Len(u)] = "-" /\ front[Len(u) + 1] = "-")
        BY <1>2, <4>1 DEF NoDoubleDash
      <4> QED  BY <1>2, <2>1, <3>1, <3>2, <4>2, <4>3
    <3> QED  BY <3>2, <3>3, <3>4, <3>5 DEF NoDashAtTheEnds
  <2>2. CASE ~(front # <<>> /\ Last(front) = "-")
    BY <1>2, <2>2 DEF Last, NoDashAtTheEnds
  <2> QED  BY <2>1, <2>2
<1> QED  BY <1>1, <1>3

\* What sanitizeName makes of any text: only characters a name may have, no dash
\* at either end and no two in a row.
THEOREM SanitizeCorrect ==
    \A s \in Seq(Chars) :
        /\ SanitizeName(s) \in Seq(Clean)
        /\ NoDoubleDash(SanitizeName(s)) /\ NoDashAtTheEnds(SanitizeName(s))
<1> SUFFICES ASSUME NEW s \in Seq(Chars)
             PROVE  /\ SanitizeName(s) \in Seq(Clean)
                    /\ NoDoubleDash(SanitizeName(s)) /\ NoDashAtTheEnds(SanitizeName(s))
  OBVIOUS
<1>1. Lowered(s) \in Seq(Clean)
  BY LoweredTyped
<1>2. Collapsed(Lowered(s)) \in Seq(Clean) /\ NoDoubleDash(Collapsed(Lowered(s)))
  BY <1>1, CollapsedShape
<1> QED  BY <1>2, TrimmedShape DEF SanitizeName

\* A generated name is valid.
LEMMA GeneratedValid == \A k \in Keys : IsValidName(GenerateName(k))
<1> SUFFICES ASSUME NEW k \in Keys PROVE IsValidName(GenerateName(k))
  OBVIOUS
<1> DEFINE owner == SanitizeName(OwnerText[k])
           part == IF RepoText[k] = <<>> THEN <<>> ELSE SanitizeName(RepoText[k]) \o <<"-">>
           dash == <<"-">>
           head == owner \o dash \o part
<1>1. GenerateName(k) = head \o RandomId
  BY DEF GenerateName
<1>2. OwnerText[k] \in Seq(Chars) /\ RepoText[k] \in Seq(Chars)
  BY RunnerNameAssumption
<1>3. dash \in Seq(Clean) /\ RandomId \in Seq(Clean) /\ Len(RandomId) = 1 /\ <<>> \in Seq(Clean)
  BY DEF Clean, RandomId
<1>4. owner \in Seq(Clean) /\ SanitizeName(RepoText[k]) \in Seq(Clean)
  BY <1>2, SanitizeCorrect
<1>5. part \in Seq(Clean)
  BY <1>3, <1>4
<1> HIDE DEF owner, part, dash
<1>6. head \in Seq(Clean)
  BY <1>3, <1>4, <1>5
<1> HIDE DEF head
<1>7. /\ head \o RandomId \in Seq(Clean)
      /\ Len(head \o RandomId) = Len(head) + 1 /\ Len(head) \in Nat
  <2> DEFINE id == RandomId
  <2>1. id \in Seq(Clean) /\ Len(id) = 1
    BY <1>3
  <2> HIDE DEF id
  <2>2. head \o id \in Seq(Clean) /\ Len(head \o id) = Len(head) + 1 /\ Len(head) \in Nat
    <3>1. head \o id \in Seq(Clean) /\ Len(head \o id) = Len(head) + Len(id)
      BY <1>6, <2>1, ConcatProperties
    <3>2. Len(head) \in Nat
      BY <1>6, LenProperties
    <3> QED  BY <2>1, <3>1, <3>2
  <2> QED  BY <2>2 DEF id
<1> QED  BY <1>1, <1>7 DEF IsValidName, ToSet, Clean

NameInv ==
    /\ name \in Seq(Chars) /\ nameManuallyEdited \in BOOLEAN
    /\ ~nameManuallyEdited => name = <<>>

LEMMA EmptyTyped == <<>> \in Seq(Chars)
OBVIOUS

LEMMA NameInvariant == Spec => []NameInv
<1>1. Init => NameInv
  BY EmptyTyped DEF Init, NameInv
<1>2. NameInv /\ [Next]_vars => NameInv'
  <2> SUFFICES ASSUME NameInv, [Next]_vars PROVE NameInv'
    OBVIOUS
  <2>1. CASE UNCHANGED nameVars
    BY <2>1 DEF nameVars, NameInv
  <2>2. CASE TypeName
    BY <2>2, RunnerNameAssumption DEF TypeName, Edit, NameInv
  <2>3. CASE ResetToAuto
    BY <2>3, EmptyTyped DEF ResetToAuto, Edit, NameInv
  <2>4. CASE FixFormat
    <3>1. SanitizeName(name) \in Seq(Chars)
      <4>1. SanitizeName(name) \in Seq(Clean) /\ Clean \subseteq Chars
        BY SanitizeCorrect DEF NameInv, Clean, Chars
      <4> QED  BY <4>1, SeqMonotonic
    <3> QED  BY <2>4, <3>1 DEF FixFormat, IsNameInvalid, Edit, NameInv
  <2> QED  BY <2>1, <2>2, <2>3, <2>4 DEF Next, vars
<1> QED  BY <1>1, <1>2, PTL DEF Spec

\* Every reachable state is typed.
THEOREM RunnerNameTypeCorrect == Spec => []TypeOK
<1>1. SelectorInv /\ NameInv => TypeOK
  BY DEF SelectorInv, NameInv, TypeOK
<1> QED  BY <1>1, SelectorInvariant, NameInvariant, PTL

\* The form can only be submitted with names it accepts, for any texts that are
\* typed and any names of owners and repositories.
THEOREM NamesCorrect == Spec => []NamesServable
<1>1. SelectorInv /\ NameInv => NamesServable
  <2> SUFFICES ASSUME SelectorInv, NameInv, CanPost
               PROVE  /\ \A k \in KeysOf(selected) : IsValidName(PostedName(k))
                      /\ ~IsBatch /\ DisplayName # name => name = <<>>
    BY DEF NamesServable
  <2>1. \A k \in KeysOf(selected) : k \in Keys
    BY DEF SelectorInv, SelectorTypeOK
  <2>2. \A k \in KeysOf(selected) : IsValidName(PostedName(k))
    BY <2>1, GeneratedValid DEF PostedName, CanPost, IsNameInvalid, NameInv
  <2> QED  BY <2>2 DEF DisplayName, NameInv
<1> QED  BY <1>1, SelectorInvariant, NameInvariant, PTL

-----------------------------------------------------------------------------
(* The settings.  SoundInv is the key to the first property: a save that   *)
(* is still sound is the only one, and the rows hold what it has stored.   *)

\* A sound save is alone, and the rows say how far it has come.
SoundInv ==
    \A q \in Requests : put[q] # NoRequest /\ put[q].sound =>
        /\ InRange(put[q].sent)
        /\ \A o \in Requests \ {q} : put[o] = NoRequest
        /\ put[q].at \in {"warm", "apply"} => rows.max = put[q].sent.max
        /\ put[q].at = "apply" => rows.warm = put[q].sent.warm

SurvivalInv == SettingsTypeOK /\ SoundInv /\ LimitsSurviveRestart

\* No 0 is stored, shown once the fields are filled, or on its way.
NoZeroInv ==
    /\ rows.max > 0
    /\ seen # 0 /\ (filled => form.max # 0)
    /\ \A q \in Requests : put[q] # NoRequest => put[q].sent.max # 0
    /\ MaxIsNeverZero

-----------------------------------------------------------------------------
LEMMA PairTyped == \A m, w \in Int : Pair(m, w) \in Pairs /\ Clamp(Pair(m, w)) \in Pairs
BY DEF Pair, Pairs, Clamp

LEMMA RecoveredTyped == SettingsTypeOK => Recovered \in Pairs
BY SettingsAssumption DEF SettingsTypeOK, Recovered, Pair, Pairs, Clamp

LEMMA PutTyped ==
    ASSUME SettingsTypeOK, NEW q \in Requests, put[q] # NoRequest
    PROVE  put[q] \in Puts
BY DEF SettingsTypeOK

LEMMA SettingsInitTyped == SettingsInit => SettingsTypeOK
<1> SUFFICES ASSUME SettingsInit PROVE SettingsTypeOK
  OBVIOUS
<1>1. rows \in Pairs /\ form \in Pairs
  BY SettingsAssumption, PairTyped DEF SettingsInit
<1>2. limits \in Pairs
  BY <1>1, SettingsAssumption DEF SettingsInit, Recovered, Pair, Pairs, Clamp
<1> QED  BY <1>1, <1>2 DEF SettingsInit, SettingsTypeOK

LEMMA ArriveTyped ==
    ASSUME SettingsTypeOK, NEW q \in Requests, NEW numbers \in Pairs, NEW own \in BOOLEAN,
           Arrive(q, numbers, own)
    PROVE  SettingsTypeOK'
<1> DEFINE News(p) ==
        IF p = q THEN [sent |-> numbers, at |-> "max", own |-> own,
                       sound |-> InRange(numbers) /\ \A o \in Requests : put[o] = NoRequest]
        ELSE IF put[p] = NoRequest THEN NoRequest ELSE [put[p] EXCEPT !.sound = FALSE]
<1>1. (InRange(numbers) /\ \A o \in Requests : put[o] = NoRequest) \in BOOLEAN
  BY DEF InRange
<1>2. ASSUME NEW p \in Requests PROVE News(p) \in Puts \cup {NoRequest}
  <2>1. CASE p = q
    BY <1>1, <2>1 DEF Puts, Steps
  <2>2. CASE p # q
    BY <2>2, PutTyped DEF Puts, SettingsTypeOK
  <2> QED  BY <2>1, <2>2
<1>3. put' = [p \in Requests |-> News(p)]
  BY DEF Arrive
<1>4. put' \in [Requests -> Puts \cup {NoRequest}]
  BY <1>2, <1>3
<1> QED  BY <1>4 DEF Arrive, SettingsTypeOK, pageVars

LEMMA SettingsNextTyped == SettingsTypeOK /\ [SettingsNext]_settingsVars => SettingsTypeOK'
<1> SUFFICES ASSUME SettingsTypeOK, [SettingsNext]_settingsVars PROVE SettingsTypeOK'
  OBVIOUS
<1>1. CASE FetchSettings \/ FillFields
  <2>1. \A n \in Int : Queried(n) \subseteq Int
    BY DEF Queried
  <2>2. rows.max \in Int /\ rows.warm \in Int
    BY DEF SettingsTypeOK, Pairs
  <2>3. ASSUME FetchSettings PROVE SettingsTypeOK'
    BY <2>1, <2>2, <2>3 DEF FetchSettings, SettingsTypeOK
  <2>4. ASSUME FillFields PROVE SettingsTypeOK'
    BY <2>1, <2>2, <2>4, PairTyped DEF FillFields, SettingsTypeOK
  <2> QED  BY <1>1, <2>3, <2>4
<1>2. CASE Reopen
  <2>1. \A q \in Requests : put[q] # NoRequest => [put[q] EXCEPT !.own = FALSE] \in Puts
    BY PutTyped DEF Puts
  <2>2. put' \in [Requests -> Puts \cup {NoRequest}]
    BY <1>2, <2>1 DEF Reopen
  <2>3. form' \in Pairs
    BY <1>2 DEF Reopen, Pair, Pairs
  <2>4. rows' = rows /\ limits' = limits /\ filled' \in BOOLEAN /\ settled' = settled /\ seen' = NoRequest
    BY <1>2 DEF Reopen
  <2> QED  BY <2>2, <2>3, <2>4 DEF SettingsTypeOK
<1>3. CASE EditLimit
  <2>1. \A n \in Numbers : n \in Int /\ MaxTyped(n) \in Int
    BY SettingsAssumption DEF MaxTyped
  <2> QED  BY <1>3, <2>1 DEF EditLimit, SettingsTypeOK, Pairs
<1>4. CASE RestartApp
  BY <1>4, RecoveredTyped DEF RestartApp, SettingsTypeOK
<1>5. ASSUME NEW q \in Requests, Save(q) PROVE SettingsTypeOK'
  BY <1>5, ArriveTyped DEF Save, SettingsTypeOK
<1>6. ASSUME NEW q \in Requests, OtherSaves(q) PROVE SettingsTypeOK'
  <2>1. \A m, w \in Numbers : Pair(MaxTyped(m), w) \in Pairs
    BY SettingsAssumption, PairTyped DEF MaxTyped
  <2> QED  BY <1>6, <2>1, ArriveTyped DEF OtherSaves
<1>7. ASSUME NEW q \in Requests, UpsertMax(q) \/ UpsertWarm(q) PROVE SettingsTypeOK'
  <2>1. put[q] \in Puts
    BY <1>7, PutTyped DEF UpsertMax, UpsertWarm, Under
  <2>2. put' \in [Requests -> Puts \cup {NoRequest}]
    BY <1>7, <2>1 DEF UpsertMax, UpsertWarm, StoreFails, SettingsTypeOK, Puts, Steps
  <2>3. rows' \in Pairs
    BY <1>7, <2>1 DEF UpsertMax, UpsertWarm, StoreFails, SettingsTypeOK, Puts, Pairs
  <2> QED  BY <1>7, <2>2, <2>3 DEF UpsertMax, UpsertWarm, SettingsTypeOK, pageVars
<1>8. ASSUME NEW q \in Requests, Apply(q) PROVE SettingsTypeOK'
  <2>1. put[q] \in Puts
    BY <1>8, PutTyped DEF Apply, Under
  <2> QED  BY <1>8, <2>1 DEF Apply, SettingsTypeOK, Puts, pageVars
<1>9. CASE UNCHANGED settingsVars
  BY <1>9 DEF settingsVars, pageVars, SettingsTypeOK
<1> QED  BY <1>1, <1>2, <1>3, <1>4, <1>5, <1>6, <1>7, <1>8, <1>9 DEF SettingsNext

\* Every reachable state is typed.
THEOREM SettingsTypeCorrect == SettingsSpec => []SettingsTypeOK
BY SettingsInitTyped, SettingsNextTyped, PTL DEF SettingsSpec

-----------------------------------------------------------------------------
LEMMA ArriveSurvives ==
    ASSUME SurvivalInv, NEW q \in Requests, NEW numbers, NEW own, Arrive(q, numbers, own)
    PROVE  SoundInv' /\ LimitsSurviveRestart'
<1>1. ASSUME NEW p \in Requests, p # q, put'[p] # NoRequest
      PROVE  put[p] # NoRequest /\ put'[p] = [put[p] EXCEPT !.sound = FALSE]
  BY <1>1 DEF Arrive
<1> DEFINE alone == InRange(numbers) /\ \A o \in Requests : put[o] = NoRequest
<1>2. put'[q] = [sent |-> numbers, at |-> "max", own |-> own, sound |-> alone]
  BY DEF Arrive
<1>3. SoundInv'
  <2> SUFFICES ASSUME NEW p \in Requests, put'[p] # NoRequest, put'[p].sound
               PROVE  /\ InRange(put'[p].sent)
                      /\ \A o \in Requests \ {p} : put'[o] = NoRequest
                      /\ put'[p].at = "max"
    BY DEF SoundInv, InRange
  <2>1. p = q
    BY <1>1, PutTyped DEF SurvivalInv, Puts
  <2>2. alone
    <3> HIDE DEF alone
    <3> QED  BY <1>2, <2>1
  <2>3. put'[q].sent = numbers /\ put'[q].at = "max"
    BY <1>2
  <2> QED  BY <1>1, <2>1, <2>2, <2>3
<1>4. AtRest' => AtRest
  <2> SUFFICES ASSUME AtRest', NEW p \in Requests, put[p] # NoRequest
               PROVE  put[p].at = "max"
    BY DEF AtRest
  <2>1. p # q /\ put'[p] = [put[p] EXCEPT !.sound = FALSE]
    BY DEF Arrive
  <2>2. put[p] \in Puts
    BY PutTyped DEF SurvivalInv
  <2>3. put'[p] \in Puts /\ put'[p].at = put[p].at
    BY <2>1, <2>2 DEF Puts
  <2>4. put'[p] # NoRequest
    BY <2>3, SettingsAssumption
  <2> QED  BY <2>3, <2>4 DEF AtRest
<1>5. LimitsSurviveRestart'
  BY <1>4 DEF SurvivalInv, LimitsSurviveRestart, Arrive, Recovered
<1> QED  BY <1>3, <1>5

LEMMA UpsertSurvives ==
    ASSUME SurvivalInv, NEW q \in Requests, UpsertMax(q) \/ UpsertWarm(q)
    PROVE  SoundInv' /\ LimitsSurviveRestart'
<1>1. put[q] \in Puts /\ put[q] # NoRequest /\ put[q].at \in {"max", "warm"}
  BY PutTyped DEF SurvivalInv, UpsertMax, UpsertWarm, Under
<1>2. /\ put'[q] \in Puts /\ put'[q].sent = put[q].sent
      /\ put'[q].at = IF put[q].at = "max" THEN "warm" ELSE "apply"
      /\ \A o \in Requests \ {q} : put'[o] = put[o]
  BY <1>1 DEF UpsertMax, UpsertWarm, StoreFails, Under, Puts, Steps, SurvivalInv, SettingsTypeOK
<1>3. ~AtRest'
  BY <1>1, <1>2, SettingsAssumption DEF AtRest
<1>4. put'[q].sound =>
        /\ put[q].sound
        /\ put[q].at = "max" =>
             rows' = IF put[q].sent.max > 0 THEN [rows EXCEPT !.max = put[q].sent.max] ELSE rows
        /\ put[q].at = "warm" =>
             rows' = IF put[q].sent.warm >= 0 THEN [rows EXCEPT !.warm = put[q].sent.warm] ELSE rows
  BY <1>1 DEF UpsertMax, UpsertWarm, StoreFails, Under, Puts, SurvivalInv, SettingsTypeOK
<1>5. ASSUME NEW p \in Requests, put'[p] # NoRequest, put'[p].sound
      PROVE  /\ InRange(put'[p].sent)
             /\ \A o \in Requests \ {p} : put'[o] = NoRequest
             /\ put'[p].at \in {"warm", "apply"} => rows'.max = put'[p].sent.max
             /\ put'[p].at = "apply" => rows'.warm = put'[p].sent.warm
  <2>1. p = q
    BY <1>1, <1>2, <1>5 DEF SurvivalInv, SoundInv
  <2>2. /\ put[q].sound /\ InRange(put[q].sent)
        /\ \A o \in Requests \ {q} : put[o] = NoRequest
        /\ put[q].at = "warm" => rows.max = put[q].sent.max
    BY <1>1, <1>4, <1>5, <2>1 DEF SurvivalInv, SoundInv
  <2>3. rows \in Pairs /\ put[q].sent \in Pairs
    BY <1>1 DEF SurvivalInv, SettingsTypeOK, Puts
  <2>4. CASE put[q].at = "max"
    <3>1. rows'.max = put[q].sent.max
      BY <1>4, <1>5, <2>1, <2>2, <2>3, <2>4 DEF InRange, Pairs
    <3> QED  BY <1>2, <2>1, <2>2, <2>4, <3>1
  <2>5. CASE put[q].at = "warm"
    <3>1. rows'.max = put[q].sent.max /\ rows'.warm = put[q].sent.warm
      BY <1>4, <1>5, <2>1, <2>2, <2>3, <2>5 DEF InRange, Pairs
    <3> QED  BY <1>2, <2>1, <2>2, <2>5, <3>1
  <2> QED  BY <1>1, <2>4, <2>5
<1>6. SoundInv'
  BY <1>5 DEF SoundInv, InRange
<1> QED  BY <1>3, <1>6 DEF LimitsSurviveRestart

LEMMA ApplySurvives ==
    ASSUME SurvivalInv, NEW q \in Requests, Apply(q)
    PROVE  SoundInv' /\ LimitsSurviveRestart'
<1>1. put[q] \in Puts /\ put[q] # NoRequest /\ put[q].at = "apply"
  BY PutTyped DEF SurvivalInv, Apply, Under
<1>2. /\ put'[q] = NoRequest /\ \A o \in Requests \ {q} : put'[o] = put[o]
      /\ limits' = put[q].sent /\ settled' = put[q].sound /\ rows' = rows
  BY DEF Apply, SurvivalInv, SettingsTypeOK
<1>3. SoundInv'
  BY <1>2 DEF SurvivalInv, SoundInv, InRange
<1>4. settled' => Clamp(limits') = Recovered'
  <2> SUFFICES ASSUME put[q].sound PROVE Clamp(limits') = Recovered'
    BY <1>2
  <2>1. InRange(put[q].sent) /\ rows.max = put[q].sent.max /\ rows.warm = put[q].sent.warm
    BY <1>1 DEF SurvivalInv, SoundInv
  <2>2. rows \in Pairs /\ put[q].sent \in Pairs
    BY <1>1 DEF SurvivalInv, SettingsTypeOK, Puts
  <2>3. rows = put[q].sent
    BY <2>1, <2>2 DEF Pairs
  <2>4. Pair(IF rows.max > 0 THEN rows.max ELSE DefaultMaxWorkers,
             IF rows.warm >= 0 THEN rows.warm ELSE 0) = rows
    BY <2>1, <2>2, <2>3 DEF InRange, Pair, Pairs
  <2> QED  BY <1>2, <2>3, <2>4 DEF Recovered
<1> QED  BY <1>3, <1>4 DEF LimitsSurviveRestart

LEMMA NextSurvives == SurvivalInv /\ [SettingsNext]_settingsVars => SurvivalInv'
<1> SUFFICES ASSUME SurvivalInv, [SettingsNext]_settingsVars
             PROVE  SoundInv' /\ LimitsSurviveRestart'
  BY SettingsNextTyped DEF SurvivalInv
<1>1. CASE UNCHANGED <<rows, limits, put, settled>>
  BY <1>1 DEF SurvivalInv, SoundInv, InRange, LimitsSurviveRestart, AtRest, Recovered
<1>2. CASE Reopen
  <2>1. ASSUME NEW p \in Requests
        PROVE  \/ put[p] = NoRequest /\ put'[p] = NoRequest
               \/ /\ put[p] # NoRequest /\ put'[p] # NoRequest
                  /\ put'[p].sent = put[p].sent /\ put'[p].at = put[p].at
                  /\ put'[p].sound = put[p].sound
    <3>1. CASE put[p] = NoRequest
      BY <1>2, <3>1 DEF Reopen
    <3>2. CASE put[p] # NoRequest
      <4>1. put[p] \in Puts /\ put'[p] = [put[p] EXCEPT !.own = FALSE]
        BY <1>2, <3>2, PutTyped DEF Reopen, SurvivalInv
      <4>2. put'[p] \in Puts
        BY <4>1 DEF Puts
      <4> QED  BY <3>2, <4>1, <4>2, SettingsAssumption DEF Puts
    <3> QED  BY <3>1, <3>2
  <2>2. rows' = rows /\ limits' = limits /\ settled' = settled
    BY <1>2 DEF Reopen
  <2>3. SoundInv'
    BY <2>1, <2>2 DEF SurvivalInv, SoundInv, InRange
  <2>4. AtRest' => AtRest
    BY <2>1 DEF AtRest
  <2> QED  BY <2>2, <2>3, <2>4 DEF SurvivalInv, LimitsSurviveRestart, Recovered
<1>3. CASE RestartApp
  <2>1. \A p \in Requests : put'[p] = NoRequest
    BY <1>3 DEF RestartApp
  <2>2. Clamp(limits') = Recovered'
    <3>1. limits' = Recovered /\ rows' = rows
      BY <1>3 DEF RestartApp
    <3>2. \A m, w \in Int : Clamp(Clamp(Pair(m, w))) = Clamp(Pair(m, w))
      BY DEF Clamp, Pair
    <3>3. rows.max \in Int /\ rows.warm \in Int /\ DefaultMaxWorkers \in Int
      BY SettingsAssumption DEF SurvivalInv, SettingsTypeOK, Pairs
    <3> QED  BY <3>1, <3>2, <3>3 DEF Recovered
  <2> QED  BY <2>1, <2>2 DEF SoundInv, LimitsSurviveRestart
<1>4. ASSUME NEW q \in Requests, Save(q) \/ OtherSaves(q)
      PROVE  SoundInv' /\ LimitsSurviveRestart'
  BY <1>4, ArriveSurvives DEF Save, OtherSaves
<1>5. CASE FetchSettings \/ FillFields \/ EditLimit \/ UNCHANGED settingsVars
  BY <1>1, <1>5 DEF FetchSettings, FillFields, EditLimit, settingsVars, pageVars
<1> QED  BY <1>2, <1>3, <1>4, <1>5, UpsertSurvives, ApplySurvives DEF SettingsNext

\* A restart finds the limits in force, after any save that was served alone, in
\* range and stored, whatever other saves came before it.
THEOREM SurvivalCorrect == SettingsSpec => []LimitsSurviveRestart
<1>1. SettingsInit => SurvivalInv
  <2> SUFFICES ASSUME SettingsInit PROVE SoundInv /\ LimitsSurviveRestart
    BY SettingsInitTyped DEF SurvivalInv
  <2>1. SoundInv
    BY DEF SettingsInit, SoundInv
  <2>2. Clamp(limits) = Recovered
    BY SettingsAssumption DEF SettingsInit, Recovered, Clamp, Pair
  <2> QED  BY <2>1, <2>2 DEF LimitsSurviveRestart
<1> QED  BY <1>1, NextSurvives, PTL DEF SettingsSpec, SurvivalInv

-----------------------------------------------------------------------------
\* If the queries answer, max_workers is never set to 0.
THEOREM NeverZeroCorrect ==
    ASSUME "read" \notin Faults
    PROVE  SettingsSpec => []MaxIsNeverZero
<1> DEFINE Inv == SettingsTypeOK /\ NoZeroInv
<1>1. SettingsInit => Inv
  BY SettingsInitTyped, SettingsAssumption
     DEF SettingsInit, NoZeroInv, MaxIsNeverZero, Recovered, Clamp, Pair
<1>2. Inv /\ [SettingsNext]_settingsVars => Inv'
  <2> SUFFICES ASSUME Inv, [SettingsNext]_settingsVars PROVE NoZeroInv'
    BY SettingsNextTyped
  <2>1. CASE FetchSettings \/ FillFields
    <3>1. \A n : Queried(n) = {n}
      BY DEF Queried
    <3>2. seen # 0 /\ NoRequest # 0 /\ rows.max > 0 /\ rows.max \in Int
      BY SettingsAssumption DEF NoZeroInv, SettingsTypeOK, Pairs
    <3>3. ASSUME FetchSettings PROVE NoZeroInv'
      BY <3>1, <3>2, <3>3 DEF FetchSettings, NoZeroInv, MaxIsNeverZero
    <3>4. ASSUME FillFields PROVE NoZeroInv'
      <4>1. filled' => form'.max # 0
        BY <3>1, <3>2, <3>4 DEF FillFields, Pair, NoZeroInv
      <4> QED  BY <3>2, <3>4, <4>1 DEF FillFields, NoZeroInv, MaxIsNeverZero
    <3> QED  BY <2>1, <3>3, <3>4
  <2>2. CASE Reopen
    <3>1. \A p \in Requests : put[p] # NoRequest => put'[p].sent = put[p].sent
      BY <2>2, PutTyped DEF Reopen, Puts
    <3>2. \A p \in Requests : put[p] = NoRequest => put'[p] = NoRequest
      BY <2>2 DEF Reopen
    <3> QED  BY <2>2, <3>1, <3>2, SettingsAssumption DEF Reopen, NoZeroInv, MaxIsNeverZero
  <2>3. CASE EditLimit
    <3>1. \A n \in Numbers : MaxTyped(n) # 0
      BY SettingsAssumption DEF MaxTyped
    <3> QED  BY <2>3, <3>1 DEF EditLimit, NoZeroInv, MaxIsNeverZero, SettingsTypeOK, Pairs
  <2>4. CASE RestartApp
    BY <2>4, SettingsAssumption
       DEF RestartApp, NoZeroInv, MaxIsNeverZero, Recovered, Clamp, Pair, SettingsTypeOK, Pairs
  <2>5. ASSUME NEW q \in Requests, NEW numbers, NEW own, numbers.max # 0, Arrive(q, numbers, own)
        PROVE  NoZeroInv'
    <3>1. \A p \in Requests \ {q} : put'[p] # NoRequest =>
             put[p] # NoRequest /\ put'[p].sent = put[p].sent
      BY <2>5, PutTyped DEF Arrive, Puts
    <3>2. put'[q].sent = numbers
      BY <2>5 DEF Arrive
    <3> QED  BY <2>5, <3>1, <3>2 DEF Arrive, NoZeroInv, MaxIsNeverZero, pageVars
  <2>6. ASSUME NEW q \in Requests, Save(q) PROVE NoZeroInv'
    BY <2>5, <2>6 DEF Save, CanSave, NoZeroInv
  <2>7. ASSUME NEW q \in Requests, OtherSaves(q) PROVE NoZeroInv'
    <3>1. \A m, w \in Numbers : Pair(MaxTyped(m), w).max # 0
      BY SettingsAssumption DEF MaxTyped, Pair
    <3> QED  BY <2>5, <2>7, <3>1 DEF OtherSaves
  <2>8. ASSUME NEW q \in Requests, UpsertMax(q) \/ UpsertWarm(q) PROVE NoZeroInv'
    <3>1. put[q] \in Puts /\ put[q] # NoRequest
      BY <2>8, PutTyped DEF UpsertMax, UpsertWarm, Under
    <3>2. rows'.max > 0
      BY <2>8, <3>1 DEF UpsertMax, UpsertWarm, StoreFails, NoZeroInv, SettingsTypeOK, Pairs, Puts
    <3>3. put'[q].sent = put[q].sent /\ \A o \in Requests \ {q} : put'[o] = put[o]
      BY <2>8, <3>1 DEF UpsertMax, UpsertWarm, StoreFails, SettingsTypeOK, Puts
    <3> QED  BY <2>8, <3>1, <3>2, <3>3 DEF UpsertMax, UpsertWarm, NoZeroInv, MaxIsNeverZero, pageVars
  <2>9. ASSUME NEW q \in Requests, Apply(q) PROVE NoZeroInv'
    BY <2>9 DEF Apply, Under, pageVars, NoZeroInv, MaxIsNeverZero, SettingsTypeOK
  <2>10. CASE UNCHANGED settingsVars
    BY <2>10 DEF settingsVars, pageVars, NoZeroInv, MaxIsNeverZero
  <2> QED  BY <2>1, <2>2, <2>3, <2>4, <2>6, <2>7, <2>8, <2>9, <2>10 DEF SettingsNext
<1> QED  BY <1>1, <1>2, PTL DEF SettingsSpec, NoZeroInv

-----------------------------------------------------------------------------
(* The theme.  There is one inductive invariant per property: DrawInv says *)
(* what a tab shows while a change of the system's preference is on its    *)
(* way, MailInv that a change which met no other is either stored in a tab *)
(* or the one event on its way to it.                                      *)

\* What a tab shows is what its last effect drew, as the system prefers now
\* unless that change has still to be dispatched.
DrawInv ==
    \A tab \in Tabs :
        Ready(tab) /\ (due[tab] => ~Listens(tab)) => shown[tab] = Resolve(drawn[tab], system)

MailInv ==
    ~crossed => \A tab \in Tabs :
        \/ mail[tab] = <<>> /\ theme[tab] = Read(stored)
        \/ mail[tab] = <<stored>>

-----------------------------------------------------------------------------
LEMMA ThemeInitTyped == ThemeInit => ThemeTypeOK
<1> SUFFICES ASSUME ThemeInit PROVE ThemeTypeOK
  OBVIOUS
<1>1. mail \in [Tabs -> Seq(Themes \cup {Nothing})]
  <2>1. <<>> \in Seq(Themes \cup {Nothing})
    OBVIOUS
  <2> QED  BY <2>1 DEF ThemeInit
<1> QED  BY <1>1 DEF ThemeInit, ThemeTypeOK, Themes, Resolved

LEMMA StoreTyped ==
    ASSUME ThemeTypeOK, NEW value \in Themes \cup {Nothing}, NEW tellers, Store(value, tellers)
    PROVE  /\ stored' \in Themes \cup {Nothing} /\ system' \in Resolved
           /\ mail' \in [Tabs -> Seq(Themes \cup {Nothing})]
           /\ crossed' \in BOOLEAN
<1>1. \A tab \in Tabs : Append(mail[tab], value) \in Seq(Themes \cup {Nothing})
  BY DEF ThemeTypeOK
<1>2. mail' \in [Tabs -> Seq(Themes \cup {Nothing})]
  BY <1>1 DEF ThemeTypeOK, Store
<1>3. crossed' \in BOOLEAN
  BY DEF Store
<1> QED  BY <1>2, <1>3 DEF ThemeTypeOK, Store

LEMMA ChooseTyped ==
    ASSUME ThemeTypeOK, NEW tab \in Tabs, NEW t \in Themes, Choose(tab, t)
    PROVE  ThemeTypeOK'
<1>1. /\ stored' \in Themes \cup {Nothing} /\ system' \in Resolved
      /\ mail' \in [Tabs -> Seq(Themes \cup {Nothing})]
      /\ crossed' \in BOOLEAN
  <2>1. CASE Store(t, {tab})
    BY <2>1, StoreTyped
  <2>2. CASE t = stored /\ UNCHANGED <<stored, system, mail, crossed>>
    BY <2>2 DEF ThemeTypeOK
  <2> QED  BY <2>1, <2>2 DEF Choose
<1> QED  BY <1>1 DEF Choose, ThemeTypeOK

LEMMA ThemeNextTyped == ThemeTypeOK /\ [ThemeNext]_themeVars => ThemeTypeOK'
<1> SUFFICES ASSUME ThemeTypeOK, [ThemeNext]_themeVars PROVE ThemeTypeOK'
  OBVIOUS
<1>1. ASSUME NEW tab \in Tabs, Load(tab) PROVE ThemeTypeOK'
  <2>1. <<>> \in Seq(Themes \cup {Nothing})
    OBVIOUS
  <2> QED  BY <1>1, <2>1 DEF Load, ThemeTypeOK, Read, Themes
<1>2. ASSUME NEW tab \in Tabs, SetTheme(tab) PROVE ThemeTypeOK'
  BY <1>2, ChooseTyped DEF SetTheme
<1>3. ASSUME NEW tab \in Tabs, ToggleTheme(tab) PROVE ThemeTypeOK'
  BY <1>3, ChooseTyped DEF ToggleTheme, Themes
<1>4. ASSUME NEW tab \in Tabs, HandleStorage(tab) PROVE ThemeTypeOK'
  <2>1. mail[tab] \in Seq(Themes \cup {Nothing}) /\ mail[tab] # <<>>
    BY <1>4 DEF HandleStorage, ThemeTypeOK
  <2>2. Tail(mail[tab]) \in Seq(Themes \cup {Nothing})
    BY <2>1
  <2>3. Read(Head(mail[tab])) \in Themes
    BY DEF Read, Themes
  <2> QED  BY <1>4, <2>2, <2>3 DEF HandleStorage, ThemeTypeOK
<1>5. ASSUME NEW tab \in Tabs, Draw(tab) PROVE ThemeTypeOK'
  BY <1>5 DEF Draw, ThemeTypeOK, Resolve, Themes, Resolved
<1>6. ASSUME NEW tab \in Tabs, HandleChange(tab) PROVE ThemeTypeOK'
  BY <1>6 DEF HandleChange, ThemeTypeOK
<1>7. CASE RemoveTheme
  BY <1>7, StoreTyped DEF RemoveTheme, tabVars, ThemeTypeOK
<1>8. CASE SystemChange
  BY <1>8 DEF SystemChange, ThemeTypeOK, Ready
<1>9. CASE UNCHANGED themeVars
  BY <1>9 DEF themeVars, ThemeTypeOK
<1> QED  BY <1>1, <1>2, <1>3, <1>4, <1>5, <1>6, <1>7, <1>8, <1>9 DEF ThemeNext

\* Every reachable state is typed.
THEOREM ThemeTypeCorrect == ThemeSpec => []ThemeTypeOK
BY ThemeInitTyped, ThemeNextTyped, PTL DEF ThemeSpec

-----------------------------------------------------------------------------
LEMMA NextDraws == ThemeTypeOK /\ DrawInv /\ [ThemeNext]_themeVars => DrawInv'
<1> SUFFICES ASSUME ThemeTypeOK, DrawInv, [ThemeNext]_themeVars, NEW u \in Tabs,
                    Ready(u)', (due[u] => ~Listens(u))'
             PROVE  shown'[u] = Resolve(drawn'[u], system')
  BY DEF DrawInv, Ready, Listens
<1>1. CASE system' = system /\ UNCHANGED <<drawn, shown, due>>
  BY <1>1 DEF DrawInv, Ready, Listens
<1>2. ASSUME NEW tab \in Tabs, Load(tab) PROVE shown'[u] = Resolve(drawn'[u], system')
  BY <1>2 DEF Load, DrawInv, Ready, Listens, ThemeTypeOK
<1>3. ASSUME NEW tab \in Tabs, NEW t, Choose(tab, t) PROVE shown'[u] = Resolve(drawn'[u], system')
  BY <1>1, <1>3 DEF Choose, Store
<1>4. ASSUME NEW tab \in Tabs, HandleStorage(tab) PROVE shown'[u] = Resolve(drawn'[u], system')
  BY <1>1, <1>4 DEF HandleStorage
<1>5. ASSUME NEW tab \in Tabs, Draw(tab) PROVE shown'[u] = Resolve(drawn'[u], system')
  BY <1>5 DEF Draw, DrawInv, Ready, Listens, ThemeTypeOK
<1>6. ASSUME NEW tab \in Tabs, HandleChange(tab) PROVE shown'[u] = Resolve(drawn'[u], system')
  BY <1>6 DEF HandleChange, DrawInv, Ready, Listens, Resolve, ThemeTypeOK, Themes
<1>7. CASE RemoveTheme
  BY <1>1, <1>7 DEF RemoveTheme, Store, tabVars
<1>8. CASE SystemChange
  BY <1>8 DEF SystemChange, DrawInv, Ready, Listens, Resolve, ThemeTypeOK, Themes
<1>9. CASE UNCHANGED themeVars
  BY <1>1, <1>9 DEF themeVars
<1> QED  BY <1>2, <1>3, <1>4, <1>5, <1>6, <1>7, <1>8, <1>9 DEF ThemeNext, SetTheme, ToggleTheme

\* Whatever the order of events and effects, a tab that has nothing left to do
\* is drawn in its theme.
THEOREM DrawnCorrect == ThemeSpec => []DrawnIsTheme
<1>1. ThemeInit => DrawInv
  BY DEF ThemeInit, DrawInv, Ready
<1>2. ThemeTypeOK /\ DrawInv => DrawnIsTheme
  BY DEF ThemeTypeOK, DrawInv, DrawnIsTheme, Ready, Listens, Themes, Resolved, Nothing
<1> QED  BY <1>1, <1>2, ThemeTypeCorrect, NextDraws, PTL DEF ThemeSpec

-----------------------------------------------------------------------------
LEMMA StoreMails ==
    ASSUME ThemeTypeOK, NEW value \in Themes \cup {Nothing}, NEW tellers, Store(value, tellers),
           ~crossed', NEW u \in Tabs
    PROVE  /\ u \in tellers => mail'[u] = <<>>
           /\ u \notin tellers => mail'[u] = <<stored'>>
<1>1. mail[u] = <<>> /\ Ready(u)
  BY DEF Store
<1>2. Append(<<>>, value) = <<value>>
  OBVIOUS
<1> QED  BY <1>1, <1>2 DEF Store, ThemeTypeOK

LEMMA ChooseMails ==
    ASSUME ThemeTypeOK, MailInv, NEW tab \in Tabs, NEW t \in Themes, Choose(tab, t),
           ~crossed', NEW u \in Tabs
    PROVE  \/ mail'[u] = <<>> /\ theme'[u] = Read(stored')
           \/ mail'[u] = <<stored'>>
<1>1. theme' = [theme EXCEPT ![tab] = t]
  BY DEF Choose
<1>2. CASE Store(t, {tab})
  <2>1. u = tab => mail'[u] = <<>> /\ theme'[u] = Read(stored')
    BY <1>1, <1>2, StoreMails DEF Store, Read, ThemeTypeOK
  <2>2. u # tab => mail'[u] = <<stored'>>
    BY <1>2, StoreMails
  <2> QED  BY <2>1, <2>2
<1>3. CASE t = stored /\ UNCHANGED <<stored, system, mail, crossed>>
  BY <1>1, <1>3 DEF MailInv, Read, ThemeTypeOK
<1> QED  BY <1>2, <1>3 DEF Choose

LEMMA NextMails == ThemeTypeOK /\ MailInv /\ [ThemeNext]_themeVars => MailInv'
<1> SUFFICES ASSUME ThemeTypeOK, MailInv, [ThemeNext]_themeVars, ~crossed', NEW u \in Tabs
             PROVE  \/ mail'[u] = <<>> /\ theme'[u] = Read(stored')
                    \/ mail'[u] = <<stored'>>
  BY DEF MailInv, Read
<1> DEFINE Goal == \/ mail'[u] = <<>> /\ theme'[u] = Read(stored')
                   \/ mail'[u] = <<stored'>>
<1>1. CASE UNCHANGED <<stored, theme, mail, crossed>>
  BY <1>1 DEF MailInv, Read
<1>2. ASSUME NEW tab \in Tabs, Load(tab) PROVE Goal
  BY <1>2 DEF Load, MailInv, Read, ThemeTypeOK
<1>3. ASSUME NEW tab \in Tabs, SetTheme(tab) PROVE Goal
  BY <1>3, ChooseMails DEF SetTheme
<1>4. ASSUME NEW tab \in Tabs, ToggleTheme(tab) PROVE Goal
  BY <1>4, ChooseMails DEF ToggleTheme, Themes
<1>5. ASSUME NEW tab \in Tabs, HandleStorage(tab) PROVE Goal
  <2>1. mail[tab] = <<stored>>
    BY <1>5 DEF HandleStorage, MailInv
  <2>2. Head(mail[tab]) = stored /\ Tail(mail[tab]) = <<>>
    BY <2>1
  <2> QED  BY <1>5, <2>2 DEF HandleStorage, MailInv, Read, ThemeTypeOK
<1>6. ASSUME NEW tab \in Tabs, Draw(tab) \/ HandleChange(tab) PROVE Goal
  BY <1>1, <1>6 DEF Draw, HandleChange
<1>7. CASE RemoveTheme
  <2>1. Store(Nothing, {}) /\ Nothing \in Themes \cup {Nothing} /\ u \notin {}
    BY <1>7 DEF RemoveTheme
  <2> HIDE DEF Nothing
  <2>2. mail'[u] = <<stored'>>
    BY <2>1, StoreMails
  <2> QED  BY <2>2
<1>8. CASE SystemChange
  BY <1>1, <1>8 DEF SystemChange
<1>9. CASE UNCHANGED themeVars
  BY <1>1, <1>9 DEF themeVars
<1> QED  BY <1>2, <1>3, <1>4, <1>5, <1>6, <1>7, <1>8, <1>9 DEF ThemeNext

\* The tabs come to agree on what is stored, unless changes cross.
THEOREM TabsCorrect == ThemeSpec => []TabsAgree
<1>1. ThemeInit => MailInv
  BY DEF ThemeInit, MailInv, Read, Themes, Resolved, Nothing
<1>2. MailInv => TabsAgree
  <2>1. <<stored>> # <<>>
    OBVIOUS
  <2> QED  BY <2>1 DEF MailInv, TabsAgree
<1> QED  BY <1>1, <1>2, ThemeTypeCorrect, NextMails, PTL DEF ThemeSpec
=============================================================================
