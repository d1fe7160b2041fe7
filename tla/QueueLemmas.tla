----------------------------- MODULE QueueLemmas -----------------------------
(***************************************************************************)
(* What the operations on the driver's linked lists (list_add_tail, the    *)
(* removal of the first node, list_del of a node in the middle) do to the  *)
(* set of the nodes of a list and to its being free of duplicates.  The    *)
(* proofs about the components argue about lists by way of these facts.    *)
(***************************************************************************)
EXTENDS Integers, Sequences, SequencesExt, Lists, FiniteSetTheorems, SequenceTheorems, TLAPS

(* The nodes of a list lie in the set its elements are taken from. *)
LEMMA ToSetType ==
    ASSUME NEW S, NEW q \in Seq(S)
    PROVE  /\ ToSet(q) \subseteq S
           /\ q = <<>> <=> ToSet(q) = {}
           /\ \A x : x \in ToSet(q) <=> \E i \in 1..Len(q) : q[i] = x
  BY DEF ToSet

(* The empty list has no nodes. *)
LEMMA EmptyQueue == ToSet(<<>>) = {} /\ IsInjective(<<>>)
  BY DEF ToSet, IsInjective

(* list_add_tail: one more node, and no duplicate if it was not linked. *)
LEMMA AppendToSet ==
    ASSUME NEW S, NEW q \in Seq(S), NEW e \in S
    PROVE  /\ Append(q, e) \in Seq(S)
           /\ Append(q, e) # <<>>
           /\ Len(Append(q, e)) = Len(q) + 1
           /\ ToSet(Append(q, e)) = ToSet(q) \cup {e}
           /\ IsInjective(q) /\ e \notin ToSet(q) => IsInjective(Append(q, e))
<1> DEFINE r == Append(q, e)
<1>1. /\ Len(q) \in Nat /\ DOMAIN q = 1..Len(q)
      /\ r \in Seq(S) /\ r # <<>> /\ Len(r) = Len(q) + 1 /\ DOMAIN r = 1..(Len(q) + 1)
      /\ \A i \in 1..Len(q) : r[i] = q[i]
      /\ r[Len(q) + 1] = e
  OBVIOUS
<1> HIDE DEF r
<1>2. ToSet(r) = ToSet(q) \cup {e}
  BY <1>1 DEF ToSet
<1>3. ASSUME IsInjective(q), e \notin ToSet(q) PROVE IsInjective(r)
  <2>1. \A i \in 1..Len(q) : q[i] # e
    BY <1>1, <1>3 DEF ToSet
  <2>2. \A i, j \in 1..Len(q) : q[i] = q[j] => i = j
    BY <1>1, <1>3 DEF IsInjective
  <2>3. ASSUME NEW i \in 1..(Len(q) + 1), NEW j \in 1..(Len(q) + 1), r[i] = r[j] PROVE i = j
    <3>1. CASE i \in 1..Len(q) /\ j \in 1..Len(q)
      BY <3>1, <2>2, <2>3, <1>1
    <3>2. CASE i = Len(q) + 1 \/ j = Len(q) + 1
      BY <3>2, <2>1, <2>3, <1>1
    <3> QED
      BY <3>1, <3>2, <1>1
  <2> QED
    BY <2>3, <1>1 DEF IsInjective
<1> QED
  BY <1>1, <1>2, <1>3 DEF r

(* The first node is taken: it is linked no longer, all others are. *)
LEMMA TailToSet ==
    ASSUME NEW S, NEW q \in Seq(S), q # <<>>
    PROVE  /\ Head(q) \in S /\ Head(q) \in ToSet(q)
           /\ Tail(q) \in Seq(S) /\ Len(Tail(q)) = Len(q) - 1
           /\ ToSet(q) = ToSet(Tail(q)) \cup {Head(q)}
           /\ IsInjective(q) => /\ IsInjective(Tail(q))
                                /\ ToSet(Tail(q)) = ToSet(q) \ {Head(q)}
<1> DEFINE r == Tail(q)
           h == Head(q)
<1>1. /\ Len(q) \in Nat \ {0} /\ DOMAIN q = 1..Len(q)
      /\ h \in S /\ h = q[1]
      /\ r \in Seq(S) /\ Len(r) = Len(q) - 1 /\ DOMAIN r = 1..(Len(q) - 1)
      /\ \A i \in 1..(Len(q) - 1) : r[i] = q[i + 1]
  OBVIOUS
<1> HIDE DEF r, h
<1>2. h \in ToSet(q)
  BY <1>1 DEF ToSet
<1>3. ToSet(q) = ToSet(r) \cup {h}
  <2>1. \A x \in ToSet(r) : x \in ToSet(q)
    BY <1>1 DEF ToSet
  <2>2. ASSUME NEW x \in ToSet(q) PROVE x \in ToSet(r) \cup {h}
    <3>1. PICK i \in 1..Len(q) : q[i] = x
      BY <1>1 DEF ToSet
    <3>2. CASE i = 1
      BY <3>1, <3>2, <1>1
    <3>3. CASE i # 1
      <4>1. i - 1 \in 1..(Len(q) - 1) /\ r[i - 1] = x
        BY <3>1, <3>3, <1>1
      <4> QED
        BY <4>1, <1>1 DEF ToSet
    <3> QED
      BY <3>2, <3>3
  <2> QED
    BY <2>1, <2>2, <1>2
<1>4. ASSUME IsInjective(q) PROVE IsInjective(r) /\ h \notin ToSet(r)
  <2>1. \A i, j \in 1..Len(q) : q[i] = q[j] => i = j
    BY <1>1, <1>4 DEF IsInjective
  <2>2. IsInjective(r)
    <3>1. ASSUME NEW i \in 1..(Len(q) - 1), NEW j \in 1..(Len(q) - 1), r[i] = r[j] PROVE i = j
      <4>1. i + 1 \in 1..Len(q) /\ j + 1 \in 1..Len(q) /\ q[i + 1] = q[j + 1]
        BY <3>1, <1>1
      <4> QED
        BY <4>1, <2>1
    <3> QED
      BY <3>1, <1>1 DEF IsInjective
  <2>3. h \notin ToSet(r)
    <3>1. ASSUME NEW i \in 1..(Len(q) - 1), r[i] = h PROVE FALSE
      <4>1. i + 1 \in 1..Len(q) /\ 1 \in 1..Len(q) /\ q[i + 1] = q[1] /\ i + 1 # 1
        BY <3>1, <1>1
      <4> QED
        BY <4>1, <2>1
    <3> QED
      BY <3>1, <1>1 DEF ToSet
  <2> QED
    BY <2>2, <2>3
<1> QED
  BY <1>1, <1>2, <1>3, <1>4 DEF r, h

(* A list without duplicates that is as long as its set of possible nodes  *)
(* is large contains all of them.                                          *)
LEMMA FullQueue ==
    ASSUME NEW S, IsFiniteSet(S), NEW q \in Seq(S), IsInjective(q), Len(q) = Cardinality(S)
    PROVE  ToSet(q) = S
<1>1. q \in [1..Len(q) -> S] /\ DOMAIN q = 1..Len(q) /\ Len(q) \in Nat
  OBVIOUS
<1>2. q \in Injection(1..Len(q), S)
  BY <1>1 DEF Injection, IsInjective
<1>3. Cardinality(1..Len(q)) = Len(q)
  BY <1>1, FS_Interval
<1>4. q \in Surjection(1..Len(q), S)
  BY <1>2, <1>3, FS_Injection
<1> QED
  BY <1>1, <1>4 DEF Surjection, ToSet

(* The pool is linked node by node: a list of all of a finite set. *)
LEMMA SetToSeqAll ==
    ASSUME NEW S, IsFiniteSet(S)
    PROVE  /\ SetToSeq(S) \in Seq(S) /\ IsInjective(SetToSeq(S))
           /\ ToSet(SetToSeq(S)) = S /\ Len(SetToSeq(S)) = Cardinality(S)
<1> DEFINE n == Cardinality(S)
<1>1. n \in Nat /\ ExistsBijection(1..n, S)
  BY FS_CardinalityType
<1> HIDE DEF n
<1>2. \E f \in [1..n -> S] : IsInjective(f)
  <2>1. PICK f : f \in Bijection(1..n, S)
    BY <1>1 DEF ExistsBijection
  <2>2. f \in [1..n -> S] /\ IsInjective(f)
    BY <2>1 DEF Bijection, Injection
  <2> QED
    BY <2>2
<1>3. SetToSeq(S) \in [1..n -> S] /\ IsInjective(SetToSeq(S))
  BY <1>2 DEF SetToSeq, n
<1>4. SetToSeq(S) \in Seq(S) /\ Len(SetToSeq(S)) = n
  BY <1>1, <1>3
<1> QED
  BY <1>3, <1>4, FullQueue DEF n

(* How often a node is in a list without duplicates. *)
LEMMA CountInjective ==
    ASSUME NEW S, NEW q \in Seq(S), IsInjective(q), NEW e
    PROVE  Cardinality({i \in 1..Len(q) : q[i] = e}) = IF e \in ToSet(q) THEN 1 ELSE 0
<1> DEFINE at == {i \in 1..Len(q) : q[i] = e}
<1>1. DOMAIN q = 1..Len(q)
  OBVIOUS
<1>2. CASE e \in ToSet(q)
  <2>1. PICK i \in 1..Len(q) : q[i] = e
    BY <1>1, <1>2 DEF ToSet
  <2>2. at = {i}
    BY <1>1, <2>1 DEF IsInjective
  <2> QED
    BY <1>2, <2>2, FS_Singleton
<1>3. CASE e \notin ToSet(q)
  <2>1. at = {}
    BY <1>1, <1>3 DEF ToSet
  <2> QED
    BY <1>3, <2>1, FS_EmptySet
<1> QED
  BY <1>2, <1>3

(* Sublist takes each of the positions once, in their order: the ranks of  *)
(* the positions are the numbers from 1 to the number of positions.        *)
LEMMA NthPosition ==
    ASSUME NEW n \in Nat, NEW P \in SUBSET (1..n)
    PROVE  /\ IsFiniteSet(P) /\ Cardinality(P) \in 0..n
           /\ \A k \in 1..Cardinality(P) : Nth(P, k) \in P /\ Rank(P, Nth(P, k)) = k
           /\ \A p \in P : Rank(P, p) \in 1..Cardinality(P) /\ Nth(P, Rank(P, p)) = p
           /\ \A k, l \in 1..Cardinality(P) : k < l => Nth(P, k) < Nth(P, l)
<1> DEFINE Up(p) == {x \in P : x =< p}
           c == Cardinality(P)
           rank == [p \in P |-> Cardinality(Up(p))]
<1>1. IsFiniteSet(P) /\ c \in 0..n
  <2>1. IsFiniteSet(1..n) /\ Cardinality(1..n) = n
    BY FS_Interval
  <2>2. IsFiniteSet(P) /\ Cardinality(P) =< n
    BY <2>1, FS_Subset
  <2> QED
    BY <2>2, FS_CardinalityType
<1>2. \A p : IsFiniteSet(Up(p)) /\ Cardinality(Up(p)) \in Nat /\ Cardinality(Up(p)) =< c
  <2> TAKE p
  <2>1. Up(p) \in SUBSET P
    OBVIOUS
  <2> QED
    BY <1>1, <2>1, FS_Subset, FS_CardinalityType
<1>3. ASSUME NEW p \in P, NEW x \in P, p < x PROVE Cardinality(Up(p)) < Cardinality(Up(x))
  <2>1. /\ Up(p) \in SUBSET Up(x)
        /\ x \in Up(x) /\ x \notin Up(p)
    <3>1. p \in Nat /\ x \in Nat /\ \A y \in P : y \in Nat /\ (y =< p => y =< x)
      BY <1>3
    <3>2. Up(p) \in SUBSET Up(x)
      BY <3>1
    <3>3. x \in Up(x) /\ x \notin Up(p)
      BY <3>1, <1>3
    <3> QED
      BY <3>2, <3>3
  <2>2. Up(p) # Up(x)
    BY <2>1
  <2>3. Cardinality(Up(p)) =< Cardinality(Up(x)) /\ Cardinality(Up(p)) # Cardinality(Up(x))
    BY <2>1, <2>2, <1>2, FS_Subset
  <2> QED
    BY <2>3, <1>2
<1>4. \A p \in P : Cardinality(Up(p)) \in 1..c
  <2> TAKE p \in P
  <2>1. p \in Up(p)
    OBVIOUS
  <2>2. Cardinality(Up(p)) # 0
    BY <2>1, <1>2, FS_EmptySet
  <2> QED
    BY <2>2, <1>2, <1>1
<1> HIDE DEF Up, c
<1>5. rank \in Injection(P, 1..c)
  <2>1. rank \in [P -> 1..c]
    BY <1>4
  <2>2. ASSUME NEW p \in P, NEW x \in P, rank[p] = rank[x] PROVE p = x
    BY <2>2, <1>3, <1>4
  <2> QED
    BY <2>1, <2>2 DEF Injection, IsInjective
<1>6. rank \in Surjection(P, 1..c)
  <2>1. IsFiniteSet(1..c) /\ Cardinality(1..c) = c
    BY <1>1, FS_Interval
  <2> QED
    BY <1>1, <1>5, <2>1, FS_Injection DEF c
<1>7. \A k \in 1..c : \E p \in P : Cardinality(Up(p)) = k
  BY <1>6 DEF Surjection
<1>8. \A k \in 1..c : Nth(P, k) \in P /\ Cardinality(Up(Nth(P, k))) = k
  BY <1>7 DEF Nth, Rank, Up
<1>9. ASSUME NEW p \in P PROVE Nth(P, Cardinality(Up(p))) = p
  <2>1. /\ Nth(P, Cardinality(Up(p))) \in P
        /\ Cardinality(Up(Nth(P, Cardinality(Up(p))))) = Cardinality(Up(p))
    BY <1>4, <1>8
  <2>2. ASSUME NEW x \in P, Cardinality(Up(x)) = Cardinality(Up(p)) PROVE x = p
    BY <2>2, <1>3, <1>4
  <2> QED
    BY <2>1, <2>2
<1>10. ASSUME NEW k \in 1..c, NEW l \in 1..c, k < l PROVE Nth(P, k) < Nth(P, l)
  <2> DEFINE a == Nth(P, k)
             b == Nth(P, l)
  <2>1. /\ a \in P /\ b \in P /\ a \in Nat /\ b \in Nat
        /\ Cardinality(Up(a)) = k /\ Cardinality(Up(b)) = l
    <3>1. \A p \in P : p \in Nat
      OBVIOUS
    <3> QED
      BY <3>1, <1>8
  <2> HIDE DEF a, b
  <2>2. ~(b < a) /\ a # b
    BY <2>1, <1>3, <1>10
  <2>3. a < b
    BY <2>1, <2>2
  <2> QED
    BY <2>3 DEF a, b
<1> QED
  BY <1>1, <1>4, <1>8, <1>9, <1>10 DEF Rank, Up, c

(* A walk over a list keeps what it has of elements, and of being without  *)
(* duplicates.                                                             *)
LEMMA SublistProps ==
    ASSUME NEW S, NEW q \in Seq(S), NEW P \in SUBSET DOMAIN q
    PROVE  /\ IsFiniteSet(P) /\ Cardinality(P) \in 0..Len(q)
           /\ Sublist(q, P) \in Seq(S) /\ Len(Sublist(q, P)) = Cardinality(P)
           /\ ToSet(Sublist(q, P)) = {q[p] : p \in P}
           /\ IsInjective(q) => IsInjective(Sublist(q, P))
<1>1. Len(q) \in Nat /\ DOMAIN q = 1..Len(q)
  OBVIOUS
<1> DEFINE c == Cardinality(P)
           r == Sublist(q, P)
<1>2. /\ IsFiniteSet(P) /\ c \in 0..Len(q)
      /\ \A k \in 1..c : Nth(P, k) \in P
      /\ \A p \in P : \E k \in 1..c : Nth(P, k) = p
      /\ \A k, l \in 1..c : k < l => Nth(P, k) < Nth(P, l)
  BY <1>1, NthPosition
<1>3. r = [k \in 1..c |-> q[Nth(P, k)]]
  BY DEF Sublist
<1> HIDE DEF c, r
<1>4. r \in Seq(S) /\ Len(r) = c /\ DOMAIN r = 1..c
  <2>1. r \in [1..c -> S]
    BY <1>1, <1>2, <1>3
  <2> QED
    BY <2>1, <1>2
<1>5. ToSet(r) = {q[p] : p \in P}
  <2>1. ToSet(r) \subseteq {q[p] : p \in P}
    BY <1>2, <1>3, <1>4 DEF ToSet
  <2>2. ASSUME NEW p \in P PROVE q[p] \in ToSet(r)
    <3>1. PICK k \in 1..c : Nth(P, k) = p
      BY <1>2
    <3>2. r[k] = q[p]
      BY <3>1, <1>3
    <3> QED
      BY <3>2, <1>4 DEF ToSet
  <2> QED
    BY <2>1, <2>2
<1>6. ASSUME IsInjective(q) PROVE IsInjective(r)
  <2>1. ASSUME NEW k \in 1..c, NEW l \in 1..c, r[k] = r[l] PROVE k = l
    <3>1. Nth(P, k) \in 1..Len(q) /\ Nth(P, l) \in 1..Len(q) /\ q[Nth(P, k)] = q[Nth(P, l)]
      BY <2>1, <1>1, <1>2, <1>3
    <3>2. Nth(P, k) = Nth(P, l)
      BY <3>1, <1>1, <1>6 DEF IsInjective
    <3> QED
      BY <3>1, <3>2, <1>2
  <2> QED
    BY <2>1, <1>4 DEF IsInjective
<1> QED
  BY <1>2, <1>4, <1>5, <1>6 DEF c, r

(* A list built by putting each node in front has the nodes of the other.  *)
LEMMA ReverseProps ==
    ASSUME NEW S, NEW q \in Seq(S)
    PROVE  /\ Reverse(q) \in Seq(S) /\ Len(Reverse(q)) = Len(q)
           /\ ToSet(Reverse(q)) = ToSet(q)
           /\ IsInjective(q) => IsInjective(Reverse(q))
<1> DEFINE r == Reverse(q)
           n == Len(q)
<1>1. n \in Nat /\ DOMAIN q = 1..n /\ q \in [1..n -> S]
  OBVIOUS
<1>2. r = [i \in 1..n |-> q[(n - i) + 1]]
  BY DEF Reverse
<1> HIDE DEF r, n
<1>3. \A i \in 1..n : (n - i) + 1 \in 1..n
  BY <1>1
<1>4. r \in Seq(S) /\ Len(r) = n /\ DOMAIN r = 1..n
  <2>1. r \in [1..n -> S]
    BY <1>1, <1>2, <1>3
  <2> QED
    BY <2>1, <1>1
<1>5. ToSet(r) = ToSet(q)
  <2>1. ToSet(r) \subseteq ToSet(q)
    BY <1>1, <1>2, <1>3, <1>4 DEF ToSet
  <2>2. ASSUME NEW i \in 1..n PROVE q[i] \in ToSet(r)
    <3>1. (n - i) + 1 \in 1..n /\ r[(n - i) + 1] = q[(n - ((n - i) + 1)) + 1]
      BY <1>2, <1>3
    <3>2. (n - ((n - i) + 1)) + 1 = i
      BY <1>1
    <3> QED
      BY <3>1, <3>2, <1>4 DEF ToSet
  <2> QED
    BY <2>1, <2>2, <1>1 DEF ToSet
<1>6. ASSUME IsInjective(q) PROVE IsInjective(r)
  <2>1. ASSUME NEW i \in 1..n, NEW j \in 1..n, r[i] = r[j] PROVE i = j
    <3>1. (n - i) + 1 = (n - j) + 1
      BY <2>1, <1>1, <1>2, <1>3, <1>6 DEF IsInjective
    <3> QED
      BY <3>1, <1>1
  <2> QED
    BY <2>1, <1>4 DEF IsInjective
<1> QED
  BY <1>4, <1>5, <1>6 DEF r, n

(* One list spliced onto another. *)
LEMMA ConcatToSet ==
    ASSUME NEW S, NEW q \in Seq(S), NEW r \in Seq(S)
    PROVE  /\ q \o r \in Seq(S) /\ Len(q \o r) = Len(q) + Len(r)
           /\ ToSet(q \o r) = ToSet(q) \cup ToSet(r)
           /\ IsInjective(q) /\ IsInjective(r) /\ ToSet(q) \cap ToSet(r) = {} => IsInjective(q \o r)
<1> DEFINE t == q \o r
           m == Len(q)
           n == Len(r)
<1>1. /\ m \in Nat /\ n \in Nat /\ DOMAIN q = 1..m /\ DOMAIN r = 1..n
      /\ t \in Seq(S) /\ Len(t) = m + n /\ DOMAIN t = 1..(m + n)
      /\ \A i \in 1..(m + n) : t[i] = IF i =< m THEN q[i] ELSE r[i - m]
  OBVIOUS
<1> HIDE DEF t, m, n
<1>2. ToSet(t) = ToSet(q) \cup ToSet(r)
  <2>1. ASSUME NEW i \in 1..(m + n) PROVE t[i] \in ToSet(q) \cup ToSet(r)
    <3>1. CASE i =< m
      <4>1. i \in 1..m /\ t[i] = q[i]
        BY <1>1, <3>1
      <4> QED
        BY <4>1, <1>1 DEF ToSet
    <3>2. CASE ~(i =< m)
      <4>1. i - m \in 1..n /\ t[i] = r[i - m]
        BY <1>1, <3>2
      <4> QED
        BY <4>1, <1>1 DEF ToSet
    <3> QED
      BY <3>1, <3>2
  <2>2. ASSUME NEW i \in 1..m PROVE q[i] \in ToSet(t)
    <3>1. i \in 1..(m + n) /\ t[i] = q[i]
      BY <1>1
    <3> QED
      BY <3>1, <1>1 DEF ToSet
  <2>3. ASSUME NEW i \in 1..n PROVE r[i] \in ToSet(t)
    <3>1. i + m \in 1..(m + n) /\ t[i + m] = r[i]
      BY <1>1
    <3> QED
      BY <3>1, <1>1 DEF ToSet
  <2> QED
    BY <2>1, <2>2, <2>3, <1>1 DEF ToSet
<1>3. ASSUME IsInjective(q), IsInjective(r), ToSet(q) \cap ToSet(r) = {} PROVE IsInjective(t)
  <2>1. ASSUME NEW i \in 1..(m + n), NEW j \in 1..(m + n), t[i] = t[j] PROVE i = j
    <3>1. CASE i =< m /\ j =< m
      <4>1. i \in 1..m /\ j \in 1..m /\ q[i] = q[j]
        BY <2>1, <3>1, <1>1
      <4> QED
        BY <4>1, <1>1, <1>3 DEF IsInjective
    <3>2. CASE ~(i =< m) /\ ~(j =< m)
      <4>1. i - m \in 1..n /\ j - m \in 1..n /\ r[i - m] = r[j - m]
        BY <2>1, <3>2, <1>1
      <4>2. i - m = j - m
        BY <4>1, <1>1, <1>3 DEF IsInjective
      <4> QED
        BY <4>2, <1>1
    <3>3. ASSUME NEW x \in 1..(m + n), NEW y \in 1..(m + n), x =< m, ~(y =< m), t[x] = t[y]
          PROVE FALSE
      <4>1. x \in 1..m /\ y - m \in 1..n /\ q[x] = r[y - m]
        BY <3>3, <1>1
      <4> QED
        BY <4>1, <1>1, <1>3 DEF ToSet
    <3> QED
      BY <3>1, <3>2, <3>3, <2>1
  <2> QED
    BY <2>1, <1>1 DEF IsInjective
<1> QED
  BY <1>1, <1>2, <1>3 DEF t, m, n

(* list_del of a node in the middle: the others stay, in their order. *)
LEMMA RemoveAtProps ==
    ASSUME NEW S, NEW q \in Seq(S), NEW i \in 1..Len(q)
    PROVE  /\ RemoveAt(q, i) \in Seq(S) /\ Len(RemoveAt(q, i)) = Len(q) - 1
           /\ \A j \in 1..(Len(q) - 1) :
                 RemoveAt(q, i)[j] = IF j < i THEN q[j] ELSE q[j + 1]
           /\ IsInjective(q) => /\ IsInjective(RemoveAt(q, i))
                                /\ ToSet(RemoveAt(q, i)) = ToSet(q) \ {q[i]}
<1> DEFINE a == SubSeq(q, 1, i - 1)
           b == SubSeq(q, i + 1, Len(q))
           r == RemoveAt(q, i)
           n == Len(q)
<1>1. n \in Nat /\ DOMAIN q = 1..n /\ i \in 1..n /\ q \in [1..n -> S]
  OBVIOUS
<1>2. /\ a \in Seq(S) /\ Len(a) = i - 1 /\ \A j \in 1..(i - 1) : a[j] = q[j]
  BY <1>1
<1>3. /\ b \in Seq(S) /\ Len(b) = n - i /\ \A j \in 1..(n - i) : b[j] = q[i + j]
  <2>1. b \in Seq(S)
    BY <1>1
  <2>2. b = [j \in 1..((n - (i + 1)) + 1) |-> q[((i + 1) + j) - 1]]
    BY <1>1
  <2>3. (n - (i + 1)) + 1 = n - i /\ n - i \in Nat /\ \A j \in 1..(n - i) : ((i + 1) + j) - 1 = i + j
    BY <1>1
  <2> HIDE DEF b, n
  <2>4. \A j \in 1..(n - i) : b[j] = q[i + j]
    BY <2>2, <2>3
  <2>5. DOMAIN b = 1..(n - i)
    BY <2>2, <2>3
  <2>6. Len(b) = n - i
    BY <2>1, <2>3, <2>5
  <2> QED
    BY <2>1, <2>4, <2>6
<1>4. r = a \o b
  BY DEF RemoveAt
<1> HIDE DEF a, b, r, n
<1>5. r \in Seq(S) /\ Len(r) = n - 1
  <2>1. r \in Seq(S) /\ Len(r) = Len(a) + Len(b)
    BY <1>2, <1>3, <1>4, ConcatToSet
  <2> QED
    BY <1>1, <1>2, <1>3, <2>1
<1>6. \A j \in 1..(n - 1) : r[j] = IF j < i THEN q[j] ELSE q[j + 1]
  <2> SUFFICES ASSUME NEW j \in 1..(n - 1)
               PROVE  r[j] = IF j < i THEN q[j] ELSE q[j + 1]
    OBVIOUS
  <2>1. CASE j < i
    <3>1. j \in 1..(i - 1) /\ r[j] = a[j]
      BY <1>1, <1>2, <1>3, <1>4, <2>1
    <3> QED
      BY <1>2, <2>1, <3>1
  <2>2. CASE ~(j < i)
    <3>1. j - (i - 1) \in 1..(n - i) /\ r[j] = b[j - (i - 1)]
      BY <1>1, <1>2, <1>3, <1>4, <2>2
    <3>2. b[j - (i - 1)] = q[i + (j - (i - 1))] /\ i + (j - (i - 1)) = j + 1
      BY <1>1, <1>3, <3>1
    <3> QED
      BY <2>2, <3>1, <3>2
  <2> QED
    BY <2>1, <2>2
<1>7. ASSUME IsInjective(q) PROVE IsInjective(r) /\ ToSet(r) = ToSet(q) \ {q[i]}
  <2>1. DOMAIN r = 1..(n - 1)
    BY <1>1, <1>5
  <2>2. \A j, k \in 1..n : q[j] = q[k] => j = k
    BY <1>1, <1>7 DEF IsInjective
  <2>3. ASSUME NEW j \in 1..(n - 1), NEW k \in 1..(n - 1), r[j] = r[k] PROVE j = k
    <3> DEFINE u == IF j < i THEN j ELSE j + 1
               v == IF k < i THEN k ELSE k + 1
    <3>1. u \in 1..n /\ v \in 1..n /\ r[j] = q[u] /\ r[k] = q[v]
      BY <1>1, <1>6
    <3>2. u = v
      BY <2>2, <2>3, <3>1
    <3> QED
      BY <1>1, <3>2
  <2>4. \A j \in 1..(n - 1) : \E k \in 1..n : k # i /\ r[j] = q[k]
    <3> SUFFICES ASSUME NEW j \in 1..(n - 1) PROVE \E k \in 1..n : k # i /\ r[j] = q[k]
      OBVIOUS
    <3> DEFINE u == IF j < i THEN j ELSE j + 1
    <3>1. u \in 1..n /\ u # i /\ r[j] = q[u]
      BY <1>1, <1>6
    <3> QED
      BY <3>1
  <2>5. \A k \in 1..n : k # i => \E j \in 1..(n - 1) : r[j] = q[k]
    <3> SUFFICES ASSUME NEW k \in 1..n, k # i PROVE \E j \in 1..(n - 1) : r[j] = q[k]
      OBVIOUS
    <3> DEFINE u == IF k < i THEN k ELSE k - 1
    <3>1. u \in 1..(n - 1) /\ r[u] = q[k]
      BY <1>1, <1>6
    <3> QED
      BY <3>1
  <2>6. IsInjective(r)
    BY <2>1, <2>3 DEF IsInjective
  <2>7. ToSet(r) = {r[j] : j \in 1..(n - 1)} /\ ToSet(q) = {q[k] : k \in 1..n}
    BY <1>1, <2>1 DEF ToSet
  <2>8. ToSet(r) = ToSet(q) \ {q[i]}
    BY SMTT(30), <1>1, <2>2, <2>4, <2>5, <2>7
  <2> QED
    BY <2>6, <2>8
<1> QED
  BY <1>5, <1>6, <1>7 DEF r, n

(* A list of the values of its nodes, when a node is added at the end, when *)
(* the first one is removed, and when one in the middle is.                 *)
LEMMA ValuesOfList ==
    ASSUME NEW S, NEW f, f \in [S -> Range(f)], NEW q \in Seq(S)
    PROVE  /\ Values(f, q) \in Seq(Range(f)) /\ Len(Values(f, q)) = Len(q)
           /\ \A k \in 1..Len(q) : Values(f, q)[k] = f[q[k]]
           /\ \A e \in S : Values(f, Append(q, e)) = Append(Values(f, q), f[e])
           /\ q # <<>> => Values(f, q) = Cons(f[Head(q)], Values(f, Tail(q)))
           /\ \A i \in 1..Len(q) : Values(f, RemoveAt(q, i)) = RemoveAt(Values(f, q), i)
<1> DEFINE V(l) == Values(f, l)
           T == Range(f)
<1> HIDE DEF T
<1>0. f \in [S -> T]
  BY DEF T
<1>1. \A l \in Seq(S) : V(l) \in Seq(T) /\ Len(V(l)) = Len(l) /\ \A k \in 1..Len(l) : V(l)[k] = f[l[k]]
  <2> SUFFICES ASSUME NEW l \in Seq(S)
               PROVE V(l) \in Seq(T) /\ Len(V(l)) = Len(l) /\ \A k \in 1..Len(l) : V(l)[k] = f[l[k]]
    OBVIOUS
  <2>1. DOMAIN l = 1..Len(l) /\ Len(l) \in Nat /\ \A k \in 1..Len(l) : l[k] \in S
    OBVIOUS
  <2>2. V(l) = [k \in 1..Len(l) |-> f[l[k]]] /\ \A k \in 1..Len(l) : f[l[k]] \in T
    BY <1>0, <2>1 DEF Values
  <2>3. V(l) \in Seq(T)
    BY <2>1, <2>2
  <2>4. DOMAIN V(l) = 1..Len(l)
    BY <2>2
  <2>5. Len(V(l)) = Len(l)
    BY <2>1, <2>3, <2>4
  <2> QED
    BY <2>2, <2>3, <2>5
<1> HIDE DEF V
<1>2. ASSUME NEW e \in S PROVE V(Append(q, e)) = Append(V(q), f[e])
  <2> DEFINE a == V(Append(q, e))
             b == Append(V(q), f[e])
             n == Len(q)
  <2>1. /\ n \in Nat /\ Append(q, e) \in Seq(S) /\ Len(Append(q, e)) = n + 1
        /\ \A k \in 1..n : Append(q, e)[k] = q[k]
        /\ Append(q, e)[n + 1] = e
    OBVIOUS
  <2>2. a \in Seq(T) /\ Len(a) = n + 1 /\ \A k \in 1..(n + 1) : a[k] = f[Append(q, e)[k]]
    BY <1>1, <2>1
  <2>3. V(q) \in Seq(T) /\ Len(V(q)) = n /\ (\A k \in 1..n : V(q)[k] = f[q[k]]) /\ f[e] \in T
    BY <1>0, <1>1, <1>2
  <2>4. b \in Seq(T) /\ Len(b) = n + 1 /\ (\A k \in 1..n : b[k] = V(q)[k]) /\ b[n + 1] = f[e]
    BY <2>1, <2>3
  <2> HIDE DEF a, b, n
  <2>5. \A k \in 1..(n + 1) : a[k] = b[k]
    <3>1. \A k \in 1..(n + 1) : k \in 1..n \/ k = n + 1
      BY <2>1
    <3> QED
      BY <2>1, <2>2, <2>3, <2>4, <3>1
  <2> QED
    BY <2>2, <2>4, <2>5, SeqEqual DEF a, b
<1>3. ASSUME q # <<>> PROVE V(q) = <<f[Head(q)]>> \o V(Tail(q))
  <2> DEFINE a == V(q)
             h == <<f[Head(q)]>>
             t == V(Tail(q))
             b == h \o t
             n == Len(q)
  <2>1. /\ n \in Nat \ {0} /\ Tail(q) \in Seq(S) /\ Len(Tail(q)) = n - 1
        /\ Head(q) = q[1] /\ Head(q) \in S
        /\ \A k \in 1..(n - 1) : Tail(q)[k] = q[k + 1]
    BY <1>3
  <2>2. a \in Seq(T) /\ Len(a) = n /\ \A k \in 1..n : a[k] = f[q[k]]
    BY <1>1
  <2>3. t \in Seq(T) /\ Len(t) = n - 1 /\ \A k \in 1..(n - 1) : t[k] = f[q[k + 1]]
    <3> HIDE DEF n
    <3>1. t \in Seq(T) /\ Len(t) = n - 1 /\ \A k \in 1..(n - 1) : t[k] = f[Tail(q)[k]]
      BY <1>1, <2>1
    <3> HIDE DEF t
    <3> QED
      BY <2>1, <3>1
  <2>4. h \in Seq(T) /\ Len(h) = 1 /\ h[1] = f[q[1]]
    BY <1>0, <2>1
  <2> HIDE DEF h, t, n
  <2>5. /\ b \in Seq(T) /\ Len(b) = Len(h) + Len(t)
        /\ \A k \in 1..(Len(h) + Len(t)) : b[k] = IF k =< Len(h) THEN h[k] ELSE t[k - Len(h)]
    BY <2>3, <2>4, ConcatProperties
  <2> HIDE DEF a, b
  <2>6. Len(b) = n
    BY <2>1, <2>3, <2>4, <2>5
  <2>7. \A k \in 1..n : a[k] = b[k]
    <3> SUFFICES ASSUME NEW k \in 1..n PROVE a[k] = b[k]
      OBVIOUS
    <3>1. CASE k = 1
      BY <3>1, <2>1, <2>2, <2>3, <2>4, <2>5
    <3>2. CASE k # 1
      <4>1. k - 1 \in 1..(n - 1) /\ (k - 1) + 1 = k /\ ~(k =< 1) /\ k \in 1..(1 + (n - 1))
        BY <3>2, <2>1
      <4>2. b[k] = t[k - 1]
        BY <2>3, <2>4, <2>5, <4>1
      <4> QED
        BY <2>2, <2>3, <4>1, <4>2
    <3> QED
      BY <3>1, <3>2
  <2> QED
    BY <2>2, <2>5, <2>6, <2>7, SeqEqual DEF a, b, h, t
<1>4. ASSUME NEW i \in 1..Len(q) PROVE V(RemoveAt(q, i)) = RemoveAt(V(q), i)
  <2> DEFINE a == V(RemoveAt(q, i))
             b == RemoveAt(V(q), i)
             n == Len(q)
  <2>1. n \in Nat /\ i \in 1..n
    BY <1>4
  <2>2. /\ RemoveAt(q, i) \in Seq(S) /\ Len(RemoveAt(q, i)) = n - 1
        /\ \A j \in 1..(n - 1) : RemoveAt(q, i)[j] = IF j < i THEN q[j] ELSE q[j + 1]
    BY <1>4, RemoveAtProps
  <2>3. V(q) \in Seq(T) /\ Len(V(q)) = n /\ \A k \in 1..n : V(q)[k] = f[q[k]]
    BY <1>1
  <2>4. /\ b \in Seq(T) /\ Len(b) = n - 1
        /\ \A j \in 1..(n - 1) : b[j] = IF j < i THEN V(q)[j] ELSE V(q)[j + 1]
    BY <2>1, <2>3, RemoveAtProps
  <2>5. a \in Seq(T) /\ Len(a) = n - 1 /\ \A j \in 1..(n - 1) : a[j] = f[RemoveAt(q, i)[j]]
    BY <1>1, <2>2
  <2> HIDE DEF a, b, n
  <2>6. \A j \in 1..(n - 1) : a[j] = b[j]
    <3> SUFFICES ASSUME NEW j \in 1..(n - 1) PROVE a[j] = b[j]
      OBVIOUS
    <3>1. j \in 1..n /\ j + 1 \in 1..n
      BY <2>1
    <3>2. a[j] = f[IF j < i THEN q[j] ELSE q[j + 1]]
      BY <2>2, <2>5
    <3>3. b[j] = IF j < i THEN f[q[j]] ELSE f[q[j + 1]]
      BY <2>3, <2>4, <3>1
    <3> QED
      BY <3>2, <3>3
  <2> QED
    BY <2>4, <2>5, <2>6, SeqEqual DEF a, b
<1> QED
  BY <1>1, <1>2, <1>3, <1>4 DEF V, T, Cons

(* The first node of a list and the rest of it. *)
LEMMA FirstAndRest ==
    ASSUME NEW S, NEW e \in S, NEW q \in Seq(S), NEW d \in S
    PROVE  /\ <<e>> \o q # <<>> /\ Head(<<e>> \o q) = e /\ Tail(<<e>> \o q) = q
           /\ <<e>> \o Append(q, d) = Append(<<e>> \o q, d)
<1> DEFINE h == <<e>>
           n == Len(q)
           r == h \o q
           t == h \o Append(q, d)
           u == Append(r, d)
<1>1. h \in Seq(S) /\ Len(h) = 1 /\ h[1] = e /\ n \in Nat
  OBVIOUS
<1>2. /\ r \in Seq(S) /\ Len(r) = 1 + n
      /\ \A k \in 1..(1 + n) : r[k] = IF k =< 1 THEN h[k] ELSE q[k - 1]
  BY <1>1, ConcatProperties
<1>3. /\ Append(q, d) \in Seq(S) /\ Len(Append(q, d)) = n + 1
      /\ \A k \in 1..(n + 1) : Append(q, d)[k] = IF k =< n THEN q[k] ELSE d
  OBVIOUS
<1>4. /\ t \in Seq(S) /\ Len(t) = 1 + (n + 1)
      /\ \A k \in 1..(1 + (n + 1)) : t[k] = IF k =< 1 THEN h[k] ELSE Append(q, d)[k - 1]
  BY <1>1, <1>3, ConcatProperties
<1> HIDE DEF h, n, r, t
<1>5. /\ u \in Seq(S) /\ Len(u) = (1 + n) + 1
      /\ \A k \in 1..((1 + n) + 1) : u[k] = IF k =< 1 + n THEN r[k] ELSE d
  BY <1>1, <1>2
<1> HIDE DEF u
<1>6. t = u
  <2>1. Len(t) = Len(u)
    BY <1>1, <1>4, <1>5
  <2>2. ASSUME NEW k \in 1..Len(t) PROVE t[k] = u[k]
    <3>1. CASE k = 1
      BY <3>1, <1>1, <1>2, <1>4, <1>5
    <3>2. CASE k # 1
      <4>1. k - 1 \in 1..(n + 1) /\ ~(k =< 1) /\ k \in 1..((1 + n) + 1) /\ (k - 1 =< n <=> k =< 1 + n)
        BY <1>1, <1>4, <3>2
      <4>2. t[k] = IF k - 1 =< n THEN q[k - 1] ELSE d
        BY <1>3, <1>4, <4>1
      <4>3. k =< 1 + n => r[k] = q[k - 1]
        BY <1>1, <1>2, <4>1
      <4> QED
        BY <1>5, <4>1, <4>2, <4>3
    <3> QED
      BY <3>1, <3>2
  <2> QED
    BY <1>4, <1>5, <2>1, <2>2, SeqEqual
<1>7. r # <<>> /\ Head(r) = e /\ Tail(r) = q
  <2>1. r # <<>> /\ Head(r) = r[1] /\ r[1] = e
    BY <1>1, <1>2
  <2>2. /\ Tail(r) \in Seq(S) /\ Len(Tail(r)) = n
        /\ \A k \in 1..n : Tail(r)[k] = r[k + 1]
    BY <1>1, <1>2, <2>1
  <2>3. \A k \in 1..n : Tail(r)[k] = q[k]
    <3> SUFFICES ASSUME NEW k \in 1..n PROVE Tail(r)[k] = q[k]
      OBVIOUS
    <3>1. k + 1 \in 1..(1 + n) /\ ~(k + 1 =< 1) /\ (k + 1) - 1 = k
      BY <1>1
    <3> QED
      BY <1>2, <2>2, <3>1
  <2>4. Tail(r) = q
    BY <2>2, <2>3, SeqEqual DEF n
  <2> QED
    BY <2>1, <2>4
<1> QED
  BY <1>6, <1>7 DEF h, r, t, u

(* Removing the first node is list_del of it. *)
LEMMA TailRemoves ==
    ASSUME NEW S, NEW q \in Seq(S), q # <<>>
    PROVE  1 \in 1..Len(q) /\ Head(q) = q[1] /\ Tail(q) = RemoveAt(q, 1)
<1>1. /\ Len(q) \in Nat /\ 1 \in 1..Len(q) /\ Head(q) = q[1]
      /\ Tail(q) \in Seq(S) /\ Len(Tail(q)) = Len(q) - 1
      /\ \A k \in 1..(Len(q) - 1) : Tail(q)[k] = q[k + 1]
  OBVIOUS
<1>2. /\ RemoveAt(q, 1) \in Seq(S) /\ Len(RemoveAt(q, 1)) = Len(q) - 1
      /\ \A j \in 1..(Len(q) - 1) : RemoveAt(q, 1)[j] = q[j + 1]
  <2>1. /\ RemoveAt(q, 1) \in Seq(S) /\ Len(RemoveAt(q, 1)) = Len(q) - 1
        /\ \A j \in 1..(Len(q) - 1) : RemoveAt(q, 1)[j] = IF j < 1 THEN q[j] ELSE q[j + 1]
    BY <1>1, RemoveAtProps
  <2>2. \A j \in 1..(Len(q) - 1) : ~(j < 1)
    BY <1>1
  <2> QED
    BY <2>1, <2>2
<1>3. Tail(q) = RemoveAt(q, 1)
  BY <1>1, <1>2, SeqEqual
<1> QED
  BY <1>1, <1>3

(* pq_insert: one more node at the place of the i-th, and no duplicate if   *)
(* it was not linked.                                                       *)
LEMMA InsertAtProps ==
    ASSUME NEW S, NEW q \in Seq(S), NEW i \in 1..Len(q), NEW e \in S
    PROVE  /\ InsertAt(q, i, e) \in Seq(S)
           /\ Len(InsertAt(q, i, e)) = Len(q) + 1
           /\ ToSet(InsertAt(q, i, e)) = ToSet(q) \cup {e}
           /\ IsInjective(q) /\ e \notin ToSet(q) => IsInjective(InsertAt(q, i, e))
<1> DEFINE a == SubSeq(q, 1, i - 1)
           b == SubSeq(q, i, Len(q))
           m == <<e>>
           c == a \o m
           r == InsertAt(q, i, e)
           n == Len(q)
<1>1. n \in Nat /\ DOMAIN q = 1..n /\ i \in Nat /\ i >= 1 /\ i =< n
  OBVIOUS
<1>2. /\ a \in Seq(S) /\ Len(a) = i - 1 /\ \A k \in 1..(i - 1) : a[k] = q[k]
  OBVIOUS
<1>3. /\ b \in Seq(S) /\ Len(b) = n - i + 1 /\ \A k \in 1..(n - i + 1) : b[k] = q[i + k - 1]
  OBVIOUS
<1>4. m \in Seq(S) /\ Len(m) = 1 /\ m[1] = e /\ ToSet(m) = {e} /\ IsInjective(m)
  BY DEF ToSet, IsInjective
<1>5. r = c \o b
  BY DEF InsertAt
<1> HIDE DEF a, b, m, r, n
<1>6. /\ c \in Seq(S) /\ Len(c) = i /\ ToSet(c) = ToSet(a) \cup {e}
      /\ IsInjective(a) /\ ToSet(a) \cap {e} = {} => IsInjective(c)
  <2>1. /\ c \in Seq(S) /\ Len(c) = Len(a) + Len(m) /\ ToSet(c) = ToSet(a) \cup ToSet(m)
        /\ IsInjective(a) /\ IsInjective(m) /\ ToSet(a) \cap ToSet(m) = {} => IsInjective(c)
    <3>1. a \in Seq(S) /\ m \in Seq(S)
      BY <1>2, <1>4
    <3> QED
      BY <3>1, ConcatToSet
  <2> HIDE DEF c
  <2> QED
    BY <2>1, <1>1, <1>2, <1>4
<1> HIDE DEF c
<1>7. /\ r \in Seq(S) /\ Len(r) = n + 1 /\ ToSet(r) = ToSet(a) \cup {e} \cup ToSet(b)
      /\ IsInjective(c) /\ IsInjective(b) /\ ToSet(c) \cap ToSet(b) = {} => IsInjective(r)
  <2> DEFINE t == c \o b
  <2>1. /\ t \in Seq(S) /\ Len(t) = Len(c) + Len(b) /\ ToSet(t) = ToSet(c) \cup ToSet(b)
        /\ IsInjective(c) /\ IsInjective(b) /\ ToSet(c) \cap ToSet(b) = {} => IsInjective(t)
    BY <1>3, <1>6, ConcatToSet
  <2>2. r = t
    BY <1>5
  <2> HIDE DEF t
  <2> QED
    BY <2>1, <2>2, <1>1, <1>3, <1>6
<1>8. ToSet(a) \cup ToSet(b) = ToSet(q)
  <2>1. ASSUME NEW k \in 1..(i - 1) PROVE a[k] \in ToSet(q)
    <3>1. k \in 1..n /\ a[k] = q[k]
      BY <1>1, <1>2
    <3> QED
      BY <3>1, <1>1 DEF ToSet
  <2>2. ASSUME NEW k \in 1..(n - i + 1) PROVE b[k] \in ToSet(q)
    <3>1. i + k - 1 \in 1..n /\ b[k] = q[i + k - 1]
      BY <1>1, <1>3
    <3> QED
      BY <3>1, <1>1 DEF ToSet
  <2>3. ASSUME NEW k \in 1..n PROVE q[k] \in ToSet(a) \cup ToSet(b)
    <3>1. CASE k < i
      <4>1. k \in 1..(i - 1) /\ a[k] = q[k]
        BY <3>1, <1>1, <1>2
      <4> QED
        BY <4>1, <1>2, ToSetType
    <3>2. CASE ~(k < i)
      <4>1. k - i + 1 \in 1..(n - i + 1) /\ b[k - i + 1] = q[k]
        BY <3>2, <1>1, <1>3
      <4> QED
        BY <4>1, <1>3, ToSetType
    <3> QED
      BY <3>1, <3>2
  <2>4. \A x : x \in ToSet(q) <=> \E k \in 1..n : q[k] = x
    BY ToSetType DEF n
  <2>5. \A x : x \in ToSet(a) <=> \E k \in 1..(i - 1) : a[k] = x
    BY <1>2, ToSetType
  <2>6. \A x : x \in ToSet(b) <=> \E k \in 1..(n - i + 1) : b[k] = x
    BY <1>3, ToSetType
  <2> QED
    BY <2>1, <2>2, <2>3, <2>4, <2>5, <2>6
<1>9. ASSUME IsInjective(q), e \notin ToSet(q) PROVE IsInjective(r)
  <2>1. \A k, l \in 1..n : q[k] = q[l] => k = l
    BY <1>9, <1>1 DEF IsInjective
  <2>2. IsInjective(a)
    <3>1. ASSUME NEW k \in 1..(i - 1), NEW l \in 1..(i - 1), a[k] = a[l] PROVE k = l
      <4>1. k \in 1..n /\ l \in 1..n /\ q[k] = q[l]
        BY <3>1, <1>1, <1>2
      <4> QED
        BY <4>1, <2>1
    <3>2. DOMAIN a = 1..(i - 1)
      BY <1>1, <1>2
    <3> QED
      BY <3>1, <3>2 DEF IsInjective
  <2>3. IsInjective(b)
    <3>1. ASSUME NEW k \in 1..(n - i + 1), NEW l \in 1..(n - i + 1), b[k] = b[l] PROVE k = l
      <4>1. i + k - 1 \in 1..n /\ i + l - 1 \in 1..n /\ q[i + k - 1] = q[i + l - 1]
        BY <3>1, <1>1, <1>3
      <4>2. i + k - 1 = i + l - 1
        BY <4>1, <2>1
      <4> QED
        BY <4>2, <1>1
    <3>2. DOMAIN b = 1..(n - i + 1)
      BY <1>1, <1>3
    <3> QED
      BY <3>1, <3>2 DEF IsInjective
  <2>4. ASSUME NEW x \in ToSet(a), x \in ToSet(b) PROVE FALSE
    <3>1. PICK k \in 1..(i - 1) : a[k] = x
      BY <1>2, ToSetType
    <3>2. PICK l \in 1..(n - i + 1) : b[l] = x
      BY <2>4, <1>3, ToSetType
    <3>3. k \in 1..n /\ i + l - 1 \in 1..n /\ q[k] = q[i + l - 1] /\ k # i + l - 1
      BY <3>1, <3>2, <1>1, <1>2, <1>3
    <3> QED
      BY <3>3, <2>1
  <2> QED
    BY <2>2, <2>3, <2>4, <1>6, <1>7, <1>8, <1>9
<1> QED
  BY <1>7, <1>8, <1>9 DEF n, r

(* The first of some positions of a list. *)
LEMMA LeastPosition ==
    ASSUME NEW n \in Nat, NEW P \in SUBSET (1..n), P # {}
    PROVE  Min(P) \in P /\ \A p \in P : Min(P) =< p
<1>1. /\ Cardinality(P) \in 0..n
      /\ \A k \in 1..Cardinality(P) : Nth(P, k) \in P
      /\ \A p \in P : Rank(P, p) \in 1..Cardinality(P) /\ Nth(P, Rank(P, p)) = p
      /\ \A k, l \in 1..Cardinality(P) : k < l => Nth(P, k) < Nth(P, l)
  BY NthPosition
<1>2. 1 \in 1..Cardinality(P)
  <2>1. PICK p \in P : TRUE
    OBVIOUS
  <2>2. Rank(P, p) \in 1..Cardinality(P)
    BY <1>1
  <2> QED
    BY <2>2, <1>1
<1>3. ASSUME NEW p \in P PROVE Nth(P, 1) =< p
  <2>1. Rank(P, p) = 1 \/ 1 < Rank(P, p)
    BY <1>1
  <2>2. Nth(P, 1) \in Int /\ p \in Int
    <3>1. Nth(P, 1) \in P
      BY <1>1, <1>2
    <3>2. \A x \in P : x \in Int
      OBVIOUS
    <3> QED
      BY <3>1, <3>2
  <2>3. CASE Rank(P, p) = 1
    BY <2>3, <2>2, <1>1
  <2>4. CASE 1 < Rank(P, p)
    <3>1. Nth(P, 1) < Nth(P, Rank(P, p))
      BY <2>4, <1>1, <1>2
    <3> QED
      BY <3>1, <2>2, <1>1
  <2> QED
    BY <2>1, <2>3, <2>4
<1>4. \E x \in P : \A y \in P : x =< y
  BY <1>1, <1>2, <1>3
<1> QED
  BY <1>4 DEF Min
=============================================================================
