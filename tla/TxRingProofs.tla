----------------------------- MODULE TxRingProofs -----------------------------
(***************************************************************************)
(* Proofs about TxRing, for any number of stations, buffers and records,   *)
(* any size of the rings and any number of requests and failures.          *)
(***************************************************************************)
EXTENDS TxRing, QueueLemmas

USE DEF stations, buffers, history

(* An index that passes the end of a ring goes on at its beginning. *)
LEMMA Wrap ==
    ASSUME NEW x \in 0..(2 * RingSize - 1)
    PROVE  x % RingSize = IF x < RingSize THEN x ELSE x - RingSize
<1> USE TxRingAssumption
<1>1. CASE x < RingSize
  BY <1>1
<1>2. CASE x >= RingSize
  <2>1. x = RingSize * 1 + (x - RingSize) /\ x - RingSize \in 0..(RingSize - 1)
    BY <1>2
  <2> QED
    BY <2>1
<1> QED
  BY <1>1, <1>2

(* phl_calc_avail_rptr and phl_calc_avail_wptr: one entry of a ring is     *)
(* never used; a request that is put in adds one and leaves the others     *)
(* where they are, one that is read is the first of them.                  *)
LEMMA RingIndex ==
    ASSUME NEW p \in Idx, NEW c \in Idx
    PROVE  LET n == phl_calc_avail_rptr(p, c) IN
           /\ n \in 0..(RingSize - 1)
           /\ phl_calc_avail_wptr(p, c) = (RingSize - 1) - n
           /\ Succ(p) \in Idx
           /\ (p + n) % RingSize = c
           /\ \A k \in 0..(RingSize - 1) : (p + k) % RingSize \in Idx
           /\ n + 1 < RingSize => /\ phl_calc_avail_rptr(p, Succ(c)) = n + 1
                                  /\ (p + (n + 1)) % RingSize = Succ(c)
                                  /\ \A k \in 1..n : (p + k) % RingSize # Succ(c)
           /\ n > 0 => /\ phl_calc_avail_rptr(Succ(p), c) = n - 1
                       /\ \A k \in 1..(n - 1) : (Succ(p) + k) % RingSize = (p + (k + 1)) % RingSize
<1> DEFINE n == phl_calc_avail_rptr(p, c)
<1>1. /\ RingSize \in Nat /\ RingSize > 1
      /\ p \in 0..(RingSize - 1) /\ c \in 0..(RingSize - 1)
  BY TxRingAssumption DEF Idx
<1>2. \A x \in 0..(2 * RingSize - 1) : x % RingSize = IF x < RingSize THEN x ELSE x - RingSize
  BY Wrap
<1>3. n = IF c >= p THEN c - p ELSE c + (RingSize - p)
  BY DEF phl_calc_avail_rptr
<1> HIDE DEF n
<1>4. n \in 0..(RingSize - 1)
  BY <1>1, <1>3
<1>5. phl_calc_avail_wptr(p, c) = (RingSize - 1) - n
  BY <1>1, <1>3 DEF phl_calc_avail_wptr
<1>6. /\ Succ(p) = IF p + 1 < RingSize THEN p + 1 ELSE 0
      /\ Succ(c) = IF c + 1 < RingSize THEN c + 1 ELSE 0
  BY <1>1, <1>2 DEF Succ
<1>7. \A k \in 0..RingSize : (p + k) % RingSize = IF p + k < RingSize THEN p + k ELSE (p + k) - RingSize
  BY <1>1, <1>2
<1>8. Succ(p) \in Idx /\ (p + n) % RingSize = c /\ \A k \in 0..(RingSize - 1) : (p + k) % RingSize \in Idx
  BY <1>1, <1>3, <1>4, <1>6, <1>7 DEF Idx
<1>9. ASSUME n + 1 < RingSize
      PROVE /\ phl_calc_avail_rptr(p, Succ(c)) = n + 1
            /\ (p + (n + 1)) % RingSize = Succ(c)
            /\ \A k \in 1..n : (p + k) % RingSize # Succ(c)
  <2>1. phl_calc_avail_rptr(p, Succ(c)) = n + 1
    BY <1>9, <1>1, <1>3, <1>6 DEF phl_calc_avail_rptr
  <2>2. (p + (n + 1)) % RingSize = Succ(c)
    BY <1>9, <1>1, <1>3, <1>4, <1>6, <1>7
  <2>3. ASSUME NEW k \in 1..n PROVE (p + k) % RingSize # Succ(c)
    BY <1>9, <1>1, <1>3, <1>4, <1>6, <1>7
  <2> QED
    BY <2>1, <2>2, <2>3
<1>10. ASSUME n > 0
       PROVE /\ phl_calc_avail_rptr(Succ(p), c) = n - 1
             /\ \A k \in 1..(n - 1) : (Succ(p) + k) % RingSize = (p + (k + 1)) % RingSize
  <2>1. phl_calc_avail_rptr(Succ(p), c) = n - 1
    BY <1>10, <1>1, <1>3, <1>6 DEF phl_calc_avail_rptr
  <2>2. ASSUME NEW k \in 1..(n - 1) PROVE (Succ(p) + k) % RingSize = (p + (k + 1)) % RingSize
    <3>1. k + 1 \in 0..RingSize /\ Succ(p) + k \in 0..(2 * RingSize - 1)
      BY <1>1, <1>4, <1>6
    <3>2. (Succ(p) + k) % RingSize
              = IF Succ(p) + k < RingSize THEN Succ(p) + k ELSE (Succ(p) + k) - RingSize
      BY <3>1, <1>2
    <3>3. (p + (k + 1)) % RingSize
              = IF p + (k + 1) < RingSize THEN p + (k + 1) ELSE (p + (k + 1)) - RingSize
      BY <3>1, <1>7
    <3> QED
      BY <3>2, <3>3, <1>1, <1>4, <1>6
  <2> QED
    BY <2>1, <2>2
<1> QED
  BY <1>4, <1>5, <1>8, <1>9, <1>10 DEF n

-----------------------------------------------------------------------------
(* The number of requests in a ring. *)
Avail(r) == phl_calc_avail_rptr(ring[r].phl, ring[r].core)

Callback == [pc : {"idle", "check", "ring", "req", "recycled", "submit", "oops"},
             work : Work \cup {None}, agg : 0..RingSize]

(* The tasklet has a ring in its hands exactly from the time it has a      *)
(* buffer for it to the transfer, and between its turns it has a list of   *)
(* none.                                                                   *)
TurnInv ==
    /\ cb.pc \in {"idle", "check"} => plan = <<>>
    /\ cb.work # None <=> cb.pc \in {"req", "recycled", "submit", "oops"}
    /\ cb.work # None => cb.agg + cb.work.busy < RingSize
    /\ cb.pc \in {"req", "recycled"} => cb.work.busy > 0
    /\ \A i \in DOMAIN plan : plan[i].busy > 0 /\ plan[i].busy < RingSize

(* No ring is twice on the list of a turn. *)
PlanInv ==
    /\ IsInjective(tlist)
    /\ \A i, j \in DOMAIN plan : plan[i].ring = plan[j].ring => i = j
    /\ cb.work # None => \A i \in DOMAIN plan : plan[i].ring # cb.work.ring

(* The entries from phl to core are the last ones of those that were       *)
(* added, a, and the ones before them were sent, t; m of those in the ring *)
(* were sent as well.                                                      *)
InOrder(phl, core, entry, a, t, m) ==
    LET n == phl_calc_avail_rptr(phl, core)
    IN  /\ n =< Len(a)
        /\ \A k \in 1..n : entry[(phl + k) % RingSize] = a[(Len(a) - n) + k]
        /\ Len(t) = (Len(a) - n) + m /\ Len(t) =< Len(a)
        /\ \A i \in 1..Len(t) : t[i] = a[i]

(* A request that the tasklet has handed back is still in the ring until   *)
(* phl_idx says that it was read.                                          *)
HandedBack(r) == IF cb.pc = "recycled" /\ cb.work.ring = r THEN 1 ELSE 0

IndexInv ==
    \A r \in Ring : InOrder(ring[r].phl, ring[r].core, ring[r].entry, added[r], taken[r], HandedBack(r))

(* What the tasklet is going to read is there. *)
ReadInv ==
    /\ \A i \in DOMAIN plan :
           /\ ring[plan[i].ring].next = Succ(ring[plan[i].ring].phl)
           /\ plan[i].busy =< Avail(plan[i].ring)
    /\ cb.pc \in {"req", "recycled"} => /\ cur.next = Succ(cur.phl)
                                        /\ cb.work.busy =< Avail(cb.work.ring)

(* The requests are numbered in the order in which they were added, each   *)
(* to one ring.                                                            *)
Numbered(a) ==
    /\ \E n \in 0..MaxReq : Reqs(a) = 1..n
    /\ \A r, x \in Ring : \A i \in 1..Len(a[r]), j \in 1..Len(a[x]) :
           a[r][i] = a[x][j] => r = x /\ i = j

ReqInv == Numbered(added)

(* A request was handed back if it was copied or its ring is gone, ... *)
OnceInv ==
    /\ \A q \in Req : q \notin Reqs(added) => recycled[q] = 0
    /\ \A r \in Ring : \A i \in 1..Len(added[r]) :
           recycled[added[r][i]] = IF i =< Len(taken[r]) \/ sta[r[1]] = "freed" THEN 1 ELSE 0

(* ... and twice if the stop freed the ring between the two steps of the   *)
(* tasklet.                                                                *)
Undercut == cb.pc = "recycled" /\ Freed(cb.work)

TwiceInv ==
    /\ \A q \in Req : q \notin Reqs(added) => recycled[q] = 0
    /\ \A r \in Ring : \A i \in 1..Len(added[r]) :
           recycled[added[r][i]] = IF r = cb.work.ring /\ i = Len(taken[r]) THEN 2
                                   ELSE IF i =< Len(taken[r]) \/ sta[r[1]] = "freed" THEN 1 ELSE 0

RecycleInv == IF Undercut THEN TwiceInv ELSE OnceInv

IInv == TypeOK /\ NoneLeaks /\ TurnInv /\ PlanInv /\ IndexInv /\ ReadInv /\ ReqInv
        /\ RecycleInv

-----------------------------------------------------------------------------

(* The walk over t_ring_list visits each ring of a listed station once. *)
LEMMA WalkOnce ==
    ASSUME TypeOK, IsInjective(tlist)
    PROVE  /\ AllRings \in Seq(Ring) /\ IsInjective(AllRings)
           /\ \A k \in DOMAIN AllRings : sta[AllRings[k][1]] = "listed"
<1> DEFINE n == Len(tlist)
           m == 2 * n
<1>1. /\ n \in Nat /\ m \in Nat /\ DOMAIN tlist = 1..n /\ tlist \in [1..n -> Sta]
      /\ \A i \in 1..n : sta[tlist[i]] = "listed"
  <2>1. n \in Nat /\ m \in Nat /\ DOMAIN tlist = 1..n /\ tlist \in [1..n -> Sta]
    BY DEF TypeOK
  <2>2. \A i \in 1..n : tlist[i] \in ToSet(tlist)
    BY <2>1 DEF ToSet
  <2> QED
    BY <2>1, <2>2 DEF TypeOK
<1>2. \A i, j \in 1..n : tlist[i] = tlist[j] => i = j
  BY <1>1 DEF IsInjective
<1> HIDE DEF n
<1>3. ASSUME NEW k \in 1..m PROVE (k + 1) \div 2 \in 1..n
  BY <1>1
<1>4. AllRings = [k \in 1..m |-> <<tlist[(k + 1) \div 2], IF k % 2 = 1 THEN Data ELSE Mgnt>>]
  BY DEF AllRings, n
<1>5. AllRings \in [1..m -> Ring]
  BY <1>1, <1>3, <1>4 DEF Ring, Cat
<1>6. AllRings \in Seq(Ring) /\ DOMAIN AllRings = 1..m
  BY <1>1, <1>5
<1>7. \A k \in 1..m : sta[AllRings[k][1]] = "listed"
  BY <1>1, <1>3, <1>4
<1>8. ASSUME NEW k \in 1..m, NEW l \in 1..m, AllRings[k] = AllRings[l] PROVE k = l
  <2>1. tlist[(k + 1) \div 2] = tlist[(l + 1) \div 2] /\ (k % 2 = 1 <=> l % 2 = 1)
    BY <1>8, <1>4 DEF Data, Mgnt
  <2>2. (k + 1) \div 2 = (l + 1) \div 2
    BY <2>1, <1>2, <1>3
  <2> QED
    BY <2>1, <2>2
<1> QED
  BY <1>6, <1>7, <1>8 DEF IsInjective

(* A turn has each ring once, no more than there are records, and only     *)
(* rings that have requests.                                               *)
LEMMA TurnRings ==
    ASSUME TypeOK, IsInjective(tlist)
    PROVE  /\ _phl_check_ring_status \in Seq(Ring) /\ IsInjective(_phl_check_ring_status)
           /\ Len(_phl_check_ring_status) =< sts
           /\ \A r \in ToSet(_phl_check_ring_status) :
                  r \in Ring /\ Avail(r) > 0 /\ sta[r[1]] = "listed"
<1> DEFINE busy == {r \in Ring : Avail(r) > 0}
           P == Positions(AllRings, busy)
           all == Sublist(AllRings, P)
           m == IF Len(all) < sts THEN Len(all) ELSE sts
           rs == SubSeq(all, 1, m)
<1>1. _phl_check_ring_status = rs
  BY DEF _phl_check_ring_status, Avail
<1>2. P \in SUBSET DOMAIN AllRings /\ \A p \in P : AllRings[p] \in busy
  BY DEF Positions
<1>3. /\ all \in Seq(Ring) /\ IsInjective(all)
      /\ ToSet(all) = {AllRings[p] : p \in P}
  BY <1>2, WalkOnce, SublistProps
<1>4. \A r \in ToSet(all) : r \in Ring /\ Avail(r) > 0 /\ sta[r[1]] = "listed"
  <2> HIDE DEF P, all
  <2>1. \A p \in P : AllRings[p] \in Ring /\ Avail(AllRings[p]) > 0 /\ sta[AllRings[p][1]] = "listed"
    BY <1>2, WalkOnce
  <2> QED
    BY <2>1, <1>3
<1> HIDE DEF all
<1>5. m \in Nat /\ m =< Len(all) /\ m =< sts /\ Len(all) \in Nat /\ DOMAIN all = 1..Len(all)
  <2>1. Len(all) \in Nat /\ DOMAIN all = 1..Len(all)
    BY <1>3
  <2>2. sts \in Nat
    BY TxRingAssumption DEF TypeOK
  <2> QED
    BY <2>1, <2>2
<1> HIDE DEF m
<1>6. /\ rs \in Seq(Ring) /\ Len(rs) = m /\ DOMAIN rs = 1..m
      /\ \A i \in 1..m : i \in 1..Len(all) /\ rs[i] = all[i]
  BY <1>3, <1>5
<1> HIDE DEF rs
<1>7. IsInjective(rs)
  BY <1>3, <1>5, <1>6 DEF IsInjective
<1>8. ToSet(rs) \subseteq ToSet(all)
  BY <1>5, <1>6 DEF ToSet
<1> QED
  BY <1>1, <1>4, <1>5, <1>6, <1>7, <1>8

(* phl_tx_flow_ctrl changes the order of the rings of a turn, nothing else. *)
LEMMA FlowCtrl ==
    ASSUME NEW rs \in Seq(Ring), IsInjective(rs)
    PROVE  /\ phl_tx_flow_ctrl(rs) \in Seq(Ring) /\ IsInjective(phl_tx_flow_ctrl(rs))
           /\ Len(phl_tx_flow_ctrl(rs)) = Len(rs)
           /\ ToSet(phl_tx_flow_ctrl(rs)) = ToSet(rs)
<1> DEFINE M == Positions(rs, Sta \X {Mgnt})
           D == Positions(rs, Sta \X {Data})
           mg == Sublist(rs, M)
           da == Sublist(rs, D)
<1>1. Len(rs) \in Nat /\ DOMAIN rs = 1..Len(rs) /\ \A i \in 1..Len(rs) : rs[i] \in Ring
  OBVIOUS
<1>2. /\ M \in SUBSET DOMAIN rs /\ D \in SUBSET DOMAIN rs
      /\ M \cup D = 1..Len(rs) /\ M \cap D = {}
  BY <1>1 DEF Positions, Ring, Cat, Data, Mgnt
<1> HIDE DEF M, D
<1>3. /\ mg \in Seq(Ring) /\ Len(mg) = Cardinality(M) /\ IsInjective(mg) /\ IsFiniteSet(M)
      /\ ToSet(mg) = {rs[p] : p \in M}
      /\ da \in Seq(Ring) /\ Len(da) = Cardinality(D) /\ IsInjective(da) /\ IsFiniteSet(D)
      /\ ToSet(da) = {rs[p] : p \in D}
  BY <1>2, SublistProps
<1> HIDE DEF mg, da
<1>4. ToSet(mg) \cap ToSet(da) = {} /\ ToSet(mg) \cup ToSet(da) = ToSet(rs)
  <2>1. \A p \in M, x \in D : rs[p] # rs[x]
    BY <1>1, <1>2 DEF IsInjective
  <2>2. ToSet(rs) = {rs[p] : p \in M \cup D}
    BY <1>1, <1>2 DEF ToSet
  <2> QED
    BY <2>1, <2>2, <1>3
<1>5. Cardinality(M) + Cardinality(D) = Len(rs)
  <2>1. Cardinality(M \cup D) = Cardinality(M) + Cardinality(D) - Cardinality(M \cap D)
    BY <1>3, FS_Union
  <2>2. Cardinality(1..Len(rs)) = Len(rs)
    <3> DEFINE n == Len(rs)
    <3> HIDE DEF n
    <3>1. n \in Nat
      BY <1>1 DEF n
    <3>2. Cardinality(1..n) = n
      BY <3>1, FS_Interval
    <3> QED
      BY <3>2 DEF n
  <2>3. Cardinality(M) \in Nat /\ Cardinality(D) \in Nat /\ Cardinality(M \cap D) = 0
    BY <1>2, <1>3, FS_CardinalityType, FS_EmptySet
  <2>4. Cardinality(M \cup D) = Len(rs)
    BY <2>2, <1>2
  <2> QED
    BY <2>1, <2>3, <2>4
<1>6. /\ Reverse(mg) \in Seq(Ring) /\ Len(Reverse(mg)) = Len(mg)
      /\ ToSet(Reverse(mg)) = ToSet(mg) /\ IsInjective(Reverse(mg))
  BY <1>3, ReverseProps
<1>7. phl_tx_flow_ctrl(rs) = Reverse(mg) \o da
  BY DEF phl_tx_flow_ctrl, mg, da, M, D
<1>8. /\ Reverse(mg) \o da \in Seq(Ring) /\ Len(Reverse(mg) \o da) = Len(mg) + Len(da)
      /\ ToSet(Reverse(mg) \o da) = ToSet(mg) \cup ToSet(da) /\ IsInjective(Reverse(mg) \o da)
  <2> DEFINE rm == Reverse(mg)
  <2> HIDE DEF rm
  <2>1. /\ rm \in Seq(Ring) /\ IsInjective(rm) /\ ToSet(rm) = ToSet(mg) /\ Len(rm) = Len(mg)
    BY <1>6 DEF rm
  <2>2. /\ rm \o da \in Seq(Ring) /\ Len(rm \o da) = Len(rm) + Len(da)
        /\ ToSet(rm \o da) = ToSet(rm) \cup ToSet(da) /\ IsInjective(rm \o da)
    <3>1. ToSet(rm) \cap ToSet(da) = {} /\ da \in Seq(Ring) /\ IsInjective(da)
      BY <2>1, <1>3, <1>4
    <3>2. \A q, r \in Seq(Ring) :
              /\ q \o r \in Seq(Ring) /\ Len(q \o r) = Len(q) + Len(r)
              /\ ToSet(q \o r) = ToSet(q) \cup ToSet(r)
              /\ IsInjective(q) /\ IsInjective(r) /\ ToSet(q) \cap ToSet(r) = {}
                     => IsInjective(q \o r)
      BY ConcatToSet, Zenon
    <3> QED
      BY <3>1, <3>2, <2>1, Zenon
  <2> QED
    BY <2>1, <2>2 DEF rm
<1> QED
  BY <1>3, <1>4, <1>5, <1>7, <1>8

(* The fields of an entry of the list of a turn. *)
LEMMA WorkFields ==
    ASSUME NEW w \in Work
    PROVE  /\ w # None /\ w.ring \in Ring /\ w.busy \in 0..RingSize
           /\ w.ring[1] \in Sta /\ w.ring[2] \in Cat
  BY TxRingAssumption DEF Work, Ring

(* The first entry of the list of a turn is taken off it. *)
LEMMA PlanTail ==
    ASSUME NEW p \in Seq(Work), p # <<>>
    PROVE  /\ Len(p) \in Nat \ {0} /\ 1 \in DOMAIN p
           /\ Head(p) \in Work /\ Head(p) = p[1]
           /\ Tail(p) \in Seq(Work) /\ Len(Tail(p)) = Len(p) - 1
           /\ \A i \in DOMAIN Tail(p) : i + 1 \in DOMAIN p /\ i + 1 # 1 /\ Tail(p)[i] = p[i + 1]
           /\ \A i, j \in DOMAIN Tail(p) : i + 1 = j + 1 => i = j
  OBVIOUS

(* A request is put into a ring that is not full. *)
LEMMA AddInOrder ==
    ASSUME NEW p \in Idx, NEW c \in Idx, NEW e \in [Idx -> Req \cup {None}],
           NEW a \in Seq(Req), NEW t \in Seq(Req), NEW m \in 0..1, NEW q \in Req,
           InOrder(p, c, e, a, t, m), phl_calc_avail_wptr(p, c) > 0
    PROVE  /\ InOrder(p, Succ(c), [e EXCEPT ![Succ(c)] = q], Append(a, q), t, m)
           /\ phl_calc_avail_rptr(p, Succ(c)) = phl_calc_avail_rptr(p, c) + 1
<1> DEFINE n == phl_calc_avail_rptr(p, c)
           f == [e EXCEPT ![Succ(c)] = q]
           b == Append(a, q)
<1>1. /\ n \in Nat /\ n + 1 < RingSize /\ RingSize \in Nat
      /\ phl_calc_avail_rptr(p, Succ(c)) = n + 1
      /\ \A k \in 0..(RingSize - 1) : (p + k) % RingSize \in Idx
      /\ (p + (n + 1)) % RingSize = Succ(c)
      /\ \A k \in 1..n : (p + k) % RingSize # Succ(c)
  <2>1. /\ n \in 0..(RingSize - 1) /\ phl_calc_avail_wptr(p, c) = (RingSize - 1) - n
        /\ \A k \in 0..(RingSize - 1) : (p + k) % RingSize \in Idx
        /\ n + 1 < RingSize => /\ phl_calc_avail_rptr(p, Succ(c)) = n + 1
                               /\ (p + (n + 1)) % RingSize = Succ(c)
                               /\ \A k \in 1..n : (p + k) % RingSize # Succ(c)
    BY RingIndex
  <2> HIDE DEF n
  <2>2. n \in Nat /\ RingSize \in Nat /\ n + 1 < RingSize
    BY <2>1, TxRingAssumption
  <2> QED
    BY <2>1, <2>2
<1>2. /\ Len(a) \in Nat /\ Len(b) = Len(a) + 1 /\ b[Len(a) + 1] = q
      /\ \A i \in 1..Len(a) : b[i] = a[i]
      /\ Len(t) \in Nat
  OBVIOUS
<1> HIDE DEF n, b
<1>3. /\ n =< Len(a)
      /\ \A k \in 1..n : e[(p + k) % RingSize] = a[(Len(a) - n) + k]
      /\ Len(t) = (Len(a) - n) + m /\ Len(t) =< Len(a)
      /\ \A i \in 1..Len(t) : t[i] = a[i]
  BY DEF InOrder, n
<1>4. Succ(c) \in Idx /\ f[Succ(c)] = q /\ \A x \in Idx : x # Succ(c) => f[x] = e[x]
  BY RingIndex
<1> HIDE DEF f
<1>5. ASSUME NEW k \in 1..(n + 1) PROVE f[(p + k) % RingSize] = b[(Len(b) - (n + 1)) + k]
  <2>1. CASE k = n + 1
    <3>1. (Len(b) - (n + 1)) + k = Len(a) + 1
      BY <2>1, <1>1, <1>2
    <3> QED
      BY <3>1, <2>1, <1>1, <1>2, <1>4
  <2>2. CASE k # n + 1
    <3>1. k \in 1..n /\ k \in 0..(RingSize - 1)
      BY <2>2, <1>1
    <3>2. f[(p + k) % RingSize] = e[(p + k) % RingSize]
      BY <3>1, <1>1, <1>4
    <3>3. (Len(b) - (n + 1)) + k = (Len(a) - n) + k /\ (Len(a) - n) + k \in 1..Len(a)
      BY <3>1, <1>1, <1>2, <1>3
    <3> QED
      BY <3>1, <3>2, <3>3, <1>2, <1>3
  <2> QED
    BY <2>1, <2>2
<1>6. Len(t) = (Len(b) - (n + 1)) + m /\ Len(t) =< Len(b) /\ n + 1 =< Len(b)
  BY <1>1, <1>2, <1>3
<1>7. \A i \in 1..Len(t) : t[i] = b[i]
  BY <1>2, <1>3
<1> QED
  BY <1>1, <1>5, <1>6, <1>7 DEF InOrder, n, f, b

(* The request after phl_idx is the first one that was not sent. *)
LEMMA TakeInOrder ==
    ASSUME NEW p \in Idx, NEW c \in Idx, NEW e \in [Idx -> Req \cup {None}],
           NEW a \in Seq(Req), NEW t \in Seq(Req),
           InOrder(p, c, e, a, t, 0), phl_calc_avail_rptr(p, c) > 0
    PROVE  /\ Len(t) + 1 \in 1..Len(a) /\ e[Succ(p)] = a[Len(t) + 1] /\ e[Succ(p)] \in Req
           /\ InOrder(p, c, e, a, Append(t, e[Succ(p)]), 1)
<1> DEFINE n == phl_calc_avail_rptr(p, c)
           u == Append(t, e[Succ(p)])
<1>1. n \in Nat /\ n > 0 /\ Len(a) \in Nat /\ Len(t) \in Nat
  <2>1. n \in 0..(RingSize - 1)
    BY RingIndex
  <2> HIDE DEF n
  <2>2. n \in Nat
    BY <2>1, TxRingAssumption
  <2> QED
    BY <2>2 DEF n
<1> HIDE DEF n
<1>2. /\ n =< Len(a)
      /\ \A k \in 1..n : e[(p + k) % RingSize] = a[(Len(a) - n) + k]
      /\ Len(t) = Len(a) - n
      /\ \A i \in 1..Len(t) : t[i] = a[i]
  BY <1>1 DEF InOrder, n
<1>3. Len(t) + 1 \in 1..Len(a) /\ e[Succ(p)] = a[Len(t) + 1]
  <2>1. 1 \in 1..n /\ (Len(a) - n) + 1 = Len(t) + 1 /\ Len(t) + 1 \in 1..Len(a)
    BY <1>1, <1>2
  <2>2. e[(p + 1) % RingSize] = a[(Len(a) - n) + 1]
    BY <2>1, <1>2
  <2> QED
    BY <2>1, <2>2 DEF Succ
<1>4. e[Succ(p)] \in Req
  BY <1>3
<1>5. /\ Len(u) = Len(t) + 1 /\ u[Len(t) + 1] = e[Succ(p)]
      /\ \A i \in 1..Len(t) : u[i] = t[i]
  BY <1>4
<1> HIDE DEF u
<1>6. \A i \in 1..Len(u) : u[i] = a[i]
  <2> TAKE i \in 1..Len(u)
  <2>1. CASE i = Len(t) + 1
    BY <2>1, <1>3, <1>5
  <2>2. CASE i # Len(t) + 1
    <3>1. i \in 1..Len(t)
      BY <2>2, <1>1, <1>5
    <3> QED
      BY <3>1, <1>2, <1>5
  <2> QED
    BY <2>1, <2>2
<1>7. Len(u) = (Len(a) - n) + 1 /\ Len(u) =< Len(a)
  BY <1>1, <1>2, <1>3, <1>5
<1> QED
  BY <1>2, <1>3, <1>4, <1>6, <1>7 DEF InOrder, n, u

(* phl_idx passes a request that was sent. *)
LEMMA PassInOrder ==
    ASSUME NEW p \in Idx, NEW c \in Idx, NEW e \in [Idx -> Req \cup {None}],
           NEW a \in Seq(Req), NEW t \in Seq(Req),
           InOrder(p, c, e, a, t, 1), phl_calc_avail_rptr(p, c) > 0
    PROVE  /\ InOrder(Succ(p), c, e, a, t, 0)
           /\ phl_calc_avail_rptr(Succ(p), c) = phl_calc_avail_rptr(p, c) - 1
<1> DEFINE n == phl_calc_avail_rptr(p, c)
<1>1. /\ n \in Nat /\ n > 0 /\ Len(a) \in Nat /\ Len(t) \in Nat
      /\ phl_calc_avail_rptr(Succ(p), c) = n - 1
      /\ \A k \in 1..(n - 1) : (Succ(p) + k) % RingSize = (p + (k + 1)) % RingSize
  BY RingIndex
<1> HIDE DEF n
<1>2. /\ n =< Len(a)
      /\ \A k \in 1..n : e[(p + k) % RingSize] = a[(Len(a) - n) + k]
      /\ Len(t) = (Len(a) - n) + 1 /\ Len(t) =< Len(a)
      /\ \A i \in 1..Len(t) : t[i] = a[i]
  BY DEF InOrder, n
<1>3. ASSUME NEW k \in 1..(n - 1)
      PROVE e[(Succ(p) + k) % RingSize] = a[(Len(a) - (n - 1)) + k]
  <2>1. k + 1 \in 1..n /\ (Len(a) - n) + (k + 1) = (Len(a) - (n - 1)) + k
    BY <1>1
  <2> QED
    BY <2>1, <1>1, <1>2
<1>4. Len(t) = (Len(a) - (n - 1)) + 0 /\ n - 1 =< Len(a)
  BY <1>1, <1>2
<1> QED
  BY <1>1, <1>2, <1>3, <1>4 DEF InOrder, n

(* The requests that are in a ring are those that were added and not sent, *)
(* and the m that were sent last.                                          *)
LEMMA QueuedInOrder ==
    ASSUME NEW g \in [core : Idx, phl : Idx, next : Idx, entry : [Idx -> Req \cup {None}]],
           NEW a \in Seq(Req), NEW t \in Seq(Req), NEW m \in {0, 1},
           InOrder(g.phl, g.core, g.entry, a, t, m)
    PROVE  \A q : q \in ToSet(Queued(g)) <=> \E i \in 1..Len(a) : i > Len(t) - m /\ q = a[i]
<1> DEFINE n == phl_calc_avail_rptr(g.phl, g.core)
           u == Queued(g)
           d == Len(t) - m
<1>1. g.phl \in Idx /\ g.core \in Idx /\ Len(a) \in Nat /\ Len(t) \in Nat
  OBVIOUS
<1>2. n \in Nat
  <2>1. n \in 0..(RingSize - 1)
    BY <1>1, RingIndex
  <2> HIDE DEF n
  <2> QED
    BY <2>1, TxRingAssumption
<1>3. u = [k \in 1..n |-> g.entry[(g.phl + k) % RingSize]]
  BY DEF Queued
<1> HIDE DEF n, u
<1>4. /\ n =< Len(a) /\ d = Len(a) - n /\ d \in Nat
      /\ \A k \in 1..n : g.entry[(g.phl + k) % RingSize] = a[(Len(a) - n) + k]
  BY <1>1, <1>2 DEF InOrder, n
<1> HIDE DEF d
<1>5. ToSet(u) = {a[d + k] : k \in 1..n}
  BY <1>2, <1>3, <1>4 DEF ToSet
<1>6. ASSUME NEW i \in 1..Len(a), i > d PROVE i - d \in 1..n /\ d + (i - d) = i
  BY <1>1, <1>2, <1>4, <1>6
<1>7. ASSUME NEW k \in 1..n PROVE d + k \in 1..Len(a) /\ d + k > d
  BY <1>1, <1>2, <1>4
<1>8. \A q : q \in ToSet(u) <=> \E i \in 1..Len(a) : i > d /\ q = a[i]
  BY <1>5, <1>6, <1>7
<1> QED
  BY <1>8 DEF u, d

(* A request gets a number that no other has. *)
LEMMA NumberRequest ==
    ASSUME NEW a \in [Ring -> Seq(Req)], Numbered(a), NEW r \in Ring, Cardinality(Reqs(a)) < MaxReq
    PROVE  LET q == Cardinality(Reqs(a)) + 1
               b == [a EXCEPT ![r] = Append(@, q)]
           IN  /\ q \in Req /\ q \notin Reqs(a) /\ b \in [Ring -> Seq(Req)]
               /\ Numbered(b) /\ Reqs(b) = Reqs(a) \cup {q}
<1> DEFINE q == Cardinality(Reqs(a)) + 1
           b == [a EXCEPT ![r] = Append(@, q)]
<1>1. PICK n \in 0..MaxReq : Reqs(a) = 1..n
  BY DEF Numbered
<1>2. n \in Nat /\ Cardinality(Reqs(a)) = n /\ q = n + 1 /\ n + 1 =< MaxReq
  <2>1. n \in Nat /\ Cardinality(1..n) = n
    BY TxRingAssumption, FS_Interval
  <2> QED
    BY <2>1, <1>1, TxRingAssumption
<1> HIDE DEF q
<1>3. q \in Req /\ q \notin Reqs(a)
  BY <1>1, <1>2 DEF Req
<1>4. /\ b \in [Ring -> Seq(Req)] /\ b[r] = Append(a[r], q) /\ \A x \in Ring : x # r => b[x] = a[x]
  BY <1>3
<1> HIDE DEF b
<1>5. /\ Len(a[r]) \in Nat /\ Len(b[r]) = Len(a[r]) + 1 /\ b[r][Len(a[r]) + 1] = q
      /\ \A i \in 1..Len(a[r]) : b[r][i] = a[r][i]
      /\ ToSet(b[r]) = ToSet(a[r]) \cup {q}
  <2>1. a[r] \in Seq(Req)
    OBVIOUS
  <2> QED
    BY <2>1, <1>3, <1>4, AppendToSet
<1>6. Reqs(b) = Reqs(a) \cup {q}
  BY ZenonT(40), <1>4, <1>5 DEF Reqs
<1>7. Reqs(b) = 1..(n + 1) /\ n + 1 \in 0..MaxReq
  BY <1>1, <1>2, <1>6
<1>8. ASSUME NEW x \in Ring, NEW i \in 1..Len(b[x]) PROVE \/ b[x][i] = q /\ x = r /\ i = Len(a[r]) + 1
                                                          \/ i \in 1..Len(a[x]) /\ b[x][i] = a[x][i] /\ b[x][i] # q
  <2>1. \A j \in 1..Len(a[x]) : a[x][j] \in Reqs(a)
    <3>1. a[x] \in Seq(Req)
      OBVIOUS
    <3>2. \A j \in 1..Len(a[x]) : a[x][j] \in ToSet(a[x])
      BY <3>1 DEF ToSet
    <3> QED
      BY <3>2 DEF Reqs
  <2>2. CASE x # r
    BY <2>1, <2>2, <1>3, <1>4
  <2>3. CASE x = r /\ i = Len(a[r]) + 1
    BY <2>3, <1>5
  <2>4. CASE x = r /\ i # Len(a[r]) + 1
    BY <2>1, <2>4, <1>3, <1>5
  <2> QED
    BY <2>2, <2>3, <2>4
<1>9. ASSUME NEW x \in Ring, NEW y \in Ring, NEW i \in 1..Len(b[x]), NEW j \in 1..Len(b[y]),
             b[x][i] = b[y][j]
      PROVE x = y /\ i = j
  <2>1. \A x1, y1 \in Ring : \A i1 \in 1..Len(a[x1]), j1 \in 1..Len(a[y1]) :
           a[x1][i1] = a[y1][j1] => x1 = y1 /\ i1 = j1
    BY DEF Numbered
  <2>2. CASE b[x][i] = q
    BY <2>2, <1>8, <1>9
  <2>3. CASE b[x][i] # q
    <3>1. i \in 1..Len(a[x]) /\ j \in 1..Len(a[y]) /\ a[x][i] = a[y][j]
      BY <2>3, <1>8, <1>9
    <3> QED
      BY <3>1, <2>1
  <2> QED
    BY <2>2, <2>3
<1>10. Numbered(b)
  BY <1>7, <1>9 DEF Numbered
<1> QED
  BY <1>3, <1>4, <1>6, <1>10 DEF q, b

(* The free of the rings that were removed hands back exactly what was     *)
(* neither sent nor handed back, unless the tasklet is just doing this.    *)
LEMMA FreeDeferred ==
    ASSUME IInv, ~ReadsFreed, phl_free_deferred_tx_ring, UNCHANGED <<added, taken>>,
           cb' = cb \/ (cb.pc # "recycled" /\ cb'.pc # "recycled")
    PROVE  /\ sta' \in [Sta -> {"none", "listed", "unlinked", "deferred", "freed"}]
           /\ {s \in Sta : sta'[s] = "listed"} = {s \in Sta : sta[s] = "listed"}
           /\ recycled' \in [Req -> Nat]
           /\ RecycleInv'
<1> DEFINE left == UNION {ToSet(Queued(ring[r])) : r \in {x \in Ring : sta[x[1]] = "deferred"}}
<1>1. /\ sta' = [s \in Sta |-> IF sta[s] = "deferred" THEN "freed" ELSE sta[s]]
      /\ recycled' = [q \in Req |-> IF q \in left THEN recycled[q] + 1 ELSE recycled[q]]
  BY DEF phl_free_deferred_tx_ring
<1>2. \A q : q \in left => \E r \in Ring : sta[r[1]] = "deferred" /\ q \in ToSet(Queued(ring[r]))
  OBVIOUS
<1>3. \A r \in Ring : \A q : sta[r[1]] = "deferred" /\ q \in ToSet(Queued(ring[r])) => q \in left
  OBVIOUS
<1> HIDE DEF left
<1>4. /\ sta' \in [Sta -> {"none", "listed", "unlinked", "deferred", "freed"}]
      /\ {s \in Sta : sta'[s] = "listed"} = {s \in Sta : sta[s] = "listed"}
      /\ recycled' \in [Req -> Nat]
  BY <1>1 DEF IInv, TypeOK
<1>5. RecycleInv'
  <2>0. ~Undercut /\ OnceInv
    BY DEF ReadsFreed, Undercut, IInv, RecycleInv
  <2>1. \A r \in Ring : \A q : q \in ToSet(Queued(ring[r])) <=>
            \E i \in 1..Len(added[r]) : i > Len(taken[r]) - HandedBack(r) /\ q = added[r][i]
    <3> TAKE r \in Ring
    <3>1. HandedBack(r) \in {0, 1}
      BY DEF HandedBack
    <3>2. InOrder(ring[r].phl, ring[r].core, ring[r].entry, added[r], taken[r], HandedBack(r))
      BY DEF IInv, IndexInv
    <3>3. /\ ring[r] \in [core : Idx, phl : Idx, next : Idx, entry : [Idx -> Req \cup {None}]]
          /\ added[r] \in Seq(Req) /\ taken[r] \in Seq(Req)
      BY DEF IInv, TypeOK
    <3> QED
      BY <3>1, <3>2, <3>3, QueuedInOrder
  <2>2. \A r \in Ring : /\ added[r] \in Seq(Req) /\ Len(added[r]) \in Nat /\ Len(taken[r]) \in Nat /\ HandedBack(r) \in {0, 1}
                        /\ (HandedBack(r) = 1 => Len(taken[r]) > 0)
                        /\ \A i \in 1..Len(added[r]) : added[r][i] \in Req /\ added[r][i] \in Reqs(added)
    <3> TAKE r \in Ring
    <3>1. added[r] \in Seq(Req) /\ taken[r] \in Seq(Req)
      BY DEF IInv, TypeOK
    <3>2. \A i \in 1..Len(added[r]) : added[r][i] \in Req /\ added[r][i] \in ToSet(added[r])
      BY <3>1 DEF ToSet
    <3>3. HandedBack(r) \in {0, 1}
      BY DEF HandedBack
    <3>4. ASSUME HandedBack(r) = 1 PROVE Len(taken[r]) > 0
      <4>1. InOrder(ring[r].phl, ring[r].core, ring[r].entry, added[r], taken[r], 1)
        BY <3>4 DEF IInv, IndexInv
      <4>2. phl_calc_avail_rptr(ring[r].phl, ring[r].core) \in 0..(RingSize - 1)
        <5>1. ring[r].phl \in Idx /\ ring[r].core \in Idx
          BY DEF IInv, TypeOK
        <5> QED
          BY <5>1, RingIndex
      <4> QED
        BY <4>1, <4>2, <3>1, TxRingAssumption DEF InOrder
    <3> QED
      BY <3>1, <3>2, <3>3, <3>4 DEF Reqs
  <2>3. /\ \A q \in Req : q \notin Reqs(added) => recycled[q] = 0
        /\ \A r \in Ring : \A i \in 1..Len(added[r]) :
              recycled[added[r][i]] = IF i =< Len(taken[r]) \/ sta[r[1]] = "freed" THEN 1 ELSE 0
    BY <2>0 DEF OnceInv
  <2>4. \A r, x \in Ring : \A i \in 1..Len(added[r]), j \in 1..Len(added[x]) :
           added[r][i] = added[x][j] => r = x /\ i = j
    BY DEF IInv, ReqInv, Numbered
  <2>5. ASSUME NEW r \in Ring, NEW i \in 1..Len(added[r])
        PROVE added[r][i] \in left <=> sta[r[1]] = "deferred" /\ i > Len(taken[r]) - HandedBack(r)
    <3>1. ASSUME added[r][i] \in left PROVE sta[r[1]] = "deferred" /\ i > Len(taken[r]) - HandedBack(r)
      <4>1. PICK x \in Ring : sta[x[1]] = "deferred" /\ added[r][i] \in ToSet(Queued(ring[x]))
        BY <3>1, <1>2
      <4> DEFINE q == added[r][i]
      <4>2. q \in ToSet(Queued(ring[x]))
        BY <4>1
      <4> HIDE DEF q
      <4>3. PICK j \in 1..Len(added[x]) : j > Len(taken[x]) - HandedBack(x) /\ q = added[x][j]
        BY <4>2, <2>1
      <4> QED
        BY <4>1, <4>3, <2>4 DEF q
    <3>2. ASSUME sta[r[1]] = "deferred", i > Len(taken[r]) - HandedBack(r) PROVE added[r][i] \in left
      BY <3>2, <2>1, <1>3
    <3> QED
      BY <3>1, <3>2
  <2>6. ASSUME NEW q \in Req, q \notin Reqs(added) PROVE q \notin left
    <3> SUFFICES ASSUME NEW r \in Ring, q \in ToSet(Queued(ring[r])) PROVE FALSE
      BY <1>2
    <3>1. PICK i \in 1..Len(added[r]) : q = added[r][i]
      BY <2>1
    <3> QED
      BY <3>1, <2>2, <2>6
  <2>7. ASSUME NEW r \in Ring, NEW i \in 1..Len(added[r])
        PROVE recycled'[added[r][i]] = IF HandedBack(r) = 1 /\ i = Len(taken[r]) /\ sta'[r[1]] = "freed" THEN 2
                                       ELSE IF i =< Len(taken[r]) \/ sta'[r[1]] = "freed" THEN 1 ELSE 0
    <3>1. /\ recycled'[added[r][i]] = IF added[r][i] \in left THEN recycled[added[r][i]] + 1
                                                             ELSE recycled[added[r][i]]
          /\ recycled[added[r][i]] = IF i =< Len(taken[r]) \/ sta[r[1]] = "freed" THEN 1 ELSE 0
      BY <1>1, <2>2, <2>3
    <3>2. r[1] \in Sta
      BY DEF Ring
    <3>3. sta'[r[1]] = IF sta[r[1]] = "deferred" THEN "freed" ELSE sta[r[1]]
      BY <3>2, <1>1
    <3>4. /\ Len(taken[r]) \in Nat /\ HandedBack(r) \in {0, 1} /\ i \in Nat
          /\ added[r][i] \in left <=> sta[r[1]] = "deferred" /\ i > Len(taken[r]) - HandedBack(r)
      BY <2>2, <2>5
    <3>5. HandedBack(r) = 1 => sta[r[1]] # "freed"
      BY <2>0 DEF HandedBack, Undercut, Freed, IInv, TurnInv
    <3> QED
      BY <3>1, <3>3, <3>4, <3>5
  <2>8. ASSUME NEW q \in Req, q \notin Reqs(added) PROVE recycled'[q] = 0
    BY <2>3, <2>6, <2>8, <1>1
  <2>9. CASE Undercut'
    <3>1. /\ cb' = cb /\ cb.pc = "recycled" /\ cb.work # None /\ sta'[cb.work.ring[1]] = "freed"
      BY <2>9 DEF Undercut, Freed
    <3>2. \A r \in Ring : HandedBack(r) = 1 <=> r = cb.work.ring
      BY <3>1 DEF HandedBack
    <3>3. ASSUME NEW r \in Ring, NEW i \in 1..Len(added[r])
          PROVE recycled'[added[r][i]] = IF r = cb'.work.ring /\ i = Len(taken[r]) THEN 2
                                         ELSE IF i =< Len(taken[r]) \/ sta'[r[1]] = "freed" THEN 1 ELSE 0
      BY <2>7, <3>1, <3>2
    <3>4. TwiceInv'
      BY <2>8, <3>3 DEF TwiceInv
    <3> QED
      BY <2>9, <3>4 DEF RecycleInv
  <2>10. CASE ~Undercut'
    <3>1. ASSUME NEW r \in Ring PROVE ~(HandedBack(r) = 1 /\ sta'[r[1]] = "freed")
      <4> SUFFICES ASSUME HandedBack(r) = 1, sta'[r[1]] = "freed" PROVE FALSE
        OBVIOUS
      <4>1. cb.pc = "recycled" /\ cb.work.ring = r /\ cb' = cb
        BY DEF HandedBack
      <4>2. cb.work # None
        BY <4>1 DEF IInv, TurnInv
      <4> QED
        BY <4>1, <4>2, <2>10 DEF Undercut, Freed
    <3>2. OnceInv'
      BY <3>1, <2>7, <2>8 DEF OnceInv
    <3> QED
      BY <2>10, <3>2 DEF RecycleInv
  <2> QED
    BY <2>9, <2>10
<1> QED
  BY <1>4, <1>5

(* What was added is what is counted. *)
LEMMA AddedReqs ==
    ASSUME IInv
    PROVE  \A r \in Ring : /\ Len(added[r]) \in Nat /\ Len(taken[r]) \in Nat
                           /\ \A i \in 1..Len(added[r]) : added[r][i] \in Req /\ added[r][i] \in Reqs(added)
<1> TAKE r \in Ring
<1>1. added[r] \in Seq(Req) /\ taken[r] \in Seq(Req)
  BY DEF IInv, TypeOK
<1>2. \A i \in 1..Len(added[r]) : added[r][i] \in Req /\ added[r][i] \in ToSet(added[r])
  BY <1>1 DEF ToSet
<1> QED
  BY <1>1, <1>2 DEF Reqs

-----------------------------------------------------------------------------
(* The initial states satisfy it. *)
LEMMA TxInit == Init => IInv
<1> SUFFICES ASSUME Init PROVE IInv
  OBVIOUS
<1> USE TxRingAssumption
<1>1. ToSet(tlist) = {} /\ IsInjective(tlist) /\ tlist \in Seq(Sta) /\ ToSet(plan) = {} /\ plan \in Seq(Work)
  BY EmptyQueue DEF Init
<1>2. TypeOK
  <2>1. ring \in [Ring -> [core : Idx, phl : Idx, next : Idx, entry : [Idx -> Req \cup {None}]]]
    BY DEF Init, Idx
  <2>2. added \in [Ring -> Seq(Req)] /\ taken \in [Ring -> Seq(Req)]
    BY DEF Init
  <2>3. sta \in [Sta -> {"none", "listed", "unlinked", "deferred", "freed"}] /\ {s \in Sta : sta[s] = "listed"} = {}
    BY DEF Init
  <2>4. cb \in Callback
    BY DEF Init, Idle, Callback
  <2>5. sts \in 0..NSts /\ buf \in [Cat -> 0..NBuf] /\ air \in [Cat -> 0..NBuf] /\ recycled \in [Req -> Nat]
    BY DEF Init
  <2>6. sched \in BOOLEAN /\ owed \in Nat /\ stopped \in BOOLEAN /\ fails \in 0..MaxFail
    <3>1. sched \in BOOLEAN /\ stopped \in BOOLEAN
      BY Zenon DEF Init
    <3>2. owed \in Nat /\ fails \in 0..MaxFail
      BY DEF Init
    <3> QED
      BY <3>1, <3>2
  <2> QED
    BY <1>1, <2>1, <2>2, <2>3, <2>4, <2>5, <2>6 DEF TypeOK, Callback
<1>3. \A r \in Ring : Avail(r) = 0 /\ added[r] = <<>> /\ taken[r] = <<>> /\ Len(added[r]) = 0
  BY DEF Init, Avail, phl_calc_avail_rptr
<1>4. NoneLeaks /\ TurnInv /\ PlanInv
  BY <1>1 DEF Init, NoneLeaks, TurnInv, PlanInv, Idle, Cat
<1>5. IndexInv /\ ReadInv
  BY <1>3 DEF Init, IndexInv, ReadInv, HandedBack, InOrder, Idle, Avail
<1>6. ReqInv
  <2>1. \A r \in Ring : ToSet(added[r]) = {}
    BY <1>3, EmptyQueue
  <2>2. Reqs(added) = 1..0
    BY <2>1 DEF Reqs
  <2> QED
    BY <1>3, <2>2 DEF ReqInv, Numbered
<1>7. RecycleInv
  BY <1>3 DEF Init, RecycleInv, OnceInv, Undercut, Idle
<1> QED
  BY <1>2, <1>4, <1>5, <1>6, <1>7 DEF IInv


(* A step that hands back, adds and reads nothing, and frees no ring, keeps *)
(* the count of what was handed back.                                      *)
LEMMA RecycleKept ==
    ASSUME IInv, ~ReadsFreed, UNCHANGED <<added, taken, recycled>>,
           cb' = cb \/ cb'.pc # "recycled",
           \A s \in Sta : sta'[s] = "freed" <=> sta[s] = "freed"
    PROVE  RecycleInv'
<1>1. ~Undercut /\ OnceInv
  BY DEF ReadsFreed, Undercut, IInv, RecycleInv
<1>2. ASSUME Undercut' PROVE FALSE
  <2>1. cb' = cb /\ cb.pc = "recycled" /\ cb.work # None /\ sta'[cb.work.ring[1]] = "freed"
    BY <1>2 DEF Undercut, Freed
  <2>2. cb.work.ring[1] \in Sta
    BY <2>1, WorkFields DEF IInv, TypeOK
  <2> QED
    BY <2>1, <2>2, <1>1 DEF Undercut, Freed
<1>3. ASSUME NEW r \in Ring, NEW i \in 1..Len(added[r])
      PROVE  recycled[added[r][i]] =
                IF i =< Len(taken[r]) \/ sta'[r[1]] = "freed" THEN 1 ELSE 0
  <2>1. recycled[added[r][i]] =
           IF i =< Len(taken[r]) \/ sta[r[1]] = "freed" THEN 1 ELSE 0
    BY <1>1 DEF OnceInv
  <2>2. sta'[r[1]] = "freed" <=> sta[r[1]] = "freed"
    BY DEF Ring
  <2> QED
    BY <2>1, <2>2
<1>4. OnceInv'
  BY <1>1, <1>3 DEF OnceInv, Reqs
<1> QED
  BY <1>2, <1>4 DEF RecycleInv

(* Every step preserves it, one case per action. *)
LEMMA TxStep == IInv /\ [Next]_vars => IInv'
<1> SUFFICES ASSUME IInv, [Next]_vars PROVE IInv'
  OBVIOUS
<1> USE TxRingAssumption DEF IInv
<1>1. ASSUME ~ReadsFreed, _phl_tx_callback_usb PROVE IInv'
  <2>1. /\ cb.pc = "idle"
        /\ cb'.pc = "check" /\ cb'.work = cb.work /\ cb'.agg = cb.agg /\ cb' \in Callback
        /\ sched' = FALSE
        /\ UNCHANGED <<sta, tlist, ring, sts, buf, air, plan, owed, stopped, added, taken, recycled, fails>>
    BY <1>1 DEF _phl_tx_callback_usb, TypeOK, Callback
  <2>2. TypeOK'
    BY <2>1 DEF TypeOK, Callback
  <2>3. NoneLeaks'
    BY <2>1 DEF TypeOK, NoneLeaks, TurnInv
  <2>4. TurnInv'
    BY <2>1 DEF TypeOK, TurnInv
  <2>5. PlanInv'
    BY <2>1 DEF TypeOK, TurnInv, PlanInv
  <2>6. IndexInv'
    BY <2>1 DEF TypeOK, TurnInv, IndexInv, HandedBack
  <2>7. ReadInv'
    BY <2>1 DEF TypeOK, TurnInv, PlanInv, ReadInv, Avail, cur
  <2>8. ReqInv'
    BY <2>1 DEF ReqInv
  <2>9. RecycleInv'
    BY <1>1, <2>1, RecycleKept
  <2> QED
    BY <2>2, <2>3, <2>4, <2>5, <2>6, <2>7, <2>8, <2>9
<1>2. ASSUME ~ReadsFreed, phl_check_xmit_ring_resource PROVE IInv'
  <2>1. PICK rs : /\ rs = _phl_check_ring_status
             /\ cb.pc = "check" /\ cb' = [cb EXCEPT !.pc = "ring"]
             /\ ring' = [r \in Ring |-> IF r \in ToSet(rs) THEN [ring[r] EXCEPT !.next = Succ(ring[r].phl)]
                                                          ELSE ring[r]]
             /\ sts' = sts - Len(rs)
             /\ plan' = [i \in DOMAIN rs |->
                            [ring |-> phl_tx_flow_ctrl(rs)[i],
                             busy |-> LET g == ring[phl_tx_flow_ctrl(rs)[i]]
                                      IN  phl_calc_avail_rptr(g.phl, g.core)]]
             /\ UNCHANGED <<sta, tlist, buf, air, sched, owed, stopped, added, taken, recycled, fails>>
    BY <1>2 DEF phl_check_xmit_ring_resource
  <2>2. /\ rs \in Seq(Ring) /\ IsInjective(rs) /\ Len(rs) =< sts /\ Len(rs) \in Nat /\ DOMAIN rs = 1..Len(rs)
        /\ \A r \in ToSet(rs) : r \in Ring /\ Avail(r) > 0 /\ sta[r[1]] = "listed"
    <3>1. TypeOK /\ IsInjective(tlist)
      BY DEF PlanInv
    <3>2. /\ rs \in Seq(Ring) /\ IsInjective(rs) /\ Len(rs) =< sts
          /\ \A r \in ToSet(rs) : r \in Ring /\ Avail(r) > 0 /\ sta[r[1]] = "listed"
      BY <3>1, <2>1, TurnRings
    <3> QED
      BY <3>2
  <2>3. LET fl == phl_tx_flow_ctrl(rs)
        IN  \A i \in DOMAIN rs : /\ fl[i] \in ToSet(rs)
                                 /\ \A j \in DOMAIN rs : fl[i] = fl[j] => i = j
    <3> DEFINE fl == phl_tx_flow_ctrl(rs)
    <3>1. fl \in Seq(Ring) /\ IsInjective(fl) /\ Len(fl) = Len(rs) /\ ToSet(fl) = ToSet(rs)
      BY <2>2, FlowCtrl
    <3> HIDE DEF fl
    <3>2. DOMAIN fl = DOMAIN rs
      BY <3>1, <2>2
    <3>3. \A i \in DOMAIN fl : fl[i] \in ToSet(fl)
      BY <3>1 DEF ToSet
    <3>4. \A i, j \in DOMAIN fl : fl[i] = fl[j] => i = j
      BY <3>1 DEF IsInjective
    <3> QED
      BY <3>1, <3>2, <3>3, <3>4 DEF fl
  <2>4. \A r \in Ring : Avail(r) \in 0..(RingSize - 1)
    <3> TAKE r \in Ring
    <3>1. ring[r].phl \in Idx /\ ring[r].core \in Idx
      BY DEF TypeOK
    <3> QED
      BY <3>1, RingIndex DEF Avail
  <2>5. /\ DOMAIN plan' = DOMAIN rs
        /\ \A i \in DOMAIN rs : /\ plan'[i].ring \in ToSet(rs) /\ plan'[i].busy = Avail(plan'[i].ring)
                               /\ plan'[i] \in Work
                               /\ \A j \in DOMAIN rs : plan'[i].ring = plan'[j].ring => i = j
    <3> DEFINE fl == phl_tx_flow_ctrl(rs)
    <3>1. plan' = [i \in DOMAIN rs |-> [ring |-> fl[i], busy |-> Avail(fl[i])]]
      BY <2>1 DEF Avail
    <3>2. \A i \in DOMAIN rs : fl[i] \in ToSet(rs) /\ fl[i] \in Ring /\ \A j \in DOMAIN rs : fl[i] = fl[j] => i = j
      BY <2>2, <2>3
    <3> HIDE DEF fl, Avail
    <3>3. \A i \in DOMAIN rs : [ring |-> fl[i], busy |-> Avail(fl[i])] \in Work
      BY <3>2, <2>4 DEF Work
    <3> QED
      BY <3>1, <3>2, <3>3
  <2>6. plan' \in Seq(Work) /\ Len(plan') = Len(rs)
    <3>1. plan' = [i \in 1..Len(rs) |-> plan'[i]]
      BY <2>1, <2>2
    <3> QED
      BY <3>1, <2>2, <2>5
  <2>7. /\ ring' \in [Ring -> [core : Idx, phl : Idx, next : Idx, entry : [Idx -> Req \cup {None}]]]
        /\ \A r \in Ring : /\ ring'[r].phl = ring[r].phl /\ ring'[r].core = ring[r].core
                           /\ ring'[r].entry = ring[r].entry
                           /\ r \in ToSet(rs) => ring'[r].next = Succ(ring[r].phl)
    <3>1. \A r \in Ring : ring[r] \in [core : Idx, phl : Idx, next : Idx, entry : [Idx -> Req \cup {None}]]
      BY DEF TypeOK
    <3>2. \A x \in Idx : Succ(x) \in Idx
      BY RingIndex
    <3>3. \A r \in Ring : ring'[r] = IF r \in ToSet(rs) THEN [ring[r] EXCEPT !.next = Succ(ring[r].phl)] ELSE ring[r]
      BY <2>1
    <3>4. \A r \in Ring : /\ ring'[r] \in [core : Idx, phl : Idx, next : Idx, entry : [Idx -> Req \cup {None}]]
                          /\ ring'[r].phl = ring[r].phl /\ ring'[r].core = ring[r].core
                          /\ ring'[r].entry = ring[r].entry
                          /\ r \in ToSet(rs) => ring'[r].next = Succ(ring[r].phl)
      <4> TAKE r \in Ring
      <4>1. /\ ring[r] \in [core : Idx, phl : Idx, next : Idx, entry : [Idx -> Req \cup {None}]]
            /\ Succ(ring[r].phl) \in Idx
        BY <3>1, <3>2
      <4>2. CASE r \in ToSet(rs)
        <5>1. ring'[r] = [ring[r] EXCEPT !.next = Succ(ring[r].phl)]
          BY <4>2, <3>3
        <5> QED
          BY <4>1, <5>1
      <4>3. CASE r \notin ToSet(rs)
        <5>1. ring'[r] = ring[r]
          BY <4>3, <3>3
        <5> QED
          BY <4>1, <4>3, <5>1
      <4> QED
        BY <4>2, <4>3
    <3>5. ring' = [r \in Ring |-> ring'[r]]
      BY <2>1
    <3> QED
      BY <3>4, <3>5
  <2>8. cb.work = None /\ cb'.pc = "ring" /\ cb'.work = None /\ cb'.agg = cb.agg /\ cb' \in Callback
    BY <2>1 DEF TypeOK, TurnInv, Callback
  <2>9. sts' \in 0..NSts /\ sts' + Len(plan') + (IF cb'.work # None THEN 1 ELSE 0) = NSts
    <3>1. sts \in Nat /\ Len(plan) \in Nat /\ sts + Len(plan) + (IF cb.work # None THEN 1 ELSE 0) = NSts
      BY DEF TypeOK, NoneLeaks
    <3>2. Len(plan) = 0
      BY <2>1 DEF TurnInv
    <3>3. sts = NSts /\ sts' = sts - Len(rs) /\ Len(plan') = Len(rs)
      BY <3>1, <3>2, <2>1, <2>6, <2>8
    <3> QED
      BY <3>1, <3>3, <2>2, <2>8
  <2>10. TypeOK'
    BY <2>1, <2>6, <2>7, <2>8, <2>9 DEF TypeOK, Callback
  <2>11. NoneLeaks'
    BY <2>1, <2>8, <2>9 DEF NoneLeaks
  <2>12. TurnInv'
    <3>1. \A i \in DOMAIN plan' : plan'[i].busy > 0 /\ plan'[i].busy < RingSize
      BY <2>2, <2>4, <2>5
    <3> QED
      BY <3>1, <2>8 DEF TurnInv
  <2>13. PlanInv'
    <3>1. \A i, j \in DOMAIN plan' : plan'[i].ring = plan'[j].ring => i = j
      BY <2>5
    <3> QED
      BY <3>1, <2>1, <2>8 DEF PlanInv
  <2>14. IndexInv'
    <3>1. \A r \in Ring : HandedBack(r)' = 0 /\ HandedBack(r) = 0
      BY <2>1, <2>8 DEF HandedBack
    <3> QED
      BY <3>1, <2>1, <2>7 DEF IndexInv
  <2>15. ReadInv'
    <3>1. ASSUME NEW i \in DOMAIN plan'
          PROVE /\ ring'[plan'[i].ring].next = Succ(ring'[plan'[i].ring].phl)
                /\ plan'[i].busy =< phl_calc_avail_rptr(ring'[plan'[i].ring].phl, ring'[plan'[i].ring].core)
      <4>1. /\ plan'[i].ring \in Ring /\ plan'[i].ring \in ToSet(rs)
            /\ plan'[i].busy = Avail(plan'[i].ring) /\ plan'[i].busy \in 0..RingSize
        BY <2>2, <2>4, <2>5
      <4> QED
        BY <4>1, <2>7 DEF Avail
    <3> QED
      BY <3>1, <2>8 DEF ReadInv, Avail
  <2>16. ReqInv'
    BY <2>1 DEF ReqInv
  <2>17. RecycleInv'
    BY <1>2, <2>1, RecycleKept
  <2> QED
    BY <2>10, <2>11, <2>12, <2>13, <2>14, <2>15, <2>16, <2>17
<1>3. ASSUME ~ReadsFreed, TakeBuffer PROVE IInv'
  <2>1. plan # <<>> /\ plan' = Tail(plan)
    BY <1>3 DEF TakeBuffer
  <2>2. /\ Len(plan) \in Nat \ {0} /\ 1 \in DOMAIN plan
        /\ plan[1] \in Work /\ plan[1].ring \in Ring /\ plan[1].busy \in 0..RingSize
        /\ plan' \in Seq(Work) /\ Len(plan') = Len(plan) - 1
        /\ \A i \in DOMAIN plan' : i + 1 \in DOMAIN plan /\ i + 1 # 1 /\ plan'[i] = plan[i + 1]
        /\ \A i, j \in DOMAIN plan' : i + 1 = j + 1 => i = j
    BY <2>1, PlanTail, WorkFields DEF TypeOK
  <2>3. /\ cb.pc = "ring" /\ cb' = [pc |-> "req", work |-> plan[1], agg |-> 0]
        /\ buf[plan[1].ring[2]] > 0 /\ buf' = [buf EXCEPT ![plan[1].ring[2]] = @ - 1]
        /\ UNCHANGED <<sta, tlist, ring, sts, air, sched, owed, stopped, added, taken, recycled, fails>>
    BY <1>3, <2>1, PlanTail DEF TakeBuffer, TypeOK
  <2>4. plan[1].ring[2] \in Cat /\ plan[1].ring[1] \in Sta /\ plan[1] # None
    BY <2>2, WorkFields
  <2>5. cb'.pc = "req" /\ cb'.work = plan[1] /\ cb'.agg = 0 /\ cb' \in Callback
    BY <2>2, <2>3 DEF Callback
  <2>6. cb.work = None
    BY <2>3 DEF TurnInv
  <2>7. /\ buf' \in [Cat -> 0..NBuf] /\ air' \in [Cat -> 0..NBuf]
        /\ \A x \in Cat : buf'[x] + air'[x]
               + (IF cb'.work # None /\ cb'.work.ring[2] = x THEN 1 ELSE 0) = NBuf
    <3>1. \A x \in Cat : /\ buf[x] \in Nat /\ air[x] \in Nat
                         /\ buf[x] + air[x] + (IF cb.work # None /\ cb.work.ring[2] = x THEN 1 ELSE 0) = NBuf
      BY DEF TypeOK, NoneLeaks
    <3>2. buf \in [Cat -> 0..NBuf] /\ air \in [Cat -> 0..NBuf]
      BY DEF TypeOK
    <3>3. ASSUME NEW x \in Cat
          PROVE /\ buf'[x] \in 0..NBuf /\ air'[x] \in 0..NBuf
                /\ buf'[x] + air'[x] + (IF cb'.work # None /\ cb'.work.ring[2] = x THEN 1 ELSE 0) = NBuf
      <4>1. CASE x = plan[1].ring[2]
        <5>1. buf'[x] = buf[x] - 1 /\ buf[x] > 0 /\ air'[x] = air[x]
          BY <4>1, <3>2, <2>3
        <5>2. buf[x] \in Nat /\ air[x] \in Nat /\ buf[x] + air[x] = NBuf
          BY <3>1, <2>6
        <5>3. cb'.work # None /\ cb'.work.ring[2] = x
          BY <4>1, <2>4, <2>5
        <5>4. NBuf \in Nat
          OBVIOUS
        <5> QED
          BY <5>1, <5>2, <5>3, <5>4
      <4>2. CASE x # plan[1].ring[2]
        BY <4>2, <3>1, <3>2, <2>2, <2>3, <2>4, <2>5, <2>6
      <4> QED
        BY <4>1, <4>2
    <3>4. buf' \in [Cat -> Int] /\ air' \in [Cat -> Int]
      BY <3>2, <2>2, <2>3, <2>4, <2>5, <2>6
    <3> QED
      BY <3>3, <3>4
  <2>8. sts' \in 0..NSts /\ sts' + Len(plan') + (IF cb'.work # None THEN 1 ELSE 0) = NSts
    <3>1. sts \in Nat /\ Len(plan) \in Nat /\ sts + Len(plan) + (IF cb.work # None THEN 1 ELSE 0) = NSts
      BY DEF TypeOK, NoneLeaks
    <3> QED
      BY <3>1, <2>2, <2>3, <2>4, <2>5, <2>6
  <2>9. TypeOK'
    BY <2>1, <2>2, <2>3, <2>4, <2>5, <2>6, <2>7, <2>8 DEF TypeOK, Callback
  <2>10. NoneLeaks'
    BY <2>1, <2>2, <2>3, <2>4, <2>5, <2>6, <2>7, <2>8 DEF TypeOK, NoneLeaks, TurnInv
  <2>11. TurnInv'
    BY <2>2, <2>4, <2>5 DEF TurnInv
  <2>12. PlanInv'
    <3>1. \A i, j \in DOMAIN plan : plan[i].ring = plan[j].ring => i = j
      BY DEF PlanInv
    <3>2. ASSUME NEW i \in DOMAIN plan', NEW j \in DOMAIN plan', plan'[i].ring = plan'[j].ring
          PROVE  i = j
      <4>1. i + 1 = j + 1
        BY <3>1, <3>2, <2>2
      <4> QED
        BY <4>1, <2>2
    <3>3. ASSUME NEW i \in DOMAIN plan' PROVE plan'[i].ring # cb'.work.ring
      BY <3>1, <2>2, <2>5
    <3>4. IsInjective(tlist')
      BY <2>3 DEF PlanInv
    <3> QED
      BY <3>2, <3>3, <3>4 DEF PlanInv
  <2>13. IndexInv'
    BY <2>1, <2>2, <2>3, <2>4, <2>5, <2>6, <2>7, <2>8 DEF TypeOK, TurnInv, IndexInv,
       HandedBack
  <2>14. ReadInv'
    BY <2>2, <2>3, <2>4, <2>5 DEF ReadInv, Avail, cur
  <2>15. ReqInv'
    BY <2>1, <2>2, <2>3, <2>4, <2>5, <2>6, <2>7, <2>8 DEF ReqInv
  <2>16. RecycleInv'
    BY <1>3, <2>3, RecycleKept
  <2> QED
    BY <2>9, <2>10, <2>11, <2>12, <2>13, <2>14, <2>15, <2>16
<1>4. ASSUME ~ReadsFreed, NoBuffer PROVE IInv'
  <2>1. plan # <<>> /\ plan' = Tail(plan)
    BY <1>4 DEF NoBuffer
  <2>2. /\ Len(plan) \in Nat \ {0} /\ 1 \in DOMAIN plan
        /\ plan[1] \in Work /\ plan[1].ring \in Ring /\ plan[1].busy \in 0..RingSize
        /\ plan' \in Seq(Work) /\ Len(plan') = Len(plan) - 1
        /\ \A i \in DOMAIN plan' : i + 1 \in DOMAIN plan /\ i + 1 # 1 /\ plan'[i] = plan[i + 1]
        /\ \A i, j \in DOMAIN plan' : i + 1 = j + 1 => i = j
    BY <2>1, PlanTail, WorkFields DEF TypeOK
  <2>3. /\ cb.pc = "ring" /\ cb' = cb /\ sts' = sts + 1
        /\ UNCHANGED <<sta, tlist, ring, buf, air, sched, owed, stopped, added, taken, recycled, fails>>
    BY <1>4 DEF NoBuffer, phl_release_ring_sts
  <2>4. cb.work = None
    BY <2>3 DEF TurnInv
  <2>5. sts' \in 0..NSts /\ sts' + Len(plan') + (IF cb'.work # None THEN 1 ELSE 0) = NSts
    <3>1. sts \in Nat /\ Len(plan) \in Nat /\ sts + Len(plan) + (IF cb.work # None THEN 1 ELSE 0) = NSts
      BY DEF TypeOK, NoneLeaks
    <3>2. Len(plan') = Len(plan) - 1 /\ Len(plan) > 0 /\ sts' = sts + 1 /\ cb'.work = None /\ cb.work = None
      BY <2>2, <2>3, <2>4
    <3> QED
      BY <3>1, <3>2
  <2>6. TypeOK'
    BY <2>1, <2>2, <2>3, <2>4, <2>5 DEF TypeOK, Callback
  <2>7. NoneLeaks'
    BY <2>1, <2>2, <2>3, <2>4, <2>5 DEF TypeOK, NoneLeaks, TurnInv
  <2>8. TurnInv'
    BY <2>1, <2>2, <2>3, <2>4, <2>5 DEF TypeOK, TurnInv
  <2>9. PlanInv'
    BY <2>1, <2>2, <2>3, <2>4, <2>5 DEF TypeOK, TurnInv, PlanInv
  <2>10. IndexInv'
    BY <2>1, <2>2, <2>3, <2>4, <2>5 DEF TypeOK, TurnInv, IndexInv, HandedBack
  <2>11. ReadInv'
    BY <2>1, <2>2, <2>3, <2>4, <2>5 DEF TypeOK, TurnInv, PlanInv, ReadInv, Avail, cur
  <2>12. ReqInv'
    BY <2>1, <2>2, <2>3, <2>4, <2>5 DEF ReqInv
  <2>13. RecycleInv'
    BY <1>4, <2>1, <2>2, <2>3, <2>4, <2>5, RecycleKept
  <2> QED
    BY <2>6, <2>7, <2>8, <2>9, <2>10, <2>11, <2>12, <2>13
<1>5. ASSUME ~ReadsFreed, _phl_prepare_tx_usb PROVE IInv'
  <2>1. /\ cb.work \in Work /\ cb.work # None /\ cb.work.ring \in Ring /\ cb.work.busy \in 0..RingSize
        /\ cb.work.ring[1] \in Sta /\ cb.work.ring[2] \in Cat
    BY <1>5, WorkFields DEF _phl_prepare_tx_usb, TypeOK, TurnInv
  <2>2. /\ cb.pc = "req" /\ recycled' = [recycled EXCEPT ![CurReq] = @ + 1]
        /\ taken' = [taken EXCEPT ![cb.work.ring] = Append(@, CurReq)]
        /\ cb'.pc = "recycled" /\ cb'.work = cb.work /\ cb'.agg = cb.agg /\ cb' \in Callback
        /\ UNCHANGED <<sta, tlist, ring, sts, buf, air, plan, sched, owed, stopped, added, fails>>
    BY <1>5 DEF _phl_prepare_tx_usb, TypeOK, Callback
  <2>3. /\ CurReq \in Req /\ Len(taken[cb.work.ring]) + 1 \in 1..Len(added[cb.work.ring])
        /\ CurReq = added[cb.work.ring][Len(taken[cb.work.ring]) + 1]
        /\ InOrder(cur.phl, cur.core, cur.entry, added[cb.work.ring], Append(taken[cb.work.ring], CurReq), 1)
    <3>1. /\ cur.phl \in Idx /\ cur.core \in Idx /\ cur.entry \in [Idx -> Req \cup {None}]
          /\ added[cb.work.ring] \in Seq(Req) /\ taken[cb.work.ring] \in Seq(Req)
      BY <2>1 DEF TypeOK, cur
    <3>2. cur.next = Succ(cur.phl) /\ phl_calc_avail_rptr(cur.phl, cur.core) > 0
      <4>1. /\ cur.next = Succ(cur.phl) /\ cb.work.busy > 0
            /\ cb.work.busy =< phl_calc_avail_rptr(cur.phl, cur.core)
        BY <2>2 DEF ReadInv, TurnInv, Avail, cur
      <4>2. phl_calc_avail_rptr(cur.phl, cur.core) \in 0..(RingSize - 1)
        BY <3>1, RingIndex
      <4> QED
        BY <4>1, <4>2, <2>1
    <3>3. HandedBack(cb.work.ring) = 0
      BY <2>2 DEF HandedBack
    <3>4. InOrder(cur.phl, cur.core, cur.entry, added[cb.work.ring], taken[cb.work.ring], 0)
      BY <2>1, <3>3 DEF IndexInv, cur
    <3> QED
      BY <3>1, <3>2, <3>4, TakeInOrder DEF CurReq
  <2>4. /\ taken[cb.work.ring] \in Seq(Req) /\ Append(taken[cb.work.ring], CurReq) \in Seq(Req)
        /\ Len(Append(taken[cb.work.ring], CurReq)) = Len(taken[cb.work.ring]) + 1
    <3>1. taken[cb.work.ring] \in Seq(Req) /\ CurReq \in Req
      BY <2>1, <2>3 DEF TypeOK
    <3> QED
      BY <3>1
  <2>5. /\ taken' \in [Ring -> Seq(Req)] /\ recycled' \in [Req -> Nat]
        /\ taken'[cb.work.ring] = Append(taken[cb.work.ring], CurReq)
        /\ \A x \in Ring : x # cb.work.ring => taken'[x] = taken[x]
    <3>1. taken \in [Ring -> Seq(Req)] /\ recycled \in [Req -> Nat] /\ CurReq \in Req
      BY <2>3 DEF TypeOK
    <3> QED
      BY <3>1, <2>1, <2>2, <2>4
  <2>6. TypeOK'
    BY <2>1, <2>2, <2>3, <2>4, <2>5 DEF TypeOK, Callback
  <2>7. NoneLeaks'
    BY <2>1, <2>2, <2>3, <2>4, <2>5 DEF TypeOK, NoneLeaks, TurnInv
  <2>8. TurnInv'
    BY <2>1, <2>2, <2>3, <2>4, <2>5 DEF TypeOK, TurnInv
  <2>9. PlanInv'
    BY <2>1, <2>2, <2>3, <2>4, <2>5 DEF TypeOK, TurnInv, PlanInv
  <2>10. IndexInv'
    <3> SUFFICES ASSUME NEW x \in Ring
                   PROVE InOrder(ring[x].phl, ring[x].core, ring[x].entry, added[x], taken'[x], HandedBack(x)')
      BY <2>2 DEF IndexInv
    <3>1. CASE x = cb.work.ring
      <4>1. HandedBack(x)' = 1
        BY <3>1, <2>2 DEF HandedBack
      <4> QED
        BY <4>1, <3>1, <2>3, <2>5 DEF cur
    <3>2. CASE x # cb.work.ring
      <4>1. HandedBack(x)' = 0 /\ HandedBack(x) = 0
        BY <3>2, <2>2 DEF HandedBack
      <4> QED
        BY <4>1, <3>2, <2>5 DEF IndexInv
    <3> QED
      BY <3>1, <3>2
  <2>11. ReadInv'
    BY <2>1, <2>2, <2>3, <2>4, <2>5 DEF TypeOK, TurnInv, PlanInv, ReadInv, Avail, cur
  <2>12. ReqInv'
    BY <2>1, <2>2, <2>3, <2>4, <2>5 DEF ReqInv
  <2>13. RecycleInv'
    <3> DEFINE w == cb.work.ring
               l == Len(taken[w]) + 1
    <3>1. /\ \A q \in Req : q \notin Reqs(added) => recycled[q] = 0
          /\ \A x \in Ring : \A i \in 1..Len(added[x]) :
                 recycled[added[x][i]] = IF i =< Len(taken[x]) \/ sta[x[1]] = "freed" THEN 1 ELSE 0
      BY <1>5 DEF ReadsFreed, RecycleInv, Undercut, OnceInv
    <3>2. \A x \in Ring : \A i \in 1..Len(added[x]) : added[x][i] = added[w][l] => x = w /\ i = l
      <4>1. l \in 1..Len(added[w]) /\ w \in Ring
        BY <2>1, <2>3
      <4>2. \A r, x \in Ring : \A i \in 1..Len(added[r]), j \in 1..Len(added[x]) :
                added[r][i] = added[x][j] => r = x /\ i = j
        BY DEF ReqInv, Numbered
      <4> HIDE DEF l, w
      <4> QED
        BY <4>1, <4>2
    <3>3. \A x \in Ring : /\ Len(taken[x]) \in Nat /\ Len(added[x]) \in Nat
                          /\ \A i \in 1..Len(added[x]) : added[x][i] \in Req /\ added[x][i] \in Reqs(added)
      BY AddedReqs
    <3>4. sta[w[1]] # "freed"
      BY <1>5, <2>1, <2>2 DEF ReadsFreed, Freed
    <3>5. \A q \in Req : recycled'[q] = IF q = added[w][l] THEN recycled[q] + 1 ELSE recycled[q]
      BY <2>2, <2>3 DEF TypeOK
    <3>6. ASSUME NEW x \in Ring, NEW i \in 1..Len(added[x])
          PROVE recycled'[added[x][i]] = IF i =< Len(taken'[x]) \/ sta[x[1]] = "freed" THEN 1 ELSE 0
      <4>0. Len(taken'[w]) = l /\ l = Len(taken[w]) + 1 /\ w \in Ring /\ Len(taken[w]) \in Nat
        BY <2>1, <2>4, <2>5, <3>3
      <4> HIDE DEF l, w
      <4>1. CASE x = w /\ i = l
        BY <4>0, <4>1, <3>1, <3>3, <3>4, <3>5
      <4>2. CASE x = w /\ i # l
        BY <4>0, <4>2, <3>1, <3>2, <3>3, <3>5
      <4>3. CASE x # w
        <5>1. taken'[x] = taken[x]
          BY <4>3, <2>5 DEF w
        <5> QED
          BY <5>1, <4>0, <4>3, <3>1, <3>2, <3>3, <3>5
      <4> QED
        BY <4>1, <4>2, <4>3
    <3>7. ASSUME NEW q \in Req, q \notin Reqs(added) PROVE recycled'[q] = 0
      BY <3>7, <3>1, <3>3, <3>5, <2>1, <2>3
    <3>8. OnceInv'
      BY <3>6, <3>7, <2>2 DEF OnceInv
    <3>9. ~Undercut'
      BY <3>4, <2>2 DEF Undercut, Freed
    <3> QED
      BY <3>8, <3>9 DEF RecycleInv
  <2> QED
    BY <2>6, <2>7, <2>8, <2>9, <2>10, <2>11, <2>12, <2>13
<1>6. ASSUME ~ReadsFreed, SetPhlIdx PROVE IInv'
  <2>1. /\ cb.work \in Work /\ cb.work # None /\ cb.work.ring \in Ring /\ cb.work.busy \in 0..RingSize
        /\ cb.work.ring[1] \in Sta /\ cb.work.ring[2] \in Cat
    BY <1>6, WorkFields DEF SetPhlIdx, TypeOK, TurnInv
  <2>2. /\ cb.pc = "recycled"
        /\ ring' = [ring EXCEPT ![cb.work.ring].phl = cur.next,
                               ![cb.work.ring].next = IF GoesOn THEN Succ(@) ELSE @]
        /\ cb' = [pc |-> IF GoesOn THEN "req" ELSE "submit", agg |-> cb.agg + 1,
                  work |-> [cb.work EXCEPT !.busy = @ - 1]]
        /\ UNCHANGED <<sta, tlist, sts, buf, air, plan, sched, owed, stopped, added, taken, recycled, fails>>
    BY <1>6 DEF SetPhlIdx
  <2>3. /\ cur.phl \in Idx /\ cur.core \in Idx /\ cur.entry \in [Idx -> Req \cup {None}] /\ cur.next \in Idx
        /\ Succ(cur.phl) \in Idx /\ Succ(cur.next) \in Idx
        /\ added[cb.work.ring] \in Seq(Req) /\ taken[cb.work.ring] \in Seq(Req)
    <3>1. cur \in [core : Idx, phl : Idx, next : Idx, entry : [Idx -> Req \cup {None}]]
      BY <2>1 DEF TypeOK, cur
    <3>2. cur.phl \in Idx /\ cur.core \in Idx /\ cur.entry \in [Idx -> Req \cup {None}] /\ cur.next \in Idx
      BY <3>1
    <3>3. \A x \in Idx : Succ(x) \in Idx
      BY RingIndex
    <3>4. added[cb.work.ring] \in Seq(Req) /\ taken[cb.work.ring] \in Seq(Req)
      BY <2>1 DEF TypeOK
    <3> QED
      BY <3>2, <3>3, <3>4
  <2>4. /\ cur.next = Succ(cur.phl) /\ cb.work.busy > 0
        /\ cb.work.busy =< phl_calc_avail_rptr(cur.phl, cur.core)
        /\ cb.agg \in 0..RingSize /\ cb.agg + cb.work.busy < RingSize
        /\ GoesOn => cb.work.busy > 1
    BY <2>1, <2>2 DEF ReadInv, TurnInv, Avail, cur, TypeOK, GoesOn
  <2>5. /\ InOrder(Succ(cur.phl), cur.core, cur.entry, added[cb.work.ring], taken[cb.work.ring], 0)
        /\ phl_calc_avail_rptr(Succ(cur.phl), cur.core) = phl_calc_avail_rptr(cur.phl, cur.core) - 1
        /\ phl_calc_avail_rptr(cur.phl, cur.core) \in Nat
    <3>1. HandedBack(cb.work.ring) = 1
      BY <2>2 DEF HandedBack
    <3>2. InOrder(cur.phl, cur.core, cur.entry, added[cb.work.ring], taken[cb.work.ring], 1)
      BY <2>1, <3>1 DEF IndexInv, cur
    <3>3. phl_calc_avail_rptr(cur.phl, cur.core) \in 0..(RingSize - 1)
      BY <2>3, RingIndex
    <3>4. phl_calc_avail_rptr(cur.phl, cur.core) > 0
      BY <3>3, <2>1, <2>4
    <3> QED
      BY <3>2, <3>3, <3>4, <2>3, PassInOrder
  <2>6. /\ ring'[cb.work.ring].phl = Succ(cur.phl) /\ ring'[cb.work.ring].core = cur.core
        /\ ring'[cb.work.ring].entry = cur.entry
        /\ ring'[cb.work.ring].next = IF GoesOn THEN Succ(Succ(cur.phl)) ELSE cur.next
        /\ \A x \in Ring : x # cb.work.ring => ring'[x] = ring[x]
    <3>1. /\ ring'[cb.work.ring] = [cur EXCEPT !.phl = cur.next, !.next = IF GoesOn THEN Succ(@) ELSE @]
          /\ \A x \in Ring : x # cb.work.ring => ring'[x] = ring[x]
      BY <2>1, <2>2 DEF TypeOK, cur
    <3>2. cur \in [core : Idx, phl : Idx, next : Idx, entry : [Idx -> Req \cup {None}]]
      BY <2>1 DEF TypeOK, cur
    <3> HIDE DEF cur
    <3> QED
      BY <3>1, <3>2, <2>4
  <2>7. ring' \in [Ring -> [core : Idx, phl : Idx, next : Idx, entry : [Idx -> Req \cup {None}]]]
    <3>1. \A x \in Ring : ring[x] \in [core : Idx, phl : Idx, next : Idx, entry : [Idx -> Req \cup {None}]]
      BY DEF TypeOK
    <3>2. ring'[cb.work.ring] = [ring[cb.work.ring] EXCEPT !.phl = cur.next, !.next = IF GoesOn THEN Succ(@) ELSE @]
      BY <2>1, <2>2 DEF TypeOK
    <3>3. ring'[cb.work.ring] \in [core : Idx, phl : Idx, next : Idx, entry : [Idx -> Req \cup {None}]]
      BY <3>1, <3>2, <2>1, <2>3 DEF cur
    <3>4. ring' = [x \in Ring |-> ring'[x]]
      BY <2>2 DEF TypeOK
    <3> QED
      BY <3>1, <3>3, <3>4, <2>6
  <2>8. /\ cb'.pc = (IF GoesOn THEN "req" ELSE "submit") /\ cb'.work.ring = cb.work.ring
        /\ cb'.work.busy = cb.work.busy - 1 /\ cb'.agg = cb.agg + 1 /\ cb'.work \in Work /\ cb'.work # None
        /\ cb' \in Callback
    <3>1. cb'.work = [cb.work EXCEPT !.busy = @ - 1]
      BY <2>2
    <3>2. cb'.work.ring = cb.work.ring /\ cb'.work.busy = cb.work.busy - 1 /\ cb'.work \in Work
      BY <3>1, <2>1, <2>4 DEF Work
    <3>3. cb'.work # None
      BY <3>2, WorkFields
    <3>4. cb'.pc = (IF GoesOn THEN "req" ELSE "submit") /\ cb'.agg = cb.agg + 1 /\ cb'.agg \in 0..RingSize
      BY <2>1, <2>2, <2>4
    <3>5. cb' = [pc |-> cb'.pc, work |-> cb'.work, agg |-> cb'.agg]
      BY <2>2
    <3>6. cb'.pc \in {"req", "submit"}
      BY <3>4
    <3> QED
      BY <3>2, <3>3, <3>4, <3>5, <3>6 DEF Callback
  <2>9. TypeOK'
    BY <2>2, <2>7, <2>8 DEF TypeOK, Callback
  <2>10. NoneLeaks'
    BY <2>1, <2>2, <2>8 DEF NoneLeaks
  <2>11. TurnInv'
    BY <2>1, <2>2, <2>4, <2>8 DEF TurnInv
  <2>12. PlanInv'
    BY <2>1, <2>2, <2>8 DEF PlanInv
  <2>13. IndexInv'
    <3> SUFFICES ASSUME NEW x \in Ring
                   PROVE InOrder(ring'[x].phl, ring'[x].core, ring'[x].entry, added[x], taken[x], HandedBack(x)')
      BY <2>2 DEF IndexInv
    <3>1. HandedBack(x)' = 0
      BY <2>8 DEF HandedBack
    <3>2. CASE x = cb.work.ring
      BY <3>1, <3>2, <2>5, <2>6
    <3>3. CASE x # cb.work.ring
      <4>1. HandedBack(x) = 0
        BY <3>3 DEF HandedBack
      <4> QED
        BY <4>1, <3>1, <3>3, <2>6 DEF IndexInv
    <3> QED
      BY <3>2, <3>3
  <2>14. ReadInv'
    <3>1. \A i \in DOMAIN plan : plan[i].ring # cb.work.ring /\ plan[i].ring \in Ring
      BY <2>1, WorkFields DEF PlanInv, TypeOK
    <3>2. \A i \in DOMAIN plan : /\ ring'[plan[i].ring].next = Succ(ring'[plan[i].ring].phl)
                                 /\ plan[i].busy =< Avail(plan[i].ring)'
      BY ZenonT(40), <3>1, <2>2, <2>6 DEF ReadInv, Avail
    <3>3. ASSUME cb'.pc \in {"req", "recycled"}
          PROVE cur'.next = Succ(cur'.phl) /\ cb'.work.busy =< Avail(cb.work.ring)'
      BY <3>3, <2>1, <2>4, <2>5, <2>6, <2>8 DEF cur, Avail
    <3> QED
      BY <3>2, <3>3, <2>2, <2>8 DEF ReadInv, Avail
  <2>15. ReqInv'
    BY <2>2 DEF ReqInv
  <2>16. RecycleInv'
    BY <1>6, <2>2, RecycleKept
  <2> QED
    BY <2>9, <2>10, <2>11, <2>12, <2>13, <2>14, <2>15, <2>16
<1>7. ASSUME ~ReadsFreed, AggBreak PROVE IInv'
  <2>1. /\ cb.pc = "req"
        /\ cb'.pc = "submit" /\ cb'.work = cb.work /\ cb'.agg = cb.agg /\ cb' \in Callback
        /\ UNCHANGED <<sta, tlist, ring, sts, buf, air, plan, sched, owed, stopped, added, taken, recycled, fails>>
    BY <1>7 DEF AggBreak, TypeOK, Callback
  <2>2. TypeOK'
    BY <2>1 DEF TypeOK, Callback
  <2>3. NoneLeaks'
    BY <2>1 DEF TypeOK, NoneLeaks, TurnInv
  <2>4. TurnInv'
    BY <2>1 DEF TypeOK, TurnInv
  <2>5. PlanInv'
    BY <2>1 DEF TypeOK, TurnInv, PlanInv
  <2>6. IndexInv'
    BY <2>1 DEF TypeOK, TurnInv, IndexInv, HandedBack
  <2>7. ReadInv'
    BY <2>1 DEF TypeOK, TurnInv, PlanInv, ReadInv, Avail, cur
  <2>8. ReqInv'
    BY <2>1 DEF ReqInv
  <2>9. RecycleInv'
    BY <1>7, <2>1, RecycleKept
  <2> QED
    BY <2>2, <2>3, <2>4, <2>5, <2>6, <2>7, <2>8, <2>9
<1>8. ASSUME ~ReadsFreed, os_usb_tx PROVE IInv'
  <2>1. /\ cb.work \in Work /\ cb.work # None /\ cb.work.ring \in Ring /\ cb.work.busy \in 0..RingSize
        /\ cb.work.ring[1] \in Sta /\ cb.work.ring[2] \in Cat
    BY <1>8, WorkFields DEF os_usb_tx, TypeOK, TurnInv
  <2>2. /\ cb.pc = "submit" /\ air' = [air EXCEPT ![cb.work.ring[2]] = @ + 1] /\ sts' = sts + 1
        /\ cb' = [pc |-> "ring", work |-> None, agg |-> 0]
        /\ UNCHANGED <<sta, tlist, ring, buf, plan, sched, owed, stopped, added, taken, recycled, fails>>
    BY <1>8 DEF os_usb_tx, phl_release_ring_sts, Idle
  <2>3. cb'.pc = "ring" /\ cb'.work = None /\ cb'.agg = 0 /\ cb' \in Callback
    BY <2>2 DEF Callback
  <2>4. /\ buf' \in [Cat -> 0..NBuf] /\ air' \in [Cat -> 0..NBuf]
        /\ \A x \in Cat : buf'[x] + air'[x]
               + (IF cb'.work # None /\ cb'.work.ring[2] = x THEN 1 ELSE 0) = NBuf
    <3>1. \A x \in Cat : /\ buf[x] \in Nat /\ air[x] \in Nat
                         /\ buf[x] + air[x] + (IF cb.work # None /\ cb.work.ring[2] = x THEN 1 ELSE 0) = NBuf
      BY DEF TypeOK, NoneLeaks
    <3>2. buf \in [Cat -> 0..NBuf] /\ air \in [Cat -> 0..NBuf]
      BY DEF TypeOK
    <3>3. ASSUME NEW x \in Cat
          PROVE /\ buf'[x] \in 0..NBuf /\ air'[x] \in 0..NBuf
                /\ buf'[x] + air'[x] + (IF cb'.work # None /\ cb'.work.ring[2] = x THEN 1 ELSE 0) = NBuf
      <4>1. CASE x = cb.work.ring[2]
        BY <4>1, <3>1, <3>2, <2>1, <2>2, <2>3
      <4>2. CASE x # cb.work.ring[2]
        BY <4>2, <3>1, <3>2, <2>1, <2>2, <2>3
      <4> QED
        BY <4>1, <4>2
    <3>4. buf' \in [Cat -> Int] /\ air' \in [Cat -> Int]
      BY <3>2, <2>1, <2>2, <2>3
    <3> QED
      BY <3>3, <3>4
  <2>5. sts' \in 0..NSts /\ sts' + Len(plan') + (IF cb'.work # None THEN 1 ELSE 0) = NSts
    <3>1. sts \in Nat /\ Len(plan) \in Nat /\ sts + Len(plan) + (IF cb.work # None THEN 1 ELSE 0) = NSts
      BY DEF TypeOK, NoneLeaks
    <3> QED
      BY <3>1, <2>1, <2>2, <2>3
  <2>6. TypeOK'
    BY <2>1, <2>2, <2>3, <2>4, <2>5 DEF TypeOK, Callback
  <2>7. NoneLeaks'
    BY <2>1, <2>2, <2>3, <2>4, <2>5 DEF TypeOK, NoneLeaks, TurnInv
  <2>8. TurnInv'
    BY <2>1, <2>2, <2>3, <2>4, <2>5 DEF TypeOK, TurnInv
  <2>9. PlanInv'
    BY <2>1, <2>2, <2>3, <2>4, <2>5 DEF TypeOK, TurnInv, PlanInv
  <2>10. IndexInv'
    BY <2>1, <2>2, <2>3, <2>4, <2>5 DEF TypeOK, TurnInv, IndexInv, HandedBack
  <2>11. ReadInv'
    BY <2>1, <2>2, <2>3, <2>4, <2>5 DEF TypeOK, TurnInv, PlanInv, ReadInv, Avail, cur
  <2>12. ReqInv'
    BY <2>1, <2>2, <2>3, <2>4, <2>5 DEF ReqInv
  <2>13. RecycleInv'
    BY <1>8, <2>2, RecycleKept
  <2> QED
    BY <2>6, <2>7, <2>8, <2>9, <2>10, <2>11, <2>12, <2>13
<1>9. ASSUME ~ReadsFreed, TxFails PROVE IInv'
  <2>1. /\ cb.work \in Work /\ cb.work # None /\ cb.work.ring \in Ring /\ cb.work.busy \in 0..RingSize
        /\ cb.work.ring[1] \in Sta /\ cb.work.ring[2] \in Cat
    BY <1>9, WorkFields DEF TxFails, TypeOK, TurnInv
  <2>2. /\ cb.pc \in {"req", "submit"} /\ cb' = [pc |-> "ring", work |-> None, agg |-> 0]
        /\ buf' = [buf EXCEPT ![cb.work.ring[2]] = @ + 1] /\ sts' = sts + 1 /\ fails' = fails + 1 /\ fails < MaxFail
        /\ UNCHANGED <<sta, tlist, ring, air, plan, sched, owed, stopped, added, taken, recycled>>
    BY <1>9 DEF TxFails, phl_release_ring_sts, Idle
  <2>3. cb'.pc = "ring" /\ cb'.work = None /\ cb'.agg = 0 /\ cb' \in Callback
    BY <2>2 DEF Callback
  <2>4. /\ buf' \in [Cat -> 0..NBuf] /\ air' \in [Cat -> 0..NBuf]
        /\ \A x \in Cat : buf'[x] + air'[x]
               + (IF cb'.work # None /\ cb'.work.ring[2] = x THEN 1 ELSE 0) = NBuf
    <3>1. \A x \in Cat : /\ buf[x] \in Nat /\ air[x] \in Nat
                         /\ buf[x] + air[x] + (IF cb.work # None /\ cb.work.ring[2] = x THEN 1 ELSE 0) = NBuf
      BY DEF TypeOK, NoneLeaks
    <3>2. buf \in [Cat -> 0..NBuf] /\ air \in [Cat -> 0..NBuf]
      BY DEF TypeOK
    <3>3. ASSUME NEW x \in Cat
          PROVE /\ buf'[x] \in 0..NBuf /\ air'[x] \in 0..NBuf
                /\ buf'[x] + air'[x] + (IF cb'.work # None /\ cb'.work.ring[2] = x THEN 1 ELSE 0) = NBuf
      <4>1. CASE x = cb.work.ring[2]
        BY <4>1, <3>1, <3>2, <2>1, <2>2, <2>3
      <4>2. CASE x # cb.work.ring[2]
        BY <4>2, <3>1, <3>2, <2>1, <2>2, <2>3
      <4> QED
        BY <4>1, <4>2
    <3>4. buf' \in [Cat -> Int] /\ air' \in [Cat -> Int]
      BY <3>2, <2>1, <2>2, <2>3
    <3> QED
      BY <3>3, <3>4
  <2>5. sts' \in 0..NSts /\ sts' + Len(plan') + (IF cb'.work # None THEN 1 ELSE 0) = NSts
    <3>1. sts \in Nat /\ Len(plan) \in Nat /\ sts + Len(plan) + (IF cb.work # None THEN 1 ELSE 0) = NSts
      BY DEF TypeOK, NoneLeaks
    <3> QED
      BY <3>1, <2>1, <2>2, <2>3
  <2>6. fails' \in 0..MaxFail
    BY <2>2 DEF TypeOK
  <2>7. TypeOK'
    BY <2>1, <2>2, <2>3, <2>4, <2>5, <2>6 DEF TypeOK, Callback
  <2>8. NoneLeaks'
    BY <2>1, <2>2, <2>3, <2>4, <2>5, <2>6 DEF TypeOK, NoneLeaks, TurnInv
  <2>9. TurnInv'
    BY <2>1, <2>2, <2>3, <2>4, <2>5, <2>6 DEF TypeOK, TurnInv
  <2>10. PlanInv'
    BY <2>1, <2>2, <2>3, <2>4, <2>5, <2>6 DEF TypeOK, TurnInv, PlanInv
  <2>11. IndexInv'
    BY <2>1, <2>2, <2>3, <2>4, <2>5, <2>6 DEF TypeOK, TurnInv, IndexInv, HandedBack
  <2>12. ReadInv'
    BY <2>1, <2>2, <2>3, <2>4, <2>5, <2>6 DEF TypeOK, TurnInv, PlanInv, ReadInv, Avail,
       cur
  <2>13. ReqInv'
    BY <2>1, <2>2, <2>3, <2>4, <2>5, <2>6 DEF ReqInv
  <2>14. RecycleInv'
    BY <1>9, <2>1, <2>2, <2>3, <2>4, <2>5, <2>6, RecycleKept
  <2> QED
    BY <2>7, <2>8, <2>9, <2>10, <2>11, <2>12, <2>13, <2>14
<1>10. ASSUME ~ReadsFreed, FreeTurn PROVE IInv'
  <2>1. /\ cb.pc = "ring" /\ plan = <<>> /\ cb' = Idle /\ phl_free_deferred_tx_ring /\ cb.work = None
        /\ UNCHANGED <<tlist, ring, sts, buf, air, plan, sched, owed, stopped, added, taken, fails>>
    BY <1>10 DEF FreeTurn, TurnInv
  <2>2. /\ sta' \in [Sta -> {"none", "listed", "unlinked", "deferred", "freed"}]
        /\ {s \in Sta : sta'[s] = "listed"} = {s \in Sta : sta[s] = "listed"}
        /\ recycled' \in [Req -> Nat]
        /\ RecycleInv'
    <3>1. cb.pc # "recycled" /\ cb'.pc # "recycled"
      BY <2>1 DEF Idle
    <3> QED
      BY <1>10, <2>1, <3>1, FreeDeferred
  <2>3. cb'.pc = "idle" /\ cb'.work = None /\ cb'.agg = 0 /\ cb' \in Callback
    BY <2>1 DEF Idle, Callback
  <2>4. TypeOK'
    BY <2>1, <2>2, <2>3 DEF TypeOK, Callback
  <2>5. NoneLeaks'
    BY <2>1, <2>2, <2>3 DEF TypeOK, NoneLeaks, TurnInv
  <2>6. TurnInv'
    BY <2>1, <2>2, <2>3 DEF TypeOK, TurnInv
  <2>7. PlanInv'
    BY <2>1, <2>2, <2>3 DEF TypeOK, TurnInv, PlanInv
  <2>8. IndexInv'
    BY <2>1, <2>2, <2>3 DEF TypeOK, TurnInv, IndexInv, HandedBack
  <2>9. ReadInv'
    BY <2>1, <2>2, <2>3 DEF TypeOK, TurnInv, PlanInv, ReadInv, Avail, cur
  <2>10. ReqInv'
    BY <2>1, <2>2, <2>3 DEF ReqInv
  <2>11. RecycleInv'
    BY <2>2
  <2> QED
    BY <2>4, <2>5, <2>6, <2>7, <2>8, <2>9, <2>10, <2>11
<1>11. ASSUME NEW r \in Ring, ~ReadsFreed, rtw_phl_add_tx_req(r) PROVE IInv'
  <2>1. /\ sta[r[1]] = "listed" /\ NReqs < MaxReq /\ cb' = cb
        /\ phl_calc_avail_wptr(ring[r].phl, ring[r].core) > 0
        /\ ring' = [ring EXCEPT ![r].core = Succ(@), ![r].entry[Succ(ring[r].core)] = NReqs + 1]
        /\ added' = [added EXCEPT ![r] = Append(@, NReqs + 1)]
        /\ owed' = owed + 1
        /\ UNCHANGED <<sta, tlist, sts, buf, air, plan, sched, stopped, taken, recycled, fails>>
    BY <1>11 DEF rtw_phl_add_tx_req
  <2>2. /\ ring[r] \in [core : Idx, phl : Idx, next : Idx, entry : [Idx -> Req \cup {None}]]
        /\ ring[r].phl \in Idx /\ ring[r].core \in Idx /\ Succ(ring[r].core) \in Idx
        /\ ring[r].entry \in [Idx -> Req \cup {None}] /\ added[r] \in Seq(Req) /\ taken[r] \in Seq(Req)
    <3>1. ring[r] \in [core : Idx, phl : Idx, next : Idx, entry : [Idx -> Req \cup {None}]]
      BY <1>11 DEF TypeOK
    <3>2. ring[r].phl \in Idx /\ ring[r].core \in Idx /\ ring[r].entry \in [Idx -> Req \cup {None}]
      BY <3>1
    <3>3. added[r] \in Seq(Req) /\ taken[r] \in Seq(Req)
      BY <1>11 DEF TypeOK
    <3>4. Succ(ring[r].core) \in Idx
      BY <3>2, RingIndex
    <3> QED
      BY <3>1, <3>2, <3>3, <3>4
  <2>3. /\ NReqs + 1 \in Req /\ NReqs + 1 \notin Reqs(added) /\ added' \in [Ring -> Seq(Req)]
        /\ Numbered(added') /\ Reqs(added') = Reqs(added) \cup {NReqs + 1}
    <3>1. added \in [Ring -> Seq(Req)] /\ Numbered(added) /\ Cardinality(Reqs(added)) < MaxReq
      BY <2>1 DEF TypeOK, ReqInv, NReqs
    <3> QED
      BY <3>1, <2>1, NumberRequest DEF NReqs
  <2>4. /\ added'[r] = Append(added[r], NReqs + 1) /\ \A x \in Ring : x # r => added'[x] = added[x]
    BY <2>1 DEF TypeOK
  <2>5. /\ ring'[r].phl = ring[r].phl /\ ring'[r].core = Succ(ring[r].core) /\ ring'[r].next = ring[r].next
        /\ ring'[r].entry = [ring[r].entry EXCEPT ![Succ(ring[r].core)] = NReqs + 1]
        /\ ring'[r] \in [core : Idx, phl : Idx, next : Idx, entry : [Idx -> Req \cup {None}]]
        /\ \A x \in Ring : x # r => ring'[x] = ring[x]
    <3>1. /\ ring'[r] = [ring[r] EXCEPT !.core = Succ(@), !.entry[Succ(ring[r].core)] = NReqs + 1]
          /\ \A x \in Ring : x # r => ring'[x] = ring[x]
      BY <2>1 DEF TypeOK
    <3>2. ring'[r].entry \in [Idx -> Req \cup {None}]
      BY <3>1, <2>2, <2>3
    <3> QED
      BY <3>1, <3>2, <2>2, <2>3
  <2>6. ring' \in [Ring -> [core : Idx, phl : Idx, next : Idx, entry : [Idx -> Req \cup {None}]]]
    <3>1. \A x \in Ring : ring'[x] \in [core : Idx, phl : Idx, next : Idx, entry : [Idx -> Req \cup {None}]]
      BY <2>5 DEF TypeOK
    <3>2. \E h : ring' = [ring EXCEPT ![r] = h]
      BY ZenonT(40), <2>1 DEF TypeOK
    <3>3. ring' = [x \in Ring |-> ring'[x]]
      BY <3>2 DEF TypeOK
    <3> QED
      BY <3>1, <3>3
  <2>7. /\ InOrder(ring'[r].phl, ring'[r].core, ring'[r].entry, added'[r], taken[r], HandedBack(r))
        /\ Avail(r)' = Avail(r) + 1 /\ Avail(r) \in Nat
    <3>1. InOrder(ring[r].phl, ring[r].core, ring[r].entry, added[r], taken[r], HandedBack(r)) /\ HandedBack(r) \in 0..1
      BY DEF IndexInv, HandedBack
    <3>2. /\ InOrder(ring[r].phl, Succ(ring[r].core), [ring[r].entry EXCEPT ![Succ(ring[r].core)] = NReqs + 1],
                   Append(added[r], NReqs + 1), taken[r], HandedBack(r))
          /\ phl_calc_avail_rptr(ring[r].phl, Succ(ring[r].core)) = phl_calc_avail_rptr(ring[r].phl, ring[r].core) + 1
      BY <3>1, <2>1, <2>2, <2>3, AddInOrder
    <3>3. phl_calc_avail_rptr(ring[r].phl, ring[r].core) \in 0..(RingSize - 1)
      BY <2>2, RingIndex
    <3> QED
      BY <3>2, <3>3, <2>4, <2>5 DEF Avail
  <2>8. TypeOK'
    <3>1. owed' \in Nat
      BY <2>1 DEF TypeOK
    <3> QED
      BY <3>1, <2>1, <2>3, <2>6 DEF TypeOK
  <2>9. NoneLeaks'
    BY <2>1 DEF NoneLeaks
  <2>10. TurnInv'
    BY <2>1 DEF TurnInv
  <2>11. PlanInv'
    BY <2>1 DEF PlanInv
  <2>12. IndexInv'
    <3> SUFFICES ASSUME NEW x \in Ring
                   PROVE InOrder(ring'[x].phl, ring'[x].core, ring'[x].entry, added'[x], taken[x], HandedBack(x)')
      BY <2>1 DEF IndexInv
    <3>1. HandedBack(x)' = HandedBack(x)
      BY <2>1 DEF HandedBack
    <3>2. CASE x = r
      BY <3>1, <3>2, <2>7
    <3>3. CASE x # r
      BY <3>1, <3>3, <2>4, <2>5 DEF IndexInv
    <3> QED
      BY <3>2, <3>3
  <2>13. ReadInv'
    <3> DEFINE av(x) == phl_calc_avail_rptr(ring'[x].phl, ring'[x].core)
    <3>1. \A x \in Ring : /\ ring'[x].next = ring[x].next /\ ring'[x].phl = ring[x].phl
                          /\ av(x) = Avail(x) \/ (x = r /\ av(x) = Avail(x) + 1)
      BY <2>5, <2>7 DEF Avail
    <3>2. \A i \in DOMAIN plan : plan[i].ring \in Ring /\ plan[i].busy \in 0..RingSize
      BY WorkFields DEF TypeOK
    <3>3. cb.pc \in {"req", "recycled"} => cb.work.ring \in Ring /\ cb.work.busy \in 0..RingSize
      BY WorkFields DEF TypeOK, TurnInv
    <3> HIDE DEF av
    <3>4. ASSUME NEW i \in DOMAIN plan
          PROVE ring'[plan[i].ring].next = Succ(ring'[plan[i].ring].phl) /\ plan[i].busy =< av(plan[i].ring)
      <4>1. plan[i].busy =< Avail(plan[i].ring) /\ ring[plan[i].ring].next = Succ(ring[plan[i].ring].phl)
        BY DEF ReadInv
      <4> QED
        BY <4>1, <3>1, <3>2, <2>7
    <3>5. ASSUME cb.pc \in {"req", "recycled"}
          PROVE /\ ring'[cb.work.ring].next = Succ(ring'[cb.work.ring].phl)
                /\ cb.work.busy =< av(cb.work.ring)
      <4>1. cb.work.busy =< Avail(cb.work.ring) /\ cur.next = Succ(cur.phl)
        BY <3>5 DEF ReadInv
      <4> QED
        BY <4>1, <3>1, <3>3, <3>5, <2>7 DEF cur
    <3> QED
      BY <3>4, <3>5, <2>1 DEF ReadInv, Avail, cur, av
  <2>14. ReqInv'
    BY <2>3 DEF ReqInv
  <2>15. RecycleInv'
    <3>0. ~Undercut /\ OnceInv /\ ~Undercut'
      BY <1>11, <2>1 DEF ReadsFreed, RecycleInv, Undercut, Freed
    <3>1. /\ \A q \in Req : q \notin Reqs(added) => recycled[q] = 0
          /\ \A x \in Ring : \A i \in 1..Len(added[x]) :
                 recycled[added[x][i]] = IF i =< Len(taken[x]) \/ sta[x[1]] = "freed" THEN 1 ELSE 0
      BY <3>0 DEF OnceInv
    <3>2. /\ Len(added'[r]) = Len(added[r]) + 1 /\ Len(added[r]) \in Nat /\ Len(taken[r]) \in Nat
          /\ added'[r][Len(added[r]) + 1] = NReqs + 1
          /\ \A i \in 1..Len(added[r]) : added'[r][i] = added[r][i]
          /\ Len(taken[r]) =< Len(added[r])
      <4>1. Len(taken[r]) =< Len(added[r])
        BY <1>11 DEF IndexInv, InOrder
      <4> QED
        BY <4>1, <2>2, <2>3, <2>4
    <3>3. ASSUME NEW x \in Ring, NEW i \in 1..Len(added'[x])
          PROVE recycled[added'[x][i]] = IF i =< Len(taken[x]) \/ sta[x[1]] = "freed" THEN 1 ELSE 0
      <4>1. CASE x = r /\ i = Len(added[r]) + 1
        BY <4>1, <3>1, <3>2, <2>1, <2>3
      <4>2. CASE x = r /\ i # Len(added[r]) + 1
        BY SMTT(30), <4>2, <3>1, <3>2
      <4>3. CASE x # r
        BY <4>3, <3>1, <2>4
      <4> QED
        BY <4>1, <4>2, <4>3
    <3>4. OnceInv'
      BY <3>1, <3>3, <2>1, <2>3 DEF OnceInv
    <3> QED
      BY <3>0, <3>4 DEF RecycleInv
  <2> QED
    BY <2>8, <2>9, <2>10, <2>11, <2>12, <2>13, <2>14, <2>15
<1>12. ASSUME ~ReadsFreed, rtw_phl_tx_req_notify PROVE IInv'
  <2>1. /\ owed' \in Nat /\ sched' = TRUE /\ cb' = cb
        /\ UNCHANGED <<sta, tlist, ring, sts, buf, air, plan, stopped, added, taken, recycled, fails>>
    BY <1>12 DEF rtw_phl_tx_req_notify, TypeOK
  <2>2. TypeOK'
    BY <2>1 DEF TypeOK, Callback
  <2>3. NoneLeaks'
    BY <2>1 DEF TypeOK, NoneLeaks, TurnInv
  <2>4. TurnInv'
    BY <2>1 DEF TypeOK, TurnInv
  <2>5. PlanInv'
    BY <2>1 DEF TypeOK, TurnInv, PlanInv
  <2>6. IndexInv'
    BY <2>1 DEF TypeOK, TurnInv, IndexInv, HandedBack
  <2>7. ReadInv'
    BY <2>1 DEF TypeOK, TurnInv, PlanInv, ReadInv, Avail, cur
  <2>8. ReqInv'
    BY <2>1 DEF ReqInv
  <2>9. RecycleInv'
    BY <1>12, <2>1, RecycleKept
  <2> QED
    BY <2>2, <2>3, <2>4, <2>5, <2>6, <2>7, <2>8, <2>9
<1>13. ASSUME NEW s \in Sta, ~ReadsFreed, phl_register_tx_ring(s) PROVE IInv'
  <2>1. /\ sta[s] = "none" /\ sta' = [sta EXCEPT ![s] = "listed"] /\ tlist' = Append(tlist, s) /\ cb' = cb
        /\ UNCHANGED <<ring, sts, buf, air, plan, sched, owed, stopped, added, taken, recycled, fails>>
    BY <1>13 DEF phl_register_tx_ring
  <2>2. /\ tlist' \in Seq(Sta) /\ ToSet(tlist') = ToSet(tlist) \cup {s} /\ IsInjective(tlist')
    <3>1. tlist \in Seq(Sta) /\ s \notin ToSet(tlist) /\ IsInjective(tlist)
      BY <2>1 DEF TypeOK, PlanInv
    <3> QED
      BY <3>1, <2>1, AppendToSet
  <2>3. /\ sta' \in [Sta -> {"none", "listed", "unlinked", "deferred", "freed"}]
        /\ \A x \in Sta : sta'[x] = "freed" <=> sta[x] = "freed"
        /\ {x \in Sta : sta'[x] = "listed"} = {x \in Sta : sta[x] = "listed"} \cup {s}
    BY <2>1 DEF TypeOK
  <2>4. TypeOK'
    BY <2>1, <2>2, <2>3 DEF TypeOK, Callback
  <2>5. NoneLeaks'
    BY <2>1, <2>2, <2>3 DEF TypeOK, NoneLeaks, TurnInv
  <2>6. TurnInv'
    BY <2>1, <2>2, <2>3 DEF TypeOK, TurnInv
  <2>7. PlanInv'
    BY <2>1, <2>2, <2>3 DEF TypeOK, TurnInv, PlanInv
  <2>8. IndexInv'
    BY <2>1, <2>2, <2>3 DEF TypeOK, TurnInv, IndexInv, HandedBack
  <2>9. ReadInv'
    BY <2>1, <2>2, <2>3 DEF TypeOK, TurnInv, PlanInv, ReadInv, Avail, cur
  <2>10. ReqInv'
    BY <2>1, <2>2, <2>3 DEF ReqInv
  <2>11. RecycleInv'
    BY <1>13, <2>1, <2>3, RecycleKept
  <2> QED
    BY <2>4, <2>5, <2>6, <2>7, <2>8, <2>9, <2>10, <2>11
<1>14. ASSUME NEW s \in Sta, ~ReadsFreed, phl_deregister_tx_ring(s) PROVE IInv'
  <2>1. /\ sta[s] = "listed" /\ sta' = [sta EXCEPT ![s] = "unlinked"]
        /\ tlist' = Sublist(tlist, Positions(tlist, Sta \ {s})) /\ cb' = cb
        /\ UNCHANGED <<ring, sts, buf, air, plan, sched, owed, stopped, added, taken, recycled, fails>>
    BY <1>14 DEF phl_deregister_tx_ring
  <2>2. /\ tlist' \in Seq(Sta) /\ ToSet(tlist') = ToSet(tlist) \ {s} /\ IsInjective(tlist')
    <3> DEFINE P == Positions(tlist, Sta \ {s})
    <3>1. tlist \in Seq(Sta) /\ IsInjective(tlist)
      BY DEF TypeOK, PlanInv
    <3>2. P \in SUBSET DOMAIN tlist
      BY DEF Positions
    <3>3. /\ tlist' \in Seq(Sta) /\ ToSet(tlist') = {tlist[p] : p \in P} /\ IsInjective(tlist')
      BY <3>1, <3>2, <2>1, SublistProps
    <3>4. {tlist[p] : p \in P} = ToSet(tlist) \ {s}
      BY <3>1 DEF Positions, ToSet
    <3> QED
      BY <3>3, <3>4
  <2>3. /\ sta' \in [Sta -> {"none", "listed", "unlinked", "deferred", "freed"}]
        /\ \A x \in Sta : sta'[x] = "freed" <=> sta[x] = "freed"
        /\ {x \in Sta : sta'[x] = "listed"} = {x \in Sta : sta[x] = "listed"} \ {s}
    BY <2>1 DEF TypeOK
  <2>4. TypeOK'
    BY <2>1, <2>2, <2>3 DEF TypeOK, Callback
  <2>5. NoneLeaks'
    BY <2>1, <2>2, <2>3 DEF TypeOK, NoneLeaks, TurnInv
  <2>6. TurnInv'
    BY <2>1, <2>2, <2>3 DEF TypeOK, TurnInv
  <2>7. PlanInv'
    BY <2>1, <2>2, <2>3 DEF TypeOK, TurnInv, PlanInv
  <2>8. IndexInv'
    BY <2>1, <2>2, <2>3 DEF TypeOK, TurnInv, IndexInv, HandedBack
  <2>9. ReadInv'
    BY <2>1, <2>2, <2>3 DEF TypeOK, TurnInv, PlanInv, ReadInv, Avail, cur
  <2>10. ReqInv'
    BY <2>1, <2>2, <2>3 DEF ReqInv
  <2>11. RecycleInv'
    BY <1>14, <2>1, <2>3, RecycleKept
  <2> QED
    BY <2>4, <2>5, <2>6, <2>7, <2>8, <2>9, <2>10, <2>11
<1>15. ASSUME NEW s \in Sta, ~ReadsFreed, DeferFree(s) PROVE IInv'
  <2>1. TypeOK'
    BY <1>15 DEF DeferFree, TypeOK, Callback
  <2>2. NoneLeaks'
    BY <1>15 DEF DeferFree, TypeOK, NoneLeaks, TurnInv
  <2>3. TurnInv'
    BY <1>15 DEF DeferFree, TypeOK, TurnInv
  <2>4. PlanInv'
    BY <1>15 DEF DeferFree, TypeOK, TurnInv, PlanInv
  <2>5. IndexInv'
    BY <1>15 DEF DeferFree, TypeOK, TurnInv, IndexInv, HandedBack
  <2>6. ReadInv'
    BY <1>15 DEF DeferFree, TypeOK, TurnInv, PlanInv, ReadInv, Avail, cur
  <2>7. ReqInv'
    BY <1>15 DEF DeferFree, ReqInv
  <2>8. RecycleInv'
    <3>1. \A x \in Sta : sta'[x] = "freed" <=> sta[x] = "freed"
      BY <1>15 DEF DeferFree, TypeOK
    <3> QED
      BY <3>1, <1>15, RecycleKept DEF DeferFree, history
  <2> QED
    BY <2>1, <2>2, <2>3, <2>4, <2>5, <2>6, <2>7, <2>8
<1>16. ASSUME ~ReadsFreed, phl_datapath_stop PROVE IInv'
  <2>1. /\ phl_free_deferred_tx_ring /\ stopped' = TRUE /\ cb' = cb
        /\ UNCHANGED <<tlist, ring, sts, buf, air, plan, sched, owed, added, taken, fails>>
    BY <1>16 DEF phl_datapath_stop
  <2>3. /\ sta' \in [Sta -> {"none", "listed", "unlinked", "deferred", "freed"}]
        /\ {s \in Sta : sta'[s] = "listed"} = {s \in Sta : sta[s] = "listed"}
        /\ recycled' \in [Req -> Nat]
        /\ RecycleInv'
    BY <1>16, <2>1, FreeDeferred
  <2>4. TypeOK'
    BY <2>1, <2>3 DEF TypeOK, Callback
  <2>5. NoneLeaks'
    BY <2>1, <2>3 DEF TypeOK, NoneLeaks, TurnInv
  <2>6. TurnInv'
    BY <2>1, <2>3 DEF TypeOK, TurnInv
  <2>7. PlanInv'
    BY <2>1, <2>3 DEF TypeOK, TurnInv, PlanInv
  <2>8. IndexInv'
    BY <2>1, <2>3 DEF TypeOK, TurnInv, IndexInv, HandedBack
  <2>9. ReadInv'
    BY <2>1, <2>3 DEF TypeOK, TurnInv, PlanInv, ReadInv, Avail, cur
  <2>10. ReqInv'
    BY <2>1, <2>3 DEF ReqInv
  <2>11. RecycleInv'
    BY <2>3
  <2> QED
    BY <2>4, <2>5, <2>6, <2>7, <2>8, <2>9, <2>10, <2>11
<1>17. ASSUME NEW c \in Cat, ~ReadsFreed, rtw_usb_write_port_complete(c) PROVE IInv'
  <2>1. /\ air[c] > 0 /\ air' = [air EXCEPT ![c] = @ - 1] /\ buf' = [buf EXCEPT ![c] = @ + 1]
        /\ owed' = owed + 1 /\ cb' = cb
        /\ UNCHANGED <<sta, tlist, ring, sts, plan, sched, stopped, added, taken, recycled, fails>>
    BY <1>17 DEF rtw_usb_write_port_complete
  <2>2. /\ buf' \in [Cat -> 0..NBuf] /\ air' \in [Cat -> 0..NBuf]
        /\ \A x \in Cat : buf'[x] + air'[x]
               + (IF cb'.work # None /\ cb'.work.ring[2] = x THEN 1 ELSE 0) = NBuf
    <3>1. \A x \in Cat : /\ buf[x] \in Nat /\ air[x] \in Nat
                         /\ buf[x] + air[x] + (IF cb.work # None /\ cb.work.ring[2] = x THEN 1 ELSE 0) = NBuf
      BY DEF TypeOK, NoneLeaks
    <3>2. buf \in [Cat -> 0..NBuf] /\ air \in [Cat -> 0..NBuf]
      BY DEF TypeOK
    <3>3. ASSUME NEW x \in Cat
          PROVE /\ buf'[x] \in 0..NBuf /\ air'[x] \in 0..NBuf
                /\ buf'[x] + air'[x] + (IF cb'.work # None /\ cb'.work.ring[2] = x THEN 1 ELSE 0) = NBuf
      <4>1. CASE x = c
        BY <4>1, <3>1, <3>2, <2>1
      <4>2. CASE x # c
        BY <4>2, <3>1, <3>2, <2>1
      <4> QED
        BY <4>1, <4>2
    <3>4. buf' \in [Cat -> Int] /\ air' \in [Cat -> Int]
      BY <3>2, <2>1
    <3> QED
      BY <3>3, <3>4
  <2>3. owed' \in Nat
    BY <2>1 DEF TypeOK
  <2>4. TypeOK'
    BY <2>1, <2>2, <2>3 DEF TypeOK, Callback
  <2>5. NoneLeaks'
    BY <2>1, <2>2, <2>3 DEF TypeOK, NoneLeaks, TurnInv
  <2>6. TurnInv'
    BY <2>1, <2>2, <2>3 DEF TypeOK, TurnInv
  <2>7. PlanInv'
    BY <2>1, <2>2, <2>3 DEF TypeOK, TurnInv, PlanInv
  <2>8. IndexInv'
    BY <2>1, <2>2, <2>3 DEF TypeOK, TurnInv, IndexInv, HandedBack
  <2>9. ReadInv'
    BY <2>1, <2>2, <2>3 DEF TypeOK, TurnInv, PlanInv, ReadInv, Avail, cur
  <2>10. ReqInv'
    BY <2>1, <2>2, <2>3 DEF ReqInv
  <2>11. RecycleInv'
    BY <1>17, <2>1, <2>2, <2>3, RecycleKept
  <2> QED
    BY <2>4, <2>5, <2>6, <2>7, <2>8, <2>9, <2>10, <2>11
<1>19. ASSUME ~ReadsFreed, FailsOnFreed PROVE IInv'
  <2>1. /\ cb.pc = "submit" /\ fails' \in 0..MaxFail
        /\ cb'.pc = "oops" /\ cb'.work = cb.work /\ cb'.agg = cb.agg /\ cb' \in Callback
        /\ UNCHANGED <<sta, tlist, ring, sts, buf, air, plan, sched, owed, stopped, added, taken, recycled>>
    <3>1. cb.pc = "submit" /\ cb' = [cb EXCEPT !.pc = "oops"] /\ fails' = fails + 1 /\ fails < MaxFail
          /\ UNCHANGED <<sta, tlist, ring, sts, buf, air, plan, sched, owed, stopped, added, taken, recycled>>
      BY <1>19 DEF FailsOnFreed
    <3>2. fails' \in 0..MaxFail
      BY <3>1 DEF TypeOK
    <3>3. cb \in Callback
      BY DEF TypeOK, Callback
    <3>4. cb'.pc = "oops" /\ cb'.work = cb.work /\ cb'.agg = cb.agg /\ cb' \in Callback
      BY <3>1, <3>3 DEF Callback
    <3> QED
      BY <3>1, <3>2, <3>4
  <2>2. TypeOK'
    BY <2>1 DEF TypeOK, Callback
  <2>3. NoneLeaks'
    BY <2>1 DEF TypeOK, NoneLeaks, TurnInv
  <2>4. TurnInv'
    BY <2>1 DEF TypeOK, TurnInv
  <2>5. PlanInv'
    BY <2>1 DEF TypeOK, TurnInv, PlanInv
  <2>6. IndexInv'
    BY <2>1 DEF TypeOK, TurnInv, IndexInv, HandedBack
  <2>7. ReadInv'
    BY <2>1 DEF TypeOK, TurnInv, PlanInv, ReadInv, Avail, cur
  <2>8. ReqInv'
    BY <2>1 DEF ReqInv
  <2>9. RecycleInv'
    BY <1>19, <2>1, RecycleKept
  <2> QED
    BY <2>2, <2>3, <2>4, <2>5, <2>6, <2>7, <2>8, <2>9
<1>18. CASE UNCHANGED vars
  BY <1>18 DEF vars, TypeOK, NoneLeaks, TurnInv, PlanInv, IndexInv, ReadInv, ReqInv, RecycleInv,
     OnceInv, TwiceInv, Undercut, Freed, Avail, HandedBack, cur
<1> QED
  BY <1>1, <1>2, <1>3, <1>4, <1>5, <1>6, <1>7, <1>8, <1>9, <1>10, <1>11, <1>12, <1>13, <1>14, <1>15, <1>16, <1>17, <1>18, <1>19 DEF Next, Tasklet

(* Every reachable state satisfies it. *)
LEMMA TxInvariant == Spec => []IInv
  BY TxInit, TxStep, PTL DEF Spec

(* No buffer, no record and no ring is lost on any path of the transmit    *)
(* path, those without a buffer and with a failed transfer included.       *)
THEOREM NothingLeaks == Spec => []PoolInv
<1>1. IInv => PoolInv
  BY DEF IInv, PoolInv
<1> QED
  BY <1>1, TxInvariant, PTL

(* What the tasklet sends of a ring is what rtw_phl_add_tx_req put into    *)
(* it, in this order and without a gap, for a ring of any size.            *)
THEOREM RingInOrder == Spec => []SentInOrder
<1>1. IInv => SentInOrder
  <2> SUFFICES ASSUME IInv, NEW r \in Ring PROVE IsPrefix(taken[r], added[r])
    BY DEF SentInOrder
  <2> DEFINE t == taken[r]
             a == added[r]
  <2>1. t \in Seq(Req) /\ a \in Seq(Req)
    BY DEF IInv, TypeOK
  <2>2. Len(t) =< Len(a) /\ \A i \in 1..Len(t) : t[i] = a[i]
    BY DEF IInv, IndexInv, InOrder
  <2> HIDE DEF t, a
  <2>3. SubSeq(t, 1, Len(t)) = SubSeq(a, 1, Len(t))
    BY <2>1, <2>2
  <2>4. IsPrefix(t, a)
    BY <2>2, <2>3 DEF IsPrefix
  <2> QED
    BY <2>4 DEF t, a
<1> QED
  BY <1>1, TxInvariant, PTL

(* tx_recycle is called once for each request, whether the tasklet copied  *)
(* it or its ring was freed with it; for one it is called twice, the one   *)
(* that the tasklet has copied and not yet passed when phl_datapath_stop   *)
(* frees the ring.                                                         *)
THEOREM RecycledAtMostOnce == Spec => []RecycledOnce
<1>1. ASSUME IInv PROVE RecycledOnce
  <2> DEFINE Passed(r, i) == i =< Len(taken[r]) \/ sta[r[1]] = "freed"
             Twice(r, i) == Undercut /\ r = cb.work.ring /\ i = Len(taken[r])
  <2>1. /\ \A q \in Req : q \notin Reqs(added) => recycled[q] = 0
        /\ \A r \in Ring : \A i \in 1..Len(added[r]) :
              recycled[added[r][i]] = IF Twice(r, i) THEN 2 ELSE IF Passed(r, i) THEN 1 ELSE 0
    BY <1>1 DEF IInv, RecycleInv, OnceInv, TwiceInv
  <2>2. \A r \in Ring : \A q \in ToSet(added[r]) : \E i \in 1..Len(added[r]) : q = added[r][i]
    <3> TAKE r \in Ring
    <3>1. added[r] \in Seq(Req)
      BY <1>1 DEF IInv, TypeOK
    <3> QED
      BY <3>1 DEF ToSet
  <2>3. ASSUME NEW r \in Ring, NEW i \in 1..Len(added[r]), Twice(r, i)
        PROVE  /\ cb.pc = "recycled" /\ Freed(cb.work)
               /\ added[r][i] = Last(taken[cb.work.ring])
    <3>1. taken[r] \in Seq(Req) /\ added[r] \in Seq(Req) /\ Len(taken[r]) \in 1..Len(taken[r])
      BY <1>1, <2>3 DEF IInv, TypeOK
    <3>2. \A k \in 1..Len(taken[r]) : taken[r][k] = added[r][k]
      BY <1>1 DEF IInv, IndexInv, InOrder
    <3> QED
      BY <2>3, <3>1, <3>2 DEF Undercut, Last
  <2>4. ASSUME NEW q \in Req
        PROVE  \/ recycled[q] =< 1
               \/ /\ cb.pc = "recycled" /\ Freed(cb.work)
                  /\ q = Last(taken[cb.work.ring]) /\ recycled[q] = 2
    <3>1. CASE q \in Reqs(added)
      <4>1. PICK r \in Ring : q \in ToSet(added[r])
        BY <3>1 DEF Reqs
      <4>2. PICK i \in 1..Len(added[r]) : q = added[r][i]
        BY <4>1, <2>2
      <4>3. recycled[q] = IF Twice(r, i) THEN 2 ELSE IF Passed(r, i) THEN 1 ELSE 0
        BY <4>2, <2>1
      <4>4. CASE Twice(r, i)
        BY <4>2, <4>3, <4>4, <2>3
      <4>5. CASE ~Twice(r, i)
        <5> HIDE DEF Twice, Passed
        <5> QED
          BY <4>3, <4>5
      <4> QED
        BY <4>4, <4>5
    <3>2. CASE q \notin Reqs(added)
      BY <3>2, <2>1
    <3> QED
      BY <3>1, <3>2
  <2>5. ASSUME NEW r \in Ring, sta[r[1]] = "freed", NEW q \in ToSet(added[r])
        PROVE  recycled[q] >= 1
    <3>1. PICK i \in 1..Len(added[r]) : q = added[r][i]
      BY <2>2
    <3>2. Passed(r, i)
      BY <2>5
    <3>3. recycled[q] = IF Twice(r, i) THEN 2 ELSE IF Passed(r, i) THEN 1 ELSE 0
      BY <3>1, <2>1
    <3> HIDE DEF Twice, Passed
    <3> QED
      BY <3>2, <3>3
  <2> QED
    BY <2>4, <2>5 DEF RecycledOnce
<1> QED
  BY <1>1, TxInvariant, PTL

=============================================================================
