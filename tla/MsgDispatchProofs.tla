-------------------------- MODULE MsgDispatchProofs --------------------------
(***************************************************************************)
(* Proofs about the dispatch of a message: which modules get it, how often, *)
(* in which order, and what a completion or a cancellation means.  They    *)
(* build on the invariants of DisprMsgProofs.                              *)
(***************************************************************************)
EXTENDS DisprMsgProofs

Visit == Mdl \X BOOLEAN

(* The priorities of two visits fall, in the pre phase, or rise.           *)
Falls == {p \in Visit \X Visit : Prio[p[1][1]] >= Prio[p[2][1]]}
Rises == {p \in Visit \X Visit : Prio[p[1][1]] =< Prio[p[2][1]]}
Ordered(q, R) == \A i, j \in DOMAIN q : i < j => <<q[i], q[j]>> \in R

-----------------------------------------------------------------------------
(* The orders of the two phases. *)

(* Two lists in a row are ordered if each of them is and every node of the *)
(* first comes before every node of the second.                            *)
LEMMA ConcatOrdered ==
    ASSUME NEW S, NEW q \in Seq(S), NEW r \in Seq(S), NEW R,
           Ordered(q, R), Ordered(r, R),
           \A x \in ToSet(q), y \in ToSet(r) : <<x, y>> \in R
    PROVE  Ordered(q \o r, R)
<1> DEFINE t == q \o r
           a == Len(q)
           b == Len(r)
<1>1. a \in Nat /\ b \in Nat /\ DOMAIN q = 1..a /\ DOMAIN r = 1..b
  OBVIOUS
<1>2. DOMAIN t = 1..(a + b)
  OBVIOUS
<1>3. \A i \in 1..a : t[i] = q[i]
  OBVIOUS
<1>4. \A i \in 1..(a + b) : ~(i =< a) => i - a \in 1..b /\ t[i] = r[i - a]
  OBVIOUS
<1>5. \A i \in 1..a : q[i] \in ToSet(q)
  BY <1>1 DEF ToSet
<1>6. \A i \in 1..b : r[i] \in ToSet(r)
  BY <1>1 DEF ToSet
<1> HIDE DEF t, a, b
<1>7. SUFFICES ASSUME NEW i \in 1..(a + b), NEW j \in 1..(a + b), i < j
               PROVE  <<t[i], t[j]>> \in R
  BY <1>2 DEF Ordered, t
<1>8. CASE j =< a
  <2>1. i \in 1..a /\ j \in 1..a
    BY <1>1, <1>7, <1>8
  <2> QED
    BY <1>1, <1>3, <1>7, <2>1 DEF Ordered
<1>9. CASE i =< a /\ ~(j =< a)
  <2>1. i \in 1..a /\ j - a \in 1..b /\ t[j] = r[j - a]
    BY <1>1, <1>4, <1>9
  <2> QED
    BY <1>3, <1>5, <1>6, <2>1
<1>10. CASE ~(i =< a)
  <2>1. /\ i - a \in 1..b /\ t[i] = r[i - a]
        /\ j - a \in 1..b /\ t[j] = r[j - a]
        /\ i - a < j - a
    BY <1>1, <1>4, <1>7, <1>10
  <2> QED
    BY <1>1, <2>1 DEF Ordered
<1> QED
  BY <1>8, <1>9, <1>10

(* The visits of the modules of one priority. *)
LEMMA VisitsOf ==
    ASSUME NEW x, NEW q \in Seq(Mdl), NEW p, \A m \in ToSet(q) : Prio[m] = p
    PROVE  /\ Visits(x, q) \in Seq(Visit)
           /\ \A e \in ToSet(Visits(x, q)) : e \in Visit /\ Prio[e[1]] = p
           /\ \A m \in ToSet(q) : <<m, FALSE>> \in ToSet(Visits(x, q))
<1> DEFINE o == IF "OWNER_BK" \in x.st /\ x.kind.src \in ToSet(q)
                THEN <<<<x.kind.src, TRUE>>>> ELSE <<>>
           v == [j \in DOMAIN q |-> <<q[j], FALSE>>]
<1>1. ToSet(q) \subseteq Mdl
  BY ToSetType
<1>2. o \in Seq(Visit) /\ \A e \in ToSet(o) : e \in Visit /\ Prio[e[1]] = p
  <2>1. CASE "OWNER_BK" \in x.st /\ x.kind.src \in ToSet(q)
    <3> DEFINE e == <<x.kind.src, TRUE>>
    <3>1. e \in Visit /\ Prio[e[1]] = p
      BY <2>1, <1>1 DEF Visit
    <3>2. o = <<e>>
      BY <2>1
    <3> HIDE DEF e, o
    <3>3. <<e>> \in Seq(Visit) /\ ToSet(<<e>>) = {e}
      BY <3>1 DEF ToSet
    <3> QED
      BY <3>1, <3>2, <3>3
  <2>2. CASE ~("OWNER_BK" \in x.st /\ x.kind.src \in ToSet(q))
    <3>1. o = <<>>
      BY <2>2
    <3> HIDE DEF o
    <3> QED
      BY <3>1, EmptyQueue
  <2> QED
    BY <2>1, <2>2
<1>3. v \in Seq(Visit) /\ ToSet(v) = {<<q[j], FALSE>> : j \in DOMAIN q}
  <2> DEFINE e(j) == <<q[j], FALSE>>
  <2>1. DOMAIN q = 1..Len(q) /\ Len(q) \in Nat /\ \A j \in 1..Len(q) : q[j] \in Mdl
    OBVIOUS
  <2>2. \A j \in 1..Len(q) : e(j) \in Visit
    BY <2>1 DEF Visit
  <2>3. v = [j \in 1..Len(q) |-> e(j)]
    BY <2>1
  <2>4. ToSet(v) = {e(j) : j \in DOMAIN q}
    BY DEF ToSet
  <2> HIDE DEF e, v
  <2>5. v \in Seq(Visit)
    BY <2>1, <2>2, <2>3
  <2> QED
    BY <2>4, <2>5 DEF e
<1>4. \A m : m \in ToSet(q) <=> \E j \in DOMAIN q : q[j] = m
  BY DEF ToSet
<1>5. \A e \in ToSet(v) : e \in Visit /\ Prio[e[1]] = p
  <2> SUFFICES ASSUME NEW e \in ToSet(v) PROVE e \in Visit /\ Prio[e[1]] = p
    OBVIOUS
  <2>1. PICK j \in DOMAIN q : e = <<q[j], FALSE>>
    BY <1>3
  <2>2. q[j] \in ToSet(q) /\ e[1] = q[j]
    BY <1>4, <2>1
  <2> QED
    BY <2>1, <2>2, <1>1 DEF Visit
<1>6. \A m \in ToSet(q) : <<m, FALSE>> \in ToSet(v)
  BY <1>3, <1>4
<1>7. Visits(x, q) = o \o v
  BY DEF Visits
<1> HIDE DEF o, v
<1>8. o \o v \in Seq(Visit) /\ ToSet(o \o v) = ToSet(o) \cup ToSet(v)
  BY <1>2, <1>3, ConcatToSet
<1> QED
  BY <1>2, <1>5, <1>6, <1>7, <1>8

(* The visits of the modules of one priority, all of them. *)
Part(v, p) ==
    /\ v \in Seq(Visit)
    /\ \A e \in ToSet(v) : e \in Visit /\ Prio[e[1]] = p
    /\ \A m \in Mdl : Prio[m] = p => <<m, FALSE>> \in ToSet(v)

(* Visits of three priorities in a row: all modules are visited, and the   *)
(* priorities fall or rise as those of the parts do.                       *)
LEMMA ThreeParts ==
    ASSUME NEW a, NEW b, NEW c, NEW p \in 0..2, NEW q \in 0..2, NEW r \in 0..2,
           {p, q, r} = 0..2, Part(a, p), Part(b, q), Part(c, r)
    PROVE  LET d == (a \o b) \o c
           IN  /\ d \in Seq(Visit)
               /\ \A m \in Mdl : <<m, FALSE>> \in ToSet(d)
               /\ p > q /\ q > r => Ordered(d, Falls)
               /\ p < q /\ q < r => Ordered(d, Rises)
<1> DEFINE f == a \o b
           d == f \o c
<1>a. /\ a \in Seq(Visit) /\ b \in Seq(Visit) /\ c \in Seq(Visit)
      /\ \A e \in ToSet(a) : e \in Visit /\ Prio[e[1]] = p
      /\ \A e \in ToSet(b) : e \in Visit /\ Prio[e[1]] = q
      /\ \A e \in ToSet(c) : e \in Visit /\ Prio[e[1]] = r
      /\ \A m \in Mdl : /\ Prio[m] = p => <<m, FALSE>> \in ToSet(a)
                        /\ Prio[m] = q => <<m, FALSE>> \in ToSet(b)
                        /\ Prio[m] = r => <<m, FALSE>> \in ToSet(c)
  BY DEF Part
<1>1. f \in Seq(Visit) /\ ToSet(f) = ToSet(a) \cup ToSet(b)
  BY <1>a, ConcatToSet
<1>2. ASSUME NEW s \in Seq(Visit), NEW k \in 0..2, \A e \in ToSet(s) : e \in Visit /\ Prio[e[1]] = k
      PROVE  Ordered(s, Falls) /\ Ordered(s, Rises)
  <2>1. \A i \in DOMAIN s : s[i] \in Visit /\ Prio[s[i][1]] = k
    BY <1>2 DEF ToSet
  <2>2. \A i, j \in DOMAIN s : <<s[i], s[j]>> \in Falls /\ <<s[i], s[j]>> \in Rises
    BY <2>1 DEF Falls, Rises
  <2> QED
    BY <2>2 DEF Ordered
<1>3. \A x, y \in Visit : /\ Prio[x[1]] >= Prio[y[1]] => <<x, y>> \in Falls
                          /\ Prio[x[1]] =< Prio[y[1]] => <<x, y>> \in Rises
  BY DEF Falls, Rises
<1>4. p > q /\ q > r => Ordered(f, Falls)
  <2> SUFFICES ASSUME p > q PROVE Ordered(f, Falls)
    OBVIOUS
  <2>1. ASSUME NEW x \in ToSet(a), NEW y \in ToSet(b) PROVE <<x, y>> \in Falls
    <3>1. x \in Visit /\ y \in Visit /\ Prio[x[1]] >= Prio[y[1]]
      BY <1>a
    <3> QED
      BY <3>1, <1>3
  <2> QED
    BY <2>1, <1>2, <1>a, ConcatOrdered
<1>5. p < q /\ q < r => Ordered(f, Rises)
  <2> SUFFICES ASSUME p < q PROVE Ordered(f, Rises)
    OBVIOUS
  <2>1. ASSUME NEW x \in ToSet(a), NEW y \in ToSet(b) PROVE <<x, y>> \in Rises
    <3>1. x \in Visit /\ y \in Visit /\ Prio[x[1]] =< Prio[y[1]]
      BY <1>a
    <3> QED
      BY <3>1, <1>3
  <2> QED
    BY <2>1, <1>2, <1>a, ConcatOrdered
<1> HIDE DEF f
<1>6. d \in Seq(Visit) /\ ToSet(d) = ToSet(f) \cup ToSet(c)
  BY <1>1, <1>a, ConcatToSet
<1>7. p > q /\ q > r => Ordered(d, Falls)
  <2> SUFFICES ASSUME p > q, q > r PROVE Ordered(d, Falls)
    OBVIOUS
  <2>1. ASSUME NEW x \in ToSet(f), NEW y \in ToSet(c) PROVE <<x, y>> \in Falls
    <3>1. x \in Visit /\ y \in Visit /\ Prio[x[1]] >= Prio[y[1]]
      BY <1>1, <1>a
    <3> QED
      BY <3>1, <1>3
  <2> QED
    BY <2>1, <1>1, <1>2, <1>4, <1>a, ConcatOrdered
<1>8. p < q /\ q < r => Ordered(d, Rises)
  <2> SUFFICES ASSUME p < q, q < r PROVE Ordered(d, Rises)
    OBVIOUS
  <2>1. ASSUME NEW x \in ToSet(f), NEW y \in ToSet(c) PROVE <<x, y>> \in Rises
    <3>1. x \in Visit /\ y \in Visit /\ Prio[x[1]] =< Prio[y[1]]
      BY <1>1, <1>a
    <3> QED
      BY <3>1, <1>3
  <2> QED
    BY <2>1, <1>1, <1>2, <1>5, <1>a, ConcatOrdered
<1>9. ASSUME NEW m \in Mdl PROVE <<m, FALSE>> \in ToSet(d)
  <2>1. Prio[m] \in {p, q, r}
    BY MsgConstAssumption
  <2>2. <<m, FALSE>> \in ToSet(a) \/ <<m, FALSE>> \in ToSet(b) \/ <<m, FALSE>> \in ToSet(c)
    <3>1. /\ Prio[m] = p => <<m, FALSE>> \in ToSet(a)
          /\ Prio[m] = q => <<m, FALSE>> \in ToSet(b)
          /\ Prio[m] = r => <<m, FALSE>> \in ToSet(c)
      BY DEF Part
    <3> QED
      BY <2>1, <3>1
  <2> QED
    BY <2>2, <1>1, <1>6
<1> QED
  BY <1>6, <1>7, <1>8, <1>9 DEF f

(* msg_pre_phase_hdl visits all modules, mandatory ones first and roles    *)
(* last; msg_post_phase_hdl visits all of them the other way round.        *)
LEMMA Orders ==
    ASSUME NEW x
    PROVE  /\ PreOrder(x) \in Seq(Visit) /\ Ordered(PreOrder(x), Falls)
           /\ \A m \in Mdl : <<m, FALSE>> \in ToSet(PreOrder(x))
           /\ PostOrder(x) \in Seq(Visit) /\ Ordered(PostOrder(x), Rises)
           /\ \A m \in Mdl : <<m, FALSE>> \in ToSet(PostOrder(x))
<1> DEFINE a(i) == Visits(x, module_q(i))
           b(i) == Visits(x, Reverse(module_q(i)))
<1>1. ASSUME NEW i \in 0..2 PROVE Part(a(i), i) /\ Part(b(i), i)
  <2> DEFINE q == module_q(i)
             r == Reverse(q)
  <2>1. q \in Seq(Mdl) /\ ToSet(q) = {m \in Mdl : Prio[m] = i}
    BY ModuleQueues
  <2> HIDE DEF q
  <2>2. r \in Seq(Mdl) /\ ToSet(r) = {m \in Mdl : Prio[m] = i}
    BY <2>1, ReverseProps
  <2> HIDE DEF r
  <2>3. \A m \in ToSet(q) : Prio[m] = i
    BY <2>1
  <2>4. \A m \in ToSet(r) : Prio[m] = i
    BY <2>2
  <2>5. /\ Visits(x, q) \in Seq(Visit)
        /\ \A e \in ToSet(Visits(x, q)) : e \in Visit /\ Prio[e[1]] = i
        /\ \A m \in ToSet(q) : <<m, FALSE>> \in ToSet(Visits(x, q))
    BY <2>1, <2>3, VisitsOf
  <2>6. /\ Visits(x, r) \in Seq(Visit)
        /\ \A e \in ToSet(Visits(x, r)) : e \in Visit /\ Prio[e[1]] = i
        /\ \A m \in ToSet(r) : <<m, FALSE>> \in ToSet(Visits(x, r))
    BY <2>2, <2>4, VisitsOf
  <2> QED
    BY <2>1, <2>2, <2>5, <2>6 DEF q, r, Part
<1>2. PreOrder(x) = (a(2) \o a(1)) \o a(0) /\ PostOrder(x) = (b(0) \o b(1)) \o b(2)
  BY DEF PreOrder, PostOrder
<1> HIDE DEF a, b
<1>3. 0 \in 0..2 /\ 1 \in 0..2 /\ 2 \in 0..2 /\ {0, 1, 2} = 0..2 /\ {2, 1, 0} = 0..2
  OBVIOUS
<1> DEFINE pre == (a(2) \o a(1)) \o a(0)
           post == (b(0) \o b(1)) \o b(2)
<1>4. /\ pre \in Seq(Visit) /\ \A m \in Mdl : <<m, FALSE>> \in ToSet(pre)
      /\ Ordered(pre, Falls)
  <2>1. Part(a(2), 2) /\ Part(a(1), 1) /\ Part(a(0), 0) /\ 2 > 1 /\ 1 > 0
    BY <1>1, <1>3
  <2> QED
    BY <1>3, <2>1, ThreeParts
<1>5. /\ post \in Seq(Visit) /\ \A m \in Mdl : <<m, FALSE>> \in ToSet(post)
      /\ Ordered(post, Rises)
  <2>1. Part(b(0), 0) /\ Part(b(1), 1) /\ Part(b(2), 2) /\ 0 < 1 /\ 1 < 2
    BY <1>1, <1>3
  <2> QED
    BY <1>3, <2>1, ThreeParts
<1> HIDE DEF pre, post
<1>6. PreOrder(x) = pre /\ PostOrder(x) = post
  BY <1>2 DEF pre, post
<1> QED
  BY <1>4, <1>5, <1>6, Zenon

-----------------------------------------------------------------------------
(* The walk over the modules. *)

(* A bit of a map goes when its module has accepted the message in that    *)
(* phase, and the post phase begins with an empty premap.                  *)
MapOf(x) ==
    /\ \A m \in x.pre : <<m, "pre">> \notin x.got
    /\ \A m \in x.post : <<m, "post">> \notin x.got
    /\ x.mid # 0 /\ "PRE" \notin x.st => x.pre = {}
MapInv == \A s \in Slot : MapOf(ex[s])

(* The visits that are left are in the order of the phase, whoever is      *)
(* still to get the message is among them, and the module that is being    *)
(* fed has not had it.                                                     *)
WalkOf(b, x, loaded) ==
    /\ b.pc = "walk" => b.ph \in {"mid", "end"}
    /\ b.pc \in {"feed", "hdl"} => b.ph # "ctrl" /\ (b.todo[1][1] = Ctrl <=> b.ph = "pre")
    /\ b.pc \in {"redir", "walk", "feed", "hdl", "reqhdl"} /\ b.ph = "end" => "PRE" \notin x.st
    /\ b.pc \in {"walk", "feed", "hdl"} /\ b.ph \in {"mid", "end"} =>
        /\ "PRE" \in x.st <=> b.ph = "mid"
        /\ b.todo \in Seq(Visit)
        /\ Ordered(b.todo, IF b.ph = "mid" THEN Falls ELSE Rises)
        /\ \A m \in get_msg_bitmap(x) \cap loaded : <<m, FALSE>> \in ToSet(b.todo)
        /\ b.pc # "walk" => <<b.todo[1][1], PhaseOf(x)>> \notin x.got
WalkInv == WalkOf(bk, cur_msg, dispr.bitmap)

(* The steps that do not walk: the thread stays where it is and an entry   *)
(* is marked or filled, or the thread goes elsewhere, or it gives the      *)
(* entry back.                                                             *)
Fresh(y) == "PRE" \in y.st /\ y.got = {}
Still == /\ bk' = bk
         /\ \A t \in Slot : Same(ex[t], ex'[t]) \/ (t \in ToSet(idleQ) /\ Fresh(ex'[t]))
Elsewhere ==
    /\ Marks
    /\ bk'.pc \notin {"walk", "feed", "hdl"}
    /\ bk'.pc \in {"redir", "reqhdl"} =>
          \/ bk'.ph = "ctrl"
          \/ bk'.ph = bk.ph /\ bk'.msg = bk.msg /\ bk.pc \in {"redir", "hdl"}
GivesBack ==
    /\ bk.pc = "recyc" /\ bk.msg \in Slot
    /\ bk'.pc \notin {"redir", "walk", "feed", "hdl", "reqhdl"}
    /\ ex'[bk.msg].got = {} /\ ex'[bk.msg].mid = 0
    /\ \A t \in Slot \ {bk.msg} : ex'[t] = ex[t]
WalkSteps ==
    \/ _notify_dispr_controller \/ msg_pre_phase_hdl \/ msg_post_phase_hdl
    \/ NextModule \/ feed_mdl_msg \/ HdlOk

(* Marking an entry keeps what is known of its maps. *)
LEMMA MapKept == ASSUME NEW x, NEW y, MapOf(x), Same(x, y) PROVE MapOf(y)
  BY DEF MapOf, Same, SameFlags

(* So does it keep what is known of the walk, also when modules are unloaded. *)
LEMMA WalkKept ==
    ASSUME NEW b, NEW x, NEW y, NEW M, NEW N, N \subseteq M, WalkOf(b, x, M), Same(x, y)
    PROVE  WalkOf(b, y, N)
<1>1. /\ "PRE" \in y.st <=> "PRE" \in x.st
      /\ y.got = x.got /\ get_msg_bitmap(y) \subseteq get_msg_bitmap(x)
      /\ PhaseOf(y) = PhaseOf(x)
  BY DEF Same, SameFlags, get_msg_bitmap, PhaseOf
<1> QED
  BY <1>1 DEF WalkOf

(* Steps that leave all entries alone are marks too. *)
LEMMA UnchangedSame == ASSUME ex' = ex PROVE Marks
  BY DEF Marks, Same, SameFlags

(* The steps of the callers and of the engine. *)
LEMMA OthersStill ==
    ASSUME TypeInv, UNCHANGED bk,
           Marks \/ (/\ idleQ # <<>> /\ \E k \in Kind, own \in BOOLEAN, flags \in SUBSET {"ENQ"} :
                                             FillMsg(k, own, flags)
                     /\ hist.nmsg < MaxMsg)
    PROVE  Still
<1>1. CASE Marks
  BY <1>1 DEF Marks, Still
<1>2. CASE /\ idleQ # <<>> /\ \E k \in Kind, own \in BOOLEAN, flags \in SUBSET {"ENQ"} :
                                   FillMsg(k, own, flags)
           /\ hist.nmsg < MaxMsg
  <2> DEFINE s == Head(idleQ)
  <2>1. s \in Slot /\ s \in ToSet(idleQ)
    BY <1>2, TailToSet DEF TypeInv, TypeOK
  <2>2. PICK k \in Kind, own \in BOOLEAN, flags \in SUBSET {"ENQ"} : FillMsg(k, own, flags)
    BY <1>2
  <2>3. ex \in [Slot -> MsgEx] /\ dispr \in Dispatcher /\ hist \in History
    BY DEF TypeInv, TypeOK
  <2>4. s = Head(idleQ)
    OBVIOUS
  <2> HIDE DEF s
  <2>5. "PRE" \in ex'[s].st /\ ex'[s].got = {} /\ \A t \in Slot \ {s} : ex'[t] = ex[t]
    BY <1>2, <2>1, <2>2, <2>3, <2>4, Filled
  <2> QED
    BY <2>1, <2>5 DEF Still, Fresh, Same, SameFlags
<1> QED
  BY <1>1, <1>2

(* Every step is one of these. *)
LEMMA WalkOrNot ==
    ASSUME TypeInv, [Next]_vars
    PROVE  Still \/ Elsewhere \/ GivesBack \/ WalkSteps
<1>b. bk \in BkState /\ ex \in [Slot -> MsgEx] /\ snd \in [Sender -> SndState]
  BY DEF TypeInv, TypeOK
<1>c. Kinds \subseteq Kind
  BY MsgConstAssumption
<1>1. ASSUME NEW c \in Sender, CallerEnters(c) PROVE Still
  <2>1. ex' = ex /\ UNCHANGED bk
    BY <1>1 DEF CallerEnters, Send, dispr_cancel_msg, ClrPending, dispr_notify_dev_io_status
  <2> QED
    BY <2>1, UnchangedSame, OthersStill
<1>2. ASSUME NEW c \in Sender, CallerGoesOn(c) PROVE Still
  <2>u. UNCHANGED bk
    BY <1>2 DEF CallerGoesOn, PopIdle, NoIdleMsg, push_back_wait_msg, notify_bk_thread, cancel_msg,
                dispr_clr_pending_msg, send_dev_io_status_change
  <2>1. CASE PopIdle(c)
    <3>1. idleQ # <<>> /\ hist.nmsg < MaxMsg /\ FillMsg(snd[c].kind, snd[c].own, {})
      BY <2>1 DEF PopIdle
    <3>2. snd[c].kind \in Kind /\ snd[c].own \in BOOLEAN /\ {} \in SUBSET {"ENQ"}
      BY <1>b DEF SndState
    <3> QED
      BY <2>u, <3>1, <3>2, OthersStill
  <2>2. CASE push_back_wait_msg(c)
    BY <2>u, <2>2, PlainSteps, MarksKeep, OthersStill
  <2>3. CASE cancel_msg(c)
    BY <2>u, <2>3, CancelMarks, OthersStill
  <2>4. CASE \/ NoIdleMsg(c) \/ notify_bk_thread(c) \/ dispr_clr_pending_msg(c)
             \/ send_dev_io_status_change(c)
    <3>1. ex' = ex
      BY <2>4 DEF NoIdleMsg, notify_bk_thread, dispr_clr_pending_msg, send_dev_io_status_change
    <3> QED
      BY <2>u, <3>1, UnchangedSame, OthersStill
  <2> QED
    BY <1>2, <2>1, <2>2, <2>3, <2>4 DEF CallerGoesOn
<1>3. CASE TokenCall
  <2>1. ex' = ex /\ UNCHANGED bk
    BY <1>3 DEF TokenCall
  <2> QED
    BY <2>1, UnchangedSame, OthersStill
<1>4. CASE StopGoesOn
  <2>1. UNCHANGED bk
    BY <1>4 DEF StopGoesOn, dispr_module_stop, StopPrior, cancel_running_msg, ThreadStop, StopPost
  <2>2. CASE cancel_running_msg
    BY <2>1, <2>2, PlainSteps, MarksKeep, OthersStill
  <2>3. CASE ~cancel_running_msg
    <3>1. ex' = ex
      BY <1>4, <2>3 DEF StopGoesOn, dispr_module_stop, StopPrior, ThreadStop, StopPost
    <3> QED
      BY <2>1, <3>1, UnchangedSame, OthersStill
  <2> QED
    BY <2>2, <2>3
<1>5. ASSUME ex' = ex, \E p \in BkPc \ {"walk", "feed", "hdl", "redir", "reqhdl"} : bk'.pc = p
      PROVE  Elsewhere
  BY <1>5, UnchangedSame DEF Elsewhere
<1>6. CASE \/ share_thread_hdl \/ clear_pending_msg \/ dispr_process_token_req
           \/ register_cur_cmd_req \/ LastPermit \/ AbortReturns \/ Recycled
           \/ ReqHdlReturns \/ Completion \/ dispr_thread_leave_hdl
  <2>1. ex' = ex
    BY <1>6 DEF share_thread_hdl, clear_pending_msg, dispr_process_token_req,
       register_cur_cmd_req, LastPermit, AbortReturns, Recycled, ReqHdlReturns, Completion,
       dispr_thread_leave_hdl
  <2> DEFINE P == {"leave", "clr", "clrloop", "ops", "acq", "dereg", "clrmsg", "proc", "abort",
                   "compl", "recyc"}
  <2>a. \A p \in P : bk' = [bk EXCEPT !.pc = p] => bk'.pc \in P
    BY <1>b DEF BkState
  <2>b. ASSUME share_thread_hdl \/ Recycled \/ ReqHdlReturns \/ Completion PROVE bk'.pc \in P
    <3>1. \E p \in P : bk' = [bk EXCEPT !.pc = p]
      BY <2>b DEF share_thread_hdl, Recycled, ReqHdlReturns, Completion, Goto
    <3> QED
      BY <2>a, <3>1
  <2>c. ASSUME LastPermit \/ AbortReturns PROVE bk'.pc \in P
    <3>1. \E p \in P : bk' = [bk EXCEPT !.pc = p]
      BY <2>c DEF LastPermit, AbortReturns, Goto, DropToken, AfterDereg
    <3> QED
      BY <2>a, <3>1
  <2>d. ASSUME clear_pending_msg \/ dispr_thread_leave_hdl PROVE bk'.pc \in P
    BY <2>d, <1>b DEF clear_pending_msg, dispr_thread_leave_hdl, BkState
  <2>e. ASSUME dispr_process_token_req \/ register_cur_cmd_req PROVE bk'.pc \in P
    BY <2>e, <1>b DEF dispr_process_token_req, register_cur_cmd_req, Goto, BkState
  <2>2. bk'.pc \in BkPc \ {"walk", "feed", "hdl", "redir", "reqhdl"}
    BY <1>6, <2>b, <2>c, <2>d, <2>e DEF BkPc
  <2> QED
    BY <1>5, <2>1, <2>2
<1>7. CASE RequeuePending \/ token_op_hanler
  <2>1. ex' = ex
    BY <1>7 DEF RequeuePending, token_op_hanler
  <2>2. bk' = bk \/ bk'.pc \in BkPc \ {"walk", "feed", "hdl", "redir", "reqhdl"}
    BY <1>7, <1>b DEF RequeuePending, token_op_hanler, Goto, BkState, BkPc
  <2> QED
    BY <1>5, <2>1, <2>2, UnchangedSame, OthersStill
<1>8. CASE deregister_cur_cmd_req \/ push_back_pending_msg \/ dispr_thread_loop_hdl
  <2>1. Marks
    BY <1>8, PlainSteps, MarksKeep
  <2> DEFINE away == bk'.pc \in BkPc \ {"walk", "feed", "hdl", "redir", "reqhdl"}
  <2>a. ASSUME deregister_cur_cmd_req PROVE away
    <3>1. \/ \E p \in {"clrmsg", "proc"} : bk' = [bk EXCEPT !.pc = p]
          \/ \E p \in {"permit", "clrloop"} : bk' = [bk EXCEPT !.pc = p, !.next = "permit"]
      BY <2>a DEF deregister_cur_cmd_req, Goto, AfterDereg
    <3> QED
      BY <3>1, <1>b DEF BkState, BkPc
  <2>b. ASSUME push_back_pending_msg PROVE away
    BY <2>b, <1>b DEF push_back_pending_msg, LoopTop, BkState, BkPc
  <2>c. ASSUME dispr_thread_loop_hdl PROVE away
    BY <2>c, <1>b DEF dispr_thread_loop_hdl, Goto, LoopTop, BkState, BkPc
  <2>2. bk'.pc \in BkPc \ {"walk", "feed", "hdl", "redir", "reqhdl"}
    BY <1>8, <2>a, <2>b, <2>c
  <2> QED
    BY <2>1, <2>2 DEF Elsewhere
<1>9. CASE clear_waiting_msg
  <2>1. Marks
    BY <1>9, PlainSteps, MarksKeep
  <2>2. bk' = bk \/ bk'.pc \in BkPc \ {"walk", "feed", "hdl", "redir", "reqhdl"}
    BY <1>9, <1>b DEF clear_waiting_msg, Goto, BkState, BkPc
  <2> QED
    BY <2>1, <2>2, OthersStill DEF Elsewhere
<1>10. CASE notify_msg_fail \/ HdlPends
  <2>1. Marks
    BY <1>10, PlainSteps, MarksKeep
  <2>2. bk'.pc = "redir" /\ bk'.ph = bk.ph /\ bk'.msg = bk.msg /\ bk.pc = "hdl"
    BY <1>10, <1>b DEF notify_msg_fail, HdlPends, HdlStops, BkState
  <2> QED
    BY <2>1, <2>2 DEF Elsewhere
<1>11. CASE CheckMsg
  BY <1>11, CheckMarks DEF Elsewhere
<1>12. CASE cur_req_hdl
  <2>1. Marks /\ bk'.pc \in {"reqhdl", "compl"}
    BY <1>12, ReqMarks
  <2>2. bk'.ph = bk.ph /\ bk'.msg = bk.msg /\ bk.pc = "redir"
    BY <1>12, <1>b DEF cur_req_hdl, NextPart, InvalidBitmap, Goto, BkState
  <2> QED
    BY <2>1, <2>2 DEF Elsewhere
<1>13. CASE AbortSends
  <2>1. /\ UNCHANGED bk /\ idleQ # <<>> /\ hist.nmsg < MaxMsg
        /\ \E k \in Kinds : FillMsg(k, FALSE, {"ENQ"})
    BY <1>13 DEF AbortSends
  <2>2. FALSE \in BOOLEAN /\ {"ENQ"} \in SUBSET {"ENQ"}
    OBVIOUS
  <2> QED
    BY <2>1, <2>2, <1>c, OthersStill
<1>14. CASE push_back_idle_msg
  <2>1. bk.pc = "recyc" /\ bk.msg \in Slot
    BY <1>14, <1>b DEF push_back_idle_msg, Recycle, TypeInv, HandInv, InHand, BkState
  <2> DEFINE y == [ex[bk.msg] EXCEPT !.st = {}, !.mid = 0, !.kind = Blank,
                                     !.want = {}, !.got = {}]
  <2>2. ex' = [ex EXCEPT ![bk.msg] = y]
    BY <1>14 DEF push_back_idle_msg, Recycle
  <2>3. y.got = {} /\ y.mid = 0
    BY <1>b, <2>1 DEF MsgEx
  <2> HIDE DEF y
  <2>4. bk'.pc \notin {"redir", "walk", "feed", "hdl", "reqhdl"}
    BY <1>14, <1>b DEF push_back_idle_msg, Recycle, LoopTop, BkState
  <2> QED
    BY <2>1, <2>2, <2>3, <2>4, <1>b DEF GivesBack
<1>15. CASE UNCHANGED vars
  <2>1. ex' = ex /\ UNCHANGED bk
    BY <1>15 DEF vars
  <2> QED
    BY <2>1, UnchangedSame, OthersStill
<1> QED
  BY <1>1, <1>2, <1>3, <1>4, <1>6, <1>7, <1>8, <1>9, <1>10, <1>11, <1>12, <1>13, <1>14, <1>15
     DEF Next, Background, WalkSteps

(* Nothing is said of a thread that is not in msg_dispatch. *)
LEMMA WalkAway ==
    ASSUME NEW b, NEW x, NEW M, b.pc \notin {"redir", "walk", "feed", "hdl", "reqhdl"}
    PROVE  WalkOf(b, x, M)
  BY DEF WalkOf

(* A phase begins: all modules are to be visited, in the order of the phase. *)
LEMMA WalkBegins ==
    ASSUME NEW b, NEW x, NEW M \in SUBSET Mdl, b.pc = "walk",
           \/ b.ph = "mid" /\ "PRE" \in x.st /\ \E y : b.todo = PreOrder(y)
           \/ b.ph = "end" /\ "PRE" \notin x.st /\ \E y : b.todo = PostOrder(y)
    PROVE  WalkOf(b, x, M)
<1>1. /\ b.todo \in Seq(Visit)
      /\ Ordered(b.todo, IF b.ph = "mid" THEN Falls ELSE Rises)
      /\ \A m \in Mdl : <<m, FALSE>> \in ToSet(b.todo)
  BY Orders
<1> QED
  BY <1>1 DEF WalkOf

(* The walk goes on to the next module whose bit is set. *)
LEMMA WalkGoesOn ==
    ASSUME TypeInv, MapInv, WalkInv, NextModule
    PROVE  WalkOf(bk', cur_msg, dispr.bitmap)
<1>1. bk \in BkState /\ bk.pc = "walk" /\ bk.ph \in {"mid", "end"} /\ bk.msg \in Slot
  BY DEF TypeInv, TypeOK, HandInv, InHand, NextModule, BkState, WalkInv, WalkOf
<1>2. CASE ToFeed = {}
  <2>1. bk' = [bk EXCEPT !.pc = "redir", !.todo = <<>>]
    BY <1>2 DEF NextModule
  <2>2. bk'.pc = "redir" /\ bk'.ph = bk.ph
    BY <1>1, <2>1 DEF BkState
  <2> QED
    BY <1>1, <2>2 DEF WalkInv, WalkOf
<1>3. CASE ToFeed # {}
  <2> DEFINE n == Min(ToFeed)
             q == bk.todo
             r == SubSeq(q, n, Len(q))
             x == cur_msg
             R == IF bk.ph = "mid" THEN Falls ELSE Rises
  <2>1. bk' = [bk EXCEPT !.pc = "feed", !.todo = r]
    BY <1>3 DEF NextModule
  <2>2. q \in Seq((Mdl \cup {Ctrl}) \X BOOLEAN) /\ q \in Seq(Visit) /\ Ordered(q, R)
    BY <1>1 DEF BkState, WalkInv, WalkOf
  <2>3. /\ n \in ToFeed /\ n \in 1..Len(q) /\ \A i \in ToFeed : n =< i
        /\ Len(r) = Len(q) - n + 1 /\ \A i \in 1..Len(r) : r[i] = q[n + i - 1]
    BY <1>3, <2>2, RestToFeed
  <2>4. \A m \in get_msg_bitmap(x) \cap dispr.bitmap : <<m, FALSE>> \in ToSet(q)
    BY <1>1 DEF WalkInv, WalkOf
  <2>5. \A i : i \in ToFeed <=> /\ i \in DOMAIN q /\ q[i][1] \in get_msg_bitmap(x)
                                /\ q[i][2] \/ q[i][1] \in dispr.bitmap
    BY DEF ToFeed
  <2>6. "PRE" \in x.st <=> bk.ph = "mid"
    BY <1>1 DEF WalkInv, WalkOf
  <2>7. bk'.pc = "feed" /\ bk'.ph = bk.ph /\ bk'.todo = r
    <3> HIDE DEF r
    <3> QED
      BY <1>1, <2>1 DEF BkState
  <2>8. DOMAIN q = 1..Len(q) /\ Len(q) \in Nat
    BY <2>2
  <2>9. r \in Seq(Visit)
    <3>1. n \in 1..Len(q)
      BY <2>3
    <3> HIDE DEF n, q
    <3> QED
      BY <2>2, <3>1
  <2>10. DOMAIN r = 1..Len(r) /\ Len(r) \in Nat
    <3> HIDE DEF r
    <3> QED
      BY <2>9
  <2>11. MapOf(x)
    BY <1>1 DEF MapInv, cur_msg
  <2> HIDE DEF n, q, r, x, R
  <2>12. Ordered(r, R)
    <3> SUFFICES ASSUME NEW i \in 1..Len(r), NEW j \in 1..Len(r), i < j PROVE <<r[i], r[j]>> \in R
      BY <2>10 DEF Ordered
    <3>1. /\ n + i - 1 \in 1..Len(q) /\ n + j - 1 \in 1..Len(q) /\ n + i - 1 < n + j - 1
      BY <2>3, <2>8, <2>10
    <3>2. <<q[n + i - 1], q[n + j - 1]>> \in R
      BY <2>2, <2>8, <3>1 DEF Ordered
    <3> QED
      BY <2>3, <3>2
  <2>13. ASSUME NEW m \in get_msg_bitmap(x) \cap dispr.bitmap PROVE <<m, FALSE>> \in ToSet(r)
    <3>1. PICK i \in DOMAIN q : q[i] = <<m, FALSE>>
      BY <2>4 DEF ToSet
    <3>2. i \in ToFeed
      BY <2>5, <3>1
    <3>3. i - n + 1 \in 1..Len(r) /\ n + (i - n + 1) - 1 = i
      BY <2>3, <2>8, <3>1, <3>2
    <3>4. r[i - n + 1] = q[i]
      BY <2>3, <3>3
    <3> QED
      BY <2>10, <3>1, <3>3, <3>4 DEF ToSet
  <2>14. r[1] = q[n] /\ q[n] \in Visit /\ q[n][1] \in Mdl
    <3>1. 1 \in 1..Len(r) /\ n + 1 - 1 = n /\ n \in 1..Len(q)
      BY <2>3, <2>8
    <3>2. q[n] \in Visit
      BY <2>2, <3>1
    <3> QED
      BY <2>3, <3>1, <3>2 DEF Visit
  <2>15. r[1][1] # Ctrl
    BY <2>14, MsgConstAssumption
  <2>16. <<r[1][1], PhaseOf(x)>> \notin x.got
    <3>1. r[1][1] \in get_msg_bitmap(x)
      BY <2>3, <2>5, <2>14
    <3> QED
      BY <3>1, <2>11 DEF MapOf, get_msg_bitmap, PhaseOf
  <2>17. WalkOf(bk', x, dispr.bitmap)
    BY <1>1, <2>6, <2>7, <2>9, <2>12, <2>13, <2>15, <2>16 DEF WalkOf, R
  <2> QED
    BY <2>17 DEF x
<1> QED
  BY <1>2, <1>3

(* What is left of an ordered list is ordered. *)
LEMMA TailOrdered ==
    ASSUME NEW S, NEW q \in Seq(S), q # <<>>, NEW R, Ordered(q, R)
    PROVE  Ordered(Tail(q), R)
<1> DEFINE r == Tail(q)
           n == Len(q)
<1>1. n \in Nat /\ DOMAIN q = 1..n /\ DOMAIN r = 1..(n - 1) /\ \A i \in 1..(n - 1) : r[i] = q[i + 1]
  OBVIOUS
<1> HIDE DEF r, n
<1> SUFFICES ASSUME NEW i \in 1..(n - 1), NEW j \in 1..(n - 1), i < j PROVE <<r[i], r[j]>> \in R
  BY <1>1 DEF Ordered, r
<1>2. i + 1 \in 1..n /\ j + 1 \in 1..n /\ i + 1 < j + 1
  BY <1>1
<1> QED
  BY <1>1, <1>2 DEF Ordered

(* A module accepts the message: its bit is cleared, and the walk goes on  *)
(* without it.                                                             *)
LEMMA WalkAccepts ==
    ASSUME TypeInv, MapInv, WalkInv, HdlOk
    PROVE  /\ bk.msg \in Slot /\ bk'.msg = bk.msg /\ OthersSame(bk.msg)
           /\ MapOf(ex'[bk.msg])
           /\ WalkOf(bk', ex'[bk.msg], dispr.bitmap)
<1> DEFINE x == cur_msg
           y == ClearBit(cur_msg)
           q == bk.todo
           R == IF bk.ph = "mid" THEN Falls ELSE Rises
<1>1. /\ bk \in BkState /\ bk.pc = "hdl" /\ bk.msg \in Slot /\ q # <<>>
      /\ ex \in [Slot -> MsgEx] /\ x \in MsgEx
  BY DEF TypeInv, TypeOK, HandInv, InHand, HdlOk, BkState, cur_msg
<1>2. q \in Seq((Mdl \cup {Ctrl}) \X BOOLEAN) /\ Fed = Head(q)[1]
  BY <1>1 DEF BkState, Fed
<1> DEFINE V == (Mdl \cup {Ctrl}) \X BOOLEAN
<1>3. Head(q) \in V /\ Head(q) = q[1]
  <2>1. q \in Seq(V)
    BY <1>2
  <2> HIDE DEF V, q
  <2> QED
    BY <1>1, <2>1
<1>4. Fed \in Source /\ Fed = q[1][1]
  BY <1>2, <1>3 DEF Source
<1>5. /\ y.st = x.st /\ y.mid = x.mid /\ y.got = x.got \cup {<<Fed, PhaseOf(x)>>}
      /\ y.pre = IF "PRE" \in x.st THEN x.pre \ {Fed} ELSE x.pre
      /\ y.post = IF "PRE" \in x.st THEN x.post ELSE x.post \ {Fed}
  BY <1>1, <1>4, Accepted
<1>6. ex' = [ex EXCEPT ![bk.msg] = y]
  BY DEF HdlOk, cur_msg
<1>7. bk' = [bk EXCEPT !.pc = IF Fed = Ctrl THEN "redir" ELSE "walk", !.todo = Tail(q)]
  BY DEF HdlOk
<1>8. MapOf(x)
  BY <1>1 DEF MapInv, cur_msg
<1>9. WalkOf(bk, x, dispr.bitmap)
  BY DEF WalkInv
<1> HIDE DEF x, y, q, R, V
<1>10. ex'[bk.msg] = y /\ OthersSame(bk.msg)
  BY <1>1, <1>6 DEF OthersSame
<1>11. MapOf(y)
  BY <1>5, <1>8 DEF MapOf, PhaseOf
<1>12. /\ bk'.pc = IF Fed = Ctrl THEN "redir" ELSE "walk"
       /\ bk'.todo = Tail(q) /\ bk'.ph = bk.ph /\ bk'.msg = bk.msg
  BY <1>1, <1>7 DEF BkState
<1>13. bk.ph # "ctrl" /\ (Fed = Ctrl <=> bk.ph = "pre") /\ bk.ph \in {"ctrl", "pre", "mid", "end"}
  BY <1>1, <1>4, <1>9 DEF WalkOf, BkState, q
<1>14. WalkOf(bk', y, dispr.bitmap)
  <2>1. CASE Fed = Ctrl
    BY <1>12, <1>13, <2>1 DEF WalkOf
  <2>2. CASE Fed # Ctrl
    <3>1. bk.ph \in {"mid", "end"}
      BY <1>13, <2>2
    <3>2. /\ "PRE" \in x.st <=> bk.ph = "mid"
          /\ q \in Seq(Visit) /\ Ordered(q, R)
          /\ \A m \in get_msg_bitmap(x) \cap dispr.bitmap : <<m, FALSE>> \in ToSet(q)
          /\ bk.ph = "end" => "PRE" \notin x.st
      BY <1>1, <1>9, <3>1 DEF WalkOf, q, R
    <3>3. Tail(q) \in Seq(Visit) /\ ToSet(q) = ToSet(Tail(q)) \cup {q[1]}
      BY <1>1, <1>3, <3>2, TailToSet
    <3>4. Ordered(Tail(q), R)
      BY <1>1, <3>2, TailOrdered
    <3>5. get_msg_bitmap(y) = get_msg_bitmap(x) \ {Fed}
      BY <1>5 DEF get_msg_bitmap
    <3>6. ASSUME NEW m \in get_msg_bitmap(y) \cap dispr.bitmap PROVE <<m, FALSE>> \in ToSet(Tail(q))
      <4>1. m \in get_msg_bitmap(x) \cap dispr.bitmap /\ m # q[1][1]
        BY <1>4, <3>5
      <4>2. <<m, FALSE>> \in ToSet(q)
        BY <4>1, <3>2
      <4>3. <<m, FALSE>> # q[1]
        <5>1. <<m, FALSE>>[1] = m
          OBVIOUS
        <5> QED
          BY <4>1, <5>1
      <4> QED
        BY <4>2, <4>3, <3>3
    <3> QED
      BY <1>5, <1>12, <2>2, <3>1, <3>2, <3>3, <3>4, <3>6 DEF WalkOf, R
  <2> QED
    BY <2>1, <2>2
<1> QED
  BY <1>1, <1>10, <1>11, <1>12, <1>14

(* Every step keeps the maps and the walk. *)
LEMMA HandStep ==
    ASSUME MsgIInv, MsgIInv', Bystanders, MapInv, WalkInv, [Next]_vars
    PROVE  MapInv' /\ WalkInv'
<1>1. /\ TypeInv /\ bk \in BkState /\ ex \in [Slot -> MsgEx] /\ dispr \in Dispatcher
      /\ bk' \in BkState
  BY DEF MsgIInv, TypeInv, TypeOK
<1>2. bk.pc \in InHand => bk.msg \in Slot
  BY <1>1 DEF TypeInv, HandInv, BkState
<1>3. dispr'.bitmap \subseteq dispr.bitmap
  BY DEF Bystanders, UpStep
<1>4. bk.msg \notin ToSet(idleQ)
  BY DEF MsgIInv, PlaceInv, Linked
<1>5. (MapInv)' <=> \A s \in Slot : MapOf(ex'[s])
  BY DEF MapInv, MapOf
<1>6. WalkInv' <=> WalkOf(bk', ex'[bk'.msg], dispr'.bitmap)
  BY DEF WalkInv, cur_msg, WalkOf, get_msg_bitmap, PhaseOf
<1>7. \A s \in Slot : MapOf(ex[s])
  BY DEF MapInv
<1>8. CASE Still
  <2>1. \A t \in Slot : MapOf(ex'[t])
    <3> SUFFICES ASSUME NEW t \in Slot PROVE MapOf(ex'[t])
      OBVIOUS
    <3>1. CASE Same(ex[t], ex'[t])
      BY <1>7, <3>1, MapKept
    <3>2. CASE Fresh(ex'[t])
      BY <3>2 DEF Fresh, MapOf
    <3> QED
      BY <1>8, <3>1, <3>2 DEF Still
  <2>2. WalkOf(bk, ex'[bk.msg], dispr'.bitmap)
    <3>1. CASE bk.pc \in InHand
      <4>1. Same(ex[bk.msg], ex'[bk.msg])
        BY <1>2, <1>4, <1>8, <3>1 DEF Still
      <4>2. WalkOf(bk, ex[bk.msg], dispr.bitmap)
        BY DEF WalkInv, cur_msg
      <4> QED
        BY <1>3, <4>1, <4>2, WalkKept
    <3>2. CASE bk.pc \notin InHand
      BY <3>2, WalkAway DEF InHand
    <3> QED
      BY <3>1, <3>2
  <2> QED
    BY <1>5, <1>6, <1>8, <2>1, <2>2 DEF Still
<1>9. CASE Elsewhere
  <2>1. \A t \in Slot : MapOf(ex'[t])
    BY <1>7, <1>9, MapKept DEF Elsewhere, Marks
  <2>2. WalkOf(bk', ex'[bk'.msg], dispr'.bitmap)
    <3>1. CASE bk'.pc \in {"redir", "reqhdl"} /\ bk'.ph = "end"
      <4>1. bk'.msg = bk.msg /\ bk.pc \in {"redir", "hdl"} /\ bk.ph = "end"
        BY <1>9, <3>1 DEF Elsewhere
      <4>2. "PRE" \notin ex[bk.msg].st
        BY <4>1 DEF WalkInv, WalkOf, cur_msg
      <4>3. Same(ex[bk.msg], ex'[bk.msg])
        BY <1>2, <1>9, <4>1 DEF Elsewhere, Marks, InHand
      <4> QED
        BY <3>1, <4>1, <4>2, <4>3 DEF WalkOf, Same, SameFlags
    <3>2. CASE ~(bk'.pc \in {"redir", "reqhdl"} /\ bk'.ph = "end")
      BY <1>9, <3>2 DEF Elsewhere, WalkOf
    <3> QED
      BY <3>1, <3>2
  <2> QED
    BY <1>5, <1>6, <2>1, <2>2
<1>10. CASE GivesBack
  <2>1. \A t \in Slot : MapOf(ex'[t])
    <3> SUFFICES ASSUME NEW t \in Slot PROVE MapOf(ex'[t])
      OBVIOUS
    <3>1. CASE t = bk.msg
      BY <1>10, <3>1 DEF GivesBack, MapOf
    <3>2. CASE t # bk.msg
      BY <1>7, <1>10, <3>2 DEF GivesBack
    <3> QED
      BY <3>1, <3>2
  <2>2. WalkOf(bk', ex'[bk'.msg], dispr'.bitmap)
    BY <1>10, WalkAway DEF GivesBack
  <2> QED
    BY <1>5, <1>6, <2>1, <2>2
<1>11. CASE _notify_dispr_controller
  <2>1. ex' = ex /\ bk.pc = "redir"
    BY <1>11 DEF _notify_dispr_controller, NextPart
  <2> DEFINE o == <<<<Ctrl, TRUE>>>>
  <2>2. o[1][1] = Ctrl
    OBVIOUS
  <2>3. \/ bk' = [bk EXCEPT !.pc = "feed", !.ph = "pre", !.todo = o]
        \/ bk' = [bk EXCEPT !.ph = "pre"]
    BY <1>11 DEF _notify_dispr_controller
  <2> HIDE DEF o
  <2>4. \/ bk'.pc = "feed" /\ bk'.ph = "pre" /\ bk'.todo = o
        \/ bk'.pc = "redir" /\ bk'.ph = "pre"
    BY <1>1, <2>1, <2>3 DEF BkState
  <2>5. WalkOf(bk', ex'[bk'.msg], dispr'.bitmap)
    BY <2>2, <2>4 DEF WalkOf
  <2> QED
    BY <1>5, <1>6, <1>7, <2>1, <2>5
<1>12. CASE msg_pre_phase_hdl
  <2>1. ex' = ex /\ bk.pc = "redir" /\ dispr' = dispr
    BY <1>12 DEF msg_pre_phase_hdl, NextPart
  <2> DEFINE o == PreOrder(cur_msg)
  <2>2. \/ "PRE" \in cur_msg.st /\ bk' = [bk EXCEPT !.pc = "walk", !.ph = "mid", !.todo = o]
        \/ bk' = [bk EXCEPT !.ph = "mid"]
    BY <1>12 DEF msg_pre_phase_hdl, Has
  <2>3. o = PreOrder(cur_msg)
    OBVIOUS
  <2> HIDE DEF o
  <2>4. \/ /\ "PRE" \in ex[bk'.msg].st /\ bk'.pc = "walk" /\ bk'.ph = "mid"
           /\ bk'.todo = o
        \/ bk'.pc = "redir" /\ bk'.ph = "mid"
    BY <1>1, <2>1, <2>2 DEF BkState, cur_msg
  <2>5. dispr.bitmap \in SUBSET Mdl
    BY <1>1 DEF Dispatcher
  <2>6. WalkOf(bk', ex'[bk'.msg], dispr'.bitmap)
    <3>1. CASE bk'.pc = "walk"
      BY <2>1, <2>3, <2>4, <2>5, <3>1, WalkBegins
    <3>2. CASE bk'.pc = "redir" /\ bk'.ph = "mid"
      BY <3>2 DEF WalkOf
    <3> QED
      BY <2>4, <3>1, <3>2
  <2> QED
    BY <1>5, <1>6, <1>7, <2>1, <2>6
<1>13. CASE msg_post_phase_hdl
  <2>1. bk.pc = "redir" /\ dispr' = dispr /\ bk.msg \in Slot
    BY <1>2, <1>13 DEF msg_post_phase_hdl, NextPart, InHand
  <2>2. dispr.bitmap \in SUBSET Mdl /\ ex[bk.msg] \in MsgEx
    BY <1>1, <2>1 DEF Dispatcher
  <2>3. CASE InvalidBitmap
    <3> DEFINE f == ex[bk.msg].st \cup {"CANCEL"}
    <3>1. f \in SUBSET Flag /\ SameFlags(ex[bk.msg].st, f)
      BY <2>2 DEF MsgEx, Flag, SameFlags
    <3>2. ex' = [ex EXCEPT ![bk.msg].st = f] /\ bk' = [bk EXCEPT !.pc = "compl"]
      BY <2>3 DEF InvalidBitmap, Goto
    <3> HIDE DEF f
    <3>3. Marks
      BY <1>1, <2>1, <3>1, <3>2, Flagged
    <3>4. \A t \in Slot : MapOf(ex'[t])
      BY <1>7, <3>3, MapKept DEF Marks
    <3>5. bk'.pc = "compl"
      BY <1>1, <3>2 DEF BkState
    <3> QED
      BY <1>5, <1>6, <3>4, <3>5, WalkAway
  <2>4. CASE /\ get_msg_bitmap(cur_msg) = {}
             /\ ex' = [ex EXCEPT ![bk.msg].st = @ \ {"PRE"}]
             /\ bk' = IF cur_msg.post # {}
                      THEN [bk EXCEPT !.pc = "walk", !.ph = "end", !.todo = PostOrder(cur_msg)]
                      ELSE [bk EXCEPT !.ph = "end"]
    <3> DEFINE y == [ex[bk.msg] EXCEPT !.st = ex[bk.msg].st \ {"PRE"}]
               o == PostOrder(cur_msg)
    <3>1. /\ y.st = ex[bk.msg].st \ {"PRE"} /\ y.mid = ex[bk.msg].mid /\ y.got = ex[bk.msg].got
          /\ y.pre = ex[bk.msg].pre /\ y.post = ex[bk.msg].post
      BY <2>2 DEF MsgEx
    <3>2. ex' = [ex EXCEPT ![bk.msg] = y]
      BY <2>4
    <3>3. \/ bk' = [bk EXCEPT !.pc = "walk", !.ph = "end", !.todo = o]
          \/ bk' = [bk EXCEPT !.ph = "end"]
      BY <2>4
    <3>4. o = PostOrder(cur_msg)
      OBVIOUS
    <3> HIDE DEF y, o
    <3>5. MapOf(y)
      BY <1>7, <2>1, <2>4, <3>1 DEF MapOf, get_msg_bitmap, cur_msg
    <3>6. \A t \in Slot : MapOf(ex'[t])
      BY <1>1, <1>7, <3>2, <3>5
    <3>7. /\ bk'.msg = bk.msg /\ bk'.ph = "end"
          /\ bk'.pc = "redir" \/ (bk'.pc = "walk" /\ bk'.todo = o)
      BY <1>1, <2>1, <3>3 DEF BkState
    <3>8. ex'[bk'.msg] = y /\ "PRE" \notin y.st
      BY <1>1, <2>1, <3>1, <3>2, <3>7
    <3>9. WalkOf(bk', y, dispr.bitmap)
      <4>1. CASE bk'.pc = "walk" /\ bk'.todo = o
        BY <2>2, <3>4, <3>7, <3>8, <4>1, WalkBegins
      <4>2. CASE bk'.pc = "redir"
        BY <3>8, <4>2 DEF WalkOf
      <4> QED
        BY <3>7, <4>1, <4>2
    <3> QED
      BY <1>5, <1>6, <2>1, <3>6, <3>8, <3>9
  <2> QED
    BY <1>13, <2>3, <2>4 DEF msg_post_phase_hdl
<1>14. CASE NextModule
  <2>1. WalkOf(bk', cur_msg, dispr.bitmap)
    BY <1>1, <1>14, WalkGoesOn
  <2>2. ex' = ex /\ dispr' = dispr
    BY <1>14 DEF NextModule
  <2>3. bk'.msg = bk.msg
    BY <1>1, <1>14 DEF NextModule, BkState
  <2> QED
    BY <1>5, <1>6, <1>7, <2>1, <2>2, <2>3 DEF cur_msg
<1>15. CASE feed_mdl_msg
  <2>1. ex' = ex /\ dispr' = dispr /\ bk' = [bk EXCEPT !.pc = "hdl"] /\ bk.pc = "feed"
    BY <1>15 DEF feed_mdl_msg, Goto
  <2>2. bk'.pc = "hdl" /\ bk'.msg = bk.msg /\ bk'.ph = bk.ph /\ bk'.todo = bk.todo
    BY <1>1, <2>1 DEF BkState
  <2>3. WalkOf(bk', ex[bk.msg], dispr.bitmap)
    BY <2>1, <2>2 DEF WalkInv, WalkOf, cur_msg
  <2> QED
    BY <1>5, <1>6, <1>7, <2>1, <2>2, <2>3
<1>16. CASE HdlOk
  <2>1. /\ bk.msg \in Slot /\ bk'.msg = bk.msg /\ OthersSame(bk.msg)
        /\ MapOf(ex'[bk.msg]) /\ WalkOf(bk', ex'[bk.msg], dispr.bitmap)
    BY <1>1, <1>16, WalkAccepts
  <2>2. dispr' = dispr
    BY <1>16 DEF HdlOk
  <2>3. \A t \in Slot : MapOf(ex'[t])
    BY <1>7, <2>1 DEF OthersSame
  <2> QED
    BY <1>5, <1>6, <2>1, <2>2, <2>3
<1> QED
  BY <1>1, <1>8, <1>9, <1>10, <1>11, <1>12, <1>13, <1>14, <1>15, <1>16, WalkOrNot DEF WalkSteps

(* The invariants of DisprMsgProofs and those of the walk together. *)
WalkIInv == MsgIInv /\ MapInv /\ WalkInv

(* They hold in the initial state, where no message is in the dispatcher. *)
LEMMA WalkIInvInit == Init => WalkIInv
<1> SUFFICES ASSUME Init PROVE WalkIInv
  OBVIOUS
<1>1. MsgIInv
  BY MsgInit
<1>2. MapInv
  BY DEF Init, MapInv, MapOf
<1>3. bk.pc = "wait"
  BY DEF Init
<1> QED
  BY <1>1, <1>2, <1>3, WalkAway DEF WalkIInv, WalkInv

(* Every step keeps them. *)
LEMMA WalkIInvStep == WalkIInv /\ [Next]_vars => WalkIInv'
<1> SUFFICES ASSUME WalkIInv, [Next]_vars PROVE WalkIInv'
  OBVIOUS
<1>1. MsgIInv'
  BY MsgStep DEF WalkIInv
<1>2. Bystanders
  BY Steps DEF WalkIInv, MsgIInv
<1> QED
  BY <1>1, <1>2, HandStep DEF WalkIInv

(* The inductive invariant of the walk holds in every state. *)
LEMMA WalkInvariant == Spec => []WalkIInv
  BY WalkIInvInit, WalkIInvStep, PTL DEF Spec

(* msg_pre_phase_hdl and msg_post_phase_hdl: no module gets a message twice *)
(* in a phase, although the sender is visited twice, a pended message      *)
(* starts over and callers cancel at any moment.                           *)
THEOREM NoneHandlesTwice == Spec => []HandledOnce
<1>1. WalkIInv => HandledOnce
  <2> SUFFICES ASSUME WalkIInv, bk.pc = "hdl", Fed # Ctrl
               PROVE  <<Fed, PhaseOf(cur_msg)>> \notin cur_msg.got
    BY DEF HandledOnce
  <2>1. bk \in BkState /\ bk.todo # <<>> /\ WalkOf(bk, cur_msg, dispr.bitmap)
    BY DEF WalkIInv, MsgIInv, TypeInv, TypeOK, HandInv, WalkInv
  <2>2. Fed = bk.todo[1][1]
    BY <2>1 DEF Fed, BkState
  <2>3. bk.ph \in {"mid", "end"}
    BY <2>1, <2>2 DEF WalkOf, BkState
  <2> QED
    BY <2>1, <2>2, <2>3 DEF WalkOf
<1> QED
  BY <1>1, WalkInvariant, PTL

(* When a module gets a message, no loaded module of an earlier turn is    *)
(* still to get it, and in the post phase none is to get it in the pre     *)
(* phase.                                                                  *)
THEOREM HandledInOrder == Spec => []PhaseOrder
<1>1. WalkIInv => PhaseOrder
  <2> SUFFICES ASSUME WalkIInv, bk.pc = "hdl", Fed # Ctrl
               PROVE  /\ \A m \in get_msg_bitmap(cur_msg) \cap dispr.bitmap : Turn(m) >= Turn(Fed)
                      /\ "PRE" \notin cur_msg.st => cur_msg.pre = {}
    BY DEF PhaseOrder
  <2>1. bk \in BkState /\ bk.todo # <<>> /\ WalkOf(bk, cur_msg, dispr.bitmap) /\ bk.msg \in Slot
    BY DEF WalkIInv, MsgIInv, TypeInv, TypeOK, HandInv, WalkInv, InHand, BkState
  <2>2. Fed = bk.todo[1][1]
    BY <2>1 DEF Fed, BkState
  <2>3. bk.ph \in {"mid", "end"}
    BY <2>1, <2>2 DEF WalkOf, BkState
  <2> DEFINE q == bk.todo
  <2>4. /\ "PRE" \in cur_msg.st <=> bk.ph = "mid"
        /\ q \in Seq(Visit)
        /\ Ordered(q, IF bk.ph = "mid" THEN Falls ELSE Rises)
        /\ \A m \in get_msg_bitmap(cur_msg) \cap dispr.bitmap : <<m, FALSE>> \in ToSet(q)
    BY <2>1, <2>3 DEF WalkOf
  <2>5. \A x, y \in Visit : /\ <<x, y>> \in Falls => Prio[x[1]] >= Prio[y[1]]
                            /\ <<x, y>> \in Rises => Prio[x[1]] =< Prio[y[1]]
    BY DEF Falls, Rises
  <2>6. \A i \in DOMAIN q : q[i] \in Visit
    BY <2>4
  <2>7. DOMAIN q = 1..Len(q) /\ Len(q) \in Nat /\ Len(q) >= 1
    BY <2>1, <2>4
  <2>8. \A x \in Visit : x[1] \in Mdl
    BY DEF Visit
  <2> HIDE DEF q
  <2>9. ASSUME NEW m \in get_msg_bitmap(cur_msg) \cap dispr.bitmap PROVE Turn(m) >= Turn(Fed)
    <3>1. PICK i \in DOMAIN q : q[i] = <<m, FALSE>>
      BY <2>4 DEF ToSet
    <3>a. <<m, FALSE>>[1] = m /\ 1 \in DOMAIN q
      BY <2>7
    <3>2. m = q[i][1] /\ q[i] \in Visit /\ q[1] \in Visit /\ m \in Mdl /\ q[1][1] \in Mdl
      BY <2>6, <2>8, <3>1, <3>a
    <3>3. Prio[m] \in 0..2 /\ Prio[q[1][1]] \in 0..2
      BY <3>2, MsgConstAssumption
    <3>4. i = 1 \/ <<q[1], q[i]>> \in (IF bk.ph = "mid" THEN Falls ELSE Rises)
      BY <2>4, <2>7 DEF Ordered
    <3>5. IF bk.ph = "mid" THEN Prio[m] =< Prio[q[1][1]] ELSE Prio[m] >= Prio[q[1][1]]
      BY <2>5, <3>2, <3>3, <3>4
    <3>6. Fed = q[1][1]
      BY <2>2 DEF q
    <3> QED
      BY <2>4, <3>3, <3>5, <3>6 DEF Turn
  <2>10. cur_msg.mid # 0
    BY <2>1 DEF WalkIInv, MsgIInv, NumberInv, PlaceInv, Linked, cur_msg
  <2>11. MapOf(cur_msg)
    BY <2>1 DEF WalkIInv, MapInv, cur_msg
  <2> QED
    BY <2>9, <2>10, <2>11 DEF MapOf
<1> QED
  BY <1>1, WalkInvariant, PTL

-----------------------------------------------------------------------------
(* What becomes of a message. *)

(* Nothing is unloaded and nobody leaves before a stop begins. *)
UpInv ==
    epc = "up" =>
        /\ dispr.bitmap = Mdl /\ dispr.started /\ ~bk.leaving
        /\ bk.pc \notin {"leave", "clrmsg", "done"}

(* Before a stop begins a message that is not canceled, and that nobody is *)
(* about to cancel, is still to go where it has not been.                  *)
WantOf(x) == \A m \in x.want : /\ m \in x.pre \/ <<m, "pre">> \in x.got
                               /\ m \in x.post \/ <<m, "post">> \in x.got
WantInv ==
    epc = "up" =>
        \A s \in Slot : ex[s].mid # 0 /\ "CANCEL" \notin ex[s].st /\ ~Canceling(s) => WantOf(ex[s])

(* A message that is about to be completed has been through both phases,   *)
(* or is marked.                                                           *)
ReadyInv ==
    epc = "up" /\ bk.pc \in {"reqhdl", "compl"} /\ ~Has({"CANCEL", "FAIL"}) =>
        "PRE" \notin cur_msg.st /\ cur_msg.post = {}

(* What a step does to the message of an entry: gives the entry back,      *)
(* fills it, ends the message, takes it a step further or leaves it alone; *)
(* or a caller is canceling it.                                            *)
Serves(x, y) ==
    /\ y.mid = x.mid /\ y.want = x.want
    /\ y.pre \subseteq x.pre /\ y.post \subseteq x.post
    /\ "CANCEL" \in y.st <=> "CANCEL" \in x.st
    /\ dispr.bitmap = Mdl /\ WantOf(x) => WantOf(y)
MsgStepOf(t) ==
    \/ ex'[t].mid = 0 /\ ex'[t].st = {}
    \/ /\ ex'[t].pre = ex'[t].want /\ ex'[t].post = ex'[t].want
       /\ "CANCEL" \notin ex'[t].st
    \/ /\ "CANCEL" \in ex'[t].st
       /\ (ex'[t].pre = {} /\ ex'[t].post = {}) \/ (bk'.msg = t /\ bk'.pc = "compl")
    \/ Serves(ex[t], ex'[t])
    \/ \E c \in Sender : cancel_msg(c) /\ snd[c].slot = t

(* How a message comes to its completion. *)
ReadyStep ==
    bk'.pc \in {"reqhdl", "compl"} =>
        \/ bk' = bk \/ bk.pc = "clrmsg" \/ ~dispr.started
        \/ ex'[bk'.msg].st \cap {"CANCEL", "FAIL"} # {}
        \/ /\ bk'.msg = bk.msg /\ ex' = ex
           /\ bk.pc = "reqhdl" \/ (bk.pc = "redir" /\ bk.ph = "end" /\ cur_msg.post = {})
MsgSteps == (\A t \in Slot : MsgStepOf(t)) /\ ReadyStep

(* Plain marks of entries serve or end their messages. *)
LEMMA PlainServes == ASSUME PlainMarks, NEW t \in Slot PROVE MsgStepOf(t)
  BY DEF PlainMarks, Plain, Same, SameFlags, MsgStepOf, Serves, WantOf

(* A plain step does not lead to a completion. *)
LEMMA PlainMsgSteps == ASSUME PlainMarks, ReadyStep PROVE MsgSteps
  BY PlainServes DEF MsgSteps

(* A new message wants what its maps say. *)
LEMMA FillMsgSteps ==
    ASSUME TypeInv, UNCHANGED bk, idleQ # <<>>, hist.nmsg < MaxMsg,
           NEW k \in Kind, NEW own \in BOOLEAN, NEW flags \in SUBSET {"ENQ"},
           FillMsg(k, own, flags)
    PROVE  MsgSteps
<1> DEFINE s == Head(idleQ)
<1>1. s \in Slot
  BY TailToSet DEF TypeInv, TypeOK
<1>2. ex \in [Slot -> MsgEx] /\ dispr \in Dispatcher /\ hist \in History
  BY DEF TypeInv, TypeOK
<1>3. s = Head(idleQ)
  OBVIOUS
<1> HIDE DEF s
<1>4. /\ ex'[s].pre = ex'[s].want /\ ex'[s].post = ex'[s].want
      /\ ex'[s].st \cap {"CANCEL", "FAIL", "PENDING", "RUN"} = {}
      /\ \A t \in Slot \ {s} : ex'[t] = ex[t]
  BY <1>1, <1>2, <1>3, Filled
<1>5. \A t \in Slot : MsgStepOf(t)
  <2> SUFFICES ASSUME NEW t \in Slot PROVE MsgStepOf(t)
    OBVIOUS
  <2>1. CASE t = s
    BY <1>4, <2>1 DEF MsgStepOf
  <2>2. CASE t # s
    BY <1>4, <2>2 DEF MsgStepOf, Serves, WantOf
  <2> QED
    BY <2>1, <2>2
<1> QED
  BY <1>5 DEF MsgSteps, ReadyStep

(* Every step does one of these to each message. *)
LEMMA AllMsgSteps ==
    ASSUME TypeInv, [Next]_vars
    PROVE  MsgSteps
<1>b. bk \in BkState /\ ex \in [Slot -> MsgEx] /\ snd \in [Sender -> SndState]
  BY DEF TypeInv, TypeOK
<1>c. Kinds \subseteq Kind
  BY MsgConstAssumption
<1>g. bk.pc \in InHand => bk.msg \in Slot
  BY <1>b DEF TypeInv, HandInv, BkState
<1>q. ASSUME ex' = ex, bk' = bk \/ (bk.pc \notin {"compl", "recyc"} /\ bk'.pc \notin {"reqhdl", "compl"})
      PROVE  MsgSteps
  BY <1>b, <1>q, UnchangedMarks, PlainMsgSteps DEF ReadyStep
<1>1. ASSUME NEW c \in Sender, CallerEnters(c) PROVE MsgSteps
  BY <1>1, <1>q DEF CallerEnters, Send, dispr_cancel_msg, ClrPending, dispr_notify_dev_io_status
<1>2. ASSUME NEW c \in Sender, CallerGoesOn(c) PROVE MsgSteps
  <2>u. bk' = bk
    BY <1>2 DEF CallerGoesOn, PopIdle, NoIdleMsg, push_back_wait_msg, notify_bk_thread, cancel_msg,
                dispr_clr_pending_msg, send_dev_io_status_change
  <2>1. CASE PopIdle(c)
    <3>1. idleQ # <<>> /\ hist.nmsg < MaxMsg /\ FillMsg(snd[c].kind, snd[c].own, {})
      BY <2>1 DEF PopIdle
    <3>2. snd[c].kind \in Kind /\ snd[c].own \in BOOLEAN /\ {} \in SUBSET {"ENQ"}
      BY <1>b DEF SndState
    <3> QED
      BY <2>u, <3>1, <3>2, FillMsgSteps
  <2>2. CASE push_back_wait_msg(c)
    BY <2>u, <2>2, PlainSteps, PlainMsgSteps DEF ReadyStep
  <2>3. CASE cancel_msg(c)
    <3>1. /\ snd[c].slot \in Slot /\ Marks /\ OthersSame(snd[c].slot)
      BY <2>3, CancelMarks
    <3>2. \A t \in Slot : MsgStepOf(t)
      <4> SUFFICES ASSUME NEW t \in Slot PROVE MsgStepOf(t)
        OBVIOUS
      <4>1. CASE t = snd[c].slot
        BY <2>3, <4>1 DEF MsgStepOf
      <4>2. CASE t # snd[c].slot
        BY <3>1, <4>2 DEF OthersSame, MsgStepOf, Serves, WantOf
      <4> QED
        BY <4>1, <4>2
    <3> QED
      BY <2>u, <3>2 DEF MsgSteps, ReadyStep
  <2>4. CASE \/ NoIdleMsg(c) \/ notify_bk_thread(c) \/ dispr_clr_pending_msg(c)
             \/ send_dev_io_status_change(c)
    <3>1. ex' = ex
      BY <2>4 DEF NoIdleMsg, notify_bk_thread, dispr_clr_pending_msg, send_dev_io_status_change
    <3> QED
      BY <2>u, <3>1, <1>q
  <2> QED
    BY <1>2, <2>1, <2>2, <2>3, <2>4 DEF CallerGoesOn
<1>3. CASE TokenCall \/ UNCHANGED vars
  BY <1>3, <1>q DEF TokenCall, vars
<1>4. CASE StopGoesOn
  <2>1. bk' = bk
    BY <1>4 DEF StopGoesOn, dispr_module_stop, StopPrior, cancel_running_msg, ThreadStop, StopPost
  <2>2. CASE cancel_running_msg
    BY <2>1, <2>2, PlainSteps, PlainMsgSteps DEF ReadyStep
  <2>3. CASE ~cancel_running_msg
    <3>1. ex' = ex
      BY <1>4, <2>3 DEF StopGoesOn, dispr_module_stop, StopPrior, ThreadStop, StopPost
    <3> QED
      BY <2>1, <3>1, <1>q
  <2> QED
    BY <2>2, <2>3
<1>5. CASE \/ share_thread_hdl \/ clear_pending_msg \/ RequeuePending \/ token_op_hanler
           \/ dispr_process_token_req \/ register_cur_cmd_req \/ LastPermit \/ AbortReturns
           \/ dispr_thread_leave_hdl
  <2>1. ex' = ex
    BY <1>5 DEF share_thread_hdl, clear_pending_msg, RequeuePending, token_op_hanler,
       dispr_process_token_req, register_cur_cmd_req, LastPermit, AbortReturns,
       dispr_thread_leave_hdl
  <2>2. bk.pc \notin {"compl", "recyc"}
    BY <1>5 DEF share_thread_hdl, clear_pending_msg, RequeuePending, token_op_hanler,
       dispr_process_token_req, register_cur_cmd_req, LastPermit, AbortReturns,
       dispr_thread_leave_hdl
  <2> DEFINE P == {"leave", "clr", "clrloop", "ops", "permit", "pop", "acq", "dereg", "clrmsg",
                   "proc", "abort"}
  <2>a. \A p \in P : bk' = [bk EXCEPT !.pc = p] => bk'.pc \in P
    BY <1>b DEF BkState
  <2>b. ASSUME share_thread_hdl \/ LastPermit \/ AbortReturns PROVE bk'.pc \in P
    <3>1. \E p \in P : bk' = [bk EXCEPT !.pc = p]
      BY <2>b DEF share_thread_hdl, LastPermit, AbortReturns, Goto, DropToken, AfterDereg
    <3> QED
      BY <2>a, <3>1
  <2>c. ASSUME clear_pending_msg \/ dispr_thread_leave_hdl PROVE bk'.pc \in P
    BY <2>c, <1>b DEF clear_pending_msg, dispr_thread_leave_hdl, BkState
  <2>d. ASSUME dispr_process_token_req \/ register_cur_cmd_req PROVE bk'.pc \in P
    BY <2>d, <1>b DEF dispr_process_token_req, register_cur_cmd_req, Goto, BkState
  <2>e. ASSUME RequeuePending \/ token_op_hanler PROVE bk' = bk \/ bk'.pc \in P
    BY <2>e, <1>b DEF RequeuePending, token_op_hanler, Goto, BkState
  <2>3. bk' = bk \/ bk'.pc \in P
    BY <1>5, <2>b, <2>c, <2>d, <2>e
  <2> QED
    BY <1>q, <2>1, <2>2, <2>3
<1>6. CASE deregister_cur_cmd_req \/ push_back_pending_msg \/ dispr_thread_loop_hdl
  <2>1. PlainMarks
    BY <1>6, PlainSteps
  <2>2. bk.pc \notin {"compl", "recyc"}
    BY <1>6 DEF deregister_cur_cmd_req, push_back_pending_msg, Pended, dispr_thread_loop_hdl
  <2> DEFINE away == bk'.pc \notin {"reqhdl", "compl"}
  <2>a. ASSUME deregister_cur_cmd_req PROVE away
    <3>1. \/ \E p \in {"clrmsg", "proc"} : bk' = [bk EXCEPT !.pc = p]
          \/ \E p \in {"permit", "clrloop"} : bk' = [bk EXCEPT !.pc = p, !.next = "permit"]
      BY <2>a DEF deregister_cur_cmd_req, Goto, AfterDereg
    <3> QED
      BY <3>1, <1>b DEF BkState
  <2>b. ASSUME push_back_pending_msg PROVE away
    BY <2>b, <1>b DEF push_back_pending_msg, LoopTop, BkState
  <2>c. ASSUME dispr_thread_loop_hdl PROVE away
    BY <2>c, <1>b DEF dispr_thread_loop_hdl, Goto, LoopTop, BkState
  <2>3. away
    BY <1>6, <2>a, <2>b, <2>c
  <2> QED
    BY <2>1, <2>2, <2>3, PlainMsgSteps DEF ReadyStep
<1>7. CASE clear_waiting_msg
  <2>1. PlainMarks /\ bk.pc = "clrmsg"
    BY <1>7, PlainSteps DEF clear_waiting_msg
  <2> QED
    BY <2>1, PlainMsgSteps DEF ReadyStep
<1>8. CASE notify_msg_fail \/ HdlPends
  <2>1. PlainMarks
    BY <1>8, PlainSteps
  <2>2. bk'.pc = "redir" /\ bk.pc = "hdl"
    BY <1>8, <1>b DEF notify_msg_fail, HdlPends, HdlStops, BkState
  <2> QED
    BY <2>1, <2>2, PlainMsgSteps DEF ReadyStep
<1>9. CASE NextModule \/ feed_mdl_msg \/ _notify_dispr_controller \/ msg_pre_phase_hdl
  <2>1. ex' = ex /\ bk.pc \notin {"compl", "recyc"}
    BY <1>9 DEF NextModule, feed_mdl_msg, _notify_dispr_controller, msg_pre_phase_hdl, NextPart
  <2>2. bk'.pc \notin {"reqhdl", "compl"}
    <3>1. CASE NextModule
      BY <3>1, <1>b DEF NextModule, BkState
    <3>2. CASE feed_mdl_msg
      BY <3>2, <1>b DEF feed_mdl_msg, Goto, BkState
    <3>3. CASE _notify_dispr_controller
      BY <3>3, <1>b DEF _notify_dispr_controller, NextPart, BkState
    <3>4. CASE msg_pre_phase_hdl
      BY <3>4, <1>b DEF msg_pre_phase_hdl, NextPart, BkState
    <3> QED
      BY <1>9, <3>1, <3>2, <3>3, <3>4
  <2> QED
    BY <1>q, <2>1, <2>2
<1>10. CASE Recycled
  <2>1. ex' = ex /\ bk.pc = "redir" /\ cur_msg.st \cap {"FAIL", "CANCEL"} # {}
    BY <1>10 DEF Recycled, Has
  <2>2. bk'.msg = bk.msg
    BY <1>10, <1>b DEF Recycled, Goto, BkState
  <2>3. ReadyStep
    BY <2>1, <2>2 DEF ReadyStep, cur_msg
  <2> QED
    BY <1>b, <2>1, <2>3, UnchangedMarks, PlainMsgSteps
<1>11. CASE ReqHdlReturns
  <2>1. ex' = ex /\ bk.pc = "reqhdl" /\ bk'.msg = bk.msg
    BY <1>11, <1>b DEF ReqHdlReturns, Goto, BkState
  <2>2. ReadyStep
    BY <2>1 DEF ReadyStep
  <2> QED
    BY <1>b, <2>1, <2>2, UnchangedMarks, PlainMsgSteps
<1>12. CASE Completion
  <2>1. ex' = ex /\ bk.pc = "compl" /\ bk'.msg = bk.msg /\ bk'.pc = "recyc"
    BY <1>12, <1>b DEF Completion, Goto, BkState
  <2>2. \A t \in Slot : MsgStepOf(t)
    BY <1>b, <2>1, UnchangedMarks, PlainServes
  <2> QED
    BY <2>1, <2>2 DEF MsgSteps, ReadyStep
<1>13. CASE CheckMsg
  <2>1. /\ bk.msg \in Slot /\ ex' \in [Slot -> MsgEx] /\ Marks /\ OthersSame(bk.msg)
        /\ \/ /\ bk'.pc = "compl" /\ ex'[bk.msg].pre = ex[bk.msg].pre
              /\ ex'[bk.msg].post = ex[bk.msg].post
              /\ dispr.started => "CANCEL" \in ex'[bk.msg].st
           \/ /\ bk'.pc = "redir" /\ bk'.ph = "ctrl"
              /\ ex'[bk.msg].pre = ex[bk.msg].pre \cap dispr.bitmap
              /\ ex'[bk.msg].post = ex[bk.msg].post \cap dispr.bitmap
              /\ "CANCEL" \in ex'[bk.msg].st => "CANCEL" \in ex[bk.msg].st
    BY <1>13, CheckMarks
  <2>2. bk'.msg = bk.msg /\ bk.pc = "chk"
    BY <1>13, <1>b DEF CheckMsg, Goto, BkState
  <2> DEFINE x == ex[bk.msg]
             y == ex'[bk.msg]
  <2>3. x \in MsgEx /\ Same(x, y)
    BY <1>b, <2>1 DEF Marks
  <2>4. x.pre \subseteq Mdl /\ x.post \subseteq Mdl
    BY <2>3 DEF MsgEx
  <2>5. MsgStepOf(bk.msg)
    <3>1. CASE bk'.pc = "compl" /\ "CANCEL" \in y.st
      BY <2>2, <3>1 DEF MsgStepOf
    <3>2. CASE bk'.pc = "compl" /\ "CANCEL" \notin y.st
      <4>1. y.pre = x.pre /\ y.post = x.post
        BY <2>1, <3>2
      <4>2. Serves(x, y)
        BY <2>3, <3>2, <4>1 DEF Serves, Same, SameFlags, WantOf
      <4> QED
        BY <4>2 DEF MsgStepOf
    <3>3. CASE bk'.pc = "redir"
      <4>1. /\ y.pre = x.pre \cap dispr.bitmap /\ y.post = x.post \cap dispr.bitmap
            /\ "CANCEL" \in y.st => "CANCEL" \in x.st
        BY <2>1, <3>3
      <4>2. Serves(x, y)
        BY <2>3, <2>4, <4>1 DEF Serves, Same, SameFlags, WantOf
      <4> QED
        BY <4>2 DEF MsgStepOf
    <3> QED
      BY <2>1, <3>1, <3>2, <3>3
  <2>6. \A t \in Slot : MsgStepOf(t)
    <3> SUFFICES ASSUME NEW t \in Slot, t # bk.msg PROVE MsgStepOf(t)
      BY <2>5
    <3> QED
      BY <2>1 DEF OthersSame, MsgStepOf, Serves, WantOf
  <2>7. ReadyStep
    BY <2>1, <2>2 DEF ReadyStep
  <2> QED
    BY <2>2, <2>6, <2>7 DEF MsgSteps
<1>14. CASE cur_req_hdl
  <2>1. /\ bk.msg \in Slot /\ Marks /\ OthersSame(bk.msg)
        /\ \/ bk'.pc = "compl" /\ "CANCEL" \in ex'[bk.msg].st
           \/ bk'.pc \in {"reqhdl", "compl"} /\ ex' = ex /\ cur_msg.post = {}
    BY <1>14, ReqMarks
  <2>2. bk'.msg = bk.msg /\ bk.pc = "redir" /\ bk.ph = "end"
    BY <1>14, <1>b DEF cur_req_hdl, NextPart, InvalidBitmap, Goto, BkState
  <2>3. \A t \in Slot : MsgStepOf(t)
    <3> SUFFICES ASSUME NEW t \in Slot PROVE MsgStepOf(t)
      OBVIOUS
    <3>1. CASE ex'[t] = ex[t]
      BY <3>1 DEF MsgStepOf, Serves, WantOf
    <3>2. CASE t = bk.msg /\ bk'.pc = "compl" /\ "CANCEL" \in ex'[bk.msg].st
      BY <2>2, <3>2 DEF MsgStepOf
    <3> QED
      BY <2>1, <3>1, <3>2 DEF OthersSame
  <2>4. ReadyStep
    BY <2>1, <2>2 DEF ReadyStep
  <2> QED
    BY <2>2, <2>3, <2>4 DEF MsgSteps
<1>15. CASE msg_post_phase_hdl
  <2>1. bk.pc = "redir" /\ bk.msg \in Slot /\ ex[bk.msg] \in MsgEx
    BY <1>15, <1>b, <1>g DEF msg_post_phase_hdl, NextPart, InHand
  <2>2. CASE InvalidBitmap
    <3> DEFINE f == ex[bk.msg].st \cup {"CANCEL"}
    <3>1. ex' = [ex EXCEPT ![bk.msg].st = f] /\ bk' = [bk EXCEPT !.pc = "compl"]
      BY <2>2 DEF InvalidBitmap, Goto
    <3>2. "CANCEL" \in f
      OBVIOUS
    <3> HIDE DEF f
    <3>3. ex'[bk.msg].st = f /\ \A t \in Slot \ {bk.msg} : ex'[t] = ex[t]
      BY <1>b, <2>1, <3>1 DEF MsgEx
    <3>4. bk'.pc = "compl" /\ bk'.msg = bk.msg
      BY <1>b, <3>1 DEF BkState
    <3>5. \A t \in Slot : MsgStepOf(t)
      <4> SUFFICES ASSUME NEW t \in Slot PROVE MsgStepOf(t)
        OBVIOUS
      <4>1. CASE t = bk.msg
        BY <3>2, <3>3, <3>4, <4>1 DEF MsgStepOf
      <4>2. CASE t # bk.msg
        BY <3>3, <4>2 DEF MsgStepOf, Serves, WantOf
      <4> QED
        BY <4>1, <4>2
    <3>6. ReadyStep
      BY <3>2, <3>3, <3>4 DEF ReadyStep
    <3> QED
      BY <2>1, <3>5, <3>6 DEF MsgSteps
  <2>3. CASE /\ ex' = [ex EXCEPT ![bk.msg].st = @ \ {"PRE"}]
             /\ bk' = IF cur_msg.post # {}
                      THEN [bk EXCEPT !.pc = "walk", !.ph = "end", !.todo = PostOrder(cur_msg)]
                      ELSE [bk EXCEPT !.ph = "end"]
    <3> DEFINE y == [ex[bk.msg] EXCEPT !.st = ex[bk.msg].st \ {"PRE"}]
               o == PostOrder(cur_msg)
    <3>1. /\ y.st = ex[bk.msg].st \ {"PRE"} /\ y.mid = ex[bk.msg].mid /\ y.got = ex[bk.msg].got
          /\ y.pre = ex[bk.msg].pre /\ y.post = ex[bk.msg].post /\ y.want = ex[bk.msg].want
      BY <2>1 DEF MsgEx
    <3>2. ex' = [ex EXCEPT ![bk.msg] = y]
      BY <2>3
    <3>3. \/ bk' = [bk EXCEPT !.pc = "walk", !.ph = "end", !.todo = o]
          \/ bk' = [bk EXCEPT !.ph = "end"]
      BY <2>3
    <3> HIDE DEF y, o
    <3>4. bk'.pc \in {"redir", "walk"}
      BY <1>b, <2>1, <3>3 DEF BkState
    <3>5. \A t \in Slot : MsgStepOf(t)
      <4> SUFFICES ASSUME NEW t \in Slot PROVE MsgStepOf(t)
        OBVIOUS
      <4>1. CASE t = bk.msg
        <5>1. ex'[t] = y
          BY <1>b, <3>2, <4>1
        <5>2. Serves(ex[t], y)
          BY <3>1, <4>1 DEF Serves, WantOf
        <5> QED
          BY <5>1, <5>2 DEF MsgStepOf
      <4>2. CASE t # bk.msg
        <5>1. ex'[t] = ex[t]
          BY <1>b, <3>2, <4>2
        <5> QED
          BY <5>1 DEF MsgStepOf, Serves, WantOf
      <4> QED
        BY <4>1, <4>2
    <3> QED
      BY <2>1, <3>4, <3>5 DEF MsgSteps, ReadyStep
  <2> QED
    BY <1>15, <2>2, <2>3 DEF msg_post_phase_hdl
<1>16. CASE HdlOk
  <2> DEFINE x == ex[bk.msg]
             y == ClearBit(ex[bk.msg])
  <2>1. bk.pc = "hdl" /\ bk.msg \in Slot /\ x \in MsgEx /\ bk.todo # <<>>
    BY <1>16, <1>b, <1>g DEF HdlOk, InHand, TypeInv, HandInv
  <2>2. Fed \in Source
    <3> DEFINE V == (Mdl \cup {Ctrl}) \X BOOLEAN
               q == bk.todo
    <3>1. q \in Seq(V) /\ q # <<>>
      BY <1>b, <2>1 DEF BkState
    <3>2. \A v \in V : v[1] \in Source
      BY DEF Source
    <3>3. Fed = Head(q)[1]
      BY DEF Fed
    <3> HIDE DEF V, q
    <3>4. Head(q) \in V
      BY <3>1
    <3> QED
      BY <3>2, <3>3, <3>4
  <2>3. /\ y.st = x.st /\ y.mid = x.mid /\ y.want = x.want
        /\ y.got = x.got \cup {<<Fed, PhaseOf(x)>>}
        /\ y.pre = IF "PRE" \in x.st THEN x.pre \ {Fed} ELSE x.pre
        /\ y.post = IF "PRE" \in x.st THEN x.post ELSE x.post \ {Fed}
    BY <2>1, <2>2, Accepted
  <2>4. ex' = [ex EXCEPT ![bk.msg] = y]
    BY <1>16 DEF HdlOk
  <2>5. bk'.pc \in {"redir", "walk"}
    BY <1>16, <1>b DEF HdlOk, BkState
  <2> HIDE DEF x, y
  <2>6. Serves(x, y)
    BY <2>3 DEF Serves, WantOf, PhaseOf
  <2>7. \A t \in Slot : MsgStepOf(t)
    <3> SUFFICES ASSUME NEW t \in Slot PROVE MsgStepOf(t)
      OBVIOUS
    <3>1. CASE t = bk.msg
      <4>1. ex'[t] = y /\ ex[t] = x
        BY <1>b, <2>4, <3>1 DEF x
      <4> QED
        BY <2>6, <4>1 DEF MsgStepOf
    <3>2. CASE t # bk.msg
      <4>1. ex'[t] = ex[t]
        BY <1>b, <2>4, <3>2
      <4> QED
        BY <4>1 DEF MsgStepOf, Serves, WantOf
    <3> QED
      BY <3>1, <3>2
  <2> QED
    BY <2>1, <2>5, <2>7 DEF MsgSteps, ReadyStep
<1>17. CASE AbortSends
  <2>1. UNCHANGED bk /\ idleQ # <<>> /\ hist.nmsg < MaxMsg
    BY <1>17 DEF AbortSends
  <2>2. PICK k \in Kinds : FillMsg(k, FALSE, {"ENQ"})
    BY <1>17 DEF AbortSends
  <2>3. k \in Kind /\ FALSE \in BOOLEAN /\ {"ENQ"} \in SUBSET {"ENQ"}
    BY <1>c
  <2> QED
    BY <2>1, <2>2, <2>3, FillMsgSteps
<1>18. CASE push_back_idle_msg
  <2>1. bk.pc = "recyc" /\ bk.msg \in Slot
    BY <1>18, <1>g DEF push_back_idle_msg, Recycle, InHand
  <2> DEFINE y == [ex[bk.msg] EXCEPT !.st = {}, !.mid = 0, !.kind = Blank,
                                     !.want = {}, !.got = {}]
  <2>2. ex' = [ex EXCEPT ![bk.msg] = y]
    BY <1>18 DEF push_back_idle_msg, Recycle
  <2>3. y.st = {} /\ y.mid = 0
    BY <1>b, <2>1 DEF MsgEx
  <2> HIDE DEF y
  <2>4. bk'.pc \notin {"reqhdl", "compl"}
    BY <1>18, <1>b DEF push_back_idle_msg, Recycle, LoopTop, BkState
  <2>5. ex'[bk.msg] = y /\ \A t \in Slot \ {bk.msg} : ex'[t] = ex[t]
    BY <1>b, <2>1, <2>2
  <2>6. \A t \in Slot : MsgStepOf(t)
    <3> SUFFICES ASSUME NEW t \in Slot PROVE MsgStepOf(t)
      OBVIOUS
    <3>1. CASE t = bk.msg
      BY <2>3, <2>5, <3>1 DEF MsgStepOf
    <3>2. CASE t # bk.msg
      BY <2>5, <3>2 DEF MsgStepOf, Serves, WantOf
    <3> QED
      BY <3>1, <3>2
  <2> QED
    BY <2>3, <2>4, <2>5, <2>6 DEF MsgSteps, ReadyStep
<1> QED
  BY <1>1, <1>2, <1>3, <1>4, <1>5, <1>6, <1>7, <1>8, <1>9, <1>10, <1>11, <1>12, <1>13, <1>14,
     <1>15, <1>16, <1>17, <1>18 DEF Next, Background


-----------------------------------------------------------------------------
(* The invariants of the messages are kept. *)

(* Before a stop begins everything is loaded and the thread is in its loop. *)
LEMMA UpKept == ASSUME TypeInv, UpInv, Bystanders PROVE UpInv'
<1> SUFFICES ASSUME epc' = "up"
             PROVE  /\ dispr'.bitmap = Mdl /\ dispr'.started /\ ~bk'.leaving
                    /\ bk'.pc \notin {"leave", "clrmsg", "done"}
  BY DEF UpInv
<1>1. /\ epc = "up" /\ dispr'.bitmap = dispr.bitmap /\ dispr'.started = dispr.started
  BY DEF Bystanders, UpStep
<1>2. /\ dispr.bitmap = Mdl /\ dispr.started /\ ~bk.leaving
      /\ bk.pc \notin {"leave", "clrmsg", "done"}
  BY <1>1 DEF UpInv
<1>3. ~Stopped
  BY <1>1 DEF Stopped
<1>4. ~bk'.leaving /\ bk'.pc \notin {"leave", "clrmsg", "done"}
  BY <1>2, <1>3 DEF Bystanders, LeaveStep
<1> QED
  BY <1>1, <1>2, <1>4

(* A message that is not being canceled stays one that is to go wherever   *)
(* it has not been.                                                        *)
LEMMA WantKept ==
    ASSUME TypeInv, UpInv, WantInv, Bystanders, MsgSteps, [Next]_vars PROVE WantInv'
<1> SUFFICES ASSUME epc' = "up", NEW s \in Slot, ex'[s].mid # 0, "CANCEL" \notin ex'[s].st,
                    ~(Canceling(s)')
             PROVE  WantOf(ex'[s])
  BY DEF WantInv, WantOf
<1>1. epc = "up" /\ dispr.bitmap = Mdl
  BY DEF Bystanders, UpStep, UpInv
<1>2. snd \in [Sender -> SndState]
  BY DEF TypeInv, TypeOK
<1>3. ASSUME NEW c \in Sender, cancel_msg(c), snd[c].slot = s PROVE FALSE
  <2>1. ~(snd[c].pc = "cxlset")
    BY <1>3, CancelMarks
  <2>2. snd'[c].pc \in {"cxlpost", "cxlset"} /\ snd'[c].slot = s
    BY <1>2, <1>3, <2>1 DEF cancel_msg, SndState
  <2> QED
    BY <2>2 DEF Canceling
<1>4. CASE ex'[s].pre = ex'[s].want /\ ex'[s].post = ex'[s].want
  BY <1>4 DEF WantOf
<1>5. CASE Serves(ex[s], ex'[s])
  <2>1. ex[s].mid # 0 /\ "CANCEL" \notin ex[s].st
    BY <1>5 DEF Serves
  <2>2. ~Canceling(s)
    <3>1. CASE Canceling(s)' <=> Canceling(s)
      BY <3>1
    <3>2. ASSUME NEW c \in Sender, cancel_msg(c), Canceling(s) PROVE FALSE
      <4>1. PICK d \in Sender : snd[d].pc \in {"cxlpost", "cxlset"} /\ snd[d].slot = s
        BY <3>2 DEF Canceling
      <4>2. d # c
        BY <1>3, <3>2, <4>1
      <4>3. snd'[d] = snd[d]
        BY <1>2, <3>2, <4>2 DEF cancel_msg
      <4> QED
        BY <4>1, <4>3 DEF Canceling
    <3> QED
      BY <3>1, <3>2 DEF Bystanders, CallStep
  <2> QED
    BY <1>1, <1>5, <2>1, <2>2 DEF WantInv, Serves
<1> QED
  BY <1>3, <1>4, <1>5 DEF MsgSteps, MsgStepOf

(* A message comes to its completion after both phases, or with a mark. *)
LEMMA ReadyKept ==
    ASSUME WalkIInv, UpInv, ReadyInv, Bystanders, MsgSteps, [Next]_vars PROVE ReadyInv'
<1> SUFFICES ASSUME epc' = "up", bk'.pc \in {"reqhdl", "compl"},
                    ex'[bk'.msg].st \cap {"CANCEL", "FAIL"} = {}
             PROVE  "PRE" \notin ex'[bk'.msg].st /\ ex'[bk'.msg].post = {}
  BY DEF ReadyInv, Has, cur_msg
<1>1. /\ epc = "up" /\ dispr.started /\ bk.pc # "clrmsg"
  BY DEF Bystanders, UpStep, UpInv
<1>2. TypeInv /\ bk \in BkState
  BY DEF WalkIInv, MsgIInv, TypeInv, TypeOK
<1>3. CASE bk' = bk
  <2>1. bk.msg \in Slot /\ bk.msg \notin ToSet(idleQ)
    BY <1>2, <1>3 DEF TypeInv, HandInv, InHand, BkState, WalkIInv, MsgIInv, PlaceInv, Linked
  <2>2. Still \/ Elsewhere
    <3>1. ~GivesBack /\ ~WalkSteps
      BY <1>3 DEF GivesBack, WalkSteps, _notify_dispr_controller, msg_pre_phase_hdl,
         msg_post_phase_hdl, NextPart, NextModule, feed_mdl_msg, HdlOk
    <3> QED
      BY <1>2, <3>1, WalkOrNot
  <2>3. Same(ex[bk.msg], ex'[bk.msg])
    <3>1. CASE Elsewhere
      BY <2>1, <3>1 DEF Elsewhere, Marks
    <3>2. CASE Still
      BY <2>1, <3>2 DEF Still
    <3> QED
      BY <2>2, <3>1, <3>2
  <2>4. ex[bk.msg].st \cap {"CANCEL", "FAIL"} = {}
    BY <1>3, <2>3 DEF Same, SameFlags
  <2>5. "PRE" \notin ex[bk.msg].st /\ ex[bk.msg].post = {}
    BY <1>1, <1>3, <2>4 DEF ReadyInv, Has, cur_msg
  <2> QED
    BY <1>3, <2>3, <2>5 DEF Same, SameFlags
<1>4. CASE /\ bk'.msg = bk.msg /\ ex' = ex
           /\ bk.pc = "reqhdl" \/ (bk.pc = "redir" /\ bk.ph = "end" /\ cur_msg.post = {})
  <2>1. CASE bk.pc = "reqhdl"
    BY <1>1, <1>4, <2>1 DEF ReadyInv, Has, cur_msg
  <2>2. CASE bk.pc = "redir" /\ bk.ph = "end" /\ cur_msg.post = {}
    <3>1. "PRE" \notin cur_msg.st
      BY <2>2 DEF WalkIInv, WalkInv, WalkOf
    <3> QED
      BY <1>4, <2>2, <3>1 DEF cur_msg
  <2> QED
    BY <1>4, <2>1, <2>2
<1> QED
  BY <1>1, <1>3, <1>4 DEF MsgSteps, ReadyStep

-----------------------------------------------------------------------------
(* All of it together. *)
FateIInv == WalkIInv /\ UpInv /\ WantInv /\ ReadyInv

(* dispr_init: nothing is in the dispatcher and nobody is in a call. *)
LEMMA FateInit == Init => FateIInv
<1> SUFFICES ASSUME Init PROVE FateIInv
  OBVIOUS
<1>1. bk.pc = "wait" /\ ~bk.leaving /\ dispr.bitmap = Mdl /\ dispr.started
  BY DEF Init
<1>2. \A s \in Slot : ex[s].mid = 0 /\ ex[s].st = {}
  BY DEF Init
<1>3. \A c \in Sender : snd[c].pc = "idle"
  BY DEF Init
<1> QED
  BY <1>1, <1>2, <1>3, WalkIInvInit
     DEF FateIInv, UpInv, WantInv, ReadyInv

(* Every step keeps them. *)
LEMMA FateStep == FateIInv /\ [Next]_vars => FateIInv'
<1> SUFFICES ASSUME FateIInv, [Next]_vars PROVE FateIInv'
  OBVIOUS
<1>1. /\ WalkIInv /\ UpInv /\ WantInv /\ ReadyInv
      /\ TypeInv /\ WakeInv
  BY DEF FateIInv, WalkIInv, MsgIInv
<1>2. MsgSteps /\ Bystanders
  BY <1>1, AllMsgSteps, Steps
<1>3. WalkIInv' /\ UpInv'
  BY <1>1, <1>2, WalkIInvStep, UpKept
<1>4. WantInv' /\ ReadyInv'
  BY <1>1, <1>2, WantKept, ReadyKept
<1> QED
  BY <1>3, <1>4 DEF FateIInv

(* The inductive invariant of the messages holds in every state. *)
LEMMA FateInvariant == Spec => []FateIInv
  BY FateInit, FateStep, PTL DEF Spec

(* push_back_idle_msg: a completion routine that sees neither               *)
(* MSG_INDC_CANCEL nor MSG_INDC_FAIL is told of a message that every module *)
(* it was for has accepted in both phases, unless a caller is between the   *)
(* first and the last step of cancel_msg for it.                            *)
THEOREM SuccessIsHandled == Spec => []SuccessMeansHandled
<1>1. FateIInv => SuccessMeansHandled
  <2> SUFFICES ASSUME FateIInv, bk.pc = "compl", epc = "up", ~Has({"CANCEL", "FAIL"}),
                      ~Canceling(bk.msg)
               PROVE  cur_msg.want \X {"pre", "post"} \subseteq cur_msg.got
    BY DEF SuccessMeansHandled
  <2>1. bk.msg \in Slot
    BY DEF FateIInv, WalkIInv, MsgIInv, TypeInv, TypeOK, HandInv, InHand, BkState
  <2>2. cur_msg.mid # 0
    BY <2>1 DEF FateIInv, WalkIInv, MsgIInv, NumberInv, PlaceInv, Linked, cur_msg
  <2>3. "PRE" \notin cur_msg.st /\ cur_msg.post = {}
    BY DEF FateIInv, ReadyInv
  <2>4. cur_msg.pre = {}
    BY <2>1, <2>2, <2>3 DEF FateIInv, WalkIInv, MapInv, MapOf, cur_msg
  <2>5. "CANCEL" \notin cur_msg.st
    BY DEF Has
  <2>7. WantOf(cur_msg)
    BY <2>1, <2>2, <2>5 DEF FateIInv, WantInv, cur_msg
  <2>8. \A m \in cur_msg.want : <<m, "pre">> \in cur_msg.got /\ <<m, "post">> \in cur_msg.got
    BY <2>3, <2>4, <2>7 DEF WantOf
  <2> SUFFICES ASSUME NEW e \in cur_msg.want \X {"pre", "post"} PROVE e \in cur_msg.got
    OBVIOUS
  <2>9. PICK m \in cur_msg.want, p \in {"pre", "post"} : e = <<m, p>>
    OBVIOUS
  <2> QED
    BY <2>8, <2>9
<1> QED
  BY <1>1, FateInvariant, PTL
=============================================================================
