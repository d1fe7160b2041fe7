--------------------------- MODULE DisprMsgProofs ---------------------------
(***************************************************************************)
(* Proofs about the messages of a dispatcher: the pool, the wakeups, the   *)
(* completions and the silenced senders, for any number of entries,        *)
(* senders, modules and messages, with and without preemption.             *)
(*                                                                         *)
(* Every action is shown to be one of a few moves (an entry is filled,     *)
(* linked, taken, pended, requeued, completed, given back, or nothing of   *)
(* the kind happens); the invariants are proved from the moves alone.      *)
(***************************************************************************)
EXTENDS DisprMsg, QueueLemmas, TLAPS

(* The thread has a message in its hands from the time it takes one to the *)
(* time it gives it back or pends it; a caller that is to link or to       *)
(* cancel an entry has one.                                                *)
InHand == {"chk", "redir", "walk", "feed", "hdl", "reqhdl", "compl", "recyc"}
HandInv ==
    /\ bk.msg # None <=> bk.pc \in InHand
    /\ bk.pc \in {"feed", "hdl"} => bk.todo # <<>>
    /\ \A c \in Sender :
          snd[c].pc \in {"push", "cxlpre", "cxlpost", "cxlset"} => snd[c].slot # None

TypeInv == TypeOK /\ HandInv

(* The entry that a sender has taken and not yet linked. *)
Taken(c) == IF snd[c].pc = "push" THEN snd[c].slot ELSE None

(* Every entry is in one queue once, or in one hand. *)
Linked == ToSet(idleQ) \cup ToSet(waitQ) \cup ToSet(pendQ)
PlaceInv ==
    /\ IsInjective(idleQ) /\ IsInjective(waitQ) /\ IsInjective(pendQ)
    /\ ToSet(idleQ) \cap ToSet(waitQ) = {} /\ ToSet(idleQ) \cap ToSet(pendQ) = {}
    /\ ToSet(waitQ) \cap ToSet(pendQ) = {}
    /\ bk.msg \notin Linked
    /\ \A c \in Sender : Taken(c) # None => Taken(c) \notin Linked \cup {bk.msg}
    /\ \A c, d \in Sender : Taken(c) # None /\ Taken(c) = Taken(d) => c = d
    /\ \A s \in Slot : s \in Linked \cup {bk.msg} \/ \E c \in Sender : Taken(c) = s

(* A message has a number of its own from the time it gets its entry to    *)
(* the time it is given back, and is completed once in between.            *)
NumberInv ==
    /\ \A s \in Slot : ex[s].mid = 0 <=> s \in ToSet(idleQ)
    /\ \A s, t \in Slot : ex[s].mid # 0 /\ ex[s].mid = ex[t].mid => s = t
    /\ \A s \in Slot : ex[s].mid =< hist.nmsg
DoneInv ==
    /\ \A s \in Slot : ex[s].mid # 0 => \/ hist.done[ex[s].mid] = 0
                                        \/ bk.msg = s /\ bk.pc = "recyc"
    /\ bk.pc = "recyc" /\ "COMPLETE" \in cur_msg.st => hist.done[cur_msg.mid] = 1
    /\ \A i \in Msg : /\ hist.done[i] =< 1
                      /\ i > hist.nmsg => hist.done[i] = 0
OwedInv ==
    /\ \A i \in hist.owed : \/ hist.done[i] = 1
                            \/ \E s \in Slot : ex[s].mid = i /\ "COMPLETE" \in ex[s].st
    /\ bk.pc = "done" => \A s \in Slot : ex[s].mid # 0 => ex[s].mid \in hist.late

(* A thread that is stopped still has the wakeup of the stop to come.      *)
Ups == {c \in Sender : snd[c].pc = "up"}
WakeInv ==
    ~bk.leaving =>
        Len(waitQ) + (IF Stopped /\ bk.pc = "wait" THEN 1 ELSE 0)
            =< sema + Cardinality(Ups) + (IF BeforePop THEN 1 ELSE 0)

(* What a step does to the entries.  Quiet steps leave the messages where  *)
(* they are; the others move one entry, complete a message or end the      *)
(* thread.                                                                 *)
SameMsg(s) == /\ ex'[s].mid = ex[s].mid /\ ex'[s].kind = ex[s].kind
              /\ "COMPLETE" \in ex'[s].st <=> "COMPLETE" \in ex[s].st
SameMsgs == \A s \in Slot : SameMsg(s)
SameCounts == /\ hist'.nmsg = hist.nmsg /\ hist'.done = hist.done
              /\ hist'.owed = hist.owed /\ hist'.late = hist.late
SameTaken(C) == \A c \in C : Taken(c)' = Taken(c)
SameEnd == bk'.pc = bk.pc \/ {bk.pc, bk'.pc} \cap {"recyc", "done"} = {}
Adds(q, s, r) == /\ r \in Seq(Slot) /\ Len(r) = Len(q) + 1 /\ ToSet(r) = ToSet(q) \cup {s}
                 /\ IsInjective(q) /\ s \notin ToSet(q) => IsInjective(r)
Gets(s, k) ==
    /\ ex'[s].mid = hist.nmsg + 1 /\ hist.nmsg + 1 \in Msg
    /\ ex'[s].kind = k
    /\ "COMPLETE" \in ex'[s].st <=> "COMPLETE" \in k.opt
    /\ \A t \in Slot \ {s} : ex'[t] = ex[t]
    /\ hist'.nmsg = hist.nmsg + 1 /\ hist'.done = hist.done
    /\ hist'.owed = IF "COMPLETE" \in k.opt THEN hist.owed \cup {hist.nmsg + 1} ELSE hist.owed
    /\ hist'.late = IF bk.pc = "done" THEN hist.late \cup {hist.nmsg + 1} ELSE hist.late

Quiet ==
    /\ UNCHANGED <<idleQ, waitQ, pendQ>> /\ bk'.msg = bk.msg
    /\ SameTaken(Sender) /\ SameMsgs /\ SameCounts /\ SameEnd
Fills(c) ==
    /\ idleQ # <<>> /\ idleQ' = Tail(idleQ) /\ UNCHANGED <<waitQ, pendQ, bk>>
    /\ Taken(c) = None /\ Taken(c)' = Head(idleQ) /\ SameTaken(Sender \ {c})
    /\ \E k \in Kind : Gets(Head(idleQ), k)
Links(c) ==
    /\ UNCHANGED <<idleQ, pendQ, bk>>
    /\ Taken(c) \in Slot /\ Taken(c)' = None /\ SameTaken(Sender \ {c})
    /\ Adds(waitQ, Taken(c), waitQ')
    /\ SameMsgs /\ SameCounts
SendsAtOnce ==
    /\ idleQ # <<>> /\ idleQ' = Tail(idleQ) /\ UNCHANGED <<pendQ, bk>> /\ SameTaken(Sender)
    /\ Adds(waitQ, Head(idleQ), waitQ')
    /\ \E k \in Kind : Gets(Head(idleQ), k)
Requeues ==
    /\ pendQ # <<>> /\ pendQ' = Tail(pendQ) /\ UNCHANGED <<idleQ, bk>> /\ SameTaken(Sender)
    /\ Adds(waitQ, Head(pendQ), waitQ')
    /\ SameMsgs /\ SameCounts
Takes ==
    /\ waitQ # <<>> /\ waitQ' = Tail(waitQ) /\ UNCHANGED <<idleQ, pendQ>> /\ SameTaken(Sender)
    /\ bk.msg = None /\ bk'.msg = Head(waitQ) /\ bk'.pc \in {"chk", "compl"}
    /\ SameMsgs /\ SameCounts
Pends ==
    /\ bk.msg \in Slot /\ bk'.msg = None /\ bk.pc = "redir" /\ bk'.pc \in {"leave", "wait"}
    /\ Adds(pendQ, bk.msg, pendQ') /\ UNCHANGED <<idleQ, waitQ>> /\ SameTaken(Sender)
    /\ SameMsgs /\ SameCounts
Recycles ==
    /\ bk.msg \in Slot /\ bk'.msg = None /\ bk.pc = "recyc"
    /\ bk'.pc \in {"clrmsg", "leave", "wait"}
    /\ Adds(idleQ, bk.msg, idleQ') /\ UNCHANGED <<waitQ, pendQ>> /\ SameTaken(Sender)
    /\ ex'[bk.msg].mid = 0 /\ \A t \in Slot \ {bk.msg} : ex'[t] = ex[t]
    /\ SameCounts
    /\ dispr'.pendEvt[cur_msg.kind.src] # cur_msg.kind.evt
Completes ==
    /\ UNCHANGED <<idleQ, waitQ, pendQ, ex>> /\ bk'.msg = bk.msg /\ SameTaken(Sender)
    /\ bk.msg \in Slot /\ bk.pc = "compl" /\ bk'.pc = "recyc"
    /\ hist'.nmsg = hist.nmsg /\ hist'.owed = hist.owed /\ hist'.late = hist.late
    /\ hist'.done = IF "COMPLETE" \in cur_msg.st
                    THEN [hist.done EXCEPT ![cur_msg.mid] = @ + 1] ELSE hist.done
Leaves ==
    /\ UNCHANGED <<idleQ, waitQ, pendQ, ex>> /\ bk'.msg = bk.msg /\ SameTaken(Sender)
    /\ SameCounts
    /\ Len(idleQ) = NMsg /\ bk.pc = "clrmsg" /\ bk'.pc = "done"

Moves ==
    \/ Quiet \/ \E c \in Sender : Fills(c) \/ Links(c)
    \/ SendsAtOnce \/ Requeues \/ Takes \/ Pends \/ Recycles \/ Completes \/ Leaves

(* Only a message that is pended silences its sender. *)
EvtStep ==
    \A m \in Source :
        \/ dispr'.pendEvt[m] \in {dispr.pendEvt[m], None}
        \/ Pends /\ m = cur_msg.kind.src /\ dispr'.pendEvt[m] = cur_msg.kind.evt

(* What else the proofs know of a step: who is between the parts of        *)
(* cancel_msg, that only a stopped thread leaves its loop, and that        *)
(* nothing is unloaded before a stop begins.                               *)
CallStep == \/ \A s \in Slot : Canceling(s)' <=> Canceling(s)
            \/ \E c \in Sender : cancel_msg(c)
LeaveStep ==
    /\ bk'.pc = "leave" => bk.pc = "leave" \/ Stopped
    /\ bk'.leaving => bk.leaving \/ bk.pc = "leave"
    /\ bk'.pc = "clrmsg" => bk.pc = "clrmsg" \/ bk.leaving
    /\ bk'.pc = "done" => bk.pc \in {"clrmsg", "done"}
UpStep ==
    /\ dispr'.bitmap \subseteq dispr.bitmap
    /\ epc' = "up" => /\ epc = "up"
                      /\ dispr'.bitmap = dispr.bitmap /\ dispr'.started = dispr.started
Bystanders == CallStep /\ LeaveStep /\ UpStep

-----------------------------------------------------------------------------
(* Lemmas about the updates. *)

(* How a step may change an entry without touching the message: flags may  *)
(* change, except the phase and whether there is a completion routine, and *)
(* bits of the maps may go.  Plain steps clear both maps or none, and      *)
(* cancel only what they clear.                                            *)
SameFlags(f, g) ==
    /\ "PRE" \in g <=> "PRE" \in f
    /\ "COMPLETE" \in g <=> "COMPLETE" \in f
    /\ f \cap {"CANCEL", "FAIL"} \subseteq g
Same(x, y) ==
    /\ y.mid = x.mid /\ y.kind = x.kind /\ y.want = x.want /\ y.got = x.got
    /\ y.pre \subseteq x.pre /\ y.post \subseteq x.post
    /\ SameFlags(x.st, y.st)
Plain(x, y) ==
    /\ Same(x, y)
    /\ \/ /\ y.pre = x.pre /\ y.post = x.post
          /\ "CANCEL" \in y.st => "CANCEL" \in x.st
       \/ y.pre = {} /\ y.post = {} /\ "CANCEL" \in y.st
Marks == \A t \in Slot : Same(ex[t], ex'[t])
PlainMarks == \A t \in Slot : Plain(ex[t], ex'[t])
OthersSame(s) == \A t \in Slot \ {s} : ex'[t] = ex[t]

(* An update of an entry that keeps its message. *)
LEMMA Remarked ==
    ASSUME ex \in [Slot -> MsgEx], NEW s \in Slot, NEW y \in MsgEx, Same(ex[s], y),
           ex' = [ex EXCEPT ![s] = y]
    PROVE  /\ ex' \in [Slot -> MsgEx] /\ Marks /\ OthersSame(s)
           /\ ex'[s] = y
<1>1. ex' \in [Slot -> MsgEx] /\ ex'[s] = y /\ OthersSame(s)
  BY DEF OthersSame
<1>2. Marks
  BY <1>1 DEF Marks, Same, SameFlags, OthersSame
<1> QED
  BY <1>1, <1>2

(* An update of the flags of an entry. *)
LEMMA Flagged ==
    ASSUME ex \in [Slot -> MsgEx], NEW s \in Slot, NEW f \in SUBSET Flag,
           SameFlags(ex[s].st, f), ex' = [ex EXCEPT ![s].st = f]
    PROVE  /\ ex' \in [Slot -> MsgEx] /\ Marks /\ OthersSame(s)
           /\ ex'[s].st = f /\ ex'[s].pre = ex[s].pre /\ ex'[s].post = ex[s].post
<1> DEFINE y == [ex[s] EXCEPT !.st = f]
<1>1. ex[s] \in MsgEx
  OBVIOUS
<1>2. /\ y \in MsgEx /\ y.st = f /\ y.mid = ex[s].mid /\ y.kind = ex[s].kind
      /\ y.want = ex[s].want /\ y.got = ex[s].got /\ y.pre = ex[s].pre /\ y.post = ex[s].post
  BY <1>1 DEF MsgEx
<1>3. ex' = [ex EXCEPT ![s] = y]
  OBVIOUS
<1> HIDE DEF y
<1>4. Same(ex[s], y)
  BY <1>2 DEF Same
<1> QED
  BY <1>2, <1>3, <1>4, Remarked

(* An update of flags other than CANCEL is plain. *)
LEMMA PlainFlags ==
    ASSUME ex \in [Slot -> MsgEx], NEW s \in Slot, NEW f \in SUBSET Flag,
           SameFlags(ex[s].st, f), "CANCEL" \in f => "CANCEL" \in ex[s].st,
           ex' = [ex EXCEPT ![s].st = f]
    PROVE  ex' \in [Slot -> MsgEx] /\ PlainMarks
<1>1. /\ ex' \in [Slot -> MsgEx] /\ Marks /\ OthersSame(s)
      /\ ex'[s].st = f /\ ex'[s].pre = ex[s].pre /\ ex'[s].post = ex[s].post
  BY Flagged
<1> QED
  BY <1>1 DEF Marks, PlainMarks, Plain, OthersSame

(* A step that changes neither flags nor maps is plain. *)
LEMMA UnchangedMarks == ASSUME ex \in [Slot -> MsgEx], ex' = ex
                        PROVE  ex' \in [Slot -> MsgEx] /\ PlainMarks
  BY DEF PlainMarks, Plain, Same, SameFlags

(* Plain steps are marks, and marks leave the messages what they are. *)
LEMMA MarksKeep == /\ PlainMarks => Marks
                   /\ Marks => SameMsgs
  BY DEF PlainMarks, Plain, Marks, Same, SameFlags, SameMsgs, SameMsg

(* A blank entry and the message of dispr_notify_dev_io_status are typed. *)
LEMMA BlankKind == Blank \in Kind /\ \A e \in Evt : IoKind(e) \in Kind
<1>1. Ctrl \in Source /\ "RESUME_IO" \in Evt
  BY DEF Source, Evt, SpecialEvt
<1> QED
  BY <1>1 DEF Blank, IoKind, Kind

(* insert_msg_by_priority links the message once, wherever it puts it. *)
LEMMA Inserted ==
    ASSUME NEW q \in Seq(Slot), NEW s \in Slot
    PROVE  /\ insert_msg_by_priority(q, s) \in Seq(Slot)
           /\ Len(insert_msg_by_priority(q, s)) = Len(q) + 1
           /\ ToSet(insert_msg_by_priority(q, s)) = ToSet(q) \cup {s}
           /\ IsInjective(q) /\ s \notin ToSet(q)
              => IsInjective(insert_msg_by_priority(q, s))
<1> DEFINE r == insert_msg_by_priority(q, s)
<1>1. Len(q) \in Nat /\ Others(q) \in SUBSET (1..Len(q))
  BY DEF Others
<1>2. CASE ex[s].kind.src = Ctrl /\ Others(q) # {}
  <2>1. Min(Others(q)) \in 1..Len(q)
    BY <1>1, <1>2, LeastPosition
  <2>2. r = InsertAt(q, Min(Others(q)), s)
    BY <1>2 DEF insert_msg_by_priority
  <2> QED
    BY <2>1, <2>2, InsertAtProps
<1>3. CASE ~(ex[s].kind.src = Ctrl /\ Others(q) # {})
  <2>1. r = Append(q, s)
    BY <1>3 DEF insert_msg_by_priority
  <2> QED
    BY <2>1, AppendToSet
<1> QED
  BY <1>2, <1>3

(* A sender that enters dispr_send_msg. *)
LEMMA SendBegins ==
    ASSUME snd \in [Sender -> SndState], NEW c \in Sender, NEW k \in Kind,
           NEW n \in {"keep", "drop", "clr"}, dispr_send_msg(c, k, n)
    PROVE  /\ snd' \in [Sender -> SndState]
           /\ snd'[c].pc = "pop" /\ snd'[c].slot = snd[c].slot
           /\ \A d \in Sender \ {c} : snd'[d] = snd[d]
<1> DEFINE o == (dispr.cur = "run" /\ k.src = Fg)
           z == [snd[c] EXCEPT !.pc = "pop", !.kind = k, !.next = n, !.own = o]
<1>1. o \in BOOLEAN /\ snd[c] \in SndState
  OBVIOUS
<1>2. snd' = [snd EXCEPT ![c] = z]
  BY DEF dispr_send_msg
<1>3. z \in SndState /\ z.pc = "pop" /\ z.slot = snd[c].slot
  <2> HIDE DEF o
  <2> QED
    BY <1>1 DEF SndState, SndPc
<1> HIDE DEF z
<1> QED
  BY <1>2, <1>3

(* A sender that leaves dispr_send_msg. *)
LEMMA SendEnds ==
    ASSUME snd \in [Sender -> SndState], NEW c \in Sender, NEW h \in Slot \cup {None},
           SendReturns(c, h)
    PROVE  /\ snd' \in [Sender -> SndState]
           /\ snd'[c].pc \in {"idle", "clr"} /\ snd'[c].slot \in {h, None}
           /\ \A d \in Sender \ {c} : snd'[d] = snd[d]
<1> DEFINE z == [pc |-> IF snd[c].next = "clr" THEN "clr" ELSE "idle",
                 slot |-> IF snd[c].next = "keep" THEN h ELSE None,
                 kind |-> Blank, own |-> FALSE, next |-> "keep"]
<1>1. snd' = [snd EXCEPT ![c] = z]
  BY DEF SendReturns
<1>2. Blank \in Kind
  BY BlankKind
<1>3. z \in SndState /\ z.pc \in {"idle", "clr"} /\ z.slot \in {h, None}
  BY <1>2 DEF SndState, SndPc
<1> HIDE DEF z
<1> QED
  BY <1>1, <1>3

(* A message that gets an entry: what is in the entry afterwards. *)
LEMMA Filled ==
    ASSUME ex \in [Slot -> MsgEx], dispr \in Dispatcher, hist \in History,
           hist.nmsg < MaxMsg, NEW s \in Slot, s = Head(idleQ),
           NEW k \in Kind, NEW own \in BOOLEAN, NEW flags \in SUBSET {"ENQ"},
           FillMsg(k, own, flags)
    PROVE  /\ ex' \in [Slot -> MsgEx]
           /\ ex'[s].mid = hist.nmsg + 1 /\ ex'[s].kind = k
           /\ ex'[s].pre = set_msg_bitmap(k) /\ ex'[s].post = set_msg_bitmap(k)
           /\ ex'[s].want = set_msg_bitmap(k) /\ ex'[s].got = {}
           /\ "COMPLETE" \in ex'[s].st <=> "COMPLETE" \in k.opt
           /\ "PRE" \in ex'[s].st
           /\ ex'[s].st \cap {"CANCEL", "FAIL", "PENDING", "RUN"} = {}
           /\ \A t \in Slot \ {s} : ex'[t] = ex[t]
<1> DEFINE w == IF own THEN {"OWNER_REQ"}
                ELSE IF k.src \in dispr.bitmap \/ (k.src = Ctrl /\ dispr.started)
                THEN {"OWNER_BK"} ELSE {}
           f == {"PRE"} \cup k.opt \cup w \cup flags
           b == set_msg_bitmap(k)
           z == [st |-> f, mid |-> hist.nmsg + 1, kind |-> k, pre |-> b, post |-> b,
                 want |-> b, got |-> {}]
<1>1. ex' = [ex EXCEPT ![s] = z]
  BY DEF FillMsg
<1>2. k.opt \subseteq {"COMPLETE", "CLR_SNDR", "PEND_IO"} /\ k.list \subseteq Mdl
  BY DEF Kind
<1>3. /\ f \subseteq Flag /\ "PRE" \in f /\ ("COMPLETE" \in f <=> "COMPLETE" \in k.opt)
      /\ f \cap {"CANCEL", "FAIL", "PENDING", "RUN"} = {}
  BY <1>2 DEF Flag
<1>4. b \subseteq Mdl
  BY <1>2 DEF set_msg_bitmap, Dispatcher
<1>5. hist.nmsg + 1 \in 0..MaxMsg
  BY MsgConstAssumption DEF History
<1> HIDE DEF f, b
<1>6. z \in MsgEx
  BY <1>3, <1>4, <1>5 DEF MsgEx
<1>7. /\ z.mid = hist.nmsg + 1 /\ z.kind = k /\ z.pre = b /\ z.post = b /\ z.want = b
      /\ z.got = {} /\ z.st = f
  OBVIOUS
<1> HIDE DEF z
<1>8. ex' \in [Slot -> MsgEx] /\ ex'[s] = z /\ \A t \in Slot \ {s} : ex'[t] = ex[t]
  BY <1>1, <1>6
<1> QED
  BY <1>3, <1>7, <1>8 DEF b

(* The bookkeeping of a new message. *)
LEMMA Counted ==
    ASSUME hist \in History, hist.nmsg < MaxMsg, NEW k, NewMsg(k)
    PROVE  /\ hist' \in History /\ hist.nmsg + 1 \in Msg
           /\ hist'.nmsg = hist.nmsg + 1 /\ hist'.done = hist.done
           /\ hist'.owed = IF "COMPLETE" \in k.opt THEN hist.owed \cup {hist.nmsg + 1}
                           ELSE hist.owed
           /\ hist'.late = IF bk.pc = "done" THEN hist.late \cup {hist.nmsg + 1}
                           ELSE hist.late
<1>1. hist.nmsg + 1 \in 0..MaxMsg /\ hist.nmsg + 1 \in Msg
  BY MsgConstAssumption DEF History, Msg
<1> DEFINE o == IF "COMPLETE" \in k.opt THEN hist.owed \cup {hist.nmsg + 1} ELSE hist.owed
           l == IF bk.pc = "done" THEN hist.late \cup {hist.nmsg + 1} ELSE hist.late
<1>2. o \in SUBSET Msg /\ l \in SUBSET Msg
  BY <1>1 DEF History
<1>3. hist' = [hist EXCEPT !.nmsg = hist.nmsg + 1, !.owed = o, !.late = l]
  BY DEF NewMsg
<1> HIDE DEF o, l
<1>4. /\ hist' \in History /\ hist'.nmsg = hist.nmsg + 1 /\ hist'.done = hist.done
      /\ hist'.owed = o /\ hist'.late = l
  BY <1>1, <1>2, <1>3 DEF History
<1> QED
  BY <1>1, <1>4 DEF o, l

(* The pool is finite. *)
LEMMA SlotsFinite == IsFiniteSet(Slot) /\ Cardinality(Slot) = NMsg
  BY MsgConstAssumption, FS_Interval DEF Slot

(* Canceling several messages changes flags and maps. *)
LEMMA AllCanceled ==
    ASSUME ex \in [Slot -> MsgEx], NEW S, NEW cleared, CancelAll(S, cleared)
    PROVE  /\ ex' \in [Slot -> MsgEx]
           /\ \A s \in Slot : /\ s \notin S => ex'[s] = ex[s]
                              /\ s \in S => /\ ex'[s].pre = {} /\ ex'[s].post = {}
                                            /\ ex'[s].st = (ex[s].st \cup {"CANCEL"}) \ cleared
                              /\ ex'[s].mid = ex[s].mid /\ ex'[s].kind = ex[s].kind
                              /\ ex'[s].want = ex[s].want /\ ex'[s].got = ex[s].got
<1> DEFINE z(s) == [ex[s] EXCEPT !.pre = {}, !.post = {},
                                 !.st = (ex[s].st \cup {"CANCEL"}) \ cleared]
<1>1. ex' = [s \in Slot |-> IF s \in S THEN z(s) ELSE ex[s]]
  BY DEF CancelAll
<1>2. ASSUME NEW s \in Slot
      PROVE  /\ z(s) \in MsgEx /\ z(s).pre = {} /\ z(s).post = {}
             /\ z(s).st = (ex[s].st \cup {"CANCEL"}) \ cleared
             /\ z(s).mid = ex[s].mid /\ z(s).kind = ex[s].kind
             /\ z(s).want = ex[s].want /\ z(s).got = ex[s].got
  <2>1. ex[s] \in MsgEx
    OBVIOUS
  <2> QED
    BY <2>1 DEF MsgEx, Flag
<1> HIDE DEF z
<1> QED
  BY <1>1, <1>2

(* A module accepts a message: its bit goes, and it is in the history. *)
LEMMA Accepted ==
    ASSUME NEW x \in MsgEx, Fed \in Source
    PROVE  /\ ClearBit(x) \in MsgEx
           /\ ClearBit(x).st = x.st /\ ClearBit(x).mid = x.mid /\ ClearBit(x).kind = x.kind
           /\ ClearBit(x).want = x.want
           /\ ClearBit(x).got = x.got \cup {<<Fed, PhaseOf(x)>>}
           /\ ClearBit(x).pre = IF "PRE" \in x.st THEN x.pre \ {Fed} ELSE x.pre
           /\ ClearBit(x).post = IF "PRE" \in x.st THEN x.post ELSE x.post \ {Fed}
<1> DEFINE g == x.got \cup {<<Fed, PhaseOf(x)>>}
           p == IF "PRE" \in x.st THEN x.pre \ {Fed} ELSE x.pre
           q == IF "PRE" \in x.st THEN x.post ELSE x.post \ {Fed}
<1>1. ClearBit(x) = [x EXCEPT !.got = g, !.pre = p, !.post = q]
  BY DEF ClearBit, Handled, PhaseOf, MsgEx
<1>2. g \subseteq Source \X {"pre", "post"}
  BY DEF MsgEx, PhaseOf
<1>3. p \subseteq Mdl /\ q \subseteq Mdl
  BY DEF MsgEx
<1> HIDE DEF g, p, q
<1>4. /\ [x EXCEPT !.got = g, !.pre = p, !.post = q] \in MsgEx
      /\ [x EXCEPT !.got = g, !.pre = p, !.post = q].got = g
      /\ [x EXCEPT !.got = g, !.pre = p, !.post = q].pre = p
      /\ [x EXCEPT !.got = g, !.pre = p, !.post = q].post = q
      /\ [x EXCEPT !.got = g, !.pre = p, !.post = q].st = x.st
      /\ [x EXCEPT !.got = g, !.pre = p, !.post = q].mid = x.mid
      /\ [x EXCEPT !.got = g, !.pre = p, !.post = q].kind = x.kind
      /\ [x EXCEPT !.got = g, !.pre = p, !.post = q].want = x.want
  BY <1>2, <1>3 DEF MsgEx
<1> QED
  BY <1>1, <1>4 DEF g, p, q

(* The visits that are left when the walk goes on to the next module. *)
LEMMA RestToFeed ==
    ASSUME bk.todo \in Seq((Mdl \cup {Ctrl}) \X BOOLEAN), ToFeed # {}
    PROVE  LET n == Min(ToFeed)
               r == SubSeq(bk.todo, n, Len(bk.todo))
           IN  /\ n \in ToFeed /\ n \in 1..Len(bk.todo) /\ \A i \in ToFeed : n =< i
               /\ r \in Seq((Mdl \cup {Ctrl}) \X BOOLEAN)
               /\ r # <<>> /\ Len(r) = Len(bk.todo) - n + 1
               /\ \A i \in 1..Len(r) : r[i] = bk.todo[n + i - 1]
<1> DEFINE n == Min(ToFeed)
           q == bk.todo
           S == (Mdl \cup {Ctrl}) \X BOOLEAN
           r == SubSeq(q, n, Len(q))
<1>1. Len(q) \in Nat /\ ToFeed \in SUBSET (1..Len(q))
  BY DEF ToFeed
<1>2. n \in ToFeed /\ \A i \in ToFeed : n =< i
  BY <1>1, LeastPosition
<1>3. n \in 1..Len(q)
  BY <1>1, <1>2
<1>4. q \in Seq(S)
  OBVIOUS
<1> HIDE DEF n, q, S
<1>5. r \in Seq(S) /\ Len(r) = Len(q) - n + 1 /\ \A i \in 1..Len(r) : r[i] = q[n + i - 1]
  BY <1>3, <1>4
<1> HIDE DEF r
<1>6. r # <<>>
  <2>1. Len(r) >= 1
    BY <1>1, <1>3, <1>5
  <2>2. Len(<<>>) = 0
    OBVIOUS
  <2> QED
    BY <2>1, <2>2
<1> QED
  BY <1>2, <1>3, <1>5, <1>6 DEF n, q, S, r

(* module_q of a priority has the modules of that priority. *)
LEMMA ModuleQueues ==
    ASSUME NEW i
    PROVE  /\ module_q(i) \in Seq(Mdl)
           /\ ToSet(module_q(i)) = {m \in Mdl : Prio[m] = i}
<1> DEFINE P == Positions(ModuleQ, {m \in Mdl : Prio[m] = i})
<1>1. ModuleQ \in Seq(Mdl)
  BY MsgConstAssumption
<1>2. P \in SUBSET DOMAIN ModuleQ
  BY DEF Positions
<1>3. module_q(i) = Sublist(ModuleQ, P)
  BY DEF module_q
<1>4. module_q(i) \in Seq(Mdl) /\ ToSet(module_q(i)) = {ModuleQ[p] : p \in P}
  BY <1>1, <1>2, <1>3, SublistProps
<1>5. {ModuleQ[p] : p \in P} = {m \in Mdl : Prio[m] = i}
  <2>1. \A m \in Mdl : \E p \in DOMAIN ModuleQ : ModuleQ[p] = m
    BY DEF Mdl, ToSet
  <2> QED
    BY <1>1, <2>1 DEF Positions
<1> QED
  BY <1>4, <1>5

(* The visits of a phase are visits of modules. *)
LEMMA OrderType ==
    ASSUME NEW x
    PROVE  /\ PreOrder(x) \in Seq((Mdl \cup {Ctrl}) \X BOOLEAN)
           /\ PostOrder(x) \in Seq((Mdl \cup {Ctrl}) \X BOOLEAN)
<1> DEFINE S == (Mdl \cup {Ctrl}) \X BOOLEAN
<1>1. ASSUME NEW q \in Seq(Mdl) PROVE Visits(x, q) \in Seq(S)
  <2> DEFINE o == IF "OWNER_BK" \in x.st /\ x.kind.src \in ToSet(q)
                  THEN <<<<x.kind.src, TRUE>>>> ELSE <<>>
             v == [j \in DOMAIN q |-> <<q[j], FALSE>>]
  <2>1. ToSet(q) \subseteq Mdl
    BY ToSetType
  <2>2. o \in Seq(S)
    <3>1. \A e \in S : <<e>> \in Seq(S)
      <4> HIDE DEF S
      <4> QED
        OBVIOUS
    <3>2. x.kind.src \in ToSet(q) => <<x.kind.src, TRUE>> \in S
      BY <2>1
    <3> HIDE DEF S
    <3>3. <<>> \in Seq(S)
      OBVIOUS
    <3> QED
      BY <3>1, <3>2, <3>3, Zenon
  <2>3. v \in Seq(S)
    <3> DEFINE e(j) == <<q[j], FALSE>>
    <3>1. DOMAIN q = 1..Len(q) /\ Len(q) \in Nat /\ \A j \in 1..Len(q) : q[j] \in Mdl
      OBVIOUS
    <3>2. \A j \in 1..Len(q) : e(j) \in S
      BY <3>1
    <3>3. v = [j \in 1..Len(q) |-> e(j)]
      BY <3>1
    <3> HIDE DEF e, S, v
    <3> QED
      BY <3>1, <3>2, <3>3
  <2> HIDE DEF o, v, S
  <2>4. o \o v \in Seq(S)
    BY <2>2, <2>3
  <2> QED
    BY <2>4 DEF Visits, o, v
<1>2. \A i \in 0..2 : module_q(i) \in Seq(Mdl)
  BY ModuleQueues
<1>3. \A i \in 0..2 : Reverse(module_q(i)) \in Seq(Mdl)
  BY <1>2, ReverseProps
<1> DEFINE a(i) == Visits(x, module_q(i))
           b(i) == Visits(x, Reverse(module_q(i)))
<1>4. \A i \in 0..2 : a(i) \in Seq(S) /\ b(i) \in Seq(S)
  BY <1>1, <1>2, <1>3
<1> HIDE DEF S, a, b
<1>5. (a(2) \o a(1)) \o a(0) \in Seq(S) /\ (b(0) \o b(1)) \o b(2) \in Seq(S)
  BY <1>4
<1> QED
  BY <1>5 DEF PreOrder, PostOrder, a, b, S

(* cancel_msg empties a map or sets CANCEL. *)
LEMMA CancelMarks ==
    ASSUME TypeInv, NEW c \in Sender, cancel_msg(c)
    PROVE  LET s == snd[c].slot
           IN  /\ s \in Slot /\ ex' \in [Slot -> MsgEx] /\ Marks /\ OthersSame(s)
               /\ \/ /\ snd[c].pc = "cxlpre" /\ ex'[s].pre = {}
                     /\ ex'[s].post = ex[s].post /\ ex'[s].st = ex[s].st
                  \/ /\ snd[c].pc = "cxlpost" /\ ex'[s].post = {}
                     /\ ex'[s].pre = ex[s].pre /\ ex'[s].st = ex[s].st
                  \/ /\ snd[c].pc = "cxlset" /\ ex'[s].st = ex[s].st \cup {"CANCEL"}
                     /\ ex'[s].pre = ex[s].pre /\ ex'[s].post = ex[s].post
<1> DEFINE s == snd[c].slot
<1>1. \/ snd[c].pc = "cxlpre" /\ ex' = [ex EXCEPT ![s].pre = {}]
      \/ snd[c].pc = "cxlpost" /\ ex' = [ex EXCEPT ![s].post = {}]
      \/ snd[c].pc = "cxlset" /\ ex' = [ex EXCEPT ![s].st = @ \cup {"CANCEL"}]
  BY DEF cancel_msg
<1>2. s \in Slot /\ ex \in [Slot -> MsgEx] /\ ex[s] \in MsgEx
  BY <1>1 DEF TypeInv, TypeOK, HandInv, SndState
<1> HIDE DEF s
<1>3. CASE snd[c].pc = "cxlpre" /\ ex' = [ex EXCEPT ![s].pre = {}]
  <2> DEFINE y == [ex[s] EXCEPT !.pre = {}]
  <2>1. ex' = [ex EXCEPT ![s] = y]
    BY <1>3
  <2>2. /\ y \in MsgEx /\ y.st = ex[s].st /\ y.mid = ex[s].mid /\ y.kind = ex[s].kind
        /\ y.want = ex[s].want /\ y.got = ex[s].got
        /\ y.pre = {} /\ y.post = ex[s].post
    BY <1>2 DEF MsgEx
  <2> HIDE DEF y
  <2>3. Same(ex[s], y)
    BY <2>2 DEF Same, SameFlags
  <2>4. ex' \in [Slot -> MsgEx] /\ Marks /\ OthersSame(s) /\ ex'[s] = y
    BY <1>2, <2>1, <2>2, <2>3, Remarked
  <2> QED
    BY <1>2, <1>3, <2>2, <2>4 DEF s
<1>4. CASE snd[c].pc = "cxlpost" /\ ex' = [ex EXCEPT ![s].post = {}]
  <2> DEFINE y == [ex[s] EXCEPT !.post = {}]
  <2>1. ex' = [ex EXCEPT ![s] = y]
    BY <1>4
  <2>2. /\ y \in MsgEx /\ y.st = ex[s].st /\ y.mid = ex[s].mid /\ y.kind = ex[s].kind
        /\ y.want = ex[s].want /\ y.got = ex[s].got
        /\ y.post = {} /\ y.pre = ex[s].pre
    BY <1>2 DEF MsgEx
  <2> HIDE DEF y
  <2>3. Same(ex[s], y)
    BY <2>2 DEF Same, SameFlags
  <2>4. ex' \in [Slot -> MsgEx] /\ Marks /\ OthersSame(s) /\ ex'[s] = y
    BY <1>2, <2>1, <2>2, <2>3, Remarked
  <2> QED
    BY <1>2, <1>4, <2>2, <2>4 DEF s
<1>5. CASE snd[c].pc = "cxlset" /\ ex' = [ex EXCEPT ![s].st = @ \cup {"CANCEL"}]
  <2> DEFINE f == ex[s].st \cup {"CANCEL"}
  <2>1. f \in SUBSET Flag /\ SameFlags(ex[s].st, f)
    BY <1>2 DEF MsgEx, Flag, SameFlags
  <2>2. ex' = [ex EXCEPT ![s].st = f]
    BY <1>5
  <2>3. f = ex[s].st \cup {"CANCEL"}
    OBVIOUS
  <2> HIDE DEF f
  <2>4. /\ ex' \in [Slot -> MsgEx] /\ Marks /\ OthersSame(s)
        /\ ex'[s].st = f /\ ex'[s].pre = ex[s].pre /\ ex'[s].post = ex[s].post
    BY <1>2, <2>1, <2>2, Flagged
  <2> QED
    BY <1>2, <1>5, <2>3, <2>4 DEF s
<1> QED
  BY <1>1, <1>3, <1>4, <1>5

(* CheckMsg sets CANCEL and ends the message, or keeps the bits of loaded  *)
(* modules.                                                                *)
LEMMA CheckMarks ==
    ASSUME TypeInv, CheckMsg
    PROVE  /\ bk.msg \in Slot /\ ex' \in [Slot -> MsgEx] /\ Marks /\ OthersSame(bk.msg)
           /\ \/ /\ bk'.pc = "compl" /\ ex'[bk.msg].pre = ex[bk.msg].pre
                 /\ ex'[bk.msg].post = ex[bk.msg].post
                 /\ dispr.started => "CANCEL" \in ex'[bk.msg].st
              \/ /\ bk'.pc = "redir" /\ bk'.ph = "ctrl"
                 /\ ex'[bk.msg].pre = ex[bk.msg].pre \cap dispr.bitmap
                 /\ ex'[bk.msg].post = ex[bk.msg].post \cap dispr.bitmap
                 /\ "CANCEL" \in ex'[bk.msg].st => "CANCEL" \in ex[bk.msg].st
<1>1. bk.pc = "chk" /\ bk \in BkState
  BY DEF CheckMsg, TypeInv, TypeOK
<1>2. bk.msg \in Slot /\ ex \in [Slot -> MsgEx] /\ ex[bk.msg] \in MsgEx
  BY <1>1 DEF TypeInv, TypeOK, HandInv, InHand, BkState
<1> DEFINE y == ex[bk.msg]
           f == IF Dropped THEN y.st ELSE y.st \cup {"CANCEL"}
           h == IF NoIo THEN y.st \cup {"PENDING"} ELSE y.st
           p == y.pre \cap dispr.bitmap
           r == y.post \cap dispr.bitmap
<1>3. /\ f \in SUBSET Flag /\ SameFlags(y.st, f)
      /\ h \in SUBSET Flag /\ SameFlags(y.st, h)
      /\ p \in SUBSET y.pre /\ r \in SUBSET y.post
      /\ "CANCEL" \in h => "CANCEL" \in y.st
  BY <1>2 DEF MsgEx, Flag, SameFlags
<1>4. dispr.started => "CANCEL" \in f
  BY DEF Dropped, Has, cur_msg
<1>5. \/ ex' = [ex EXCEPT ![bk.msg].st = f] /\ bk' = [bk EXCEPT !.pc = "compl"]
      \/ /\ ex' = [ex EXCEPT ![bk.msg] = [ex[bk.msg] EXCEPT !.st = h, !.pre = p, !.post = r]]
         /\ bk' = [bk EXCEPT !.pc = "redir", !.ph = "ctrl"]
  BY DEF CheckMsg, Checked, Goto
<1>6. p = y.pre \cap dispr.bitmap /\ r = y.post \cap dispr.bitmap
  OBVIOUS
<1> HIDE DEF f, h, p, r
<1>7. CASE ex' = [ex EXCEPT ![bk.msg].st = f] /\ bk' = [bk EXCEPT !.pc = "compl"]
  <2>1. /\ ex' \in [Slot -> MsgEx] /\ Marks /\ OthersSame(bk.msg)
        /\ ex'[bk.msg].st = f /\ ex'[bk.msg].pre = y.pre /\ ex'[bk.msg].post = y.post
    BY <1>2, <1>3, <1>7, Flagged
  <2>2. bk'.pc = "compl"
    BY <1>1, <1>7 DEF BkState
  <2> QED
    BY <1>2, <1>4, <2>1, <2>2
<1>8. CASE /\ ex' = [ex EXCEPT ![bk.msg] = [ex[bk.msg] EXCEPT !.st = h, !.pre = p, !.post = r]]
           /\ bk' = [bk EXCEPT !.pc = "redir", !.ph = "ctrl"]
  <2> DEFINE z == [ex[bk.msg] EXCEPT !.st = h, !.pre = p, !.post = r]
  <2>a. ex' = [ex EXCEPT ![bk.msg] = z]
    BY <1>8
  <2>b. p \subseteq Mdl /\ r \subseteq Mdl
    BY <1>2, <1>3 DEF MsgEx
  <2>c. /\ z \in MsgEx /\ z.st = h /\ z.mid = y.mid /\ z.kind = y.kind
        /\ z.want = y.want /\ z.got = y.got /\ z.pre = p /\ z.post = r
    BY <1>2, <1>3, <2>b DEF MsgEx
  <2> HIDE DEF z
  <2>d. Same(ex[bk.msg], z)
    BY <1>3, <2>c DEF Same
  <2>1. /\ ex' \in [Slot -> MsgEx] /\ Marks /\ OthersSame(bk.msg)
        /\ ex'[bk.msg].st = h /\ ex'[bk.msg].pre = p /\ ex'[bk.msg].post = r
    BY <1>2, <2>a, <2>c, <2>d, Remarked
  <2>2. bk'.pc = "redir" /\ bk'.ph = "ctrl"
    BY <1>1, <1>8 DEF BkState
  <2> QED
    BY <1>2, <1>3, <1>6, <2>1, <2>2
<1> QED
  BY <1>5, <1>7, <1>8

(* cur_req_hdl sets CANCEL or leaves the entry as it is. *)
LEMMA ReqMarks ==
    ASSUME TypeInv, cur_req_hdl
    PROVE  /\ bk.msg \in Slot /\ ex' \in [Slot -> MsgEx] /\ Marks /\ OthersSame(bk.msg)
           /\ ex'[bk.msg].pre = ex[bk.msg].pre /\ ex'[bk.msg].post = ex[bk.msg].post
           /\ \/ bk'.pc = "compl" /\ "CANCEL" \in ex'[bk.msg].st
              \/ bk'.pc \in {"reqhdl", "compl"} /\ ex' = ex /\ cur_msg.post = {}
<1>1. bk.pc = "redir" /\ bk \in BkState
  BY DEF cur_req_hdl, NextPart, TypeInv, TypeOK
<1>2. bk.msg \in Slot /\ ex \in [Slot -> MsgEx] /\ ex[bk.msg] \in MsgEx
  BY <1>1 DEF TypeInv, TypeOK, HandInv, InHand, BkState
<1> DEFINE f == ex[bk.msg].st \cup {"CANCEL"}
<1>3. f \in SUBSET Flag /\ SameFlags(ex[bk.msg].st, f) /\ "CANCEL" \in f
  BY <1>2 DEF MsgEx, Flag, SameFlags
<1>4. \/ ex' = [ex EXCEPT ![bk.msg].st = f] /\ bk' = [bk EXCEPT !.pc = "compl"]
      \/ /\ ex' = ex /\ cur_msg.post = {}
         /\ \E p \in {"reqhdl", "compl"} : bk' = [bk EXCEPT !.pc = p]
  BY DEF cur_req_hdl, InvalidBitmap, Goto
<1> HIDE DEF f
<1>5. CASE ex' = [ex EXCEPT ![bk.msg].st = f] /\ bk' = [bk EXCEPT !.pc = "compl"]
  <2>1. /\ ex' \in [Slot -> MsgEx] /\ Marks /\ OthersSame(bk.msg) /\ ex'[bk.msg].st = f
        /\ ex'[bk.msg].pre = ex[bk.msg].pre /\ ex'[bk.msg].post = ex[bk.msg].post
    BY <1>2, <1>3, <1>5, Flagged
  <2>2. bk'.pc = "compl"
    BY <1>1, <1>5 DEF BkState
  <2> QED
    BY <1>2, <1>3, <2>1, <2>2
<1>6. CASE /\ ex' = ex /\ cur_msg.post = {}
           /\ \E p \in {"reqhdl", "compl"} : bk' = [bk EXCEPT !.pc = p]
  <2>1. bk'.pc \in {"reqhdl", "compl"}
    BY <1>1, <1>6 DEF BkState
  <2>2. ex' \in [Slot -> MsgEx] /\ Marks /\ OthersSame(bk.msg)
    BY <1>2, <1>6, UnchangedMarks, MarksKeep DEF OthersSame
  <2> QED
    BY <1>2, <1>6, <2>1, <2>2
<1> QED
  BY <1>4, <1>5, <1>6

(* The other actions that mark entries do so plainly. *)
LEMMA PlainSteps ==
    ASSUME TypeInv,
           \/ \E c \in Sender : push_back_wait_msg(c)
           \/ push_back_pending_msg \/ notify_msg_fail \/ HdlPends
           \/ dispr_thread_loop_hdl \/ clear_waiting_msg
           \/ deregister_cur_cmd_req \/ cancel_running_msg
    PROVE  ex' \in [Slot -> MsgEx] /\ PlainMarks
<1>e. ex \in [Slot -> MsgEx] /\ snd \in [Sender -> SndState] /\ waitQ \in Seq(Slot)
  BY DEF TypeInv, TypeOK
<1>g. bk.pc \in InHand => bk.msg \in Slot
  BY DEF TypeInv, TypeOK, HandInv, BkState
<1>1. ASSUME NEW c \in Sender, push_back_wait_msg(c) PROVE ex' \in [Slot -> MsgEx] /\ PlainMarks
  <2> DEFINE s == snd[c].slot
             f == (ex[s].st \cup {"ENQ"}) \ {"RUN"}
  <2>1. s \in Slot /\ ex[s] \in MsgEx
    BY <1>1, <1>e DEF push_back_wait_msg, TypeInv, HandInv, SndState
  <2>2. ex' = [ex EXCEPT ![s].st = f]
    BY <1>1 DEF push_back_wait_msg
  <2> HIDE DEF s
  <2>3. /\ f \in SUBSET Flag /\ SameFlags(ex[s].st, f)
        /\ "CANCEL" \in f => "CANCEL" \in ex[s].st
    BY <2>1 DEF MsgEx, Flag, SameFlags
  <2> HIDE DEF f
  <2> QED
    BY <1>e, <2>1, <2>2, <2>3, PlainFlags
<1>2. ASSUME push_back_pending_msg PROVE ex' \in [Slot -> MsgEx] /\ PlainMarks
  <2> DEFINE s == bk.msg
             f == (ex[s].st \cup {"ENQ"}) \ {"RUN"}
  <2>1. s \in Slot /\ ex[s] \in MsgEx
    BY <1>2, <1>e, <1>g DEF push_back_pending_msg, Pended, InHand
  <2>2. ex' = [ex EXCEPT ![s].st = f]
    BY <1>2 DEF push_back_pending_msg, Pended
  <2> HIDE DEF s
  <2>3. /\ f \in SUBSET Flag /\ SameFlags(ex[s].st, f)
        /\ "CANCEL" \in f => "CANCEL" \in ex[s].st
    BY <2>1 DEF MsgEx, Flag, SameFlags
  <2> HIDE DEF f
  <2> QED
    BY <1>e, <2>1, <2>2, <2>3, PlainFlags
<1>3. ASSUME notify_msg_fail PROVE ex' \in [Slot -> MsgEx] /\ PlainMarks
  <2> DEFINE s == bk.msg
             f == ex[s].st \cup {"FAIL"}
  <2>1. s \in Slot /\ ex[s] \in MsgEx
    BY <1>3, <1>e, <1>g DEF notify_msg_fail, HdlStops, InHand
  <2>2. ex' = [ex EXCEPT ![s].st = f]
    BY <1>3 DEF notify_msg_fail, HdlStops
  <2> HIDE DEF s
  <2>3. /\ f \in SUBSET Flag /\ SameFlags(ex[s].st, f)
        /\ "CANCEL" \in f => "CANCEL" \in ex[s].st
    BY <2>1 DEF MsgEx, Flag, SameFlags
  <2> HIDE DEF f
  <2> QED
    BY <1>e, <2>1, <2>2, <2>3, PlainFlags
<1>4. ASSUME HdlPends PROVE ex' \in [Slot -> MsgEx] /\ PlainMarks
  <2> DEFINE s == bk.msg
             f == ex[s].st \cup {"PENDING"}
  <2>1. s \in Slot /\ ex[s] \in MsgEx
    BY <1>4, <1>e, <1>g DEF HdlPends, HdlStops, InHand
  <2>2. ex' = [ex EXCEPT ![s].st = f]
    BY <1>4 DEF HdlPends, HdlStops
  <2> HIDE DEF s
  <2>3. /\ f \in SUBSET Flag /\ SameFlags(ex[s].st, f)
        /\ "CANCEL" \in f => "CANCEL" \in ex[s].st
    BY <2>1 DEF MsgEx, Flag, SameFlags
  <2> HIDE DEF f
  <2> QED
    BY <1>e, <2>1, <2>2, <2>3, PlainFlags
<1>5. ASSUME waitQ # <<>>, pop_front_wait_msg PROVE ex' \in [Slot -> MsgEx] /\ PlainMarks
  <2> DEFINE s == Head(waitQ)
             f == (ex[s].st \cup {"RUN"}) \ {"ENQ", "PENDING"}
  <2>1. s \in Slot /\ ex[s] \in MsgEx
    BY <1>5, <1>e, TailToSet
  <2>2. ex' = [ex EXCEPT ![s].st = f]
    BY <1>5 DEF pop_front_wait_msg
  <2> HIDE DEF s
  <2>3. /\ f \in SUBSET Flag /\ SameFlags(ex[s].st, f)
        /\ "CANCEL" \in f => "CANCEL" \in ex[s].st
    BY <2>1 DEF MsgEx, Flag, SameFlags
  <2> HIDE DEF f
  <2> QED
    BY <1>e, <2>1, <2>2, <2>3, PlainFlags
<1>6. ASSUME dispr_thread_loop_hdl \/ clear_waiting_msg
      PROVE  ex' \in [Slot -> MsgEx] /\ PlainMarks
  <2>1. ex' = ex \/ (waitQ # <<>> /\ pop_front_wait_msg)
    BY <1>6 DEF dispr_thread_loop_hdl, clear_waiting_msg
  <2> QED
    BY <2>1, <1>5, <1>e, UnchangedMarks
<1>7. ASSUME NEW S, NEW cleared \in {{}, {"OWNER_REQ"}}, CancelAll(S, cleared)
      PROVE  ex' \in [Slot -> MsgEx] /\ PlainMarks
  <2>1. /\ ex' \in [Slot -> MsgEx]
        /\ \A s \in Slot : /\ s \notin S => ex'[s] = ex[s]
                           /\ s \in S => /\ ex'[s].pre = {} /\ ex'[s].post = {}
                                         /\ ex'[s].st = (ex[s].st \cup {"CANCEL"}) \ cleared
                           /\ ex'[s].mid = ex[s].mid /\ ex'[s].kind = ex[s].kind
                           /\ ex'[s].want = ex[s].want /\ ex'[s].got = ex[s].got
    BY <1>7, <1>e, AllCanceled
  <2>2. ASSUME NEW s \in Slot PROVE Plain(ex[s], ex'[s])
    <3>1. CASE s \in S
      <4>1. SameFlags(ex[s].st, ex'[s].st) /\ "CANCEL" \in ex'[s].st
        BY <2>1, <3>1, <1>7 DEF SameFlags
      <4> QED
        BY <2>1, <3>1, <4>1 DEF Plain, Same
    <3>2. CASE s \notin S
      BY <2>1, <3>2 DEF Plain, Same, SameFlags
    <3> QED
      BY <3>1, <3>2
  <2> QED
    BY <2>1, <2>2 DEF PlainMarks
<1>8. ASSUME deregister_cur_cmd_req \/ cancel_running_msg
      PROVE  ex' \in [Slot -> MsgEx] /\ PlainMarks
  <2>1. ex' = ex \/ \E S : CancelAll(S, {}) \/ CancelAll(S, {"OWNER_REQ"})
    BY <1>8 DEF deregister_cur_cmd_req, cancel_running_msg
  <2> QED
    BY <2>1, <1>7, <1>e, UnchangedMarks
<1> QED
  BY <1>1, <1>2, <1>3, <1>4, <1>6, <1>8

-----------------------------------------------------------------------------
(* The actions. *)

(* Every step is a move, and keeps the types and the wakeups. *)
LEMMA Steps ==
    ASSUME TypeInv, WakeInv, [Next]_vars
    PROVE  TypeInv' /\ Moves /\ EvtStep /\ WakeInv' /\ Bystanders
<1>e. ex \in [Slot -> MsgEx]
  BY DEF TypeInv, TypeOK
<1>q. idleQ \in Seq(Slot) /\ waitQ \in Seq(Slot) /\ pendQ \in Seq(Slot)
  BY DEF TypeInv, TypeOK
<1>d. dispr \in Dispatcher
  BY DEF TypeInv, TypeOK
<1>m. sema \in Nat
  BY DEF TypeInv, TypeOK
<1>p. epc \in EnginePc
  BY DEF TypeInv, TypeOK
<1>b. bk \in BkState
  BY DEF TypeInv, TypeOK
<1>s. snd \in [Sender -> SndState]
  BY DEF TypeInv, TypeOK
<1>h. hist \in History
  BY DEF TypeInv, TypeOK
<1>i. HandInv
  BY DEF TypeInv
<1>c. None \notin Slot /\ Kinds \subseteq Kind
  BY MsgConstAssumption
<1>n. MaxMsg \in Nat /\ MaxCall \in Nat /\ MaxTok \in Nat /\ MaxPend \in Nat
  BY MsgConstAssumption
<1>g. bk.pc \in InHand => bk.msg \in Slot
  BY <1>b, <1>i DEF HandInv, BkState
<1>w. IsFiniteSet(Ups) /\ Cardinality(Ups) \in Nat /\ Len(waitQ) \in Nat
  BY <1>q, MsgConstAssumption, FS_Subset, FS_CardinalityType DEF Ups
<1>1. ASSUME NEW c \in Sender, Send(c) PROVE TypeInv' /\ Moves /\ EvtStep /\ WakeInv' /\ Bystanders
  <2>u. UNCHANGED <<ex, idleQ, waitQ, pendQ, dispr, sema, epc, bk, hist>>
    BY <1>1 DEF Send
  <2>f. snd[c].pc = "idle"
    BY <1>1 DEF Send
  <2>s. /\ snd' \in [Sender -> SndState] /\ \A d \in Sender \ {c} : snd'[d] = snd[d]
        /\ snd'[c].pc = "pop"
    <3>1. \E k \in Kinds : dispr_send_msg(c, k, "keep")
      BY <1>1 DEF Send
    <3> QED
      BY <3>1, <1>s, <1>c, SendBegins
  <2>i. HandInv'
    BY <2>u, <1>i, <1>c, <2>s DEF HandInv, InHand
  <2>t. TypeInv'
    BY <2>u, <2>i, <2>s, <1>e, <1>q, <1>d, <1>m, <1>p, <1>b, <1>h DEF TypeInv, TypeOK
  <2>k. SameTaken(Sender)
    BY <2>f, <2>s, <2>u DEF SameTaken, Taken
  <2>c. SameCounts
    BY <2>u DEF SameCounts
  <2>x. SameMsgs
    BY <2>u DEF SameMsgs, SameMsg
  <2>l. Quiet
    BY <2>u, <2>k, <2>x, <2>c DEF Quiet, SameEnd
  <2>v. Moves
    BY <2>l DEF Moves
  <2>e. EvtStep
    BY <2>u DEF EvtStep
  <2>w. Cardinality(Ups') = Cardinality(Ups)
    <3>1. Ups' = Ups
      BY <2>f, <2>s DEF Ups
    <3> QED
      BY <3>1
  <2>z. WakeInv'
    BY <2>u, <2>w, <1>w, <1>m DEF WakeInv, BeforePop, Stopped
  <2>A. CallStep
    BY <2>u, <2>f, <2>s DEF CallStep, Canceling
  <2>B. LeaveStep
    BY <2>u DEF LeaveStep, Stopped
  <2>C. UpStep
    BY <2>u DEF UpStep
  <2> QED
    BY <2>A, <2>B, <2>C, <2>e, <2>t, <2>v, <2>z DEF Bystanders
<1>2. ASSUME NEW c \in Sender, PopIdle(c) PROVE TypeInv' /\ Moves /\ EvtStep /\ WakeInv' /\ Bystanders
  <2>u. UNCHANGED <<waitQ, pendQ, dispr, sema, epc, bk>>
    BY <1>2 DEF PopIdle
  <2>f. snd[c].pc = "pop"
    BY <1>2 DEF PopIdle
  <2>n. /\ idleQ # <<>> /\ Head(idleQ) \in Slot /\ Tail(idleQ) \in Seq(Slot)
        /\ hist.nmsg < MaxMsg
    <3>1. idleQ # <<>> /\ hist.nmsg < MaxMsg
      BY <1>2 DEF PopIdle
    <3> QED
      BY <3>1, <1>q, TailToSet
  <2>k. snd[c].kind \in Kind /\ snd[c].own \in BOOLEAN
    <3>1. snd[c] \in SndState
      BY <1>s
    <3> QED
      BY <3>1 DEF SndState
  <2>x. /\ ex' \in [Slot -> MsgEx] /\ ex'[Head(idleQ)].mid = hist.nmsg + 1
        /\ ex'[Head(idleQ)].kind = snd[c].kind
        /\ "COMPLETE" \in ex'[Head(idleQ)].st <=> "COMPLETE" \in snd[c].kind.opt
        /\ \A t \in Slot \ {Head(idleQ)} : ex'[t] = ex[t]
    <3>1. FillMsg(snd[c].kind, snd[c].own, {})
      BY <1>2 DEF PopIdle
    <3> QED
      BY <3>1, <2>n, <2>k, <1>e, <1>d, <1>h, Filled
  <2>h. /\ hist' \in History /\ hist.nmsg + 1 \in Msg
        /\ hist'.nmsg = hist.nmsg + 1 /\ hist'.done = hist.done
        /\ hist'.owed = IF "COMPLETE" \in snd[c].kind.opt THEN hist.owed \cup {hist.nmsg + 1}
                        ELSE hist.owed
        /\ hist'.late = IF bk.pc = "done" THEN hist.late \cup {hist.nmsg + 1} ELSE hist.late
    <3>1. NewMsg(snd[c].kind)
      BY <1>2 DEF PopIdle
    <3> QED
      BY <3>1, <2>n, <1>h, Counted
  <2>l. Gets(Head(idleQ), snd[c].kind)
    BY <2>x, <2>h DEF Gets
  <2>q. idleQ' = Tail(idleQ)
    BY <1>2 DEF PopIdle
  <2>s. /\ snd' \in [Sender -> SndState] /\ \A d \in Sender \ {c} : snd'[d] = snd[d]
        /\ snd'[c].pc = "push"
        /\ snd'[c].slot = Head(idleQ)
    <3>1. snd[c] \in SndState
      BY <1>s
    <3>2. PICK z \in {[snd[c] EXCEPT !.slot = Head(idleQ), !.pc = "push"]} :
                snd' = [snd EXCEPT ![c] = z]
      BY <1>2 DEF PopIdle
    <3>3. z \in SndState /\ z.pc = "push" /\ z.slot = Head(idleQ)
      BY <3>1, <3>2, <2>n DEF SndState, SndPc
    <3> QED
      BY <3>2, <3>3, <1>s
  <2>i. HandInv'
    BY <2>u, <1>i, <1>c, <2>s, <2>n DEF HandInv, InHand
  <2>t. TypeInv'
    BY <2>u, <2>i, <2>x, <2>h, <2>s, <2>q, <2>n, <1>q, <1>d, <1>m, <1>p, <1>b DEF TypeInv,
       TypeOK, Adds
  <2>o. Taken(c) = None /\ Taken(c)' = Head(idleQ) /\ SameTaken(Sender \ {c})
    BY <2>f, <2>s, <2>u DEF SameTaken, Taken
  <2>a. Fills(c)
    BY <2>k, <2>l, <2>n, <2>o, <2>q, <2>u DEF Fills
  <2>v. Moves
    BY <2>a DEF Moves
  <2>e. EvtStep
    BY <2>u DEF EvtStep
  <2>w. Cardinality(Ups') = Cardinality(Ups)
    <3>1. Ups' = Ups
      BY <2>f, <2>s DEF Ups
    <3> QED
      BY <3>1
  <2>z. WakeInv'
    BY <2>u, <2>w, <1>w, <1>m DEF WakeInv, BeforePop, Stopped
  <2>A. CallStep
    BY <2>u, <2>f, <2>s DEF CallStep, Canceling
  <2>B. LeaveStep
    BY <2>u DEF LeaveStep, Stopped
  <2>C. UpStep
    BY <2>u DEF UpStep
  <2> QED
    BY <2>A, <2>B, <2>C, <2>e, <2>t, <2>v, <2>z DEF Bystanders
<1>3. ASSUME NEW c \in Sender, NoIdleMsg(c) PROVE TypeInv' /\ Moves /\ EvtStep /\ WakeInv' /\ Bystanders
  <2>u. UNCHANGED <<ex, idleQ, waitQ, pendQ, dispr, sema, epc, bk, hist>>
    BY <1>3 DEF NoIdleMsg
  <2>f. snd[c].pc = "pop"
    BY <1>3 DEF NoIdleMsg
  <2>s. /\ snd' \in [Sender -> SndState] /\ \A d \in Sender \ {c} : snd'[d] = snd[d]
        /\ snd'[c].pc \in {"idle", "clr"}
    BY <1>3, <1>s, SendEnds DEF NoIdleMsg
  <2>i. HandInv'
    BY <2>u, <1>i, <1>c, <2>s DEF HandInv, InHand
  <2>t. TypeInv'
    BY <2>u, <2>i, <2>s, <1>e, <1>q, <1>d, <1>m, <1>p, <1>b, <1>h DEF TypeInv, TypeOK
  <2>k. SameTaken(Sender)
    BY <2>f, <2>s, <2>u DEF SameTaken, Taken
  <2>c. SameCounts
    BY <2>u DEF SameCounts
  <2>x. SameMsgs
    BY <2>u DEF SameMsgs, SameMsg
  <2>l. Quiet
    BY <2>u, <2>k, <2>x, <2>c DEF Quiet, SameEnd
  <2>v. Moves
    BY <2>l DEF Moves
  <2>e. EvtStep
    BY <2>u DEF EvtStep
  <2>w. Cardinality(Ups') = Cardinality(Ups)
    <3>1. Ups' = Ups
      BY <2>f, <2>s DEF Ups
    <3> QED
      BY <3>1
  <2>z. WakeInv'
    BY <2>u, <2>w, <1>w, <1>m DEF WakeInv, BeforePop, Stopped
  <2>A. CallStep
    BY <2>u, <2>f, <2>s DEF CallStep, Canceling
  <2>B. LeaveStep
    BY <2>u DEF LeaveStep, Stopped
  <2>C. UpStep
    BY <2>u DEF UpStep
  <2> QED
    BY <2>A, <2>B, <2>C, <2>e, <2>t, <2>v, <2>z DEF Bystanders
<1>4. ASSUME NEW c \in Sender, push_back_wait_msg(c) PROVE TypeInv' /\ Moves /\ EvtStep /\ WakeInv' /\ Bystanders
  <2>u. UNCHANGED <<idleQ, pendQ, dispr, sema, epc, bk, hist>>
    BY <1>4 DEF push_back_wait_msg
  <2>f. snd[c].pc = "push"
    BY <1>4 DEF push_back_wait_msg
  <2>g. snd[c].slot \in Slot
    BY <2>f, <1>s, <1>i DEF HandInv, SndState
  <2>q. Adds(waitQ, snd[c].slot, waitQ')
    <3>1. waitQ' = insert_msg_by_priority(waitQ, snd[c].slot)
      BY <1>4 DEF push_back_wait_msg
    <3> QED
      BY <3>1, <2>g, <1>q, Inserted DEF Adds
  <2>x. ex' \in [Slot -> MsgEx] /\ SameMsgs
    BY <1>4, PlainSteps, MarksKeep
  <2>s. /\ snd' \in [Sender -> SndState] /\ \A d \in Sender \ {c} : snd'[d] = snd[d]
        /\ snd'[c].pc = "up"
    <3>1. snd[c] \in SndState
      BY <1>s
    <3>2. PICK z \in {[snd[c] EXCEPT !.pc = "up"]} :
                snd' = [snd EXCEPT ![c] = z]
      BY <1>4 DEF push_back_wait_msg
    <3>3. z \in SndState /\ z.pc = "up"
      BY <3>1, <3>2 DEF SndState, SndPc
    <3> QED
      BY <3>2, <3>3, <1>s
  <2>i. HandInv'
    BY <2>u, <1>i, <1>c, <2>s DEF HandInv, InHand
  <2>t. TypeInv'
    BY <2>u, <2>i, <2>x, <2>s, <2>q, <1>q, <1>d, <1>m, <1>p, <1>b, <1>h DEF TypeInv, TypeOK,
       Adds
  <2>o. Taken(c) = snd[c].slot /\ Taken(c)' = None /\ SameTaken(Sender \ {c})
    BY <2>f, <2>s, <2>u DEF SameTaken, Taken
  <2>c. SameCounts
    BY <2>u DEF SameCounts
  <2>a. Links(c)
    BY <2>c, <2>g, <2>o, <2>q, <2>u, <2>x DEF Links
  <2>v. Moves
    BY <2>a DEF Moves
  <2>e. EvtStep
    BY <2>u DEF EvtStep
  <2>w. Cardinality(Ups') = Cardinality(Ups) + 1
    <3>1. Ups' = Ups \cup {c} /\ c \notin Ups
      BY <2>f, <2>s DEF Ups
    <3> QED
      BY <3>1, <1>w, FS_AddElement
  <2>z. WakeInv'
    BY <2>u, <2>w, <1>w, <1>m, <2>q DEF WakeInv, BeforePop, Stopped, Adds
  <2>A. CallStep
    BY <2>u, <2>f, <2>s DEF CallStep, Canceling
  <2>B. LeaveStep
    BY <2>u DEF LeaveStep, Stopped
  <2>C. UpStep
    BY <2>u DEF UpStep
  <2> QED
    BY <2>A, <2>B, <2>C, <2>e, <2>t, <2>v, <2>z DEF Bystanders
<1>5. ASSUME NEW c \in Sender, notify_bk_thread(c) PROVE TypeInv' /\ Moves /\ EvtStep /\ WakeInv' /\ Bystanders
  <2>u. UNCHANGED <<ex, idleQ, waitQ, pendQ, dispr, epc, bk, hist>>
    BY <1>5 DEF notify_bk_thread
  <2>f. snd[c].pc = "up"
    BY <1>5 DEF notify_bk_thread
  <2>s. /\ snd' \in [Sender -> SndState] /\ \A d \in Sender \ {c} : snd'[d] = snd[d]
        /\ snd'[c].pc \in {"idle", "clr"}
    <3>1. snd[c].slot \in Slot \cup {None}
      BY <1>s DEF SndState
    <3> QED
      BY <1>5, <3>1, <1>s, SendEnds DEF notify_bk_thread
  <2>m. sema' = sema + 1
    BY <1>5 DEF notify_bk_thread
  <2>i. HandInv'
    BY <2>u, <1>i, <1>c, <2>s DEF HandInv, InHand
  <2>t. TypeInv'
    BY <2>u, <2>i, <2>s, <2>m, <1>e, <1>q, <1>d, <1>m, <1>p, <1>b, <1>h DEF TypeInv, TypeOK
  <2>k. SameTaken(Sender)
    BY <2>f, <2>s, <2>u DEF SameTaken, Taken
  <2>c. SameCounts
    BY <2>u DEF SameCounts
  <2>x. SameMsgs
    BY <2>u DEF SameMsgs, SameMsg
  <2>l. Quiet
    BY <2>u, <2>k, <2>x, <2>c DEF Quiet, SameEnd
  <2>v. Moves
    BY <2>l DEF Moves
  <2>e. EvtStep
    BY <2>u DEF EvtStep
  <2>w. Cardinality(Ups') = Cardinality(Ups) - 1
    <3>1. Ups' = Ups \ {c} /\ c \in Ups
      BY <2>f, <2>s DEF Ups
    <3> QED
      BY <3>1, <1>w, FS_RemoveElement
  <2>z. WakeInv'
    BY <2>u, <2>w, <1>w, <1>m, <2>m DEF WakeInv, BeforePop, Stopped
  <2>A. CallStep
    BY <2>u, <2>f, <2>s DEF CallStep, Canceling
  <2>B. LeaveStep
    BY <2>u DEF LeaveStep, Stopped
  <2>C. UpStep
    BY <2>u DEF UpStep
  <2> QED
    BY <2>A, <2>B, <2>C, <2>e, <2>t, <2>v, <2>z DEF Bystanders
<1>6. ASSUME NEW c \in Sender, dispr_cancel_msg(c) PROVE TypeInv' /\ Moves /\ EvtStep /\ WakeInv' /\ Bystanders
  <2>u. UNCHANGED <<ex, idleQ, waitQ, pendQ, dispr, sema, epc, bk>>
    BY <1>6 DEF dispr_cancel_msg
  <2>f. snd[c].pc = "idle"
    BY <1>6 DEF dispr_cancel_msg
  <2>g. snd[c].slot # None
    BY <1>6 DEF dispr_cancel_msg
  <2>h. hist' \in History /\ SameCounts
    <3>1. hist.ncall < MaxCall /\ hist' = [hist EXCEPT !.ncall = @ + 1]
      BY <1>6 DEF dispr_cancel_msg, CallCounted
    <3>2. hist.ncall + 1 \in 0..MaxCall
      BY <3>1, <1>h, <1>n DEF History
    <3> QED
      BY <3>1, <3>2, <1>h DEF History, SameCounts
  <2>s. /\ snd' \in [Sender -> SndState] /\ \A d \in Sender \ {c} : snd'[d] = snd[d]
        /\ snd'[c].pc \in {"cxlpre", "idle"}
        /\ snd'[c].pc = "cxlpre" => snd'[c].slot # None
    <3>1. snd[c] \in SndState
      BY <1>s
    <3>2. PICK z \in {[snd[c] EXCEPT !.pc = "cxlpre"],
                   [snd[c] EXCEPT !.slot = None]} :
                snd' = [snd EXCEPT ![c] = z]
      BY <1>6 DEF dispr_cancel_msg
    <3>3. z \in SndState /\ z.pc \in {"cxlpre", "idle"} /\ (z.pc = "cxlpre" => z.slot # None)
      BY <3>1, <3>2, <2>f, <2>g DEF SndState, SndPc
    <3> QED
      BY <3>2, <3>3, <1>s
  <2>i. HandInv'
    BY <2>u, <1>i, <1>c, <2>s DEF HandInv, InHand
  <2>t. TypeInv'
    BY <2>u, <2>i, <2>h, <2>s, <1>e, <1>q, <1>d, <1>m, <1>p, <1>b DEF TypeInv, TypeOK
  <2>k. SameTaken(Sender)
    BY <2>f, <2>s, <2>u DEF SameTaken, Taken
  <2>x. SameMsgs
    BY <2>u DEF SameMsgs, SameMsg
  <2>l. Quiet
    BY <2>u, <2>k, <2>x, <2>h DEF Quiet, SameEnd
  <2>v. Moves
    BY <2>l DEF Moves
  <2>e. EvtStep
    BY <2>u DEF EvtStep
  <2>w. Cardinality(Ups') = Cardinality(Ups)
    <3>1. Ups' = Ups
      BY <2>f, <2>s DEF Ups
    <3> QED
      BY <3>1
  <2>z. WakeInv'
    BY <2>u, <2>w, <1>w, <1>m DEF WakeInv, BeforePop, Stopped
  <2>A. CallStep
    BY <2>u, <2>f, <2>s DEF CallStep, Canceling
  <2>B. LeaveStep
    BY <2>u DEF LeaveStep, Stopped
  <2>C. UpStep
    BY <2>u DEF UpStep
  <2> QED
    BY <2>A, <2>B, <2>C, <2>e, <2>t, <2>v, <2>z DEF Bystanders
<1>7. ASSUME NEW c \in Sender, cancel_msg(c) PROVE TypeInv' /\ Moves /\ EvtStep /\ WakeInv' /\ Bystanders
  <2>u. UNCHANGED <<idleQ, waitQ, pendQ, dispr, sema, epc, bk, hist>>
    BY <1>7 DEF cancel_msg
  <2>f. snd[c].pc \in {"cxlpre", "cxlpost", "cxlset"}
    BY <1>7 DEF cancel_msg
  <2>g. snd[c].slot \in Slot
    BY <2>f, <1>s, <1>i DEF HandInv, SndState
  <2>x. ex' \in [Slot -> MsgEx] /\ SameMsgs
    BY <1>7, CancelMarks, MarksKeep
  <2>s. /\ snd' \in [Sender -> SndState] /\ \A d \in Sender \ {c} : snd'[d] = snd[d]
        /\ snd'[c].pc \in {"cxlpost", "cxlset", "idle"}
        /\ snd'[c].pc \in {"cxlpost", "cxlset"} => snd'[c].slot # None
    <3>1. snd[c] \in SndState
      BY <1>s
    <3>2. PICK z \in {[snd[c] EXCEPT !.pc = "cxlpost"],
                   [snd[c] EXCEPT !.pc = "cxlset"],
                   [snd[c] EXCEPT !.pc = "idle", !.slot = None]} :
                snd' = [snd EXCEPT ![c] = z]
      BY <1>7 DEF cancel_msg
    <3>3. z \in SndState /\ z.pc \in {"cxlpost", "cxlset", "idle"}
              /\ (z.pc # "idle" => z.slot # None)
      BY <3>1, <3>2, <2>g, <1>c DEF SndState, SndPc
    <3> QED
      BY <3>2, <3>3, <1>s
  <2>i. HandInv'
    BY <2>u, <1>i, <1>c, <2>s DEF HandInv, InHand
  <2>t. TypeInv'
    BY <2>u, <2>i, <2>x, <2>s, <1>q, <1>d, <1>m, <1>p, <1>b, <1>h DEF TypeInv, TypeOK
  <2>k. SameTaken(Sender)
    BY <2>f, <2>s, <2>u DEF SameTaken, Taken
  <2>c. SameCounts
    BY <2>u DEF SameCounts
  <2>l. Quiet
    BY <2>u, <2>k, <2>x, <2>c DEF Quiet, SameEnd
  <2>v. Moves
    BY <2>l DEF Moves
  <2>e. EvtStep
    BY <2>u DEF EvtStep
  <2>w. Cardinality(Ups') = Cardinality(Ups)
    <3>1. Ups' = Ups
      BY <2>f, <2>s DEF Ups
    <3> QED
      BY <3>1
  <2>z. WakeInv'
    BY <2>u, <2>w, <1>w, <1>m DEF WakeInv, BeforePop, Stopped
  <2>A. CallStep
    BY <1>7 DEF CallStep
  <2>B. LeaveStep
    BY <2>u DEF LeaveStep, Stopped
  <2>C. UpStep
    BY <2>u DEF UpStep
  <2> QED
    BY <2>A, <2>B, <2>C, <2>e, <2>t, <2>v, <2>z DEF Bystanders
<1>8. ASSUME NEW c \in Sender, ClrPending(c) PROVE TypeInv' /\ Moves /\ EvtStep /\ WakeInv' /\ Bystanders
  <2>u. UNCHANGED <<ex, idleQ, waitQ, pendQ, dispr, sema, epc, bk>>
    BY <1>8 DEF ClrPending
  <2>f. snd[c].pc = "idle"
    BY <1>8 DEF ClrPending
  <2>h. hist' \in History /\ SameCounts
    <3>1. hist.ncall < MaxCall /\ hist' = [hist EXCEPT !.ncall = @ + 1]
      BY <1>8 DEF ClrPending, CallCounted
    <3>2. hist.ncall + 1 \in 0..MaxCall
      BY <3>1, <1>h, <1>n DEF History
    <3> QED
      BY <3>1, <3>2, <1>h DEF History, SameCounts
  <2>s. /\ snd' \in [Sender -> SndState] /\ \A d \in Sender \ {c} : snd'[d] = snd[d]
        /\ snd'[c].pc = "clr"
    <3>1. snd[c] \in SndState
      BY <1>s
    <3>2. PICK z \in {[snd[c] EXCEPT !.pc = "clr"]} :
                snd' = [snd EXCEPT ![c] = z]
      BY <1>8 DEF ClrPending
    <3>3. z \in SndState /\ z.pc = "clr"
      BY <3>1, <3>2 DEF SndState, SndPc
    <3> QED
      BY <3>2, <3>3, <1>s
  <2>i. HandInv'
    BY <2>u, <1>i, <1>c, <2>s DEF HandInv, InHand
  <2>t. TypeInv'
    BY <2>u, <2>i, <2>h, <2>s, <1>e, <1>q, <1>d, <1>m, <1>p, <1>b DEF TypeInv, TypeOK
  <2>k. SameTaken(Sender)
    BY <2>f, <2>s, <2>u DEF SameTaken, Taken
  <2>x. SameMsgs
    BY <2>u DEF SameMsgs, SameMsg
  <2>l. Quiet
    BY <2>u, <2>k, <2>x, <2>h DEF Quiet, SameEnd
  <2>v. Moves
    BY <2>l DEF Moves
  <2>e. EvtStep
    BY <2>u DEF EvtStep
  <2>w. Cardinality(Ups') = Cardinality(Ups)
    <3>1. Ups' = Ups
      BY <2>f, <2>s DEF Ups
    <3> QED
      BY <3>1
  <2>z. WakeInv'
    BY <2>u, <2>w, <1>w, <1>m DEF WakeInv, BeforePop, Stopped
  <2>A. CallStep
    BY <2>u, <2>f, <2>s DEF CallStep, Canceling
  <2>B. LeaveStep
    BY <2>u DEF LeaveStep, Stopped
  <2>C. UpStep
    BY <2>u DEF UpStep
  <2> QED
    BY <2>A, <2>B, <2>C, <2>e, <2>t, <2>v, <2>z DEF Bystanders
<1>9. ASSUME NEW c \in Sender, dispr_clr_pending_msg(c) PROVE TypeInv' /\ Moves /\ EvtStep /\ WakeInv' /\ Bystanders
  <2>u. UNCHANGED <<ex, idleQ, waitQ, pendQ, sema, epc, bk, hist>>
    BY <1>9 DEF dispr_clr_pending_msg
  <2>f. snd[c].pc = "clr"
    BY <1>9 DEF dispr_clr_pending_msg
  <2>d. /\ dispr' \in Dispatcher /\ \A m \in Source : dispr'.pendEvt[m] \in {dispr.pendEvt[m], None}
        /\ dispr'.bitmap = dispr.bitmap /\ dispr'.started = dispr.started
    BY <1>9, <1>d DEF dispr_clr_pending_msg, Dispatcher
  <2>s. /\ snd' \in [Sender -> SndState] /\ \A d \in Sender \ {c} : snd'[d] = snd[d]
        /\ snd'[c].pc = "up"
    <3>1. snd[c] \in SndState
      BY <1>s
    <3>2. PICK z \in {[snd[c] EXCEPT !.pc = "up"]} :
                snd' = [snd EXCEPT ![c] = z]
      BY <1>9 DEF dispr_clr_pending_msg
    <3>3. z \in SndState /\ z.pc = "up"
      BY <3>1, <3>2 DEF SndState, SndPc
    <3> QED
      BY <3>2, <3>3, <1>s
  <2>i. HandInv'
    BY <2>u, <1>i, <1>c, <2>s DEF HandInv, InHand
  <2>t. TypeInv'
    BY <2>u, <2>i, <2>d, <2>s, <1>e, <1>q, <1>m, <1>p, <1>b, <1>h DEF TypeInv, TypeOK
  <2>k. SameTaken(Sender)
    BY <2>f, <2>s, <2>u DEF SameTaken, Taken
  <2>c. SameCounts
    BY <2>u DEF SameCounts
  <2>x. SameMsgs
    BY <2>u DEF SameMsgs, SameMsg
  <2>l. Quiet
    BY <2>u, <2>k, <2>x, <2>c DEF Quiet, SameEnd
  <2>v. Moves
    BY <2>l DEF Moves
  <2>e. EvtStep
    BY <2>d DEF EvtStep
  <2>w. Cardinality(Ups') = Cardinality(Ups) + 1
    <3>1. Ups' = Ups \cup {c} /\ c \notin Ups
      BY <2>f, <2>s DEF Ups
    <3> QED
      BY <3>1, <1>w, FS_AddElement
  <2>z. WakeInv'
    BY <2>u, <2>w, <1>w, <1>m DEF WakeInv, BeforePop, Stopped
  <2>A. CallStep
    BY <2>u, <2>f, <2>s DEF CallStep, Canceling
  <2>B. LeaveStep
    BY <2>u DEF LeaveStep, Stopped
  <2>C. UpStep
    BY <2>u, <2>d DEF UpStep
  <2> QED
    BY <2>A, <2>B, <2>C, <2>e, <2>t, <2>v, <2>z DEF Bystanders
<1>10. ASSUME NEW c \in Sender, dispr_notify_dev_io_status(c) PROVE TypeInv' /\ Moves /\ EvtStep /\ WakeInv' /\ Bystanders
  <2>u. UNCHANGED <<ex, idleQ, waitQ, pendQ, sema, epc, bk>>
    BY <1>10 DEF dispr_notify_dev_io_status
  <2>f. snd[c].pc = "idle"
    BY <1>10 DEF dispr_notify_dev_io_status
  <2>d. /\ dispr' \in Dispatcher /\ \A m \in Source : dispr'.pendEvt[m] \in {dispr.pendEvt[m], None}
        /\ dispr'.bitmap = dispr.bitmap /\ dispr'.started = dispr.started
    BY <1>10, <1>d DEF dispr_notify_dev_io_status, Dispatcher
  <2>h. hist' \in History /\ SameCounts
    <3>1. hist.ncall < MaxCall /\ hist' = [hist EXCEPT !.ncall = @ + 1]
      BY <1>10 DEF dispr_notify_dev_io_status, CallCounted
    <3>2. hist.ncall + 1 \in 0..MaxCall
      BY <3>1, <1>h, <1>n DEF History
    <3> QED
      BY <3>1, <3>2, <1>h DEF History, SameCounts
  <2>s. /\ snd' \in [Sender -> SndState] /\ \A d \in Sender \ {c} : snd'[d] = snd[d]
        /\ snd'[c].pc = "excl"
    <3>1. snd[c] \in SndState
      BY <1>s
    <3>2. PICK z \in {[snd[c] EXCEPT !.pc = "excl", !.next = "clr"],
                   [snd[c] EXCEPT !.pc = "excl", !.next = "drop"]} :
                snd' = [snd EXCEPT ![c] = z]
      BY <1>10 DEF dispr_notify_dev_io_status
    <3>3. z \in SndState /\ z.pc = "excl"
      BY <3>1, <3>2 DEF SndState, SndPc
    <3> QED
      BY <3>2, <3>3, <1>s
  <2>i. HandInv'
    BY <2>u, <1>i, <1>c, <2>s DEF HandInv, InHand
  <2>t. TypeInv'
    BY <2>u, <2>i, <2>d, <2>h, <2>s, <1>e, <1>q, <1>m, <1>p, <1>b DEF TypeInv, TypeOK
  <2>k. SameTaken(Sender)
    BY <2>f, <2>s, <2>u DEF SameTaken, Taken
  <2>x. SameMsgs
    BY <2>u DEF SameMsgs, SameMsg
  <2>l. Quiet
    BY <2>u, <2>k, <2>x, <2>h DEF Quiet, SameEnd
  <2>v. Moves
    BY <2>l DEF Moves
  <2>e. EvtStep
    BY <2>d DEF EvtStep
  <2>w. Cardinality(Ups') = Cardinality(Ups)
    <3>1. Ups' = Ups
      BY <2>f, <2>s DEF Ups
    <3> QED
      BY <3>1
  <2>z. WakeInv'
    BY <2>u, <2>w, <1>w, <1>m DEF WakeInv, BeforePop, Stopped
  <2>A. CallStep
    BY <2>u, <2>f, <2>s DEF CallStep, Canceling
  <2>B. LeaveStep
    BY <2>u DEF LeaveStep, Stopped
  <2>C. UpStep
    BY <2>u, <2>d DEF UpStep
  <2> QED
    BY <2>A, <2>B, <2>C, <2>e, <2>t, <2>v, <2>z DEF Bystanders
<1>11. ASSUME NEW c \in Sender, send_dev_io_status_change(c) PROVE TypeInv' /\ Moves /\ EvtStep /\ WakeInv' /\ Bystanders
  <2>u. UNCHANGED <<ex, idleQ, waitQ, pendQ, sema, epc, bk, hist>>
    BY <1>11 DEF send_dev_io_status_change
  <2>f. snd[c].pc = "excl"
    BY <1>11 DEF send_dev_io_status_change
  <2>d. /\ dispr' \in Dispatcher /\ \A m \in Source : dispr'.pendEvt[m] \in {dispr.pendEvt[m], None}
        /\ dispr'.bitmap = dispr.bitmap /\ dispr'.started = dispr.started
    <3>1. \E m \in Source \cup {None} : dispr' = [dispr EXCEPT !.excl = m]
      BY <1>11 DEF send_dev_io_status_change, Source
    <3> QED
      BY <3>1, <1>d DEF Dispatcher
  <2>s. /\ snd' \in [Sender -> SndState] /\ \A d \in Sender \ {c} : snd'[d] = snd[d]
        /\ snd'[c].pc \in {"pop", "idle", "clr"}
    <3>1. \/ \E e \in Evt : dispr_send_msg(c, IoKind(e), snd[c].next)
          \/ SendReturns(c, None)
      BY <1>11 DEF send_dev_io_status_change, Evt, SpecialEvt
    <3>2. snd[c].next \in {"keep", "drop", "clr"}
      BY <1>s DEF SndState
    <3>3. CASE \E e \in Evt : dispr_send_msg(c, IoKind(e), snd[c].next)
      <4>1. PICK e \in Evt : dispr_send_msg(c, IoKind(e), snd[c].next)
        BY <3>3
      <4>2. IoKind(e) \in Kind
        BY BlankKind
      <4> QED
        BY <4>1, <4>2, <3>2, <1>s, SendBegins
    <3>4. CASE SendReturns(c, None)
      BY <3>4, <1>s, SendEnds
    <3> QED
      BY <3>1, <3>3, <3>4
  <2>i. HandInv'
    BY <2>u, <1>i, <1>c, <2>s DEF HandInv, InHand
  <2>t. TypeInv'
    BY <2>u, <2>i, <2>d, <2>s, <1>e, <1>q, <1>m, <1>p, <1>b, <1>h DEF TypeInv, TypeOK
  <2>k. SameTaken(Sender)
    BY <2>f, <2>s, <2>u DEF SameTaken, Taken
  <2>c. SameCounts
    BY <2>u DEF SameCounts
  <2>x. SameMsgs
    BY <2>u DEF SameMsgs, SameMsg
  <2>l. Quiet
    BY <2>u, <2>k, <2>x, <2>c DEF Quiet, SameEnd
  <2>v. Moves
    BY <2>l DEF Moves
  <2>e. EvtStep
    BY <2>d DEF EvtStep
  <2>w. Cardinality(Ups') = Cardinality(Ups)
    <3>1. Ups' = Ups
      BY <2>f, <2>s DEF Ups
    <3> QED
      BY <3>1
  <2>z. WakeInv'
    BY <2>u, <2>w, <1>w, <1>m DEF WakeInv, BeforePop, Stopped
  <2>A. CallStep
    BY <2>u, <2>f, <2>s DEF CallStep, Canceling
  <2>B. LeaveStep
    BY <2>u DEF LeaveStep, Stopped
  <2>C. UpStep
    BY <2>u, <2>d DEF UpStep
  <2> QED
    BY <2>A, <2>B, <2>C, <2>e, <2>t, <2>v, <2>z DEF Bystanders
<1>12. ASSUME TokenCall PROVE TypeInv' /\ Moves /\ EvtStep /\ WakeInv' /\ Bystanders
  <2>u. UNCHANGED <<ex, idleQ, waitQ, pendQ, epc, bk, snd>>
    BY <1>12 DEF TokenCall
  <2>d. /\ dispr' \in Dispatcher /\ \A m \in Source : dispr'.pendEvt[m] \in {dispr.pendEvt[m], None}
        /\ dispr'.bitmap = dispr.bitmap /\ dispr'.started = dispr.started
    <3>1. dispr.tokOps + 1 \in Nat /\ dispr.waitReq + 1 \in Nat
      BY <1>d DEF Dispatcher
    <3>2. CASE dispr' = [dispr EXCEPT !.tokOps = @ + 1, !.waitReq = @ + 1]
      BY <3>1, <3>2, <1>d DEF Dispatcher
    <3>3. CASE dispr' = [dispr EXCEPT !.tokOps = @ + 1, !.cur = IF @ = "run" THEN "cxl" ELSE @]
      BY <3>1, <3>3, <1>d DEF Dispatcher
    <3> QED
      BY <1>12, <3>2, <3>3 DEF TokenCall
  <2>h. hist' \in History /\ SameCounts
    <3>1. hist.ntok < MaxTok /\ hist' = [hist EXCEPT !.ntok = @ + 1]
      BY <1>12 DEF TokenCall
    <3>2. hist.ntok + 1 \in 0..MaxTok
      BY <3>1, <1>h, <1>n DEF History
    <3> QED
      BY <3>1, <3>2, <1>h DEF History, SameCounts
  <2>m. sema' = sema + 1
    BY <1>12 DEF TokenCall
  <2>i. HandInv'
    BY <2>u, <1>i, <1>c DEF HandInv, InHand
  <2>t. TypeInv'
    BY <2>u, <2>i, <2>d, <2>h, <2>m, <1>e, <1>q, <1>m, <1>p, <1>b, <1>s DEF TypeInv, TypeOK
  <2>k. SameTaken(Sender)
    BY <2>u DEF SameTaken, Taken
  <2>x. SameMsgs
    BY <2>u DEF SameMsgs, SameMsg
  <2>l. Quiet
    BY <2>u, <2>k, <2>x, <2>h DEF Quiet, SameEnd
  <2>v. Moves
    BY <2>l DEF Moves
  <2>e. EvtStep
    BY <2>d DEF EvtStep
  <2>w. Ups' = Ups
    BY <2>u DEF Ups
  <2>z. WakeInv'
    BY <2>u, <2>w, <1>w, <1>m, <2>m DEF WakeInv, BeforePop, Stopped
  <2>A. CallStep
    BY <2>u DEF CallStep, Canceling
  <2>B. LeaveStep
    BY <2>u DEF LeaveStep, Stopped
  <2>C. UpStep
    BY <2>u, <2>d DEF UpStep
  <2> QED
    BY <2>A, <2>B, <2>C, <2>e, <2>t, <2>v, <2>z DEF Bystanders
<1>13. ASSUME share_thread_hdl PROVE TypeInv' /\ Moves /\ EvtStep /\ WakeInv' /\ Bystanders
  <2>u. UNCHANGED <<ex, idleQ, waitQ, pendQ, dispr, epc, snd, hist>>
    BY <1>13 DEF share_thread_hdl
  <2>f. bk.pc = "wait"
    BY <1>13 DEF share_thread_hdl
  <2>b. /\ bk' \in BkState /\ bk'.pc \in {"leave", "clr"}
        /\ bk'.msg = bk.msg /\ bk'.leaving = bk.leaving /\ (bk'.pc = "leave" <=> Stopped)
    BY <1>13, <2>f, <1>b DEF share_thread_hdl, Goto, BkState, BkPc
  <2>m. sema > 0 /\ sema' = sema - 1
    BY <1>13 DEF share_thread_hdl
  <2>i. HandInv'
    BY <2>u, <1>i, <1>c, <2>f, <2>b DEF HandInv, InHand
  <2>t. TypeInv'
    BY <2>u, <2>i, <2>b, <2>m, <1>e, <1>q, <1>d, <1>m, <1>p, <1>s, <1>h DEF TypeInv, TypeOK
  <2>k. SameTaken(Sender)
    BY <2>u DEF SameTaken, Taken
  <2>c. SameCounts
    BY <2>u DEF SameCounts
  <2>x. SameMsgs
    BY <2>u DEF SameMsgs, SameMsg
  <2>l. Quiet
    BY <2>u, <2>k, <2>x, <2>c, <2>f, <2>b DEF Quiet, SameEnd
  <2>v. Moves
    BY <2>l DEF Moves
  <2>e. EvtStep
    BY <2>u DEF EvtStep
  <2>w. Ups' = Ups
    BY <2>u DEF Ups
  <2>z. WakeInv'
    BY <2>u, <2>w, <1>w, <1>m, <2>f, <2>b, <2>m DEF WakeInv, BeforePop, Stopped
  <2>A. CallStep
    BY <2>u DEF CallStep, Canceling
  <2>B. LeaveStep
    BY <2>u, <2>f, <2>b DEF LeaveStep, Stopped
  <2>C. UpStep
    BY <2>u DEF UpStep
  <2> QED
    BY <2>A, <2>B, <2>C, <2>e, <2>t, <2>v, <2>z DEF Bystanders
<1>14. ASSUME clear_pending_msg PROVE TypeInv' /\ Moves /\ EvtStep /\ WakeInv' /\ Bystanders
  <2>u. UNCHANGED <<ex, idleQ, waitQ, pendQ, sema, epc, snd, hist>>
    BY <1>14 DEF clear_pending_msg
  <2>f. bk.pc = "clr"
    BY <1>14 DEF clear_pending_msg
  <2>d. /\ dispr' \in Dispatcher /\ \A m \in Source : dispr'.pendEvt[m] \in {dispr.pendEvt[m], None}
        /\ dispr'.bitmap = dispr.bitmap /\ dispr'.started = dispr.started
    BY <1>14, <1>d DEF clear_pending_msg, Dispatcher
  <2>b. /\ bk' \in BkState /\ bk'.pc \in {"clrloop", "ops"}
        /\ bk'.msg = bk.msg /\ bk'.leaving = bk.leaving
    BY <1>14, <2>f, <1>b DEF clear_pending_msg, BkState, BkPc
  <2>i. HandInv'
    BY <2>u, <1>i, <1>c, <2>f, <2>b DEF HandInv, InHand
  <2>t. TypeInv'
    BY <2>u, <2>i, <2>d, <2>b, <1>e, <1>q, <1>m, <1>p, <1>s, <1>h DEF TypeInv, TypeOK
  <2>k. SameTaken(Sender)
    BY <2>u DEF SameTaken, Taken
  <2>c. SameCounts
    BY <2>u DEF SameCounts
  <2>x. SameMsgs
    BY <2>u DEF SameMsgs, SameMsg
  <2>l. Quiet
    BY <2>u, <2>k, <2>x, <2>c, <2>f, <2>b DEF Quiet, SameEnd
  <2>v. Moves
    BY <2>l DEF Moves
  <2>e. EvtStep
    BY <2>d DEF EvtStep
  <2>w. Ups' = Ups
    BY <2>u DEF Ups
  <2>z. WakeInv'
    BY <2>u, <2>w, <1>w, <1>m, <2>f, <2>b DEF WakeInv, BeforePop, Stopped
  <2>A. CallStep
    BY <2>u DEF CallStep, Canceling
  <2>B. LeaveStep
    BY <2>u, <2>f, <2>b DEF LeaveStep, Stopped
  <2>C. UpStep
    BY <2>u, <2>d DEF UpStep
  <2> QED
    BY <2>A, <2>B, <2>C, <2>e, <2>t, <2>v, <2>z DEF Bystanders
<1>15. ASSUME RequeuePending PROVE TypeInv' /\ Moves /\ EvtStep /\ WakeInv' /\ Bystanders
  <2>u. UNCHANGED <<ex, idleQ, dispr, epc, snd, hist>>
    BY <1>15 DEF RequeuePending
  <2>f. bk.pc = "clrloop"
    BY <1>15 DEF RequeuePending
  <2>q. \/ UNCHANGED <<waitQ, pendQ, sema>>
      \/ /\ pendQ # <<>> /\ pendQ' = Tail(pendQ) /\ Tail(pendQ) \in Seq(Slot)
         /\ Adds(waitQ, Head(pendQ), waitQ')
         /\ sema' = sema + 1 /\ UNCHANGED bk
    <3>1. CASE pendQ = <<>>
      BY <3>1, <1>15 DEF RequeuePending
    <3>2. CASE pendQ # <<>>
      <4>1. Head(pendQ) \in Slot /\ Tail(pendQ) \in Seq(Slot)
        BY <3>2, <1>q, TailToSet
      <4>2. \/ waitQ' = insert_msg_by_priority(waitQ, Head(pendQ))
            \/ waitQ' = Append(waitQ, Head(pendQ))
        BY <3>2, <1>15 DEF RequeuePending
      <4>3. Adds(waitQ, Head(pendQ), Append(waitQ, Head(pendQ)))
        BY <4>1, <1>q, AppendToSet DEF Adds
      <4>4. Adds(waitQ, Head(pendQ), insert_msg_by_priority(waitQ, Head(pendQ)))
        BY <4>1, <1>q, Inserted DEF Adds
      <4>5. pendQ' = Tail(pendQ) /\ sema' = sema + 1 /\ UNCHANGED bk
        BY <3>2, <1>15 DEF RequeuePending
      <4> QED
        BY <3>2, <4>1, <4>2, <4>3, <4>4, <4>5
    <3> QED
      BY <3>1, <3>2
  <2>y. waitQ' \in Seq(Slot) /\ pendQ' \in Seq(Slot) /\ sema' \in Nat
    <3>1. CASE UNCHANGED <<waitQ, pendQ, sema>>
      BY <3>1, <1>q, <1>m
    <3>2. CASE /\ pendQ' = Tail(pendQ) /\ Tail(pendQ) \in Seq(Slot)
               /\ Adds(waitQ, Head(pendQ), waitQ') /\ sema' = sema + 1
      <4>1. waitQ' \in Seq(Slot)
        BY <3>2 DEF Adds
      <4> QED
        BY <3>2, <4>1, <1>m
    <3> QED
      BY <3>1, <3>2, <2>q
  <2>b. /\ bk' \in BkState /\ bk'.pc \in {"clrloop", "ops", "permit"}
        /\ bk'.msg = bk.msg /\ bk'.leaving = bk.leaving
    <3>1. bk' = [bk EXCEPT !.pc = bk.next] \/ bk' = bk
      BY <1>15 DEF RequeuePending, Goto
    <3> QED
      BY <3>1, <2>f, <1>b DEF BkState, BkPc
  <2>i. HandInv'
    BY <2>u, <1>i, <1>c, <2>f, <2>b DEF HandInv, InHand
  <2>t. TypeInv'
    BY <2>u, <2>i, <2>b, <2>y, <1>e, <1>q, <1>d, <1>p, <1>s, <1>h DEF TypeInv, TypeOK
  <2>k. SameTaken(Sender)
    BY <2>u DEF SameTaken, Taken
  <2>c. SameCounts
    BY <2>u DEF SameCounts
  <2>x. SameMsgs
    BY <2>u DEF SameMsgs, SameMsg
  <2>a. Quiet \/ Requeues
    BY <2>q, <2>u, <2>x, <2>c, <2>k, <2>b, <2>f DEF Quiet, Requeues, SameEnd
  <2>v. Moves
    BY <2>a DEF Moves
  <2>e. EvtStep
    BY <2>u DEF EvtStep
  <2>w. Ups' = Ups
    BY <2>u DEF Ups
  <2>z. WakeInv'
    BY <2>u, <2>w, <1>w, <1>m, <2>f, <2>b, <2>q DEF WakeInv, BeforePop, Stopped, Adds
  <2>A. CallStep
    BY <2>u DEF CallStep, Canceling
  <2>B. LeaveStep
    BY <2>u, <2>f, <2>b DEF LeaveStep, Stopped
  <2>C. UpStep
    BY <2>u DEF UpStep
  <2> QED
    BY <2>A, <2>B, <2>C, <2>e, <2>t, <2>v, <2>z DEF Bystanders
<1>16. ASSUME token_op_hanler PROVE TypeInv' /\ Moves /\ EvtStep /\ WakeInv' /\ Bystanders
  <2>u. UNCHANGED <<ex, idleQ, waitQ, pendQ, sema, epc, snd, hist>>
    BY <1>16 DEF token_op_hanler
  <2>f. bk.pc = "ops"
    BY <1>16 DEF token_op_hanler
  <2>d. /\ dispr' \in Dispatcher /\ \A m \in Source : dispr'.pendEvt[m] \in {dispr.pendEvt[m], None}
        /\ dispr'.bitmap = dispr.bitmap /\ dispr'.started = dispr.started
    <3> DEFINE g == [dispr.pendEvt EXCEPT ![Fg] = None]
    <3>1. dispr.pendEvt \in [Source -> Evt \cup {None}]
      BY <1>d DEF Dispatcher
    <3>2. /\ g \in [Source -> Evt \cup {None}]
          /\ \A m \in Source : g[m] \in {dispr.pendEvt[m], None}
      BY <3>1
    <3>3. \/ dispr' = dispr
          \/ dispr.tokOps > 0 /\ dispr' = [dispr EXCEPT !.tokOps = @ - 1]
          \/ /\ dispr.tokOps > 0 /\ dispr.waitReq > 0
             /\ dispr' = [dispr EXCEPT !.tokOps = @ - 1, !.waitReq = @ - 1, !.pendEvt = g]
      BY <1>16 DEF token_op_hanler
    <3> HIDE DEF g
    <3>4. /\ dispr.tokOps > 0 => dispr.tokOps - 1 \in Nat
          /\ dispr.waitReq > 0 => dispr.waitReq - 1 \in Nat
      BY <1>d DEF Dispatcher
    <3> QED
      BY <3>2, <3>3, <3>4, <1>d DEF Dispatcher
  <2>b. /\ bk' \in BkState /\ bk'.pc \in {"pop", "proc", "dereg", "ops"}
        /\ bk'.msg = bk.msg /\ bk'.leaving = bk.leaving
    BY <1>16, <2>f, <1>b DEF token_op_hanler, Goto, BkState, BkPc
  <2>i. HandInv'
    BY <2>u, <1>i, <1>c, <2>f, <2>b DEF HandInv, InHand
  <2>t. TypeInv'
    BY <2>u, <2>i, <2>d, <2>b, <1>e, <1>q, <1>m, <1>p, <1>s, <1>h DEF TypeInv, TypeOK
  <2>k. SameTaken(Sender)
    BY <2>u DEF SameTaken, Taken
  <2>c. SameCounts
    BY <2>u DEF SameCounts
  <2>x. SameMsgs
    BY <2>u DEF SameMsgs, SameMsg
  <2>l. Quiet
    BY <2>u, <2>k, <2>x, <2>c, <2>f, <2>b DEF Quiet, SameEnd
  <2>v. Moves
    BY <2>l DEF Moves
  <2>e. EvtStep
    BY <2>d DEF EvtStep
  <2>w. Ups' = Ups
    BY <2>u DEF Ups
  <2>z. WakeInv'
    BY <2>u, <2>w, <1>w, <1>m, <2>f, <2>b DEF WakeInv, BeforePop, Stopped
  <2>A. CallStep
    BY <2>u DEF CallStep, Canceling
  <2>B. LeaveStep
    BY <2>u, <2>f, <2>b DEF LeaveStep, Stopped
  <2>C. UpStep
    BY <2>u, <2>d DEF UpStep
  <2> QED
    BY <2>A, <2>B, <2>C, <2>e, <2>t, <2>v, <2>z DEF Bystanders
<1>17. ASSUME dispr_process_token_req PROVE TypeInv' /\ Moves /\ EvtStep /\ WakeInv' /\ Bystanders
  <2>u. UNCHANGED <<ex, idleQ, waitQ, pendQ, sema, epc, snd, hist>>
    BY <1>17 DEF dispr_process_token_req
  <2>f. bk.pc = "proc"
    BY <1>17 DEF dispr_process_token_req
  <2>d. /\ dispr' \in Dispatcher /\ \A m \in Source : dispr'.pendEvt[m] \in {dispr.pendEvt[m], None}
        /\ dispr'.bitmap = dispr.bitmap /\ dispr'.started = dispr.started
    <3>1. dispr.waitReq > 0 => dispr.waitReq - 1 \in Nat
      BY <1>d DEF Dispatcher
    <3>2. \/ dispr' = dispr
          \/ dispr.waitReq > 0 /\ dispr' = [dispr EXCEPT !.cur = "run", !.waitReq = @ - 1]
      BY <1>17 DEF dispr_process_token_req
    <3> QED
      BY <3>1, <3>2, <1>d DEF Dispatcher
  <2>b. /\ bk' \in BkState /\ bk'.pc \in {"acq", "ops"}
        /\ bk'.msg = bk.msg /\ bk'.leaving = bk.leaving
    BY <1>17, <2>f, <1>b DEF dispr_process_token_req, Goto, BkState, BkPc
  <2>i. HandInv'
    BY <2>u, <1>i, <1>c, <2>f, <2>b DEF HandInv, InHand
  <2>t. TypeInv'
    BY <2>u, <2>i, <2>d, <2>b, <1>e, <1>q, <1>m, <1>p, <1>s, <1>h DEF TypeInv, TypeOK
  <2>k. SameTaken(Sender)
    BY <2>u DEF SameTaken, Taken
  <2>c. SameCounts
    BY <2>u DEF SameCounts
  <2>x. SameMsgs
    BY <2>u DEF SameMsgs, SameMsg
  <2>l. Quiet
    BY <2>u, <2>k, <2>x, <2>c, <2>f, <2>b DEF Quiet, SameEnd
  <2>v. Moves
    BY <2>l DEF Moves
  <2>e. EvtStep
    BY <2>d DEF EvtStep
  <2>w. Ups' = Ups
    BY <2>u DEF Ups
  <2>z. WakeInv'
    BY <2>u, <2>w, <1>w, <1>m, <2>f, <2>b DEF WakeInv, BeforePop, Stopped
  <2>A. CallStep
    BY <2>u DEF CallStep, Canceling
  <2>B. LeaveStep
    BY <2>u, <2>f, <2>b DEF LeaveStep, Stopped
  <2>C. UpStep
    BY <2>u, <2>d DEF UpStep
  <2> QED
    BY <2>A, <2>B, <2>C, <2>e, <2>t, <2>v, <2>z DEF Bystanders
<1>18. ASSUME register_cur_cmd_req PROVE TypeInv' /\ Moves /\ EvtStep /\ WakeInv' /\ Bystanders
  <2>u. UNCHANGED <<ex, idleQ, waitQ, pendQ, dispr, sema, epc, snd, hist>>
    BY <1>18 DEF register_cur_cmd_req
  <2>f. bk.pc = "acq"
    BY <1>18 DEF register_cur_cmd_req
  <2>b. /\ bk' \in BkState /\ bk'.pc \in {"ops", "dereg"}
        /\ bk'.msg = bk.msg /\ bk'.leaving = bk.leaving
    BY <1>18, <2>f, <1>b DEF register_cur_cmd_req, Goto, BkState, BkPc
  <2>i. HandInv'
    BY <2>u, <1>i, <1>c, <2>f, <2>b DEF HandInv, InHand
  <2>t. TypeInv'
    BY <2>u, <2>i, <2>b, <1>e, <1>q, <1>d, <1>m, <1>p, <1>s, <1>h DEF TypeInv, TypeOK
  <2>k. SameTaken(Sender)
    BY <2>u DEF SameTaken, Taken
  <2>c. SameCounts
    BY <2>u DEF SameCounts
  <2>x. SameMsgs
    BY <2>u DEF SameMsgs, SameMsg
  <2>l. Quiet
    BY <2>u, <2>k, <2>x, <2>c, <2>f, <2>b DEF Quiet, SameEnd
  <2>v. Moves
    BY <2>l DEF Moves
  <2>e. EvtStep
    BY <2>u DEF EvtStep
  <2>w. Ups' = Ups
    BY <2>u DEF Ups
  <2>z. WakeInv'
    BY <2>u, <2>w, <1>w, <1>m, <2>f, <2>b DEF WakeInv, BeforePop, Stopped
  <2>A. CallStep
    BY <2>u DEF CallStep, Canceling
  <2>B. LeaveStep
    BY <2>u, <2>f, <2>b DEF LeaveStep, Stopped
  <2>C. UpStep
    BY <2>u DEF UpStep
  <2> QED
    BY <2>A, <2>B, <2>C, <2>e, <2>t, <2>v, <2>z DEF Bystanders
<1>19. ASSUME deregister_cur_cmd_req PROVE TypeInv' /\ Moves /\ EvtStep /\ WakeInv' /\ Bystanders
  <2>u. UNCHANGED <<idleQ, waitQ, pendQ, epc, snd, hist>>
    BY <1>19 DEF deregister_cur_cmd_req
  <2>f. bk.pc = "dereg"
    BY <1>19 DEF deregister_cur_cmd_req
  <2>x. ex' \in [Slot -> MsgEx] /\ SameMsgs
    BY <1>19, PlainSteps, MarksKeep
  <2>d. /\ dispr' \in Dispatcher /\ \A m \in Source : dispr'.pendEvt[m] \in {dispr.pendEvt[m], None}
        /\ dispr'.bitmap = dispr.bitmap /\ dispr'.started = dispr.started
    <3>1. \/ dispr' = dispr
          \/ \E b \in BOOLEAN : dispr' = [dispr EXCEPT !.cur = "ended", !.clrPend = b]
      BY <1>19 DEF deregister_cur_cmd_req
    <3> QED
      BY <3>1, <1>d DEF Dispatcher
  <2>b. /\ bk' \in BkState /\ bk'.pc \in {"clrmsg", "proc", "permit", "clrloop"}
        /\ bk'.msg = bk.msg /\ bk'.leaving = bk.leaving
        /\ bk'.pc = "clrmsg" => bk.leaving
    <3>1. \/ bk.leaving /\ bk' = [bk EXCEPT !.pc = "clrmsg"]
          \/ bk' = [bk EXCEPT !.pc = "proc"]
          \/ \E p \in {"permit", "clrloop"} : bk' = [bk EXCEPT !.pc = p, !.next = "permit"]
      BY <1>19 DEF deregister_cur_cmd_req, Goto, AfterDereg
    <3> QED
      BY <3>1, <1>b DEF BkState, BkPc
  <2>m. sema' \in Nat /\ sema' >= sema
    <3>1. sema' = sema \/ \E S \in SUBSET Slot : sema' = sema + Cardinality(S)
      BY <1>19 DEF deregister_cur_cmd_req
    <3>2. \A S \in SUBSET Slot : Cardinality(S) \in Nat
      BY SlotsFinite, FS_Subset, FS_CardinalityType
    <3> QED
      BY <3>1, <3>2, <1>m
  <2>i. HandInv'
    BY <2>u, <1>i, <1>c, <2>f, <2>b DEF HandInv, InHand
  <2>t. TypeInv'
    BY <2>u, <2>i, <2>x, <2>d, <2>b, <2>m, <1>q, <1>m, <1>p, <1>s, <1>h DEF TypeInv, TypeOK
  <2>k. SameTaken(Sender)
    BY <2>u DEF SameTaken, Taken
  <2>c. SameCounts
    BY <2>u DEF SameCounts
  <2>l. Quiet
    BY <2>u, <2>k, <2>x, <2>c, <2>f, <2>b DEF Quiet, SameEnd
  <2>v. Moves
    BY <2>l DEF Moves
  <2>e. EvtStep
    BY <2>d DEF EvtStep
  <2>w. Ups' = Ups
    BY <2>u DEF Ups
  <2>z. WakeInv'
    BY <2>u, <2>w, <1>w, <1>m, <2>f, <2>b, <2>m DEF WakeInv, BeforePop, Stopped
  <2>A. CallStep
    BY <2>u DEF CallStep, Canceling
  <2>B. LeaveStep
    BY <2>u, <2>f, <2>b DEF LeaveStep, Stopped
  <2>C. UpStep
    BY <2>u, <2>d DEF UpStep
  <2> QED
    BY <2>A, <2>B, <2>C, <2>e, <2>t, <2>v, <2>z DEF Bystanders
<1>20. ASSUME LastPermit PROVE TypeInv' /\ Moves /\ EvtStep /\ WakeInv' /\ Bystanders
  <2>u. UNCHANGED <<ex, idleQ, waitQ, pendQ, sema, epc, snd, hist>>
    BY <1>20 DEF LastPermit
  <2>f. bk.pc = "permit"
    BY <1>20 DEF LastPermit
  <2>d. /\ dispr' \in Dispatcher /\ \A m \in Source : dispr'.pendEvt[m] \in {dispr.pendEvt[m], None}
        /\ dispr'.bitmap = dispr.bitmap /\ dispr'.started = dispr.started
    <3> DEFINE g == [dispr.pendEvt EXCEPT ![Fg] = None]
    <3>1. dispr.pendEvt \in [Source -> Evt \cup {None}]
      BY <1>d DEF Dispatcher
    <3>2. /\ g \in [Source -> Evt \cup {None}]
          /\ \A m \in Source : g[m] \in {dispr.pendEvt[m], None}
      BY <3>1
    <3>3. \/ dispr' = [dispr EXCEPT !.cur = "none", !.pendEvt = g]
          \/ dispr' = [dispr EXCEPT !.cur = "permit"]
      BY <1>20 DEF LastPermit, DropToken
    <3> HIDE DEF g
    <3> QED
      BY <3>2, <3>3, <1>d DEF Dispatcher
  <2>b. /\ bk' \in BkState /\ bk'.pc \in {"clrmsg", "proc", "abort"}
        /\ bk'.msg = bk.msg /\ bk'.leaving = bk.leaving
        /\ bk'.pc = "clrmsg" => bk.leaving
    BY <1>20, <2>f, <1>b DEF LastPermit, Goto, DropToken, AfterDereg, BkState, BkPc
  <2>i. HandInv'
    BY <2>u, <1>i, <1>c, <2>f, <2>b DEF HandInv, InHand
  <2>t. TypeInv'
    BY <2>u, <2>i, <2>d, <2>b, <1>e, <1>q, <1>m, <1>p, <1>s, <1>h DEF TypeInv, TypeOK
  <2>k. SameTaken(Sender)
    BY <2>u DEF SameTaken, Taken
  <2>c. SameCounts
    BY <2>u DEF SameCounts
  <2>x. SameMsgs
    BY <2>u DEF SameMsgs, SameMsg
  <2>l. Quiet
    BY <2>u, <2>k, <2>x, <2>c, <2>f, <2>b DEF Quiet, SameEnd
  <2>v. Moves
    BY <2>l DEF Moves
  <2>e. EvtStep
    BY <2>d DEF EvtStep
  <2>w. Ups' = Ups
    BY <2>u DEF Ups
  <2>z. WakeInv'
    BY <2>u, <2>w, <1>w, <1>m, <2>f, <2>b DEF WakeInv, BeforePop, Stopped
  <2>A. CallStep
    BY <2>u DEF CallStep, Canceling
  <2>B. LeaveStep
    BY <2>u, <2>f, <2>b DEF LeaveStep, Stopped
  <2>C. UpStep
    BY <2>u, <2>d DEF UpStep
  <2> QED
    BY <2>A, <2>B, <2>C, <2>e, <2>t, <2>v, <2>z DEF Bystanders
<1>21. ASSUME AbortSends PROVE TypeInv' /\ Moves /\ EvtStep /\ WakeInv' /\ Bystanders
  <2>u. UNCHANGED <<pendQ, dispr, epc, bk, snd>>
    BY <1>21 DEF AbortSends
  <2>f. bk.pc = "abort"
    BY <1>21 DEF AbortSends
  <2>n. /\ idleQ # <<>> /\ Head(idleQ) \in Slot /\ Tail(idleQ) \in Seq(Slot)
        /\ hist.nmsg < MaxMsg
    <3>1. idleQ # <<>> /\ hist.nmsg < MaxMsg
      BY <1>21 DEF AbortSends
    <3> QED
      BY <3>1, <1>q, TailToSet
  <2>j. PICK k \in Kinds : FillMsg(k, FALSE, {"ENQ"}) /\ NewMsg(k)
    BY <1>21 DEF AbortSends
  <2>K. k \in Kind
    BY <1>c
  <2>x. /\ ex' \in [Slot -> MsgEx] /\ ex'[Head(idleQ)].mid = hist.nmsg + 1
        /\ ex'[Head(idleQ)].kind = k
        /\ "COMPLETE" \in ex'[Head(idleQ)].st <=> "COMPLETE" \in k.opt
        /\ \A t \in Slot \ {Head(idleQ)} : ex'[t] = ex[t]
    BY <2>j, <2>K, <2>n, <1>e, <1>d, <1>h, Filled
  <2>h. /\ hist' \in History /\ hist.nmsg + 1 \in Msg
        /\ hist'.nmsg = hist.nmsg + 1 /\ hist'.done = hist.done
        /\ hist'.owed = IF "COMPLETE" \in k.opt THEN hist.owed \cup {hist.nmsg + 1}
                        ELSE hist.owed
        /\ hist'.late = IF bk.pc = "done" THEN hist.late \cup {hist.nmsg + 1} ELSE hist.late
    BY <2>j, <2>n, <1>h, Counted
  <2>l. Gets(Head(idleQ), k)
    BY <2>x, <2>h DEF Gets
  <2>q. idleQ' = Tail(idleQ) /\ Adds(waitQ, Head(idleQ), waitQ')
    <3>1. idleQ' = Tail(idleQ) /\ waitQ' = Append(waitQ, Head(idleQ))
      BY <1>21 DEF AbortSends
    <3> QED
      BY <3>1, <2>n, <1>q, AppendToSet DEF Adds
  <2>m. sema' = sema + 1
    BY <1>21 DEF AbortSends
  <2>i. HandInv'
    BY <2>u, <1>i, <1>c DEF HandInv, InHand
  <2>t. TypeInv'
    BY <2>u, <2>i, <2>x, <2>h, <2>m, <2>q, <2>n, <1>q, <1>d, <1>m, <1>p, <1>b, <1>s DEF
       TypeInv, TypeOK, Adds
  <2>k. SameTaken(Sender)
    BY <2>u DEF SameTaken, Taken
  <2>a. SendsAtOnce
    BY <2>K, <2>k, <2>l, <2>n, <2>q, <2>t, <2>u DEF SendsAtOnce
  <2>v. Moves
    BY <2>a DEF Moves
  <2>e. EvtStep
    BY <2>u DEF EvtStep
  <2>w. Ups' = Ups
    BY <2>u DEF Ups
  <2>z. WakeInv'
    BY <2>u, <2>w, <1>w, <1>m, <2>f, <2>m, <2>q DEF WakeInv, BeforePop, Stopped, Adds
  <2>A. CallStep
    BY <2>u DEF CallStep, Canceling
  <2>B. LeaveStep
    BY <2>u DEF LeaveStep, Stopped
  <2>C. UpStep
    BY <2>u DEF UpStep
  <2> QED
    BY <2>A, <2>B, <2>C, <2>e, <2>t, <2>v, <2>z DEF Bystanders
<1>22. ASSUME AbortReturns PROVE TypeInv' /\ Moves /\ EvtStep /\ WakeInv' /\ Bystanders
  <2>u. UNCHANGED <<ex, idleQ, waitQ, pendQ, sema, epc, snd, hist>>
    BY <1>22 DEF AbortReturns
  <2>f. bk.pc = "abort"
    BY <1>22 DEF AbortReturns
  <2>d. /\ dispr' \in Dispatcher /\ \A m \in Source : dispr'.pendEvt[m] \in {dispr.pendEvt[m], None}
        /\ dispr'.bitmap = dispr.bitmap /\ dispr'.started = dispr.started
    <3> DEFINE g == [dispr.pendEvt EXCEPT ![Fg] = None]
    <3>1. dispr.pendEvt \in [Source -> Evt \cup {None}]
      BY <1>d DEF Dispatcher
    <3>2. /\ g \in [Source -> Evt \cup {None}]
          /\ \A m \in Source : g[m] \in {dispr.pendEvt[m], None}
      BY <3>1
    <3>3. \/ dispr' = [dispr EXCEPT !.cur = "none", !.pendEvt = g]
      BY <1>22 DEF AbortReturns, DropToken
    <3> HIDE DEF g
    <3> QED
      BY <3>2, <3>3, <1>d DEF Dispatcher
  <2>b. /\ bk' \in BkState /\ bk'.pc \in {"clrmsg", "proc"}
        /\ bk'.msg = bk.msg /\ bk'.leaving = bk.leaving
        /\ bk'.pc = "clrmsg" => bk.leaving
    BY <1>22, <2>f, <1>b DEF AbortReturns, Goto, DropToken, AfterDereg, BkState, BkPc
  <2>i. HandInv'
    BY <2>u, <1>i, <1>c, <2>f, <2>b DEF HandInv, InHand
  <2>t. TypeInv'
    BY <2>u, <2>i, <2>d, <2>b, <1>e, <1>q, <1>m, <1>p, <1>s, <1>h DEF TypeInv, TypeOK
  <2>k. SameTaken(Sender)
    BY <2>u DEF SameTaken, Taken
  <2>c. SameCounts
    BY <2>u DEF SameCounts
  <2>x. SameMsgs
    BY <2>u DEF SameMsgs, SameMsg
  <2>l. Quiet
    BY <2>u, <2>k, <2>x, <2>c, <2>f, <2>b DEF Quiet, SameEnd
  <2>v. Moves
    BY <2>l DEF Moves
  <2>e. EvtStep
    BY <2>d DEF EvtStep
  <2>w. Ups' = Ups
    BY <2>u DEF Ups
  <2>z. WakeInv'
    BY <2>u, <2>w, <1>w, <1>m, <2>f, <2>b DEF WakeInv, BeforePop, Stopped
  <2>A. CallStep
    BY <2>u DEF CallStep, Canceling
  <2>B. LeaveStep
    BY <2>u, <2>f, <2>b DEF LeaveStep, Stopped
  <2>C. UpStep
    BY <2>u, <2>d DEF UpStep
  <2> QED
    BY <2>A, <2>B, <2>C, <2>e, <2>t, <2>v, <2>z DEF Bystanders
<1>23. ASSUME dispr_thread_loop_hdl PROVE TypeInv' /\ Moves /\ EvtStep /\ WakeInv' /\ Bystanders
  <2>u. UNCHANGED <<idleQ, pendQ, dispr, sema, epc, snd, hist>>
    BY <1>23 DEF dispr_thread_loop_hdl
  <2>f. bk.pc = "pop"
    BY <1>23 DEF dispr_thread_loop_hdl
  <2>n. waitQ # <<>> => Head(waitQ) \in Slot /\ Tail(waitQ) \in Seq(Slot) /\ Len(Tail(waitQ)) = Len(waitQ) - 1
    BY <1>q, TailToSet
  <2>q. \/ /\ waitQ = <<>> /\ UNCHANGED waitQ /\ bk'.msg = bk.msg
         /\ bk'.pc = IF Stopped THEN "leave" ELSE "wait"
      \/ /\ waitQ # <<>> /\ waitQ' = Tail(waitQ)
         /\ bk'.msg = Head(waitQ) /\ bk'.pc = "chk"
    <3>1. CASE waitQ = <<>>
      BY <3>1, <1>23, <1>b DEF dispr_thread_loop_hdl, Goto, LoopTop, BkState
    <3>2. CASE waitQ # <<>>
      BY <3>2, <1>23, <1>b DEF dispr_thread_loop_hdl, pop_front_wait_msg, BkState
    <3> QED
      BY <3>1, <3>2
  <2>x. ex' \in [Slot -> MsgEx] /\ SameMsgs
    BY <1>23, PlainSteps, MarksKeep
  <2>b. /\ bk' \in BkState /\ bk'.pc \in {"leave", "wait", "chk"}
        /\ bk'.leaving = bk.leaving
    <3>1. \/ bk' = [bk EXCEPT !.pc = "leave"] \/ bk' = [bk EXCEPT !.pc = "wait"]
          \/ waitQ # <<>> /\ bk' = [bk EXCEPT !.pc = "chk", !.msg = Head(waitQ)]
      BY <1>23 DEF dispr_thread_loop_hdl, Goto, LoopTop
    <3> QED
      BY <3>1, <2>n, <1>b DEF BkState, BkPc
  <2>i. HandInv'
    BY <2>u, <1>i, <1>c, <2>f, <2>b, <2>n, <2>q DEF HandInv, InHand
  <2>t. TypeInv'
    BY <2>u, <2>i, <2>x, <2>b, <2>q, <2>n, <1>q, <1>d, <1>m, <1>p, <1>s, <1>h DEF TypeInv,
       TypeOK, Adds
  <2>k. SameTaken(Sender)
    BY <2>u DEF SameTaken, Taken
  <2>c. SameCounts
    BY <2>u DEF SameCounts
  <2>y. bk.msg = None
    BY <2>f, <1>i DEF HandInv, InHand
  <2>a. Quiet \/ Takes
    BY <2>q, <2>u, <2>x, <2>c, <2>k, <2>f, <2>y DEF Quiet, Takes, SameEnd
  <2>v. Moves
    BY <2>a DEF Moves
  <2>e. EvtStep
    BY <2>u DEF EvtStep
  <2>w. Ups' = Ups
    BY <2>u DEF Ups
  <2>z. WakeInv'
    BY <2>u, <2>w, <1>w, <1>m, <2>f, <2>b, <2>q, <2>n DEF WakeInv, BeforePop, Stopped, Adds
  <2>A. CallStep
    BY <2>u DEF CallStep, Canceling
  <2>B. LeaveStep
    BY <2>u, <2>f, <2>b, <2>q DEF LeaveStep, Stopped
  <2>C. UpStep
    BY <2>u DEF UpStep
  <2> QED
    BY <2>A, <2>B, <2>C, <2>e, <2>t, <2>v, <2>z DEF Bystanders
<1>24. ASSUME CheckMsg PROVE TypeInv' /\ Moves /\ EvtStep /\ WakeInv' /\ Bystanders
  <2>u. UNCHANGED <<idleQ, waitQ, pendQ, dispr, sema, epc, snd, hist>>
    BY <1>24 DEF CheckMsg
  <2>f. bk.pc = "chk"
    BY <1>24 DEF CheckMsg
  <2>g. bk.msg \in Slot
    BY <2>f, <1>g DEF InHand
  <2>x. ex' \in [Slot -> MsgEx] /\ SameMsgs
    BY <1>24, CheckMarks, MarksKeep
  <2>b. /\ bk' \in BkState /\ bk'.pc \in {"compl", "redir"}
        /\ bk'.msg = bk.msg /\ bk'.leaving = bk.leaving
    BY <1>24, <2>f, <1>b DEF CheckMsg, Goto, BkState, BkPc
  <2>i. HandInv'
    BY <2>u, <1>i, <1>c, <2>f, <2>b DEF HandInv, InHand
  <2>t. TypeInv'
    BY <2>u, <2>i, <2>x, <2>b, <1>q, <1>d, <1>m, <1>p, <1>s, <1>h DEF TypeInv, TypeOK
  <2>k. SameTaken(Sender)
    BY <2>u DEF SameTaken, Taken
  <2>c. SameCounts
    BY <2>u DEF SameCounts
  <2>l. Quiet
    BY <2>u, <2>k, <2>x, <2>c, <2>f, <2>b DEF Quiet, SameEnd
  <2>v. Moves
    BY <2>l DEF Moves
  <2>e. EvtStep
    BY <2>u DEF EvtStep
  <2>w. Ups' = Ups
    BY <2>u DEF Ups
  <2>z. WakeInv'
    BY <2>u, <2>w, <1>w, <1>m, <2>f, <2>b DEF WakeInv, BeforePop, Stopped
  <2>A. CallStep
    BY <2>u DEF CallStep, Canceling
  <2>B. LeaveStep
    BY <2>u, <2>f, <2>b DEF LeaveStep, Stopped
  <2>C. UpStep
    BY <2>u DEF UpStep
  <2> QED
    BY <2>A, <2>B, <2>C, <2>e, <2>t, <2>v, <2>z DEF Bystanders
<1>25. ASSUME Recycled PROVE TypeInv' /\ Moves /\ EvtStep /\ WakeInv' /\ Bystanders
  <2>u. UNCHANGED <<ex, idleQ, waitQ, pendQ, dispr, sema, epc, snd, hist>>
    BY <1>25 DEF Recycled
  <2>f. bk.pc = "redir"
    BY <1>25 DEF Recycled
  <2>g. bk.msg \in Slot
    BY <2>f, <1>g DEF InHand
  <2>b. /\ bk' \in BkState /\ bk'.pc \in {"compl"}
        /\ bk'.msg = bk.msg /\ bk'.leaving = bk.leaving
    BY <1>25, <2>f, <1>b DEF Recycled, Goto, BkState, BkPc
  <2>i. HandInv'
    BY <2>u, <1>i, <1>c, <2>f, <2>b DEF HandInv, InHand
  <2>t. TypeInv'
    BY <2>u, <2>i, <2>b, <1>e, <1>q, <1>d, <1>m, <1>p, <1>s, <1>h DEF TypeInv, TypeOK
  <2>k. SameTaken(Sender)
    BY <2>u DEF SameTaken, Taken
  <2>c. SameCounts
    BY <2>u DEF SameCounts
  <2>x. SameMsgs
    BY <2>u DEF SameMsgs, SameMsg
  <2>l. Quiet
    BY <2>u, <2>k, <2>x, <2>c, <2>f, <2>b DEF Quiet, SameEnd
  <2>v. Moves
    BY <2>l DEF Moves
  <2>e. EvtStep
    BY <2>u DEF EvtStep
  <2>w. Ups' = Ups
    BY <2>u DEF Ups
  <2>z. WakeInv'
    BY <2>u, <2>w, <1>w, <1>m, <2>f, <2>b DEF WakeInv, BeforePop, Stopped
  <2>A. CallStep
    BY <2>u DEF CallStep, Canceling
  <2>B. LeaveStep
    BY <2>u, <2>f, <2>b DEF LeaveStep, Stopped
  <2>C. UpStep
    BY <2>u DEF UpStep
  <2> QED
    BY <2>A, <2>B, <2>C, <2>e, <2>t, <2>v, <2>z DEF Bystanders
<1>26. ASSUME push_back_pending_msg PROVE TypeInv' /\ Moves /\ EvtStep /\ WakeInv' /\ Bystanders
  <2>u. UNCHANGED <<idleQ, waitQ, sema, epc, snd, hist>>
    BY <1>26 DEF push_back_pending_msg, Pended
  <2>f. bk.pc = "redir"
    BY <1>26 DEF push_back_pending_msg, Pended
  <2>g. bk.msg \in Slot
    BY <2>f, <1>g DEF InHand
  <2>d. /\ dispr' \in Dispatcher /\ dispr'.bitmap = dispr.bitmap
        /\ dispr'.started = dispr.started
        /\ \A m \in Source : \/ dispr'.pendEvt[m] = dispr.pendEvt[m]
                             \/ m = cur_msg.kind.src /\ dispr'.pendEvt[m] = cur_msg.kind.evt
    <3> DEFINE k == cur_msg.kind
               g == [dispr.pendEvt EXCEPT ![k.src] = IF Has({"CLR_SNDR"}) THEN k.evt ELSE @]
    <3>1. k \in Kind
      BY <2>g, <1>e DEF MsgEx, cur_msg
    <3>2. k.src \in Source /\ k.evt \in Evt /\ k.evt # None
      BY <3>1, MsgConstAssumption DEF Kind
    <3>3. dispr.pendEvt \in [Source -> Evt \cup {None}]
      BY <1>d DEF Dispatcher
    <3>4. dispr' = [dispr EXCEPT !.pendEvt = g]
      BY <1>26 DEF push_back_pending_msg, Pended
    <3> HIDE DEF k
    <3>5. g \in [Source -> Evt \cup {None}] /\ \A m \in Source :
             g[m] = dispr.pendEvt[m] \/ (m = k.src /\ g[m] = k.evt)
      BY <3>2, <3>3
    <3> HIDE DEF g
    <3> QED
      BY <3>4, <3>5, <1>d DEF Dispatcher, k
  <2>q. Adds(pendQ, bk.msg, pendQ')
    <3>1. pendQ' = Append(pendQ, bk.msg)
      BY <1>26 DEF push_back_pending_msg, Pended
    <3> QED
      BY <3>1, <2>g, <1>q, AppendToSet DEF Adds
  <2>x. ex' \in [Slot -> MsgEx] /\ SameMsgs
    BY <1>26, PlainSteps, MarksKeep
  <2>b. /\ bk' \in BkState /\ bk'.pc \in {"leave", "wait"}
        /\ bk'.msg = None /\ bk'.leaving = bk.leaving
        /\ bk'.pc = "wait" => ~Stopped
        /\ bk'.pc = "leave" => Stopped
    BY <1>26, <2>f, <1>b DEF push_back_pending_msg, Pended, LoopTop, BkState, BkPc
  <2>i. HandInv'
    BY <2>u, <1>i, <1>c, <2>f, <2>b DEF HandInv, InHand
  <2>t. TypeInv'
    BY <2>u, <2>i, <2>x, <2>d, <2>b, <2>q, <1>q, <1>m, <1>p, <1>s, <1>h DEF TypeInv, TypeOK,
       Adds
  <2>k. SameTaken(Sender)
    BY <2>u DEF SameTaken, Taken
  <2>c. SameCounts
    BY <2>u DEF SameCounts
  <2>a. Pends
    BY <2>g, <2>q, <2>u, <2>x, <2>c, <2>k, <2>f, <2>b DEF Pends
  <2>v. Moves
    BY <2>a DEF Moves
  <2>e. EvtStep
    BY <2>d, <2>a DEF EvtStep
  <2>w. Ups' = Ups
    BY <2>u DEF Ups
  <2>z. WakeInv'
    BY <2>u, <2>w, <1>w, <1>m, <2>f, <2>b, <2>q DEF WakeInv, BeforePop, Stopped, Adds
  <2>A. CallStep
    BY <2>u DEF CallStep, Canceling
  <2>B. LeaveStep
    BY <2>u, <2>f, <2>b DEF LeaveStep, Stopped
  <2>C. UpStep
    BY <2>u, <2>d DEF UpStep
  <2> QED
    BY <2>A, <2>B, <2>C, <2>e, <2>t, <2>v, <2>z DEF Bystanders
<1>27. ASSUME _notify_dispr_controller PROVE TypeInv' /\ Moves /\ EvtStep /\ WakeInv' /\ Bystanders
  <2>u. UNCHANGED <<ex, idleQ, waitQ, pendQ, dispr, sema, epc, snd, hist>>
    BY <1>27 DEF _notify_dispr_controller, NextPart
  <2>f. bk.pc = "redir"
    BY <1>27 DEF _notify_dispr_controller, NextPart
  <2>g. bk.msg \in Slot
    BY <2>f, <1>g DEF InHand
  <2>b. /\ bk' \in BkState /\ bk'.pc \in {"redir", "feed"}
        /\ bk'.msg = bk.msg /\ bk'.leaving = bk.leaving
        /\ bk'.pc = "feed" => bk'.todo # <<>>
    <3> DEFINE S == (Mdl \cup {Ctrl}) \X BOOLEAN
               v == <<Ctrl, TRUE>>
               t == <<v>>
    <3>1. v \in S
      OBVIOUS
    <3> HIDE DEF v, S
    <3>2. t \in Seq(S) /\ t # <<>>
      BY <3>1
    <3> HIDE DEF t
    <3>3. \/ bk' = [bk EXCEPT !.pc = "feed", !.ph = "pre", !.todo = t]
          \/ bk' = [bk EXCEPT !.ph = "pre"]
      BY <1>27 DEF _notify_dispr_controller, NextPart, t, v
    <3> QED
      BY <3>2, <3>3, <1>b, <2>f DEF BkState, BkPc, S
  <2>i. HandInv'
    BY <2>u, <1>i, <1>c, <2>f, <2>b DEF HandInv, InHand
  <2>t. TypeInv'
    BY <2>u, <2>i, <2>b, <1>e, <1>q, <1>d, <1>m, <1>p, <1>s, <1>h DEF TypeInv, TypeOK
  <2>k. SameTaken(Sender)
    BY <2>u DEF SameTaken, Taken
  <2>c. SameCounts
    BY <2>u DEF SameCounts
  <2>x. SameMsgs
    BY <2>u DEF SameMsgs, SameMsg
  <2>l. Quiet
    BY <2>u, <2>k, <2>x, <2>c, <2>f, <2>b DEF Quiet, SameEnd
  <2>v. Moves
    BY <2>l DEF Moves
  <2>e. EvtStep
    BY <2>u DEF EvtStep
  <2>w. Ups' = Ups
    BY <2>u DEF Ups
  <2>z. WakeInv'
    BY <2>u, <2>w, <1>w, <1>m, <2>f, <2>b DEF WakeInv, BeforePop, Stopped
  <2>A. CallStep
    BY <2>u DEF CallStep, Canceling
  <2>B. LeaveStep
    BY <2>u, <2>f, <2>b DEF LeaveStep, Stopped
  <2>C. UpStep
    BY <2>u DEF UpStep
  <2> QED
    BY <2>A, <2>B, <2>C, <2>e, <2>t, <2>v, <2>z DEF Bystanders
<1>28. ASSUME msg_pre_phase_hdl PROVE TypeInv' /\ Moves /\ EvtStep /\ WakeInv' /\ Bystanders
  <2>u. UNCHANGED <<ex, idleQ, waitQ, pendQ, dispr, sema, epc, snd, hist>>
    BY <1>28 DEF msg_pre_phase_hdl, NextPart
  <2>f. bk.pc = "redir"
    BY <1>28 DEF msg_pre_phase_hdl, NextPart
  <2>g. bk.msg \in Slot
    BY <2>f, <1>g DEF InHand
  <2>b. /\ bk' \in BkState /\ bk'.pc \in {"redir", "walk"}
        /\ bk'.msg = bk.msg /\ bk'.leaving = bk.leaving
    <3> DEFINE t == PreOrder(cur_msg)
    <3>1. t \in Seq((Mdl \cup {Ctrl}) \X BOOLEAN)
      BY OrderType
    <3>2. \/ bk' = [bk EXCEPT !.pc = "walk", !.ph = "mid", !.todo = t]
          \/ bk' = [bk EXCEPT !.ph = "mid"]
      BY <1>28 DEF msg_pre_phase_hdl, NextPart
    <3> HIDE DEF t
    <3> QED
      BY <3>1, <3>2, <1>b, <2>f DEF BkState, BkPc
  <2>i. HandInv'
    BY <2>u, <1>i, <1>c, <2>f, <2>b DEF HandInv, InHand
  <2>t. TypeInv'
    BY <2>u, <2>i, <2>b, <1>e, <1>q, <1>d, <1>m, <1>p, <1>s, <1>h DEF TypeInv, TypeOK
  <2>k. SameTaken(Sender)
    BY <2>u DEF SameTaken, Taken
  <2>c. SameCounts
    BY <2>u DEF SameCounts
  <2>x. SameMsgs
    BY <2>u DEF SameMsgs, SameMsg
  <2>l. Quiet
    BY <2>u, <2>k, <2>x, <2>c, <2>f, <2>b DEF Quiet, SameEnd
  <2>v. Moves
    BY <2>l DEF Moves
  <2>e. EvtStep
    BY <2>u DEF EvtStep
  <2>w. Ups' = Ups
    BY <2>u DEF Ups
  <2>z. WakeInv'
    BY <2>u, <2>w, <1>w, <1>m, <2>f, <2>b DEF WakeInv, BeforePop, Stopped
  <2>A. CallStep
    BY <2>u DEF CallStep, Canceling
  <2>B. LeaveStep
    BY <2>u, <2>f, <2>b DEF LeaveStep, Stopped
  <2>C. UpStep
    BY <2>u DEF UpStep
  <2> QED
    BY <2>A, <2>B, <2>C, <2>e, <2>t, <2>v, <2>z DEF Bystanders
<1>29. ASSUME msg_post_phase_hdl PROVE TypeInv' /\ Moves /\ EvtStep /\ WakeInv' /\ Bystanders
  <2>u. UNCHANGED <<idleQ, waitQ, pendQ, dispr, sema, epc, snd, hist>>
    BY <1>29 DEF msg_post_phase_hdl, NextPart
  <2>f. bk.pc = "redir"
    BY <1>29 DEF msg_post_phase_hdl, NextPart
  <2>g. bk.msg \in Slot
    BY <2>f, <1>g DEF InHand
  <2>x. ex' \in [Slot -> MsgEx] /\ SameMsgs
    <3> DEFINE f == ex[bk.msg].st \cup {"CANCEL"}
               h == ex[bk.msg].st \ {"PRE"}
    <3>1. ex[bk.msg] \in MsgEx
      BY <2>g, <1>e
    <3>2. /\ f \in SUBSET Flag /\ ("COMPLETE" \in f <=> "COMPLETE" \in ex[bk.msg].st)
          /\ h \in SUBSET Flag /\ ("COMPLETE" \in h <=> "COMPLETE" \in ex[bk.msg].st)
      BY <3>1 DEF MsgEx, Flag
    <3>3. \E v \in {f, h} : ex' = [ex EXCEPT ![bk.msg] = [@ EXCEPT !.st = v]]
      BY <1>29 DEF msg_post_phase_hdl, InvalidBitmap
    <3> HIDE DEF f, h
    <3>4. PICK v \in {f, h} : ex' = [ex EXCEPT ![bk.msg] = [@ EXCEPT !.st = v]]
      BY <3>3
    <3> DEFINE y == [ex[bk.msg] EXCEPT !.st = v]
    <3>5. /\ y \in MsgEx /\ y.st = v /\ y.mid = ex[bk.msg].mid /\ y.kind = ex[bk.msg].kind
      BY <3>1, <3>2 DEF MsgEx
    <3>6. ex' = [ex EXCEPT ![bk.msg] = y]
      BY <3>4
    <3> HIDE DEF y
    <3> QED
      BY <3>2, <3>5, <3>6, <2>g, <1>e DEF SameMsgs, SameMsg
  <2>b. /\ bk' \in BkState /\ bk'.pc \in {"redir", "walk", "compl"}
        /\ bk'.msg = bk.msg /\ bk'.leaving = bk.leaving
    <3> DEFINE t == PostOrder(cur_msg)
    <3>1. t \in Seq((Mdl \cup {Ctrl}) \X BOOLEAN)
      BY OrderType
    <3>2. \/ bk' = [bk EXCEPT !.pc = "walk", !.ph = "end", !.todo = t]
          \/ bk' = [bk EXCEPT !.ph = "end"]
          \/ bk' = [bk EXCEPT !.pc = "compl"]
      BY <1>29 DEF msg_post_phase_hdl, NextPart, InvalidBitmap, Goto
    <3> HIDE DEF t
    <3> QED
      BY <3>1, <3>2, <1>b, <2>f DEF BkState, BkPc
  <2>i. HandInv'
    BY <2>u, <1>i, <1>c, <2>f, <2>b DEF HandInv, InHand
  <2>t. TypeInv'
    BY <2>u, <2>i, <2>x, <2>b, <1>q, <1>d, <1>m, <1>p, <1>s, <1>h DEF TypeInv, TypeOK
  <2>k. SameTaken(Sender)
    BY <2>u DEF SameTaken, Taken
  <2>c. SameCounts
    BY <2>u DEF SameCounts
  <2>l. Quiet
    BY <2>u, <2>k, <2>x, <2>c, <2>f, <2>b DEF Quiet, SameEnd
  <2>v. Moves
    BY <2>l DEF Moves
  <2>e. EvtStep
    BY <2>u DEF EvtStep
  <2>w. Ups' = Ups
    BY <2>u DEF Ups
  <2>z. WakeInv'
    BY <2>u, <2>w, <1>w, <1>m, <2>f, <2>b DEF WakeInv, BeforePop, Stopped
  <2>A. CallStep
    BY <2>u DEF CallStep, Canceling
  <2>B. LeaveStep
    BY <2>u, <2>f, <2>b DEF LeaveStep, Stopped
  <2>C. UpStep
    BY <2>u DEF UpStep
  <2> QED
    BY <2>A, <2>B, <2>C, <2>e, <2>t, <2>v, <2>z DEF Bystanders
<1>30. ASSUME cur_req_hdl PROVE TypeInv' /\ Moves /\ EvtStep /\ WakeInv' /\ Bystanders
  <2>u. UNCHANGED <<idleQ, waitQ, pendQ, dispr, sema, epc, snd, hist>>
    BY <1>30 DEF cur_req_hdl, NextPart
  <2>f. bk.pc = "redir"
    BY <1>30 DEF cur_req_hdl, NextPart
  <2>g. bk.msg \in Slot
    BY <2>f, <1>g DEF InHand
  <2>x. ex' \in [Slot -> MsgEx] /\ SameMsgs
    BY <1>30, ReqMarks, MarksKeep
  <2>b. /\ bk' \in BkState /\ bk'.pc \in {"compl", "reqhdl"}
        /\ bk'.msg = bk.msg /\ bk'.leaving = bk.leaving
    BY <1>30, <2>f, <1>b DEF cur_req_hdl, NextPart, InvalidBitmap, Goto, BkState, BkPc
  <2>i. HandInv'
    BY <2>u, <1>i, <1>c, <2>f, <2>b DEF HandInv, InHand
  <2>t. TypeInv'
    BY <2>u, <2>i, <2>x, <2>b, <1>q, <1>d, <1>m, <1>p, <1>s, <1>h DEF TypeInv, TypeOK
  <2>k. SameTaken(Sender)
    BY <2>u DEF SameTaken, Taken
  <2>c. SameCounts
    BY <2>u DEF SameCounts
  <2>l. Quiet
    BY <2>u, <2>k, <2>x, <2>c, <2>f, <2>b DEF Quiet, SameEnd
  <2>v. Moves
    BY <2>l DEF Moves
  <2>e. EvtStep
    BY <2>u DEF EvtStep
  <2>w. Ups' = Ups
    BY <2>u DEF Ups
  <2>z. WakeInv'
    BY <2>u, <2>w, <1>w, <1>m, <2>f, <2>b DEF WakeInv, BeforePop, Stopped
  <2>A. CallStep
    BY <2>u DEF CallStep, Canceling
  <2>B. LeaveStep
    BY <2>u, <2>f, <2>b DEF LeaveStep, Stopped
  <2>C. UpStep
    BY <2>u DEF UpStep
  <2> QED
    BY <2>A, <2>B, <2>C, <2>e, <2>t, <2>v, <2>z DEF Bystanders
<1>31. ASSUME ReqHdlReturns PROVE TypeInv' /\ Moves /\ EvtStep /\ WakeInv' /\ Bystanders
  <2>u. UNCHANGED <<ex, idleQ, waitQ, pendQ, dispr, sema, epc, snd, hist>>
    BY <1>31 DEF ReqHdlReturns
  <2>f. bk.pc = "reqhdl"
    BY <1>31 DEF ReqHdlReturns
  <2>g. bk.msg \in Slot
    BY <2>f, <1>g DEF InHand
  <2>b. /\ bk' \in BkState /\ bk'.pc \in {"compl"}
        /\ bk'.msg = bk.msg /\ bk'.leaving = bk.leaving
    BY <1>31, <2>f, <1>b DEF ReqHdlReturns, Goto, BkState, BkPc
  <2>i. HandInv'
    BY <2>u, <1>i, <1>c, <2>f, <2>b DEF HandInv, InHand
  <2>t. TypeInv'
    BY <2>u, <2>i, <2>b, <1>e, <1>q, <1>d, <1>m, <1>p, <1>s, <1>h DEF TypeInv, TypeOK
  <2>k. SameTaken(Sender)
    BY <2>u DEF SameTaken, Taken
  <2>c. SameCounts
    BY <2>u DEF SameCounts
  <2>x. SameMsgs
    BY <2>u DEF SameMsgs, SameMsg
  <2>l. Quiet
    BY <2>u, <2>k, <2>x, <2>c, <2>f, <2>b DEF Quiet, SameEnd
  <2>v. Moves
    BY <2>l DEF Moves
  <2>e. EvtStep
    BY <2>u DEF EvtStep
  <2>w. Ups' = Ups
    BY <2>u DEF Ups
  <2>z. WakeInv'
    BY <2>u, <2>w, <1>w, <1>m, <2>f, <2>b DEF WakeInv, BeforePop, Stopped
  <2>A. CallStep
    BY <2>u DEF CallStep, Canceling
  <2>B. LeaveStep
    BY <2>u, <2>f, <2>b DEF LeaveStep, Stopped
  <2>C. UpStep
    BY <2>u DEF UpStep
  <2> QED
    BY <2>A, <2>B, <2>C, <2>e, <2>t, <2>v, <2>z DEF Bystanders
<1>32. ASSUME NextModule PROVE TypeInv' /\ Moves /\ EvtStep /\ WakeInv' /\ Bystanders
  <2>u. UNCHANGED <<ex, idleQ, waitQ, pendQ, dispr, sema, epc, snd, hist>>
    BY <1>32 DEF NextModule
  <2>f. bk.pc = "walk"
    BY <1>32 DEF NextModule
  <2>g. bk.msg \in Slot
    BY <2>f, <1>g DEF InHand
  <2>b. /\ bk' \in BkState /\ bk'.pc \in {"redir", "feed"}
        /\ bk'.msg = bk.msg /\ bk'.leaving = bk.leaving
        /\ bk'.pc = "feed" => bk'.todo # <<>>
    <3> DEFINE S == (Mdl \cup {Ctrl}) \X BOOLEAN
               r == SubSeq(bk.todo, Min(ToFeed), Len(bk.todo))
    <3>1. bk.todo \in Seq(S)
      BY <1>b DEF BkState
    <3>2. ToFeed # {} => r \in Seq(S) /\ r # <<>>
      BY <3>1, RestToFeed
    <3>3. <<>> \in Seq(S)
      OBVIOUS
    <3>4. \/ bk' = [bk EXCEPT !.pc = "redir", !.todo = <<>>]
          \/ ToFeed # {} /\ bk' = [bk EXCEPT !.pc = "feed", !.todo = r]
      BY <1>32 DEF NextModule
    <3> HIDE DEF r
    <3> QED
      BY <3>2, <3>3, <3>4, <1>b DEF BkState, BkPc
  <2>i. HandInv'
    BY <2>u, <1>i, <1>c, <2>f, <2>b DEF HandInv, InHand
  <2>t. TypeInv'
    BY <2>u, <2>i, <2>b, <1>e, <1>q, <1>d, <1>m, <1>p, <1>s, <1>h DEF TypeInv, TypeOK
  <2>k. SameTaken(Sender)
    BY <2>u DEF SameTaken, Taken
  <2>c. SameCounts
    BY <2>u DEF SameCounts
  <2>x. SameMsgs
    BY <2>u DEF SameMsgs, SameMsg
  <2>l. Quiet
    BY <2>u, <2>k, <2>x, <2>c, <2>f, <2>b DEF Quiet, SameEnd
  <2>v. Moves
    BY <2>l DEF Moves
  <2>e. EvtStep
    BY <2>u DEF EvtStep
  <2>w. Ups' = Ups
    BY <2>u DEF Ups
  <2>z. WakeInv'
    BY <2>u, <2>w, <1>w, <1>m, <2>f, <2>b DEF WakeInv, BeforePop, Stopped
  <2>A. CallStep
    BY <2>u DEF CallStep, Canceling
  <2>B. LeaveStep
    BY <2>u, <2>f, <2>b DEF LeaveStep, Stopped
  <2>C. UpStep
    BY <2>u DEF UpStep
  <2> QED
    BY <2>A, <2>B, <2>C, <2>e, <2>t, <2>v, <2>z DEF Bystanders
<1>33. ASSUME feed_mdl_msg PROVE TypeInv' /\ Moves /\ EvtStep /\ WakeInv' /\ Bystanders
  <2>u. UNCHANGED <<ex, idleQ, waitQ, pendQ, dispr, sema, epc, snd, hist>>
    BY <1>33 DEF feed_mdl_msg
  <2>f. bk.pc = "feed"
    BY <1>33 DEF feed_mdl_msg
  <2>g. bk.msg \in Slot
    BY <2>f, <1>g DEF InHand
  <2>b. /\ bk' \in BkState /\ bk'.pc \in {"hdl"}
        /\ bk'.msg = bk.msg /\ bk'.leaving = bk.leaving /\ bk'.todo = bk.todo
    BY <1>33, <2>f, <1>b DEF feed_mdl_msg, Goto, BkState, BkPc
  <2>i. HandInv'
    BY <2>u, <1>i, <1>c, <2>f, <2>b DEF HandInv, InHand
  <2>t. TypeInv'
    BY <2>u, <2>i, <2>b, <1>e, <1>q, <1>d, <1>m, <1>p, <1>s, <1>h DEF TypeInv, TypeOK
  <2>k. SameTaken(Sender)
    BY <2>u DEF SameTaken, Taken
  <2>c. SameCounts
    BY <2>u DEF SameCounts
  <2>x. SameMsgs
    BY <2>u DEF SameMsgs, SameMsg
  <2>l. Quiet
    BY <2>u, <2>k, <2>x, <2>c, <2>f, <2>b DEF Quiet, SameEnd
  <2>v. Moves
    BY <2>l DEF Moves
  <2>e. EvtStep
    BY <2>u DEF EvtStep
  <2>w. Ups' = Ups
    BY <2>u DEF Ups
  <2>z. WakeInv'
    BY <2>u, <2>w, <1>w, <1>m, <2>f, <2>b DEF WakeInv, BeforePop, Stopped
  <2>A. CallStep
    BY <2>u DEF CallStep, Canceling
  <2>B. LeaveStep
    BY <2>u, <2>f, <2>b DEF LeaveStep, Stopped
  <2>C. UpStep
    BY <2>u DEF UpStep
  <2> QED
    BY <2>A, <2>B, <2>C, <2>e, <2>t, <2>v, <2>z DEF Bystanders
<1>34. ASSUME HdlOk PROVE TypeInv' /\ Moves /\ EvtStep /\ WakeInv' /\ Bystanders
  <2>u. UNCHANGED <<idleQ, waitQ, pendQ, dispr, sema, epc, snd, hist>>
    BY <1>34 DEF HdlOk
  <2>f. bk.pc = "hdl"
    BY <1>34 DEF HdlOk
  <2>g. bk.msg \in Slot
    BY <2>f, <1>g DEF InHand
  <2>x. ex' \in [Slot -> MsgEx] /\ SameMsgs
    <3>1. ex[bk.msg] \in MsgEx
      BY <2>g, <1>e
    <3>2. Fed \in Source
      <4>1. Head(bk.todo) \in (Mdl \cup {Ctrl}) \X BOOLEAN
        BY <2>f, <1>b, <1>i DEF BkState, HandInv
      <4> QED
        BY <4>1 DEF Fed, Source
    <3> DEFINE y == ClearBit(ex[bk.msg])
    <3>3. /\ y \in MsgEx /\ y.st = ex[bk.msg].st /\ y.mid = ex[bk.msg].mid
          /\ y.kind = ex[bk.msg].kind
      BY <3>1, <3>2, Accepted
    <3>4. ex' = [ex EXCEPT ![bk.msg] = y]
      BY <1>34 DEF HdlOk
    <3> HIDE DEF y
    <3> QED
      BY <3>3, <3>4, <2>g, <1>e DEF SameMsgs, SameMsg
  <2>b. /\ bk' \in BkState /\ bk'.pc \in {"redir", "walk"}
        /\ bk'.msg = bk.msg /\ bk'.leaving = bk.leaving
    <3>1. bk.todo # <<>> /\ bk.todo \in Seq((Mdl \cup {Ctrl}) \X BOOLEAN)
      BY <2>f, <1>b, <1>i DEF BkState, HandInv
    <3>2. Tail(bk.todo) \in Seq((Mdl \cup {Ctrl}) \X BOOLEAN)
      BY <3>1
    <3> QED
      BY <1>34, <3>2, <1>b DEF HdlOk, BkState, BkPc
  <2>i. HandInv'
    BY <2>u, <1>i, <1>c, <2>f, <2>b DEF HandInv, InHand
  <2>t. TypeInv'
    BY <2>u, <2>i, <2>x, <2>b, <1>q, <1>d, <1>m, <1>p, <1>s, <1>h DEF TypeInv, TypeOK
  <2>k. SameTaken(Sender)
    BY <2>u DEF SameTaken, Taken
  <2>c. SameCounts
    BY <2>u DEF SameCounts
  <2>l. Quiet
    BY <2>u, <2>k, <2>x, <2>c, <2>f, <2>b DEF Quiet, SameEnd
  <2>v. Moves
    BY <2>l DEF Moves
  <2>e. EvtStep
    BY <2>u DEF EvtStep
  <2>w. Ups' = Ups
    BY <2>u DEF Ups
  <2>z. WakeInv'
    BY <2>u, <2>w, <1>w, <1>m, <2>f, <2>b DEF WakeInv, BeforePop, Stopped
  <2>A. CallStep
    BY <2>u DEF CallStep, Canceling
  <2>B. LeaveStep
    BY <2>u, <2>f, <2>b DEF LeaveStep, Stopped
  <2>C. UpStep
    BY <2>u DEF UpStep
  <2> QED
    BY <2>A, <2>B, <2>C, <2>e, <2>t, <2>v, <2>z DEF Bystanders
<1>35. ASSUME notify_msg_fail PROVE TypeInv' /\ Moves /\ EvtStep /\ WakeInv' /\ Bystanders
  <2>u. UNCHANGED <<idleQ, waitQ, pendQ, dispr, sema, epc, snd, hist>>
    BY <1>35 DEF notify_msg_fail, HdlStops
  <2>f. bk.pc = "hdl"
    BY <1>35 DEF notify_msg_fail, HdlStops
  <2>g. bk.msg \in Slot
    BY <2>f, <1>g DEF InHand
  <2>x. ex' \in [Slot -> MsgEx] /\ SameMsgs
    BY <1>35, PlainSteps, MarksKeep
  <2>b. /\ bk' \in BkState /\ bk'.pc \in {"redir"}
        /\ bk'.msg = bk.msg /\ bk'.leaving = bk.leaving
    <3>1. <<>> \in Seq((Mdl \cup {Ctrl}) \X BOOLEAN)
      OBVIOUS
    <3> QED
      BY <1>35, <3>1, <1>b DEF notify_msg_fail, HdlStops, BkState, BkPc
  <2>i. HandInv'
    BY <2>u, <1>i, <1>c, <2>f, <2>b DEF HandInv, InHand
  <2>t. TypeInv'
    BY <2>u, <2>i, <2>x, <2>b, <1>q, <1>d, <1>m, <1>p, <1>s, <1>h DEF TypeInv, TypeOK
  <2>k. SameTaken(Sender)
    BY <2>u DEF SameTaken, Taken
  <2>c. SameCounts
    BY <2>u DEF SameCounts
  <2>l. Quiet
    BY <2>u, <2>k, <2>x, <2>c, <2>f, <2>b DEF Quiet, SameEnd
  <2>v. Moves
    BY <2>l DEF Moves
  <2>e. EvtStep
    BY <2>u DEF EvtStep
  <2>w. Ups' = Ups
    BY <2>u DEF Ups
  <2>z. WakeInv'
    BY <2>u, <2>w, <1>w, <1>m, <2>f, <2>b DEF WakeInv, BeforePop, Stopped
  <2>A. CallStep
    BY <2>u DEF CallStep, Canceling
  <2>B. LeaveStep
    BY <2>u, <2>f, <2>b DEF LeaveStep, Stopped
  <2>C. UpStep
    BY <2>u DEF UpStep
  <2> QED
    BY <2>A, <2>B, <2>C, <2>e, <2>t, <2>v, <2>z DEF Bystanders
<1>36. ASSUME HdlPends PROVE TypeInv' /\ Moves /\ EvtStep /\ WakeInv' /\ Bystanders
  <2>u. UNCHANGED <<idleQ, waitQ, pendQ, dispr, sema, epc, snd>>
    BY <1>36 DEF HdlPends, HdlStops
  <2>f. bk.pc = "hdl"
    BY <1>36 DEF HdlPends, HdlStops
  <2>g. bk.msg \in Slot
    BY <2>f, <1>g DEF InHand
  <2>x. ex' \in [Slot -> MsgEx] /\ SameMsgs
    BY <1>36, PlainSteps, MarksKeep
  <2>h. hist' \in History /\ SameCounts
    <3>1. hist.npend < MaxPend /\ hist' = [hist EXCEPT !.npend = @ + 1]
      BY <1>36 DEF HdlPends
    <3>2. hist.npend + 1 \in 0..MaxPend
      BY <3>1, <1>h, <1>n DEF History
    <3> QED
      BY <3>1, <3>2, <1>h DEF History, SameCounts
  <2>b. /\ bk' \in BkState /\ bk'.pc \in {"redir"}
        /\ bk'.msg = bk.msg /\ bk'.leaving = bk.leaving
    <3>1. <<>> \in Seq((Mdl \cup {Ctrl}) \X BOOLEAN)
      OBVIOUS
    <3> QED
      BY <1>36, <3>1, <1>b DEF HdlPends, HdlStops, BkState, BkPc
  <2>i. HandInv'
    BY <2>u, <1>i, <1>c, <2>f, <2>b DEF HandInv, InHand
  <2>t. TypeInv'
    BY <2>u, <2>i, <2>x, <2>b, <2>h, <1>q, <1>d, <1>m, <1>p, <1>s DEF TypeInv, TypeOK
  <2>k. SameTaken(Sender)
    BY <2>u DEF SameTaken, Taken
  <2>l. Quiet
    BY <2>u, <2>k, <2>x, <2>h, <2>f, <2>b DEF Quiet, SameEnd
  <2>v. Moves
    BY <2>l DEF Moves
  <2>e. EvtStep
    BY <2>u DEF EvtStep
  <2>w. Ups' = Ups
    BY <2>u DEF Ups
  <2>z. WakeInv'
    BY <2>u, <2>w, <1>w, <1>m, <2>f, <2>b DEF WakeInv, BeforePop, Stopped
  <2>A. CallStep
    BY <2>u DEF CallStep, Canceling
  <2>B. LeaveStep
    BY <2>u, <2>f, <2>b DEF LeaveStep, Stopped
  <2>C. UpStep
    BY <2>u DEF UpStep
  <2> QED
    BY <2>A, <2>B, <2>C, <2>e, <2>t, <2>v, <2>z DEF Bystanders
<1>37. ASSUME Completion PROVE TypeInv' /\ Moves /\ EvtStep /\ WakeInv' /\ Bystanders
  <2>u. UNCHANGED <<ex, idleQ, waitQ, pendQ, dispr, sema, epc, snd>>
    BY <1>37 DEF Completion
  <2>f. bk.pc = "compl"
    BY <1>37 DEF Completion
  <2>g. bk.msg \in Slot
    BY <2>f, <1>g DEF InHand
  <2>h. /\ hist' \in History /\ hist'.nmsg = hist.nmsg
        /\ hist'.owed = hist.owed /\ hist'.late = hist.late
        /\ hist'.done = IF "COMPLETE" \in cur_msg.st
                        THEN [hist.done EXCEPT ![cur_msg.mid] = @ + 1] ELSE hist.done
    <3> DEFINE j == cur_msg.mid
               d == [hist.done EXCEPT ![j] = @ + 1]
               g == IF "COMPLETE" \in cur_msg.st THEN d ELSE hist.done
    <3>1. hist.done \in [Msg -> Nat]
      BY <1>h DEF History
    <3> HIDE DEF j
    <3>2. d \in [Msg -> Nat]
      <4>1. CASE j \in Msg
        BY <3>1, <4>1
      <4>2. CASE j \notin Msg
        <5>1. d = hist.done
          BY <3>1, <4>2
        <5> QED
          BY <3>1, <5>1
      <4> QED
        BY <4>1, <4>2
    <3> HIDE DEF d
    <3>3. hist' = [hist EXCEPT !.done = IF Has({"COMPLETE"}) THEN d ELSE hist.done]
      BY <1>37 DEF Completion, Told, d, j
    <3>4. Has({"COMPLETE"}) <=> "COMPLETE" \in cur_msg.st
      BY DEF Has
    <3>5. hist' = [hist EXCEPT !.done = g] /\ g \in [Msg -> Nat]
      BY <3>1, <3>2, <3>3, <3>4
    <3>6. g = IF "COMPLETE" \in cur_msg.st THEN [hist.done EXCEPT ![cur_msg.mid] = @ + 1]
              ELSE hist.done
      BY DEF d, j
    <3> HIDE DEF g
    <3> QED
      BY <3>5, <3>6, <1>h DEF History
  <2>b. /\ bk' \in BkState /\ bk'.pc \in {"recyc"}
        /\ bk'.msg = bk.msg /\ bk'.leaving = bk.leaving
    BY <1>37, <2>f, <1>b DEF Completion, Goto, BkState, BkPc
  <2>i. HandInv'
    BY <2>u, <1>i, <1>c, <2>f, <2>b DEF HandInv, InHand
  <2>t. TypeInv'
    BY <2>u, <2>i, <2>b, <2>h, <1>e, <1>q, <1>d, <1>m, <1>p, <1>s DEF TypeInv, TypeOK
  <2>k. SameTaken(Sender)
    BY <2>u DEF SameTaken, Taken
  <2>x. SameMsgs
    BY <2>u DEF SameMsgs, SameMsg
  <2>a. Completes
    BY <2>g, <2>u, <2>h, <2>k, <2>f, <2>b DEF Completes
  <2>v. Moves
    BY <2>a DEF Moves
  <2>e. EvtStep
    BY <2>u DEF EvtStep
  <2>w. Ups' = Ups
    BY <2>u DEF Ups
  <2>z. WakeInv'
    BY <2>u, <2>w, <1>w, <1>m, <2>f, <2>b DEF WakeInv, BeforePop, Stopped
  <2>A. CallStep
    BY <2>u DEF CallStep, Canceling
  <2>B. LeaveStep
    BY <2>u, <2>f, <2>b DEF LeaveStep, Stopped
  <2>C. UpStep
    BY <2>u DEF UpStep
  <2> QED
    BY <2>A, <2>B, <2>C, <2>e, <2>t, <2>v, <2>z DEF Bystanders
<1>38. ASSUME push_back_idle_msg PROVE TypeInv' /\ Moves /\ EvtStep /\ WakeInv' /\ Bystanders
  <2>u. UNCHANGED <<waitQ, pendQ, sema, epc, snd, hist>>
    BY <1>38 DEF push_back_idle_msg, Recycle
  <2>f. bk.pc = "recyc"
    BY <1>38 DEF push_back_idle_msg, Recycle
  <2>g. bk.msg \in Slot
    BY <2>f, <1>g DEF InHand
  <2>d. /\ dispr' \in Dispatcher /\ dispr'.bitmap = dispr.bitmap
        /\ dispr'.started = dispr.started
        /\ \A m \in Source : dispr'.pendEvt[m] \in {dispr.pendEvt[m], None}
        /\ dispr'.pendEvt[cur_msg.kind.src] # cur_msg.kind.evt
    <3> DEFINE k == cur_msg.kind
               g == [dispr.pendEvt EXCEPT ![k.src] = IF @ = k.evt THEN None ELSE @]
    <3>1. k \in Kind
      BY <2>g, <1>e DEF MsgEx, cur_msg
    <3>2. k.src \in Source /\ k.evt \in Evt /\ k.evt # None
      BY <3>1, MsgConstAssumption DEF Kind
    <3>3. dispr.pendEvt \in [Source -> Evt \cup {None}]
      BY <1>d DEF Dispatcher
    <3>4. dispr' = [dispr EXCEPT !.pendEvt = g]
      BY <1>38 DEF push_back_idle_msg, Recycle
    <3> HIDE DEF k
    <3>5. g \in [Source -> Evt \cup {None}] /\ g[k.src] # k.evt
             /\ \A m \in Source : g[m] \in {dispr.pendEvt[m], None}
      BY <3>2, <3>3
    <3> HIDE DEF g
    <3> QED
      BY <3>4, <3>5, <1>d DEF Dispatcher, k
  <2>x. /\ ex' \in [Slot -> MsgEx] /\ ex'[bk.msg].mid = 0
        /\ \A t \in Slot \ {bk.msg} : ex'[t] = ex[t]
    <3> DEFINE y == [ex[bk.msg] EXCEPT !.st = {}, !.mid = 0, !.kind = Blank, !.want = {},
                                       !.got = {}]
    <3>1. ex[bk.msg] \in MsgEx /\ 0 \in 0..MaxMsg
      BY <2>g, <1>e, <1>n
    <3>2. y \in MsgEx /\ y.mid = 0
      BY <3>1, BlankKind DEF MsgEx
    <3>3. ex' = [ex EXCEPT ![bk.msg] = y]
      BY <1>38 DEF push_back_idle_msg, Recycle
    <3> HIDE DEF y
    <3> QED
      BY <3>2, <3>3, <2>g, <1>e
  <2>q. Adds(idleQ, bk.msg, idleQ')
    <3>1. idleQ' = Append(idleQ, bk.msg)
      BY <1>38 DEF push_back_idle_msg, Recycle
    <3> QED
      BY <3>1, <2>g, <1>q, AppendToSet DEF Adds
  <2>b. /\ bk' \in BkState /\ bk'.pc \in {"clrmsg", "leave", "wait"}
        /\ bk'.msg = None /\ bk'.leaving = bk.leaving
        /\ bk'.pc = "wait" => ~Stopped
        /\ bk'.pc = "leave" => Stopped
        /\ bk'.pc = "clrmsg" => bk.leaving
    BY <1>38, <2>f, <1>b DEF push_back_idle_msg, Recycle, LoopTop, BkState, BkPc
  <2>i. HandInv'
    BY <2>u, <1>i, <1>c, <2>f, <2>b DEF HandInv, InHand
  <2>t. TypeInv'
    BY <2>u, <2>i, <2>x, <2>d, <2>b, <2>q, <1>q, <1>m, <1>p, <1>s, <1>h DEF TypeInv, TypeOK,
       Adds
  <2>k. SameTaken(Sender)
    BY <2>u DEF SameTaken, Taken
  <2>c. SameCounts
    BY <2>u DEF SameCounts
  <2>a. Recycles
    BY <2>g, <2>q, <2>u, <2>x, <2>c, <2>k, <2>f, <2>b, <2>d DEF Recycles
  <2>v. Moves
    BY <2>a DEF Moves
  <2>e. EvtStep
    BY <2>d DEF EvtStep
  <2>w. Ups' = Ups
    BY <2>u DEF Ups
  <2>z. WakeInv'
    BY <2>u, <2>w, <1>w, <1>m, <2>f, <2>b, <2>q DEF WakeInv, BeforePop, Stopped, Adds
  <2>A. CallStep
    BY <2>u DEF CallStep, Canceling
  <2>B. LeaveStep
    BY <2>u, <2>f, <2>b DEF LeaveStep, Stopped
  <2>C. UpStep
    BY <2>u, <2>d DEF UpStep
  <2> QED
    BY <2>A, <2>B, <2>C, <2>e, <2>t, <2>v, <2>z DEF Bystanders
<1>39. ASSUME dispr_thread_leave_hdl PROVE TypeInv' /\ Moves /\ EvtStep /\ WakeInv' /\ Bystanders
  <2>u. UNCHANGED <<ex, idleQ, waitQ, pendQ, dispr, sema, epc, snd, hist>>
    BY <1>39 DEF dispr_thread_leave_hdl
  <2>f. bk.pc = "leave"
    BY <1>39 DEF dispr_thread_leave_hdl
  <2>b. /\ bk' \in BkState /\ bk'.pc \in {"dereg"}
        /\ bk'.msg = bk.msg /\ bk'.leaving
    BY <1>39, <2>f, <1>b DEF dispr_thread_leave_hdl, BkState, BkPc
  <2>i. HandInv'
    BY <2>u, <1>i, <1>c, <2>f, <2>b DEF HandInv, InHand
  <2>t. TypeInv'
    BY <2>u, <2>i, <2>b, <1>e, <1>q, <1>d, <1>m, <1>p, <1>s, <1>h DEF TypeInv, TypeOK
  <2>k. SameTaken(Sender)
    BY <2>u DEF SameTaken, Taken
  <2>c. SameCounts
    BY <2>u DEF SameCounts
  <2>x. SameMsgs
    BY <2>u DEF SameMsgs, SameMsg
  <2>l. Quiet
    BY <2>u, <2>k, <2>x, <2>c, <2>f, <2>b DEF Quiet, SameEnd
  <2>v. Moves
    BY <2>l DEF Moves
  <2>e. EvtStep
    BY <2>u DEF EvtStep
  <2>w. Ups' = Ups
    BY <2>u DEF Ups
  <2>z. WakeInv'
    BY <2>u, <2>w, <1>w, <1>m, <2>f, <2>b DEF WakeInv, BeforePop, Stopped
  <2>A. CallStep
    BY <2>u DEF CallStep, Canceling
  <2>B. LeaveStep
    BY <2>u, <2>f, <2>b DEF LeaveStep, Stopped
  <2>C. UpStep
    BY <2>u DEF UpStep
  <2> QED
    BY <2>A, <2>B, <2>C, <2>e, <2>t, <2>v, <2>z DEF Bystanders
<1>40. ASSUME clear_waiting_msg PROVE TypeInv' /\ Moves /\ EvtStep /\ WakeInv' /\ Bystanders
  <2>u. UNCHANGED <<idleQ, dispr, epc, snd, hist>>
    BY <1>40 DEF clear_waiting_msg
  <2>f. bk.pc = "clrmsg"
    BY <1>40 DEF clear_waiting_msg
  <2>n. waitQ # <<>> => Head(waitQ) \in Slot /\ Tail(waitQ) \in Seq(Slot) /\ Len(Tail(waitQ)) = Len(waitQ) - 1
    BY <1>q, TailToSet
  <2>o. pendQ # <<>> => /\ Head(pendQ) \in Slot /\ Tail(pendQ) \in Seq(Slot)
                      /\ Adds(waitQ, Head(pendQ), Append(waitQ, Head(pendQ)))
    <3>1. pendQ # <<>> => Head(pendQ) \in Slot /\ Tail(pendQ) \in Seq(Slot)
      BY <1>q, TailToSet
    <3> QED
      BY <3>1, <1>q, AppendToSet DEF Adds
  <2>q. \/ /\ Len(idleQ) = NMsg /\ UNCHANGED <<ex, waitQ, pendQ, sema>>
         /\ bk'.msg = bk.msg /\ bk'.pc = "done"
      \/ /\ pendQ # <<>> /\ pendQ' = Tail(pendQ) /\ Tail(pendQ) \in Seq(Slot)
         /\ Adds(waitQ, Head(pendQ), waitQ')
         /\ sema' = sema + 1 /\ UNCHANGED <<ex, bk>>
      \/ /\ waitQ # <<>> /\ waitQ' = Tail(waitQ) /\ UNCHANGED <<pendQ, sema>>
         /\ bk'.msg = Head(waitQ) /\ bk'.pc = "compl"
    <3>1. CASE Len(idleQ) = NMsg
      BY <3>1, <1>40, <1>b DEF clear_waiting_msg, Goto, BkState
    <3>2. CASE Len(idleQ) # NMsg /\ pendQ # <<>>
      <4>1. waitQ' = Append(waitQ, Head(pendQ)) /\ pendQ' = Tail(pendQ) /\ sema' = sema + 1
            /\ UNCHANGED <<ex, bk>>
        BY <3>2, <1>40 DEF clear_waiting_msg
      <4> QED
        BY <3>2, <4>1, <2>o
    <3>3. CASE Len(idleQ) # NMsg /\ pendQ = <<>>
      BY <3>3, <1>40, <1>b DEF clear_waiting_msg, pop_front_wait_msg, BkState
    <3> QED
      BY <3>1, <3>2, <3>3
  <2>r. waitQ' \in Seq(Slot) /\ pendQ' \in Seq(Slot) /\ sema' \in Nat
    <3>1. CASE UNCHANGED <<waitQ, pendQ, sema>>
      BY <3>1, <1>q, <1>m
    <3>2. CASE /\ pendQ' = Tail(pendQ) /\ Tail(pendQ) \in Seq(Slot)
               /\ Adds(waitQ, Head(pendQ), waitQ') /\ sema' = sema + 1
      <4>1. waitQ' \in Seq(Slot)
        BY <3>2 DEF Adds
      <4> QED
        BY <3>2, <4>1, <1>m
    <3>3. CASE waitQ # <<>> /\ waitQ' = Tail(waitQ) /\ UNCHANGED <<pendQ, sema>>
      BY <3>3, <2>n, <1>q, <1>m
    <3> QED
      BY <3>1, <3>2, <3>3, <2>q
  <2>x. ex' \in [Slot -> MsgEx] /\ SameMsgs
    BY <1>40, PlainSteps, MarksKeep
  <2>b. /\ bk' \in BkState /\ bk'.pc \in {"done", "clrmsg", "compl"}
        /\ bk'.leaving = bk.leaving
    <3>1. \/ bk' = [bk EXCEPT !.pc = "done"] \/ bk' = bk
          \/ waitQ # <<>> /\ bk' = [bk EXCEPT !.pc = "compl", !.msg = Head(waitQ)]
      BY <1>40 DEF clear_waiting_msg, Goto
    <3> QED
      BY <3>1, <2>f, <2>n, <1>b DEF BkState, BkPc
  <2>i. HandInv'
    BY <2>u, <1>i, <1>c, <2>f, <2>b, <2>n, <2>q DEF HandInv, InHand
  <2>t. TypeInv'
    BY <2>u, <2>i, <2>x, <2>b, <2>r, <1>q, <1>d, <1>p, <1>s, <1>h DEF TypeInv, TypeOK
  <2>k. SameTaken(Sender)
    BY <2>u DEF SameTaken, Taken
  <2>c. SameCounts
    BY <2>u DEF SameCounts
  <2>y. bk.msg = None
    BY <2>f, <1>i DEF HandInv, InHand
  <2>a. Leaves \/ Requeues \/ Takes
    BY <2>q, <2>u, <2>x, <2>c, <2>k, <2>f, <2>y DEF Leaves, Requeues, Takes
  <2>v. Moves
    BY <2>a DEF Moves
  <2>e. EvtStep
    BY <2>u DEF EvtStep
  <2>w. Ups' = Ups
    BY <2>u DEF Ups
  <2>z. WakeInv'
    BY <2>u, <2>w, <1>w, <1>m, <2>f, <2>b, <2>q, <2>n DEF WakeInv, BeforePop, Stopped, Adds
  <2>A. CallStep
    BY <2>u DEF CallStep, Canceling
  <2>B. LeaveStep
    BY <2>u, <2>f, <2>b, <2>q DEF LeaveStep, Stopped
  <2>C. UpStep
    BY <2>u DEF UpStep
  <2> QED
    BY <2>A, <2>B, <2>C, <2>e, <2>t, <2>v, <2>z DEF Bystanders
<1>41. ASSUME dispr_module_stop PROVE TypeInv' /\ Moves /\ EvtStep /\ WakeInv' /\ Bystanders
  <2>u. UNCHANGED <<ex, idleQ, waitQ, pendQ, sema, bk, snd, hist>>
    BY <1>41 DEF dispr_module_stop
  <2>d. /\ dispr' \in Dispatcher /\ \A m \in Source : dispr'.pendEvt[m] \in {dispr.pendEvt[m], None}
        /\ dispr'.bitmap \subseteq dispr.bitmap
    <3>1. \E S : dispr' = [dispr EXCEPT !.bitmap = @ \ S]
      BY <1>41 DEF dispr_module_stop
    <3> QED
      BY <3>1, <1>d DEF Dispatcher
  <2>p. epc \in {"up", "mdlstop"} /\ epc' = "mdlstop"
    BY <1>41 DEF dispr_module_stop
  <2>i. HandInv'
    BY <2>u, <1>i, <1>c DEF HandInv, InHand
  <2>t. TypeInv'
    BY <2>u, <2>i, <2>d, <2>p, <1>e, <1>q, <1>m, <1>b, <1>s, <1>h DEF TypeInv, TypeOK,
       EnginePc
  <2>k. SameTaken(Sender)
    BY <2>u DEF SameTaken, Taken
  <2>c. SameCounts
    BY <2>u DEF SameCounts
  <2>x. SameMsgs
    BY <2>u DEF SameMsgs, SameMsg
  <2>l. Quiet
    BY <2>u, <2>k, <2>x, <2>c DEF Quiet, SameEnd
  <2>v. Moves
    BY <2>l DEF Moves
  <2>e. EvtStep
    BY <2>d DEF EvtStep
  <2>w. Ups' = Ups
    BY <2>u DEF Ups
  <2>z. WakeInv'
    BY <2>u, <2>w, <1>w, <1>m, <2>p DEF WakeInv, BeforePop, Stopped
  <2>A. CallStep
    BY <2>u DEF CallStep, Canceling
  <2>B. LeaveStep
    BY <2>u DEF LeaveStep, Stopped
  <2>C. UpStep
    BY <2>u, <2>d, <2>p DEF UpStep
  <2> QED
    BY <2>A, <2>B, <2>C, <2>e, <2>t, <2>v, <2>z DEF Bystanders
<1>42. ASSUME StopPrior PROVE TypeInv' /\ Moves /\ EvtStep /\ WakeInv' /\ Bystanders
  <2>u. UNCHANGED <<ex, idleQ, waitQ, pendQ, sema, bk, snd, hist>>
    BY <1>42 DEF StopPrior
  <2>d. /\ dispr' \in Dispatcher /\ \A m \in Source : dispr'.pendEvt[m] \in {dispr.pendEvt[m], None}
        /\ dispr'.bitmap \subseteq dispr.bitmap
    BY <1>42, <1>d DEF StopPrior, Dispatcher
  <2>p. epc = "mdlstop" /\ epc' = "cxlrun"
    BY <1>42 DEF StopPrior
  <2>i. HandInv'
    BY <2>u, <1>i, <1>c DEF HandInv, InHand
  <2>t. TypeInv'
    BY <2>u, <2>i, <2>d, <2>p, <1>e, <1>q, <1>m, <1>b, <1>s, <1>h DEF TypeInv, TypeOK,
       EnginePc
  <2>k. SameTaken(Sender)
    BY <2>u DEF SameTaken, Taken
  <2>c. SameCounts
    BY <2>u DEF SameCounts
  <2>x. SameMsgs
    BY <2>u DEF SameMsgs, SameMsg
  <2>l. Quiet
    BY <2>u, <2>k, <2>x, <2>c DEF Quiet, SameEnd
  <2>v. Moves
    BY <2>l DEF Moves
  <2>e. EvtStep
    BY <2>d DEF EvtStep
  <2>w. Ups' = Ups
    BY <2>u DEF Ups
  <2>z. WakeInv'
    BY <2>u, <2>w, <1>w, <1>m, <2>p DEF WakeInv, BeforePop, Stopped
  <2>A. CallStep
    BY <2>u DEF CallStep, Canceling
  <2>B. LeaveStep
    BY <2>u DEF LeaveStep, Stopped
  <2>C. UpStep
    BY <2>u, <2>d, <2>p DEF UpStep
  <2> QED
    BY <2>A, <2>B, <2>C, <2>e, <2>t, <2>v, <2>z DEF Bystanders
<1>43. ASSUME cancel_running_msg PROVE TypeInv' /\ Moves /\ EvtStep /\ WakeInv' /\ Bystanders
  <2>u. UNCHANGED <<idleQ, waitQ, pendQ, dispr, sema, bk, snd, hist>>
    BY <1>43 DEF cancel_running_msg
  <2>x. ex' \in [Slot -> MsgEx] /\ SameMsgs
    BY <1>43, PlainSteps, MarksKeep
  <2>p. epc = "cxlrun" /\ epc' = "threadstop"
    BY <1>43 DEF cancel_running_msg
  <2>i. HandInv'
    BY <2>u, <1>i, <1>c DEF HandInv, InHand
  <2>t. TypeInv'
    BY <2>u, <2>i, <2>x, <2>p, <1>q, <1>d, <1>m, <1>b, <1>s, <1>h DEF TypeInv, TypeOK,
       EnginePc
  <2>k. SameTaken(Sender)
    BY <2>u DEF SameTaken, Taken
  <2>c. SameCounts
    BY <2>u DEF SameCounts
  <2>l. Quiet
    BY <2>u, <2>k, <2>x, <2>c DEF Quiet, SameEnd
  <2>v. Moves
    BY <2>l DEF Moves
  <2>e. EvtStep
    BY <2>u DEF EvtStep
  <2>w. Ups' = Ups
    BY <2>u DEF Ups
  <2>z. WakeInv'
    BY <2>u, <2>w, <1>w, <1>m, <2>p DEF WakeInv, BeforePop, Stopped
  <2>A. CallStep
    BY <2>u DEF CallStep, Canceling
  <2>B. LeaveStep
    BY <2>u DEF LeaveStep, Stopped
  <2>C. UpStep
    BY <2>u, <2>p DEF UpStep
  <2> QED
    BY <2>A, <2>B, <2>C, <2>e, <2>t, <2>v, <2>z DEF Bystanders
<1>44. ASSUME ThreadStop PROVE TypeInv' /\ Moves /\ EvtStep /\ WakeInv' /\ Bystanders
  <2>u. UNCHANGED <<ex, idleQ, waitQ, pendQ, dispr, bk, snd, hist>>
    BY <1>44 DEF ThreadStop
  <2>p. epc = "threadstop" /\ epc' = "join"
    BY <1>44 DEF ThreadStop
  <2>m. sema' = sema + 1
    BY <1>44 DEF ThreadStop
  <2>i. HandInv'
    BY <2>u, <1>i, <1>c DEF HandInv, InHand
  <2>t. TypeInv'
    BY <2>u, <2>i, <2>p, <2>m, <1>e, <1>q, <1>d, <1>m, <1>b, <1>s, <1>h DEF TypeInv, TypeOK,
       EnginePc
  <2>k. SameTaken(Sender)
    BY <2>u DEF SameTaken, Taken
  <2>c. SameCounts
    BY <2>u DEF SameCounts
  <2>x. SameMsgs
    BY <2>u DEF SameMsgs, SameMsg
  <2>l. Quiet
    BY <2>u, <2>k, <2>x, <2>c DEF Quiet, SameEnd
  <2>v. Moves
    BY <2>l DEF Moves
  <2>e. EvtStep
    BY <2>u DEF EvtStep
  <2>w. Ups' = Ups
    BY <2>u DEF Ups
  <2>z. WakeInv'
    BY <2>u, <2>w, <1>w, <1>m, <2>m, <2>p DEF WakeInv, BeforePop, Stopped
  <2>A. CallStep
    BY <2>u DEF CallStep, Canceling
  <2>B. LeaveStep
    BY <2>u DEF LeaveStep, Stopped
  <2>C. UpStep
    BY <2>u, <2>p DEF UpStep
  <2> QED
    BY <2>A, <2>B, <2>C, <2>e, <2>t, <2>v, <2>z DEF Bystanders
<1>45. ASSUME StopPost PROVE TypeInv' /\ Moves /\ EvtStep /\ WakeInv' /\ Bystanders
  <2>u. UNCHANGED <<ex, idleQ, waitQ, pendQ, dispr, sema, bk, snd, hist>>
    BY <1>45 DEF StopPost
  <2>p. epc = "join" /\ epc' = "off"
    BY <1>45 DEF StopPost
  <2>i. HandInv'
    BY <2>u, <1>i, <1>c DEF HandInv, InHand
  <2>t. TypeInv'
    BY <2>u, <2>i, <2>p, <1>e, <1>q, <1>d, <1>m, <1>b, <1>s, <1>h DEF TypeInv, TypeOK,
       EnginePc
  <2>k. SameTaken(Sender)
    BY <2>u DEF SameTaken, Taken
  <2>c. SameCounts
    BY <2>u DEF SameCounts
  <2>x. SameMsgs
    BY <2>u DEF SameMsgs, SameMsg
  <2>l. Quiet
    BY <2>u, <2>k, <2>x, <2>c DEF Quiet, SameEnd
  <2>v. Moves
    BY <2>l DEF Moves
  <2>e. EvtStep
    BY <2>u DEF EvtStep
  <2>w. Ups' = Ups
    BY <2>u DEF Ups
  <2>z. WakeInv'
    BY <2>u, <2>w, <1>w, <1>m, <2>p DEF WakeInv, BeforePop, Stopped
  <2>A. CallStep
    BY <2>u DEF CallStep, Canceling
  <2>B. LeaveStep
    BY <2>u DEF LeaveStep, Stopped
  <2>C. UpStep
    BY <2>u, <2>p DEF UpStep
  <2> QED
    BY <2>A, <2>B, <2>C, <2>e, <2>t, <2>v, <2>z DEF Bystanders
<1>46. CASE UNCHANGED vars
  <2>1. TypeInv'
    BY <1>46 DEF vars, TypeInv, TypeOK, HandInv
  <2>2. Quiet
    BY <1>46 DEF vars, Quiet, SameTaken, Taken, SameMsgs, SameMsg, SameCounts, SameEnd
  <2>3. EvtStep /\ WakeInv'
    BY <1>46 DEF vars, EvtStep, WakeInv, Ups, BeforePop, Stopped
  <2>4. Bystanders
    BY <1>46 DEF vars, Bystanders, CallStep, LeaveStep, UpStep, Canceling
  <2> QED
    BY <2>1, <2>2, <2>3, <2>4 DEF Moves
<1> QED
  BY <1>1, <1>2, <1>3, <1>4, <1>5, <1>6, <1>7, <1>8, <1>9, <1>10, <1>11, <1>12, <1>13,
     <1>14, <1>15, <1>16, <1>17, <1>18, <1>19, <1>20, <1>21, <1>22, <1>23, <1>24, <1>25,
     <1>26, <1>27, <1>28, <1>29, <1>30, <1>31, <1>32, <1>33, <1>34, <1>35, <1>36, <1>37,
     <1>38, <1>39, <1>40, <1>41, <1>42, <1>43, <1>44, <1>45, <1>46 DEF Next,
     CallerEnters, CallerGoesOn, Background, StopGoesOn

-----------------------------------------------------------------------------
(* The moves keep the invariants. *)

(* No step puts an entry at two places or loses it. *)
LEMMA PlaceMove ==
    ASSUME TypeInv, TypeInv', PlaceInv, Moves
    PROVE  PlaceInv'
<1>0. /\ idleQ \in Seq(Slot) /\ waitQ \in Seq(Slot) /\ pendQ \in Seq(Slot)
      /\ ToSet(idleQ) \subseteq Slot /\ ToSet(waitQ) \subseteq Slot /\ ToSet(pendQ) \subseteq Slot
      /\ None \notin Slot
  <2>1. idleQ \in Seq(Slot) /\ waitQ \in Seq(Slot) /\ pendQ \in Seq(Slot)
    BY DEF TypeInv, TypeOK
  <2> QED
    BY <2>1, ToSetType, MsgConstAssumption
<1>1. CASE Quiet
  BY <1>1 DEF Quiet, SameTaken, PlaceInv, Linked
<1>2. ASSUME NEW c \in Sender, Fills(c) PROVE PlaceInv'
  <2> DEFINE h == Head(idleQ)
  <2>1. /\ Taken(c) = None /\ Taken(c)' = h /\ \A d \in Sender \ {c} : Taken(d)' = Taken(d)
        /\ idleQ # <<>> /\ idleQ' = Tail(idleQ) /\ waitQ' = waitQ /\ pendQ' = pendQ /\ bk' = bk
    BY <1>2 DEF Fills, SameTaken
  <2>2. /\ h \in Slot /\ h \in ToSet(idleQ) /\ IsInjective(idleQ')
        /\ ToSet(idleQ') = ToSet(idleQ) \ {h}
    BY <1>0, <2>1, TailToSet DEF PlaceInv
  <2> HIDE DEF h
  <2>3. bk'.msg = bk.msg
    BY <2>1
  <2>4. Linked' = Linked \ {h}
    BY <2>1, <2>2 DEF PlaceInv, Linked
  <2>a. h \in Linked /\ h # None
    BY <1>0, <2>2 DEF Linked
  <2>b. \A d \in Sender : Taken(d) # h
    BY <2>a DEF PlaceInv
  <2>c. \A d \in Sender : Taken(d)' # None => Taken(d)' \notin Linked' \cup {bk'.msg}
    BY <2>1, <2>3, <2>4, <2>a DEF PlaceInv
  <2>5. \A d, e \in Sender : Taken(d)' # None /\ Taken(d)' = Taken(e)' => d = e
    BY <2>1, <2>b DEF PlaceInv
  <2>6. \A s \in Slot : s \in Linked' \cup {bk'.msg} \/ \E d \in Sender : Taken(d)' = s
    BY <1>0, <2>1, <2>2, <2>3, <2>4 DEF PlaceInv
  <2> QED
    BY <2>1, <2>2, <2>3, <2>4, <2>c, <2>5, <2>6 DEF PlaceInv
<1>3. ASSUME NEW c \in Sender, Links(c) PROVE PlaceInv'
  <2> DEFINE h == Taken(c)
  <2>1. /\ h \in Slot /\ Taken(c)' = None /\ \A d \in Sender \ {c} : Taken(d)' = Taken(d)
        /\ idleQ' = idleQ /\ pendQ' = pendQ /\ bk' = bk
        /\ ToSet(waitQ') = ToSet(waitQ) \cup {h}
        /\ IsInjective(waitQ) /\ h \notin ToSet(waitQ) => IsInjective(waitQ')
    BY <1>3 DEF Links, SameTaken, Adds
  <2>3. bk'.msg = bk.msg
    BY <2>1
  <2> QED
    BY <1>0, <2>1, <2>3 DEF PlaceInv, Linked
<1>4. CASE SendsAtOnce
  <2> DEFINE h == Head(idleQ)
  <2>1. /\ \A d \in Sender : Taken(d)' = Taken(d)
        /\ idleQ # <<>> /\ idleQ' = Tail(idleQ) /\ pendQ' = pendQ /\ bk' = bk
        /\ ToSet(waitQ') = ToSet(waitQ) \cup {h}
        /\ IsInjective(waitQ) /\ h \notin ToSet(waitQ) => IsInjective(waitQ')
    BY <1>4 DEF SendsAtOnce, SameTaken, Adds
  <2>2. /\ h \in Slot /\ h \in ToSet(idleQ) /\ IsInjective(idleQ')
        /\ ToSet(idleQ') = ToSet(idleQ) \ {h}
    BY <1>0, <2>1, TailToSet DEF PlaceInv
  <2> HIDE DEF h
  <2>3. bk'.msg = bk.msg
    BY <2>1
  <2> QED
    BY <1>0, <2>1, <2>2, <2>3 DEF PlaceInv, Linked
<1>5. CASE Requeues
  <2> DEFINE h == Head(pendQ)
  <2>1. /\ \A d \in Sender : Taken(d)' = Taken(d)
        /\ pendQ # <<>> /\ pendQ' = Tail(pendQ) /\ idleQ' = idleQ /\ bk' = bk
        /\ ToSet(waitQ') = ToSet(waitQ) \cup {h}
        /\ IsInjective(waitQ) /\ h \notin ToSet(waitQ) => IsInjective(waitQ')
    BY <1>5 DEF Requeues, SameTaken, Adds
  <2>2. /\ h \in Slot /\ h \in ToSet(pendQ) /\ IsInjective(pendQ')
        /\ ToSet(pendQ') = ToSet(pendQ) \ {h}
    BY <1>0, <2>1, TailToSet DEF PlaceInv
  <2> HIDE DEF h
  <2>3. bk'.msg = bk.msg
    BY <2>1
  <2> QED
    BY <1>0, <2>1, <2>2, <2>3 DEF PlaceInv, Linked
<1>6. CASE Takes
  <2> DEFINE h == Head(waitQ)
  <2>1. /\ \A d \in Sender : Taken(d)' = Taken(d)
        /\ waitQ # <<>> /\ waitQ' = Tail(waitQ) /\ idleQ' = idleQ /\ pendQ' = pendQ
        /\ bk.msg = None /\ bk'.msg = h
    BY <1>6 DEF Takes, SameTaken
  <2>2. /\ h \in Slot /\ h \in ToSet(waitQ) /\ IsInjective(waitQ')
        /\ ToSet(waitQ') = ToSet(waitQ) \ {h}
    BY <1>0, <2>1, TailToSet DEF PlaceInv
  <2> HIDE DEF h
  <2> QED
    BY <1>0, <2>1, <2>2 DEF PlaceInv, Linked
<1>7. CASE Pends
  <2>1. /\ \A d \in Sender : Taken(d)' = Taken(d)
        /\ idleQ' = idleQ /\ waitQ' = waitQ /\ bk.msg \in Slot /\ bk'.msg = None
        /\ ToSet(pendQ') = ToSet(pendQ) \cup {bk.msg}
        /\ IsInjective(pendQ) /\ bk.msg \notin ToSet(pendQ) => IsInjective(pendQ')
    BY <1>7 DEF Pends, SameTaken, Adds
  <2> QED
    BY <1>0, <2>1 DEF PlaceInv, Linked
<1>8. CASE Recycles
  <2>1. /\ \A d \in Sender : Taken(d)' = Taken(d)
        /\ pendQ' = pendQ /\ waitQ' = waitQ /\ bk.msg \in Slot /\ bk'.msg = None
        /\ ToSet(idleQ') = ToSet(idleQ) \cup {bk.msg}
        /\ IsInjective(idleQ) /\ bk.msg \notin ToSet(idleQ) => IsInjective(idleQ')
    BY <1>8 DEF Recycles, SameTaken, Adds
  <2> QED
    BY <1>0, <2>1 DEF PlaceInv, Linked
<1>9. CASE Completes
  BY <1>9 DEF Completes, SameTaken, PlaceInv, Linked
<1>10. CASE Leaves
  BY <1>10 DEF Leaves, SameTaken, PlaceInv, Linked
<1> QED
  BY <1>1, <1>2, <1>3, <1>4, <1>5, <1>6, <1>7, <1>8, <1>9, <1>10 DEF Moves

(* The entry of a new message was idle, and no other one has its number. *)
LEMMA NewNumber ==
    ASSUME TypeInv, PlaceInv, NumberInv, NEW s \in ToSet(idleQ), NEW k, Gets(s, k),
           NEW S, ToSet(idleQ)' = ToSet(idleQ) \ {s}
    PROVE  NumberInv'
<1>1. /\ ex \in [Slot -> MsgEx] /\ s \in Slot /\ hist.nmsg \in Nat
      /\ \A t \in Slot : ex[t].mid \in Nat
  <2>1. idleQ \in Seq(Slot) /\ ex \in [Slot -> MsgEx] /\ hist \in History
    BY DEF TypeInv, TypeOK
  <2>2. s \in Slot
    BY <2>1, ToSetType
  <2> QED
    BY <2>1, <2>2, MsgConstAssumption DEF MsgEx, History
<1>2. /\ ex'[s].mid = hist.nmsg + 1 /\ \A t \in Slot \ {s} : ex'[t] = ex[t]
      /\ hist'.nmsg = hist.nmsg + 1
  BY DEF Gets
<1> QED
  BY <1>1, <1>2 DEF NumberInv

(* Numbers stay with their entries until these are given back. *)
LEMMA NumberMove ==
    ASSUME TypeInv, PlaceInv, NumberInv, Moves
    PROVE  NumberInv'
<1>0. /\ idleQ \in Seq(Slot) /\ waitQ \in Seq(Slot) /\ pendQ \in Seq(Slot)
      /\ None \notin Slot
  BY MsgConstAssumption DEF TypeInv, TypeOK
<1>t. \A t \in Slot : ex[t].mid \in Nat
  BY MsgConstAssumption DEF TypeInv, TypeOK, MsgEx
<1>1. CASE UNCHANGED idleQ /\ SameMsgs /\ hist'.nmsg = hist.nmsg
  BY <1>1 DEF SameMsgs, SameMsg, NumberInv
<1>2. CASE /\ idleQ # <<>> /\ idleQ' = Tail(idleQ)
           /\ \E k \in Kind : Gets(Head(idleQ), k)
  <2>1. /\ Head(idleQ) \in ToSet(idleQ)
        /\ ToSet(idleQ') = ToSet(idleQ) \ {Head(idleQ)}
    BY <1>0, <1>2, TailToSet DEF PlaceInv
  <2> QED
    BY <1>2, <2>1, NewNumber
<1>3. CASE Recycles
  <2>1. /\ bk.msg \in Slot /\ ToSet(idleQ') = ToSet(idleQ) \cup {bk.msg}
        /\ ex'[bk.msg].mid = 0 /\ \A t \in Slot \ {bk.msg} : ex'[t] = ex[t]
        /\ hist'.nmsg = hist.nmsg
    BY <1>3 DEF Recycles, Adds, SameCounts
  <2>2. hist.nmsg \in Nat
    BY MsgConstAssumption DEF TypeInv, TypeOK, History
  <2> QED
    BY <2>1, <2>2, <1>t DEF NumberInv
<1> QED
  BY <1>1, <1>2, <1>3 DEF Moves, Quiet, Fills, Links, SendsAtOnce, Requeues, Takes, Pends,
     Completes, Leaves, SameCounts, SameMsgs, SameMsg

(* Only the completion counts, and it is followed by the recycling. *)
LEMMA DoneMove ==
    ASSUME TypeInv, PlaceInv, NumberInv, DoneInv, Moves
    PROVE  DoneInv'
<1>0. /\ hist.nmsg \in Nat /\ hist.done \in [Msg -> Nat] /\ MaxMsg \in Nat
      /\ \A t \in Slot : ex[t].mid \in 0..MaxMsg
      /\ None \notin Slot /\ idleQ \in Seq(Slot)
  BY MsgConstAssumption DEF TypeInv, TypeOK, MsgEx, History
<1>n. \A t \in Slot : ex[t].mid # 0 => ex[t].mid \in Msg /\ ~(ex[t].mid > hist.nmsg)
  BY <1>0 DEF NumberInv, Msg
<1>m. bk.pc = "recyc" => bk.msg \in Slot
  BY DEF TypeInv, TypeOK, HandInv, InHand, BkState
<1>1. CASE /\ SameMsgs /\ SameCounts /\ (bk.pc = "recyc" <=> bk'.pc = "recyc")
           /\ bk.pc = "recyc" => bk'.msg = bk.msg
  BY <1>1, <1>m DEF SameMsgs, SameMsg, SameCounts, DoneInv, cur_msg
<1>2. CASE /\ idleQ # <<>> /\ UNCHANGED bk
           /\ \E k \in Kind : Gets(Head(idleQ), k)
  <2> DEFINE h == Head(idleQ)
  <2>1. h \in ToSet(idleQ) /\ h \in Slot
    BY <1>0, <1>2, TailToSet
  <2> HIDE DEF h
  <2>2. /\ ex'[h].mid = hist.nmsg + 1 /\ \A t \in Slot \ {h} : ex'[t] = ex[t]
        /\ hist'.nmsg = hist.nmsg + 1 /\ hist'.done = hist.done /\ hist.nmsg + 1 \in Msg
    BY <1>2 DEF Gets, h
  <2>3. hist.done[hist.nmsg + 1] = 0
    BY <1>0, <2>2 DEF DoneInv
  <2>4. bk'.msg = bk.msg /\ bk'.pc = bk.pc
    BY <1>2
  <2>5. \A i \in Msg : i > hist.nmsg + 1 => i > hist.nmsg
    BY <1>0 DEF Msg
  <2>6. bk.pc = "recyc" => bk.msg \in Slot /\ bk.msg # h
    BY <2>1, <1>m DEF PlaceInv, Linked
  <2> QED
    BY <2>1, <2>2, <2>3, <2>4, <2>5, <2>6 DEF DoneInv, cur_msg
<1>3. CASE Recycles
  <2>1. /\ ex'[bk.msg].mid = 0 /\ \A t \in Slot \ {bk.msg} : ex'[t] = ex[t]
        /\ hist'.nmsg = hist.nmsg /\ hist'.done = hist.done /\ bk'.pc # "recyc"
    BY <1>3 DEF Recycles, SameCounts
  <2> QED
    BY <2>1 DEF DoneInv
<1>4. CASE Completes
  <2>1. /\ bk.msg \in Slot /\ bk.pc = "compl" /\ bk'.pc = "recyc" /\ bk'.msg = bk.msg /\ ex' = ex
        /\ hist'.nmsg = hist.nmsg
        /\ hist'.done = IF "COMPLETE" \in ex[bk.msg].st
                        THEN [hist.done EXCEPT ![ex[bk.msg].mid] = @ + 1] ELSE hist.done
    BY <1>4 DEF Completes, cur_msg
  <2>2. ex[bk.msg].mid # 0
    BY <2>1 DEF PlaceInv, Linked, NumberInv
  <2>3. ex[bk.msg].mid \in Msg /\ hist.done[ex[bk.msg].mid] = 0
        /\ ~(ex[bk.msg].mid > hist.nmsg)
    BY <1>n, <2>1, <2>2 DEF DoneInv
  <2>4. \A t \in Slot : ex[t].mid # 0 /\ ex[t].mid = ex[bk.msg].mid => t = bk.msg
    BY <2>1 DEF NumberInv
  <2> QED
    BY <1>0, <1>n, <2>1, <2>3, <2>4 DEF DoneInv, cur_msg
<1>5. ASSUME Takes \/ Pends \/ Leaves
      PROVE  bk.pc # "recyc" /\ bk'.pc # "recyc" /\ SameMsgs /\ SameCounts
  <2>1. TypeInv
    OBVIOUS
  <2> QED
    BY <1>0, <1>5, <2>1
    DEF Takes, Pends, Leaves, TypeInv, HandInv, InHand, SameMsgs, SameMsg
<1> QED
  BY <1>1, <1>2, <1>3, <1>4, <1>5 DEF Moves, Quiet, Fills, Links, SendsAtOnce, Requeues, SameEnd

(* A message with a completion routine keeps its entry until it is called. *)
LEMMA OwedMove ==
    ASSUME TypeInv, PlaceInv, NumberInv, DoneInv, OwedInv, Moves
    PROVE  OwedInv'
<1>0. /\ hist.nmsg \in Nat /\ hist.done \in [Msg -> Nat] /\ MaxMsg \in Nat
      /\ \A t \in Slot : ex[t].mid \in 0..MaxMsg
      /\ None \notin Slot /\ idleQ \in Seq(Slot)
      /\ hist.owed \subseteq Msg
  BY MsgConstAssumption DEF TypeInv, TypeOK, MsgEx, History
<1>1. CASE SameMsgs /\ SameCounts /\ (bk'.pc = "done" => bk.pc = "done")
  BY <1>1 DEF SameMsgs, SameMsg, SameCounts, OwedInv
<1>2. CASE /\ idleQ # <<>> /\ UNCHANGED bk
           /\ \E k \in Kind : Gets(Head(idleQ), k)
  <2> DEFINE h == Head(idleQ)
  <2>1. h \in ToSet(idleQ) /\ h \in Slot
    BY <1>0, <1>2, TailToSet
  <2> HIDE DEF h
  <2>2. PICK k \in Kind : Gets(h, k)
    BY <1>2 DEF h
  <2>3. /\ ex'[h].mid = hist.nmsg + 1 /\ ("COMPLETE" \in ex'[h].st <=> "COMPLETE" \in k.opt)
        /\ \A t \in Slot \ {h} : ex'[t] = ex[t]
        /\ hist'.done = hist.done
        /\ hist'.owed = IF "COMPLETE" \in k.opt THEN hist.owed \cup {hist.nmsg + 1} ELSE hist.owed
        /\ hist'.late = IF bk.pc = "done" THEN hist.late \cup {hist.nmsg + 1} ELSE hist.late
    BY <2>2 DEF Gets
  <2>4. ex[h].mid = 0 /\ \A i \in hist.owed : i # 0
    BY <1>0, <2>1 DEF NumberInv, Msg
  <2>5. bk'.pc = bk.pc
    BY <1>2
  <2>6. \A i \in hist'.owed : \/ hist'.done[i] = 1
                              \/ \E s \in Slot : ex'[s].mid = i /\ "COMPLETE" \in ex'[s].st
    BY <2>1, <2>3, <2>4 DEF OwedInv
  <2>7. bk'.pc = "done" => \A s \in Slot : ex'[s].mid # 0 => ex'[s].mid \in hist'.late
    BY <2>1, <2>3, <2>5 DEF OwedInv
  <2> QED
    BY <2>6, <2>7 DEF OwedInv
<1>3. CASE Recycles
  <2>1. /\ bk.msg \in Slot /\ bk.pc = "recyc" /\ bk'.pc # "done"
        /\ ex'[bk.msg].mid = 0 /\ \A t \in Slot \ {bk.msg} : ex'[t] = ex[t]
        /\ hist'.owed = hist.owed /\ hist'.done = hist.done
    BY <1>3 DEF Recycles, SameCounts
  <2>2. "COMPLETE" \in ex[bk.msg].st /\ ex[bk.msg].mid \in hist.owed
            => hist.done[ex[bk.msg].mid] = 1
    BY <2>1 DEF DoneInv, cur_msg
  <2> QED
    BY <2>1, <2>2 DEF OwedInv
<1>4. CASE Completes
  <2>1. /\ bk.msg \in Slot /\ bk.pc = "compl" /\ bk'.pc = "recyc" /\ ex' = ex
        /\ hist'.owed = hist.owed
        /\ hist'.done = IF "COMPLETE" \in ex[bk.msg].st
                        THEN [hist.done EXCEPT ![ex[bk.msg].mid] = @ + 1] ELSE hist.done
    BY <1>4 DEF Completes, cur_msg
  <2>2. ex[bk.msg].mid # 0
    BY <2>1 DEF PlaceInv, Linked, NumberInv
  <2>3. ex[bk.msg].mid \in Msg /\ hist.done[ex[bk.msg].mid] = 0
    BY <1>0, <2>1, <2>2 DEF DoneInv, Msg
  <2> QED
    BY <1>0, <2>1, <2>3 DEF OwedInv
<1>5. CASE Leaves
  <2>1. Len(idleQ) = NMsg /\ ex' = ex /\ SameCounts
    BY <1>5 DEF Leaves
  <2>2. ToSet(idleQ) = Slot
    BY <1>0, <2>1, SlotsFinite, FullQueue DEF PlaceInv
  <2> QED
    BY <2>1, <2>2 DEF OwedInv, NumberInv, SameCounts
<1> QED
  BY <1>1, <1>2, <1>3, <1>4, <1>5 DEF Moves, Quiet, Fills, Links, SendsAtOnce, Requeues, Takes,
     Pends, SameEnd

(* The message that silences its sender is the last to be given back. *)
LEMMA EvtMove ==
    ASSUME TypeInv, PlaceInv, NumberInv, PendEvtBacked, Moves, EvtStep
    PROVE  PendEvtBacked'
<1>0. /\ idleQ \in Seq(Slot) /\ None \notin Slot
      /\ \A t \in Slot : ex[t].mid \in Nat
      /\ hist.nmsg \in Nat
  BY MsgConstAssumption DEF TypeInv, TypeOK, MsgEx, History
<1> SUFFICES ASSUME NEW m \in Source, dispr'.pendEvt[m] # None
             PROVE  \E s \in Slot : /\ ex'[s].mid # 0 /\ ex'[s].kind.src = m
                                    /\ ex'[s].kind.evt = dispr'.pendEvt[m]
  BY DEF PendEvtBacked
<1>1. CASE Pends /\ m = cur_msg.kind.src /\ dispr'.pendEvt[m] = cur_msg.kind.evt
  <2>1. bk.msg \in Slot /\ ex'[bk.msg].mid = ex[bk.msg].mid /\ ex'[bk.msg].kind = ex[bk.msg].kind
    BY <1>1 DEF Pends, SameMsgs, SameMsg
  <2>2. ex[bk.msg].mid # 0
    BY <2>1 DEF PlaceInv, Linked, NumberInv
  <2> QED
    BY <1>1, <2>1, <2>2 DEF cur_msg
<1>2. CASE dispr'.pendEvt[m] = dispr.pendEvt[m]
  <2>1. PICK s \in Slot : /\ ex[s].mid # 0 /\ ex[s].kind.src = m
                          /\ ex[s].kind.evt = dispr'.pendEvt[m]
    BY <1>2 DEF PendEvtBacked
  <2>2. CASE SameMsgs
    BY <2>1, <2>2 DEF SameMsgs, SameMsg
  <2>3. CASE idleQ # <<>> /\ \E k \in Kind : Gets(Head(idleQ), k)
    <3>1. Head(idleQ) \in ToSet(idleQ)
      BY <1>0, <2>3, TailToSet
    <3>2. s # Head(idleQ)
      BY <2>1, <3>1 DEF NumberInv
    <3>3. ex'[s] = ex[s]
      BY <2>3, <3>2 DEF Gets
    <3> QED
      BY <2>1, <3>3
  <2>4. CASE Recycles
    <3>1. s # bk.msg
      BY <2>1, <2>4 DEF Recycles, cur_msg
    <3>2. ex'[s] = ex[s]
      BY <2>4, <3>1 DEF Recycles
    <3> QED
      BY <2>1, <3>2
  <2> QED
    BY <2>2, <2>3, <2>4 DEF Moves, Quiet, Fills, Links, SendsAtOnce, Requeues, Takes, Pends,
       Completes, Leaves, SameMsgs, SameMsg
<1> QED
  BY <1>1, <1>2 DEF EvtStep

(* PlaceInv says that the places of an entry add up to one. *)
LEMMA PlacesCounted == ASSUME TypeInv, PlaceInv PROVE MsgAtOnePlace
<1> SUFFICES ASSUME NEW s \in Slot
             PROVE  Cardinality(Positions(idleQ, {s})) + Cardinality(Positions(waitQ, {s}))
                        + Cardinality(Positions(pendQ, {s}))
                        + Cardinality({c \in Sender : snd[c].pc = "push" /\ snd[c].slot = s})
                        + (IF bk.msg = s THEN 1 ELSE 0) = 1
  BY DEF MsgAtOnePlace
<1>0. idleQ \in Seq(Slot) /\ waitQ \in Seq(Slot) /\ pendQ \in Seq(Slot) /\ None \notin Slot
  BY MsgConstAssumption DEF TypeInv, TypeOK
<1>1. \A q \in Seq(Slot) : IsInjective(q) => Cardinality(Positions(q, {s}))
                                                = IF s \in ToSet(q) THEN 1 ELSE 0
  <2> SUFFICES ASSUME NEW q \in Seq(Slot), IsInjective(q)
               PROVE  Cardinality(Positions(q, {s})) = IF s \in ToSet(q) THEN 1 ELSE 0
    OBVIOUS
  <2>1. Positions(q, {s}) = {i \in 1..Len(q) : q[i] = s}
    BY DEF Positions
  <2>2. Cardinality({i \in 1..Len(q) : q[i] = s}) = IF s \in ToSet(q) THEN 1 ELSE 0
    BY CountInjective
  <2> QED
    BY <2>1, <2>2
<1> DEFINE H == {c \in Sender : snd[c].pc = "push" /\ snd[c].slot = s}
           i == Cardinality(Positions(idleQ, {s}))
           w == Cardinality(Positions(waitQ, {s}))
           p == Cardinality(Positions(pendQ, {s}))
           h == Cardinality(H)
<1>2. /\ i = IF s \in ToSet(idleQ) THEN 1 ELSE 0
      /\ w = IF s \in ToSet(waitQ) THEN 1 ELSE 0
      /\ p = IF s \in ToSet(pendQ) THEN 1 ELSE 0
  BY <1>0, <1>1 DEF PlaceInv
<1>3. H = {c \in Sender : Taken(c) = s}
  BY <1>0 DEF Taken
<1>4. h = IF \E c \in Sender : Taken(c) = s THEN 1 ELSE 0
  <2>1. CASE \E c \in Sender : Taken(c) = s
    <3>1. PICK c \in Sender : Taken(c) = s
      BY <2>1
    <3>2. H = {c}
      BY <1>0, <1>3, <3>1 DEF PlaceInv
    <3> QED
      BY <2>1, <3>2, FS_Singleton
  <2>2. CASE ~\E c \in Sender : Taken(c) = s
    <3>1. H = {}
      BY <1>3, <2>2
    <3> QED
      BY <2>2, <3>1, FS_EmptySet
  <2> QED
    BY <2>1, <2>2
<1> HIDE DEF H, i, w, p, h
<1>5. i + w + p + h + (IF bk.msg = s THEN 1 ELSE 0) = 1
  BY <1>0, <1>2, <1>4 DEF PlaceInv, Linked
<1> QED
  BY <1>5 DEF i, w, p, h, H

-----------------------------------------------------------------------------
(* The inductive invariant. *)

MsgIInv ==
    /\ TypeInv /\ PlaceInv /\ NumberInv /\ DoneInv /\ OwedInv /\ WakeInv
    /\ PendEvtBacked

(* dispr_init: all entries are idle, once. *)
LEMMA MsgInit == Init => MsgIInv
<1> SUFFICES ASSUME Init PROVE MsgIInv
  OBVIOUS
<1>1. /\ idleQ \in Seq(Slot) /\ waitQ \in Seq(Slot) /\ pendQ \in Seq(Slot)
      /\ Len(idleQ) = NMsg /\ waitQ = <<>> /\ pendQ = <<>> /\ NMsg \in Nat
      /\ DOMAIN idleQ = Slot /\ \A i \in Slot : idleQ[i] = i
  BY MsgConstAssumption DEF Init, Slot
<1>2. ToSet(idleQ) = Slot /\ IsInjective(idleQ)
  BY <1>1 DEF ToSet, IsInjective
<1>3. ToSet(waitQ) = {} /\ ToSet(pendQ) = {} /\ IsInjective(waitQ) /\ IsInjective(pendQ)
  BY <1>1, EmptyQueue
<1>4. \A s \in Slot : ex[s] = [st |-> {}, mid |-> 0, kind |-> Blank, pre |-> {}, post |-> {},
                               want |-> {}, got |-> {}]
  BY DEF Init
<1>5. \A c \in Sender : snd[c] = [pc |-> "idle", kind |-> Blank, slot |-> None, own |-> FALSE,
                                  next |-> "keep"]
  BY DEF Init
<1>6. bk.msg = None /\ bk.pc = "wait" /\ bk.todo = <<>> /\ ~bk.leaving
  BY DEF Init
<1>7. /\ hist.nmsg = 0 /\ hist.owed = {} /\ \A i \in Msg : hist.done[i] = 0
  BY DEF Init
<1>8. TypeOK
  <2>1. Blank \in Kind /\ 0 \in 0..MaxMsg /\ 0 \in 0..MaxCall /\ 0 \in 0..MaxTok
        /\ 0 \in 0..MaxPend
    BY BlankKind, MsgConstAssumption
  <2>2. ex \in [Slot -> MsgEx]
    BY <2>1 DEF Init, MsgEx
  <2>3. dispr \in Dispatcher
    BY DEF Init, Dispatcher
  <2>4. bk \in BkState
    <3>1. <<>> \in Seq((Mdl \cup {Ctrl}) \X BOOLEAN)
      OBVIOUS
    <3> QED
      BY <3>1 DEF Init, BkState, BkPc
  <2>5. snd \in [Sender -> SndState]
    BY <2>1 DEF Init, SndState, SndPc
  <2>6. hist \in History
    BY <2>1 DEF Init, History
  <2>7. sema \in Nat /\ epc \in EnginePc
    BY DEF Init, EnginePc
  <2> QED
    BY <1>1, <2>2, <2>3, <2>4, <2>5, <2>6, <2>7 DEF TypeOK
<1>9. HandInv
  BY <1>5, <1>6 DEF HandInv, InHand
<1>10. PlaceInv
  <2>1. \A c \in Sender : Taken(c) = None
    BY <1>5 DEF Taken
  <2>2. Linked = Slot
    BY <1>2, <1>3 DEF Linked
  <2> QED
    BY <1>2, <1>3, <1>6, <2>1, <2>2, MsgConstAssumption DEF PlaceInv
<1>11. NumberInv
  BY <1>2, <1>4, <1>7 DEF NumberInv
<1>12. DoneInv
  BY <1>4, <1>6, <1>7 DEF DoneInv
<1>13. OwedInv
  BY <1>6, <1>7 DEF OwedInv
<1>14. WakeInv
  <2>1. ~Stopped /\ sema = 0
    BY DEF Init, Stopped
  <2>2. Cardinality(Ups) \in Nat
    BY MsgConstAssumption, FS_Subset, FS_CardinalityType DEF Ups
  <2> QED
    BY <1>1, <1>6, <2>1, <2>2 DEF WakeInv, BeforePop
<1>15. PendEvtBacked
  BY DEF Init, PendEvtBacked
<1> QED
  BY <1>8, <1>9, <1>10, <1>11, <1>12, <1>13, <1>14, <1>15 DEF MsgIInv, TypeInv

(* Every step keeps it. *)
LEMMA MsgStep == MsgIInv /\ [Next]_vars => MsgIInv'
<1> SUFFICES ASSUME MsgIInv, [Next]_vars PROVE MsgIInv'
  OBVIOUS
<1>1. /\ TypeInv /\ PlaceInv /\ NumberInv /\ DoneInv /\ OwedInv /\ WakeInv
      /\ PendEvtBacked
  BY DEF MsgIInv
<1>2. TypeInv' /\ Moves /\ EvtStep /\ WakeInv' /\ Bystanders
  BY <1>1, Steps
<1>3. PlaceInv' /\ NumberInv'
  BY <1>1, <1>2, PlaceMove, NumberMove
<1>4. DoneInv' /\ OwedInv'
  BY <1>1, <1>2, DoneMove, OwedMove
<1>5. PendEvtBacked'
  BY <1>1, <1>2, EvtMove
<1> QED
  BY <1>2, <1>3, <1>4, <1>5 DEF MsgIInv

(* The invariant holds in every state. *)
THEOREM MsgInvariant == Spec => []MsgIInv
  BY MsgInit, MsgStep, PTL DEF Spec

(* push_back_idle_msg and pq_pop: every entry of msg_ex_pool is at exactly *)
(* one place at all times, whatever the threads do.                        *)
THEOREM PoolIntact == Spec => []PoolInv
<1>1. MsgIInv => PoolInv
  BY PlacesCounted DEF MsgIInv, TypeInv, PoolInv
<1> QED
  BY <1>1, MsgInvariant, PTL

(* notify_bk_thread and dispr_thread_loop_hdl: no message is left in       *)
(* msg_wait_q without a wakeup to come.                                    *)
THEOREM WakeupsKept == Spec => []WakeupPerMsg
<1>1. MsgIInv => WakeupPerMsg
  <2> SUFFICES ASSUME MsgIInv, ~bk.leaving PROVE
               Len(waitQ) =< sema + Cardinality(Ups) + (IF BeforePop THEN 1 ELSE 0)
    BY DEF WakeupPerMsg, Ups
  <2>1. sema \in Nat /\ waitQ \in Seq(Slot)
    BY DEF MsgIInv, TypeInv, TypeOK
  <2>2. Cardinality(Ups) \in Nat /\ Len(waitQ) \in Nat
    BY <2>1, MsgConstAssumption, FS_Subset, FS_CardinalityType DEF Ups
  <2> QED
    BY <2>1, <2>2 DEF MsgIInv, WakeInv
<1> QED
  BY <1>1, MsgInvariant, PTL

(* push_back_idle_msg: no completion routine is called twice. *)
THEOREM CompletionOnce == Spec => []CompletedOnce
<1>1. MsgIInv => CompletedOnce
  BY DEF MsgIInv, DoneInv, CompletedOnce
<1> QED
  BY <1>1, MsgInvariant, PTL

(* dispr_thread_leave_hdl: no message that got its buffer before the       *)
(* thread ended is without its completion when it has ended.               *)
THEOREM LeaveCompletes == Spec => []LeaveCompletesAll
<1>1. MsgIInv => LeaveCompletesAll
  BY DEF MsgIInv, OwedInv, DoneInv, LeaveCompletesAll, TypeInv, TypeOK, History, Msg
<1> QED
  BY <1>1, MsgInvariant, PTL

(* push_back_pending_msg: nobody is silenced without a message of its own  *)
(* in the dispatcher.                                                      *)
THEOREM SilenceBacked == Spec => []PendEvtBacked
<1>1. MsgIInv => PendEvtBacked
  BY DEF MsgIInv
<1> QED
  BY <1>1, MsgInvariant, PTL

=============================================================================
