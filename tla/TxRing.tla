-------------------------------- MODULE TxRing --------------------------------
(***************************************************************************)
(* The transmit path of PHL (phl/phl_tx.c, phl/hci/phl_trx_usb.c): the     *)
(* core puts requests into the ring of a station, a tasklet copies them    *)
(* into USB buffers and submits those, the completion of a transfer gives  *)
(* the buffer back and schedules the tasklet again.  Rings come and go     *)
(* with their stations; a ring that was removed is freed by the tasklet,   *)
(* or when the data path is stopped.                                       *)
(*                                                                         *)
(* Of the ten rings of a station two are modelled: one of data and the one *)
(* of management frames, which has buffers of its own and is not           *)
(* aggregated.  Nobody sets phl_sw_tx_sts in this build, so the pause of   *)
(* the tasklet is left out.                                                *)
(***************************************************************************)
EXTENDS Integers, Sequences, FiniteSets, SequencesExt, Lists

CONSTANTS
    Sta,        \* the stations, one life each
    RingSize,   \* MAX_PHL_RING_ENTRY_NUM
    NSts,       \* MAX_PHL_RING_STATUS_NUMBER: records for rings that have work
    NBuf,       \* idle_txbuf_list and mgmt_txbuf_list: the USB buffers of each
    MaxReq,     \* bound: requests
    MaxFail,    \* bound: transfers that fail
    None

Data == "data"
Mgnt == "mgnt"
Cat == {Data, Mgnt}
Ring == Sta \X Cat
Idx == 0..(RingSize - 1)
Req == 1..MaxReq
Work == [ring : Ring, busy : 0..RingSize]   \* an entry of t_fctrl_result

ASSUME TxRingAssumption ==
    /\ NSts \in Nat \ {0} /\ NBuf \in Nat \ {0} /\ RingSize \in Nat \ {0, 1}
    /\ MaxReq \in Nat /\ MaxFail \in Nat
    /\ None \notin Req /\ None \notin Work

VARIABLES
    sta,        \* where the rings of a station are: not there yet, in t_ring_list, ...
    tlist,      \* t_ring_list, as the stations in it
    ring,       \* of each ring core_idx, phl_idx, phl_next_idx and entry
    sts,        \* the number of records in ring_sts_pool
    buf, air,   \* the buffers of each kind that are idle, and that are being sent
    cb, plan,   \* the tasklet: where it is, the ring it works on; t_fctrl_result
    sched,      \* the tasklet is scheduled
    owed,       \* the threads and completions that are about to schedule it
    stopped,    \* phl_datapath_stop was called
    added, taken,   \* history: the requests of each ring, as added and as sent
    recycled,   \* history: of each request, how often tx_recycle was called
    fails       \* history: the transfers that failed

stations == <<sta, tlist>>
buffers == <<buf, air>>
history == <<added, taken, recycled>>
vars == <<stations, ring, sts, buffers, cb, plan, sched, owed, stopped, history, fails>>

TypeOK ==
    /\ sta \in [Sta -> {"none", "listed", "unlinked", "deferred", "freed"}]
    /\ tlist \in Seq(Sta) /\ ToSet(tlist) = {s \in Sta : sta[s] = "listed"}
    /\ ring \in [Ring -> [core : Idx, phl : Idx, next : Idx, entry : [Idx -> Req \cup {None}]]]
    /\ sts \in 0..NSts /\ buf \in [Cat -> 0..NBuf] /\ air \in [Cat -> 0..NBuf]
    /\ cb \in [pc : {"idle", "check", "ring", "req", "recycled", "submit", "oops"},
               work : Work \cup {None}, agg : 0..RingSize]
    /\ plan \in Seq(Work)
    /\ sched \in BOOLEAN /\ owed \in Nat /\ stopped \in BOOLEAN
    /\ added \in [Ring -> Seq(Req)] /\ taken \in [Ring -> Seq(Req)]
    /\ recycled \in [Req -> Nat] /\ fails \in 0..MaxFail

Idle == [pc |-> "idle", work |-> None, agg |-> 0]

Init ==
    /\ sta = [s \in Sta |-> "none"] /\ tlist = <<>>
    /\ ring = [r \in Ring |-> [core |-> 0, phl |-> 0, next |-> 0, entry |-> [i \in Idx |-> None]]]
    /\ sts = NSts /\ buf = [c \in Cat |-> NBuf] /\ air = [c \in Cat |-> 0]
    /\ cb = Idle /\ plan = <<>>
    /\ sched = FALSE /\ owed = 0 /\ stopped = FALSE
    /\ added = [r \in Ring |-> <<>>] /\ taken = [r \in Ring |-> <<>>]
    /\ recycled = [q \in Req |-> 0] /\ fails = 0
-----------------------------------------------------------------------------
(* Read and write pointers *)

phl_calc_avail_rptr(rptr, wptr) ==
    IF wptr >= rptr THEN wptr - rptr ELSE wptr + (RingSize - rptr)

(* Mutant: a ring may be filled to its last entry. *)
AvailOverfull(rptr, wptr) ==
    IF rptr > wptr THEN rptr - wptr ELSE rptr + (RingSize - wptr)

phl_calc_avail_wptr(rptr, wptr) ==
    IF rptr > wptr THEN rptr - wptr - 1 ELSE rptr + (RingSize - wptr) - 1

Succ(i) == (i + 1) % RingSize

(* The requests that are in a ring: from the one after phl_idx to core_idx. *)
Queued(g) == [k \in 1..phl_calc_avail_rptr(g.phl, g.core) |-> g.entry[(g.phl + k) % RingSize]]
-----------------------------------------------------------------------------
(* The core and the stations *)

Reqs(a) == UNION {ToSet(a[r]) : r \in Ring}
NReqs == Cardinality(Reqs(added))

(* One critical section of t_ring_list_lock.  A request for a full ring, or  *)
(* for a station without one, is refused and changes nothing.                *)
rtw_phl_add_tx_req(r) ==
    /\ sta[r[1]] = "listed" /\ NReqs < MaxReq
    /\ phl_calc_avail_wptr(ring[r].phl, ring[r].core) > 0
    /\ ring' = [ring EXCEPT ![r].core = Succ(@), ![r].entry[Succ(ring[r].core)] = NReqs + 1]
    /\ added' = [added EXCEPT ![r] = Append(@, NReqs + 1)]
    /\ owed' = owed + 1
    /\ UNCHANGED <<stations, sts, buffers, cb, plan, sched, stopped, taken, recycled, fails>>

rtw_phl_tx_req_notify ==
    /\ owed > 0
    /\ owed' = owed - 1 /\ sched' = TRUE
    /\ UNCHANGED <<stations, ring, sts, buffers, cb, plan, stopped, history, fails>>

phl_register_tx_ring(s) ==
    /\ sta[s] = "none"
    /\ sta' = [sta EXCEPT ![s] = "listed"] /\ tlist' = Append(tlist, s)
    /\ UNCHANGED <<ring, sts, buffers, cb, plan, sched, owed, stopped, history, fails>>

phl_deregister_tx_ring(s) ==
    /\ sta[s] = "listed"
    /\ sta' = [sta EXCEPT ![s] = "unlinked"]
    /\ tlist' = Sublist(tlist, Positions(tlist, Sta \ {s}))
    /\ UNCHANGED <<ring, sts, buffers, cb, plan, sched, owed, stopped, history, fails>>

(* Its second half: "defer the free operation". *)
DeferFree(s) ==
    /\ sta[s] = "unlinked"
    /\ sta' = [sta EXCEPT ![s] = "deferred"]
    /\ UNCHANGED <<tlist, ring, sts, buffers, cb, plan, sched, owed, stopped, history, fails>>

(* Mutant: what is still in the ring is freed with it. *)
FreeWithoutRecycle ==
    /\ sta' = [s \in Sta |-> IF sta[s] = "deferred" THEN "freed" ELSE sta[s]]
    /\ UNCHANGED recycled

(* _phl_free_phl_tring_list hands back what is still in a ring. *)
phl_free_deferred_tx_ring ==
    LET left == UNION {ToSet(Queued(ring[r])) : r \in {x \in Ring : sta[x[1]] = "deferred"}}
    IN  /\ sta' = [s \in Sta |-> IF sta[s] = "deferred" THEN "freed" ELSE sta[s]]
        /\ recycled' = [q \in Req |-> IF q \in left THEN recycled[q] + 1 ELSE recycled[q]]

(* The transfers that os_disable_usb_out_pipes kills are completed like      *)
(* others; neither it nor anything else here waits for the tasklet.          *)
phl_datapath_stop ==
    /\ ~stopped
    /\ stopped' = TRUE
    /\ phl_free_deferred_tx_ring
    /\ UNCHANGED <<tlist, ring, sts, buffers, cb, plan, sched, owed, added, taken, fails>>
-----------------------------------------------------------------------------
(* The tasklet: _phl_tx_callback_usb *)

_phl_tx_callback_usb ==
    /\ cb.pc = "idle" /\ sched
    /\ sched' = FALSE /\ cb' = [cb EXCEPT !.pc = "check"]
    /\ UNCHANGED <<stations, ring, sts, buffers, plan, owed, stopped, history, fails>>

(* The rings of t_ring_list, in the order in which they are looked at. *)
AllRings == [k \in 1..(2 * Len(tlist)) |-> <<tlist[(k + 1) \div 2], IF k % 2 = 1 THEN Data ELSE Mgnt>>]

(* _phl_check_ring_status: the rings that have requests, as far as there are *)
(* records for them.                                                         *)
_phl_check_ring_status ==
    LET busy == {r \in Ring : phl_calc_avail_rptr(ring[r].phl, ring[r].core) > 0}
        rs == Sublist(AllRings, Positions(AllRings, busy))
    IN  SubSeq(rs, 1, IF Len(rs) < sts THEN Len(rs) ELSE sts)

(* phl_tx_flow_ctrl: rings of management frames are put in front of the list *)
(* one after the other, those of data at its end.                            *)
phl_tx_flow_ctrl(rs) ==
    Reverse(Sublist(rs, Positions(rs, Sta \X {Mgnt}))) \o Sublist(rs, Positions(rs, Sta \X {Data}))

phl_check_xmit_ring_resource ==
    /\ cb.pc = "check"
    /\ \E rs \in {_phl_check_ring_status} :
        /\ ring' = [r \in Ring |-> IF r \in ToSet(rs)
                                   THEN [ring[r] EXCEPT !.next = Succ(ring[r].phl)]
                                   ELSE ring[r]]
        /\ sts' = sts - Len(rs)
        /\ plan' = [i \in DOMAIN rs |->
                       [ring |-> phl_tx_flow_ctrl(rs)[i],
                        busy |-> LET g == ring[phl_tx_flow_ctrl(rs)[i]]
                                 IN  phl_calc_avail_rptr(g.phl, g.core)]]
        /\ cb' = [cb EXCEPT !.pc = "ring"]
        /\ UNCHANGED <<stations, buffers, sched, owed, stopped, history, fails>>

phl_release_ring_sts(n) == sts' = sts + n

(* A ring that the stop has freed in the hands of the tasklet. *)
Freed(w) == w # None /\ sta[w.ring[1]] = "freed"

(* _phl_tx_flow_ctrl_usb finds a buffer for the next ring, ... *)
TakeBuffer ==
    LET c == Head(plan).ring[2]
    IN  /\ cb.pc = "ring" /\ plan # <<>> /\ buf[c] > 0
        /\ buf' = [buf EXCEPT ![c] = @ - 1]
        /\ cb' = [pc |-> "req", work |-> Head(plan), agg |-> 0] /\ plan' = Tail(plan)
        /\ UNCHANGED <<stations, ring, sts, air, sched, owed, stopped, history, fails>>

(* ... or none, and drops the ring from this turn. *)
NoBuffer ==
    /\ cb.pc = "ring" /\ plan # <<>> /\ buf[Head(plan).ring[2]] = 0
    /\ plan' = Tail(plan)
    /\ phl_release_ring_sts(1)
    /\ UNCHANGED <<stations, ring, buffers, cb, sched, owed, stopped, history, fails>>

(* _phl_handle_xmit_ring_usb, from here to FreeTurn *)
cur == ring[cb.work.ring]
CurReq == cur.entry[cur.next]

(* _phl_prepare_tx_usb copies a request into the buffer and hands it back to *)
(* the core before phl_idx says that it was read.  (The break for a NULL     *)
(* entry is not reached: SentInOrder.)                                       *)
_phl_prepare_tx_usb ==
    /\ cb.pc = "req" /\ CurReq # None
    /\ recycled' = [recycled EXCEPT ![CurReq] = @ + 1]
    /\ taken' = [taken EXCEPT ![cb.work.ring] = Append(@, CurReq)]
    /\ cb' = [cb EXCEPT !.pc = "recycled"]
    /\ UNCHANGED <<stations, ring, sts, buffers, plan, sched, owed, stopped, added, fails>>

(* After a request: on to the next one of the ring, or to the transfer if    *)
(* there is no other or it is not aggregated ...                             *)
GoesOn == cb.work.busy > 1 /\ cb.work.ring[2] = Data

SetPhlIdx ==
    /\ cb.pc = "recycled"
    /\ ring' = [ring EXCEPT ![cb.work.ring].phl = cur.next,
                            ![cb.work.ring].next = IF GoesOn THEN Succ(@) ELSE @]
    /\ cb' = [pc |-> IF GoesOn THEN "req" ELSE "submit", agg |-> cb.agg + 1,
              work |-> [cb.work EXCEPT !.busy = @ - 1]]
    /\ UNCHANGED <<stations, sts, buffers, plan, sched, owed, stopped, history, fails>>

(* ... or the buffer, or the number of descriptors in it, is full.           *)
AggBreak ==
    /\ cb.pc = "req" /\ cb.agg > 0
    /\ cb' = [cb EXCEPT !.pc = "submit"]
    /\ UNCHANGED <<stations, ring, sts, buffers, plan, sched, owed, stopped, history, fails>>

os_usb_tx ==
    /\ cb.pc = "submit"
    /\ air' = [air EXCEPT ![cb.work.ring[2]] = @ + 1]
    /\ phl_release_ring_sts(1)
    /\ cb' = [Idle EXCEPT !.pc = "ring"]
    /\ UNCHANGED <<stations, ring, buf, plan, sched, owed, stopped, history, fails>>

(* Mutant: the buffer of a failed transfer is not given back. *)
DropBuffer ==
    /\ cb.pc \in {"req", "submit"} /\ fails < MaxFail /\ ~Freed(cb.work)
    /\ fails' = fails + 1
    /\ phl_release_ring_sts(1)
    /\ cb' = [Idle EXCEPT !.pc = "ring"]
    /\ UNCHANGED <<stations, ring, buffers, plan, sched, owed, stopped, history>>

(* rtw_hal_fill_wd or os_usb_tx fails: the buffer is idle again; requests    *)
(* that are in it were already handed back.                                  *)
TxFails ==
    /\ cb.pc \in {"req", "submit"} /\ fails < MaxFail /\ ~Freed(cb.work)
    /\ fails' = fails + 1
    /\ buf' = [buf EXCEPT ![cb.work.ring[2]] = @ + 1]
    /\ phl_release_ring_sts(1)
    /\ cb' = [Idle EXCEPT !.pc = "ring"]
    /\ UNCHANGED <<stations, ring, air, plan, sched, owed, stopped, history>>

(* Which kind of buffer it is the code asks the ring. *)
FailsOnFreed ==
    /\ cb.pc = "submit" /\ fails < MaxFail /\ Freed(cb.work)
    /\ fails' = fails + 1
    /\ cb' = [cb EXCEPT !.pc = "oops"]
    /\ UNCHANGED <<stations, ring, sts, buffers, plan, sched, owed, stopped, history>>

FreeTurn ==
    /\ cb.pc = "ring" /\ plan = <<>>
    /\ cb' = Idle
    /\ phl_free_deferred_tx_ring
    /\ UNCHANGED <<tlist, ring, sts, buffers, plan, sched, owed, stopped, added, taken, fails>>

(* Mutant: the end of a transfer schedules nothing. *)
CompleteSilently(c) ==
    /\ air[c] > 0
    /\ air' = [air EXCEPT ![c] = @ - 1] /\ buf' = [buf EXCEPT ![c] = @ + 1]
    /\ UNCHANGED <<stations, ring, sts, cb, plan, sched, owed, stopped, history, fails>>

(* The end of a transfer, whatever its status: phl_tx_release_buf_usb, and   *)
(* then the tasklet is scheduled.                                            *)
rtw_usb_write_port_complete(c) ==
    /\ air[c] > 0
    /\ air' = [air EXCEPT ![c] = @ - 1] /\ buf' = [buf EXCEPT ![c] = @ + 1]
    /\ owed' = owed + 1
    /\ UNCHANGED <<stations, ring, sts, cb, plan, sched, stopped, history, fails>>
-----------------------------------------------------------------------------
Tasklet ==
    \/ _phl_tx_callback_usb \/ phl_check_xmit_ring_resource
    \/ TakeBuffer \/ NoBuffer
    \/ _phl_prepare_tx_usb \/ SetPhlIdx \/ AggBreak \/ os_usb_tx \/ TxFails \/ FailsOnFreed
    \/ FreeTurn

(* What the tasklet reads next is a ring that was freed: its read pointer    *)
(* and its entries, or, for the kind of the buffer, its tid.                 *)
ReadsFreed ==
    \/ cb.pc = "ring" /\ plan # <<>> /\ Freed(Head(plan))
    \/ cb.pc \in {"req", "recycled"} /\ Freed(cb.work)
    \/ cb.pc = "oops"

(* Nothing is known of what follows such a read. *)
Next ==
    /\ ~ReadsFreed
    /\ \/ Tasklet
       \/ \E r \in Ring : rtw_phl_add_tx_req(r)
       \/ rtw_phl_tx_req_notify
       \/ \E s \in Sta : \/ phl_register_tx_ring(s) \/ phl_deregister_tx_ring(s) \/ DeferFree(s)
       \/ phl_datapath_stop
       \/ \E c \in Cat : rtw_usb_write_port_complete(c)

Spec == Init /\ [][Next]_vars

(* A scheduled tasklet runs to its end, a thread that added a request goes   *)
(* on to schedule it, one that unlinked a ring goes on to defer its free,    *)
(* and a transfer is completed.  Nothing obliges anyone to send, to fail or  *)
(* to stop.                                                                  *)
Fairness ==
    /\ WF_vars(~ReadsFreed /\ Tasklet)
    /\ WF_vars(~ReadsFreed /\ rtw_phl_tx_req_notify)
    /\ \A s \in Sta : WF_vars(~ReadsFreed /\ DeferFree(s))
    /\ \A c \in Cat : WF_vars(~ReadsFreed /\ rtw_usb_write_port_complete(c))

FairSpec == Spec /\ Fairness
-----------------------------------------------------------------------------
(* Properties *)

(* rtw_core_tx_recycle frees the frame of a request: it is called at most    *)
(* once for each, by the copy into a buffer or by the free of its ring, and  *)
(* for all that were in a ring when the ring is gone.  The one exception is  *)
(* the request that the tasklet has just handed back, not having said so in  *)
(* phl_idx, when the stop frees the ring.                                    *)
RecycledOnce ==
    /\ \A q \in Req :
           \/ recycled[q] =< 1
           \/ /\ cb.pc = "recycled" /\ Freed(cb.work)
              /\ q = Last(taken[cb.work.ring]) /\ recycled[q] = 2
    /\ \A r \in Ring : sta[r[1]] = "freed" => \A q \in ToSet(added[r]) : recycled[q] >= 1

(* A ring is read in the order in which rtw_phl_add_tx_req filled it: no     *)
(* request is overwritten, passed over or sent twice, around the end of the  *)
(* ring and with a turn that ends in the middle of it.                       *)
SentInOrder == \A r \in Ring : IsPrefix(taken[r], added[r])

(* A USB buffer is idle, with the tasklet or in one transfer, and a record   *)
(* of ring_sts_pool is idle or stands for a ring of the current turn: none   *)
(* is lost on the paths on which there is no buffer or the transfer fails.   *)
NoneLeaks ==
    /\ \A c \in Cat :
           buf[c] + air[c] + (IF cb.work # None /\ cb.work.ring[2] = c THEN 1 ELSE 0) = NBuf
    /\ sts + Len(plan) + (IF cb.work # None THEN 1 ELSE 0) = NSts

(* Of rings, records and buffers the path has what it had at the beginning.  *)
PoolInv == TypeOK /\ NoneLeaks

(* phl_deregister_tx_ring ("defer the free operation to avoid racing with    *)
(* _phl_tx_callback_xxx"): no ring is freed that the tasklet still has on    *)
(* its list or in its hands.  The free at the end of a turn keeps to that;   *)
(* the one of phl_datapath_stop, on another CPU, does not.                   *)
RingOutlives ==
    /\ \A i \in DOMAIN plan : sta[plan[i].ring[1]] # "freed"
    /\ cb.work # None => sta[cb.work.ring[1]] # "freed"

(* A request that is in a ring is sent, though there may be no buffer or no  *)
(* record for the ring at its turn: the end of a transfer brings the next    *)
(* turn.  After a failed transfer nothing does, a ring whose removal waits   *)
(* for its free is left to the next turn that someone else causes, and of a  *)
(* tasklet that reads a freed ring nothing is known.                         *)
ReqServed ==
    \A q \in Req :
        (\E r \in Ring : q \in ToSet(added[r]))
            ~> \/ recycled[q] > 0 \/ fails > 0 \/ ReadsFreed
               \/ \E r \in Ring : q \in ToSet(added[r]) /\ sta[r[1]] = "deferred"

=============================================================================
