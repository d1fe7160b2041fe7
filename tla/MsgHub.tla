-------------------------------- MODULE MsgHub --------------------------------
(***************************************************************************)
(* The message hub (phl/phl_msg_hub.c): any thread sends, by way of a pool *)
(* of entries; one thread forwards each message to the receivers that      *)
(* asked for it and then completes it; phl_module_start and                *)
(* phl_module_stop (phl/phl_init.c) start and stop the hub and register    *)
(* and deregister the receiver of the PHL layer around that.               *)
(*                                                                         *)
(* The receiver of the core is registered before the first start and until *)
(* the end, so only the one of the PHL layer is modelled.  A sender sends  *)
(* one message, and stands for it.                                         *)
(***************************************************************************)
EXTENDS Integers, Sequences, FiniteSets, SequencesExt

CONSTANTS
    Entry,      \* msg_pool
    Sender,     \* the threads that send
    MaxStart    \* bound: how often the hub is started

(* NULL *)
None == "none"

ASSUME MsgHubAssumption ==
    /\ IsFiniteSet(Entry) /\ Entry # {}
    /\ MaxStart \in Nat \ {0}
    /\ None \notin Entry \cup Sender

VARIABLES
    started,    \* MSG_HUB_STARTED
    stopflag,   \* THREAD_STATUS_STOPPED of msg_notify_thread
    idle, wait, \* idle_msg_q and wait_msg_q
    sema,       \* the count of msg_q_sema
    ctx,        \* of each entry: whose message it holds
    tpc, ex,    \* where the thread is, and the entry it works on
    recv,       \* the receiver: MSG_RECVER_INIT, MSG_RECVER_CLR_CTX, its bitmap, and
                \* whether its ctx has been filled (incoming_evt_notify)
    mgr, starts,    \* the thread that starts and stops the hub
    pc, hold,   \* of each sender: where it is, and the entry it took
    got,        \* the messages the receiver was notified of
    completed,  \* of each message: how often it was completed
    within,     \* the messages sent since the receiver asked for them
    late,       \* history: an entry was taken after the stop began
    stale,      \* history: the thread saw a stop of its predecessor
    wiped,      \* history: a registration, made or being made, was cleared by the thread
    corrupt     \* an entry was linked into a list while it is in another

lists == <<idle, wait, ctx>>
thread == <<tpc, ex>>
manager == <<mgr, starts, started, stopflag>>
senders == <<pc, hold>>
fate == <<got, completed, within>>
history == <<late, stale, wiped>>
vars == <<lists, sema, thread, recv, manager, senders, fate, history, corrupt>>

TypeOK ==
    /\ {started, stopflag, late, stale, wiped, corrupt} \subseteq BOOLEAN
    /\ idle \in Seq(Entry) /\ wait \in Seq(Entry) /\ sema \in Nat
    /\ ctx \in [Entry -> Sender \cup {None}]
    /\ tpc \in {"none", "check", "down", "pop", "forward", "notify", "memset", "push",
                "drain", "dpush", "exit", "oops"}
    /\ ex \in Entry \cup {None}
    /\ recv \in [init : BOOLEAN, clr : BOOLEAN, mask : BOOLEAN, ctx : BOOLEAN]
    /\ mgr \in {"off", "reset", "flag", "register", "bitmap", "setinit", "mask", "up",
                "setclr", "clear", "stop", "sema", "join"}
    /\ starts \in 0..MaxStart
    /\ pc \in [Sender -> {"idle", "pop", "push", "sema", "sent", "failed"}]
    /\ hold \in [Sender -> Entry \cup {None}]
    /\ got \subseteq Sender /\ within \subseteq Sender
    /\ completed \in [Sender -> 0..1]

NoRecver == [init |-> FALSE, clr |-> FALSE, mask |-> FALSE, ctx |-> FALSE]

Init ==
    /\ started = FALSE /\ stopflag = FALSE
    /\ idle = <<>> /\ wait = <<>> /\ sema = 0
    /\ ctx = [e \in Entry |-> None]
    /\ tpc = "none" /\ ex = None
    /\ recv = NoRecver
    /\ mgr = "off" /\ starts = 0
    /\ pc = [s \in Sender |-> "idle"]
    /\ hold = [s \in Sender |-> None]
    /\ got = {} /\ within = {}
    /\ completed = [s \in Sender |-> 0]
    /\ late = FALSE /\ stale = FALSE /\ wiped = FALSE /\ corrupt = FALSE
-----------------------------------------------------------------------------
(* phl_msg_hub_send: the test of the state of the hub, *)
phl_msg_hub_send(s) ==
    /\ pc[s] = "idle"
    /\ pc' = [pc EXCEPT ![s] = IF started THEN "pop" ELSE "failed"]
    /\ UNCHANGED <<lists, sema, thread, recv, manager, hold, fate, history, corrupt>>

(* an idle entry, *)
pop_front_idle_msg(s) ==
    /\ pc[s] = "pop"
    /\ IF idle = <<>>
         THEN pc' = [pc EXCEPT ![s] = "failed"] /\ UNCHANGED <<idle, hold, late>>
         ELSE /\ hold' = [hold EXCEPT ![s] = Head(idle)]
              /\ idle' = Tail(idle)
              /\ late' = (late \/ ~started)
              /\ pc' = [pc EXCEPT ![s] = "push"]
    /\ UNCHANGED <<wait, ctx, sema, thread, recv, manager, fate, stale, wiped, corrupt>>

(* the copy of the message and the queue, *)
push_back_wait_msg(s) ==
    /\ pc[s] = "push"
    /\ ctx' = [ctx EXCEPT ![hold[s]] = s]
    /\ wait' = Append(wait, hold[s])
    /\ hold' = [hold EXCEPT ![s] = None]
    /\ within' = IF mgr = "up" THEN within \cup {s} ELSE within
    /\ pc' = [pc EXCEPT ![s] = "sema"]
    /\ UNCHANGED <<idle, sema, thread, recv, manager, got, completed, history, corrupt>>

(* Mutant: only the first message that waits wakes the thread. *)
SemaUpForFirst(s) ==
    /\ pc[s] = "sema"
    /\ sema' = IF Len(wait) = 1 THEN sema + 1 ELSE sema
    /\ pc' = [pc EXCEPT ![s] = "sent"]
    /\ UNCHANGED <<lists, thread, recv, manager, hold, fate, history, corrupt>>

(* and the semaphore. *)
_os_sema_up(s) ==
    /\ pc[s] = "sema"
    /\ sema' = sema + 1
    /\ pc' = [pc EXCEPT ![s] = "sent"]
    /\ UNCHANGED <<lists, thread, recv, manager, hold, fate, history, corrupt>>
-----------------------------------------------------------------------------
(* msg_thread_hdl *)

ThreadCheck ==
    /\ tpc = "check"
    /\ tpc' = IF stopflag THEN "drain" ELSE "down"
    /\ stale' = (stale \/ (stopflag /\ mgr = "reset"))
    /\ UNCHANGED <<lists, sema, ex, recv, manager, senders, fate, late, wiped, corrupt>>

ThreadDown ==
    /\ tpc = "down" /\ sema > 0
    /\ sema' = sema - 1
    /\ tpc' = IF stopflag THEN "drain" ELSE "pop"
    /\ UNCHANGED <<lists, ex, recv, manager, senders, fate, history, corrupt>>

pop_front_wait_msg ==
    /\ tpc = "pop"
    /\ IF wait = <<>>
         THEN tpc' = "check" /\ UNCHANGED <<wait, ex>>
         ELSE ex' = Head(wait) /\ wait' = Tail(wait) /\ tpc' = "forward"
    /\ UNCHANGED <<idle, ctx, sema, recv, manager, senders, fate, history, corrupt>>

(* Mutant: a message that is not forwarded is not given back either. *)
ForwardOrForget ==
    /\ tpc = "forward"
    /\ tpc' = IF ~started THEN "pop"
              ELSE IF recv.init THEN "notify" ELSE IF recv.clr THEN "memset" ELSE "push"
    /\ ex' = IF started THEN ex ELSE None
    /\ UNCHANGED <<lists, sema, recv, manager, senders, fate, history, corrupt>>

(* msg_forward: the state of the hub and of the receiver. *)
msg_forward ==
    /\ tpc = "forward"
    /\ tpc' = IF ~started THEN "push"
              ELSE IF recv.init THEN "notify" ELSE IF recv.clr THEN "memset" ELSE "push"
    /\ UNCHANGED <<lists, sema, ex, recv, manager, senders, fate, history, corrupt>>

(* The call through ctx.incoming_evt_notify; there is none when the ctx was *)
(* cleared and MSG_RECVER_INIT set after that.                              *)
incoming_evt_notify ==
    /\ tpc = "notify"
    /\ got' = IF recv.mask /\ recv.ctx THEN got \cup {ctx[ex]} ELSE got
    /\ tpc' = IF recv.mask /\ ~recv.ctx THEN "oops" ELSE "push"
    /\ UNCHANGED <<lists, sema, ex, recv, manager, senders, completed, within, history, corrupt>>

(* A receiver that is gone is cleared as a whole, *)
ClearRecver ==
    /\ tpc = "memset"
    /\ recv' = NoRecver
    /\ wiped' = (wiped \/ recv.init \/ mgr \in {"bitmap", "setinit"})
    /\ tpc' = "push"
    /\ UNCHANGED <<lists, sema, ex, manager, senders, fate, late, stale, corrupt>>

(* Mutant: what the last loop finds is not completed. *)
PushBackSilently ==
    /\ tpc \in {"push", "dpush"}
    /\ completed' = [completed EXCEPT ![ctx[ex]] = IF tpc = "push" THEN @ + 1 ELSE @]
    /\ idle' = Append(idle, ex)
    /\ ex' = None
    /\ tpc' = IF tpc = "push" THEN "pop" ELSE "drain"
    /\ UNCHANGED <<wait, ctx, sema, recv, manager, senders, got, within, history, corrupt>>

(* push_back_idle_msg completes the message and gives the entry back. *)
push_back_idle_msg ==
    /\ tpc \in {"push", "dpush"}
    /\ completed' = [completed EXCEPT ![ctx[ex]] = @ + 1]
    /\ idle' = Append(idle, ex)
    /\ ex' = None
    /\ tpc' = IF tpc = "push" THEN "pop" ELSE "drain"
    /\ UNCHANGED <<wait, ctx, sema, recv, manager, senders, got, within, history, corrupt>>

(* The last loop: until every entry is idle. *)
ThreadDrain ==
    /\ tpc = "drain"
    /\ \/ /\ Len(idle) = Cardinality(Entry)
          /\ tpc' = "exit"
          /\ UNCHANGED <<wait, ex>>
       \/ /\ Len(idle) # Cardinality(Entry) /\ wait # <<>>
          /\ ex' = Head(wait) /\ wait' = Tail(wait)
          /\ tpc' = "dpush"
    /\ UNCHANGED <<idle, ctx, sema, recv, manager, senders, fate, history, corrupt>>
-----------------------------------------------------------------------------
(* phl_module_start *)

(* phl_msg_hub_start: the pool and the thread, which runs from here on. *)
phl_msg_hub_start ==
    /\ mgr = "off" /\ starts < MaxStart
    /\ corrupt' = (wait # <<>> \/ \E s \in Sender : hold[s] # None)
    /\ idle' = idle \o SetToSeq(Entry)
    /\ ctx' = [e \in Entry |-> None]
    /\ tpc' = "check"
    /\ mgr' = "reset"
    /\ starts' = starts + 1
    /\ UNCHANGED <<wait, sema, ex, recv, started, stopflag, senders, fate, history>>

(* RST_THREAD_STATUS of _os_thread_init, when it knows that the thread is there. *)
ResetThreadStatus ==
    /\ mgr = "reset"
    /\ stopflag' = FALSE
    /\ mgr' = "flag"
    /\ UNCHANGED <<lists, sema, thread, recv, starts, started, senders, fate, history, corrupt>>

SetStarted ==
    /\ mgr = "flag"
    /\ started' = TRUE
    /\ mgr' = "register"
    /\ UNCHANGED <<lists, sema, thread, recv, starts, stopflag, senders, fate, history, corrupt>>

(* Mutant: a receiver that is to be cleared counts as registered. *)
RegisterOnlyCleared ==
    /\ mgr = "register"
    /\ IF recv.init \/ recv.clr
         THEN mgr' = "mask" /\ UNCHANGED recv
         ELSE mgr' = "bitmap" /\ recv' = [recv EXCEPT !.ctx = TRUE]
    /\ UNCHANGED <<lists, sema, thread, starts, started, stopflag, senders, fate, history, corrupt>>

(* phl_msg_hub_register_recver: the ctx is copied, ... *)
phl_msg_hub_register_recver ==
    /\ mgr = "register"
    /\ IF recv.init
         THEN mgr' = "mask" /\ UNCHANGED recv
         ELSE mgr' = "bitmap" /\ recv' = [recv EXCEPT !.ctx = TRUE]
    /\ UNCHANGED <<lists, sema, thread, starts, started, stopflag, senders, fate, history, corrupt>>

(* ... the bitmap is cleared, ... *)
ClearBitmap ==
    /\ mgr = "bitmap"
    /\ recv' = [recv EXCEPT !.mask = FALSE]
    /\ mgr' = "setinit"
    /\ UNCHANGED <<lists, sema, thread, starts, started, stopflag, senders, fate, history, corrupt>>

(* ... and MSG_RECVER_INIT is set, without a lock: when the thread clears   *)
(* the receiver in the middle of this CLR_CTX comes back.                   *)
SetRecverInit ==
    /\ mgr = "setinit"
    /\ \E clr \in IF recv.ctx THEN {recv.clr} ELSE {recv.clr, TRUE} :
          recv' = [recv EXCEPT !.init = TRUE, !.clr = clr]
    /\ mgr' = "mask"
    /\ UNCHANGED <<lists, sema, thread, starts, started, stopflag, senders, fate, history, corrupt>>

phl_msg_hub_update_recver_mask ==
    /\ mgr = "mask"
    /\ recv' = [recv EXCEPT !.mask = @ \/ recv.init]
    /\ mgr' = "up"
    /\ UNCHANGED <<lists, sema, thread, starts, started, stopflag, senders, fate, history, corrupt>>

(* phl_module_stop *)

phl_msg_hub_deregister_recver ==
    /\ mgr = "up"
    /\ recv' = [recv EXCEPT !.init = FALSE]
    /\ within' = {}
    /\ mgr' = IF recv.init THEN "setclr" ELSE "clear"
    /\ UNCHANGED <<lists, sema, thread, starts, started, stopflag, senders, got, completed,
                   history, corrupt>>

SetClrCtx ==
    /\ mgr = "setclr"
    /\ recv' = [recv EXCEPT !.clr = TRUE]
    /\ mgr' = "clear"
    /\ UNCHANGED <<lists, sema, thread, starts, started, stopflag, senders, fate, history, corrupt>>

(* phl_msg_hub_stop: the state of the hub, that of the thread, the semaphore, *)
ClearStarted ==
    /\ mgr = "clear"
    /\ started' = FALSE
    /\ mgr' = "stop"
    /\ UNCHANGED <<lists, sema, thread, recv, starts, stopflag, senders, fate, history, corrupt>>

_os_thread_stop ==
    /\ mgr = "stop"
    /\ stopflag' = TRUE
    /\ mgr' = "sema"
    /\ UNCHANGED <<lists, sema, thread, recv, starts, started, senders, fate, history, corrupt>>

(* Mutant: the thread is not woken up. *)
StopWithoutUp ==
    /\ mgr = "sema"
    /\ mgr' = "join"
    /\ UNCHANGED <<lists, sema, thread, recv, starts, started, stopflag, senders, fate, history,
                   corrupt>>

StopSemaUp ==
    /\ mgr = "sema"
    /\ sema' = sema + 1
    /\ mgr' = "join"
    /\ UNCHANGED <<lists, thread, recv, starts, started, stopflag, senders, fate, history, corrupt>>

(* then the end of the thread, and the lists. *)
_os_thread_deinit ==
    /\ mgr = "join" /\ tpc = "exit"
    /\ tpc' = "none"
    /\ idle' = <<>> /\ wait' = <<>>
    /\ mgr' = "off"
    /\ UNCHANGED <<ctx, sema, ex, recv, starts, started, stopflag, senders, fate, history, corrupt>>
-----------------------------------------------------------------------------
Sending(s) == pop_front_idle_msg(s) \/ push_back_wait_msg(s) \/ _os_sema_up(s)

msg_thread_hdl ==
    \/ ThreadCheck \/ ThreadDown \/ pop_front_wait_msg \/ msg_forward \/ incoming_evt_notify
    \/ ClearRecver \/ push_back_idle_msg \/ ThreadDrain

(* What follows once phl_module_start or phl_module_stop has begun. *)
Managing ==
    \/ ResetThreadStatus \/ SetStarted
    \/ phl_msg_hub_register_recver \/ ClearBitmap \/ SetRecverInit
    \/ phl_msg_hub_update_recver_mask
    \/ SetClrCtx \/ ClearStarted \/ _os_thread_stop \/ StopSemaUp \/ _os_thread_deinit

(* Nothing is known of what follows the damage of a list. *)
Next ==
    /\ ~corrupt
    /\ \/ \E s \in Sender : phl_msg_hub_send(s) \/ Sending(s)
       \/ msg_thread_hdl
       \/ phl_msg_hub_start \/ phl_msg_hub_deregister_recver \/ Managing

Spec == Init /\ [][Next]_vars

(* Threads that have begun go on; nobody has to send, start or stop. *)
Fairness ==
    /\ \A s \in Sender : WF_vars(~corrupt /\ Sending(s))
    /\ WF_vars(~corrupt /\ msg_thread_hdl)
    /\ WF_vars(~corrupt /\ Managing)

FairSpec == Spec /\ Fairness
-----------------------------------------------------------------------------
(* Properties *)

Count(q, e) == Cardinality({i \in 1..Len(q) : q[i] = e})

(* Between a start and the end of the next stop every entry of the pool is  *)
(* idle, waiting, in the hands of the thread or in those of one sender.     *)
EntryAtOnePlace ==
    (mgr # "off" /\ ~corrupt) =>
        \A e \in Entry :
            Count(idle, e) + Count(wait, e) + (IF ex = e THEN 1 ELSE 0)
                + Cardinality({s \in Sender : hold[s] = e}) = 1

(* A start never links an entry that a sender still holds or has queued:    *)
(* the stop before it waited for all of them.  Only two are not waited for: *)
(* a sender that was told that the hub works and took its entry when it no  *)
(* longer did, and any sender if the thread had left at once because it saw *)
(* the stop of its predecessor.                                             *)
ListsIntact == corrupt => late \/ stale

(* No entry is lost or in two lists, over starts and stops.                 *)
PoolInv == TypeOK /\ EntryAtOnePlace /\ ListsIntact

(* When a stop has returned, each message that was sent has been completed, *)
(* forwarded or not.                                                        *)
StopCompletesAll ==
    (mgr = "off" /\ ~late /\ ~stale) =>
        \A s \in Sender : pc[s] \in {"sema", "sent"} => completed[s] = 1

(* A message sent after the receiver asked for it, and completed before it  *)
(* stopped to, has reached the receiver, and the thread never calls a        *)
(* receiver that has no routine; unless it cleared a registration that was   *)
(* made or being made meanwhile (then both happen), or took a stop of its    *)
(* predecessor for one of its own.                                           *)
Forwarded ==
    /\ \A s \in within : completed[s] = 1 => (s \in got \/ wiped \/ stale)
    /\ tpc = "oops" => wiped

(* Stopping the hub ends, with messages queued and with a sender between    *)
(* its entry and the queue as well, unless the thread died of a receiver    *)
(* without a routine.                                                       *)
StopReturns == mgr = "join" ~> (mgr = "off" \/ tpc = "oops")

(* A message that was sent is completed, unless it came too late, found no  *)
(* thread, or the thread died of a receiver without a routine.              *)
MsgServed ==
    \A s \in Sender : pc[s] = "sent" ~> (completed[s] = 1 \/ late \/ stale \/ tpc = "oops")
=============================================================================
