----------------------------- MODULE MsgHubProofs -----------------------------
(***************************************************************************)
(* Proofs about MsgHub, for any pool, any set of senders and any number of *)
(* starts.                                                                 *)
(***************************************************************************)
EXTENDS MsgHub, QueueLemmas

USE DEF lists, thread, manager, senders, fate, history

Hands == {"forward", "notify", "memset", "push", "dpush", "oops"}

(* Where the thread and the starts and stops are, and what that says of    *)
(* the flags; an entry is taken by a sender only between its two steps.    *)
ControlInv ==
    /\ ex # None <=> tpc \in Hands
    /\ mgr = "off" <=> tpc = "none"
    /\ mgr = "off" => idle = <<>>
    /\ started <=> mgr \in {"register", "bitmap", "setinit", "mask", "up", "setclr", "clear"}
    /\ (started \/ mgr \in {"flag", "stop"}) => ~stopflag
    /\ mgr = "reset" /\ tpc \in {"down", "pop", "forward", "notify", "memset", "push", "oops"}
          => ~stopflag
    /\ tpc \in {"drain", "dpush", "exit"} => mgr \in {"sema", "join"} \/ stale
    /\ \A s \in Sender : hold[s] # None <=> pc[s] = "push"
    /\ within # {} => mgr = "up"
    /\ corrupt => mgr = "reset"

(* Every entry is at one place at most, *)
PlaceInv ==
    ~corrupt =>
        /\ IsInjective(idle) /\ IsInjective(wait) /\ ToSet(idle) \cap ToSet(wait) = {}
        /\ ex \notin ToSet(idle) \cup ToSet(wait)
        /\ \A s \in Sender : hold[s] # None => hold[s] \notin ToSet(idle) \cup ToSet(wait) \cup {ex}
        /\ \A s, t \in Sender : hold[s] = hold[t] /\ hold[s] # None => s = t

(* and at one if the hub is there. *)
CoverInv ==
    ~corrupt /\ mgr # "off" =>
        \A e \in Entry : \/ e \in ToSet(idle) \cup ToSet(wait) \cup {ex}
                         \/ \E s \in Sender : hold[s] = e

(* A message is in one entry, until it is completed. *)
MsgInv ==
    ~corrupt =>
        /\ \A e \in ToSet(wait) \cup {ex} :
               e \in Entry => /\ ctx[e] \in Sender
                              /\ pc[ctx[e]] \in {"sema", "sent"} /\ completed[ctx[e]] = 0
        /\ \A e, f \in ToSet(wait) \cup {ex} :
               e \in Entry /\ f \in Entry /\ ctx[e] = ctx[f] => e = f
        /\ \A s \in Sender : completed[s] # 0 => pc[s] \in {"sema", "sent"}

(* Without a late sender or a stop taken for one's own, no message is      *)
(* dropped, and the thread leaves when everything is idle.                 *)
StopInv ==
    (~corrupt /\ ~late /\ ~stale) =>
        /\ tpc \in {"exit", "none"} => wait = <<>> /\ \A s \in Sender : hold[s] = None
        /\ \A s \in Sender :
               pc[s] \in {"sema", "sent"}
                   => completed[s] = 1 \/ \E e \in Entry : e \in ToSet(wait) \cup {ex} /\ ctx[e] = s

(* While the receiver is registered and was not wiped, each message that   *)
(* the thread took from the queue goes by way of its notification.         *)
ForwardInv ==
    (~corrupt /\ ~wiped /\ ~stale) =>
        /\ mgr \in {"mask", "up"} => recv.init
        /\ mgr = "up" => recv.mask
        /\ \A s \in within : /\ pc[s] \in {"sema", "sent"}
                             /\ completed[s] = 1 => s \in got
                             /\ ex \in Entry /\ ctx[ex] = s /\ tpc \in {"memset", "push", "dpush"} => s \in got

(* A receiver that is registered, being registered or about to be called   *)
(* has its routine.                                                        *)
NullInv ==
    /\ tpc = "oops" => wiped
    /\ (~wiped /\ (recv.init \/ tpc = "notify" \/ mgr \in {"bitmap", "setinit"})) => recv.ctx

IInv == TypeOK /\ ControlInv /\ PlaceInv /\ CoverInv /\ MsgInv /\ StopInv
        /\ ForwardInv /\ ListsIntact /\ NullInv

(* The initial states satisfy it. *)
LEMMA HubInit == Init => IInv
<1> SUFFICES ASSUME Init PROVE IInv
  OBVIOUS
<1>1. /\ idle \in Seq(Entry) /\ ToSet(idle) = {} /\ IsInjective(idle)
      /\ wait \in Seq(Entry) /\ ToSet(wait) = {} /\ IsInjective(wait)
  BY EmptyQueue DEF Init
<1>2. TypeOK
  <2>1. {started, stopflag, late, stale, wiped, corrupt} \subseteq BOOLEAN
    BY Zenon DEF Init
  <2> QED
    BY <1>1, <2>1, MsgHubAssumption DEF Init, TypeOK, NoRecver, None
<1>3. ControlInv /\ PlaceInv /\ CoverInv
  BY <1>1, MsgHubAssumption DEF Init, ControlInv, PlaceInv, CoverInv, Hands, None
<1>4. MsgInv /\ StopInv
  BY <1>1, MsgHubAssumption DEF Init, MsgInv, StopInv
<1>5. ForwardInv /\ ListsIntact /\ NullInv
  BY <1>1 DEF Init, ForwardInv, ListsIntact, NullInv, NoRecver
<1> QED
  BY <1>2, <1>3, <1>4, <1>5 DEF IInv

(* The routine is there in every step: the memset that takes it away is    *)
(* the thread's own, and a registration in the middle of it is wiped.      *)
LEMMA NullStep == TypeOK /\ NullInv /\ [Next]_vars => NullInv'
<1> SUFFICES ASSUME TypeOK, NullInv, [Next]_vars PROVE NullInv'
  OBVIOUS
<1> USE DEF NullInv
<1>1. ASSUME NEW s \in Sender, phl_msg_hub_send(s) \/ Sending(s) PROVE NullInv'
  BY <1>1 DEF phl_msg_hub_send, Sending, pop_front_idle_msg, push_back_wait_msg, _os_sema_up, TypeOK
<1>2. ASSUME \/ ThreadCheck \/ ThreadDown \/ pop_front_wait_msg \/ push_back_idle_msg \/ ThreadDrain
      PROVE NullInv'
  BY <1>2 DEF ThreadCheck, ThreadDown, pop_front_wait_msg, push_back_idle_msg, ThreadDrain
<1>3. CASE msg_forward
  BY <1>3 DEF msg_forward
<1>4. CASE incoming_evt_notify
  BY <1>4 DEF incoming_evt_notify, TypeOK
<1>5. CASE ClearRecver
  <2>1. /\ recv' = NoRecver /\ tpc' = "push" /\ mgr' = mgr
        /\ wiped' = (wiped \/ recv.init \/ mgr \in {"bitmap", "setinit"})
    BY <1>5 DEF ClearRecver
  <2> QED
    BY <2>1 DEF NoRecver
<1>6. ASSUME \/ phl_msg_hub_start \/ ResetThreadStatus \/ SetStarted \/ ClearStarted
             \/ _os_thread_stop \/ StopSemaUp \/ _os_thread_deinit
      PROVE NullInv'
  BY <1>6 DEF phl_msg_hub_start, ResetThreadStatus, SetStarted, ClearStarted, _os_thread_stop,
     StopSemaUp, _os_thread_deinit
<1>7. CASE phl_msg_hub_register_recver
  BY <1>7 DEF phl_msg_hub_register_recver, TypeOK
<1>8. ASSUME ClearBitmap \/ SetRecverInit PROVE NullInv'
  BY <1>8 DEF ClearBitmap, SetRecverInit, TypeOK
<1>9. ASSUME phl_msg_hub_update_recver_mask \/ phl_msg_hub_deregister_recver \/ SetClrCtx
      PROVE NullInv'
  BY <1>9 DEF phl_msg_hub_update_recver_mask, phl_msg_hub_deregister_recver, SetClrCtx, TypeOK
<1>10. CASE UNCHANGED vars
  BY <1>10 DEF vars
<1> QED
  BY <1>1, <1>2, <1>3, <1>4, <1>5, <1>6, <1>7, <1>8, <1>9, <1>10 DEF Next, msg_thread_hdl, Managing

(* Every step preserves it, one case per action. *)
LEMMA HubStep == IInv /\ [Next]_vars => IInv'
<1> SUFFICES ASSUME IInv, [Next]_vars PROVE IInv'
  OBVIOUS
<1> USE MsgHubAssumption DEF IInv, None, Hands
<1>0. NullInv'
  BY NullStep
<1>1. ASSUME NEW s \in Sender, ~corrupt, phl_msg_hub_send(s) PROVE IInv'
  <2>1. TypeOK'
    BY <1>1 DEF phl_msg_hub_send, TypeOK
  <2>2. ControlInv'
    BY <1>1 DEF phl_msg_hub_send, ControlInv, TypeOK
  <2>3. PlaceInv'
    BY <1>1 DEF phl_msg_hub_send, TypeOK, ControlInv, PlaceInv
  <2>4. CoverInv'
    BY <1>1 DEF phl_msg_hub_send, TypeOK, ControlInv, CoverInv
  <2>5. MsgInv'
    BY <1>1 DEF phl_msg_hub_send, TypeOK, ControlInv, PlaceInv, MsgInv
  <2>6. StopInv'
    BY <1>1 DEF phl_msg_hub_send, TypeOK, ControlInv, PlaceInv, MsgInv, StopInv
  <2>7. ForwardInv'
    BY <1>1 DEF phl_msg_hub_send, TypeOK, ControlInv, MsgInv, ForwardInv
  <2>8. ListsIntact'
    BY <1>1 DEF phl_msg_hub_send, ListsIntact
  <2> QED
    BY <1>0, <2>1, <2>2, <2>3, <2>4, <2>5, <2>6, <2>7, <2>8
<1>2. ASSUME NEW s \in Sender, ~corrupt, idle = <<>>, pop_front_idle_msg(s) PROVE IInv'
  <2>1. TypeOK'
    BY <1>2 DEF pop_front_idle_msg, TypeOK
  <2>2. ControlInv'
    BY <1>2 DEF pop_front_idle_msg, ControlInv, TypeOK
  <2>3. PlaceInv'
    BY <1>2 DEF pop_front_idle_msg, TypeOK, ControlInv, PlaceInv
  <2>4. CoverInv'
    BY <1>2 DEF pop_front_idle_msg, TypeOK, ControlInv, CoverInv
  <2>5. MsgInv'
    BY <1>2 DEF pop_front_idle_msg, TypeOK, ControlInv, PlaceInv, MsgInv
  <2>6. StopInv'
    BY <1>2 DEF pop_front_idle_msg, TypeOK, ControlInv, PlaceInv, MsgInv, StopInv
  <2>7. ForwardInv'
    BY <1>2 DEF pop_front_idle_msg, TypeOK, ControlInv, MsgInv, ForwardInv
  <2>8. ListsIntact'
    BY <1>2 DEF pop_front_idle_msg, ListsIntact
  <2> QED
    BY <1>0, <2>1, <2>2, <2>3, <2>4, <2>5, <2>6, <2>7, <2>8
<1>3. ASSUME NEW s \in Sender, ~corrupt, idle # <<>>, pop_front_idle_msg(s) PROVE IInv'
  <2>1. hold' = [hold EXCEPT ![s] = Head(idle)] /\ idle' = Tail(idle)
    BY <1>3 DEF pop_front_idle_msg
  <2>2. /\ Head(idle) \in ToSet(idle) /\ Head(idle) \in Entry
        /\ Tail(idle) \in Seq(Entry) /\ IsInjective(Tail(idle))
        /\ ToSet(Tail(idle)) = ToSet(idle) \ {Head(idle)}
    BY <1>3, TailToSet DEF TypeOK, PlaceInv
  <2>3. PICK e \in ToSet(idle) :
          /\ e \in Entry /\ hold' = [hold EXCEPT ![s] = e]
          /\ idle' \in Seq(Entry) /\ IsInjective(idle') /\ ToSet(idle') = ToSet(idle) \ {e}
    BY <2>1, <2>2
  <2>4. /\ pc[s] = "pop" /\ pc' = [pc EXCEPT ![s] = "push"] /\ late' = (late \/ ~started)
        /\ mgr # "off" /\ tpc # "none" /\ UNCHANGED <<wait, ctx, sema, thread, recv, manager, fate, stale, wiped, corrupt>>
    BY <1>3 DEF pop_front_idle_msg, ControlInv
  <2>5. TypeOK'
    <3>1. late' \in BOOLEAN
      BY <2>4 DEF TypeOK
    <3> QED
      BY <2>3, <2>4, <3>1 DEF TypeOK
  <2>6. ControlInv'
    BY <2>1, <2>2, <2>3, <2>4 DEF ControlInv, TypeOK
  <2>7. PlaceInv'
    BY <2>1, <2>2, <2>3, <2>4 DEF TypeOK, ControlInv, PlaceInv
  <2>8. CoverInv'
    BY <2>1, <2>2, <2>3, <2>4 DEF TypeOK, ControlInv, CoverInv
  <2>9. MsgInv'
    BY <2>1, <2>2, <2>3, <2>4 DEF TypeOK, ControlInv, PlaceInv, MsgInv
  <2>10. StopInv'
    <3> SUFFICES ASSUME ~late', ~stale PROVE StopInv'
      BY <2>4 DEF StopInv
    <3>1. ~late /\ started /\ ~corrupt
      BY <1>3, <2>4 DEF TypeOK
    <3>2. tpc \notin {"exit", "none"}
      BY <2>4, <3>1 DEF ControlInv
    <3>3. \A t \in Sender : pc'[t] \in {"sema", "sent"} => pc[t] \in {"sema", "sent"}
      BY <2>4 DEF TypeOK
    <3> QED
      BY <2>4, <3>1, <3>2, <3>3 DEF StopInv
  <2>11. ForwardInv'
    BY <2>1, <2>2, <2>3, <2>4 DEF TypeOK, ControlInv, MsgInv, ForwardInv
  <2>12. ListsIntact'
    BY <2>1, <2>2, <2>3, <2>4 DEF ListsIntact
  <2> QED
    BY <1>0, <2>5, <2>6, <2>7, <2>8, <2>9, <2>10, <2>11, <2>12
<1>4. ASSUME NEW s \in Sender, ~corrupt, push_back_wait_msg(s) PROVE IInv'
  <2>1. pc[s] = "push" /\ hold[s] \in Entry /\ hold[s] \notin ToSet(idle) \cup ToSet(wait) \cup {ex}
    BY <1>4 DEF push_back_wait_msg, TypeOK, ControlInv, PlaceInv
  <2>2. /\ wait' \in Seq(Entry) /\ ToSet(wait') = ToSet(wait) \cup {hold[s]}
        /\ IsInjective(wait') /\ wait' # <<>>
    BY <1>4, <2>1, AppendToSet DEF push_back_wait_msg, TypeOK, PlaceInv
  <2>3. /\ ctx' = [ctx EXCEPT ![hold[s]] = s] /\ hold' = [hold EXCEPT ![s] = None]
        /\ pc' = [pc EXCEPT ![s] = "sema"] /\ within' = IF mgr = "up" THEN within \cup {s} ELSE within
        /\ UNCHANGED <<idle, sema, thread, recv, manager, got, completed, history, corrupt>>
    BY <1>4 DEF push_back_wait_msg
  <2>4. TypeOK'
    BY <2>1, <2>2, <2>3 DEF TypeOK
  <2>5. ControlInv'
    BY <2>1, <2>2, <2>3 DEF ControlInv, TypeOK
  <2>6. PlaceInv'
    BY <2>1, <2>2, <2>3 DEF TypeOK, ControlInv, PlaceInv
  <2>7. CoverInv'
    BY <2>1, <2>2, <2>3 DEF TypeOK, ControlInv, CoverInv
  <2>8. MsgInv'
    BY <2>1, <2>2, <2>3 DEF TypeOK, ControlInv, PlaceInv, MsgInv
  <2>9. StopInv'
    <3> SUFFICES ASSUME ~late, ~stale, ~corrupt PROVE StopInv'
      BY <2>3 DEF StopInv
    <3>1. tpc \notin {"exit", "none"}
      BY <2>1 DEF StopInv
    <3>2. ASSUME NEW t \in Sender, pc'[t] \in {"sema", "sent"}
          PROVE completed[t] = 1 \/ \E e \in Entry : e \in ToSet(wait') \cup {ex} /\ ctx'[e] = t
      <4>1. CASE t = s
        BY <4>1, <2>1, <2>2, <2>3 DEF TypeOK
      <4>2. CASE t # s
        <5>1. pc[t] \in {"sema", "sent"}
          BY <4>2, <3>2, <2>3 DEF TypeOK
        <5>2. CASE completed[t] = 1
          BY <5>2
        <5>3. CASE \E e \in Entry : e \in ToSet(wait) \cup {ex} /\ ctx[e] = t
          BY <5>3, <2>1, <2>2, <2>3 DEF TypeOK
        <5> QED
          BY <5>1, <5>2, <5>3 DEF StopInv
      <4> QED
        BY <4>1, <4>2
    <3> QED
      BY <3>1, <3>2, <2>3 DEF StopInv
  <2>10. ForwardInv'
    BY <2>1, <2>2, <2>3 DEF TypeOK, ControlInv, MsgInv, ForwardInv
  <2>11. ListsIntact'
    BY <2>1, <2>2, <2>3 DEF ListsIntact
  <2> QED
    BY <1>0, <2>4, <2>5, <2>6, <2>7, <2>8, <2>9, <2>10, <2>11
<1>5. ASSUME NEW s \in Sender, ~corrupt, _os_sema_up(s) PROVE IInv'
  <2>1. TypeOK'
    BY <1>5 DEF _os_sema_up, TypeOK
  <2>2. ControlInv'
    BY <1>5 DEF _os_sema_up, ControlInv, TypeOK
  <2>3. PlaceInv'
    BY <1>5 DEF _os_sema_up, TypeOK, ControlInv, PlaceInv
  <2>4. CoverInv'
    BY <1>5 DEF _os_sema_up, TypeOK, ControlInv, CoverInv
  <2>5. MsgInv'
    BY <1>5 DEF _os_sema_up, TypeOK, ControlInv, PlaceInv, MsgInv
  <2>6. StopInv'
    BY <1>5 DEF _os_sema_up, TypeOK, ControlInv, PlaceInv, MsgInv, StopInv
  <2>7. ForwardInv'
    BY <1>5 DEF _os_sema_up, TypeOK, ControlInv, MsgInv, ForwardInv
  <2>8. ListsIntact'
    BY <1>5 DEF _os_sema_up, ListsIntact
  <2> QED
    BY <1>0, <2>1, <2>2, <2>3, <2>4, <2>5, <2>6, <2>7, <2>8
<1>6. ASSUME ~corrupt, ThreadCheck PROVE IInv'
  <2>1. TypeOK'
    BY <1>6 DEF ThreadCheck, TypeOK
  <2>2. ControlInv'
    BY <1>6 DEF ThreadCheck, ControlInv, TypeOK
  <2>3. PlaceInv'
    BY <1>6 DEF ThreadCheck, TypeOK, ControlInv, PlaceInv
  <2>4. CoverInv'
    BY <1>6 DEF ThreadCheck, TypeOK, ControlInv, CoverInv
  <2>5. MsgInv'
    BY <1>6 DEF ThreadCheck, TypeOK, ControlInv, PlaceInv, MsgInv
  <2>6. StopInv'
    BY <1>6 DEF ThreadCheck, TypeOK, ControlInv, PlaceInv, MsgInv, StopInv
  <2>7. ForwardInv'
    BY <1>6 DEF ThreadCheck, TypeOK, ControlInv, MsgInv, ForwardInv
  <2>8. ListsIntact'
    BY <1>6 DEF ThreadCheck, ListsIntact
  <2> QED
    BY <1>0, <2>1, <2>2, <2>3, <2>4, <2>5, <2>6, <2>7, <2>8
<1>7. ASSUME ~corrupt, ThreadDown PROVE IInv'
  <2>1. TypeOK'
    BY <1>7 DEF ThreadDown, TypeOK
  <2>2. ControlInv'
    BY <1>7 DEF ThreadDown, ControlInv, TypeOK
  <2>3. PlaceInv'
    BY <1>7 DEF ThreadDown, TypeOK, ControlInv, PlaceInv
  <2>4. CoverInv'
    BY <1>7 DEF ThreadDown, TypeOK, ControlInv, CoverInv
  <2>5. MsgInv'
    BY <1>7 DEF ThreadDown, TypeOK, ControlInv, PlaceInv, MsgInv
  <2>6. StopInv'
    BY <1>7 DEF ThreadDown, TypeOK, ControlInv, PlaceInv, MsgInv, StopInv
  <2>7. ForwardInv'
    BY <1>7 DEF ThreadDown, TypeOK, ControlInv, MsgInv, ForwardInv
  <2>8. ListsIntact'
    BY <1>7 DEF ThreadDown, ListsIntact
  <2> QED
    BY <1>0, <2>1, <2>2, <2>3, <2>4, <2>5, <2>6, <2>7, <2>8
<1>8. ASSUME ~corrupt, wait = <<>>, pop_front_wait_msg PROVE IInv'
  <2>1. TypeOK'
    BY <1>8 DEF pop_front_wait_msg, TypeOK
  <2>2. ControlInv'
    BY <1>8 DEF pop_front_wait_msg, ControlInv, TypeOK
  <2>3. PlaceInv'
    BY <1>8 DEF pop_front_wait_msg, TypeOK, ControlInv, PlaceInv
  <2>4. CoverInv'
    BY <1>8 DEF pop_front_wait_msg, TypeOK, ControlInv, CoverInv
  <2>5. MsgInv'
    BY <1>8 DEF pop_front_wait_msg, TypeOK, ControlInv, PlaceInv, MsgInv
  <2>6. StopInv'
    BY <1>8 DEF pop_front_wait_msg, TypeOK, ControlInv, PlaceInv, MsgInv, StopInv
  <2>7. ForwardInv'
    BY <1>8 DEF pop_front_wait_msg, TypeOK, ControlInv, MsgInv, ForwardInv
  <2>8. ListsIntact'
    BY <1>8 DEF pop_front_wait_msg, ListsIntact
  <2> QED
    BY <1>0, <2>1, <2>2, <2>3, <2>4, <2>5, <2>6, <2>7, <2>8
<1>9. ASSUME ~corrupt, wait # <<>>, pop_front_wait_msg PROVE IInv'
  <2>1. ex' = Head(wait) /\ wait' = Tail(wait)
    BY <1>9 DEF pop_front_wait_msg
  <2>2. /\ Head(wait) \in ToSet(wait) /\ Head(wait) \in Entry
        /\ Tail(wait) \in Seq(Entry) /\ IsInjective(Tail(wait))
        /\ ToSet(Tail(wait)) = ToSet(wait) \ {Head(wait)}
    BY <1>9, TailToSet DEF TypeOK, PlaceInv
  <2>3. PICK e \in ToSet(wait) :
          /\ e \in Entry /\ ex' = e
          /\ wait' \in Seq(Entry) /\ IsInjective(wait') /\ ToSet(wait') = ToSet(wait) \ {e}
    BY <2>1, <2>2
  <2>4. /\ tpc = "pop" /\ tpc' = "forward" /\ ex = None
        /\ UNCHANGED <<idle, ctx, sema, recv, manager, senders, fate, history, corrupt>>
    BY <1>9 DEF pop_front_wait_msg, ControlInv
  <2>5. TypeOK'
    BY <2>1, <2>2, <2>3, <2>4 DEF TypeOK
  <2>6. ControlInv'
    BY <2>1, <2>2, <2>3, <2>4 DEF ControlInv, TypeOK
  <2>7. PlaceInv'
    BY <2>1, <2>2, <2>3, <2>4 DEF TypeOK, ControlInv, PlaceInv
  <2>8. CoverInv'
    BY <2>1, <2>2, <2>3, <2>4 DEF TypeOK, ControlInv, CoverInv
  <2>9. MsgInv'
    BY <2>1, <2>2, <2>3, <2>4 DEF TypeOK, ControlInv, PlaceInv, MsgInv
  <2>10. StopInv'
    BY <2>1, <2>2, <2>3, <2>4 DEF TypeOK, ControlInv, PlaceInv, MsgInv, StopInv
  <2>11. ForwardInv'
    BY <2>1, <2>2, <2>3, <2>4 DEF TypeOK, ControlInv, MsgInv, ForwardInv
  <2>12. ListsIntact'
    BY <2>1, <2>2, <2>3, <2>4 DEF ListsIntact
  <2> QED
    BY <1>0, <2>5, <2>6, <2>7, <2>8, <2>9, <2>10, <2>11, <2>12
<1>10. ASSUME ~corrupt, msg_forward PROVE IInv'
  <2>1. TypeOK'
    BY <1>10 DEF msg_forward, TypeOK
  <2>2. ControlInv'
    BY <1>10 DEF msg_forward, ControlInv, TypeOK
  <2>3. PlaceInv'
    BY <1>10 DEF msg_forward, TypeOK, ControlInv, PlaceInv
  <2>4. CoverInv'
    BY <1>10 DEF msg_forward, TypeOK, ControlInv, CoverInv
  <2>5. MsgInv'
    BY <1>10 DEF msg_forward, TypeOK, ControlInv, PlaceInv, MsgInv
  <2>6. StopInv'
    BY <1>10 DEF msg_forward, TypeOK, ControlInv, PlaceInv, MsgInv, StopInv
  <2>7. ForwardInv'
    BY <1>10 DEF msg_forward, TypeOK, ControlInv, MsgInv, ForwardInv
  <2>8. ListsIntact'
    BY <1>10 DEF msg_forward, ListsIntact
  <2> QED
    BY <1>0, <2>1, <2>2, <2>3, <2>4, <2>5, <2>6, <2>7, <2>8
<1>11. ASSUME ~corrupt, incoming_evt_notify PROVE IInv'
  <2>1. ctx[ex] \in Sender
    BY <1>11 DEF incoming_evt_notify, TypeOK, ControlInv, MsgInv
  <2>2. TypeOK'
    BY <1>11, <2>1 DEF incoming_evt_notify, TypeOK
  <2>3. ControlInv'
    BY <1>11, <2>1 DEF incoming_evt_notify, ControlInv, TypeOK
  <2>4. PlaceInv'
    BY <1>11, <2>1 DEF incoming_evt_notify, TypeOK, ControlInv, PlaceInv
  <2>5. CoverInv'
    BY <1>11, <2>1 DEF incoming_evt_notify, TypeOK, ControlInv, CoverInv
  <2>6. MsgInv'
    BY <1>11, <2>1 DEF incoming_evt_notify, TypeOK, ControlInv, PlaceInv, MsgInv
  <2>7. StopInv'
    BY <1>11, <2>1 DEF incoming_evt_notify, TypeOK, ControlInv, PlaceInv, MsgInv,
       StopInv
  <2>8. ForwardInv'
    BY <1>11, <2>1 DEF incoming_evt_notify, TypeOK, ControlInv, MsgInv, ForwardInv, NullInv
  <2>9. ListsIntact'
    BY <1>11, <2>1 DEF incoming_evt_notify, ListsIntact
  <2> QED
    BY <1>0, <2>2, <2>3, <2>4, <2>5, <2>6, <2>7, <2>8, <2>9
<1>12. ASSUME ~corrupt, ClearRecver PROVE IInv'
  <2>1. TypeOK'
    BY <1>12 DEF ClearRecver, TypeOK, NoRecver
  <2>2. ControlInv'
    BY <1>12 DEF ClearRecver, ControlInv, TypeOK
  <2>3. PlaceInv'
    BY <1>12 DEF ClearRecver, TypeOK, ControlInv, PlaceInv
  <2>4. CoverInv'
    BY <1>12 DEF ClearRecver, TypeOK, ControlInv, CoverInv
  <2>5. MsgInv'
    BY <1>12 DEF ClearRecver, TypeOK, ControlInv, PlaceInv, MsgInv
  <2>6. StopInv'
    BY <1>12 DEF ClearRecver, TypeOK, ControlInv, PlaceInv, MsgInv, StopInv
  <2>7. ForwardInv'
    BY <1>12 DEF ClearRecver, TypeOK, ControlInv, MsgInv, ForwardInv
  <2>8. ListsIntact'
    BY <1>12 DEF ClearRecver, ListsIntact
  <2> QED
    BY <1>0, <2>1, <2>2, <2>3, <2>4, <2>5, <2>6, <2>7, <2>8
<1>13. ASSUME ~corrupt, push_back_idle_msg PROVE IInv'
  <2>1. ex \in Entry /\ ex \notin ToSet(idle) /\ ctx[ex] \in Sender /\ completed[ctx[ex]] = 0
    BY <1>13 DEF push_back_idle_msg, TypeOK, ControlInv, PlaceInv, MsgInv
  <2>2. /\ idle' \in Seq(Entry) /\ ToSet(idle') = ToSet(idle) \cup {ex} /\ IsInjective(idle')
    BY <1>13, <2>1, AppendToSet DEF push_back_idle_msg, TypeOK, PlaceInv
  <2>3. /\ tpc \in {"push", "dpush"} /\ tpc' = (IF tpc = "push" THEN "pop" ELSE "drain") /\ ex' = None
        /\ completed' = [completed EXCEPT ![ctx[ex]] = @ + 1]
        /\ UNCHANGED <<wait, ctx, sema, recv, manager, senders, got, within, history, corrupt>>
    BY <1>13 DEF push_back_idle_msg
  <2>4. TypeOK'
    BY <2>1, <2>2, <2>3 DEF TypeOK
  <2>5. ControlInv'
    BY <2>1, <2>2, <2>3 DEF ControlInv, TypeOK
  <2>6. PlaceInv'
    BY <2>1, <2>2, <2>3, ToSetType DEF TypeOK, ControlInv, PlaceInv
  <2>7. CoverInv'
    BY <2>1, <2>2, <2>3 DEF TypeOK, ControlInv, CoverInv
  <2>8. MsgInv'
    BY <2>1, <2>2, <2>3 DEF TypeOK, ControlInv, PlaceInv, MsgInv
  <2>9. StopInv'
    BY <2>1, <2>2, <2>3 DEF TypeOK, ControlInv, PlaceInv, MsgInv, StopInv
  <2>10. ForwardInv'
    BY <2>1, <2>2, <2>3 DEF TypeOK, ControlInv, MsgInv, ForwardInv
  <2>11. ListsIntact'
    BY <2>1, <2>2, <2>3 DEF ListsIntact
  <2> QED
    BY <1>0, <2>4, <2>5, <2>6, <2>7, <2>8, <2>9, <2>10, <2>11
<1>14. ASSUME ~corrupt, Len(idle) = Cardinality(Entry), ThreadDrain PROVE IInv'
  <2>1. ToSet(idle) = Entry
    BY <1>14, FullQueue DEF TypeOK, PlaceInv
  <2>2. ToSet(wait) \subseteq Entry /\ (wait = <<>> <=> ToSet(wait) = {})
    BY ToSetType DEF TypeOK
  <2>3. TypeOK'
    BY <1>14, <2>1, <2>2 DEF ThreadDrain, TypeOK
  <2>4. ControlInv'
    BY <1>14, <2>1, <2>2 DEF ThreadDrain, ControlInv, TypeOK
  <2>5. PlaceInv'
    BY <1>14, <2>1, <2>2 DEF ThreadDrain, TypeOK, ControlInv, PlaceInv
  <2>6. CoverInv'
    BY <1>14, <2>1, <2>2 DEF ThreadDrain, TypeOK, ControlInv, CoverInv
  <2>7. MsgInv'
    BY <1>14, <2>1, <2>2 DEF ThreadDrain, TypeOK, ControlInv, PlaceInv, MsgInv
  <2>8. StopInv'
    BY <1>14, <2>1, <2>2 DEF ThreadDrain, TypeOK, ControlInv, PlaceInv, MsgInv, StopInv
  <2>9. ForwardInv'
    BY <1>14, <2>1, <2>2 DEF ThreadDrain, TypeOK, ControlInv, MsgInv, ForwardInv
  <2>10. ListsIntact'
    BY <1>14, <2>1, <2>2 DEF ThreadDrain, ListsIntact
  <2> QED
    BY <1>0, <2>3, <2>4, <2>5, <2>6, <2>7, <2>8, <2>9, <2>10
<1>15. ASSUME ~corrupt, Len(idle) # Cardinality(Entry), ThreadDrain PROVE IInv'
  <2>1. wait # <<>> /\ ex' = Head(wait) /\ wait' = Tail(wait)
    BY <1>15 DEF ThreadDrain
  <2>2. /\ Head(wait) \in ToSet(wait) /\ Head(wait) \in Entry
        /\ Tail(wait) \in Seq(Entry) /\ IsInjective(Tail(wait))
        /\ ToSet(Tail(wait)) = ToSet(wait) \ {Head(wait)}
    BY <1>15, <2>1, TailToSet DEF TypeOK, PlaceInv
  <2>3. PICK e \in ToSet(wait) :
          /\ e \in Entry /\ ex' = e
          /\ wait' \in Seq(Entry) /\ IsInjective(wait') /\ ToSet(wait') = ToSet(wait) \ {e}
    BY <2>1, <2>2
  <2>4. /\ tpc = "drain" /\ tpc' = "dpush" /\ ex = None
        /\ UNCHANGED <<idle, ctx, sema, recv, manager, senders, fate, history, corrupt>>
    BY <1>15 DEF ThreadDrain, ControlInv
  <2>5. TypeOK'
    BY <2>1, <2>2, <2>3, <2>4 DEF TypeOK
  <2>6. ControlInv'
    BY <2>1, <2>2, <2>3, <2>4 DEF ControlInv, TypeOK
  <2>7. PlaceInv'
    BY <2>1, <2>2, <2>3, <2>4 DEF TypeOK, ControlInv, PlaceInv
  <2>8. CoverInv'
    BY <2>1, <2>2, <2>3, <2>4 DEF TypeOK, ControlInv, CoverInv
  <2>9. MsgInv'
    BY <2>1, <2>2, <2>3, <2>4 DEF TypeOK, ControlInv, PlaceInv, MsgInv
  <2>10. StopInv'
    BY <2>1, <2>2, <2>3, <2>4 DEF TypeOK, ControlInv, PlaceInv, MsgInv, StopInv
  <2>11. ForwardInv'
    BY <2>1, <2>2, <2>3, <2>4 DEF TypeOK, ControlInv, MsgInv, ForwardInv
  <2>12. ListsIntact'
    BY <2>1, <2>2, <2>3, <2>4 DEF ListsIntact
  <2> QED
    BY <1>0, <2>5, <2>6, <2>7, <2>8, <2>9, <2>10, <2>11, <2>12
<1>16. ASSUME ~corrupt, phl_msg_hub_start PROVE IInv'
  <2>1. idle = <<>> /\ tpc = "none" /\ ex = None
    BY <1>16 DEF phl_msg_hub_start, ControlInv
  <2>2. /\ idle' \in Seq(Entry) /\ ToSet(idle') = Entry /\ IsInjective(idle')
    BY <1>16, <2>1, SetToSeqAll DEF phl_msg_hub_start
  <2>3. wait = <<>> => ToSet(wait) = {} /\ IsInjective(wait)
    BY EmptyQueue
  <2>4. starts + 1 \in 0..MaxStart
    BY <1>16 DEF phl_msg_hub_start, TypeOK
  <2>5. TypeOK'
    BY <1>16, <2>1, <2>2, <2>3, <2>4 DEF phl_msg_hub_start, TypeOK
  <2>6. ControlInv'
    BY <1>16, <2>1, <2>2, <2>3, <2>4 DEF phl_msg_hub_start, ControlInv, TypeOK
  <2>7. PlaceInv'
    BY ZenonT(40), <1>16, <2>1, <2>2, <2>3, <2>4 DEF phl_msg_hub_start, TypeOK, ControlInv, PlaceInv
  <2>8. CoverInv'
    BY <1>16, <2>1, <2>2, <2>3, <2>4 DEF phl_msg_hub_start, TypeOK, ControlInv, CoverInv
  <2>9. MsgInv'
    BY ZenonT(40), <1>16, <2>1, <2>2, <2>3, <2>4 DEF phl_msg_hub_start, TypeOK, ControlInv,
       PlaceInv, MsgInv
  <2>10. StopInv'
    BY <1>16, <2>1, <2>2, <2>3, <2>4 DEF phl_msg_hub_start, TypeOK, ControlInv,
       PlaceInv, MsgInv, StopInv
  <2>11. ForwardInv'
    BY <1>16, <2>1, <2>2, <2>3, <2>4 DEF phl_msg_hub_start, TypeOK, ControlInv, MsgInv,
       ForwardInv
  <2>12. ListsIntact'
    BY <1>16, <2>1, <2>2, <2>3, <2>4 DEF phl_msg_hub_start, ListsIntact, StopInv, TypeOK
  <2> QED
    BY <1>0, <2>5, <2>6, <2>7, <2>8, <2>9, <2>10, <2>11, <2>12
<1>17. ASSUME ~corrupt, ResetThreadStatus PROVE IInv'
  <2>1. TypeOK'
    BY <1>17 DEF ResetThreadStatus, TypeOK
  <2>2. ControlInv'
    BY <1>17 DEF ResetThreadStatus, ControlInv, TypeOK
  <2>3. PlaceInv'
    BY <1>17 DEF ResetThreadStatus, TypeOK, ControlInv, PlaceInv
  <2>4. CoverInv'
    BY <1>17 DEF ResetThreadStatus, TypeOK, ControlInv, CoverInv
  <2>5. MsgInv'
    BY <1>17 DEF ResetThreadStatus, TypeOK, ControlInv, PlaceInv, MsgInv
  <2>6. StopInv'
    BY <1>17 DEF ResetThreadStatus, TypeOK, ControlInv, PlaceInv, MsgInv, StopInv
  <2>7. ForwardInv'
    BY <1>17 DEF ResetThreadStatus, TypeOK, ControlInv, MsgInv, ForwardInv
  <2>8. ListsIntact'
    BY <1>17 DEF ResetThreadStatus, ListsIntact
  <2> QED
    BY <1>0, <2>1, <2>2, <2>3, <2>4, <2>5, <2>6, <2>7, <2>8
<1>18. ASSUME ~corrupt, SetStarted PROVE IInv'
  <2>1. TypeOK'
    BY <1>18 DEF SetStarted, TypeOK
  <2>2. ControlInv'
    BY <1>18 DEF SetStarted, ControlInv, TypeOK
  <2>3. PlaceInv'
    BY <1>18 DEF SetStarted, TypeOK, ControlInv, PlaceInv
  <2>4. CoverInv'
    BY <1>18 DEF SetStarted, TypeOK, ControlInv, CoverInv
  <2>5. MsgInv'
    BY <1>18 DEF SetStarted, TypeOK, ControlInv, PlaceInv, MsgInv
  <2>6. StopInv'
    BY <1>18 DEF SetStarted, TypeOK, ControlInv, PlaceInv, MsgInv, StopInv
  <2>7. ForwardInv'
    BY <1>18 DEF SetStarted, TypeOK, ControlInv, MsgInv, ForwardInv
  <2>8. ListsIntact'
    BY <1>18 DEF SetStarted, ListsIntact
  <2> QED
    BY <1>0, <2>1, <2>2, <2>3, <2>4, <2>5, <2>6, <2>7, <2>8
<1>19. ASSUME ~corrupt, phl_msg_hub_register_recver PROVE IInv'
  <2>1. TypeOK'
    <3>1. recv' = recv \/ recv' = [recv EXCEPT !.ctx = TRUE]
      BY <1>19 DEF phl_msg_hub_register_recver
    <3>2. recv' \in [init : BOOLEAN, clr : BOOLEAN, mask : BOOLEAN, ctx : BOOLEAN]
      BY <3>1 DEF TypeOK
    <3>3. mgr' \in {"mask", "bitmap"}
      BY <1>19 DEF phl_msg_hub_register_recver
    <3> QED
      BY <1>19, <3>2, <3>3 DEF phl_msg_hub_register_recver, TypeOK
  <2>2. ControlInv'
    BY <1>19 DEF phl_msg_hub_register_recver, ControlInv, TypeOK
  <2>3. PlaceInv'
    BY <1>19 DEF phl_msg_hub_register_recver, TypeOK, ControlInv, PlaceInv
  <2>4. CoverInv'
    BY <1>19 DEF phl_msg_hub_register_recver, TypeOK, ControlInv, CoverInv
  <2>5. MsgInv'
    BY <1>19 DEF phl_msg_hub_register_recver, TypeOK, ControlInv, PlaceInv, MsgInv
  <2>6. StopInv'
    BY <1>19 DEF phl_msg_hub_register_recver, TypeOK, ControlInv, PlaceInv, MsgInv,
       StopInv
  <2>7. ForwardInv'
    BY <1>19 DEF phl_msg_hub_register_recver, TypeOK, ControlInv, MsgInv, ForwardInv
  <2>8. ListsIntact'
    BY <1>19 DEF phl_msg_hub_register_recver, ListsIntact
  <2> QED
    BY <1>0, <2>1, <2>2, <2>3, <2>4, <2>5, <2>6, <2>7, <2>8
<1>20. ASSUME ~corrupt, phl_msg_hub_update_recver_mask PROVE IInv'
  <2>1. TypeOK'
    BY <1>20 DEF phl_msg_hub_update_recver_mask, TypeOK
  <2>2. ControlInv'
    BY <1>20 DEF phl_msg_hub_update_recver_mask, ControlInv, TypeOK
  <2>3. PlaceInv'
    BY <1>20 DEF phl_msg_hub_update_recver_mask, TypeOK, ControlInv, PlaceInv
  <2>4. CoverInv'
    BY <1>20 DEF phl_msg_hub_update_recver_mask, TypeOK, ControlInv, CoverInv
  <2>5. MsgInv'
    BY <1>20 DEF phl_msg_hub_update_recver_mask, TypeOK, ControlInv, PlaceInv, MsgInv
  <2>6. StopInv'
    BY <1>20 DEF phl_msg_hub_update_recver_mask, TypeOK, ControlInv, PlaceInv, MsgInv,
       StopInv
  <2>7. ForwardInv'
    BY <1>20 DEF phl_msg_hub_update_recver_mask, TypeOK, ControlInv, MsgInv, ForwardInv
  <2>8. ListsIntact'
    BY <1>20 DEF phl_msg_hub_update_recver_mask, ListsIntact
  <2> QED
    BY <1>0, <2>1, <2>2, <2>3, <2>4, <2>5, <2>6, <2>7, <2>8
<1>21. ASSUME ~corrupt, phl_msg_hub_deregister_recver PROVE IInv'
  <2>1. TypeOK'
    BY <1>21 DEF phl_msg_hub_deregister_recver, TypeOK
  <2>2. ControlInv'
    BY <1>21 DEF phl_msg_hub_deregister_recver, ControlInv, TypeOK
  <2>3. PlaceInv'
    BY <1>21 DEF phl_msg_hub_deregister_recver, TypeOK, ControlInv, PlaceInv
  <2>4. CoverInv'
    BY <1>21 DEF phl_msg_hub_deregister_recver, TypeOK, ControlInv, CoverInv
  <2>5. MsgInv'
    BY <1>21 DEF phl_msg_hub_deregister_recver, TypeOK, ControlInv, PlaceInv, MsgInv
  <2>6. StopInv'
    BY <1>21 DEF phl_msg_hub_deregister_recver, TypeOK, ControlInv, PlaceInv, MsgInv,
       StopInv
  <2>7. ForwardInv'
    BY <1>21 DEF phl_msg_hub_deregister_recver, TypeOK, ControlInv, MsgInv, ForwardInv
  <2>8. ListsIntact'
    BY <1>21 DEF phl_msg_hub_deregister_recver, ListsIntact
  <2> QED
    BY <1>0, <2>1, <2>2, <2>3, <2>4, <2>5, <2>6, <2>7, <2>8
<1>22. ASSUME ~corrupt, ClearStarted PROVE IInv'
  <2>1. TypeOK'
    BY <1>22 DEF ClearStarted, TypeOK
  <2>2. ControlInv'
    BY <1>22 DEF ClearStarted, ControlInv, TypeOK
  <2>3. PlaceInv'
    BY <1>22 DEF ClearStarted, TypeOK, ControlInv, PlaceInv
  <2>4. CoverInv'
    BY <1>22 DEF ClearStarted, TypeOK, ControlInv, CoverInv
  <2>5. MsgInv'
    BY <1>22 DEF ClearStarted, TypeOK, ControlInv, PlaceInv, MsgInv
  <2>6. StopInv'
    BY <1>22 DEF ClearStarted, TypeOK, ControlInv, PlaceInv, MsgInv, StopInv
  <2>7. ForwardInv'
    BY <1>22 DEF ClearStarted, TypeOK, ControlInv, MsgInv, ForwardInv
  <2>8. ListsIntact'
    BY <1>22 DEF ClearStarted, ListsIntact
  <2> QED
    BY <1>0, <2>1, <2>2, <2>3, <2>4, <2>5, <2>6, <2>7, <2>8
<1>23. ASSUME ~corrupt, _os_thread_stop PROVE IInv'
  <2>1. TypeOK'
    BY <1>23 DEF _os_thread_stop, TypeOK
  <2>2. ControlInv'
    BY <1>23 DEF _os_thread_stop, ControlInv, TypeOK
  <2>3. PlaceInv'
    BY <1>23 DEF _os_thread_stop, TypeOK, ControlInv, PlaceInv
  <2>4. CoverInv'
    BY <1>23 DEF _os_thread_stop, TypeOK, ControlInv, CoverInv
  <2>5. MsgInv'
    BY <1>23 DEF _os_thread_stop, TypeOK, ControlInv, PlaceInv, MsgInv
  <2>6. StopInv'
    BY <1>23 DEF _os_thread_stop, TypeOK, ControlInv, PlaceInv, MsgInv, StopInv
  <2>7. ForwardInv'
    BY <1>23 DEF _os_thread_stop, TypeOK, ControlInv, MsgInv, ForwardInv
  <2>8. ListsIntact'
    BY <1>23 DEF _os_thread_stop, ListsIntact
  <2> QED
    BY <1>0, <2>1, <2>2, <2>3, <2>4, <2>5, <2>6, <2>7, <2>8
<1>24. ASSUME ~corrupt, StopSemaUp PROVE IInv'
  <2>1. TypeOK'
    BY <1>24 DEF StopSemaUp, TypeOK
  <2>2. ControlInv'
    BY <1>24 DEF StopSemaUp, ControlInv, TypeOK
  <2>3. PlaceInv'
    BY <1>24 DEF StopSemaUp, TypeOK, ControlInv, PlaceInv
  <2>4. CoverInv'
    BY <1>24 DEF StopSemaUp, TypeOK, ControlInv, CoverInv
  <2>5. MsgInv'
    BY <1>24 DEF StopSemaUp, TypeOK, ControlInv, PlaceInv, MsgInv
  <2>6. StopInv'
    BY <1>24 DEF StopSemaUp, TypeOK, ControlInv, PlaceInv, MsgInv, StopInv
  <2>7. ForwardInv'
    BY <1>24 DEF StopSemaUp, TypeOK, ControlInv, MsgInv, ForwardInv
  <2>8. ListsIntact'
    BY <1>24 DEF StopSemaUp, ListsIntact
  <2> QED
    BY <1>0, <2>1, <2>2, <2>3, <2>4, <2>5, <2>6, <2>7, <2>8
<1>25. ASSUME ~corrupt, _os_thread_deinit PROVE IInv'
  <2>1. /\ idle' = <<>> /\ ToSet(idle') = {} /\ IsInjective(idle')
        /\ wait' = <<>> /\ ToSet(wait') = {} /\ IsInjective(wait')
    BY <1>25, EmptyQueue DEF _os_thread_deinit
  <2>2. TypeOK'
    BY <1>25, <2>1 DEF _os_thread_deinit, TypeOK
  <2>3. ControlInv'
    BY <1>25, <2>1 DEF _os_thread_deinit, ControlInv, TypeOK
  <2>4. PlaceInv'
    BY <1>25, <2>1 DEF _os_thread_deinit, TypeOK, ControlInv, PlaceInv
  <2>5. CoverInv'
    BY <1>25, <2>1 DEF _os_thread_deinit, TypeOK, ControlInv, CoverInv
  <2>6. MsgInv'
    BY <1>25, <2>1 DEF _os_thread_deinit, TypeOK, ControlInv, PlaceInv, MsgInv
  <2>7. StopInv'
    BY <1>25, <2>1 DEF _os_thread_deinit, TypeOK, ControlInv, PlaceInv, MsgInv, StopInv
  <2>8. ForwardInv'
    BY <1>25, <2>1 DEF _os_thread_deinit, TypeOK, ControlInv, MsgInv, ForwardInv
  <2>9. ListsIntact'
    BY <1>25, <2>1 DEF _os_thread_deinit, ListsIntact
  <2> QED
    BY <1>0, <2>2, <2>3, <2>4, <2>5, <2>6, <2>7, <2>8, <2>9
<1>27. ASSUME ~corrupt, ClearBitmap PROVE IInv'
  <2>1. TypeOK'
    BY <1>27 DEF ClearBitmap, TypeOK
  <2>2. ControlInv'
    BY <1>27 DEF ClearBitmap, ControlInv, TypeOK
  <2>3. PlaceInv'
    BY <1>27 DEF ClearBitmap, TypeOK, ControlInv, PlaceInv
  <2>4. CoverInv'
    BY <1>27 DEF ClearBitmap, TypeOK, ControlInv, CoverInv
  <2>5. MsgInv'
    BY <1>27 DEF ClearBitmap, TypeOK, ControlInv, PlaceInv, MsgInv
  <2>6. StopInv'
    BY <1>27 DEF ClearBitmap, TypeOK, ControlInv, PlaceInv, MsgInv, StopInv
  <2>7. ForwardInv'
    BY <1>27 DEF ClearBitmap, TypeOK, ControlInv, MsgInv, ForwardInv
  <2>8. ListsIntact'
    BY <1>27 DEF ClearBitmap, ListsIntact
  <2> QED
    BY <1>0, <2>1, <2>2, <2>3, <2>4, <2>5, <2>6, <2>7, <2>8
<1>28. ASSUME ~corrupt, SetRecverInit PROVE IInv'
  <2>1. TypeOK'
    <3>1. PICK clr \in {recv.clr, TRUE} : recv' = [recv EXCEPT !.init = TRUE, !.clr = clr]
      BY <1>28 DEF SetRecverInit
    <3>2. clr \in BOOLEAN
      BY <3>1, Zenon DEF TypeOK
    <3>3. recv' \in [init : BOOLEAN, clr : BOOLEAN, mask : BOOLEAN, ctx : BOOLEAN]
      BY <3>1, <3>2 DEF TypeOK
    <3> QED
      BY <1>28, <3>3 DEF SetRecverInit, TypeOK
  <2>2. ControlInv'
    BY <1>28 DEF SetRecverInit, ControlInv, TypeOK
  <2>3. PlaceInv'
    BY <1>28 DEF SetRecverInit, TypeOK, ControlInv, PlaceInv
  <2>4. CoverInv'
    BY <1>28 DEF SetRecverInit, TypeOK, ControlInv, CoverInv
  <2>5. MsgInv'
    BY <1>28 DEF SetRecverInit, TypeOK, ControlInv, PlaceInv, MsgInv
  <2>6. StopInv'
    BY <1>28 DEF SetRecverInit, TypeOK, ControlInv, PlaceInv, MsgInv, StopInv
  <2>7. ForwardInv'
    BY <1>28 DEF SetRecverInit, TypeOK, ControlInv, MsgInv, ForwardInv
  <2>8. ListsIntact'
    BY <1>28 DEF SetRecverInit, ListsIntact
  <2> QED
    BY <1>0, <2>1, <2>2, <2>3, <2>4, <2>5, <2>6, <2>7, <2>8
<1>29. ASSUME ~corrupt, SetClrCtx PROVE IInv'
  <2>1. TypeOK'
    BY <1>29 DEF SetClrCtx, TypeOK
  <2>2. ControlInv'
    BY <1>29 DEF SetClrCtx, ControlInv, TypeOK
  <2>3. PlaceInv'
    BY <1>29 DEF SetClrCtx, TypeOK, ControlInv, PlaceInv
  <2>4. CoverInv'
    BY <1>29 DEF SetClrCtx, TypeOK, ControlInv, CoverInv
  <2>5. MsgInv'
    BY <1>29 DEF SetClrCtx, TypeOK, ControlInv, PlaceInv, MsgInv
  <2>6. StopInv'
    BY <1>29 DEF SetClrCtx, TypeOK, ControlInv, PlaceInv, MsgInv, StopInv
  <2>7. ForwardInv'
    BY <1>29 DEF SetClrCtx, TypeOK, ControlInv, MsgInv, ForwardInv
  <2>8. ListsIntact'
    BY <1>29 DEF SetClrCtx, ListsIntact
  <2> QED
    BY <1>0, <2>1, <2>2, <2>3, <2>4, <2>5, <2>6, <2>7, <2>8
<1>26. CASE UNCHANGED vars
  BY <1>0, <1>26 DEF vars, TypeOK, ControlInv, PlaceInv, CoverInv, MsgInv, StopInv, ForwardInv, ListsIntact
<1> QED
  BY <1>1, <1>2, <1>3, <1>4, <1>5, <1>6, <1>7, <1>8, <1>9, <1>10, <1>11, <1>12, <1>13, <1>14, <1>15, <1>16, <1>17, <1>18, <1>19, <1>20, <1>21, <1>22, <1>23, <1>24, <1>25, <1>26,
     <1>27, <1>28, <1>29 DEF Next, Sending, msg_thread_hdl, Managing

(* Every reachable state satisfies it. *)
LEMMA HubInvariant == Spec => []IInv
  BY HubInit, HubStep, PTL DEF Spec

(* The places of PlaceInv and CoverInv, counted. *)
LEMMA PlacesCounted == IInv => EntryAtOnePlace
<1> SUFFICES ASSUME IInv, mgr # "off", ~corrupt, NEW e \in Entry
             PROVE Count(idle, e) + Count(wait, e) + (IF ex = e THEN 1 ELSE 0)
                       + Cardinality({s \in Sender : hold[s] = e}) = 1
  BY DEF EntryAtOnePlace
<1> DEFINE H == {s \in Sender : hold[s] = e}
<1>1. /\ Count(idle, e) = IF e \in ToSet(idle) THEN 1 ELSE 0
      /\ Count(wait, e) = IF e \in ToSet(wait) THEN 1 ELSE 0
  BY CountInjective DEF Count, IInv, TypeOK, PlaceInv
<1>2. Cardinality(H) = IF H = {} THEN 0 ELSE 1
  <2>1. CASE H = {}
    BY <2>1, FS_EmptySet
  <2>2. ASSUME NEW s \in H PROVE H = {s}
    BY MsgHubAssumption DEF IInv, PlaceInv, None
  <2>3. CASE H # {}
    BY <2>2, <2>3, FS_Singleton
  <2> QED
    BY <2>1, <2>3
<1>3. \/ e \in ToSet(idle) /\ e \notin ToSet(wait) /\ ex # e /\ H = {}
      \/ e \notin ToSet(idle) /\ e \in ToSet(wait) /\ ex # e /\ H = {}
      \/ e \notin ToSet(idle) /\ e \notin ToSet(wait) /\ ex = e /\ H = {}
      \/ e \notin ToSet(idle) /\ e \notin ToSet(wait) /\ ex # e /\ H # {}
  BY MsgHubAssumption DEF IInv, PlaceInv, CoverInv, None
<1> HIDE DEF H
<1>4. Count(idle, e) + Count(wait, e) + (IF ex = e THEN 1 ELSE 0) + Cardinality(H) = 1
  BY <1>1, <1>2, <1>3
<1> QED
  BY <1>4 DEF H

(* Over any number of starts and stops, no entry of the pool is lost or in *)
(* two lists, and a start damages a list only after a late sender or a     *)
(* stop that a thread took for its own (phl_msg_hub_start/_stop).          *)
THEOREM PoolIntact == Spec => []PoolInv
<1>1. IInv => PoolInv
  BY PlacesCounted DEF PoolInv, IInv
<1> QED
  BY <1>1, HubInvariant, PTL

(* A stop that has returned left no message behind that was not completed  *)
(* (the last loop of msg_thread_hdl).                                      *)
THEOREM StopLeavesNothing == Spec => []StopCompletesAll
<1>1. IInv => StopCompletesAll
  <2> SUFFICES ASSUME IInv, mgr = "off", ~late, ~stale, NEW s \in Sender, pc[s] \in {"sema", "sent"}
               PROVE completed[s] = 1
    BY DEF StopCompletesAll
  <2>1. ~corrupt
    BY DEF IInv, ListsIntact
  <2>2. tpc = "none" /\ ex = None
    BY DEF IInv, ControlInv, Hands
  <2>3. wait = <<>> /\ ToSet(wait) = {}
    BY <2>1, <2>2, EmptyQueue DEF IInv, StopInv
  <2> QED
    BY <2>1, <2>2, <2>3, MsgHubAssumption DEF IInv, StopInv
<1> QED
  BY <1>1, HubInvariant, PTL

(* No message of the time of a registration is completed past the receiver *)
(* (msg_forward, msg_hub_register_recver).                                 *)
THEOREM NothingSkipped == Spec => []Forwarded
<1>1. IInv => Forwarded
  BY DEF IInv, Forwarded, ForwardInv, ControlInv, NullInv
<1> QED
  BY <1>1, HubInvariant, PTL

=============================================================================
