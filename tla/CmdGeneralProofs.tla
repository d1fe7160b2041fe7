--------------------------- MODULE CmdGeneralProofs ---------------------------
(***************************************************************************)
(* Proofs about CmdGeneral, for any set of commands and of kinds of        *)
(* callers.                                                                *)
(***************************************************************************)
EXTENDS CmdGeneral, QueueLemmas

USE DEF caller, disp

(* The dispatcher has the message of c, or works on it at one of these steps. *)
Queued(c) == c \in ToSet(queue) \/ c \in pend
Has(c) == Queued(c) \/ cur = c
InWork(c, S) == cur = c /\ dpc \in S

(* A message is queued once or pended, and the one in work is neither;     *)
(* csts is settled by the handler.                                         *)
DispInv ==
    /\ IsInjective(queue) /\ cur \notin ToSet(queue)
    /\ cur \notin pend /\ pend \cap ToSet(queue) = {}
    /\ cur = None <=> dpc = "idle"
    /\ dpc \in {"status", "event", "poll"} => kind[cur].wait # "no"
    /\ dpc \notin {"idle", "handler"} => csts \in {"drop", "cannot_io", "error", "success"}

(* What is known of a caller from where it is. *)
CallerInv ==
    \A c \in Cmd :
        /\ pc[c] \in {"idle", "send", "link"} => ~Has(c) /\ told[c] = None /\ ~done[c]
        /\ pc[c] = "idle" => buf[c] = "none"
        /\ pc[c] \in {"wait", "timeout", "read", "inc"} => kind[c].wait # "no"
        /\ pc[c] = "timeout" => kind[c].wait = "timed"
        /\ pc[c] \in {"idle", "send", "link", "wait", "timeout", "read"} => psts[c] = None
        /\ pc[c] = "inc" => LeftToCallback(c)
        /\ pc[c] \in {"own", "returned"} => psts[c] = "failure" \/ LeftToCallback(c)
        /\ psts[c] = "failure" => ~Has(c)

(* The object is there while the dispatcher has the message, and, unless   *)
(* it gave up, until the caller has counted.                               *)
ObjInv ==
    /\ \A c \in Cmd :
        /\ pc[c] \in {"send", "link"} \/ Has(c) => obj[c] = "live"
        /\ pc[c] \in {"wait", "timeout", "read", "inc"} => obj[c] = "live" \/ gaveup
        /\ ref_cnt[c] = 1 => pc[c] \in {"own", "returned"}
    /\ dpc = "free" /\ kind[cur].wait # "no" => ref_cnt[cur] = 1 \/ gaveup
    /\ ObjectOutlives

(* A caller whose message was refused, and that has not freed its buffer. *)
Refused(c) == pc[c] = "own" /\ psts[c] = "failure"

(* A buffer on the heap is there until the callback has run, and a caller  *)
(* that waits for ever does not return before the event.                   *)
BufInv ==
    /\ \A c \in Cmd :
        /\ kind[c].buf = "heap" =>
            /\ pc[c] \in {"send", "link"} \/ Queued(c) \/ Refused(c) => buf[c] = "live"
            /\ InWork(c, {"handler", "status", "event", "callback"}) => buf[c] = "live"
            /\ InWork(c, {"poll", "free"}) => buf[c] = "freed"
            /\ ~Has(c) /\ pc[c] \notin {"idle", "send", "link"}
               => buf[c] = "freed" \/ Refused(c)
        /\ kind[c].buf # "heap" => buf[c] = "none"
        /\ done[c] => ~Queued(c) /\ ~InWork(c, {"handler", "status", "event"})
        /\ kind[c].wait = "forever" /\ pc[c] \in {"read", "inc", "own", "returned"}
           => psts[c] = "failure" \/ done[c]
    /\ BuffersOutlive

(* The status of a caller that waits is open until _phl_cmd_done, and then *)
(* what the message says, or that time was up.                             *)
StatusInv ==
    \A c \in Cmd :
        /\ kind[c].wait = "no" => psts[c] \in {None, "ok", "failure"}
        /\ kind[c].wait # "no" =>
            /\ pc[c] \in {"send", "link"} \/ Queued(c) \/ InWork(c, {"handler", "status"})
               => status[c] \in {"submitted", "timeout"}
            /\ InWork(c, {"event", "callback", "poll", "free"}) => status[c] \in {csts, "timeout"}
            /\ InWork(c, {"callback", "poll", "free"}) => done[c]
            /\ told[c] # None => done[c] /\ status[c] \in {told[c], "timeout"}
            /\ done[c] => status[c] \notin {"submitted", None}
            /\ pc[c] = "read" => done[c] \/ status[c] = "timeout"
            /\ psts[c] \notin {None, "failure", "timeout"} => done[c] /\ psts[c] = status[c]

IInv == TypeOK /\ DispInv /\ CallerInv /\ ObjInv /\ BufInv /\ StatusInv

(* No command is under way in the initial states. *)
LEMMA GeneralInit == Init => IInv
<1> SUFFICES ASSUME Init PROVE IInv
  OBVIOUS
<1>1. queue \in Seq(Cmd) /\ ToSet(queue) = {} /\ IsInjective(queue)
  BY EmptyQueue DEF Init
<1>2. TypeOK
  <2>1. gaveup \in BOOLEAN /\ done \in [Cmd -> BOOLEAN]
    BY DEF Init
  <2>2. kind \in [Cmd -> Kinds \cup {NoKind}]
    BY DEF Init
  <2> QED
    BY <1>1, <2>1, <2>2 DEF Init, TypeOK
<1>3. DispInv /\ CallerInv
  BY <1>1, CmdGeneralAssumption DEF Init, DispInv, CallerInv, Has, Queued, LeftToCallback, is_cmd_enqueue
<1>4. ObjInv /\ BufInv
  BY <1>1, CmdGeneralAssumption DEF Init, ObjInv, BufInv, ObjectOutlives, BuffersOutlive, Has, Queued, InWork, Refused, NoKind
<1>5. StatusInv
  BY <1>1 DEF Init, StatusInv, NoKind
<1> QED
  BY <1>2, <1>3, <1>4, <1>5 DEF IInv

(* Every step preserves it, one case per action. *)
LEMMA GeneralStep == IInv /\ [Next]_vars => IInv'
<1> SUFFICES ASSUME IInv, [Next]_vars PROVE IInv'
  OBVIOUS
<1> USE CmdGeneralAssumption DEF IInv, Has, Queued, InWork, None
<1>1. ASSUME NEW c \in Cmd, phl_cmd_enqueue(c) PROVE IInv'
  <2>1. TypeOK'
    BY <1>1 DEF phl_cmd_enqueue, TypeOK, CmdSts, NoKind
  <2>2. DispInv'
    BY <1>1 DEF phl_cmd_enqueue, DispInv, TypeOK, CallerInv
  <2>3. CallerInv'
    BY <1>1 DEF phl_cmd_enqueue, TypeOK, DispInv, CallerInv, LeftToCallback,
       is_cmd_enqueue
  <2>4. ObjInv'
    BY <1>1 DEF phl_cmd_enqueue, TypeOK, DispInv, CallerInv, ObjInv, ObjectOutlives
  <2>5. BufInv'
    BY <1>1 DEF phl_cmd_enqueue, TypeOK, DispInv, CallerInv, BufInv, BuffersOutlive,
       LeftToCallback, is_cmd_enqueue, Refused
  <2>6. StatusInv'
    BY <1>1 DEF phl_cmd_enqueue, TypeOK, DispInv, CallerInv, BufInv, StatusInv
  <2> QED
    BY <2>1, <2>2, <2>3, <2>4, <2>5, <2>6
<1>2. ASSUME NEW c \in Cmd, SendMsg(c) PROVE IInv'
  <2>1. /\ ~Has(c) /\ queue' \in Seq(Cmd)
        /\ ToSet(queue') = ToSet(queue) \cup {c} /\ IsInjective(queue')
    BY <1>2, AppendToSet DEF SendMsg, TypeOK, DispInv, CallerInv
  <2>2. TypeOK'
    <3>1. pc' \in [Cmd -> {"idle", "send", "link", "wait", "timeout", "read", "inc", "own",
                           "returned"}]
      BY <1>2 DEF SendMsg, TypeOK
    <3>2. psts' \in [Cmd -> CmdSts \cup {None, "ok", "failure"}]
      <4>1. psts' = psts \/ psts' = [psts EXCEPT ![c] = "ok"]
        BY <1>2 DEF SendMsg
      <4> QED
        BY <4>1 DEF TypeOK
    <3> QED
      BY <1>2, <2>1, <3>1, <3>2 DEF SendMsg, TypeOK
  <2>3. DispInv'
    BY <1>2, <2>1 DEF SendMsg, DispInv, TypeOK, CallerInv
  <2>4. CallerInv'
    BY <1>2, <2>1 DEF SendMsg, TypeOK, DispInv, CallerInv, LeftToCallback,
       is_cmd_enqueue
  <2>5. ObjInv'
    BY <1>2, <2>1 DEF SendMsg, TypeOK, DispInv, CallerInv, ObjInv, ObjectOutlives
  <2>6. BufInv'
    BY <1>2, <2>1 DEF SendMsg, TypeOK, DispInv, CallerInv, BufInv, BuffersOutlive,
       LeftToCallback, is_cmd_enqueue, Refused
  <2>7. StatusInv'
    BY <1>2, <2>1 DEF SendMsg, TypeOK, DispInv, CallerInv, BufInv, StatusInv
  <2> QED
    BY <2>2, <2>3, <2>4, <2>5, <2>6, <2>7
<1>3. ASSUME NEW c \in Cmd, SendMsgFails(c) PROVE IInv'
  <2>1. TypeOK'
    BY <1>3 DEF SendMsgFails, TypeOK, CmdSts, NoKind
  <2>2. DispInv'
    BY <1>3 DEF SendMsgFails, DispInv, TypeOK
  <2>3. CallerInv'
    BY <1>3 DEF SendMsgFails, TypeOK, DispInv, CallerInv, LeftToCallback, is_cmd_enqueue
  <2>4. ObjInv'
    BY <1>3 DEF SendMsgFails, TypeOK, DispInv, CallerInv, ObjInv, ObjectOutlives
  <2>5. BufInv'
    BY <1>3 DEF SendMsgFails, TypeOK, DispInv, CallerInv, BufInv, BuffersOutlive,
       LeftToCallback, is_cmd_enqueue, Refused
  <2>6. StatusInv'
    BY <1>3 DEF SendMsgFails, TypeOK, DispInv, CallerInv, BufInv, StatusInv
  <2> QED
    BY <2>1, <2>2, <2>3, <2>4, <2>5, <2>6
<1>4. ASSUME NEW c \in Cmd, _os_event_wait(c) PROVE IInv'
  <2>1. TypeOK'
    BY <1>4 DEF _os_event_wait, TouchObj, TypeOK, CmdSts, NoKind
  <2>2. DispInv'
    BY <1>4 DEF _os_event_wait, TouchObj, DispInv, TypeOK
  <2>3. CallerInv'
    BY <1>4 DEF _os_event_wait, TouchObj, TypeOK, DispInv, CallerInv, LeftToCallback,
       is_cmd_enqueue
  <2>4. ObjInv'
    BY <1>4 DEF _os_event_wait, TouchObj, TypeOK, DispInv, CallerInv, ObjInv,
       ObjectOutlives
  <2>5. BufInv'
    BY <1>4 DEF _os_event_wait, TouchObj, TypeOK, DispInv, CallerInv, BufInv,
       BuffersOutlive, LeftToCallback, is_cmd_enqueue, Refused
  <2>6. StatusInv'
    BY <1>4 DEF _os_event_wait, TouchObj, TypeOK, DispInv, CallerInv, BufInv, StatusInv
  <2> QED
    BY <2>1, <2>2, <2>3, <2>4, <2>5, <2>6
<1>5. ASSUME NEW c \in Cmd, SetTimeout(c) PROVE IInv'
  <2>1. TypeOK'
    BY <1>5 DEF SetTimeout, TouchObj, TypeOK, CmdSts, NoKind
  <2>2. DispInv'
    BY <1>5 DEF SetTimeout, TouchObj, DispInv, TypeOK
  <2>3. CallerInv'
    BY <1>5 DEF SetTimeout, TouchObj, TypeOK, DispInv, CallerInv, LeftToCallback,
       is_cmd_enqueue
  <2>4. ObjInv'
    BY <1>5 DEF SetTimeout, TouchObj, TypeOK, DispInv, CallerInv, ObjInv, ObjectOutlives
  <2>5. BufInv'
    BY <1>5 DEF SetTimeout, TouchObj, TypeOK, DispInv, CallerInv, BufInv,
       BuffersOutlive, LeftToCallback, is_cmd_enqueue, Refused
  <2>6. StatusInv'
    BY <1>5 DEF SetTimeout, TouchObj, TypeOK, DispInv, CallerInv, BufInv, StatusInv
  <2> QED
    BY <2>1, <2>2, <2>3, <2>4, <2>5, <2>6
<1>6. ASSUME NEW c \in Cmd, _phl_cmd_wait(c) PROVE IInv'
  <2>1. /\ _cmd_stat_2_phl_stat(status[c]) \in CmdSts \ {"submitted"}
        /\ status[c] \notin {"submitted", None} => _cmd_stat_2_phl_stat(status[c]) = status[c]
    BY DEF _cmd_stat_2_phl_stat, CmdSts, TypeOK
  <2>2. TypeOK'
    BY <1>6, <2>1 DEF _phl_cmd_wait, TouchObj, TypeOK, CmdSts, NoKind
  <2>3. DispInv'
    BY <1>6, <2>1 DEF _phl_cmd_wait, TouchObj, DispInv, TypeOK
  <2>4. CallerInv'
    BY <1>6, <2>1 DEF _phl_cmd_wait, TouchObj, TypeOK, DispInv, CallerInv,
       LeftToCallback, is_cmd_enqueue, CmdSts
  <2>5. ObjInv'
    BY <1>6, <2>1 DEF _phl_cmd_wait, TouchObj, TypeOK, DispInv, CallerInv, ObjInv,
       ObjectOutlives
  <2>6. BufInv'
    BY <1>6, <2>1 DEF _phl_cmd_wait, TouchObj, TypeOK, DispInv, CallerInv, BufInv,
       BuffersOutlive, LeftToCallback, is_cmd_enqueue, Refused, CmdSts, StatusInv
  <2>7. StatusInv'
    BY <1>6, <2>1 DEF _phl_cmd_wait, TouchObj, TypeOK, DispInv, CallerInv, BufInv,
       StatusInv, CmdSts
  <2> QED
    BY <2>2, <2>3, <2>4, <2>5, <2>6, <2>7
<1>7. ASSUME NEW c \in Cmd, IncRefCnt(c) PROVE IInv'
  <2>1. psts[c] # "failure" /\ pc[c] = "inc"
    BY <1>7 DEF IncRefCnt, CallerInv, LeftToCallback, is_cmd_enqueue
  <2>2. TypeOK'
    BY <1>7, <2>1 DEF IncRefCnt, TouchObj, TypeOK, CmdSts, NoKind, ObjInv
  <2>3. DispInv'
    BY <1>7, <2>1 DEF IncRefCnt, TouchObj, DispInv, TypeOK
  <2>4. CallerInv'
    BY <1>7, <2>1 DEF IncRefCnt, TouchObj, TypeOK, DispInv, CallerInv, LeftToCallback,
       is_cmd_enqueue
  <2>5. ObjInv'
    BY <1>7, <2>1 DEF IncRefCnt, TouchObj, TypeOK, DispInv, CallerInv, ObjInv,
       ObjectOutlives
  <2>6. BufInv'
    BY <1>7, <2>1 DEF IncRefCnt, TouchObj, TypeOK, BufInv, BuffersOutlive, Refused
  <2>7. StatusInv'
    BY <1>7, <2>1 DEF IncRefCnt, TouchObj, TypeOK, DispInv, CallerInv, BufInv, StatusInv
  <2> QED
    BY <2>2, <2>3, <2>4, <2>5, <2>6, <2>7
<1>8. ASSUME NEW c \in Cmd, CallerReturns(c) PROVE IInv'
  <2>1. TypeOK'
    BY ZenonT(40), <1>8 DEF CallerReturns, TouchBuf, TypeOK, CmdSts, NoKind
  <2>2. DispInv'
    BY <1>8 DEF CallerReturns, TouchBuf, DispInv, TypeOK
  <2>3. CallerInv'
    BY <1>8 DEF CallerReturns, TouchBuf, TypeOK, DispInv, CallerInv, LeftToCallback,
       is_cmd_enqueue
  <2>4. ObjInv'
    BY <1>8 DEF CallerReturns, TouchBuf, TypeOK, DispInv, CallerInv, ObjInv,
       ObjectOutlives
  <2>5. BufInv'
    BY <1>8 DEF CallerReturns, TouchBuf, TypeOK, DispInv, CallerInv, BufInv,
       BuffersOutlive, LeftToCallback, is_cmd_enqueue, Refused
  <2>6. StatusInv'
    BY <1>8 DEF CallerReturns, TouchBuf, TypeOK, DispInv, CallerInv, BufInv, StatusInv
  <2> QED
    BY <2>1, <2>2, <2>3, <2>4, <2>5, <2>6
<1>9. CASE TakeMsg
  <2>1. /\ cur' \in ToSet(queue) /\ cur' \in Cmd /\ queue' \in Seq(Cmd)
        /\ ToSet(queue') = ToSet(queue) \ {cur'} /\ IsInjective(queue')
        /\ \/ dpc' = "handler" /\ csts' = csts
           \/ csts' \in {"success", "drop"} /\ dpc' = "callback" /\ kind[cur'].wait = "no"
           \/ csts' \in {"success", "drop"} /\ dpc' = "status" /\ kind[cur'].wait # "no"
    BY <1>9, TailToSet DEF TakeMsg, TypeOK, DispInv, AfterHandler
  <2>2. TypeOK'
    BY <1>9, <2>1 DEF TakeMsg, TypeOK, CmdSts, NoKind
  <2>3. DispInv'
    BY <1>9, <2>1 DEF TakeMsg, DispInv, TypeOK
  <2>4. CallerInv'
    BY <1>9, <2>1 DEF TakeMsg, TypeOK, DispInv, CallerInv, LeftToCallback,
       is_cmd_enqueue
  <2>5. ObjInv'
    BY <1>9, <2>1 DEF TakeMsg, TypeOK, DispInv, CallerInv, ObjInv, ObjectOutlives
  <2>6. BufInv'
    BY <1>9, <2>1 DEF TakeMsg, TypeOK, DispInv, CallerInv, BufInv, BuffersOutlive,
       LeftToCallback, is_cmd_enqueue, Refused
  <2>7. StatusInv'
    BY <1>9, <2>1 DEF TakeMsg, TypeOK, DispInv, CallerInv, BufInv, StatusInv
  <2> QED
    BY <2>2, <2>3, <2>4, <2>5, <2>6, <2>7
<1>10. CASE _phl_cmd_general_msg_hdlr
  <2>1. cur \in Cmd /\ TouchBuf(cur) = {}
    BY <1>10 DEF _phl_cmd_general_msg_hdlr, AfterHandler, TouchBuf, TypeOK, DispInv, CallerInv,
       BufInv, NoKind
  <2>2. TypeOK'
    BY <1>10, <2>1 DEF _phl_cmd_general_msg_hdlr, AfterHandler, TouchObj, TouchBuf, TypeOK, CmdSts,
       NoKind
  <2>3. DispInv'
    BY <1>10, <2>1 DEF _phl_cmd_general_msg_hdlr, AfterHandler, TouchObj, TouchBuf, DispInv, TypeOK
  <2>4. CallerInv'
    BY <1>10, <2>1 DEF _phl_cmd_general_msg_hdlr, AfterHandler, TouchObj, TouchBuf, TypeOK, DispInv,
       CallerInv, LeftToCallback, is_cmd_enqueue
  <2>5. ObjInv'
    BY <1>10, <2>1 DEF _phl_cmd_general_msg_hdlr, AfterHandler, TouchObj, TouchBuf, TypeOK, DispInv,
       CallerInv, ObjInv, ObjectOutlives
  <2>6. BufInv'
    BY <1>10, <2>1 DEF _phl_cmd_general_msg_hdlr, AfterHandler, TouchObj, TypeOK, BufInv, BuffersOutlive, Refused
  <2>7. StatusInv'
    BY <1>10, <2>1 DEF _phl_cmd_general_msg_hdlr, AfterHandler, TouchObj, TouchBuf, TypeOK, DispInv,
       CallerInv, BufInv, StatusInv
  <2> QED
    BY <2>2, <2>3, <2>4, <2>5, <2>6, <2>7
<1>11. CASE _phl_cmd_done
  <2>1. TypeOK'
    BY <1>11 DEF _phl_cmd_done, TouchObj, TypeOK, CmdSts, NoKind
  <2>2. DispInv'
    BY <1>11 DEF _phl_cmd_done, TouchObj, DispInv, TypeOK
  <2>3. CallerInv'
    BY <1>11 DEF _phl_cmd_done, TouchObj, TypeOK, DispInv, CallerInv, LeftToCallback,
       is_cmd_enqueue
  <2>4. ObjInv'
    BY <1>11 DEF _phl_cmd_done, TouchObj, TypeOK, DispInv, CallerInv, ObjInv,
       ObjectOutlives
  <2>5. BufInv'
    BY <1>11 DEF _phl_cmd_done, TouchObj, TypeOK, DispInv, CallerInv, BufInv,
       BuffersOutlive, LeftToCallback, is_cmd_enqueue, Refused
  <2>6. StatusInv'
    BY <1>11 DEF _phl_cmd_done, TouchObj, TypeOK, DispInv, CallerInv, BufInv, StatusInv,
       _phl_cmd_chk_wating_status
  <2> QED
    BY <2>1, <2>2, <2>3, <2>4, <2>5, <2>6
<1>12. CASE _os_event_set
  <2>1. TypeOK'
    BY <1>12 DEF _os_event_set, TouchObj, TypeOK, CmdSts, NoKind
  <2>2. DispInv'
    BY <1>12 DEF _os_event_set, TouchObj, DispInv, TypeOK
  <2>3. CallerInv'
    BY <1>12 DEF _os_event_set, TouchObj, TypeOK, DispInv, CallerInv, LeftToCallback,
       is_cmd_enqueue
  <2>4. ObjInv'
    BY <1>12 DEF _os_event_set, TouchObj, TypeOK, DispInv, CallerInv, ObjInv,
       ObjectOutlives
  <2>5. BufInv'
    BY <1>12 DEF _os_event_set, TouchObj, TypeOK, DispInv, CallerInv, BufInv,
       BuffersOutlive, LeftToCallback, is_cmd_enqueue, Refused
  <2>6. StatusInv'
    BY <1>12 DEF _os_event_set, TouchObj, TypeOK, DispInv, CallerInv, BufInv, StatusInv
  <2> QED
    BY <2>1, <2>2, <2>3, <2>4, <2>5, <2>6
<1>13. CASE cmd_complete
  <2>1. csts \in CmdSts /\ _cmd_stat_2_phl_stat(csts) = csts
    BY <1>13 DEF cmd_complete, DispInv, _cmd_stat_2_phl_stat, CmdSts
  <2>2. TypeOK'
    BY <1>13, <2>1 DEF cmd_complete, TouchObj, TouchBuf, TypeOK, CmdSts, NoKind
  <2>3. DispInv'
    BY <1>13, <2>1 DEF cmd_complete, TouchObj, TouchBuf, DispInv, TypeOK
  <2>4. CallerInv'
    BY <1>13, <2>1 DEF cmd_complete, TouchObj, TouchBuf, TypeOK, DispInv, CallerInv,
       LeftToCallback, is_cmd_enqueue
  <2>5. ObjInv'
    BY <1>13, <2>1 DEF cmd_complete, TouchObj, TouchBuf, TypeOK, DispInv, CallerInv,
       ObjInv, ObjectOutlives
  <2>6. BufInv'
    BY <1>13, <2>1 DEF cmd_complete, TouchObj, TouchBuf, TypeOK, DispInv, CallerInv,
       BufInv, BuffersOutlive, LeftToCallback, is_cmd_enqueue, Refused
  <2>7. StatusInv'
    BY <1>13, <2>1 DEF cmd_complete, TouchObj, TouchBuf, TypeOK, DispInv, CallerInv,
       BufInv, StatusInv
  <2> QED
    BY <2>2, <2>3, <2>4, <2>5, <2>6, <2>7
<1>14. CASE PollRefCnt
  <2>1. TypeOK'
    BY <1>14 DEF PollRefCnt, TypeOK, CmdSts, NoKind
  <2>2. DispInv'
    BY <1>14 DEF PollRefCnt, DispInv, TypeOK
  <2>3. CallerInv'
    BY <1>14 DEF PollRefCnt, TypeOK, DispInv, CallerInv, LeftToCallback, is_cmd_enqueue
  <2>4. ObjInv'
    BY <1>14 DEF PollRefCnt, TypeOK, DispInv, CallerInv, ObjInv, ObjectOutlives
  <2>5. BufInv'
    BY <1>14 DEF PollRefCnt, TypeOK, DispInv, CallerInv, BufInv, BuffersOutlive,
       LeftToCallback, is_cmd_enqueue, Refused
  <2>6. StatusInv'
    BY <1>14 DEF PollRefCnt, TypeOK, DispInv, CallerInv, BufInv, StatusInv
  <2> QED
    BY <2>1, <2>2, <2>3, <2>4, <2>5, <2>6
<1>15. CASE PollGivesUp
  <2>1. TypeOK'
    BY <1>15 DEF PollGivesUp, TypeOK, CmdSts, NoKind
  <2>2. DispInv'
    BY <1>15 DEF PollGivesUp, DispInv, TypeOK
  <2>3. CallerInv'
    BY <1>15 DEF PollGivesUp, TypeOK, DispInv, CallerInv, LeftToCallback, is_cmd_enqueue
  <2>4. ObjInv'
    BY <1>15 DEF PollGivesUp, TypeOK, DispInv, CallerInv, ObjInv, ObjectOutlives
  <2>5. BufInv'
    BY <1>15 DEF PollGivesUp, TypeOK, DispInv, CallerInv, BufInv, BuffersOutlive,
       LeftToCallback, is_cmd_enqueue, Refused
  <2>6. StatusInv'
    BY <1>15 DEF PollGivesUp, TypeOK, DispInv, CallerInv, BufInv, StatusInv
  <2> QED
    BY <2>1, <2>2, <2>3, <2>4, <2>5, <2>6
<1>16. CASE _phl_cmd_obj_free
  <2>1. TypeOK'
    BY <1>16 DEF _phl_cmd_obj_free, TouchObj, TypeOK, CmdSts, NoKind
  <2>2. DispInv'
    BY <1>16, ToSetType DEF _phl_cmd_obj_free, TouchObj, DispInv, TypeOK
  <2>3. CallerInv'
    BY <1>16 DEF _phl_cmd_obj_free, TouchObj, TypeOK, DispInv, CallerInv,
       LeftToCallback, is_cmd_enqueue
  <2>4. ObjInv'
    BY <1>16 DEF _phl_cmd_obj_free, TouchObj, TypeOK, DispInv, CallerInv, ObjInv,
       ObjectOutlives
  <2>5. BufInv'
    BY <1>16 DEF _phl_cmd_obj_free, TouchObj, TypeOK, DispInv, CallerInv, BufInv,
       BuffersOutlive, LeftToCallback, is_cmd_enqueue, Refused
  <2>6. StatusInv'
    BY <1>16 DEF _phl_cmd_obj_free, TouchObj, TypeOK, DispInv, CallerInv, BufInv,
       StatusInv
  <2> QED
    BY <2>1, <2>2, <2>3, <2>4, <2>5, <2>6
<1>17. ASSUME NEW c \in Cmd, dispr_send_msg(c) PROVE IInv'
  <2>2. TypeOK'
    BY <1>17 DEF dispr_send_msg, TypeOK, CmdSts, NoKind
  <2>3. DispInv'
    BY <1>17 DEF dispr_send_msg, DispInv, TypeOK
  <2>4. CallerInv'
    BY <1>17 DEF dispr_send_msg, TypeOK, DispInv, CallerInv, LeftToCallback, is_cmd_enqueue
  <2>5. ObjInv'
    BY <1>17 DEF dispr_send_msg, TypeOK, DispInv, CallerInv, ObjInv, ObjectOutlives
  <2>6. BufInv'
    BY <1>17 DEF dispr_send_msg, TypeOK, BufInv, BuffersOutlive, Refused
  <2>7. StatusInv'
    BY <1>17 DEF dispr_send_msg, TypeOK, DispInv, CallerInv, BufInv, StatusInv
  <2> QED
    BY <2>2, <2>3, <2>4, <2>5, <2>6, <2>7
<1>18. CASE push_back_pending_msg
  <2>1. cur \in Cmd /\ cur # None /\ TouchBuf(cur) = {} /\ TouchObj(cur) = {}
    BY <1>18 DEF push_back_pending_msg, TouchObj, TouchBuf, TypeOK, DispInv, CallerInv,
       ObjInv, BufInv, NoKind
  <2>2. TypeOK'
    BY <1>18, <2>1 DEF push_back_pending_msg, TypeOK, CmdSts, NoKind
  <2>3. DispInv'
    <3>1. None \notin ToSet(queue) /\ None \notin pend
      BY ToSetType DEF TypeOK
    <3> QED
      BY <1>18, <2>1, <3>1 DEF push_back_pending_msg, DispInv, TypeOK
  <2>4. CallerInv'
    BY <1>18, <2>1 DEF push_back_pending_msg, TypeOK, DispInv, CallerInv, LeftToCallback, is_cmd_enqueue
  <2>5. ObjInv'
    BY <1>18, <2>1 DEF push_back_pending_msg, TypeOK, DispInv, CallerInv, ObjInv, ObjectOutlives
  <2>6. BufInv'
    BY <1>18, <2>1 DEF push_back_pending_msg, TypeOK, BufInv, BuffersOutlive, Refused
  <2>7. StatusInv'
    BY <1>18, <2>1 DEF push_back_pending_msg, TypeOK, DispInv, CallerInv, BufInv, StatusInv
  <2> QED
    BY <2>2, <2>3, <2>4, <2>5, <2>6, <2>7
<1>19. CASE RequeuePended
  <2>1. PICK c \in pend : queue' = Append(queue, c) /\ pend' = pend \ {c}
    BY <1>19 DEF RequeuePended
  <2>a. /\ c \in Cmd /\ queue' \in Seq(Cmd)
        /\ ToSet(queue') = ToSet(queue) \cup {c} /\ IsInjective(queue')
    BY <2>1, AppendToSet DEF TypeOK, DispInv
  <2>b. UNCHANGED <<dispr, dpc, cur, csts, caller, obj, buf, status, done, ref_cnt, told, gaveup,
                    bad>>
    BY <1>19 DEF RequeuePended
  <2>2. TypeOK'
    BY <2>1, <2>a, <2>b DEF TypeOK, CmdSts, NoKind
  <2>3. DispInv'
    BY <2>1, <2>a, <2>b DEF DispInv, TypeOK
  <2>4. CallerInv'
    BY <2>1, <2>a, <2>b DEF TypeOK, DispInv, CallerInv, LeftToCallback, is_cmd_enqueue
  <2>5. ObjInv'
    BY <2>1, <2>a, <2>b DEF TypeOK, DispInv, CallerInv, ObjInv, ObjectOutlives
  <2>6. BufInv'
    BY <2>1, <2>a, <2>b DEF TypeOK, BufInv, BuffersOutlive, Refused
  <2>7. StatusInv'
    BY <2>1, <2>a, <2>b DEF TypeOK, DispInv, CallerInv, BufInv, StatusInv
  <2> QED
    BY <2>2, <2>3, <2>4, <2>5, <2>6, <2>7
<1>20. CASE StopPrior \/ dispr_thread_leave_hdl
  <2>1. /\ dispr' \in {"started", "stopping", "left"}
        /\ UNCHANGED <<queue, pend, dpc, cur, csts, caller, obj, buf, status, done, ref_cnt,
                       told, gaveup, bad>>
    BY <1>20 DEF StopPrior, dispr_thread_leave_hdl
  <2>2. TypeOK' /\ DispInv' /\ CallerInv'
    BY <2>1 DEF TypeOK, DispInv, CallerInv, LeftToCallback
  <2>3. ObjInv' /\ BufInv' /\ StatusInv'
    BY <2>1 DEF ObjInv, BufInv, StatusInv, ObjectOutlives, BuffersOutlive, Refused
  <2> QED
    BY <2>2, <2>3
<1>21. CASE UNCHANGED vars
  BY <1>21 DEF vars, TypeOK, DispInv, CallerInv, ObjInv, BufInv, StatusInv, ObjectOutlives,
     BuffersOutlive, LeftToCallback, Refused
<1> QED
  BY <1>1, <1>2, <1>3, <1>4, <1>5, <1>6, <1>7, <1>8, <1>9, <1>10, <1>11, <1>12, <1>13, <1>14, <1>15, <1>16,
     <1>17, <1>18, <1>19, <1>20, <1>21 DEF Next, CallerStep, _phl_cmd_complete

(* The object and the buffer of a command outlive every use the caller and *)
(* the dispatcher make of them, and the buffer is gone in the end, for any *)
(* number of callers that wait for ever, for a time or not at all.         *)
THEOREM SharedMemorySafe == Spec => []SharingInv
<1>1. IInv => SharingInv
  BY DEF IInv, SharingInv, ObjInv, BufInv, CallerInv, NoBufferLeft, Has, Queued, Refused, TypeOK, ToSet
<1> QED
  BY GeneralInit, GeneralStep, <1>1, PTL DEF Spec

(* The caller and its callback are told the same, unless time was up.      *)
THEOREM SameVerdict == Spec => []VerdictsAgree
<1>1. IInv => VerdictsAgree
  BY DEF IInv, StatusInv, VerdictsAgree, is_cmd_enqueue, None
<1> QED
  BY GeneralInit, GeneralStep, <1>1, PTL DEF Spec

=============================================================================
