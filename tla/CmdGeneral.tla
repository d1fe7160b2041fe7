------------------------------ MODULE CmdGeneral ------------------------------
(***************************************************************************)
(* Commands of the general module (phl/phl_cmd_general.c).  A caller wraps *)
(* a command into a phl_cmd_obj and sends it as a message; the dispatcher  *)
(* runs its handler and then _phl_cmd_complete, which tells the caller,    *)
(* calls the caller's callback, waits until the caller has let go of the   *)
(* object, and frees it.  The caller may wait for ever, for a time, or not *)
(* at all.                                                                 *)
(*                                                                         *)
(* Of the dispatcher there is what a command meets: it takes messages one  *)
(* by one, a module may pend them (SER does), a stop completes what is     *)
(* left, and a message linked after its thread has left is never taken.    *)
(* How it gets there is module DisprMsg.  A command c stands for its       *)
(* caller as well.                                                         *)
(***************************************************************************)
EXTENDS Naturals, Sequences, FiniteSets

CONSTANTS
    Cmd,        \* the commands
    Kinds       \* what callers ask for: [wait : Waits, buf : Bufs]

Waits == {"no", "forever", "timed"}

(* Where cmd_buf lies: on the heap, with a callback that frees it, in the   *)
(* frame of the caller, or nowhere.                                         *)
Bufs == {"heap", "frame", "null"}

(* NULL *)
None == "none"

ASSUME CmdGeneralAssumption ==
    /\ Kinds \subseteq [wait : Waits, buf : Bufs]
    /\ \A k \in Kinds : k.buf = "frame" => k.wait = "forever"
    /\ None \notin Cmd

VARIABLES
    dispr,      \* the dispatcher: DISPR_STARTED, stopping, or its thread has left
    queue, pend,  \* its messages that wait, and those that are pended
    dpc, cur,   \* where its thread is, and the command of the message in work
    csts,       \* csts of _phl_cmd_complete
    kind,       \* of each command: what its caller asked for,
    obj, buf,   \* the memory of the phl_cmd_obj and of cmd_buf,
    status,     \* cmd_sync.sync.status,
    done,       \* cmd_sync.sync.done has been set,
    ref_cnt,    \* ref_cnt,
    pc, psts,   \* where the caller is, and psts of phl_cmd_enqueue,
    told,       \* and the status its callback was given
    gaveup,     \* history: a caller was not waited for any longer
    bad         \* history: accesses to memory that is gone

caller == <<kind, pc, psts>>
disp == <<dispr, queue, pend, dpc, cur, csts>>
vars == <<disp, caller, obj, buf, status, done, ref_cnt, told, gaveup, bad>>

NoKind == [wait |-> "no", buf |-> "null"]
CmdSts == {"submitted", "success", "timeout", "error", "drop", "cannot_io"}

TypeOK ==
    /\ dispr \in {"started", "stopping", "left"}
    /\ queue \in Seq(Cmd) /\ pend \subseteq Cmd
    /\ dpc \in {"idle", "handler", "status", "event", "callback", "poll", "free"}
    /\ cur \in Cmd \cup {None}
    /\ csts \in CmdSts \cup {None}
    /\ kind \in [Cmd -> Kinds \cup {NoKind}]
    /\ obj \in [Cmd -> {"none", "live", "freed"}]
    /\ buf \in [Cmd -> {"none", "live", "freed"}]
    /\ status \in [Cmd -> CmdSts \cup {None}]
    /\ done \in [Cmd -> BOOLEAN]
    /\ ref_cnt \in [Cmd -> 0..1]
    /\ pc \in [Cmd -> {"idle", "send", "link", "wait", "timeout", "read", "inc",
                        "own", "returned"}]
    /\ psts \in [Cmd -> CmdSts \cup {None, "ok", "failure"}]
    /\ told \in [Cmd -> CmdSts \cup {None}]
    /\ gaveup \in BOOLEAN
    /\ bad \subseteq {"object", "buffer", "frame"}

Init ==
    /\ dispr = "started" /\ queue = <<>> /\ pend = {} /\ dpc = "idle" /\ cur = None /\ csts = None
    /\ kind = [c \in Cmd |-> NoKind]
    /\ obj = [c \in Cmd |-> "none"]
    /\ buf = [c \in Cmd |-> "none"]
    /\ status = [c \in Cmd |-> None]
    /\ done = [c \in Cmd |-> FALSE]
    /\ ref_cnt = [c \in Cmd |-> 0]
    /\ pc = [c \in Cmd |-> "idle"]
    /\ psts = [c \in Cmd |-> None]
    /\ told = [c \in Cmd |-> None]
    /\ gaveup = FALSE /\ bad = {}

(* Accesses to the object, and to the buffer, of a command. *)
TouchObj(c) == IF obj[c] = "live" THEN {} ELSE {"object"}
TouchBuf(c) ==
    IF kind[c].buf = "heap" /\ buf[c] # "live" THEN {"buffer"}
    ELSE IF kind[c].buf = "frame" /\ pc[c] = "returned" THEN {"frame"} ELSE {}

(* _phl_cmd_chk_wating_status *)
_phl_cmd_chk_wating_status(s) == s = "submitted"

_cmd_stat_2_phl_stat(s) ==
    IF s \in {"timeout", "cannot_io", "error", "drop"} THEN s ELSE "success"

(* is_cmd_enqueue: the dispatcher had the command. *)
is_cmd_enqueue(s) == s \in {"success", "timeout", "error", "drop", "cannot_io"}
-----------------------------------------------------------------------------
(* The callers *)

(* A caller has its buffer, and phl_cmd_enqueue makes the object. *)
phl_cmd_enqueue(c) ==
    /\ pc[c] = "idle"
    /\ \E k \in Kinds :
        /\ kind' = [kind EXCEPT ![c] = k]
        /\ buf' = [buf EXCEPT ![c] = IF k.buf = "heap" THEN "live" ELSE @]
        /\ obj' = [obj EXCEPT ![c] = "live"]
        /\ status' = [status EXCEPT ![c] = IF k.wait = "no" THEN @ ELSE "submitted"]
    /\ pc' = [pc EXCEPT ![c] = "send"]
    /\ UNCHANGED <<disp, psts, done, ref_cnt, told, gaveup, bad>>

(* phl_disp_eng_send_msg (dispr_send_msg): DISPR_STARTED is tested, *)
dispr_send_msg(c) ==
    /\ pc[c] = "send"
    /\ dispr = "started"
    /\ pc' = [pc EXCEPT ![c] = "link"]
    /\ UNCHANGED <<disp, kind, psts, obj, buf, status, done, ref_cnt, told, gaveup, bad>>

(* and later a message entry is taken and linked, whatever has become of   *)
(* the dispatcher; the leave handler waits for an entry in a caller's hand, *)
(* so that the two are one step;                                           *)
SendMsg(c) ==
    /\ pc[c] = "link"
    /\ queue' = Append(queue, c)
    /\ IF kind[c].wait = "no"
         THEN psts' = [psts EXCEPT ![c] = "ok"] /\ pc' = [pc EXCEPT ![c] = "own"]
         ELSE pc' = [pc EXCEPT ![c] = "wait"] /\ UNCHANGED psts
    /\ UNCHANGED <<dispr, pend, dpc, cur, csts, kind, obj, buf, status, done, ref_cnt, told,
                   gaveup, bad>>

(* or it fails, and the object is freed: the dispatcher is not started, the *)
(* module is not loaded any more, or no message entry is idle.  The same   *)
(* answer stands for no memory.                                            *)
SendMsgFails(c) ==
    /\ pc[c] \in {"send", "link"}
    /\ obj' = [obj EXCEPT ![c] = "freed"]
    /\ psts' = [psts EXCEPT ![c] = "failure"]
    /\ pc' = [pc EXCEPT ![c] = "own"]
    /\ UNCHANGED <<disp, kind, buf, status, done, ref_cnt, told, gaveup, bad>>

(* _phl_cmd_wait: the event, *)
_os_event_wait(c) ==
    /\ pc[c] = "wait"
    /\ \/ done[c] /\ pc' = [pc EXCEPT ![c] = "read"]
       \/ kind[c].wait = "timed" /\ pc' = [pc EXCEPT ![c] = "timeout"]
    /\ bad' = bad \cup TouchObj(c)
    /\ UNCHANGED <<disp, kind, psts, obj, buf, status, done, ref_cnt, told, gaveup>>

(* the status of a wait that timed out, whatever it is by now, *)
SetTimeout(c) ==
    /\ pc[c] = "timeout"
    /\ status' = [status EXCEPT ![c] = "timeout"]
    /\ pc' = [pc EXCEPT ![c] = "read"]
    /\ bad' = bad \cup TouchObj(c)
    /\ UNCHANGED <<disp, kind, psts, obj, buf, done, ref_cnt, told, gaveup>>

(* the status, *)
_phl_cmd_wait(c) ==
    /\ pc[c] = "read"
    /\ psts' = [psts EXCEPT ![c] = _cmd_stat_2_phl_stat(status[c])]
    /\ pc' = [pc EXCEPT ![c] = "inc"]
    /\ bad' = bad \cup TouchObj(c)
    /\ UNCHANGED <<disp, kind, obj, buf, status, done, ref_cnt, told, gaveup>>

(* and the count that lets go of the object. *)
IncRefCnt(c) ==
    /\ pc[c] = "inc"
    /\ ref_cnt' = [ref_cnt EXCEPT ![c] = @ + 1]
    /\ pc' = [pc EXCEPT ![c] = "own"]
    /\ bad' = bad \cup TouchObj(c)
    /\ UNCHANGED <<disp, kind, psts, obj, buf, status, done, told, gaveup>>

(* The test of every caller before it frees a buffer the dispatcher never had. *)
LeftToCallback(c) == is_cmd_enqueue(psts[c]) \/ psts[c] = "ok"

CallerReturns(c) ==
    /\ pc[c] = "own"
    /\ pc' = [pc EXCEPT ![c] = "returned"]
    /\ IF kind[c].buf = "heap" /\ ~LeftToCallback(c)
         THEN buf' = [buf EXCEPT ![c] = "freed"] /\ bad' = bad \cup TouchBuf(c)
         ELSE UNCHANGED <<buf, bad>>
    /\ UNCHANGED <<disp, kind, psts, obj, status, done, ref_cnt, told, gaveup>>
-----------------------------------------------------------------------------
(* The dispatcher *)

AfterHandler(c) == IF kind[c].wait = "no" THEN "callback" ELSE "status"

(* dispr_thread_loop_hdl takes a message; once DISPR_STARTED is cleared it  *)
(* is given back at once (is_msg_canceled, clear_waiting_msg) and, unless   *)
(* it was canceled, without a mark.                                         *)
TakeMsg ==
    /\ dpc = "idle" /\ queue # <<>>
    /\ dispr # "left"
    /\ cur' = Head(queue)
    /\ queue' = Tail(queue)
    /\ IF dispr = "started"
         THEN dpc' = "handler" /\ UNCHANGED csts
         ELSE dpc' = AfterHandler(cur') /\ csts' \in {"success", "drop"}
    /\ UNCHANGED <<dispr, pend, caller, obj, buf, status, done, ref_cnt, told, gaveup, bad>>

(* The message is cancelled, cannot be carried out or has failed elsewhere; or *)
(* _phl_cmd_general_msg_hdlr runs the handler, which reads the buffer and      *)
(* succeeds or fails.  Then csts is what the marks of the message say.         *)
_phl_cmd_general_msg_hdlr ==
    /\ dpc = "handler"
    /\ \/ csts' \in {"drop", "cannot_io", "error"} /\ bad' = bad \cup TouchObj(cur)
       \/ csts' \in {"success", "error"} /\ bad' = bad \cup TouchObj(cur) \cup TouchBuf(cur)
    /\ dpc' = AfterHandler(cur)
    /\ UNCHANGED <<dispr, queue, pend, cur, caller, obj, buf, status, done, ref_cnt, told,
                   gaveup>>

(* Another module answers MDL_RET_PENDING, before the handler has run or   *)
(* after it, *)
push_back_pending_msg ==
    /\ dpc = "handler"
    /\ pend' = pend \cup {cur}
    /\ bad' \in {bad, bad \cup TouchObj(cur) \cup TouchBuf(cur)}
    /\ dpc' = "idle" /\ cur' = None
    /\ UNCHANGED <<dispr, queue, csts, caller, obj, buf, status, done, ref_cnt, told, gaveup>>

(* and has it retried (clear_pending_msg) when it pleases; a thread that    *)
(* leaves takes the pended messages back (clear_waiting_msg).               *)
RequeuePended ==
    /\ dpc = "idle" /\ dispr # "left"
    /\ \E c \in pend : queue' = Append(queue, c) /\ pend' = pend \ {c}
    /\ UNCHANGED <<dispr, dpc, cur, csts, caller, obj, buf, status, done, ref_cnt, told, gaveup,
                   bad>>

(* dispr_thread_stop_prior_hdl, at any moment, ... *)
StopPrior ==
    /\ dispr = "started"
    /\ dispr' = "stopping"
    /\ UNCHANGED <<queue, pend, dpc, cur, csts, caller, obj, buf, status, done, ref_cnt, told,
                   gaveup, bad>>

(* ... and dispr_thread_leave_hdl has returned: all entries are idle. *)
dispr_thread_leave_hdl ==
    /\ dispr = "stopping" /\ dpc = "idle"
    /\ queue = <<>> /\ pend = {}
    /\ dispr' = "left"
    /\ UNCHANGED <<queue, pend, dpc, cur, csts, caller, obj, buf, status, done, ref_cnt, told,
                   gaveup, bad>>

(* Mutant: the test the wrong way round. *)
DoneUnlessWaiting ==
    /\ dpc = "status"
    /\ status' = [status EXCEPT ![cur] = IF _phl_cmd_chk_wating_status(@) THEN @ ELSE csts]
    /\ bad' = bad \cup TouchObj(cur)
    /\ dpc' = "event"
    /\ UNCHANGED <<dispr, queue, pend, cur, csts, caller, obj, buf, done, ref_cnt,
                   told, gaveup>>

(* _phl_cmd_done: the status, unless the caller has given up, *)
_phl_cmd_done ==
    /\ dpc = "status"
    /\ status' = [status EXCEPT ![cur] = IF _phl_cmd_chk_wating_status(@) THEN csts ELSE @]
    /\ bad' = bad \cup TouchObj(cur)
    /\ dpc' = "event"
    /\ UNCHANGED <<dispr, queue, pend, cur, csts, caller, obj, buf, done, ref_cnt,
                   told, gaveup>>

(* Mutant: only success wakes the caller. *)
EventOnSuccess ==
    /\ dpc = "event"
    /\ done' = [done EXCEPT ![cur] = csts = "success"]
    /\ bad' = bad \cup TouchObj(cur)
    /\ dpc' = "callback"
    /\ UNCHANGED <<dispr, queue, pend, cur, csts, caller, obj, buf, status, ref_cnt,
                   told, gaveup>>

(* and the event. *)
_os_event_set ==
    /\ dpc = "event"
    /\ done' = [done EXCEPT ![cur] = TRUE]
    /\ bad' = bad \cup TouchObj(cur)
    /\ dpc' = "callback"
    /\ UNCHANGED <<dispr, queue, pend, cur, csts, caller, obj, buf, status, ref_cnt,
                   told, gaveup>>

(* cmd_complete: the callback of a buffer on the heap frees it. *)
cmd_complete ==
    /\ dpc = "callback"
    /\ told' = [told EXCEPT ![cur] = _cmd_stat_2_phl_stat(csts)]
    /\ buf' = [buf EXCEPT ![cur] = IF kind[cur].buf = "heap" THEN "freed" ELSE @]
    /\ bad' = bad \cup TouchObj(cur) \cup IF kind[cur].buf = "heap" THEN TouchBuf(cur) ELSE {}
    /\ dpc' = IF kind[cur].wait = "no" THEN "free" ELSE "poll"
    /\ UNCHANGED <<dispr, queue, pend, cur, csts, caller, obj, status, done, ref_cnt,
                   gaveup>>

(* Mutant: the caller is not waited for. *)
PollNot ==
    /\ dpc = "poll"
    /\ dpc' = "free"
    /\ UNCHANGED <<dispr, queue, pend, cur, csts, caller, obj, buf, status, done,
                   ref_cnt, told, gaveup, bad>>

(* The caller has let go, *)
PollRefCnt ==
    /\ dpc = "poll" /\ ref_cnt[cur] = 1
    /\ dpc' = "free"
    /\ UNCHANGED <<dispr, queue, pend, cur, csts, caller, obj, buf, status, done,
                   ref_cnt, told, gaveup, bad>>

(* or has not for PHL_MAX_SCHEDULE_TIMEOUT. *)
PollGivesUp ==
    /\ dpc = "poll" /\ ref_cnt[cur] # 1
    /\ gaveup' = TRUE
    /\ dpc' = "free"
    /\ UNCHANGED <<dispr, queue, pend, cur, csts, caller, obj, buf, status, done,
                   ref_cnt, told, bad>>

_phl_cmd_obj_free ==
    /\ dpc = "free"
    /\ obj' = [obj EXCEPT ![cur] = "freed"]
    /\ bad' = bad \cup TouchObj(cur)
    /\ dpc' = "idle" /\ cur' = None /\ csts' = None
    /\ UNCHANGED <<dispr, queue, pend, caller, buf, status, done, ref_cnt, told, gaveup>>
-----------------------------------------------------------------------------
CallerStep(c) ==
    \/ dispr_send_msg(c) \/ SendMsg(c) \/ SendMsgFails(c) \/ _os_event_wait(c)
    \/ SetTimeout(c) \/ _phl_cmd_wait(c) \/ IncRefCnt(c) \/ CallerReturns(c)

_phl_cmd_complete ==
    \/ _phl_cmd_done \/ _os_event_set \/ cmd_complete \/ PollRefCnt \/ _phl_cmd_obj_free

Next ==
    \/ \E c \in Cmd : phl_cmd_enqueue(c) \/ CallerStep(c)
    \/ TakeMsg \/ _phl_cmd_general_msg_hdlr \/ _phl_cmd_complete \/ PollGivesUp
    \/ push_back_pending_msg \/ RequeuePended \/ StopPrior \/ dispr_thread_leave_hdl

Spec == Init /\ [][Next]_vars

(* A caller that has begun goes on, and the dispatcher's thread runs; that a *)
(* caller is kept from running for 100 s is possible and never owed, and so  *)
(* is the retry of a pended message before a stop.                           *)
Fairness ==
    /\ \A c \in Cmd : WF_vars(CallerStep(c))
    /\ WF_vars(TakeMsg \/ _phl_cmd_general_msg_hdlr \/ _phl_cmd_complete)
    /\ WF_vars(dispr = "stopping" /\ RequeuePended)

FairSpec == Spec /\ Fairness
-----------------------------------------------------------------------------
(* Properties *)

(* The object is shared by the caller and the dispatcher, whichever ends    *)
(* first: nobody uses it after it is freed, unless the caller was off the   *)
(* processor for so long that _phl_cmd_complete stopped waiting for it.     *)
ObjectOutlives == "object" \in bad => gaveup

(* The handler and the callback find the buffer: it is freed at most once,  *)
(* by the callback or by the caller, and a caller whose buffer lies in its  *)
(* frame has not returned.                                                  *)
BuffersOutlive == bad \cap {"buffer", "frame"} = {}

(* A buffer on the heap is freed by someone: after a command that was not   *)
(* sent, that failed, was dropped or timed out as well as after one that    *)
(* succeeded.                                                               *)
NoBufferLeft ==
    \A c \in Cmd :
        (pc[c] = "returned" /\ cur # c /\ c \notin pend /\ \A i \in 1..Len(queue) : queue[i] # c)
            => buf[c] # "live"

(* What the caller and the dispatcher share, the object and the buffer, is   *)
(* there as long as one of them uses it, and then it is gone.               *)
SharingInv == TypeOK /\ ObjectOutlives /\ BuffersOutlive /\ NoBufferLeft

(* What the caller is told and what its callback is told agree, unless the  *)
(* caller was told that time was up.                                        *)
VerdictsAgree ==
    \A c \in Cmd :
        (is_cmd_enqueue(psts[c]) /\ psts[c] # "timeout" /\ told[c] # None) => psts[c] = told[c]

(* A caller that waits, for ever too, is answered, also by a stop, and      *)
(* completing a command never waits for a caller that waits for another     *)
(* one; unless its message is pended for ever or time and again, or it was  *)
(* linked after the dispatcher's thread had left, when nobody completes it  *)
(* and a wait without a time limit does not end.                            *)
Stranded(c) ==
    /\ dispr = "left" /\ kind[c].wait = "forever"
    /\ \E i \in 1..Len(queue) : queue[i] = c
WaitersReturn ==
    \A c \in Cmd :
        []<>(c \in pend) \/ (pc[c] = "wait" ~> (pc[c] = "returned" \/ Stranded(c)))
=============================================================================
