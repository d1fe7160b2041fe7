------------------------------ MODULE DisprMsg ------------------------------
(***************************************************************************)
(* The messages of one PHL command dispatcher (phl_cmd_dispatcher.c).  Any *)
(* thread sends a message by filling an entry of msg_ex_pool and linking   *)
(* it to msg_wait_q; the background (share) thread pops one message per    *)
(* wakeup and hands it to the controller, then to the modules of its       *)
(* premap (mandatory, optional, role) and of its postmap (role, optional,  *)
(* mandatory), then to the foreground request, and gives the entry back.   *)
(*                                                                         *)
(* The foreground token is abstracted to the state of cur_cmd_req (its     *)
(* protocol is module DisprToken).  Cpu is as there: with "nopreempt" a    *)
(* thread is switched only in sema_down and inside callbacks, with         *)
(* "preempt" a thread can be preempted between any two steps.              *)
(***************************************************************************)
EXTENDS Integers, FiniteSets, SequencesExt, Lists

CONSTANTS
    NMsg,      \* MAX_PHL_MSG_NUM, entries of msg_ex_pool
    Sender,    \* threads that call the message API
    ModuleQ,   \* the background modules in the order of their registration
    Prio,      \* their priority: 0 role, 1 optional, 2 mandatory
    Ctrl, Fg,  \* message sources: the controller, the foreground command
    Kinds,     \* messages that the senders send
    LowEvt,    \* events whose id is below PHL_BK_MDL_ROLE_START
    Cpu,       \* "nopreempt" or "preempt"
    Calls,     \* what the environment does besides sending
    Rets,      \* what the modules answer
    MaxMsg, MaxCall, MaxTok, MaxPend,   \* bounds: messages, other calls,
               \* token operations, answers MDL_RET_PENDING
    None

Slot == 1..NMsg
Msg == 1..MaxMsg
Mdl == ToSet(ModuleQ)
Source == Mdl \cup {Ctrl, Fg}

Flag == {"ENQ", "RUN", "COMPLETE", "CANCEL", "PRE", "FAIL", "OWNER_BK", "OWNER_REQ",
         "CLR_SNDR", "PENDING", "PEND_IO"}
SpecialEvt == {"CANNOT_IO", "RESUME_IO", "PHY_ON", "PHY_IDLE"}
Evt == SpecialEvt \cup {"e1", "e2"}

(* msg_id and the attributes: MSG_OPT_SKIP_NOTIFY_OPT_MDL, _BLIST_PRESENT,  *)
(* notify.id_arr, and the flags that come from the other options.          *)
Kind == [src : Source, evt : Evt, skip : BOOLEAN, black : BOOLEAN, list : SUBSET Mdl,
         opt : SUBSET {"COMPLETE", "CLR_SNDR", "PEND_IO"}]
IoKind(evt) == [src |-> Ctrl, evt |-> evt, skip |-> FALSE, black |-> FALSE,
                list |-> {}, opt |-> {}]
Blank == IoKind("RESUME_IO")     \* of an entry or a sender without a message

ASSUME MsgConstAssumption ==
    /\ NMsg \in Nat \ {0} /\ IsFiniteSet(Sender)
    /\ ModuleQ \in Seq(Mdl) /\ Prio \in [Mdl -> 0..2]
    /\ Ctrl \notin Mdl /\ Fg \notin Mdl /\ Ctrl # Fg
    /\ Kinds \subseteq Kind
    /\ Cpu \in {"nopreempt", "preempt"}
    /\ Calls \subseteq {"cancel", "clr", "io", "stop"}
    /\ Rets \subseteq {"ok", "fail", "pending"}
    /\ MaxMsg \in Nat /\ MaxCall \in Nat /\ MaxTok \in Nat /\ MaxPend \in Nat
    /\ None \notin Slot /\ None \notin Source /\ None \notin Evt

VARIABLES
    ex,         \* msg_ex_pool: status, number (0: none), kind, premap and postmap
                \* of each entry; history: modules it is for, <<module, phase>> handled
    idleQ, waitQ, pendQ,
    dispr,      \* struct cmd_dispatcher: DISPR_STARTED and CTRL_PRESENT, CLR_PEND_MSG,
                \* CANNOT_IO, exclusive_mdl, pending_evt_id of each source, bitmap,
                \* cur_cmd_req (none, run, cxl: CANCEL is set, ended: RUN is cleared,
                \* permit: LAST_PERMIT), lengths of token_req_wait_q and token_op_q
    sema,       \* msg_q_sema of the engine
    epc,        \* the thread that stops the engine
    bk,         \* the background thread
    snd,        \* the senders
    hist        \* what the bounds count, completions called for each message,
                \* messages with a completion routine, messages that got a buffer
                \* after the thread had left

vars == <<ex, idleQ, waitQ, pendQ, dispr, sema, epc, bk, snd, hist>>

BkPc == {"wait", "clr", "clrloop", "ops", "proc", "acq", "dereg", "permit", "abort", "pop",
         "chk", "redir", "walk", "feed", "hdl", "reqhdl", "compl", "recyc", "leave", "clrmsg",
         "done"}
EnginePc == {"up", "mdlstop", "cxlrun", "threadstop", "join", "off"}
SndPc == {"idle", "pop", "push", "up", "excl", "clr", "cxlpre", "cxlpost", "cxlset"}

(* struct phl_dispr_msg_ex and what is kept of it. *)
MsgEx == [st : SUBSET Flag, mid : 0..MaxMsg, kind : Kind,
          pre : SUBSET Mdl, post : SUBSET Mdl, want : SUBSET Mdl,
          got : SUBSET (Source \X {"pre", "post"})]
Dispatcher == [started : BOOLEAN, clrPend : BOOLEAN, cannotIo : BOOLEAN,
               excl : Source \cup {None}, pendEvt : [Source -> Evt \cup {None}],
               bitmap : SUBSET Mdl, cur : {"none", "run", "cxl", "ended", "permit"},
               waitReq : Nat, tokOps : Nat]
BkState == [pc : BkPc, msg : Slot \cup {None}, ph : {"ctrl", "pre", "mid", "end"},
            todo : Seq((Mdl \cup {Ctrl}) \X BOOLEAN), notify : BOOLEAN,
            next : {"ops", "permit"}, leaving : BOOLEAN]
SndState == [pc : SndPc, kind : Kind, slot : Slot \cup {None}, own : BOOLEAN,
             next : {"keep", "drop", "clr"}]
History == [nmsg : 0..MaxMsg, ncall : 0..MaxCall, ntok : 0..MaxTok, npend : 0..MaxPend,
            done : [Msg -> Nat], owed : SUBSET Msg, late : SUBSET Msg]

TypeOK ==
    /\ ex \in [Slot -> MsgEx]
    /\ idleQ \in Seq(Slot) /\ waitQ \in Seq(Slot) /\ pendQ \in Seq(Slot)
    /\ dispr \in Dispatcher
    /\ sema \in Nat
    /\ epc \in EnginePc
    /\ bk \in BkState
    /\ snd \in [Sender -> SndState]
    /\ hist \in History

(* dispr_init, dispr_start and dispr_module_start. *)
Init ==
    /\ ex = [s \in Slot |-> [st |-> {}, mid |-> 0, kind |-> Blank, pre |-> {}, post |-> {},
                             want |-> {}, got |-> {}]]
    /\ idleQ = [i \in 1..NMsg |-> i] /\ waitQ = <<>> /\ pendQ = <<>>
    /\ dispr = [started |-> TRUE, clrPend |-> FALSE, cannotIo |-> FALSE, excl |-> None,
                pendEvt |-> [m \in Source |-> None], bitmap |-> Mdl, cur |-> "none",
                waitReq |-> 0, tokOps |-> 0]
    /\ sema = 0 /\ epc = "up"
    /\ bk = [pc |-> "wait", msg |-> None, ph |-> "ctrl", todo |-> <<>>, notify |-> FALSE,
             next |-> "ops", leaving |-> FALSE]
    /\ snd = [c \in Sender |-> [pc |-> "idle", kind |-> Blank, slot |-> None, own |-> FALSE,
                                next |-> "keep"]]
    /\ hist = [nmsg |-> 0, ncall |-> 0, ntok |-> 0, npend |-> 0,
               done |-> [i \in Msg |-> 0], owed |-> {}, late |-> {}]

-----------------------------------------------------------------------------
(* Scheduling.  The messages that the background thread itself sends, from *)
(* callbacks and from dispr_process_token_req, are among those of Sender.  *)

BkYields == bk.pc \in {"wait", "hdl", "reqhdl", "recyc", "proc", "acq", "abort", "done"}
AllOutside(S) == \A c \in S : snd[c].pc = "idle"
InStop == epc \in {"cxlrun", "threadstop"}
BkMayRun == Cpu = "preempt" \/ (~InStop /\ AllOutside(Sender))
SndMayRun(c) == Cpu = "preempt" \/ (BkYields /\ ~InStop /\ AllOutside(Sender \ {c}))
EngMayRun == Cpu = "preempt" \/ (BkYields /\ AllOutside(Sender))

-----------------------------------------------------------------------------
(* The queues. *)

(* insert_msg_by_priority (is_higher_priority): a message of the controller *)
(* goes before the first message of anyone else.                           *)
Others(q) == {i \in DOMAIN q : ex[q[i]].kind.src # Ctrl}
insert_msg_by_priority(q, s) ==
    IF ex[s].kind.src = Ctrl /\ Others(q) # {} THEN InsertAt(q, Min(Others(q)), s)
    ELSE Append(q, s)

pop_front_wait_msg ==
    /\ waitQ' = Tail(waitQ)
    /\ ex' = [ex EXCEPT ![Head(waitQ)].st = (@ \cup {"RUN"}) \ {"ENQ", "PENDING"}]

(* cancel_msg, without preemption, for the entries of S. *)
CancelAll(S, cleared) ==
    ex' = [s \in Slot |->
             IF s \in S THEN [ex[s] EXCEPT !.pre = {}, !.post = {},
                                           !.st = (@ \cup {"CANCEL"}) \ cleared]
             ELSE ex[s]]

-----------------------------------------------------------------------------
(* dispr_send_msg. *)

(* Modules that are not loaded may send only while they have the token, or *)
(* while the request that has it is being aborted.                         *)
Permitted(src) ==
    \/ src = Ctrl \/ src \in dispr.bitmap
    \/ src = Fg /\ dispr.cur = "run"
    \/ dispr.cur = "permit"

(* set_msg_bitmap and set_msg_custom_bitmap. *)
set_msg_bitmap(k) ==
    LET base == IF k.skip THEN {m \in dispr.bitmap : Prio[m] # 1} ELSE dispr.bitmap
    IN (IF k.black THEN base \ k.list ELSE base \cup k.list) \cup ({k.src} \cap dispr.bitmap)

(* pop_front_idle_msg and all the assignments up to the push; own: the     *)
(* sender was the request that had the token.                              *)
FillMsg(k, own, flags) ==
    LET owner == IF own THEN {"OWNER_REQ"}
                 ELSE IF k.src \in dispr.bitmap \/ (k.src = Ctrl /\ dispr.started)
                 THEN {"OWNER_BK"} ELSE {}
    IN ex' = [ex EXCEPT ![Head(idleQ)] =
                [st |-> {"PRE"} \cup k.opt \cup owner \cup flags, mid |-> hist.nmsg + 1,
                 kind |-> k, pre |-> set_msg_bitmap(k), post |-> set_msg_bitmap(k),
                 want |-> set_msg_bitmap(k), got |-> {}]]
NewMsg(k) ==
    LET new == {hist.nmsg + 1}
    IN hist' = [hist EXCEPT !.nmsg = @ + 1,
                  !.owed = IF "COMPLETE" \in k.opt THEN @ \cup new ELSE @,
                  !.late = IF bk.pc = "done" THEN @ \cup new ELSE @]

(* The checks at the head of dispr_send_msg; next: what the caller does    *)
(* when it returns (keep the handle, drop it, or retry pended messages).   *)
dispr_send_msg(c, k, next) ==
    /\ dispr.started
    /\ Permitted(k.src)
    /\ snd' = [snd EXCEPT ![c] = [@ EXCEPT !.pc = "pop", !.kind = k, !.next = next,
                                         !.own = (dispr.cur = "run" /\ k.src = Fg)]]

Send(c) ==
    /\ snd[c].pc = "idle"
    /\ hist.nmsg < MaxMsg
    /\ \E k \in Kinds : dispr_send_msg(c, k, "keep")
    /\ UNCHANGED <<ex, idleQ, waitQ, pendQ, dispr, sema, epc, bk, hist>>

PopIdle(c) ==
    /\ snd[c].pc = "pop"
    /\ idleQ # <<>> /\ hist.nmsg < MaxMsg
    /\ FillMsg(snd[c].kind, snd[c].own, {})
    /\ NewMsg(snd[c].kind)
    /\ idleQ' = Tail(idleQ)
    /\ snd' = [snd EXCEPT ![c].slot = Head(idleQ), ![c].pc = "push"]
    /\ UNCHANGED <<waitQ, pendQ, dispr, sema, epc, bk>>

(* dispr_send_msg returns; the handle is the index of the entry. *)
SendReturns(c, hdl) ==
    snd' = [snd EXCEPT ![c] = [pc |-> IF snd[c].next = "clr" THEN "clr" ELSE "idle",
                               slot |-> IF snd[c].next = "keep" THEN hdl ELSE None,
                               kind |-> Blank, own |-> FALSE, next |-> "keep"]]

(* No idle entry: RTW_PHL_STATUS_RESOURCE.  (Also the end of the bound.)   *)
NoIdleMsg(c) ==
    /\ snd[c].pc = "pop"
    /\ idleQ = <<>> \/ hist.nmsg = MaxMsg
    /\ SendReturns(c, None)
    /\ UNCHANGED <<ex, idleQ, waitQ, pendQ, dispr, sema, epc, bk, hist>>

(* push_back_wait_msg or insert_msg_by_priority, ... *)
push_back_wait_msg(c) ==
    /\ snd[c].pc = "push"
    /\ waitQ' = insert_msg_by_priority(waitQ, snd[c].slot)
    /\ ex' = [ex EXCEPT ![snd[c].slot].st = (@ \cup {"ENQ"}) \ {"RUN"}]
    /\ snd' = [snd EXCEPT ![c].pc = "up"]
    /\ UNCHANGED <<idleQ, pendQ, dispr, sema, epc, bk, hist>>

(* Mutant: the thread is not woken. *)
NoWakeup(c) ==
    /\ snd[c].pc = "up"
    /\ SendReturns(c, snd[c].slot)
    /\ UNCHANGED <<ex, idleQ, waitQ, pendQ, dispr, sema, epc, bk, hist>>

(* ... then notify_bk_thread. *)
notify_bk_thread(c) ==
    /\ snd[c].pc = "up"
    /\ sema' = sema + 1
    /\ SendReturns(c, snd[c].slot)
    /\ UNCHANGED <<ex, idleQ, waitQ, pendQ, dispr, epc, bk, hist>>

-----------------------------------------------------------------------------
(* The other calls. *)

CallCounted == hist.ncall < MaxCall /\ hist' = [hist EXCEPT !.ncall = @ + 1]

(* dispr_cancel_msg: the entry of the handle may hold another message now. *)
dispr_cancel_msg(c) ==
    /\ "cancel" \in Calls
    /\ snd[c].pc = "idle" /\ snd[c].slot # None
    /\ CallCounted
    /\ dispr.started
    /\ snd' = IF ex[snd[c].slot].st \cap {"ENQ", "RUN"} # {}
              THEN [snd EXCEPT ![c].pc = "cxlpre"]
              ELSE [snd EXCEPT ![c].slot = None]
    /\ UNCHANGED <<ex, idleQ, waitQ, pendQ, dispr, sema, epc, bk>>

(* Mutant: only the maps are emptied. *)
CancelMapsOnly(c) ==
    /\ snd[c].pc = "cxlpre"
    /\ ex' = [ex EXCEPT ![snd[c].slot].pre = {}, ![snd[c].slot].post = {}]
    /\ snd' = [snd EXCEPT ![c].pc = "idle", ![c].slot = None]
    /\ UNCHANGED <<idleQ, waitQ, pendQ, dispr, sema, epc, bk, hist>>

(* cancel_msg empties premap, then postmap, then sets CANCEL. *)
cancel_msg(c) ==
    /\ \/ /\ snd[c].pc = "cxlpre"
          /\ ex' = [ex EXCEPT ![snd[c].slot].pre = {}]
          /\ snd' = [snd EXCEPT ![c].pc = "cxlpost"]
       \/ /\ snd[c].pc = "cxlpost"
          /\ ex' = [ex EXCEPT ![snd[c].slot].post = {}]
          /\ snd' = [snd EXCEPT ![c].pc = "cxlset"]
       \/ /\ snd[c].pc = "cxlset"
          /\ ex' = [ex EXCEPT ![snd[c].slot].st = @ \cup {"CANCEL"}]
          /\ snd' = [snd EXCEPT ![c].pc = "idle", ![c].slot = None]
    /\ UNCHANGED <<idleQ, waitQ, pendQ, dispr, sema, epc, bk, hist>>

(* A module calls dispr_clr_pending_msg to have pended messages retried:   *)
(* the flag is set, then the thread is woken.                              *)
ClrPending(c) ==
    /\ "clr" \in Calls
    /\ snd[c].pc = "idle"
    /\ CallCounted
    /\ snd' = [snd EXCEPT ![c].pc = "clr"]
    /\ UNCHANGED <<ex, idleQ, waitQ, pendQ, dispr, sema, epc, bk>>

(* Mutant: the flag is not set. *)
ClrNothing(c) ==
    /\ snd[c].pc = "clr"
    /\ snd' = [snd EXCEPT ![c].pc = "up"]
    /\ UNCHANGED <<ex, idleQ, waitQ, pendQ, dispr, sema, epc, bk, hist>>

dispr_clr_pending_msg(c) ==
    /\ snd[c].pc = "clr"
    /\ dispr' = [dispr EXCEPT !.clrPend = TRUE]
    /\ snd' = [snd EXCEPT ![c].pc = "up"]
    /\ UNCHANGED <<ex, idleQ, waitQ, pendQ, sema, epc, bk, hist>>

(* dispr_notify_dev_io_status: the device cannot do I/O, or can again; ... *)
dispr_notify_dev_io_status(c) ==
    /\ "io" \in Calls
    /\ snd[c].pc = "idle"
    /\ CallCounted
    /\ dispr' = [dispr EXCEPT !.cannotIo = ~@]
    /\ snd' = [snd EXCEPT ![c].pc = "excl",
                          ![c].next = IF dispr.cannotIo THEN "clr" ELSE "drop"]
    /\ UNCHANGED <<ex, idleQ, waitQ, pendQ, sema, epc, bk>>

(* ... the exclusive module is set or cleared, and the controller's        *)
(* message is sent; after a resume pended messages are retried.            *)
send_dev_io_status_change(c) ==
    /\ snd[c].pc = "excl"
    /\ \E m \in IF snd[c].next = "clr" THEN {None} ELSE Mdl \cup {Fg} :
          dispr' = [dispr EXCEPT !.excl = m]
    /\ \/ dispr_send_msg(c, IoKind(IF snd[c].next = "clr" THEN "RESUME_IO" ELSE "CANNOT_IO"),
                         snd[c].next)
       \/ ~dispr.started /\ SendReturns(c, None)
    /\ UNCHANGED <<ex, idleQ, waitQ, pendQ, sema, epc, bk, hist>>

(* Token calls of other threads: dispr_add_token_req queues a request and  *)
(* an operation; dispr_cancel_token_req and dispr_free_token mark the      *)
(* request that has the token (or one that waits) and queue an operation.  *)
TokenCall ==
    /\ Cpu = "preempt" \/ (BkYields /\ ~InStop /\ AllOutside(Sender))
    /\ dispr.started
    /\ hist.ntok < MaxTok
    /\ hist' = [hist EXCEPT !.ntok = @ + 1]
    /\ \/ dispr' = [dispr EXCEPT !.tokOps = @ + 1, !.waitReq = @ + 1]
       \/ dispr' = [dispr EXCEPT !.tokOps = @ + 1, !.cur = IF @ = "run" THEN "cxl" ELSE @]
    /\ sema' = sema + 1
    /\ UNCHANGED <<ex, idleQ, waitQ, pendQ, epc, bk, snd>>

CallerGoesOn(c) ==
    /\ SndMayRun(c)
    /\ \/ PopIdle(c) \/ NoIdleMsg(c) \/ push_back_wait_msg(c) \/ notify_bk_thread(c)
       \/ cancel_msg(c) \/ dispr_clr_pending_msg(c) \/ send_dev_io_status_change(c)
CallerEnters(c) ==
    /\ SndMayRun(c)
    /\ \/ Send(c) \/ dispr_cancel_msg(c) \/ ClrPending(c) \/ dispr_notify_dev_io_status(c)

-----------------------------------------------------------------------------
(* The loop of the background thread. *)

Stopped == epc \in {"join", "off"}      \* _os_thread_check_stop
LoopTop == IF Stopped THEN "leave" ELSE "wait"
Goto(pc) == bk' = [bk EXCEPT !.pc = pc]

share_thread_hdl ==
    /\ bk.pc = "wait"
    /\ sema > 0
    /\ sema' = sema - 1
    /\ Goto(IF Stopped THEN "leave" ELSE "clr")
    /\ UNCHANGED <<ex, idleQ, waitQ, pendQ, dispr, epc, snd, hist>>

(* clear_pending_msg: DISPR_CLR_PEND_MSG is cleared first, ... *)
clear_pending_msg ==
    /\ bk.pc = "clr"
    /\ dispr' = [dispr EXCEPT !.clrPend = FALSE]
    /\ bk' = [bk EXCEPT !.pc = IF dispr.clrPend THEN "clrloop" ELSE "ops", !.next = "ops"]
    /\ UNCHANGED <<ex, idleQ, waitQ, pendQ, sema, epc, snd, hist>>

(* ... then the pended messages are queued again.  It is the event and not *)
(* the source that is compared with the controller's range of ids.         *)
RequeuePending ==
    /\ bk.pc = "clrloop"
    /\ \/ pendQ = <<>> /\ Goto(bk.next) /\ UNCHANGED <<waitQ, pendQ, sema>>
       \/ /\ pendQ # <<>>
          /\ waitQ' = IF ex[Head(pendQ)].kind.evt \in LowEvt
                      THEN insert_msg_by_priority(waitQ, Head(pendQ))
                      ELSE Append(waitQ, Head(pendQ))
          /\ pendQ' = Tail(pendQ)
          /\ sema' = sema + 1
          /\ UNCHANGED bk
    /\ UNCHANGED <<ex, idleQ, dispr, epc, snd, hist>>

(* token_op_hanler: an operation asks for the next request, ends the one   *)
(* that has the token, or ends a waiting one (push_back_idle_req forgets   *)
(* what the module pended).                                                *)
token_op_hanler ==
    /\ bk.pc = "ops"
    /\ \/ dispr.tokOps = 0 /\ Goto("pop") /\ UNCHANGED dispr
       \/ /\ dispr.tokOps > 0
          /\ Goto("proc")
          /\ dispr' = [dispr EXCEPT !.tokOps = @ - 1]
       \/ /\ dispr.tokOps > 0 /\ dispr.cur = "cxl"
          /\ \E notify \in BOOLEAN : bk' = [bk EXCEPT !.pc = "dereg", !.notify = notify]
          /\ dispr' = [dispr EXCEPT !.tokOps = @ - 1]
       \/ /\ dispr.tokOps > 0 /\ dispr.waitReq > 0
          /\ dispr' = [dispr EXCEPT !.tokOps = @ - 1, !.waitReq = @ - 1,
                                    !.pendEvt[Fg] = None]
          /\ UNCHANGED bk
    /\ UNCHANGED <<ex, idleQ, waitQ, pendQ, sema, epc, snd, hist>>

(* dispr_process_token_req gives the token to a waiting request, whose     *)
(* acquired() may refuse it; then the next one gets it.                    *)
dispr_process_token_req ==
    /\ bk.pc = "proc"
    /\ IF dispr.started /\ dispr.cur = "none" /\ dispr.waitReq > 0
       THEN /\ dispr' = [dispr EXCEPT !.cur = "run", !.waitReq = @ - 1]
            /\ Goto("acq")
       ELSE Goto("ops") /\ UNCHANGED dispr
    /\ UNCHANGED <<ex, idleQ, waitQ, pendQ, sema, epc, snd, hist>>
register_cur_cmd_req ==
    /\ bk.pc = "acq"
    /\ \/ Goto("ops")
       \/ bk' = [bk EXCEPT !.pc = "dereg", !.notify = FALSE]
    /\ UNCHANGED <<ex, idleQ, waitQ, pendQ, dispr, sema, epc, snd, hist>>

AfterDereg == IF bk.leaving THEN "clrmsg" ELSE "proc"

(* deregister_cur_cmd_req cancels the messages of the request and has the  *)
(* pended ones queued again before abort() is called.                      *)
deregister_cur_cmd_req ==
    /\ bk.pc = "dereg"
    /\ LET fg == {s \in Slot : ex[s].kind.src = Fg}
           pended == {s \in fg : "PENDING" \in ex[s].st}
       IN IF dispr.cur = "none"
          THEN Goto(AfterDereg) /\ UNCHANGED <<ex, dispr, sema>>
          ELSE /\ CancelAll(fg, {"OWNER_REQ"})
               /\ dispr' = [dispr EXCEPT !.cur = "ended", !.clrPend = (@ /\ pended = {})]
               /\ sema' = sema + Cardinality(pended)
               /\ bk' = [bk EXCEPT !.pc = IF pended = {} THEN "permit" ELSE "clrloop",
                                   !.next = "permit"]
    /\ UNCHANGED <<idleQ, waitQ, pendQ, epc, snd, hist>>

(* DropToken: push_back_idle_req, and the token is free. *)
DropToken ==
    /\ dispr' = [dispr EXCEPT !.cur = "none", !.pendEvt[Fg] = None]
    /\ Goto(AfterDereg)
LastPermit ==
    /\ bk.pc = "permit"
    /\ \/ ~bk.notify /\ DropToken
       \/ /\ bk.notify
          /\ dispr' = [dispr EXCEPT !.cur = "permit"]
          /\ Goto("abort")
    /\ UNCHANGED <<ex, idleQ, waitQ, pendQ, sema, epc, snd, hist>>

(* abort() may send messages (dispr_send_msg as a whole) and sleep; when   *)
(* it returns the request is gone.                                         *)
AbortSends ==
    /\ bk.pc = "abort"
    /\ dispr.started
    /\ idleQ # <<>> /\ hist.nmsg < MaxMsg
    /\ \E k \in Kinds : k.src = Fg /\ FillMsg(k, FALSE, {"ENQ"}) /\ NewMsg(k)
    /\ idleQ' = Tail(idleQ)
    /\ waitQ' = Append(waitQ, Head(idleQ))
    /\ sema' = sema + 1
    /\ UNCHANGED <<pendQ, dispr, epc, bk, snd>>

AbortReturns ==
    /\ bk.pc = "abort"
    /\ DropToken
    /\ UNCHANGED <<ex, idleQ, waitQ, pendQ, sema, epc, snd, hist>>

(* dispr_thread_loop_hdl takes one message. *)
dispr_thread_loop_hdl ==
    /\ bk.pc = "pop"
    /\ \/ waitQ = <<>> /\ Goto(LoopTop) /\ UNCHANGED <<ex, waitQ>>
       \/ /\ waitQ # <<>>
          /\ pop_front_wait_msg
          /\ bk' = [bk EXCEPT !.pc = "chk", !.msg = Head(waitQ)]
    /\ UNCHANGED <<idleQ, pendQ, dispr, sema, epc, snd, hist>>

cur_msg == ex[bk.msg]
Has(flags) == cur_msg.st \cap flags # {}

is_special_msg == dispr.excl = cur_msg.kind.src \/ cur_msg.kind.evt \in SpecialEvt

(* is_msg_canceled: whether the message is dropped, and the flag it gets.  *)
Dropped == ~dispr.started \/ Has({"CANCEL"})
Silenced == dispr.pendEvt[cur_msg.kind.src] \notin {None, cur_msg.kind.evt}
NoIo == dispr.cannotIo /\ ~is_special_msg
is_msg_canceled == Dropped \/ Silenced \/ (NoIo /\ ~Has({"PEND_IO"}))

(* A message that is not canceled is dispatched to the modules it names    *)
(* that are still loaded.                                                  *)
Checked(x) == [x EXCEPT !.st = IF NoIo THEN @ \cup {"PENDING"} ELSE @,
                        !.pre = @ \cap dispr.bitmap, !.post = @ \cap dispr.bitmap]
CheckMsg ==
    /\ bk.pc = "chk"
    /\ \/ /\ is_msg_canceled
          /\ ex' = [ex EXCEPT ![bk.msg].st = IF Dropped THEN @ ELSE @ \cup {"CANCEL"}]
          /\ Goto("compl")
       \/ /\ ~is_msg_canceled
          /\ ex' = [ex EXCEPT ![bk.msg] = Checked(@)]
          /\ bk' = [bk EXCEPT !.pc = "redir", !.ph = "ctrl"]
    /\ UNCHANGED <<idleQ, waitQ, pendQ, dispr, sema, epc, snd, hist>>

-----------------------------------------------------------------------------
(* msg_dispatch. *)

(* get_msg_bitmap: the phase of the message and the map of that phase. *)
PhaseOf(x) == IF "PRE" \in x.st THEN "pre" ELSE "post"
get_msg_bitmap(x) == IF "PRE" \in x.st THEN x.pre ELSE x.post

module_q(i) == Sublist(ModuleQ, Positions(ModuleQ, {m \in Mdl : Prio[m] = i}))

(* One visit per module of the queue; the module that sent the message is  *)
(* visited first, and whether or not it is started.                        *)
Visits(x, q) ==
    LET owner == IF "OWNER_BK" \in x.st /\ x.kind.src \in ToSet(q)
                 THEN <<<<x.kind.src, TRUE>>>> ELSE <<>>
    IN owner \o [j \in DOMAIN q |-> <<q[j], FALSE>>]

(* Mutant: the pre phase starts with the role modules. *)
RolesFirst(x) ==
    Visits(x, module_q(0)) \o Visits(x, module_q(1)) \o Visits(x, module_q(2))

(* msg_pre_phase_hdl and msg_post_phase_hdl: the order of the visits. *)
PreOrder(x) ==
    Visits(x, module_q(2)) \o Visits(x, module_q(1)) \o Visits(x, module_q(0))
PostOrder(x) ==
    Visits(x, Reverse(module_q(0))) \o Visits(x, Reverse(module_q(1)))
        \o Visits(x, Reverse(module_q(2)))

(* MSG_REDIRECT_CHK: a failed or canceled message goes back to the pool, ... *)
Redirected == Has({"FAIL", "CANCEL", "PENDING"})
Recycled ==
    /\ bk.pc = "redir"
    /\ Has({"FAIL", "CANCEL"})
    /\ Goto("compl")
    /\ UNCHANGED <<ex, idleQ, waitQ, pendQ, dispr, sema, epc, snd, hist>>

(* The status and the bookkeeping of a message that is pended. *)
Pended ==
    /\ bk.pc = "redir"
    /\ ~Has({"FAIL", "CANCEL"}) /\ Has({"PENDING"})
    /\ ex' = [ex EXCEPT ![bk.msg].st = (@ \cup {"ENQ"}) \ {"RUN"}]
    /\ dispr' = [dispr EXCEPT !.pendEvt[cur_msg.kind.src] =
                    IF Has({"CLR_SNDR"}) THEN cur_msg.kind.evt ELSE @]
    /\ pendQ' = Append(pendQ, bk.msg)
    /\ UNCHANGED <<waitQ, sema, epc, snd>>

(* Mutant: a pended message is given back to the pool as well. *)
PendAndRecycle ==
    /\ Pended
    /\ bk' = [bk EXCEPT !.pc = LoopTop, !.msg = None]
    /\ idleQ' = Append(idleQ, bk.msg)
    /\ UNCHANGED hist

(* Mutant: the sender is told that a pended message is complete. *)
CompletePended ==
    /\ Pended
    /\ bk' = [bk EXCEPT !.pc = LoopTop, !.msg = None]
    /\ hist' = [hist EXCEPT !.done[cur_msg.mid] = @ + (IF Has({"COMPLETE"}) THEN 1 ELSE 0)]
    /\ UNCHANGED idleQ

(* ... a pended one to msg_pend_q, where it may silence its sender, ... *)
push_back_pending_msg ==
    /\ Pended
    /\ bk' = [bk EXCEPT !.pc = LoopTop, !.msg = None]
    /\ UNCHANGED <<idleQ, hist>>

(* ... any other one to the next part of msg_dispatch: the controller, the *)
(* pre phase, the post phase and the foreground request.                   *)
NextPart(ph) ==
    /\ bk.pc = "redir" /\ bk.ph = ph
    /\ ~Redirected
    /\ UNCHANGED <<idleQ, waitQ, pendQ, dispr, sema, epc, snd, hist>>

_notify_dispr_controller ==
    /\ NextPart("ctrl")
    /\ bk' = IF dispr.started
             THEN [bk EXCEPT !.pc = "feed", !.ph = "pre", !.todo = <<<<Ctrl, TRUE>>>>]
             ELSE [bk EXCEPT !.ph = "pre"]
    /\ UNCHANGED ex

msg_pre_phase_hdl ==
    /\ NextPart("pre")
    /\ bk' = IF Has({"PRE"}) /\ cur_msg.pre # {}
             THEN [bk EXCEPT !.pc = "walk", !.ph = "mid", !.todo = PreOrder(cur_msg)]
             ELSE [bk EXCEPT !.ph = "mid"]
    /\ UNCHANGED ex

(* "invalid bitmap state" *)
InvalidBitmap ==
    /\ ex' = [ex EXCEPT ![bk.msg].st = @ \cup {"CANCEL"}]
    /\ Goto("compl")

msg_post_phase_hdl ==
    /\ NextPart("mid")
    /\ \/ get_msg_bitmap(cur_msg) # {} /\ InvalidBitmap
       \/ /\ get_msg_bitmap(cur_msg) = {}
          /\ ex' = [ex EXCEPT ![bk.msg].st = @ \ {"PRE"}]
          /\ bk' = IF cur_msg.post # {}
                   THEN [bk EXCEPT !.pc = "walk", !.ph = "end", !.todo = PostOrder(cur_msg)]
                   ELSE [bk EXCEPT !.ph = "end"]

cur_req_hdl ==
    /\ NextPart("end")
    /\ \/ cur_msg.post # {} /\ InvalidBitmap
       \/ /\ cur_msg.post = {}
          /\ Goto(IF dispr.cur = "run" THEN "reqhdl" ELSE "compl")
          /\ UNCHANGED ex

ReqHdlReturns ==
    /\ bk.pc = "reqhdl"
    /\ Goto("compl")
    /\ UNCHANGED <<ex, idleQ, waitQ, pendQ, dispr, sema, epc, snd, hist>>

(* The walk goes on to the next module whose bit is set, if any. *)
ToFeed == {i \in DOMAIN bk.todo : /\ bk.todo[i][1] \in get_msg_bitmap(cur_msg)
                                  /\ bk.todo[i][2] \/ bk.todo[i][1] \in dispr.bitmap}
NextModule ==
    /\ bk.pc = "walk"
    /\ bk' = IF ToFeed = {} THEN [bk EXCEPT !.pc = "redir", !.todo = <<>>]
             ELSE [bk EXCEPT !.pc = "feed",
                             !.todo = SubSeq(@, Min(ToFeed), Len(@))]
    /\ UNCHANGED <<ex, idleQ, waitQ, pendQ, dispr, sema, epc, snd, hist>>

(* feed_mdl_msg: the bit has been tested, now msg_hdlr is entered, ... *)
Fed == Head(bk.todo)[1]
feed_mdl_msg ==
    /\ bk.pc = "feed"
    /\ Goto("hdl")
    /\ UNCHANGED <<ex, idleQ, waitQ, pendQ, dispr, sema, epc, snd, hist>>

Handled(x) == x.got \cup {<<Fed, PhaseOf(x)>>}

(* Mutant: the bit stays set. *)
KeepBit(x) == [x EXCEPT !.got = Handled(x)]

(* ... and clears its bit in the map of the phase, ... *)
ClearBit(x) ==
    [x EXCEPT !.got = Handled(x),
              !.pre = IF PhaseOf(x) = "pre" THEN @ \ {Fed} ELSE @,
              !.post = IF PhaseOf(x) = "post" THEN @ \ {Fed} ELSE @]
HdlOk ==
    /\ "ok" \in Rets
    /\ bk.pc = "hdl"
    /\ ex' = [ex EXCEPT ![bk.msg] = ClearBit(@)]
    /\ bk' = [bk EXCEPT !.pc = IF Fed = Ctrl THEN "redir" ELSE "walk", !.todo = Tail(@)]
    /\ UNCHANGED <<idleQ, waitQ, pendQ, dispr, sema, epc, snd, hist>>

(* ... or fails or asks for a retry, which ends the phase.                 *)
HdlStops(ret, flag) ==
    /\ ret \in Rets
    /\ bk.pc = "hdl"
    /\ ex' = [ex EXCEPT ![bk.msg].st = @ \cup {flag}]
    /\ bk' = [bk EXCEPT !.pc = "redir", !.todo = <<>>]
    /\ UNCHANGED <<idleQ, waitQ, pendQ, dispr, sema, epc, snd>>

notify_msg_fail == HdlStops("fail", "FAIL") /\ UNCHANGED hist
HdlPends ==
    /\ HdlStops("pending", "PENDING")
    /\ Fed # Ctrl
    /\ hist.npend < MaxPend
    /\ hist' = [hist EXCEPT !.npend = @ + 1]

-----------------------------------------------------------------------------
(* push_back_idle_msg: the completion routine, and then the entry is reset *)
(* and linked.                                                             *)

Told(i) == [hist.done EXCEPT ![i] = @ + 1]
Completion ==
    /\ bk.pc = "compl"
    /\ hist' = [hist EXCEPT !.done = IF Has({"COMPLETE"}) THEN Told(cur_msg.mid) ELSE @]
    /\ Goto("recyc")
    /\ UNCHANGED <<ex, idleQ, waitQ, pendQ, dispr, sema, epc, snd>>

Recycle ==
    /\ bk.pc = "recyc"
    /\ ex' = [ex EXCEPT ![bk.msg] = [@ EXCEPT !.st = {}, !.mid = 0, !.kind = Blank,
                                              !.want = {}, !.got = {}]]
    /\ idleQ' = Append(idleQ, bk.msg)
    /\ bk' = [bk EXCEPT !.pc = IF bk.leaving THEN "clrmsg" ELSE LoopTop, !.msg = None]
    /\ UNCHANGED <<waitQ, pendQ, sema, epc, snd, hist>>

(* Mutant: the sender stays silenced. *)
RecycleKeepEvt == Recycle /\ UNCHANGED dispr

push_back_idle_msg ==
    /\ Recycle
    /\ dispr' = [dispr EXCEPT !.pendEvt[cur_msg.kind.src] =
                    IF @ = cur_msg.kind.evt THEN None ELSE @]

(* dispr_thread_leave_hdl, when the loop has ended: the request is aborted, *)
(* then the messages are given back until all entries are idle.            *)
dispr_thread_leave_hdl ==
    /\ bk.pc = "leave"
    /\ bk' = [bk EXCEPT !.pc = "dereg", !.leaving = TRUE, !.notify = TRUE]
    /\ UNCHANGED <<ex, idleQ, waitQ, pendQ, dispr, sema, epc, snd, hist>>

(* Mutant: pended messages are forgotten. *)
ClearWaitingOnly ==
    /\ bk.pc = "clrmsg"
    /\ \/ waitQ = <<>> /\ Goto("done") /\ UNCHANGED <<ex, waitQ>>
       \/ /\ waitQ # <<>>
          /\ pop_front_wait_msg
          /\ bk' = [bk EXCEPT !.pc = "compl", !.msg = Head(waitQ)]
    /\ UNCHANGED <<idleQ, pendQ, dispr, sema, epc, snd, hist>>

clear_waiting_msg ==
    /\ bk.pc = "clrmsg"
    /\ \/ /\ Len(idleQ) = NMsg
          /\ Goto("done")
          /\ UNCHANGED <<ex, waitQ, pendQ, sema>>
       \/ /\ Len(idleQ) # NMsg /\ pendQ # <<>>
          /\ waitQ' = Append(waitQ, Head(pendQ))
          /\ pendQ' = Tail(pendQ)
          /\ sema' = sema + 1
          /\ UNCHANGED <<ex, bk>>
       \/ /\ Len(idleQ) # NMsg /\ pendQ = <<>> /\ waitQ # <<>>
          /\ pop_front_wait_msg
          /\ bk' = [bk EXCEPT !.pc = "compl", !.msg = Head(waitQ)]
          /\ UNCHANGED <<pendQ, sema>>
    /\ UNCHANGED <<idleQ, dispr, epc, snd, hist>>

Background ==
    /\ BkMayRun
    /\ \/ share_thread_hdl \/ clear_pending_msg \/ RequeuePending \/ token_op_hanler
       \/ dispr_process_token_req \/ register_cur_cmd_req
       \/ deregister_cur_cmd_req \/ LastPermit \/ AbortSends \/ AbortReturns
       \/ dispr_thread_loop_hdl \/ CheckMsg \/ Recycled \/ push_back_pending_msg
       \/ _notify_dispr_controller \/ msg_pre_phase_hdl \/ msg_post_phase_hdl
       \/ cur_req_hdl \/ ReqHdlReturns \/ NextModule \/ feed_mdl_msg
       \/ HdlOk \/ notify_msg_fail \/ HdlPends \/ Completion \/ push_back_idle_msg
       \/ dispr_thread_leave_hdl \/ clear_waiting_msg

-----------------------------------------------------------------------------
(* phl_disp_eng_stop. *)

(* dispr_module_stop: the modules are unloaded in the order of their queues. *)
dispr_module_stop ==
    /\ "stop" \in Calls
    /\ epc \in {"up", "mdlstop"}
    /\ LET mdls == module_q(0) \o module_q(1) \o module_q(2)
           loaded == Sublist(mdls, Positions(mdls, dispr.bitmap))
       IN /\ loaded # <<>>
          /\ dispr' = [dispr EXCEPT !.bitmap = @ \ {Head(loaded)}]
    /\ epc' = "mdlstop"
    /\ UNCHANGED <<ex, idleQ, waitQ, pendQ, sema, bk, snd, hist>>

(* dispr_thread_stop_prior_hdl and cancel_running_msg. *)
StopPrior ==
    /\ epc = "mdlstop" /\ dispr.bitmap = {}
    /\ dispr' = [dispr EXCEPT !.started = FALSE,
                              !.cur = IF @ = "run" THEN "cxl" ELSE @]
    /\ epc' = "cxlrun"
    /\ UNCHANGED <<ex, idleQ, waitQ, pendQ, sema, bk, snd, hist>>
cancel_running_msg ==
    /\ epc = "cxlrun"
    /\ CancelAll({s \in Slot : "RUN" \in ex[s].st}, {})
    /\ epc' = "threadstop"
    /\ UNCHANGED <<idleQ, waitQ, pendQ, dispr, sema, bk, snd, hist>>

(* Mutant: the thread is not woken. *)
StopNoWakeup ==
    /\ epc = "threadstop"
    /\ epc' = "join"
    /\ UNCHANGED <<ex, idleQ, waitQ, pendQ, dispr, sema, bk, snd, hist>>

(* _os_thread_stop, _os_sema_up, _os_thread_deinit and the post handler. *)
ThreadStop ==
    /\ epc = "threadstop"
    /\ epc' = "join"
    /\ sema' = sema + 1
    /\ UNCHANGED <<ex, idleQ, waitQ, pendQ, dispr, bk, snd, hist>>
StopPost ==
    /\ epc = "join" /\ bk.pc = "done"
    /\ epc' = "off"
    /\ UNCHANGED <<ex, idleQ, waitQ, pendQ, dispr, sema, bk, snd, hist>>

StopGoesOn ==
    EngMayRun /\ (dispr_module_stop \/ StopPrior \/ cancel_running_msg \/ ThreadStop \/ StopPost)

Next ==
    \/ \E c \in Sender : CallerEnters(c) \/ CallerGoesOn(c)
    \/ TokenCall \/ Background \/ StopGoesOn

Spec == Init /\ [][Next]_vars

(* Threads keep running; a stop that has begun goes on. *)
Fairness ==
    /\ SF_vars(Background)
    /\ SF_vars(epc # "up" /\ StopGoesOn)
    /\ \A c \in Sender : SF_vars(CallerGoesOn(c))
FairSpec == Spec /\ Fairness

-----------------------------------------------------------------------------
(* Properties. *)

(* push_back_idle_msg and pq_pop: an entry of the pool is at exactly one   *)
(* place (idle, wait or pending queue, a sender's hand, the thread's), so  *)
(* that no message is lost or dispatched from two places.                  *)
MsgAtOnePlace ==
    \A s \in Slot :
        Cardinality(Positions(idleQ, {s})) + Cardinality(Positions(waitQ, {s}))
            + Cardinality(Positions(pendQ, {s}))
            + Cardinality({c \in Sender : snd[c].pc = "push" /\ snd[c].slot = s})
            + (IF bk.msg = s THEN 1 ELSE 0) = 1

(* The pool has all its messages, each with the fields of its state.       *)
PoolInv == TypeOK /\ MsgAtOnePlace

(* dispr_thread_loop_hdl takes one message per sema_down: there are at     *)
(* least as many wakeups to come as there are messages in msg_wait_q, also *)
(* after pended messages were queued again and when token operations take  *)
(* wakeups of their own.                                                   *)
BeforePop == bk.pc \in {"clr", "clrloop", "ops", "proc", "acq", "dereg", "permit", "abort",
                        "pop"}
WakeupPerMsg ==
    ~bk.leaving =>
        Len(waitQ) =< sema + Cardinality({c \in Sender : snd[c].pc = "up"})
                           + (IF BeforePop THEN 1 ELSE 0)

(* push_back_idle_msg calls a completion routine at most once per message, *)
(* whatever is pended, canceled or cleared in the meantime.                *)
CompletedOnce == \A i \in Msg : hist.done[i] =< 1

(* dispr_thread_leave_hdl ("clear remaining pending & waiting msg"): when  *)
(* the thread has ended, every message that got a buffer before that had   *)
(* its completion routine called.                                          *)
LeaveCompletesAll ==
    bk.pc = "done" => \A i \in hist.owed \ hist.late : hist.done[i] = 1

(* msg_pre_phase_hdl and msg_post_phase_hdl: a module that accepted a      *)
(* message in a phase does not get it again in that phase, although its    *)
(* sender is visited twice and a pended message starts over.               *)
HandledOnce ==
    bk.pc = "hdl" /\ Fed # Ctrl => <<Fed, PhaseOf(cur_msg)>> \notin cur_msg.got

(* When a module gets a message, no module that comes before it in the     *)
(* phase (mandatory, optional, role; backwards in the post phase) is still *)
(* to get it, and none gets it in the post phase before all had it in the  *)
(* pre phase.                                                              *)
Turn(m) == IF "PRE" \in cur_msg.st THEN 2 - Prio[m] ELSE Prio[m]
PhaseOrder ==
    bk.pc = "hdl" /\ Fed # Ctrl =>
        /\ \A m \in get_msg_bitmap(cur_msg) \cap dispr.bitmap : Turn(m) >= Turn(Fed)
        /\ "PRE" \notin cur_msg.st => cur_msg.pre = {}

(* A completion routine that sees neither MSG_INDC_CANCEL nor MSG_INDC_FAIL *)
(* belongs to a message that every module it was for has accepted in both  *)
(* phases, while the engine is not being stopped and unless a caller has   *)
(* begun to empty its maps and not yet marked it (cancel_msg is preempted  *)
(* between the two: the message is cut short and reported as a success).   *)
Canceling(s) == \E c \in Sender : snd[c].pc \in {"cxlpost", "cxlset"} /\ snd[c].slot = s
SuccessMeansHandled ==
    bk.pc = "compl" /\ epc = "up" /\ ~Has({"CANCEL", "FAIL"}) /\ ~Canceling(bk.msg) =>
        cur_msg.want \X {"pre", "post"} \subseteq cur_msg.got

(* push_back_pending_msg and push_back_idle_msg: a sender is silenced      *)
(* (pending_evt_id) only as long as a message of it with that event is in  *)
(* the dispatcher; otherwise its messages would be canceled for ever.      *)
PendEvtBacked ==
    \A m \in Source :
        dispr.pendEvt[m] # None =>
            \E s \in Slot : /\ ex[s].mid # 0
                            /\ ex[s].kind.src = m /\ ex[s].kind.evt = dispr.pendEvt[m]

(* cancel_msg ("zero bitmap to ensure msg would not be forward to any      *)
(* modules after cancel"): no module is entered with a canceled message.   *)
(* Where kernel code is preempted, or on SMP, the code does not do that:   *)
(* feed_mdl_msg may have tested the bit before the maps were emptied.      *)
NoForwardAfterCancel ==
    [][bk.pc = "feed" /\ bk'.pc = "hdl" /\ Fed # Ctrl => "CANCEL" \notin cur_msg.st]_vars

(* dispr_send_msg: a message with a completion routine is completed in the *)
(* end, unless it stays pended or the device cannot do I/O for ever.       *)
MsgCompletes ==
    \A i \in Msg :
        (i \in hist.owed \ hist.late)
            ~> (hist.done[i] = 1 \/ \E n \in DOMAIN pendQ : ex[pendQ[n]].mid = i)

(* dispr_notify_dev_io_status: once the device can do I/O again the        *)
(* messages that were pended for it are retried, also when there was no    *)
(* free entry for the RESUME_IO message.                                   *)
ResumeReleases ==
    \A s \in Slot :
        (s \in ToSet(pendQ) /\ dispr.cannotIo)
            ~> (s \notin ToSet(pendQ) \/ [](dispr.cannotIo))

(* phl_disp_eng_stop returns: the thread wakes up, leaves its loop and     *)
(* clear_waiting_msg sees all entries come back.                           *)
MsgStopReturns == (epc = "mdlstop") ~> (epc = "off")

=============================================================================
