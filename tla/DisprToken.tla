----------------------------- MODULE DisprToken -----------------------------
(***************************************************************************)
(* The foreground command token of one PHL command dispatcher              *)
(* (phl_cmd_dispatcher.c).  A module that wants to run a foreground        *)
(* command (scan, connect, ...) fills an entry of token_req_ex_pool and    *)
(* links it to token_req_wait_q; every change of the token is carried out  *)
(* by the background (share) thread, to which the callers hand "token      *)
(* operations" through token_op_q and the engine's semaphore.              *)
(*                                                                         *)
(* Each caller runs the API call it is in statement by statement, so the   *)
(* background thread can run between any two of them.  Cpu says how much   *)
(* of that the machine allows:                                             *)
(*   "nopreempt"  one CPU, kernel code is switched only where it sleeps:   *)
(*                in sema_down and inside the callbacks;                   *)
(*   "preempt"    one CPU, a caller can be preempted between statements;   *)
(*   "smp"        as above, and the read and the write of a flag word      *)
(*                (`status |= flag') of a caller are separate steps.       *)
(***************************************************************************)
EXTENDS Integers, SequencesExt, Lists

CONSTANTS
    NReq,      \* MAX_CMD_REQ_NUM, entries of token_req_ex_pool
    Client,    \* threads that call the token API
    MaxReq,    \* bound: number of requests ever added
    MaxCall,   \* bound: number of calls that cancel or free a request
    Cpu,       \* "nopreempt", "preempt" or "smp"
    Calls,     \* what the environment does besides adding requests
    MayStop,   \* the engine may be stopped
    MsgFail,   \* dispr_send_msg may find msg_idle_q empty
    None

ASSUME ConstAssumption ==
    /\ NReq \in Nat \ {0}
    /\ MaxReq \in Nat /\ MaxCall \in Nat
    /\ Cpu \in {"nopreempt", "preempt", "smp"}
    /\ Calls \subseteq {"cancel", "free", "fgempty", "abortmsg"}
    /\ MayStop \in BOOLEAN
    /\ MsgFail \in BOOLEAN
    /\ None \notin 1..NReq
    /\ None \notin (({"add", "free"} \X (1..NReq)) \cup {<<"renew", 1>>})

Slot == 1..NReq
Req == 1..MaxReq

Flag == {"ENQ", "RUN", "CANCEL", "LAST_PERMIT", "PREPARE"}

(* add_req_info and free_req_info of each pool entry, and renew_req_info. *)
Renew == <<"renew", 1>>
OpNode == ({"add", "free"} \X Slot) \cup {Renew}
OpType == {"none", "add", "free", "cancel", "renew"}

VARIABLES
    \* struct cmd_dispatcher
    status,     \* status word of each pool entry
    req,        \* the request copied into each entry (0: none yet)
    idleQ, waitQ,
    skew,       \* by how much the counters of the two queues are wrong:
                \* idle_q.cnt = Len(idleQ) + skew, wait_q.cnt = Len(waitQ) - skew
    opQ,        \* token_op_q
    used, otype,\* phl_token_op_info.used and .type of each node
    cur,        \* cur_cmd_req
    tokenCnt,
    started,    \* DISPR_STARTED
    notifyIdle, \* DISPR_NOTIFY_IDLE
    waitAbort,  \* DISPR_WAIT_ABORT_MSG_DONE
    abortQ,     \* messages sent from abort() and not yet recycled
    phyOn,      \* what the power module was last told (PHY_ON / PHY_IDLE)
    \* the engine: semaphore, stop flag of the thread, the thread that stops it
    sema, stop, epc,
    \* the background thread
    bpc, bslot, bnode, bnotify, bnext,
    \* the callers
    cpc, cslot, creq, cld,
    \* history
    corrupt,    \* the links of token_op_q have been overwritten
    nreq, ncall,\* requests added, and other calls so far
    ends,       \* how often each request was told that it is over
    late,       \* requests linked to the wait queue after the stop began
    lateEnq,    \* requests marked ENQ when their entry was idle again
    torn,       \* requests in whose entry an outdated flag word was written back
    phyLost,    \* the last PHY_ON found no message buffer
    fgSeen      \* requests pending when a caller in dispr_is_fg_empty entered it

reqVars == <<status, req, idleQ, waitQ, skew>>
opVars == <<opQ, used, otype, corrupt>>
tokVars == <<cur, tokenCnt, started, notifyIdle, waitAbort, abortQ, phyOn, phyLost>>
engVars == <<sema, stop, epc>>
bkVars == <<bpc, bslot, bnode, bnotify, bnext>>
clVars == <<cpc, cslot, creq, cld>>
histVars == <<nreq, ncall, ends, late, lateEnq, torn, fgSeen>>
vars == <<reqVars, opVars, tokVars, engVars, bkVars, clVars, histVars>>

AddPc == {"push", "enq", "enqset", "addop"}
OpsPc == {"handle", "proc", "popreq", "reg", "acq", "dereg", "permit",
          "abort", "recyc", "drop", "cxlidle", "unuse"}
BkPc == OpsPc \cup {"wait", "ops", "msg", "leave", "clrreq", "clrpop", "done",
                   "oops"}
ClPc == AddPc \cup {"idle", "pop", "cxlset", "cxlop", "freeset", "freeop", "up",
                    "fg2", "fgempty"}

ReqType ==
    /\ status \in [Slot -> SUBSET Flag]
    /\ req \in [Slot -> 0..MaxReq]
    /\ idleQ \in Seq(Slot) /\ waitQ \in Seq(Slot) /\ skew \in Nat
OpInfoType ==
    /\ opQ \in Seq(OpNode)
    /\ used \in [OpNode -> BOOLEAN] /\ otype \in [OpNode -> OpType]
    /\ corrupt \in BOOLEAN
TokenType ==
    /\ cur \in Slot \cup {None}
    /\ tokenCnt \in Int
    /\ started \in BOOLEAN /\ notifyIdle \in BOOLEAN /\ waitAbort \in BOOLEAN
    /\ abortQ \in Seq([req : 0..MaxReq, forAbort : BOOLEAN])
    /\ phyOn \in BOOLEAN /\ phyLost \in BOOLEAN
EngineType ==
    /\ sema \in Nat /\ stop \in BOOLEAN
    /\ epc \in {"up", "mdlstop", "cancelall", "threadstop", "join", "off"}
BkType ==
    /\ bpc \in BkPc /\ bslot \in Slot \cup {None} /\ bnode \in OpNode \cup {None}
    /\ bnotify \in BOOLEAN /\ bnext \in {"proc", "popreq", "clrreq"}
CallerType ==
    /\ cpc \in [Client -> ClPc] /\ cslot \in [Client -> Slot]
    /\ creq \in [Client -> 0..MaxReq] /\ cld \in [Client -> SUBSET Flag]
HistType ==
    /\ nreq \in 0..MaxReq /\ ncall \in 0..MaxCall
    /\ ends \in [Req -> Nat]
    /\ late \in SUBSET (0..MaxReq)
    /\ lateEnq \in SUBSET (0..MaxReq) /\ torn \in SUBSET (0..MaxReq)
    /\ fgSeen \in [Client -> SUBSET Req]

TypeOK ==
    /\ ReqType /\ OpInfoType /\ TokenType /\ EngineType
    /\ BkType /\ CallerType /\ HistType

(* dispr_init and dispr_start: every entry idle, the thread in sema_down.  *)
Init ==
    /\ status = [s \in Slot |-> {}]
    /\ req = [s \in Slot |-> 0]
    /\ idleQ = [i \in 1..NReq |-> i]
    /\ waitQ = <<>>
    /\ skew = 0
    /\ opQ = <<>>
    /\ used = [n \in OpNode |-> FALSE]
    /\ otype = [n \in OpNode |-> "none"]
    /\ cur = None
    /\ tokenCnt = 0
    /\ started = TRUE
    /\ notifyIdle = TRUE
    /\ waitAbort = FALSE
    /\ abortQ = <<>>
    /\ phyOn = FALSE /\ phyLost = FALSE
    /\ sema = 0 /\ stop = FALSE /\ epc = "up"
    /\ bpc = "wait" /\ bslot = None /\ bnode = None
    /\ bnotify = FALSE /\ bnext = "proc"
    /\ cpc = [c \in Client |-> "idle"]
    /\ cslot = [c \in Client |-> 1]
    /\ creq = [c \in Client |-> 0]
    /\ cld = [c \in Client |-> {}]
    /\ corrupt = FALSE
    /\ nreq = 0 /\ ncall = 0
    /\ ends = [r \in Req |-> 0]
    /\ late = {} /\ lateEnq = {} /\ torn = {}
    /\ fgSeen = [c \in Client |-> {}]

-----------------------------------------------------------------------------
(* Scheduling. *)

BkYields == bpc \in {"wait", "acq", "abort", "done", "oops"}
Outside(c) == cpc[c] \in {"idle", "fgempty"}
InStop == epc \in {"cancelall", "threadstop"}

BkMayRun == Cpu # "nopreempt" \/ (~InStop /\ \A c \in Client : Outside(c))
ClMayRun(c) ==
    Cpu # "nopreempt" \/ (BkYields /\ ~InStop /\ \A d \in Client \ {c} : Outside(d))
EngMayRun == Cpu # "nopreempt" \/ (BkYields /\ \A c \in Client : Outside(c))

(* `status |= flag' of a caller: on an SMP machine the value read before   *)
(* may be out of date when it is written back.                             *)
SetFlag(c, f) ==
    /\ status' = [status EXCEPT ![cslot[c]] =
                    (IF Cpu = "smp" THEN cld[c] ELSE @) \cup {f}]
    /\ torn' = IF Cpu = "smp" /\ cld[c] # status[cslot[c]]
               THEN torn \cup {req[cslot[c]]} ELSE torn
    /\ cld' = [cld EXCEPT ![c] = {}]
LoadFlags(c) ==
    cld' = [cld EXCEPT ![c] = IF Cpu = "smp" THEN status[cslot[c]] ELSE {}]

-----------------------------------------------------------------------------
(* The API calls. *)

(* dispr_add_token_req: the check of DISPR_STARTED, *)
dispr_add_token_req(c) ==
    /\ ClMayRun(c)
    /\ Outside(c)
    /\ creq[c] # 0 => ends[creq[c]] > 0
    /\ nreq < MaxReq
    /\ started
    /\ cpc' = [cpc EXCEPT ![c] = "pop"]
    /\ UNCHANGED <<reqVars, opVars, tokVars, engVars, bkVars, cslot, creq, cld, histVars>>

(* pop_front_idle_req, which also clears both op_info nodes of the entry,  *)
(* linked or not, and the copy of the request.                             *)
pop_front_idle_req(c) ==
    /\ ClMayRun(c)
    /\ cpc[c] = "pop"
    /\ nreq < MaxReq
    /\ idleQ # <<>>
    /\ LET s == Head(idleQ)
           mine == {<<"add", s>>, <<"free", s>>}
       IN /\ idleQ' = Tail(idleQ)
          /\ status' = [status EXCEPT ![s] = {}]
          /\ req' = [req EXCEPT ![s] = nreq + 1]
          /\ used' = [n \in OpNode |-> IF n \in mine THEN FALSE ELSE used[n]]
          /\ otype' = [n \in OpNode |-> IF n \in mine THEN "none" ELSE otype[n]]
          /\ corrupt' = (corrupt \/ mine \cap ToSet(opQ) # {})
          /\ cslot' = [cslot EXCEPT ![c] = s]
    /\ nreq' = nreq + 1
    /\ creq' = [creq EXCEPT ![c] = nreq + 1]
    /\ cpc' = [cpc EXCEPT ![c] = "push"]
    /\ UNCHANGED <<waitQ, skew, opQ, tokVars, engVars, bkVars, cld, ncall, ends, late,
                   lateEnq, torn, fgSeen>>

(* No idle entry: RTW_PHL_STATUS_RESOURCE.  (Also the end of the bound.)   *)
NoIdleReq(c) ==
    /\ ClMayRun(c)
    /\ cpc[c] = "pop"
    /\ idleQ = <<>> \/ nreq = MaxReq
    /\ cpc' = [cpc EXCEPT ![c] = "idle"]
    /\ UNCHANGED <<reqVars, opVars, tokVars, engVars, bkVars, cslot, creq, cld, histVars>>

(* push_back_wait_req links the entry first ... *)
push_back_wait_req(c) ==
    /\ ClMayRun(c)
    /\ cpc[c] = "push"
    /\ waitQ' = Append(waitQ, cslot[c])
    /\ late' = IF started THEN late ELSE late \cup {creq[c]}
    /\ cpc' = [cpc EXCEPT ![c] = "enq"]
    /\ UNCHANGED <<status, req, idleQ, skew, opVars, tokVars, engVars, bkVars, cslot,
                   creq, cld, nreq, ncall, ends, lateEnq, torn, fgSeen>>

(* ... and marks it ENQ afterwards, when the entry may have been taken,   *)
(* ended and recycled already.                                             *)
LoadEnq(c) ==
    /\ ClMayRun(c)
    /\ cpc[c] = "enq"
    /\ LoadFlags(c)
    /\ cpc' = [cpc EXCEPT ![c] = "enqset"]
    /\ UNCHANGED <<reqVars, opVars, tokVars, engVars, bkVars, cslot, creq, histVars>>

SetEnq(c) ==
    /\ ClMayRun(c)
    /\ cpc[c] = "enqset"
    /\ SetFlag(c, "ENQ")
    /\ lateEnq' = IF cslot[c] \in ToSet(idleQ) THEN lateEnq \cup {req[cslot[c]]} ELSE lateEnq
    /\ cpc' = [cpc EXCEPT ![c] = "addop"]
    /\ UNCHANGED <<req, idleQ, waitQ, skew, opVars, tokVars, engVars, bkVars, cslot,
                   creq, nreq, ncall, ends, late, fgSeen>>

(* push_back_token_op_info: a node already in use is left alone, otherwise *)
(* it is linked; linking a node twice destroys the list.                   *)
push_back_token_op_info(c, n, type) ==
    /\ IF used[n]
       THEN /\ UNCHANGED opVars
            /\ cpc' = [cpc EXCEPT ![c] = "idle"]
       ELSE /\ used' = [used EXCEPT ![n] = TRUE]
            /\ otype' = [otype EXCEPT ![n] = type]
            /\ opQ' = Append(opQ, n)
            /\ corrupt' = (corrupt \/ n \in ToSet(opQ))
            /\ cpc' = [cpc EXCEPT ![c] = "up"]
    /\ UNCHANGED <<reqVars, tokVars, engVars, bkVars, cslot, creq, cld, histVars>>

AddOp(c) ==
    /\ ClMayRun(c)
    /\ cpc[c] = "addop"
    /\ push_back_token_op_info(c, <<"add", cslot[c]>>, "add")

(* Mutant: the thread is not notified. *)
NoNotify(c) ==
    /\ ClMayRun(c)
    /\ cpc[c] = "up"
    /\ cpc' = [cpc EXCEPT ![c] = "idle"]
    /\ UNCHANGED <<reqVars, opVars, tokVars, engVars, bkVars, cslot, creq, cld, histVars>>

(* notify_bk_thread: the semaphore is raised after the node was linked.    *)
notify_bk_thread(c) ==
    /\ ClMayRun(c)
    /\ cpc[c] = "up"
    /\ sema' = sema + 1
    /\ cpc' = [cpc EXCEPT ![c] = "idle"]
    /\ UNCHANGED <<reqVars, opVars, tokVars, stop, epc, bkVars, cslot, creq, cld,
                   histVars>>

(* dispr_cancel_token_req: the handle is only the index of the entry, so   *)
(* it may denote a later request by the time it is used.                   *)
dispr_cancel_token_req(c) ==
    /\ "cancel" \in Calls
    /\ ClMayRun(c)
    /\ Outside(c)
    /\ creq[c] # 0
    /\ ncall < MaxCall
    /\ started
    /\ status[cslot[c]] \cap {"ENQ", "RUN", "PREPARE"} # {}
    /\ LoadFlags(c)
    /\ ncall' = ncall + 1
    /\ cpc' = [cpc EXCEPT ![c] = "cxlset"]
    /\ UNCHANGED <<reqVars, opVars, tokVars, engVars, bkVars, cslot, creq, nreq, ends,
                   late, lateEnq, torn, fgSeen>>

CancelSet(c) ==
    /\ ClMayRun(c)
    /\ cpc[c] = "cxlset"
    /\ SetFlag(c, "CANCEL")
    /\ cpc' = [cpc EXCEPT ![c] = "cxlop"]
    /\ UNCHANGED <<req, idleQ, waitQ, skew, opVars, tokVars, engVars, bkVars, cslot,
                   creq, nreq, ncall, ends, late, lateEnq, fgSeen>>

CancelOp(c) ==
    /\ ClMayRun(c)
    /\ cpc[c] = "cxlop"
    /\ push_back_token_op_info(c, <<"free", cslot[c]>>, "cancel")

dispr_free_token(c) ==
    /\ "free" \in Calls
    /\ ClMayRun(c)
    /\ Outside(c)
    /\ creq[c] # 0
    /\ ncall < MaxCall
    /\ started
    /\ cur # None /\ tokenCnt # 0
    /\ status[cslot[c]] \cap {"RUN", "PREPARE"} # {}
    /\ LoadFlags(c)
    /\ ncall' = ncall + 1
    /\ cpc' = [cpc EXCEPT ![c] = "freeset"]
    /\ UNCHANGED <<reqVars, opVars, tokVars, engVars, bkVars, cslot, creq, nreq, ends,
                   late, lateEnq, torn, fgSeen>>

FreeSet(c) ==
    /\ ClMayRun(c)
    /\ cpc[c] = "freeset"
    /\ SetFlag(c, "CANCEL")
    /\ cpc' = [cpc EXCEPT ![c] = "freeop"]
    /\ UNCHANGED <<req, idleQ, waitQ, skew, opVars, tokVars, engVars, bkVars, cslot,
                   creq, nreq, ncall, ends, late, lateEnq, fgSeen>>

FreeOp(c) ==
    /\ ClMayRun(c)
    /\ cpc[c] = "freeop"
    /\ push_back_token_op_info(c, <<"free", cslot[c]>>, "free")

(* dispr_is_fg_empty looks at the wait queue and then at the operations    *)
(* and the token count; the caller's answer is kept as cpc = "fgempty".    *)
Added(r) == r \in 1..nreq /\ ~\E c \in Client : creq[c] = r /\ cpc[c] \in AddPc

dispr_is_fg_empty(c) ==
    /\ "fgempty" \in Calls
    /\ ClMayRun(c)
    /\ cpc[c] = "idle"
    /\ ncall < MaxCall
    /\ ncall' = ncall + 1
    /\ Len(waitQ) <= skew
    /\ fgSeen' = [fgSeen EXCEPT ![c] = {r \in Req : Added(r) /\ ends[r] = 0}]
    /\ cpc' = [cpc EXCEPT ![c] = "fg2"]
    /\ UNCHANGED <<reqVars, opVars, tokVars, engVars, bkVars, cslot, creq, cld,
                   nreq, ends, late, lateEnq, torn>>

(* Mutant: token_cnt is not tested. *)
FgEmptyOpsOnly(c) ==
    /\ ClMayRun(c)
    /\ cpc[c] = "fg2"
    /\ cpc' = [cpc EXCEPT ![c] = IF opQ # <<>> THEN "idle" ELSE "fgempty"]
    /\ fgSeen' = [fgSeen EXCEPT ![c] = {}]
    /\ UNCHANGED <<reqVars, opVars, tokVars, engVars, bkVars, cslot, creq, cld,
                   nreq, ncall, ends, late, lateEnq, torn>>

FgEmptyOps(c) ==
    /\ ClMayRun(c)
    /\ cpc[c] = "fg2"
    /\ cpc' = [cpc EXCEPT ![c] =
                 IF opQ # <<>> \/ tokenCnt > 0 THEN "idle" ELSE "fgempty"]
    /\ fgSeen' = [fgSeen EXCEPT ![c] = {}]
    /\ UNCHANGED <<reqVars, opVars, tokVars, engVars, bkVars, cslot, creq, cld,
                   nreq, ncall, ends, late, lateEnq, torn>>

Caller(c) ==
    \/ dispr_add_token_req(c) \/ pop_front_idle_req(c) \/ NoIdleReq(c)
    \/ push_back_wait_req(c) \/ LoadEnq(c) \/ SetEnq(c)
    \/ AddOp(c)
    \/ dispr_cancel_token_req(c) \/ CancelSet(c) \/ CancelOp(c)
    \/ dispr_free_token(c) \/ FreeSet(c) \/ FreeOp(c)
    \/ notify_bk_thread(c)
    \/ dispr_is_fg_empty(c) \/ FgEmptyOps(c)

-----------------------------------------------------------------------------
(* The background thread (share_thread_hdl, dispr_thread_loop_hdl). *)

LoopTop == IF stop THEN "leave" ELSE "wait"

(* Mutant: the thread does not wait. *)
ThreadNoWait ==
    /\ BkMayRun
    /\ bpc = "wait"
    /\ sema' = sema - 1
    /\ bpc' = IF stop THEN "leave" ELSE "ops"
    /\ UNCHANGED <<reqVars, opVars, tokVars, stop, epc, bslot, bnode, bnotify, bnext,
                   clVars, histVars>>

(* _os_sema_down, then the check of the stop flag. *)
share_thread_hdl ==
    /\ BkMayRun
    /\ bpc = "wait"
    /\ sema > 0
    /\ sema' = sema - 1
    /\ bpc' = IF stop THEN "leave" ELSE "ops"
    /\ UNCHANGED <<reqVars, opVars, tokVars, stop, epc, bslot, bnode, bnotify, bnext,
                   clVars, histVars>>

(* One round of the loop of token_op_hanler.  Popping from a list whose    *)
(* links were overwritten brings the kernel down.                          *)
token_op_hanler ==
    /\ BkMayRun
    /\ bpc = "ops"
    /\ \/ /\ opQ = <<>>
          /\ bpc' = "msg"
          /\ UNCHANGED <<opQ, bnode>>
       \/ /\ opQ # <<>> /\ corrupt
          /\ bpc' = "oops"
          /\ UNCHANGED <<opQ, bnode>>
       \/ /\ opQ # <<>> /\ ~corrupt
          /\ bnode' = Head(opQ)
          /\ opQ' = Tail(opQ)
          /\ bpc' = "handle"
    /\ UNCHANGED <<reqVars, used, otype, corrupt, tokVars, engVars, bslot, bnotify,
                   bnext, clVars, histVars>>

(* What _handle_token_op_info finds: its request is waiting, or runs. *)
FindsWaiting(t, s) == t = "cancel" /\ "ENQ" \in status[s]
(* Mutant: a cancel of the running request is ignored. *)
FindsOnlyFreed(t, s) == t = "free" /\ "RUN" \in status[s]

FindsRunning(t, s) ==
    \/ t = "free" /\ "RUN" \in status[s]
    \/ t = "cancel" /\ "ENQ" \notin status[s] /\ "RUN" \in status[s]

(* Mutant: the canceled entry stays linked. *)
KeepLinked(s) == s \in Slot /\ UNCHANGED waitQ

pq_del_node(s) == \E i \in DOMAIN waitQ : waitQ[i] = s /\ waitQ' = RemoveAt(waitQ, i)

(* _handle_token_op_info, for an operation that finds its request waiting: *)
(* the entry is unlinked and aborted.  list_del of a node that is in no    *)
(* list (the current request, or one a caller has just popped) faults.     *)
CancelWaiting ==
    /\ BkMayRun
    /\ bpc = "handle"
    /\ LET s == bnode[2]
       IN /\ FindsWaiting(otype[bnode], s)
          /\ s \notin ToSet(idleQ)
          /\ IF s \in ToSet(waitQ)
             THEN /\ pq_del_node(s)
                  /\ ends' = [ends EXCEPT ![req[s]] = @ + 1]
                  /\ bslot' = s
                  /\ bpc' = "cxlidle"
             ELSE /\ bpc' = "oops"
                  /\ UNCHANGED <<waitQ, ends, bslot>>
    /\ UNCHANGED <<status, req, idleQ, skew, opVars, tokVars, engVars, bnode, bnotify,
                   bnext, clVars, nreq, ncall, late, lateEnq, torn, fgSeen>>

(* The same on an entry that carries ENQ in the idle queue: pq_del_node    *)
(* unlinks it there, but counts down token_req_wait_q, and the request     *)
(* that was in the entry last is aborted again.                            *)
CancelRecycled ==
    /\ BkMayRun
    /\ bpc = "handle"
    /\ LET s == bnode[2]
       IN /\ FindsWaiting(otype[bnode], s)
          /\ \E i \in DOMAIN idleQ : idleQ[i] = s /\ idleQ' = RemoveAt(idleQ, i)
          /\ ends' = [ends EXCEPT ![req[s]] = @ + 1]
          /\ bslot' = s
    /\ skew' = skew + 1
    /\ bpc' = "cxlidle"
    /\ UNCHANGED <<status, req, waitQ, opVars, tokVars, engVars, bnode, bnotify, bnext,
                   clVars, nreq, ncall, late, lateEnq, torn, fgSeen>>

CancelIdle ==
    /\ BkMayRun
    /\ bpc = "cxlidle"
    /\ status' = [status EXCEPT ![bslot] = {}]
    /\ idleQ' = Append(idleQ, bslot)
    /\ bslot' = None
    /\ bpc' = "unuse"
    /\ UNCHANGED <<req, waitQ, skew, opVars, tokVars, engVars, bnode, bnotify, bnext,
                   clVars, histVars>>

(* _handle_token_op_info, for the other operations. *)
HandleOp ==
    /\ BkMayRun
    /\ bpc = "handle"
    /\ LET s == bnode[2]
           t == otype[bnode]
       IN \/ /\ t \in {"add", "renew"}
             /\ bpc' = "proc"
             /\ UNCHANGED <<bnotify, bnext>>
          \/ /\ FindsRunning(t, s)
             /\ bnotify' = (t = "cancel")
             /\ bnext' = "proc"
             /\ bpc' = "dereg"
          \/ /\ t \notin {"add", "renew"}
             /\ ~FindsWaiting(t, s) /\ ~FindsRunning(t, s)
             /\ bpc' = "unuse"
             /\ UNCHANGED <<bnotify, bnext>>
    /\ UNCHANGED <<reqVars, opVars, tokVars, engVars, bslot, bnode, clVars, histVars>>

(* `info->used = false', after the operation was handled. *)
OpHandled ==
    /\ BkMayRun
    /\ bpc = "unuse"
    /\ used' = [used EXCEPT ![bnode] = FALSE]
    /\ bnode' = None
    /\ bpc' = "ops"
    /\ UNCHANGED <<reqVars, opQ, otype, corrupt, tokVars, engVars, bslot,
                   bnotify, bnext, clVars, histVars>>

(* dispr_process_token_req: the early returns. *)
(* Mutant: token_cnt is not tested. *)
MayRegisterTwice == started /\ ~waitAbort

MayRegister == started /\ tokenCnt <= 0 /\ ~waitAbort

dispr_process_token_req ==
    /\ BkMayRun
    /\ bpc = "proc"
    /\ bpc' = IF MayRegister THEN "popreq" ELSE "unuse"
    /\ UNCHANGED <<reqVars, opVars, tokVars, engVars, bslot, bnode, bnotify, bnext,
                   clVars, histVars>>

(* send_bk_msg_phy_on / send_bk_msg_phy_idle ignore the result of the     *)
(* send, which fails when the stop of the engine has begun (the power      *)
(* module is out of the bitmap, DISPR_STARTED is cleared) and when         *)
(* msg_idle_q is empty.                                                    *)
MaySend == started /\ epc = "up"

(* Mutant: nothing is sent. *)
SendPhyNever(on) == on \in BOOLEAN /\ UNCHANGED <<phyOn, phyLost>>

SendPhy(on) ==
    \/ MaySend /\ phyOn' = on /\ phyLost' = FALSE
    \/ MaySend /\ MsgFail /\ phyLost' = (on \/ phyLost) /\ UNCHANGED phyOn
    \/ ~MaySend /\ UNCHANGED <<phyOn, phyLost>>

(* dispr_process_token_req, no request waits: PHY_IDLE. *)
NoReqLeft ==
    /\ BkMayRun
    /\ bpc = "popreq"
    /\ Len(waitQ) <= skew
    /\ notifyIdle' = TRUE
    /\ IF notifyIdle THEN UNCHANGED <<phyOn, phyLost>> ELSE SendPhy(FALSE)
    /\ bpc' = "unuse"
    /\ UNCHANGED <<reqVars, opVars, cur, tokenCnt, started, waitAbort, abortQ, engVars,
                   bslot, bnode, bnotify, bnext, clVars, histVars>>

(* pop_front_wait_req, and PHY_ON when the dispatcher was idle. *)
pop_front_wait_req ==
    /\ BkMayRun
    /\ bpc = "popreq"
    /\ Len(waitQ) > skew
    /\ LET s == Head(waitQ)
       IN /\ status' = [status EXCEPT ![s] = (@ \cup {"PREPARE"}) \ {"ENQ"}]
          /\ bslot' = s
    /\ waitQ' = Tail(waitQ)
    /\ notifyIdle' = FALSE
    /\ IF notifyIdle THEN SendPhy(TRUE) ELSE UNCHANGED <<phyOn, phyLost>>
    /\ bpc' = "reg"
    /\ UNCHANGED <<req, idleQ, skew, opVars, cur, tokenCnt, started, waitAbort, abortQ,
                   engVars, bnode, bnotify, bnext, clVars, histVars>>

(* register_cur_cmd_req up to the call of acquired(). *)
register_cur_cmd_req ==
    /\ BkMayRun
    /\ bpc = "reg"
    /\ status' = [status EXCEPT ![bslot] = (@ \cup {"RUN"}) \ {"PREPARE"}]
    /\ cur' = bslot
    /\ tokenCnt' = tokenCnt + 1
    /\ bslot' = None
    /\ bpc' = "acq"
    /\ UNCHANGED <<req, idleQ, waitQ, skew, opVars, started, notifyIdle, waitAbort, abortQ,
                   phyOn, phyLost, engVars, bnode, bnotify, bnext, clVars, histVars>>

(* acquired() returns; MDL_RET_FAIL gives the token back and the loop of   *)
(* dispr_process_token_req goes on with the next request.                  *)
AcquiredReturns ==
    /\ BkMayRun
    /\ bpc = "acq"
    /\ \/ /\ bpc' = "unuse"
          /\ UNCHANGED <<bnotify, bnext>>
       \/ /\ bpc' = "dereg"
          /\ bnotify' = FALSE
          /\ bnext' = "popreq"
    /\ UNCHANGED <<reqVars, opVars, tokVars, engVars, bslot, bnode, clVars, histVars>>

(* deregister_cur_cmd_req: RUN is cleared first, *)
deregister_cur_cmd_req ==
    /\ BkMayRun
    /\ bpc = "dereg"
    /\ IF cur = None
       THEN /\ bpc' = bnext
            /\ UNCHANGED <<status, ends>>
       ELSE /\ status' = [status EXCEPT ![cur] =
                             @ \ {"RUN"}]
            /\ ends' = [ends EXCEPT ![req[cur]] = @ + 1]
            /\ bpc' = IF bnotify THEN "permit" ELSE "recyc"
    /\ UNCHANGED <<req, idleQ, waitQ, skew, opVars, tokVars, engVars, bslot, bnode, bnotify,
                   bnext, clVars, nreq, ncall, late, lateEnq, torn, fgSeen>>

(* then LAST_PERMIT is set, *)
LastPermit ==
    /\ BkMayRun
    /\ bpc = "permit"
    /\ status' = [status EXCEPT ![cur] = @ \cup {"LAST_PERMIT"}]
    /\ bpc' = "abort"
    /\ UNCHANGED <<req, idleQ, waitQ, skew, opVars, tokVars, engVars, bslot, bnode, bnotify,
                   bnext, clVars, histVars>>

(* get_cur_cmd_req_id names the current request to dispr_send_msg, which   *)
(* takes a message under LAST_PERMIT too, but as FOR_ABORT only if it is   *)
(* one of the current request.                                             *)
get_cur_cmd_req_id == "RUN" \in status[cur] /\ "CANCEL" \notin status[cur]
ForAbort == get_cur_cmd_req_id /\ "LAST_PERMIT" \in status[cur]

(* then abort() is called and may send a message, *)
AbortCallback ==
    /\ BkMayRun
    /\ bpc = "abort"
    /\ \/ UNCHANGED <<abortQ, waitAbort>>
       \/ /\ started /\ "abortmsg" \in Calls
          /\ get_cur_cmd_req_id \/ "LAST_PERMIT" \in status[cur]
          /\ abortQ' = Append(abortQ, [req |-> req[cur], forAbort |-> ForAbort])
          /\ waitAbort' = (waitAbort \/ ForAbort)
    /\ status' = [status EXCEPT ![cur] = @ \ {"LAST_PERMIT"}]
    /\ bpc' = "recyc"
    /\ UNCHANGED <<req, idleQ, waitQ, skew, opVars, cur, tokenCnt, started, notifyIdle, phyOn,
                   phyLost, engVars, bslot, bnode, bnotify, bnext, clVars, histVars>>

(* then the entry is recycled, *)
push_back_idle_req ==
    /\ BkMayRun
    /\ bpc = "recyc"
    /\ status' = [status EXCEPT ![cur] = {}]
    /\ idleQ' = Append(idleQ, cur)
    /\ bpc' = "drop"
    /\ UNCHANGED <<req, waitQ, skew, opVars, tokVars, engVars, bslot, bnode, bnotify, bnext,
                   clVars, histVars>>

(* Mutant: no other request is looked for. *)
DropTokenOnly ==
    /\ BkMayRun
    /\ bpc = "drop"
    /\ tokenCnt' = tokenCnt - 1
    /\ cur' = None
    /\ bpc' = IF bnext = "proc" THEN "unuse" ELSE bnext
    /\ bnotify' = FALSE /\ bnext' = "proc"
    /\ UNCHANGED <<reqVars, opVars, started, notifyIdle, waitAbort, abortQ, phyOn,
                   phyLost, engVars, bslot, bnode, clVars, histVars>>

(* and last the token is given back. *)
DropToken ==
    /\ BkMayRun
    /\ bpc = "drop"
    /\ tokenCnt' = tokenCnt - 1
    /\ cur' = None
    /\ bpc' = bnext /\ bnotify' = FALSE /\ bnext' = "proc"
    /\ UNCHANGED <<reqVars, opVars, started, notifyIdle, waitAbort, abortQ, phyOn,
                   phyLost, engVars, bslot, bnode, clVars, histVars>>

(* on_abort_msg_complete: dispr_process_token_req is to be run again.      *)
on_abort_msg_complete ==
    /\ waitAbort' = FALSE
    /\ IF used[Renew]
       THEN UNCHANGED <<opVars, sema>>
       ELSE /\ used' = [used EXCEPT ![Renew] = TRUE]
            /\ otype' = [otype EXCEPT ![Renew] = "renew"]
            /\ opQ' = Append(opQ, Renew)
            /\ sema' = sema + 1
            /\ UNCHANGED corrupt

(* The rest of dispr_thread_loop_hdl handles one message: an abort message *)
(* (push_back_idle_msg) or some other one.                                 *)
HandleMsg ==
    /\ BkMayRun
    /\ bpc = "msg"
    /\ \/ UNCHANGED <<abortQ, waitAbort, opVars, sema>>
       \/ /\ abortQ # <<>>
          /\ abortQ' = Tail(abortQ)
          /\ IF Head(abortQ).forAbort
             THEN on_abort_msg_complete
             ELSE UNCHANGED <<waitAbort, opVars, sema>>
    /\ bpc' = LoopTop
    /\ UNCHANGED <<reqVars, cur, tokenCnt, started, notifyIdle, phyOn, phyLost, stop, epc,
                   bslot, bnode, bnotify, bnext, clVars, histVars>>

(* dispr_thread_leave_hdl: the current request is aborted, *)
dispr_thread_leave_hdl ==
    /\ BkMayRun
    /\ bpc = "leave"
    /\ bnotify' = TRUE
    /\ bnext' = "clrreq"
    /\ bpc' = "dereg"
    /\ UNCHANGED <<reqVars, opVars, tokVars, engVars, bslot, bnode, clVars, histVars>>

(* Mutant: the waiting requests are left alone. *)
ClearNothing ==
    /\ BkMayRun
    /\ bpc = "clrreq"
    /\ bpc' = "done"
    /\ UNCHANGED <<reqVars, opVars, tokVars, engVars, bslot, bnode, bnotify, bnext, clVars,
                   histVars>>

(* then clear_wating_req, whose outer loop ends when the idle queue counts *)
(* all entries (it spins while a caller holds one) ...                     *)
clear_wating_req ==
    /\ BkMayRun
    /\ bpc = "clrreq"
    /\ bpc' = IF Len(idleQ) + skew = NReq THEN "done" ELSE "clrpop"
    /\ UNCHANGED <<reqVars, opVars, tokVars, engVars, bslot, bnode, bnotify, bnext, clVars,
                   histVars>>

(* ... and whose inner loop aborts and recycles the waiting ones. *)
ClearPop ==
    /\ BkMayRun
    /\ bpc = "clrpop"
    /\ \/ /\ Len(waitQ) <= skew
          /\ bpc' = "clrreq"
          /\ UNCHANGED <<status, idleQ, waitQ, ends>>
       \/ /\ Len(waitQ) > skew
          /\ LET s == Head(waitQ)
             IN /\ status' = [status EXCEPT ![s] = {}]
                /\ idleQ' = Append(idleQ, s)
                /\ ends' = [ends EXCEPT ![req[s]] = @ + 1]
          /\ waitQ' = Tail(waitQ)
          /\ UNCHANGED bpc
    /\ UNCHANGED <<req, skew, opVars, tokVars, engVars, bslot, bnode, bnotify, bnext, clVars,
                   nreq, ncall, late, lateEnq, torn, fgSeen>>

Background ==
    \/ share_thread_hdl \/ token_op_hanler
    \/ CancelWaiting \/ CancelRecycled \/ CancelIdle \/ HandleOp \/ OpHandled
    \/ dispr_process_token_req \/ NoReqLeft \/ pop_front_wait_req
    \/ register_cur_cmd_req \/ AcquiredReturns
    \/ deregister_cur_cmd_req \/ LastPermit \/ AbortCallback \/ push_back_idle_req \/ DropToken
    \/ HandleMsg \/ dispr_thread_leave_hdl \/ clear_wating_req \/ ClearPop

-----------------------------------------------------------------------------
(* phl_disp_eng_stop. *)

(* dispr_module_stop takes the modules out of the bitmap and stops them;   *)
(* from then on the power module may not send (see MaySend).               *)
dispr_module_stop ==
    /\ EngMayRun
    /\ MayStop
    /\ epc = "up"
    /\ epc' = "mdlstop"
    /\ UNCHANGED <<reqVars, opVars, tokVars, sema, stop, bkVars, clVars, histVars>>

(* dispr_thread_stop_prior_hdl: no new calls, ... *)
StopPrior ==
    /\ EngMayRun
    /\ epc = "mdlstop"
    /\ started' = FALSE
    /\ epc' = "cancelall"
    /\ UNCHANGED <<reqVars, opVars, cur, tokenCnt, notifyIdle, waitAbort, abortQ, phyOn,
                   phyLost, sema, stop, bkVars, clVars, histVars>>

(* ... and cancel_all_cmd_req marks every entry that is in use. *)
cancel_all_cmd_req ==
    /\ EngMayRun
    /\ epc = "cancelall"
    /\ status' = [s \in Slot |-> IF status[s] = {} THEN {} ELSE status[s] \cup {"CANCEL"}]
    /\ epc' = "threadstop"
    /\ UNCHANGED <<req, idleQ, waitQ, skew, opVars, tokVars, sema, stop, bkVars, clVars,
                   histVars>>

(* Mutant: the thread is not woken. *)
ThreadStopNoUp ==
    /\ EngMayRun
    /\ epc = "threadstop"
    /\ stop' = TRUE
    /\ epc' = "join"
    /\ UNCHANGED <<reqVars, opVars, tokVars, sema, bkVars, clVars, histVars>>

(* _os_thread_stop and _os_sema_up, then the thread is joined. *)
ThreadStop ==
    /\ EngMayRun
    /\ epc = "threadstop"
    /\ stop' = TRUE
    /\ sema' = sema + 1
    /\ epc' = "join"
    /\ UNCHANGED <<reqVars, opVars, tokVars, bkVars, clVars, histVars>>

(* dispr_thread_stop_post_hdl. *)
StopPost ==
    /\ EngMayRun
    /\ epc = "join"
    /\ bpc = "done"
    /\ tokenCnt' = 0
    /\ epc' = "off"
    /\ UNCHANGED <<reqVars, opVars, cur, started, notifyIdle, waitAbort, abortQ, phyOn,
                   phyLost, sema, stop, bkVars, clVars, histVars>>

Engine == dispr_module_stop \/ StopPrior \/ cancel_all_cmd_req \/ ThreadStop \/ StopPost

Next == Background \/ Engine \/ \E c \in Client : Caller(c)

Spec == Init /\ [][Next]_vars

-----------------------------------------------------------------------------
(* Fairness.  The share thread is a kernel thread that runs whenever it is *)
(* not blocked, and a caller that entered an API call runs it to its end:  *)
(* no API call sleeps.  Fairness is strong because with Cpu = "nopreempt"  *)
(* a runnable thread is disabled while another one has the CPU, and the    *)
(* scheduler gives it its turn.  Nothing obliges anyone to start a call.   *)
CallerGoesOn(c) ==
    \/ pop_front_idle_req(c) \/ NoIdleReq(c) \/ push_back_wait_req(c) \/ LoadEnq(c)
    \/ SetEnq(c) \/ AddOp(c) \/ CancelSet(c) \/ CancelOp(c) \/ FreeSet(c) \/ FreeOp(c)
    \/ notify_bk_thread(c) \/ FgEmptyOps(c)
StopGoesOn == StopPrior \/ cancel_all_cmd_req \/ ThreadStop \/ StopPost

Fairness ==
    /\ SF_vars(Background)
    /\ SF_vars(StopGoesOn)
    /\ \A c \in Client : SF_vars(CallerGoesOn(c))

FairSpec == Spec /\ Fairness

-----------------------------------------------------------------------------
(* Safety. *)

(* token_cnt, which dispr_process_token_req tests, and cur_cmd_req, which  *)
(* deregister_cur_cmd_req acts on, never disagree: at most one request has *)
(* the token, whatever the callers do meanwhile.                           *)
TokenMatchesCur == tokenCnt = IF cur = None THEN 0 ELSE 1

(* Only cur_cmd_req is marked RUN, so an operation that finds RUN on its   *)
(* entry deregisters that entry and no other one.  The one way to a false  *)
(* mark is a caller on another CPU that writes an outdated flag word back. *)
OnlyCurRuns == \A s \in Slot : "RUN" \in status[s] => cur = s \/ req[s] \in torn

(* Where the entry s is: at a place of a queue, with the caller that took  *)
(* it from the idle queue, or with the background thread.                  *)
Places(s) ==
    {<<"idle", i>> : i \in {j \in DOMAIN idleQ : idleQ[j] = s}}
    \cup {<<"wait", i>> : i \in {j \in DOMAIN waitQ : waitQ[j] = s}}
    \cup {<<"client", c>> : c \in {d \in Client : cpc[d] = "push" /\ cslot[d] = s}}
    \cup {<<"bk", p>> : p \in {"reg", "cxlidle"} \cap (IF bslot = s THEN {bpc} ELSE {})}
    \cup {<<"cur", p>> : p \in IF cur = s /\ bpc # "drop" THEN {0} ELSE {}}

(* No pool entry is lost or linked twice: each one is at exactly one       *)
(* place at all times (pop_front_*, push_back_* and the cancel path).      *)
EntryAtOnePlace == \A s \in Slot : Cardinality(Places(s)) = 1

(* notify_bk_thread comes after the node is linked, and the thread drains  *)
(* token_op_q after each sema_down: it never sleeps on a queued operation. *)
NoSleepOnOp ==
    opQ # <<>> /\ bpc = "wait" => sema > 0 \/ \E c \in Client : cpc[c] = "up"

(* A request is told at most once that it is over (acquired() failed,      *)
(* token freed, or abort()), also when several cancels, a free and the     *)
(* stop of the engine race for it.  Only one whose idle entry was marked   *)
(* ENQ, by push_back_wait_req itself or by an outdated flag word, may be   *)
(* told again.                                                             *)
OverOnce == \A r \in Req : ends[r] <= 1 \/ r \in lateEnq \cup torn

(* The counters of the two queues are wrong only after such a mark. *)
CountersRight == skew = 0 \/ lateEnq \cup torn # {}

(* Entries and the requests in them keep together, although handles are    *)
(* bare indices and outlive the request they were given for.               *)
EntryInv == EntryAtOnePlace /\ OverOnce /\ CountersRight

(* The power module was told PHY_ON before any request gets the token, and *)
(* PHY_IDLE only when none has it, unless that PHY_ON found no message     *)
(* buffer or the stop of the engine has begun.                             *)
PhyOnWhileHeld == cur # None /\ epc = "up" => phyOn \/ phyLost

(* When the thread has left, every request that was linked before the stop *)
(* began is over: the leave handler forgets none, unless the counters it   *)
(* goes by are wrong.                                                      *)
LeaveEndsAll ==
    bpc = "done" /\ skew = 0 => \A r \in Req : Added(r) => r \in late \/ ends[r] = 1

(* dispr_is_fg_empty reads the wait queue before the operations and the    *)
(* token count.  When it says that there is no foreground command, the one *)
(* request it may have missed is the one that the thread has just taken    *)
(* from the wait queue and not yet counted (register_cur_cmd_req).         *)
FgEmptyMissesOne ==
    [][\A c \in Client : cpc[c] = "fg2" /\ cpc'[c] = "fgempty" /\ skew = 0 =>
          \A r \in fgSeen[c] : ends[r] > 0 \/ (bpc = "reg" /\ req[bslot] = r)]_vars

-----------------------------------------------------------------------------
(* Liveness. *)

Oops == bpc = "oops"

(* @abort, "notify requestor when cmd has been canceled": a cancel that    *)
(* was queued for a request ends it, whatever its holder does.             *)
CancelEnds ==
    \A r \in Req :
        (\E s \in Slot : req[s] = r /\ <<"free", s>> \in ToSet(opQ)
                        /\ otype[<<"free", s>>] = "cancel" /\ ends[r] = 0)
        ~> (ends[r] > 0 \/ r \in late \/ Oops)

(* If the token always becomes free again, every request gets its turn,    *)
(* except one that is linked only after the stop of the engine began.      *)
EveryoneServed ==
    []<>(cur = None) => \A r \in Req : (nreq >= r) ~> (ends[r] > 0 \/ r \in late \/ Oops)

(* phl_disp_eng_stop returns: the thread is not left waiting for a pool    *)
(* entry that nobody gives back.                                           *)
StopReturns == (epc # "up") ~> (epc = "off" \/ Oops)

-----------------------------------------------------------------------------
(* The promise.  A request that the thread has taken from the wait queue   *)
(* and not yet registered still waits; one that is being ended is over.    *)
PendingReqs == (IF bpc = "reg" THEN <<req[bslot]>> ELSE <<>>) \o Values(req, waitQ)
HolderReq ==
    IF cur # None /\ bpc \notin {"permit", "abort", "recyc", "drop"} THEN req[cur] ELSE 0
OverReqs == {r \in Req : ends[r] > 0}

Promise == INSTANCE FgToken WITH
    Request <- Req, Nobody <- 0,
    pending <- PendingReqs, holder <- HolderReq, over <- OverReqs

(* The detailed dispatcher implements the promise of FgToken: the queues,  *)
(* operations and callbacks never grant the token twice or out of order.   *)
KeepsPromise == Promise!Spec

-----------------------------------------------------------------------------
(* What the comments of the source say and the code does not do. *)

(* dispr_process_token_req: "wait for abort msg sent from prev req finish  *)
(* before register next req".                                              *)
AbortMsgBeforeNextReq == bpc = "reg" => abortQ = <<>>

=============================================================================
