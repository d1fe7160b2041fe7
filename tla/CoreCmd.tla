------------------------------- MODULE CoreCmd -------------------------------
(***************************************************************************)
(* The command queue of the core (core/rtw_cmd.c): threads submit command  *)
(* objects, rtw_cmd_thread runs them one at a time and frees them, and a   *)
(* submitter that asked for an acknowledgement sleeps on a submit context  *)
(* (struct submit_ctx) that lies on its own stack, for 10 s at most.       *)
(*                                                                         *)
(* A command is identified with its submission: c stands for the cmd_obj,  *)
(* for the thread that submits it and for the frame of that thread.        *)
(***************************************************************************)
EXTENDS Integers, Sequences, FiniteSets, SequencesExt

CONSTANTS
    Cmd,        \* the submissions
    Kinds,      \* what may be submitted: [ack, no_io, hdl : BOOLEAN]
    MaxStart    \* bound: how often the command thread is started

(* NULL *)
None == "none"

ASSUME CoreCmdAssumption ==
    /\ Kinds \subseteq [ack : BOOLEAN, no_io : BOOLEAN, hdl : BOOLEAN]
    /\ MaxStart \in Nat \ {0}
    /\ Cmd \cap {None, "free", "thread"} = {}

VARIABLES
    queue,      \* cmd_queue
    sema,       \* the count of cmd_queue_sema
    running,    \* cmdthd_running
    stopped,    \* bDriverStopped
    removed,    \* bSurpriseRemoved, or bDriverStopped as a URB that ends with -ESHUTDOWN sets it
    hw,         \* hw_init_completed
    mutex,      \* sctx_mutex: "free", "thread", or a command whose submitter holds it
    tpc, cur,   \* where the command thread is, and pcmd
    draining,   \* the thread is in its last loop
    mgr, starts,    \* the thread that starts and stops the command thread
    kind, obj, res, \* of each command: what it is, its memory, pcmd->res
    sctx,       \* pcmd->sctx is not NULL
    status,     \* of each frame: sctx.status
    pc,         \* of each submitter: where it is
    intr,       \* history: a mutex_lock_interruptible was interrupted
    bad         \* history: accesses to memory that is gone

thread == <<tpc, cur, draining>>
objects == <<kind, obj, res, sctx>>
frames == <<status, pc, intr>>
env == <<running, stopped, removed, hw, mgr, starts>>
vars == <<queue, sema, mutex, thread, objects, frames, env, bad>>

NoKind == [ack |-> FALSE, no_io |-> FALSE, hdl |-> FALSE]
Holder == Cmd \cup {"free", "thread"}

TypeOK ==
    /\ queue \in Seq(Cmd) /\ sema \in Nat
    /\ {running, stopped, removed, hw, draining} \subseteq BOOLEAN
    /\ mutex \in Holder /\ cur \in Cmd \cup {None}
    /\ tpc \in {"none", "start", "down", "next", "run", "lock", "status", "complete",
                "free", "leave", "exit"}
    /\ mgr \in {"off", "starting", "up", "stopset", "join", "joined"}
    /\ starts \in 0..MaxStart
    /\ kind \in [Cmd -> Kinds \cup {NoKind}]
    /\ obj \in [Cmd -> {"none", "live", "freed"}]
    /\ res \in [Cmd -> {"none", "ok", "fail"}]
    /\ sctx \in [Cmd -> BOOLEAN]
    /\ status \in [Cmd -> {"none", "submitted", "success", "error", "drop"}]
    /\ pc \in [Cmd -> {"idle", "insert", "up", "wait", "lock", "held", "returned"}]
    /\ intr \in BOOLEAN
    /\ bad \subseteq {"frame", "object"}

Init ==
    /\ queue = <<>> /\ sema = 0 /\ mutex = "free"
    /\ running = FALSE /\ stopped = FALSE /\ removed = FALSE /\ hw = FALSE
    /\ tpc = "none" /\ cur = None /\ draining = FALSE
    /\ mgr = "off" /\ starts = 0
    /\ kind = [c \in Cmd |-> NoKind]
    /\ obj = [c \in Cmd |-> "none"]
    /\ res = [c \in Cmd |-> "none"]
    /\ sctx = [c \in Cmd |-> FALSE]
    /\ status = [c \in Cmd |-> "none"]
    /\ pc = [c \in Cmd |-> "idle"]
    /\ intr = FALSE /\ bad = {}

(* RTW_CANNOT_RUN *)
CannotRun == stopped \/ removed

(* rtw_cmd_filter: without the hardware only commands that need no I/O (no_io, *)
(* or a channel plan) pass, and none while the command thread is not running.  *)
rtw_cmd_filter(k) == (hw \/ k.no_io) /\ running

(* A read or write of the cmd_obj c, or of the frame of its submitter. *)
TouchObj(c) == IF obj[c] = "freed" THEN {"object"} ELSE {}
TouchFrame(c) == IF pc[c] = "returned" THEN {"frame"} ELSE {}
-----------------------------------------------------------------------------
(* The submitters.  A command whose submission is refused is freed at once. *)

rtw_enqueue_cmd(c) ==
    /\ pc[c] = "idle"
    /\ \E k \in Kinds :
          IF rtw_cmd_filter(k)
             THEN /\ kind' = [kind EXCEPT ![c] = k]
                  /\ obj' = [obj EXCEPT ![c] = "live"]
                  /\ sctx' = [sctx EXCEPT ![c] = k.ack]
                  /\ status' = [status EXCEPT ![c] = IF k.ack THEN "submitted" ELSE @]
                  /\ pc' = [pc EXCEPT ![c] = "insert"]
             ELSE /\ obj' = [obj EXCEPT ![c] = "freed"]
                  /\ pc' = [pc EXCEPT ![c] = "returned"]
                  /\ UNCHANGED <<kind, sctx, status>>
    /\ UNCHANGED <<queue, sema, mutex, thread, res, intr, env, bad>>

_rtw_enqueue_cmd(c) ==
    /\ pc[c] = "insert"
    /\ queue' = Append(queue, c)
    /\ pc' = [pc EXCEPT ![c] = "up"]
    /\ UNCHANGED <<sema, mutex, thread, objects, status, intr, env, bad>>

(* Mutant: only a submitter that finds its command alone in the queue wakes *)
(* the thread.                                                              *)
UpSemaWhenAlone(c) ==
    /\ pc[c] = "up"
    /\ sema' = IF Len(queue) = 1 THEN sema + 1 ELSE sema
    /\ pc' = [pc EXCEPT ![c] = IF kind[c].ack THEN "wait" ELSE "returned"]
    /\ UNCHANGED <<queue, mutex, thread, objects, status, intr, env, bad>>

(* _rtw_up_sema, after which a submitter that wants no acknowledgement is done. *)
UpSema(c) ==
    /\ pc[c] = "up"
    /\ sema' = sema + 1
    /\ pc' = [pc EXCEPT ![c] = IF kind[c].ack THEN "wait" ELSE "returned"]
    /\ UNCHANGED <<queue, mutex, thread, objects, status, intr, env, bad>>

(* rtw_sctx_wait returns because of the completion, or after 10 s without it. *)
rtw_sctx_wait(c) ==
    /\ pc[c] = "wait"
    /\ pc' = [pc EXCEPT ![c] = "lock"]
    /\ UNCHANGED <<queue, sema, mutex, thread, objects, status, intr, env, bad>>

(* What the submitter does between the lock and the unlock of sctx_mutex:  *)
(* it takes back the pointer to its frame, unless the answer is there.     *)
Disown(c) ==
    IF status[c] = "submitted"
      THEN /\ sctx' = [sctx EXCEPT ![c] = FALSE] /\ bad' = bad \cup TouchObj(c)
      ELSE UNCHANGED <<sctx, bad>>

SctxLock(c) ==
    /\ pc[c] = "lock"
    /\ mutex = "free"
    /\ mutex' = c
    /\ pc' = [pc EXCEPT ![c] = "held"]
    /\ UNCHANGED <<queue, sema, thread, objects, status, intr, env, bad>>

(* mutex_lock_interruptible has to wait, a signal is pending, and its result *)
(* is ignored.                                                               *)
SctxLockInterrupted(c) ==
    /\ pc[c] = "lock"
    /\ mutex # "free"
    /\ intr' = TRUE
    /\ pc' = [pc EXCEPT ![c] = "held"]
    /\ UNCHANGED <<queue, sema, mutex, thread, objects, status, env, bad>>

(* Mutant: the frame goes and its address stays with the command. *)
SctxUnlockKeepsPointer(c) ==
    /\ pc[c] = "held"
    /\ UNCHANGED <<sctx, bad>>
    /\ mutex' = "free"
    /\ pc' = [pc EXCEPT ![c] = "returned"]
    /\ status' = [status EXCEPT ![c] = "none"]
    /\ UNCHANGED <<queue, sema, thread, kind, obj, res, intr, env>>

(* The submitter disowns the context, unlocks (whoever holds the mutex), reads *)
(* its status and returns.                                                    *)
SctxUnlock(c) ==
    /\ pc[c] = "held"
    /\ Disown(c)
    /\ mutex' = "free"
    /\ pc' = [pc EXCEPT ![c] = "returned"]
    /\ status' = [status EXCEPT ![c] = "none"]
    /\ UNCHANGED <<queue, sema, thread, kind, obj, res, intr, env>>

-----------------------------------------------------------------------------
(* rtw_cmd_thread *)

ThreadStart ==
    /\ tpc = "start"
    /\ running' = TRUE
    /\ mgr' = "up"
    /\ tpc' = "down"
    /\ UNCHANGED <<queue, sema, mutex, cur, draining, objects, frames, stopped, removed, hw,
                   starts, bad>>

(* _rtw_down_sema, then the tests of the driver's state and of the queue. *)
ThreadDown ==
    /\ tpc = "down"
    /\ sema > 0
    /\ sema' = sema - 1
    /\ tpc' = IF CannotRun THEN "leave" ELSE IF queue = <<>> THEN "down" ELSE "next"
    /\ UNCHANGED <<queue, mutex, cur, draining, objects, frames, env, bad>>

(* A signal ends _rtw_down_sema: the thread leaves. *)
ThreadInterrupted ==
    /\ tpc = "down"
    /\ tpc' = "leave"
    /\ UNCHANGED <<queue, sema, mutex, cur, draining, objects, frames, env, bad>>

(* _next: the driver's state, then rtw_dequeue_cmd.  The last loop drops what *)
(* is queued until nothing is.                                                *)
rtw_dequeue_cmd ==
    /\ tpc = "next"
    /\ \/ /\ ~draining /\ CannotRun
          /\ tpc' = "leave"
          /\ UNCHANGED <<queue, cur>>
       \/ /\ draining \/ ~CannotRun
          /\ queue = <<>>
          /\ tpc' = IF draining THEN "exit" ELSE "down"
          /\ UNCHANGED <<queue, cur>>
       \/ /\ draining \/ ~CannotRun
          /\ queue # <<>>
          /\ cur' = Head(queue)
          /\ queue' = Tail(queue)
          /\ tpc' = IF draining THEN "lock" ELSE "run"
    /\ UNCHANGED <<sema, mutex, draining, objects, frames, env, bad>>

(* A command without a handler, one that the filter drops after all, and one *)
(* that is run.                                                              *)
cmd_hdl ==
    /\ tpc = "run"
    /\ \E r \in IF kind[cur].hdl /\ rtw_cmd_filter(kind[cur]) THEN {"ok", "fail"} ELSE {"fail"} :
        res' = [res EXCEPT ![cur] = r]
    /\ tpc' = "lock"
    /\ bad' = bad \cup TouchObj(cur)
    /\ UNCHANGED <<queue, sema, mutex, cur, draining, kind, obj, sctx, frames, env>>

(* post_process: the mutex, and whether a submitter still waits. *)
PostLock ==
    /\ tpc = "lock"
    /\ mutex = "free"
    /\ bad' = bad \cup TouchObj(cur)
    /\ IF sctx[cur] THEN mutex' = "thread" /\ tpc' = "status"
                    ELSE tpc' = "free" /\ UNCHANGED mutex
    /\ UNCHANGED <<queue, sema, cur, draining, objects, frames, env>>

(* A signal interrupts the wait for the mutex, and the thread goes on. *)
PostLockInterrupted ==
    /\ tpc = "lock"
    /\ mutex # "free"
    /\ intr' = TRUE
    /\ bad' = bad \cup TouchObj(cur)
    /\ IF sctx[cur] THEN tpc' = "status" /\ UNCHANGED mutex
                    ELSE tpc' = "free" /\ mutex' = "free"
    /\ UNCHANGED <<queue, sema, cur, draining, objects, status, pc, env>>

(* rtw_sctx_done or rtw_sctx_done_err: the status, *)
SctxStatus ==
    /\ tpc = "status"
    /\ status' = [status EXCEPT ![cur] =
           IF draining THEN "drop" ELSE IF res[cur] = "ok" THEN "success" ELSE "error"]
    /\ bad' = bad \cup TouchFrame(cur)
    /\ tpc' = "complete"
    /\ UNCHANGED <<queue, sema, mutex, cur, draining, objects, pc, intr, env>>

(* then the completion and the pointer, then the unlock. *)
SctxComplete ==
    /\ tpc = "complete"
    /\ sctx' = [sctx EXCEPT ![cur] = FALSE]
    /\ bad' = bad \cup TouchFrame(cur)
    /\ mutex' = "free"
    /\ tpc' = "free"
    /\ UNCHANGED <<queue, sema, cur, draining, kind, obj, res, status, pc, intr, env>>

(* pcmd->res goes with the memory: TouchObj records who comes back for it. *)
rtw_free_cmd_obj ==
    /\ tpc = "free"
    /\ obj' = [obj EXCEPT ![cur] = "freed"]
    /\ res' = [res EXCEPT ![cur] = "none"]
    /\ bad' = bad \cup TouchObj(cur)
    /\ cur' = None
    /\ tpc' = "next"
    /\ UNCHANGED <<queue, sema, mutex, draining, kind, sctx, frames, env>>

(* "to avoid enqueue cmd after free all cmd_obj" *)
ThreadLeave ==
    /\ tpc = "leave"
    /\ running' = FALSE
    /\ draining' = TRUE
    /\ tpc' = "next"
    /\ UNCHANGED <<queue, sema, mutex, cur, objects, frames, stopped, removed, hw, mgr,
                   starts, bad>>
-----------------------------------------------------------------------------
(* Starting, suspending, removing. *)

rtw_start_drv_threads ==
    /\ mgr = "off" /\ ~hw /\ starts < MaxStart
    /\ mgr' = "starting"
    /\ starts' = starts + 1
    /\ tpc' = "start"
    /\ draining' = FALSE
    /\ UNCHANGED <<queue, sema, mutex, cur, objects, frames, running, stopped, removed, hw, bad>>

(* rtw_set_hw_init_completed, as the initialisation of the HAL ends *)
rtk_hal_init ==
    /\ mgr = "up" /\ ~hw
    /\ hw' = TRUE
    /\ UNCHANGED <<queue, sema, mutex, thread, objects, frames, running, stopped, removed, mgr,
                   starts, bad>>

rtk_hal_deinit ==
    /\ mgr \in {"up", "off"} /\ hw
    /\ hw' = FALSE
    /\ UNCHANGED <<queue, sema, mutex, thread, objects, frames, running, stopped, removed, mgr,
                   starts, bad>>

dev_set_drv_stopped ==
    /\ mgr = "up"
    /\ stopped' = TRUE
    /\ mgr' = "stopset"
    /\ UNCHANGED <<queue, sema, mutex, thread, objects, frames, running, removed, hw, starts, bad>>

(* Mutant: the thread is not woken up. *)
StopWithoutUp ==
    /\ mgr = "stopset"
    /\ mgr' = "join"
    /\ UNCHANGED <<queue, sema, mutex, thread, objects, frames, running, stopped, removed, hw,
                   starts, bad>>

rtw_stop_cmd_thread ==
    /\ mgr = "stopset"
    /\ sema' = sema + 1
    /\ mgr' = "join"
    /\ UNCHANGED <<queue, mutex, thread, objects, frames, running, stopped, removed, hw, starts, bad>>

(* kthread_stop returns when the thread, in rtw_thread_wait_stop, has seen it. *)
rtw_thread_stop ==
    /\ mgr = "join" /\ tpc = "exit"
    /\ tpc' = "none"
    /\ mgr' = "joined"
    /\ UNCHANGED <<queue, sema, mutex, cur, draining, objects, frames, running, stopped,
                   removed, hw, starts, bad>>

rtw_clr_drv_stopped ==
    /\ mgr = "joined"
    /\ stopped' = FALSE
    /\ mgr' = "off"
    /\ UNCHANGED <<queue, sema, mutex, thread, objects, frames, running, removed, hw, starts, bad>>

dev_set_surprise_removed ==
    /\ ~removed
    /\ removed' = TRUE
    /\ UNCHANGED <<queue, sema, mutex, thread, objects, frames, running, stopped, hw, mgr,
                   starts, bad>>
-----------------------------------------------------------------------------
Submitter(c) ==
    \/ rtw_enqueue_cmd(c) \/ _rtw_enqueue_cmd(c) \/ UpSema(c)
    \/ rtw_sctx_wait(c) \/ SctxLock(c) \/ SctxLockInterrupted(c) \/ SctxUnlock(c)

CmdThread ==
    \/ ThreadStart \/ ThreadDown \/ rtw_dequeue_cmd \/ cmd_hdl
    \/ PostLock \/ SctxStatus \/ SctxComplete \/ rtw_free_cmd_obj \/ ThreadLeave

Manager ==
    \/ rtw_start_drv_threads \/ rtk_hal_init \/ rtk_hal_deinit
    \/ dev_set_drv_stopped \/ rtw_stop_cmd_thread \/ rtw_thread_stop \/ rtw_clr_drv_stopped

Next ==
    \/ \E c \in Cmd : Submitter(c)
    \/ CmdThread \/ ThreadInterrupted \/ PostLockInterrupted
    \/ Manager \/ dev_set_surprise_removed

Spec == Init /\ [][Next]_vars

Submission(c) ==
    _rtw_enqueue_cmd(c) \/ UpSema(c) \/ rtw_sctx_wait(c) \/ SctxLock(c) \/ SctxUnlock(c)

(* A submitter that has begun goes on, time passes for one that waits, the   *)
(* command thread is scheduled, and a stop that has begun goes on.  Nothing  *)
(* makes anyone submit, suspend, resume or unplug.                           *)
Fairness ==
    /\ \A c \in Cmd : WF_vars(Submission(c))
    /\ WF_vars(CmdThread)
    /\ WF_vars(rtw_stop_cmd_thread \/ rtw_thread_stop)

FairSpec == Spec /\ Fairness
-----------------------------------------------------------------------------
(* Properties *)

(* The thread never writes the submit context of a submitter that has      *)
(* returned: its status, its completion and its address are handed over    *)
(* under sctx_mutex.  Only a signal that interrupts a wait for the mutex,  *)
(* whose result nobody tests, can break this.                              *)
FramesOutlive == "frame" \in bad => intr

(* No command object is used after it is freed: a submitter whose wait     *)
(* timed out clears pcmd->sctx only while the thread has not answered.     *)
ObjectsOutlive == "object" \in bad => intr

(* What a submitter and the command thread share (the object, and the      *)
(* context in the frame of a submitter that waits) outlives the use that   *)
(* each of them makes of it, whichever ends first.                         *)
SharingInv == TypeOK /\ FramesOutlive /\ ObjectsOutlive

(* When the command thread sleeps and a command is queued, someone is on   *)
(* its way to wake it: the thread drains the queue without taking the      *)
(* semaphore, so surplus counts are normal, but missing ones would strand  *)
(* a command.                                                              *)
WakeupPending ==
    (tpc = "down" /\ sema = 0 /\ queue # <<>>) => \E c \in Cmd : pc[c] = "up"

(* Stopping the command thread ends, whatever it was doing and however     *)
(* many commands were queued.                                              *)
StopReturns == mgr = "join" ~> mgr = "joined"
=============================================================================
