---------------------------- MODULE CoreCmdProofs ----------------------------
(***************************************************************************)
(* Proofs about CoreCmd, for any set of submissions and of kinds of        *)
(* commands and any number of starts.                                      *)
(***************************************************************************)
EXTENDS CoreCmd, QueueLemmas

USE DEF thread, objects, frames, env

(* A submitter that has begun and not returned. *)
Active(c) == pc[c] \notin {"idle", "returned"}

(* The thread works on one command at some of its steps, and there is no   *)
(* thread before the start and after the stop.                             *)
ThreadInv ==
    /\ cur # None <=> tpc \in {"run", "lock", "status", "complete", "free"}
    /\ mgr \in {"off", "joined"} => tpc = "none"
    /\ mgr = "starting" <=> tpc = "start"

(* A command is queued once at most, after its submitter has inserted it,  *)
(* is not queued while it is in work, and there as long as it is either.   *)
QueueInv ==
    /\ IsInjective(queue) /\ cur \notin ToSet(queue)
    /\ \A c \in ToSet(queue) \cup {cur} :
           c \in Cmd => pc[c] \notin {"idle", "insert"} /\ obj[c] = "live"
    /\ \A c \in Cmd : /\ pc[c] = "idle" => ~sctx[c] /\ status[c] = "none"
                      /\ pc[c] = "insert" => obj[c] = "live"

(* The mutex is held by whoever is between its lock and its unlock, as     *)
(* long as no wait for it was interrupted.                                 *)
MutexInv ==
    ~intr => /\ mutex = "thread" <=> tpc \in {"status", "complete"}
             /\ \A c \in Cmd : mutex = c <=> pc[c] = "held"

(* A command points to the frame of its submitter as long as the submitter *)
(* is there and has no answer; who frees the command has taken the pointer *)
(* back before, and so has the submitter that returns.                     *)
PointerInv ==
    ~intr => /\ \A c \in Cmd :
                  /\ sctx[c] => Active(c) /\ kind[c].ack
                  /\ sctx[c] => status[c] = "submitted" \/ (tpc = "complete" /\ cur = c)
                  /\ Active(c) /\ status[c] = "submitted" => sctx[c]
                  /\ obj[c] = "freed" => ~sctx[c]
                  /\ pc[c] \in {"wait", "lock", "held"} => kind[c].ack
             /\ tpc \in {"status", "complete"} => sctx[cur]
             /\ tpc = "complete" => status[cur] # "submitted"
             /\ tpc = "free" => ~sctx[cur]

(* Unless it drains the queue, the thread has a wakeup for what is queued. *)
WakeInv ==
    (tpc \in {"down", "start", "none", "exit"} /\ sema = 0 /\ queue # <<>>)
        => \E c \in Cmd : pc[c] = "up"

OutliveInv == FramesOutlive /\ ObjectsOutlive

IInv == TypeOK /\ ThreadInv /\ QueueInv /\ MutexInv /\ PointerInv /\ OutliveInv /\ WakeInv

(* No command is submitted and no thread is there in the initial states. *)
LEMMA CoreInit == Init => IInv
<1> SUFFICES ASSUME Init PROVE IInv
  OBVIOUS
<1>1. queue \in Seq(Cmd) /\ ToSet(queue) = {} /\ IsInjective(queue)
  BY EmptyQueue DEF Init
<1>2. TypeOK
  <2>1. {running, stopped, removed, hw, draining} \subseteq BOOLEAN /\ intr \in BOOLEAN
    BY Zenon DEF Init
  <2>2. kind \in [Cmd -> Kinds \cup {NoKind}] /\ sctx \in [Cmd -> BOOLEAN]
    BY DEF Init
  <2> QED
    BY <1>1, <2>1, <2>2, CoreCmdAssumption DEF Init, TypeOK, Holder
<1>3. ThreadInv /\ QueueInv
  BY <1>1, CoreCmdAssumption DEF Init, ThreadInv, QueueInv, None
<1>4. MutexInv /\ PointerInv
  BY <1>1, CoreCmdAssumption DEF Init, MutexInv, PointerInv, Active
<1>5. OutliveInv /\ WakeInv
  BY <1>1 DEF Init, OutliveInv, FramesOutlive, ObjectsOutlive, WakeInv
<1> QED
  BY <1>2, <1>3, <1>4, <1>5 DEF IInv

(* Every step preserves it, one case per action. *)
LEMMA CoreStep == IInv /\ [Next]_vars => IInv'
<1> SUFFICES ASSUME IInv, [Next]_vars PROVE IInv'
  OBVIOUS
<1> USE CoreCmdAssumption DEF IInv, None
<1>1. ASSUME NEW c \in Cmd, rtw_enqueue_cmd(c) PROVE IInv'
  <2>1. TypeOK'
    BY SMTT(30), <1>1 DEF rtw_enqueue_cmd, rtw_cmd_filter, TypeOK
  <2>2. ThreadInv'
    BY <1>1 DEF rtw_enqueue_cmd, rtw_cmd_filter, ThreadInv, TypeOK
  <2>3. QueueInv'
    BY SMTT(30), <1>1 DEF rtw_enqueue_cmd, rtw_cmd_filter, TypeOK, ThreadInv, QueueInv
  <2>4. MutexInv'
    BY <1>1 DEF rtw_enqueue_cmd, rtw_cmd_filter, TypeOK, ThreadInv, MutexInv
  <2>5. PointerInv'
    BY <1>1 DEF rtw_enqueue_cmd, rtw_cmd_filter, TypeOK, ThreadInv, QueueInv, MutexInv,
       PointerInv, Active
  <2>6. OutliveInv'
    BY <1>1 DEF rtw_enqueue_cmd, rtw_cmd_filter, TypeOK, ThreadInv, QueueInv,
       PointerInv, Active, OutliveInv, FramesOutlive, ObjectsOutlive
  <2>7. WakeInv'
    BY <1>1 DEF rtw_enqueue_cmd, rtw_cmd_filter, TypeOK, WakeInv
  <2> QED
    BY <2>1, <2>2, <2>3, <2>4, <2>5, <2>6, <2>7
<1>2. ASSUME NEW c \in Cmd, _rtw_enqueue_cmd(c) PROVE IInv'
  <2>1. /\ pc[c] = "insert" /\ c \notin ToSet(queue) \cup {cur} /\ obj[c] = "live"
    BY <1>2 DEF _rtw_enqueue_cmd, QueueInv
  <2>2. /\ queue' \in Seq(Cmd) /\ ToSet(queue') = ToSet(queue) \cup {c} /\ IsInjective(queue')
    BY <1>2, <2>1, AppendToSet DEF _rtw_enqueue_cmd, TypeOK, QueueInv
  <2>3. TypeOK'
    BY <1>2, <2>1, <2>2 DEF _rtw_enqueue_cmd, TypeOK
  <2>4. ThreadInv'
    BY <1>2, <2>1, <2>2 DEF _rtw_enqueue_cmd, ThreadInv, TypeOK
  <2>5. QueueInv'
    BY <1>2, <2>1, <2>2 DEF _rtw_enqueue_cmd, TypeOK, ThreadInv, QueueInv
  <2>6. MutexInv'
    BY <1>2, <2>1, <2>2 DEF _rtw_enqueue_cmd, TypeOK, ThreadInv, MutexInv
  <2>7. PointerInv'
    BY <1>2, <2>1, <2>2 DEF _rtw_enqueue_cmd, TypeOK, ThreadInv, QueueInv, MutexInv,
       PointerInv, Active
  <2>8. OutliveInv'
    BY <1>2, <2>1, <2>2 DEF _rtw_enqueue_cmd, TypeOK, ThreadInv, QueueInv, PointerInv,
       Active, OutliveInv, FramesOutlive, ObjectsOutlive
  <2>9. WakeInv'
    BY <1>2, <2>1, <2>2 DEF _rtw_enqueue_cmd, TypeOK, WakeInv
  <2> QED
    BY <2>3, <2>4, <2>5, <2>6, <2>7, <2>8, <2>9
<1>3. ASSUME NEW c \in Cmd, UpSema(c) PROVE IInv'
  <2>1. TypeOK'
    BY <1>3 DEF UpSema, TypeOK
  <2>2. ThreadInv'
    BY <1>3 DEF UpSema, ThreadInv, TypeOK
  <2>3. QueueInv'
    BY <1>3 DEF UpSema, TypeOK, ThreadInv, QueueInv
  <2>4. MutexInv'
    BY <1>3 DEF UpSema, TypeOK, ThreadInv, MutexInv
  <2>5. PointerInv'
    BY <1>3 DEF UpSema, TypeOK, ThreadInv, QueueInv, MutexInv, PointerInv, Active
  <2>6. OutliveInv'
    BY <1>3 DEF UpSema, TypeOK, ThreadInv, QueueInv, PointerInv, Active, OutliveInv,
       FramesOutlive, ObjectsOutlive
  <2>7. WakeInv'
    BY <1>3 DEF UpSema, TypeOK, WakeInv
  <2> QED
    BY <2>1, <2>2, <2>3, <2>4, <2>5, <2>6, <2>7
<1>4. ASSUME NEW c \in Cmd, rtw_sctx_wait(c) PROVE IInv'
  <2>1. TypeOK'
    BY <1>4 DEF rtw_sctx_wait, TypeOK
  <2>2. ThreadInv'
    BY <1>4 DEF rtw_sctx_wait, ThreadInv, TypeOK
  <2>3. QueueInv'
    BY <1>4 DEF rtw_sctx_wait, TypeOK, ThreadInv, QueueInv
  <2>4. MutexInv'
    BY <1>4 DEF rtw_sctx_wait, TypeOK, ThreadInv, MutexInv
  <2>5. PointerInv'
    BY <1>4 DEF rtw_sctx_wait, TypeOK, ThreadInv, QueueInv, MutexInv, PointerInv, Active
  <2>6. OutliveInv'
    BY <1>4 DEF rtw_sctx_wait, TypeOK, ThreadInv, QueueInv, PointerInv, Active,
       OutliveInv, FramesOutlive, ObjectsOutlive
  <2>7. WakeInv'
    BY <1>4 DEF rtw_sctx_wait, TypeOK, WakeInv
  <2> QED
    BY <2>1, <2>2, <2>3, <2>4, <2>5, <2>6, <2>7
<1>5. ASSUME NEW c \in Cmd, SctxLock(c) PROVE IInv'
  <2>1. TypeOK'
    BY <1>5 DEF SctxLock, TypeOK, Holder
  <2>2. ThreadInv'
    BY <1>5 DEF SctxLock, ThreadInv, TypeOK
  <2>3. QueueInv'
    BY <1>5 DEF SctxLock, TypeOK, ThreadInv, QueueInv
  <2>4. MutexInv'
    BY <1>5 DEF SctxLock, TypeOK, ThreadInv, MutexInv
  <2>5. PointerInv'
    BY <1>5 DEF SctxLock, TypeOK, ThreadInv, QueueInv, MutexInv, PointerInv, Active
  <2>6. OutliveInv'
    BY <1>5 DEF SctxLock, TypeOK, ThreadInv, QueueInv, PointerInv, Active, OutliveInv,
       FramesOutlive, ObjectsOutlive
  <2>7. WakeInv'
    BY <1>5 DEF SctxLock, TypeOK, WakeInv
  <2> QED
    BY <2>1, <2>2, <2>3, <2>4, <2>5, <2>6, <2>7
<1>6. ASSUME NEW c \in Cmd, SctxLockInterrupted(c) PROVE IInv'
  <2>1. TypeOK'
    BY <1>6 DEF SctxLockInterrupted, TypeOK
  <2>2. ThreadInv'
    BY <1>6 DEF SctxLockInterrupted, ThreadInv, TypeOK
  <2>3. QueueInv'
    BY <1>6 DEF SctxLockInterrupted, TypeOK, ThreadInv, QueueInv
  <2>4. MutexInv'
    BY <1>6 DEF SctxLockInterrupted, TypeOK, ThreadInv, MutexInv
  <2>5. PointerInv'
    BY <1>6 DEF SctxLockInterrupted, TypeOK, ThreadInv, QueueInv, MutexInv, PointerInv,
       Active
  <2>6. OutliveInv'
    BY <1>6 DEF SctxLockInterrupted, TypeOK, ThreadInv, QueueInv, PointerInv, Active,
       OutliveInv, FramesOutlive, ObjectsOutlive
  <2>7. WakeInv'
    BY <1>6 DEF SctxLockInterrupted, TypeOK, WakeInv
  <2> QED
    BY <2>1, <2>2, <2>3, <2>4, <2>5, <2>6, <2>7
<1>7. ASSUME NEW c \in Cmd, SctxUnlock(c) PROVE IInv'
  <2>1. TypeOK'
    BY ZenonT(40), <1>7 DEF SctxUnlock, Disown, TouchObj, TypeOK, Holder
  <2>2. ThreadInv'
    BY <1>7 DEF SctxUnlock, Disown, TouchObj, ThreadInv, TypeOK
  <2>3. QueueInv'
    BY <1>7 DEF SctxUnlock, Disown, TouchObj, TypeOK, ThreadInv, QueueInv
  <2>4. MutexInv'
    BY <1>7 DEF SctxUnlock, Disown, TouchObj, TypeOK, ThreadInv, MutexInv
  <2>5. PointerInv'
    BY <1>7 DEF SctxUnlock, Disown, TouchObj, TypeOK, ThreadInv, QueueInv, MutexInv,
       PointerInv, Active
  <2>6. OutliveInv'
    BY <1>7 DEF SctxUnlock, Disown, TouchObj, TypeOK, ThreadInv, QueueInv, PointerInv,
       Active, OutliveInv, FramesOutlive, ObjectsOutlive
  <2>7. WakeInv'
    BY <1>7 DEF SctxUnlock, Disown, TouchObj, TypeOK, WakeInv
  <2> QED
    BY <2>1, <2>2, <2>3, <2>4, <2>5, <2>6, <2>7
<1>8. CASE ThreadStart
  <2>1. TypeOK'
    BY <1>8 DEF ThreadStart, TypeOK
  <2>2. ThreadInv'
    BY <1>8 DEF ThreadStart, ThreadInv, TypeOK
  <2>3. QueueInv'
    BY <1>8 DEF ThreadStart, TypeOK, ThreadInv, QueueInv
  <2>4. MutexInv'
    BY <1>8 DEF ThreadStart, TypeOK, ThreadInv, MutexInv
  <2>5. PointerInv'
    BY <1>8 DEF ThreadStart, TypeOK, ThreadInv, QueueInv, MutexInv, PointerInv, Active
  <2>6. OutliveInv'
    BY <1>8 DEF ThreadStart, TypeOK, ThreadInv, QueueInv, PointerInv, Active,
       OutliveInv, FramesOutlive, ObjectsOutlive
  <2>7. WakeInv'
    BY <1>8 DEF ThreadStart, TypeOK, WakeInv
  <2> QED
    BY <2>1, <2>2, <2>3, <2>4, <2>5, <2>6, <2>7
<1>9. CASE ThreadDown
  <2>1. TypeOK'
    BY <1>9 DEF ThreadDown, CannotRun, TypeOK
  <2>2. ThreadInv'
    BY <1>9 DEF ThreadDown, CannotRun, ThreadInv, TypeOK
  <2>3. QueueInv'
    BY <1>9 DEF ThreadDown, CannotRun, TypeOK, ThreadInv, QueueInv
  <2>4. MutexInv'
    BY <1>9 DEF ThreadDown, CannotRun, TypeOK, ThreadInv, MutexInv
  <2>5. PointerInv'
    BY <1>9 DEF ThreadDown, CannotRun, TypeOK, ThreadInv, QueueInv, MutexInv,
       PointerInv, Active
  <2>6. OutliveInv'
    BY <1>9 DEF ThreadDown, CannotRun, TypeOK, ThreadInv, QueueInv, PointerInv, Active,
       OutliveInv, FramesOutlive, ObjectsOutlive
  <2>7. WakeInv'
    BY <1>9 DEF ThreadDown, CannotRun, TypeOK, WakeInv
  <2> QED
    BY <2>1, <2>2, <2>3, <2>4, <2>5, <2>6, <2>7
<1>10. CASE ThreadInterrupted
  <2>1. TypeOK'
    BY <1>10 DEF ThreadInterrupted, TypeOK
  <2>2. ThreadInv'
    BY <1>10 DEF ThreadInterrupted, ThreadInv, TypeOK
  <2>3. QueueInv'
    BY <1>10 DEF ThreadInterrupted, TypeOK, ThreadInv, QueueInv
  <2>4. MutexInv'
    BY <1>10 DEF ThreadInterrupted, TypeOK, ThreadInv, MutexInv
  <2>5. PointerInv'
    BY <1>10 DEF ThreadInterrupted, TypeOK, ThreadInv, QueueInv, MutexInv, PointerInv,
       Active
  <2>6. OutliveInv'
    BY <1>10 DEF ThreadInterrupted, TypeOK, ThreadInv, QueueInv, PointerInv, Active,
       OutliveInv, FramesOutlive, ObjectsOutlive
  <2>7. WakeInv'
    BY <1>10 DEF ThreadInterrupted, TypeOK, WakeInv
  <2> QED
    BY <2>1, <2>2, <2>3, <2>4, <2>5, <2>6, <2>7
<1>11. CASE rtw_dequeue_cmd
  <2>1. queue # <<>> => /\ Head(queue) \in ToSet(queue) /\ Head(queue) \in Cmd
                          /\ Tail(queue) \in Seq(Cmd) /\ IsInjective(Tail(queue))
                          /\ ToSet(Tail(queue)) = ToSet(queue) \ {Head(queue)}
    BY TailToSet DEF TypeOK, QueueInv
  <2>2. \/ UNCHANGED <<queue, cur>> /\ tpc' \in {"leave", "down", "exit"}
        \/ /\ cur' \in ToSet(queue) /\ cur' \in Cmd /\ queue' \in Seq(Cmd) /\ tpc' \in {"lock", "run"}
           /\ ToSet(queue') = ToSet(queue) \ {cur'} /\ IsInjective(queue')
    BY <1>11, <2>1 DEF rtw_dequeue_cmd
  <2>3. tpc = "next" /\ cur = None /\ UNCHANGED <<sema, mutex, draining, objects, frames, env, bad>>
    BY <1>11 DEF rtw_dequeue_cmd, ThreadInv
  <2>4. TypeOK'
    BY <1>11, <2>2, <2>3 DEF rtw_dequeue_cmd, CannotRun, TypeOK
  <2>5. ThreadInv'
    BY <1>11, <2>2, <2>3 DEF rtw_dequeue_cmd, CannotRun, ThreadInv, TypeOK
  <2>6. QueueInv'
    BY <1>11, <2>2, <2>3 DEF rtw_dequeue_cmd, CannotRun, TypeOK, ThreadInv, QueueInv
  <2>7. MutexInv'
    BY <1>11, <2>2, <2>3 DEF rtw_dequeue_cmd, CannotRun, TypeOK, ThreadInv, MutexInv
  <2>8. PointerInv'
    BY <1>11, <2>2, <2>3 DEF rtw_dequeue_cmd, CannotRun, TypeOK, ThreadInv, QueueInv,
       MutexInv, PointerInv, Active
  <2>9. OutliveInv'
    BY <1>11, <2>2, <2>3 DEF rtw_dequeue_cmd, CannotRun, TypeOK, ThreadInv, QueueInv,
       PointerInv, Active, OutliveInv, FramesOutlive, ObjectsOutlive
  <2>10. WakeInv'
    BY <1>11, <2>3 DEF rtw_dequeue_cmd, WakeInv
  <2> QED
    BY <2>4, <2>5, <2>6, <2>7, <2>8, <2>9, <2>10
<1>12. CASE cmd_hdl
  <2>1. TypeOK'
    BY ZenonT(40), <1>12 DEF cmd_hdl, TouchObj, TypeOK
  <2>2. ThreadInv'
    BY <1>12 DEF cmd_hdl, TouchObj, ThreadInv, TypeOK
  <2>3. QueueInv'
    BY <1>12 DEF cmd_hdl, TouchObj, TypeOK, ThreadInv, QueueInv
  <2>4. MutexInv'
    BY <1>12 DEF cmd_hdl, TouchObj, TypeOK, ThreadInv, MutexInv
  <2>5. PointerInv'
    BY <1>12 DEF cmd_hdl, TouchObj, TypeOK, ThreadInv, QueueInv, MutexInv, PointerInv,
       Active
  <2>6. OutliveInv'
    BY <1>12 DEF cmd_hdl, TouchObj, TypeOK, ThreadInv, QueueInv, PointerInv, Active,
       OutliveInv, FramesOutlive, ObjectsOutlive
  <2>7. WakeInv'
    BY <1>12 DEF cmd_hdl, TouchObj, TypeOK, WakeInv
  <2> QED
    BY <2>1, <2>2, <2>3, <2>4, <2>5, <2>6, <2>7
<1>13. CASE PostLock
  <2>1. TypeOK'
    BY <1>13 DEF PostLock, TouchObj, TypeOK, Holder
  <2>2. ThreadInv'
    BY <1>13 DEF PostLock, TouchObj, ThreadInv, TypeOK
  <2>3. QueueInv'
    BY <1>13 DEF PostLock, TouchObj, TypeOK, ThreadInv, QueueInv
  <2>4. MutexInv'
    BY <1>13 DEF PostLock, TouchObj, TypeOK, ThreadInv, MutexInv
  <2>5. PointerInv'
    BY <1>13 DEF PostLock, TouchObj, TypeOK, ThreadInv, QueueInv, MutexInv, PointerInv,
       Active
  <2>6. OutliveInv'
    BY <1>13 DEF PostLock, TouchObj, TypeOK, ThreadInv, QueueInv, PointerInv, Active,
       OutliveInv, FramesOutlive, ObjectsOutlive
  <2>7. WakeInv'
    BY <1>13 DEF PostLock, TouchObj, TypeOK, WakeInv
  <2> QED
    BY <2>1, <2>2, <2>3, <2>4, <2>5, <2>6, <2>7
<1>14. CASE PostLockInterrupted
  <2>1. TypeOK'
    BY <1>14 DEF PostLockInterrupted, TouchObj, TypeOK, Holder
  <2>2. ThreadInv'
    BY <1>14 DEF PostLockInterrupted, TouchObj, ThreadInv, TypeOK
  <2>3. QueueInv'
    BY <1>14 DEF PostLockInterrupted, TouchObj, TypeOK, ThreadInv, QueueInv
  <2>4. MutexInv'
    BY <1>14 DEF PostLockInterrupted, TouchObj, TypeOK, ThreadInv, MutexInv
  <2>5. PointerInv'
    BY <1>14 DEF PostLockInterrupted, TouchObj, TypeOK, ThreadInv, QueueInv, MutexInv,
       PointerInv, Active
  <2>6. OutliveInv'
    BY <1>14 DEF PostLockInterrupted, TouchObj, TypeOK, ThreadInv, QueueInv, PointerInv,
       Active, OutliveInv, FramesOutlive, ObjectsOutlive
  <2>7. WakeInv'
    BY <1>14 DEF PostLockInterrupted, TouchObj, TypeOK, WakeInv
  <2> QED
    BY <2>1, <2>2, <2>3, <2>4, <2>5, <2>6, <2>7
<1>15. CASE SctxStatus
  <2>1. TypeOK'
    BY <1>15 DEF SctxStatus, TouchFrame, TypeOK
  <2>2. ThreadInv'
    BY <1>15 DEF SctxStatus, TouchFrame, ThreadInv, TypeOK
  <2>3. QueueInv'
    BY <1>15 DEF SctxStatus, TouchFrame, TypeOK, ThreadInv, QueueInv
  <2>4. MutexInv'
    BY <1>15 DEF SctxStatus, TouchFrame, TypeOK, ThreadInv, MutexInv
  <2>5. PointerInv'
    BY <1>15 DEF SctxStatus, TouchFrame, TypeOK, ThreadInv, QueueInv, MutexInv,
       PointerInv, Active
  <2>6. OutliveInv'
    BY <1>15 DEF SctxStatus, TouchFrame, TypeOK, ThreadInv, QueueInv, PointerInv,
       Active, OutliveInv, FramesOutlive, ObjectsOutlive
  <2>7. WakeInv'
    BY <1>15 DEF SctxStatus, TouchFrame, TypeOK, WakeInv
  <2> QED
    BY <2>1, <2>2, <2>3, <2>4, <2>5, <2>6, <2>7
<1>16. CASE SctxComplete
  <2>1. TypeOK'
    BY <1>16 DEF SctxComplete, TouchFrame, TypeOK, Holder
  <2>2. ThreadInv'
    BY <1>16 DEF SctxComplete, TouchFrame, ThreadInv, TypeOK
  <2>3. QueueInv'
    BY <1>16 DEF SctxComplete, TouchFrame, TypeOK, ThreadInv, QueueInv
  <2>4. MutexInv'
    BY <1>16 DEF SctxComplete, TouchFrame, TypeOK, ThreadInv, MutexInv
  <2>5. PointerInv'
    BY <1>16 DEF SctxComplete, TouchFrame, TypeOK, ThreadInv, QueueInv, MutexInv,
       PointerInv, Active
  <2>6. OutliveInv'
    BY <1>16 DEF SctxComplete, TouchFrame, TypeOK, ThreadInv, QueueInv, PointerInv,
       Active, OutliveInv, FramesOutlive, ObjectsOutlive
  <2>7. WakeInv'
    BY <1>16 DEF SctxComplete, TouchFrame, TypeOK, WakeInv
  <2> QED
    BY <2>1, <2>2, <2>3, <2>4, <2>5, <2>6, <2>7
<1>17. CASE rtw_free_cmd_obj
  <2>1. TypeOK'
    BY <1>17 DEF rtw_free_cmd_obj, TouchObj, TypeOK
  <2>2. ThreadInv'
    BY <1>17 DEF rtw_free_cmd_obj, TouchObj, ThreadInv, TypeOK
  <2>3. QueueInv'
    BY <1>17, ToSetType DEF rtw_free_cmd_obj, TouchObj, TypeOK, ThreadInv, QueueInv
  <2>4. MutexInv'
    BY <1>17 DEF rtw_free_cmd_obj, TouchObj, TypeOK, ThreadInv, MutexInv
  <2>5. PointerInv'
    BY <1>17 DEF rtw_free_cmd_obj, TouchObj, TypeOK, ThreadInv, QueueInv, MutexInv,
       PointerInv, Active
  <2>6. OutliveInv'
    BY <1>17 DEF rtw_free_cmd_obj, TouchObj, TypeOK, ThreadInv, QueueInv, PointerInv,
       Active, OutliveInv, FramesOutlive, ObjectsOutlive
  <2>7. WakeInv'
    BY <1>17 DEF rtw_free_cmd_obj, TouchObj, TypeOK, WakeInv
  <2> QED
    BY <2>1, <2>2, <2>3, <2>4, <2>5, <2>6, <2>7
<1>18. CASE ThreadLeave
  <2>1. TypeOK'
    BY <1>18 DEF ThreadLeave, TypeOK
  <2>2. ThreadInv'
    BY <1>18 DEF ThreadLeave, ThreadInv, TypeOK
  <2>3. QueueInv'
    BY <1>18 DEF ThreadLeave, TypeOK, ThreadInv, QueueInv
  <2>4. MutexInv'
    BY <1>18 DEF ThreadLeave, TypeOK, ThreadInv, MutexInv
  <2>5. PointerInv'
    BY <1>18 DEF ThreadLeave, TypeOK, ThreadInv, QueueInv, MutexInv, PointerInv, Active
  <2>6. OutliveInv'
    BY <1>18 DEF ThreadLeave, TypeOK, ThreadInv, QueueInv, PointerInv, Active,
       OutliveInv, FramesOutlive, ObjectsOutlive
  <2>7. WakeInv'
    BY <1>18 DEF ThreadLeave, TypeOK, WakeInv
  <2> QED
    BY <2>1, <2>2, <2>3, <2>4, <2>5, <2>6, <2>7
<1>19. CASE rtw_start_drv_threads
  <2>1. starts + 1 \in 0..MaxStart
    BY <1>19 DEF rtw_start_drv_threads, TypeOK
  <2>2. TypeOK'
    BY <1>19, <2>1 DEF rtw_start_drv_threads, TypeOK
  <2>3. ThreadInv'
    BY <1>19, <2>1 DEF rtw_start_drv_threads, ThreadInv, TypeOK
  <2>4. QueueInv'
    BY <1>19, <2>1 DEF rtw_start_drv_threads, TypeOK, ThreadInv, QueueInv
  <2>5. MutexInv'
    BY <1>19, <2>1 DEF rtw_start_drv_threads, TypeOK, ThreadInv, MutexInv
  <2>6. PointerInv'
    BY <1>19, <2>1 DEF rtw_start_drv_threads, TypeOK, ThreadInv, QueueInv, MutexInv,
       PointerInv, Active
  <2>7. OutliveInv'
    BY <1>19, <2>1 DEF rtw_start_drv_threads, TypeOK, ThreadInv, QueueInv, PointerInv,
       Active, OutliveInv, FramesOutlive, ObjectsOutlive
  <2>8. WakeInv'
    BY <1>19, <2>1 DEF rtw_start_drv_threads, TypeOK, WakeInv, ThreadInv
  <2> QED
    BY <2>2, <2>3, <2>4, <2>5, <2>6, <2>7, <2>8
<1>20. CASE rtk_hal_init
  <2>1. TypeOK'
    BY <1>20 DEF rtk_hal_init, TypeOK
  <2>2. ThreadInv'
    BY <1>20 DEF rtk_hal_init, ThreadInv, TypeOK
  <2>3. QueueInv'
    BY <1>20 DEF rtk_hal_init, TypeOK, ThreadInv, QueueInv
  <2>4. MutexInv'
    BY <1>20 DEF rtk_hal_init, TypeOK, ThreadInv, MutexInv
  <2>5. PointerInv'
    BY <1>20 DEF rtk_hal_init, TypeOK, ThreadInv, QueueInv, MutexInv, PointerInv, Active
  <2>6. OutliveInv'
    BY <1>20 DEF rtk_hal_init, TypeOK, ThreadInv, QueueInv, PointerInv, Active,
       OutliveInv, FramesOutlive, ObjectsOutlive
  <2>7. WakeInv'
    BY <1>20 DEF rtk_hal_init, TypeOK, WakeInv
  <2> QED
    BY <2>1, <2>2, <2>3, <2>4, <2>5, <2>6, <2>7
<1>21. CASE rtk_hal_deinit
  <2>1. TypeOK'
    BY <1>21 DEF rtk_hal_deinit, TypeOK
  <2>2. ThreadInv'
    BY <1>21 DEF rtk_hal_deinit, ThreadInv, TypeOK
  <2>3. QueueInv'
    BY <1>21 DEF rtk_hal_deinit, TypeOK, ThreadInv, QueueInv
  <2>4. MutexInv'
    BY <1>21 DEF rtk_hal_deinit, TypeOK, ThreadInv, MutexInv
  <2>5. PointerInv'
    BY <1>21 DEF rtk_hal_deinit, TypeOK, ThreadInv, QueueInv, MutexInv, PointerInv,
       Active
  <2>6. OutliveInv'
    BY <1>21 DEF rtk_hal_deinit, TypeOK, ThreadInv, QueueInv, PointerInv, Active,
       OutliveInv, FramesOutlive, ObjectsOutlive
  <2>7. WakeInv'
    BY <1>21 DEF rtk_hal_deinit, TypeOK, WakeInv
  <2> QED
    BY <2>1, <2>2, <2>3, <2>4, <2>5, <2>6, <2>7
<1>22. CASE dev_set_drv_stopped
  <2>1. TypeOK'
    BY <1>22 DEF dev_set_drv_stopped, TypeOK
  <2>2. ThreadInv'
    BY <1>22 DEF dev_set_drv_stopped, ThreadInv, TypeOK
  <2>3. QueueInv'
    BY <1>22 DEF dev_set_drv_stopped, TypeOK, ThreadInv, QueueInv
  <2>4. MutexInv'
    BY <1>22 DEF dev_set_drv_stopped, TypeOK, ThreadInv, MutexInv
  <2>5. PointerInv'
    BY <1>22 DEF dev_set_drv_stopped, TypeOK, ThreadInv, QueueInv, MutexInv, PointerInv,
       Active
  <2>6. OutliveInv'
    BY <1>22 DEF dev_set_drv_stopped, TypeOK, ThreadInv, QueueInv, PointerInv, Active,
       OutliveInv, FramesOutlive, ObjectsOutlive
  <2>7. WakeInv'
    BY <1>22 DEF dev_set_drv_stopped, TypeOK, WakeInv
  <2> QED
    BY <2>1, <2>2, <2>3, <2>4, <2>5, <2>6, <2>7
<1>23. CASE rtw_stop_cmd_thread
  <2>1. TypeOK'
    BY <1>23 DEF rtw_stop_cmd_thread, TypeOK
  <2>2. ThreadInv'
    BY <1>23 DEF rtw_stop_cmd_thread, ThreadInv, TypeOK
  <2>3. QueueInv'
    BY <1>23 DEF rtw_stop_cmd_thread, TypeOK, ThreadInv, QueueInv
  <2>4. MutexInv'
    BY <1>23 DEF rtw_stop_cmd_thread, TypeOK, ThreadInv, MutexInv
  <2>5. PointerInv'
    BY <1>23 DEF rtw_stop_cmd_thread, TypeOK, ThreadInv, QueueInv, MutexInv, PointerInv,
       Active
  <2>6. OutliveInv'
    BY <1>23 DEF rtw_stop_cmd_thread, TypeOK, ThreadInv, QueueInv, PointerInv, Active,
       OutliveInv, FramesOutlive, ObjectsOutlive
  <2>7. WakeInv'
    BY <1>23 DEF rtw_stop_cmd_thread, TypeOK, WakeInv
  <2> QED
    BY <2>1, <2>2, <2>3, <2>4, <2>5, <2>6, <2>7
<1>24. CASE rtw_thread_stop
  <2>1. TypeOK'
    BY <1>24 DEF rtw_thread_stop, TypeOK
  <2>2. ThreadInv'
    BY <1>24 DEF rtw_thread_stop, ThreadInv, TypeOK
  <2>3. QueueInv'
    BY <1>24 DEF rtw_thread_stop, TypeOK, ThreadInv, QueueInv
  <2>4. MutexInv'
    BY <1>24 DEF rtw_thread_stop, TypeOK, ThreadInv, MutexInv
  <2>5. PointerInv'
    BY <1>24 DEF rtw_thread_stop, TypeOK, ThreadInv, QueueInv, MutexInv, PointerInv,
       Active
  <2>6. OutliveInv'
    BY <1>24 DEF rtw_thread_stop, TypeOK, ThreadInv, QueueInv, PointerInv, Active,
       OutliveInv, FramesOutlive, ObjectsOutlive
  <2>7. WakeInv'
    BY <1>24 DEF rtw_thread_stop, TypeOK, WakeInv
  <2> QED
    BY <2>1, <2>2, <2>3, <2>4, <2>5, <2>6, <2>7
<1>25. CASE rtw_clr_drv_stopped
  <2>1. TypeOK'
    BY <1>25 DEF rtw_clr_drv_stopped, TypeOK
  <2>2. ThreadInv'
    BY <1>25 DEF rtw_clr_drv_stopped, ThreadInv, TypeOK
  <2>3. QueueInv'
    BY <1>25 DEF rtw_clr_drv_stopped, TypeOK, ThreadInv, QueueInv
  <2>4. MutexInv'
    BY <1>25 DEF rtw_clr_drv_stopped, TypeOK, ThreadInv, MutexInv
  <2>5. PointerInv'
    BY <1>25 DEF rtw_clr_drv_stopped, TypeOK, ThreadInv, QueueInv, MutexInv, PointerInv,
       Active
  <2>6. OutliveInv'
    BY <1>25 DEF rtw_clr_drv_stopped, TypeOK, ThreadInv, QueueInv, PointerInv, Active,
       OutliveInv, FramesOutlive, ObjectsOutlive
  <2>7. WakeInv'
    BY <1>25 DEF rtw_clr_drv_stopped, TypeOK, WakeInv
  <2> QED
    BY <2>1, <2>2, <2>3, <2>4, <2>5, <2>6, <2>7
<1>26. CASE dev_set_surprise_removed
  <2>1. TypeOK'
    BY <1>26 DEF dev_set_surprise_removed, TypeOK
  <2>2. ThreadInv'
    BY <1>26 DEF dev_set_surprise_removed, ThreadInv, TypeOK
  <2>3. QueueInv'
    BY <1>26 DEF dev_set_surprise_removed, TypeOK, ThreadInv, QueueInv
  <2>4. MutexInv'
    BY <1>26 DEF dev_set_surprise_removed, TypeOK, ThreadInv, MutexInv
  <2>5. PointerInv'
    BY <1>26 DEF dev_set_surprise_removed, TypeOK, ThreadInv, QueueInv, MutexInv,
       PointerInv, Active
  <2>6. OutliveInv'
    BY <1>26 DEF dev_set_surprise_removed, TypeOK, ThreadInv, QueueInv, PointerInv,
       Active, OutliveInv, FramesOutlive, ObjectsOutlive
  <2>7. WakeInv'
    BY <1>26 DEF dev_set_surprise_removed, TypeOK, WakeInv
  <2> QED
    BY <2>1, <2>2, <2>3, <2>4, <2>5, <2>6, <2>7
<1>27. CASE UNCHANGED vars
  BY <1>27 DEF vars, TypeOK, ThreadInv, QueueInv, MutexInv, PointerInv, Active, OutliveInv, FramesOutlive, ObjectsOutlive, WakeInv
<1> QED
  BY <1>1, <1>2, <1>3, <1>4, <1>5, <1>6, <1>7, <1>8, <1>9, <1>10, <1>11, <1>12, <1>13, <1>14, <1>15, <1>16, <1>17, <1>18, <1>19, <1>20, <1>21, <1>22, <1>23, <1>24, <1>25, <1>26, <1>27 DEF Next, Submitter, CmdThread, Manager

(* The object of a command and the submit context of a submitter that      *)
(* waits outlive their use by the other side, for any number of commands,  *)
(* whatever times out, unless a wait for sctx_mutex is interrupted.        *)
THEOREM SharedMemorySafe == Spec => []SharingInv
<1>1. IInv => SharingInv
  BY DEF IInv, SharingInv, OutliveInv
<1> QED
  BY CoreInit, CoreStep, <1>1, PTL DEF Spec

(* The command thread never sleeps on a queued command without a wakeup    *)
(* that is there or on its way.                                            *)
THEOREM NoCommandStranded == Spec => []WakeupPending
<1>1. IInv => WakeupPending
  BY DEF IInv, WakeInv, WakeupPending
<1> QED
  BY CoreInit, CoreStep, <1>1, PTL DEF Spec

=============================================================================
