# Verification of the command and transmit paths of the 88x2cu driver

TLA+ models of the concurrent core of the Realtek 88x2cu USB Wi-Fi driver, the
TLC configurations that check them on small instances, and proofs of the
central results that TLAPS checks for every instance.  `PROJECT.json` maps each
definition to the source lines it models, and lists the runs, the mutants that
show that each property can fail, the findings, the hazards and the theorems.

## 1. The system

The driver is built with `CONFIG_PHL_ARCH=y`: `src/core` and `src/os_dep/linux`
talk to the PHL layer (`src/phl`), and that to the chip (`src/phl/hal`,
`src/hal`).  The logic that decides *who may do what and when* is in PHL; its
centre is the **command dispatcher**, through which scan, connect, power saving,
channel switches, BT coexistence and the watchdog are serialised.  Above it
the core has a command queue and thread of its own (`core/rtw_cmd.c`); below
and beside it are the message hub, which brings events back up, and the
transmit rings.

### 1.1 Inventory

| Part | State it keeps | Operations | Interacts with |
|---|---|---|---|
| Dispatch engine (`phl_cmd_dispatch_engine.c`) | the share thread, its semaphore and stop flag, one dispatcher per band | `phl_disp_eng_init/start/stop/deinit`, `share_thread_hdl` | runs every dispatcher's loop, leave, stop-prior and stop-post handlers |
| Foreground token (`phl_cmd_dispatcher.c`) | `token_req_ex_pool`, `token_req_idle_q`, `token_req_wait_q`, `token_op_q`, `cur_cmd_req`, `token_cnt` | `dispr_add_token_req`, `dispr_cancel_token_req`, `dispr_free_token`, `dispr_is_fg_empty`, `dispr_process_token_req` | callers hand operations to the share thread, which calls `acquired()` and `abort()` |
| Messages (`phl_cmd_dispatcher.c`) | `msg_ex_pool`, `msg_idle_q`, `msg_wait_q`, `msg_pend_q`, two bitmaps per message, `DISPR_CANNOT_IO`, `pending_evt_id` of each source | `dispr_send_msg`, `dispr_cancel_msg`, `dispr_clr_pending_msg`, `dispr_notify_dev_io_status`, `dispr_thread_loop_hdl`, `msg_dispatch` | each message visits the controller, the modules in a pre and a post phase, and the foreground command |
| Background modules (same file) | `module_q` per priority, `MDL_INIT/STARTED`, `bitmap`, `basemap` | register, init, start, stop, deinit | fed with messages |
| Dispatcher controller (`phl_cmd_dispr_controller.c`) | none of its own | TRX pause and resume messages | data path control |
| Data path control (`phl_data_ctrler` in `phl_tx.c`) | none: a stub in this port | answers SUCCESS | controller, power saving |
| Message hub (`phl_msg_hub.c`) | second pool and wait queue, receivers, its own thread | register, deregister, send, start, stop | senders in PHL, receivers in PHL and core |
| Core command queue (`core/rtw_cmd.c`) | `cmd_queue`, its semaphore, `cmdthd_running`, `sctx_mutex`, a submit context on the stack of every waiting submitter | enqueue, `rtw_cmd_thread`, wait, start, stop | MLME and OS layer submit; suspend, resume and removal |
| General commands (`phl_cmd_general.c`) | a `phl_cmd_obj` per command: status, event, `ref_cnt`, buffer | enqueue, wait, complete, free | sent as messages of the dispatcher |
| Transmit rings, USB transmit (`phl_tx.c`, `hci/phl_trx_usb.c`, `usb_ops_linux.c`) | ten rings per station, ring status records, USB buffers, the tasklet | add a request, take a turn, complete a transfer, register and remove rings, stop | core fills, URB completions drive |
| Receive path (`phl_rx.c`, `hci/phl_trx_usb.c`) | receive buffers, rings, reorder windows, event bitmap | receive, reorder, indicate | core |
| Commands: scan, BTC, sounding, SER, power saving, watchdog | per command | foreground commands, message handlers, timers | token, messages |
| Roles, stations, channel contexts (`phl_role.c`, `phl_sta.c`, `phl_chan.c`, `phl_mr.c`, `phl_mcc.c`) | macid map, role state, channel contexts | alloc/free, start/change/stop | commands |
| HAL, BTC, MAC/BB/RF, core MLME, OS layer | chip registers, protocol state | | |

### 1.2 What is hard

* Callers run on any thread or CPU.  Only single queue operations are under a
  lock; an API call is a sequence of them, and the share thread runs between
  any two.
* Status words are ordinary integers updated with `|=` (`SET_STATUS_FLAG`).
* One thread carries out everything.  It sleeps on one semaphore that token
  operations, messages and retries share, and takes one message per wakeup.
* Handles of requests and messages are bare indices of pool entries: a late
  cancel or free hits whoever uses the entry now.
* Callbacks (`acquired`, `abort`, `msg_hdlr`, completion routines) run in the
  middle of an operation, may sleep, and may call back.
* The engine can be stopped at any moment; its leave handler spins until every
  pool entry has come back.  The message hub stops in the same way and is
  started again.
* Objects are shared by two threads of which either may end first: a submit
  context on the stack of a submitter whose wait times out, a command object
  that the dispatcher frees, a transmit ring that is removed while the tasklet
  has it on its list.
* Resources run out in the middle of a turn (ring records, USB buffers), and
  the only thing that brings another turn is the end of a transfer.

### 1.3 What makes the parts correct

* **Token.**  One holder; first come, first served; `token_cnt` and
  `cur_cmd_req` agree; each request is told once that it is over; no
  entry is lost; a queued operation always has its wakeup; a stop ends all.
* **Messages.**  Each module gets a message once per phase, in the order of
  the priorities; a completion is called once, and without a CANCEL or FAIL
  indication only if everyone accepted the message; canceled messages go
  nowhere; there is a wakeup for every queued message; a pended message is
  retried, and silences its sender only while it exists; a stop completes all.
* **Engine.**  `phl_disp_eng_stop` returns.
* **Message hub.**  No entry is lost over starts and stops; what was sent is
  completed, and forwarded if the receiver asked for it; the stop returns.
* **Core commands.**  Neither a submit context nor a command object is used
  after it is gone; a queued command has its wakeup; the stop returns.
* **General commands.**  The object and the buffer are there while someone
  uses them and are freed once; caller and callback agree; every wait ends.
* **Transmit.**  A ring is read in order, each request is handed back once, no
  buffer or record leaks, a ring outlives the turn, a request gets its turn.

## 2. Modules

| Module | What it is |
|---|---|
| `DisprToken` | the foreground token: callers, share thread, engine stop; the refinement mapping to `FgToken` |
| `FgToken` | the promise of the token: one holder, first come first served, over stays over |
| `MCDisprToken` | TLC instances of `DisprToken` |
| `DisprMsg` | the messages: senders, dispatch, pending, cancel, I/O status, engine stop |
| `MCDisprMsg` | TLC instances of `DisprMsg`: modules of all priorities and kinds of messages |
| `MsgHub`, `MCMsgHub` | the message hub: senders, thread, one receiver, starts and stops |
| `CoreCmd`, `MCCoreCmd` | the command queue of the core: submitters, command thread, suspend and removal |
| `CmdGeneral`, `MCCmdGeneral` | the life of a general command between its caller and the dispatcher |
| `TxRing`, `MCTxRing` | transmit rings, the tasklet, USB buffers and transfers |
| `Lists` | sublists of a list and the values at chosen positions, without recursion |
| `QueueLemmas` | lemmas about queues as sequences: append, remove, insert, concatenate, count |
| `DisprTokenProofs`, `DisprMsgProofs`, `MsgDispatchProofs` (which extends it), `CmdGeneralProofs`, `CoreCmdProofs`, `MsgHubProofs`, `TxRingProofs` | the theorems about each model and their proofs |

### 2.1 DisprToken

State: for each entry of `token_req_ex_pool` its status word as a set of flags
(`status`) and the request copied into it (`req`); the queues `idleQ`, `waitQ`,
`opQ`; for each `phl_token_op_info` node whether it is `used` and its `otype`;
`cur` (`cur_cmd_req`), `tokenCnt`, the dispatcher's flags; the engine's `sema`,
`stop` and the stopping thread's `epc`; the share thread's `bpc`; and per
caller `cpc`.  `skew` is how far the counters of the two request queues are
off.  `ends`, `late`, `lateEnq`, `torn` and `fgSeen` are history: how often a
request was told that it is over, requests linked after the stop began,
requests whose entry was marked ENQ when it was idle already, requests whose
flags were overwritten by an outdated word, and what a `dispr_is_fg_empty` in
progress could have seen.

Actions: every API call is one action per statement that touches shared state
(`dispr_add_token_req`, `pop_front_idle_req`, `push_back_wait_req`, `LoadEnq`,
`SetEnq`, `AddOp`, `notify_bk_thread`, ...).  The share thread's actions follow
`share_thread_hdl` -> `token_op_hanler` -> `_handle_token_op_info` ->
`dispr_process_token_req`, `register_cur_cmd_req`, `deregister_cur_cmd_req`,
with the callbacks as separate steps during which others run.  The stop is
`dispr_module_stop`, `StopPrior`, `cancel_all_cmd_req`, `ThreadStop`, the leave
handler (`clear_wating_req`, `ClearPop`) and `StopPost`.

`pq_del_node` unlinks a node from whatever list it is in and counts down the
queue it was given.  `CancelWaiting` is a cancel that finds its request in the
wait queue; `CancelRecycled` one whose entry carries a late ENQ in the idle
queue: it succeeds, aborts the last request of the entry again and leaves both
counters wrong by one (`skew`), which `pop_front_wait_req`, `clear_wating_req`
and everyone else who goes by the counters then follow.

`SendPhy` is PHY_ON and PHY_IDLE.  The send fails when the stop has begun
(`MaySend`: the module is out of the bitmap, or DISPR_STARTED is cleared), and
with `MsgFail` also when no message entry is idle; the caller ignores it.

`pop_front_idle_req` zeroes `add_req_info` and `free_req_info`.  If one of them
is still linked in `token_op_q` (a stale handle can do that) the links are
gone: `corrupt` records it, and the thread that follows them stops at `"oops"`.

`Cpu` says how much interleaving the machine allows:

| `Cpu` | Meaning |
|---|---|
| `"nopreempt"` | one CPU; kernel code is switched only where it sleeps |
| `"preempt"` | one CPU; a caller can be preempted between any two statements |
| `"smp"` | also, the read and the write of a caller's `status \|= flag` are separate steps |

### 2.2 FgToken

`Ask`, `Grant` (of the oldest request), `Release`, `Withdraw`.  The mapping
takes `pending` to the request being registered followed by the wait queue,
`holder` to the request of `cur_cmd_req` until `deregister_cur_cmd_req` clears
RUN, and `over` to the requests that were told so.

### 2.3 DisprMsg

State: `ex`, a record per entry of `msg_ex_pool` (flags, message number, kind,
`premap`, `postmap`, and two history fields); `idleQ`, `waitQ`, `pendQ`;
`dispr`, the fields of `struct cmd_dispatcher` that messages depend on,
including an abstraction of the token to the state of `cur_cmd_req`, the number
of waiting requests and of token operations; `sema`; `bk`, the share thread
with the message and the part of the dispatch it is in; `snd`, the senders.

A *kind* of message is its source, its event, the attributes that choose the
modules (`MSG_OPT_SKIP_NOTIFY_OPT_MDL`, `MSG_OPT_BLIST_PRESENT`, the list) and
the options that set flags.  Payloads are left out.

Actions follow the code: sending (permission tests, pop and fill, link by
priority, wake), canceling (`premap`, `postmap`, CANCEL as separate steps),
`dispr_clr_pending_msg`, `dispr_notify_dev_io_status`; the share thread clears
pended messages, handles token operations, pops one message, checks it, and
walks controller, pre phase, post phase and foreground request; a module
accepts, fails or pends; completion and recycling are two steps because the
completion routine runs between them.

### 2.4 MsgHub

State: `idle_msg_q` and `wait_msg_q`, the semaphore, for each entry whose
message it holds, the thread with the entry in its hand, the receiver's INIT,
CLR_CTX and bitmap, `MSG_HUB_STARTED` and `THREAD_STATUS_STOPPED`.  A sender
sends one message and stands for it.  `phl_msg_hub_send` is four steps (test,
pop, queue, semaphore); registering a receiver is copying the context, clearing
the bitmap and setting INIT, deregistering is clearing INIT and setting CLR_CTX,
each a step of its own.  The thread follows `msg_thread_hdl` and
`msg_forward`, with the notification and the clearing of a receiver as steps
of their own; the manager follows `phl_module_start` and `phl_module_stop`.
`late`, `stale` and `wiped` are history: a sender took an entry after the stop
began, the thread saw the stop of its predecessor, a registration, made or
being made, was cleared.  A thread that finds INIT without a routine stops at
`"oops"`.
A start that links an entry still in use sets `corrupt`, and the behaviour
ends there.

### 2.5 CoreCmd

A command `c` is the `cmd_obj`, the thread that submits it and that thread's
stack frame.  State: `cmd_queue`, its semaphore, `sctx_mutex`, the command
thread, per command its memory, result, `pcmd->sctx`, and `sctx.status`; the
driver's state (`running`, `stopped`, `removed`, `hw`) and the thread that
starts, suspends and restarts.  Submitters follow `rtw_enqueue_cmd` and then
the code that every caller with RTW_CMDF_WAIT_ACK has after it (mapped at
`set_tx_beacon_cmd`); the thread follows `rtw_cmd_thread` with its last loop.
`rtw_sctx_wait` may return without an answer at any time: 10 s are not
measured.  `bad` records every access to an object or a frame that is gone.

### 2.6 CmdGeneral

Callers of `phl_cmd_enqueue` that wait for ever, for a time or not at all,
with a buffer on the heap (freed by the callback), in their frame, or none;
the dispatcher's thread that runs the handler and `_phl_cmd_complete`.  Of the
dispatcher the model has what decides whether and how a command is completed:
the test of DISPR_STARTED and the link as two steps of the caller
(`dispr_send_msg`, `SendMsg`), taking a message (`TakeMsg`), pending and
retrying it, and the stop.  Once DISPR_STARTED is cleared a message is given
back without its handler, with or without a mark; after the leave handler
has returned nobody takes one any more.  The rest is `DisprMsg`.
`bad` records accesses to freed memory, `gaveup` that the 100 s wait for a
caller ended without it.

### 2.7 TxRing

State: where each station's rings are (`t_ring_list`, between the lists,
`t_ring_free_list`, freed), the three indices and the entries of each ring, the
free records and buffers, transfers under way, the tasklet with its plan
(`t_fctrl_result`) and the ring in hand, whether it is scheduled, and who is
about to schedule it.  Two rings of a station stand for the ten: data, which
is aggregated, and management, which is not and has buffers of its own.
Lengths, padding and descriptors are `AggBreak`: a transfer may end after any
request.  `phl_datapath_stop` may fall anywhere in a turn.  When the next thing
the tasklet reads is a ring that it has freed (`ReadsFreed`) the behaviour ends:
nothing is known of what follows.

### 2.8 Steps that are merged, and what stands for what

* `pop_front_idle_msg` and the filling of the entry are one step, and so are
  setting ENQ and linking the message: an entry without ENQ or RUN refuses
  cancels, and one that is in no queue is out of the share thread's reach.  A
  cancel that passed its test in an earlier life of the entry takes effect
  before or after the fill, never in the middle of it.
* The loops of `deregister_cur_cmd_req` and `cancel_running_msg` over the
  message pool are one step each; `dispr_cancel_msg` has the finer steps.
* `push_back_token_op_info` tests `used`, sets it and links the node in one
  step.
* `abort()` sends its message in one step (`AbortCallback`, `AbortSends`).
* Messages that the share thread's own callbacks and `dispr_process_token_req`
  send (PHY_ON, PHY_IDLE) are sent by a `Sender` in `DisprMsg`; in `DisprToken`
  they are `SendPhy`.
* FOR_ABORT and `DISPR_WAIT_ABORT_MSG_DONE` are in `DisprToken` only.
* A module's bit in `bitmap` and its MDL_STARTED fall together.
* The callback to the owner in `notify_msg_fail` has no effect on this state.
* The engine has one dispatcher: the 8822C has one band.
* `CoreCmd`: what a submitter does under `sctx_mutex` is one step, and so is
  what the thread does between the completion and the unlock; handlers are one
  step with any result.  An oversized command is refused like one the filter
  refuses.
* `MsgHub`: the memset and the pushes of `phl_msg_hub_start` are one step (the
  thread is started after them); completion and push are one step.
* `TxRing`: `rtw_phl_add_tx_req` is one critical section of
  `t_ring_list_lock`, and so is `phl_check_xmit_ring_resource`, to which the
  sorting (`phl_tx_flow_ctrl`, on lists of the tasklet only) is added;
  `phl_free_deferred_tx_ring` is one critical section.

## 3. Runs

Each passing run asks its own question; together they take every action.
Deadlock is not an error in these models: callers may stop calling, a stopped
engine stays stopped, and bounds end the behaviours.

| Run | Question | Instance |
|---|---|---|
| `token_stop` | Do the token, its entries and wakeups, PHY_ON, the answer of `dispr_is_fg_empty` and the promise of `FgToken` survive adds, cancels, failing sends and a stop, preempted anywhere? | 2 entries, 2 callers, 2 requests, 1 cancel or query, `preempt` |
| `token_live` | Does a queued cancel end its request, is everyone served, does the stop return, with handles that outlive their request and messages from `abort()`? | 2 entries, 2 callers, 3 requests, 1 cancel or free, `nopreempt`, fair |
| `msg_dispatch` | Once per phase, in order, what a completion means, and a pool of one entry: exhausted pool, stale handles, pends, loss of I/O and retries during dispatch | 4 modules of all priorities, 3 kinds of routing, 1 entry, 2 senders, 2 messages, 2 calls, 1 pend, `preempt` |
| `msg_stop` | Messages of a command whose token ends, and the stop | 2 entries, 1 sender, 2 messages, 2 token operations, 1 pend, `preempt` |
| `msg_live` | Every message is completed or pended, a resume releases pended ones, the stop returns | 1 entry, 1 sender, `nopreempt`, fair |
| `core_wait` | Do submit contexts and objects outlive their use, with timeouts, signals, suspend, restart and removal; does the stop return? | 2 submissions of every kind, 2 starts, fair |
| `gen_wait` | The same for general commands and their buffers, with the three ways of waiting, pended commands and a stop of the dispatcher | 2 commands, fair |
| `hub_restart` | Entries, completions and forwarding over starts and stops, with registrations the thread interrupts | 2 entries, 2 senders delayed anywhere, 3 starts, fair |
| `tx_turns` | Order, hand-back, pools, progress, with a stop at any moment of a turn | 1 station, rings of 3 entries, 1 record, 1 buffer of each kind, 4 requests, 1 failing transfer, fair |
| `token_v_abortmsg`, `msg_v_cancel`, `tx_v_stop` | what a comment says and the code does not do (section 6) | smallest instances that show it |

Why the bounds are enough to be interesting: two requests are what it takes
for a queue, for two threads that race for an entry, and for one that is
served, ended and recycled before its sender has marked it; three in two
entries give a handle that outlives its request.  One call of a cancel races
the share thread, the stop and an add.  Four modules give each priority and two modules in
one queue, so that the sender is visited first in its own queue and skipped
afterwards.  One pend suffices for a message to start over; a second message
of the same source meets the silence the first one causes.  Two submissions
let one be answered while the other is queued or times out; two starts are a
restart, which is where a command thread can meet what its predecessor left.
The hub needs three: a thread that took its predecessor's stop for its own
leaves with a sender's entry still out, and the start after that links the
entry again.  Four requests in rings that hold two make every index wrap;
with one record and one buffer both pools are exhausted whenever a second ring
has work.  The semaphore is
not bounded: it grows by at most one per call or requeued message.

`token_stop` takes `Cpu = "preempt"`.  With `"smp"` it passes too, on 3.6
million states instead of 1.3, which is more than a run that is meant to be
repeated should take; the theorems of section 4 are for every `Cpu`.

Symmetry (`Perms`) permutes callers or senders, which are interchangeable; it
is not used in the liveness runs.

### 3.1 Fairness

`Fairness` has strong fairness for the share thread, for each caller that is
inside an API call, and for a stop that has begun; nothing obliges anyone to
start a call, to free a token or to stop the engine.  The share thread is a
kernel thread that runs unless it is blocked, and no API call of the token or
message interface sleeps.  It is strong because with `"nopreempt"` a runnable
thread is disabled while another has the CPU; the scheduler gives it its turn.
Callbacks return: `acquired()`, `abort()` and `msg_hdlr` are steps of the
share thread.  `EveryoneServed` assumes in its premise that the token keeps
becoming free.

`CoreCmd`, `CmdGeneral`, `MsgHub` and `TxRing` use weak fairness: of a thread
inside a call, of the command thread, the dispatcher's thread and the hub's
thread, of the tasklet once scheduled, of the end of a transfer (the USB core
completes every URB, killed ones too), and of a start or stop that has begun.
Nothing obliges anyone to submit, to send, to suspend, to unplug, to fail or
to give up a wait: the interrupted locks and the 100 s limit are outside
every fairness condition.

## 4. Proofs

TLAPS proves the following for every value of the constants: any number of
entries, callers, requests, commands, stations and buffers, any ring size, any
number of calls, starts, failures and time-outs.  TLC checks each property on
a run first, and the inductive invariants were checked with TLC before they
were proved.

| Module | Theorem | States |
|---|---|---|
| `DisprTokenProofs` | `TypeCorrect` | `Spec => []TypeOK` |
| | `TokenConsistent` | `Spec => []TokenMatchesCur` |
| | `RunMarksCur` | `Spec => []OnlyCurRuns` |
| | `NoLostWakeup` | `Spec => []NoSleepOnOp` |
| | `PowerBeforeToken` | `Spec => []PhyOnWhileHeld` |
| | `EntriesSafe` | `Spec => []EntryInv` |
| | `StopForgetsNone` | `Spec => []LeaveEndsAll` |
| | `FgEmptyMisses` | `Spec => FgEmptyMissesOne` |
| | `ImplementsFgToken` | `Spec => KeepsPromise`, the refinement of `FgToken` |
| `DisprMsgProofs` | `MsgInvariant` | `Spec => []MsgIInv`, the inductive invariant |
| | `PoolIntact` | `Spec => []PoolInv` |
| | `WakeupsKept` | `Spec => []WakeupPerMsg` |
| | `CompletionOnce` | `Spec => []CompletedOnce` |
| | `LeaveCompletes` | `Spec => []LeaveCompletesAll` |
| | `SilenceBacked` | `Spec => []PendEvtBacked` |
| `MsgDispatchProofs` | `NoneHandlesTwice` | `Spec => []HandledOnce` |
| | `HandledInOrder` | `Spec => []PhaseOrder` |
| | `SuccessIsHandled` | `Spec => []SuccessMeansHandled` |
| `CmdGeneralProofs` | `SharedMemorySafe` | `Spec => []SharingInv` |
| | `SameVerdict` | `Spec => []VerdictsAgree` |
| `CoreCmdProofs` | `SharedMemorySafe` | `Spec => []SharingInv` |
| | `NoCommandStranded` | `Spec => []WakeupPending` |
| `MsgHubProofs` | `PoolIntact` | `Spec => []PoolInv` |
| | `StopLeavesNothing` | `Spec => []StopCompletesAll` |
| | `NothingSkipped` | `Spec => []Forwarded` |
| `TxRingProofs` | `NothingLeaks` | `Spec => []PoolInv` |
| | `RingInOrder` | `Spec => []SentInOrder` |
| | `RecycledAtMostOnce` | `Spec => []RecycledOnce` |

### 4.1 Assumptions

Each model has one assumption on its constants (`ConstAssumption`,
`CmdGeneralAssumption`, ...): sizes and bounds are naturals, positive where an
empty pool makes no sense, sets of entries and senders are finite where they
are counted, and `None` is no member of any of them.  TLC evaluates them in
every run.

No theorem has a hypothesis of its own: all are for every `Cpu`, with sends
that may fail and stops at any moment.  What the code does not guarantee is
excused in the properties themselves, and the same excuse stands in the runs:

| Property | Excuses |
|---|---|
| `OnlyCurRuns` | a RUN that a torn `status \|= flag` of a caller brought back (`torn`) |
| `EntryInv` | a second end, and wrong counters, after an ENQ written late or torn (`lateEnq`, `torn`); never a lost or doubly linked entry |
| `LeaveEndsAll` | wrong counters (`skew`), and what is linked after the stop began (`late`) |
| `PhyOnWhileHeld` | a PHY_ON that found no buffer (`phyLost`), a stop that has begun |
| `FgEmptyMissesOne` | the one request the thread has popped and not yet counted; wrong counters |
| `SuccessMeansHandled` | a cancel of the message that is half done (`Canceling`), a stop that has begun |
| `Forwarded` | a registration wiped out by the thread (`wiped`), a thread that saw its predecessor's stop (`stale`) |
| `MsgHub.PoolInv`, `StopCompletesAll` | `late` and `stale` |
| `RecycledOnce` | the request just handed back when the stop frees its ring |
| `CoreCmd.SharingInv`, `CmdGeneral.SharingInv` | an interrupted lock (`intr`); the 100 s wait that gave up (`gaveup`) |
| `VerdictsAgree` | a caller that timed out |

### 4.2 The arguments

**Token.**  `TypeOK` and `TokenMatchesCur` are not inductive alone:
`register_cur_cmd_req` adds one to `token_cnt` whatever it was, and
`deregister_cur_cmd_req` works on `cur_cmd_req` over several steps.
`TokenInv` adds `BkHolds`, what the share thread has in hand at each step: an
entry while it moves one, the current request while it ends one, and no
current request when it takes the next or has left.  `RunMarksCur` needs
`RunInv`: from the moment a request is being ended its RUN flag is clear, so
that dropping `cur_cmd_req` leaves no RUN behind; `CallerSetsNoRun` shows that
a caller brings one back only by a torn write.  `PowerBeforeToken` needs `PhyInv`: while no stop has
begun, DISPR_NOTIFY_IDLE clear means that PHY_ON was sent or lost.  `NoLostWakeup` needs
`WakeInv`, which looks at the thread not only when it sleeps but already when
it handles a message, after it has drained `token_op_q`.

`EntriesSafe` rests on `PlaceInv` (the queues, the callers that are about to
push, the thread's hand and `cur_cmd_req` are disjoint and each lists an entry
once), `EnqInv` (an idle entry with ENQ holds a request of `lateEnq` or
`torn`, and `skew` is 0 as long as there is none) and `ReqInv` (a request in a
live entry has not been told that it is over, no two live entries hold the same
request, and one that was told twice is of `lateEnq` or `torn`).  `FgEmptyMisses` needs `FgInv`: what a query saw and
did not find in the wait queue is over, current, or in the thread's hand.  `OthersKeepPlaces`
says that all actions but a few leave the places alone, so that only the
moves are argued one by one; `PlacesCounted` turns disjointness into the count
of `EntryAtOnePlace`.  `ImplementsFgToken` uses the same invariant: `Ask` is
`push_back_wait_req`, `Grant` is the step of `register_cur_cmd_req` that makes
the entry current, and every step is one of the four abstract ones or leaves
`pending`, `holder` and `over` alone (`StutterStep`).

**Messages.**  `MsgIInv` has seven parts: types and what the share thread and
the callers have in hand (`TypeInv`), every entry in one queue once or in one
hand (`PlaceInv`), an entry has a message number exactly when it is not idle,
and no two have the same (`NumberInv`), a message whose entry still wants its
completion has not had it and no message had two (`DoneInv`), a message that
is owed a completion and had none is still in an entry, or late (`OwedInv`),
the wakeups counted also while a token operation is being handled
(`WakeInv`), and `PendEvtBacked`, which is inductive with the others.

The 40 actions touch these in few ways.  `Steps` shows once, action by action,
that a step is one of the `Moves`: an entry is filled, linked, taken by the
thread, pended, requeued, completed or given back, or no entry moves and at
most flags and maps change (`Marks`); with it go what happens to the silenced
sources (`EvtStep`) and to the wakeups.  `PlaceMove`, `NumberMove`,
`DoneMove`, `OwedMove` and `EvtMove` then need the moves alone.

**Dispatch.**  `HandledOnce` and `PhaseOrder` are about the list of visits that
`msg_dispatch` walks.  `ConcatOrdered`, `VisitsOf`, `ThreeParts` and `Orders`
show for any module queue that the list of a phase visits every module and
that its priorities fall in the pre phase and rise in the post phase.
`MapInv` says that a bit that is still set belongs to a module that has not
accepted the message in that phase; `WalkInv` that the visits left are in
order, that whoever is loaded and still to get the message is among them, and
that the module being fed has not had it.  A cancel at any moment only takes
bits away and an unloaded module only shrinks the obligation (`WalkKept`), so
that both theorems need no assumption on preemption.  `WalkOrNot` sorts the
actions into those that walk and those that do not.

What becomes of a message takes `WantInv` (before a stop begins a message that
is not canceled, and that nobody is canceling, has for every module it is for
either the bit or the answer) and `ReadyInv` (it comes to its completion after
both phases or with a mark); `AllMsgSteps` shows what each action may do to a
message.  `Canceling` is what keeps `WantInv` inductive under preemption:
between the emptying of the first map and CANCEL a message has bits that are
gone without an answer.

**General commands.**  `IInv` says at each step of the caller and of the
dispatcher's thread who still counts in `ref_cnt` (`ObjInv`), who frees the
buffer (`BufInv`) and which results status and event can show (`StatusInv`);
`DispInv` says that a command is queued, pended or in hand, and only one of
these.

**Core commands.**  `PointerInv` ties `pcmd->sctx` to a frame that is still
there and `MutexInv` says who may clear it; `QueueInv` says that a command is
in the queue, with the thread, or done with; `WakeInv` counts semaphore and
submitters about to raise it.

**Message hub.**  `PlaceInv` and `CoverInv` are the two halves of "at exactly
one place"; `MsgInv` says that a message is in one entry until it is
completed, `StopInv` what a thread leaves behind, `NullInv` that INIT is set
only over a context that has a routine, unless a registration was wiped.  A start builds the queue
anew whatever is out; that it finds nothing out needs both `~late` and
`~stale`.

**Transmit.**  `InOrder` relates the two indices of a ring, its entries and
the numbers of the requests: the entries from `phl` to `core` are the last
ones that were added, in order, and those before them were sent.  `Wrap` and
`RingIndex` are the arithmetic of indices that wrap, for every ring size.
`WalkOnce`, `TurnRings` and `FlowCtrl` show that a turn's plan lists no ring
twice and promises no more requests than the ring has.  `RecycleInv` is
`OnceInv` while no ring was freed under the tasklet and `TwiceInv` from then
on (`Undercut`), where only the request that was just taken can have been
handed back twice; `FreeDeferred` shows what a free of the deferred rings does
to either.

**Queues.**  `QueueLemmas` holds what the models need of sequences as queues,
with `IsInjective` and `ToSet`, and of `Lists`.

### 4.3 Only model-checked

* Liveness, that is, every property under fairness (`token_live`, `msg_live`,
  `core_wait`, `gen_wait`, `hub_restart`, `tx_turns`): the prover has no rules
  for fairness and ENABLED.
* The findings, which are counterexamples.

Every safety invariant and every action property of a passing run is a theorem.

## 5. What the checks show

Under every interleaving of the instances the token has one holder and follows
the order of the requests; a request is told once that it is over, unless its
entry was marked ENQ after it had been recycled, when a cancel tells it again
and leaves the counters of the queues wrong; no entry of either pool is lost;
no wakeup is lost; the stop ends and completes everything that was there when
it began, as long as those counters are right; modules see a message once per
phase and in order.

Submit contexts, command objects, general commands and their buffers are used
only while they exist and are freed once; transmit requests are sent in order
and handed back once; no record, buffer or pool entry leaks; every wait, stop
and queued request comes to its end.  Each of these has the exceptions that
the table of section 4.1 and the following list name.

Conditions a reader should know:

* `SuccessMeansHandled` is about the time before a stop: messages dropped by the
  stop are completed without MSG_INDC_CANCEL.  A general command that never ran
  is then reported as a success (`TakeMsg` of `CmdGeneral`).
* `LeaveEndsAll` and `LeaveCompletesAll` leave out what is linked after the
  stop began (`late`).
* `WaitersReturn` leaves out a caller that waits for ever for a message that was
  linked after the dispatcher's thread had left (`Stranded`), and one whose
  message a module pends for ever.
* `StopReturns` and the other liveness properties of the token are checked
  without preemption; with wrong counters `clear_wating_req` may spin.
* `CoreCmd.SharingInv` excuses what follows an interrupted wait for
  `sctx_mutex` (`intr`), `CmdGeneral.SharingInv` what follows the 100 s wait
  that gave up (`gaveup`).
* The properties of `MsgHub` excuse `late`, `stale` and `wiped`; what is shown
  is that nothing else can go wrong.
* `RecycledOnce` and `ReqServed` speak of behaviours up to the first read of a
  freed ring.
* `ReqServed` excuses what follows a failed transfer: no transfer is under way
  then that would bring the next turn.

## 6. Findings

* `token_v_abortmsg`: the wait for the message sent from `abort()` is never
  armed, because RUN is cleared before `abort()` is called; the next request is
  registered while that message is queued.
* `msg_v_cancel`: a module is entered with a message that was canceled after its
  bit had been tested, against the comment at `phl_cmd_dispatcher.c:523`
  ("zero bitmap to ensure msg would not be forward to any modules after
  cancel").
* `tx_v_stop`: `phl_datapath_stop` frees a removed ring that the tasklet on
  another CPU still works on, against the comment at `phl_tx.c:371` ("defer the
  free operation to avoid racing with _phl_tx_callback_xxx").

Other deviations met while modelling.  Each can be seen by changing one
constant of a run or by taking one excuse out of a property:

* `dispr_is_fg_empty` answers "empty" while a request is on its way from the
  wait queue to the token, against the comment at
  `phl_cmd_dispatcher.c:2176`: `FgEmptyMissesOne` without the request in the
  thread's hand, in `token_stop`.
* A cancel of a request whose entry was recycled before its sender marked it
  ENQ aborts it a second time and makes the counters of both queues wrong:
  `EntryInv` without `lateEnq`.  Afterwards the leave handler can leave a
  request that nobody aborts, against the comment at
  `phl_cmd_dispatcher.c:1240` ("pop out all waiting cmd req and notify abort"):
  `LeaveEndsAll` without `skew`.
* A stop that begins while a request is being registered leaves it with the
  token and without PHY_ON: `PhyOnWhileHeld` without `epc = "up"`.
* A message can be completed between the emptying of its maps and the setting
  of CANCEL: its completion routine sees a success although modules it was for
  never had it: `SuccessMeansHandled` without `Canceling`, in `msg_dispatch`.
* A caller delayed after its DISPR_STARTED test links a request that nobody
  runs or aborts, or a general command that it then waits for for ever:
  `LeaveEndsAll` without `late`, `WaitersReturn` without `Stranded`.
* A restarted hub thread that runs before `_os_thread_init` has reset the
  thread's status leaves at once: `MsgServed` without `stale`.
* A registration is wiped by the thread that clears the one before it; when
  that happens between the copy of the context and INIT, the receiver stays
  marked INIT with a routine that is NULL, and the thread calls it: `Forwarded`
  without `wiped`.
* A sender delayed after its MSG_HUB_STARTED test takes an entry that the next
  start links again: `PoolInv` without `late`.  The proof of `PoolInv` showed
  that this is not the only way: a thread that saw its predecessor's stop does
  not wait for the entries, so that an entry taken in time is out when the
  start after the next one builds its queue.  `PoolInv` without `stale` shows
  it, with three starts and not with two.
* A wait for `sctx_mutex` that a signal interrupts is taken for a lock:
  `CoreCmd.SharingInv` without `intr`.
* A timed-out caller of a general command overwrites a status that has just
  been set; it is told "timeout" while the callback is told "success".
  `VerdictsAgree` excludes exactly this.

## 7. Not modelled, and the plan

Left out for good: HAL, HALMAC, PHYDM, firmware images, register headers and
calibration tables (no protocol state within reach), which are most of the
repository's 940,000 lines, so that the mapped share of it stays small; the
legacy state machines (not built); core MLME and the OS layer apart from what
`CoreCmd` and `TxRing` take from them; `CONFIG_CMD_DISP_SUPPORT_CUSTOM_SEQ`,
the solo thread mode, SER and eCSA (not built, so that `phl_sw_tx_sts` never
changes); the data path control, which is a stub in this port
(`phl_tx.c:1882`); the watchdog's API, which has no callers here;
`core/rtw_phl_cmd.c`, the alternative to `rtw_cmd_thread` that this build does
not use.

Worth modelling next: `ModuleReg`, the registering, starting, stopping and
deregistering of background modules against the engine's start and stop; the
receive path with its event bitmap and reorder windows; scan
(`phl_cmd_scan.c`) as a user of `FgToken`; the macid allocation of
`phl_sta.c`.

Worth proving next: what these models promise to their users, as refinements
like that of `FgToken`: a message of `DisprMsg` or `MsgHub` as a token that is
sent, handled and completed once, and a ring of `TxRing` as a queue.
