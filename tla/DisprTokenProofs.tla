-------------------------- MODULE DisprTokenProofs --------------------------
(***************************************************************************)
(* Proofs about DisprToken, for any number of entries, callers, requests   *)
(* and calls, for every scheduling and with or without a stop.             *)
(***************************************************************************)
EXTENDS DisprToken, QueueLemmas

USE DEF reqVars, opVars, tokVars, engVars, bkVars, clVars, histVars

(* The two parts of a queue that is not empty. *)
LEMMA HeadTailType ==
    ASSUME NEW S, NEW q \in Seq(S), q # <<>>
    PROVE  Head(q) \in S /\ Tail(q) \in Seq(S)
  OBVIOUS

-----------------------------------------------------------------------------
(* One more is counted at one point of a function, or nowhere. *)
LEMMA CountUp ==
    ASSUME NEW S, NEW f \in [S -> Nat], NEW x
    PROVE  [f EXCEPT ![x] = @ + 1] \in [S -> Nat]
<1>1. [f EXCEPT ![x] = @ + 1] = [y \in S |-> IF y = x THEN f[x] + 1 ELSE f[y]]
  OBVIOUS
<1>2. \A y \in S : (IF y = x THEN f[x] + 1 ELSE f[y]) \in Nat
  OBVIOUS
<1> QED
  BY <1>1, <1>2

(* push_back_token_op_info links one of the nodes or leaves them alone. *)
LEMMA PushOpType ==
    ASSUME NEW c, NEW n \in OpNode, NEW type \in OpType, OpInfoType,
           push_back_token_op_info(c, n, type)
    PROVE  OpInfoType'
<1>1. CASE used[n]
  BY <1>1 DEF push_back_token_op_info, OpInfoType
<1>2. CASE ~used[n]
  <2>1. used' \in [OpNode -> BOOLEAN] /\ corrupt' \in BOOLEAN
    BY <1>2 DEF push_back_token_op_info, OpInfoType
  <2>2. opQ' \in Seq(OpNode)
    BY <1>2 DEF push_back_token_op_info, OpInfoType
  <2>3. otype' \in [OpNode -> OpType]
    BY <1>2 DEF push_back_token_op_info, OpInfoType
  <2> QED
    BY <2>1, <2>2, <2>3 DEF OpInfoType
<1> QED
  BY <1>1, <1>2

(* What the background thread has in hand at each of its steps: an entry   *)
(* while it moves one, the current request while it ends it, and no        *)
(* current request when it takes the next one or has left.                 *)
BkHolds ==
    /\ bpc \in {"reg", "cxlidle"} => bslot \in Slot
    /\ bpc \in {"permit", "abort", "recyc", "drop"} => cur \in Slot
    /\ bpc \in {"popreq", "reg", "clrreq", "clrpop", "done"} => cur = None

(* The inductive invariant behind TypeOK and TokenMatchesCur. *)
TokenInv == TypeOK /\ BkHolds /\ TokenMatchesCur

(* The share thread waits and no request is there in the initial states. *)
LEMMA TokenInit == Init => TokenInv
<1> SUFFICES ASSUME Init PROVE TokenInv
  OBVIOUS
<1>1. ReqType
  <2>1. idleQ \in Seq(Slot)
    BY ConstAssumption DEF Init, Slot
  <2>2. status \in [Slot -> SUBSET Flag]
    BY DEF Init
  <2>3. req \in [Slot -> 0..MaxReq]
    BY ConstAssumption DEF Init
  <2>4. waitQ \in Seq(Slot) /\ skew \in Nat
    BY DEF Init
  <2> QED
    BY <2>1, <2>2, <2>3, <2>4 DEF ReqType
<1>2. OpInfoType
  <2>1. used \in [OpNode -> BOOLEAN] /\ corrupt \in BOOLEAN
    BY Zenon DEF Init
  <2>2. opQ \in Seq(OpNode) /\ otype \in [OpNode -> OpType]
    BY DEF Init, OpType
  <2> QED
    BY <2>1, <2>2 DEF OpInfoType
<1>3. TokenType /\ EngineType /\ BkType
  <2>1. TokenType
    <3>1. started \in BOOLEAN /\ notifyIdle \in BOOLEAN /\ waitAbort \in BOOLEAN
          /\ phyOn \in BOOLEAN /\ phyLost \in BOOLEAN
      BY Zenon DEF Init
    <3>2. abortQ \in Seq([req : 0..MaxReq, forAbort : BOOLEAN])
      BY DEF Init
    <3>3. cur \in Slot \cup {None} /\ tokenCnt \in Int
      BY DEF Init
    <3> QED
      BY <3>1, <3>2, <3>3 DEF TokenType
  <2>2. EngineType
    BY DEF Init, EngineType
  <2>3. BkType
    BY DEF Init, BkType, BkPc, OpsPc
  <2> QED
    BY <2>1, <2>2, <2>3
<1>4. CallerType /\ HistType
  BY ConstAssumption DEF Init, CallerType, HistType, ClPc, AddPc, Slot, Req
<1>5. BkHolds /\ TokenMatchesCur
  BY DEF Init, BkHolds, TokenMatchesCur
<1> QED
  BY <1>1, <1>2, <1>3, <1>4, <1>5 DEF TokenInv, TypeOK

(* Every step preserves it, one case per action. *)
LEMMA TokenStep == TokenInv /\ [Next]_vars => TokenInv'
<1> SUFFICES ASSUME TokenInv, [Next]_vars PROVE TokenInv'
  OBVIOUS
<1> USE DEF TypeOK, TokenInv
<1>1. ASSUME NEW c \in Client, dispr_add_token_req(c) PROVE TokenInv'
  BY <1>1 DEF dispr_add_token_req, ReqType, OpInfoType, TokenType, EngineType, BkType,
     CallerType,
     HistType, BkHolds, TokenMatchesCur, AddPc, ClPc
<1>2. ASSUME NEW c \in Client, pop_front_idle_req(c) PROVE TokenInv'
  <2>1. Head(idleQ) \in Slot /\ Tail(idleQ) \in Seq(Slot)
    BY <1>2, HeadTailType DEF pop_front_idle_req, ReqType
  <2>2. nreq + 1 \in 0..MaxReq
    BY <1>2, ConstAssumption DEF pop_front_idle_req, HistType
  <2>3. TokenType' /\ EngineType' /\ BkType'
    BY <1>2 DEF pop_front_idle_req, TokenType, EngineType, BkType
  <2>4. ReqType'
    BY <1>2, <2>1, <2>2 DEF pop_front_idle_req, ReqType, Flag
  <2>5. OpInfoType'
    BY <1>2, <2>1, <2>2 DEF pop_front_idle_req, OpInfoType, OpNode, OpType
  <2>6. CallerType'
    BY <1>2, <2>1, <2>2 DEF pop_front_idle_req, CallerType, ReqType, ClPc, AddPc
  <2>7. HistType'
    BY <1>2, <2>1, <2>2 DEF pop_front_idle_req, HistType
  <2>8. BkHolds' /\ TokenMatchesCur'
    BY <1>2 DEF pop_front_idle_req, BkHolds, TokenMatchesCur
  <2> QED
    BY <2>3, <2>4, <2>5, <2>6, <2>7, <2>8
<1>3. ASSUME NEW c \in Client, NoIdleReq(c) PROVE TokenInv'
  BY <1>3 DEF NoIdleReq, ReqType, OpInfoType, TokenType, EngineType, BkType, CallerType,
     HistType, BkHolds, TokenMatchesCur, AddPc, ClPc
<1>4. ASSUME NEW c \in Client, push_back_wait_req(c) PROVE TokenInv'
  <2>1. cslot[c] \in Slot /\ creq[c] \in 0..MaxReq
    BY DEF CallerType
  <2>2. OpInfoType' /\ TokenType' /\ EngineType' /\ BkType'
    BY <1>4 DEF push_back_wait_req, OpInfoType, TokenType, EngineType, BkType
  <2>3. ReqType'
    BY <1>4, <2>1 DEF push_back_wait_req, ReqType, Flag
  <2>4. CallerType'
    BY <1>4, <2>1 DEF push_back_wait_req, CallerType, ReqType, ClPc, AddPc
  <2>5. HistType'
    BY <1>4, <2>1 DEF push_back_wait_req, HistType
  <2>6. BkHolds' /\ TokenMatchesCur'
    BY <1>4 DEF push_back_wait_req, BkHolds, TokenMatchesCur
  <2> QED
    BY <2>2, <2>3, <2>4, <2>5, <2>6
<1>5. ASSUME NEW c \in Client, LoadEnq(c) PROVE TokenInv'
  BY <1>5 DEF LoadEnq, LoadFlags, ReqType, OpInfoType, TokenType, EngineType, BkType,
     CallerType,
     HistType, BkHolds, TokenMatchesCur, AddPc, ClPc
<1>6. ASSUME NEW c \in Client, SetEnq(c) PROVE TokenInv'
  <2>1. OpInfoType' /\ TokenType' /\ EngineType' /\ BkType'
    BY <1>6 DEF SetEnq, OpInfoType, TokenType, EngineType, BkType
  <2>2. ReqType'
    BY <1>6 DEF SetEnq, SetFlag, ReqType, CallerType, Flag
  <2>3. CallerType'
    BY <1>6 DEF SetEnq, SetFlag, CallerType, ReqType, ClPc, AddPc
  <2>4. BkHolds' /\ TokenMatchesCur'
    BY <1>6 DEF SetEnq, BkHolds, TokenMatchesCur
  <2>5. HistType'
    <3>1. req[cslot[c]] \in 0..MaxReq
      BY DEF ReqType, CallerType
    <3> QED
      BY <1>6, <3>1 DEF SetEnq, SetFlag, HistType
  <2> QED
    BY <2>1, <2>2, <2>3, <2>4, <2>5
<1>7. ASSUME NEW c \in Client, AddOp(c) PROVE TokenInv'
  <2>1. <<"add", cslot[c]>> \in OpNode
    BY DEF CallerType, OpNode
  <2>2. ReqType' /\ TokenType' /\ EngineType' /\ BkType' /\ HistType'
    BY <1>7 DEF AddOp, push_back_token_op_info, ReqType, TokenType, EngineType, BkType,
       HistType
  <2>3. OpInfoType'
    BY <1>7, <2>1, PushOpType DEF AddOp, OpType
  <2>4. CallerType'
    BY <1>7, <2>1 DEF AddOp, push_back_token_op_info, CallerType, ReqType, ClPc, AddPc
  <2>5. BkHolds' /\ TokenMatchesCur'
    BY <1>7 DEF AddOp, push_back_token_op_info, BkHolds, TokenMatchesCur
  <2> QED
    BY <2>2, <2>3, <2>4, <2>5
<1>8. ASSUME NEW c \in Client, dispr_cancel_token_req(c) PROVE TokenInv'
  <2>1. ReqType' /\ OpInfoType' /\ TokenType' /\ EngineType' /\ BkType'
    BY <1>8 DEF dispr_cancel_token_req, ReqType, OpInfoType, TokenType, EngineType, BkType
  <2>2. CallerType'
    BY <1>8 DEF dispr_cancel_token_req, LoadFlags, CallerType, ReqType, ClPc, AddPc
  <2>3. HistType'
    BY <1>8, ConstAssumption DEF dispr_cancel_token_req, HistType
  <2>4. BkHolds' /\ TokenMatchesCur'
    BY <1>8 DEF dispr_cancel_token_req, BkHolds, TokenMatchesCur
  <2> QED
    BY <2>1, <2>2, <2>3, <2>4
<1>9. ASSUME NEW c \in Client, CancelSet(c) PROVE TokenInv'
  <2>1. OpInfoType' /\ TokenType' /\ EngineType' /\ BkType'
    BY <1>9 DEF CancelSet, OpInfoType, TokenType, EngineType, BkType
  <2>2. ReqType'
    BY <1>9 DEF CancelSet, SetFlag, ReqType, CallerType, Flag
  <2>3. CallerType'
    BY <1>9 DEF CancelSet, SetFlag, CallerType, ReqType, ClPc, AddPc
  <2>4. BkHolds' /\ TokenMatchesCur'
    BY <1>9 DEF CancelSet, BkHolds, TokenMatchesCur
  <2>5. HistType'
    <3>1. req[cslot[c]] \in 0..MaxReq
      BY DEF ReqType, CallerType
    <3> QED
      BY <1>9, <3>1 DEF CancelSet, SetFlag, HistType
  <2> QED
    BY <2>1, <2>2, <2>3, <2>4, <2>5
<1>10. ASSUME NEW c \in Client, CancelOp(c) PROVE TokenInv'
  <2>1. <<"free", cslot[c]>> \in OpNode
    BY DEF CallerType, OpNode
  <2>2. ReqType' /\ TokenType' /\ EngineType' /\ BkType' /\ HistType'
    BY <1>10 DEF CancelOp, push_back_token_op_info, ReqType, TokenType, EngineType,
       BkType, HistType
  <2>3. OpInfoType'
    BY <1>10, <2>1, PushOpType DEF CancelOp, OpType
  <2>4. CallerType'
    BY <1>10, <2>1 DEF CancelOp, push_back_token_op_info, CallerType, ReqType, ClPc, AddPc
  <2>5. BkHolds' /\ TokenMatchesCur'
    BY <1>10 DEF CancelOp, push_back_token_op_info, BkHolds, TokenMatchesCur
  <2> QED
    BY <2>2, <2>3, <2>4, <2>5
<1>11. ASSUME NEW c \in Client, dispr_free_token(c) PROVE TokenInv'
  <2>1. ReqType' /\ OpInfoType' /\ TokenType' /\ EngineType' /\ BkType'
    BY <1>11 DEF dispr_free_token, ReqType, OpInfoType, TokenType, EngineType, BkType
  <2>2. CallerType'
    BY <1>11 DEF dispr_free_token, LoadFlags, CallerType, ReqType, ClPc, AddPc
  <2>3. HistType'
    BY <1>11, ConstAssumption DEF dispr_free_token, HistType
  <2>4. BkHolds' /\ TokenMatchesCur'
    BY <1>11 DEF dispr_free_token, BkHolds, TokenMatchesCur
  <2> QED
    BY <2>1, <2>2, <2>3, <2>4
<1>12. ASSUME NEW c \in Client, FreeSet(c) PROVE TokenInv'
  <2>1. OpInfoType' /\ TokenType' /\ EngineType' /\ BkType'
    BY <1>12 DEF FreeSet, OpInfoType, TokenType, EngineType, BkType
  <2>2. ReqType'
    BY <1>12 DEF FreeSet, SetFlag, ReqType, CallerType, Flag
  <2>3. CallerType'
    BY <1>12 DEF FreeSet, SetFlag, CallerType, ReqType, ClPc, AddPc
  <2>4. BkHolds' /\ TokenMatchesCur'
    BY <1>12 DEF FreeSet, BkHolds, TokenMatchesCur
  <2>5. HistType'
    <3>1. req[cslot[c]] \in 0..MaxReq
      BY DEF ReqType, CallerType
    <3> QED
      BY <1>12, <3>1 DEF FreeSet, SetFlag, HistType
  <2> QED
    BY <2>1, <2>2, <2>3, <2>4, <2>5
<1>13. ASSUME NEW c \in Client, FreeOp(c) PROVE TokenInv'
  <2>1. <<"free", cslot[c]>> \in OpNode
    BY DEF CallerType, OpNode
  <2>2. ReqType' /\ TokenType' /\ EngineType' /\ BkType' /\ HistType'
    BY <1>13 DEF FreeOp, push_back_token_op_info, ReqType, TokenType, EngineType, BkType,
       HistType
  <2>3. OpInfoType'
    BY <1>13, <2>1, PushOpType DEF FreeOp, OpType
  <2>4. CallerType'
    BY <1>13, <2>1 DEF FreeOp, push_back_token_op_info, CallerType, ReqType, ClPc, AddPc
  <2>5. BkHolds' /\ TokenMatchesCur'
    BY <1>13 DEF FreeOp, push_back_token_op_info, BkHolds, TokenMatchesCur
  <2> QED
    BY <2>2, <2>3, <2>4, <2>5
<1>14. ASSUME NEW c \in Client, notify_bk_thread(c) PROVE TokenInv'
  <2>1. ReqType' /\ OpInfoType' /\ TokenType' /\ BkType' /\ HistType'
    BY <1>14 DEF notify_bk_thread, ReqType, OpInfoType, TokenType, BkType, HistType
  <2>2. EngineType'
    BY <1>14 DEF notify_bk_thread, EngineType
  <2>3. CallerType'
    BY <1>14 DEF notify_bk_thread, CallerType, ReqType, ClPc, AddPc
  <2>4. BkHolds' /\ TokenMatchesCur'
    BY <1>14 DEF notify_bk_thread, BkHolds, TokenMatchesCur
  <2> QED
    BY <2>1, <2>2, <2>3, <2>4
<1>15. ASSUME NEW c \in Client, dispr_is_fg_empty(c) PROVE TokenInv'
  <2>1. ReqType' /\ OpInfoType' /\ TokenType' /\ EngineType' /\ BkType'
    BY <1>15 DEF dispr_is_fg_empty, ReqType, OpInfoType, TokenType, EngineType, BkType
  <2>2. CallerType'
    BY <1>15 DEF dispr_is_fg_empty, CallerType, ReqType, ClPc, AddPc
  <2>3. HistType'
    BY <1>15, ConstAssumption DEF dispr_is_fg_empty, HistType, Req
  <2>4. BkHolds' /\ TokenMatchesCur'
    BY <1>15 DEF dispr_is_fg_empty, BkHolds, TokenMatchesCur
  <2> QED
    BY <2>1, <2>2, <2>3, <2>4
<1>16. ASSUME NEW c \in Client, FgEmptyOps(c) PROVE TokenInv'
  BY <1>16 DEF FgEmptyOps, ReqType, OpInfoType, TokenType, EngineType, BkType, CallerType,
     HistType, BkHolds, TokenMatchesCur, AddPc, ClPc
<1>17. CASE share_thread_hdl
  BY <1>17 DEF share_thread_hdl, ReqType, OpInfoType, TokenType,
     EngineType, BkType, CallerType,
     HistType, BkHolds, TokenMatchesCur, BkPc, OpsPc
<1>18. CASE token_op_hanler
  <2>1. ReqType' /\ TokenType' /\ EngineType' /\ CallerType' /\ HistType'
    BY <1>18 DEF token_op_hanler, ReqType, TokenType, EngineType, CallerType, HistType
  <2>2. OpInfoType'
    <3>1. CASE opQ = <<>> \/ corrupt
      BY <1>18, <3>1 DEF token_op_hanler, OpInfoType
    <3>2. CASE opQ # <<>> /\ ~corrupt
      BY <1>18, <3>2, HeadTailType DEF token_op_hanler, OpInfoType
    <3> QED
      BY <3>1, <3>2
  <2>3. BkType'
    <3>1. CASE opQ = <<>> \/ corrupt
      BY <1>18, <3>1 DEF token_op_hanler, BkType, BkPc, OpsPc
    <3>2. CASE opQ # <<>> /\ ~corrupt
      <4>1. Head(opQ) \in OpNode
        BY <3>2, HeadTailType DEF OpInfoType
      <4> QED
        BY <1>18, <3>2, <4>1 DEF token_op_hanler, BkType, BkPc, OpsPc
    <3> QED
      BY <3>1, <3>2
  <2>4. BkHolds' /\ TokenMatchesCur'
    BY <1>18, ConstAssumption DEF token_op_hanler, BkHolds, TokenMatchesCur, BkType,
       TokenType, Slot
  <2> QED
    BY <2>1, <2>2, <2>3, <2>4
<1>19. CASE CancelWaiting
  <2>1. ToSet(waitQ) \subseteq Slot
    BY DEF ReqType, ToSet
  <2>2. OpInfoType' /\ TokenType' /\ EngineType' /\ CallerType'
    BY <1>19 DEF CancelWaiting, OpInfoType, TokenType, EngineType, CallerType
  <2>3. ReqType'
    <3>1. waitQ' \in Seq(Slot)
      BY <1>19, RemoveAtProps DEF CancelWaiting, pq_del_node, ReqType
    <3> QED
      BY <1>19, <3>1 DEF CancelWaiting, ReqType
  <2>4. BkType'
    BY <1>19, <2>1 DEF CancelWaiting, pq_del_node, BkType, ReqType, BkPc, OpsPc
  <2>5. HistType'
    BY <1>19 DEF CancelWaiting, HistType, Req
  <2>6. BkHolds' /\ TokenMatchesCur'
    BY <1>19, <2>1 DEF CancelWaiting, BkHolds, TokenMatchesCur
  <2> QED
    BY <2>2, <2>3, <2>4, <2>5, <2>6
<1>20. CASE CancelIdle
  <2>1. bslot \in Slot /\ {} \in SUBSET Flag
    BY <1>20 DEF CancelIdle, BkHolds
  <2>2. OpInfoType' /\ TokenType' /\ EngineType' /\ CallerType' /\ HistType'
    BY <1>20 DEF CancelIdle, OpInfoType, TokenType, EngineType, CallerType, HistType
  <2>3. ReqType'
    BY <1>20, <2>1 DEF CancelIdle, ReqType, Flag
  <2>4. BkType'
    BY <1>20, <2>1 DEF CancelIdle, BkType, ReqType, BkPc, OpsPc
  <2>5. BkHolds' /\ TokenMatchesCur'
    BY <1>20, ConstAssumption DEF CancelIdle, BkHolds, TokenMatchesCur, BkType, TokenType,
       Slot
  <2> QED
    BY <2>2, <2>3, <2>4, <2>5
<1>21. CASE HandleOp
  <2>1. ReqType' /\ OpInfoType' /\ TokenType' /\ EngineType' /\ CallerType' /\ HistType'
    BY <1>21 DEF HandleOp, ReqType, OpInfoType, TokenType, EngineType, CallerType, HistType
  <2>2. BkType'
    BY <1>21 DEF HandleOp, BkType, ReqType, BkPc, OpsPc
  <2>3. BkHolds' /\ TokenMatchesCur'
    BY <1>21, ConstAssumption DEF HandleOp, BkHolds, TokenMatchesCur, BkType, TokenType,
       Slot
  <2> QED
    BY <2>1, <2>2, <2>3
<1>22. CASE OpHandled
  <2>1. ReqType' /\ TokenType' /\ EngineType' /\ CallerType' /\ HistType'
    BY <1>22 DEF OpHandled, ReqType, TokenType, EngineType, CallerType, HistType
  <2>2. OpInfoType'
    BY <1>22 DEF OpHandled, OpInfoType, OpNode, OpType
  <2>3. BkType'
    BY <1>22 DEF OpHandled, BkType, ReqType, BkPc, OpsPc
  <2>4. BkHolds' /\ TokenMatchesCur'
    BY <1>22, ConstAssumption DEF OpHandled, BkHolds, TokenMatchesCur, BkType, TokenType,
       Slot
  <2> QED
    BY <2>1, <2>2, <2>3, <2>4
<1>23. CASE dispr_process_token_req
  <2>1. ReqType' /\ OpInfoType' /\ TokenType' /\ EngineType' /\ CallerType' /\ HistType'
    BY <1>23 DEF dispr_process_token_req, ReqType, OpInfoType, TokenType, EngineType,
       CallerType, HistType
  <2>2. BkType'
    BY <1>23 DEF dispr_process_token_req, MayRegister, BkType, ReqType, BkPc, OpsPc
  <2>3. BkHolds' /\ TokenMatchesCur'
    BY <1>23, ConstAssumption DEF dispr_process_token_req, MayRegister, BkHolds,
       TokenMatchesCur, BkType, TokenType, Slot
  <2> QED
    BY <2>1, <2>2, <2>3
<1>24. CASE NoReqLeft
  <2>1. ReqType' /\ OpInfoType' /\ EngineType' /\ CallerType' /\ HistType'
    BY <1>24 DEF NoReqLeft, ReqType, OpInfoType, EngineType, CallerType, HistType
  <2>2. TokenType'
    BY <1>24 DEF NoReqLeft, SendPhy, TokenType, BkType
  <2>3. BkType'
    BY <1>24 DEF NoReqLeft, SendPhy, BkType, ReqType, BkPc, OpsPc
  <2>4. BkHolds' /\ TokenMatchesCur'
    BY <1>24, ConstAssumption DEF NoReqLeft, SendPhy, BkHolds, TokenMatchesCur, BkType,
       TokenType, Slot
  <2> QED
    BY <2>1, <2>2, <2>3, <2>4
<1>25. CASE pop_front_wait_req
  <2>1. Head(waitQ) \in Slot /\ Tail(waitQ) \in Seq(Slot)
    <3>1. waitQ # <<>>
      BY <1>25 DEF pop_front_wait_req, ReqType
    <3> QED
      BY <3>1, HeadTailType DEF ReqType
  <2>2. OpInfoType' /\ EngineType' /\ CallerType' /\ HistType'
    BY <1>25 DEF pop_front_wait_req, OpInfoType, EngineType, CallerType, HistType
  <2>3. ReqType'
    BY <1>25, <2>1 DEF pop_front_wait_req, SendPhy, ReqType, Flag
  <2>4. TokenType'
    BY <1>25, <2>1 DEF pop_front_wait_req, SendPhy, TokenType, BkType
  <2>5. BkType'
    BY <1>25, <2>1 DEF pop_front_wait_req, SendPhy, BkType, ReqType, BkPc, OpsPc
  <2>6. BkHolds' /\ TokenMatchesCur'
    BY <1>25, <2>1 DEF pop_front_wait_req, BkHolds, TokenMatchesCur
  <2> QED
    BY <2>2, <2>3, <2>4, <2>5, <2>6
<1>26. CASE register_cur_cmd_req
  <2>1. OpInfoType' /\ EngineType' /\ CallerType' /\ HistType'
    BY <1>26 DEF register_cur_cmd_req, OpInfoType, EngineType, CallerType, HistType
  <2>2. ReqType'
    BY <1>26 DEF register_cur_cmd_req, ReqType, Flag
  <2>3. TokenType'
    BY <1>26 DEF register_cur_cmd_req, TokenType, BkType
  <2>4. BkType'
    BY <1>26 DEF register_cur_cmd_req, BkType, ReqType, BkPc, OpsPc
  <2>5. BkHolds' /\ TokenMatchesCur'
    BY <1>26, ConstAssumption DEF register_cur_cmd_req, BkHolds, TokenMatchesCur, BkType,
       TokenType, Slot
  <2> QED
    BY <2>1, <2>2, <2>3, <2>4, <2>5
<1>27. CASE AcquiredReturns
  <2>1. ReqType' /\ OpInfoType' /\ TokenType' /\ EngineType' /\ CallerType' /\ HistType'
    BY <1>27 DEF AcquiredReturns, ReqType, OpInfoType, TokenType, EngineType, CallerType,
       HistType
  <2>2. BkType'
    BY <1>27 DEF AcquiredReturns, BkType, ReqType, BkPc, OpsPc
  <2>3. BkHolds' /\ TokenMatchesCur'
    BY <1>27, ConstAssumption DEF AcquiredReturns, BkHolds, TokenMatchesCur, BkType,
       TokenType, Slot
  <2> QED
    BY <2>1, <2>2, <2>3
<1>28. CASE deregister_cur_cmd_req
  <2>1. OpInfoType' /\ TokenType' /\ EngineType' /\ CallerType'
    BY <1>28 DEF deregister_cur_cmd_req, OpInfoType, TokenType, EngineType, CallerType
  <2>2. ReqType'
    BY <1>28 DEF deregister_cur_cmd_req, ReqType, Flag
  <2>3. BkType'
    BY <1>28 DEF deregister_cur_cmd_req, BkType, ReqType, BkPc, OpsPc
  <2>4. HistType'
    BY <1>28 DEF deregister_cur_cmd_req, HistType
  <2>5. BkHolds' /\ TokenMatchesCur'
    BY <1>28, ConstAssumption DEF deregister_cur_cmd_req, BkHolds, TokenMatchesCur,
       BkType, TokenType, Slot
  <2> QED
    BY <2>1, <2>2, <2>3, <2>4, <2>5
<1>29. CASE LastPermit
  <2>1. OpInfoType' /\ TokenType' /\ EngineType' /\ CallerType' /\ HistType'
    BY <1>29 DEF LastPermit, OpInfoType, TokenType, EngineType, CallerType, HistType
  <2>2. ReqType'
    BY <1>29 DEF LastPermit, ReqType, Flag
  <2>3. BkType'
    BY <1>29 DEF LastPermit, BkType, ReqType, BkPc, OpsPc
  <2>4. BkHolds' /\ TokenMatchesCur'
    BY <1>29, ConstAssumption DEF LastPermit, BkHolds, TokenMatchesCur, BkType, TokenType,
       Slot
  <2> QED
    BY <2>1, <2>2, <2>3, <2>4
<1>30. CASE AbortCallback
  <2>1. cur \in Slot /\ req[cur] \in 0..MaxReq
    BY <1>30 DEF AbortCallback, BkHolds, ReqType
  <2>2. OpInfoType' /\ EngineType' /\ CallerType' /\ HistType'
    BY <1>30 DEF AbortCallback, OpInfoType, EngineType, CallerType, HistType
  <2>3. ReqType'
    BY <1>30, <2>1 DEF AbortCallback, ForAbort, get_cur_cmd_req_id, ReqType, Flag
  <2>4. TokenType'
    <3>1. CASE UNCHANGED <<abortQ, waitAbort>>
      BY <1>30, <3>1 DEF AbortCallback, TokenType
    <3>2. CASE ~UNCHANGED <<abortQ, waitAbort>>
      <4> DEFINE msg == [req |-> req[cur], forAbort |-> ForAbort]
      <4>1. ForAbort \in BOOLEAN
        BY Zenon DEF ForAbort
      <4>2. msg \in [req : 0..MaxReq, forAbort : BOOLEAN]
        BY <2>1, <4>1
      <4>3. abortQ' = Append(abortQ, msg) /\ waitAbort' = (waitAbort \/ ForAbort)
        BY <1>30, <3>2 DEF AbortCallback
      <4>4. abortQ' \in Seq([req : 0..MaxReq, forAbort : BOOLEAN])
        BY <4>2, <4>3 DEF TokenType
      <4>5. waitAbort' \in BOOLEAN
        BY <4>3
      <4> QED
        BY <1>30, <4>4, <4>5 DEF AbortCallback, TokenType
    <3> QED
      BY <3>1, <3>2
  <2>5. BkType'
    BY <1>30, <2>1 DEF AbortCallback, ForAbort, get_cur_cmd_req_id, BkType, ReqType, BkPc,
       OpsPc
  <2>6. BkHolds' /\ TokenMatchesCur'
    BY <1>30, ConstAssumption DEF AbortCallback, ForAbort, get_cur_cmd_req_id, BkHolds,
       TokenMatchesCur, BkType, TokenType, Slot
  <2> QED
    BY <2>2, <2>3, <2>4, <2>5, <2>6
<1>31. CASE push_back_idle_req
  <2>1. cur \in Slot /\ {} \in SUBSET Flag
    BY <1>31 DEF push_back_idle_req, BkHolds
  <2>2. OpInfoType' /\ TokenType' /\ EngineType' /\ CallerType' /\ HistType'
    BY <1>31 DEF push_back_idle_req, OpInfoType, TokenType, EngineType, CallerType, HistType
  <2>3. ReqType'
    BY <1>31, <2>1 DEF push_back_idle_req, ReqType, Flag
  <2>4. BkType'
    BY <1>31, <2>1 DEF push_back_idle_req, BkType, ReqType, BkPc, OpsPc
  <2>5. BkHolds' /\ TokenMatchesCur'
    BY <1>31, ConstAssumption DEF push_back_idle_req, BkHolds, TokenMatchesCur, BkType,
       TokenType, Slot
  <2> QED
    BY <2>2, <2>3, <2>4, <2>5
<1>32. CASE DropToken
  <2>1. ReqType' /\ OpInfoType' /\ EngineType' /\ CallerType' /\ HistType'
    BY <1>32 DEF DropToken, ReqType, OpInfoType, EngineType, CallerType, HistType
  <2>2. TokenType'
    BY <1>32 DEF DropToken, TokenType, BkType
  <2>3. BkType'
    BY <1>32 DEF DropToken, BkType, ReqType, BkPc, OpsPc
  <2>4. BkHolds' /\ TokenMatchesCur'
    BY <1>32, ConstAssumption DEF DropToken, BkHolds, TokenMatchesCur, BkType, TokenType,
       Slot
  <2> QED
    BY <2>1, <2>2, <2>3, <2>4
<1>33. CASE HandleMsg
  <2>1. ReqType' /\ CallerType' /\ HistType'
    BY <1>33 DEF HandleMsg, ReqType, CallerType, HistType
  <2>2. OpInfoType'
    <3>1. CASE UNCHANGED opVars
      BY <3>1 DEF OpInfoType
    <3>2. CASE ~UNCHANGED opVars
      <4>1. /\ used' = [used EXCEPT ![Renew] = TRUE]
            /\ otype' = [otype EXCEPT ![Renew] = "renew"]
            /\ opQ' = Append(opQ, Renew)
            /\ corrupt' = corrupt
        BY <1>33, <3>2 DEF HandleMsg, on_abort_msg_complete
      <4>2. used' \in [OpNode -> BOOLEAN] /\ corrupt' \in BOOLEAN
        BY <4>1 DEF OpInfoType
      <4>3. opQ' \in Seq(OpNode) /\ otype' \in [OpNode -> OpType]
        BY <4>1 DEF OpInfoType, OpNode, OpType
      <4> QED
        BY <4>2, <4>3 DEF OpInfoType
    <3> QED
      BY <3>1, <3>2
  <2>3. TokenType'
    <3>1. abortQ' \in Seq([req : 0..MaxReq, forAbort : BOOLEAN])
      BY <1>33, HeadTailType DEF HandleMsg, TokenType
    <3>2. waitAbort' = waitAbort \/ waitAbort' = FALSE
      BY <1>33 DEF HandleMsg, on_abort_msg_complete
    <3> QED
      BY <1>33, <3>1, <3>2 DEF HandleMsg, TokenType
  <2>4. EngineType'
    BY <1>33 DEF HandleMsg, on_abort_msg_complete, LoopTop, EngineType
  <2>5. BkType'
    BY <1>33 DEF HandleMsg, on_abort_msg_complete, LoopTop, BkType, ReqType, BkPc, OpsPc
  <2>6. BkHolds' /\ TokenMatchesCur'
    BY <1>33, ConstAssumption DEF HandleMsg, on_abort_msg_complete, LoopTop, BkHolds,
       TokenMatchesCur, BkType, TokenType, Slot
  <2> QED
    BY <2>1, <2>2, <2>3, <2>4, <2>5, <2>6
<1>34. CASE dispr_thread_leave_hdl
  BY <1>34 DEF dispr_thread_leave_hdl, ReqType, OpInfoType, TokenType, EngineType, BkType,
     CallerType,
     HistType, BkHolds, TokenMatchesCur, BkPc, OpsPc
<1>35. CASE clear_wating_req
  BY <1>35 DEF clear_wating_req, ReqType, OpInfoType, TokenType, EngineType, BkType,
     CallerType, HistType, BkHolds, TokenMatchesCur, BkPc, OpsPc
<1>36. CASE StopPrior
  <2>1. ReqType' /\ OpInfoType' /\ BkType' /\ CallerType' /\ HistType'
    BY <1>36 DEF StopPrior, ReqType, OpInfoType, BkType, CallerType, HistType
  <2>2. TokenType'
    BY <1>36 DEF StopPrior, TokenType, BkType
  <2>3. EngineType'
    BY <1>36 DEF StopPrior, EngineType
  <2>4. BkHolds' /\ TokenMatchesCur'
    BY <1>36, ConstAssumption DEF StopPrior, BkHolds, TokenMatchesCur, BkType, TokenType,
       Slot
  <2> QED
    BY <2>1, <2>2, <2>3, <2>4
<1>37. CASE cancel_all_cmd_req
  <2>1. OpInfoType' /\ TokenType' /\ BkType' /\ CallerType' /\ HistType'
    BY <1>37 DEF cancel_all_cmd_req, OpInfoType, TokenType, BkType, CallerType, HistType
  <2>2. ReqType'
    BY <1>37 DEF cancel_all_cmd_req, ReqType, Flag
  <2>3. EngineType'
    BY <1>37 DEF cancel_all_cmd_req, EngineType
  <2>4. BkHolds' /\ TokenMatchesCur'
    BY <1>37, ConstAssumption DEF cancel_all_cmd_req, BkHolds, TokenMatchesCur, BkType,
       TokenType, Slot
  <2> QED
    BY <2>1, <2>2, <2>3, <2>4
<1>38. CASE ThreadStop
  BY <1>38 DEF ThreadStop, ReqType, OpInfoType, TokenType, EngineType, BkType, CallerType,
     HistType, BkHolds, TokenMatchesCur
<1>39. CASE StopPost
  BY <1>39 DEF StopPost, ReqType, OpInfoType, TokenType, EngineType, BkType, CallerType,
     HistType, BkHolds, TokenMatchesCur
<1>40. CASE CancelRecycled
  <2> DEFINE s == bnode[2]
  <2>1. PICK i \in DOMAIN idleQ : idleQ[i] = s /\ idleQ' = RemoveAt(idleQ, i)
    BY <1>40 DEF CancelRecycled
  <2>2. s \in Slot /\ idleQ' \in Seq(Slot)
    BY <2>1, RemoveAtProps DEF ReqType
  <2>3. OpInfoType' /\ TokenType' /\ EngineType' /\ CallerType'
    BY <1>40 DEF CancelRecycled, OpInfoType, TokenType, EngineType, CallerType
  <2>4. ReqType'
    BY <1>40, <2>2 DEF CancelRecycled, ReqType
  <2>5. BkType'
    BY <1>40, <2>2 DEF CancelRecycled, BkType, BkPc, OpsPc
  <2>6. HistType'
    <3>1. ends' = [ends EXCEPT ![req[s]] = @ + 1]
      BY <1>40 DEF CancelRecycled
    <3>2. ends' \in [Req -> Nat]
      BY <3>1, CountUp DEF HistType
    <3> QED
      BY <1>40, <3>2 DEF CancelRecycled, HistType
  <2>7. BkHolds' /\ TokenMatchesCur'
    BY <1>40, <2>2 DEF CancelRecycled, BkHolds, TokenMatchesCur
  <2> QED
    BY <2>3, <2>4, <2>5, <2>6, <2>7
<1>41. CASE ClearPop
  <2>1. OpInfoType' /\ TokenType' /\ EngineType' /\ CallerType'
    BY <1>41 DEF ClearPop, OpInfoType, TokenType, EngineType, CallerType
  <2>2. ReqType'
    <3>1. CASE Len(waitQ) <= skew
      BY <1>41, <3>1 DEF ClearPop, ReqType
    <3>2. CASE Len(waitQ) > skew
      <4>0. waitQ # <<>>
        BY <3>2 DEF ReqType
      <4>1. Head(waitQ) \in Slot /\ Tail(waitQ) \in Seq(Slot)
        BY <4>0, HeadTailType DEF ReqType
      <4>2. status' \in [Slot -> SUBSET Flag] /\ UNCHANGED <<req, skew>>
        BY <1>41, <3>2, <4>1 DEF ClearPop, ReqType
      <4>3. idleQ' = Append(idleQ, Head(waitQ)) /\ waitQ' = Tail(waitQ)
        BY <1>41, <3>2 DEF ClearPop, ReqType
      <4>4. idleQ' \in Seq(Slot) /\ waitQ' \in Seq(Slot)
        BY <4>1, <4>3 DEF ReqType
      <4> QED
        BY <4>2, <4>4 DEF ReqType
    <3> QED
      BY <3>1, <3>2 DEF ReqType
  <2>3. BkType'
    BY <1>41 DEF ClearPop, BkType, ReqType, BkPc, OpsPc
  <2>4. HistType'
    BY <1>41 DEF ClearPop, HistType
  <2>5. BkHolds' /\ TokenMatchesCur'
    BY <1>41, ConstAssumption DEF ClearPop, BkHolds, TokenMatchesCur, BkType,
       TokenType, Slot
  <2> QED
    BY <2>1, <2>2, <2>3, <2>4, <2>5
<1>42. CASE dispr_module_stop
  BY <1>42 DEF dispr_module_stop, ReqType, OpInfoType, TokenType, EngineType, BkType,
     CallerType, HistType, BkHolds, TokenMatchesCur
<1>43. CASE UNCHANGED vars
  BY <1>43 DEF vars, ReqType, OpInfoType, TokenType, EngineType, BkType, CallerType,
     HistType,
     BkHolds, TokenMatchesCur
<1> QED
  BY <1>1, <1>2, <1>3, <1>4, <1>5, <1>6, <1>7, <1>8, <1>9, <1>10, <1>11, <1>12,
     <1>13, <1>14, <1>15, <1>16, <1>17, <1>18, <1>19, <1>20, <1>21, <1>22,
     <1>23, <1>24, <1>25, <1>26, <1>27, <1>28, <1>29, <1>30, <1>31, <1>32,
     <1>33, <1>34, <1>35, <1>36, <1>37, <1>38, <1>39, <1>40, <1>41,
     <1>42, <1>43 DEF Next, Background, Engine, Caller

(* Every variable has its type in every state of every instance: in        *)
(* particular the thread never handles a queue entry it does not have.     *)
THEOREM TypeCorrect == Spec => []TypeOK
<1>1. Init => TokenInv
  BY TokenInit
<1>2. TokenInv /\ [Next]_vars => TokenInv'
  BY TokenStep
<1>3. TokenInv => TypeOK
  BY DEF TokenInv
<1> QED
  BY <1>1, <1>2, <1>3, PTL DEF Spec

(* token_cnt is 1 exactly while cur_cmd_req is set, and never more: no two *)
(* requests ever have the token, with any number of entries and callers,   *)
(* preempted anywhere, on any number of CPUs, stopped or not.              *)
THEOREM TokenConsistent == Spec => []TokenMatchesCur
<1>1. Init => TokenInv
  BY TokenInit
<1>2. TokenInv /\ [Next]_vars => TokenInv'
  BY TokenStep
<1>3. TokenInv => TokenMatchesCur
  BY DEF TokenInv
<1> QED
  BY <1>1, <1>2, <1>3, PTL DEF Spec

-----------------------------------------------------------------------------
(* The running request.  While a request is being ended its RUN flag is    *)
(* already clear, so that dropping cur_cmd_req leaves no RUN behind.       *)
RunInv ==
    /\ OnlyCurRuns
    /\ bpc \in {"permit", "abort", "recyc", "drop"} =>
          "RUN" \notin status[cur] \/ req[cur] \in torn

(* A caller leaves the thread and cur_cmd_req alone.  It brings a RUN back  *)
(* only where it writes an outdated flag word, and gives an entry another  *)
(* request only with no flag set.                                          *)
LEMMA CallerSetsNoRun ==
    ASSUME TypeOK, NEW c \in Client, Caller(c)
    PROVE  /\ UNCHANGED <<cur, bpc>> /\ torn \subseteq torn'
           /\ \A s \in Slot : "RUN" \in status'[s] =>
                 req'[s] = req[s] /\ ("RUN" \in status[s] \/ req[s] \in torn')
<1> USE DEF TypeOK, ReqType, CallerType
<1>1. CASE pop_front_idle_req(c)
  BY <1>1 DEF pop_front_idle_req
<1>2. CASE SetEnq(c) \/ CancelSet(c) \/ FreeSet(c)
  <2>1. PICK f \in {"ENQ", "CANCEL"} : SetFlag(c, f) /\ UNCHANGED <<cur, bpc, req>>
    BY <1>2 DEF SetEnq, CancelSet, FreeSet
  <2>2. torn \subseteq torn' /\ cslot[c] \in Slot
    BY <2>1 DEF SetFlag
  <2>3. CASE Cpu = "smp" /\ cld[c] # status[cslot[c]]
    <3>1. req[cslot[c]] \in torn'
      BY <2>1, <2>3 DEF SetFlag
    <3>2. \A s \in Slot : s # cslot[c] => status'[s] = status[s]
      BY <2>1 DEF SetFlag
    <3> QED
      BY <2>1, <2>2, <3>1, <3>2
  <2>4. CASE ~(Cpu = "smp" /\ cld[c] # status[cslot[c]])
    <3>1. status' = [status EXCEPT ![cslot[c]] = status[cslot[c]] \cup {f}]
      BY <2>1, <2>4 DEF SetFlag
    <3> QED
      BY <2>1, <2>2, <3>1
  <2> QED
    BY <2>3, <2>4
<1>3. CASE AddOp(c) \/ CancelOp(c) \/ FreeOp(c)
  BY <1>3 DEF AddOp, CancelOp, FreeOp, push_back_token_op_info
<1>4. CASE \/ dispr_add_token_req(c) \/ NoIdleReq(c) \/ push_back_wait_req(c) \/ LoadEnq(c)
           \/ dispr_cancel_token_req(c) \/ dispr_free_token(c) \/ notify_bk_thread(c)
           \/ dispr_is_fg_empty(c) \/ FgEmptyOps(c)
  BY <1>4 DEF dispr_add_token_req, NoIdleReq, push_back_wait_req, LoadEnq,
     dispr_cancel_token_req, dispr_free_token, notify_bk_thread, dispr_is_fg_empty, FgEmptyOps
<1> QED
  BY <1>1, <1>2, <1>3, <1>4 DEF Caller

(* Only register_cur_cmd_req sets RUN, and the end of a request clears it. *)
LEMMA RunStep ==
    ASSUME TokenInv, RunInv, [Next]_vars
    PROVE  RunInv'
<1> USE DEF TypeOK, TokenInv, RunInv, OnlyCurRuns
<1>1. ASSUME NEW c \in Client, Caller(c) PROVE RunInv'
  BY <1>1, CallerSetsNoRun DEF BkHolds
<1>2. CASE \/ share_thread_hdl \/ token_op_hanler \/ HandleOp \/ OpHandled
           \/ dispr_process_token_req \/ NoReqLeft \/ AcquiredReturns \/ HandleMsg
           \/ dispr_thread_leave_hdl \/ CancelRecycled \/ clear_wating_req
  <2>1. UNCHANGED <<status, cur, req, torn>> /\ bpc' \notin {"permit", "abort", "recyc", "drop"}
    BY <1>2 DEF share_thread_hdl, token_op_hanler, HandleOp, OpHandled, LoopTop,
       dispr_process_token_req, NoReqLeft, AcquiredReturns, HandleMsg, dispr_thread_leave_hdl,
       CancelRecycled, clear_wating_req
  <2> QED
    BY <2>1
<1>3. CASE CancelWaiting
  BY <1>3 DEF CancelWaiting
<1>4. CASE CancelIdle
  BY <1>4 DEF CancelIdle, ReqType
<1>5. CASE pop_front_wait_req
  BY <1>5 DEF pop_front_wait_req, ReqType
<1>6. CASE register_cur_cmd_req
  BY <1>6, ConstAssumption DEF register_cur_cmd_req, ReqType, BkHolds, Slot
<1>7. CASE deregister_cur_cmd_req
  BY <1>7, ConstAssumption DEF deregister_cur_cmd_req, ReqType, BkType, TokenType
<1>8. CASE LastPermit
  BY <1>8 DEF LastPermit, ReqType, BkHolds
<1>9. CASE AbortCallback
  BY <1>9 DEF AbortCallback, ReqType, BkHolds
<1>10. CASE push_back_idle_req
  BY <1>10 DEF push_back_idle_req, ReqType, BkHolds
<1>11. CASE DropToken
  BY <1>11 DEF DropToken, BkType
<1>12. CASE ClearPop
  BY <1>12 DEF ClearPop, ReqType
<1>13. CASE Engine
  <2>1. UNCHANGED <<bpc, cur, req, torn>>
    BY <1>13 DEF Engine, dispr_module_stop, StopPrior, cancel_all_cmd_req, ThreadStop, StopPost
  <2>2. \A s \in Slot : "RUN" \in status'[s] => "RUN" \in status[s]
    BY <1>13 DEF Engine, dispr_module_stop, StopPrior, cancel_all_cmd_req, ThreadStop, StopPost
  <2> QED
    BY <2>1, <2>2 DEF BkHolds
<1>14. CASE UNCHANGED vars
  BY <1>14 DEF vars
<1> QED
  BY <1>1, <1>2, <1>3, <1>4, <1>5, <1>6, <1>7, <1>8, <1>9, <1>10, <1>11, <1>12, <1>13, <1>14
     DEF Next, Background

(* On any machine: RUN marks at most the entry cur_cmd_req points to, so a *)
(* queued free or cancel that finds RUN on its entry ends that request and *)
(* no other one, unless a caller on another CPU has written an outdated    *)
(* flag word into that entry.                                              *)
THEOREM RunMarksCur == Spec => []OnlyCurRuns
<1>1. Init => TokenInv /\ RunInv
  BY TokenInit DEF Init, RunInv, OnlyCurRuns
<1>2. (TokenInv /\ RunInv) /\ [Next]_vars => (TokenInv /\ RunInv)'
  BY TokenStep, RunStep
<1>3. RunInv => OnlyCurRuns
  BY DEF RunInv
<1> QED
  BY <1>1, <1>2, <1>3, PTL DEF Spec

-----------------------------------------------------------------------------
(* The wakeup.  It is not enough to look at the thread when it sleeps: an  *)
(* operation may be linked while the thread handles a message, after it    *)
(* has drained token_op_q.                                                 *)
WakeInv ==
    opQ # <<>> /\ bpc \in {"wait", "msg"} => sema > 0 \/ \E c \in Client : cpc[c] = "up"

(* Each operation that is linked brings a wakeup with it, and only a thread *)
(* that will still drain token_op_q takes one.                             *)
LEMMA WakeStep ==
    ASSUME TypeOK, WakeInv, [Next]_vars
    PROVE  WakeInv'
<1> USE DEF TypeOK, WakeInv, EngineType, CallerType
<1>1. ASSUME NEW c \in Client, Caller(c) PROVE WakeInv'
  <2>1. CASE notify_bk_thread(c)
    BY <2>1 DEF notify_bk_thread
  <2>2. CASE AddOp(c) \/ CancelOp(c) \/ FreeOp(c)
    <3>1. cpc[c] # "up"
      BY <2>2 DEF AddOp, CancelOp, FreeOp
    <3> QED
      BY <2>2, <3>1 DEF AddOp, CancelOp, FreeOp, push_back_token_op_info
  <2>3. CASE ~notify_bk_thread(c) /\ ~(AddOp(c) \/ CancelOp(c) \/ FreeOp(c))
    <3>1. UNCHANGED <<opQ, bpc, sema>> /\ cpc[c] # "up"
      BY <1>1, <2>3 DEF Caller, dispr_add_token_req, pop_front_idle_req, NoIdleReq,
         push_back_wait_req, LoadEnq, SetEnq, dispr_cancel_token_req, CancelSet,
         dispr_free_token, FreeSet, dispr_is_fg_empty, FgEmptyOps, Outside
    <3>2. \A d \in Client \ {c} : cpc'[d] = cpc[d]
      BY <1>1, <2>3 DEF Caller, dispr_add_token_req, pop_front_idle_req, NoIdleReq,
         push_back_wait_req, LoadEnq, SetEnq, dispr_cancel_token_req, CancelSet,
         dispr_free_token, FreeSet, dispr_is_fg_empty, FgEmptyOps
    <3> QED
      BY <3>1, <3>2
  <2> QED
    BY <2>1, <2>2, <2>3
<1>2. CASE token_op_hanler
  BY <1>2 DEF token_op_hanler
<1>3. CASE HandleMsg
  BY <1>3 DEF HandleMsg, on_abort_msg_complete, LoopTop
<1>4. CASE Background /\ ~token_op_hanler /\ ~HandleMsg
  <2>1. bpc' \notin {"wait", "msg"}
    BY <1>4 DEF Background, share_thread_hdl, CancelWaiting, CancelRecycled, CancelIdle,
       HandleOp, OpHandled, ClearPop,
       dispr_process_token_req, NoReqLeft, pop_front_wait_req, register_cur_cmd_req,
       AcquiredReturns, deregister_cur_cmd_req, LastPermit, AbortCallback,
       push_back_idle_req, DropToken, dispr_thread_leave_hdl, clear_wating_req, BkType
  <2> QED
    BY <2>1
<1>5. CASE Engine
  BY <1>5 DEF Engine, dispr_module_stop, StopPrior, cancel_all_cmd_req, ThreadStop, StopPost
<1>6. CASE UNCHANGED vars
  BY <1>6 DEF vars
<1> QED
  BY <1>1, <1>2, <1>3, <1>4, <1>5, <1>6 DEF Next

(* No wakeup is lost: whenever the thread sleeps and an operation is       *)
(* queued, the semaphore is up or its caller is about to raise it.         *)
THEOREM NoLostWakeup == Spec => []NoSleepOnOp
<1>1. Init => TokenInv /\ WakeInv
  BY TokenInit DEF Init, WakeInv
<1>2. (TokenInv /\ WakeInv) /\ [Next]_vars => (TokenInv /\ WakeInv)'
  BY TokenStep, WakeStep DEF TokenInv
<1>3. WakeInv => NoSleepOnOp
  BY DEF WakeInv, NoSleepOnOp
<1> QED
  BY <1>1, <1>2, <1>3, PTL DEF Spec

-----------------------------------------------------------------------------
(* Power.  DISPR_NOTIFY_IDLE, by which the thread decides whether to send  *)
(* a message, is clear from before a request is registered, and while it   *)
(* is clear the last message was PHY_ON, sent or lost for want of a buffer, *)
(* as long as no stop has begun.                                           *)
PhyInv ==
    /\ ~notifyIdle /\ epc = "up" => phyOn \/ phyLost
    /\ epc = "up" => started
    /\ cur # None \/ bpc = "reg" => ~notifyIdle

(* Every step preserves it. *)
LEMMA PhyStep ==
    ASSUME TokenInv, PhyInv, [Next]_vars
    PROVE  PhyInv'
<1> USE DEF TypeOK, TokenInv, PhyInv, BkHolds
<1>1. ASSUME NEW c \in Client, Caller(c) PROVE PhyInv'
  <2>1. UNCHANGED <<tokVars, bkVars, epc>>
    BY <1>1 DEF Caller, dispr_add_token_req, pop_front_idle_req, NoIdleReq, push_back_wait_req,
       LoadEnq, SetEnq, AddOp, dispr_cancel_token_req, CancelSet, CancelOp, dispr_free_token,
       FreeSet, FreeOp, notify_bk_thread, dispr_is_fg_empty, FgEmptyOps,
       push_back_token_op_info
  <2> QED
    BY <2>1
<1>2. CASE NoReqLeft
  BY <1>2 DEF NoReqLeft, SendPhy, MaySend
<1>3. CASE pop_front_wait_req
  BY <1>3 DEF pop_front_wait_req, SendPhy, MaySend
<1>4. CASE register_cur_cmd_req
  BY <1>4 DEF register_cur_cmd_req
<1>5. CASE Background /\ ~NoReqLeft /\ ~pop_front_wait_req /\ ~register_cur_cmd_req
  <2>1. /\ UNCHANGED <<notifyIdle, phyOn, phyLost, epc, started>>
        /\ cur' \in {cur, None} /\ bpc' # "reg"
    BY <1>5 DEF Background, share_thread_hdl, token_op_hanler, CancelWaiting, CancelIdle,
       CancelRecycled, ClearPop,
       HandleOp, OpHandled, dispr_process_token_req, AcquiredReturns, deregister_cur_cmd_req,
       LastPermit, AbortCallback, push_back_idle_req, DropToken, HandleMsg,
       dispr_thread_leave_hdl, clear_wating_req, LoopTop, BkType
  <2> QED
    BY <2>1
<1>6. CASE Engine
  BY <1>6 DEF Engine, dispr_module_stop, StopPrior, cancel_all_cmd_req, ThreadStop, StopPost
<1>7. CASE UNCHANGED vars
  BY <1>7 DEF vars
<1> QED
  BY <1>1, <1>2, <1>3, <1>4, <1>5, <1>6, <1>7 DEF Next

(* Until the stop of the engine begins, no request has the token while the *)
(* power module was last told PHY_IDLE, however requests, early ends and   *)
(* aborts alternate, unless the PHY_ON found no message buffer.            *)
THEOREM PowerBeforeToken == Spec => []PhyOnWhileHeld
<1>1. Init => TokenInv /\ PhyInv
  BY TokenInit DEF Init, PhyInv
<1>2. (TokenInv /\ PhyInv) /\ [Next]_vars => (TokenInv /\ PhyInv)'
  BY TokenStep, PhyStep
<1>3. PhyInv => PhyOnWhileHeld
  BY DEF PhyInv, PhyOnWhileHeld
<1> QED
  BY <1>1, <1>2, <1>3, PTL DEF Spec

-----------------------------------------------------------------------------
(* Where the entries are.  Besides the two queues an entry can be with a   *)
(* caller that has taken it from the idle queue, in the hand of the        *)
(* thread, or be the current request until it is recycled.                 *)
Pushers == {c \in Client : cpc[c] = "push"}
BkEntry == IF bpc \in {"reg", "cxlidle"} THEN bslot ELSE None
CurEntry == IF bpc # "drop" THEN cur ELSE None

(* No two of these places have the same entry, and none is missing. *)
PlaceInv ==
    /\ IsInjective(idleQ) /\ IsInjective(waitQ)
    /\ ToSet(idleQ) \cap ToSet(waitQ) = {}
    /\ \A c \in Pushers : cslot[c] \notin ToSet(idleQ) /\ cslot[c] \notin ToSet(waitQ)
    /\ \A c, d \in Pushers : cslot[c] = cslot[d] => c = d
    /\ BkEntry \notin ToSet(idleQ) /\ BkEntry \notin ToSet(waitQ)
    /\ CurEntry \notin ToSet(idleQ) /\ CurEntry \notin ToSet(waitQ)
    /\ \A c \in Pushers : cslot[c] # BkEntry /\ cslot[c] # CurEntry
    /\ BkEntry = CurEntry => CurEntry = None
    /\ \A s \in Slot : \/ s \in ToSet(idleQ) \/ s \in ToSet(waitQ)
                       \/ \E c \in Pushers : cslot[c] = s
                       \/ s = BkEntry \/ s = CurEntry

(* The entries whose request has not been told that it is over. *)
Ending == {"permit", "abort", "recyc", "drop"}
Live == {s \in Slot : \/ s \in ToSet(waitQ)
                      \/ \E c \in Pushers : cslot[c] = s
                      \/ bpc = "reg" /\ bslot = s
                      \/ bpc \notin Ending /\ cur = s}

(* The actions that move an entry or end a request. *)
Moves ==
    \/ CancelWaiting \/ CancelRecycled \/ CancelIdle \/ pop_front_wait_req
    \/ register_cur_cmd_req \/ deregister_cur_cmd_req \/ push_back_idle_req \/ ClearPop
    \/ \E c \in Client : pop_front_idle_req(c) \/ push_back_wait_req(c)

(* All other steps leave the entries and their requests where they are. *)
LEMMA OthersKeepPlaces ==
    ASSUME TypeOK, [Next]_vars, ~Moves
    PROVE  /\ UNCHANGED <<idleQ, waitQ, skew, req, cslot, creq, nreq, ends, late,
                          Pushers, BkEntry, CurEntry, Live>>
           /\ \A s \in Slot :
                 /\ (bpc' = "reg" /\ bslot' = s) <=> (bpc = "reg" /\ bslot = s)
                 /\ (bpc' \notin Ending /\ cur' = s) <=> (bpc \notin Ending /\ cur = s)
<1> USE DEF TypeOK
<1> SUFFICES /\ UNCHANGED <<idleQ, waitQ, skew, req, cslot, creq, nreq, ends, late>>
             /\ UNCHANGED <<Pushers, BkEntry, CurEntry>>
             /\ \A s \in Slot : /\ (bpc' = "reg" /\ bslot' = s) <=> (bpc = "reg" /\ bslot = s)
                                /\ (bpc' \notin Ending /\ cur' = s) <=> (bpc \notin Ending /\ cur = s)
  BY DEF Live
<1>1. ASSUME NEW c \in Client, Caller(c)
      PROVE  /\ UNCHANGED <<idleQ, waitQ, skew, req, cslot, creq, nreq, ends, late, cur, bpc, bslot>>
             /\ UNCHANGED Pushers
  <2>1. /\ UNCHANGED <<idleQ, waitQ, skew, req, cslot, creq, nreq, ends, late, cur, bpc, bslot>>
        /\ cpc[c] # "push" /\ cpc' = [cpc EXCEPT ![c] = cpc'[c]] /\ cpc'[c] # "push"
    BY <1>1 DEF Moves, Caller, dispr_add_token_req, NoIdleReq, LoadEnq, SetEnq, AddOp,
       dispr_cancel_token_req, CancelSet, CancelOp, dispr_free_token, FreeSet, FreeOp,
       notify_bk_thread, dispr_is_fg_empty, FgEmptyOps, push_back_token_op_info, SetFlag,
       Outside, CallerType
  <2> QED
    BY <2>1 DEF Pushers, CallerType
<1>2. CASE Background
  <2>1. UNCHANGED <<idleQ, waitQ, skew, req, cslot, creq, nreq, ends, late, cpc>>
    BY <1>2 DEF Moves, Background, share_thread_hdl, token_op_hanler, HandleOp, OpHandled,
       dispr_process_token_req, NoReqLeft, AcquiredReturns, LastPermit, AbortCallback,
       DropToken, HandleMsg, dispr_thread_leave_hdl, clear_wating_req
  <2>2. CASE LastPermit \/ AbortCallback \/ DropToken
    BY <2>1, <2>2, ConstAssumption DEF LastPermit, AbortCallback, DropToken, Pushers, BkEntry,
       CurEntry, Ending, BkType, Slot
  <2>3. CASE ~(LastPermit \/ AbortCallback \/ DropToken)
    <3>1. /\ bpc \notin Ending \cup {"reg", "cxlidle"} /\ bpc' \notin Ending \cup {"reg", "cxlidle"}
          /\ UNCHANGED cur
      BY <1>2, <2>3 DEF Moves, Background, share_thread_hdl, token_op_hanler, HandleOp,
         OpHandled, dispr_process_token_req, NoReqLeft, AcquiredReturns, HandleMsg,
         dispr_thread_leave_hdl, clear_wating_req, LoopTop, Ending
    <3> QED
      BY <2>1, <3>1 DEF Pushers, BkEntry, CurEntry, Ending
  <2> QED
    BY <2>2, <2>3
<1>3. CASE Engine
  <2>1. UNCHANGED <<idleQ, waitQ, skew, req, cslot, creq, nreq, ends, late, cur, bpc, bslot, cpc>>
    BY <1>3 DEF Engine, dispr_module_stop, StopPrior, cancel_all_cmd_req, ThreadStop, StopPost
  <2> QED
    BY <2>1 DEF Pushers, BkEntry, CurEntry
<1>4. CASE UNCHANGED vars
  BY <1>4 DEF vars, Pushers, BkEntry, CurEntry
<1> QED
  BY <1>1, <1>2, <1>3, <1>4 DEF Next, Pushers, BkEntry, CurEntry

(* The places of the entries at the beginning. *)
LEMMA PlaceInit == Init => PlaceInv
<1> SUFFICES ASSUME Init PROVE PlaceInv
  OBVIOUS
<1>1. waitQ = <<>> /\ Pushers = {} /\ BkEntry = None /\ CurEntry = None
  BY DEF Init, Pushers, BkEntry, CurEntry
<1>2. idleQ = [i \in 1..NReq |-> i] /\ DOMAIN idleQ = Slot /\ ToSet(idleQ) = Slot
  BY ConstAssumption DEF Init, Slot, ToSet
<1>3. IsInjective(idleQ)
  BY <1>2 DEF IsInjective, Slot
<1> QED
  BY <1>1, <1>2, <1>3, EmptyQueue, ConstAssumption DEF PlaceInv, Slot

(* Every step preserves PlaceInv: an entry is unlinked from where it was   *)
(* before, or in the same step as, it is put elsewhere.                    *)
LEMMA PlaceStep ==
    ASSUME TokenInv, PlaceInv, [Next]_vars
    PROVE  PlaceInv'
<1>0. /\ idleQ \in Seq(Slot) /\ waitQ \in Seq(Slot) /\ ToSet(idleQ) \subseteq Slot
      /\ ToSet(waitQ) \subseteq Slot /\ None \notin Slot /\ skew \in Nat
      /\ cslot \in [Client -> Slot] /\ cpc \in [Client -> ClPc]
  BY ToSetType, ConstAssumption DEF TokenInv, TypeOK, ReqType, CallerType, Slot
<1>1. CASE ~Moves
  <2>1. UNCHANGED <<idleQ, waitQ, cslot, Pushers, BkEntry, CurEntry>>
    BY <1>1, OthersKeepPlaces DEF TokenInv
  <2> QED
    BY <2>1 DEF PlaceInv
<1>2. ASSUME NEW c \in Client, pop_front_idle_req(c) PROVE PlaceInv'
  <2> DEFINE s == Head(idleQ)
  <2>1. /\ s \in Slot /\ IsInjective(Tail(idleQ)) /\ s \in ToSet(idleQ)
        /\ ToSet(Tail(idleQ)) = ToSet(idleQ) \ {s}
    BY <1>0, <1>2, TailToSet DEF pop_front_idle_req, PlaceInv
  <2>2. /\ idleQ' = Tail(idleQ) /\ waitQ' = waitQ /\ cslot' = [cslot EXCEPT ![c] = s]
        /\ UNCHANGED <<BkEntry, CurEntry>>
    BY <1>2 DEF pop_front_idle_req, BkEntry, CurEntry
  <2>3. c \notin Pushers /\ Pushers' = Pushers \cup {c}
    BY <1>0, <1>2 DEF pop_front_idle_req, Pushers
  <2>4. \A d \in Pushers : cslot'[d] = cslot[d]
    BY <1>0, <2>2, <2>3
  <2>5. cslot'[c] = s
    BY <1>0, <2>2
  <2> HIDE DEF s
  <2> QED
    BY <1>0, <2>1, <2>2, <2>3, <2>4, <2>5 DEF PlaceInv
<1>3. ASSUME NEW c \in Client, push_back_wait_req(c) PROVE PlaceInv'
  <2> DEFINE s == cslot[c]
  <2>1. c \in Pushers /\ Pushers' = Pushers \ {c} /\ s \in Slot
    BY <1>0, <1>3 DEF push_back_wait_req, Pushers
  <2>2. waitQ' = Append(waitQ, s) /\ UNCHANGED <<idleQ, cslot, BkEntry, CurEntry>>
    BY <1>3 DEF push_back_wait_req, BkEntry, CurEntry
  <2>3. IsInjective(waitQ') /\ ToSet(waitQ') = ToSet(waitQ) \cup {s}
    BY <1>0, <2>1, <2>2, AppendToSet DEF PlaceInv
  <2> QED
    BY <1>0, <2>1, <2>2, <2>3 DEF PlaceInv
<1>4. CASE CancelWaiting
  <2> DEFINE s == bnode[2]
  <2>1. UNCHANGED <<idleQ, cslot, Pushers, CurEntry>> /\ BkEntry = None
    BY <1>4 DEF CancelWaiting, Pushers, CurEntry, BkEntry
  <2>2. CASE s \in ToSet(waitQ)
    <3>1. PICK i \in DOMAIN waitQ : waitQ[i] = s /\ waitQ' = RemoveAt(waitQ, i)
      BY <1>4, <2>2 DEF CancelWaiting, pq_del_node
    <3>2. IsInjective(waitQ') /\ ToSet(waitQ') = ToSet(waitQ) \ {s}
      BY <1>0, <3>1, RemoveAtProps DEF PlaceInv
    <3>3. BkEntry' = s
      BY <1>4, <2>2 DEF CancelWaiting, BkEntry
    <3> QED
      BY <1>0, <2>1, <2>2, <3>2, <3>3 DEF PlaceInv
  <2>3. CASE s \notin ToSet(waitQ)
    <3>1. waitQ' = waitQ /\ BkEntry' = None
      BY <1>4, <2>3 DEF CancelWaiting, BkEntry
    <3> QED
      BY <2>1, <3>1 DEF PlaceInv
  <2> QED
    BY <2>2, <2>3
<1>5. CASE CancelIdle
  <2>1. BkEntry = bslot /\ bslot \in Slot /\ BkEntry' = None
    BY <1>5 DEF CancelIdle, BkEntry, TokenInv, BkHolds
  <2>2. idleQ' = Append(idleQ, bslot) /\ UNCHANGED <<waitQ, cslot, Pushers, CurEntry>>
    BY <1>5 DEF CancelIdle, Pushers, CurEntry
  <2>3. IsInjective(idleQ') /\ ToSet(idleQ') = ToSet(idleQ) \cup {bslot}
    BY <1>0, <2>1, <2>2, AppendToSet DEF PlaceInv
  <2>4. /\ CurEntry # bslot /\ bslot \notin ToSet(waitQ)
        /\ \A c \in Pushers : cslot[c] # bslot /\ cslot[c] \in Slot
    BY <1>0, <2>1 DEF PlaceInv, Pushers
  <2> QED
    BY <1>0, <2>1, <2>2, <2>3, <2>4 DEF PlaceInv
<1>6. CASE pop_front_wait_req
  <2> DEFINE s == Head(waitQ)
  <2>1. BkEntry = None /\ BkEntry' = s
    BY <1>6 DEF pop_front_wait_req, BkEntry
  <2>2. waitQ # <<>> /\ waitQ' = Tail(waitQ) /\ UNCHANGED <<idleQ, cslot, Pushers, CurEntry>>
    BY <1>0, <1>6 DEF pop_front_wait_req, Pushers, CurEntry
  <2>3. IsInjective(waitQ') /\ ToSet(waitQ') = ToSet(waitQ) \ {s} /\ s \in ToSet(waitQ)
    BY <1>0, <2>2, TailToSet DEF PlaceInv
  <2> QED
    BY <1>0, <2>1, <2>2, <2>3 DEF PlaceInv
<1>7. CASE register_cur_cmd_req
  <2>1. BkEntry = bslot /\ bslot \in Slot /\ BkEntry' = None /\ CurEntry = None /\ CurEntry' = bslot
    BY <1>7 DEF register_cur_cmd_req, BkEntry, CurEntry, TokenInv, BkHolds
  <2>2. UNCHANGED <<idleQ, waitQ, cslot, Pushers>>
    BY <1>7 DEF register_cur_cmd_req, Pushers
  <2> QED
    BY <1>0, <2>1, <2>2 DEF PlaceInv
<1>8. CASE deregister_cur_cmd_req
  <2>1. UNCHANGED <<idleQ, waitQ, cslot, Pushers, BkEntry, CurEntry>>
    BY <1>8 DEF deregister_cur_cmd_req, Pushers, BkEntry, CurEntry, TokenInv, TypeOK, BkType
  <2> QED
    BY <2>1 DEF PlaceInv
<1>9. CASE push_back_idle_req
  <2>1. CurEntry = cur /\ cur \in Slot /\ CurEntry' = None /\ BkEntry = None /\ BkEntry' = None
    BY <1>9 DEF push_back_idle_req, CurEntry, BkEntry, TokenInv, BkHolds
  <2>2. idleQ' = Append(idleQ, cur) /\ UNCHANGED <<waitQ, cslot, Pushers>>
    BY <1>9 DEF push_back_idle_req, Pushers
  <2>3. IsInjective(idleQ') /\ ToSet(idleQ') = ToSet(idleQ) \cup {cur}
    BY <1>0, <2>1, <2>2, AppendToSet DEF PlaceInv
  <2> QED
    BY <1>0, <2>1, <2>2, <2>3 DEF PlaceInv
<1>10. CASE ClearPop
  <2>1. UNCHANGED <<cslot, Pushers, BkEntry, CurEntry>>
    BY <1>10 DEF ClearPop, Pushers, BkEntry, CurEntry
  <2>2. CASE Len(waitQ) <= skew
    BY <1>0, <1>10, <2>1, <2>2 DEF ClearPop, PlaceInv
  <2>3. CASE Len(waitQ) > skew
    <3> DEFINE s == Head(waitQ)
    <3>1. waitQ # <<>> /\ waitQ' = Tail(waitQ) /\ idleQ' = Append(idleQ, s)
      BY <1>0, <1>10, <2>3 DEF ClearPop
    <3>2. IsInjective(waitQ') /\ ToSet(waitQ') = ToSet(waitQ) \ {s} /\ s \in ToSet(waitQ)
      BY <1>0, <3>1, TailToSet DEF PlaceInv
    <3>3. IsInjective(idleQ') /\ ToSet(idleQ') = ToSet(idleQ) \cup {s}
      BY <1>0, <3>1, <3>2, AppendToSet DEF PlaceInv
    <3> QED
      BY <1>0, <2>1, <3>2, <3>3 DEF PlaceInv
  <2> QED
    BY <1>0, <2>2, <2>3
<1>11. CASE CancelRecycled
  <2> DEFINE s == bnode[2]
  <2>1. UNCHANGED <<waitQ, cslot, Pushers, CurEntry>> /\ BkEntry = None /\ BkEntry' = s
    BY <1>11 DEF CancelRecycled, Pushers, CurEntry, BkEntry
  <2>2. PICK i \in DOMAIN idleQ : idleQ[i] = s /\ idleQ' = RemoveAt(idleQ, i)
    BY <1>11 DEF CancelRecycled
  <2>3. IsInjective(idleQ') /\ ToSet(idleQ') = ToSet(idleQ) \ {s} /\ s \in ToSet(idleQ)
    <3>1. i \in 1..Len(idleQ) /\ IsInjective(idleQ)
      BY <1>0, <2>2 DEF PlaceInv
    <3>2. ToSet(RemoveAt(idleQ, i)) = ToSet(idleQ) \ {idleQ[i]} /\ IsInjective(RemoveAt(idleQ, i))
      BY <1>0, <3>1, RemoveAtProps
    <3>3. idleQ[i] \in ToSet(idleQ)
      BY <1>0, <3>1 DEF ToSet
    <3> QED
      BY <2>2, <3>2, <3>3
  <2> QED
    BY <1>0, <2>1, <2>3 DEF PlaceInv
<1> QED
  BY <1>1, <1>2, <1>3, <1>4, <1>5, <1>6, <1>7, <1>8, <1>9, <1>10, <1>11 DEF Moves

(* PlaceInv says what the count of the places says. *)
LEMMA PlacesCounted == ASSUME TokenInv, PlaceInv PROVE EntryAtOnePlace
<1> SUFFICES ASSUME NEW s \in Slot PROVE Cardinality(Places(s)) = 1
  BY DEF EntryAtOnePlace
<1>0. /\ idleQ \in Seq(Slot) /\ waitQ \in Seq(Slot) /\ None \notin Slot
  BY ConstAssumption DEF TokenInv, TypeOK, ReqType, Slot
<1> DEFINE at(q) == {j \in DOMAIN q : q[j] = s}
           I == {<<"idle", i>> : i \in at(idleQ)}
           W == {<<"wait", i>> : i \in at(waitQ)}
           C == {<<"client", c>> : c \in {d \in Client : cpc[d] = "push" /\ cslot[d] = s}}
           B == {<<"bk", p>> : p \in {"reg", "cxlidle"} \cap (IF bslot = s THEN {bpc} ELSE {})}
           U == {<<"cur", p>> : p \in IF cur = s /\ bpc # "drop" THEN {0} ELSE {}}
<1>1. Places(s) = I \cup W \cup C \cup B \cup U
  BY DEF Places
<1>2. /\ s \notin ToSet(idleQ) => I = {}
      /\ s \in ToSet(idleQ) => \E x : I = {x}
  <2>1. s \notin ToSet(idleQ) => at(idleQ) = {}
    BY <1>0 DEF ToSet
  <2>2. ASSUME s \in ToSet(idleQ) PROVE \E x : I = {x}
    <3>1. PICK i \in DOMAIN idleQ : idleQ[i] = s
      BY <1>0, <2>2 DEF ToSet
    <3>2. at(idleQ) = {i}
      BY <3>1 DEF PlaceInv, IsInjective
    <3>3. I = {<<"idle", i>>}
      BY <3>2
    <3> QED
      BY <3>3
  <2> QED
    BY <2>1, <2>2
<1>3. /\ s \notin ToSet(waitQ) => W = {}
      /\ s \in ToSet(waitQ) => \E x : W = {x}
  <2>1. s \notin ToSet(waitQ) => at(waitQ) = {}
    BY <1>0 DEF ToSet
  <2>2. ASSUME s \in ToSet(waitQ) PROVE \E x : W = {x}
    <3>1. PICK i \in DOMAIN waitQ : waitQ[i] = s
      BY <1>0, <2>2 DEF ToSet
    <3>2. at(waitQ) = {i}
      BY <3>1 DEF PlaceInv, IsInjective
    <3>3. W = {<<"wait", i>>}
      BY <3>2
    <3> QED
      BY <3>3
  <2> QED
    BY <2>1, <2>2
<1>4. /\ (\A c \in Pushers : cslot[c] # s) => C = {}
      /\ (\E c \in Pushers : cslot[c] = s) => \E x : C = {x}
  <2> DEFINE P == {d \in Client : cpc[d] = "push" /\ cslot[d] = s}
  <2>1. (\A c \in Pushers : cslot[c] # s) => P = {}
    BY DEF Pushers
  <2>2. ASSUME NEW c \in Pushers, cslot[c] = s PROVE C = {<<"client", c>>}
    <3>1. P = {c}
      BY <2>2 DEF Pushers, PlaceInv
    <3> QED
      BY <3>1
  <2> QED
    BY <2>1, <2>2
<1>5. /\ s # BkEntry => B = {}
      /\ s = BkEntry => \E x : B = {x}
  <2>1. s # BkEntry => {"reg", "cxlidle"} \cap (IF bslot = s THEN {bpc} ELSE {}) = {}
    BY DEF BkEntry
  <2>2. s = BkEntry => {"reg", "cxlidle"} \cap (IF bslot = s THEN {bpc} ELSE {}) = {bpc}
    BY <1>0 DEF BkEntry
  <2>3. s = BkEntry => B = {<<"bk", bpc>>}
    BY <2>2
  <2> QED
    BY <2>1, <2>3
<1>6. /\ s # CurEntry => U = {}
      /\ s = CurEntry => \E x : U = {x}
  BY <1>0 DEF CurEntry
<1> HIDE DEF I, W, C, B, U
<1>7. \E x : I \cup W \cup C \cup B \cup U = {x}
  <2>1. CASE s \in ToSet(idleQ)
    <3>1. W = {} /\ C = {} /\ B = {} /\ U = {}
      BY <2>1, <1>3, <1>4, <1>5, <1>6 DEF PlaceInv
    <3> QED
      BY <2>1, <3>1, <1>2
  <2>2. CASE s \in ToSet(waitQ)
    <3>1. I = {} /\ C = {} /\ B = {} /\ U = {}
      BY <2>2, <1>2, <1>4, <1>5, <1>6 DEF PlaceInv
    <3> QED
      BY <2>2, <3>1, <1>3
  <2>3. CASE \E c \in Pushers : cslot[c] = s
    <3>1. I = {} /\ W = {} /\ B = {} /\ U = {}
      BY <2>3, <1>2, <1>3, <1>5, <1>6 DEF PlaceInv
    <3> QED
      BY <2>3, <3>1, <1>4
  <2>4. CASE s = BkEntry
    <3>1. I = {} /\ W = {} /\ C = {} /\ U = {}
      BY <1>0, <2>4, <1>2, <1>3, <1>4, <1>6 DEF PlaceInv
    <3> QED
      BY <2>4, <3>1, <1>5
  <2>5. CASE s = CurEntry
    <3>1. I = {} /\ W = {} /\ C = {} /\ B = {}
      BY <1>0, <2>5, <1>2, <1>3, <1>4, <1>5 DEF PlaceInv
    <3> QED
      BY <2>5, <3>1, <1>6
  <2> QED
    BY <2>1, <2>2, <2>3, <2>4, <2>5 DEF PlaceInv
<1> QED
  BY <1>1, <1>7, FS_Singleton

-----------------------------------------------------------------------------
(* The requests in the entries.  A request is over, once, or it is in      *)
(* exactly one live entry; the caller that links an entry links its own.   *)
(* An entry that is not live keeps a request that is over.                 *)
ReqInv ==
    /\ \A s \in Live : req[s] \in 1..nreq /\ ends[req[s]] = 0
    /\ \A s, t \in Live : req[s] = req[t] => s = t
    /\ \A r \in Req : /\ ends[r] <= 1 \/ (skew > 0 /\ r \in lateEnq \cup torn)
                      /\ ends[r] > 0 => r =< nreq
    /\ \A r \in 1..nreq : ends[r] > 0 \/ \E s \in Live : req[s] = r
    /\ \A s \in Slot \ Live : req[s] = 0 \/ (req[s] \in 1..nreq /\ ends[req[s]] > 0)
    /\ \A c \in Pushers : creq[c] = req[cslot[c]]

(* What one move does to the live entries, told apart from where they are. *)
LEMMA RequestEnds ==
    ASSUME TypeOK, ReqInv, NEW s \in Live, Live' = Live \ {s},
           ends' = [ends EXCEPT ![req[s]] = @ + 1],
           UNCHANGED <<req, cslot, creq, nreq, Pushers, skew, lateEnq, torn>>
    PROVE  ReqInv'
<1>1. /\ req[s] \in 1..nreq /\ 1..nreq \subseteq Req /\ req[s] \in Req
      /\ ends \in [Req -> Nat] /\ nreq \in Nat
  <2>1. nreq \in 0..MaxReq /\ MaxReq \in Nat /\ ends \in [Req -> Nat]
    BY ConstAssumption DEF TypeOK, HistType
  <2> QED
    BY <2>1 DEF ReqInv, Req
<1>2. ends'[req[s]] = 1 /\ \A r \in Req : r # req[s] => ends'[r] = ends[r]
  BY <1>1 DEF ReqInv
<1>3. \A t \in Live' : t \in Live /\ req[t] # req[s]
  BY DEF ReqInv
<1>4. \A t \in Live' : req'[t] \in 1..nreq' /\ ends'[req'[t]] = 0
  BY <1>1, <1>2, <1>3 DEF ReqInv
<1>5. \A r \in Req : /\ ends'[r] <= 1 \/ (skew' > 0 /\ r \in lateEnq' \cup torn')
                     /\ ends'[r] > 0 => r =< nreq'
  BY <1>1, <1>2 DEF ReqInv
<1>6. \A r \in 1..nreq' : ends'[r] > 0 \/ \E t \in Live' : req'[t] = r
  BY <1>1, <1>2 DEF ReqInv
<1>7. \A t \in Slot \ Live' : req'[t] = 0 \/ (req'[t] \in 1..nreq' /\ ends'[req'[t]] > 0)
  <2> SUFFICES ASSUME NEW t \in Slot, t \notin Live', req[t] # 0
               PROVE  req[t] \in 1..nreq /\ ends'[req[t]] > 0
    OBVIOUS
  <2>1. CASE t = s
    BY <1>1, <1>2, <2>1
  <2>2. CASE t # s
    <3>1. req[t] \in 1..nreq /\ ends[req[t]] > 0
      BY <2>2 DEF ReqInv
    <3>2. req[t] \in Req /\ req[t] # req[s]
      BY <1>1, <3>1 DEF ReqInv
    <3> QED
      BY <1>2, <3>1, <3>2
  <2> QED
    BY <2>1, <2>2
<1> QED
  BY <1>3, <1>4, <1>5, <1>6, <1>7 DEF ReqInv

(* The live entries after each action that moves one. *)
LEMMA LiveMoves ==
    ASSUME TokenInv, PlaceInv, [Next]_vars
    PROVE  /\ \/ ~Moves \/ CancelIdle \/ pop_front_wait_req \/ register_cur_cmd_req
              \/ push_back_idle_req \/ \E c \in Client : push_back_wait_req(c)
              => Live' = Live
           /\ \A c \in Client : pop_front_idle_req(c) =>
                 Head(idleQ) \notin Live /\ Live' = Live \cup {Head(idleQ)}
           /\ CancelWaiting =>
                 IF bnode[2] \in ToSet(waitQ)
                 THEN bnode[2] \in Live /\ Live' = Live \ {bnode[2]}
                 ELSE Live' = Live
           /\ deregister_cur_cmd_req =>
                 IF cur = None THEN Live' = Live ELSE cur \in Live /\ Live' = Live \ {cur}
           /\ ClearPop =>
                 IF Len(waitQ) <= skew THEN Live' = Live
                 ELSE Head(waitQ) \in Live /\ Live' = Live \ {Head(waitQ)}
           /\ CancelRecycled => bnode[2] \in Slot \ Live /\ Live' = Live
<1>0. /\ idleQ \in Seq(Slot) /\ waitQ \in Seq(Slot) /\ ToSet(idleQ) \subseteq Slot
      /\ ToSet(waitQ) \subseteq Slot /\ None \notin Slot /\ skew \in Nat
      /\ cslot \in [Client -> Slot] /\ cpc \in [Client -> ClPc] /\ cur \in Slot \cup {None}
  BY ToSetType, ConstAssumption DEF TokenInv, TypeOK, ReqType, CallerType, TokenType, Slot
<1>1. ~Moves => Live' = Live
  BY OthersKeepPlaces DEF TokenInv
<1>2. ASSUME NEW c \in Client, pop_front_idle_req(c)
      PROVE  Head(idleQ) \notin Live /\ Live' = Live \cup {Head(idleQ)}
  <2> DEFINE s == Head(idleQ)
  <2>1. s \in Slot /\ s \in ToSet(idleQ)
    BY <1>0, <1>2, TailToSet DEF pop_front_idle_req
  <2>2. s \notin Live
    BY <1>0, <2>1 DEF Live, PlaceInv, BkEntry, CurEntry, Ending
  <2>3. UNCHANGED <<waitQ, bpc, bslot, cur>> /\ cslot' = [cslot EXCEPT ![c] = s]
    BY <1>2 DEF pop_front_idle_req
  <2>4. c \notin Pushers /\ Pushers' = Pushers \cup {c}
    BY <1>0, <1>2 DEF pop_front_idle_req, Pushers
  <2>5. \A t : (\E d \in Pushers' : cslot'[d] = t) <=> (t = s \/ \E d \in Pushers : cslot[d] = t)
    <3>1. \A d \in Pushers : cslot'[d] = cslot[d]
      BY <1>0, <2>3, <2>4 DEF Pushers
    <3>2. cslot'[c] = s
      BY <1>0, <2>3
    <3> QED
      BY <2>4, <3>1, <3>2
  <2> HIDE DEF s
  <2>6. Live' = Live \cup {s}
    BY <2>1, <2>3, <2>5 DEF Live
  <2> QED
    BY <2>2, <2>6 DEF s
<1>3. ASSUME NEW c \in Client, push_back_wait_req(c) PROVE Live' = Live
  <2>1. c \in Pushers /\ Pushers' = Pushers \ {c} /\ cslot[c] \in Slot
    BY <1>0, <1>3 DEF push_back_wait_req, Pushers
  <2>2. waitQ' = Append(waitQ, cslot[c]) /\ UNCHANGED <<bpc, bslot, cur, cslot>>
    BY <1>3 DEF push_back_wait_req
  <2>3. ToSet(waitQ') = ToSet(waitQ) \cup {cslot[c]}
    BY <1>0, <2>1, <2>2, AppendToSet
  <2> QED
    BY <2>1, <2>2, <2>3 DEF Live
<1>4. ASSUME CancelWaiting
      PROVE  IF bnode[2] \in ToSet(waitQ) THEN bnode[2] \in Live /\ Live' = Live \ {bnode[2]}
             ELSE Live' = Live
  <2> DEFINE s == bnode[2]
  <2>1. UNCHANGED <<cslot, Pushers, cur>> /\ bpc = "handle"
    BY <1>4 DEF CancelWaiting, Pushers
  <2>2. CASE s \in ToSet(waitQ)
    <3>1. PICK i \in DOMAIN waitQ : waitQ[i] = s /\ waitQ' = RemoveAt(waitQ, i)
      BY <1>4, <2>2 DEF CancelWaiting, pq_del_node
    <3>2. ToSet(waitQ') = ToSet(waitQ) \ {s}
      <4>1. i \in 1..Len(waitQ) /\ IsInjective(waitQ)
        BY <1>0, <3>1 DEF PlaceInv
      <4>2. ToSet(RemoveAt(waitQ, i)) = ToSet(waitQ) \ {waitQ[i]}
        BY <1>0, <4>1, RemoveAtProps
      <4> QED
        BY <3>1, <4>2
    <3>3. bpc' = "cxlidle" /\ cur # s /\ \A c \in Pushers : cslot[c] # s
      BY <1>0, <1>4, <2>1, <2>2 DEF CancelWaiting, PlaceInv, CurEntry
    <3> HIDE DEF s
    <3>4. s \in Live /\ Live' = Live \ {s}
      BY <1>0, <2>1, <2>2, <3>2, <3>3 DEF Live, Ending
    <3> QED
      BY <2>2, <3>4 DEF s
  <2>3. CASE s \notin ToSet(waitQ)
    <3>1. waitQ' = waitQ /\ bpc' = "oops"
      BY <1>4, <2>3 DEF CancelWaiting
    <3> QED
      BY <2>1, <2>3, <3>1 DEF Live, Ending
  <2> QED
    BY <2>2, <2>3
<1>5. ASSUME CancelIdle PROVE Live' = Live
  BY <1>5 DEF CancelIdle, Live, Pushers, Ending
<1>6. ASSUME pop_front_wait_req PROVE Live' = Live
  <2>1. waitQ # <<>> /\ waitQ' = Tail(waitQ) /\ UNCHANGED <<cslot, Pushers, cur>>
    BY <1>0, <1>6 DEF pop_front_wait_req, Pushers
  <2>2. ToSet(waitQ') = ToSet(waitQ) \ {Head(waitQ)} /\ Head(waitQ) \in ToSet(waitQ)
    BY <1>0, <2>1, TailToSet DEF PlaceInv
  <2>3. bpc = "popreq" /\ bpc' = "reg" /\ bslot' = Head(waitQ)
    BY <1>6 DEF pop_front_wait_req
  <2> QED
    BY <1>0, <2>1, <2>2, <2>3 DEF Live, Ending
<1>7. ASSUME register_cur_cmd_req PROVE Live' = Live
  <2>1. bpc = "reg" /\ bpc' = "acq" /\ cur = None /\ cur' = bslot /\ UNCHANGED <<waitQ, cslot, Pushers>>
    BY <1>7 DEF register_cur_cmd_req, TokenInv, BkHolds, Pushers
  <2> QED
    BY <1>0, <2>1 DEF Live, Ending
<1>8. ASSUME deregister_cur_cmd_req
      PROVE  IF cur = None THEN Live' = Live ELSE cur \in Live /\ Live' = Live \ {cur}
  <2>1. UNCHANGED <<waitQ, cslot, Pushers, cur>> /\ bpc = "dereg"
    BY <1>8 DEF deregister_cur_cmd_req, Pushers
  <2>2. CASE cur = None
    <3>1. bpc' \in {"proc", "popreq", "clrreq"}
      BY <1>8, <2>2 DEF deregister_cur_cmd_req, TokenInv, TypeOK, BkType
    <3> QED
      BY <2>1, <2>2, <3>1 DEF Live, Ending
  <2>3. CASE cur # None
    <3>1. bpc' \in Ending
      BY <1>8, <2>3 DEF deregister_cur_cmd_req, Ending
    <3>2. cur \in Slot /\ cur \notin ToSet(waitQ) /\ \A c \in Pushers : cslot[c] # cur
      BY <1>0, <2>1, <2>3 DEF PlaceInv, CurEntry
    <3>3. cur \in Live /\ Live' = Live \ {cur}
      BY <2>1, <3>1, <3>2 DEF Live, Ending
    <3> QED
      BY <2>3, <3>3
  <2> QED
    BY <2>2, <2>3
<1>9. ASSUME push_back_idle_req PROVE Live' = Live
  BY <1>9 DEF push_back_idle_req, Live, Pushers, Ending
<1>10. ASSUME ClearPop
       PROVE  IF Len(waitQ) <= skew THEN Live' = Live
              ELSE Head(waitQ) \in Live /\ Live' = Live \ {Head(waitQ)}
  <2>1. UNCHANGED <<cslot, Pushers, cur, bslot>> /\ bpc = "clrpop"
    BY <1>10 DEF ClearPop, Pushers
  <2>2. CASE Len(waitQ) <= skew
    <3>1. waitQ' = waitQ /\ bpc' = "clrreq"
      BY <1>0, <1>10, <2>2 DEF ClearPop
    <3> QED
      BY <2>1, <2>2, <3>1 DEF Live, Ending
  <2>3. CASE ~(Len(waitQ) <= skew)
    <3> DEFINE s == Head(waitQ)
    <3>1. waitQ # <<>> /\ waitQ' = Tail(waitQ) /\ bpc' = bpc
      BY <1>0, <1>10, <2>3 DEF ClearPop
    <3>2. ToSet(waitQ') = ToSet(waitQ) \ {s} /\ s \in ToSet(waitQ)
      BY <1>0, <3>1, TailToSet DEF PlaceInv
    <3>3. cur # s /\ \A c \in Pushers : cslot[c] # s
      BY <1>0, <2>1, <3>2 DEF PlaceInv, CurEntry
    <3> HIDE DEF s
    <3>4. s \in Live /\ Live' = Live \ {s}
      BY <1>0, <2>1, <3>1, <3>2, <3>3 DEF Live
    <3> QED
      BY <2>3, <3>4 DEF s
  <2> QED
    BY <2>2, <2>3
<1>11. ASSUME CancelRecycled PROVE bnode[2] \in Slot \ Live /\ Live' = Live
  <2> DEFINE s == bnode[2]
  <2>1. s \in ToSet(idleQ)
    BY <1>0, <1>11 DEF CancelRecycled, ToSet
  <2>2. s \in Slot /\ s \notin Live
    BY <1>0, <2>1 DEF Live, PlaceInv, BkEntry, CurEntry, Ending
  <2>3. /\ UNCHANGED <<waitQ, cslot, cur, Pushers>>
        /\ bpc \notin Ending \cup {"reg"} /\ bpc' \notin Ending \cup {"reg"}
    BY <1>11 DEF CancelRecycled, Pushers, Ending
  <2> QED
    BY <2>2, <2>3 DEF Live
<1> QED
  BY <1>1, <1>2, <1>3, <1>4, <1>5, <1>6, <1>7, <1>8, <1>9, <1>10, <1>11

(* The excuses.  lateEnq and torn only grow, and so does the error of the  *)
(* counters.  An idle entry is marked ENQ only with an excuse.             *)
EnqInv ==
    /\ \A s \in ToSet(idleQ) : "ENQ" \in status[s] => req[s] \in lateEnq \cup torn
    /\ CountersRight

(* The excuses are never withdrawn. *)
LEMMA MarksGrow ==
    ASSUME TypeOK, [Next]_vars
    PROVE  /\ lateEnq \subseteq lateEnq' /\ torn \subseteq torn'
           /\ CancelRecycled \/ UNCHANGED skew
<1>1. ASSUME NEW c \in Client, SetEnq(c) \/ CancelSet(c) \/ FreeSet(c)
      PROVE  lateEnq \subseteq lateEnq' /\ torn \subseteq torn' /\ UNCHANGED skew
  BY <1>1 DEF SetEnq, CancelSet, FreeSet, SetFlag
<1>2. CASE /\ ~CancelRecycled
           /\ \A c \in Client : ~SetEnq(c) /\ ~CancelSet(c) /\ ~FreeSet(c)
  <2>1. UNCHANGED <<lateEnq, torn, skew>>
    BY ZenonT(40), <1>2 DEF Next, Background, Engine, Caller, vars,
       dispr_add_token_req, pop_front_idle_req, NoIdleReq, push_back_wait_req, LoadEnq,
       AddOp, dispr_cancel_token_req, CancelOp, dispr_free_token,
       FreeOp, notify_bk_thread, dispr_is_fg_empty, FgEmptyOps, push_back_token_op_info,
       share_thread_hdl, token_op_hanler, CancelWaiting, CancelIdle, HandleOp, OpHandled,
       dispr_process_token_req, NoReqLeft, pop_front_wait_req, register_cur_cmd_req,
       AcquiredReturns, deregister_cur_cmd_req, LastPermit, AbortCallback, push_back_idle_req,
       DropToken, HandleMsg, dispr_thread_leave_hdl, clear_wating_req, ClearPop,
       dispr_module_stop, StopPrior, cancel_all_cmd_req, ThreadStop, StopPost
  <2> QED
    BY <2>1
<1>3. CASE CancelRecycled
  BY <1>3 DEF CancelRecycled
<1> QED
  BY <1>1, <1>2, <1>3

(* Every step preserves EnqInv. *)
LEMMA EnqStep ==
    ASSUME TokenInv, PlaceInv, EnqInv, [Next]_vars
    PROVE  EnqInv'
<1>0. /\ idleQ \in Seq(Slot) /\ waitQ \in Seq(Slot) /\ ToSet(idleQ) \subseteq Slot
      /\ status \in [Slot -> SUBSET Flag] /\ req \in [Slot -> 0..MaxReq] /\ skew \in Nat
      /\ cslot \in [Client -> Slot]
  BY ToSetType DEF TokenInv, TypeOK, ReqType, CallerType
<1>m. /\ lateEnq \subseteq lateEnq' /\ torn \subseteq torn'
      /\ CancelRecycled \/ UNCHANGED skew
  BY MarksGrow DEF TokenInv
<1>s. ~CancelRecycled => CountersRight'
  BY <1>m DEF EnqInv, CountersRight
<1>1. ASSUME ~CancelRecycled, ToSet(idleQ') \subseteq ToSet(idleQ),
             \A s \in ToSet(idleQ') :
                req'[s] = req[s] /\ ("ENQ" \in status'[s] => "ENQ" \in status[s])
      PROVE  EnqInv'
  BY <1>m, <1>s, <1>1 DEF EnqInv
<1>2. ASSUME NEW s \in Slot, ~CancelRecycled, idleQ' = Append(idleQ, s),
             status' = [status EXCEPT ![s] = {}], req' = req
      PROVE  EnqInv'
  <2>1. ToSet(idleQ') = ToSet(idleQ) \cup {s}
    BY <1>0, <1>2, AppendToSet
  <2>2. \A t \in ToSet(idleQ') : "ENQ" \in status'[t] => t \in ToSet(idleQ) /\ status'[t] = status[t]
    BY <1>0, <1>2, <2>1
  <2> QED
    BY <1>m, <1>s, <1>2, <2>2 DEF EnqInv
<1>3. ASSUME NEW c \in Client, Caller(c) PROVE EnqInv'
  <2>0. ~CancelRecycled
    <3>1. UNCHANGED bpc
      BY <1>3 DEF Caller, dispr_add_token_req, pop_front_idle_req, NoIdleReq,
         push_back_wait_req, LoadEnq, SetEnq, AddOp, dispr_cancel_token_req, CancelSet,
         CancelOp, dispr_free_token, FreeSet, FreeOp, notify_bk_thread, dispr_is_fg_empty,
         FgEmptyOps, push_back_token_op_info
    <3> QED
      BY <3>1 DEF CancelRecycled
  <2>1. CASE pop_front_idle_req(c)
    <3> DEFINE s == Head(idleQ)
    <3>1. /\ s \in Slot /\ ToSet(Tail(idleQ)) = ToSet(idleQ) \ {s}
      BY <1>0, <2>1, TailToSet DEF pop_front_idle_req, PlaceInv
    <3>2. /\ idleQ' = Tail(idleQ) /\ status' = [status EXCEPT ![s] = {}]
          /\ req' = [req EXCEPT ![s] = nreq + 1]
      BY <2>1 DEF pop_front_idle_req
    <3> HIDE DEF s
    <3> QED
      BY <1>0, <1>1, <2>0, <3>1, <3>2
  <2>2. CASE SetEnq(c) \/ CancelSet(c) \/ FreeSet(c)
    <3> DEFINE s == cslot[c]
    <3>1. PICK f \in {"ENQ", "CANCEL"} : SetFlag(c, f) /\ UNCHANGED <<idleQ, req>>
      BY <2>2 DEF SetEnq, CancelSet, FreeSet
    <3>2. s \in Slot /\ \A t \in Slot : t # s => status'[t] = status[t]
      BY <1>0, <3>1 DEF SetFlag
    <3>3. ASSUME s \in ToSet(idleQ), "ENQ" \in status'[s]
          PROVE  "ENQ" \in status[s] \/ req[s] \in lateEnq' \cup torn'
      <4>1. CASE SetEnq(c)
        BY <3>3, <4>1 DEF SetEnq
      <4>2. CASE CancelSet(c) \/ FreeSet(c)
        <5>1. SetFlag(c, "CANCEL")
          BY <4>2 DEF CancelSet, FreeSet
        <5>2. CASE Cpu = "smp" /\ cld[c] # status[s]
          BY <5>1, <5>2 DEF SetFlag
        <5>3. CASE ~(Cpu = "smp" /\ cld[c] # status[s])
          <6>1. status'[s] = status[s] \cup {"CANCEL"}
            BY <1>0, <3>2, <5>1, <5>3 DEF SetFlag
          <6> QED
            BY <3>3, <6>1
        <5> QED
          BY <5>2, <5>3
      <4> QED
        BY <2>2, <4>1, <4>2
    <3> HIDE DEF s
    <3> QED
      BY <1>0, <1>m, <1>s, <2>0, <3>1, <3>2, <3>3 DEF EnqInv
  <2>3. CASE ~(pop_front_idle_req(c) \/ SetEnq(c) \/ CancelSet(c) \/ FreeSet(c))
    <3>1. UNCHANGED <<idleQ, req, status>>
      BY <1>3, <2>3 DEF Caller, dispr_add_token_req, NoIdleReq, push_back_wait_req,
         LoadEnq, AddOp, dispr_cancel_token_req, CancelOp, dispr_free_token,
         FreeOp, notify_bk_thread, dispr_is_fg_empty, FgEmptyOps, push_back_token_op_info
    <3> QED
      BY <1>1, <2>0, <3>1
  <2> QED
    BY <2>1, <2>2, <2>3
<1>4. CASE CancelRecycled
  <2> DEFINE s == bnode[2]
  <2>1. PICK i \in DOMAIN idleQ : idleQ[i] = s /\ idleQ' = RemoveAt(idleQ, i)
    BY <1>4 DEF CancelRecycled
  <2>2. ToSet(idleQ') \subseteq ToSet(idleQ) /\ s \in ToSet(idleQ)
    <3>1. i \in 1..Len(idleQ) /\ IsInjective(idleQ) /\ idleQ \in Seq(Slot)
      BY <1>0, <2>1 DEF PlaceInv
    <3>2. ToSet(RemoveAt(idleQ, i)) = ToSet(idleQ) \ {idleQ[i]}
      BY <3>1, RemoveAtProps
    <3>3. idleQ[i] \in ToSet(idleQ)
      BY <1>0, <3>1 DEF ToSet
    <3> QED
      BY <2>1, <3>2, <3>3
  <2>3. "ENQ" \in status[s] /\ UNCHANGED <<status, req, lateEnq, torn>>
    BY <1>4 DEF CancelRecycled, FindsWaiting
  <2>4. req[s] \in lateEnq \cup torn
    BY <2>2, <2>3 DEF EnqInv
  <2> QED
    BY <2>2, <2>3, <2>4 DEF EnqInv, CountersRight
<1>5. CASE CancelIdle
  <2>1. bslot \in Slot /\ ~CancelRecycled
    BY <1>5 DEF CancelIdle, CancelRecycled, TokenInv, BkHolds
  <2> QED
    BY <1>2, <1>5, <2>1 DEF CancelIdle
<1>6. CASE push_back_idle_req
  <2>1. cur \in Slot /\ ~CancelRecycled
    BY <1>6 DEF push_back_idle_req, CancelRecycled, TokenInv, BkHolds
  <2> QED
    BY <1>2, <1>6, <2>1 DEF push_back_idle_req
<1>7. CASE ClearPop
  <2>0. ~CancelRecycled
    BY <1>7 DEF ClearPop, CancelRecycled
  <2>1. CASE Len(waitQ) <= skew
    <3>1. UNCHANGED <<idleQ, req, status>>
      BY <1>0, <1>7, <2>1 DEF ClearPop
    <3> QED
      BY <1>1, <2>0, <3>1
  <2>2. CASE Len(waitQ) > skew
    <3>1. waitQ # <<>> /\ Head(waitQ) \in Slot
      BY <1>0, <2>2, HeadTailType
    <3>2. /\ idleQ' = Append(idleQ, Head(waitQ)) /\ req' = req
          /\ status' = [status EXCEPT ![Head(waitQ)] = {}]
      BY <1>0, <1>7, <2>2 DEF ClearPop
    <3> QED
      BY <1>2, <2>0, <3>1, <3>2
  <2> QED
    BY <1>0, <2>1, <2>2
<1>8. CASE \/ pop_front_wait_req \/ register_cur_cmd_req \/ deregister_cur_cmd_req
           \/ LastPermit \/ AbortCallback
  <2>1. UNCHANGED <<idleQ, req>> /\ ~CancelRecycled
    BY <1>8 DEF pop_front_wait_req, register_cur_cmd_req, deregister_cur_cmd_req, LastPermit,
       AbortCallback, CancelRecycled
  <2>2. \A s \in Slot : "ENQ" \in status'[s] => "ENQ" \in status[s]
    <3>1. CASE pop_front_wait_req
      BY <1>0, <3>1 DEF pop_front_wait_req
    <3>2. CASE register_cur_cmd_req
      BY <1>0, <3>2 DEF register_cur_cmd_req
    <3>3. CASE deregister_cur_cmd_req
      BY <1>0, <3>3 DEF deregister_cur_cmd_req
    <3>4. CASE LastPermit
      BY <1>0, <3>4 DEF LastPermit
    <3>5. CASE AbortCallback
      BY <1>0, <3>5 DEF AbortCallback
    <3> QED
      BY <1>8, <3>1, <3>2, <3>3, <3>4, <3>5
  <2> QED
    BY <1>0, <1>1, <2>1, <2>2
<1>9. CASE \/ share_thread_hdl \/ token_op_hanler \/ CancelWaiting \/ HandleOp \/ OpHandled
           \/ dispr_process_token_req \/ NoReqLeft \/ AcquiredReturns \/ DropToken
           \/ HandleMsg \/ dispr_thread_leave_hdl \/ clear_wating_req
  <2>1. UNCHANGED <<idleQ, req, status, skew>>
    BY <1>9 DEF share_thread_hdl, token_op_hanler, CancelWaiting, HandleOp, OpHandled,
       dispr_process_token_req, NoReqLeft, AcquiredReturns, DropToken, HandleMsg,
       dispr_thread_leave_hdl, clear_wating_req
  <2>2. ~CancelRecycled
    BY <1>0, <2>1 DEF CancelRecycled
  <2> QED
    BY <1>1, <2>1, <2>2
<1>10. CASE Engine
  <2>1. UNCHANGED <<idleQ, req, skew>>
    BY <1>10 DEF Engine, dispr_module_stop, StopPrior, cancel_all_cmd_req, ThreadStop, StopPost
  <2>2. ~CancelRecycled
    BY <1>0, <2>1 DEF CancelRecycled
  <2>3. \A s \in Slot : "ENQ" \in status'[s] => "ENQ" \in status[s]
    <3>1. CASE cancel_all_cmd_req
      BY <1>0, <3>1 DEF cancel_all_cmd_req
    <3>2. CASE ~cancel_all_cmd_req
      BY <1>10, <3>2 DEF Engine, dispr_module_stop, StopPrior, ThreadStop, StopPost
    <3> QED
      BY <3>1, <3>2
  <2> QED
    BY <1>0, <1>1, <2>1, <2>2, <2>3
<1>11. CASE UNCHANGED vars
  <2>1. UNCHANGED <<idleQ, req, status, skew>>
    BY <1>11 DEF vars
  <2>2. ~CancelRecycled
    BY <1>0, <2>1 DEF CancelRecycled
  <2> QED
    BY <1>1, <2>1, <2>2
<1> QED
  BY <1>3, <1>4, <1>5, <1>6, <1>7, <1>8, <1>9, <1>10, <1>11 DEF Next, Background

(* Every step preserves ReqInv. *)
LEMMA ReqStep ==
    ASSUME TokenInv, PlaceInv, EnqInv, ReqInv, [Next]_vars
    PROVE  ReqInv'
<1>0. /\ idleQ \in Seq(Slot) /\ waitQ \in Seq(Slot) /\ cslot \in [Client -> Slot]
      /\ cpc \in [Client -> ClPc] /\ creq \in [Client -> 0..MaxReq]
      /\ req \in [Slot -> 0..MaxReq] /\ nreq \in 0..MaxReq /\ ends \in [Req -> Nat]
      /\ MaxReq \in Nat /\ skew \in Nat
  BY ConstAssumption DEF TokenInv, TypeOK, ReqType, CallerType, HistType
<1>m. /\ lateEnq \subseteq lateEnq' /\ torn \subseteq torn'
      /\ CancelRecycled \/ UNCHANGED skew
  BY MarksGrow DEF TokenInv
<1>k. ASSUME UNCHANGED <<req, cslot, creq, nreq, ends, skew, Live>>, Pushers' \subseteq Pushers
      PROVE  ReqInv'
  BY <1>m, <1>k DEF ReqInv
<1>1. CASE ~Moves
  <2>1. UNCHANGED <<req, cslot, creq, nreq, ends, skew, Pushers, Live>>
    BY <1>1, OthersKeepPlaces DEF TokenInv
  <2> QED
    BY <1>k, <2>1
<1>2. ASSUME NEW c \in Client, pop_front_idle_req(c) PROVE ReqInv'
  <2> DEFINE s == Head(idleQ)
  <2>1. s \in Slot /\ s \in ToSet(idleQ)
    BY <1>0, <1>2, TailToSet DEF pop_front_idle_req
  <2>2. s \notin Live /\ Live' = Live \cup {s}
    BY <1>2, LiveMoves
  <2>3. /\ req' = [req EXCEPT ![s] = nreq + 1] /\ nreq' = nreq + 1 /\ nreq < MaxReq
        /\ creq' = [creq EXCEPT ![c] = nreq + 1] /\ cslot' = [cslot EXCEPT ![c] = s]
        /\ ends' = ends /\ skew' = skew /\ lateEnq' = lateEnq /\ torn' = torn
    BY <1>2 DEF pop_front_idle_req
  <2>4. c \notin Pushers /\ Pushers' = Pushers \cup {c} /\ Pushers \subseteq Client
    BY <1>0, <1>2 DEF pop_front_idle_req, Pushers
  <2>5. Live \subseteq Slot
    BY DEF Live
  <2>6. \A d \in Pushers : cslot[d] # s
    BY <2>1 DEF PlaceInv
  <2> HIDE DEF s
  <2>7. req'[s] = nreq + 1 /\ \A t \in Live : req'[t] = req[t]
    BY <1>0, <2>1, <2>2, <2>3, <2>5
  <2>8. \A d \in Pushers : creq'[d] = creq[d] /\ cslot'[d] = cslot[d] /\ req'[cslot[d]] = req[cslot[d]]
    BY <1>0, <2>3, <2>4, <2>6
  <2>9. creq'[c] = nreq + 1 /\ cslot'[c] = s
    BY <1>0, <2>3
  <2>10. nreq + 1 \in Req /\ ends[nreq + 1] = 0
    BY <1>0, <2>3 DEF ReqInv, Req
  <2>11. \A t \in Live' : req'[t] \in 1..nreq' /\ ends'[req'[t]] = 0
    BY <1>0, <2>2, <2>3, <2>7, <2>10 DEF ReqInv
  <2>12. \A t, u \in Live' : req'[t] = req'[u] => t = u
    <3>1. \A t \in Live : req[t] \in 1..nreq /\ req[t] # nreq + 1
      BY <1>0 DEF ReqInv
    <3> QED
      BY <2>2, <2>7, <3>1 DEF ReqInv
  <2>13. \A r \in Req : /\ ends'[r] <= 1 \/ (skew' > 0 /\ r \in lateEnq' \cup torn')
                        /\ ends'[r] > 0 => r =< nreq'
    BY <1>0, <2>3 DEF ReqInv, Req
  <2>14. \A r \in 1..nreq' : ends'[r] > 0 \/ \E t \in Live' : req'[t] = r
    <3> SUFFICES ASSUME NEW r \in 1..nreq' PROVE ends'[r] > 0 \/ \E t \in Live' : req'[t] = r
      OBVIOUS
    <3>1. r = nreq + 1 \/ r \in 1..nreq
      BY <1>0, <2>3
    <3> QED
      BY <3>1, <2>2, <2>3, <2>7 DEF ReqInv
  <2>15. \A d \in Pushers' : creq'[d] = req'[cslot'[d]]
    BY <2>4, <2>7, <2>8, <2>9 DEF ReqInv
  <2>16. \A t \in Slot \ Live' : req'[t] = 0 \/ (req'[t] \in 1..nreq' /\ ends'[req'[t]] > 0)
    <3>1. \A t \in Slot \ Live' : t \in Slot \ Live /\ req'[t] = req[t]
      BY <1>0, <2>2, <2>3
    <3>2. 1..nreq \subseteq 1..nreq'
      BY <1>0, <2>3
    <3> QED
      BY <2>3, <3>1, <3>2 DEF ReqInv
  <2> QED
    BY <2>11, <2>12, <2>13, <2>14, <2>15, <2>16 DEF ReqInv
<1>3. ASSUME NEW c \in Client, push_back_wait_req(c) PROVE ReqInv'
  <2>1. UNCHANGED <<req, cslot, creq, nreq, ends, skew>> /\ Pushers' \subseteq Pushers
    BY <1>0, <1>3 DEF push_back_wait_req, Pushers
  <2>2. Live' = Live
    BY <1>3, LiveMoves
  <2> QED
    BY <1>k, <2>1, <2>2
<1>4. CASE CancelIdle \/ pop_front_wait_req \/ register_cur_cmd_req \/ push_back_idle_req
  <2>1. UNCHANGED <<req, cslot, creq, nreq, ends, skew, Pushers>>
    BY <1>4 DEF CancelIdle, pop_front_wait_req, register_cur_cmd_req, push_back_idle_req, Pushers
  <2>2. Live' = Live
    BY <1>4, LiveMoves
  <2> QED
    BY <1>k, <2>1, <2>2
<1>5. CASE CancelWaiting
  <2>1. UNCHANGED <<req, cslot, creq, nreq, Pushers, skew, lateEnq, torn>>
    BY <1>5 DEF CancelWaiting, Pushers
  <2>2. CASE bnode[2] \in ToSet(waitQ)
    <3>1. bnode[2] \in Live /\ Live' = Live \ {bnode[2]}
      BY <1>5, <2>2, LiveMoves
    <3>2. ends' = [ends EXCEPT ![req[bnode[2]]] = @ + 1]
      BY <1>5, <2>2 DEF CancelWaiting
    <3> QED
      BY <2>1, <3>1, <3>2, RequestEnds DEF TokenInv
  <2>3. CASE bnode[2] \notin ToSet(waitQ)
    <3>1. Live' = Live /\ ends' = ends
      BY <1>5, <2>3, LiveMoves DEF CancelWaiting
    <3> QED
      BY <1>k, <2>1, <3>1
  <2> QED
    BY <2>2, <2>3
<1>6. CASE deregister_cur_cmd_req
  <2>1. UNCHANGED <<req, cslot, creq, nreq, Pushers, skew, lateEnq, torn>>
    BY <1>6 DEF deregister_cur_cmd_req, Pushers
  <2>2. CASE cur # None
    <3>1. cur \in Live /\ Live' = Live \ {cur}
      BY <1>6, <2>2, LiveMoves
    <3>2. ends' = [ends EXCEPT ![req[cur]] = @ + 1]
      BY <1>6, <2>2 DEF deregister_cur_cmd_req
    <3> QED
      BY <2>1, <3>1, <3>2, RequestEnds DEF TokenInv
  <2>3. CASE cur = None
    <3>1. Live' = Live /\ ends' = ends
      BY <1>6, <2>3, LiveMoves DEF deregister_cur_cmd_req
    <3> QED
      BY <1>k, <2>1, <3>1
  <2> QED
    BY <2>2, <2>3
<1>7. CASE ClearPop
  <2>1. UNCHANGED <<req, cslot, creq, nreq, Pushers, skew, lateEnq, torn>>
    BY <1>7 DEF ClearPop, Pushers
  <2>2. CASE ~(Len(waitQ) <= skew)
    <3>1. Head(waitQ) \in Live /\ Live' = Live \ {Head(waitQ)}
      BY <1>7, <2>2, LiveMoves
    <3>2. ends' = [ends EXCEPT ![req[Head(waitQ)]] = @ + 1]
      BY <1>0, <1>7, <2>2 DEF ClearPop
    <3> QED
      BY <2>1, <3>1, <3>2, RequestEnds DEF TokenInv
  <2>3. CASE Len(waitQ) <= skew
    <3>1. Live' = Live /\ ends' = ends
      BY <1>0, <1>7, <2>3, LiveMoves DEF ClearPop
    <3> QED
      BY <1>k, <2>1, <3>1
  <2> QED
    BY <2>2, <2>3
<1>8. CASE CancelRecycled
  <2> DEFINE s == bnode[2]
  <2>1. s \in Slot /\ s \notin Live /\ Live' = Live
    BY <1>8, LiveMoves
  <2>2. UNCHANGED <<req, cslot, creq, nreq, Pushers, lateEnq, torn>> /\ skew' = skew + 1
    BY <1>8 DEF CancelRecycled, Pushers
  <2>3. ends' = [ends EXCEPT ![req[s]] = @ + 1]
    BY <1>8 DEF CancelRecycled
  <2>4. req[s] \in lateEnq \cup torn
    <3>1. s \in ToSet(idleQ) /\ "ENQ" \in status[s]
      BY <1>0, <1>8 DEF CancelRecycled, FindsWaiting, ToSet
    <3> QED
      BY <3>1 DEF EnqInv
  <2>5. req[s] = 0 \/ (req[s] \in 1..nreq /\ ends[req[s]] > 0)
    BY <2>1 DEF ReqInv
  <2> HIDE DEF s
  <2>6. 1..nreq \subseteq Req /\ 0 \notin Req /\ Live \subseteq Slot
    BY <1>0 DEF Req, Live
  <2>7. \A r \in Req : /\ ends'[r] > 0 <=> ends[r] > 0
                       /\ r # req[s] => ends'[r] = ends[r]
    BY <1>0, <2>3, <2>5, <2>6
  <2>8. \A t \in Live' : req'[t] \in 1..nreq' /\ ends'[req'[t]] = 0
    <3> SUFFICES ASSUME NEW t \in Live PROVE req[t] \in 1..nreq /\ ends'[req[t]] = 0
      BY <2>1, <2>2
    <3>1. req[t] \in 1..nreq /\ ends[req[t]] = 0
      BY DEF ReqInv
    <3>2. req[t] # req[s] /\ req[t] \in Req
      BY <1>0, <2>5, <2>6, <3>1
    <3> QED
      BY <2>7, <3>1, <3>2
  <2>9. \A r \in Req : /\ ends'[r] <= 1 \/ (skew' > 0 /\ r \in lateEnq' \cup torn')
                       /\ ends'[r] > 0 => r =< nreq'
    <3> SUFFICES ASSUME NEW r \in Req
                 PROVE  /\ ends'[r] <= 1 \/ (skew' > 0 /\ r \in lateEnq' \cup torn')
                        /\ ends'[r] > 0 => r =< nreq'
      OBVIOUS
    <3>1. ends'[r] > 0 => r =< nreq'
      BY <2>2, <2>7 DEF ReqInv
    <3>2. CASE r = req[s]
      BY <1>0, <2>2, <2>4, <3>1, <3>2
    <3>3. CASE r # req[s]
      <4>1. ends'[r] = ends[r] /\ skew' > 0
        BY <1>0, <2>2, <2>7, <3>3
      <4>2. ends[r] <= 1 \/ r \in lateEnq \cup torn
        BY DEF ReqInv
      <4> QED
        BY <2>2, <3>1, <4>1, <4>2
    <3> QED
      BY <3>2, <3>3
  <2>10. \A r \in 1..nreq' : ends'[r] > 0 \/ \E t \in Live' : req'[t] = r
    BY <2>1, <2>2, <2>6, <2>7 DEF ReqInv
  <2>11. \A t \in Slot \ Live' : req'[t] = 0 \/ (req'[t] \in 1..nreq' /\ ends'[req'[t]] > 0)
    BY <2>1, <2>2, <2>6, <2>7 DEF ReqInv
  <2> QED
    BY <2>1, <2>2, <2>8, <2>9, <2>10, <2>11 DEF ReqInv
<1> QED
  BY <1>1, <1>2, <1>3, <1>4, <1>5, <1>6, <1>7, <1>8 DEF Moves

(* The invariants of entries and requests together. *)
EntriesInv == TokenInv /\ PlaceInv /\ EnqInv /\ ReqInv

(* At the beginning all entries are idle. *)
LEMMA EntriesInit == Init => EntriesInv
<1> SUFFICES ASSUME Init PROVE EntriesInv
  OBVIOUS
<1>1. Pushers = {} /\ nreq = 0 /\ \A r \in Req : ends[r] = 0
  BY DEF Init, Pushers
<1>2. Live = {}
  BY <1>1, EmptyQueue, ConstAssumption DEF Init, Live, Slot
<1>3. ReqInv
  BY <1>1, <1>2 DEF ReqInv, Init
<1>4. EnqInv
  <2>1. \A s \in ToSet(idleQ) : status[s] = {}
    BY ConstAssumption DEF Init, ToSet, Slot
  <2> QED
    BY <2>1 DEF EnqInv, CountersRight, Init
<1> QED
  BY <1>3, <1>4, TokenInit, PlaceInit DEF EntriesInv

(* Every step keeps them. *)
LEMMA EntriesStep == EntriesInv /\ [Next]_vars => EntriesInv'
  BY TokenStep, PlaceStep, EnqStep, ReqStep DEF EntriesInv

(* However many entries, callers and requests there are and whatever flags *)
(* an SMP machine loses: no pool entry is lost or linked twice; no request *)
(* is told twice that it is over and no counter goes wrong, although       *)
(* cancels, frees and the stop race with handles that may be out of date,  *)
(* unless an entry was marked ENQ when it was idle again or got an         *)
(* outdated flag word.                                                     *)
THEOREM EntriesSafe == Spec => []EntryInv
<1>1. EntriesInv => EntryInv
  BY PlacesCounted DEF EntriesInv, EnqInv, ReqInv, EntryInv, OverOnce
<1> QED
  BY <1>1, EntriesInit, EntriesStep, PTL DEF Spec

-----------------------------------------------------------------------------
(* The stop.  DISPR_STARTED is cleared before the thread is told to stop,  *)
(* so a request that is linked when the thread has left is late.           *)
LeaveInv ==
    /\ epc \notin {"up", "mdlstop"} => ~started
    /\ stop => epc \notin {"up", "mdlstop"}
    /\ bpc \in {"leave", "clrreq", "clrpop", "done"} \/ bnext = "clrreq" => stop
    /\ bpc = "done" /\ skew = 0 => \A s \in ToSet(waitQ) : req[s] \in late

(* Every step preserves it. *)
LEMMA LeaveStep ==
    ASSUME EntriesInv, LeaveInv, [Next]_vars
    PROVE  LeaveInv'
<1> USE DEF LeaveInv
<1>0. /\ idleQ \in Seq(Slot) /\ waitQ \in Seq(Slot) /\ ToSet(waitQ) \subseteq Slot
      /\ cslot \in [Client -> Slot] /\ req \in [Slot -> 0..MaxReq] /\ skew \in Nat
  BY ToSetType DEF EntriesInv, TokenInv, TypeOK, ReqType, CallerType
<1>1. ASSUME NEW c \in Client, Caller(c) PROVE LeaveInv'
  <2>1. UNCHANGED <<epc, stop, started, bpc, bnext, skew>>
    BY <1>1 DEF Caller, dispr_add_token_req, pop_front_idle_req, NoIdleReq, push_back_wait_req,
       LoadEnq, SetEnq, AddOp, dispr_cancel_token_req, CancelSet, CancelOp, dispr_free_token,
       FreeSet, FreeOp, notify_bk_thread, dispr_is_fg_empty, FgEmptyOps,
       push_back_token_op_info
  <2>2. CASE pop_front_idle_req(c)
    <3>1. Head(idleQ) \in ToSet(idleQ)
      BY <1>0, <2>2, TailToSet DEF pop_front_idle_req
    <3>2. \A s \in ToSet(waitQ) : req'[s] = req[s]
      BY <1>0, <2>2, <3>1 DEF pop_front_idle_req, EntriesInv, PlaceInv
    <3>3. UNCHANGED <<waitQ, late>>
      BY <2>2 DEF pop_front_idle_req
    <3> QED
      BY <2>1, <3>2, <3>3
  <2>3. CASE push_back_wait_req(c)
    <3>1. /\ cslot[c] \in Slot /\ waitQ' = Append(waitQ, cslot[c]) /\ req' = req
          /\ late' = IF started THEN late ELSE late \cup {creq[c]}
      BY <1>0, <2>3 DEF push_back_wait_req
    <3>2. ToSet(waitQ') = ToSet(waitQ) \cup {cslot[c]}
      BY <1>0, <3>1, AppendToSet
    <3>3. creq[c] = req[cslot[c]]
      BY <2>3 DEF push_back_wait_req, EntriesInv, ReqInv, Pushers
    <3> QED
      BY <2>1, <3>1, <3>2, <3>3
  <2>4. CASE ~pop_front_idle_req(c) /\ ~push_back_wait_req(c)
    <3>1. UNCHANGED <<waitQ, req, late>>
      BY <1>1, <2>4 DEF Caller, dispr_add_token_req, NoIdleReq,
         LoadEnq, SetEnq, AddOp, dispr_cancel_token_req, CancelSet, CancelOp, dispr_free_token,
         FreeSet, FreeOp, notify_bk_thread, dispr_is_fg_empty, FgEmptyOps,
         push_back_token_op_info
    <3> QED
      BY <2>1, <3>1
  <2> QED
    BY <2>2, <2>3, <2>4
<1>2. CASE Background /\ ~clear_wating_req
  <2>1. UNCHANGED <<epc, stop, started>>
    BY <1>2 DEF Background, share_thread_hdl, token_op_hanler, CancelWaiting, CancelRecycled,
       CancelIdle, ClearPop, HandleOp, OpHandled, dispr_process_token_req, NoReqLeft, pop_front_wait_req,
       register_cur_cmd_req, AcquiredReturns, deregister_cur_cmd_req, LastPermit,
       AbortCallback, push_back_idle_req, DropToken, HandleMsg, dispr_thread_leave_hdl
  <2>2. bpc' # "done" /\ (bpc' \in {"leave", "clrreq", "clrpop"} \/ bnext' = "clrreq" => stop)
    BY <1>2 DEF Background, share_thread_hdl, token_op_hanler, CancelWaiting, CancelRecycled,
       CancelIdle, ClearPop, HandleOp, OpHandled, dispr_process_token_req, NoReqLeft, pop_front_wait_req,
       register_cur_cmd_req, AcquiredReturns, deregister_cur_cmd_req, LastPermit,
       AbortCallback, push_back_idle_req, DropToken, HandleMsg, dispr_thread_leave_hdl,
       LoopTop, EntriesInv, TokenInv, TypeOK, BkType
  <2> QED
    BY <2>1, <2>2
<1>3. CASE clear_wating_req
  <2>1. UNCHANGED <<epc, stop, started, bnext, skew, waitQ>> /\ bpc = "clrreq"
    BY <1>3 DEF clear_wating_req
  <2>2. CASE Len(idleQ) = NReq
    <3>1. bpc' \in {"done", "clrpop"}
      BY <1>3 DEF clear_wating_req
    <3>2. ToSet(idleQ) = Slot
      <4>1. IsFiniteSet(Slot) /\ Cardinality(Slot) = NReq
        BY FS_Interval, ConstAssumption DEF Slot
      <4> QED
        BY <1>0, <2>2, <4>1, FullQueue DEF EntriesInv, PlaceInv
    <3>3. ToSet(waitQ) = {}
      BY <1>0, <3>2 DEF EntriesInv, PlaceInv
    <3> QED
      BY <2>1, <3>1, <3>3
  <2>3. CASE Len(idleQ) # NReq
    <3>1. bpc' = "clrpop" \/ skew # 0
      BY <1>0, <1>3, <2>3 DEF clear_wating_req
    <3>2. bpc' \in {"done", "clrpop"}
      BY <1>3 DEF clear_wating_req
    <3> QED
      BY <2>1, <3>1, <3>2
  <2> QED
    BY <2>2, <2>3
<1>4. CASE Engine
  BY <1>4 DEF Engine, dispr_module_stop, StopPrior, cancel_all_cmd_req, ThreadStop, StopPost
<1>5. CASE UNCHANGED vars
  BY <1>5 DEF vars
<1> QED
  BY <1>1, <1>2, <1>3, <1>4, <1>5 DEF Next

(* phl_disp_eng_stop may come at any moment: when the thread has left,     *)
(* every request that was linked before the stop began has been told, once,*)
(* that it is over, as long as the counters that the leave handler goes by *)
(* are right (see EntriesSafe for what makes them wrong).                  *)
THEOREM StopForgetsNone == Spec => []LeaveEndsAll
<1>1. Init => EntriesInv /\ LeaveInv
  BY EntriesInit DEF Init, LeaveInv
<1>2. (EntriesInv /\ LeaveInv) /\ [Next]_vars => (EntriesInv /\ LeaveInv)'
  BY EntriesStep, LeaveStep
<1>3. EntriesInv /\ LeaveInv => LeaveEndsAll
  <2> SUFFICES ASSUME EntriesInv, LeaveInv, bpc = "done", skew = 0,
                      NEW r \in Req, Added(r), ends[r] # 1
               PROVE  r \in late
    BY DEF LeaveEndsAll
  <2>0. ~(ends[r] > 0)
    BY DEF EntriesInv, TokenInv, TypeOK, HistType, ReqInv
  <2>1. PICK s \in Live : req[s] = r
    BY <2>0 DEF EntriesInv, ReqInv, Added
  <2>2. \A c \in Pushers : cslot[c] # s
    BY <2>1 DEF EntriesInv, ReqInv, Added, Pushers, AddPc
  <2>3. cur # s
    BY ConstAssumption DEF EntriesInv, TokenInv, BkHolds, Live, Slot
  <2>4. s \in ToSet(waitQ)
    BY <2>2, <2>3 DEF Live
  <2> QED
    BY <2>1, <2>4 DEF LeaveInv
<1> QED
  BY <1>1, <1>2, <1>3, PTL DEF Spec

-----------------------------------------------------------------------------
(* dispr_is_fg_empty.  A request that was there when a caller found the    *)
(* wait queue empty is over, or in the hands of the thread, or holds the   *)
(* token.                                                                  *)
InHand(r) ==
    \E s \in Slot : /\ req[s] = r
                    /\ (bpc = "reg" /\ bslot = s) \/ (bpc \notin Ending /\ cur = s)
FgInv ==
    \A c \in Client : cpc[c] = "fg2" /\ skew = 0 =>
        \A r \in fgSeen[c] : ends[r] > 0 \/ InHand(r)

(* What is over stays over. *)
LEMMA EndsGrow ==
    ASSUME TypeOK, [Next]_vars
    PROVE  \A r \in Req : ends[r] > 0 => ends'[r] > 0
<1>0. ends \in [Req -> Nat]
  BY DEF TypeOK, HistType
<1>1. CASE ends' = ends
  BY <1>1
<1>2. ASSUME NEW x, ends' = [ends EXCEPT ![x] = @ + 1]
      PROVE  \A r \in Req : ends[r] > 0 => ends'[r] > 0
  BY <1>0, <1>2
<1>3. CASE CancelWaiting \/ CancelRecycled \/ deregister_cur_cmd_req \/ ClearPop
  <2>1. ends' = ends \/ \E x : ends' = [ends EXCEPT ![x] = @ + 1]
    BY <1>3 DEF CancelWaiting, CancelRecycled, deregister_cur_cmd_req, ClearPop
  <2> QED
    BY <1>1, <1>2, <2>1
<1>4. CASE ~(CancelWaiting \/ CancelRecycled \/ deregister_cur_cmd_req \/ ClearPop)
  <2>1. ends' = ends
    BY ZenonT(40), <1>4 DEF Next, Background, Engine, Caller, vars,
       dispr_add_token_req, pop_front_idle_req, NoIdleReq, push_back_wait_req, LoadEnq,
       SetEnq, AddOp, dispr_cancel_token_req, CancelSet, CancelOp, dispr_free_token, FreeSet,
       FreeOp, notify_bk_thread, dispr_is_fg_empty, FgEmptyOps, push_back_token_op_info,
       share_thread_hdl, token_op_hanler, CancelIdle, HandleOp, OpHandled,
       dispr_process_token_req, NoReqLeft, pop_front_wait_req, register_cur_cmd_req,
       AcquiredReturns, LastPermit, AbortCallback, push_back_idle_req, DropToken, HandleMsg,
       dispr_thread_leave_hdl, clear_wating_req, dispr_module_stop, StopPrior,
       cancel_all_cmd_req, ThreadStop, StopPost
  <2> QED
    BY <1>1, <2>1
<1> QED
  BY <1>3, <1>4

(* A request in the hands of the thread leaves them only when it is over. *)
LEMMA InHandStep ==
    ASSUME EntriesInv, [Next]_vars, NEW r \in Req, ends[r] > 0 \/ InHand(r)
    PROVE  ends'[r] > 0 \/ InHand(r)'
<1>0. /\ TypeOK /\ req \in [Slot -> 0..MaxReq] /\ None \notin Slot /\ ends \in [Req -> Nat]
      /\ idleQ \in Seq(Slot) /\ cur \in Slot \cup {None}
  BY ConstAssumption DEF EntriesInv, TokenInv, TypeOK, ReqType, HistType, TokenType, Slot
<1>1. CASE ends[r] > 0
  BY <1>0, <1>1, EndsGrow
<1>2. ASSUME NEW s \in Slot, req[s] = r,
             (bpc = "reg" /\ bslot = s) \/ (bpc \notin Ending /\ cur = s)
      PROVE  ends'[r] > 0 \/ InHand(r)'
  <2>1. CASE ~Moves
    <3>1. req' = req /\ ((bpc' = "reg" /\ bslot' = s) \/ (bpc' \notin Ending /\ cur' = s))
      BY <1>0, <1>2, <2>1, OthersKeepPlaces
    <3> QED
      BY <1>2, <3>1 DEF InHand
  <2>2. CASE CancelWaiting \/ CancelRecycled \/ CancelIdle \/ ClearPop
    <3>1. /\ UNCHANGED <<req, cur>> /\ bpc # "reg" /\ bpc' \notin Ending
      BY <2>2 DEF CancelWaiting, CancelRecycled, CancelIdle, ClearPop, Ending
    <3> QED
      BY <1>2, <3>1 DEF InHand
  <2>3. CASE pop_front_wait_req \/ push_back_idle_req
    <3>1. bpc # "reg" /\ (bpc \in Ending \/ cur = None)
      BY <2>3 DEF pop_front_wait_req, push_back_idle_req, Ending, EntriesInv, TokenInv, BkHolds
    <3> QED
      BY <1>0, <1>2, <3>1
  <2>4. CASE register_cur_cmd_req
    <3>1. /\ bpc = "reg" /\ bpc' = "acq" /\ cur' = bslot /\ cur = None /\ req' = req
      BY <2>4 DEF register_cur_cmd_req, EntriesInv, TokenInv, BkHolds
    <3> QED
      BY <1>0, <1>2, <3>1 DEF InHand, Ending
  <2>5. CASE deregister_cur_cmd_req
    <3>1. bpc = "dereg" /\ cur = s
      BY <1>2, <2>5 DEF deregister_cur_cmd_req
    <3>2. ends' = [ends EXCEPT ![r] = @ + 1]
      BY <1>0, <1>2, <2>5, <3>1 DEF deregister_cur_cmd_req
    <3> QED
      BY <1>0, <3>2
  <2>6. ASSUME NEW c \in Client, pop_front_idle_req(c) PROVE InHand(r)'
    <3>1. /\ req' = [req EXCEPT ![Head(idleQ)] = nreq + 1] /\ UNCHANGED <<bpc, bslot, cur>>
      BY <2>6 DEF pop_front_idle_req
    <3>2. Head(idleQ) \notin Live
      BY <2>6, LiveMoves DEF EntriesInv
    <3>3. s \in Live
      BY <1>2 DEF Live
    <3>4. req'[s] = r
      BY <1>0, <1>2, <3>1, <3>2, <3>3
    <3> QED
      BY <1>2, <3>1, <3>4 DEF InHand
  <2>7. ASSUME NEW c \in Client, push_back_wait_req(c) PROVE InHand(r)'
    <3>1. UNCHANGED <<req, bpc, bslot, cur>>
      BY <2>7 DEF push_back_wait_req
    <3> QED
      BY <1>2, <3>1 DEF InHand
  <2> QED
    BY <2>1, <2>2, <2>3, <2>4, <2>5, <2>6, <2>7 DEF Moves
<1> QED
  BY <1>1, <1>2 DEF InHand

(* Only dispr_is_fg_empty brings a caller between the two looks, and only  *)
(* FgEmptyOps makes it answer.                                             *)
LEMMA FgCallers ==
    ASSUME TypeOK, [Next]_vars, NEW c \in Client
    PROVE  /\ cpc'[c] = "fg2" =>
                 dispr_is_fg_empty(c) \/ (cpc[c] = "fg2" /\ fgSeen'[c] = fgSeen[c])
           /\ cpc[c] = "fg2" /\ cpc'[c] = "fgempty" => FgEmptyOps(c)
<1>0. cpc \in [Client -> ClPc] /\ fgSeen \in [Client -> SUBSET Req]
  BY DEF TypeOK, CallerType, HistType
<1>1. ASSUME NEW d \in Client, Caller(d), d # c PROVE cpc'[c] = cpc[c] /\ fgSeen'[c] = fgSeen[c]
  <2>1. cpc' = [cpc EXCEPT ![d] = cpc'[d]]
    BY <1>0, <1>1 DEF Caller, dispr_add_token_req, pop_front_idle_req, NoIdleReq,
       push_back_wait_req, LoadEnq, SetEnq, AddOp, dispr_cancel_token_req, CancelSet,
       CancelOp, dispr_free_token, FreeSet, FreeOp, notify_bk_thread, dispr_is_fg_empty,
       FgEmptyOps, push_back_token_op_info
  <2>2. fgSeen' = [fgSeen EXCEPT ![d] = fgSeen'[d]]
    BY <1>0, <1>1 DEF Caller, dispr_add_token_req, pop_front_idle_req, NoIdleReq,
       push_back_wait_req, LoadEnq, SetEnq, AddOp, dispr_cancel_token_req, CancelSet,
       CancelOp, dispr_free_token, FreeSet, FreeOp, notify_bk_thread, dispr_is_fg_empty,
       FgEmptyOps, push_back_token_op_info
  <2> QED
    BY <1>0, <1>1, <2>1, <2>2
<1>2. CASE Caller(c)
  <2>1. CASE dispr_is_fg_empty(c)
    BY <1>0, <2>1 DEF dispr_is_fg_empty
  <2>2. CASE FgEmptyOps(c)
    BY <1>0, <2>2 DEF FgEmptyOps
  <2>3. CASE ~dispr_is_fg_empty(c) /\ ~FgEmptyOps(c)
    <3>1. cpc'[c] \notin {"fg2", "fgempty"}
      BY <1>0, <1>2, <2>3 DEF Caller, dispr_add_token_req, pop_front_idle_req, NoIdleReq,
         push_back_wait_req, LoadEnq, SetEnq, AddOp, dispr_cancel_token_req, CancelSet,
         CancelOp, dispr_free_token, FreeSet, FreeOp, notify_bk_thread,
         push_back_token_op_info
    <3> QED
      BY <3>1
  <2> QED
    BY <2>1, <2>2, <2>3
<1>3. CASE Background \/ Engine \/ UNCHANGED vars
  <2>1. UNCHANGED <<cpc, fgSeen>>
    BY <1>3 DEF Background, share_thread_hdl, token_op_hanler, CancelWaiting, CancelRecycled,
       CancelIdle, HandleOp, OpHandled, dispr_process_token_req, NoReqLeft,
       pop_front_wait_req, register_cur_cmd_req, AcquiredReturns, deregister_cur_cmd_req,
       LastPermit, AbortCallback, push_back_idle_req, DropToken, HandleMsg,
       dispr_thread_leave_hdl, clear_wating_req, ClearPop, Engine, dispr_module_stop,
       StopPrior, cancel_all_cmd_req, ThreadStop, StopPost, vars
  <2> QED
    BY <2>1
<1> QED
  BY <1>1, <1>2, <1>3 DEF Next

(* Every step preserves FgInv. *)
LEMMA FgStep ==
    ASSUME EntriesInv, FgInv, [Next]_vars
    PROVE  FgInv'
<1>0. /\ TypeOK /\ waitQ \in Seq(Slot) /\ skew \in Nat /\ ends \in [Req -> Nat]
      /\ fgSeen \in [Client -> SUBSET Req] /\ fgSeen' \in [Client -> SUBSET Req]
  BY TokenStep DEF EntriesInv, TokenInv, TypeOK, ReqType, HistType
<1> SUFFICES ASSUME NEW c \in Client, cpc'[c] = "fg2", skew' = 0, NEW r \in fgSeen'[c]
             PROVE  ends'[r] > 0 \/ InHand(r)'
  BY DEF FgInv
<1>1. r \in Req /\ skew = 0
  <2>1. skew' = skew \/ skew' = skew + 1
    BY <1>0, MarksGrow DEF CancelRecycled
  <2> QED
    BY <1>0, <2>1
<1>2. CASE cpc[c] = "fg2" /\ fgSeen'[c] = fgSeen[c]
  BY <1>1, <1>2, InHandStep DEF FgInv
<1>3. CASE dispr_is_fg_empty(c)
  <2>1. Added(r) /\ ends[r] = 0 /\ Len(waitQ) = 0
    BY <1>0, <1>1, <1>3 DEF dispr_is_fg_empty
  <2>2. PICK s \in Live : req[s] = r
    BY <2>1 DEF EntriesInv, ReqInv, Added
  <2>3. \A d \in Pushers : cslot[d] # s
    BY <2>1, <2>2 DEF EntriesInv, ReqInv, Added, Pushers, AddPc
  <2>4. waitQ = <<>> /\ s \notin ToSet(waitQ)
    BY <1>0, <2>1, EmptyQueue
  <2>5. InHand(r)
    BY <2>2, <2>3, <2>4 DEF InHand, Live
  <2> QED
    BY <1>1, <2>5, InHandStep
<1> QED
  BY <1>0, <1>2, <1>3, FgCallers

(* On any machine, with any number of callers: when dispr_is_fg_empty says *)
(* that there is no foreground command, every request that was there when  *)
(* it was called is over, or it is the one that the thread has taken from  *)
(* the wait queue and not yet registered.                                  *)
THEOREM FgEmptyMisses == Spec => FgEmptyMissesOne
<1>1. Init => EntriesInv /\ FgInv
  BY EntriesInit DEF Init, FgInv
<1>2. (EntriesInv /\ FgInv) /\ [Next]_vars => (EntriesInv /\ FgInv)'
  BY EntriesStep, FgStep
<1>3. EntriesInv /\ FgInv /\ [Next]_vars =>
        [\A c \in Client : cpc[c] = "fg2" /\ cpc'[c] = "fgempty" /\ skew = 0 =>
          \A r \in fgSeen[c] : ends[r] > 0 \/ (bpc = "reg" /\ req[bslot] = r)]_vars
  <2> SUFFICES ASSUME EntriesInv, FgInv, [Next]_vars, NEW c \in Client, cpc[c] = "fg2",
                      cpc'[c] = "fgempty", skew = 0, NEW r \in fgSeen[c], ~(ends[r] > 0)
               PROVE  bpc = "reg" /\ req[bslot] = r
    OBVIOUS
  <2>0. TypeOK /\ tokenCnt \in Int /\ cpc \in [Client -> ClPc] /\ None \notin Slot
    BY ConstAssumption DEF EntriesInv, TokenInv, TypeOK, TokenType, CallerType, Slot
  <2>1. FgEmptyOps(c)
    BY <2>0, FgCallers
  <2>2. ~(tokenCnt > 0)
    BY <2>0, <2>1 DEF FgEmptyOps
  <2>3. cur = None
    BY <2>0, <2>2 DEF EntriesInv, TokenInv, TokenMatchesCur
  <2> QED
    BY <2>0, <2>3 DEF FgInv, InHand
<1> QED
  BY <1>1, <1>2, <1>3, PTL DEF Spec, FgEmptyMissesOne

-----------------------------------------------------------------------------
(* The refinement of FgToken. *)

(* The requests of the wait queue, as its operations change it. *)
LEMMA WaitingIds ==
    ASSUME TypeOK
    PROVE  /\ Values(req, waitQ) \in Seq(0..MaxReq) /\ Len(Values(req, waitQ)) = Len(waitQ)
           /\ \A s \in Slot : Values(req, Append(waitQ, s)) = Append(Values(req, waitQ), req[s])
           /\ waitQ # <<>> =>
                 Values(req, waitQ) = Cons(req[Head(waitQ)], Values(req, Tail(waitQ)))
           /\ \A i \in 1..Len(waitQ) :
                 Values(req, RemoveAt(waitQ, i)) = RemoveAt(Values(req, waitQ), i)
<1>1. req \in [Slot -> 0..MaxReq] /\ req \in [Slot -> Range(req)] /\ waitQ \in Seq(Slot)
  BY DEF TypeOK, ReqType, Range
<1>2. /\ Values(req, waitQ) \in Seq(Range(req)) /\ Len(Values(req, waitQ)) = Len(waitQ)
      /\ \A k \in 1..Len(waitQ) : Values(req, waitQ)[k] = req[waitQ[k]]
  BY <1>1, ValuesOfList
<1>3. /\ \A s \in Slot : Values(req, Append(waitQ, s)) = Append(Values(req, waitQ), req[s])
      /\ waitQ # <<>> =>
            Values(req, waitQ) = Cons(req[Head(waitQ)], Values(req, Tail(waitQ)))
      /\ \A i \in 1..Len(waitQ) :
            Values(req, RemoveAt(waitQ, i)) = RemoveAt(Values(req, waitQ), i)
  BY <1>1, ValuesOfList
<1>4. Values(req, waitQ) \in Seq(0..MaxReq)
  <2>1. \A k \in 1..Len(waitQ) : req[waitQ[k]] \in 0..MaxReq
    BY <1>1
  <2>2. DOMAIN waitQ = 1..Len(waitQ) /\ Len(waitQ) \in Nat
    BY <1>1
  <2>3. Values(req, waitQ) = [k \in 1..Len(waitQ) |-> req[waitQ[k]]]
    BY <2>2 DEF Values
  <2> QED
    BY <2>1, <2>2, <2>3
<1> QED
  BY <1>2, <1>3, <1>4

(* Only live requests are pending or hold the token. *)
LEMMA PendingLive ==
    ASSUME EntriesInv
    PROVE  /\ PendingReqs \in Seq(0..MaxReq)
           /\ \A r \in ToSet(PendingReqs) :
                 \E s \in Live : req[s] = r /\ (s \in ToSet(waitQ) \/ (bpc = "reg" /\ bslot = s))
           /\ HolderReq # 0 => \E s \in Live : s = cur /\ req[s] = HolderReq
<1>0. /\ TypeOK /\ waitQ \in Seq(Slot) /\ ToSet(waitQ) \subseteq Slot /\ req \in [Slot -> 0..MaxReq]
      /\ cur \in Slot \cup {None}
  BY ToSetType DEF EntriesInv, TokenInv, TypeOK, ReqType, TokenType
<1>1. Values(req, waitQ) \in Seq(0..MaxReq)
  BY <1>0, WaitingIds
<1>2. \A r \in ToSet(Values(req, waitQ)) : \E s \in ToSet(waitQ) : req[s] = r
  BY <1>0 DEF Values, ToSet
<1>3. CASE bpc = "reg"
  <2>1. bslot \in Slot /\ <<req[bslot]>> \in Seq(0..MaxReq) /\ ToSet(<<req[bslot]>>) = {req[bslot]}
    BY <1>0, <1>3 DEF EntriesInv, TokenInv, BkHolds, ToSet
  <2>2. PendingReqs \in Seq(0..MaxReq) /\ ToSet(PendingReqs) = {req[bslot]} \cup ToSet(Values(req, waitQ))
    <3>1. PendingReqs = <<req[bslot]>> \o Values(req, waitQ)
      BY <1>3 DEF PendingReqs
    <3> DEFINE a == <<req[bslot]>>
               b == Values(req, waitQ)
    <3>2. a \in Seq(0..MaxReq) /\ b \in Seq(0..MaxReq) /\ PendingReqs = a \o b
      BY <1>1, <2>1, <3>1
    <3> HIDE DEF a, b
    <3>3. a \o b \in Seq(0..MaxReq) /\ ToSet(a \o b) = ToSet(a) \cup ToSet(b)
      BY <3>2, ConcatToSet
    <3> QED
      BY <2>1, <3>2, <3>3 DEF a, b
  <2>3. bslot \in Live /\ ToSet(waitQ) \subseteq Live
    BY <1>0, <1>3, <2>1 DEF Live
  <2>4. HolderReq = 0
    BY <1>3 DEF HolderReq, EntriesInv, TokenInv, BkHolds
  <2>5. ASSUME NEW r \in ToSet(PendingReqs)
        PROVE  \E s \in Live : req[s] = r /\ (s \in ToSet(waitQ) \/ (bpc = "reg" /\ bslot = s))
    <3>1. CASE r = req[bslot]
      BY <1>3, <2>3, <3>1
    <3>2. CASE r \in ToSet(Values(req, waitQ))
      BY <1>2, <2>3, <3>2
    <3> QED
      BY <2>2, <3>1, <3>2
  <2> QED
    BY <2>2, <2>4, <2>5
<1>4. CASE bpc # "reg"
  <2>1. PendingReqs = Values(req, waitQ)
    BY <1>1, <1>4 DEF PendingReqs
  <2>2. ToSet(waitQ) \subseteq Live
    BY <1>0 DEF Live
  <2>3. HolderReq # 0 => cur \in Live /\ req[cur] = HolderReq
    BY <1>0 DEF HolderReq, Live, Ending
  <2>4. \A r \in ToSet(PendingReqs) : \E s \in Live : req[s] = r /\ s \in ToSet(waitQ)
    BY <1>2, <2>1, <2>2
  <2> QED
    BY <1>1, <2>1, <2>3, <2>4
<1> QED
  BY <1>3, <1>4

(* The steps that do not touch the waiting requests and the holder. *)
LEMMA StutterStep ==
    ASSUME EntriesInv, EntriesInv', [Next]_vars,
           \/ ~Moves \/ CancelIdle \/ CancelRecycled \/ push_back_idle_req
           \/ \E c \in Client : pop_front_idle_req(c)
    PROVE  UNCHANGED <<PendingReqs, HolderReq, OverReqs>>
<1>0. /\ TypeOK /\ waitQ \in Seq(Slot) /\ req \in [Slot -> 0..MaxReq] /\ None \notin Slot
      /\ cur \in Slot \cup {None} /\ cur' \in Slot \cup {None}
      /\ bpc = "reg" => bslot \in Slot
      /\ bpc' = "reg" => bslot' \in Slot
  BY ConstAssumption DEF EntriesInv, TokenInv, TypeOK, ReqType, TokenType, BkHolds, Slot
<1>1. CASE ~Moves
  <2>1. UNCHANGED <<waitQ, req, ends>>
    BY <1>0, <1>1, OthersKeepPlaces
  <2>2. \A s \in Slot :
           /\ (bpc' = "reg" /\ bslot' = s) <=> (bpc = "reg" /\ bslot = s)
           /\ (bpc' \notin Ending /\ cur' = s) <=> (bpc \notin Ending /\ cur = s)
    BY <1>0, <1>1, OthersKeepPlaces
  <2>3. (bpc = "reg" <=> bpc' = "reg") /\ (bpc = "reg" => bslot' = bslot)
    BY <1>0, <2>2
  <2>4. UNCHANGED PendingReqs
    BY <2>1, <2>3 DEF PendingReqs, Values
  <2>5. UNCHANGED HolderReq
    BY <1>0, <2>1, <2>2 DEF HolderReq, Ending
  <2> QED
    BY <2>1, <2>4, <2>5 DEF OverReqs
<1>2. CASE CancelIdle
  BY <1>2 DEF CancelIdle, PendingReqs, Values, HolderReq, OverReqs
<1>3. CASE push_back_idle_req
  BY <1>3 DEF push_back_idle_req, PendingReqs, Values, HolderReq, OverReqs
<1>4. ASSUME NEW c \in Client, pop_front_idle_req(c)
      PROVE  UNCHANGED <<PendingReqs, HolderReq, OverReqs>>
  <2> DEFINE s == Head(idleQ)
  <2>1. /\ req' = [req EXCEPT ![s] = nreq + 1] /\ UNCHANGED <<waitQ, bpc, bslot, cur, ends>>
    BY <1>4 DEF pop_front_idle_req
  <2>2. s \notin Live
    BY <1>4, LiveMoves DEF EntriesInv
  <2>3. \A i \in DOMAIN waitQ : waitQ[i] \in Slot /\ waitQ[i] \in Live
    BY <1>0 DEF Live, ToSet
  <2>4. Values(req', waitQ') = Values(req, waitQ)
    BY <1>0, <2>1, <2>2, <2>3 DEF Values
  <2>5. bpc = "reg" => req'[bslot] = req[bslot]
    BY <1>0, <2>1, <2>2 DEF Live
  <2>6. cur # None /\ bpc \notin Ending => req'[cur] = req[cur]
    BY <1>0, <2>1, <2>2 DEF Live
  <2>7. UNCHANGED PendingReqs
    <3>1. CASE bpc = "reg"
      <4>1. PendingReqs = <<req[bslot]>> \o Values(req, waitQ)
        BY <3>1 DEF PendingReqs
      <4>2. PendingReqs' = <<req'[bslot']>> \o Values(req', waitQ')
        BY <2>1, <3>1 DEF PendingReqs
      <4> QED
        BY <2>1, <2>4, <2>5, <3>1, <4>1, <4>2
    <3>2. CASE bpc # "reg"
      BY <2>1, <2>4, <3>2 DEF PendingReqs
    <3> QED
      BY <3>1, <3>2
  <2>8. UNCHANGED HolderReq
    BY <2>1, <2>6 DEF HolderReq, Ending
  <2> QED
    BY <2>1, <2>7, <2>8 DEF OverReqs
<1>5. CASE CancelRecycled
  <2> DEFINE s == bnode[2]
  <2>1. /\ UNCHANGED <<waitQ, req, cur>> /\ ends' = [ends EXCEPT ![req[s]] = @ + 1]
        /\ bpc = "handle" /\ bpc' = "cxlidle"
    BY <1>5 DEF CancelRecycled
  <2>2. s \in Slot \ Live
    BY <1>5, LiveMoves DEF EntriesInv
  <2>3. req[s] = 0 \/ (req[s] \in 1..nreq /\ ends[req[s]] > 0)
    BY <2>2 DEF EntriesInv, ReqInv
  <2>4. ends \in [Req -> Nat] /\ 0 \notin Req
    BY DEF EntriesInv, TokenInv, TypeOK, HistType, Req
  <2> HIDE DEF s
  <2>5. \A r \in Req : ends'[r] > 0 <=> ends[r] > 0
    BY <2>1, <2>3, <2>4
  <2>6. UNCHANGED OverReqs
    BY <2>5 DEF OverReqs
  <2>7. UNCHANGED <<PendingReqs, HolderReq>>
    BY <2>1 DEF PendingReqs, Values, HolderReq
  <2> QED
    BY <2>6, <2>7
<1> QED
  BY <1>1, <1>2, <1>3, <1>4, <1>5

(* Every step is a step of the promise or changes nothing in it. *)
LEMMA PromiseStep ==
    ASSUME EntriesInv, EntriesInv', [Next]_vars
    PROVE  [Promise!Next]_(Promise!tokenVars)
<1> DEFINE Kept == UNCHANGED <<PendingReqs, HolderReq, OverReqs>>
<1>0. /\ TypeOK /\ waitQ \in Seq(Slot) /\ req \in [Slot -> 0..MaxReq] /\ None \notin Slot
      /\ cur \in Slot \cup {None} /\ ToSet(waitQ) \subseteq Slot /\ ends \in [Req -> Nat]
      /\ cslot \in [Client -> Slot] /\ nreq \in 0..MaxReq /\ MaxReq \in Nat
      /\ 1..nreq \subseteq Req /\ skew \in Nat
  <2>1. nreq \in 0..MaxReq /\ MaxReq \in Nat
    BY ConstAssumption DEF EntriesInv, TokenInv, TypeOK, HistType
  <2>2. 1..nreq \subseteq Req
    BY <2>1 DEF Req
  <2> QED
    BY <2>1, <2>2, ToSetType, ConstAssumption DEF EntriesInv, TokenInv, TypeOK, ReqType,
       TokenType, HistType, CallerType, Slot
<1>1. Values(req, waitQ) \in Seq(0..MaxReq) /\ Len(Values(req, waitQ)) = Len(waitQ)
  BY <1>0, WaitingIds
<1>2. bpc # "reg" => PendingReqs = Values(req, waitQ)
  BY <1>1 DEF PendingReqs
<1>3. ASSUME Kept PROVE [Promise!Next]_(Promise!tokenVars)
  BY <1>3 DEF Promise!tokenVars
<1>4. ASSUME NEW s \in Live, ends' = [ends EXCEPT ![req[s]] = @ + 1]
      PROVE  OverReqs' = OverReqs \cup {req[s]}
  BY <1>0, <1>4 DEF OverReqs, EntriesInv, ReqInv
<1>5. CASE \/ ~Moves \/ CancelIdle \/ CancelRecycled \/ push_back_idle_req
           \/ \E c \in Client : pop_front_idle_req(c)
  BY <1>3, <1>5, StutterStep
<1>6. ASSUME NEW c \in Client, push_back_wait_req(c) PROVE [Promise!Next]_(Promise!tokenVars)
  <2> DEFINE s == cslot[c]
             r == req[s]
  <2>1. s \in Slot /\ c \in Pushers /\ waitQ' = Append(waitQ, s) /\ UNCHANGED <<req, bpc, bslot, cur, ends>>
    BY <1>0, <1>6 DEF push_back_wait_req, Pushers
  <2>2. s \in Live
    BY <2>1 DEF Live
  <2>3. r \in Req /\ ends[r] = 0
    BY <1>0, <2>2 DEF EntriesInv, ReqInv
  <2>4. r \notin ToSet(PendingReqs) /\ r # HolderReq
    <3>1. s \notin ToSet(waitQ) /\ ~(bpc = "reg" /\ bslot = s) /\ (bpc # "drop" => cur # s)
      BY <2>1 DEF EntriesInv, PlaceInv, BkEntry, CurEntry
    <3>2. r \notin ToSet(PendingReqs)
      BY <2>2, <3>1, PendingLive DEF EntriesInv, ReqInv
    <3>3. r # 0
      BY <2>3 DEF Req
    <3>4. ASSUME r = HolderReq PROVE FALSE
      <4>1. bpc \notin Ending /\ cur \in Live /\ req[cur] = r
        BY <3>3, <3>4, PendingLive DEF HolderReq, Ending
      <4> QED
        BY <2>2, <3>1, <4>1 DEF EntriesInv, ReqInv, Ending
    <3> QED
      BY <3>2, <3>4
  <2>5. Values(req', waitQ') = Append(Values(req, waitQ), r)
    <3>1. Values(req, Append(waitQ, s)) = Append(Values(req, waitQ), r)
      BY <1>0, <2>1, WaitingIds
    <3>2. Values(req', waitQ') = Values(req, Append(waitQ, s))
      BY <2>1 DEF Values
    <3> QED
      BY <3>1, <3>2
  <2>6. PendingReqs' = Append(PendingReqs, r)
    <3>1. CASE bpc = "reg"
      <4>1. bslot \in Slot /\ <<req[bslot]>> \in Seq(0..MaxReq) /\ r \in 0..MaxReq
        BY <1>0, <2>1, <3>1 DEF EntriesInv, TokenInv, BkHolds
      <4>2. PendingReqs' = <<req[bslot]>> \o Append(Values(req, waitQ), r)
        BY <2>1, <2>5, <3>1 DEF PendingReqs
      <4>3. PendingReqs = <<req[bslot]>> \o Values(req, waitQ)
        BY <3>1 DEF PendingReqs
      <4> HIDE DEF r, s
      <4> QED
        BY <1>1, <4>1, <4>2, <4>3, FirstAndRest
    <3>2. CASE bpc # "reg"
      <4>1. Append(Values(req, waitQ), r) \in Seq(0..MaxReq)
        BY <1>0, <1>1, <2>1
      <4>2. PendingReqs' = <<>> \o Append(Values(req, waitQ), r)
        BY <2>1, <2>5, <3>2 DEF PendingReqs
      <4> QED
        BY <1>2, <3>2, <4>1, <4>2
    <3> QED
      BY <3>1, <3>2
  <2>7. UNCHANGED <<HolderReq, OverReqs>>
    BY <2>1 DEF HolderReq, OverReqs
  <2>8. Promise!Ask(r)
    BY <2>3, <2>4, <2>6, <2>7 DEF Promise!Ask, Promise!ToSet, ToSet, OverReqs
  <2> QED
    BY <2>3, <2>8 DEF Promise!Next
<1>7. CASE pop_front_wait_req
  <2>1. /\ waitQ # <<>> /\ waitQ' = Tail(waitQ) /\ bslot' = Head(waitQ)
        /\ bpc = "popreq" /\ bpc' = "reg" /\ UNCHANGED <<req, cur, ends>>
    BY <1>0, <1>7 DEF pop_front_wait_req
  <2>2. Values(req, waitQ) = <<req[Head(waitQ)]>> \o Values(req, Tail(waitQ))
    BY <1>0, <2>1, WaitingIds DEF Cons
  <2>3. Values(req', waitQ') = Values(req, Tail(waitQ))
    BY <2>1 DEF Values
  <2>4. PendingReqs' = <<req[Head(waitQ)]>> \o Values(req, Tail(waitQ))
    BY <2>1, <2>3 DEF PendingReqs
  <2>5. Kept
    BY <1>2, <2>1, <2>2, <2>4 DEF HolderReq, OverReqs
  <2> QED
    BY <1>3, <2>5
<1>8. CASE register_cur_cmd_req
  <2>1. /\ bpc = "reg" /\ bpc' = "acq" /\ bslot \in Slot /\ cur = None /\ cur' = bslot
        /\ UNCHANGED <<waitQ, req, ends>>
    BY <1>8 DEF register_cur_cmd_req, EntriesInv, TokenInv, BkHolds
  <2>2. PendingReqs = <<req[bslot]>> \o Values(req, waitQ) /\ req[bslot] \in 0..MaxReq
    BY <1>0, <2>1 DEF PendingReqs
  <2>3. PendingReqs' = Values(req, waitQ)
    BY <1>1, <2>1 DEF PendingReqs, Values
  <2>4. PendingReqs # <<>> /\ Head(PendingReqs) = req[bslot] /\ Tail(PendingReqs) = Values(req, waitQ)
    BY <1>1, <2>2, FirstAndRest
  <2>5. HolderReq = 0 /\ HolderReq' = req[bslot] /\ OverReqs' = OverReqs
    BY <1>0, <2>1 DEF HolderReq, OverReqs
  <2>6. Promise!Grant
    BY <2>3, <2>4, <2>5 DEF Promise!Grant
  <2> QED
    BY <2>6 DEF Promise!Next
<1>9. CASE deregister_cur_cmd_req
  <2>1. UNCHANGED <<waitQ, req, cur>> /\ bpc = "dereg" /\ bpc' # "reg"
    BY <1>9 DEF deregister_cur_cmd_req, TypeOK, BkType, EntriesInv, TokenInv
  <2>2. UNCHANGED PendingReqs
    BY <2>1 DEF PendingReqs, Values
  <2>3. CASE cur = None
    <3>1. Kept
      BY <1>9, <2>1, <2>2, <2>3 DEF deregister_cur_cmd_req, HolderReq, OverReqs
    <3> QED
      BY <1>3, <3>1
  <2>4. CASE cur # None
    <3>1. cur \in Live
      BY <1>9, <2>4, LiveMoves DEF EntriesInv
    <3>2. HolderReq = req[cur] /\ HolderReq' = 0 /\ ends' = [ends EXCEPT ![req[cur]] = @ + 1]
      BY <1>9, <2>1, <2>4 DEF deregister_cur_cmd_req, HolderReq
    <3>3. req[cur] # 0
      BY <1>0, <3>1 DEF EntriesInv, ReqInv
    <3>4. OverReqs' = OverReqs \cup {HolderReq}
      BY <1>4, <3>1, <3>2
    <3>5. Promise!Release
      BY <2>2, <3>2, <3>3, <3>4 DEF Promise!Release
    <3> QED
      BY <3>5 DEF Promise!Next
  <2> QED
    BY <2>3, <2>4
<1>10. ASSUME NEW i \in 1..Len(waitQ), waitQ' = RemoveAt(waitQ, i), waitQ[i] \in Live,
              ends' = [ends EXCEPT ![req[waitQ[i]]] = @ + 1], req' = req,
              bpc # "reg", bpc' # "reg", HolderReq' = HolderReq
       PROVE  [Promise!Next]_(Promise!tokenVars)
  <2>1. PendingReqs = Values(req, waitQ) /\ i \in DOMAIN PendingReqs /\ PendingReqs[i] = req[waitQ[i]]
    BY <1>0, <1>2, <1>10 DEF Values
  <2>2. Values(req, RemoveAt(waitQ, i)) = RemoveAt(PendingReqs, i)
    BY <1>0, <1>10, <2>1, WaitingIds
  <2>3. Values(req', waitQ') = RemoveAt(PendingReqs, i)
    BY <1>10, <2>2 DEF Values
  <2>4. RemoveAt(PendingReqs, i) \in Seq(0..MaxReq)
    BY <1>1, <1>10, <2>1, RemoveAtProps
  <2>5. PendingReqs' = RemoveAt(PendingReqs, i)
    BY <1>10, <2>3, <2>4 DEF PendingReqs
  <2>6. OverReqs' = OverReqs \cup {PendingReqs[i]}
    BY <1>4, <1>10, <2>1
  <2>7. Promise!Withdraw(i)
    BY <1>10, <2>5, <2>6 DEF Promise!Withdraw, Promise!RemoveAt, RemoveAt
  <2> QED
    BY <2>1, <2>7 DEF Promise!Next
<1>11. CASE CancelWaiting
  <2> DEFINE s == bnode[2]
  <2>1. bpc = "handle" /\ bpc' \in {"cxlidle", "oops"} /\ UNCHANGED <<req, cur>>
    BY <1>11 DEF CancelWaiting
  <2>2. UNCHANGED HolderReq
    BY <2>1 DEF HolderReq
  <2>3. CASE s \in ToSet(waitQ)
    <3>1. PICK i \in DOMAIN waitQ : waitQ[i] = s /\ waitQ' = RemoveAt(waitQ, i)
      BY <1>11, <2>3 DEF CancelWaiting, pq_del_node
    <3>2. s \in Live /\ ends' = [ends EXCEPT ![req[s]] = @ + 1]
      BY <1>11, <2>3, LiveMoves DEF CancelWaiting, EntriesInv
    <3>3. i \in 1..Len(waitQ)
      BY <1>0
    <3> QED
      BY <1>10, <2>1, <2>2, <3>1, <3>2, <3>3
  <2>4. CASE s \notin ToSet(waitQ)
    <3>1. UNCHANGED <<waitQ, ends>>
      BY <1>11, <2>4 DEF CancelWaiting
    <3>2. Kept
      BY <2>1, <2>2, <3>1 DEF PendingReqs, Values, OverReqs
    <3> QED
      BY <1>3, <3>2
  <2> QED
    BY <2>3, <2>4
<1>12. CASE ClearPop
  <2>1. bpc = "clrpop" /\ bpc' \in {"clrreq", "clrpop"} /\ UNCHANGED <<req, cur>>
    BY <1>12 DEF ClearPop
  <2>2. UNCHANGED HolderReq
    BY <2>1 DEF HolderReq
  <2>3. CASE ~(Len(waitQ) <= skew)
    <3>1. waitQ # <<>> /\ waitQ' = Tail(waitQ) /\ ends' = [ends EXCEPT ![req[Head(waitQ)]] = @ + 1]
      BY <1>0, <1>12, <2>3 DEF ClearPop
    <3>2. Head(waitQ) \in Live
      BY <1>12, <2>3, LiveMoves DEF EntriesInv
    <3>3. 1 \in 1..Len(waitQ) /\ Head(waitQ) = waitQ[1] /\ Tail(waitQ) = RemoveAt(waitQ, 1)
      BY <1>0, <3>1, TailRemoves
    <3> QED
      BY <1>10, <2>1, <2>2, <3>1, <3>2, <3>3
  <2>4. CASE Len(waitQ) <= skew
    <3>1. UNCHANGED <<waitQ, ends>>
      BY <1>0, <1>12, <2>4 DEF ClearPop
    <3>2. Kept
      BY <2>1, <2>2, <3>1 DEF PendingReqs, Values, OverReqs
    <3> QED
      BY <1>3, <3>2
  <2> QED
    BY <2>3, <2>4
<1> QED
  BY <1>5, <1>6, <1>7, <1>8, <1>9, <1>11, <1>12 DEF Moves

(* The dispatcher keeps the promise of FgToken for any number of entries,  *)
(* callers and requests: one holder at a time, granted in the order in     *)
(* which the requests were linked, and what is over stays over.            *)
THEOREM ImplementsFgToken == Spec => KeepsPromise
<1>1. Init => Promise!Init
  <2> SUFFICES ASSUME Init PROVE Promise!Init
    OBVIOUS
  <2>1. waitQ = <<>> /\ bpc = "wait" /\ cur = None /\ \A r \in Req : ends[r] = 0
    BY DEF Init
  <2>2. Values(req, waitQ) = <<>>
    BY <2>1 DEF Values
  <2>3. PendingReqs = <<>> /\ HolderReq = 0 /\ OverReqs = {}
    BY <2>1, <2>2 DEF PendingReqs, HolderReq, OverReqs
  <2> QED
    BY <2>3 DEF Promise!Init
<1>2. EntriesInv /\ EntriesInv' /\ [Next]_vars => [Promise!Next]_(Promise!tokenVars)
  BY PromiseStep
<1> QED
  BY <1>1, <1>2, EntriesInit, EntriesStep, PTL DEF Spec, KeepsPromise, Promise!Spec
=============================================================================
