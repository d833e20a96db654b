-------------------------- MODULE WfpEventsProofs --------------------------
(***************************************************************************)
(* The boxed Sender of WfpEvents is never used after it is freed and never *)
(* leaked, for any number of workers and events.                           *)
(***************************************************************************)
EXTENDS WfpEvents, TLAPS

(* Where the thread is says whether the Sender exists and callbacks run.   *)
InUse == {"subscribed", "open", "receiving", "unsubscribing"}

ContextInv ==
  /\ context \in BOOLEAN
  /\ subscribed \in BOOLEAN
  /\ FreedOnce
  /\ subscribed \/ Busy => pc \in InUse
  /\ pc # "none" => engine

(* A worker enters a callback only while the engine holds a subscription,  *)
(* and one step changes one worker.                                        *)
LEMMA BusyStep ==
  ASSUME [Next]_vars
  PROVE  Busy' => Busy \/ subscribed
PROOF
  <1> SUFFICES ASSUME NEW w \in Worker, callback'[w] # 0, ~subscribed
               PROVE  callback[w] # 0
    BY DEF Busy
  <1>1. CASE UNCHANGED callback
    BY <1>1
  <1>2. ASSUME NEW v \in Worker, Send(v) PROVE callback[w] # 0
    BY <1>2 DEF Send
  <1>3. ~\E v \in Worker : Raise(v)
    BY DEF Raise
  <1> QED
    BY <1>1, <1>2, <1>3
       DEF Next, vars, User, NewStep, DropStep, SessionLost, OpenEngine, EngineGone,
           New, Subscribe, SubscribeOk, SubscribeErr, TryRecv, RecvCall, RecvOk,
           DropCall, Unsubscribe, UnsubscribeReturn, FreeContext, DropFields

(* With a client that keeps its engine and calls that do not fail, every   *)
(* step preserves the invariant: drop leaves `unsubscribing` only when     *)
(* nothing can call back any more.                                         *)
LEMMA ContextStep ==
  ASSUME Careless = {}, Faults = {}, ContextInv, [Next]_vars
  PROVE  ContextInv'
PROOF
  <1> USE DEF ContextInv, FreedOnce, InUse
  <1>1. Busy' => Busy \/ subscribed
    BY BusyStep
  <1>2. CASE SessionLost
    BY <1>1, <1>2 DEF SessionLost
  <1>3. CASE OpenEngine
    BY <1>1, <1>3 DEF OpenEngine
  <1>4. CASE EngineGone
    <2>1. pc = "none" /\ subscribed = FALSE /\ ~Busy /\ ~context
      BY <1>4 DEF EngineGone
    <2>2. subscribed' = FALSE
      BY <1>4, <2>1 DEF EngineGone
    <2>3. ~Busy'
      BY <1>1, <2>1
    <2>4. pc' = "none" /\ ~context' /\ context' \in BOOLEAN
      BY <1>4, <2>1 DEF EngineGone
    <2> QED BY <2>2, <2>3, <2>4
  <1>5. CASE New
    <2>1. ~subscribed /\ ~Busy /\ ~Busy'
      BY <1>1, <1>5 DEF New
    <2> QED BY <1>5, <2>1 DEF New
  <1>6. CASE Subscribe
    BY <1>1, <1>6 DEF Subscribe
  <1>7. CASE SubscribeOk
    BY <1>1, <1>7 DEF SubscribeOk
  <1>8. CASE SubscribeErr
    <2>1. ~subscribed /\ ~Busy /\ ~Busy'
      BY <1>1, <1>8 DEF SubscribeErr
    <2> QED BY <1>8, <2>1 DEF SubscribeErr
  <1>9. CASE TryRecv \/ RecvCall \/ RecvOk
    BY <1>1, <1>9 DEF TryRecv, RecvCall, RecvOk
  <1>10. CASE DropCall \/ Unsubscribe
    BY <1>1, <1>10 DEF DropCall, Unsubscribe
  <1>11. CASE UnsubscribeReturn
    <2>1. ~subscribed /\ ~Busy /\ ~Busy'
      BY <1>1, <1>11 DEF UnsubscribeReturn
    <2> QED BY <1>11, <2>1 DEF UnsubscribeReturn
  <1>12. CASE FreeContext
    <2>1. ~subscribed /\ ~Busy /\ ~Busy'
      BY <1>1, <1>12 DEF FreeContext
    <2> QED BY <1>12, <2>1 DEF FreeContext
  <1>13. CASE DropFields
    <2>1. ~subscribed /\ ~Busy /\ ~Busy'
      BY <1>1, <1>13 DEF DropFields
    <2> QED BY <1>13, <2>1 DEF DropFields
  <1>14. ASSUME NEW w \in Worker, Raise(w) \/ Send(w) PROVE ContextInv'
    <2>1. subscribed \/ Busy
      BY <1>14 DEF Raise, Send, Busy
    <2> QED BY <1>1, <1>14, <2>1 DEF Raise, Send
  <1>15. CASE UNCHANGED vars
    BY <1>1, <1>15 DEF vars
  <1> QED
    BY <1>2, <1>3, <1>4, <1>5, <1>6, <1>7, <1>8, <1>9, <1>10, <1>11, <1>12, <1>13,
       <1>14, <1>15 DEF Next, User, NewStep, DropStep

(* Before the first subscription there is no Sender and nobody to use it.  *)
LEMMA ContextInit == Init => ContextInv
PROOF BY DEF Init, ContextInv, FreedOnce, Busy, InUse

(* No callback, running or still to come, and no blocked recv ever meets a *)
(* freed Sender.                                                           *)
THEOREM ContextSafe ==
  ASSUME Careless = {}, Faults = {}
  PROVE  Spec => []NoUseAfterFree
PROOF
  <1>1. ContextInv /\ [Next]_vars => ContextInv'
    BY ContextStep
  <1>2. ContextInv => NoUseAfterFree
    BY DEF ContextInv, NoUseAfterFree, FreedOnce, InUse
  <1> QED BY <1>1, <1>2, ContextInit, PTL DEF Spec

(* The Sender that `new` leaks exists exactly as long as the subscription, *)
(* whatever the client does and whatever fails.                            *)
THEOREM ContextFreed == Spec => []FreedOnce
PROOF
  <1>1. Init => FreedOnce
    BY DEF Init, FreedOnce
  <1>2. FreedOnce /\ [Next]_vars => FreedOnce'
    <2> SUFFICES ASSUME FreedOnce, [Next]_vars PROVE FreedOnce'
      OBVIOUS
    <2> USE DEF FreedOnce
    <2>1. CASE UNCHANGED <<pc, context>>
      BY <2>1
    <2>2. CASE New \/ Subscribe \/ SubscribeOk \/ SubscribeErr
      BY <2>2 DEF New, Subscribe, SubscribeOk, SubscribeErr
    <2>3. CASE RecvCall \/ RecvOk \/ DropCall
      BY <2>3 DEF RecvCall, RecvOk, DropCall
    <2>4. CASE UnsubscribeReturn \/ FreeContext \/ DropFields
      BY <2>4 DEF UnsubscribeReturn, FreeContext, DropFields
    <2> QED
      BY <2>1, <2>2, <2>3, <2>4
         DEF Next, vars, User, NewStep, DropStep, SessionLost, OpenEngine, EngineGone,
             TryRecv, Unsubscribe, Raise, Send
  <1> QED BY <1>1, <1>2, PTL DEF Spec

============================================================================
