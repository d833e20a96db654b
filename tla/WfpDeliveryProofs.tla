------------------------- MODULE WfpDeliveryProofs -------------------------
(***************************************************************************)
(* What a subscription delivers, for any number of workers and events: no  *)
(* event lost or doubled, and the events of one worker in order, provided  *)
(* the client keeps its engine and FwpmNetEventUnsubscribe0 does not fail. *)
(***************************************************************************)
EXTENDS WfpEventsProofs

(* The bound on the events also bounds their numbers.                      *)
TypeInv == TypeOK /\ raised <= MaxEvents

(* A worker in the callback delivers the last event it was given.          *)
Delivering(w) ==
  /\ callback[w] \in 1..raised
  /\ worker[callback[w]] = w
  /\ \A e \in 1..raised : worker[e] = w => e <= callback[w]

CallbackInv == \A w \in Worker : callback[w] # 0 => Delivering(w)

(* Only events that were raised reach the stream.                          *)
StreamRaised == \A i \in DOMAIN Stream : Stream[i] \in 1..raised

DeliveryInv ==
  /\ ContextInv
  /\ TypeInv
  /\ CallbackInv
  /\ StreamRaised
  /\ NothingLost
  /\ WorkerOrder

----------------------------------------------------------------------------
(* Sequences.                                                              *)

(* Taking the head of the channel leaves the stream as it is.              *)
LEMMA TakeStream ==
  ASSUME NEW S, NEW r \in Seq(S), NEW c \in Seq(S), c # <<>>
  PROVE  Append(r, Head(c)) \o Tail(c) = r \o c
PROOF
  <1> DEFINE t == Append(r, Head(c)) \o Tail(c)
             u == r \o c
  <1>1. Head(c) \in S /\ Tail(c) \in Seq(S) /\ Len(Tail(c)) = Len(c) - 1 /\ Len(c) \in Nat \ {0}
    OBVIOUS
  <1>2. Append(r, Head(c)) \in Seq(S) /\ Len(Append(r, Head(c))) = Len(r) + 1
    BY <1>1
  <1>3. t \in Seq(S) /\ u \in Seq(S)
    BY <1>1, <1>2
  <1>4. Len(t) = Len(r) + Len(c) /\ Len(u) = Len(r) + Len(c)
    BY <1>1, <1>2
  <1>5. ASSUME NEW i \in 1..(Len(r) + Len(c)) PROVE t[i] = u[i]
    <2>1. CASE i <= Len(r)
      BY <2>1, <1>1, <1>2
    <2>2. CASE i = Len(r) + 1
      BY <2>2, <1>1, <1>2
    <2>3. CASE i > Len(r) + 1
      BY <2>3, <1>1, <1>2
    <2> QED BY <2>1, <2>2, <2>3
  <1> HIDE DEF t, u
  <1>6. t = u
    BY <1>3, <1>4, <1>5
  <1> QED BY <1>6 DEF t, u

(* Sending appends to the stream.                                          *)
LEMMA SendStream ==
  ASSUME NEW S, NEW r \in Seq(S), NEW c \in Seq(S), NEW e \in S
  PROVE  r \o Append(c, e) = Append(r \o c, e)
PROOF
  <1>1. r \o Append(c, e) \in Seq(S) /\ Append(r \o c, e) \in Seq(S)
    OBVIOUS
  <1>2. Len(r \o Append(c, e)) = Len(r) + Len(c) + 1
        /\ Len(Append(r \o c, e)) = Len(r) + Len(c) + 1
    OBVIOUS
  <1>3. ASSUME NEW i \in 1..(Len(r) + Len(c) + 1)
        PROVE  (r \o Append(c, e))[i] = Append(r \o c, e)[i]
    OBVIOUS
  <1> QED BY <1>1, <1>2, <1>3

(* Appending is a concatenation.                                           *)
LEMMA AppendConcat ==
  ASSUME NEW S, NEW s \in Seq(S), NEW e \in S
  PROVE  <<e>> \in Seq(S) /\ Append(s, e) = s \o <<e>>
PROOF
  <1>1. <<e>> \in Seq(S) /\ Len(<<e>>) = 1 /\ <<e>>[1] = e
    OBVIOUS
  <1>2. /\ s \o <<e>> \in Seq(S) /\ Len(s \o <<e>>) = Len(s) + 1
        /\ Append(s, e) \in Seq(S) /\ Len(Append(s, e)) = Len(s) + 1
    BY <1>1
  <1>3. ASSUME NEW i \in 1..(Len(s) + 1) PROVE Append(s, e)[i] = (s \o <<e>>)[i]
    BY <1>1
  <1> QED BY <1>1, <1>2, <1>3

(* A new element keeps a sequence injective and joins its range.           *)
LEMMA AppendNew ==
  ASSUME NEW S, NEW s \in Seq(S), NEW e \in S, e \notin Range(s), IsInjective(s)
  PROVE  IsInjective(Append(s, e)) /\ Range(Append(s, e)) = Range(s) \cup {e}
PROOF
  <1>1. DOMAIN Append(s, e) = 1..(Len(s) + 1) /\ DOMAIN s = 1..Len(s) /\ Len(s) \in Nat
    OBVIOUS
  <1>2. \A i \in 1..Len(s) : Append(s, e)[i] = s[i] /\ s[i] # e
    BY DEF Range
  <1>3. Append(s, e)[Len(s) + 1] = e
    OBVIOUS
  <1>4. IsInjective(Append(s, e))
    BY <1>1, <1>2, <1>3 DEF IsInjective
  <1>5. Range(Append(s, e)) = Range(s) \cup {e}
    BY <1>1, <1>2, <1>3 DEF Range
  <1> QED BY <1>4, <1>5

----------------------------------------------------------------------------
(* Types.                                                                  *)

(* Every step keeps the variables in their types, whatever fails.          *)
LEMMA TypeStep == TypeInv /\ [Next]_vars => TypeInv'
PROOF
  <1> SUFFICES ASSUME TypeInv, [Next]_vars PROVE TypeInv'
    OBVIOUS
  <1> USE EventsAssumption DEF TypeInv, TypeOK, PC, raised
  <1>0. <<>> \in Seq(Event) /\ <<>> \in Seq(Worker) /\ Len(<<>>) = 0
    OBVIOUS
  <1>1. CASE SessionLost \/ OpenEngine \/ EngineGone
    BY <1>1 DEF SessionLost, OpenEngine, EngineGone
  <1>2. CASE New
    BY <1>0, <1>2 DEF New
  <1>3. CASE NewStep
    BY <1>0, <1>3 DEF NewStep, Subscribe, SubscribeOk, SubscribeErr
  <1>4. CASE TryRecv \/ RecvOk
    <2>1. Take
      BY <1>4 DEF TryRecv, RecvOk
    <2>2. channel \in Seq(Event) /\ channel # <<>> /\ received \in Seq(Event)
      BY <2>1 DEF Take
    <2>3. Head(channel) \in Event /\ Tail(channel) \in Seq(Event)
      BY <2>2
    <2>4. channel' \in Seq(Event) /\ received' \in Seq(Event)
      BY <2>1, <2>2, <2>3 DEF Take
    <2> QED BY <1>4, <2>4 DEF TryRecv, RecvOk
  <1>5. CASE RecvCall \/ DropCall
    BY <1>5 DEF RecvCall, DropCall
  <1>6. CASE DropStep
    BY <1>0, <1>6 DEF DropStep, Unsubscribe, UnsubscribeReturn, FreeContext, DropFields
  <1>7. ASSUME NEW w \in Worker, Raise(w) PROVE TypeInv'
    <2>1. worker' \in Seq(Worker) /\ Len(worker') = Len(worker) + 1
      BY <1>7 DEF Raise
    <2>2. Len(worker') \in Event
      BY <1>7, <2>1 DEF Raise, Event
    <2>3. callback' \in [Worker -> Event \cup {0}]
      BY <1>7, <2>2 DEF Raise
    <2> QED BY <1>7, <2>1, <2>2, <2>3 DEF Raise, Event
  <1>8. ASSUME NEW w \in Worker, Send(w) PROVE TypeInv'
    <2>1. callback[w] \in Event /\ channel \in Seq(Event)
      BY <1>8 DEF Send
    <2>2. channel' \in Seq(Event)
      BY <1>8, <2>1 DEF Send
    <2>3. callback' \in [Worker -> Event \cup {0}]
      BY <1>8 DEF Send
    <2> QED BY <1>8, <2>2, <2>3 DEF Send
  <1>9. CASE UNCHANGED vars
    BY <1>9 DEF vars
  <1> QED
    BY <1>1, <1>2, <1>3, <1>4, <1>5, <1>6, <1>7, <1>8, <1>9 DEF Next, User

(* Nothing is there yet.                                                   *)
LEMMA TypeInit == Init => TypeInv
PROOF
  <1> SUFFICES ASSUME Init PROVE TypeInv
    OBVIOUS
  <1>1. <<>> \in Seq(Event) /\ <<>> \in Seq(Worker) /\ Len(<<>>) = 0
    OBVIOUS
  <1>2. TypeOK
    BY <1>1 DEF Init, TypeOK, PC
  <1>3. raised <= MaxEvents
    BY <1>1, EventsAssumption DEF Init, raised
  <1> QED BY <1>2, <1>3 DEF TypeInv

(* The variables keep their types, for any workers, bound and fault model. *)
THEOREM TypeCorrect == Spec => []TypeOK
PROOF
  <1>1. TypeInv => TypeOK
    BY DEF TypeInv
  <1> QED BY <1>1, TypeInit, TypeStep, PTL DEF Spec

----------------------------------------------------------------------------
(* Delivery.                                                               *)

Delivery == CallbackInv /\ StreamRaised /\ NothingLost /\ WorkerOrder

(* Steps that leave events and workers alone and do not subscribe.         *)
LEMMA QuietStep ==
  ASSUME Delivery, UNCHANGED <<channel, callback, worker, received>>,
         pc \in {"none", "dropping"} => pc' \in {"none", "dropping"}
  PROVE  Delivery'
BY DEF Delivery, CallbackInv, Delivering, StreamRaised, NothingLost, WorkerOrder, Stream, raised

(* The channel goes with the subscription.                                 *)
LEMMA DiscardStep ==
  ASSUME TypeInv, Delivery, channel' = <<>>, UNCHANGED <<callback, worker, received>>,
         pc' = "none"
  PROVE  Delivery'
PROOF
  <1>1. received \in Seq(Event) /\ channel \in Seq(Event)
    BY DEF TypeInv, TypeOK
  <1>2. Stream' = received
    BY <1>1 DEF Stream
  <1>3. DOMAIN received \subseteq DOMAIN Stream
        /\ \A i \in DOMAIN received : received[i] = Stream[i]
    BY <1>1 DEF Stream
  <1>4. CallbackInv'
    BY DEF Delivery, CallbackInv, Delivering, raised
  <1>5. StreamRaised'
    BY <1>2, <1>3 DEF Delivery, StreamRaised, raised
  <1>6. WorkerOrder'
    BY <1>2, <1>3 DEF Delivery, WorkerOrder
  <1>7. NothingLost'
    BY DEF NothingLost
  <1> QED BY <1>4, <1>5, <1>6, <1>7 DEF Delivery

(* A new subscription starts with no event, and no worker has an old one.  *)
LEMMA NewDelivers ==
  ASSUME TypeInv, ~Busy, New
  PROVE  Delivery'
PROOF
  <1>1. Stream' = <<>> /\ raised' = 0
    BY DEF New, Stream, raised
  <1>2. \A w \in Worker : callback'[w] = 0
    BY DEF New, Busy
  <1>3. DOMAIN callback' = Worker
    BY DEF New, TypeInv, TypeOK
  <1>4. CallbackInv' /\ StreamRaised' /\ WorkerOrder'
    BY <1>1, <1>2 DEF CallbackInv, StreamRaised, WorkerOrder
  <1>5. Range(Stream') = {} /\ IsInjective(Stream')
    BY <1>1 DEF Range, IsInjective
  <1>6. Range(callback') \subseteq {0}
    BY <1>2, <1>3 DEF Range
  <1>7. NothingLost'
    BY <1>1, <1>5, <1>6 DEF NothingLost
  <1> QED BY <1>4, <1>7 DEF Delivery

(* Receiving moves an event within the stream.                             *)
LEMMA TakeDelivers ==
  ASSUME TypeInv, Delivery, Take, UNCHANGED <<callback, worker>>,
         pc \notin {"none", "dropping"}
  PROVE  Delivery'
PROOF
  <1>1. Stream' = Stream
    BY TakeStream DEF Take, Stream, TypeInv, TypeOK
  <1>2. raised' = raised
    BY DEF raised
  <1> QED
    BY <1>1, <1>2
       DEF Delivery, CallbackInv, Delivering, StreamRaised, NothingLost, WorkerOrder

(* Raising gives the next number to one worker.                            *)
LEMMA RaiseDelivers ==
  ASSUME TypeInv, Delivery, pc \notin {"none", "dropping"},
         NEW w \in Worker, Raise(w)
  PROVE  Delivery'
PROOF
  <1>1. /\ worker \in Seq(Worker) /\ callback \in [Worker -> Event \cup {0}]
        /\ raised \in Nat
    BY DEF TypeInv, TypeOK, raised
  <1>2. raised' = raised + 1 /\ Stream' = Stream /\ pc' = pc
    BY <1>1 DEF Raise, raised, Stream
  <1>3. \A e \in 1..raised : worker'[e] = worker[e]
    BY <1>1 DEF Raise, raised
  <1>4. worker'[raised + 1] = w
    BY <1>1 DEF Raise, raised
  <1>5. callback' = [callback EXCEPT ![w] = raised + 1] /\ callback[w] = 0
    BY <1>2 DEF Raise
  <1>6. CallbackInv'
    <2> SUFFICES ASSUME NEW v \in Worker, callback'[v] # 0 PROVE Delivering(v)'
      BY DEF CallbackInv
    <2>1. CASE v = w
      BY <2>1, <1>1, <1>2, <1>4, <1>5 DEF Delivering
    <2>2. CASE v # w
      <3>1. callback'[v] = callback[v] /\ Delivering(v)
        BY <2>2, <1>1, <1>5 DEF Delivery, CallbackInv
      <3> QED BY <2>2, <3>1, <1>1, <1>2, <1>3, <1>4 DEF Delivering
    <2> QED BY <2>1, <2>2
  <1>7. StreamRaised'
    BY <1>1, <1>2 DEF Delivery, StreamRaised
  <1>8. WorkerOrder'
    BY <1>1, <1>2, <1>3 DEF Delivery, StreamRaised, WorkerOrder
  <1>9. NothingLost'
    <2>1. /\ IsInjective(Stream)
          /\ Range(Stream) \cap Range(callback) = {}
          /\ Range(Stream) \cup Range(callback) \cup {0} = 0..raised
      BY DEF Delivery, NothingLost
    <2>2. Range(callback') \cup {0} = Range(callback) \cup {0, raised + 1}
      BY <1>1, <1>5 DEF Range
    <2>3. Range(Stream) \subseteq 1..raised
      BY DEF Delivery, StreamRaised, Range
    <2>4. raised + 1 \notin Range(Stream) /\ 0 \notin Range(Stream)
      BY <2>3, <1>1
    <2>5. Range(Stream) \cap Range(callback') = {}
      BY <2>1, <2>2, <2>4
    <2>6. Range(Stream) \cup Range(callback') \cup {0} = 0..(raised + 1)
      <3>1. 0..(raised + 1) = (0..raised) \cup {raised + 1}
        BY <1>1
      <3> QED BY <2>1, <2>2, <3>1
    <2> QED BY <1>2, <2>1, <2>5, <2>6 DEF NothingLost
  <1> QED BY <1>6, <1>7, <1>8, <1>9 DEF Delivery

(* Sending moves an event from the hands of its worker, which holds no     *)
(* other and is given none meanwhile, to the end of the stream.            *)
LEMMA SendDelivers ==
  ASSUME TypeInv, Delivery, pc \notin {"none", "dropping"},
         NEW w \in Worker, Send(w)
  PROVE  Delivery'
PROOF
  <1> DEFINE e == callback[w]
  <1>1. /\ worker \in Seq(Worker) /\ callback \in [Worker -> Event \cup {0}]
        /\ channel \in Seq(Event) /\ received \in Seq(Event)
        /\ raised \in Nat
    BY DEF TypeInv, TypeOK, raised
  <1>2. e \in Event /\ e # 0 /\ Delivering(w)
    BY <1>1 DEF Send, Delivery, CallbackInv
  <1>3. UNCHANGED <<worker, received, pc>> /\ raised' = raised
    BY DEF Send, raised
  <1>4. Stream \in Seq(Event)
    BY <1>1 DEF Stream
  <1>5. Stream' = Append(Stream, e)
    BY <1>1, <1>2, SendStream DEF Send, Stream
  <1>6. callback' = [callback EXCEPT ![w] = 0]
    BY DEF Send
  <1> HIDE DEF e
  <1>7. CallbackInv'
    <2> SUFFICES ASSUME NEW v \in Worker, callback'[v] # 0 PROVE Delivering(v)'
      BY DEF CallbackInv
    <2>1. callback'[v] = callback[v] /\ Delivering(v)
      BY <1>1, <1>6 DEF Delivery, CallbackInv
    <2> QED BY <2>1, <1>3 DEF Delivering
  <1>8. /\ DOMAIN Stream = 1..Len(Stream) /\ Len(Stream) \in Nat
        /\ DOMAIN Stream' = 1..(Len(Stream) + 1)
        /\ \A i \in 1..Len(Stream) : Stream'[i] = Stream[i]
        /\ Stream'[Len(Stream) + 1] = e
    BY <1>2, <1>4, <1>5
  <1>9. e \in 1..raised /\ worker[e] = w /\ \A x \in 1..raised : worker[x] = w => x <= e
    BY <1>2 DEF Delivering, e
  <1>10. StreamRaised'
    BY <1>3, <1>8, <1>9 DEF Delivery, StreamRaised
  <1>11. /\ IsInjective(Stream)
         /\ Range(Stream) \cap Range(callback) = {}
         /\ Range(Stream) \cup Range(callback) \cup {0} = 0..raised
    BY DEF Delivery, NothingLost
  <1>12. e \in Range(callback)
    BY <1>1 DEF Range, e
  <1>13. IsInjective(Stream') /\ Range(Stream') = Range(Stream) \cup {e}
    BY <1>2, <1>4, <1>5, <1>11, <1>12, AppendNew
  <1>14. \A v \in Worker \ {w} : callback[v] # e
    BY <1>2, <1>9 DEF Delivery, CallbackInv, Delivering, e
  <1>15. Range(callback') \cup {0} = (Range(callback) \ {e}) \cup {0}
    <2>1. \A v \in Worker \ {w} : callback'[v] = callback[v]
      BY <1>1, <1>6
    <2>2. callback'[w] = 0 /\ callback[w] = e /\ DOMAIN callback' = Worker
          /\ DOMAIN callback = Worker
      BY <1>1, <1>6 DEF e
    <2> QED BY <2>1, <2>2, <1>14 DEF Range
  <1>16. Range(Stream') \cap Range(callback') = {}
    <2>1. 0 \notin Range(Stream')
      BY <1>8, <1>10 DEF StreamRaised, Range
    <2> QED BY <2>1, <1>11, <1>13, <1>15
  <1>17. Range(Stream') \cup Range(callback') \cup {0} = 0..raised
    BY <1>11, <1>12, <1>13, <1>15, <1>2
  <1>18. NothingLost'
    BY <1>3, <1>13, <1>16, <1>17 DEF NothingLost
  <1>19. WorkerOrder'
    <2> SUFFICES ASSUME NEW i \in DOMAIN Stream', NEW j \in DOMAIN Stream', i < j,
                        worker[Stream'[i]] = worker[Stream'[j]]
                 PROVE  Stream'[i] < Stream'[j]
      BY <1>3 DEF WorkerOrder
    <2>1. i \in 1..Len(Stream) /\ Stream'[i] = Stream[i]
      BY <1>8
    <2>2. CASE j \in 1..Len(Stream)
      BY <2>1, <2>2, <1>8 DEF Delivery, WorkerOrder
    <2>3. CASE j = Len(Stream) + 1
      <3>1. Stream[i] \in 1..raised /\ Stream[i] \in Range(Stream)
        BY <2>1, <1>8 DEF Delivery, StreamRaised, Range
      <3>2. Stream[i] # e
        BY <3>1, <1>11, <1>12
      <3>3. Stream[i] <= e
        BY <2>1, <2>3, <3>1, <1>8, <1>9
      <3> QED BY <2>1, <2>3, <3>1, <3>2, <3>3, <1>8, <1>9
    <2> QED BY <2>2, <2>3, <1>8
  <1> QED BY <1>7, <1>10, <1>18, <1>19 DEF Delivery

(* With a client that keeps its engine and calls that do not fail, a       *)
(* callback runs only inside a subscription, so every step delivers.       *)
LEMMA DeliveryStep ==
  ASSUME Careless = {}, Faults = {}, DeliveryInv, [Next]_vars
  PROVE  DeliveryInv'
PROOF
  <1>1. ContextInv /\ TypeInv /\ Delivery
    BY DEF DeliveryInv, Delivery
  <1>2. ContextInv'
    BY <1>1, ContextStep
  <1>3. TypeInv'
    BY <1>1, TypeStep
  <1>4. Delivery'
    <2>1. CASE SessionLost \/ OpenEngine \/ EngineGone
      BY <1>1, <2>1, QuietStep DEF SessionLost, OpenEngine, EngineGone
    <2>2. CASE New
      <3>1. ~Busy
        BY <1>1, <2>2 DEF New, ContextInv, InUse
      <3> QED BY <1>1, <2>2, <3>1, NewDelivers
    <2>3. CASE Subscribe \/ SubscribeOk \/ RecvCall \/ DropCall
      BY <1>1, <2>3, QuietStep DEF Subscribe, SubscribeOk, RecvCall, DropCall
    <2>4. CASE SubscribeErr \/ DropFields
      BY <1>1, <2>4, DiscardStep DEF SubscribeErr, DropFields
    <2>5. CASE TryRecv \/ RecvOk
      BY <1>1, <2>5, TakeDelivers DEF TryRecv, RecvOk
    <2>6. CASE Unsubscribe \/ UnsubscribeReturn \/ FreeContext
      BY <1>1, <2>6, QuietStep DEF Unsubscribe, UnsubscribeReturn, FreeContext
    <2>7. ASSUME NEW w \in Worker, Raise(w) PROVE Delivery'
      <3>1. pc \notin {"none", "dropping"}
        BY <1>1, <2>7 DEF Raise, ContextInv, InUse
      <3> QED BY <1>1, <2>7, <3>1, RaiseDelivers
    <2>8. ASSUME NEW w \in Worker, Send(w) PROVE Delivery'
      <3>1. pc \notin {"none", "dropping"}
        BY <1>1, <2>8 DEF Send, Busy, ContextInv, InUse
      <3> QED BY <1>1, <2>8, <3>1, SendDelivers
    <2>9. CASE UNCHANGED vars
      BY <1>1, <2>9, QuietStep DEF vars
    <2> QED
      BY <2>1, <2>2, <2>3, <2>4, <2>5, <2>6, <2>7, <2>8, <2>9
         DEF Next, User, NewStep, DropStep
  <1> QED BY <1>2, <1>3, <1>4 DEF DeliveryInv, Delivery

(* Nothing has been raised yet.                                            *)
LEMMA DeliveryInit == Init => DeliveryInv
PROOF
  <1> SUFFICES ASSUME Init PROVE DeliveryInv
    OBVIOUS
  <1>1. ContextInv
    BY ContextInit
  <1>2. TypeInv
    BY TypeInit
  <1>3. Stream = <<>> /\ \A w \in Worker : callback[w] = 0
    BY DEF Init, Stream
  <1>4. CallbackInv /\ StreamRaised /\ WorkerOrder
    BY <1>3 DEF CallbackInv, StreamRaised, WorkerOrder
  <1>5. NothingLost
    BY DEF Init, NothingLost
  <1> QED BY <1>1, <1>2, <1>4, <1>5 DEF DeliveryInv

(* Every event raised since `new` is, exactly once, received, in the       *)
(* channel or in the hands of a worker.                                    *)
THEOREM EveryEventOnce ==
  ASSUME Careless = {}, Faults = {}
  PROVE  Spec => []NothingLost
PROOF
  <1>1. DeliveryInv /\ [Next]_vars => DeliveryInv'
    BY DeliveryStep
  <1>2. DeliveryInv => NothingLost
    BY DEF DeliveryInv
  <1> QED BY <1>1, <1>2, DeliveryInit, PTL DEF Spec

(* However the workers interleave with drop and with each other, the       *)
(* events of one worker arrive in the order in which they were raised.     *)
THEOREM InOrder ==
  ASSUME Careless = {}, Faults = {}
  PROVE  Spec => []WorkerOrder
PROOF
  <1>1. DeliveryInv /\ [Next]_vars => DeliveryInv'
    BY DeliveryStep
  <1>2. DeliveryInv => WorkerOrder
    BY DEF DeliveryInv
  <1> QED BY <1>1, <1>2, DeliveryInit, PTL DEF Spec

----------------------------------------------------------------------------
(* The safety half of Delivered: an event that was sent keeps its place.   *)
Ordered ==
  pc # "none" /\ pc' # "none" =>
    /\ \E sent \in Seq(Event) : Stream' = Stream \o sent
    /\ \E taken \in Seq(Event) : received' = received \o taken

(* While a subscription lives, nothing is put in front of an event in the  *)
(* stream or taken out before it, and what was received stays received:    *)
(* the i-th event sent is the i-th that the consumer takes.  It does not   *)
(* matter whether the client is orderly or a call fails.                   *)
THEOREM FirstInFirstOut == Spec => [][Ordered]_vars
PROOF
  <1>1. ASSUME TypeInv, [Next]_vars PROVE Ordered
    <2> SUFFICES ASSUME pc # "none", pc' # "none" PROVE Ordered
      BY DEF Ordered
    <2>1. received \in Seq(Event) /\ channel \in Seq(Event) /\ Stream \in Seq(Event)
      BY <1>1 DEF TypeInv, TypeOK, Stream
    <2>2. <<>> \in Seq(Event) /\ Stream \o <<>> = Stream /\ received \o <<>> = received
      BY <2>1
    <2>3. CASE UNCHANGED <<channel, received>>
      BY <2>2, <2>3 DEF Stream, Ordered
    <2>4. CASE TryRecv \/ RecvOk
      <3>1. Take
        BY <2>4 DEF TryRecv, RecvOk
      <3>2. Stream' = Stream
        BY <2>1, <3>1, TakeStream DEF Take, Stream
      <3>3. <<Head(channel)>> \in Seq(Event) /\ received' = received \o <<Head(channel)>>
        BY <2>1, <3>1 DEF Take
      <3> QED BY <2>2, <3>2, <3>3 DEF Ordered
    <2>5. ASSUME NEW w \in Worker, Send(w) PROVE Ordered
      <3>1. callback[w] \in Event /\ received' = received /\ channel' = Append(channel, callback[w])
        BY <1>1, <2>5 DEF Send, TypeInv, TypeOK
      <3>2. Stream' = Append(Stream, callback[w])
        BY <2>1, <3>1, SendStream DEF Stream
      <3>3. <<callback[w]>> \in Seq(Event) /\ Stream' = Stream \o <<callback[w]>>
        BY <2>1, <3>1, <3>2, AppendConcat
      <3> QED BY <2>2, <3>1, <3>3 DEF Ordered
    <2>6. CASE UNCHANGED vars
      BY <2>3, <2>6 DEF vars
    <2>7. CASE SessionLost \/ \E w \in Worker : Raise(w)
      BY <2>3, <2>7 DEF SessionLost, Raise
    <2>8. CASE OpenEngine \/ EngineGone \/ RecvCall \/ DropCall
      BY <2>3, <2>8 DEF OpenEngine, EngineGone, RecvCall, DropCall
    <2>9. CASE NewStep
      BY <2>3, <2>9 DEF NewStep, Subscribe, SubscribeOk, SubscribeErr
    <2>10. CASE DropStep
      BY <2>3, <2>10 DEF DropStep, Unsubscribe, UnsubscribeReturn, FreeContext, DropFields
    <2>11. ~New
      BY DEF New
    <2> QED
      BY <1>1, <2>4, <2>5, <2>6, <2>7, <2>8, <2>9, <2>10, <2>11 DEF Next, User
  <1> QED BY <1>1, TypeInit, TypeStep, PTL DEF Spec

============================================================================
