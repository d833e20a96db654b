----------------------------- MODULE WfpEvents -----------------------------
(***************************************************************************)
(* WfpEventSubscription (events.rs): one user thread that subscribes,      *)
(* receives and drops the subscription, the worker threads on which the    *)
(* filtering engine runs event_callback, and the mpsc channel between      *)
(* them.  The callback reaches the channel through a raw pointer to a      *)
(* boxed Sender that `new` leaks and `drop` frees; `drop` reaches the      *)
(* session through a raw pointer to a WfpEngine that nothing keeps alive.  *)
(*                                                                         *)
(* Events are numbered from 1 in the order in which the engine raises them *)
(* for the current subscription; an event is all its data here.            *)
(***************************************************************************)
EXTENDS Naturals, Sequences, SequencesExt

CONSTANTS
  Worker,      (* the engine's callback threads                            *)
  MaxEvents,   (* bound: events raised for one subscription                *)
  Careless,    (* "engineGone": the client drops or moves its WfpEngine    *)
               (* while the subscription exists, which rustc accepts       *)
  Faults       (* "unsubscribe": FwpmNetEventUnsubscribe0 may fail         *)

ASSUME EventsAssumption ==
  /\ MaxEvents \in Nat
  /\ Careless \subseteq {"engineGone"}
  /\ Faults \subseteq {"unsubscribe"}

Event == 1..MaxEvents

VARIABLES
  engine,      (* the WfpEngine is where the subscription's pointer points *)
  pc,          (* what the user thread does with the subscription          *)
  subscribed,  (* the engine may start callbacks                           *)
  context,     (* the boxed Sender exists                                  *)
  channel,     (* events sent and not yet received                         *)
  callback,    (* the event a worker is delivering, 0 if none              *)
  worker,      (* the thread each event raised so far was given to         *)
  received     (* the events the user has received, in order               *)

vars == <<engine, pc, subscribed, context, channel, callback, worker, received>>

(* Inside new, before and after the subscription takes effect; the object  *)
(* in use; inside drop.                                                    *)
PC == {"none", "subscribing", "subscribed", "open", "receiving",
       "unsubscribing", "freeing", "dropping"}

TypeOK ==
  /\ engine \in BOOLEAN
  /\ pc \in PC
  /\ subscribed \in BOOLEAN
  /\ context \in BOOLEAN
  /\ channel \in Seq(Event)
  /\ callback \in [Worker -> Event \cup {0}]
  /\ worker \in Seq(Worker)
  /\ received \in Seq(Event)

Init ==
  /\ engine = FALSE
  /\ pc = "none"
  /\ subscribed = FALSE
  /\ context = FALSE
  /\ channel = <<>>
  /\ callback = [w \in Worker |-> 0]
  /\ worker = <<>>
  /\ received = <<>>

----------------------------------------------------------------------------
(* The engine object and its service.                                      *)

raised == Len(worker)
Busy   == \E w \in Worker : callback[w] # 0

OpenEngine ==
  /\ ~engine
  /\ pc = "none"
  /\ engine' = TRUE
  /\ UNCHANGED <<pc, subscribed, context, channel, callback, worker, received>>

(* The client drops or moves the engine: orderly when no subscription is   *)
(* left, otherwise careless: it moves the engine, or keeps both in one     *)
(* struct with the engine declared first, whose fields Rust drops in the   *)
(* order of declaration.  Dropping the engine may end the subscription,    *)
(* moving it does not.                                                     *)
EngineGone ==
  /\ engine
  /\ pc = "none" \/ ("engineGone" \in Careless /\ pc = "open")
  /\ engine' = FALSE
  /\ subscribed' \in {subscribed, FALSE}
  /\ UNCHANGED <<pc, context, channel, callback, worker, received>>

(* The service stops or the session breaks: no callback starts any more.   *)
SessionLost ==
  /\ subscribed
  /\ subscribed' = FALSE
  /\ UNCHANGED <<engine, pc, context, channel, callback, worker, received>>

----------------------------------------------------------------------------
(* WfpEventSubscription::new.                                              *)

(* The channel and the boxed Sender, before the call into the engine.      *)
New ==
  /\ engine
  /\ pc = "none"
  /\ pc' = "subscribing"
  /\ context' = TRUE
  /\ channel' = <<>>
  /\ worker' = <<>>
  /\ received' = <<>>
  /\ UNCHANGED <<engine, subscribed, callback>>

(* FwpmNetEventSubscribe0 takes effect: callbacks may run before it returns. *)
Subscribe ==
  /\ pc = "subscribing"
  /\ subscribed' = TRUE
  /\ pc' = "subscribed"
  /\ UNCHANGED <<engine, context, channel, callback, worker, received>>

SubscribeOk ==
  /\ pc = "subscribed"
  /\ pc' = "open"
  /\ UNCHANGED <<engine, subscribed, context, channel, callback, worker, received>>

(* Mutant: the early return forgets the leaked Sender.                     *)
SubscribeErrLeaks ==
  /\ pc = "subscribing"
  /\ pc' = "none"
  /\ channel' = <<>>
  /\ UNCHANGED <<engine, subscribed, context, callback, worker, received>>

(* It fails without having taken effect: free the Sender, drop the channel. *)
SubscribeErr ==
  /\ pc = "subscribing"
  /\ pc' = "none"
  /\ context' = FALSE
  /\ channel' = <<>>
  /\ UNCHANGED <<engine, subscribed, callback, worker, received>>

----------------------------------------------------------------------------
(* event_callback, on a worker thread.                                     *)

(* The engine raises the next event and a worker enters the callback.      *)
Raise(w) ==
  /\ subscribed
  /\ callback[w] = 0
  /\ raised < MaxEvents
  /\ worker' = Append(worker, w)
  /\ callback' = [callback EXCEPT ![w] = raised']
  /\ UNCHANGED <<engine, pc, subscribed, context, channel, received>>

(* Mutants of Send: the slot is cleared before its event is sent; a full   *)
(* channel drops the event; the newest event goes first; a full channel    *)
(* blocks the worker; only a user who is not inside a call gets the event. *)
Delivers(w, queue) ==
  /\ callback[w] # 0
  /\ callback' = [callback EXCEPT ![w] = 0]
  /\ channel' = queue
  /\ UNCHANGED <<engine, pc, subscribed, context, worker, received>>

SendCleared(w)  == Delivers(w, Append(channel, 0))
SendLossy(w)    == Delivers(w, IF channel = <<>> THEN Append(channel, callback[w]) ELSE channel)
SendFirst(w)    == Delivers(w, <<callback[w]>> \o channel)
SendBlocks(w)   == channel = <<>> /\ Delivers(w, Append(channel, callback[w]))
SendWhenOpen(w) == Delivers(w, IF pc = "open" THEN Append(channel, callback[w]) ELSE channel)

(* parse_network_event always yields an event; send never blocks, and an   *)
(* error (the receiver is gone) is ignored.                                *)
Send(w) ==
  /\ callback[w] # 0
  /\ channel' = IF pc # "none" THEN Append(channel, callback[w]) ELSE channel
  /\ callback' = [callback EXCEPT ![w] = 0]
  /\ UNCHANGED <<engine, pc, subscribed, context, worker, received>>

----------------------------------------------------------------------------
(* The consumer: try_recv, recv, and iter, which is recv in a loop.        *)

Take ==
  /\ channel # <<>>
  /\ received' = Append(received, Head(channel))
  /\ channel' = Tail(channel)

TryRecv ==
  /\ pc = "open"
  /\ Take
  /\ UNCHANGED <<engine, pc, subscribed, context, callback, worker>>

RecvCall ==
  /\ pc = "open"
  /\ pc' = "receiving"
  /\ UNCHANGED <<engine, subscribed, context, channel, callback, worker, received>>

RecvOk ==
  /\ pc = "receiving"
  /\ Take
  /\ pc' = "open"
  /\ UNCHANGED <<engine, subscribed, context, callback, worker>>

----------------------------------------------------------------------------
(* Drop.                                                                   *)

(* Mutant: the context is freed without unsubscribing first.               *)
DropCallFrees ==
  /\ pc = "open"
  /\ pc' = "freeing"
  /\ UNCHANGED <<engine, subscribed, context, channel, callback, worker, received>>

DropCall ==
  /\ pc = "open"
  /\ pc' = "unsubscribing"
  /\ UNCHANGED <<engine, subscribed, context, channel, callback, worker, received>>

(* FwpmNetEventUnsubscribe0 stops new callbacks ...                        *)
Unsubscribe ==
  /\ pc = "unsubscribing"
  /\ subscribed
  /\ subscribed' = FALSE
  /\ UNCHANGED <<engine, pc, context, channel, callback, worker, received>>

(* ... and returns when none is running.  Called with a handle read from   *)
(* an engine that is gone, or hit by a fault, it may do neither.  Its      *)
(* result is thrown away.                                                  *)
UnsubscribeReturn ==
  /\ pc = "unsubscribing"
  /\ (~subscribed /\ ~Busy) \/ ~engine \/ "unsubscribe" \in Faults
  /\ pc' = "freeing"
  /\ UNCHANGED <<engine, subscribed, context, channel, callback, worker, received>>

(* drop(Box::from_raw(sender_context)).                                    *)
FreeContext ==
  /\ pc = "freeing"
  /\ context' = FALSE
  /\ pc' = "dropping"
  /\ UNCHANGED <<engine, subscribed, channel, callback, worker, received>>

(* The fields are dropped, the receiver with what is left in the channel.  *)
DropFields ==
  /\ pc = "dropping"
  /\ pc' = "none"
  /\ channel' = <<>>
  /\ UNCHANGED <<engine, subscribed, context, callback, worker, received>>

----------------------------------------------------------------------------
NewStep  == Subscribe \/ SubscribeOk \/ SubscribeErr
DropStep == Unsubscribe \/ UnsubscribeReturn \/ FreeContext \/ DropFields

User ==
  \/ OpenEngine \/ EngineGone \/ New \/ NewStep
  \/ TryRecv \/ RecvCall \/ RecvOk
  \/ DropCall \/ DropStep

Next == SessionLost \/ User \/ \E w \in Worker : Raise(w) \/ Send(w)

(* A callback runs to its end, and so do new and drop, which wait for      *)
(* nothing but the engine's calls and the callbacks.                       *)
Fairness ==
  /\ WF_vars(NewStep) /\ WF_vars(DropStep)
  /\ \A w \in Worker : WF_vars(Send(w))

(* The consumer loop of iter() keeps calling recv.                         *)
Consuming == WF_vars(RecvCall) /\ WF_vars(RecvOk)

Spec == Init /\ [][Next]_vars
FairSpec == Spec /\ Fairness /\ Consuming

----------------------------------------------------------------------------
(* Properties.                                                             *)

(* No callback ever reads a freed Sender, and none can still start when it *)
(* is freed, whatever the interleaving of drop with the worker threads; a  *)
(* recv in progress can therefore never see a disconnected channel.        *)
NoUseAfterFree == subscribed \/ Busy \/ pc = "receiving" => context

(* The Sender leaked by `new` is freed exactly once, on every way out.     *)
FreedOnce == context <=> pc \notin {"none", "dropping"}

(* What the user has received, followed by what is still in the channel.   *)
Stream == received \o channel

(* From `new` to the call of drop no event is lost or delivered twice, not *)
(* even one raised before `new` returned: every event raised is in the     *)
(* stream or in the hands of a worker.                                     *)
NothingLost ==
  pc \notin {"none", "dropping"} =>
    /\ IsInjective(Stream)
    /\ Range(Stream) \cap Range(callback) = {}
    /\ Range(Stream) \cup Range(callback) \cup {0} = 0..raised

(* Events handled by one worker reach the user in the order raised.        *)
WorkerOrder ==
  \A i, j \in DOMAIN Stream :
    i < j /\ worker[Stream[i]] = worker[Stream[j]] => Stream[i] < Stream[j]

(* Dropping a subscription always comes to an end.                         *)
DropReturns == pc \in {"unsubscribing", "freeing", "dropping"} ~> pc = "none"

(* A consumer that loops on recv gets every event, unless it drops the     *)
(* subscription first.                                                     *)
Delivered ==
  \A w \in Worker, e \in Event :
    callback[w] = e ~> e \in Range(received) \/ pc \in {"none", "unsubscribing"}

(* "Get an iterator over pending events": whoever takes what is pending    *)
(* comes back from the call.                                               *)
IterEnds == pc = "receiving" ~> pc = "open"

(* "callers must ensure the borrowed WfpEngine outlives this subscription  *)
(* (e.g. by declaring it after the engine in a containing struct, so it    *)
(* drops first)": the pointer that drop reads is valid.                    *)
EngineOutlives == pc = "unsubscribing" => engine

============================================================================
