---------------------------- MODULE WfpSession ----------------------------
(***************************************************************************)
(* The client side of windows-wfp: WfpEngine (engine.rs), WfpTransaction   *)
(* (transaction.rs), provider and sublayer registration and                *)
(* initialize_wfp (provider.rs), and the calls by which FilterBuilder adds *)
(* and deletes filters (filter_builder.rs), used by several sessions of    *)
(* the same or of different processes against one Base Filtering Engine.   *)
(*                                                                         *)
(* WfpEngine is Send but not Sync, so the calls made on one engine follow  *)
(* each other; calls on different engines interleave, one Fwpm* call per   *)
(* step.  A call that fails and leaves both sides as they were is a        *)
(* stuttering step and has no action.                                      *)
(***************************************************************************)
EXTENDS WfpKernel

CONSTANTS
  Faulty,         (* sessions whose Fwpm* calls may fail for no visible reason *)
  DirectCallers,  (* sessions that call WfpProvider/WfpSublayer::register    *)
  Kinds           (* the session lifetimes the clients open                  *)

ASSUME SessionAssumption ==
  /\ Faulty \subseteq Session
  /\ DirectCallers \subseteq Session
  /\ Kinds \subseteq {"dynamic", "static"}

VARIABLES
  engine,     (* the WfpEngine: not there, live, or gone while BFE still    *)
              (* has its session (crash, or a close that failed)            *)
  txn,        (* a WfpTransaction that is neither committed nor dropped     *)
  pc,         (* where the session's thread is in initialize_wfp or in drop *)
  inited,     (* what the last initialize_wfp returned                      *)
  promised,   (* ids the API has reported as added and not as deleted       *)
  staged      (* the same, as it will be if the open transaction commits    *)

clientVars == <<engine, txn, pc, inited, promised, staged>>
vars == <<kernelVars, clientVars>>

InInit == {"regProvider", "regSublayer", "initCommit"}
PC     == {"idle", "initBegin", "txnDrop"} \cup InInit
Result == {"none", "ok", "begin", "other", "commit"}

TypeOK ==
  /\ KernelTypeOK
  /\ engine \in [Session -> {"none", "live", "gone"}]
  /\ txn \in [Session -> BOOLEAN]
  /\ pc \in [Session -> PC]
  /\ inited \in [Session -> Result]
  /\ promised \in [Session -> SUBSET FilterId]
  /\ staged \in [Session -> SUBSET FilterId]

Init ==
  /\ KernelInit
  /\ engine = [s \in Session |-> "none"]
  /\ txn = [s \in Session |-> FALSE]
  /\ pc = [s \in Session |-> "idle"]
  /\ inited = [s \in Session |-> "none"]
  /\ promised = [s \in Session |-> {}]
  /\ staged = [s \in Session |-> {}]

----------------------------------------------------------------------------
(* Between two calls the thread is idle with a live engine.                *)
Ready(s) == engine[s] = "live" /\ pc[s] = "idle"

(* A call on s can fail whatever its arguments: a fault, or no session.    *)
CallFails(s) == s \in Faulty \/ ~Alive(s)

(* The client of s is gone or new: nothing promised, no call in progress.  *)
Reset(s) ==
  /\ txn' = [txn EXCEPT ![s] = FALSE]
  /\ pc' = [pc EXCEPT ![s] = "idle"]
  /\ inited' = [inited EXCEPT ![s] = "none"]
  /\ promised' = [promised EXCEPT ![s] = {}]
  /\ staged' = [staged EXCEPT ![s] = {}]

----------------------------------------------------------------------------
(* WfpEngine.                                                              *)

New(s) ==
  /\ engine[s] = "none"
  /\ \E lifetime \in Kinds : FwpmEngineOpen(s, lifetime)
  /\ engine' = [engine EXCEPT ![s] = "live"]
  /\ UNCHANGED <<txn, pc, inited, promised, staged>>

(* Mutant: no Drop, the session is never closed.                           *)
DropEngineLeaks(s) ==
  /\ Ready(s)
  /\ ~txn[s]
  /\ Reset(s)
  /\ engine' = [engine EXCEPT ![s] = "none"]
  /\ UNCHANGED kernelVars

(* Drop: the transaction borrows the engine, so it is gone by now.  The    *)
(* result of FwpmEngineClose0 is thrown away: with a dead session nothing  *)
(* was there to close, after a fault the session stays behind.             *)
DropEngine(s) ==
  /\ Ready(s)
  /\ ~txn[s]
  /\ Reset(s)
  /\ \/ FwpmEngineClose(s) /\ engine' = [engine EXCEPT ![s] = "none"]
     \/ ~Alive(s) /\ engine' = [engine EXCEPT ![s] = "none"] /\ UNCHANGED kernelVars
     \/ /\ s \in Faulty /\ Alive(s)
        /\ engine' = [engine EXCEPT ![s] = "gone"]
        /\ UNCHANGED kernelVars

(* The process dies at any point; nothing is dropped.                      *)
Crash(s) ==
  /\ engine[s] = "live"
  /\ engine' = [engine EXCEPT ![s] = "gone"]
  /\ Reset(s)
  /\ UNCHANGED kernelVars

(* BFE notices that the process behind a session is gone.                  *)
Rundown(s) ==
  /\ engine[s] = "gone"
  /\ FwpmEngineClose(s) \/ (~Alive(s) /\ UNCHANGED kernelVars)
  /\ engine' = [engine EXCEPT ![s] = "none"]
  /\ UNCHANGED <<txn, pc, inited, promised, staged>>

----------------------------------------------------------------------------
(* WfpTransaction.                                                         *)

(* Mutant: the guard is built whatever FwpmTransactionBegin0 returned.     *)
BegunUnchecked(s) ==
  /\ FwpmTransactionBegin(s) \/ (holder # "none" /\ UNCHANGED kernelVars)
  /\ txn' = [txn EXCEPT ![s] = TRUE]
  /\ staged' = [staged EXCEPT ![s] = promised[s]]

(* FwpmTransactionBegin0 succeeded and the guard object exists.            *)
Begun(s) ==
  /\ FwpmTransactionBegin(s)
  /\ txn' = [txn EXCEPT ![s] = TRUE]
  /\ staged' = [staged EXCEPT ![s] = promised[s]]

Begin(s) ==
  /\ Ready(s)
  /\ ~txn[s]
  /\ Begun(s)
  /\ UNCHANGED <<engine, pc, inited, promised>>

(* commit(self): on success the guard is disarmed, on failure it is        *)
(* dropped with `committed` still false.                                   *)
Committed(s) ==
  /\ FwpmTransactionCommit(s)
  /\ txn' = [txn EXCEPT ![s] = FALSE]
  /\ promised' = [promised EXCEPT ![s] = staged[s]]

(* Mutant: commit returns Ok whatever FwpmTransactionCommit0 returned.     *)
CommitUnchecked(s) ==
  /\ CallFails(s)
  /\ (holder = s /\ CommitRejected(s)) \/ (holder # s /\ UNCHANGED kernelVars)
  /\ pc' = [pc EXCEPT ![s] = "idle"]
  /\ txn' = [txn EXCEPT ![s] = FALSE]
  /\ promised' = [promised EXCEPT ![s] = staged[s]]

CommitFailed(s) ==
  /\ CallFails(s)
  /\ (holder = s /\ CommitRejected(s)) \/ (holder # s /\ UNCHANGED kernelVars)
  /\ pc' = [pc EXCEPT ![s] = "txnDrop"]
  /\ UNCHANGED <<txn, promised>>

Commit(s) ==
  /\ Ready(s)
  /\ txn[s]
  /\ (Committed(s) /\ UNCHANGED pc) \/ CommitFailed(s)
  /\ UNCHANGED <<engine, inited, staged>>

(* rollback(self): a failed abort leaves the guard to Drop, which aborts   *)
(* a second time.                                                          *)
Rollback(s) ==
  /\ Ready(s)
  /\ txn[s]
  /\ \/ /\ FwpmTransactionAbort(s)
        /\ txn' = [txn EXCEPT ![s] = FALSE]
        /\ UNCHANGED pc
     \/ /\ CallFails(s)
        /\ pc' = [pc EXCEPT ![s] = "txnDrop"]
        /\ UNCHANGED <<kernelVars, txn>>
  /\ UNCHANGED <<engine, inited, promised, staged>>

(* Drop of a guard that is still armed, at the end of its scope or on the  *)
(* way out of a failed call: abort, and ignore what the abort says.        *)
Dropped(s) ==
  /\ txn[s]
  /\ \/ FwpmTransactionAbort(s)
     \/ (CallFails(s) \/ holder # s) /\ UNCHANGED kernelVars
  /\ txn' = [txn EXCEPT ![s] = FALSE]

DropTxn(s) ==
  /\ engine[s] = "live"
  /\ pc[s] \in {"idle", "txnDrop"}
  /\ Dropped(s)
  /\ pc' = [pc EXCEPT ![s] = "idle"]
  /\ UNCHANGED <<engine, inited, promised, staged>>

----------------------------------------------------------------------------
(* Registration and initialize_wfp.                                        *)

(* FWP_E_ALREADY_EXISTS counts as success.                                 *)
RegisterOk(s, k) ==
  \/ FwpmObjectAdd(s, k)
  \/ Alive(s) /\ Unlocked(s) /\ Exists(s, k) /\ UNCHANGED kernelVars

(* Mutant: an object that exists is an error.                              *)
RegisterErrStrict(s, k) ==
  /\ CallFails(s) \/ Exists(s, k) \/ ~Associable(s, k)
  /\ UNCHANGED kernelVars

RegisterErr(s, k) ==
  /\ CallFails(s) \/ (~Exists(s, k) /\ ~Associable(s, k))
  /\ UNCHANGED kernelVars

(* WfpProvider::register or WfpSublayer::register outside initialize_wfp.  *)
Register(s, k) ==
  /\ s \in DirectCallers
  /\ Ready(s)
  /\ RegisterOk(s, k)
  /\ UNCHANGED clientVars

(* Mutant: a failed registration does not keep the other from committing.  *)
InitRegisterGoesOn(s, k, here, next) ==
  /\ pc[s] = here
  /\ RegisterOk(s, k) \/ RegisterErr(s, k)
  /\ pc' = [pc EXCEPT ![s] = next]
  /\ UNCHANGED <<engine, txn, inited, promised, staged>>

(* Inside it: go on to `next`, or take the `?` that drops the guard.       *)
InitRegister(s, k, here, next) ==
  /\ pc[s] = here
  /\ \/ RegisterOk(s, k) /\ pc' = [pc EXCEPT ![s] = next] /\ UNCHANGED inited
     \/ /\ RegisterErr(s, k)
        /\ pc' = [pc EXCEPT ![s] = "txnDrop"]
        /\ inited' = [inited EXCEPT ![s] = "other"]
  /\ UNCHANGED <<engine, txn, promised, staged>>

InitCall(s) ==
  /\ Ready(s)
  /\ pc' = [pc EXCEPT ![s] = "initBegin"]
  /\ inited' = [inited EXCEPT ![s] = "none"]
  /\ UNCHANGED <<kernelVars, engine, txn, promised, staged>>

(* Mutant: the wait for another transaction never times out.               *)
BeginRefusedOnFault(s) == CallFails(s)

(* begin fails on a fault, on a transaction already open on this session,  *)
(* and when the wait for another session's transaction times out.          *)
BeginRefused(s) == CallFails(s) \/ holder # "none"

InitBegin(s) ==
  /\ pc[s] = "initBegin"
  /\ \/ /\ Begun(s)
        /\ pc' = [pc EXCEPT ![s] = "regProvider"]
        /\ UNCHANGED inited
     \/ /\ BeginRefused(s)
        /\ pc' = [pc EXCEPT ![s] = "idle"]
        /\ inited' = [inited EXCEPT ![s] = "begin"]
        /\ UNCHANGED <<kernelVars, txn, staged>>
  /\ UNCHANGED <<engine, promised>>

(* Mutant: the sublayer is registered first.                               *)
InitProviderSwapped(s) == InitRegister(s, "sublayer", "regProvider", "regSublayer")

InitProvider(s) == InitRegister(s, "provider", "regProvider", "regSublayer")

InitSublayer(s) == InitRegister(s, "sublayer", "regSublayer", "initCommit")

(* Mutant: the guard is forgotten instead of committed.                    *)
InitCommitForgets(s) ==
  /\ pc[s] = "initCommit"
  /\ txn' = [txn EXCEPT ![s] = FALSE]
  /\ pc' = [pc EXCEPT ![s] = "idle"]
  /\ inited' = [inited EXCEPT ![s] = "ok"]
  /\ UNCHANGED <<kernelVars, engine, promised, staged>>

InitCommit(s) ==
  /\ pc[s] = "initCommit"
  /\ \/ /\ Committed(s)
        /\ pc' = [pc EXCEPT ![s] = "idle"]
        /\ inited' = [inited EXCEPT ![s] = "ok"]
     \/ CommitFailed(s) /\ inited' = [inited EXCEPT ![s] = "commit"]
  /\ UNCHANGED <<engine, staged>>

----------------------------------------------------------------------------
(* FilterBuilder.                                                          *)

(* The ids a client holds: what it has been promised, or will be.          *)
Held(s) == IF txn[s] THEN staged[s] ELSE promised[s]

Hold(s, ids) ==
  IF txn[s]
    THEN staged' = [staged EXCEPT ![s] = ids] /\ UNCHANGED promised
    ELSE promised' = [promised EXCEPT ![s] = ids] /\ UNCHANGED staged

(* Mutant: the id is returned whatever FwpmFilterAdd0 returned.            *)
AddFilterUnchecked(s) ==
  /\ Ready(s)
  /\ \E f \in FilterId \ usedIds :
       /\ FwpmFilterAdd(s, f) \/ (CallFails(s) /\ UNCHANGED kernelVars)
       /\ Hold(s, Held(s) \cup {f})
  /\ UNCHANGED <<engine, txn, pc, inited>>

AddFilter(s) ==
  /\ Ready(s)
  /\ \E f \in FilterId :
       /\ FwpmFilterAdd(s, f)
       /\ Hold(s, Held(s) \cup {f})
  /\ UNCHANGED <<engine, txn, pc, inited>>

(* Mutant: Ok, whatever FwpmFilterDeleteById0 returned.                    *)
DeleteFilterUnchecked(s) ==
  /\ Ready(s)
  /\ \E f \in Held(s) :
       /\ FwpmFilterDeleteById(s, f) \/ (CallFails(s) /\ UNCHANGED kernelVars)
       /\ Hold(s, Held(s) \ {f})
  /\ UNCHANGED <<engine, txn, pc, inited>>

(* A client deletes only filters it added itself.                          *)
DeleteFilter(s) ==
  /\ Ready(s)
  /\ \E f \in Held(s) :
       /\ FwpmFilterDeleteById(s, f)
       /\ Hold(s, Held(s) \ {f})
  /\ UNCHANGED <<engine, txn, pc, inited>>

----------------------------------------------------------------------------
(* What a call in progress does next; the caller has no say in it.         *)
CallStep(s) ==
  \/ InitBegin(s) \/ InitProvider(s) \/ InitSublayer(s) \/ InitCommit(s)
  \/ (pc[s] = "txnDrop" /\ DropTxn(s))

Client(s) ==
  \/ New(s) \/ DropEngine(s) \/ Crash(s) \/ Rundown(s)
  \/ Begin(s) \/ Commit(s) \/ Rollback(s) \/ DropTxn(s)
  \/ \E k \in {"provider", "sublayer"} : Register(s, k)
  \/ InitCall(s) \/ InitBegin(s) \/ InitProvider(s) \/ InitSublayer(s) \/ InitCommit(s)
  \/ AddFilter(s) \/ DeleteFilter(s)

Service == (BfeStop \/ BfeStart) /\ UNCHANGED clientVars

Next == Service \/ \E s \in Session : Client(s)

(* The thread inside a library call keeps running and every Fwpm* call     *)
(* returns, a wait for the transaction lock at the latest when it times    *)
(* out (txnWaitTimeoutInMSec is 0, the default timeout, not INFINITE).     *)
(* The RPC runtime notices the death of a client process.  Nothing obliges *)
(* a client to start a call, or the service to stop; and a session left    *)
(* behind by a failed close lasts as long as its process likes.            *)
Fairness ==
  /\ \A s \in Session : WF_vars(CallStep(s))
  /\ \A s \in Session \ Faulty : WF_vars(Rundown(s))

Spec == Init /\ [][Next]_vars
FairSpec == Spec /\ Fairness

----------------------------------------------------------------------------
(* Properties.                                                             *)

(* A transaction left open by an abort that failed inside drop: adds still *)
(* return Ok, but go to a transaction nobody can commit.                   *)
Orphan(s) == holder = s /\ ~txn[s]

(* Return values are promises: on a live session of the crate's default    *)
(* kind the filters enforced for it are exactly the ids add_filter has     *)
(* returned outside a transaction, or in one whose commit returned Ok, and *)
(* delete_filter has not taken back; a rolled-back, dropped or failed      *)
(* transaction leaves no trace.  On a static session none of them is lost. *)
EnforcedAsPromised ==
  \A s \in Session : engine[s] = "live" /\ Alive(s) /\ ~Orphan(s) =>
    IF sess[s] = "dynamic"
      THEN \A f \in FilterId : f \in promised[s] <=> store[f] = s
      ELSE \A f \in promised[s] : store[f] = "static"

(* The guard and the lock agree: while a WfpTransaction exists on a live   *)
(* session and is not being dropped, the engine's one write transaction is *)
(* its own (so no add made under it is applied on the spot), and a session *)
(* without faults never keeps that lock after its guard is gone.           *)
TxnOwnership ==
  \A s \in Session : engine[s] = "live" /\ Alive(s) =>
    /\ txn[s] /\ pc[s] # "txnDrop" => holder = s
    /\ s \notin Faulty /\ holder = s => txn[s]

(* A transaction whose guard is gone and whose abort failed can hold up    *)
(* the others, but never comes into force: neither a begin that is tried   *)
(* again, nor initialize_wfp, nor anything else gets hold of it, and       *)
(* nothing that is enforced changes, until its session ends.               *)
OrphansStay ==
  \A s \in Session :
    Orphan(s) => ~Alive(s)' \/ (Orphan(s)' /\ UNCHANGED store)

OrphanInert == [][OrphansStay]_vars

(* A WfpEngine whose session has died (is_valid() does not tell) is never  *)
(* answered Ok again, also after the service has come back: no filter is   *)
(* promised or staged, no transaction begun or committed, nothing          *)
(* registered by initialize_wfp, not even in the middle of a transaction.  *)
NoOkWhenDead ==
  \A s \in Session :
    engine[s] = "live" /\ ~Alive(s) =>
      /\ promised'[s] \subseteq promised[s] /\ staged'[s] \subseteq staged[s]
      /\ txn'[s] => txn[s]
      /\ inited'[s] = "ok" => inited[s] = "ok"
      /\ engine'[s] = "live" => ~Alive(s)'

DeadSilent == [][NoOkWhenDead]_vars

(* RAII: once the WfpEngine is gone and its process noticed, nothing it    *)
(* owned is enforced, and no lock of it blocks the others.                 *)
ClosedOnDrop ==
  \A s \in Session :
    /\ engine[s] = "none" => ~Alive(s) /\ holder # s
    /\ \A k \in Key : store[k] = s => sess[s] = "dynamic"

(* initialize_wfp registers provider and sublayer in one transaction: as   *)
(* long as nobody registers them one by one, no interleaving, failure,     *)
(* crash or restart leaves one without the other, or leaves them with      *)
(* different owners, one of which could go before the other.               *)
RegisteredTogether ==
  DirectCallers = {} => store["provider"] = store["sublayer"]

(* initialize_wfp is idempotent: on a session without faults that still    *)
(* lives, registering or committing never fails, whoever registered first, *)
(* and with whatever lifetime.                                             *)
IdempotentRegistration ==
  DirectCallers = {} =>
    \A s \in Session \ Faulty :
      inited[s] \in {"other", "commit"} => ~Alive(s)

(* initialize_wfp always comes back, also when another client sits on the  *)
(* write lock or the service is gone.                                      *)
InitReturns == \A s \in Session : pc[s] # "idle" ~> pc[s] = "idle"

(* Whatever goes wrong between its begin and its commit, a call of         *)
(* initialize_wfp on a session without faults gives the write lock back.   *)
LockFreed ==
  \A s \in Session \ Faulty :
    pc[s] \in InInit \cup {"txnDrop"} /\ holder = s ~> holder # s

(* The strengthening of the invariants above that every step preserves.    *)

(* Where the thread can be, given what it has.                             *)
Control ==
  \A s \in Session :
    /\ pc[s] \in InInit \cup {"txnDrop"} => txn[s]
    /\ engine[s] # "live" => pc[s] = "idle" /\ ~txn[s] /\ promised[s] = {}
    /\ engine[s] = "none" => ~Alive(s)

(* The lock and every owned object belong to a session that exists.        *)
Owners ==
  /\ holder # "none" => Alive(holder)
  /\ \A k \in Key, s \in Session :
       /\ store[k] = s => sess[s] = "dynamic"
       /\ holder # "none" /\ working[k] = s => sess[s] = "dynamic"

(* The ids a client has been told, now or if its transaction commits.      *)
Told(s) == promised[s] \cup (IF txn[s] THEN staged[s] ELSE {})

(* An id that is known or in use has been handed out, to one client only.  *)
Ids ==
  /\ \A s \in Session : Told(s) \subseteq usedIds
  /\ \A f \in FilterId \ usedIds :
       store[f] = "absent" /\ (holder # "none" => working[f] = "absent")
  /\ \A s, t \in Session : s # t => Told(s) \cap Told(t) = {}

(* A transaction changes nothing of the sessions it does not belong to.    *)
Frame ==
  holder # "none" =>
    \A s \in Session \ {holder} :
      /\ \A k \in Key : working[k] = s <=> store[k] = s
      /\ \A f \in promised[s] : working[f] = store[f]

(* What the open transaction will enforce is what its client was told.     *)
StagedAsPromised ==
  \A s \in Session : engine[s] = "live" /\ txn[s] /\ holder = s =>
    IF sess[s] = "dynamic"
      THEN \A f \in FilterId : f \in staged[s] <=> working[f] = s
      ELSE \A f \in staged[s] : working[f] = "static"

(* A lone provider is seen only by the transaction that has just added it  *)
(* and is about to add the sublayer, which it does not keep from it.       *)
StagedTogether ==
  \A s \in Session : holder = s =>
    /\ txn[s] /\ pc[s] \notin {"regSublayer", "txnDrop"} =>
         working["provider"] = working["sublayer"]
    /\ pc[s] = "regSublayer" =>
         /\ working["provider"] # "absent"
         /\ \/ working["sublayer"] = working["provider"]
            \/ working["sublayer"] = "absent" /\ working["provider"] = OwnerOf(s)

(* A new engine starts with no result of initialize_wfp.                   *)
FreshResult == \A s \in Session : engine[s] # "live" => inited[s] = "none"

(* The invariant behind the two about initialize_wfp.                      *)
RegistrationInv ==
  DirectCallers = {} =>
    RegisteredTogether /\ StagedTogether /\ FreshResult /\ IdempotentRegistration

SessionInv ==
  /\ TypeOK /\ Control /\ Owners /\ Ids /\ Frame
  /\ StagedAsPromised /\ EnforcedAsPromised /\ TxnOwnership

----------------------------------------------------------------------------
(* The abstract specification: the rules in force are the filters that the *)
(* engine enforces for the client, the draft is what the client has been   *)
(* told inside a transaction whose guard it still holds.                   *)

Rules(s) ==
  {f \in FilterId :
     \/ sess[s] = "dynamic" /\ store[f] = s
     \/ sess[s] = "static" /\ f \in promised[s] /\ store[f] = "static"}

Guarded == holder \in Session /\ txn[holder]

enforced == [s \in Session |-> Rules(s)]
author   == IF Guarded THEN holder ELSE "none"
drafted  == IF Guarded THEN staged[holder] ELSE {}

Atomic == INSTANCE AtomicRules WITH
  Owner <- Session, Id <- FilterId,
  rules <- enforced, writer <- author, draft <- drafted, issued <- usedIds

(* Whatever fails, the enforced filters change as AtomicRules says: one    *)
(* client's at a time, a transaction's at once, to exactly the ids that    *)
(* its calls returned.                                                     *)
ImplementsAtomicRules == Atomic!Spec

----------------------------------------------------------------------------
(* What the documentation says and the code does not do.                   *)

(* "initialize_wfp(&engine)?; // Now ready to add filters": as long as the *)
(* session lives, a filter finds the provider and sublayer it refers to.   *)
ReadyToAddFilters ==
  \A s \in Session \ Faulty :
    inited[s] = "ok" /\ Alive(s) => Exists(s, "provider") /\ Exists(s, "sublayer")

============================================================================
