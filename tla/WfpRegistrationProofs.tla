----------------------- MODULE WfpRegistrationProofs -----------------------
(***************************************************************************)
(* initialize_wfp registers the provider and the sublayer together and can *)
(* be repeated, for any sessions, faults and lifetimes, as long as nobody  *)
(* registers them one by one.                                              *)
(***************************************************************************)
EXTENDS WfpSessionProofs

Alone == DirectCallers = {}

(* The parts of RegistrationInv, without its hypothesis.                   *)
Together == RegisteredTogether /\ StagedTogether
Results  == FreshResult /\ IdempotentRegistration

(* Nothing is registered and nobody has called initialize_wfp.             *)
LEMMA RegistrationInit == Init => RegistrationInv
PROOF BY Keys DEF Init, KernelInit, RegistrationInv, RegisteredTogether,
              StagedTogether, FreshResult, IdempotentRegistration

----------------------------------------------------------------------------
(* What one step does to the two objects.                                  *)

(* A step of session s that changes neither the objects nor the lock, and  *)
(* leaves s outside initialize_wfp or where it was.                        *)
LEMMA ObjectsKept ==
  ASSUME SessionInv, Alone, Together, NEW s \in Session,
         \A k \in {"provider", "sublayer"} : store'[k] = store[k] /\ working'[k] = working[k],
         UNCHANGED <<holder, sess>>,
         \A t \in Session \ {s} : txn'[t] = txn[t] /\ pc'[t] = pc[t],
         \/ pc'[s] = "txnDrop"
         \/ pc'[s] = "idle" /\ txn'[s] = FALSE
         \/ pc[s] = "idle" /\ pc'[s] \in {"idle", "initBegin"} /\ txn'[s] = txn[s]
         \/ pc[s] = "initBegin" /\ pc'[s] = "idle" /\ txn'[s] = txn[s]
  PROVE  Together'
PROOF BY Keys DEF Alone, Together, RegisteredTogether, StagedTogether, OwnerOf

(* A step after which nobody has a transaction.                            *)
LEMMA LockReleased ==
  ASSUME Alone, store'["provider"] = store'["sublayer"], holder' = "none"
  PROVE  Together'
PROOF BY Keys DEF Alone, Together, RegisteredTogether, StagedTogether

(* The results of initialize_wfp stay true when no engine and no session   *)
(* begins, and no failure of the two kinds is returned.                    *)
LEMMA ResultsKept ==
  ASSUME SessionInv, Alone, Results,
         \A t \in Session :
           /\ inited'[t] \in {inited[t], "none", "ok", "begin"}
           /\ sess'[t] \in {sess[t], "none"}
           /\ inited'[t] = "none" \/ engine'[t] = "live"
              \/ (engine'[t] = engine[t] /\ inited'[t] = inited[t])
  PROVE  Results'
PROOF BY DEF Alone, Results, FreshResult, IdempotentRegistration, Alive

----------------------------------------------------------------------------
(* One lemma per group of actions.                                         *)

(* Opening an engine.                                                      *)
LEMMA RegistrationNew ==
  ASSUME SessionInv, Alone, Together, Results, NEW s \in Session, New(s)
  PROVE  Together' /\ Results'
PROOF
  <1> USE Keys DEF New, FwpmEngineOpen
  <1>1. holder # s
    BY DEF SessionInv, Owners, Alive
  <1>2. Together'
    BY <1>1 DEF Alone, Together, RegisteredTogether, StagedTogether, OwnerOf,
               SessionInv, TypeOK, KernelTypeOK
  <1>3. inited[s] = "none"
    BY DEF Results, FreshResult
  <1>4. Results'
    BY <1>3 DEF Results, FreshResult, IdempotentRegistration, Alive, Alone,
               SessionInv, TypeOK, KernelTypeOK
  <1> QED BY <1>2, <1>4

(* The end of a session takes both objects or none.                        *)
LEMMA RegistrationClose ==
  ASSUME SessionInv, Alone, Together, Results, NEW s \in Session,
         DropEngine(s) \/ Rundown(s) \/ Crash(s)
  PROVE  Together' /\ Results'
PROOF
  <1> USE Keys
  <1>1. CASE FwpmEngineClose(s)
    <2>1. Together'
      BY <1>1, LockReleased DEF FwpmEngineClose, Alone, Together, RegisteredTogether
    <2>2. \A t \in Session :
            /\ inited'[t] \in {inited[t], "none"}
            /\ inited'[t] = "none" \/ (engine'[t] = engine[t] /\ inited'[t] = inited[t])
      BY DEF DropEngine, Rundown, Crash, Reset, SessionInv, TypeOK, Results, FreshResult
    <2>3. \A t \in Session : sess'[t] \in {sess[t], "none"}
      BY <1>1 DEF FwpmEngineClose, SessionInv, TypeOK, KernelTypeOK
    <2> QED BY <2>1, <2>2, <2>3, ResultsKept
  <1>2. CASE UNCHANGED kernelVars
    <2>1. txn'[s] = FALSE /\ pc'[s] = "idle"
      BY DEF DropEngine, Rundown, Crash, Reset, SessionInv, TypeOK, Control
    <2>2. \A t \in Session \ {s} : txn'[t] = txn[t] /\ pc'[t] = pc[t]
      BY DEF DropEngine, Rundown, Crash, Reset, SessionInv, TypeOK
    <2>3. Together'
      BY <1>2, <2>1, <2>2, ObjectsKept DEF kernelVars
    <2>4. \A t \in Session :
            /\ inited'[t] \in {inited[t], "none"}
            /\ inited'[t] = "none" \/ (engine'[t] = engine[t] /\ inited'[t] = inited[t])
      BY DEF DropEngine, Rundown, Crash, Reset, SessionInv, TypeOK, Results, FreshResult
    <2> QED BY <1>2, <2>3, <2>4, ResultsKept DEF kernelVars
  <1> QED BY <1>1, <1>2 DEF DropEngine, Rundown, Crash

(* begin, by itself or inside initialize_wfp, copies a store that holds    *)
(* both objects or none.                                                   *)
LEMMA RegistrationBegin ==
  ASSUME SessionInv, Alone, Together, Results, NEW s \in Session,
         Begin(s) \/ InitBegin(s)
  PROVE  Together' /\ Results'
PROOF
  <1> USE Keys
  <1>1. CASE Begun(s) /\ UNCHANGED <<inited, engine>>
             /\ pc' \in {pc, [pc EXCEPT ![s] = "regProvider"]}
    <2> USE <1>1 DEF Begun, FwpmTransactionBegin
    <2>1. pc[s] \in {"idle", "initBegin"} /\ pc'[s] \in {"idle", "initBegin", "regProvider"}
      BY DEF Begin, InitBegin, Ready, SessionInv, TypeOK
    <2>2. store["provider"] = store["sublayer"]
      BY DEF Alone, Together, RegisteredTogether
    <2>3. Together'
      BY <2>1, <2>2 DEF Alone, Together, RegisteredTogether, StagedTogether
    <2>4. Results'
      BY ResultsKept
    <2> QED BY <2>3, <2>4
  <1>2. CASE UNCHANGED <<kernelVars, txn, engine>> /\ pc[s] = "initBegin"
             /\ pc' = [pc EXCEPT ![s] = "idle"]
             /\ inited' = [inited EXCEPT ![s] = "begin"]
    <2> USE <1>2 DEF kernelVars
    <2>1. pc'[s] = "idle" /\ \A t \in Session \ {s} : pc'[t] = pc[t]
      BY DEF SessionInv, TypeOK
    <2>2. Together'
      BY <2>1, ObjectsKept
    <2>3. engine[s] = "live"
      BY DEF SessionInv, Control
    <2>4. Results'
      BY <2>3, ResultsKept DEF SessionInv, TypeOK
    <2> QED BY <2>2, <2>4
  <1> QED BY <1>1, <1>2 DEF Begin, InitBegin

(* commit makes the staged objects the enforced ones; when it fails on a   *)
(* session without faults that session is dead.                            *)
LEMMA RegistrationCommit ==
  ASSUME SessionInv, Alone, Together, Results, NEW s \in Session,
         Commit(s) \/ InitCommit(s)
  PROVE  Together' /\ Results'
PROOF
  <1> USE Keys
  <1>1. engine[s] = "live" /\ engine' = engine /\ txn[s]
        /\ pc[s] \in {"idle", "initCommit"}
    BY DEF Commit, InitCommit, Ready, SessionInv, Control, InInit
  <1>2. CASE Committed(s)
    <2> USE <1>2 DEF Committed, FwpmTransactionCommit
    <2>1. working["provider"] = working["sublayer"]
      BY <1>1 DEF Together, StagedTogether
    <2>2. Together'
      BY <2>1, LockReleased
    <2>3. inited' \in {inited, [inited EXCEPT ![s] = "ok"]} \/ CommitFailed(s)
      BY DEF Commit, InitCommit
    <2>4. CASE inited' \in {inited, [inited EXCEPT ![s] = "ok"]}
      <3>1. Results'
        BY <1>1, <2>4, ResultsKept DEF SessionInv, TypeOK
      <3> QED BY <2>2, <3>1
    <2>5. CASE CommitFailed(s)
      BY <1>1, <2>5 DEF CommitFailed, SessionInv, TypeOK
    <2> QED BY <2>3, <2>4, <2>5
  <1>3. CASE CommitFailed(s)
    <2> USE <1>3 DEF CommitFailed, CommitRejected, kernelVars
    <2>1. pc'[s] = "txnDrop" /\ \A t \in Session \ {s} : pc'[t] = pc[t]
      BY DEF SessionInv, TypeOK
    <2>2. Together'
      <3>1. CASE UNCHANGED kernelVars
        BY <2>1, <3>1, ObjectsKept
      <3>2. CASE FwpmTransactionAbort(s)
        BY <3>2, LockReleased DEF FwpmTransactionAbort, Alone, Together, RegisteredTogether
      <3> QED BY <3>1, <3>2
    <2>3. sess' = sess
      BY DEF FwpmTransactionAbort
    <2>4. s \in Faulty \/ ~Alive(s)
      BY DEF CallFails
    <2>5. inited' \in {inited, [inited EXCEPT ![s] = "commit"]} \/ Committed(s)
      BY DEF Commit, InitCommit
    <2>6. CASE inited' \in {inited, [inited EXCEPT ![s] = "commit"]}
      BY <1>1, <2>2, <2>3, <2>4, <2>6
         DEF Results, FreshResult, IdempotentRegistration, Alive, Alone, SessionInv, TypeOK
    <2> QED BY <1>2, <2>5, <2>6
  <1> QED BY <1>2, <1>3 DEF Commit, InitCommit

(* rollback and the drop of a guard.                                       *)
LEMMA RegistrationAbandon ==
  ASSUME SessionInv, Alone, Together, Results, NEW s \in Session,
         Rollback(s) \/ DropTxn(s)
  PROVE  Together' /\ Results'
PROOF
  <1> USE Keys
  <1>1. UNCHANGED <<inited, engine>>
    BY DEF Rollback, DropTxn
  <1>2. CASE FwpmTransactionAbort(s)
    <2> USE <1>2 DEF FwpmTransactionAbort
    <2>1. Together'
      BY LockReleased DEF Alone, Together, RegisteredTogether
    <2>2. Results'
      BY <1>1, ResultsKept
    <2> QED BY <2>1, <2>2
  <1>3. CASE UNCHANGED kernelVars
    <2> USE <1>3 DEF kernelVars
    <2>1. pc'[s] = "txnDrop" \/ (pc'[s] = "idle" /\ txn'[s] = FALSE)
      BY DEF Rollback, DropTxn, Dropped, FwpmTransactionAbort, SessionInv, TypeOK
    <2>2. \A t \in Session \ {s} : txn'[t] = txn[t] /\ pc'[t] = pc[t]
      BY DEF Rollback, DropTxn, Dropped, SessionInv, TypeOK
    <2>3. Together'
      BY <2>1, <2>2, ObjectsKept
    <2>4. Results'
      BY <1>1, ResultsKept
    <2> QED BY <2>3, <2>4
  <1> QED BY <1>2, <1>3 DEF Rollback, DropTxn, Dropped

(* InitCall, filter calls and the rest leave the objects and results alone.*)
LEMMA RegistrationOther ==
  ASSUME SessionInv, Alone, Together, Results, NEW s \in Session,
         InitCall(s) \/ AddFilter(s) \/ DeleteFilter(s)
  PROVE  Together' /\ Results'
PROOF
  <1> USE Keys
  <1>1. UNCHANGED <<engine, txn, holder, sess>> /\ pc[s] = "idle" /\ engine[s] = "live"
    BY DEF InitCall, AddFilter, DeleteFilter, FwpmFilterAdd, FwpmFilterDeleteById,
           kernelVars, Ready
  <1>2. \A k \in {"provider", "sublayer"} : store'[k] = store[k] /\ working'[k] = working[k]
    <2>1. CASE InitCall(s)
      BY <2>1 DEF InitCall, kernelVars
    <2>2. CASE AddFilter(s)
      BY <2>2 DEF AddFilter, FwpmFilterAdd, Write, SessionInv, TypeOK, KernelTypeOK
    <2>3. CASE DeleteFilter(s)
      <3>1. PICK f \in Held(s) : FwpmFilterDeleteById(s, f)
        BY <2>3 DEF DeleteFilter
      <3>2. f \in FilterId
        BY DEF Held, SessionInv, TypeOK
      <3> QED
        BY <3>1, <3>2 DEF FwpmFilterDeleteById, Write, SessionInv, TypeOK, KernelTypeOK
    <2> QED BY <2>1, <2>2, <2>3
  <1>3. pc'[s] \in {"idle", "initBegin"} /\ \A t \in Session \ {s} : pc'[t] = pc[t]
    BY <1>1 DEF InitCall, AddFilter, DeleteFilter, SessionInv, TypeOK
  <1>4. inited' \in {inited, [inited EXCEPT ![s] = "none"]}
    BY DEF InitCall, AddFilter, DeleteFilter
  <1>5. Together'
    BY <1>1, <1>2, <1>3, ObjectsKept
  <1>6. Results'
    BY <1>1, <1>4, ResultsKept DEF SessionInv, TypeOK
  <1> QED BY <1>5, <1>6

(* The provider: added to an empty pair, or there together with its        *)
(* sublayer.  It fails only on a dead or faulty session.                   *)
LEMMA RegistrationProvider ==
  ASSUME SessionInv, Alone, Together, Results, NEW s \in Session, InitProvider(s)
  PROVE  Together' /\ Results'
PROOF
  <1> USE Keys DEF InitProvider, InitRegister
  <1>1. txn[s] /\ engine[s] = "live"
    BY DEF SessionInv, Control, InInit
  <1>2. CASE RegisterOk(s, "provider") /\ pc' = [pc EXCEPT ![s] = "regSublayer"]
             /\ UNCHANGED inited
    <2>1. holder = s /\ UNCHANGED <<holder, sess, store>>
      BY <1>1, <1>2 DEF RegisterOk, FwpmObjectAdd, Write, SessionInv, TxnOwnership, kernelVars
    <2>2. working["provider"] = working["sublayer"]
      BY <1>1, <2>1 DEF Together, StagedTogether
    <2>3. working'["sublayer"] = working["sublayer"]
          /\ \/ working["provider"] # "absent" /\ working'["provider"] = working["provider"]
             \/ working["provider"] = "absent" /\ working'["provider"] = OwnerOf(s)
      BY <1>2, <2>1 DEF RegisterOk, FwpmObjectAdd, Write, Exists, View, kernelVars,
                        SessionInv, TypeOK, KernelTypeOK
    <2>4. pc'[s] = "regSublayer" /\ OwnerOf(s)' = OwnerOf(s) /\ OwnerOf(s) # "absent"
      BY <1>2, <2>1 DEF OwnerOf, SessionInv, TypeOK
    <2>5. Together'
      BY <2>1, <2>2, <2>3, <2>4 DEF Alone, Together, RegisteredTogether, StagedTogether
    <2>6. Results'
      BY <1>2, <2>1, ResultsKept
    <2> QED BY <2>5, <2>6
  <1>3. CASE RegisterErr(s, "provider") /\ pc' = [pc EXCEPT ![s] = "txnDrop"]
             /\ inited' = [inited EXCEPT ![s] = "other"]
    <2> USE <1>3 DEF RegisterErr, kernelVars
    <2>1. pc'[s] = "txnDrop" /\ \A t \in Session \ {s} : pc'[t] = pc[t]
      BY DEF SessionInv, TypeOK
    <2>2. Together'
      BY <2>1, ObjectsKept
    <2>3. s \in Faulty \/ ~Alive(s)
      BY DEF CallFails, Associable
    <2>4. Results'
      BY <1>1, <2>3 DEF Results, FreshResult, IdempotentRegistration, Alive, Alone,
                        SessionInv, TypeOK
    <2> QED BY <2>2, <2>4
  <1> QED BY <1>2, <1>3

(* The sublayer: added with the owner of the provider, or there already.   *)
LEMMA RegistrationSublayer ==
  ASSUME SessionInv, Alone, Together, Results, NEW s \in Session, InitSublayer(s)
  PROVE  Together' /\ Results'
PROOF
  <1> USE Keys DEF InitSublayer, InitRegister
  <1>1. txn[s] /\ engine[s] = "live"
    BY DEF SessionInv, Control, InInit
  <1>2. CASE RegisterOk(s, "sublayer") /\ pc' = [pc EXCEPT ![s] = "initCommit"]
             /\ UNCHANGED inited
    <2>1. holder = s /\ UNCHANGED <<holder, sess, store>>
      BY <1>1, <1>2 DEF RegisterOk, FwpmObjectAdd, Write, SessionInv, TxnOwnership, kernelVars
    <2>2. \/ working["sublayer"] = working["provider"] /\ working["sublayer"] # "absent"
          \/ working["sublayer"] = "absent" /\ working["provider"] = OwnerOf(s)
      BY <2>1 DEF Together, StagedTogether
    <2>3. working'["provider"] = working["provider"]
          /\ \/ working["sublayer"] # "absent" /\ working'["sublayer"] = working["sublayer"]
             \/ working["sublayer"] = "absent" /\ working'["sublayer"] = OwnerOf(s)
      BY <1>2, <2>1 DEF RegisterOk, FwpmObjectAdd, Write, Exists, View, kernelVars,
                        SessionInv, TypeOK, KernelTypeOK
    <2>4. pc'[s] = "initCommit"
      BY <1>2 DEF SessionInv, TypeOK
    <2>5. Together'
      BY <2>1, <2>2, <2>3, <2>4 DEF Alone, Together, RegisteredTogether, StagedTogether
    <2>6. Results'
      BY <1>2, <2>1, ResultsKept
    <2> QED BY <2>5, <2>6
  <1>3. CASE RegisterErr(s, "sublayer") /\ pc' = [pc EXCEPT ![s] = "txnDrop"]
             /\ inited' = [inited EXCEPT ![s] = "other"]
    <2> USE <1>3 DEF RegisterErr, kernelVars
    <2>1. pc'[s] = "txnDrop" /\ \A t \in Session \ {s} : pc'[t] = pc[t]
      BY DEF SessionInv, TypeOK
    <2>2. Together'
      BY <2>1, ObjectsKept
    <2>3. s \in Faulty \/ ~Alive(s)
      <3>1. SUFFICES ASSUME ~CallFails(s) PROVE FALSE
        BY DEF CallFails
      <3>2. holder = s
        BY <1>1, <3>1 DEF CallFails, SessionInv, TxnOwnership
      <3>3. working["sublayer"] = "absent" /\ working["provider"] = OwnerOf(s)
        BY <3>1, <3>2 DEF Exists, View, Together, StagedTogether
      <3>4. Associable(s, "sublayer")
        BY <3>2, <3>3 DEF Associable, Refers, View
      <3> QED BY <3>1, <3>4
    <2>4. Results'
      BY <1>1, <2>3 DEF Results, FreshResult, IdempotentRegistration, Alive, Alone,
                        SessionInv, TypeOK
    <2> QED BY <2>2, <2>4
  <1> QED BY <1>2, <1>3

(* The service takes both objects with it, and every session.              *)
LEMMA RegistrationService ==
  ASSUME SessionInv, Alone, Together, Results, Service \/ UNCHANGED vars
  PROVE  Together' /\ Results'
PROOF
  <1> USE Keys DEF Service, clientVars
  <1>1. CASE BfeStop /\ UNCHANGED clientVars
    <2>1. Together'
      BY <1>1, LockReleased DEF BfeStop
    <2>2. Results'
      BY <1>1, ResultsKept DEF BfeStop, SessionInv, TypeOK
    <2> QED BY <2>1, <2>2
  <1>2. CASE UNCHANGED <<sess, store, holder, working, clientVars>>
    <2>1. Together'
      BY <1>2 DEF Alone, Together, RegisteredTogether, StagedTogether, OwnerOf
    <2>2. Results'
      BY <1>2, ResultsKept
    <2> QED BY <2>1, <2>2
  <1> QED BY <1>1, <1>2 DEF BfeStart, vars, kernelVars

----------------------------------------------------------------------------
(* Every step preserves the invariant.                                     *)
LEMMA RegistrationStep ==
  SessionInv /\ RegistrationInv /\ [Next]_vars => RegistrationInv'
PROOF
  <1> SUFFICES ASSUME SessionInv, RegistrationInv, [Next]_vars, Alone
               PROVE  Together' /\ Results'
    BY DEF RegistrationInv, Alone, Together, Results
  <1>1. Together /\ Results
    BY DEF RegistrationInv, Alone, Together, Results
  <1>2. ASSUME NEW s \in Session, Client(s) PROVE Together' /\ Results'
    BY <1>1, <1>2, RegistrationNew, RegistrationClose, RegistrationBegin,
       RegistrationCommit, RegistrationAbandon, RegistrationOther,
       RegistrationProvider, RegistrationSublayer DEF Client, Register, Alone
  <1> QED BY <1>1, <1>2, RegistrationService DEF Next

(* Both properties of initialize_wfp at once, with what they rest on.      *)
THEOREM RegistrationInvariant == Spec => []RegistrationInv
PROOF BY RegistrationInit, RegistrationStep, SessionInvariant, PTL DEF Spec

(* Both objects or neither, and with one owner: no interleaving, failure,  *)
(* crash or restart separates what initialize_wfp registers.               *)
THEOREM BothOrNeither == Spec => []RegisteredTogether
PROOF
  <1>1. RegistrationInv => RegisteredTogether
    BY DEF RegistrationInv, RegisteredTogether
  <1> QED BY <1>1, RegistrationInvariant, PTL

(* On a live session without faults initialize_wfp can always be repeated. *)
THEOREM Idempotent == Spec => []IdempotentRegistration
PROOF
  <1>1. RegistrationInv => IdempotentRegistration
    BY DEF RegistrationInv, IdempotentRegistration
  <1> QED BY <1>1, RegistrationInvariant, PTL

============================================================================
