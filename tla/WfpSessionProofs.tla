------------------------- MODULE WfpSessionProofs -------------------------
(***************************************************************************)
(* What WfpSession guarantees for any sessions, filter ids, faults and     *)
(* lifetimes.                                                              *)
(***************************************************************************)
EXTENDS WfpSession, TLAPS

USE SessionAssumption, KernelAssumption

(* The registered objects are not filters, and owners are told apart.      *)
LEMMA Keys ==
  /\ "provider" \in Key /\ "sublayer" \in Key
  /\ FilterId \subseteq Key
  /\ "provider" \notin FilterId /\ "sublayer" \notin FilterId
  /\ Session \subseteq Mark /\ "static" \in Mark /\ "absent" \in Mark
  /\ "none" \notin Session /\ "static" \notin Session /\ "absent" \notin Session
  /\ Empty \in [Key -> Mark]
  /\ \A k \in Key : Empty[k] = "absent"
PROOF BY DEF Key, Mark, Empty

----------------------------------------------------------------------------
(* Type correctness.                                                       *)

(* The initial state is typed.                                             *)
LEMMA TypeInit == Init => TypeOK
PROOF BY Keys DEF Init, KernelInit, TypeOK, KernelTypeOK, PC, Result, InInit

(* Every kernel call keeps the engine's state typed.                       *)
LEMMA KernelCallType ==
  ASSUME TypeOK, NEW s \in Session
  PROVE  /\ \A l \in Kinds : FwpmEngineOpen(s, l) => KernelTypeOK'
         /\ FwpmEngineClose(s) => KernelTypeOK'
         /\ FwpmTransactionBegin(s) => KernelTypeOK'
         /\ FwpmTransactionCommit(s) => KernelTypeOK'
         /\ FwpmTransactionAbort(s) => KernelTypeOK'
         /\ \A k \in Key : FwpmObjectAdd(s, k) => KernelTypeOK'
         /\ \A f \in FilterId : FwpmFilterAdd(s, f) => KernelTypeOK'
         /\ \A f \in FilterId : FwpmFilterDeleteById(s, f) => KernelTypeOK'
         /\ UNCHANGED kernelVars => KernelTypeOK'
PROOF
  <1> USE Keys DEF TypeOK, KernelTypeOK
  <1>1. \A l \in Kinds : FwpmEngineOpen(s, l) => KernelTypeOK'
    BY DEF FwpmEngineOpen
  <1>2. FwpmEngineClose(s) => KernelTypeOK'
    BY DEF FwpmEngineClose
  <1>3. FwpmTransactionBegin(s) => KernelTypeOK'
    BY DEF FwpmTransactionBegin
  <1>4. FwpmTransactionCommit(s) => KernelTypeOK'
    BY DEF FwpmTransactionCommit
  <1>5. FwpmTransactionAbort(s) => KernelTypeOK'
    BY DEF FwpmTransactionAbort
  <1>6. \A k \in Key : FwpmObjectAdd(s, k) => KernelTypeOK'
    BY DEF FwpmObjectAdd, Write, OwnerOf
  <1>7. \A f \in FilterId : FwpmFilterAdd(s, f) => KernelTypeOK'
    BY DEF FwpmFilterAdd, Write, OwnerOf
  <1>8. \A f \in FilterId : FwpmFilterDeleteById(s, f) => KernelTypeOK'
    BY DEF FwpmFilterDeleteById, Write
  <1>9. UNCHANGED kernelVars => KernelTypeOK'
    BY DEF kernelVars
  <1> QED BY <1>1, <1>2, <1>3, <1>4, <1>5, <1>6, <1>7, <1>8, <1>9

(* Every action of the client keeps everything typed.                      *)
LEMMA TypeStep == TypeOK /\ [Next]_vars => TypeOK'
PROOF
  <1> SUFFICES ASSUME TypeOK, [Next]_vars PROVE TypeOK' OBVIOUS
  <1> USE Keys DEF TypeOK, PC, Result, InInit, Reset
  <1>1. ASSUME NEW s \in Session, New(s) PROVE TypeOK'
    <2>1. KernelTypeOK'
      BY <1>1, KernelCallType DEF New
    <2> QED BY <1>1, <2>1 DEF New
  <1>2. ASSUME NEW s \in Session, DropEngine(s) PROVE TypeOK'
    <2>1. KernelTypeOK'
      BY <1>2, KernelCallType DEF DropEngine
    <2> QED BY <1>2, <2>1 DEF DropEngine
  <1>3. ASSUME NEW s \in Session, Crash(s) \/ Rundown(s) PROVE TypeOK'
    <2>1. KernelTypeOK'
      BY <1>3, KernelCallType DEF Crash, Rundown
    <2>2. CASE Crash(s)
      BY <2>1, <2>2 DEF Crash
    <2>3. CASE Rundown(s)
      BY <2>1, <2>3 DEF Rundown
    <2> QED BY <1>3, <2>2, <2>3
  <1>4. ASSUME NEW s \in Session, Begin(s) PROVE TypeOK'
    <2>1. KernelTypeOK'
      BY <1>4, KernelCallType DEF Begin, Begun
    <2> QED BY <1>4, <2>1 DEF Begin, Begun
  <1>5. ASSUME NEW s \in Session, Commit(s) PROVE TypeOK'
    <2>1. KernelTypeOK'
      BY <1>5, KernelCallType
         DEF Commit, Committed, CommitFailed, CommitRejected
    <2>2. CASE Committed(s)
      BY <1>5, <2>1, <2>2 DEF Commit, Committed, CommitFailed
    <2>3. CASE CommitFailed(s)
      BY <1>5, <2>1, <2>3 DEF Commit, Committed, CommitFailed
    <2> QED BY <1>5, <2>2, <2>3 DEF Commit
  <1>6. ASSUME NEW s \in Session, Rollback(s) PROVE TypeOK'
    <2>1. KernelTypeOK'
      BY <1>6, KernelCallType DEF Rollback
    <2> QED BY <1>6, <2>1 DEF Rollback
  <1>7. ASSUME NEW s \in Session, DropTxn(s) PROVE TypeOK'
    <2>1. KernelTypeOK'
      BY <1>7, KernelCallType DEF DropTxn, Dropped
    <2> QED BY <1>7, <2>1 DEF DropTxn, Dropped
  <1>8. ASSUME NEW s \in Session, NEW k \in {"provider", "sublayer"},
               Register(s, k)
        PROVE  TypeOK'
    <2>1. KernelTypeOK'
      BY <1>8, KernelCallType DEF Register, RegisterOk, clientVars
    <2> QED BY <1>8, <2>1 DEF Register, RegisterOk, clientVars
  <1>9. ASSUME NEW s \in Session, InitCall(s) PROVE TypeOK'
    <2>1. KernelTypeOK'
      BY <1>9, KernelCallType DEF InitCall
    <2> QED BY <1>9, <2>1 DEF InitCall
  <1>10. ASSUME NEW s \in Session, InitBegin(s) PROVE TypeOK'
    <2>1. KernelTypeOK'
      BY <1>10, KernelCallType DEF InitBegin, Begun
    <2>2. CASE Begun(s)
      BY <1>10, <2>1, <2>2 DEF InitBegin, Begun
    <2>3. CASE BeginRefused(s) /\ pc' = [pc EXCEPT ![s] = "idle"]
               /\ inited' = [inited EXCEPT ![s] = "begin"]
               /\ UNCHANGED <<txn, staged>>
      BY <1>10, <2>1, <2>3 DEF InitBegin
    <2> QED BY <1>10, <2>2, <2>3 DEF InitBegin
  <1>11. ASSUME NEW s \in Session, InitProvider(s) \/ InitSublayer(s)
         PROVE  TypeOK'
    <2>1. KernelTypeOK'
      BY <1>11, KernelCallType
         DEF InitProvider, InitSublayer, InitRegister, RegisterOk, RegisterErr
    <2> QED
      BY <1>11, <2>1
         DEF InitProvider, InitSublayer, InitRegister, RegisterOk, RegisterErr
  <1>12. ASSUME NEW s \in Session, InitCommit(s) PROVE TypeOK'
    <2>1. KernelTypeOK'
      BY <1>12, KernelCallType
         DEF InitCommit, Committed, CommitFailed, CommitRejected
    <2>2. CASE Committed(s)
      BY <1>12, <2>1, <2>2 DEF InitCommit, Committed, CommitFailed
    <2>3. CASE CommitFailed(s)
      BY <1>12, <2>1, <2>3 DEF InitCommit, Committed, CommitFailed
    <2> QED BY <1>12, <2>2, <2>3 DEF InitCommit
  <1>13. ASSUME NEW s \in Session, AddFilter(s) PROVE TypeOK'
    <2>1. KernelTypeOK'
      BY <1>13, KernelCallType DEF AddFilter, Hold, Held
    <2> QED BY <1>13, <2>1 DEF AddFilter, Hold, Held
  <1>14. ASSUME NEW s \in Session, DeleteFilter(s) PROVE TypeOK'
    <2>1. Held(s) \subseteq FilterId
      BY DEF Held
    <2>2. KernelTypeOK'
      BY <1>14, <2>1, KernelCallType DEF DeleteFilter
    <2> QED BY <1>14, <2>1, <2>2 DEF DeleteFilter, Hold
  <1>15. ASSUME Service PROVE TypeOK'
    BY <1>15 DEF Service, BfeStop, BfeStart, clientVars, KernelTypeOK
  <1>16. ASSUME UNCHANGED vars PROVE TypeOK'
    BY <1>16 DEF vars, kernelVars, clientVars, KernelTypeOK
  <1> QED
    BY <1>1, <1>2, <1>3, <1>4, <1>5, <1>6, <1>7, <1>8, <1>9, <1>10, <1>11, <1>12,
       <1>13, <1>14, <1>15, <1>16 DEF Next, Client

(* Every state the crate and the engine reach is typed.                    *)
THEOREM TypeCorrect == Spec => []TypeOK
PROOF BY TypeInit, TypeStep, PTL DEF Spec

----------------------------------------------------------------------------
(* The inductive invariant: one lemma per action, one step per conjunct.   *)

(* A new session owns nothing, and its slot was promised nothing.          *)
LEMMA NewInv ==
  ASSUME SessionInv, NEW s \in Session, New(s)
  PROVE  SessionInv'
PROOF
  <1> USE Keys DEF SessionInv, TypeOK, KernelTypeOK, Alive, kernelVars
  <1> USE DEF New, FwpmEngineOpen
  <1>1. TypeOK'
    BY TypeStep DEF Next, Client
  <1>2. Control'
    BY DEF Control
  <1>3. Owners'
    BY DEF Owners
  <1>4. Ids'
    BY DEF Ids, Told
  <1>5. Frame'
    BY DEF Frame
  <1>6. StagedAsPromised'
    BY DEF Owners, StagedAsPromised
  <1>7. EnforcedAsPromised'
    BY DEF Control, Owners, EnforcedAsPromised, Orphan
  <1>8. TxnOwnership'
    BY DEF Control, Owners, TxnOwnership
  <1> QED BY <1>1, <1>2, <1>3, <1>4, <1>5, <1>6, <1>7, <1>8

(* Closing aborts a leftover transaction and deletes what the session owns.*)
LEMMA DropEngineInv ==
  ASSUME SessionInv, NEW s \in Session, DropEngine(s)
  PROVE  SessionInv'
PROOF
  <1> USE Keys DEF SessionInv, TypeOK, KernelTypeOK, Alive, kernelVars
  <1> USE DEF DropEngine, FwpmEngineClose, Reset
  <1>1. TypeOK'
    BY TypeStep DEF Next, Client
  <1>2. Control'
    BY DEF Unlocked, Control, InInit
  <1>3. Owners'
    BY DEF Owners
  <1>4. Ids'
    BY DEF Ids, Told
  <1>5. Frame'
    BY DEF Frame
  <1>6. StagedAsPromised'
    BY DEF StagedAsPromised
  <1>7. EnforcedAsPromised'
    BY DEF Unlocked, EnforcedAsPromised, Orphan
  <1>8. TxnOwnership'
    BY DEF Unlocked, TxnOwnership
  <1> QED BY <1>1, <1>2, <1>3, <1>4, <1>5, <1>6, <1>7, <1>8

(* The dead client has no promises left to keep.                           *)
LEMMA CrashInv ==
  ASSUME SessionInv, NEW s \in Session, Crash(s)
  PROVE  SessionInv'
PROOF
  <1> USE Keys DEF SessionInv, TypeOK, KernelTypeOK, Alive, kernelVars
  <1> USE DEF Crash, Reset
  <1>1. TypeOK'
    BY TypeStep DEF Next, Client
  <1>2. Control'
    BY DEF Control, InInit
  <1>3. Owners'
    BY DEF Owners
  <1>4. Ids'
    BY DEF Ids, Told
  <1>5. Frame'
    BY DEF Frame
  <1>6. StagedAsPromised'
    BY DEF StagedAsPromised
  <1>7. EnforcedAsPromised'
    BY DEF EnforcedAsPromised, Orphan
  <1>8. TxnOwnership'
    BY DEF TxnOwnership
  <1> QED BY <1>1, <1>2, <1>3, <1>4, <1>5, <1>6, <1>7, <1>8

(* The engine forgets the session; its slot is as if never used.           *)
LEMMA RundownInv ==
  ASSUME SessionInv, NEW s \in Session, Rundown(s)
  PROVE  SessionInv'
PROOF
  <1> USE Keys DEF SessionInv, TypeOK, KernelTypeOK, Alive, kernelVars
  <1> USE DEF Rundown, FwpmEngineClose
  <1>1. TypeOK'
    BY TypeStep DEF Next, Client
  <1>2. Control'
    BY DEF Unlocked, Control
  <1>3. Owners'
    BY DEF Owners
  <1>4. Ids'
    BY DEF Ids, Told
  <1>5. Frame'
    BY DEF Frame
  <1>6. StagedAsPromised'
    BY DEF StagedAsPromised
  <1>7. EnforcedAsPromised'
    BY DEF Unlocked, EnforcedAsPromised, Orphan
  <1>8. TxnOwnership'
    BY DEF Unlocked, TxnOwnership
  <1> QED BY <1>1, <1>2, <1>3, <1>4, <1>5, <1>6, <1>7, <1>8

(* The transaction starts from what is enforced, the staged ids from what  *)
(* was promised.                                                           *)
LEMMA BeginInv ==
  ASSUME SessionInv, NEW s \in Session, Begin(s)
  PROVE  SessionInv'
PROOF
  <1> USE Keys DEF SessionInv, TypeOK, KernelTypeOK, Alive, kernelVars
  <1> USE DEF Begin, Begun, FwpmTransactionBegin
  <1>1. TypeOK'
    BY TypeStep DEF Next, Client
  <1>2. Control'
    BY DEF Ready, Control
  <1>3. Owners'
    BY DEF Owners
  <1>4. Ids'
    BY DEF Ids, Told
  <1>5. Frame'
    BY DEF Frame
  <1>6. StagedAsPromised'
    BY DEF EnforcedAsPromised, Orphan, StagedAsPromised
  <1>7. EnforcedAsPromised'
    BY DEF EnforcedAsPromised, Orphan
  <1>8. TxnOwnership'
    BY DEF TxnOwnership
  <1> QED BY <1>1, <1>2, <1>3, <1>4, <1>5, <1>6, <1>7, <1>8

(* What was staged for this client becomes enforced; Frame says nothing else*)
(* does.                                                                   *)
LEMMA CommitInv ==
  ASSUME SessionInv, NEW s \in Session, Commit(s)
  PROVE  SessionInv'
PROOF
  <1> USE Keys DEF SessionInv, TypeOK, KernelTypeOK, Alive, kernelVars
  <1> USE DEF Commit, Committed, CommitFailed, CommitRejected,
          FwpmTransactionCommit, FwpmTransactionAbort
  <1>1. TypeOK'
    BY TypeStep DEF Next, Client
  <1>2. Control'
    BY DEF Ready, Control, InInit
  <1>3. Owners'
    BY DEF Owners
  <1>4. Ids'
    BY DEF Ids, Told
  <1>5. Frame'
    BY DEF Frame
  <1>6. StagedAsPromised'
    BY DEF StagedAsPromised
  <1>7. EnforcedAsPromised'
    BY DEF Frame, StagedAsPromised, EnforcedAsPromised, Orphan
  <1>8. TxnOwnership'
    BY DEF TxnOwnership
  <1> QED BY <1>1, <1>2, <1>3, <1>4, <1>5, <1>6, <1>7, <1>8

(* An abort returns to what is enforced, which nobody touched meanwhile.   *)
LEMMA RollbackInv ==
  ASSUME SessionInv, NEW s \in Session, Rollback(s)
  PROVE  SessionInv'
PROOF
  <1> USE Keys DEF SessionInv, TypeOK, KernelTypeOK, Alive, kernelVars
  <1> USE DEF Rollback, FwpmTransactionAbort
  <1>1. TypeOK'
    BY TypeStep DEF Next, Client
  <1>2. Control'
    BY DEF Ready, Control, InInit
  <1>3. Owners'
    BY DEF Owners
  <1>4. Ids'
    BY DEF Ids, Told
  <1>5. Frame'
    BY DEF Frame
  <1>6. StagedAsPromised'
    BY DEF StagedAsPromised
  <1>7. EnforcedAsPromised'
    BY DEF EnforcedAsPromised, Orphan
  <1>8. TxnOwnership'
    BY DEF TxnOwnership
  <1> QED BY <1>1, <1>2, <1>3, <1>4, <1>5, <1>6, <1>7, <1>8

(* So does the abort in drop; one that fails leaves an orphan.             *)
LEMMA DropTxnInv ==
  ASSUME SessionInv, NEW s \in Session, DropTxn(s)
  PROVE  SessionInv'
PROOF
  <1> USE Keys DEF SessionInv, TypeOK, KernelTypeOK, Alive, kernelVars
  <1> USE DEF DropTxn, Dropped, FwpmTransactionAbort
  <1>1. TypeOK'
    BY TypeStep DEF Next, Client
  <1>2. Control'
    BY DEF Control, InInit
  <1>3. Owners'
    BY DEF Owners
  <1>4. Ids'
    BY DEF Ids, Told
  <1>5. Frame'
    BY DEF Frame
  <1>6. StagedAsPromised'
    BY DEF StagedAsPromised
  <1>7. EnforcedAsPromised'
    BY DEF EnforcedAsPromised, Orphan
  <1>8. TxnOwnership'
    BY DEF CallFails, TxnOwnership
  <1> QED BY <1>1, <1>2, <1>3, <1>4, <1>5, <1>6, <1>7, <1>8

(* Entering initialize_wfp touches neither promises nor lock.              *)
LEMMA InitCallInv ==
  ASSUME SessionInv, NEW s \in Session, InitCall(s)
  PROVE  SessionInv'
PROOF
  <1> USE Keys DEF SessionInv, TypeOK, KernelTypeOK, Alive, kernelVars
  <1> USE DEF InitCall
  <1>1. TypeOK'
    BY TypeStep DEF Next, Client
  <1>2. Control'
    BY DEF Ready, Control, InInit
  <1>3. Owners'
    BY DEF Owners
  <1>4. Ids'
    BY DEF Ids, Told
  <1>5. Frame'
    BY DEF Frame
  <1>6. StagedAsPromised'
    BY DEF StagedAsPromised
  <1>7. EnforcedAsPromised'
    BY DEF EnforcedAsPromised, Orphan
  <1>8. TxnOwnership'
    BY DEF Ready, TxnOwnership
  <1> QED BY <1>1, <1>2, <1>3, <1>4, <1>5, <1>6, <1>7, <1>8

(* The same as Begin, or a refusal that leaves an outer transaction alone. *)
LEMMA InitBeginInv ==
  ASSUME SessionInv, NEW s \in Session, InitBegin(s)
  PROVE  SessionInv'
PROOF
  <1> USE Keys DEF SessionInv, TypeOK, KernelTypeOK, Alive, kernelVars
  <1> USE DEF InitBegin, Begun, FwpmTransactionBegin
  <1>1. TypeOK'
    BY TypeStep DEF Next, Client
  <1>2. Control'
    BY DEF Control, InInit
  <1>3. Owners'
    BY DEF Owners
  <1>4. Ids'
    BY DEF Control, BeginRefused, CallFails, Ids, Told
  <1>5. Frame'
    BY DEF Frame
  <1>6. StagedAsPromised'
    BY DEF EnforcedAsPromised, Orphan, StagedAsPromised
  <1>7. EnforcedAsPromised'
    BY DEF EnforcedAsPromised, Orphan
  <1>8. TxnOwnership'
    BY DEF TxnOwnership
  <1> QED BY <1>1, <1>2, <1>3, <1>4, <1>5, <1>6, <1>7, <1>8

(* The same as Commit: registration stages no filter ids.                  *)
LEMMA InitCommitInv ==
  ASSUME SessionInv, NEW s \in Session, InitCommit(s)
  PROVE  SessionInv'
PROOF
  <1> USE Keys DEF SessionInv, TypeOK, KernelTypeOK, Alive, kernelVars
  <1> USE DEF InitCommit, Committed, CommitFailed, CommitRejected,
          FwpmTransactionCommit, FwpmTransactionAbort
  <1>1. TypeOK'
    BY TypeStep DEF Next, Client
  <1>2. Control'
    BY DEF Control, InInit
  <1>3. Owners'
    BY DEF Owners
  <1>4. Ids'
    BY DEF Control, Ids, Told, InInit
  <1>5. Frame'
    BY DEF Frame
  <1>6. StagedAsPromised'
    BY DEF StagedAsPromised
  <1>7. EnforcedAsPromised'
    BY DEF Control, Frame, StagedAsPromised, EnforcedAsPromised, Orphan, InInit
  <1>8. TxnOwnership'
    BY DEF TxnOwnership
  <1> QED BY <1>1, <1>2, <1>3, <1>4, <1>5, <1>6, <1>7, <1>8

(* Provider and sublayer are no filters, and are added where none existed. *)
LEMMA RegisterInv ==
  ASSUME SessionInv, NEW s \in Session, NEW k \in {"provider", "sublayer"},
         Register(s, k)
  PROVE  SessionInv'
PROOF
  <1> USE Keys DEF SessionInv, TypeOK, KernelTypeOK, Alive, kernelVars
  <1> USE DEF Register, RegisterOk, FwpmObjectAdd, clientVars, Write
  <1>1. TypeOK'
    BY TypeStep DEF Next, Client
  <1>2. Control'
    BY DEF Exists, Control
  <1>3. Owners'
    BY DEF OwnerOf, Owners
  <1>4. Ids'
    BY DEF Ids, Told
  <1>5. Frame'
    BY DEF Exists, View, OwnerOf, Unlocked, Frame
  <1>6. StagedAsPromised'
    BY DEF StagedAsPromised
  <1>7. EnforcedAsPromised'
    BY DEF EnforcedAsPromised, Orphan
  <1>8. TxnOwnership'
    BY DEF TxnOwnership
  <1> QED BY <1>1, <1>2, <1>3, <1>4, <1>5, <1>6, <1>7, <1>8

(* So they are inside the transaction of initialize_wfp.                   *)
LEMMA InitRegisterInv ==
  ASSUME SessionInv, NEW s \in Session, InitProvider(s) \/ InitSublayer(s)
  PROVE  SessionInv'
PROOF
  <1> USE Keys DEF SessionInv, TypeOK, KernelTypeOK, Alive, kernelVars
  <1> USE DEF InitProvider, InitSublayer, InitRegister, RegisterOk,
          RegisterErr, FwpmObjectAdd, Write
  <1>1. TypeOK'
    BY TypeStep DEF Next, Client
  <1>2. Control'
    BY DEF Exists, Control, InInit
  <1>3. Owners'
    BY DEF OwnerOf, Owners
  <1>4. Ids'
    BY DEF Ids, Told
  <1>5. Frame'
    BY DEF Exists, View, OwnerOf, Unlocked, Frame
  <1>6. StagedAsPromised'
    BY DEF StagedAsPromised
  <1>7. EnforcedAsPromised'
    BY DEF EnforcedAsPromised, Orphan
  <1>8. TxnOwnership'
    BY DEF TxnOwnership
  <1> QED BY <1>1, <1>2, <1>3, <1>4, <1>5, <1>6, <1>7, <1>8

(* A fresh id enters the promises and the view of the same client.         *)
LEMMA AddFilterInv ==
  ASSUME SessionInv, NEW s \in Session, AddFilter(s)
  PROVE  SessionInv'
PROOF
  <1> USE Keys DEF SessionInv, TypeOK, KernelTypeOK, Alive, kernelVars
  <1> USE DEF AddFilter, FwpmFilterAdd, Hold, Write, OwnerOf
  <1>1. TypeOK'
    BY TypeStep DEF Next, Client
  <1>2. Control'
    BY DEF Ready, Control
  <1>3. Owners'
    BY DEF Owners
  <1>4. Ids'
    BY DEF Held, Unlocked, Ids, Told
  <1>5. Frame'
    BY DEF Ids, Told, Unlocked, Frame
  <1>6. StagedAsPromised'
    BY DEF Held, StagedAsPromised
  <1>7. EnforcedAsPromised'
    BY DEF Ids, TxnOwnership, Held, Ready, EnforcedAsPromised, Orphan
  <1>8. TxnOwnership'
    BY DEF TxnOwnership
  <1> QED BY <1>1, <1>2, <1>3, <1>4, <1>5, <1>6, <1>7, <1>8

(* An id told to one client was told to no other.                          *)
LEMMA DeleteFilterInv ==
  ASSUME SessionInv, NEW s \in Session, DeleteFilter(s)
  PROVE  SessionInv'
PROOF
  <1> USE Keys DEF SessionInv, TypeOK, KernelTypeOK, Alive, kernelVars
  <1> USE DEF DeleteFilter, FwpmFilterDeleteById, Hold, Write, Held
  <1>1. TypeOK'
    BY TypeStep DEF Next, Client
  <1>2. Control'
    BY DEF Ready, Control
  <1>3. Owners'
    BY DEF Owners
  <1>4. Ids'
    BY DEF Unlocked, Ids, Told
  <1>5. Frame'
    BY DEF Ids, Told, View, Unlocked, Frame
  <1>6. StagedAsPromised'
    BY DEF StagedAsPromised
  <1>7. EnforcedAsPromised'
    BY DEF Ids, Told, TxnOwnership, Ready, EnforcedAsPromised, Orphan
  <1>8. TxnOwnership'
    BY DEF TxnOwnership
  <1> QED BY <1>1, <1>2, <1>3, <1>4, <1>5, <1>6, <1>7, <1>8

(* When the service stops no session is left to be promised anything.      *)
LEMMA ServiceInv ==
  ASSUME SessionInv, Service
  PROVE  SessionInv'
PROOF
  <1> USE Keys DEF SessionInv, TypeOK, KernelTypeOK, Alive, kernelVars
  <1> USE DEF Service, BfeStop, BfeStart, clientVars
  <1>1. TypeOK'
    BY TypeStep DEF Next, Client
  <1>2. Control'
    BY DEF Control
  <1>3. Owners'
    BY DEF Owners
  <1>4. Ids'
    BY DEF Ids, Told
  <1>5. Frame'
    BY DEF Frame
  <1>6. StagedAsPromised'
    BY DEF StagedAsPromised
  <1>7. EnforcedAsPromised'
    BY DEF EnforcedAsPromised, Orphan
  <1>8. TxnOwnership'
    BY DEF TxnOwnership
  <1> QED BY <1>1, <1>2, <1>3, <1>4, <1>5, <1>6, <1>7, <1>8

(* Nothing changes.                                                        *)
LEMMA StutterInv ==
  ASSUME SessionInv, UNCHANGED vars
  PROVE  SessionInv'
PROOF
  <1> USE Keys DEF SessionInv, TypeOK, KernelTypeOK, Alive, kernelVars
  <1> USE DEF vars, clientVars
  <1>1. TypeOK'
    BY TypeStep DEF Next, Client
  <1>2. Control'
    BY DEF View, Control
  <1>3. Owners'
    BY DEF Owners
  <1>4. Ids'
    BY DEF Ids, Told
  <1>5. Frame'
    BY DEF Frame
  <1>6. StagedAsPromised'
    BY DEF StagedAsPromised
  <1>7. EnforcedAsPromised'
    BY DEF EnforcedAsPromised, Orphan
  <1>8. TxnOwnership'
    BY DEF TxnOwnership
  <1> QED BY <1>1, <1>2, <1>3, <1>4, <1>5, <1>6, <1>7, <1>8

(* Nobody has been promised anything when the service has just started.    *)
LEMMA SessionInit == Init => SessionInv
PROOF
  <1> SUFFICES ASSUME Init PROVE SessionInv OBVIOUS
  <1> USE Keys DEF Init, KernelInit, Alive, InInit
  <1>1. TypeOK
    BY TypeInit
  <1>2. Control /\ Owners /\ Ids
    BY DEF Control, Owners, Ids, Told
  <1>3. Frame /\ StagedAsPromised /\ EnforcedAsPromised /\ TxnOwnership
    BY DEF Frame, StagedAsPromised, EnforcedAsPromised, TxnOwnership
  <1> QED BY <1>1, <1>2, <1>3 DEF SessionInv

(* Every step of every client and of the service preserves the invariant.  *)
LEMMA SessionStep == SessionInv /\ [Next]_vars => SessionInv'
PROOF
  <1> SUFFICES ASSUME SessionInv, [Next]_vars PROVE SessionInv' OBVIOUS
  <1>1. ASSUME NEW s \in Session, Client(s) PROVE SessionInv'
    BY <1>1, NewInv, DropEngineInv, CrashInv, RundownInv, BeginInv, CommitInv,
       RollbackInv, DropTxnInv, RegisterInv, InitCallInv, InitBeginInv,
       InitRegisterInv, InitCommitInv, AddFilterInv, DeleteFilterInv DEF Client
  <1> QED BY <1>1, ServiceInv, StutterInv DEF Next

(* The invariant that all the others follow from: it holds whatever the    *)
(* number of clients, which of them are faulty or die, and when the        *)
(* service stops.                                                          *)
THEOREM SessionInvariant == Spec => []SessionInv
PROOF BY SessionInit, SessionStep, PTL DEF Spec

(* Return values are promises: what add_filter, delete_filter and commit   *)
(* have reported is what the firewall enforces for a live session.         *)
THEOREM PromisesKept == Spec => []EnforcedAsPromised
PROOF
  <1>1. SessionInv => EnforcedAsPromised
    BY DEF SessionInv
  <1> QED BY <1>1, SessionInvariant, PTL

(* The guard object and the engine's write lock agree.                     *)
THEOREM GuardOwnsLock == Spec => []TxnOwnership
PROOF
  <1>1. SessionInv => TxnOwnership
    BY DEF SessionInv
  <1> QED BY <1>1, SessionInvariant, PTL

(* Nothing stays enforced or locked for an engine that was dropped.        *)
THEOREM DropCloses == Spec => []ClosedOnDrop
PROOF
  <1>1. SessionInv => ClosedOnDrop
    <2> SUFFICES ASSUME SessionInv PROVE ClosedOnDrop OBVIOUS
    <2>1. ASSUME NEW s \in Session, engine[s] = "none"
          PROVE  ~Alive(s) /\ holder # s
      BY <2>1, Keys DEF SessionInv, Control, Owners
    <2>2. ASSUME NEW s \in Session, NEW k \in Key, store[k] = s
          PROVE  sess[s] = "dynamic"
      BY <2>2 DEF SessionInv, Owners
    <2> QED BY <2>1, <2>2 DEF ClosedOnDrop
  <1> QED BY <1>1, SessionInvariant, PTL

(* What an abort that failed has left behind never comes into force: the   *)
(* lock keeps every other session out, and the guard is gone.              *)
THEOREM OrphanNeverCommits == Spec => OrphanInert
PROOF
  <1>1. ASSUME SessionInv, [Next]_vars, NEW s \in Session, Orphan(s)
        PROVE  ~Alive(s)' \/ (Orphan(s)' /\ UNCHANGED store)
    <2> USE <1>1, Keys DEF Orphan, SessionInv, TypeOK, KernelTypeOK, Alive, Unlocked
    <2>1. ASSUME NEW t \in Session, New(t) \/ DropEngine(t) \/ Crash(t) \/ Rundown(t)
          PROVE  ~Alive(s)' \/ (Orphan(s)' /\ UNCHANGED store)
      BY <2>1 DEF New, DropEngine, Crash, Rundown, FwpmEngineOpen, FwpmEngineClose,
                  Reset, kernelVars
    <2>2. ASSUME NEW t \in Session, Begin(t) \/ InitCall(t) \/ InitBegin(t)
          PROVE  Orphan(s)' /\ UNCHANGED store
      BY <2>2 DEF Begin, InitCall, InitBegin, Begun, FwpmTransactionBegin, kernelVars
    <2>3. ASSUME NEW t \in Session, Commit(t) \/ Rollback(t) \/ DropTxn(t)
          PROVE  Orphan(s)' /\ UNCHANGED store
      BY <2>3 DEF Commit, Committed, CommitFailed, CommitRejected, Rollback, DropTxn,
                  Dropped, FwpmTransactionCommit, FwpmTransactionAbort, kernelVars
    <2>4. ASSUME NEW t \in Session, InitCommit(t)
          PROVE  Orphan(s)' /\ UNCHANGED store
      BY <2>4 DEF InitCommit, Committed, CommitFailed, CommitRejected, Control, InInit,
                  FwpmTransactionCommit, FwpmTransactionAbort, kernelVars
    <2>5. ASSUME NEW t \in Session, NEW k \in Key, RegisterOk(t, k), UNCHANGED txn
          PROVE  Orphan(s)' /\ UNCHANGED store
      BY <2>5 DEF RegisterOk, FwpmObjectAdd, Write, kernelVars
    <2>6. ASSUME NEW t \in Session, InitProvider(t) \/ InitSublayer(t)
          PROVE  Orphan(s)' /\ UNCHANGED store
      BY <2>5, <2>6 DEF InitProvider, InitSublayer, InitRegister, RegisterErr, kernelVars
    <2>7. ASSUME NEW t \in Session, AddFilter(t) \/ DeleteFilter(t)
          PROVE  Orphan(s)' /\ UNCHANGED store
      BY <2>7 DEF AddFilter, DeleteFilter, FwpmFilterAdd, FwpmFilterDeleteById, Write
    <2>8. ASSUME Service PROVE ~Alive(s)' \/ (Orphan(s)' /\ UNCHANGED store)
      BY <2>8 DEF Service, BfeStop, BfeStart, clientVars
    <2>9. ASSUME UNCHANGED vars PROVE Orphan(s)' /\ UNCHANGED store
      BY <2>9 DEF vars, kernelVars, clientVars
    <2>10. ASSUME NEW t \in Session, NEW k \in {"provider", "sublayer"}, Register(t, k)
           PROVE  Orphan(s)' /\ UNCHANGED store
      BY <2>5, <2>10 DEF Register, clientVars
    <2> QED
      BY <2>1, <2>2, <2>3, <2>4, <2>6, <2>7, <2>8, <2>9, <2>10 DEF Next, Client
  <1>2. SessionInv /\ [Next]_vars => [OrphansStay]_vars
    BY <1>1 DEF OrphansStay
  <1> QED BY <1>2, SessionInvariant, PTL DEF Spec, OrphanInert

(* A dead session answers Ok to nothing: what it did before leaves no lock *)
(* with which a call could succeed, and no call opens it again.            *)
THEOREM NoOkFromTheDead == Spec => DeadSilent
PROOF
  <1> DEFINE Silent(s) ==
        /\ promised'[s] \subseteq promised[s] /\ staged'[s] \subseteq staged[s]
        /\ txn'[s] => txn[s]
        /\ inited'[s] = "ok" => inited[s] = "ok"
        /\ engine'[s] = "live" => ~Alive(s)'
  <1>1. ASSUME SessionInv, [Next]_vars, NEW s \in Session,
               engine[s] = "live", ~Alive(s)
        PROVE  Silent(s)
    <2> USE <1>1, Keys DEF SessionInv, TypeOK, KernelTypeOK, Alive
    <2>1. holder # s
      BY DEF Owners
    <2>2. ASSUME NEW t \in Session, New(t) \/ DropEngine(t) \/ Crash(t) \/ Rundown(t)
          PROVE  Silent(s)
      BY <2>2 DEF New, DropEngine, Crash, Rundown, FwpmEngineOpen, FwpmEngineClose,
                  Reset, kernelVars
    <2>3. ASSUME NEW t \in Session, Begin(t) \/ InitCall(t) \/ InitBegin(t)
          PROVE  Silent(s)
      BY <2>3 DEF Begin, InitCall, InitBegin, Begun, FwpmTransactionBegin, kernelVars
    <2>4. ASSUME NEW t \in Session, Commit(t) \/ InitCommit(t)
          PROVE  Silent(s)
      BY <2>1, <2>4 DEF Commit, InitCommit, Committed, CommitFailed, CommitRejected,
                        FwpmTransactionCommit, FwpmTransactionAbort, kernelVars
    <2>5. ASSUME NEW t \in Session, Rollback(t) \/ DropTxn(t)
          PROVE  Silent(s)
      BY <2>1, <2>5 DEF Rollback, DropTxn, Dropped, FwpmTransactionAbort, kernelVars
    <2>6. ASSUME NEW t \in Session, NEW k \in Key, RegisterOk(t, k)
          PROVE  UNCHANGED sess
      BY <2>6 DEF RegisterOk, FwpmObjectAdd, kernelVars
    <2>7. ASSUME NEW t \in Session, InitProvider(t) \/ InitSublayer(t)
          PROVE  Silent(s)
      BY <2>6, <2>7 DEF InitProvider, InitSublayer, InitRegister, RegisterErr, kernelVars
    <2>8. ASSUME NEW t \in Session, AddFilter(t) \/ DeleteFilter(t)
          PROVE  Silent(s)
      BY <2>8 DEF AddFilter, DeleteFilter, FwpmFilterAdd, FwpmFilterDeleteById, Hold
    <2>9. ASSUME Service PROVE Silent(s)
      BY <2>9 DEF Service, BfeStop, BfeStart, clientVars
    <2>10. ASSUME UNCHANGED vars PROVE Silent(s)
      BY <2>10 DEF vars, kernelVars, clientVars
    <2>11. ASSUME NEW t \in Session, NEW k \in {"provider", "sublayer"}, Register(t, k)
           PROVE  Silent(s)
      BY <2>6, <2>11 DEF Register, clientVars
    <2> QED
      BY <2>2, <2>3, <2>4, <2>5, <2>7, <2>8, <2>9, <2>10, <2>11 DEF Next, Client
  <1>2. SessionInv /\ [Next]_vars => [NoOkWhenDead]_vars
    BY <1>1 DEF NoOkWhenDead
  <1> QED BY <1>2, SessionInvariant, PTL DEF Spec, DeadSilent

============================================================================
