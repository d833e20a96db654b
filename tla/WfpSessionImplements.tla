------------------------ MODULE WfpSessionImplements ------------------------
(***************************************************************************)
(* WfpSession implements AtomicRules, for any sessions, filter ids, faults *)
(* and lifetimes: every step of a client or of the service changes the     *)
(* enforced filters as one abstract step, or leaves them alone.            *)
(***************************************************************************)
EXTENDS WfpSessionProofs

AbstractStep == [Atomic!Next]_(Atomic!vars)

----------------------------------------------------------------------------
(* From what a step does to the rules, the author and the draft to the     *)
(* abstract step it is.                                                    *)

(* The rules of a client change only with its session, its promises, and   *)
(* the filters it owns or was promised.                                    *)
LEMMA RulesKept ==
  ASSUME NEW t \in Session, sess'[t] = sess[t], promised'[t] = promised[t],
         \A f \in FilterId : store'[f] = t <=> store[f] = t,
         \A f \in FilterId : f \in promised[t] =>
            (store'[f] = "static" <=> store[f] = "static")
  PROVE  Rules(t)' = Rules(t)
PROOF BY DEF Rules

(* A step that shows in none of the abstract variables.                    *)
LEMMA Stutters ==
  ASSUME \A t \in Session : Rules(t)' = Rules(t),
         author' = author, drafted' = drafted, usedIds' = usedIds
  PROVE  AbstractStep
PROOF
  <1>1. enforced' = enforced
    BY DEF enforced
  <1> QED BY <1>1 DEF AbstractStep, Atomic!vars

(* The rules of one client change, to whatever they are afterwards.        *)
LEMMA OneChanges ==
  ASSUME NEW s \in Session, \A t \in Session \ {s} : Rules(t)' = Rules(t)
  PROVE  enforced' = [enforced EXCEPT ![s] = Rules(s)']
PROOF BY DEF enforced

(* The rules of one client go, and its draft, if it has one.               *)
LEMMA Leaves ==
  ASSUME NEW s \in Session, \A t \in Session \ {s} : Rules(t)' = Rules(t),
         Rules(s)' = {}, usedIds' = usedIds,
         IF author = s THEN author' = "none" /\ drafted' = {}
                       ELSE author' = author /\ drafted' = drafted
  PROVE  AbstractStep
PROOF
  <1>1. enforced' = [enforced EXCEPT ![s] = {}]
    BY OneChanges
  <1>2. Atomic!Leave(s)
    BY <1>1 DEF Atomic!Leave, Atomic!NoDraft
  <1> QED BY <1>2 DEF AbstractStep, Atomic!Next

(* Only the draft goes.                                                    *)
LEMMA Discards ==
  ASSUME NEW s \in Session, \A t \in Session : Rules(t)' = Rules(t),
         usedIds' = usedIds, author = s, author' = "none", drafted' = {}
  PROVE  AbstractStep
PROOF
  <1>1. enforced' = enforced
    BY DEF enforced
  <1>2. Atomic!Discard(s)
    BY <1>1 DEF Atomic!Discard, Atomic!NoDraft
  <1> QED BY <1>2 DEF AbstractStep, Atomic!Next

(* Who is the author, by the lock and the guard.                           *)
LEMMA Author ==
  ASSUME TypeOK, NEW s \in Session
  PROVE  /\ holder = s /\ txn[s] => author = s /\ drafted = staged[s]
         /\ holder = s /\ ~txn[s] => author = "none" /\ drafted = {}
         /\ holder = "none" => author = "none" /\ drafted = {}
         /\ author = s => holder = s /\ txn[s]
PROOF BY Keys DEF author, drafted, Guarded, TypeOK, KernelTypeOK

(* The same after the step.                                                *)
LEMMA AuthorNext ==
  ASSUME TypeOK', NEW s \in Session
  PROVE  /\ holder' = s /\ txn'[s] => author' = s /\ drafted' = staged'[s]
         /\ holder' = s /\ ~txn'[s] => author' = "none" /\ drafted' = {}
         /\ holder' = "none" => author' = "none" /\ drafted' = {}
PROOF BY Keys DEF author, drafted, Guarded, TypeOK, KernelTypeOK

(* Author and draft stay if the lock does, and its holder's guard and ids. *)
LEMMA AuthorKept ==
  ASSUME TypeOK, holder' = holder,
         holder # "none" =>
            /\ txn'[holder] = txn[holder]
            /\ txn[holder] => staged'[holder] = staged[holder]
  PROVE  author' = author /\ drafted' = drafted
PROOF BY Keys DEF author, drafted, Guarded, TypeOK, KernelTypeOK

(* Outside a transaction, a live client's rules are what it was promised.  *)
LEMMA RulesPromised ==
  ASSUME SessionInv, NEW s \in Session, engine[s] = "live", Alive(s), holder # s
  PROVE  Rules(s) = promised[s]
PROOF
  <1>1. sess[s] \in {"dynamic", "static"} /\ promised[s] \subseteq FilterId
    BY DEF SessionInv, TypeOK, KernelTypeOK, Alive
  <1>2. IF sess[s] = "dynamic"
          THEN \A f \in FilterId : f \in promised[s] <=> store[f] = s
          ELSE \A f \in promised[s] : store[f] = "static"
    BY DEF SessionInv, EnforcedAsPromised, Orphan
  <1> QED BY <1>1, <1>2 DEF Rules

----------------------------------------------------------------------------
(* One lemma per action.                                                   *)

(* A new session has no rules yet.                                         *)
LEMMA NewStep ==
  ASSUME SessionInv, NEW s \in Session, New(s)
  PROVE  AbstractStep
PROOF
  <1> USE Keys DEF New, FwpmEngineOpen
  <1>1. Rules(s)' = Rules(s)
    BY DEF SessionInv, TypeOK, KernelTypeOK, Control, Owners, Rules, Alive
  <1>2. \A t \in Session \ {s} : Rules(t)' = Rules(t)
    BY RulesKept DEF SessionInv, TypeOK, KernelTypeOK
  <1>3. author' = author /\ drafted' = drafted
    BY AuthorKept DEF SessionInv
  <1> QED BY <1>1, <1>2, <1>3, Stutters

(* A dropped engine takes its rules with it, unless the close failed and   *)
(* left a dynamic session behind.                                          *)
LEMMA DropEngineStep ==
  ASSUME SessionInv, NEW s \in Session, DropEngine(s)
  PROVE  AbstractStep
PROOF
  <1> USE Keys DEF DropEngine, Reset
  <1>1. CASE FwpmEngineClose(s)
    <2>1. Rules(s)' = {}
      BY <1>1 DEF FwpmEngineClose, SessionInv, TypeOK, KernelTypeOK, Rules
    <2>2. \A t \in Session \ {s} : Rules(t)' = Rules(t)
      BY <1>1, RulesKept DEF FwpmEngineClose, SessionInv, TypeOK, KernelTypeOK
    <2>3. author = "none" /\ drafted = {}
      BY <1>1, Author DEF FwpmEngineClose, Unlocked, SessionInv
    <2>4. author' = "none" /\ drafted' = {}
      BY <1>1 DEF FwpmEngineClose, author, drafted, Guarded
    <2> QED BY <1>1, <2>1, <2>2, <2>3, <2>4, Leaves DEF FwpmEngineClose
  <1>2. CASE UNCHANGED kernelVars
    <2>1. \A t \in Session \ {s} : Rules(t)' = Rules(t)
      BY <1>2, RulesKept DEF kernelVars, SessionInv, TypeOK
    <2>2. author' = author /\ drafted' = drafted
      <3>1. txn[s] = FALSE
        BY DEF SessionInv, TypeOK
      <3>2. txn' = txn
        BY <3>1 DEF SessionInv, TypeOK
      <3>3. \A t \in Session : t # s => staged'[t] = staged[t]
        BY DEF SessionInv, TypeOK
      <3> QED
        BY <1>2, <3>1, <3>2, <3>3, AuthorKept DEF kernelVars, SessionInv, TypeOK, KernelTypeOK
    <2>3. CASE sess[s] = "dynamic"
      <3>1. Rules(s)' = Rules(s)
        BY <1>2, <2>3 DEF kernelVars, Rules
      <3> QED BY <1>2, <2>1, <2>2, <3>1, Stutters DEF kernelVars
    <2>4. CASE sess[s] # "dynamic"
      <3>1. Rules(s)' = {}
        BY <1>2, <2>4 DEF kernelVars, Rules, SessionInv, TypeOK
      <3>2. author # s
        BY Author DEF SessionInv
      <3> QED BY <1>2, <2>1, <2>2, <3>1, <3>2, Leaves DEF kernelVars
    <2> QED BY <2>3, <2>4
  <1> QED BY <1>1, <1>2

(* A dead client's draft is never committed; what it enforced for as long  *)
(* as its session lives stays until the rundown.                           *)
LEMMA CrashStep ==
  ASSUME SessionInv, NEW s \in Session, Crash(s)
  PROVE  AbstractStep
PROOF
  <1> USE Keys DEF Crash, Reset, kernelVars
  <1>1. \A t \in Session \ {s} : Rules(t)' = Rules(t)
    BY RulesKept DEF SessionInv, TypeOK
  <1>2. author = s => author' = "none" /\ drafted' = {}
    BY Author, AuthorNext, TypeStep DEF SessionInv, TypeOK, Next, Client
  <1>3. author # s => author' = author /\ drafted' = drafted
    <2> HAVE author # s
    <2>1. CASE holder = s
      BY <2>1, Author, AuthorNext, TypeStep DEF SessionInv, TypeOK, Next, Client
    <2>2. CASE holder # s
      BY <2>2, AuthorKept DEF SessionInv, TypeOK
    <2> QED BY <2>1, <2>2
  <1>4. CASE sess[s] = "dynamic"
    <2>1. Rules(s)' = Rules(s)
      BY <1>4 DEF Rules
    <2>2. \A t \in Session : Rules(t)' = Rules(t)
      BY <1>1, <2>1
    <2> QED BY <1>2, <1>3, <2>2, Stutters, Discards
  <1>5. CASE sess[s] # "dynamic"
    <2>1. Rules(s)' = {}
      BY <1>5 DEF Rules, SessionInv, TypeOK
    <2> QED BY <1>1, <1>2, <1>3, <2>1, Leaves
  <1> QED BY <1>4, <1>5

(* The rundown takes away what the dead client still enforced.             *)
LEMMA RundownStep ==
  ASSUME SessionInv, NEW s \in Session, Rundown(s)
  PROVE  AbstractStep
PROOF
  <1> USE Keys DEF Rundown
  <1>1. CASE FwpmEngineClose(s)
    <2>1. Rules(s)' = {}
      BY <1>1 DEF FwpmEngineClose, SessionInv, TypeOK, KernelTypeOK, Rules
    <2>2. \A t \in Session \ {s} : Rules(t)' = Rules(t)
      BY <1>1, RulesKept DEF FwpmEngineClose, SessionInv, TypeOK, KernelTypeOK
    <2>3. author = "none" /\ drafted = {}
      BY <1>1, Author DEF FwpmEngineClose, Unlocked, SessionInv, Control
    <2>4. author' = "none" /\ drafted' = {}
      BY <1>1 DEF FwpmEngineClose, author, drafted, Guarded
    <2> QED BY <1>1, <2>1, <2>2, <2>3, <2>4, Leaves DEF FwpmEngineClose
  <1>2. CASE UNCHANGED kernelVars
    <2>1. \A t \in Session : Rules(t)' = Rules(t)
      BY <1>2, RulesKept DEF kernelVars
    <2>2. author' = author /\ drafted' = drafted
      BY <1>2, AuthorKept DEF kernelVars, SessionInv
    <2> QED BY <1>2, <2>1, <2>2, Stutters DEF kernelVars
  <1> QED BY <1>1, <1>2

(* begin takes the lock nobody has, and drafts from what is enforced.      *)
LEMMA BegunStep ==
  ASSUME SessionInv, SessionInv', NEW s \in Session, engine[s] = "live",
         Begun(s), UNCHANGED promised
  PROVE  AbstractStep
PROOF
  <1> USE Keys DEF Begun, FwpmTransactionBegin
  <1>1. \A t \in Session : Rules(t)' = Rules(t)
    BY RulesKept
  <1>2. enforced' = enforced
    BY <1>1 DEF enforced
  <1>3. author = "none"
    BY Author DEF SessionInv
  <1>4. author' = s /\ drafted' = promised[s]
    BY AuthorNext DEF SessionInv, TypeOK
  <1>5. enforced[s] = promised[s]
    BY RulesPromised DEF enforced
  <1>6. Atomic!Begin(s)
    BY <1>2, <1>3, <1>4, <1>5 DEF Atomic!Begin
  <1> QED BY <1>6 DEF AbstractStep, Atomic!Next

(* commit puts the draft in force, whole, and touches nobody else's rules. *)
LEMMA CommittedStep ==
  ASSUME SessionInv, SessionInv', NEW s \in Session,
         engine[s] = "live", engine'[s] = "live", txn[s], Committed(s)
  PROVE  AbstractStep
PROOF
  <1> USE Keys DEF Committed, FwpmTransactionCommit
  <1>1. \A t \in Session \ {s} : Rules(t)' = Rules(t)
    BY RulesKept DEF SessionInv, TypeOK, Frame
  <1>2. author = s /\ drafted = staged[s]
    BY Author DEF SessionInv
  <1>3. author' = "none" /\ drafted' = {}
    BY AuthorNext DEF SessionInv
  <1>4. sess[s] \in {"dynamic", "static"} /\ staged[s] \subseteq FilterId
    BY DEF SessionInv, TypeOK, KernelTypeOK, Owners, Alive
  <1>5. IF sess[s] = "dynamic"
          THEN \A f \in FilterId : f \in staged[s] <=> working[f] = s
          ELSE \A f \in staged[s] : working[f] = "static"
    BY DEF SessionInv, StagedAsPromised
  <1>6. Rules(s)' = staged[s]
    BY <1>4, <1>5 DEF Rules, SessionInv, TypeOK
  <1>7. enforced' = [enforced EXCEPT ![s] = drafted]
    BY <1>1, <1>2, <1>6, OneChanges
  <1>8. Atomic!Commit(s)
    BY <1>2, <1>3, <1>7 DEF Atomic!Commit, Atomic!NoDraft
  <1> QED BY <1>8 DEF AbstractStep, Atomic!Next

(* The engine aborts the transaction of a guard: the draft is gone.        *)
LEMMA AbortedStep ==
  ASSUME SessionInv, NEW s \in Session, txn[s], FwpmTransactionAbort(s),
         UNCHANGED promised
  PROVE  AbstractStep
PROOF
  <1> USE Keys DEF FwpmTransactionAbort
  <1>1. \A t \in Session : Rules(t)' = Rules(t)
    BY RulesKept
  <1>2. author = s /\ author' = "none" /\ drafted' = {}
    BY Author DEF SessionInv, author, drafted, Guarded
  <1> QED BY <1>1, <1>2, Discards

(* A call that changes neither the engine nor the promises, the guard and  *)
(* the staged ids of its client.                                           *)
LEMMA QuietStep ==
  ASSUME SessionInv, UNCHANGED <<kernelVars, txn, promised, staged>>
  PROVE  AbstractStep
PROOF
  <1> USE DEF kernelVars
  <1>1. \A t \in Session : Rules(t)' = Rules(t)
    BY RulesKept
  <1>2. author' = author /\ drafted' = drafted
    BY AuthorKept DEF SessionInv
  <1> QED BY <1>1, <1>2, Stutters

(* Commit, by itself or at the end of initialize_wfp.                      *)
LEMMA CommitStep ==
  ASSUME SessionInv, SessionInv', NEW s \in Session, Commit(s) \/ InitCommit(s)
  PROVE  AbstractStep
PROOF
  <1>1. engine[s] = "live" /\ engine' = engine /\ txn[s]
    BY DEF Commit, InitCommit, Ready, SessionInv, Control, InInit
  <1>2. CASE Committed(s)
    BY <1>1, <1>2, CommittedStep
  <1>3. CASE CommitFailed(s)
    <2>1. UNCHANGED <<txn, promised, staged>>
      BY <1>3 DEF Commit, InitCommit, CommitFailed
    <2>2. UNCHANGED kernelVars \/ FwpmTransactionAbort(s)
      BY <1>3 DEF CommitFailed, CommitRejected
    <2> QED BY <1>1, <2>1, <2>2, AbortedStep, QuietStep
  <1> QED BY <1>2, <1>3 DEF Commit, InitCommit

(* rollback, or the drop of a guard: the draft is gone, also when the abort*)
(* failed and the lock is orphaned.                                        *)
LEMMA AbandonStep ==
  ASSUME SessionInv, NEW s \in Session, Rollback(s) \/ DropTxn(s)
  PROVE  AbstractStep
PROOF
  <1> USE Keys
  <1>1. txn[s] /\ UNCHANGED <<promised, staged>>
    BY DEF Rollback, DropTxn, Dropped
  <1>2. CASE FwpmTransactionAbort(s)
    BY <1>1, <1>2, AbortedStep
  <1>3. CASE UNCHANGED <<kernelVars, txn>>
    BY <1>1, <1>3, QuietStep
  <1>4. CASE UNCHANGED kernelVars /\ txn' = [txn EXCEPT ![s] = FALSE]
    <2> USE <1>4 DEF kernelVars
    <2>1. \A t \in Session : Rules(t)' = Rules(t)
      BY <1>1, RulesKept
    <2>2. CASE holder = s
      <3>1. author = s
        BY <1>1, <2>2, Author DEF SessionInv
      <3>2. txn'[s] = FALSE
        BY DEF SessionInv, TypeOK
      <3>3. author' = "none" /\ drafted' = {}
        BY <2>2, <3>2 DEF author, drafted, Guarded
      <3> QED BY <2>1, <3>1, <3>3, Discards
    <2>3. CASE holder # s
      <3>1. author' = author /\ drafted' = drafted
        BY <1>1, <2>3, AuthorKept DEF SessionInv, TypeOK
      <3> QED BY <2>1, <3>1, Stutters
    <2> QED BY <2>2, <2>3
  <1> QED BY <1>2, <1>3, <1>4 DEF Rollback, DropTxn, Dropped

(* Provider and sublayer are no rules.                                     *)
LEMMA RegisteredStep ==
  ASSUME SessionInv, NEW s \in Session, NEW k \in {"provider", "sublayer"},
         RegisterOk(s, k) \/ RegisterErr(s, k), UNCHANGED <<txn, promised, staged>>
  PROVE  AbstractStep
PROOF
  <1> USE Keys
  <1>1. CASE UNCHANGED kernelVars
    BY <1>1, QuietStep
  <1>2. CASE FwpmObjectAdd(s, k)
    <2> USE <1>2 DEF FwpmObjectAdd, Write
    <2>1. \A f \in FilterId : store'[f] = store[f]
      BY DEF SessionInv, TypeOK, KernelTypeOK
    <2>2. \A t \in Session : Rules(t)' = Rules(t)
      BY <2>1, RulesKept
    <2>3. author' = author /\ drafted' = drafted
      BY AuthorKept DEF SessionInv
    <2> QED BY <2>2, <2>3, Stutters
  <1> QED BY <1>1, <1>2 DEF RegisterOk, RegisterErr

(* begin inside initialize_wfp, or its failure.                            *)
LEMMA InitBeginStep ==
  ASSUME SessionInv, SessionInv', NEW s \in Session, InitBegin(s)
  PROVE  AbstractStep
PROOF
  <1>1. engine[s] = "live" /\ UNCHANGED promised
    BY DEF InitBegin, SessionInv, Control
  <1>2. CASE Begun(s)
    BY <1>1, <1>2, BegunStep
  <1>3. CASE UNCHANGED <<kernelVars, txn, staged>>
    BY <1>1, <1>3, QuietStep
  <1> QED BY <1>2, <1>3 DEF InitBegin

(* An add applies at once, or prepares, or is lost with an orphaned        *)
(* transaction, its id wasted.                                             *)
LEMMA AddFilterStep ==
  ASSUME SessionInv, SessionInv', NEW s \in Session, AddFilter(s)
  PROVE  AbstractStep
PROOF
  <1> USE Keys
  <1>1. PICK f \in FilterId : FwpmFilterAdd(s, f) /\ Hold(s, Held(s) \cup {f})
    BY DEF AddFilter
  <1> USE <1>1 DEF FwpmFilterAdd
  <1>2. Atomic!Issue(f)
    BY DEF Atomic!Issue
  <1>3. engine[s] = "live" /\ pc[s] = "idle" /\ UNCHANGED <<txn, holder, sess>>
    BY DEF AddFilter, Ready
  <1>4. store[f] = "absent" /\ \A t \in Session : f \notin promised[t]
    BY DEF SessionInv, Ids, Told
  <1>5. CASE holder = s
    <2>1. store' = store
      BY <1>5 DEF Write
    <2>2. CASE txn[s]
      <3>1. UNCHANGED promised /\ staged'[s] = staged[s] \cup {f}
        BY <2>2 DEF Hold, Held, SessionInv, TypeOK
      <3>2. \A t \in Session : Rules(t)' = Rules(t)
        BY <1>3, <2>1, <3>1, RulesKept
      <3>3. enforced' = enforced
        BY <3>2 DEF enforced
      <3>4. author = s /\ drafted = staged[s]
        BY <1>5, <2>2, Author DEF SessionInv
      <3>5. author' = s /\ drafted' = staged'[s]
        BY <1>3, <1>5, <2>2, AuthorNext DEF SessionInv
      <3>6. Atomic!Prepare(s)
        BY <1>2, <3>1, <3>3, <3>4, <3>5 DEF Atomic!Prepare
      <3> QED BY <3>6 DEF AbstractStep, Atomic!Next
    <2>3. CASE ~txn[s]
      <3>1. UNCHANGED staged /\ promised' = [promised EXCEPT ![s] = promised[s] \cup {f}]
        BY <2>3 DEF Hold, Held
      <3>2. \A t \in Session \ {s} : Rules(t)' = Rules(t)
        BY <1>3, <2>1, <3>1, RulesKept DEF SessionInv, TypeOK
      <3>3. Rules(s)' = Rules(s)
        BY <1>3, <1>4, <2>1, <3>1 DEF Rules, SessionInv, TypeOK
      <3>4. enforced' = enforced
        BY <3>2, <3>3 DEF enforced
      <3>5. author' = author /\ drafted' = drafted
        BY <1>3, <3>1, AuthorKept DEF SessionInv
      <3>6. Atomic!Waste
        BY <1>2, <3>4, <3>5 DEF Atomic!Waste
      <3> QED BY <3>6 DEF AbstractStep, Atomic!Next
    <2> QED BY <2>2, <2>3
  <1>6. CASE holder = "none"
    <2>1. store' = [store EXCEPT ![f] = OwnerOf(s)]
      BY <1>6 DEF Write
    <2>2. ~txn[s]
      BY <1>3, <1>6 DEF SessionInv, TxnOwnership
    <2>3. UNCHANGED staged /\ promised' = [promised EXCEPT ![s] = promised[s] \cup {f}]
      BY <2>2 DEF Hold, Held
    <2>4. \A t \in Session \ {s} : store'[f] # t
      BY <2>1 DEF OwnerOf, SessionInv, TypeOK, KernelTypeOK
    <2>5. \A g \in FilterId : g # f => store'[g] = store[g]
      BY <2>1 DEF SessionInv, TypeOK, KernelTypeOK
    <2>6. \A t \in Session \ {s} : Rules(t)' = Rules(t)
      BY <1>3, <1>4, <2>3, <2>4, <2>5, RulesKept DEF SessionInv, TypeOK
    <2>7. promised'[s] = promised[s] \cup {f}
      BY <2>3 DEF SessionInv, TypeOK
    <2>8. store'[f] = OwnerOf(s) /\ sess[s] \in {"dynamic", "static"}
      BY <2>1 DEF SessionInv, TypeOK, KernelTypeOK, Alive
    <2>9. Rules(s)' = Rules(s) \cup {f}
      BY <1>3, <2>5, <2>7, <2>8 DEF Rules, OwnerOf
    <2>10. enforced' = [enforced EXCEPT ![s] = @ \cup {f}]
      BY <2>6, <2>9 DEF enforced
    <2>11. author = "none" /\ author' = author /\ drafted' = drafted
      BY <1>3, <1>6, <2>3, Author, AuthorKept DEF SessionInv
    <2>12. Atomic!Apply(s)
      BY <1>2, <2>10, <2>11 DEF Atomic!Apply
    <2> QED BY <2>12 DEF AbstractStep, Atomic!Next
  <1> QED BY <1>5, <1>6 DEF Unlocked

(* A delete applies at once or prepares; with an orphaned transaction open *)
(* a dynamic client's delete is lost.                                      *)
LEMMA DeleteFilterStep ==
  ASSUME SessionInv, SessionInv', NEW s \in Session, DeleteFilter(s)
  PROVE  AbstractStep
PROOF
  <1> USE Keys
  <1>1. PICK f \in Held(s) : FwpmFilterDeleteById(s, f) /\ Hold(s, Held(s) \ {f})
    BY DEF DeleteFilter
  <1>2. f \in FilterId
    BY DEF Held, SessionInv, TypeOK
  <1> USE <1>1 DEF FwpmFilterDeleteById
  <1>3. engine[s] = "live" /\ pc[s] = "idle" /\ UNCHANGED <<txn, holder, sess, usedIds>>
    BY DEF DeleteFilter, Ready
  <1>4. \A t \in Session \ {s} : f \notin promised[t]
    BY DEF SessionInv, Ids, Told, Held
  <1>5. CASE holder = s /\ txn[s]
    <2>1. store' = store
      BY <1>5 DEF Write
    <2>2. f \in staged[s] /\ UNCHANGED promised /\ staged'[s] = staged[s] \ {f}
      BY <1>5 DEF Hold, Held, SessionInv, TypeOK
    <2>3. \A t \in Session : Rules(t)' = Rules(t)
      BY <1>3, <2>1, <2>2, RulesKept
    <2>4. enforced' = enforced
      BY <2>3 DEF enforced
    <2>5. author = s /\ drafted = staged[s]
      BY <1>5, Author DEF SessionInv
    <2>6. author' = s /\ drafted' = staged'[s]
      BY <1>3, <1>5, AuthorNext DEF SessionInv
    <2>7. Atomic!Prepare(s)
      BY <1>3, <2>2, <2>4, <2>5, <2>6 DEF Atomic!Prepare
    <2> QED BY <2>7 DEF AbstractStep, Atomic!Next
  <1>6. CASE ~txn[s]
    <2>1. UNCHANGED staged /\ promised' = [promised EXCEPT ![s] = promised[s] \ {f}]
      BY <1>6 DEF Hold, Held
    <2>2. promised'[s] = promised[s] \ {f}
      BY <2>1 DEF SessionInv, TypeOK
    <2>3. author = "none" /\ author' = author /\ drafted' = drafted
      BY <1>3, <1>6, <2>1, Author, AuthorKept DEF SessionInv, Unlocked
    <2>4. \A t \in Session \ {s} : store[f] # t \/ holder = s
      BY DEF View
    <2>5. \A g \in FilterId : g # f => store'[g] = store[g]
      BY DEF Write, SessionInv, TypeOK, KernelTypeOK
    <2>6. store'[f] = (IF holder = s THEN store[f] ELSE "absent")
      BY <1>2 DEF Write, SessionInv, TypeOK, KernelTypeOK
    <2>7. \A t \in Session \ {s} : Rules(t)' = Rules(t)
      <3> TAKE t \in Session \ {s}
      <3>1. promised'[t] = promised[t]
        BY <2>1 DEF SessionInv, TypeOK
      <3>2. \A g \in FilterId : store'[g] = t <=> store[g] = t
        BY <2>4, <2>5, <2>6
      <3>3. \A g \in FilterId : g \in promised[t] => store'[g] = store[g]
        BY <1>4, <2>5
      <3> QED BY <1>3, <3>1, <3>2, <3>3, RulesKept
    <2>8. CASE Rules(s)' = Rules(s)
      <3>1. \A t \in Session : Rules(t)' = Rules(t)
        BY <2>7, <2>8
      <3> QED BY <1>3, <2>3, <3>1, Stutters
    <2>9. CASE f \in Rules(s) /\ Rules(s)' = Rules(s) \ {f}
      <3>1. enforced' = [enforced EXCEPT ![s] = @ \ {f}] /\ f \in enforced[s]
        BY <2>7, <2>9 DEF enforced
      <3>2. Atomic!Apply(s)
        BY <1>3, <2>3, <3>1 DEF Atomic!Apply
      <3> QED BY <3>2 DEF AbstractStep, Atomic!Next
    <2>10. Rules(s)' = Rules(s) \/ (f \in Rules(s) /\ Rules(s)' = Rules(s) \ {f})
      <3>1. CASE f \notin Rules(s)
        BY <1>3, <2>2, <2>5, <2>6, <3>1 DEF Rules
      <3>2. CASE f \in Rules(s)
        BY <1>3, <2>2, <2>5, <2>6, <3>2 DEF Rules
      <3> QED BY <3>1, <3>2
    <2> QED BY <2>8, <2>9, <2>10
  <1>7. txn[s] => holder = s
    BY <1>3 DEF SessionInv, TxnOwnership
  <1> QED BY <1>5, <1>6, <1>7

(* When the service stops nobody has rules or a draft.                     *)
LEMMA ServiceStep ==
  ASSUME SessionInv, Service
  PROVE  AbstractStep
PROOF
  <1> USE Keys DEF clientVars
  <1>1. CASE BfeStop
    <2> USE <1>1 DEF BfeStop
    <2>1. enforced' = [t \in Session |-> {}]
      BY DEF enforced, Rules
    <2>2. author' = "none" /\ drafted' = {}
      BY DEF author, drafted, Guarded
    <2>3. Atomic!Stop
      BY <2>1, <2>2 DEF Atomic!Stop, Atomic!NoDraft
    <2> QED BY <2>3 DEF AbstractStep, Atomic!Next
  <1>2. CASE BfeStart
    <2> USE <1>2 DEF BfeStart
    <2>1. \A t \in Session : Rules(t)' = Rules(t)
      BY RulesKept DEF Service
    <2>2. author' = author /\ drafted' = drafted
      BY AuthorKept DEF SessionInv, Service
    <2> QED BY <2>1, <2>2, Stutters
  <1> QED BY <1>1, <1>2 DEF Service

----------------------------------------------------------------------------
(* The initial state has no rules and no draft.                            *)
LEMMA ImplementsInit == Init => Atomic!Init
PROOF BY Keys DEF Init, KernelInit, Atomic!Init, enforced, Rules, author, drafted, Guarded

(* Every step is an abstract step or a stutter.                            *)
LEMMA ImplementsStep == SessionInv /\ SessionInv' /\ [Next]_vars => AbstractStep
PROOF
  <1> SUFFICES ASSUME SessionInv, SessionInv', [Next]_vars PROVE AbstractStep OBVIOUS
  <1>1. ASSUME NEW s \in Session, Client(s) PROVE AbstractStep
    <2>1. CASE Begin(s)
      BY <2>1, BegunStep DEF Begin, Ready
    <2>2. ASSUME NEW k \in {"provider", "sublayer"}, Register(s, k)
          PROVE  AbstractStep
      BY <2>2, RegisteredStep DEF Register, clientVars
    <2>3. CASE InitCall(s)
      BY <2>3, QuietStep DEF InitCall
    <2>4. CASE InitProvider(s) \/ InitSublayer(s)
      BY <2>4, RegisteredStep DEF InitProvider, InitSublayer, InitRegister
    <2> QED
      BY <1>1, <2>1, <2>2, <2>3, <2>4, NewStep, DropEngineStep, CrashStep,
         RundownStep, CommitStep, AbandonStep, InitBeginStep, AddFilterStep,
         DeleteFilterStep DEF Client
  <1>2. CASE UNCHANGED vars
    BY <1>2, QuietStep DEF vars, clientVars
  <1> QED BY <1>1, <1>2, ServiceStep DEF Next

(* The refinement: seen as sets of rules that only their clients change,   *)
(* one rule or one whole transaction at a time, the crate and the engine   *)
(* under it are AtomicRules, whatever fails or dies in between.            *)
THEOREM Implementation == Spec => ImplementsAtomicRules
PROOF
  <1>1. Init /\ [][Next]_vars /\ []SessionInv => Atomic!Init /\ [][Atomic!Next]_(Atomic!vars)
    BY ImplementsInit, ImplementsStep, PTL DEF AbstractStep
  <1> QED BY <1>1, SessionInvariant, PTL DEF Spec, ImplementsAtomicRules, Atomic!Spec

============================================================================
