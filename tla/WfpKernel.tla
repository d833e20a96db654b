----------------------------- MODULE WfpKernel -----------------------------
(***************************************************************************)
(* The Base Filtering Engine (BFE) as the windows-wfp crate uses it: the   *)
(* service behind every Fwpm* call.  It is not part of the repository; each *)
(* definition here is the effect the crate relies on when the call it is   *)
(* named after returns ERROR_SUCCESS.  A call that returns an error leaves *)
(* all of this state alone, except a failed commit (CommitRejected).       *)
(*                                                                         *)
(* The engine keeps objects under keys: the crate's one provider, its one  *)
(* sublayer (both under fixed GUIDs) and the filters, which the engine     *)
(* numbers itself.  An object added in a session opened with               *)
(* FWPM_SESSION_FLAG_DYNAMIC belongs to that session and disappears with   *)
(* it; any other object is static and lasts until the service stops.       *)
(***************************************************************************)

CONSTANTS
  Session,    (* the slots in which a WfpEngine may be opened and reopened *)
  FilterId    (* the filter ids the engine may hand out, never twice       *)

ASSUME KernelAssumption ==
  /\ Session \cap {"none", "static", "absent"} = {}
  /\ FilterId \cap {"provider", "sublayer"} = {}

Key    == {"provider", "sublayer"} \cup FilterId
Mark   == Session \cup {"static", "absent"}    \* who owns an object, if it exists
Empty  == [k \in Key |-> "absent"]

VARIABLES
  up,         (* the BFE service is running                                *)
  sess,       (* the lifetime of a session's objects; "none" = no session  *)
  store,      (* the committed objects: what the firewall enforces         *)
  holder,     (* the session whose explicit transaction is open            *)
  working,    (* the store as that transaction sees it                     *)
  usedIds     (* filter ids handed out so far                              *)

kernelVars == <<up, sess, store, holder, working, usedIds>>

KernelTypeOK ==
  /\ up \in BOOLEAN
  /\ sess \in [Session -> {"none", "dynamic", "static"}]
  /\ store \in [Key -> Mark]
  /\ holder \in Session \cup {"none"}
  /\ working \in [Key -> Mark]
  /\ usedIds \in SUBSET FilterId

KernelInit ==
  /\ up = TRUE
  /\ sess = [s \in Session |-> "none"]
  /\ store = Empty
  /\ holder = "none"
  /\ working = Empty
  /\ usedIds = {}

----------------------------------------------------------------------------
(* What one session sees, and the rules its calls obey.                    *)

Alive(s) == sess[s] # "none"

(* The owner of what session s adds.                                       *)
OwnerOf(s) == IF sess[s] = "dynamic" THEN s ELSE "static"

(* The open transaction's session reads its own changes.                   *)
View(s) == IF holder = s THEN working ELSE store

(* One writer at a time: a write waits while another session's transaction *)
(* is open (the wait ends with FWP_E_TIMEOUT, a failed call).              *)
Unlocked(s) == holder \in {"none", s}

(* An object may only refer to objects that live at least as long.         *)
Refers(s, k) == View(s)[k] \in {OwnerOf(s), "static"}

(* A sublayer names the provider, a filter the provider and the sublayer.  *)
Associable(s, k) ==
  /\ k # "provider" => Refers(s, "provider")
  /\ k \in FilterId => Refers(s, "sublayer")

Exists(s, k) == View(s)[k] # "absent"

(* Outside a transaction a write is its own transaction.                   *)
Write(s, k, mark) ==
  IF holder = s
    THEN working' = [working EXCEPT ![k] = mark] /\ UNCHANGED store
    ELSE store' = [store EXCEPT ![k] = mark] /\ UNCHANGED working

----------------------------------------------------------------------------
(* The calls, when they succeed.                                           *)

FwpmEngineOpen(s, lifetime) ==
  /\ up
  /\ sess[s] = "none"
  /\ sess' = [sess EXCEPT ![s] = lifetime]
  /\ UNCHANGED <<up, store, holder, working, usedIds>>

(* Closing a session, or running it down when its process is gone, aborts  *)
(* its transaction and deletes the objects it owns.                        *)
FwpmEngineClose(s) ==
  /\ Alive(s)
  /\ Unlocked(s)
  /\ sess' = [sess EXCEPT ![s] = "none"]
  /\ store' = [k \in Key |-> IF store[k] = s THEN "absent" ELSE store[k]]
  /\ holder' = "none"
  /\ working' = Empty
  /\ UNCHANGED <<up, usedIds>>

FwpmTransactionBegin(s) ==
  /\ Alive(s)
  /\ holder = "none"
  /\ holder' = s
  /\ working' = store
  /\ UNCHANGED <<up, sess, store, usedIds>>

FwpmTransactionCommit(s) ==
  /\ holder = s
  /\ store' = working
  /\ holder' = "none"
  /\ working' = Empty
  /\ UNCHANGED <<up, sess, usedIds>>

FwpmTransactionAbort(s) ==
  /\ holder = s
  /\ holder' = "none"
  /\ working' = Empty
  /\ UNCHANGED <<up, sess, store, usedIds>>

(* A commit that returns an error has committed nothing; the transaction   *)
(* may still be open, or the engine may have aborted it.                   *)
CommitRejected(s) == UNCHANGED kernelVars \/ FwpmTransactionAbort(s)

(* FwpmProviderAdd0 and FwpmSubLayerAdd0.                                  *)
FwpmObjectAdd(s, k) ==
  /\ Alive(s)
  /\ Unlocked(s)
  /\ ~Exists(s, k)
  /\ Associable(s, k)
  /\ Write(s, k, OwnerOf(s))
  /\ UNCHANGED <<up, sess, holder, usedIds>>

FwpmFilterAdd(s, f) ==
  /\ Alive(s)
  /\ Unlocked(s)
  /\ f \notin usedIds
  /\ Associable(s, f)
  /\ Write(s, f, OwnerOf(s))
  /\ usedIds' = usedIds \cup {f}
  /\ UNCHANGED <<up, sess, holder>>

FwpmFilterDeleteById(s, f) ==
  /\ Alive(s)
  /\ Unlocked(s)
  /\ View(s)[f] \in {s, "static"}
  /\ Write(s, f, "absent")
  /\ UNCHANGED <<up, sess, holder, usedIds>>

(* The service stops: sessions and their transactions end, and nothing the *)
(* crate adds carries a persistent flag, so no object survives.            *)
BfeStop ==
  /\ up
  /\ up' = FALSE
  /\ sess' = [s \in Session |-> "none"]
  /\ store' = Empty
  /\ holder' = "none"
  /\ working' = Empty
  /\ UNCHANGED usedIds

BfeStart ==
  /\ ~up
  /\ up' = TRUE
  /\ UNCHANGED <<sess, store, holder, working, usedIds>>

============================================================================
