------------------------- MODULE FilterEnumeration -------------------------
(***************************************************************************)
(* FilterEnumerator (filter_enum.rs): one thread lists or counts the       *)
(* filters of the whole system, batch by batch, while other programs add   *)
(* and delete theirs, and its session may end under it.                    *)
(*                                                                         *)
(* External: an enumeration handle is a snapshot taken when it is created; *)
(* a call of FwpmFilterEnum0 returns any part of what is left of it, up to *)
(* the number asked for, in an array of the library's memory, and nothing  *)
(* only when nothing is left.                                              *)
(***************************************************************************)
EXTENDS FilterRules

CONSTANTS
  BatchSize,     (* 100 in the code                                        *)
  Rule,          (* the rules that clients of the crate add                *)
  Foreign,       (* the FWPM_FILTER0 that somebody else adds, by its id     *)
  MaxId          (* bound: filters ever added                              *)

ASSUME EnumerationAssumption ==
  /\ BatchSize \in Nat \ {0} /\ MaxId \in Nat
  /\ None \notin Rule /\ \A rule \in Rule : IsRule(rule) /\ AppIdKnown(rule)
  /\ \A id \in 1..MaxId : Foreign[id].provider # "WFP_PROVIDER_GUID"

VARIABLES
  present,    (* the filters in place, each with the rule it came from     *)
  nextId,     (* ids below it have been handed out                         *)
  connected,  (* the session of the engine handle is there                 *)
  handle,     (* the engine has an enumeration handle open for the thread  *)
  left,       (* what is left of its snapshot                              *)
  arrays,     (* arrays of the library not yet freed                       *)
  pc,         (* where the thread is in enumerate_raw                      *)
  call,       (* the last call: all or count                               *)
  batch,      (* filter_array                                              *)
  acc,        (* accumulator                                               *)
  result,     (* what the last call returned                               *)
  moments     (* history: the sets of filters in place during the call     *)

engineVars == <<present, nextId, connected, handle, left>>
threadVars == <<arrays, pc, call, batch, acc, result>>
vars == <<engineVars, threadVars, moments>>

Structure == {Foreign[id] : id \in 1..MaxId} \cup {Filter(rule) : rule \in Rule}
Filters   == [id : 1..MaxId, rule : Rule \cup {None}, structure : Structure]
Info      == {parse_filter(f.id, f.structure) : f \in Filters}

TypeOK ==
  /\ present \in SUBSET Filters
  /\ nextId \in 1..MaxId + 1
  /\ connected \in BOOLEAN
  /\ handle \in BOOLEAN
  /\ left \in SUBSET Filters
  /\ arrays \in {0, 1}
  /\ pc \in {"idle", "create", "enum", "visit", "break"}
  /\ call \in {"all", "count"}
  /\ batch \in Seq(Filters)
  /\ call = "count" => acc \in Nat
  /\ call = "all" => acc \in Seq(Info)
  /\ result \in {"none", "ok", "err"}
  /\ moments \in SUBSET SUBSET Filters

Init ==
  /\ present = {}
  /\ nextId = 1
  /\ connected = TRUE
  /\ handle = FALSE
  /\ left = {}
  /\ arrays = 0
  /\ pc = "idle"
  /\ call = "all"
  /\ batch = <<>>
  /\ acc = <<>>
  /\ result = "none"
  /\ moments = {}

----------------------------------------------------------------------------
(* Everybody else.                                                         *)

(* The filters in place are observed for as long as a call runs.           *)
Observe == moments' = IF pc = "idle" THEN moments ELSE moments \cup {present'}

Add(rule, structure) ==
  /\ nextId <= MaxId
  /\ present' = present \cup {[id |-> nextId, rule |-> rule, structure |-> structure]}
  /\ nextId' = nextId + 1
  /\ Observe
  /\ UNCHANGED <<connected, handle, left, threadVars>>

Delete(f) ==
  /\ f \in present
  /\ present' = present \ {f}
  /\ Observe
  /\ UNCHANGED <<nextId, connected, handle, left, threadVars>>

(* The session ends, and with it what the engine kept for it.              *)
SessionLost ==
  /\ connected
  /\ connected' = FALSE
  /\ handle' = FALSE
  /\ left' = {}
  /\ UNCHANGED <<present, nextId, threadVars, moments>>

----------------------------------------------------------------------------
(* The thread: all and count, which differ in what they accumulate.        *)

Empty(kind) == IF kind = "all" THEN <<>> ELSE 0

EnumCall(kind) ==
  /\ pc = "idle"
  /\ pc' = "create"
  /\ call' = kind
  /\ result' = "none"
  /\ acc' = Empty(kind)
  /\ moments' = {present}
  /\ UNCHANGED <<engineVars, arrays, batch>>

Return == pc' = "idle" /\ result' = "ok" /\ UNCHANGED <<acc, moments>>

(* An error drops the accumulator.                                         *)
ReturnErr == pc' = "idle" /\ result' = "err" /\ acc' = Empty(call) /\ moments' = {}

(* FwpmFilterCreateEnumHandle0, for all filters.                           *)
CreateHandle ==
  /\ pc = "create"
  /\ connected
  /\ handle' = TRUE
  /\ left' = present
  /\ pc' = "enum"
  /\ UNCHANGED <<present, nextId, connected, arrays, call, batch, acc, result, moments>>

CreateFails ==
  /\ pc = "create"
  /\ ReturnErr
  /\ UNCHANGED <<engineVars, arrays, call, batch>>

(* FwpmFilterDestroyEnumHandle0; its result is ignored.                    *)
Destroy ==
  /\ handle' = FALSE
  /\ left' = {}
  /\ UNCHANGED <<present, nextId, connected>>

(* The arrays a call may return: some filters, in some order.              *)
Batches ==
  UNION {{b \in [1..n -> left] : IsInjective(b)} : n \in 1..BatchSize}

(* FwpmFilterEnum0 returns at least one filter.                            *)
EnumBatch ==
  /\ pc = "enum"
  /\ connected
  /\ batch' \in Batches
  /\ left' = left \ Range(batch')
  /\ arrays' = arrays + 1
  /\ pc' = "visit"
  /\ UNCHANGED <<present, nextId, connected, handle, call, acc, result, moments>>

(* It returns none, with or without an array.                              *)
EnumNone ==
  /\ pc = "enum"
  /\ connected
  /\ left = {}
  /\ batch' = <<>>
  /\ arrays' \in {arrays, arrays + 1}
  /\ pc' = "break"
  /\ UNCHANGED <<engineVars, call, acc, result, moments>>

(* Mutant: the `?` of an error leaves the handle open.                     *)
EnumFailsKeeps ==
  /\ pc = "enum"
  /\ ReturnErr
  /\ UNCHANGED <<engineVars, arrays, call, batch>>

(* It fails, for any reason.                                               *)
EnumFails ==
  /\ pc = "enum"
  /\ ReturnErr
  /\ Destroy
  /\ UNCHANGED <<arrays, call, batch>>

(* Mutant: count takes every batch for a full one.                         *)
VisitedFull ==
  IF call = "count" THEN acc + BatchSize
  ELSE acc \o [i \in 1..Len(batch) |-> parse_filter(batch[i].id, batch[i].structure)]

(* The visitor: parse each filter into a FilterInfo, or only count.        *)
Visited ==
  IF call = "count" THEN acc + Len(batch)
  ELSE acc \o [i \in 1..Len(batch) |-> parse_filter(batch[i].id, batch[i].structure)]

(* Mutant: the array of a batch is not freed.                              *)
VisitKeeps ==
  /\ pc = "visit"
  /\ acc' = Visited
  /\ pc' = "enum"
  /\ batch' = <<>>
  /\ UNCHANGED <<engineVars, arrays, call, result, moments>>

(* Mutant: a batch that is not full is taken for the last one.             *)
VisitShort ==
  /\ pc = "visit"
  /\ acc' = Visited
  /\ arrays' = arrays - 1
  /\ pc' = IF Len(batch) < BatchSize THEN "break" ELSE "enum"
  /\ batch' = <<>>
  /\ UNCHANGED <<engineVars, call, result, moments>>

(* Visit the batch, free the array, ask for the next one.                  *)
Visit ==
  /\ pc = "visit"
  /\ acc' = Visited
  /\ arrays' = arrays - 1
  /\ pc' = "enum"
  /\ batch' = <<>>
  /\ UNCHANGED <<engineVars, call, result, moments>>

(* Mutant: no break, the engine is asked again.                            *)
BreakForgotten ==
  /\ pc = "break"
  /\ arrays' = 0
  /\ pc' = "enum"
  /\ UNCHANGED <<engineVars, call, batch, acc, result, moments>>

(* Free the array if there is one, destroy the handle, Ok(accumulator).    *)
Break ==
  /\ pc = "break"
  /\ arrays' = IF arrays > 0 THEN arrays - 1 ELSE arrays
  /\ Destroy
  /\ Return
  /\ UNCHANGED <<call, batch>>

Thread == CreateHandle \/ CreateFails \/ EnumBatch \/ EnumNone \/ EnumFails \/ Visit \/ Break

Next ==
  \/ \E rule \in Rule : Add(rule, Filter(rule))
  \/ Add(None, Foreign[nextId])
  \/ \E f \in present : Delete(f)
  \/ SessionLost
  \/ \E kind \in {"all", "count"} : EnumCall(kind)
  \/ Thread

Spec == Init /\ [][Next]_vars

(* The thread runs and every Fwpm* call returns.  Nobody else has to act.  *)
FairSpec == Spec /\ WF_vars(Thread)

----------------------------------------------------------------------------
(* Properties.                                                             *)

(* An accumulator tells the filters of m, every one once.                  *)
Reports(kind, told, m) ==
  IF kind = "count" THEN told = Cardinality(m)
  ELSE /\ Len(told) = Cardinality(m)
       /\ Range(told) = {parse_filter(f.id, f.structure) : f \in m}

(* Linearizability: a call that returns Ok tells the filters that were in  *)
(* place at one moment between its call and its return, every one once,    *)
(* whatever came and went between two batches and however they were cut.   *)
OneMoment == result = "ok" => \E m \in moments : Reports(call, acc, m)

(* On whatever way a call returns, it leaves no enumeration handle in the  *)
(* engine and none of the library's arrays behind.                         *)
NothingLeaked == pc = "idle" => ~handle /\ arrays = 0

Given(rule) ==
  {field \in {"app_path", "remote_port", "local_port", "protocol", "remote_ip", "local_ip"} :
     rule[field] # None}

Tells(info, rule) ==
  /\ info.action = rule.action
  /\ info.weight = rule.weight
  /\ info.layer_key.direction = rule.direction
  /\ info.num_conditions = Cardinality(Given(rule))
  /\ IF rule.app_path = None THEN info.app_path = None
     ELSE AppId[rule.app_path] = info.app_path \o <<0>>

(* "Callers can then filter by provider": the infos that carry the crate's *)
(* provider are exactly those of filters built by add_filter, and each     *)
(* tells the action, weight, direction, application and number of          *)
(* conditions of the rule that its filter was built from, whatever is in   *)
(* the conditions and weights of the filters between them.                 *)
InfoTellsRule ==
  call = "all" =>
    \A i \in 1..Len(acc) : \E f \in UNION moments :
      /\ f.id = acc[i].id
      /\ (f.rule # None) = (acc[i].provider_key = "WFP_PROVIDER_GUID")
      /\ f.rule # None => Tells(acc[i], f.rule)

(* all and count return, however many filters the others add meanwhile.    *)
EnumReturns == pc # "idle" ~> pc = "idle"

============================================================================
