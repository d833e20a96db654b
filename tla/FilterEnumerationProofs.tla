---------------------- MODULE FilterEnumerationProofs ----------------------
(***************************************************************************)
(* Proofs about FilterEnumeration, for any batch size, any rules and any   *)
(* number of filters: the type invariant, NothingLeaked, OneMoment and     *)
(* InfoTellsRule.  What parse_filter makes of a filter matters to the last *)
(* one only.                                                               *)
(***************************************************************************)
EXTENDS FilterEnumeration, FilterRulesProofs

(* The invariant.  While the thread is in its loop, some moment of the     *)
(* call was the snapshot: what the accumulator tells, what the batch       *)
(* holds and what the engine has left are three disjoint parts of it.      *)
(* Without its session the thread has no snapshot any more, but it cannot  *)
(* get to the break either.                                                *)
Told(m) == m \ (left \cup Range(batch))

Parts ==
  /\ pc # "visit" => batch = <<>>
  /\ pc = "break" => left = {}
  /\ IsInjective(batch)

Observed ==
  /\ IsFiniteSet(present)
  /\ \A m \in moments : IsFiniteSet(m)
  /\ pc # "idle" => present \in moments

Progressed ==
  /\ pc = "create" => acc = Empty(call)
  /\ (pc \in {"enum", "visit"} /\ connected) \/ pc = "break" =>
       \E m \in moments :
         /\ left \subseteq m /\ Range(batch) \subseteq m
         /\ left \cap Range(batch) = {}
         /\ Reports(call, acc, Told(m))

Returned == (result = "ok" => pc = "idle") /\ OneMoment

Kept ==
  /\ handle => pc \in {"enum", "visit", "break"}
  /\ pc \in {"idle", "create", "enum"} => arrays = 0
  /\ pc = "visit" => arrays = 1
  /\ pc = "break" => arrays \in {0, 1}

(* Every filter is one that add_filter built from a rule, or not of the    *)
(* crate's provider.                                                       *)
Built(f) ==
  IF f.rule = None THEN f.structure.provider # "WFP_PROVIDER_GUID"
  ELSE f.rule \in Rule /\ f.structure = Filter(f.rule)

(* What the thread holds and what it has told stems from moments of the    *)
(* call, even when its session is gone.                                    *)
Sourced ==
  /\ \A f \in present \cup UNION moments : Built(f)
  /\ pc \in {"enum", "visit", "break"} => left \cup Range(batch) \subseteq UNION moments
  /\ call = "all" => Range(acc) \subseteq {parse_filter(f.id, f.structure) : f \in UNION moments}

EnumInv == TypeOK /\ Parts /\ Observed /\ Progressed /\ Returned /\ Kept /\ Sourced

----------------------------------------------------------------------------
(* A batch holds as many filters as it is long.                            *)
LEMMA BatchCardinality ==
  ASSUME NEW S, NEW b \in Seq(S), IsInjective(b)
  PROVE  IsFiniteSet(Range(b)) /\ Cardinality(Range(b)) = Len(b)
<1>1. Len(b) \in Nat /\ DOMAIN b = 1..Len(b)
  BY LenProperties
<1>2. b \in [1..Len(b) -> Range(b)]
  BY <1>1 DEF Range
<1>3. b \in Bijection(1..Len(b), Range(b))
  BY <1>1, <1>2 DEF Range, IsInjective, Bijection, Injection, Surjection
<1>4. ExistsBijection(1..Len(b), Range(b))
  BY <1>3 DEF ExistsBijection
<1>5. IsFiniteSet(1..Len(b)) /\ Cardinality(1..Len(b)) = Len(b)
  BY <1>1, FS_Interval
<1> QED BY <1>4, <1>5, FS_Bijection

(* The infos of a batch are added to those told before.                    *)
LEMMA VisitedInfos ==
  ASSUME TypeOK, call = "all"
  PROVE  /\ Visited \in Seq(Info)
         /\ Len(Visited) = Len(acc) + Len(batch)
         /\ Range(Visited) = Range(acc) \cup
                             {parse_filter(f.id, f.structure) : f \in Range(batch)}
<1> DEFINE parsed == [i \in 1..Len(batch) |-> parse_filter(batch[i].id, batch[i].structure)]
<1>1. batch \in Seq(Filters) /\ acc \in Seq(Info)
  BY DEF TypeOK
<1>2. /\ Len(batch) \in Nat /\ DOMAIN batch = 1..Len(batch)
      /\ \A i \in 1..Len(batch) : batch[i] \in Filters
  BY <1>1
<1>3. \A i \in 1..Len(batch) : parse_filter(batch[i].id, batch[i].structure) \in Info
  BY <1>2 DEF Info
<1>4. parsed \in Seq(Info) /\ Len(parsed) = Len(batch)
  BY <1>2, <1>3
<1>5. Visited = acc \o parsed
  BY DEF Visited
<1>6. Visited \in Seq(Info) /\ Len(Visited) = Len(acc) + Len(batch)
  BY <1>1, <1>4, <1>5
<1>7. Range(parsed) = {parse_filter(f.id, f.structure) : f \in Range(batch)}
  BY <1>2 DEF Range
<1>8. Range(acc \o parsed) = Range(acc) \cup Range(parsed)
  <2>1. Len(acc) \in Nat /\ DOMAIN acc = 1..Len(acc) /\ DOMAIN parsed = 1..Len(parsed)
    BY <1>1, <1>4
  <2>2. DOMAIN (acc \o parsed) = 1..(Len(acc) + Len(parsed))
    BY <1>1, <1>4
  <2>3. \A i \in 1..(Len(acc) + Len(parsed)) :
          (acc \o parsed)[i] = IF i <= Len(acc) THEN acc[i] ELSE parsed[i - Len(acc)]
    BY <1>1, <1>4
  <2>4. ASSUME NEW x \in Range(acc) PROVE x \in Range(acc \o parsed)
    <3>1. PICK i \in 1..Len(acc) : x = acc[i]
      BY <2>1 DEF Range
    <3>2. i \in 1..(Len(acc) + Len(parsed)) /\ (acc \o parsed)[i] = x
      BY <3>1, <2>1, <2>3, <1>2, <1>4
    <3> QED BY <3>2, <2>2 DEF Range
  <2>5. ASSUME NEW x \in Range(parsed) PROVE x \in Range(acc \o parsed)
    <3>1. PICK i \in 1..Len(parsed) : x = parsed[i]
      BY <2>1 DEF Range
    <3>2. Len(acc) + i \in 1..(Len(acc) + Len(parsed)) /\ (acc \o parsed)[Len(acc) + i] = x
      BY <3>1, <2>1, <2>3, <1>2, <1>4
    <3> QED BY <3>2, <2>2 DEF Range
  <2>6. ASSUME NEW x \in Range(acc \o parsed) PROVE x \in Range(acc) \cup Range(parsed)
    <3>1. PICK i \in 1..(Len(acc) + Len(parsed)) : x = (acc \o parsed)[i]
      BY <2>2 DEF Range
    <3>2. CASE i <= Len(acc)
      BY <3>1, <3>2, <2>1, <2>3 DEF Range
    <3>3. CASE i > Len(acc)
      <4>1. i - Len(acc) \in 1..Len(parsed)
        BY <3>1, <3>3, <2>1, <1>2, <1>4
      <4>2. x = parsed[i - Len(acc)]
        BY <3>1, <3>3, <2>1, <2>3, <1>2, <1>4
      <4> QED BY <4>1, <4>2, <2>1 DEF Range
    <3> QED BY <3>1, <3>2, <3>3, <2>1, <1>2, <1>4
  <2> QED BY <2>4, <2>5, <2>6
<1> QED BY <1>5, <1>6, <1>7, <1>8

(* What the loop has told of m, the batch joins.                           *)
LEMMA VisitedReports ==
  ASSUME TypeOK, IsInjective(batch), NEW D, IsFiniteSet(D), Reports(call, acc, D),
         D \cap Range(batch) = {}, NEW T, T = D \cup Range(batch),
         acc' = Visited, call' = call
  PROVE  Reports(call', acc', T)
<1>1. batch \in Seq(Filters)
  BY DEF TypeOK
<1>2. IsFiniteSet(Range(batch)) /\ Cardinality(Range(batch)) = Len(batch)
  BY <1>1, BatchCardinality
<1>3. Cardinality(T) = Cardinality(D) + Cardinality(Range(batch))
  <2>1. Cardinality(T) = Cardinality(D) + Cardinality(Range(batch))
                         - Cardinality(D \cap Range(batch))
    BY <1>2, FS_Union
  <2>2. Cardinality(D \cap Range(batch)) = 0
    BY FS_EmptySet
  <2>3. Cardinality(D) \in Nat /\ Cardinality(Range(batch)) \in Nat
    BY <1>2, FS_CardinalityType
  <2> QED BY <2>1, <2>2, <2>3
<1>4. CASE call = "count"
  BY <1>2, <1>3, <1>4 DEF Reports, Visited
<1>5. CASE call # "count"
  <2>1. call = "all"
    BY <1>5 DEF TypeOK
  <2>2. /\ Len(Visited) = Len(acc) + Len(batch)
        /\ Range(Visited) = Range(acc) \cup
                            {parse_filter(f.id, f.structure) : f \in Range(batch)}
    BY <2>1, VisitedInfos
  <2>3. /\ Len(acc) = Cardinality(D)
        /\ Range(acc) = {parse_filter(f.id, f.structure) : f \in D}
    BY <1>5 DEF Reports
  <2>4. Range(acc') = {parse_filter(f.id, f.structure) : f \in T}
    BY <2>2, <2>3
  <2>5. Len(acc') = Cardinality(T)
    BY <2>2, <2>3, <1>2, <1>3
  <2> QED BY <2>4, <2>5, <1>5 DEF Reports
<1> QED BY <1>4, <1>5

(* A call that has told nothing tells the empty set.                       *)
LEMMA EmptyReports ==
  ASSUME acc = Empty(call), call \in {"all", "count"}
  PROVE  Reports(call, acc, {})
<1>1. CASE call = "count"
  BY <1>1, FS_EmptySet DEF Reports, Empty
<1>2. CASE call = "all"
  <2>1. acc = <<>> /\ Len(acc) = 0 /\ Range(acc) = {}
    BY <1>2 DEF Empty, Range
  <2> QED BY <1>2, <2>1, FS_EmptySet DEF Reports
<1> QED BY <1>1, <1>2

----------------------------------------------------------------------------
(* TypeOK is inductive.                                                    *)
LEMMA TypeInvariant == TypeOK /\ Kept /\ [Next]_vars => TypeOK'
<1> SUFFICES ASSUME TypeOK, Kept, [Next]_vars PROVE TypeOK'
  OBVIOUS
<1> USE EnumerationAssumption
<1>1. ASSUME NEW rule \in Rule, Add(rule, Filter(rule)) PROVE TypeOK'
  <2>1. [id |-> nextId, rule |-> rule, structure |-> Filter(rule)] \in Filters
    BY <1>1 DEF TypeOK, Add, Filters, Structure
  <2>2. present' \in SUBSET Filters /\ nextId' \in 1..MaxId + 1
    BY <1>1, <2>1 DEF TypeOK, Add
  <2>3. moments' \in SUBSET SUBSET Filters
    BY <1>1, <2>2 DEF TypeOK, Add, Observe
  <2> QED BY <1>1, <2>2, <2>3 DEF TypeOK, Add, threadVars
<1>2. ASSUME Add(None, Foreign[nextId]) PROVE TypeOK'
  <2>1. [id |-> nextId, rule |-> None, structure |-> Foreign[nextId]] \in Filters
    BY <1>2 DEF TypeOK, Add, Filters, Structure
  <2>2. present' \in SUBSET Filters /\ nextId' \in 1..MaxId + 1
    BY <1>2, <2>1 DEF TypeOK, Add
  <2>3. moments' \in SUBSET SUBSET Filters
    BY <1>2, <2>2 DEF TypeOK, Add, Observe
  <2> QED BY <1>2, <2>2, <2>3 DEF TypeOK, Add, threadVars
<1>3. ASSUME NEW f \in present, Delete(f) PROVE TypeOK'
  BY <1>3 DEF TypeOK, Delete, Observe, threadVars
<1>4. CASE SessionLost
  BY <1>4 DEF TypeOK, SessionLost, threadVars
<1>5. ASSUME NEW kind \in {"all", "count"}, EnumCall(kind) PROVE TypeOK'
  <2>1. (call' = "count" => acc' \in Nat) /\ (call' = "all" => acc' \in Seq(Info))
    BY <1>5 DEF EnumCall, Empty
  <2> QED BY <1>5, <2>1 DEF TypeOK, EnumCall, engineVars
<1>6. CASE CreateHandle
  BY <1>6 DEF TypeOK, CreateHandle
<1>7. ASSUME ReturnErr, call' = call
      PROVE  /\ (call' = "count" => acc' \in Nat) /\ (call' = "all" => acc' \in Seq(Info))
             /\ pc' = "idle" /\ result' = "err" /\ moments' = {}
  BY <1>7 DEF ReturnErr, Empty
<1>8. CASE CreateFails
  <2>1. ReturnErr /\ call' = call
    BY <1>8 DEF CreateFails
  <2> QED BY <1>7, <1>8, <2>1 DEF TypeOK, CreateFails, engineVars
<1>9. CASE EnumBatch
  <2>1. batch' \in Seq(Filters)
    <3>1. PICK n \in 1..BatchSize : batch' \in [1..n -> left]
      BY <1>9 DEF EnumBatch, Batches
    <3>2. n \in Nat /\ left \subseteq Filters
      BY DEF TypeOK
    <3> QED BY <3>1, <3>2
  <2> QED BY <1>9, <2>1 DEF TypeOK, Kept, EnumBatch
<1>10. CASE EnumNone
  BY <1>10 DEF TypeOK, Kept, EnumNone, engineVars
<1>11. CASE EnumFails
  <2>1. ReturnErr /\ call' = call
    BY <1>11 DEF EnumFails
  <2> QED BY <1>7, <1>11, <2>1 DEF TypeOK, EnumFails, Destroy
<1>12. CASE Visit
  <2>1. call = "count" => Visited \in Nat
    BY DEF TypeOK, Visited
  <2>2. call = "all" => Visited \in Seq(Info)
    BY VisitedInfos
  <2> QED BY <1>12, <2>1, <2>2 DEF TypeOK, Kept, Visit, engineVars
<1>13. CASE Break
  <2>1. /\ pc' = "idle" /\ result' = "ok" /\ arrays' = 0 /\ handle' = FALSE /\ left' = {}
        /\ UNCHANGED <<present, nextId, connected, call, batch, acc, moments>>
    BY <1>13 DEF Kept, Break, Destroy, Return
  <2> QED BY <2>1 DEF TypeOK
<1>14. CASE UNCHANGED vars
  BY <1>14 DEF TypeOK, vars, engineVars, threadVars
<1> QED
  BY <1>1, <1>2, <1>3, <1>4, <1>5, <1>6, <1>8, <1>9, <1>10, <1>11, <1>12, <1>13, <1>14
  DEF Next, Thread

----------------------------------------------------------------------------
(* Kept is inductive: it has the case of every way out of the loop.        *)
LEMMA KeptInvariant == Kept /\ [Next]_vars => Kept'
<1> SUFFICES ASSUME Kept, [Next]_vars PROVE Kept'
  OBVIOUS
<1>1. ASSUME NEW rule, NEW structure, Add(rule, structure) PROVE Kept'
  BY <1>1 DEF Kept, Add, threadVars
<1>2. ASSUME NEW f, Delete(f) PROVE Kept'
  BY <1>2 DEF Kept, Delete, threadVars
<1>3. CASE SessionLost
  BY <1>3 DEF Kept, SessionLost, threadVars
<1>4. ASSUME NEW kind, EnumCall(kind) PROVE Kept'
  BY <1>4 DEF Kept, EnumCall, engineVars
<1>5. CASE CreateHandle
  BY <1>5 DEF Kept, CreateHandle
<1>6. CASE CreateFails
  BY <1>6 DEF Kept, CreateFails, ReturnErr, engineVars
<1>7. CASE EnumBatch
  BY <1>7 DEF Kept, EnumBatch
<1>8. CASE EnumNone
  BY <1>8 DEF Kept, EnumNone, engineVars
<1>9. CASE EnumFails
  BY <1>9 DEF Kept, EnumFails, ReturnErr, Destroy
<1>10. CASE Visit
  BY <1>10 DEF Kept, Visit, engineVars
<1>11. CASE Break
  BY <1>11 DEF Kept, Break, Destroy, Return
<1>12. CASE UNCHANGED vars
  BY <1>12 DEF Kept, vars, engineVars, threadVars
<1> QED
  BY <1>1, <1>2, <1>3, <1>4, <1>5, <1>6, <1>7, <1>8, <1>9, <1>10, <1>11, <1>12
  DEF Next, Thread

(* Observed is inductive: nobody can change the filters in place during a  *)
(* call without a new moment, and every moment is a finite set.            *)
LEMMA ObservedInvariant == Observed /\ [Next]_vars => Observed'
<1> SUFFICES ASSUME Observed, [Next]_vars PROVE Observed'
  OBVIOUS
<1>1. ASSUME IsFiniteSet(present'), Observe, pc' = pc PROVE Observed'
  BY <1>1 DEF Observed, Observe
<1>2. ASSUME NEW rule, NEW structure, Add(rule, structure) PROVE Observed'
  <2>1. IsFiniteSet(present')
    BY <1>2, FS_AddElement DEF Observed, Add
  <2> QED BY <1>1, <1>2, <2>1 DEF Add, threadVars
<1>3. ASSUME NEW f, Delete(f) PROVE Observed'
  <2>1. IsFiniteSet(present')
    BY <1>3, FS_RemoveElement DEF Observed, Delete
  <2> QED BY <1>1, <1>3, <2>1 DEF Delete, threadVars
<1>4. CASE SessionLost
  BY <1>4 DEF Observed, SessionLost, threadVars
<1>5. ASSUME NEW kind, EnumCall(kind) PROVE Observed'
  BY <1>5 DEF Observed, EnumCall, engineVars
<1>6. CASE CreateHandle
  BY <1>6 DEF Observed, CreateHandle
<1>7. CASE CreateFails
  BY <1>7 DEF Observed, CreateFails, ReturnErr, engineVars
<1>8. CASE EnumBatch
  BY <1>8 DEF Observed, EnumBatch
<1>9. CASE EnumNone
  BY <1>9 DEF Observed, EnumNone, engineVars
<1>10. CASE EnumFails
  BY <1>10 DEF Observed, EnumFails, ReturnErr, Destroy
<1>11. CASE Visit
  BY <1>11 DEF Observed, Visit, engineVars
<1>12. CASE Break
  BY <1>12 DEF Observed, Break, Destroy, Return
<1>13. CASE UNCHANGED vars
  BY <1>13 DEF Observed, vars, engineVars, threadVars
<1> QED
  BY <1>2, <1>3, <1>4, <1>5, <1>6, <1>7, <1>8, <1>9, <1>10, <1>11, <1>12, <1>13
  DEF Next, Thread

(* Parts is inductive.                                                     *)
LEMMA PartsInvariant == Parts /\ [Next]_vars => Parts'
<1> SUFFICES ASSUME Parts, [Next]_vars PROVE Parts'
  OBVIOUS
<1>1. IsInjective(<<>>)
  BY DEF IsInjective
<1>2. ASSUME NEW rule, NEW structure, Add(rule, structure) PROVE Parts'
  BY <1>2 DEF Parts, Add, threadVars
<1>3. ASSUME NEW f, Delete(f) PROVE Parts'
  BY <1>3 DEF Parts, Delete, threadVars
<1>4. CASE SessionLost
  BY <1>4 DEF Parts, SessionLost, threadVars
<1>5. ASSUME NEW kind, EnumCall(kind) PROVE Parts'
  BY <1>5 DEF Parts, EnumCall, engineVars
<1>6. CASE CreateHandle
  BY <1>6 DEF Parts, CreateHandle
<1>7. CASE CreateFails
  BY <1>7 DEF Parts, CreateFails, ReturnErr, engineVars
<1>8. CASE EnumBatch
  <2>1. IsInjective(batch')
    BY <1>8 DEF EnumBatch, Batches
  <2> QED BY <1>8, <2>1 DEF Parts, EnumBatch
<1>9. CASE EnumNone
  BY <1>1, <1>9 DEF Parts, EnumNone, engineVars
<1>10. CASE EnumFails
  BY <1>10 DEF Parts, EnumFails, ReturnErr, Destroy
<1>11. CASE Visit
  BY <1>1, <1>11 DEF Parts, Visit, engineVars
<1>12. CASE Break
  BY <1>12 DEF Parts, Break, Destroy, Return
<1>13. CASE UNCHANGED vars
  BY <1>13 DEF Parts, vars, engineVars, threadVars
<1> QED
  BY <1>2, <1>3, <1>4, <1>5, <1>6, <1>7, <1>8, <1>9, <1>10, <1>11, <1>12, <1>13
  DEF Next, Thread

(* A step of somebody else during the call takes nothing from it.          *)
LEMMA ProgressKept ==
  ASSUME Progressed, moments \subseteq moments', pc' = pc,
         connected' => connected, connected' \/ pc = "break" => left' = left,
         batch' = batch, acc' = acc, call' = call
  PROVE  Progressed'
<1>1. pc' = "create" => acc' = Empty(call')
  BY DEF Progressed
<1>2. ASSUME (pc' \in {"enum", "visit"} /\ connected') \/ pc' = "break"
      PROVE  \E m \in moments' :
               /\ left' \subseteq m /\ Range(batch') \subseteq m
               /\ left' \cap Range(batch') = {}
               /\ Reports(call', acc', m \ (left' \cup Range(batch')))
  <2>1. PICK m \in moments :
          /\ left \subseteq m /\ Range(batch) \subseteq m
          /\ left \cap Range(batch) = {}
          /\ Reports(call, acc, Told(m))
    BY <1>2 DEF Progressed
  <2>2. left' = left
    BY <1>2
  <2>3. Reports(call', acc', m \ (left' \cup Range(batch')))
    BY <2>1, <2>2 DEF Reports, Told
  <2> QED BY <2>1, <2>2, <2>3
<1> QED BY <1>1, <1>2 DEF Progressed, Told

(* Progressed is inductive: a batch leaves what is left for itself, and    *)
(* itself for the accumulator; what breaks the loop has nothing left.      *)
LEMMA ProgressedInvariant ==
  TypeOK /\ Parts /\ Observed /\ Progressed /\ [Next]_vars => Progressed'
<1> SUFFICES ASSUME TypeOK, Parts, Observed, Progressed, [Next]_vars PROVE Progressed'
  OBVIOUS
<1>1. ASSUME NEW rule, NEW structure, Add(rule, structure) PROVE Progressed'
  <2>1. moments \subseteq moments'
    BY <1>1 DEF Add, Observe
  <2> QED BY <1>1, <2>1, ProgressKept DEF Add, threadVars
<1>2. ASSUME NEW f, Delete(f) PROVE Progressed'
  <2>1. moments \subseteq moments'
    BY <1>2 DEF Delete, Observe
  <2> QED BY <1>2, <2>1, ProgressKept DEF Delete, threadVars
<1>3. CASE SessionLost
  <2>1. pc = "break" => left' = left
    BY <1>3 DEF SessionLost, Parts
  <2> QED BY <1>3, <2>1, ProgressKept DEF SessionLost, threadVars
<1>4. ASSUME NEW kind, EnumCall(kind) PROVE Progressed'
  BY <1>4 DEF Progressed, EnumCall, engineVars
<1>5. CASE CreateHandle
  <2>1. present \in moments /\ batch = <<>> /\ acc = Empty(call)
    BY <1>5 DEF CreateHandle, Observed, Parts, Progressed
  <2>2. Range(batch') = {} /\ left' = present
    BY <1>5, <2>1 DEF CreateHandle, Range
  <2>3. Reports(call', acc', {})
    <3>1. Reports(call, acc, {})
      BY <2>1, EmptyReports DEF TypeOK
    <3> QED BY <3>1, <1>5 DEF CreateHandle, Reports
  <2>4. present \ (left' \cup Range(batch')) = {}
    BY <2>2
  <2>5. Reports(call', acc', present \ (left' \cup Range(batch')))
    BY <2>3, <2>4, <1>5 DEF CreateHandle, Reports
  <2>6. present \in moments' /\ pc' = "enum" /\ UNCHANGED present
    BY <2>1, <1>5 DEF CreateHandle
  <2> QED BY <2>2, <2>5, <2>6 DEF Progressed, Told
<1>6. CASE CreateFails
  BY <1>6 DEF Progressed, CreateFails, ReturnErr
<1>7. CASE EnumBatch
  <2>1. PICK m \in moments :
          /\ left \subseteq m /\ Range(batch) \subseteq m /\ Reports(call, acc, Told(m))
    BY <1>7 DEF EnumBatch, Progressed
  <2>2. Range(batch) = {}
    BY <1>7 DEF EnumBatch, Parts, Range
  <2>3. Range(batch') \subseteq left /\ left' = left \ Range(batch')
    BY <1>7 DEF EnumBatch, Batches, Range
  <2>4. m \ (left' \cup Range(batch')) = Told(m)
    BY <2>1, <2>2, <2>3 DEF Told
  <2>5. Reports(call', acc', m \ (left' \cup Range(batch')))
    BY <2>1, <2>4, <1>7 DEF EnumBatch, Reports
  <2>6. m \in moments' /\ pc' = "visit"
    BY <1>7 DEF EnumBatch
  <2> QED BY <2>1, <2>3, <2>5, <2>6 DEF Progressed, Told
<1>8. CASE EnumNone
  <2>1. PICK m \in moments :
          /\ left \subseteq m /\ Range(batch) \subseteq m /\ Reports(call, acc, Told(m))
    BY <1>8 DEF EnumNone, Progressed
  <2>2. batch' = batch /\ left' = left /\ left = {} /\ Range(batch) = {}
    BY <1>8 DEF EnumNone, engineVars, Parts, Range
  <2>3. Reports(call', acc', m \ (left' \cup Range(batch')))
    BY <2>1, <2>2, <1>8 DEF EnumNone, Reports, Told
  <2>4. m \in moments' /\ pc' = "break"
    BY <1>8 DEF EnumNone
  <2> QED BY <2>1, <2>2, <2>3, <2>4 DEF Progressed, Told
<1>9. CASE EnumFails
  BY <1>9 DEF Progressed, EnumFails, ReturnErr
<1>10. CASE Visit
  <2>1. CASE ~connected
    BY <1>10, <2>1 DEF Progressed, Visit, engineVars
  <2>2. CASE connected
    <3>1. PICK m \in moments :
            /\ left \subseteq m /\ Range(batch) \subseteq m
            /\ left \cap Range(batch) = {} /\ Reports(call, acc, Told(m))
      BY <1>10, <2>2 DEF Visit, Progressed
    <3>2. IsFiniteSet(Told(m)) /\ IsInjective(batch)
      BY FS_Difference DEF Observed, Parts, Told
    <3>3. batch' = <<>> /\ left' = left /\ Range(batch') = {}
      BY <1>10 DEF Visit, engineVars, Range
    <3>4. PICK T : T = Told(m) \cup Range(batch)
      OBVIOUS
    <3>5. Told(m) \cap Range(batch) = {}
      BY DEF Told
    <3>6. PICK D : D = Told(m)
      OBVIOUS
    <3>7. Reports(call', acc', T)
      BY <3>1, <3>2, <3>4, <3>5, <3>6, <1>10, VisitedReports DEF Visit
    <3>8. T = m \ (left' \cup Range(batch'))
      BY <3>1, <3>3, <3>4 DEF Told
    <3>9. Reports(call', acc', m \ (left' \cup Range(batch')))
      BY <3>7, <3>8 DEF Reports
    <3>10. m \in moments' /\ pc' = "enum"
      BY <1>10 DEF Visit
    <3> QED BY <3>1, <3>3, <3>9, <3>10 DEF Progressed, Told
  <2> QED BY <2>1, <2>2
<1>11. CASE Break
  BY <1>11 DEF Progressed, Break, Return
<1>12. CASE UNCHANGED vars
  BY <1>12, ProgressKept DEF vars, engineVars, threadVars
<1> QED
  BY <1>1, <1>2, <1>3, <1>4, <1>5, <1>6, <1>7, <1>8, <1>9, <1>10, <1>11, <1>12
  DEF Next, Thread

(* Returned is inductive: at the break nothing is left and no batch is     *)
(* pending, so what was told is the snapshot.                              *)
LEMMA ReturnedInvariant ==
  Parts /\ Progressed /\ Returned /\ [Next]_vars => Returned'
<1> SUFFICES ASSUME Parts, Progressed, Returned, [Next]_vars PROVE Returned'
  OBVIOUS
<1>1. ASSUME moments \subseteq moments', UNCHANGED <<pc, result, call, acc>>
      PROVE  Returned'
  BY <1>1 DEF Returned, OneMoment
<1>2. ASSUME NEW rule, NEW structure, Add(rule, structure) PROVE Returned'
  <2>1. moments \subseteq moments'
    BY <1>2 DEF Add, Observe
  <2> QED BY <1>1, <1>2, <2>1 DEF Add, threadVars
<1>3. ASSUME NEW f, Delete(f) PROVE Returned'
  <2>1. moments \subseteq moments'
    BY <1>3 DEF Delete, Observe
  <2> QED BY <1>1, <1>3, <2>1 DEF Delete, threadVars
<1>4. CASE SessionLost
  BY <1>1, <1>4 DEF SessionLost, threadVars
<1>5. ASSUME NEW kind, EnumCall(kind) PROVE Returned'
  BY <1>5 DEF Returned, OneMoment, EnumCall
<1>6. CASE CreateHandle
  BY <1>6 DEF Returned, OneMoment, CreateHandle
<1>7. CASE CreateFails
  BY <1>7 DEF Returned, OneMoment, CreateFails, ReturnErr
<1>8. CASE EnumBatch
  BY <1>8 DEF Returned, OneMoment, EnumBatch
<1>9. CASE EnumNone
  BY <1>9 DEF Returned, OneMoment, EnumNone
<1>10. CASE EnumFails
  BY <1>10 DEF Returned, OneMoment, EnumFails, ReturnErr
<1>11. CASE Visit
  BY <1>11 DEF Returned, OneMoment, Visit
<1>12. CASE Break
  <2>1. PICK m \in moments : Reports(call, acc, Told(m))
    BY <1>12 DEF Break, Progressed
  <2>2. Told(m) = m
    BY <1>12 DEF Break, Parts, Told, Range
  <2>3. pc' = "idle" /\ UNCHANGED <<call, acc, moments>>
    BY <1>12 DEF Break, Return
  <2> QED BY <2>1, <2>2, <2>3 DEF Returned, OneMoment
<1>13. CASE UNCHANGED vars
  BY <1>1, <1>13 DEF vars, engineVars, threadVars
<1> QED
  BY <1>2, <1>3, <1>4, <1>5, <1>6, <1>7, <1>8, <1>9, <1>10, <1>11, <1>12, <1>13
  DEF Next, Thread

----------------------------------------------------------------------------
(* What the infos of the crate's filters tell.                             *)

(* A set counts one more with a new element.                               *)
LEMMA CountOne ==
  ASSUME NEW S, IsFiniteSet(S), NEW x, x \notin S, NEW b \in BOOLEAN,
         NEW T, T = IF b THEN S \cup {x} ELSE S
  PROVE  IsFiniteSet(T) /\ Cardinality(T) = Cardinality(S) + (IF b THEN 1 ELSE 0)
<1>1. Cardinality(S) \in Nat
  BY FS_CardinalityType
<1>2. CASE b
  BY <1>1, <1>2, FS_AddElement
<1>3. CASE ~b
  BY <1>1, <1>3
<1> QED BY <1>2, <1>3

(* There is a condition for every field that a rule gives.                 *)
LEMMA ConditionsGiven ==
  ASSUME NEW rule, IsRule(rule), AppIdKnown(rule)
  PROVE  Len(Conditions(rule)) = Cardinality(Given(rule))
<1> DEFINE Gives(field) == rule[field] # None
           One(field)   == IF Gives(field) THEN 1 ELSE 0
<1>1. /\ Len(AppPart(rule)) = One("app_path") /\ Len(RemotePortPart(rule)) = One("remote_port")
      /\ Len(LocalPortPart(rule)) = One("local_port") /\ Len(ProtocolPart(rule)) = One("protocol")
      /\ Len(RemotePart(rule)) = One("remote_ip") /\ Len(LocalPart(rule)) = One("local_ip")
  <2>1. ASSUME NEW field, NEW given PROVE Len(Equals(field, given)) = IF given # None THEN 1 ELSE 0
    <3>1. CASE given = None
      BY <3>1, NoCondition DEF Equals
    <3>2. CASE given # None
      BY <3>2, OneCondition DEF Equals
    <3> QED BY <3>1, <3>2
  <2>2. ASSUME NEW field, NEW ip PROVE Len(Address(field, ip)) = IF ip # None THEN 1 ELSE 0
    <3>1. CASE ip = None
      BY <3>1, NoCondition DEF Address
    <3>2. CASE ip # None /\ ip.v6
      BY <3>2, OneCondition DEF Address
    <3>3. CASE ip # None /\ ~ip.v6
      BY <3>3, OneCondition DEF Address
    <3> QED BY <3>1, <3>2, <3>3
  <2>3. Len(AppPart(rule)) = One("app_path")
    <3>1. rule.app_path # None <=> rule.app_path \in DOMAIN AppId
      BY RulesAssumption DEF AppIdKnown
    <3>2. CASE rule.app_path \in DOMAIN AppId
      BY <3>1, <3>2, OneCondition DEF AppPart, Application
    <3>3. CASE rule.app_path \notin DOMAIN AppId
      BY <3>1, <3>3, NoCondition DEF AppPart, Application
    <3> QED BY <3>2, <3>3
  <2>4. Len(ProtocolPart(rule)) = One("protocol")
    <3>1. rule.protocol # None => Protocol[rule.protocol] \in Nat
      BY DEF IsRule, Protocol
    <3>2. (IF rule.protocol = None THEN None ELSE Protocol[rule.protocol]) # None
          <=> rule.protocol # None
      BY <3>1, RulesAssumption
    <3> QED BY <2>1, <3>2 DEF ProtocolPart
  <2> QED BY <2>1, <2>2, <2>3, <2>4 DEF RemotePortPart, LocalPortPart, RemotePart, LocalPart
<1> DEFINE G0 == {}
           G1 == IF Gives("app_path") THEN G0 \cup {"app_path"} ELSE G0
           G2 == IF Gives("remote_port") THEN G1 \cup {"remote_port"} ELSE G1
           G3 == IF Gives("local_port") THEN G2 \cup {"local_port"} ELSE G2
           G4 == IF Gives("protocol") THEN G3 \cup {"protocol"} ELSE G3
           G5 == IF Gives("remote_ip") THEN G4 \cup {"remote_ip"} ELSE G4
           G6 == IF Gives("local_ip") THEN G5 \cup {"local_ip"} ELSE G5
<1>2. Given(rule) = G6
  BY DEF Given
<1>3. /\ G1 \subseteq {"app_path"} /\ G2 \subseteq {"app_path", "remote_port"}
      /\ G3 \subseteq {"app_path", "remote_port", "local_port"}
      /\ G4 \subseteq {"app_path", "remote_port", "local_port", "protocol"}
      /\ G5 \subseteq {"app_path", "remote_port", "local_port", "protocol", "remote_ip"}
  OBVIOUS
<1> HIDE DEF Gives
<1>4. \A field : Gives(field) \in BOOLEAN
  BY DEF Gives
<1>5. IsFiniteSet(G0) /\ Cardinality(G0) = 0
  BY FS_EmptySet
<1>6. IsFiniteSet(G1) /\ Cardinality(G1) = Cardinality(G0) + One("app_path")
  BY <1>4, <1>5, CountOne
<1> HIDE DEF G1
<1>7. IsFiniteSet(G2) /\ Cardinality(G2) = Cardinality(G1) + One("remote_port")
  BY <1>3, <1>4, <1>6, CountOne
<1> HIDE DEF G2
<1>8. IsFiniteSet(G3) /\ Cardinality(G3) = Cardinality(G2) + One("local_port")
  BY <1>3, <1>4, <1>7, CountOne
<1> HIDE DEF G3
<1>9. IsFiniteSet(G4) /\ Cardinality(G4) = Cardinality(G3) + One("protocol")
  BY <1>3, <1>4, <1>8, CountOne
<1> HIDE DEF G4
<1>10. IsFiniteSet(G5) /\ Cardinality(G5) = Cardinality(G4) + One("remote_ip")
  BY <1>3, <1>4, <1>9, CountOne
<1> HIDE DEF G5
<1>11. IsFiniteSet(G6) /\ Cardinality(G6) = Cardinality(G5) + One("local_ip")
  BY <1>3, <1>4, <1>10, CountOne
<1> HIDE DEF G6
<1>12. Len(Conditions(rule)) =
         One("app_path") + One("remote_port") + One("local_port")
         + One("protocol") + One("remote_ip") + One("local_ip")
  <2> HIDE DEF One
  <2> QED BY <1>1, ConditionParts
<1> QED BY <1>2, <1>5, <1>6, <1>7, <1>8, <1>9, <1>10, <1>11, <1>12

(* The info of the filter of a rule tells the rule.                        *)
LEMMA RuleTold ==
  ASSUME NEW rule \in Rule, NEW id
  PROVE  Tells(parse_filter(id, Filter(rule)), rule)
<1> DEFINE filter == Filter(rule)
           info   == parse_filter(id, filter)
<1>1. IsRule(rule) /\ AppIdKnown(rule)
  BY EnumerationAssumption
<1>2. /\ filter.weight = [type |-> "FWP_UINT64", value |-> rule.weight]
      /\ filter.action = translate_action(rule.action)
      /\ filter.layer = select_layer(rule.direction, is_ipv6(rule))
      /\ filter.conditions = Conditions(rule)
  BY DEF Filter
<1>3. /\ info.action = (IF filter.action \in DOMAIN FilterAction
                          THEN FilterAction[filter.action] ELSE "Other")
      /\ info.weight = WeightOf(filter.weight) /\ info.layer_key = filter.layer
      /\ info.app_path = extract_app_path(filter)
      /\ info.num_conditions = Len(filter.conditions)
  BY DEF parse_filter
<1> HIDE DEF filter, info
<1>4. info.action = rule.action
  <2>1. rule.action \in {"Permit", "Block"}
    BY <1>1 DEF IsRule
  <2>2. /\ "FWP_ACTION_PERMIT" \in DOMAIN FilterAction /\ FilterAction["FWP_ACTION_PERMIT"] = "Permit"
        /\ "FWP_ACTION_BLOCK" \in DOMAIN FilterAction /\ FilterAction["FWP_ACTION_BLOCK"] = "Block"
    BY DEF FilterAction
  <2> QED BY <1>2, <1>3, <2>1, <2>2 DEF translate_action
<1>5. info.weight = rule.weight
  <2>1. rule.weight # None
    BY <1>1, RulesAssumption DEF IsRule
  <2>2. filter.weight.type = "FWP_UINT64" /\ filter.weight.value = rule.weight
    BY <1>2
  <2> QED BY <1>3, <2>1, <2>2 DEF WeightOf
<1>6. info.layer_key.direction = rule.direction
  <2>1. filter.layer.direction = rule.direction
    BY <1>2 DEF select_layer
  <2> QED BY <1>3, <2>1
<1>7. info.num_conditions = Cardinality(Given(rule))
  BY <1>1, <1>2, <1>3, ConditionsGiven
<1>8. IF rule.app_path = None THEN info.app_path = None
      ELSE AppId[rule.app_path] = info.app_path \o <<0>>
  <2>1. info.app_path = IF rule.app_path = None THEN None ELSE UpToNul(AppId[rule.app_path])
    BY <1>1, <1>3, ShownPath DEF filter
  <2>2. rule.app_path # None =>
          AppId[rule.app_path] = UpToNul(AppId[rule.app_path]) \o <<0>>
    BY <1>1, KnownPath DEF AppIdKnown
  <2> QED BY <2>1, <2>2
<1> QED BY <1>4, <1>5, <1>6, <1>7, <1>8 DEF Tells, info, filter

(* A step of somebody else during the call takes no source away.           *)
LEMMA SourcesKept ==
  ASSUME Sourced, moments \subseteq moments', left' \subseteq left,
         \A f \in present' : Built(f), \A f \in UNION moments' : Built(f),
         UNCHANGED <<pc, batch, acc, call>>
  PROVE  Sourced'
<1>1. UNION moments \subseteq UNION moments'
  OBVIOUS
<1>2. /\ \A f \in present' \cup UNION moments' : Built(f)
      /\ pc' \in {"enum", "visit", "break"} => left' \cup Range(batch') \subseteq UNION moments'
  BY <1>1 DEF Sourced
<1>3. call' = "all" =>
        Range(acc') \subseteq {parse_filter(f.id, f.structure) : f \in UNION moments'}
  BY <1>1 DEF Sourced
<1> QED BY <1>2, <1>3 DEF Sourced, Built

(* Sourced is inductive.                                                   *)
LEMMA SourcedInvariant == TypeOK /\ Parts /\ Observed /\ Sourced /\ [Next]_vars => Sourced'
<1> SUFFICES ASSUME TypeOK, Parts, Observed, Sourced, [Next]_vars PROVE Sourced'
  OBVIOUS
<1>1. \A f \in present : Built(f)
  BY DEF Sourced
<1>2. \A f \in UNION moments : Built(f)
  BY DEF Sourced
<1>3. ASSUME \A f \in present' : Built(f), Observe, UNCHANGED <<left, pc, batch, acc, call>>
      PROVE  Sourced'
  <2>1. moments' \subseteq moments \cup {present'} /\ moments \subseteq moments'
    BY <1>3 DEF Observe
  <2>2. \A f \in UNION moments' : Built(f)
    BY <1>2, <1>3, <2>1
  <2> QED BY <1>3, <2>1, <2>2, SourcesKept
<1>4. ASSUME NEW rule \in Rule, Add(rule, Filter(rule)) PROVE Sourced'
  <2>1. \A f \in present' : Built(f)
    BY <1>1, <1>4, EnumerationAssumption DEF Add, Built
  <2> QED BY <1>3, <1>4, <2>1 DEF Add, threadVars
<1>5. ASSUME Add(None, Foreign[nextId]) PROVE Sourced'
  <2>1. nextId \in 1..MaxId
    BY <1>5, EnumerationAssumption DEF TypeOK, Add
  <2>2. Foreign[nextId].provider # "WFP_PROVIDER_GUID"
    BY <2>1, EnumerationAssumption
  <2>3. \A f \in present' : Built(f)
    BY <1>1, <1>5, <2>2 DEF Add, Built
  <2> QED BY <1>3, <1>5, <2>3 DEF Add, threadVars
<1>6. ASSUME NEW f, Delete(f) PROVE Sourced'
  <2>1. \A g \in present' : Built(g)
    BY <1>1, <1>6 DEF Delete
  <2> QED BY <1>3, <1>6, <2>1 DEF Delete, threadVars
<1>7. CASE SessionLost
  <2>1. UNCHANGED <<present, moments, pc, batch, acc, call>> /\ left' = {}
    BY <1>7 DEF SessionLost, threadVars
  <2> QED BY <1>1, <1>2, <2>1, SourcesKept
<1>8. ASSUME NEW kind, EnumCall(kind) PROVE Sourced'
  <2>1. moments' = {present} /\ present' = present /\ pc' = "create" /\ call' = kind
        /\ acc' = Empty(kind)
    BY <1>8 DEF EnumCall, engineVars
  <2>2. call' = "all" => Range(acc') = {}
    BY <2>1 DEF Empty, Range
  <2>3. \A f \in present' \cup UNION moments' : Built(f)
    BY <1>1, <2>1
  <2> QED BY <2>1, <2>2, <2>3 DEF Sourced, Built
<1>9. CASE CreateHandle
  <2>1. left' = present /\ batch' = <<>> /\ present \in moments
        /\ UNCHANGED <<present, moments, acc, call>>
    BY <1>9 DEF CreateHandle, Parts, Observed
  <2>2. Range(batch') = {}
    BY <2>1 DEF Range
  <2> QED BY <2>1, <2>2 DEF Sourced, Built
<1>10. ASSUME ReturnErr, UNCHANGED <<present, call>> PROVE Sourced'
  <2>1. moments' = {} /\ pc' = "idle" /\ acc' = Empty(call)
    BY <1>10 DEF ReturnErr
  <2>2. call' = "all" => Range(acc') = {}
    BY <1>10, <2>1 DEF Empty, Range
  <2>3. \A f \in present' \cup UNION moments' : Built(f)
    BY <1>1, <1>10, <2>1
  <2> QED BY <2>1, <2>2, <2>3 DEF Sourced, Built
<1>11. CASE CreateFails
  BY <1>10, <1>11 DEF CreateFails, engineVars
<1>12. CASE EnumBatch
  <2>1. Range(batch') \subseteq left /\ left' \subseteq left
    BY <1>12 DEF EnumBatch, Batches, Range
  <2>2. left \subseteq UNION moments /\ UNCHANGED <<present, moments, acc, call>>
    BY <1>12 DEF EnumBatch, Sourced
  <2> QED BY <2>1, <2>2 DEF Sourced, Built
<1>13. CASE EnumNone
  <2>1. left' = {} /\ batch' = <<>> /\ UNCHANGED <<present, moments, acc, call>>
    BY <1>13 DEF EnumNone, engineVars
  <2>2. Range(batch') = {}
    BY <2>1 DEF Range
  <2> QED BY <2>1, <2>2 DEF Sourced, Built
<1>14. CASE EnumFails
  BY <1>10, <1>14 DEF EnumFails, Destroy
<1>15. CASE Visit
  <2>1. /\ left' = left /\ batch' = <<>> /\ pc' = "enum" /\ acc' = Visited
        /\ UNCHANGED <<present, moments, call>>
    BY <1>15 DEF Visit, engineVars
  <2>2. Range(batch') = {}
    BY <2>1 DEF Range
  <2>3. left \cup Range(batch) \subseteq UNION moments
    BY <1>15 DEF Visit, Sourced
  <2>4. call' = "all" =>
          Range(acc') \subseteq {parse_filter(f.id, f.structure) : f \in UNION moments'}
    <3> SUFFICES ASSUME call = "all"
                 PROVE  Range(Visited) \subseteq {parse_filter(f.id, f.structure) : f \in UNION moments}
      BY <2>1
    <3>1. Range(Visited) = Range(acc) \cup {parse_filter(f.id, f.structure) : f \in Range(batch)}
      BY VisitedInfos
    <3> QED BY <2>3, <3>1 DEF Sourced
  <2> QED BY <2>1, <2>2, <2>3, <2>4 DEF Sourced, Built
<1>16. CASE Break
  <2>1. pc' = "idle" /\ UNCHANGED <<present, moments, acc, call>>
    BY <1>16 DEF Break, Destroy, Return
  <2> QED BY <2>1 DEF Sourced, Built
<1>17. CASE UNCHANGED vars
  BY <1>17 DEF Sourced, Built, vars, engineVars, threadVars
<1> QED
  BY <1>4, <1>5, <1>6, <1>7, <1>8, <1>9, <1>11, <1>12, <1>13, <1>14, <1>15, <1>16, <1>17
  DEF Next, Thread

----------------------------------------------------------------------------
(* The initial state.                                                      *)
LEMMA InitEnumInv == Init => EnumInv
<1> SUFFICES ASSUME Init PROVE EnumInv
  OBVIOUS
<1>1. TypeOK
  <2>1. 1 \in 1..MaxId + 1 /\ <<>> \in Seq(Filters) /\ <<>> \in Seq(Info)
    BY EnumerationAssumption
  <2>2. call = "all" /\ acc = <<>> /\ batch = <<>>
    BY DEF Init
  <2> QED BY <2>1, <2>2 DEF Init, TypeOK
<1>2. Parts
  BY DEF Init, Parts, IsInjective
<1>3. Observed
  BY FS_EmptySet DEF Init, Observed
<1>4. Progressed /\ Returned /\ Kept
  BY DEF Init, Progressed, Returned, OneMoment, Kept
<1>5. Sourced
  BY DEF Init, Sourced, Range
<1> QED BY <1>1, <1>2, <1>3, <1>4, <1>5 DEF EnumInv

(* The invariant is one, of Spec and so of FairSpec.                       *)
LEMMA EnumInvariant == Spec => []EnumInv
<1>1. EnumInv /\ [Next]_vars => EnumInv'
  BY TypeInvariant, PartsInvariant, ObservedInvariant, ProgressedInvariant,
     ReturnedInvariant, KeptInvariant, SourcedInvariant DEF EnumInv
<1> QED BY <1>1, InitEnumInv, PTL DEF Spec

(* The variables have their types, the accumulator that of its call.       *)
THEOREM TypeCorrect == Spec => []TypeOK
<1>1. EnumInv => TypeOK
  BY DEF EnumInv
<1> QED BY <1>1, EnumInvariant, PTL

(* all and count are linearizable, for every batch size.                   *)
THEOREM Linearizable == Spec => []OneMoment
<1>1. EnumInv => OneMoment
  BY DEF EnumInv, Returned
<1> QED BY <1>1, EnumInvariant, PTL

(* No way out of enumerate_raw leaves a handle or an array behind.         *)
THEOREM Released == Spec => []NothingLeaked
<1>1. EnumInv => NothingLeaked
  BY DEF EnumInv, Kept, NothingLeaked
<1> QED BY <1>1, EnumInvariant, PTL

(* An info with the crate's provider tells the rule of its filter, and     *)
(* only those of the crate's filters carry it.                             *)
THEOREM InfoTells == Spec => []InfoTellsRule
<1>1. EnumInv => InfoTellsRule
  <2> SUFFICES ASSUME EnumInv, call = "all", NEW i \in 1..Len(acc)
               PROVE  \E f \in UNION moments :
                        /\ f.id = acc[i].id
                        /\ (f.rule # None) = (acc[i].provider_key = "WFP_PROVIDER_GUID")
                        /\ f.rule # None => Tells(acc[i], f.rule)
    BY DEF InfoTellsRule
  <2>1. acc[i] \in Range(acc)
    <3>1. acc \in Seq(Info)
      BY DEF EnumInv, TypeOK
    <3>2. DOMAIN acc = 1..Len(acc)
      BY <3>1
    <3> QED BY <3>2 DEF Range
  <2>2. PICK f \in UNION moments : acc[i] = parse_filter(f.id, f.structure)
    BY <2>1 DEF EnumInv, Sourced
  <2>3. Built(f)
    BY DEF EnumInv, Sourced
  <2>4. acc[i].id = f.id /\ acc[i].provider_key = f.structure.provider
    BY <2>2 DEF parse_filter
  <2>5. CASE f.rule = None
    BY <2>3, <2>4, <2>5 DEF Built
  <2>6. CASE f.rule # None
    <3>1. f.rule \in Rule /\ f.structure = Filter(f.rule)
      BY <2>3, <2>6 DEF Built
    <3>2. f.structure.provider = "WFP_PROVIDER_GUID"
      BY <3>1 DEF Filter
    <3>3. Tells(acc[i], f.rule)
      BY <2>2, <3>1, RuleTold
    <3> QED BY <2>4, <2>6, <3>2, <3>3
  <2> QED BY <2>5, <2>6
<1> QED BY <1>1, EnumInvariant, PTL

----------------------------------------------------------------------------
(* The safety half of EnumReturns: how many steps the thread has at most   *)
(* ahead of it, once it has its handle.                                    *)
Ahead ==
  IF pc = "visit" THEN 2 * Cardinality(left) + 3
  ELSE IF pc = "enum" THEN 2 * Cardinality(left) + 2
  ELSE IF pc = "break" THEN 1 ELSE 0

InLoop == pc \in {"enum", "visit", "break"}

(* Each step of the thread brings the call nearer to its return, and what  *)
(* others do meanwhile never takes it further away.                        *)
Nearer ==
  /\ Ahead \in Nat
  /\ InLoop => InLoop' \/ pc' = "idle"
  /\ InLoop => Ahead' <= Ahead
  /\ InLoop /\ Thread => Ahead' < Ahead

(* The engine has finitely many filters left for an enumeration.           *)
LEMMA LeftFinite ==
  ASSUME IsFiniteSet(left), Observed, [Next]_vars
  PROVE  IsFiniteSet(left')
<1>1. CASE left' \subseteq left
  BY <1>1, FS_Subset
<1>2. CASE left' \subseteq present
  BY <1>2, FS_Subset DEF Observed
<1> QED
  BY <1>1, <1>2, FS_EmptySet
  DEF Next, Thread, Add, Delete, SessionLost, EnumCall, CreateHandle, CreateFails, EnumBatch,
      EnumNone, EnumFails, Visit, Break, Destroy, vars, engineVars, threadVars

(* A batch that is not empty leaves fewer.                                 *)
LEMMA FewerLeft ==
  ASSUME IsFiniteSet(left), EnumBatch
  PROVE  Cardinality(left') < Cardinality(left)
<1>1. PICK n \in 1..BatchSize : batch' \in [1..n -> left]
  BY DEF EnumBatch, Batches
<1>2. batch'[1] \in left /\ batch'[1] \in Range(batch')
  BY <1>1, EnumerationAssumption DEF Range
<1>3. left' \subseteq left /\ left' # left
  BY <1>2 DEF EnumBatch
<1>4. IsFiniteSet(left') /\ Cardinality(left') <= Cardinality(left)
        /\ Cardinality(left') # Cardinality(left)
  BY <1>3, FS_Subset
<1>5. Cardinality(left) \in Nat /\ Cardinality(left') \in Nat
  BY <1>4, FS_CardinalityType
<1> QED BY <1>4, <1>5

(* One step, of the thread or of anybody else.                             *)
LEMMA StepNearer ==
  ASSUME IsFiniteSet(left), Observed, [Next]_vars
  PROVE  Nearer
<1> DEFINE n == Cardinality(left)
           m == Cardinality(left')
<1>1. n \in Nat /\ m \in Nat
  BY LeftFinite, FS_CardinalityType
<1>2. left' = {} => m = 0
  BY FS_EmptySet
<1>3. left' = left => m = n
  OBVIOUS
<1>4. EnumBatch => m < n
  BY FewerLeft
<1>5. Ahead \in Nat /\ (left' = {} => m <= n)
  BY <1>1, <1>2 DEF Ahead
<1> HIDE DEF n, m
<1>6. CASE Thread
  <2> USE <1>1, <1>5 DEF Nearer, Ahead, InLoop, n, m
  <2>1. CASE CreateHandle \/ CreateFails
    BY <2>1 DEF CreateHandle, CreateFails
  <2>2. CASE EnumBatch
    BY <1>4, <2>2 DEF EnumBatch
  <2>3. CASE EnumNone
    BY <2>3 DEF EnumNone
  <2>4. CASE EnumFails
    BY <2>4 DEF EnumFails, ReturnErr
  <2>5. CASE Visit
    BY <2>5 DEF Visit, engineVars
  <2>6. CASE Break
    BY <2>6 DEF Break, Return
  <2> QED BY <1>6, <2>1, <2>2, <2>3, <2>4, <2>5, <2>6 DEF Thread
<1>7. CASE ~Thread
  <2>1. pc = "idle" \/ (pc' = pc /\ (left' = left \/ left' = {}))
    BY <1>7 DEF Next, Add, Delete, SessionLost, EnumCall, vars, engineVars, threadVars
  <2> QED BY <1>1, <1>3, <1>5, <1>7, <2>1 DEF Nearer, Ahead, InLoop, n, m
<1> QED BY <1>6, <1>7

(* all and count return after at most two steps for each filter that their *)
(* snapshot holds and two more, however the batches are cut and whatever   *)
(* programs add and delete meanwhile.                                      *)
THEOREM ReturnNears == Spec => [][Nearer]_vars
<1> DEFINE Inv == IsFiniteSet(left) /\ Observed
<1>1. Init => Inv
  BY FS_EmptySet, InitEnumInv DEF Init, EnumInv
<1>2. Inv /\ [Next]_vars => Inv'
  BY LeftFinite, ObservedInvariant
<1>3. Inv /\ [Next]_vars => Nearer
  BY StepNearer
<1> QED BY <1>1, <1>2, <1>3, PTL DEF Spec

============================================================================
