---------------------------- MODULE AtomicRules ----------------------------
(***************************************************************************)
(* What windows-wfp promises to the programs that share one firewall,      *)
(* without handles, sessions, objects or calls that fail.  Every client    *)
(* has a set of rules in force.  It changes that set by one rule at a      *)
(* time, or it alone drafts a new set, which replaces the old one in a     *)
(* single step or is thrown away.  No step touches two clients, except     *)
(* the one that stops the firewall.                                        *)
(***************************************************************************)

CONSTANTS
  Owner,      (* the clients                                               *)
  Id          (* names of rules, never given twice                         *)

VARIABLES
  rules,      (* the rules of each client that are in force                *)
  writer,     (* the client with a draft, or "none"                        *)
  draft,      (* what will be in force if it commits                       *)
  issued      (* names given so far                                        *)

vars == <<rules, writer, draft, issued>>

Init ==
  /\ rules = [c \in Owner |-> {}]
  /\ writer = "none"
  /\ draft = {}
  /\ issued = {}

Issue(i) ==
  /\ i \in Id \ issued
  /\ issued' = issued \cup {i}

(* One rule more, under a new name, or one rule less; while one client     *)
(* drafts nobody writes.                                                   *)
Apply(c) ==
  /\ writer = "none"
  /\ \/ \E i \in Id : Issue(i) /\ rules' = [rules EXCEPT ![c] = @ \cup {i}]
     \/ \E i \in rules[c] : rules' = [rules EXCEPT ![c] = @ \ {i}] /\ UNCHANGED issued
  /\ UNCHANGED <<writer, draft>>

Begin(c) ==
  /\ writer = "none"
  /\ writer' = c
  /\ draft' = rules[c]
  /\ UNCHANGED <<rules, issued>>

Prepare(c) ==
  /\ writer = c
  /\ \/ \E i \in Id : Issue(i) /\ draft' = draft \cup {i}
     \/ \E i \in draft : draft' = draft \ {i} /\ UNCHANGED issued
  /\ UNCHANGED <<rules, writer>>

NoDraft == writer' = "none" /\ draft' = {}

Commit(c) ==
  /\ writer = c
  /\ rules' = [rules EXCEPT ![c] = draft]
  /\ NoDraft
  /\ UNCHANGED issued

Discard(c) ==
  /\ writer = c
  /\ NoDraft
  /\ UNCHANGED <<rules, issued>>

(* A client goes, with its rules and its draft.                            *)
Leave(c) ==
  /\ rules' = [rules EXCEPT ![c] = {}]
  /\ IF writer = c THEN NoDraft ELSE UNCHANGED <<writer, draft>>
  /\ UNCHANGED issued

(* A name that never comes into force.                                     *)
Waste ==
  /\ \E i \in Id : Issue(i)
  /\ UNCHANGED <<rules, writer, draft>>

Stop ==
  /\ rules' = [c \in Owner |-> {}]
  /\ NoDraft
  /\ UNCHANGED issued

Next ==
  \/ \E c \in Owner :
       Apply(c) \/ Begin(c) \/ Prepare(c) \/ Commit(c) \/ Discard(c) \/ Leave(c)
  \/ Waste \/ Stop

Spec == Init /\ [][Next]_vars

============================================================================
