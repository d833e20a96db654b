------------------------- MODULE FilterTranslation -------------------------
(***************************************************************************)
(* From rules to verdicts: clients add and delete filters through          *)
(* FilterBuilder (filter_builder.rs), and the filtering engine (external)  *)
(* applies the filters in place to the packets that come by.               *)
(***************************************************************************)
EXTENDS FilterRules

CONSTANTS
  World          (* the settings that are looked at: rules clients add,    *)
                 (* packets that come by, texts of address masks, times,   *)
                 (* and, as a bound, adds                                  *)

(* Packets belong to one family.                                           *)
ASSUME WorldAssumption ==
  \A w \in World :
    /\ w.adds \in Nat
    /\ None \notin w.rules /\ \A rule \in w.rules : IsRule(rule)
    /\ \A packet \in w.packets :
         packet.local \in IpAddr /\ packet.remote \in IpAddr /\ packet.local.v6 = packet.remote.v6
    /\ \A parts \in w.texts : \A i \in 1..Len(parts) :
         parts[i].addr \in IpAddr \cup {None} /\ parts[i].num \in Nat \cup {None}
    /\ w.ticks \subseteq Nat

VARIABLES
  world,         (* the setting, chosen at the start                       *)
  adding,        (* the rule whose add_filter is between its two calls     *)
  blob,          (* the app-id blob of that call is allocated              *)
  adds,          (* filter ids handed out                                  *)
  installed      (* the filters in the sublayer, each with its rule and id *)

vars == <<world, adding, blob, adds, installed>>

----------------------------------------------------------------------------
(* The filtering engine (external).                                        *)

(* It refuses an address of the wrong family and an impossible prefix.     *)
Accepts(filter) ==
  \A c \in ToSet(filter.conditions) :
    /\ c.type = "v4" => ~filter.layer.v6
    /\ c.type = "v6" => filter.layer.v6 /\ c.value.prefix <= Width

(* A packet's connection shows up at the layer of its direction and family. *)
AtLayer(filter, packet) ==
  filter.layer = select_layer(packet.direction, packet.remote.v6)

Holds(c, packet) ==
  CASE c.type = "scalar" -> packet[c.field] = c.value
    [] c.type = "blob" -> packet[c.field] = c.value.units
    [] c.type = "v4" -> \A i \in 0..Width - 1 :
         Bit(c.value.mask, i) = 1 =>
           Bit(c.value.addr, i) = Bit(FromBeBytes(packet[c.field].octets), i)
    [] c.type = "v6" -> \A i \in Width - c.value.prefix .. Width - 1 :
         Bit(FromBeBytes(c.value.addr), i) = Bit(FromBeBytes(packet[c.field].octets), i)

(* Conditions on the same field are alternatives, different fields all     *)
(* have to hold.                                                           *)
Matches(filter, packet) ==
  /\ AtLayer(filter, packet)
  /\ \A c \in ToSet(filter.conditions) :
       \E d \in ToSet(filter.conditions) : d.field = c.field /\ Holds(d, packet)

(* Of the matching filters those of the highest weight decide.             *)
Deciding(packet) ==
  LET matching == {e \in installed : Matches(e.filter, packet)}
  IN  {e \in matching : \A o \in matching : o.filter.weight.value <= e.filter.weight.value}

Verdicts(packet) == {e.filter.action : e \in Deciding(packet)}

----------------------------------------------------------------------------
(* The clients.                                                            *)

Init ==
  /\ world \in World
  /\ adding = None
  /\ blob = FALSE
  /\ adds = 0
  /\ installed = {}

(* add_filter, with FwpmGetAppIdFromFileName0 if the rule names a file.    *)
(* AppPathNotFound leaves everything as it was.                            *)
AddCall(rule) ==
  /\ adding = None
  /\ adds < world.adds
  /\ AppIdKnown(rule)
  /\ adding' = rule
  /\ blob' = (rule.app_path # None)
  /\ UNCHANGED <<world, adds, installed>>

(* After FwpmFilterAdd0, whatever it returned.                             *)
FreeBlob == blob' = FALSE

(* Mutant: the id is read before the engine has filled it in.              *)
FilterAddedStaleId ==
  /\ adding # None
  /\ Accepts(Filter(adding))
  /\ adds' = adds + 1
  /\ installed' = installed \cup {[id |-> adds, rule |-> adding, filter |-> Filter(adding)]}
  /\ FreeBlob
  /\ adding' = None
  /\ UNCHANGED world

FilterAdded ==
  /\ adding # None
  /\ Accepts(Filter(adding))
  /\ adds' = adds + 1
  /\ installed' = installed \cup {[id |-> adds', rule |-> adding, filter |-> Filter(adding)]}
  /\ FreeBlob
  /\ adding' = None
  /\ UNCHANGED world

(* Mutant: an early return with the error.                                 *)
FilterRefusedEarly ==
  /\ adding # None
  /\ adding' = None
  /\ UNCHANGED <<world, blob, adds, installed>>

(* FilterAddFailed, for a filter the engine does not accept or any reason. *)
FilterRefused ==
  /\ adding # None
  /\ FreeBlob
  /\ adding' = None
  /\ UNCHANGED <<world, adds, installed>>

DeleteFilter(id) ==
  /\ \E e \in installed : e.id = id
  /\ installed' = {e \in installed : e.id # id}
  /\ UNCHANGED <<world, adding, blob, adds>>

Next ==
  \/ \E rule \in world.rules : AddCall(rule)
  \/ FilterAdded \/ FilterRefused
  \/ \E id \in 1..adds : DeleteFilter(id)

Spec == Init /\ [][Next]_vars

----------------------------------------------------------------------------
(* What a rule means, from its documentation: all that it gives has to     *)
(* match, what it omits matches all.                                       *)

Gives(given, actual) == given = None \/ given = actual

(* The leading bits agree; a prefix longer than the address is all of it.  *)
InSubnet(ip, address) ==
  \/ ip = None
  \/ /\ ip.v6 = address.v6
     /\ LET low == IF ip.prefix >= Width THEN 0 ELSE Width - ip.prefix
        IN  FromBeBytes(ip.octets) \div 2^low = FromBeBytes(address.octets) \div 2^low

RuleMatches(rule, packet) ==
  /\ rule.direction = packet.direction
  /\ \/ rule.app_path = None
     \/ rule.app_path \in DOMAIN AppId /\ AppId[rule.app_path] = packet.app
  /\ Gives(rule.service_name, packet.service)
  /\ Gives(rule.app_container_sid, packet.container)
  /\ Gives(rule.local_port, packet.local_port)
  /\ Gives(rule.remote_port, packet.remote_port)
  /\ rule.protocol = None \/ Protocol[rule.protocol] = packet.protocol
  /\ InSubnet(rule.local_ip, packet.local)
  /\ InSubnet(rule.remote_ip, packet.remote)

(* Rules whose meaning the translation is meant to reach: no identity that *)
(* it ignores, and a family, or packets of the family it assumes.          *)
Translated(rule) == rule.service_name = None /\ rule.app_container_sid = None
SameFamily(rule, packet) ==
  rule.remote_ip # None \/ rule.local_ip # None \/ ~packet.remote.v6

----------------------------------------------------------------------------
(* Properties.                                                             *)

TypeOK ==
  /\ world \in World
  /\ adding \in world.rules \cup {None}
  /\ blob \in BOOLEAN
  /\ adds \in 0..world.adds
  /\ \A e \in installed : e.id \in 1..adds /\ e.rule \in world.rules
  /\ \A e, o \in installed : e.id = o.id => e = o

(* Whatever FwpmFilterAdd0 says, no call of add_filter leaves the blob of  *)
(* its application path behind, and none is freed under FwpmFilterAdd0.    *)
BlobFreed == blob <=> adding # None /\ adding.app_path # None

(* An address mask parsed from a text is one the engine takes: a rule with *)
(* it is not refused because of it, and means the subnet written.          *)
CidrAccepted ==
  \A parts \in world.texts :
    LET ip == from_cidr(parts)
        rule == With(FilterRule("Outbound", "Block"), "remote_ip", ip)
    IN  ip # None =>
          /\ Accepts(Filter(rule))
          /\ \A packet \in world.packets :
               Matches(Filter(rule), packet) <=> RuleMatches(rule, packet)

(* Every filter in place matches exactly the packets its rule describes:   *)
(* nothing is lost in masks, byte orders, layers and options, and a rule   *)
(* naming an application that does not exist never matches all of them.    *)
TranslationExact ==
  \A e \in installed, packet \in world.packets :
    Translated(e.rule) /\ SameFamily(e.rule, packet) =>
      (Matches(e.filter, packet) <=> RuleMatches(e.rule, packet))

(* Of several rules the one of the highest weight decides, as documented;  *)
(* only rules of equal weight leave the choice to the engine.              *)
HeaviestRuleDecides ==
  \A packet \in world.packets :
    (\A e \in installed : Translated(e.rule) /\ SameFamily(e.rule, packet)) =>
      LET matching == {e.rule : e \in {e \in installed : RuleMatches(e.rule, packet)}}
      IN  Verdicts(packet) =
            {translate_action(r.action) : r \in {r \in matching : \A o \in matching : o.weight <= r.weight}}

(* What the documentation says and the code does not do.                   *)

(* "omitting a condition means match all": a block-everything rule leaves  *)
(* no packet of its direction to fall through.                             *)
BlockAllBlocks ==
  \A e \in installed, packet \in world.packets :
    e.rule = block_all_outbound /\ RuleMatches(e.rule, packet) => Matches(e.filter, packet)

(* "Windows service name (matched via service SID)", "AppContainer SID":   *)
(* a rule for one service matches no packet of another.                    *)
ServiceRespected ==
  \A e \in installed, packet \in world.packets :
    Matches(e.filter, packet) =>
      /\ Gives(e.rule.service_name, packet.service)
      /\ Gives(e.rule.app_container_sid, packet.container)

============================================================================
