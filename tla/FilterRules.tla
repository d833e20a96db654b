---------------------------- MODULE FilterRules ----------------------------
(***************************************************************************)
(* Values of windows-wfp and what it makes of them: the FilterRule and its *)
(* presets (filter.rs, condition.rs), layer and weight (layer.rs), the     *)
(* FWPM_FILTER0 that FilterBuilder::add_filter builds from a rule          *)
(* (filter_builder.rs), and the FilterInfo that FilterEnumerator::all      *)
(* reads out of any FWPM_FILTER0 (filter_enum.rs).                         *)
(*                                                                         *)
(* An address is a family and its octets, most significant first.  Octets  *)
(* have OctetBits bits and addresses NumOctets octets, for both families.  *)
(* A wide string is a sequence of units, 0 its terminator; a byte blob is  *)
(* its size in bytes and the units in memory from its start.               *)
(***************************************************************************)
EXTENDS Integers, FiniteSets, Sequences, SequencesExt

CONSTANTS
  OctetBits,     (* bits of an octet, 8 in the code                        *)
  NumOctets,     (* octets of an address, 4 and 16 in the code             *)
  None,          (* the absent Option, and the null pointer                *)
  AppId,         (* NT path, terminated, of each file that can be found    *)
  Lone           (* a unit that is not well-formed UTF-16                  *)

ASSUME RulesAssumption ==
  /\ OctetBits \in Nat \ {0} /\ NumOctets \in Nat \ {0}
  /\ None \notin Nat /\ Lone \notin Nat /\ None \notin DOMAIN AppId

----------------------------------------------------------------------------
(* Numbers and strings.                                                    *)

Width == OctetBits * NumOctets
Ones  == 2^Width - 1

(* u32::from_be_bytes, and to_ne_bytes on a little-endian machine.         *)
FromBeBytes(octets) ==
  LET value[i \in 0..NumOctets] ==
        IF i = 0 THEN 0 ELSE value[i - 1] * 2^OctetBits + octets[i]
  IN  value[NumOctets]

ToNeBytes(n) == [i \in 1..NumOctets |-> (n \div 2^(OctetBits * (i - 1))) % 2^OctetBits]

Bit(n, i) == (n \div 2^i) % 2

(* Mutant: shifts by the prefix itself.                                    *)
ShiftByPrefix(prefix) == IF prefix >= Width THEN Ones ELSE (Ones * 2^prefix) % 2^Width

prefix_to_v4_mask(prefix) ==
  IF prefix = 0 THEN 0
  ELSE IF prefix >= Width THEN Ones
  ELSE (Ones * 2^(Width - prefix)) % 2^Width

(* The units before the terminator, all of them if there is none.          *)
UpToNul(units) ==
  LET stops == {i \in 1..Len(units) : units[i] = 0}
  IN  IF stops = {} THEN units
      ELSE SubSeq(units, 1, (CHOOSE i \in stops : \A j \in stops : i <= j) - 1)

Blob(units) == [size |-> 2 * Len(units), units |-> units]

(* The path the engine has for a file is well-formed, not empty, and ends  *)
(* at its only terminator.                                                 *)
ASSUME PathAssumption ==
  \A file \in DOMAIN AppId :
    /\ None \notin {AppId[file], Blob(AppId[file])}
    /\ AppId[file] \in Seq(Nat) /\ Len(AppId[file]) > 1
    /\ \A i \in 1..Len(AppId[file]) : AppId[file][i] = 0 <=> i = Len(AppId[file])

----------------------------------------------------------------------------
(* FilterRule.                                                             *)

Octets == [1..NumOctets -> 0..2^OctetBits - 1]
IpAddr == [v6 : BOOLEAN, octets : Octets]
IpMask == [v6 : BOOLEAN, octets : Octets, prefix : Nat]

FilterWeight ==
  [Blocklist |-> 9000000, RawSocketPermit |-> 8000000, RawSocketBlock |-> 7000000,
   UserBlock |-> 6000000, UserPermit |-> 5000000, DefaultPermit |-> 4000000,
   DefaultBlock |-> 3000000]

Protocol ==
  [Hopopt |-> 0, Icmp |-> 1, Igmp |-> 2, Tcp |-> 6, Udp |-> 17, Gre |-> 47,
   Esp |-> 50, Ah |-> 51, Icmpv6 |-> 58]

FilterRule(direction, action) ==
  [direction |-> direction, action |-> action, weight |-> FilterWeight.UserPermit,
   app_path |-> None, service_name |-> None, app_container_sid |-> None,
   local_ip |-> None, remote_ip |-> None, local_port |-> None,
   remote_port |-> None, protocol |-> None]

(* What Rust's types say of the fields that the translation looks into.    *)
IsRule(rule) ==
  /\ rule.direction \in {"Inbound", "Outbound"} /\ rule.action \in {"Permit", "Block"}
  /\ rule.weight \in Nat
  /\ rule.local_ip \in IpMask \cup {None} /\ rule.remote_ip \in IpMask \cup {None}
  /\ rule.protocol \in DOMAIN Protocol \cup {None}

(* The with_* methods.                                                     *)
With(rule, field, value) == [rule EXCEPT ![field] = value]

Preset(direction, action, weight) ==
  With(FilterRule(direction, action), "weight", FilterWeight[weight])

block_all_outbound == Preset("Outbound", "Block", "Blocklist")
allow_all_outbound == Preset("Outbound", "Permit", "DefaultPermit")
block_all_inbound  == Preset("Inbound", "Block", "DefaultBlock")
default_block      == Preset("Outbound", "Block", "DefaultBlock")

(* IpAddrMask::new checks nothing.                                         *)
IpAddrMask(v6, octets, prefix) == [v6 |-> v6, octets |-> octets, prefix |-> prefix]

(* Mutant: any u8 will do.                                                 *)
FromCidrUnbounded(parts) ==
  IF Len(parts) = 2 /\ parts[1].addr # None /\ parts[2].num # None
    THEN IpAddrMask(parts[1].addr.v6, parts[1].addr.octets, parts[2].num)
    ELSE None

(* The text is cut at each '/'; a part is what it parses to as an address  *)
(* and as a u8, None where it does not.  None is any of the three errors.  *)
from_cidr(parts) ==
  IF /\ Len(parts) = 2
     /\ parts[1].addr # None
     /\ parts[2].num # None /\ parts[2].num <= Width
    THEN IpAddrMask(parts[1].addr.v6, parts[1].addr.octets, parts[2].num)
    ELSE None

----------------------------------------------------------------------------
(* FilterBuilder::add_filter, up to the call of FwpmFilterAdd0.            *)

(* The remote address decides the family, without one the local address,   *)
(* without both it is IPv4.                                                *)
is_ipv6(rule) ==
  \/ rule.remote_ip # None /\ rule.remote_ip.v6
  \/ rule.remote_ip = None /\ rule.local_ip # None /\ rule.local_ip.v6

Layer == [direction : {"Inbound", "Outbound"}, v6 : BOOLEAN]
select_layer(direction, v6) == [direction |-> direction, v6 |-> v6]

translate_action(action) == IF action = "Permit" THEN "FWP_ACTION_PERMIT" ELSE "FWP_ACTION_BLOCK"

Condition(field, type, value) == <<[field |-> field, type |-> type, value |-> value]>>

(* A condition on a field that the rule gives, none on one it omits.       *)
Equals(field, given) == IF given = None THEN <<>> ELSE Condition(field, "scalar", given)

(* Mutant: a file that is not found only loses the condition.              *)
AppIdIgnored(rule) == TRUE

(* The path of a rule that names one has to resolve (AppPathNotFound).     *)
AppIdKnown(rule) == rule.app_path = None \/ rule.app_path \in DOMAIN AppId

Application(path) ==
  IF path \in DOMAIN AppId THEN Condition("app", "blob", Blob(AppId[path])) ELSE <<>>

(* FWP_V4_ADDR_AND_MASK or FWP_V6_ADDR_AND_MASK.                           *)
Address(field, ip) ==
  IF ip = None THEN <<>>
  ELSE IF ip.v6
    THEN Condition(field, "v6", [addr |-> ip.octets, prefix |-> ip.prefix])
    ELSE Condition(field, "v4", [addr |-> FromBeBytes(ip.octets),
                                 mask |-> prefix_to_v4_mask(ip.prefix)])

(* There is no condition for service_name and app_container_sid.           *)
Conditions(rule) ==
  Application(rule.app_path)
  \o Equals("remote_port", rule.remote_port)
  \o Equals("local_port", rule.local_port)
  \o Equals("protocol", IF rule.protocol = None THEN None ELSE Protocol[rule.protocol])
  \o Address("remote", rule.remote_ip)
  \o Address("local", rule.local_ip)

(* Mutant: the weight is left to the engine.                               *)
FilterUnweighted(rule) ==
  [provider   |-> "WFP_PROVIDER_GUID",
   sublayer   |-> "WFP_SUBLAYER_GUID",
   layer      |-> select_layer(rule.direction, is_ipv6(rule)),
   weight     |-> [type |-> "FWP_EMPTY", value |-> 0],
   action     |-> translate_action(rule.action),
   conditions |-> Conditions(rule)]

Filter(rule) ==
  [provider   |-> "WFP_PROVIDER_GUID",
   sublayer   |-> "WFP_SUBLAYER_GUID",
   layer      |-> select_layer(rule.direction, is_ipv6(rule)),
   weight     |-> [type |-> "FWP_UINT64", value |-> rule.weight],
   action     |-> translate_action(rule.action),
   conditions |-> Conditions(rule)]

----------------------------------------------------------------------------
(* parse_filter: what an enumeration tells of a filter, anybody's.  A      *)
(* filter in place is an id and the structure it was added with.           *)

FilterAction ==
  [FWP_ACTION_BLOCK |-> "Block", FWP_ACTION_PERMIT |-> "Permit",
   FWP_ACTION_CALLOUT_TERMINATING |-> "CalloutTerminating",
   FWP_ACTION_CALLOUT_INSPECTION |-> "CalloutInspection",
   FWP_ACTION_CALLOUT_UNKNOWN |-> "CalloutUnknown"]

(* The numbers it knows, also behind a pointer; 0 for whatever else.       *)
WeightOf(weight) ==
  IF weight.type \in {"FWP_UINT8", "FWP_UINT16", "FWP_UINT32", "FWP_UINT64"}
       /\ weight.value # None
    THEN weight.value ELSE 0

(* Mutant: the terminator is taken for a part of the path.                 *)
WholePath(blob) == SubSeq(blob.units, 1, blob.size \div 2)

Path(blob) == UpToNul(SubSeq(blob.units, 1, blob.size \div 2))

(* Of the first condition on the application, if it is a byte blob with    *)
(* data, whole units and a well-formed string in it.                       *)
extract_app_path(filter) ==
  LET apps  == {i \in DOMAIN filter.conditions : filter.conditions[i].field = "app"}
      first == filter.conditions[CHOOSE i \in apps : \A j \in apps : i <= j]
      blob  == first.value
  IN  IF apps = {} \/ first.type # "blob" \/ blob = None THEN None
      ELSE IF blob.size = 0 \/ blob.size % 2 # 0 THEN None
      ELSE IF Lone \in ToSet(Path(blob)) THEN None
      ELSE Path(blob)

parse_filter(id, filter) ==
  [id             |-> id,
   action         |-> IF filter.action \in DOMAIN FilterAction
                        THEN FilterAction[filter.action] ELSE "Other",
   provider_key   |-> filter.provider,
   weight         |-> WeightOf(filter.weight),
   layer_key      |-> filter.layer,
   sublayer_key   |-> filter.sublayer,
   app_path       |-> extract_app_path(filter),
   num_conditions |-> Len(filter.conditions)]

============================================================================
