----------------------- MODULE FilterTranslationProofs -----------------------
(***************************************************************************)
(* Proofs about FilterTranslation and NetworkEvents, for any rules,        *)
(* packets, paths, widths of octets and lengths of addresses: that filters *)
(* match what their rules describe, that the heaviest rule decides, and    *)
(* that an event leads back to the rule that dropped its packet.           *)
(***************************************************************************)
EXTENDS NetworkEvents, FilterRulesProofs

(* A packet as the engine classifies it.                                   *)
IsPacket(packet) ==
  packet.local \in IpAddr /\ packet.remote \in IpAddr /\ packet.local.v6 = packet.remote.v6

(* The engine takes the rule: its file is known and its filter accepted.   *)
Taken(rule) == IsRule(rule) /\ AppIdKnown(rule) /\ Accepts(Filter(rule))

AllHold(s, packet) == \A c \in ToSet(s) : Holds(c, packet)

----------------------------------------------------------------------------
(* What one condition says of a packet.                                    *)

(* What add_filter puts into a filter.                                     *)
LEMMA FilterFields ==
  ASSUME NEW rule
  PROVE  /\ Filter(rule).conditions = Conditions(rule)
         /\ Filter(rule).layer = select_layer(rule.direction, is_ipv6(rule))
         /\ Filter(rule).layer.v6 = is_ipv6(rule)
         /\ Filter(rule).weight = [type |-> "FWP_UINT64", value |-> rule.weight]
         /\ Filter(rule).weight.value = rule.weight
         /\ Filter(rule).action = translate_action(rule.action)
         /\ Filter(rule).provider = "WFP_PROVIDER_GUID"
  BY DEF Filter, select_layer

(* A filter matches when all its conditions hold.                          *)
LEMMA AllHave ==
  ASSUME NEW rule, NEW packet
  PROVE  Matches(Filter(rule), packet) <=>
           /\ rule.direction = packet.direction
           /\ is_ipv6(rule) = packet.remote.v6
           /\ AllHold(AppPart(rule), packet)
           /\ AllHold(RemotePortPart(rule), packet)
           /\ AllHold(LocalPortPart(rule), packet)
           /\ AllHold(ProtocolPart(rule), packet)
           /\ AllHold(RemotePart(rule), packet)
           /\ AllHold(LocalPart(rule), packet)
  <1>1. Filter(rule).conditions = Conditions(rule)
    BY DEF Filter
  <1>2. AtLayer(Filter(rule), packet) <=>
          rule.direction = packet.direction /\ is_ipv6(rule) = packet.remote.v6
    <2>1. Filter(rule).layer = select_layer(rule.direction, is_ipv6(rule))
      BY DEF Filter
    <2> QED BY <2>1 DEF AtLayer, select_layer
  <1>3. (\A c \in ToSet(Conditions(rule)) :
           \E d \in ToSet(Conditions(rule)) : d.field = c.field /\ Holds(d, packet))
        <=> AllHold(Conditions(rule), packet)
    BY OnePerField DEF AllHold
  <1>4. AllHold(Conditions(rule), packet) <=>
           /\ AllHold(AppPart(rule), packet)
           /\ AllHold(RemotePortPart(rule), packet)
           /\ AllHold(LocalPortPart(rule), packet)
           /\ AllHold(ProtocolPart(rule), packet)
           /\ AllHold(RemotePart(rule), packet)
           /\ AllHold(LocalPart(rule), packet)
    BY ConditionParts DEF AllHold
  <1> QED BY <1>1, <1>2, <1>3, <1>4 DEF Matches

(* Whether one condition holds.                                            *)
LEMMA OneHolds ==
  ASSUME NEW field, NEW type, NEW value, NEW packet
  PROVE  AllHold(Condition(field, type, value), packet) <=>
           Holds(TheCondition(field, type, value), packet)
  BY OneCondition DEF AllHold

(* A field the rule omits has no condition, and any packet will do.        *)
LEMMA NoneHolds ==
  ASSUME NEW packet
  PROVE  AllHold(<<>>, packet)
  BY NoCondition DEF AllHold

(* A number that is given has to be the packet's.                          *)
LEMMA ScalarHolds ==
  ASSUME NEW field, NEW given, NEW packet
  PROVE  AllHold(Equals(field, given), packet) <=> given = None \/ packet[field] = given
  <1>1. CASE given = None
    BY <1>1, NoneHolds DEF Equals
  <1>2. CASE given # None
    <2>1. Holds(TheCondition(field, "scalar", given), packet) <=> packet[field] = given
      BY DEF Holds, TheCondition
    <2> QED BY <1>2, <2>1, OneHolds DEF Equals
  <1> QED BY <1>1, <1>2

(* An application that is given has to be the packet's.                    *)
LEMMA ApplicationHolds ==
  ASSUME NEW rule, AppIdKnown(rule), NEW packet
  PROVE  AllHold(AppPart(rule), packet) <=>
           \/ rule.app_path = None
           \/ rule.app_path \in DOMAIN AppId /\ AppId[rule.app_path] = packet.app
  <1>1. CASE rule.app_path = None
    BY <1>1, NoneHolds, RulesAssumption DEF AppPart, Application
  <1>2. CASE rule.app_path # None
    <2>1. rule.app_path \in DOMAIN AppId
      BY <1>2 DEF AppIdKnown
    <2>2. AppPart(rule) = Condition("app", "blob", Blob(AppId[rule.app_path]))
      BY <2>1 DEF AppPart, Application
    <2>3. Holds(TheCondition("app", "blob", Blob(AppId[rule.app_path])), packet) <=>
            packet.app = AppId[rule.app_path]
      BY DEF Holds, TheCondition, Blob
    <2> QED BY <1>2, <2>1, <2>2, <2>3, OneHolds
  <1> QED BY <1>1, <1>2

(* An IPv4 condition compares the bits that the mask sets, an IPv6 one the *)
(* leading bits; in both cases that is the membership in the subnet.       *)
LEMMA AddressHolds ==
  ASSUME NEW field, NEW ip \in IpMask \cup {None}, NEW packet, packet[field] \in IpAddr,
         ip # None => ip.v6 = packet[field].v6 /\ (ip.v6 => ip.prefix <= Width)
  PROVE  AllHold(Address(field, ip), packet) <=> InSubnet(ip, packet[field])
  <1>1. CASE ip = None
    BY <1>1, NoneHolds DEF Address, InSubnet
  <1>2. CASE ip # None
    <2> DEFINE low == Low(ip.prefix)
               a   == FromBeBytes(ip.octets)
               b   == FromBeBytes(packet[field].octets)
    <2>1. /\ ip \in IpMask /\ ip.prefix \in Nat /\ ip.v6 \in BOOLEAN
          /\ ip.octets \in Octets /\ packet[field].octets \in Octets
      BY <1>2 DEF IpMask, IpAddr
    <2>2. a \in 0..(2^Width - 1) /\ b \in 0..(2^Width - 1) /\ low \in 0..Width
      BY <2>1, FromBeBytesType, LowType
    <2>3. InSubnet(ip, packet[field]) <=> a \div 2^low = b \div 2^low
      BY <1>2 DEF InSubnet, Low
    <2>4. InSubnet(ip, packet[field]) <=> \A i \in low..(Width - 1) : Bit(a, i) = Bit(b, i)
      <3> HIDE DEF a, b, low
      <3> QED BY <2>2, <2>3, BitsDecide
    <2>5. CASE ~ip.v6
      <3> DEFINE mask == prefix_to_v4_mask(ip.prefix)
                 value == [addr |-> a, mask |-> mask]
      <3>1. Address(field, ip) = Condition(field, "v4", value)
        BY <1>2, <2>5 DEF Address
      <3>2. Holds(TheCondition(field, "v4", value), packet) <=>
              \A i \in 0..(Width - 1) : Bit(mask, i) = 1 => Bit(a, i) = Bit(b, i)
        <4> HIDE DEF a, mask
        <4> QED BY DEF Holds, TheCondition
      <3>3. \A i \in 0..(Width - 1) : Bit(mask, i) = 1 <=> i >= low
        BY <2>1, <2>2, MaskValue, MaskBit
      <3>4. low..(Width - 1) \subseteq 0..(Width - 1) /\
            \A i \in 0..(Width - 1) : i \in low..(Width - 1) <=> i >= low
        <4> HIDE DEF low
        <4> QED BY <2>2, WidthType
      <3> HIDE DEF a, b, low, mask
      <3>5. (\A i \in 0..(Width - 1) : Bit(mask, i) = 1 => Bit(a, i) = Bit(b, i)) <=>
            \A i \in low..(Width - 1) : Bit(a, i) = Bit(b, i)
        BY <3>3, <3>4
      <3> HIDE DEF value
      <3> QED BY <2>4, <3>1, <3>2, <3>5, OneHolds
    <2>6. CASE ip.v6
      <3> DEFINE value == [addr |-> ip.octets, prefix |-> ip.prefix]
      <3>1. Address(field, ip) = Condition(field, "v6", value)
        BY <1>2, <2>6 DEF Address
      <3>2. low = Width - ip.prefix
        BY <1>2, <2>1, <2>6, WidthType DEF Low
      <3>3. Holds(TheCondition(field, "v6", value), packet) <=>
              \A i \in (Width - ip.prefix)..(Width - 1) : Bit(a, i) = Bit(b, i)
        BY DEF Holds, TheCondition
      <3> HIDE DEF a, b, low, value
      <3> QED BY <2>4, <3>1, <3>2, <3>3, OneHolds
    <2> QED BY <2>1, <2>5, <2>6
  <1> QED BY <1>1, <1>2

(* The engine accepts an address of a rule only in the family of the       *)
(* filter's layer, and an IPv6 one only with a prefix that exists.         *)
LEMMA AcceptedAddress ==
  ASSUME NEW rule, Taken(rule), NEW ip \in {rule.remote_ip, rule.local_ip}, ip # None
  PROVE  ip \in IpMask /\ ip.v6 = is_ipv6(rule) /\ (ip.v6 => ip.prefix <= Width)
  <1> DEFINE filter == Filter(rule)
  <1>1. /\ rule.remote_ip \in IpMask \cup {None} /\ rule.local_ip \in IpMask \cup {None}
        /\ ip \in IpMask /\ ip.v6 \in BOOLEAN
    BY DEF Taken, IsRule, IpMask
  <1>2. is_ipv6(rule) \in BOOLEAN
    BY <1>1 DEF is_ipv6, IpMask
  <1>3. filter.layer.v6 = is_ipv6(rule) /\ filter.conditions = Conditions(rule)
    BY DEF Filter, select_layer
  <1>4. PICK field : ToSet(Address(field, ip)) \subseteq ToSet(Conditions(rule))
    <2>1. \/ ip = rule.remote_ip /\ RemotePart(rule) = Address("remote", ip)
          \/ ip = rule.local_ip /\ LocalPart(rule) = Address("local", ip)
      BY DEF RemotePart, LocalPart
    <2> QED BY <2>1, ConditionParts
  <1> DEFINE type == IF ip.v6 THEN "v6" ELSE "v4"
             value == IF ip.v6 THEN [addr |-> ip.octets, prefix |-> ip.prefix]
                      ELSE [addr |-> FromBeBytes(ip.octets), mask |-> prefix_to_v4_mask(ip.prefix)]
             c == TheCondition(field, type, value)
  <1>5. Address(field, ip) = Condition(field, type, value)
    BY DEF Address
  <1>6. c \in ToSet(filter.conditions)
    <2> HIDE DEF type, value, filter
    <2> QED BY <1>3, <1>4, <1>5, OneCondition
  <1>7. /\ c.type = "v4" => ~filter.layer.v6
        /\ c.type = "v6" => filter.layer.v6 /\ c.value.prefix <= Width
    <2> HIDE DEF c, filter
    <2> QED BY <1>6 DEF Taken, Accepts, filter
  <1>8. c.type = type /\ c.value = value
    BY DEF TheCondition
  <1>9. CASE ip.v6
    <2>1. type = "v6" /\ value.prefix = ip.prefix
      BY <1>9
    <2> HIDE DEF c, type, value, filter
    <2> QED BY <1>1, <1>2, <1>3, <1>7, <1>8, <1>9, <2>1
  <1>10. CASE ~ip.v6
    <2>1. type = "v4"
      BY <1>10
    <2> HIDE DEF c, type, value, filter
    <2> QED BY <1>1, <1>2, <1>3, <1>7, <1>8, <1>10, <2>1
  <1> QED BY <1>9, <1>10

----------------------------------------------------------------------------
(* The filter of a rule matches what the rule describes.                   *)
LEMMA MatchExact ==
  ASSUME NEW rule, Taken(rule), Translated(rule),
         NEW packet, IsPacket(packet), SameFamily(rule, packet)
  PROVE  Matches(Filter(rule), packet) <=> RuleMatches(rule, packet)
  <1>1. /\ rule.remote_ip \in IpMask \cup {None} /\ rule.local_ip \in IpMask \cup {None}
        /\ rule.protocol \in DOMAIN Protocol \cup {None} /\ AppIdKnown(rule)
    BY DEF Taken, IsRule
  <1>2. /\ packet.local \in IpAddr /\ packet.remote \in IpAddr
        /\ packet.local.v6 = packet.remote.v6 /\ packet.remote.v6 \in BOOLEAN
    BY DEF IsPacket, IpAddr
  <1>3. /\ rule.remote_ip # None => /\ rule.remote_ip.v6 = is_ipv6(rule)
                                    /\ rule.remote_ip.v6 => rule.remote_ip.prefix <= Width
        /\ rule.local_ip # None => /\ rule.local_ip.v6 = is_ipv6(rule)
                                   /\ rule.local_ip.v6 => rule.local_ip.prefix <= Width
    BY AcceptedAddress
  <1>4. AllHold(RemotePortPart(rule), packet) <=> Gives(rule.remote_port, packet.remote_port)
    BY ScalarHolds DEF RemotePortPart, Gives
  <1>5. AllHold(LocalPortPart(rule), packet) <=> Gives(rule.local_port, packet.local_port)
    BY ScalarHolds DEF LocalPortPart, Gives
  <1>6. AllHold(ProtocolPart(rule), packet) <=>
          rule.protocol = None \/ Protocol[rule.protocol] = packet.protocol
    <2>1. CASE rule.protocol = None
      BY <2>1, ScalarHolds DEF ProtocolPart
    <2>2. CASE rule.protocol # None
      <3>1. Protocol[rule.protocol] \in Nat
        BY <1>1, <2>2 DEF Protocol
      <3>2. Protocol[rule.protocol] # None
        BY <3>1, RulesAssumption
      <3> QED BY <2>2, <3>2, ScalarHolds DEF ProtocolPart
    <2> QED BY <2>1, <2>2
  <1>7. is_ipv6(rule) = packet.remote.v6 =>
          /\ AllHold(RemotePart(rule), packet) <=> InSubnet(rule.remote_ip, packet.remote)
          /\ AllHold(LocalPart(rule), packet) <=> InSubnet(rule.local_ip, packet.local)
    BY <1>1, <1>2, <1>3, AddressHolds DEF RemotePart, LocalPart
  <1>8. InSubnet(rule.remote_ip, packet.remote) /\ InSubnet(rule.local_ip, packet.local)
        => is_ipv6(rule) = packet.remote.v6
    BY <1>2, <1>3 DEF InSubnet, SameFamily, is_ipv6
  <1>9. AllHold(AppPart(rule), packet) <=>
          \/ rule.app_path = None
          \/ rule.app_path \in DOMAIN AppId /\ AppId[rule.app_path] = packet.app
    BY <1>1, ApplicationHolds
  <1>10. Gives(rule.service_name, packet.service) /\ Gives(rule.app_container_sid, packet.container)
    BY DEF Translated, Gives
  <1>11. Matches(Filter(rule), packet) <=>
           /\ rule.direction = packet.direction
           /\ is_ipv6(rule) = packet.remote.v6
           /\ AllHold(AppPart(rule), packet)
           /\ AllHold(RemotePortPart(rule), packet)
           /\ AllHold(LocalPortPart(rule), packet)
           /\ AllHold(ProtocolPart(rule), packet)
           /\ AllHold(RemotePart(rule), packet)
           /\ AllHold(LocalPart(rule), packet)
    BY AllHave
  <1> QED BY <1>4, <1>5, <1>6, <1>7, <1>8, <1>9, <1>10, <1>11 DEF RuleMatches

----------------------------------------------------------------------------
(* The invariant: the filters in place are those of rules that the engine  *)
(* took, and the blob is that of the call in progress.                     *)

Installed ==
  \A e \in installed :
    e.rule \in world.rules /\ e.filter = Filter(e.rule) /\ AppIdKnown(e.rule) /\ Accepts(e.filter)

TranslationInv ==
  /\ TypeOK /\ BlobFreed /\ Installed
  /\ adding # None => AppIdKnown(adding) /\ adds < world.adds

(* The rules and packets of a world are what WorldAssumption says of them. *)
LEMMA WorldTypes ==
  ASSUME TypeOK
  PROVE  /\ \A rule \in world.rules : IsRule(rule) /\ rule # None
         /\ \A packet \in world.packets : IsPacket(packet)
         /\ world.adds \in Nat /\ world.ticks \subseteq Nat
  BY WorldAssumption DEF TypeOK, IsPacket

(* At the start nothing is in place.                                       *)
LEMMA InitTranslation == Init => TranslationInv
  <1> SUFFICES ASSUME Init PROVE TranslationInv
    OBVIOUS
  <1>1. world.adds \in Nat
    BY WorldAssumption DEF Init
  <1>2. TypeOK
    <2>1. world \in World /\ adding \in world.rules \cup {None}
      BY DEF Init
    <2>2. blob \in BOOLEAN
      BY DEF Init
    <2>3. adds \in 0..world.adds
      BY <1>1 DEF Init
    <2>4. installed = {}
      BY DEF Init
    <2> QED BY <2>1, <2>2, <2>3, <2>4 DEF TypeOK
  <1>3. BlobFreed /\ Installed
    BY DEF Init, BlobFreed, Installed
  <1> QED BY <1>2, <1>3 DEF Init, TranslationInv

(* The invariant is inductive.                                             *)
LEMMA NextTranslation == TranslationInv /\ [Next]_vars => TranslationInv'
  <1> SUFFICES ASSUME TranslationInv, [Next]_vars PROVE TranslationInv'
    OBVIOUS
  <1>1. /\ TypeOK /\ BlobFreed /\ Installed /\ world.adds \in Nat /\ adds \in Nat
        /\ adding # None => AppIdKnown(adding) /\ adds < world.adds
    BY WorldTypes DEF TranslationInv, TypeOK
  <1>2. ASSUME NEW rule \in world.rules, AddCall(rule) PROVE TranslationInv'
    <2>1. TypeOK'
      BY <1>1, <1>2 DEF TypeOK, AddCall
    <2>2. BlobFreed'
      <3>1. rule # None
        BY <1>1, WorldTypes
      <3> QED BY <1>2, <3>1 DEF BlobFreed, AddCall
    <2>3. Installed'
      BY <1>1, <1>2 DEF Installed, AddCall
    <2> QED BY <1>1, <1>2, <2>1, <2>2, <2>3 DEF TranslationInv, AddCall
  <1>3. CASE FilterAdded
    <2> DEFINE new == [id |-> adds', rule |-> adding, filter |-> Filter(adding)]
    <2>1. /\ adding \in world.rules /\ AppIdKnown(adding) /\ Accepts(Filter(adding))
          /\ adds < world.adds /\ adds' = adds + 1 /\ installed' = installed \cup {new}
          /\ world' = world /\ adding' = None /\ blob' = FALSE
      BY <1>1, <1>3 DEF TypeOK, FilterAdded, FreeBlob
    <2>2. new.id = adds + 1 /\ new.rule = adding /\ new.filter = Filter(adding)
      BY <2>1
    <2> HIDE DEF new
    <2>3. \A e \in installed : e.id \in 1..adds
      BY <1>1 DEF TypeOK
    <2>4. \A e \in installed' : e.id \in 1..adds' /\ e.rule \in world.rules
      BY <1>1, <2>1, <2>2 DEF TypeOK
    <2>5. \A e, o \in installed' : e.id = o.id => e = o
      <3>1. \A e \in installed : e.id # new.id
        BY <1>1, <2>2, <2>3
      <3> QED BY <1>1, <2>1, <3>1 DEF TypeOK
    <2>6. TypeOK'
      <3>1. world' \in World /\ adding' \in world'.rules \cup {None}
        BY <1>1, <2>1 DEF TypeOK
      <3>2. blob' \in BOOLEAN
        BY <2>1
      <3>3. adds' \in 0..world'.adds
        BY <1>1, <2>1
      <3>4. \A e \in installed' : e.id \in 1..adds' /\ e.rule \in world'.rules
        BY <2>1, <2>4
      <3> QED BY <2>5, <3>1, <3>2, <3>3, <3>4 DEF TypeOK
    <2>7. BlobFreed'
      BY <2>1 DEF BlobFreed
    <2>8. Installed'
      BY <1>1, <2>1, <2>2 DEF Installed
    <2> QED BY <2>1, <2>6, <2>7, <2>8 DEF TranslationInv
  <1>4. CASE FilterRefused
    <2>1. TypeOK'
      BY <1>1, <1>4 DEF TypeOK, FilterRefused, FreeBlob
    <2>2. BlobFreed'
      BY <1>4 DEF BlobFreed, FilterRefused, FreeBlob
    <2>3. Installed'
      BY <1>1, <1>4 DEF Installed, FilterRefused
    <2> QED BY <1>4, <2>1, <2>2, <2>3 DEF TranslationInv, FilterRefused
  <1>5. ASSUME NEW id, DeleteFilter(id) PROVE TranslationInv'
    <2>1. installed' \subseteq installed /\ UNCHANGED <<world, adding, blob, adds>>
      BY <1>5 DEF DeleteFilter
    <2>2. TypeOK'
      BY <1>1, <2>1 DEF TypeOK
    <2>3. BlobFreed' /\ Installed'
      BY <1>1, <2>1 DEF BlobFreed, Installed
    <2> QED BY <1>1, <2>1, <2>2, <2>3 DEF TranslationInv
  <1>6. CASE UNCHANGED vars
    <2>1. UNCHANGED <<world, adding, blob, adds, installed>>
      BY <1>6 DEF vars
    <2>2. TypeOK' /\ BlobFreed' /\ Installed'
      BY <1>1, <2>1 DEF TypeOK, BlobFreed, Installed
    <2> QED BY <1>1, <2>1, <2>2 DEF TranslationInv
  <1> QED BY <1>2, <1>3, <1>4, <1>5, <1>6 DEF Next

(* The invariant holds in every reachable state.                           *)
LEMMA TranslationInvariant == Spec => []TranslationInv
  BY InitTranslation, NextTranslation, PTL DEF Spec

----------------------------------------------------------------------------
(* What the invariant means.                                               *)

(* The variables have their types; no two filters in place share an id.    *)
THEOREM TranslationTypes == Spec => []TypeOK
  <1>1. TranslationInv => TypeOK
    BY DEF TranslationInv
  <1> QED BY <1>1, TranslationInvariant, PTL

(* No call of add_filter leaves its blob behind or frees it early.         *)
THEOREM NoBlobLeft == Spec => []BlobFreed
  <1>1. TranslationInv => BlobFreed
    BY DEF TranslationInv
  <1> QED BY <1>1, TranslationInvariant, PTL

(* A filter in place and a packet that its rule is meant for: the filter   *)
(* matches exactly when the rule describes the packet.                     *)
LEMMA EntryExact ==
  ASSUME TranslationInv, NEW e \in installed, NEW packet \in world.packets,
         Translated(e.rule), SameFamily(e.rule, packet)
  PROVE  Matches(e.filter, packet) <=> RuleMatches(e.rule, packet)
  <1>1. e.filter = Filter(e.rule) /\ Taken(e.rule) /\ IsPacket(packet)
    BY WorldTypes DEF TranslationInv, Installed, Taken
  <1> QED BY <1>1, MatchExact

(* Translation is exact: masks, byte orders, layers and absent conditions  *)
(* make a filter match what its rule describes and nothing else, whatever  *)
(* the rule, the packet, the prefix and the width of addresses.            *)
THEOREM ExactTranslation == Spec => []TranslationExact
  <1>1. TranslationInv => TranslationExact
    BY EntryExact DEF TranslationExact
  <1> QED BY <1>1, TranslationInvariant, PTL

(* The rules of the highest weight among those that describe a packet      *)
(* decide about it.                                                        *)
THEOREM HeaviestDecides == Spec => []HeaviestRuleDecides
  <1>1. TranslationInv => HeaviestRuleDecides
    <2> SUFFICES ASSUME TranslationInv, NEW packet \in world.packets,
                        \A e \in installed : Translated(e.rule) /\ SameFamily(e.rule, packet)
                 PROVE  LET matching == {e.rule : e \in {e \in installed : RuleMatches(e.rule, packet)}}
                        IN  Verdicts(packet) =
                              {translate_action(r.action) :
                                 r \in {r \in matching : \A o \in matching : o.weight <= r.weight}}
      BY DEF HeaviestRuleDecides
    <2> DEFINE entries  == {e \in installed : RuleMatches(e.rule, packet)}
               matching == {e.rule : e \in entries}
               heaviest == {r \in matching : \A o \in matching : o.weight <= r.weight}
               deciding == Deciding(packet)
    <2>1. {e \in installed : Matches(e.filter, packet)} = entries
      BY EntryExact
    <2>2. \A e \in installed : e.filter.weight.value = e.rule.weight
                              /\ e.filter.action = translate_action(e.rule.action)
      <3>1. \A e \in installed : e.filter = Filter(e.rule)
        BY DEF TranslationInv, Installed
      <3> QED BY <3>1, FilterFields
    <2>3. deciding = {e \in entries : \A o \in entries : o.rule.weight <= e.rule.weight}
      BY <2>1, <2>2 DEF Deciding
    <2>4. deciding \subseteq installed
      BY <2>3
    <2> HIDE DEF entries, deciding
    <2>5. heaviest = {e.rule : e \in deciding}
      BY <2>3
    <2>6. Verdicts(packet) = {translate_action(e.rule.action) : e \in deciding}
      BY <2>2, <2>4 DEF Verdicts, deciding
    <2> HIDE DEF heaviest
    <2>7. Verdicts(packet) = {translate_action(r.action) : r \in heaviest}
      BY <2>5, <2>6
    <2> QED BY <2>7 DEF entries, heaviest
  <1> QED BY <1>1, TranslationInvariant, PTL

(* An address mask that from_cidr returns is one that the engine takes in  *)
(* a rule, and the rule means the subnet that was written.                 *)
THEOREM CidrTaken == Spec => []CidrAccepted
  <1>1. TypeOK => CidrAccepted
    <2> SUFFICES ASSUME TypeOK, NEW parts \in world.texts, from_cidr(parts) # None
                 PROVE  LET rule == With(FilterRule("Outbound", "Block"), "remote_ip", from_cidr(parts))
                        IN  /\ Accepts(Filter(rule))
                            /\ \A packet \in world.packets :
                                 Matches(Filter(rule), packet) <=> RuleMatches(rule, packet)
      BY DEF CidrAccepted
    <2> DEFINE ip   == from_cidr(parts)
               rule == With(FilterRule("Outbound", "Block"), "remote_ip", ip)
    <2>1. ip \in IpMask /\ ip.prefix <= Width
      <3>1. /\ Len(parts) = 2 /\ parts[1].addr # None /\ parts[2].num # None
            /\ parts[2].num <= Width
            /\ ip = IpAddrMask(parts[1].addr.v6, parts[1].addr.octets, parts[2].num)
        BY DEF from_cidr
      <3>2. parts[1].addr \in IpAddr /\ parts[2].num \in Nat
        BY <3>1, WorldAssumption DEF TypeOK
      <3> QED BY <3>1, <3>2 DEF IpAddr, IpMask, IpAddrMask
    <2> HIDE DEF ip
    <2>2. /\ rule.direction = "Outbound" /\ rule.action = "Block"
          /\ rule.weight = FilterWeight.UserPermit
          /\ rule.app_path = None /\ rule.service_name = None /\ rule.app_container_sid = None
          /\ rule.local_ip = None /\ rule.remote_ip = ip /\ rule.protocol = None
          /\ rule.local_port = None /\ rule.remote_port = None
      BY DEF With, FilterRule
    <2> HIDE DEF rule
    <2>3. IsRule(rule) /\ AppIdKnown(rule) /\ Translated(rule) /\ ip # None
      <3>1. FilterWeight.UserPermit \in Nat
        BY SMT DEF FilterWeight
      <3> QED BY <2>1, <2>2, <3>1 DEF IsRule, AppIdKnown, Translated, ip
    <2>4. /\ Filter(rule).conditions = Conditions(rule)
          /\ Filter(rule).layer.v6 = ip.v6
      <3>1. ip.v6 \in BOOLEAN
        BY <2>1 DEF IpMask
      <3>2. is_ipv6(rule) = ip.v6
        BY <2>2, <2>3, <3>1 DEF is_ipv6
      <3> QED BY <3>2, FilterFields
    <2>5. ToSet(Conditions(rule)) = ToSet(Address("remote", ip))
      <3>1. /\ AppPart(rule) = <<>> /\ RemotePortPart(rule) = <<>> /\ LocalPortPart(rule) = <<>>
            /\ ProtocolPart(rule) = <<>> /\ LocalPart(rule) = <<>>
        BY <2>2, RulesAssumption
        DEF AppPart, RemotePortPart, LocalPortPart, ProtocolPart, LocalPart, Application, Equals, Address
      <3> QED BY <2>2, <3>1, ConditionParts, NoCondition DEF RemotePart
    <2>6. Accepts(Filter(rule))
      <3> SUFFICES ASSUME NEW c \in ToSet(Address("remote", ip))
                   PROVE  /\ c.type = "v4" => ~ip.v6
                          /\ c.type = "v6" => ip.v6 /\ c.value.prefix <= Width
        BY <2>4, <2>5 DEF Accepts
      <3>1. CASE ip.v6
        <4> DEFINE value == [addr |-> ip.octets, prefix |-> ip.prefix]
        <4>1. c = TheCondition("remote", "v6", value)
          BY <2>3, <3>1, OneCondition DEF Address
        <4>2. c.type = "v6" /\ c.value = value /\ value.prefix = ip.prefix
          BY <4>1 DEF TheCondition
        <4> HIDE DEF value
        <4> QED BY <2>1, <3>1, <4>2
      <3>2. CASE ~ip.v6
        <4> DEFINE value == [addr |-> FromBeBytes(ip.octets), mask |-> prefix_to_v4_mask(ip.prefix)]
        <4>1. c = TheCondition("remote", "v4", value)
          BY <2>3, <3>2, OneCondition DEF Address
        <4>2. c.type = "v4"
          BY <4>1 DEF TheCondition
        <4> QED BY <3>2, <4>2
      <3> QED BY <3>1, <3>2
    <2>7. ASSUME NEW packet \in world.packets
          PROVE  Matches(Filter(rule), packet) <=> RuleMatches(rule, packet)
      <3>1. IsPacket(packet) /\ SameFamily(rule, packet) /\ Taken(rule)
        BY <2>2, <2>3, <2>6, WorldTypes DEF SameFamily, Taken
      <3> QED BY <2>3, <3>1, MatchExact
    <2> QED BY <2>6, <2>7 DEF rule, ip
  <1> QED BY <1>1, TranslationTypes, PTL

----------------------------------------------------------------------------
(* Events.                                                                 *)

(* The event of a dropped packet leads back to the rule that dropped it,   *)
(* whatever else is in place: by its filter id to one filter, by its path  *)
(* to what an enumeration shows of that filter.                            *)
THEOREM EventLeadsBack == Spec => []EventFindsRule
  <1>1. TranslationInv => EventFindsRule
    <2> SUFFICES ASSUME TranslationInv, NEW packet \in world.packets, NEW e \in Dropping(packet)
                 PROVE  LeadsBack(e, packet) /\ BlamesNone(e, packet)
      BY DEF EventFindsRule
    <2> DEFINE raised == Event(3, 0, DropInfo(e), packet)
               event  == parse_network_event(raised)
               found  == {o \in installed : o.id = event.filter_id}
               info   == parse_filter(e.id, e.filter)
    <2>1. /\ e \in installed /\ Matches(e.filter, packet) /\ e.filter = Filter(e.rule)
          /\ Taken(e.rule) /\ IsPacket(packet) /\ TypeOK
      BY WorldTypes DEF TranslationInv, Installed, Taken, Dropping, Deciding
    <2>2. e.id \in Nat /\ e.filter.layer \in Layer
      <3>1. e.id \in Nat
        BY <2>1 DEF TypeOK
      <3>2. e.rule.direction \in {"Inbound", "Outbound"}
        BY <2>1 DEF Taken, IsRule
      <3>3. is_ipv6(e.rule) \in BOOLEAN
        BY <2>1 DEF Taken, IsRule, is_ipv6, IpMask
      <3>4. select_layer(e.rule.direction, is_ipv6(e.rule)) \in Layer
        <4>1. PICK direction \in {"Inbound", "Outbound"} : direction = e.rule.direction
          BY <3>2
        <4>2. PICK v6 \in BOOLEAN : v6 = is_ipv6(e.rule)
          BY <3>3
        <4>3. [direction |-> direction, v6 |-> v6] \in Layer
          BY DEF Layer
        <4> QED BY <4>1, <4>2, <4>3 DEF select_layer
      <3> QED BY <2>1, <3>1, <3>4, FilterFields
    <2>3. /\ raised.type = 3 /\ raised.appId = packet.app
          /\ raised.info = [filterId |-> e.id, layerId |-> LayerNumber(e.filter.layer)]
          /\ raised.ipVersion = (IF packet.remote.v6 THEN 1 ELSE 0)
          /\ raised.localPort = packet.local_port /\ raised.remotePort = packet.remote_port
      BY DEF Event, DropInfo
    <2>4. Dropped(raised)
      <3>1. LayerNumber(e.filter.layer) \in Nat
        BY DEF LayerNumber
      <3>2. raised.info # None
        BY <2>2, <2>3, <3>1, EventAssumption
      <3> QED BY <2>3, <3>2 DEF Dropped, EventType
    <2>5. /\ event.app_path = IF packet.app = None THEN None ELSE parse_wide_string(packet.app)
          /\ event.local_port = packet.local_port /\ event.remote_port = packet.remote_port
          /\ event.filter_id = e.id
          /\ event.remote_addr = ParseUnion(raised.ipVersion, raised.remote)
      <3> HIDE DEF raised
      <3> QED BY <2>3, <2>4 DEF parse_network_event
    <2>6. event.remote_addr.v6 = packet.remote.v6
      <3>1. packet.remote.v6 \in BOOLEAN
        BY <2>1 DEF IsPacket, IpAddr
      <3>2. ParseUnion(raised.ipVersion, raised.remote).v6 = packet.remote.v6
        <4> HIDE DEF raised
        <4>1. CASE packet.remote.v6
          <5>1. raised.ipVersion = 1
            BY <2>3, <4>1
          <5>2. ParseUnion(raised.ipVersion, raised.remote) = [v6 |-> TRUE, octets |-> raised.remote]
            BY <5>1 DEF ParseUnion
          <5>3. ParseUnion(raised.ipVersion, raised.remote).v6 = TRUE
            BY <5>2
          <5> QED BY <3>1, <4>1, <5>3
        <4>2. CASE ~packet.remote.v6
          <5>1. raised.ipVersion = 0
            BY <2>3, <4>2
          <5>2. ParseUnion(raised.ipVersion, raised.remote) =
                  [v6 |-> FALSE, octets |-> ToNeBytes(raised.remote)]
            BY <5>1 DEF ParseUnion
          <5>3. ParseUnion(raised.ipVersion, raised.remote).v6 = FALSE
            BY <5>2
          <5> QED BY <3>1, <4>2, <5>3
        <4> QED BY <4>1, <4>2
      <3> QED BY <2>5, <3>2
    <2>7. found = {e}
      BY <2>1, <2>5 DEF TypeOK
    <2>8. info.app_path = extract_app_path(e.filter)
      BY DEF parse_filter
    <2>9. info.app_path \in {None, event.app_path}
      <3>1. extract_app_path(e.filter) =
              IF e.rule.app_path = None THEN None ELSE UpToNul(AppId[e.rule.app_path])
        BY <2>1, ShownPath DEF Taken
      <3>2. CASE e.rule.app_path = None
        BY <2>8, <3>1, <3>2
      <3>3. CASE e.rule.app_path # None
        <4> DEFINE file == e.rule.app_path
        <4>1. file \in DOMAIN AppId
          BY <2>1, <3>3 DEF Taken, AppIdKnown
        <4>2. AllHold(AppPart(e.rule), packet)
          BY <2>1, AllHave
        <4>3. AppId[file] = packet.app
          BY <2>1, <3>3, <4>2, ApplicationHolds DEF Taken
        <4>4. packet.app # None
          BY <4>1, <4>3, PathAssumption
        <4>5. parse_wide_string(packet.app) = UpToNul(AppId[file])
          BY <4>1, <4>3, KnownPath DEF parse_wide_string
        <4> HIDE DEF info, event
        <4> QED BY <2>5, <2>8, <3>1, <3>3, <4>4, <4>5
      <3> QED BY <3>2, <3>3
    <2>10. Translated(e.rule) /\ SameFamily(e.rule, packet) => RuleMatches(e.rule, packet)
      BY <2>1, MatchExact
    <2> HIDE DEF raised, event, info
    <2>11. e \in found
      BY <2>7
    <2>12. LeadsBack(e, packet)
      BY <2>5, <2>6, <2>7, <2>9, <2>10, <2>11 DEF event, raised, info, LeadsBack
    <2>13. BlamesNone(e, packet)
      <3>1. ASSUME NEW type \in 0..7, NEW what, type # 3 \/ what = None
            PROVE  ~Dropped(Event(type, 0, what, packet))
        BY <3>1 DEF Dropped, EventType, Event
      <3> QED BY <3>1 DEF BlamesNone, parse_network_event
    <2> QED BY <2>12, <2>13
  <1> QED BY <1>1, TranslationInvariant, PTL

(* The halves of a FILETIME make up its ticks again.                       *)
LEMMA HalvesMeet ==
  ASSUME NEW tick \in Nat
  PROVE  FileTime(tick).high * 2^HalfBits + FileTime(tick).low = tick
  <1> DEFINE half == 2^HalfBits
  <1>1. half \in Nat \ {0}
    BY EventAssumption, PowerType
  <1>2. FileTime(tick).high = tick \div half /\ FileTime(tick).low = tick % half
    BY DEF FileTime
  <1> HIDE DEF half
  <1>3. tick = half * (tick \div half) + (tick % half) /\ tick \div half \in Nat
    BY <1>1, Division
  <1>4. half * (tick \div half) = (tick \div half) * half
    BY <1>1, <1>3
  <1>5. FileTime(tick).high * half + FileTime(tick).low = tick
    BY <1>2, <1>3, <1>4
  <1> QED BY <1>5 DEF half

(* Times are exact, at every tick, whatever the epoch and the units.       *)
THEOREM ExactTimes == Spec => []TimestampExact
  <1>1. TypeOK => TimestampExact
    <2> SUFFICES ASSUME TypeOK, NEW tick \in world.ticks
                 PROVE  LET time == filetime_to_systemtime(FileTime(tick))
                            past == IF tick < WindowsToUnixEpoch THEN 0 ELSE tick - WindowsToUnixEpoch
                        IN  /\ time.secs * TicksPerSecond * NanosPerTick + time.nanos = past * NanosPerTick
                            /\ time.nanos < TicksPerSecond * NanosPerTick
      BY DEF TimestampExact
    <2> DEFINE time == filetime_to_systemtime(FileTime(tick))
               unix == tick - WindowsToUnixEpoch
               t    == TicksPerSecond
               n    == NanosPerTick
               s    == unix \div t
               r    == unix % t
    <2>1. /\ tick \in Nat /\ WindowsToUnixEpoch \in Nat
          /\ t \in Nat \ {0} /\ n \in Nat \ {0}
      BY WorldTypes, EventAssumption
    <2>2. time = IF tick >= WindowsToUnixEpoch
                   THEN [secs |-> s, nanos |-> r * n] ELSE [secs |-> 0, nanos |-> 0]
      BY <2>1, HalvesMeet DEF filetime_to_systemtime
    <2> HIDE DEF time
    <2>3. CASE tick >= WindowsToUnixEpoch
      <3>1. unix \in Nat
        BY <2>1, <2>3
      <3>2. s \in Nat /\ r \in 0..(t - 1) /\ unix = t * s + r
        <4> HIDE DEF unix, t
        <4> QED BY <2>1, <3>1, Division
      <3> HIDE DEF unix, s, r, t, n
      <3>3. s * t * n + r * n = unix * n
        <4>1. (t * s + r) * n = (t * s) * n + r * n
          BY <2>1, <3>2
        <4>2. t * s = s * t
          BY <2>1, <3>2
        <4> QED BY <3>2, <4>1, <4>2
      <3>4. r * n < t * n
        <4>1. r * n <= (t - 1) * n /\ r * n \in Nat
          BY <2>1, <3>2
        <4>2. (t - 1) * n = t * n - n /\ t * n \in Nat
          BY <2>1
        <4> QED BY <2>1, <4>1, <4>2
      <3>5. time.secs = s /\ time.nanos = r * n
        BY <2>2, <2>3
      <3>6. ~(tick < WindowsToUnixEpoch)
        BY <2>1, <2>3
      <3> QED BY <3>3, <3>4, <3>5, <3>6 DEF time, unix, t, n
    <2>4. CASE ~(tick >= WindowsToUnixEpoch)
      <3>1. time.secs = 0 /\ time.nanos = 0 /\ tick < WindowsToUnixEpoch
        BY <2>1, <2>2, <2>4
      <3> HIDE DEF t, n
      <3>2. 0 * t * n + 0 = 0 * n /\ 0 < t * n
        <4>1. 0 * t = 0 /\ 0 * n = 0
          BY <2>1
        <4>2. t * n \in Nat \ {0}
          BY <2>1
        <4> QED BY <4>1, <4>2, <2>1
      <3> QED BY <3>1, <3>2 DEF time, t, n
    <2> QED BY <2>3, <2>4
  <1> QED BY <1>1, TranslationTypes, PTL

============================================================================
