--------------------------- MODULE NetworkEvents ---------------------------
(***************************************************************************)
(* What the event callback reports of a packet: the FWPM_NET_EVENT1 that   *)
(* the engine raises (external), and parse_network_event with its helpers  *)
(* (events.rs).  Composed with FilterTranslation, whose filters decide     *)
(* which packets are dropped and which id the event carries.               *)
(***************************************************************************)
EXTENDS FilterTranslation

CONSTANTS
  HalfBits,             (* bits of half a FILETIME, 32 in the code          *)
  WindowsToUnixEpoch,   (* 116444736000000000 in the code                   *)
  TicksPerSecond,       (* of a FILETIME, 10_000_000 in the code            *)
  NanosPerTick          (* 100 in the code                                  *)

ASSUME EventAssumption ==
  /\ HalfBits \in Nat \ {0} /\ WindowsToUnixEpoch \in Nat
  /\ TicksPerSecond \in Nat \ {0} /\ NanosPerTick \in Nat \ {0}
  /\ None \notin [filterId : Nat, layerId : Nat]

----------------------------------------------------------------------------
(* The engine (external).                                                  *)

FileTime(tick) == [high |-> tick \div 2^HalfBits, low |-> tick % 2^HalfBits]

(* IPv4 addresses come as numbers, IPv6 addresses as octets.               *)
Union(address) == IF address.v6 THEN address.octets ELSE FromBeBytes(address.octets)

(* A layer's number at run time, not its GUID.                             *)
LayerNumber(layer) ==
  (IF layer.v6 THEN 1 ELSE 0) + (IF layer.direction = "Inbound" THEN 2 ELSE 0)

DropInfo(entry) == [filterId |-> entry.id, layerId |-> LayerNumber(entry.filter.layer)]

(* An event about a packet.  The union at its end holds a pointer, which   *)
(* may be null, to what the event's type is about: `info`.                 *)
Event(type, tick, info, packet) ==
  [type       |-> type,
   timeStamp  |-> FileTime(tick),
   appId      |-> packet.app,
   ipVersion  |-> IF packet.remote.v6 THEN 1 ELSE 0,
   local      |-> Union(packet.local),
   remote     |-> Union(packet.remote),
   ipProtocol |-> packet.protocol,
   localPort  |-> packet.local_port,
   remotePort |-> packet.remote_port,
   info       |-> info]

----------------------------------------------------------------------------
(* parse_network_event.                                                    *)

EventType(type) ==
  CASE type = 3 -> "ClassifyDrop"
    [] type = 6 -> "ClassifyAllow"
    [] type = 7 -> "CapabilityDrop"
    [] OTHER    -> "Other"

(* Mutant: the ticks of the last second are taken for nanoseconds.         *)
TicksAsNanos(ft) ==
  LET intervals == ft.high * 2^HalfBits + ft.low
      unix      == intervals - WindowsToUnixEpoch
  IN  IF intervals >= WindowsToUnixEpoch
        THEN [secs |-> unix \div TicksPerSecond, nanos |-> unix % TicksPerSecond]
        ELSE [secs |-> 0, nanos |-> 0]

(* Times before 1970 are 1970.                                             *)
filetime_to_systemtime(ft) ==
  LET intervals == ft.high * 2^HalfBits + ft.low
      unix      == intervals - WindowsToUnixEpoch
  IN  IF intervals >= WindowsToUnixEpoch
        THEN [secs  |-> unix \div TicksPerSecond,
              nanos |-> (unix % TicksPerSecond) * NanosPerTick]
        ELSE [secs |-> 0, nanos |-> 0]

(* Mutant: all units, the terminator included.                             *)
ParseWhole(units) == IF UpToNul(units) = <<>> THEN None ELSE units

parse_wide_string(units) ==
  IF UpToNul(units) = <<>> THEN None ELSE UpToNul(units)

(* By the version, not by what the union holds.                            *)
ParseUnion(ipVersion, union) ==
  CASE ipVersion = 0 -> [v6 |-> FALSE, octets |-> ToNeBytes(union)]
    [] ipVersion = 1 -> [v6 |-> TRUE, octets |-> union]
    [] OTHER         -> None

(* Mutant: the union is read as classifyDrop whatever the type.            *)
DroppedAnyType(event) == event.info # None

(* The union is a classifyDrop pointer for one event type only.            *)
Dropped(event) == EventType(event.type) = "ClassifyDrop" /\ event.info # None

parse_network_event(event) ==
  [timestamp   |-> filetime_to_systemtime(event.timeStamp),
   event_type  |-> EventType(event.type),
   app_path    |-> IF event.appId = None THEN None ELSE parse_wide_string(event.appId),
   protocol    |-> event.ipProtocol,
   local_addr  |-> ParseUnion(event.ipVersion, event.local),
   remote_addr |-> ParseUnion(event.ipVersion, event.remote),
   local_port  |-> event.localPort,
   remote_port |-> event.remotePort,
   filter_id   |-> IF Dropped(event) THEN event.info.filterId ELSE None,
   layer_id    |-> IF Dropped(event) THEN event.info.layerId ELSE None]

----------------------------------------------------------------------------
(* Properties.                                                             *)

Dropping(packet) == {e \in Deciding(packet) : e.filter.action = "FWP_ACTION_BLOCK"}

(* "Learning mode": the event of a dropped packet leads back to the rule.  *)
(* Its filter id is that of one filter in place, whose rule describes the  *)
(* packet; the path it names is the one an enumeration shows for a filter  *)
(* of that application; ports and family are those of the packet.          *)
LeadsBack(e, packet) ==
  LET event == parse_network_event(Event(3, 0, DropInfo(e), packet))
      found == {o \in installed : o.id = event.filter_id}
  IN  \E o \in found :
        LET info == parse_filter(o.id, o.filter)
        IN  /\ found = {o}
            /\ info.app_path \in {None, event.app_path}
            /\ Translated(o.rule) /\ SameFamily(o.rule, packet) => RuleMatches(o.rule, packet)
            /\ event.local_port = packet.local_port /\ event.remote_port = packet.remote_port
            /\ event.remote_addr.v6 = packet.remote.v6

(* An event that is not a drop, or says nothing of it, is pinned on no     *)
(* filter: not one of an allowed packet, nor one whose pointer leads to a  *)
(* structure of another kind, which may hold the number of some filter.    *)
BlamesNone(e, packet) ==
  \A type \in 0..7, info \in {None, DropInfo(e)} :
    LET event == parse_network_event(Event(type, 0, info, packet))
    IN  type # 3 \/ info = None => event.filter_id = None /\ event.layer_id = None

(* Who reads the events finds the rule behind each drop, and only those.   *)
EventFindsRule ==
  \A packet \in world.packets : \A e \in Dropping(packet) :
    LeadsBack(e, packet) /\ BlamesNone(e, packet)

(* The time of an event is exact, to the nanosecond, from 1970 on, and a   *)
(* well-formed Duration: the carry between the halves of a FILETIME, the   *)
(* epoch and the last tick of a second lose or add nothing.                *)
TimestampExact ==
  \A tick \in world.ticks :
    LET time == filetime_to_systemtime(FileTime(tick))
        past == IF tick < WindowsToUnixEpoch THEN 0 ELSE tick - WindowsToUnixEpoch
    IN  /\ time.secs * TicksPerSecond * NanosPerTick + time.nanos = past * NanosPerTick
        /\ time.nanos < TicksPerSecond * NanosPerTick

(* What the documentation says and the code does not do.                   *)

(* "Remote IP address": the event of a dropped packet names its addresses. *)
EventNamesAddress ==
  \A packet \in world.packets : \A e \in Dropping(packet) :
    LET event == parse_network_event(Event(3, 0, DropInfo(e), packet))
    IN  event.remote_addr = packet.remote /\ event.local_addr = packet.local

============================================================================
