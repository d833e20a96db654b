------------------------ MODULE MCFilterTranslation ------------------------
(***************************************************************************)
(* FilterTranslation and NetworkEvents with addresses of two octets of two *)
(* bits and FILETIME halves of three bits.  Rules and packets are products *)
(* of a few values per field; a world takes the rules and packets that its *)
(* question is about.                                                      *)
(***************************************************************************)
EXTENDS NetworkEvents

(* Two names of one file, and an application whose path starts with the    *)
(* path of the first.                                                      *)
A == <<1, 2, 0>>
B == <<1, 2, 1, 0>>
AppIds == [path \in {"a.exe", "A~1.EXE", "b.exe"} |-> IF path = "b.exe" THEN B ELSE A]

V4(a, b) == [v6 |-> FALSE, octets |-> <<a, b>>]
V6(a, b) == [v6 |-> TRUE,  octets |-> <<a, b>>]
Octet    == 0..3

(* Prefixes from the empty one to one longer than the address.             *)
RemoteIps ==
  {None}
  \cup {IpAddrMask(FALSE, <<1, 2>>, prefix) : prefix \in 0..5}
  \cup {IpAddrMask(TRUE, <<2, 1>>, prefix) : prefix \in {0, 1, 4, 5}}
LocalIps ==
  {None, IpAddrMask(FALSE, <<3, 0>>, 3), IpAddrMask(TRUE, <<0, 1>>, 2)}

(* Every combination of what one rule may ask for.                         *)
SingleRules ==
  {[FilterRule("Outbound", "Block") EXCEPT
      !.app_path = app, !.remote_ip = remote, !.local_ip = local,
      !.remote_port = rport, !.local_port = lport, !.protocol = protocol] :
     app \in {None, "a.exe", "A~1.EXE", "ghost.exe"}, remote \in RemoteIps,
     local \in LocalIps, rport \in {None, 443}, lport \in {None, 80},
     protocol \in {None, "Tcp"}}

SinglePackets ==
  {[direction |-> "Outbound", app |-> app, service |-> "s", container |-> "c",
    protocol |-> protocol, local |-> local, remote |-> remote,
    local_port |-> lport, remote_port |-> rport] :
     app \in {A, B}, protocol \in {6, 17},
     local \in {V4(3, 0), V4(3, 2)}, remote \in {V4(a, b) : a, b \in Octet},
     rport \in {443, 53}, lport \in {80}}
  \cup
  {[direction |-> "Outbound", app |-> A, service |-> "s", container |-> "c",
    protocol |-> 6, local |-> local, remote |-> remote,
    local_port |-> lport, remote_port |-> 443] :
     local \in {V6(0, 1), V6(2, 1)}, remote \in {V6(a, b) : a, b \in Octet},
     lport \in {80, 81}}

(* Rules that overlap, with presets, equal and different weights.          *)
CompetingRules ==
  {With(With(FilterRule(direction, action), "remote_ip", remote), "weight", FilterWeight[w]) :
     direction \in {"Outbound", "Inbound"}, action \in {"Permit", "Block"},
     remote \in {None, IpAddrMask(FALSE, <<1, 2>>, 2), IpAddrMask(FALSE, <<1, 2>>, 4)},
     w \in {"UserPermit", "UserBlock"}}
  \cup {block_all_outbound, allow_all_outbound, block_all_inbound, default_block}

CompetingPackets ==
  {[direction |-> direction, app |-> A, service |-> "s", container |-> "c",
    protocol |-> 6, local |-> V4(3, 0), remote |-> remote,
    local_port |-> 80, remote_port |-> 443] :
     direction \in {"Outbound", "Inbound"}, remote \in {V4(1, 2), V4(1, 0), V4(0, 0)}}

(* One packet of each family and identity for the documented promises.     *)
PromiseRules ==
  {block_all_outbound,
   With(FilterRule("Outbound", "Block"), "service_name", "dnscache"),
   With(FilterRule("Outbound", "Block"), "remote_ip", IpAddrMask(FALSE, <<1, 2>>, 4))}
PromisePackets ==
  {[direction |-> "Outbound", app |-> A, service |-> service, container |-> "c",
    protocol |-> 6, local |-> local, remote |-> local,
    local_port |-> 80, remote_port |-> 443] :
     service \in {"dnscache", "other"}, local \in {V4(1, 2), V4(3, 0), V6(1, 2)}}

(* Texts: the parts between the slashes, as they parse.                    *)
Part(addr, num) == [addr |-> addr, num |-> num]
Parts ==
  {Part(None, None), Part(V4(1, 2), None), Part(V6(2, 1), None)}
  \cup {Part(None, num) : num \in {0, 1, 3, 4, 5, 255}}
Texts == UNION {[1..n -> Parts] : n \in 1..2} \cup {<<Part(V4(1, 2), None), Part(None, 3), Part(None, 3)>>}

TheWorld(rules, packets, bound) ==
  [rules |-> rules, packets |-> packets, adds |-> bound, texts |-> {}, ticks |-> {}]

SingleWorlds   == {TheWorld({rule}, SinglePackets, 1) : rule \in SingleRules}
CompetingWorld == TheWorld(CompetingRules, CompetingPackets, 3)
ParsingWorld   ==
  [TheWorld({}, SinglePackets, 0) EXCEPT !.texts = Texts, !.ticks = 0..2^(2 * HalfBits) - 1]

RuleWorlds    == SingleWorlds \cup {CompetingWorld, ParsingWorld}
PromiseWorlds == {TheWorld(PromiseRules, PromisePackets, 1)}

============================================================================
