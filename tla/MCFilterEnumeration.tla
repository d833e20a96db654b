------------------------ MODULE MCFilterEnumeration ------------------------
(***************************************************************************)
(* FilterEnumeration with two rules of the crate and three filters of      *)
(* others, whose weights, actions, providers and blobs take the branches   *)
(* of parse_filter that a filter of the crate never takes.                 *)
(***************************************************************************)
EXTENDS FilterEnumeration

AppIds == [path \in {"a.exe"} |-> <<1, 2, 0>>]

Rules ==
  {With(With(FilterRule("Outbound", "Block"), "app_path", "a.exe"), "remote_port", 443),
   block_all_inbound}

Theirs(provider, weight, action, conditions) ==
  [provider |-> provider, sublayer |-> "theirs", layer |-> select_layer("Inbound", TRUE),
   weight |-> weight, action |-> action, conditions |-> conditions]

Others ==
  <<Theirs(None, [type |-> "FWP_UINT64", value |-> None], "FWP_ACTION_CALLOUT_TERMINATING",
           Equals("local_port", 80) \o Condition("app", "blob", None)),
    Theirs("theirs", [type |-> "FWP_UINT8", value |-> 7], "FWP_ACTION_CONTINUE",
           Condition("app", "blob", [size |-> 3, units |-> <<1, 2>>])),
    Theirs("theirs", [type |-> "FWP_EMPTY", value |-> 0], "FWP_ACTION_PERMIT",
           Condition("app", "blob", Blob(<<1, Lone>>)))>>

============================================================================
