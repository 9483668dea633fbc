-------------------------- MODULE MC_LiveScreening --------------------------
(* A screened client, one excluded from blocklists and a foreign one; an   *)
(* ordinary name, a name local zones define, a private reverse name.       *)
(* Settings, policies, blocklist and local zones each have an open and a   *)
(* closed value, so that one edit opens and another closes between any two *)
(* reads.  The open default action is the one a null becomes, which lets a *)
(* name pass as "forward" does; a rule has each of the four actions.       *)
EXTENDS LiveScreening

Spelled(l, s) == [labels |-> l, spelling |-> s]
Ads == <<"ads", "com">>
Home == <<"home", "lan">>
Reverse10 == <<"10", "arpa">>

Ask(c, l, s, k) == [client |-> c, raw |-> Spelled(l, s), kind |-> k]

MCQueries == {Ask("c1", Ads, "upper", "AAAA"), Ask("excluded", Home, "lower", "A"),
              Ask("foreign", Ads, "lower", "A"),
              Ask("c1", Reverse10, "lower", "PRIVATE_PTR")}

Rule(c, k, l, a) ==
  [client |-> c, domain |-> [kind |-> k, raw |-> Spelled(l, "lower")], action |-> a]
MCPolicyTable == <<Rule("c1", "any", <<"com">>, "deny"),
                   Rule(WILDCARD, "suffix", <<"com">>, "override"),
                   Rule("excluded", "exact", Home, "blocklist"),
                   Rule("c1", "suffix", <<"arpa">>, "forward")>>

Settings(cache, v6, ptr, default) ==
  [cache_enabled |-> cache, ipv6_enabled |-> v6,
   drop_private_ptr |-> ptr, default_action |-> default]

MCValues == [settings  |-> {Settings(TRUE, FALSE, TRUE, "None"),
                            Settings(FALSE, TRUE, FALSE, "deny")},
             policies  |-> {{}, {1, 2, 3, 4}},
             upstreams |-> {{"u1"}},
             blocklist |-> {{}, {<<"com">>, <<"lan">>}},
             excluded  |-> {{"excluded"}},
             trusted   |-> {{{"c1"}, {"excluded"}}},
             local     |-> {{}, {Home, Reverse10}}]
=============================================================================
