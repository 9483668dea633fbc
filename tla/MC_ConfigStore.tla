--------------------------- MODULE MC_ConfigStore ---------------------------
(* Request bodies, valid and refused ones, and two old databases.          *)
EXTENDS ConfigStore

MCTableOrder == <<"app_settings", "blocklist_overrides", "blocklists", "local_zones",
                  "policies", "trusted_networks", "upstreams", "query_log">>

NoRows == [t \in Tables |-> <<>>]

OldPolicy == Merge([client |-> "ip", domain |-> "other", action |-> "deny"], Policy.default)
OldUpstream == Merge([address |-> "ip", protocol |-> "tcp"], Upstream.default)

MCLegacyFiles ==
  {[NoRows EXCEPT !["policies"] = <<OldPolicy>>],
   [NoRows EXCEPT !["app_settings"] = [cache_enabled |-> [value |-> Word("false")],
                                       cache_min_ttl |-> [value |-> Digits(60)]],
                  !["upstreams"] = <<OldUpstream>>,
                  !["query_log"] = <<[question |-> "old"]>>]}

MCCreates ==
  [policies |-> {[client |-> "ip", domain |-> "other", action |-> "forward"],
                 [client |-> "*", domain |-> "other", action |-> "override"],
                 [client |-> "*", domain |-> "other", action |-> "override",
                  override_response |-> "other"]},
   upstreams |-> {[address |-> "ip"], [address |-> "ip", port |-> 65536]},
   blocklists |-> {[name |-> "HaGeZi", url |-> "http"],
                   [name |-> "other", url |-> "http", update_interval_hours |-> 0]},
   local_zones |-> {[name |-> "other", url |-> "https"], [name |-> "blank", url |-> "https"]},
   trusted_networks |-> {[cidr |-> "host bits set", description |-> "blank"]},
   blocklist_overrides |-> {[domain |-> "DOMAIN."]}]

MCUpdates ==
  [policies |-> {[client |-> "ip", action |-> "override"], [override_ttl |-> Null]},
   upstreams |-> {[port |-> Null], [enabled |-> FALSE]},
   blocklists |-> {[name |-> "HaGeZi", update_interval_hours |-> Null]},
   local_zones |-> {[url |-> Null]},
   hosts |-> {[flag_new_domains |-> Null, device_name |-> "blank"],
              [excluded_from_blocklist |-> TRUE]}]

MCPuts == {[cache_enabled |-> FALSE], [default_action |-> "blocklist"],
           [cache_enabled |-> Null, cache_min_ttl |-> Null, default_action |-> Null]}

MCModes == {[mode |-> "deny"], [mode |-> "override"]}

MCReplies == {[device_name |-> "blank", icon |-> "other", mac_address |-> Null]}
=============================================================================
