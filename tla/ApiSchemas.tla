----------------------------- MODULE ApiSchemas -----------------------------
(***************************************************************************)
(* What the HTTP API accepts (api/schemas.py), the constraints the tables  *)
(* of the configuration add (repository/models.py), and the way a runtime  *)
(* setting is stored as text and read back (repository/settings.py).       *)
(*                                                                         *)
(* A request body is a function from the fields it names to JSON values.   *)
(* A string is represented by what the validators tell apart: an IP        *)
(* address, an http URL, a blank or overlong text.                         *)
(***************************************************************************)
EXTENDS Integers

CONSTANT Null      \* JSON null, None, SQL NULL

ASSUME NullAssumption == Null \notin Int /\ Null \notin BOOLEAN

Optional(S) == S \cup {Null}
Text == {"HaGeZi", "other", "blank", "long"}   \* "long": over 255 characters
NonBlank == Text \ {"blank"}

VALID_ACTIONS == {"forward", "override", "deny", "blocklist"}
check_client == {"*", "ip"}
check_port == 1..65535
check_url == {"http", "https"}
check_interval == {n \in Int : n >= 1}
check_cidr == {"network", "host bits set"}
valid_override_domain == {"domain", "DOMAIN."}

-----------------------------------------------------------------------------
(* The models of POST and PUT bodies: the values each field accepts.       *)
PolicyCreate ==
  [client |-> check_client, domain |-> NonBlank \cup {"*"}, action |-> VALID_ACTIONS,
   override_response |-> Optional(Text), override_ttl |-> Int,
   enabled |-> BOOLEAN, description |-> Optional(Text)]

PolicyUpdate ==
  [client |-> Optional(check_client), domain |-> Optional(Text \cup {"*"}),
   action |-> Optional(VALID_ACTIONS), override_response |-> Optional(Text),
   override_ttl |-> Optional(Int), enabled |-> Optional(BOOLEAN),
   description |-> Optional(Text)]

ClientModeUpdate == [mode |-> {"forward", "deny"}]

UpstreamCreate ==
  [name |-> Optional(Text), address |-> {"ip"}, port |-> check_port,
   protocol |-> {"udp", "tcp"}, enabled |-> BOOLEAN, priority |-> Int]

UpstreamUpdate == [f \in DOMAIN UpstreamCreate |-> Optional(UpstreamCreate[f])]

BlocklistCreate == [name |-> NonBlank, url |-> check_url,
                    update_interval_hours |-> check_interval, enabled |-> BOOLEAN]

BlocklistUpdate == [f \in DOMAIN BlocklistCreate |-> Optional(BlocklistCreate[f])]

LocalZoneCreate == [name |-> NonBlank, url |-> check_url,
                    update_interval_seconds |-> check_interval, enabled |-> BOOLEAN]

LocalZoneUpdate == [f \in DOMAIN LocalZoneCreate |-> Optional(LocalZoneCreate[f])]

TrustedNetworkCreate == [cidr |-> check_cidr, description |-> Optional(Text)]

BlocklistOverrideCreate == [domain |-> valid_override_domain]

HostUpdate == [device_name |-> Optional(Text \ {"long"}),
               icon |-> Optional(Text \ {"long"}),
               excluded_from_blocklist |-> Optional(BOOLEAN),
               flag_new_domains |-> Optional(BOOLEAN)]

BOOL_KEYS == {"cache_enabled", "log_queries", "ipv6_enabled", "drop_private_ptr"}
NUM_KEYS == {"cache_max_ttl", "cache_min_ttl", "cache_max_entries",
             "refresh_seconds", "query_flush_seconds", "forward_timeout"}
STR_KEYS == {"default_action"}
KNOWN_KEYS == BOOL_KEYS \cup NUM_KEYS \cup STR_KEYS

SettingsUpdate ==
  [k \in KNOWN_KEYS |-> Optional(IF k \in BOOL_KEYS THEN BOOLEAN
                                 ELSE IF k \in NUM_KEYS THEN Int
                                 ELSE {"deny", "forward"})]

(* extra="forbid", and every field of the body passes its validator.       *)
Validates(model, body) ==
  /\ DOMAIN body \subseteq DOMAIN model
  /\ \A f \in DOMAIN body : body[f] \in model[f]

(* What the validators make of a value they accept, in a body for table t. *)
Validated(t, f, v) ==
  CASE <<t, f>> = <<"trusted_networks", "cidr">> -> "network"
    [] <<t, f>> = <<"blocklist_overrides", "domain">> -> "domain"
    [] <<t, f>> \in {<<"hosts", "device_name">>, <<"hosts", "icon">>,
                     <<"trusted_networks", "description">>}
         -> IF v = "blank" THEN Null ELSE v
    [] OTHER -> v

-----------------------------------------------------------------------------
(* The tables: the columns that may not be NULL, those that are unique     *)
(* together, and the defaults.                                             *)
Policy ==
  [not_null |-> {"client", "domain", "action", "override_ttl", "enabled"},
   unique |-> {"client", "domain"},
   default |-> [override_response |-> Null, override_ttl |-> 300,
                enabled |-> TRUE, description |-> Null]]

(* Mutant: port is declared nullable=True.                                 *)
Mutant_Upstream ==
  [not_null |-> {"address", "protocol", "enabled", "priority"},
   unique |-> {},
   default |-> [name |-> Null, port |-> 53, protocol |-> "udp",
                enabled |-> TRUE, priority |-> 100]]

Upstream ==
  [not_null |-> {"address", "port", "protocol", "enabled", "priority"},
   unique |-> {},
   default |-> [name |-> Null, port |-> 53, protocol |-> "udp",
                enabled |-> TRUE, priority |-> 100]]

Blocklist ==
  [not_null |-> {"name", "url", "update_interval_hours", "enabled"},
   unique |-> {"name"},
   default |-> [update_interval_hours |-> 24, enabled |-> TRUE]]

LocalZone ==
  [not_null |-> {"name", "url", "update_interval_seconds", "enabled"},
   unique |-> {"name"},
   default |-> [update_interval_seconds |-> 86400, enabled |-> TRUE]]

TrustedNetwork ==
  [not_null |-> {"cidr"}, unique |-> {"cidr"}, default |-> [description |-> Null]]

BlocklistOverride ==
  [not_null |-> {"domain"}, unique |-> {"domain"}, default |-> <<>>]

Host ==
  [not_null |-> {"excluded_from_blocklist", "flag_new_domains"}, unique |-> {},
   default |-> [device_name |-> Null, icon |-> Null, mac_address |-> Null,
                excluded_from_blocklist |-> FALSE, flag_new_domains |-> TRUE]]

AppSetting == [not_null |-> {"value"}, unique |-> {}, default |-> <<>>]

QueryLog == [not_null |-> {"question"}, unique |-> {"question"}, default |-> <<>>]

-----------------------------------------------------------------------------
(* What Sando's reply about a device says: the fields it does not leave    *)
(* out or blank.  Null stands for any value that is not a string.          *)
clean(v) == IF v = "blank" THEN Null ELSE v

fetch_device(reply) ==
  [f \in {f \in DOMAIN reply : clean(reply[f]) # Null} |-> clean(reply[f])]

-----------------------------------------------------------------------------
(* Runtime settings.  A stored text is a word or a number's digits.        *)
Word(w) == [word |-> w]
Digits(n) == [digits |-> n]

RuntimeSettings ==
  [cache_enabled |-> TRUE, cache_max_ttl |-> 3600, cache_min_ttl |-> 0,
   cache_max_entries |-> 10000, forward_timeout |-> 5,
   default_action |-> "forward", refresh_seconds |-> 10,
   query_flush_seconds |-> 5, log_queries |-> TRUE, ipv6_enabled |-> TRUE,
   drop_private_ptr |-> TRUE]

(* str(value), "true" or "false" for a bool; str(None) is "None".          *)
serialize(k, v) ==
  IF v = Null THEN Word("None")
  ELSE IF k \in BOOL_KEYS THEN (IF v THEN Word("true") ELSE Word("false"))
  ELSE IF k \in NUM_KEYS THEN Digits(v)
  ELSE Word(v)

(* Mutant: bool(raw), true for every text that is not empty.               *)
Mutant_coerce(k, raw) ==
  IF k \in BOOL_KEYS THEN TRUE
  ELSE IF k \in STR_KEYS THEN raw.word
  ELSE IF "digits" \in DOMAIN raw THEN raw.digits
  ELSE RuntimeSettings[k]

(* int() and float() raise on anything but a number: the default is used.  *)
coerce(k, raw) ==
  IF k \in BOOL_KEYS THEN raw \in {Digits(1), Word("true"), Word("yes"), Word("on")}
  ELSE IF k \in STR_KEYS THEN raw.word
  ELSE IF "digits" \in DOMAIN raw THEN raw.digits
  ELSE RuntimeSettings[k]
=============================================================================
