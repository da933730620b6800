-------------------------------- MODULE Registry --------------------------------
(***************************************************************************)
(* registry.rs: config.yaml as it is loaded and looked up.  A file is      *)
(* whether serde_yaml reads it and what it then holds.                     *)
(***************************************************************************)
EXTENDS Integers, Sequences

CONSTANTS
    NoPin, NoTimeout   \* absent options

(* Seconds; not finite is 0 here, which is refused as well. *)
validate_timeout_value(seconds) == seconds > 0

TimeoutOK(override) == override # NoTimeout => validate_timeout_value(override)

load_fails(file) ==
    \/ ~file.readable
    \/ \E i \in DOMAIN file.tools : ~TimeoutOK(file.tools[i].timeout_seconds)
    \/ \E i \in DOMAIN file.downstream_servers :
           ~TimeoutOK(file.downstream_servers[i].discovery_timeout_seconds)

Bootstrap(server_id, tool_name) ==
    [mcp_server_id |-> server_id, tool_name |-> tool_name, risk_class |-> "Medium",
     authority_source |-> "User", bootstrap |-> TRUE, communicates_externally |-> FALSE,
     pinned_definition_hash_hex |-> NoPin, timeout_seconds |-> NoTimeout]

(* Of two entries for one tool the later one counts. *)
lookup(tools, server_id, tool_name) ==
    LET rows == {i \in DOMAIN tools : /\ tools[i].mcp_server_id = server_id
                                      /\ tools[i].tool_name = tool_name}
    IN IF rows = {} THEN Bootstrap(server_id, tool_name)
       ELSE tools[CHOOSE i \in rows : \A j \in rows : j <= i]
=============================================================================
