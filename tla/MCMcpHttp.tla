------------------------------ MODULE MCMcpHttp ------------------------------
(* Instances of McpHttp for TLC: one subject with three tokens, of which one  *)
(* has a capability that the policy does not allow, and two share their key:   *)
(* the one names search and store, the other one capability "search,store".    *)
EXTENDS McpHttp

CONSTANTS worker, store, search, spawn, joined, key1, key2

MCTools      == {store, search, spawn}
MCAllowed    == {store, search}
MCIdentities == {[subject |-> worker, caps |-> {store, spawn},  key |-> key1],
                 [subject |-> worker, caps |-> {search, store}, key |-> key2],
                 [subject |-> worker, caps |-> {joined},        key |-> key2]}
=============================================================================
