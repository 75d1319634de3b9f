-------------------------- MODULE CommandLifecycle --------------------------
(* What the MCP proxy promises about each command: the automaton of          *)
(* CommandStatus in mcp_proxy/state.py and of docs/adr/0005-local-mcp-proxy. *)
(* A command is queued, leased to 1C at most once and ended once, with a     *)
(* result only from the 1C that had it leased; then it keeps its status and  *)
(* its outcome.                                                              *)
CONSTANTS Commands    \* command ids

VARIABLES
    status,    \* where each command is in its life
    outcome    \* what the caller of each command will be told

vars == <<status, outcome>>

Pending == {c \in Commands : status[c] \in {"queued", "leased"}}

\* The ends a command may come to, with the outcomes each of them allows.
Ending == {<<"completed", "result">>, <<"completed", "error">>,
           <<"expired", "error">>,
           <<"cancelled", "cancelled">>, <<"cancelled", "error">>,
           <<"lost", "none">>}

Init ==
    /\ status = [c \in Commands |-> "unused"]
    /\ outcome = [c \in Commands |-> "none"]

Submit(c) ==
    /\ status[c] = "unused"
    /\ status' = [status EXCEPT ![c] = "queued"]
    /\ UNCHANGED outcome

Lease(c) ==
    /\ status[c] = "queued"
    /\ status' = [status EXCEPT ![c] = "leased"]
    /\ UNCHANGED outcome

\* The commands of ended come to one end together: one by its result or its
\* timeout, several when their session, the proxy or its process goes.
End(ended, ending) ==
    /\ ended \subseteq Pending
    /\ ending[1] = "completed" => \A c \in ended : status[c] = "leased"
    /\ ending[1] \in {"completed", "expired"} => \E c \in Commands : ended = {c}
    /\ status' = [c \in Commands |-> IF c \in ended THEN ending[1] ELSE status[c]]
    /\ outcome' = [c \in Commands |-> IF c \in ended THEN ending[2] ELSE outcome[c]]

Next ==
    \/ \E c \in Commands : Submit(c) \/ Lease(c)
    \/ \E ended \in SUBSET Commands, ending \in Ending : End(ended, ending)

Spec == Init /\ [][Next]_vars
=============================================================================
