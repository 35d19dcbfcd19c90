----------------------------- MODULE MCClients -----------------------------
(* What connects to a server and must connect again, for TLC: the HTTP      *)
(* loop, the reconnecting websocket client, the worker of the browser       *)
(* extension and the controller of the editor extension.  They have no      *)
(* state in common: a behaviour is one of either, and part says which.      *)
EXTENDS HttpLoop, ClientConnection, ExtensionRuntime, EditorController

VARIABLE part

(* The parts that a behaviour is not of start in one of their states, and   *)
(* in one that fairness asks nothing of.                                    *)
ClientsInit ==
    /\ part \in {"loop", "connection", "worker", "editor"}
    /\ LoopInit /\ ConnectionInit /\ ExtensionStarts(part = "worker") /\ EditorInit
    /\ part # "worker" => stored = [c \in Client |-> "on"]
    /\ part # "editor" => serverUp /\ settings = [autoConnect |-> FALSE, autoReconnect |-> FALSE]

ClientsNext ==
    \/ /\ part = "loop" /\ LoopNext
       /\ UNCHANGED <<part, connectionVars, extensionVars, editorVars>>
    \/ /\ part = "connection" /\ ConnectionNext
       /\ UNCHANGED <<part, loopVars, extensionVars, editorVars>>
    \/ /\ part = "worker" /\ ExtensionNext
       /\ UNCHANGED <<part, loopVars, connectionVars, editorVars>>
    \/ /\ part = "editor" /\ EditorNext
       /\ UNCHANGED <<part, loopVars, connectionVars, extensionVars>>

ClientsSpec ==
    /\ ClientsInit
    /\ [][ClientsNext]_<<part, loopVars, connectionVars, extensionVars, editorVars>>
    /\ LoopFairness /\ ConnectionFairness /\ ExtensionFairness /\ EditorFairness
=============================================================================
