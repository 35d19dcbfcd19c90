--------------------------- MODULE MCBookkeeping ----------------------------
(* What is remembered of something else and may be wrong of it, for TLC:    *)
(* the catalog a server has of a registry, the flags a client in one of the *)
(* other languages has of its sessions, what the messages of clients say of *)
(* registrations, calls and answers, and what the worker of the browser     *)
(* extension keeps of the pages it has injected into, of the recordings     *)
(* that run in them and of the invocations it has stored.  They have no     *)
(* state in common: a behaviour is one of either, and part says which.      *)
EXTENDS CatalogSync, GoClient, PythonClient, RustClient, DotnetClient, JavaClient,
        MCWireExchange, PageInjection, PageSessions, InvocationTelemetry

VARIABLE part

MCExposed == {<<"a", ":q">>, <<"a", ":p">>, <<"a", "b">>, <<":p", "skill.md">>, <<"a", "b", "">>,
              <<"", "a", "b">>, <<"a", "b-lf">>}

MCCalled == {<<"a", "b">>, <<"a", "skill.md">>, <<"a", "b", "">>}

(* The parts that a behaviour is not of start in one of their states.  The  *)
(* first document has one of the addresses, which are alike.                *)
BookkeepingInit ==
    /\ part \in {"catalog", "sdk", "wire", "page", "sessions", "telemetry"}
    /\ CatalogInit /\ SdkInit /\ WireInit /\ InjectionInit /\ SessionInit /\ TelemetryInit
    /\ part # "catalog" => sdk = "typescript"
    /\ part # "sdk" => language = "go" /\ carrier = "http"
    /\ part # "wire" => speaks = "typescript" /\ by = "http"
    /\ document.url = Unused.url
    /\ part # "page" => autoBridge
    /\ part # "telemetry" => disk = {}

BookkeepingNext ==
    \/ /\ part = "catalog" /\ CatalogNext
       /\ UNCHANGED <<part, sdkVars, wireVars, injectionVars, sessionVars, telemetryVars>>
    \/ /\ part = "sdk" /\ (GoNext \/ PythonNext \/ RustNext \/ DotnetNext \/ JavaNext)
       /\ UNCHANGED <<part, catalogVars, wireVars, injectionVars, sessionVars, telemetryVars>>
    \/ /\ part = "wire" /\ MCWireNext
       /\ UNCHANGED <<part, catalogVars, sdkVars, injectionVars, sessionVars, telemetryVars>>
    \/ /\ part = "page" /\ InjectionNext
       /\ UNCHANGED <<part, catalogVars, sdkVars, wireVars, sessionVars, telemetryVars>>
    \/ /\ part = "sessions" /\ SessionNext
       /\ UNCHANGED <<part, catalogVars, sdkVars, wireVars, injectionVars, telemetryVars>>
    \/ /\ part = "telemetry" /\ TelemetryNext
       /\ UNCHANGED <<part, catalogVars, sdkVars, wireVars, injectionVars, sessionVars>>

BookkeepingSpec ==
    /\ BookkeepingInit
    /\ [][BookkeepingNext]_<<part, catalogVars, sdkVars, wireVars, injectionVars, sessionVars, telemetryVars>>

(* Whatever language a client is written in, it knows its sessions.         *)
LanguagesInvariant ==
    /\ SdkInvariant
    /\ GoFits /\ PythonFits /\ RustFits /\ DotnetFits /\ JavaFits

(* ... and what its paths and messages say reaches the other side as it was *)
(* meant.                                                                   *)
MeaningInvariant ==
    /\ part = "catalog" => CatalogInvariant
    /\ part = "wire" => WireInvariant

(* What the browser extension keeps of its pages and of its invocations.    *)
PagesInvariant == InjectionInvariant /\ SessionInvariant /\ TelemetryInvariant
=============================================================================
