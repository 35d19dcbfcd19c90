---------------------------- MODULE CatalogSync ----------------------------
(* The catalog of a client and what becomes of it: the procedure registry   *)
(* of each SDK, the catalog the client sends, the capability index of the   *)
(* server, and the invocations that both resolve, the server when it        *)
(* accepts them and the client when they arrive, perhaps after its registry *)
(* has changed.  Handlers are told apart by the entries they belong to.     *)
EXTENDS PathRules, FiniteSets

CONSTANTS
    Exposed,     \* paths that are exposed
    Called,      \* paths that are called
    MaxEntries,  \* bound: entries of the registry
    MaxChanges,  \* bound: changes of the registry
    NoCatalog    \* no client is registered

ASSUME CatalogConstants == Exposed \cup Called \subseteq Seq(STRING) /\ MaxEntries \in Nat /\ MaxChanges \in Nat

Method == {"GET", "POST"}

(* The method of a skill or a prompt is none.                               *)
Entry == [type : {"endpoint"}, method : Method, path : Exposed]
           \cup [type : {"skill", "prompt"}, method : {"none"}, path : Exposed]

VARIABLES
    sdk,      \* the SDK of the client
    entries,  \* the entries of its registry, in order
    uplink,   \* catalogs that are on their way to the server
    catalog,  \* the paths of the client's descriptor at the server
    call,     \* at most one callClient message on its way to the client, with
              \* the entry the server resolved and the catalog in which it did
    handled,  \* history: the last call that was handled
    changes

catalogVars == <<sdk, entries, uplink, catalog, call, handled, changes>>

NoEntry == [type |-> "none", method |-> "none", path |-> <<>>]

CatalogInit ==
    /\ sdk \in Sdk
    /\ entries = <<>> /\ uplink = <<>> /\ catalog = NoCatalog
    /\ call = <<>> /\ handled = <<>> /\ changes = 0

-----------------------------------------------------------------------------
(* The registries.                                                          *)

(* The type of an entry fits its path.                                      *)
FitsPath(e) ==
    /\ IsPattern(sdk, e.path)
    /\ e.type = "skill" <=> IsSkillPath(sdk, e.path)
    /\ e.type = "prompt" <=> IsPromptPath(sdk, e.path)

(* registrationKey: the entries that e takes the place of.                  *)
SameKey(e, f) ==
    /\ e.path = f.path
    /\ e.type = "endpoint" /\ f.type = "endpoint" => e.method = f.method
    /\ e.type = "endpoint" <=> f.type = "endpoint"

PutInPlace(es, e) ==
    IF \E i \in DOMAIN es : SameKey(es[i], e)
    THEN [i \in DOMAIN es |-> IF SameKey(es[i], e) THEN e ELSE es[i]]
    ELSE Append(es, e)

TypeScriptExpose(es, e) == PutInPlace(es, e)

GoExpose(es, e) == PutInPlace(es, e)

PythonExpose(es, e) == PutInPlace(es, e)

RustExpose(es, e) == PutInPlace(es, e)

DotnetExpose(es, e) == PutInPlace(es, e)

JavaExpose(es, e) == PutInPlace(es, e)

ExposeIn(es, e) ==
    CASE sdk = "typescript" -> TypeScriptExpose(es, e)
      [] sdk = "go" -> GoExpose(es, e)
      [] sdk = "python" -> PythonExpose(es, e)
      [] sdk = "rust" -> RustExpose(es, e)
      [] sdk = "dotnet" -> DotnetExpose(es, e)
      [] sdk = "java" -> JavaExpose(es, e)

(* unexpose: the first entry of the path, for an endpoint the one of the    *)
(* method.  Without a method, Go and C# take any entry of the path, the     *)
(* others only a skill or a prompt.  Java has no such operation.            *)
WithoutFirst(es, hits) ==
    IF hits = {} THEN es ELSE RemoveAt(es, CHOOSE i \in hits : \A j \in hits : i <= j)

OfMethod(e, m) == e.type # "endpoint" \/ e.method = m

TypeScriptUnexpose(es, p, m) == WithoutFirst(es, {i \in DOMAIN es : es[i].path = p /\ OfMethod(es[i], m)})

PythonUnexpose(es, p, m) == WithoutFirst(es, {i \in DOMAIN es : es[i].path = p /\ OfMethod(es[i], m)})

RustUnexpose(es, p, m) == WithoutFirst(es, {i \in DOMAIN es : es[i].path = p /\ OfMethod(es[i], m)})

GoUnexpose(es, p, m) ==
    WithoutFirst(es, {i \in DOMAIN es : es[i].path = p /\ (m = "none" \/ OfMethod(es[i], m))})

DotnetUnexpose(es, p, m) ==
    WithoutFirst(es, {i \in DOMAIN es : es[i].path = p /\ (m = "none" \/ OfMethod(es[i], m))})

UnexposeIn(es, p, m) ==
    CASE sdk = "typescript" -> TypeScriptUnexpose(es, p, m)
      [] sdk = "go" -> GoUnexpose(es, p, m)
      [] sdk = "python" -> PythonUnexpose(es, p, m)
      [] sdk = "rust" -> RustUnexpose(es, p, m)
      [] sdk = "dotnet" -> DotnetUnexpose(es, p, m)

-----------------------------------------------------------------------------
(* Resolving: each walks its entries and keeps the best match so far.       *)

MatchesMethod(e, m) == IF e.type = "endpoint" THEN e.method = m ELSE m = "GET"

Unresolved == [entry |-> NoEntry, match |-> NoMatch]

(* Mutant: a match that is as specific replaces the one found first.        *)
LaterBest(best, e, m, match) ==
    IF MatchesMethod(e, m) /\ Matched(match) /\ ~MoreSpecific(best.match.specificity, match.specificity)
    THEN [entry |-> e, match |-> match]
    ELSE best

Better(best, e, m, match) ==
    IF /\ MatchesMethod(e, m) /\ Matched(match)
       /\ ~Matched(best.match) \/ MoreSpecific(match.specificity, best.match.specificity)
    THEN [entry |-> e, match |-> match]
    ELSE best

Walk(es, m, match) ==
    LET best[n \in 0 .. Len(es)] ==
          IF n = 0 THEN Unresolved ELSE Better(best[n - 1], es[n], m, match[n])
    IN  best[Len(es)]

TypeScriptResolve(es, m, p) == Walk(es, m, [i \in DOMAIN es |-> TypeScriptMatch(es[i].path, p)])

(* Mutant: the entries are walked in another order.                         *)
GoResolveBackwards(es, m, p) ==
    LET fs == Reverse(es) IN Walk(fs, m, [i \in DOMAIN fs |-> GoMatch(fs[i].path, p)])

GoResolve(es, m, p) == Walk(es, m, [i \in DOMAIN es |-> GoMatch(es[i].path, p)])

PythonResolve(es, m, p) == Walk(es, m, [i \in DOMAIN es |-> PythonMatch(es[i].path, p)])

RustResolve(es, m, p) == Walk(es, m, [i \in DOMAIN es |-> RustMatch(es[i].path, p)])

DotnetResolve(es, m, p) == Walk(es, m, [i \in DOMAIN es |-> DotnetMatch(es[i].path, p)])

JavaResolve(es, m, p) == Walk(es, m, [i \in DOMAIN es |-> JavaMatch(es[i].path, p)])

ResolveEntry(es, m, p) ==
    CASE sdk = "typescript" -> TypeScriptResolve(es, m, p)
      [] sdk = "go" -> GoResolve(es, m, p)
      [] sdk = "python" -> PythonResolve(es, m, p)
      [] sdk = "rust" -> RustResolve(es, m, p)
      [] sdk = "dotnet" -> DotnetResolve(es, m, p)
      [] sdk = "java" -> JavaResolve(es, m, p)

(* The parameters a handler is given: in JavaScript those of the message,   *)
(* elsewhere those of the match.                                            *)
HandlerParams(c, resolved) == IF sdk = "typescript" THEN c.params ELSE resolved.match.params

-----------------------------------------------------------------------------
(* The server, which is JavaScript.                                         *)

(* isPathDescriptor, for every path of a catalog.                           *)
IsCatalog(es) ==
    \A i \in DOMAIN es :
       LET p == es[i].path IN
       /\ IsPattern("typescript", p)
       /\ es[i].type = "skill" <=> IsSkillPath("typescript", p)
       /\ es[i].type = "prompt" <=> IsPromptPath("typescript", p)

Paths == IF catalog = NoCatalog THEN <<>> ELSE catalog

ResolveTarget(m, p) == Walk(Paths, m, [i \in DOMAIN Paths |-> TypeScriptMatch(Paths[i].path, p)])

ListAllowedMethods(p) ==
    {IF e.type = "endpoint" THEN e.method ELSE "GET" :
        e \in {f \in ToSet(Paths) : Matched(TypeScriptMatch(f.path, p))}}

HasTarget(m, p) == ResolveTarget(m, p).entry # NoEntry

FindsClient(m, p) ==
    \E e \in ToSet(Paths) : MatchesMethod(e, m) /\ Matched(TypeScriptMatch(e.path, p))

-----------------------------------------------------------------------------
Changes(es) ==
    /\ changes < MaxChanges /\ changes' = changes + 1
    /\ Len(es) <= MaxEntries
    /\ entries' = es
    /\ UNCHANGED <<sdk, uplink, catalog, call, handled>>

Expose == \E e \in Entry : Changes(ExposeIn(entries, e)) /\ FitsPath(e)

Unexpose ==
    /\ sdk # "java"
    /\ \E p \in Exposed, m \in Method \cup {"none"} : Changes(UnexposeIn(entries, p, m))

(* register() or syncCatalog().                                             *)
SyncCatalog ==
    /\ Len(uplink) < 2 /\ (uplink = <<>> => catalog # entries)
    /\ uplink' = Append(uplink, entries)
    /\ UNCHANGED <<sdk, entries, catalog, call, handled, changes>>

(* A message with a path that is none is refused and ends the connection;   *)
(* the client may register again.                                           *)
ReceiveCatalog ==
    /\ uplink # <<>>
    /\ IF IsCatalog(Head(uplink))
       THEN catalog' = Head(uplink) /\ uplink' = Tail(uplink) /\ UNCHANGED call
       ELSE catalog' = NoCatalog /\ uplink' = <<>> /\ call' = <<>>
    /\ UNCHANGED <<sdk, entries, handled, changes>>

(* resolveInvocation() and the message to the client.                       *)
Invoke(m, p) ==
    LET resolved == ResolveTarget(m, p) IN
    /\ call = <<>> /\ resolved.entry # NoEntry
    /\ call' = <<[method |-> m, path |-> p, entry |-> resolved.entry,
                  params |-> resolved.match.params, catalog |-> catalog]>>
    /\ UNCHANGED <<sdk, entries, uplink, catalog, handled, changes>>

(* invoke() of the registry.  A path that is unknown by now is an error.    *)
HandleCall ==
    /\ call # <<>>
    /\ LET c == Head(call)
           resolved == ResolveEntry(entries, c.method, c.path)
       IN  handled' = IF resolved.entry = NoEntry THEN <<>>
                      ELSE <<[call |-> c, entry |-> resolved.entry,
                              params |-> HandlerParams(c, resolved),
                              current |-> c.catalog = entries]>>
    /\ call' = <<>>
    /\ UNCHANGED <<sdk, entries, uplink, catalog, changes>>

CatalogNext ==
    \/ Expose \/ Unexpose \/ SyncCatalog \/ ReceiveCatalog \/ HandleCall
    \/ \E m \in Method, p \in Called : Invoke(m, p)

CatalogSpec == CatalogInit /\ [][CatalogNext]_catalogVars

-----------------------------------------------------------------------------
(* Properties.                                                              *)

CatalogTypeOK ==
    /\ sdk \in Sdk /\ entries \in Seq(Entry) /\ Len(entries) <= MaxEntries
    /\ uplink \in Seq(Seq(Entry)) /\ Paths \in Seq(Entry)
    /\ call = <<>> \/ call = <<call[1]>>
    /\ handled = <<>> \/ handled = <<handled[1]>>
    /\ changes \in 0 .. MaxChanges

(* An endpoint is exposed once per method and path, anything else once.     *)
KeysAreUnique ==
    \A i, j \in DOMAIN entries : i # j => ~SameKey(entries[i], entries[j])

(* The reference: of the entries that match, none is more specific than the *)
(* one that is resolved, and none that was exposed before it is as specific. *)
ServerResolvesBest ==
    \A m \in Method, p \in Called :
       LET match == [i \in DOMAIN Paths |-> TypeScriptMatch(Paths[i].path, p)]
           matches == {i \in DOMAIN Paths : MatchesMethod(Paths[i], m) /\ Matched(match[i])}
           resolved == ResolveTarget(m, p).entry
       IN  \/ matches = {} /\ resolved = NoEntry
           \/ \E i \in matches :
                 /\ Paths[i] = resolved
                 /\ \A j \in matches :
                       /\ ~MoreSpecific(match[j].specificity, match[i].specificity)
                       /\ j < i => MoreSpecific(match[i].specificity, match[j].specificity)

(* What the server lists of a client and what it resolves agree.            *)
ListingsAgree ==
    \A m \in Method, p \in Called :
       LET found == HasTarget(m, p)
       IN  /\ found <=> m \in ListAllowedMethods(p)
           /\ found <=> FindsClient(m, p)

(* A call under way was resolved in a catalog the server had accepted, for  *)
(* a path that was asked for, whatever the catalog is by now.               *)
CallsWereResolved ==
    /\ IsCatalog(Paths)
    /\ \A i \in DOMAIN call :
          LET c == call[i]
              resolved == TypeScriptResolve(c.catalog, c.method, c.path)
          IN  /\ c.catalog \in Seq(Entry) /\ IsCatalog(c.catalog)
              /\ c.method \in Method /\ c.path \in Called
              /\ c.entry # NoEntry /\ c.entry = resolved.entry /\ c.params = resolved.match.params

(* As long as the catalog of the server is that of the client, a call is    *)
(* handled by the entry the server resolved, with the parameters of its     *)
(* pattern, whatever the SDK.                                               *)
CallsReachTheirEntry ==
    \A i \in DOMAIN handled :
       handled[i].current => /\ handled[i].entry = handled[i].call.entry
                             /\ handled[i].params = handled[i].call.params

CatalogInvariant ==
    /\ CatalogTypeOK
    /\ KeysAreUnique /\ ServerResolvesBest /\ ListingsAgree /\ CallsReachTheirEntry
    /\ CallsWereResolved
=============================================================================
