----------------------------- MODULE WireFormat -----------------------------
(* The messages between a client and its server, as the six SDKs write and  *)
(* read them and as the guards of the protocol package let them pass.  A    *)
(* value is told by its kind: what an application did not give is "unset",  *)
(* a member that a message lacks is "absent", an empty text "blank", an     *)
(* empty object "empty", an object of texts "texts" and any other "object". *)
EXTENDS Naturals

Kind == {"absent", "null", "blank", "text", "empty", "texts", "object"}

Text == {"unset", "blank", "text"}

Structure == {"unset", "empty", "object"}

KnownMethod == {"GET", "POST"}

(* What is not given is not sent; or what is empty is not sent either.      *)
Sent(v) == IF v = "unset" THEN "absent" ELSE v

Filled(v) == IF v \in {"blank", "empty"} THEN "absent" ELSE Sent(v)

Or(v, default) == IF v \in {"unset", "null"} THEN default ELSE v

OrFilled(v, default) == IF v \in {"unset", "null", "blank"} THEN default ELSE v

-----------------------------------------------------------------------------
(* The guards of the protocol package.                                      *)

IsString(v) == v \in {"blank", "text"}

IsJsonObject(v) == v \in {"empty", "texts", "object"}

IsStringRecord(v) == v \in {"empty", "texts"}

IfPresent(v, isFine) == v = "absent" \/ isFine

IsAuthContext(a) ==
    /\ IfPresent(a.scheme, IsString(a.scheme)) /\ IfPresent(a.token, IsString(a.token))
    /\ IfPresent(a.headers, IsStringRecord(a.headers))
    /\ IfPresent(a.metadata, IsJsonObject(a.metadata))

(* The leaf of a path is told by the type it is reserved for.               *)
IsPathDescriptor(d) ==
    /\ d.type \in {"endpoint", "skill", "prompt"} /\ d.leaf = d.type
    /\ IfPresent(d.description, IsString(d.description))
    /\ d.type = "endpoint" => d.method \in KnownMethod
    /\ d.type # "skill" => /\ IfPresent(d.inputSchema, IsJsonObject(d.inputSchema))
                           /\ IfPresent(d.outputSchema, IsJsonObject(d.outputSchema))
    /\ d.type # "prompt" => IfPresent(d.contentType, IsString(d.contentType))

(* Of the client nothing but its id, its name and its paths is looked at.   *)
IsRegisterClient(m) ==
    /\ IsString(m.client.id) /\ IsString(m.client.name)
    /\ IsPathDescriptor(m.path)
    /\ \A i \in DOMAIN m.auth : IsAuthContext(m.auth[i])

IsCallClient(m) ==
    /\ m.method \in KnownMethod
    /\ IfPresent(m.query, IsJsonObject(m.query)) /\ IfPresent(m.headers, IsStringRecord(m.headers))
    /\ \A i \in DOMAIN m.auth : IsAuthContext(m.auth[i])

(* An error is looked at whether or not ok is true.                         *)
IsCallClientResult(m) ==
    /\ m.ok \in BOOLEAN
    /\ \A i \in DOMAIN m.error : m.error[i].code = "handler_error" /\ IsString(m.error[i].message)

-----------------------------------------------------------------------------
(* The path descriptors.  An application gives a type, a leaf, what it says *)
(* of the path, and of a skill or a prompt the content: prose, headings     *)
(* with nothing below them, or a handler.                                   *)

Descriptor(o, description, inputSchema, outputSchema, contentType) ==
    [type |-> o.type, leaf |-> o.type, method |-> o.method, description |-> description,
     inputSchema |-> inputSchema, outputSchema |-> outputSchema, contentType |-> contentType]

Prose(o) == IF o.content = "prose" THEN "text" ELSE "unset"

TypescriptSkill(o) ==
    Descriptor(o, Filled(Or(o.description, Prose(o))), "absent", "absent", OrFilled(o.contentType, "text"))

TypescriptPrompt(o) ==
    Descriptor(o, Filled(Or(o.description, Prose(o))), Sent(o.inputSchema), Sent(o.outputSchema), "absent")

TypescriptEndpoint(o) ==
    Descriptor(o, Filled(o.description), Sent(o.inputSchema), Sent(o.outputSchema), Filled(o.contentType))

GoSkill(o) ==
    Descriptor(o, Filled(OrFilled(o.description, Prose(o))), "absent", "absent", OrFilled(o.contentType, "text"))

GoPrompt(o) ==
    Descriptor(o, Filled(OrFilled(o.description, Prose(o))), Sent(o.inputSchema), Sent(o.outputSchema), "absent")

GoEndpoint(o) ==
    Descriptor(o, Filled(o.description), Sent(o.inputSchema), Sent(o.outputSchema), Filled(o.contentType))

(* A handler's description is sent as it is.                                *)
PythonSkill(o) ==
    Descriptor(o, Sent(IF o.content = "handler" THEN o.description ELSE OrFilled(o.description, Prose(o))),
               "absent", "absent", Or(o.contentType, "text"))

PythonPrompt(o) ==
    Descriptor(o, Sent(IF o.content = "handler" THEN o.description ELSE OrFilled(o.description, Prose(o))),
               Sent(o.inputSchema), Sent(o.outputSchema), "absent")

PythonEndpoint(o) ==
    Descriptor(o, Sent(o.description), Sent(o.inputSchema), Sent(o.outputSchema), Sent(o.contentType))

(* Mutant: without skip_serializing_if, what is none is null.               *)
RustSkillOfNulls(o) ==
    Descriptor(o, IF Or(o.description, Prose(o)) = "unset" THEN "null" ELSE Or(o.description, Prose(o)),
               "absent", "absent", Or(o.contentType, "text"))

RustSkill(o) ==
    Descriptor(o, Sent(Or(o.description, Prose(o))), "absent", "absent", Or(o.contentType, "text"))

RustPrompt(o) ==
    Descriptor(o, Sent(Or(o.description, Prose(o))), Sent(o.inputSchema), Sent(o.outputSchema), "absent")

RustEndpoint(o) ==
    Descriptor(o, Sent(o.description), Sent(o.inputSchema), Sent(o.outputSchema), Sent(o.contentType))

(* Here a heading counts as prose.                                          *)
DotnetSkill(o) ==
    Descriptor(o, OrFilled(o.description, "text"), "absent", "absent", Filled(Or(o.contentType, "text")))

DotnetPrompt(o) ==
    Descriptor(o, OrFilled(o.description, "text"), Sent(o.inputSchema), Sent(o.outputSchema), "absent")

(* Mutant: a schema is left out.                                            *)
DotnetEndpointOfOneSchema(o) ==
    Descriptor(o, Filled(o.description), Sent(o.inputSchema), "absent", Filled(o.contentType))

DotnetEndpoint(o) ==
    Descriptor(o, Filled(o.description), Sent(o.inputSchema), Sent(o.outputSchema), Filled(o.contentType))

(* The content type is put there whatever it is.                            *)
JavaSkill(o) ==
    Descriptor(o, Sent(Or(o.description, Prose(o))), "absent", "absent",
               IF o.contentType = "unset" THEN "text" ELSE o.contentType)

JavaPrompt(o) ==
    Descriptor(o, Sent(Or(o.description, Prose(o))), Sent(o.inputSchema), Sent(o.outputSchema), "absent")

JavaEndpoint(o) ==
    Descriptor(o, Sent(o.description), Sent(o.inputSchema), Sent(o.outputSchema), Sent(o.contentType))

(* What the API of an SDK takes: a method that is only a text may be any,   *)
(* null can be given where the type has it, static content goes with        *)
(* options or instead of them.                                              *)
TypescriptTakes(o) ==
    /\ o.method \in KnownMethod /\ o.contentType # "null"
    /\ o.type # "endpoint" /\ o.content # "handler" =>
         "unset" = o.description /\ {"unset"} = {o.inputSchema, o.outputSchema, o.contentType}

GoTakes(o) == o.contentType # "null" /\ (o.type = "endpoint" <=> o.content = "handler")

PythonTakes(o) == o.contentType # "null"

RustTakes(o) ==
    /\ o.method \in KnownMethod /\ o.contentType # "null"
    /\ o.type = "endpoint" <=> o.content = "handler"

DotnetTakes(o) == o.method \in KnownMethod /\ (o.type = "endpoint" <=> o.content = "handler")

JavaTakes(o) == o.method \in KnownMethod /\ (o.type = "endpoint" <=> o.content = "handler")

-----------------------------------------------------------------------------
(* The client: what it says of itself, in part overridden when it registers.*)

Client(info, text(_), object(_)) ==
    [id |-> info.id, name |-> info.name, description |-> text(info.description),
     version |-> text(info.version), platform |-> text(info.platform), metadata |-> object(info.metadata)]

Overridden(info, over) == [f \in DOMAIN info |-> IF over[f] = "unset" THEN info[f] ELSE over[f]]

TypescriptClient(info, over) == Client(Overridden(info, over), Sent, Sent)

GoClientDescriptor(info, over) == Client(Overridden(info, over), Filled, Sent)

PythonClientDescriptor(info, over) == Client(Overridden(info, over), Sent, Sent)

RustClientDescriptor(info, over) == Client(Overridden(info, over), Sent, Sent)

DotnetClientDescriptor(info, over) == Client(Overridden(info, over), Filled, Sent)

JavaClientDescriptor(info, over) == Client(Overridden(info, over), Sent, Sent)

(* The authentication it sends along.                                       *)
Auth(a, text(_), object(_)) ==
    [scheme |-> text(a.scheme), token |-> text(a.token),
     headers |-> object(a.headers), metadata |-> object(a.metadata)]

TypescriptAuth(a) == Auth(a, Sent, Sent)

GoAuth(a) == Auth(a, Filled, Filled)

PythonAuth(a) == Auth(a, Sent, Sent)

RustAuth(a) == Auth(a, Sent, Sent)

DotnetAuth(a) == Auth(a, Filled, Filled)

JavaAuth(a) == Auth(a, Sent, Filled)

-----------------------------------------------------------------------------
(* What a handler is given of a call.  Java, Go and C# have an empty object *)
(* where a member is missing or of another kind.                            *)

Got(v) == IF v = "absent" THEN "unset" ELSE v

OrEmpty(v) == IF IsJsonObject(v) THEN v ELSE "empty"

OrEmptyTexts(v) == IF IsStringRecord(v) THEN v ELSE "empty"

OrNull(v) == IF v = "absent" THEN "null" ELSE v

Request(m, body, auth) ==
    [queries |-> OrEmpty(m.query), headers |-> OrEmptyTexts(m.headers), body |-> body, auth |-> auth]

AuthOf(m, text(_), object(_)) == IF m.auth = <<>> THEN <<>> ELSE <<Auth(m.auth[1], text, object)>>

TypescriptRequest(m) == Request(m, Got(m.body), m.auth)

(* A text that is missing is an empty one.                                  *)
GoRequest(m) ==
    Request(m, OrNull(m.body),
            AuthOf(m, LAMBDA v : IF IsString(v) THEN v ELSE "blank", OrEmpty))

PythonRequest(m) == Request(m, OrNull(m.body), AuthOf(m, Got, Got))

(* Mutant: the headers of the call are not passed on.                       *)
RustRequestWithoutHeaders(m) == Request([m EXCEPT !.headers = "absent"], Got(m.body), AuthOf(m, Got, Got))

(* An Option of a value takes null for none.                                *)
RustRequest(m) ==
    Request(m, IF m.body \in {"absent", "null"} THEN "unset" ELSE m.body, AuthOf(m, Got, Got))

DotnetRequest(m) == Request(m, OrNull(m.body), AuthOf(m, Got, OrEmpty))

JavaRequest(m) == Request(m, OrNull(m.body), AuthOf(m, Got, OrEmpty))

-----------------------------------------------------------------------------
(* The answers to a call, by how its handler ends: with data, or with data  *)
(* that JSON has no form for; with an error, or one that has no message; or *)
(* by an error thrown before there is a promise.  No answer is <<>>.        *)

Ending == {"data", "data without form", "fails", "fails without message", "throws"}

Result == [ok |-> TRUE, error |-> <<>>, written |-> TRUE]

Unwritable == [Result EXCEPT !.written = FALSE]

Failure(message) ==
    [ok |-> FALSE, error |-> <<[code |-> "handler_error", message |-> message]>>, written |-> TRUE]

Said(ending) == IF ending = "fails without message" THEN "blank" ELSE "text"

(* What cannot be sent is caught with what the handler throws; but the      *)
(* queue of the HTTP loop takes anything.                                   *)
TypescriptAnswer(carrier, ending) ==
    CASE ending = "data" -> <<Result>>
      [] ending = "data without form" /\ carrier = "http" -> <<Unwritable>>
      [] OTHER -> <<Failure(Said(ending))>>

(* Mutant: what cannot be sent is not caught.                               *)
PythonAnswerUncaught(carrier, ending) ==
    CASE ending = "data" -> <<Result>>
      [] ending = "data without form" -> <<>>
      [] OTHER -> <<Failure(Said(ending))>>

PythonAnswer(carrier, ending) == IF ending = "data" THEN <<Result>> ELSE <<Failure(Said(ending))>>

DotnetAnswer(carrier, ending) == IF ending = "data" THEN <<Result>> ELSE <<Failure(Said(ending))>>

(* What a handler returns is a JSON value already.                          *)
RustAnswer(carrier, ending) == IF ending = "data" THEN <<Result>> ELSE <<Failure(Said(ending))>>

(* The error of a send is dropped.                                          *)
GoAnswer(carrier, ending) ==
    CASE ending = "data" -> <<Result>>
      [] ending = "data without form" -> <<>>
      [] OTHER -> <<Failure(Said(ending))>>

(* The message of an exception may be null; what is thrown passes through   *)
(* handleMessage(), and an answer that cannot be written is dropped.        *)
JavaAnswer(carrier, ending) ==
    CASE ending = "data" -> <<Result>>
      [] ending \in {"data without form", "throws"} -> <<>>
      [] ending = "fails without message" -> <<Failure("null")>>
      [] ending = "fails" -> <<Failure("text")>>
=============================================================================
