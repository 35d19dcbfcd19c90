--------------------------- MODULE MCWireExchange ---------------------------
(* The messages of the SDKs, for TLC: an application that gives the most    *)
(* and leaves out or blank what it may in one part at a time.               *)
EXTENDS WireExchange

MCInfo == [id : {"text"}, name : {"text"}, description : Text, version : Text, platform : {"unset", "text"},
           metadata : Structure]

MCFull == [id |-> "text", name |-> "text", description |-> "text", version |-> "text", platform |-> "text",
           metadata |-> "object"]

MCUnset == [f \in DOMAIN MCFull |-> "unset"]

MCOver == {[MCUnset EXCEPT ![f] = v] : f \in {"id", "description", "platform"}, v \in {"blank", "text"}}

MCAuth == [scheme : Text, token : Text, headers : {"unset", "empty", "texts"}, metadata : Structure]

MCFullAuth == [scheme |-> "text", token |-> "text", headers |-> "texts", metadata |-> "object"]

MCEndpoint == [type : {"endpoint"}, leaf : {"endpoint"}, method : {"GET", "HEAD"}, content : {"handler"},
               description : Text, inputSchema : Structure, outputSchema : Structure, contentType : Text]

MCSkill == [type : {"skill"}, leaf : {"skill"}, method : {"GET"}, content : {"prose", "headings", "handler"},
            description : Text, inputSchema : {"unset"}, outputSchema : {"unset"},
            contentType : Text \cup {"null"}]

MCPrompt == [type : {"prompt"}, leaf : {"prompt"}, method : {"GET"}, content : {"prose", "headings", "handler"},
             description : Text, inputSchema : Structure, outputSchema : Structure, contentType : {"unset"}]

MCPath == CHOOSE o \in MCEndpoint : o.method = "GET" /\ {o.description, o.contentType} = {"text"}

MCOneOf(infos, overs, paths, auths) == [info : infos, over : overs, path : paths, auth : auths]

MCRegistration ==
    MCOneOf(MCInfo, {MCUnset}, {MCPath}, {<<>>})
      \cup MCOneOf({MCFull}, MCOver, {MCPath}, {<<>>})
      \cup MCOneOf({MCFull}, {MCUnset}, MCEndpoint \cup MCSkill \cup MCPrompt, {<<>>})
      \cup MCOneOf({MCFull}, {MCUnset}, {MCPath}, {<<a>> : a \in MCAuth})

MCAsked == [query : Structure, headers : {"unset", "empty", "texts"},
            body : {"unset", "null", "blank", "empty", "object"}, auth : {<<>>, <<MCFullAuth>>}]

MCCallOf ==
    MCAsked \cup [query : {"object"}, headers : {"texts"}, body : {"object"}, auth : {<<a>> : a \in MCAuth}]

MCPlainCall == [query |-> "object", headers |-> "texts", body |-> "object", auth |-> <<MCFullAuth>>]

(* A client registers once, and is called when it has given all.  Of two    *)
(* calls under way at once both ask for the most.                           *)
MCWireNext ==
    \/ session = "open" /\ lastRegister = <<>> /\ Registers
    \/ /\ \A i \in DOMAIN lastRegister : lastRegister[i].given.auth = <<MCFullAuth>>
       /\ Exchanges
       /\ \/ \A k \in RoutedCall : calls'[k].asked \in {<<>>, <<CallMessage(MCPlainCall)>>}
          \/ \E k \in RoutedCall : \A j \in RoutedCall \ {k} : calls'[j].phase = "none"
=============================================================================
