---------------------------- MODULE WireExchange ----------------------------
(* A client of one of the SDKs and its server, and whether what either says *)
(* reaches the other: the registration, the calls and their answers, in the *)
(* forms of WireFormat, over a websocket or the HTTP loop.                  *)
EXTENDS WireFormat, Sequences

CONSTANTS
    Registration,  \* what an application may register with: what it says of the
                   \* client, overrides, one path and at most one authentication
    RoutedCall,          \* calls
    CallOf         \* what a caller may ask: query, headers, body, authentication

GivenInfo == [id : {"blank", "text"}, name : {"blank", "text"}, description : Text, version : Text,
              platform : Text, metadata : Structure]

GivenOver == [id : Text, name : Text, description : Text, version : Text, platform : Text,
              metadata : Structure]

GivenAuth == [scheme : Text, token : Text, headers : {"unset", "empty", "texts"}, metadata : Structure]

(* A handler answers an endpoint; only of a skill may it be said that it    *)
(* has no content type.                                                     *)
GivenPath ==
    [type : {"endpoint"}, leaf : {"endpoint"}, method : STRING, content : {"handler"}, description : Text,
     inputSchema : Structure, outputSchema : Structure, contentType : Text]
      \cup [type : {"skill"}, leaf : {"skill"}, method : STRING, content : {"prose", "headings", "handler"},
            description : Text, inputSchema : {"unset"}, outputSchema : {"unset"},
            contentType : Text \cup {"null"}]
      \cup [type : {"prompt"}, leaf : {"prompt"}, method : STRING, content : {"prose", "headings", "handler"},
            description : Text, inputSchema : Structure, outputSchema : Structure, contentType : {"unset"}]

AtMostOne(auths) == {<<>>} \cup {<<a>> : a \in auths}

ASSUME WireConstants ==
    /\ Registration \subseteq [info : GivenInfo, over : GivenOver, path : GivenPath, auth : AtMostOne(GivenAuth)]
    /\ CallOf \subseteq [query : Structure, headers : {"unset", "empty", "texts"},
                         body : {"unset", "null", "blank", "text", "empty", "texts", "object"},
                         auth : AtMostOne(GivenAuth)]

VARIABLES
    speaks,       \* the SDK of the client
    by,           \* the carrier
    session,      \* of the client: "open", "registered" or "over"
    lastRegister, \* the registration the server looked at last, or <<>>
    calls,        \* a call: its phase, what is asked, what the handler was given
                  \* and how it ended
    answers,      \* answers on their way to the server
    invocation    \* a call at the server

wireVars == <<speaks, by, session, lastRegister, calls, answers, invocation>>

Speaks == {"typescript", "go", "python", "rust", "dotnet", "java"}

CallIn(phase, asked, given, ending) == [phase |-> phase, asked |-> asked, given |-> given, ending |-> ending]

Uncalled == CallIn("none", <<>>, <<>>, "none")

WireInit ==
    /\ speaks \in Speaks /\ by \in {"websocket", "http"}
    /\ session = "open" /\ lastRegister = <<>>
    /\ calls = [k \in RoutedCall |-> Uncalled] /\ answers = <<>>
    /\ invocation = [k \in RoutedCall |-> "none"]

-----------------------------------------------------------------------------
(* By the SDK.                                                              *)

Of(o, endpoint(_), skill(_), prompt(_)) ==
    CASE o.type = "endpoint" -> endpoint(o) [] o.type = "skill" -> skill(o) [] o.type = "prompt" -> prompt(o)

Described(o) ==
    CASE speaks = "typescript" -> Of(o, TypescriptEndpoint, TypescriptSkill, TypescriptPrompt)
      [] speaks = "go" -> Of(o, GoEndpoint, GoSkill, GoPrompt)
      [] speaks = "python" -> Of(o, PythonEndpoint, PythonSkill, PythonPrompt)
      [] speaks = "rust" -> Of(o, RustEndpoint, RustSkill, RustPrompt)
      [] speaks = "dotnet" -> Of(o, DotnetEndpoint, DotnetSkill, DotnetPrompt)
      [] speaks = "java" -> Of(o, JavaEndpoint, JavaSkill, JavaPrompt)

Takes(o) ==
    CASE speaks = "typescript" -> TypescriptTakes(o) [] speaks = "go" -> GoTakes(o)
      [] speaks = "python" -> PythonTakes(o) [] speaks = "rust" -> RustTakes(o)
      [] speaks = "dotnet" -> DotnetTakes(o) [] speaks = "java" -> JavaTakes(o)

ClientOf(info, over) ==
    CASE speaks = "typescript" -> TypescriptClient(info, over)
      [] speaks = "go" -> GoClientDescriptor(info, over)
      [] speaks = "python" -> PythonClientDescriptor(info, over)
      [] speaks = "rust" -> RustClientDescriptor(info, over)
      [] speaks = "dotnet" -> DotnetClientDescriptor(info, over)
      [] speaks = "java" -> JavaClientDescriptor(info, over)

AuthSent(a) ==
    CASE speaks = "typescript" -> TypescriptAuth(a) [] speaks = "go" -> GoAuth(a)
      [] speaks = "python" -> PythonAuth(a) [] speaks = "rust" -> RustAuth(a)
      [] speaks = "dotnet" -> DotnetAuth(a) [] speaks = "java" -> JavaAuth(a)

RequestOf(m) ==
    CASE speaks = "typescript" -> TypescriptRequest(m) [] speaks = "go" -> GoRequest(m)
      [] speaks = "python" -> PythonRequest(m) [] speaks = "rust" -> RustRequest(m)
      [] speaks = "dotnet" -> DotnetRequest(m) [] speaks = "java" -> JavaRequest(m)

AnswerOf(ending) ==
    CASE speaks = "typescript" -> TypescriptAnswer(by, ending) [] speaks = "go" -> GoAnswer(by, ending)
      [] speaks = "python" -> PythonAnswer(by, ending) [] speaks = "rust" -> RustAnswer(by, ending)
      [] speaks = "dotnet" -> DotnetAnswer(by, ending) [] speaks = "java" -> JavaAnswer(by, ending)

ToAnswers(ending) == {AnswerOf(ending)[i] : i \in DOMAIN AnswerOf(ending)}

(* Endings there are: in Rust a handler returns JSON values, and neither in *)
(* Rust nor in Go does it throw (a panic ends the task or the program).     *)
EndsWith(ending) ==
    /\ ending = "throws" => speaks \notin {"go", "rust"}
    /\ ending = "data without form" => speaks # "rust"

-----------------------------------------------------------------------------
(* Steps.                                                                   *)

RegisterMessage(r) ==
    [client |-> ClientOf(r.info, r.over), path |-> Described(r.path),
     auth |-> IF r.auth = <<>> THEN <<>> ELSE <<AuthSent(r.auth[1])>>]

(* What is refused closes a websocket; the loop answers 400.                *)
Refused ==
    /\ session' = IF by = "websocket" THEN "over" ELSE session
    /\ answers' = IF by = "websocket" THEN <<>> ELSE Tail(answers)
    /\ invocation' = [k \in RoutedCall |-> IF by = "websocket" /\ invocation[k] = "pending" THEN "rejected"
                                                                                  ELSE invocation[k]]

Register(r) ==
    /\ session # "over" /\ Takes(r.path)
    /\ \A k \in RoutedCall : invocation[k] = "none"
    /\ lastRegister' = <<[given |-> r, message |-> RegisterMessage(r)]>>
    /\ session' = IF IsRegisterClient(RegisterMessage(r)) THEN "registered"
                  ELSE IF by = "websocket" THEN "over" ELSE session
    /\ UNCHANGED <<speaks, by, calls, answers, invocation>>

(* The router leaves out what the caller did not ask.                       *)
CallMessage(q) ==
    [method |-> "GET", query |-> Sent(q.query), headers |-> Sent(q.headers), body |-> Sent(q.body),
     auth |-> IF q.auth = <<>> THEN <<>> ELSE <<Auth(q.auth[1], Sent, Sent)>>]

Asked == AtMostOne({CallMessage(q) : q \in CallOf})

RouteCall(k, q) ==
    /\ session = "registered" /\ invocation[k] = "none"
    /\ lastRegister' = <<>>
    /\ calls' = [calls EXCEPT ![k] = CallIn("asked", <<CallMessage(q)>>, <<>>, "none")]
    /\ invocation' = [invocation EXCEPT ![k] = "pending"]
    /\ UNCHANGED <<speaks, by, session, answers>>

HandlerRuns(k) ==
    /\ session = "registered" /\ calls[k].phase = "asked"
    /\ IsCallClient(calls[k].asked[1])
    /\ calls' = [calls EXCEPT ![k] = CallIn("runs", @.asked, <<RequestOf(@.asked[1])>>, "none")]
    /\ UNCHANGED <<speaks, by, session, lastRegister, answers, invocation>>

(* A handler that throws ends the loop that polls, in Java.                 *)
HandlerEnds(k, ending) ==
    /\ calls[k].phase = "runs" /\ EndsWith(ending)
    /\ calls' = [calls EXCEPT ![k] = CallIn("ended", <<>>, <<>>, ending)]
    /\ IF session = "over" THEN UNCHANGED <<session, answers>>
       ELSE IF speaks = "java" /\ by = "http" /\ ending = "throws"
       THEN session' = "over" /\ answers' = <<>>
       ELSE /\ session' = session
            /\ answers' = answers \o [i \in DOMAIN AnswerOf(ending) |->
                                        [call |-> k, message |-> AnswerOf(ending)[i]]]
    /\ UNCHANGED <<speaks, by, lastRegister, invocation>>

(* The next answer leaves the client and comes to the server.  The loop of  *)
(* the TypeScript client gives up when it cannot write it, or is refused.   *)
AnswerTaken ==
    /\ answers # <<>> /\ Head(answers).message.written /\ IsCallClientResult(Head(answers).message)
    /\ answers' = Tail(answers)
    /\ invocation' = [invocation EXCEPT ![Head(answers).call] = IF @ = "pending" THEN "answered" ELSE @]
    /\ UNCHANGED <<speaks, by, session, lastRegister, calls>>

AnswerRefused ==
    /\ answers # <<>> /\ Head(answers).message.written /\ ~IsCallClientResult(Head(answers).message)
    /\ Refused
    /\ UNCHANGED <<speaks, by, lastRegister, calls>>

AnswerNotWritten ==
    /\ answers # <<>> /\ ~Head(answers).message.written
    /\ session' = "over" /\ answers' = <<>>
    /\ UNCHANGED <<speaks, by, lastRegister, calls, invocation>>

CallTimesOut(k) ==
    /\ invocation[k] = "pending" /\ invocation' = [invocation EXCEPT ![k] = "timed out"]
    /\ UNCHANGED <<speaks, by, session, lastRegister, calls, answers>>

Registers == \E r \in Registration : Register(r)

Exchanges ==
    \/ \E k \in RoutedCall : \/ \E q \in CallOf : RouteCall(k, q)
                       \/ \E ending \in Ending : HandlerEnds(k, ending)
                       \/ HandlerRuns(k) \/ CallTimesOut(k)
    \/ AnswerTaken \/ AnswerRefused \/ AnswerNotWritten

WireNext == Registers \/ Exchanges

WireSpec == WireInit /\ [][WireNext]_wireVars

-----------------------------------------------------------------------------
(* Properties.                                                              *)

SentAuth == [scheme : Kind, token : Kind, headers : Kind, metadata : Kind]

Message == [method : {"GET"}, query : Kind, headers : Kind, body : Kind, auth : Seq(SentAuth)]

HandedKind == Kind \cup {"unset"}

HandedAuth == [scheme : HandedKind, token : HandedKind, headers : HandedKind, metadata : HandedKind]

Handed == [queries : HandedKind, headers : HandedKind, body : HandedKind, auth : Seq(HandedAuth)]

WireTypeOK ==
    /\ speaks \in Speaks /\ by \in {"websocket", "http"}
    /\ session \in {"open", "registered", "over"}
    /\ calls \in [RoutedCall -> [phase : {"none", "asked", "runs", "ended"}, asked : Seq(Message),
                                 given : Seq(Handed), ending : Ending \cup {"none"}]]
    /\ answers \in Seq([call : RoutedCall, message : {Result, Unwritable} \cup {Failure(t) : t \in Kind}])
    /\ invocation \in [RoutedCall -> {"none", "pending", "answered", "rejected", "timed out"}]

(* A server refuses a registration only when an application has named a     *)
(* method the protocol does not have, or said of a Java skill that it has   *)
(* no content type: no other choice of what an API lets one leave out or    *)
(* leave blank makes a message that the guards refuse.                      *)
RegistrationsPass ==
    \A i \in DOMAIN lastRegister :
       LET path == lastRegister[i].given.path
       IN  \/ IsRegisterClient(lastRegister[i].message)
           \/ path.type = "endpoint" /\ path.method \notin KnownMethod
           \/ speaks = "java" /\ path.type = "skill" /\ path.contentType = "null"

(* Nothing, or nothing to speak of.                                         *)
Plain(v) == IF v \in {"absent", "unset", "null", "blank", "empty"} THEN "nothing" ELSE v

(* In whatever language a client is written, the server gets to know the    *)
(* same of it: what was given, blanks aside, the overrides first.  Only C#  *)
(* describes a text without prose by its headings.                          *)
SaysWhatWasGiven ==
    \A i \in DOMAIN lastRegister :
       LET r == lastRegister[i].given
           m == lastRegister[i].message
           given(f) == IF r.over[f] = "unset" THEN r.info[f] ELSE r.over[f]
       IN  /\ \A f \in DOMAIN m.client : Plain(m.client[f]) = Plain(given(f))
           /\ \A f \in {"inputSchema", "outputSchema"} :
                 Plain(m.path[f]) = IF r.path.type = "skill" THEN "nothing" ELSE Plain(r.path[f])
           /\ \/ Plain(m.path.description) = Plain(r.path.description)
              \/ r.path.content = "prose" /\ m.path.description = "text"
              \/ r.path.content = "headings" /\ speaks = "dotnet"
           /\ m.auth = <<>> <=> r.auth = <<>>
           /\ \A j \in DOMAIN m.auth : \A f \in DOMAIN m.auth[j] : Plain(m.auth[j][f]) = Plain(r.auth[j][f])

(* In whatever language a handler is written, it is given what the caller   *)
(* asked.  A body is looked at closely: only null counts as none.           *)
HandlersGetTheCall ==
    \A k \in RoutedCall : \A i \in DOMAIN calls[k].given :
       LET m == calls[k].asked[i]
           r == calls[k].given[i]
           body(v) == IF v \in {"absent", "unset", "null"} THEN "nothing" ELSE v
       IN  /\ Plain(r.queries) = Plain(m.query) /\ Plain(r.headers) = Plain(m.headers)
           /\ body(r.body) = body(m.body)
           /\ r.auth = <<>> <=> m.auth = <<>>
           /\ \A j \in DOMAIN m.auth : \A f \in DOMAIN m.auth[j] : Plain(r.auth[j][f]) = Plain(m.auth[j][f])

(* The answer of a handler that has ended is on its way, unless the call    *)
(* has its answer or its caller has given up.                               *)
AnswerKept(k) ==
    calls[k].phase = "ended" =>
       \/ invocation[k] \in {"answered", "timed out"}
       \/ \E i \in DOMAIN answers : answers[i].call = k

(* Endings that cost the call its answer, and perhaps others theirs.        *)
Silent(ending) ==
    \/ ending = "data without form" /\ (speaks \in {"go", "java"} \/ (speaks = "typescript" /\ by = "http"))
    \/ ending \in {"throws", "fails without message"} /\ speaks = "java"

AnswersReachTheServer == (\A k \in RoutedCall : ~Silent(calls[k].ending)) => \A k \in RoutedCall : AnswerKept(k)

(* What has been said is what the SDK makes of what an application gives.   *)
RegistrationIsMade ==
    \A i \in DOMAIN lastRegister :
       LET r == lastRegister[i].given
       IN  r \in Registration /\ Takes(r.path) /\ lastRegister[i].message = RegisterMessage(r)

(* What is asked is what the server makes of what a caller gives, and a     *)
(* handler is given what the SDK makes of that.                             *)
CallsAreMade ==
    \A k \in RoutedCall :
       /\ calls[k].asked \in Asked
       /\ calls[k].given = <<>> \/ calls[k].given = <<RequestOf(calls[k].asked[1])>>
       /\ calls[k].given # <<>> \/ calls[k].phase = "asked" => calls[k].asked # <<>>

(* An answer is of a handler that has ended, and what the SDK makes of it.  *)
AnswersAreMade ==
    /\ \A i \in DOMAIN answers :
          /\ calls[answers[i].call].phase = "ended"
          /\ answers[i].message \in ToAnswers(calls[answers[i].call].ending)
    /\ \A k \in RoutedCall : /\ calls[k].phase = "none" <=> invocation[k] = "none"
                             /\ calls[k].phase = "ended" <=> calls[k].ending # "none"
                             /\ calls[k].phase = "ended" => EndsWith(calls[k].ending)

(* A session ends, and a call is rejected, only after an ending that costs  *)
(* answers, or when a registration was refused.                             *)
SilenceEndsSessions ==
    (\A k \in RoutedCall : ~Silent(calls[k].ending)) =>
       /\ \A k \in RoutedCall : invocation[k] # "rejected"
       /\ session = "over" => \A k \in RoutedCall : invocation[k] = "none"

WireInvariant ==
    /\ WireTypeOK
    /\ RegistrationsPass /\ SaysWhatWasGiven /\ HandlersGetTheCall /\ AnswersReachTheServer
    /\ RegistrationIsMade /\ CallsAreMade /\ AnswersAreMade /\ SilenceEndsSessions
=============================================================================
