--------------------------- MODULE PageInjection ---------------------------
(* What the extension puts into a page, and what it remembers of it: the    *)
(* content script, the bridge of the main world and the path script of a    *)
(* route client (page-commands.ts, tab-lifecycle.ts, injected-main.ts), in  *)
(* one tab whose document is replaced at any time.                          *)
EXTENDS Naturals, FiniteSets

CONSTANTS
    Task,              \* calls of the worker that may inject, at a time
    Object,            \* objects that say what has been injected: one for
                       \* each task and one that is remembered
    NoObject,          \* none
    Url,               \* addresses of the tab that match the route client
    MaxLoads,          \* bound: documents after the first one
    MaxPageTroubles    \* bound: injections and scripts that fail or are slow

ASSUME InjectionConstants ==
    /\ NoObject \notin Object
    /\ IsFiniteSet(Task) /\ IsFiniteSet(Object) /\ Cardinality(Object) > Cardinality(Task)
    /\ MaxLoads \in Nat /\ MaxPageTroubles \in Nat

VARIABLES
    document,    \* the document in the tab, and what has been run in it
    autoBridge,  \* autoInjectBridge of the route client
    known,       \* the objects, each shared by all who have taken it
    injected,    \* tabInjectionState of the tab: the object remembered
    task,        \* the calls under way
    pageTroubles

injectionVars == <<document, autoBridge, known, injected, task, pageTroubles>>

Free == [kind |-> "none", at |-> "free", round |-> 1, object |-> NoObject, load |-> 0, alone |-> TRUE]

(* A command is "heard" while the page works on it.  It is "lost", and a    *)
(* path script "unheard", when nobody is there to answer but a timer.       *)
Stages == {"free", "look", "content", "contentDone", "bridge", "bridgeDone", "script", "running",
           "unheard", "scriptDone", "dispatch", "heard", "lost"}

(* crossed is history: a document was replaced while a task held the object. *)
Nothing(u) == [url |-> u, content |-> FALSE, bridge |-> FALSE, applied |-> FALSE, crossed |-> FALSE]

Unused == Nothing(CHOOSE u \in Url : TRUE)

(* slow: a path script is at work that is no longer waited for.             *)
Empty(u, n) ==
    [load |-> n, url |-> u, content |-> FALSE, bridge |-> FALSE, executed |-> FALSE, slow |-> FALSE]

InjectionTypeOK ==
    /\ document \in [load : 0 .. MaxLoads, url : Url, content : BOOLEAN, bridge : BOOLEAN,
                     executed : BOOLEAN, slow : BOOLEAN]
    /\ autoBridge \in BOOLEAN /\ injected \in Object \cup {NoObject}
    /\ known \in [Object -> [url : Url, content : BOOLEAN, bridge : BOOLEAN, applied : BOOLEAN,
                           crossed : BOOLEAN]]
    /\ task \in [Task -> [kind : {"none", "inject", "command", "call"}, at : Stages, round : {1, 2},
                         object : Object \cup {NoObject}, load : 0 .. MaxLoads, alone : BOOLEAN]]
    /\ pageTroubles \in 0 .. MaxPageTroubles

InjectionInit ==
    /\ document \in {Empty(u, 0) : u \in Url} /\ autoBridge \in BOOLEAN
    /\ known = [o \in Object |-> Unused] /\ injected = NoObject
    /\ task = [t \in Task |-> Free] /\ pageTroubles = MaxPageTroubles

Busy(t) == task[t].at # "free"

At(t, stage) == task[t].at = stage

(* The bridge is wanted by main world commands, and by all if it is to be   *)
(* injected automatically.                                                  *)
WantsBridge(t) == task[t].kind = "call" \/ autoBridge

(* What is left to do for a task by what its object says.                   *)
NextStage(t, k) ==
    CASE ~k.content -> "content"
      [] k.content /\ WantsBridge(t) /\ ~k.bridge -> "bridge"
      [] k.content /\ WantsBridge(t) /\ k.bridge /\ ~k.applied -> "script"
      [] OTHER -> "set"

(* An object that nobody has any more is as good as a new one.              *)
Kept(objects, used) == [o \in Object |-> IF o \in used THEN objects[o] ELSE Unused]

Others(t) == {task[s].object : s \in Task \ {t}}

(* ensureScriptsInjected() goes on with an object; at its end the object is *)
(* remembered, and a command is dispatched.                                 *)
GoesOn(t, o, objects) ==
    IF NextStage(t, objects[o]) = "set"
    THEN /\ injected' = o /\ known' = Kept(objects, Others(t) \cup {o})
         /\ task' = [task EXCEPT ![t] = IF @.kind = "inject" THEN Free
                                        ELSE [@ EXCEPT !.at = "dispatch", !.object = NoObject]]
    ELSE /\ known' = Kept(objects, Others(t) \cup {o, injected}) /\ UNCHANGED injected
         /\ task' = [task EXCEPT ![t].at = NextStage(t, objects[o]), ![t].object = o]

NewObject == CHOOSE o \in Object : injected # o /\ \A t \in Task : task[t].object # o

(* A call of the worker begins.                                             *)
Begins(t, kind) ==
    /\ ~Busy(t)
    /\ task' = [s \in Task |-> IF s = t THEN [Free EXCEPT !.kind = kind, !.at = "look",
                                                          !.alone = \A r \in Task : ~Busy(r)]
                               ELSE [task[s] EXCEPT !.alone = ~Busy(s)]]

BeginsCommand(t) ==
    /\ \E kind \in {"command", "call"} : Begins(t, kind)
    /\ UNCHANGED <<document, autoBridge, known, injected, pageTroubles>>

(* handleTabUpdated() of a complete tab, bootstrapOpenTabs() of any.        *)
BeginsInjection(t) ==
    /\ Begins(t, "inject")
    /\ IF injected # NoObject /\ known[injected].url # document.url
       THEN injected' = NoObject /\ known' = Kept(known, Others(t)) ELSE UNCHANGED <<injected, known>>
    /\ UNCHANGED <<document, autoBridge, pageTroubles>>

(* The address of the tab is known: the object remembered is taken if it    *)
(* has the same, and a new one otherwise.                                   *)
Looks(t) ==
    /\ At(t, "look")
    /\ IF injected # NoObject /\ known[injected].url = document.url
       THEN GoesOn(t, injected, known)
       ELSE GoesOn(t, NewObject, [known EXCEPT ![NewObject] = Nothing(document.url)])
    /\ UNCHANGED <<document, autoBridge, pageTroubles>>

(* executeScript() of the content script and of the bridge.                 *)
Executes(t) ==
    /\ \/ At(t, "content") /\ document' = [document EXCEPT !.content = TRUE]
       \/ At(t, "bridge") /\ document' = [document EXCEPT !.bridge = TRUE]
    /\ task' = [task EXCEPT ![t].at = IF @ = "content" THEN "contentDone" ELSE "bridgeDone"]
    /\ UNCHANGED <<autoBridge, known, injected, pageTroubles>>

Executed(t) ==
    /\ \/ At(t, "contentDone") /\ GoesOn(t, task[t].object, [known EXCEPT ![task[t].object].content = TRUE])
       \/ At(t, "bridgeDone") /\ GoesOn(t, task[t].object, [known EXCEPT ![task[t].object].bridge = TRUE])
    /\ UNCHANGED <<document, autoBridge, pageTroubles>>

Rejects(t) == task' = [task EXCEPT ![t] = Free] /\ known' = Kept(known, Others(t) \cup {injected})

Hears(command) == document.content /\ (command = "command" \/ document.bridge)

(* The path script, sent through the content script to the bridge: it is    *)
(* skipped where it has come to its end before.                             *)
SendsScript(t) ==
    /\ At(t, "script")
    /\ task' = [task EXCEPT ![t].at = CASE ~Hears("call") -> "unheard"
                                        [] Hears("call") /\ document.executed -> "scriptDone"
                                        [] OTHER -> "running",
                            ![t].load = document.load]
    /\ UNCHANGED <<document, autoBridge, known, injected, pageTroubles>>

ScriptEnds(t) ==
    /\ At(t, "running") /\ task[t].load = document.load
    /\ document' = [document EXCEPT !.executed = TRUE]
    /\ task' = [task EXCEPT ![t].at = "scriptDone", ![t].load = 0]
    /\ UNCHANGED <<autoBridge, known, injected, pageTroubles>>

(* No content script, no bridge, or no document any more.                   *)
ScriptIsLost(t) ==
    /\ \/ At(t, "unheard")
       \/ At(t, "running") /\ task[t].load # document.load
    /\ UNCHANGED injected /\ Rejects(t)
    /\ UNCHANGED <<document, autoBridge, pageTroubles>>

ScriptDone(t) ==
    /\ At(t, "scriptDone")
    /\ GoesOn(t, task[t].object, [known EXCEPT ![task[t].object].applied = TRUE])
    /\ UNCHANGED <<document, autoBridge, pageTroubles>>

(* The browser refuses to inject, or the script fails.                      *)
InjectionFails(t) ==
    /\ \/ At(t, "content") \/ At(t, "bridge") \/ At(t, "running")
    /\ pageTroubles > 0 /\ pageTroubles' = pageTroubles - 1
    /\ UNCHANGED injected /\ Rejects(t)
    /\ UNCHANGED <<document, autoBridge>>

(* callMainWorld() gives the script up, which nobody stops.                 *)
ScriptIsSlow(t) ==
    /\ At(t, "running") /\ task[t].load = document.load
    /\ pageTroubles > 0 /\ pageTroubles' = pageTroubles - 1
    /\ document' = [document EXCEPT !.slow = TRUE]
    /\ UNCHANGED injected /\ Rejects(t)
    /\ UNCHANGED autoBridge

SlowScriptEnds ==
    /\ document.slow
    /\ \E executed \in {document.executed, TRUE}, slow \in BOOLEAN :
          document' = [document EXCEPT !.slow = slow, !.executed = executed]
    /\ UNCHANGED <<autoBridge, known, injected, task, pageTroubles>>

(* dispatchPageCommand(): the message comes to whoever is in the document.  *)
Dispatches(t) ==
    /\ At(t, "dispatch")
    /\ task' = [task EXCEPT ![t].at = IF Hears(task[t].kind) THEN "heard" ELSE "lost",
                            ![t].load = document.load]
    /\ UNCHANGED <<document, autoBridge, known, injected, pageTroubles>>

PageAnswers(t) ==
    /\ At(t, "heard") /\ task[t].load = document.load
    /\ task' = [task EXCEPT ![t] = Free]
    /\ UNCHANGED <<document, autoBridge, known, injected, pageTroubles>>

(* Why dispatchPageCommand() rejects: nobody heard the command, or the page *)
(* answers that it has failed, takes too long or is replaced meanwhile.     *)
Fails(t) == At(t, "lost") \/ At(t, "heard")

(* Mutant: the command is sent again, and what is remembered is believed.   *)
TriesAgainBelieving(t) ==
    /\ Fails(t) /\ task[t].round = 1
    /\ task' = [task EXCEPT ![t].at = "look", ![t].round = 2, ![t].load = 0]
    /\ UNCHANGED <<document, autoBridge, known, injected, pageTroubles>>

(* sendPageCommand() forgets what it knows of the tab and runs the command  *)
(* once more, whether the page has run it before or not.                    *)
TriesAgain(t) ==
    /\ Fails(t) /\ task[t].round = 1
    /\ injected' = NoObject
    /\ task' = [task EXCEPT ![t].at = "look", ![t].round = 2, ![t].load = 0]
    /\ known' = Kept(known, Others(t))
    /\ UNCHANGED <<document, autoBridge, pageTroubles>>

GivesUp(t) ==
    /\ Fails(t) /\ task[t].round = 2
    /\ UNCHANGED injected /\ Rejects(t)
    /\ UNCHANGED <<document, autoBridge, pageTroubles>>

(* The content script is registered for the addresses with a permission.    *)
RegisteredScriptRuns ==
    /\ ~document.content /\ document' = [document EXCEPT !.content = TRUE]
    /\ UNCHANGED <<autoBridge, known, injected, task, pageTroubles>>

(* Mutant: only another address makes the worker forget.                    *)
LoadsAndForgetsOther(u) ==
    /\ document.load < MaxLoads
    /\ document' = Empty(u, document.load + 1)
    /\ injected' = IF u # document.url THEN NoObject ELSE injected
    /\ task' = [t \in Task |-> [task[t] EXCEPT !.alone = ~Busy(t)]]
    /\ known' = [o \in Object |-> CASE \E t \in Task : task[t].object = o -> [known[o] EXCEPT !.crossed = TRUE]
                                    [] injected = o /\ u = document.url -> known[o]
                                    [] OTHER -> Unused]
    /\ UNCHANGED <<autoBridge, pageTroubles>>

(* A reload or a navigation; handleTabRemoved() when it begins to load.     *)
Loads(u) ==
    /\ document.load < MaxLoads
    /\ document' = Empty(u, document.load + 1)
    /\ injected' = NoObject
    /\ task' = [t \in Task |-> [task[t] EXCEPT !.alone = ~Busy(t)]]
    /\ known' = [o \in Object |-> IF \E t \in Task : task[t].object = o
                                 THEN [known[o] EXCEPT !.crossed = TRUE] ELSE Unused]
    /\ UNCHANGED <<autoBridge, pageTroubles>>

TaskSteps(t) ==
    \/ Looks(t) \/ Executes(t) \/ Executed(t) \/ SendsScript(t) \/ ScriptEnds(t) \/ ScriptIsLost(t)
    \/ ScriptIsSlow(t) \/ ScriptDone(t) \/ Dispatches(t) \/ PageAnswers(t) \/ TriesAgain(t) \/ GivesUp(t)

InjectionNext ==
    \/ \E t \in Task : TaskSteps(t) \/ BeginsCommand(t) \/ BeginsInjection(t) \/ InjectionFails(t)
    \/ RegisteredScriptRuns \/ SlowScriptEnds
    \/ \E u \in Url : Loads(u)

InjectionSpec == InjectionInit /\ [][InjectionNext]_injectionVars

-----------------------------------------------------------------------------
(* Properties.                                                              *)

(* What is remembered of the tab is so, unless a document was replaced      *)
(* while something was injected.                                            *)
RemembersTheDocument ==
    injected # NoObject /\ ~known[injected].crossed =>
       LET k == known[injected]
       IN  /\ k.url = document.url
           /\ k.content => document.content
           /\ k.bridge => document.bridge
           /\ k.applied => document.executed

InUse(o) == injected = o \/ \E t \in Task : task[t].object = o

(* What an object says of the document.                                     *)
IsSo(k) ==
    /\ k.url = document.url
    /\ k.content => document.content
    /\ k.bridge => document.bridge
    /\ k.applied => document.executed

(* The same of the objects that tasks hold: what they say is so, and what   *)
(* is about to be noted.                                                    *)
ObjectsAreSo == \A o \in Object : InUse(o) /\ ~known[o].crossed => IsSo(known[o])

StagesAreSo ==
    \A t \in Task :
       /\ task[t].object = NoObject <=> task[t].at \in {"free", "look", "dispatch", "heard", "lost"}
       /\ task[t].kind = "none" <=> At(t, "free")
       /\ task[t].at \in {"dispatch", "heard", "lost"} => task[t].kind # "inject"
       /\ task[t].object # NoObject /\ ~known[task[t].object].crossed =>
             /\ At(t, "contentDone") => document.content
             /\ At(t, "bridgeDone") => document.bridge
             /\ At(t, "scriptDone") => document.executed

(* A command that is alone begins its second round with nothing remembered, *)
(* and is sent again with all it needs in the document.                     *)
SecondRoundsFit ==
    \A t \in Task : Busy(t) /\ task[t].alone =>
       /\ \A s \in Task \ {t} : ~Busy(s)
       /\ task[t].round = 2 =>
             /\ task[t].kind # "inject"
             /\ At(t, "look") => injected = NoObject
             /\ task[t].object # NoObject => ~known[task[t].object].crossed
             /\ At(t, "dispatch") => Hears(task[t].kind)
             /\ ~At(t, "lost")

(* The last three parts make it inductive.                                  *)
InjectionInvariant ==
    /\ InjectionTypeOK /\ RemembersTheDocument
    /\ ObjectsAreSo /\ StagesAreSo /\ SecondRoundsFit

(* Whatever has been remembered wrongly, a command that meets no other call *)
(* and no other document is not rejected for want of a page that hears it,  *)
(* once its scripts are injected: what it is rejected with is what the page *)
(* said of the command, or did not say in time.                             *)
CommandsHeal == [][\A t \in Task : task[t].alone /\ GivesUp(t) => At(t, "heard")]_injectionVars
=============================================================================
