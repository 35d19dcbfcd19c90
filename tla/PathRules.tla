----------------------------- MODULE PathRules -----------------------------
(* The path rules, which the protocol package and every SDK implement for   *)
(* themselves: how a path is split, which paths are patterns or concrete    *)
(* paths, how a pattern matches and which of two matches is the more        *)
(* specific.  A path is given as the parts between its slashes, the leading *)
(* slash left out: <<"a", "">> is /a/.                                      *)
EXTENDS Integers, SequencesExt

CONSTANTS
    StaticPart,  \* parts that are static segments
    LinedPart,   \* the same with a newline behind them
    ParamPart    \* :name

ASSUME PathConstants == "" \notin StaticPart \cup LinedPart \cup ParamPart

Reserved == {"skill.md", "prompt.md"}

Sdk == {"typescript", "go", "python", "rust", "dotnet", "java"}

-----------------------------------------------------------------------------
(* How a path is split into segments.                                       *)

TypeScriptSplit(p) == p

GoSplit(p) == p

PythonSplit(p) == p

RustSplit(p) == p

(* TrimStart takes every leading slash, Split keeps what is empty.          *)
DotnetSplit(p) ==
    LET rest == {i \in DOMAIN p : p[i] # ""}
    IN  IF rest = {} THEN <<"">>
        ELSE SubSeq(p, CHOOSE i \in rest : \A j \in rest : i <= j, Len(p))

(* String.split drops what is empty at the end.                             *)
JavaSplit(p) ==
    LET rest == {i \in DOMAIN p : p[i] # ""}
    IN  IF rest = {} THEN <<>>
        ELSE SubSeq(p, 1, CHOOSE i \in rest : \A j \in rest : i >= j)

Split(sdk, p) ==
    CASE sdk = "typescript" -> TypeScriptSplit(p)
      [] sdk = "go" -> GoSplit(p)
      [] sdk = "python" -> PythonSplit(p)
      [] sdk = "rust" -> RustSplit(p)
      [] sdk = "dotnet" -> DotnetSplit(p)
      [] sdk = "java" -> JavaSplit(p)

-----------------------------------------------------------------------------
(* Which paths are valid; a reserved name ends a path.                      *)

AreSegments(ss, allowed) ==
    /\ ss # <<>>
    /\ \A i \in DOMAIN ss : ss[i] \in allowed \/ (ss[i] \in Reserved /\ i = Len(ss))

TypeScriptIsPath(p, params) == AreSegments(TypeScriptSplit(p), StaticPart \cup params)

GoIsPath(p, params) == AreSegments(GoSplit(p), StaticPart \cup params)

RustIsPath(p, params) == AreSegments(RustSplit(p), StaticPart \cup params)

JavaIsPath(p, params) == AreSegments(JavaSplit(p), StaticPart \cup params)

(* Here $ also matches before a newline at the end.                         *)
PythonIsPath(p, params) == AreSegments(PythonSplit(p), StaticPart \cup LinedPart \cup params)

DotnetIsPath(p, params) == AreSegments(DotnetSplit(p), StaticPart \cup LinedPart \cup params)

IsPath(sdk, p, params) ==
    CASE sdk = "typescript" -> TypeScriptIsPath(p, params)
      [] sdk = "go" -> GoIsPath(p, params)
      [] sdk = "python" -> PythonIsPath(p, params)
      [] sdk = "rust" -> RustIsPath(p, params)
      [] sdk = "dotnet" -> DotnetIsPath(p, params)
      [] sdk = "java" -> JavaIsPath(p, params)

IsPattern(sdk, p) == IsPath(sdk, p, ParamPart)

IsConcrete(sdk, p) == IsPath(sdk, p, {})

(* isSkillPath, isPromptPath of a pattern.                                  *)
Leaf(sdk, p) == Last(Split(sdk, p))

IsSkillPath(sdk, p) == IsPattern(sdk, p) /\ Leaf(sdk, p) = "skill.md"

IsPromptPath(sdk, p) == IsPattern(sdk, p) /\ Leaf(sdk, p) = "prompt.md"

-----------------------------------------------------------------------------
(* Matching.  Nothing is matched by a specificity of <<>>.                  *)

NoMatch == [params |-> <<>>, specificity |-> <<>>]

MatchSegments(ss, ps) ==
    IF Len(ss) = Len(ps) /\ \A i \in DOMAIN ss : ss[i] \in ParamPart \/ ss[i] = ps[i]
    THEN [params |-> [n \in {ss[i] : i \in DOMAIN ss} \cap ParamPart |->
                        ps[CHOOSE i \in DOMAIN ss : ss[i] = n
                                     /\ \A j \in DOMAIN ss : ss[j] = n => j <= i]],
          specificity |-> [i \in DOMAIN ss |-> IF ss[i] \in ParamPart THEN 0
                                               ELSE IF ss[i] \in Reserved THEN 1 ELSE 2]]
    ELSE NoMatch

MatchBy(sdk, pattern, path) ==
    IF IsPattern(sdk, pattern) /\ IsConcrete(sdk, path)
    THEN MatchSegments(Split(sdk, pattern), Split(sdk, path))
    ELSE NoMatch

TypeScriptMatch(pattern, path) == MatchBy("typescript", pattern, path)

GoMatch(pattern, path) == MatchBy("go", pattern, path)

PythonMatch(pattern, path) == MatchBy("python", pattern, path)

RustMatch(pattern, path) == MatchBy("rust", pattern, path)

DotnetMatch(pattern, path) == MatchBy("dotnet", pattern, path)

JavaMatch(pattern, path) == MatchBy("java", pattern, path)

Matched(match) == match.specificity # <<>>

(* The sign of comparePathSpecificity(): at the first place where the two   *)
(* differ, a missing one counting as -1.                                    *)
MoreSpecific(left, right) ==
    LET at(s, i) == IF i \in DOMAIN s THEN s[i] ELSE -1
    IN  \E i \in DOMAIN left :
           at(left, i) > at(right, i) /\ \A j \in 1 .. i - 1 : at(left, j) = at(right, j)
=============================================================================
