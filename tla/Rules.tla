-------------------------------- MODULE Rules --------------------------------
(***************************************************************************)
(* The rule tables of serve.json in a running server.  At the start each   *)
(* table is compiled rule by rule, and a rule that does not compile is     *)
(* warned of and left out.  Then requests are looked up: redirects take    *)
(* the first rule that matches, rewrites go on with the rewritten path and *)
(* the rules not used yet, header rules all apply in order, and a scope    *)
(* (cleanUrls, directoryListing) asks whether any source matches.          *)
(***************************************************************************)
EXTENDS Patterns

CONSTANTS
  Configs,      \* the tables in use: which one, and its rules in order
  Requests,     \* the decoded request paths
  Roots,        \* places the served root may have in the file system
  DepthCap      \* REWRITE_DEPTH_CAP

Tables == {"redirects", "rewrites", "headers", "cleanUrls", "listing"}
Scopes == {"cleanUrls", "listing"}

ASSUME ConfigsAssumption ==
  \A c \in Configs : /\ c.table \in Tables
                      /\ c.rules \in Seq(Range(c.rules))
                      /\ \A rule \in Range(c.rules) : IsSource(rule.source)
ASSUME RequestsAssumption == Requests \subseteq Seq(AnyName) \ {<<>>}
ASSUME RootsAssumption ==
  \A root \in Roots : root \in Seq(AnyName) /\ \A i \in DOMAIN root : root[i] \notin {Empty, Here, Up}
ASSUME DepthCapAssumption == DepthCap \in Nat

VARIABLES
  config,     \* the table of this process
  compiled,   \* its compiled rules: the matcher and the rule it is of
  skipped,    \* the rules that were warned of
  pc,         \* "compiling", "serving", "asked", "rewriting" or "answered"
  request,    \* the requested path; between two requests, the root
  current,    \* the path as rewritten so far, or where the redirect leads
  used        \* the rules that applied, in this order

vars == <<config, compiled, skipped, pc, request, current, used>>

RootUrl    == <<Empty>>
Rule(i)    == config.rules[i]
Count      == Len(config.rules)
NextRule   == Len(compiled) + Len(skipped) + 1
-----------------------------------------------------------------------------
MatcherOf(table, source) ==
  CASE table \in {"redirects", "rewrites"} -> compile(source)
    [] table = "headers"                   -> compile_header(source)
    [] table \in Scopes                    -> compile_scoped_pattern(source)

(* The form of the path each table is asked about. *)
AsResolvedUrl(path) == IF path_posix_resolve(path) = <<>> THEN <<Empty>> ELSE path_posix_resolve(path)
CollapsedUrl(path)  ==
  Append(FoldLeft(LAMBDA p, n : IF n = Empty THEN p ELSE Append(p, n), <<>>, Front(path)), Last(path))

Applies(table, matcher, path) ==
  CASE table \in {"redirects", "rewrites"} -> try_match(matcher, path)
    [] table = "headers"                   -> header_matches(matcher, path)
    [] table = "cleanUrls"                 -> scope_matches(matcher, CollapsedUrl(path))
    [] table = "listing"                   -> scope_matches(matcher, AsResolvedUrl(path))

(* The compiled rules, by their places in the list, that match a path. *)
Applying(path) ==
  {k \in DOMAIN compiled : Applies(config.table, compiled[k].matcher, path)}

(* A rewrite rule is taken off the list when it is used. *)
Active_kept(path) == Applying(path)
Active(path) == {k \in Applying(path) : compiled[k].rule \notin Range(used)}

First(k, places) == k \in places /\ \A l \in places : k <= l

Target(k, path) == render(compiled[k].matcher, Rule(compiled[k].rule).dest, path)
-----------------------------------------------------------------------------
(* The rules of the file are told apart into those that are compiled and   *)
(* those that were warned of, and nothing else is ever used.               *)
TypeOK ==
  /\ config \in Configs
  /\ \A k \in DOMAIN compiled : compiled[k].rule \in 1..Count
  /\ \A k \in DOMAIN compiled : compiled[k].matcher.form \in {"literal", "glob", "pattern", "scope"}
  /\ Range(skipped) \subseteq 1..Count
  /\ pc \in {"compiling", "serving", "asked", "rewriting", "answered"}
  /\ request \in Requests \union {RootUrl}
  /\ Range(used) \subseteq 1..Count

Init ==
  /\ config \in Configs
  /\ compiled = <<>>
  /\ skipped = <<>>
  /\ pc = "compiling"
  /\ request = RootUrl
  /\ current = RootUrl
  /\ used = <<>>

CompileRule_stop ==
  /\ pc = "compiling"
  /\ NextRule <= Count
  /\ LET matcher == MatcherOf(config.table, Rule(NextRule).source)
     IN  IF matcher.form = "invalid"
         THEN /\ skipped' = Append(skipped, NextRule)
              /\ pc' = "serving"
              /\ UNCHANGED compiled
         ELSE /\ compiled' = Append(compiled, [rule |-> NextRule, matcher |-> matcher])
              /\ UNCHANGED <<skipped, pc>>
  /\ UNCHANGED <<config, request, current, used>>

CompileRule_all ==
  /\ pc = "compiling"
  /\ NextRule <= Count
  /\ compiled' = Append(compiled,
       [rule |-> NextRule, matcher |-> MatcherOf(config.table, Rule(NextRule).source)])
  /\ UNCHANGED <<config, skipped, pc, request, current, used>>

CompileRule ==
  /\ pc = "compiling"
  /\ NextRule <= Count
  /\ LET matcher == MatcherOf(config.table, Rule(NextRule).source)
     IN  IF matcher.form = "invalid"
         THEN skipped' = Append(skipped, NextRule) /\ UNCHANGED compiled
         ELSE /\ compiled' = Append(compiled, [rule |-> NextRule, matcher |-> matcher])
              /\ UNCHANGED skipped
  /\ UNCHANGED <<config, pc, request, current, used>>

Serve ==
  /\ pc = "compiling"
  /\ NextRule > Count
  /\ pc' = "serving"
  /\ UNCHANGED <<config, compiled, skipped, request, current, used>>

Ask(path) ==
  /\ pc = "serving"
  /\ pc' = "asked"
  /\ request' = path
  /\ current' = path
  /\ UNCHANGED <<config, compiled, skipped, used>>

(* A path that climbs above the root is refused before any table is asked. *)
Asked == pc = "asked" /\ ~lexical_path_escapes_root(request)

Answer(rules, leads) ==
  /\ pc' = "answered"
  /\ used' = rules
  /\ current' = leads
  /\ UNCHANGED <<config, compiled, skipped, request>>

Refuse == pc = "asked" /\ lexical_path_escapes_root(request) /\ Answer(<<>>, request)

Unaffected ==
  /\ Asked
  /\ config.table # "rewrites"
  /\ Applying(request) = {}
  /\ Answer(<<>>, request)

Redirect ==
  /\ Asked
  /\ config.table = "redirects"
  /\ \E k \in DOMAIN compiled : /\ First(k, Applying(request))
                                /\ Answer(<<compiled[k].rule>>, Target(k, request))

ApplyHeaders ==
  /\ Asked
  /\ config.table = "headers"
  /\ Applying(request) # {}
  /\ LET TakeOver(rules, c) ==
           IF Applies("headers", c.matcher, request) THEN Append(rules, c.rule) ELSE rules
     IN  Answer(FoldLeft(TakeOver, <<>>, compiled), request)

InScope ==
  /\ Asked
  /\ config.table \in Scopes
  /\ \E k \in DOMAIN compiled : /\ First(k, Applying(request))
                                /\ Answer(<<compiled[k].rule>>, request)

(* apply_rewrites calls itself with the rewritten path. *)
BeginRewrites ==
  /\ Asked
  /\ config.table = "rewrites"
  /\ pc' = "rewriting"
  /\ UNCHANGED <<config, compiled, skipped, request, current, used>>

RewritePass ==
  /\ pc = "rewriting"
  /\ Len(used) < DepthCap
  /\ \E k \in DOMAIN compiled : /\ First(k, Active(current))
                                /\ used' = Append(used, compiled[k].rule)
                                /\ current' = Target(k, current)
  /\ UNCHANGED <<config, compiled, skipped, pc, request>>

EndRewrites ==
  /\ pc = "rewriting"
  /\ Len(used) >= DepthCap \/ Active(current) = {}
  /\ Answer(used, current)

Done ==
  /\ pc = "answered"
  /\ pc' = "serving"
  /\ request' = RootUrl
  /\ current' = RootUrl
  /\ used' = <<>>
  /\ UNCHANGED <<config, compiled, skipped>>

Next ==
  \/ CompileRule \/ Serve
  \/ \E path \in Requests : Ask(path)
  \/ Refuse \/ Unaffected \/ Redirect \/ ApplyHeaders \/ InScope
  \/ BeginRewrites \/ RewritePass \/ EndRewrites
  \/ Done

Spec == Init /\ [][Next]_vars
-----------------------------------------------------------------------------
(* What minimatch promises, without its search: the names of the path are  *)
(* shared out among the segments in order (cut[i] names to the first i     *)
(* segments), one to each plain or wild segment and any number to a "**"   *)
(* but at least one to a last one; and only a literal or an alternative    *)
(* that is written with a dot takes a name that begins with one.           *)
TakenBy(seg, names) ==
  CASE seg.form = "lit"   -> names = <<seg.name>>
    [] seg.form = "wild"  -> /\ Len(names) = 1
                             /\ \E a \in seg.alts : /\ names[1] \in a.names
                                                    /\ StartsWithDot(names[1]) => a.dotted
    [] seg.form = "stars" -> \A i \in DOMAIN names : ~StartsWithDot(names[i])

Minimatch(pat, path) ==
  \E cut \in [0..Len(pat) -> 0..Len(path)] :
    /\ cut[0] = 0 /\ cut[Len(pat)] = Len(path)
    /\ \A i \in 1..Len(pat) : /\ cut[i - 1] <= cut[i]
                               /\ TakenBy(pat[i], SubSeq(path, cut[i - 1] + 1, cut[i]))
    /\ pat # <<>> /\ Last(pat).form = "stars" => cut[Len(pat) - 1] < Len(path)

Sources == {config.rules[i].source : i \in 1..Count}

(* The matcher the redirects, rewrites and headers share agrees with this  *)
(* on every source of the table and every requested path.                  *)
SegmentsAsMinimatch ==
  pc = "asked" => \A s \in Sources :
    LET pat == Classified(SourceBody(s)) path == path_posix_resolve(request)
    IN  match_segments(pat, path) <=> Minimatch(pat, path)

(* A path a header rule applies to is one that a redirect or a rewrite     *)
(* with the same source takes: both end in minimatch, and the header rules *)
(* have only that.  Two kinds of sources are apart: one that names a       *)
(* parameter twice (no redirect then), and a glob with a last backslash,   *)
(* which only the redirects keep from matching.                            *)
HeadersWithinRoutes ==
  pc = "asked" => \A s \in Sources :
    /\ compile(s) # InvalidMatcher
    /\ ~ends_with_unescaped_backslash(SourceBody(s))
    /\ header_matches(compile_header(s), request)
    => try_match(compile(s), request)

(* cleanUrls and directoryListing ask globset, header rules minimatch.  On *)
(* a path with no name that begins with a dot and no slash at its end the  *)
(* two give one answer to a source that both take and that is written as   *)
(* it is normalized, but for escapes, which a plain header source keeps.   *)
ScopesAsHeaders ==
  pc = "asked" => \A s \in Sources :
    LET scope == compile_scoped_pattern(s)
        plain == {"lit", "param"}
    IN  /\ scope # InvalidMatcher
        /\ SourceBody(s) = s.parts
        /\ \A i \in DOMAIN s.parts : s.parts[i].name.slash = "none"
        /\ request = path_posix_resolve(request) /\ request # <<>>
        /\ \A i \in DOMAIN request : ~StartsWithDot(request[i])
        => (scope_matches(scope, request) <=> header_matches(compile_header(s), request))

(* A path that passes the check on ".." leads, below any root, to the      *)
(* place under that root which the matchers are asked about.               *)
NeverAboveRoot ==
  pc = "asked" /\ ~lexical_path_escapes_root(request) =>
    \A root \in Roots : Normalized(root \o request) = root \o path_posix_resolve(request)

(* A rule that does not compile costs nothing but itself: what a redirect  *)
(* answers with is the earliest rule of the file whose source matches, and *)
(* the header rules that apply are all that match, in the order of the     *)
(* file.                                                                   *)
RulesThatMatch ==
  {i \in 1..Count : LET m == MatcherOf(config.table, Rule(i).source)
                    IN  m # InvalidMatcher /\ Applies(config.table, m, request)}

SkippingCostsNothing ==
  pc = "answered" /\ ~lexical_path_escapes_root(request) =>
    /\ config.table = "redirects" => IF used = <<>> THEN RulesThatMatch = {}
                                            ELSE used = <<used[1]>> /\ First(used[1], RulesThatMatch)
    /\ config.table = "headers"   => /\ Range(used) = RulesThatMatch
                                     /\ \A i, j \in DOMAIN used : i < j => used[i] < used[j]

(* A chain of rewrites uses no rule twice and stops only when no rule that *)
(* is left matches the path it has come to, or at the cap.                 *)
ChainsComplete ==
  config.table = "rewrites" =>
    /\ \A i, j \in DOMAIN used : used[i] = used[j] => i = j
    /\ Len(used) <= DepthCap
    /\ pc = "answered" /\ ~lexical_path_escapes_root(request) /\ Len(used) < DepthCap =>
         \A k \in DOMAIN compiled :
           compiled[k].rule \notin Range(used) => ~try_match(compiled[k].matcher, current)

(* A redirect never leads to a path with a part left out, unless its       *)
(* source does not name the parameter, or has a second "*", a glob or a    *)
(* backslash before a name: the expression takes these literally, and      *)
(* minimatch, which does not, captures nothing.                            *)
Starred(body) == {i \in DOMAIN body : body[i].kind \in {"star", "stars"}}

DestinationsFilled ==
  config.table = "redirects" /\ pc = "answered" /\ used # <<>> =>
    LET rule == Rule(used[1])
        body == SourceBody(rule.source)
    IN  \A i \in DOMAIN current :
          current[i] = Empty => \/ normalize_destination(rule.dest).parts[i].name \notin ParamNames(body)
                                \/ Cardinality(Starred(body)) > 1
                                \/ HasKind(body, {"glob", "starglob"})
                                \/ \E j \in DOMAIN body : body[j].name.slash = "inner"
=============================================================================
