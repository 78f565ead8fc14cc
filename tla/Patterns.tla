------------------------------ MODULE Patterns ------------------------------
(***************************************************************************)
(* The path patterns of serve.json: how the source of a redirect, a        *)
(* rewrite, a header rule or a scope is compiled, what it matches, and how *)
(* a destination is rendered.                                              *)
(*                                                                         *)
(* A path is the sequence of the names between its slashes, as split('/')  *)
(* gives them after the leading one.  Of a name the matchers see: its      *)
(* letters (stem), their case, whether it begins with a dot, whether it    *)
(* holds a character like ":" or "[" that encodeURIComponent changes       *)
(* (special), whether a backslash stands before it ("inner") or behind it  *)
(* ("end"), and whether these were percent-encoded when the name was       *)
(* filled in (coded); a name that is encoded twice is taken for one that   *)
(* was encoded once.                                                       *)
(*                                                                         *)
(* A source is a sequence of segments, with or without a "!" before it.    *)
(* Tokens take whole segments: a name, ":id", "*", "**", or a glob with    *)
(* "?", "[" or "{", given by its alternatives and the names each matches.  *)
(* A backslash stands before a name, or at the very end of the source.     *)
(***************************************************************************)
EXTENDS Integers, Sequences, SequencesExt, FiniteSets

Name(stem) == [stem |-> stem, upper |-> FALSE, dot |-> FALSE, special |-> FALSE,
               slash |-> "none", coded |-> FALSE]
AnyName ==
  [stem : STRING, upper : BOOLEAN, dot : BOOLEAN, special : BOOLEAN,
   slash : {"none", "inner", "end"}, coded : BOOLEAN]

Empty == Name("")
Here  == Name(".")
Up    == Name("..")

(* TLA+ has it so; the provers do not know it.                             *)
ASSUME TextsAssumption == {"", ".", ".."} \subseteq STRING

(* starts_with('.'): a backslash before the name, percent-encoded or not,  *)
(* is what the text begins with.                                           *)
StartsWithDot(n) == (n.stem \in {".", ".."} \/ n.dot) /\ n.slash # "inner"

(* to_lowercase, and the i flag of the compiled expressions. *)
Fold(n) == [n EXCEPT !.upper = FALSE]

(* \X is read as X.  A last backslash, with nothing to escape, is dropped  *)
(* by one reading and kept by the other.                                   *)
de_escape(n) == [n EXCEPT !.slash = IF n.coded THEN @ ELSE "none"]
de_escape_keep_trailing(n) == IF n.slash = "end" THEN n ELSE de_escape(n)

(* encodeURIComponent *)
Encoded(n) == IF n.slash = "none" /\ ~n.special THEN n ELSE [n EXCEPT !.coded = TRUE]

Alternative(names, dotted) == [names |-> names, dotted |-> dotted]
Segment(kind, name, alts)  == [kind |-> kind, name |-> name, alts |-> alts]

Flexible  == {"star", "stars", "starglob"}            \* written with a "*"
GlobKinds == Flexible \union {"glob", "broken"}       \* has_glob_meta

AnySegment ==
  [kind : {"lit", "param"} \union GlobKinds, name : AnyName,
   alts : SUBSET [names : SUBSET AnyName, dotted : BOOLEAN]]

IsSource(source) ==
  /\ source.negate \in BOOLEAN
  /\ source.parts \in Seq(AnySegment)
  /\ \A i \in DOMAIN source.parts : source.parts[i].name.slash = "end" => i = Len(source.parts)
-----------------------------------------------------------------------------
(* path_posix_normalize of an absolute path, one part after the other.     *)
Walked(stack, part) ==
  CASE part = Empty \/ part = Here -> stack
    [] part = Up                   -> IF stack = <<>> THEN <<>> ELSE Front(stack)
    [] OTHER                       -> Append(stack, part)

Normalized(parts) == FoldLeft(Walked, <<>>, parts)

path_posix_resolve(path) == Normalized(path)

(* The depth below the root, after every part. *)
Depth_dots(path) == Cardinality({i \in DOMAIN path : path[i] \notin {Empty, Up}})
                    - Cardinality({i \in DOMAIN path : path[i] = Up})

Depth(path) == Cardinality({i \in DOMAIN path : path[i] \notin {Empty, Here, Up}})
               - Cardinality({i \in DOMAIN path : path[i] = Up})

lexical_path_escapes_root(path) ==
  \E i \in DOMAIN path : path[i] = Up /\ Depth(SubSeq(path, 1, i)) < 0

(* slasher: the segments of a source are normalized by their texts; what   *)
(* is left is a subsequence of them.                                       *)
SourceBody(source) ==
  LET Step(stack, seg) ==
        CASE seg.name \in {Empty, Here} -> stack
          [] seg.name = Up -> IF stack = <<>> THEN <<>> ELSE Front(stack)
          [] OTHER -> Append(stack, seg)
  IN  FoldLeft(Step, <<>>, source.parts)

SourceEndsWithSlash(source) ==
  SourceBody(source) # <<>> /\ Last(source.parts).name = Empty

HasKind(body, kinds) == \E i \in DOMAIN body : body[i].kind \in kinds

ends_with_unescaped_backslash(body) == body # <<>> /\ Last(body).name.slash = "end"
-----------------------------------------------------------------------------
(* minimatch, segment by segment (PatSeg and match_segments).              *)
classify_pattern_segment(seg) ==
  CASE seg.kind = "stars"                      -> [form |-> "stars"]
    [] seg.kind \in {"star", "glob", "starglob"} -> [form |-> "wild", alts |-> seg.alts]
    [] OTHER                                   -> [form |-> "lit", name |-> de_escape(seg.name)]

Classified(body) == [i \in DOMAIN body |-> classify_pattern_segment(body[i])]

build_dot_only_matcher(alts) == {a \in alts : a.dotted}

WildMatches(alts, n) ==
  LET chosen == IF StartsWithDot(n) THEN build_dot_only_matcher(alts) ELSE alts
  IN  \E a \in chosen : n \in a.names

(* How many of the names left "**" may take: a last one takes one at least. *)
Skips_zero(pat, i, left) == 0..left
Skips(pat, i, left) == (IF i = Len(pat) THEN 1 ELSE 0)..left

(* Segment i matches the path from here on, if those behind it match from  *)
(* a place in rest.  No "**" takes a name that begins with a dot.          *)
SegmentMatches(pat, path, i, rest) ==
  {j \in 1..(Len(path) + 1) :
     IF pat[i].form = "stars"
     THEN \E skip \in Skips(pat, i, Len(path) + 1 - j) :
            /\ \A k \in j..(j + skip - 1) : ~StartsWithDot(path[k])
            /\ j + skip \in rest
     ELSE /\ j <= Len(path)
          /\ IF pat[i].form = "lit" THEN path[j] = pat[i].name
             ELSE WildMatches(pat[i].alts, path[j])
          /\ j + 1 \in rest}

(* m[i]: the places of the path from which the pattern from i on matches.  *)
match_segments(pat, path) ==
  LET m[i \in 1..(Len(pat) + 1)] ==
        IF i > Len(pat) THEN {Len(path) + 1} ELSE SegmentMatches(pat, path, i, m[i + 1])
  IN  1 \in m[1]
-----------------------------------------------------------------------------
(* path-to-regexp (compile_source_regex).  The first "*" or "**" becomes   *)
(* the one part of the expression that takes any run of names; every       *)
(* later one is a literal.  Text around a "*" in one segment fits no name  *)
(* in use.                                                                 *)
FlexAt(body) == SelectInSeq(body, LAMBDA seg : seg.kind \in Flexible)

EndsWithBackslash(n) == n.slash = "end" /\ ~n.coded

FitsOne(seg, n) == seg.kind = "param" \/ Fold(n) = Fold(seg.name)

(* How many names the flexible part takes. *)
Run(body, path) == Len(path) + 1 - Len(body)

RegexMatches(body, path) ==
  LET f == FlexAt(body)
  IN  IF f = 0
      THEN Len(path) = Len(body) /\ \A i \in DOMAIN body : FitsOne(body[i], path[i])
      ELSE /\ body[f].kind # "starglob"
           /\ Len(path) + 1 >= Len(body)
           /\ body[f].kind = "star" => Run(body, path) > 0 \/ (path = <<>> /\ Len(body) = 1)
           /\ body[f].name.slash = "end" => path # <<>> /\ EndsWithBackslash(Last(path))
           /\ \A i \in 1..(f - 1) : FitsOne(body[i], path[i])
           /\ \A i \in (f + 1)..Len(body) : FitsOne(body[i], path[i + Run(body, path) - 1])

ParamNames(body) == {body[i].name : i \in {j \in DOMAIN body : body[j].kind = "param"}}

RepeatsParam(body) ==
  \E i, j \in DOMAIN body :
    i < j /\ body[i].kind = "param" /\ body[j].kind = "param" /\ body[i].name = body[j].name

(* The name a parameter captured. *)
Captured(body, path, name) ==
  LET f == FlexAt(body)
      i == CHOOSE j \in DOMAIN body : body[j].kind = "param" /\ body[j].name = name
  IN  IF f = 0 \/ i < f THEN path[i] ELSE path[i + Run(body, path) - 1]
-----------------------------------------------------------------------------
(* Matcher: what the source of a redirect or a rewrite is compiled to.     *)
InvalidMatcher == [form |-> "invalid"]

NeedsPattern(source) ==
  ~source.negate /\ HasKind(SourceBody(source), Flexible \union {"param"})

source_ptr(body) == [i \in DOMAIN body |-> de_escape_keep_trailing(body[i].name)]
source_raw(body) == [i \in DOMAIN body |-> body[i].name]

compile(source) ==
  LET body == SourceBody(source)
      bare == ~ends_with_unescaped_backslash(body)
  IN  CASE NeedsPattern(source) /\ RepeatsParam(body) -> InvalidMatcher
        [] NeedsPattern(source) /\ ~RepeatsParam(body) ->
             [form |-> "pattern", body |-> body, fallback |-> bare]
        [] ~NeedsPattern(source) /\ (source.negate \/ HasKind(body, GlobKinds)) ->
             [form |-> "glob", segments |-> Classified(body), negate |-> source.negate]
        [] OTHER ->
             [form |-> "literal", ptr |-> source_ptr(body),
              mm |-> {raw \in {source_raw(body)} : raw # source_ptr(body) /\ bare}]

FoldAll(path) == [i \in DOMAIN path |-> Fold(path[i])]

(* literal_matches on a resolved path, which ends in no slash. *)
literal_matches(source, path, case_sensitive) ==
  IF case_sensitive THEN source = path ELSE FoldAll(source) = FoldAll(path)

FallbackMatches_starred(matcher, path) ==
  /\ matcher.fallback
  /\ HasKind(matcher.body, Flexible)
  /\ match_segments(Classified(matcher.body), path)

FallbackMatches(matcher, path) ==
  matcher.fallback /\ match_segments(Classified(matcher.body), path)

try_match(matcher, requested) ==
  LET path == path_posix_resolve(requested)
  IN  CASE matcher.form = "literal" -> \/ literal_matches(matcher.ptr, path, FALSE)
                                       \/ \E mm \in matcher.mm : literal_matches(mm, path, TRUE)
        [] matcher.form = "glob"    -> match_segments(matcher.segments, path) # matcher.negate
        [] matcher.form = "pattern" -> \/ RegexMatches(matcher.body, path)
                                       \/ FallbackMatches(matcher, path)

(* A destination: abroad, when it has a protocol, or a path that may hold  *)
(* ":id" segments and is normalized; the root, and a path that ends in a   *)
(* slash, end in an empty name.  Only a Pattern fills the ":id" in, with   *)
(* what its expression captured; what was not captured is left empty.      *)
LastSlash == Segment("lit", Empty, {})

normalize_destination(dest) ==
  IF dest.abroad THEN dest
  ELSE [dest EXCEPT !.parts = SourceBody(dest)
          \o IF SourceBody(dest) = <<>> \/ SourceEndsWithSlash(dest) THEN <<LastSlash>> ELSE <<>>]

FilledIn_globFirst(matcher, path, part) ==
  CASE part.kind # "param" -> part.name
    [] part.kind = "param" /\ ~FallbackMatches(matcher, path)
         /\ part.name \in ParamNames(matcher.body) ->
           Encoded(Captured(matcher.body, path, part.name))
    [] OTHER -> Empty

FilledIn(matcher, path, part) ==
  CASE part.kind # "param" -> part.name
    [] part.kind = "param" /\ RegexMatches(matcher.body, path)
         /\ part.name \in ParamNames(matcher.body) ->
           Encoded(Captured(matcher.body, path, part.name))
    [] OTHER -> Empty

render(matcher, dest, requested) ==
  LET parts == normalize_destination(dest).parts
  IN  [i \in DOMAIN parts |->
         IF matcher.form = "pattern"
         THEN FilledIn(matcher, path_posix_resolve(requested), parts[i])
         ELSE parts[i].name]
-----------------------------------------------------------------------------
(* HeaderMatcher: minimatch alone, and plain equality without any glob.    *)
compile_header(source) ==
  LET body == SourceBody(source)
  IN  IF source.negate \/ HasKind(body, GlobKinds)
      THEN [form |-> "glob", segments |-> Classified(body), negate |-> source.negate]
      ELSE [form |-> "literal", source |-> source_raw(body),
            slash |-> SourceEndsWithSlash(source)]

header_matches(matcher, requested) ==
  LET path == path_posix_resolve(requested)
  IN  CASE matcher.form = "literal" -> ~matcher.slash /\ matcher.source = path
        [] matcher.form = "glob"    -> match_segments(matcher.segments, path) # matcher.negate
-----------------------------------------------------------------------------
(* The scopes of cleanUrls and directoryListing: globset over the whole    *)
(* path, which knows no rule about dots.  A source globset refuses is left *)
(* out; no source is normalized beyond its leading slash.                  *)
compile_scoped_pattern(source) ==
  IF HasKind(source.parts, {"broken"}) \/ ends_with_unescaped_backslash(source.parts)
  THEN InvalidMatcher
  ELSE [form |-> "scope", parts |-> source.parts, negate |-> source.negate]

GlobMatches(parts, path, i, rest) ==
  {j \in 1..(Len(path) + 1) :
     IF parts[i].kind = "stars"
     THEN \E skip \in Skips(parts, i, Len(path) + 1 - j) : j + skip \in rest
     ELSE /\ j <= Len(path)
          /\ IF parts[i].kind \in GlobKinds
             THEN \E a \in parts[i].alts : path[j] \in a.names
             ELSE path[j] = de_escape(parts[i].name)
          /\ j + 1 \in rest}

globset_matches(parts, path) ==
  LET m[i \in 1..(Len(parts) + 1)] ==
        IF i > Len(parts) THEN {Len(path) + 1} ELSE GlobMatches(parts, path, i, m[i + 1])
  IN  1 \in m[1]

scope_matches_positive(matcher, path) == globset_matches(matcher.parts, path)
scope_matches(matcher, path) == globset_matches(matcher.parts, path) # matcher.negate
=============================================================================
