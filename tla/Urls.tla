-------------------------------- MODULE Urls --------------------------------
(***************************************************************************)
(* What irserve computes from a request path alone, before it looks at any *)
(* file: slash collapsing, the cleanUrls and trailingSlash redirects, the  *)
(* configured redirects and the chain of rewrites.                         *)
(*                                                                         *)
(* A URL is the sequence of the parts between its slashes, as              *)
(* split('/') gives them after the leading one: "/a//b.html" is            *)
(* <<a, Empty, b.html>>, "/a/" is <<a, Empty>> and "/" is <<Empty>>.  A    *)
(* part is what it has before its first dot and the sequence of what it    *)
(* has between and behind its dots; a dotfile has an empty stem.  "." and  *)
(* ".." parts are left out: Dispatch says of a request whether it escapes. *)
(***************************************************************************)
EXTENDS Naturals, Sequences, SequencesExt

Part(stem, exts) == [stem |-> stem, exts |-> exts]
Empty == Part("", <<>>)
IndexPart == Part("index", <<>>)
IndexHtml == Part("index", <<"html">>)
Root == <<Empty>>

Parts == [stem : STRING, exts : Seq(STRING)]
IsUrl(u) == u \in Seq(Parts) /\ u # <<>>

(* TLA+ has it so; the provers do not know it.                             *)
ASSUME TextsAssumption == {""} \subseteq STRING

NonEmpty(part) == part # Empty

(* trim_matches('/') of a collapsed path: the place in the file tree. *)
Trim(u) == FoldLeft(LAMBDA p, part : IF NonEmpty(part) THEN Append(p, part) ELSE p, <<>>, u)

HasDoubleSlash(u) == \E i \in 1..(Len(u) - 1) : u[i] = Empty

collapse_slashes(u) == Append(Trim(Front(u)), Last(u))

(* The basename of a path that may end in a slash has a dot that is not    *)
(* its first character.                                                    *)
url_path_has_extension(u) ==
  LET p == Trim(u)
  IN  p # <<>> /\ \/ Last(p).stem # "" /\ Last(p).exts # <<>>
                  \/ Len(Last(p).exts) > 1
-----------------------------------------------------------------------------
(* cleanUrls: "off", "on", or only below one directory ("/dir/**").        *)
CleanApplies(clean, u) ==
  CASE clean.mode = "off"   -> FALSE
    [] clean.mode = "on"    -> TRUE
    [] clean.mode = "under" -> /\ Len(collapse_slashes(u)) > 1
                               /\ Head(collapse_slashes(u)) = clean.dir

HtmlPath(u)  == Last(u).exts # <<>> /\ Last(Last(u).exts) = "html"
IndexPath(u) == Last(u) = IndexPart

(* strip_html_or_index_suffix: the ".html" alternative comes first. *)
Stripped(u) ==
  IF HtmlPath(u)
  THEN [u EXCEPT ![Len(u)].exts = Front(@)]
  ELSE IF Len(u) = 1 THEN Root ELSE Front(u)

CleanUrlsRedirects(clean, u) == CleanApplies(clean, u) /\ (HtmlPath(u) \/ IndexPath(u))

compute_clean_urls_redirect(u) == collapse_slashes(Stripped(u))

(* trailingSlash: "unset", "add" (true) or "strip" (false). *)
SlashMissing_trailed(u) == Trim(u) # <<>> /\ Last(Trim(u)).exts = <<>>
SlashMissing_always(u) == Last(u).exts = <<>>
SlashMissing(u) == Last(u).stem # "" /\ Last(u).exts = <<>>
SlashExtra(u)   == Last(u) = Empty /\ Len(u) > 1

TrailingSlashRedirects(slash, u) ==
  \/ slash # "unset" /\ HasDoubleSlash(u)
  \/ slash = "add"   /\ SlashMissing(u)
  \/ slash = "strip" /\ SlashExtra(u)

compute_trailing_slash_redirect(slash, u) ==
  CASE HasDoubleSlash(u) -> collapse_slashes(u)
    [] ~HasDoubleSlash(u) /\ slash = "add"   -> Append(u, Empty)
    [] ~HasDoubleSlash(u) /\ slash = "strip" -> Front(u)
-----------------------------------------------------------------------------
(* A configured rule: what its source matches, after path_posix_resolve,   *)
(* and where it leads.  all is the source "**".                            *)
Matches(rule, u) == rule.all \/ Trim(u) \in rule.source

MatchingRules(rules, u) == {i \in DOMAIN rules : Matches(rules[i], u)}

FirstMatch(rules, u) ==
  CHOOSE i \in MatchingRules(rules, u) :
    \A j \in MatchingRules(rules, u) : i <= j

ConfiguredRedirects(rules, u) == MatchingRules(rules, u) # {}

compute_configured_redirects(rules, u) == rules[FirstMatch(rules, u)].destination

(* apply_rewrites: each pass consumes the rule that matched first, and     *)
(* there are at most cap passes.                                           *)
Passes(rules, u, cap) ==
  LET pass[n \in 0..cap] ==
        IF n = 0
        THEN [url |-> u, active |-> rules]
        ELSE LET was == pass[n - 1]
             IN  IF MatchingRules(was.active, was.url) = {}
                 THEN was
                 ELSE LET i == FirstMatch(was.active, was.url)
                      IN  [url    |-> was.active[i].destination,
                           active |-> RemoveAt(was.active, i)]
  IN  pass

Rewrites(rules, u, cap) == cap > 0 /\ MatchingRules(rules, u) # {}

compute_configured_rewrites(rules, u, cap) ==
  Passes(rules, u, cap)[IF Len(rules) < cap THEN Len(rules) ELSE cap].url
=============================================================================
