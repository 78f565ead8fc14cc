------------------------------ MODULE Dispatch ------------------------------
(***************************************************************************)
(* The way of one navigation through the dispatcher: redirects decided on  *)
(* the URL alone and followed by the client, then a walk over candidate    *)
(* files - rewrite target, cleanUrls candidates, the path itself - with an *)
(* await before every look at the file tree, which other programs change   *)
(* in the meantime.  Requests share nothing but that tree, so one at a     *)
(* time is enough.  The headers and bytes of a 200 are FileServe's         *)
(* subject; error pages are left out.                                      *)
(***************************************************************************)
EXTENDS Urls, FiniteSets

CONSTANTS
  Places,       \* the places of the file tree in use: trimmed URLs, not <<>>
  Nodes,        \* Nodes[p]: what can be at p, a subset of Kinds
  Starts,       \* the requests a client begins with
  Configs,      \* the serve.json files
  DepthCap,     \* REWRITE_DEPTH_CAP
  MaxChanges    \* bound on changes of the tree during one request

(* "out" is a link to a file outside the root, and stays what it is.       *)
(* Every file can be read; Responses has the entries that cannot.          *)
Kinds == {"none", "file", "dir", "out"}

ASSUME PlacesAssumption ==
  /\ \A p \in Places : IsUrl(p) /\ (Len(p) > 1 => Front(p) \in Places)
  /\ Nodes \in [Places -> SUBSET Kinds]
ASSUME ConfigsAssumption ==
  \A k \in Configs : /\ k.redirects \in Seq(Range(k.redirects))
                     /\ \A rule \in Range(k.redirects) : IsUrl(rule.destination)
ASSUME BoundsAssumption == DepthCap \in Nat /\ MaxChanges \in Nat

VARIABLES
  tree,     \* tree[p]: what is at place p
  cfg,      \* the configuration of the process
  pc,       \* where the handler stands
  req,      \* the request: method, the form of its path, URL
  walk,     \* the candidate at hand, and what was found there
  answer,   \* the answer, when pc = "answered"
  trail,    \* client: the URLs requested in this navigation
  seen,     \* history: what each place held during this request
  promised, \* history: when it was asked, the request had a file to serve
  shrunk,   \* history: something was removed during this request
  changes   \* changes of the tree during this request

history == <<seen, promised, shrunk, changes>>
vars    == <<tree, cfg, pc, req, walk, answer, trail, history>>

At(t, p) == IF p = <<>> THEN "dir" ELSE IF p \in Places THEN t[p] ELSE "none"

Children(t, p) == {q \in Places : Front(q) = p /\ t[q] # "none"}

IsFile(node) == node \in {"file", "out"}

WellFormed(t) == \A p \in Places : t[p] # "none" => At(t, Front(p)) = "dir"

Trees == {t \in [Places -> Kinds] : WellFormed(t) /\ \A p \in Places : t[p] \in Nodes[p]}
-----------------------------------------------------------------------------
(* The candidates and the walk over them.                                  *)
IndexOf(p) == Append(p, IndexHtml)
FlatOf(p)  == [p EXCEPT ![Len(p)].exts = Append(@, "html")]

Path == collapse_slashes(req.url)

NoWalk == [stage |-> "none", place |-> <<>>, slash |-> FALSE, found |-> "none"]

Candidate_slashless(stage, u) ==
  [stage |-> stage, place |-> Trim(u), slash |-> FALSE, found |-> "none"]

Candidate(stage, u) ==
  [stage |-> stage, place |-> Trim(u), slash |-> Last(u) = Empty, found |-> "none"]

CandidateOf_flat_first(stage) ==
  Candidate(stage,
    CASE stage \in {"original", "fallback"} -> Path
      [] stage = "target"     -> compute_configured_rewrites(cfg.rewrites, Path, DepthCap)
      [] stage = "cleanIndex" -> IF Trim(Path) = <<>> THEN IndexOf(<<>>) ELSE FlatOf(Trim(Path))
      [] stage = "cleanFlat"  -> IndexOf(Trim(Path)))

CandidateOf(stage) ==
  Candidate(stage,
    CASE stage \in {"original", "fallback"} -> Path
      [] stage = "target"     -> compute_configured_rewrites(cfg.rewrites, Path, DepthCap)
      [] stage = "cleanIndex" -> IndexOf(Trim(Path))
      [] stage = "cleanFlat"  -> FlatOf(Trim(Path)))

Rewritten   == Rewrites(cfg.rewrites, Path, DepthCap)
Extension   == url_path_has_extension(Path)
CleanChosen == CleanApplies(cfg.clean, Path)

NoAnswer == [status |-> 0, body |-> "none", place |-> <<>>, location |-> Root]
FileAt(p)     == [NoAnswer EXCEPT !.status = 200, !.body = "file", !.place = p]
ListingOf(p)  == [NoAnswer EXCEPT !.status = 200, !.body = "listing", !.place = p]
Failed(code)  == [NoAnswer EXCEPT !.status = code]
Redirect_302(u) == [NoAnswer EXCEPT !.status = 302, !.location = u]
(* 301 stands for the status of every redirect: a configured one may give  *)
(* another of the 3xx as its type, which no step looks at.                 *)
Redirect(u)   == [NoAnswer EXCEPT !.status = 301, !.location = u]
-----------------------------------------------------------------------------
(* What the handler would answer if it looked at the whole tree t in one   *)
(* moment: the candidates in order, each with the outcomes that make the   *)
(* handler pass it over.                                                   *)
Try(u, passedOver) == [url |-> u, passedOver |-> passedOver]

Tries(k, u) ==
  LET target == Try(compute_configured_rewrites(k.rewrites, u, DepthCap), {})
      miss   == {"missing", "escaped", "dir", "index"}
      clean  == IF ~CleanApplies(k.clean, u) THEN <<>>
                ELSE <<Try(IndexOf(Trim(u)), miss)>>
                     \o IF Trim(u) = <<>> THEN <<>> ELSE <<Try(FlatOf(Trim(u)), miss)>>
  IN  IF url_path_has_extension(u)
      THEN <<Try(u, {"missing"})>>
           \o IF Rewrites(k.rewrites, u, DepthCap) THEN <<target>> ELSE clean
      ELSE IF Rewrites(k.rewrites, u, DepthCap)
           THEN <<[target EXCEPT !.passedOver = {"missing", "escaped"}], Try(u, {})>>
           ELSE Append(clean, Try(u, {}))

(* resolve() in one moment. *)
Outcome(t, u) ==
  LET p    == Trim(u)
      node == At(t, p)
  IN  CASE node = "none" \/ (IsFile(node) /\ Last(u) = Empty) -> "missing"
        [] node = "out"  /\ Last(u) # Empty -> "escaped"
        [] node = "file" /\ Last(u) # Empty -> "file"
        [] node = "dir" /\ At(t, IndexOf(p)) = "file" -> "index"
        [] node = "dir" /\ At(t, IndexOf(p)) = "out"  -> "escaped"
        [] node = "dir" /\ ~IsFile(At(t, IndexOf(p))) -> "dir"

(* What is right of a directory: of the links out of the root, a lone one  *)
(* is refused as resolve() refuses the others.                             *)
DirectoryAnswer(k, t, p) ==
  LET lone(kind) == {q \in Children(t, p) : Children(t, p) = {q} /\ t[q] = kind}
  IN  IF k.single /\ lone("file") # {} THEN FileAt(CHOOSE q \in lone("file") : TRUE)
      ELSE IF k.single /\ lone("out") # {} THEN Failed(400)
      ELSE IF k.listing THEN ListingOf(p) ELSE Failed(404)

Atomic(k, u, t) ==
  LET tries == Tries(k, u)
      taken == {i \in DOMAIN tries : Outcome(t, tries[i].url) \notin tries[i].passedOver}
      first == CHOOSE i \in taken : \A j \in taken : i <= j
      p     == Trim(tries[first].url)
  IN  IF taken = {} THEN Failed(404)
      ELSE CASE Outcome(t, tries[first].url) = "file"    -> FileAt(p)
             [] Outcome(t, tries[first].url) = "index"   -> FileAt(IndexOf(p))
             [] Outcome(t, tries[first].url) = "dir"     -> DirectoryAnswer(k, t, p)
             [] Outcome(t, tries[first].url) = "escaped" -> Failed(400)
             [] Outcome(t, tries[first].url) = "missing" -> Failed(404)

PromisesFile(k, u, t) ==
  LET tries == Tries(k, u)
  IN  \E i \in DOMAIN tries :
        /\ Outcome(t, tries[i].url) \in {"file", "index"} \ tries[i].passedOver
        /\ \A j \in 1..(i - 1) : Outcome(t, tries[j].url) \in tries[j].passedOver
-----------------------------------------------------------------------------
Requests == [method : {"GET", "HEAD", "OPTIONS", "POST"},
             form   : {"plain", "malformed", "escapes"},
             url    : Seq(Parts) \ {<<>>}]

ASSUME StartsAssumption == Starts \subseteq Requests

Served(rq) == rq.method \in {"GET", "HEAD", "OPTIONS"}

Get(u) == [method |-> "GET", form |-> "plain", url |-> u]

TypeOK ==
  /\ tree \in Trees
  /\ cfg \in Configs
  /\ pc \in {"idle", "asked", "probe", "index", "canon", "read", "list", "lone",
             "answered"}
  /\ req \in Requests
  /\ walk.stage \in {"none", "original", "target", "fallback", "cleanIndex", "cleanFlat"}
  /\ walk.found \in {"none", "file", "dir"}
  /\ answer.status \in {0, 200, 301, 400, 404, 405}
  /\ answer.body \in {"none", "file", "listing"}
  /\ seen \in [Places -> SUBSET Kinds]
  /\ promised \in BOOLEAN
  /\ shrunk \in BOOLEAN
  /\ changes \in 0..MaxChanges

Init ==
  /\ tree \in Trees
  /\ cfg \in Configs
  /\ pc = "idle"
  /\ req = Get(Root)
  /\ walk = NoWalk
  /\ answer = NoAnswer
  /\ trail = {}
  /\ seen = [p \in Places |-> {tree[p]}]
  /\ promised = FALSE
  /\ shrunk = FALSE
  /\ changes = 0
-----------------------------------------------------------------------------
(* The programs that own the served files. *)
Change(p, node) ==
  /\ changes < MaxChanges
  /\ tree' = [tree EXCEPT ![p] = node]
  /\ seen' = [seen EXCEPT ![p] = @ \union {node}]
  /\ changes' = changes + 1
  /\ UNCHANGED <<cfg, pc, req, walk, answer, trail, promised>>

Create(p, node) ==
  /\ tree[p] = "none"
  /\ node \in Nodes[p] \ {"none", "out"}
  /\ At(tree, Front(p)) = "dir"
  /\ Change(p, node)
  /\ UNCHANGED shrunk

Delete(p) ==
  /\ tree[p] \in {"file", "dir"}
  /\ Children(tree, p) = {}
  /\ "none" \in Nodes[p]
  /\ Change(p, "none")
  /\ shrunk' = TRUE
-----------------------------------------------------------------------------
(* The client. *)
Forget(promise) ==
  /\ seen' = [p \in Places |-> {tree[p]}]
  /\ promised' = promise
  /\ shrunk' = FALSE
  /\ changes' = 0

Ask(rq, visited) ==
  /\ pc' = "asked"
  /\ req' = rq
  /\ trail' = visited
  /\ answer' = NoAnswer
  /\ Forget(PromisesFile(cfg, collapse_slashes(rq.url), tree))
  /\ UNCHANGED <<tree, cfg, walk>>

Open(rq) == pc = "idle" /\ Ask(rq, {rq.url})

Follow ==
  /\ pc = "answered"
  /\ answer.status = 301
  /\ Ask(Get(answer.location), trail \union {answer.location})
(* The navigation is over; the next one may be any. *)
Close ==
  /\ pc = "answered"
  /\ answer.status # 301
  /\ pc' = "idle"
  /\ req' = Get(Root)
  /\ answer' = NoAnswer
  /\ trail' = {}
  /\ Forget(FALSE)
  /\ UNCHANGED <<tree, cfg, walk>>
-----------------------------------------------------------------------------
(* The handler, one action per await. *)
Settle(a) == pc' = "answered" /\ answer' = a /\ walk' = NoWalk
Goto(stage) == pc' = "probe" /\ walk' = CandidateOf(stage) /\ UNCHANGED answer

Untouched == UNCHANGED <<tree, cfg, req, trail, history>>

(* Up to the first look at the tree everything is decided on the URL. *)
Route ==
  LET u == req.url
  IN
  /\ pc = "asked"
  /\ CASE ~Served(req) -> Settle(Failed(405))
       [] Served(req) /\ req.form # "plain" -> Settle(Failed(400))
       [] Served(req) /\ req.form = "plain" ->
            IF CleanUrlsRedirects(cfg.clean, u)
            THEN Settle(Redirect(compute_clean_urls_redirect(u)))
            ELSE IF TrailingSlashRedirects(cfg.slash, u)
            THEN Settle(Redirect(compute_trailing_slash_redirect(cfg.slash, u)))
            ELSE IF ConfiguredRedirects(cfg.redirects, Path)
            THEN Settle(Redirect(compute_configured_redirects(cfg.redirects, Path)))
            ELSE IF Extension THEN Goto("original")
            ELSE IF Rewritten THEN Goto("target")
            ELSE IF CleanChosen THEN Goto("cleanIndex")
            ELSE Goto("original")
  /\ Untouched

CleanStage == walk.stage \in {"cleanIndex", "cleanFlat"}

(* try_clean_urls_resolve found neither candidate. *)
CleanMiss_final == Settle(Failed(404))
CleanMiss == IF Extension THEN Settle(Failed(404)) ELSE Goto("original")

(* The candidate at hand is passed over, or ends the walk.  A path without *)
(* extension whose rewrite target is missing falls back to itself, a path  *)
(* with one does not.                                                      *)
Miss(code) ==
  CASE walk.stage = "original" ->
         IF ~Extension \/ code = 400 THEN Settle(Failed(code))
         ELSE IF Rewritten THEN Goto("target")
         ELSE IF CleanChosen THEN Goto("cleanIndex") ELSE Settle(Failed(code))
    [] walk.stage = "target" -> IF Extension THEN Settle(Failed(code)) ELSE Goto("fallback")
    [] walk.stage = "fallback" -> Settle(Failed(code))
    [] walk.stage = "cleanIndex" -> IF Trim(Path) = <<>> THEN CleanMiss ELSE Goto("cleanFlat")
    [] walk.stage = "cleanFlat" -> CleanMiss

Found(place, kind) ==
  /\ pc' = "canon"
  /\ walk' = [walk EXCEPT !.place = place, !.found = kind]
  /\ UNCHANGED answer

(* metadata(candidate) *)
Probe ==
  LET node == At(tree, walk.place)
  IN
  /\ pc = "probe"
  /\ \/ IsFile(node) /\ ~walk.slash /\ Found(walk.place, "file")
     \/ /\ node = "dir" /\ ~CleanStage
        /\ pc' = "index"
        /\ UNCHANGED <<walk, answer>>
     \/ /\ \/ node = "none"
           \/ IsFile(node) /\ walk.slash
           \/ node = "dir" /\ CleanStage
        /\ Miss(404)
  /\ Untouched

(* metadata(candidate/index.html) *)
ProbeIndex ==
  /\ pc = "index"
  /\ IF IsFile(At(tree, IndexOf(walk.place)))
     THEN Found(IndexOf(walk.place), "file")
     ELSE Found(walk.place, "dir")
  /\ Untouched

(* canonicalize(path), and what dispatch does with the outcome.  A path    *)
(* with a trailing slash is not found when its directory is a file by now. *)
Canonicalize ==
  LET node   == At(tree, walk.place)
      turned == walk.found = "dir" /\ walk.slash /\ IsFile(node)
  IN
  /\ pc = "canon"
  /\ \/ (node = "none" \/ turned) /\ Miss(404)
     \/ node = "out" /\ ~turned /\ Miss(IF CleanStage THEN 404 ELSE 400)
     \/ /\ node \in {"file", "dir"} /\ ~turned
        /\ IF walk.found = "file" THEN pc' = "read" /\ UNCHANGED <<walk, answer>>
           ELSE IF cfg.listing \/ cfg.single
           THEN pc' = "list" /\ UNCHANGED <<walk, answer>>
           ELSE Settle(Failed(404))
  /\ Untouched

(* read(path), also of the lone file of a directory *)
Read ==
  /\ pc \in {"read", "lone"}
  /\ IF IsFile(At(tree, walk.place)) THEN Settle(FileAt(walk.place)) ELSE Settle(Failed(404))
  /\ Untouched

(* read_dir(path): renderSingle counts the entries before unlisted ones    *)
(* are filtered out, and nothing asks where its lone file leads.           *)
List ==
  LET entries == Children(tree, walk.place)
  IN
  /\ pc = "list"
  /\ \/ /\ At(tree, walk.place) # "dir"
        /\ Settle(Failed(404))
     \/ /\ At(tree, walk.place) = "dir"
        /\ cfg.single
        /\ \E q \in entries :
             /\ entries = {q} /\ tree[q] # "dir"
             /\ pc' = "lone"
             /\ walk' = [walk EXCEPT !.place = q]
             /\ UNCHANGED answer
     \/ /\ At(tree, walk.place) = "dir"
        /\ ~(cfg.single /\ \E q \in entries : entries = {q} /\ tree[q] # "dir")
        /\ IF cfg.listing THEN Settle(ListingOf(walk.place)) ELSE Settle(Failed(404))
  /\ Untouched
-----------------------------------------------------------------------------
Handler == Route \/ Probe \/ ProbeIndex \/ Canonicalize \/ Read \/ List

Next ==
  \/ \E p \in Places : Delete(p) \/ \E node \in Kinds : Create(p, node)
  \/ \E rq \in Starts : Open(rq)
  \/ Follow
  \/ Close
  \/ Handler

Spec == Init /\ [][Next]_vars

(* tokio polls ready tasks, file operations return, clients follow         *)
(* redirects.                                                              *)
FairSpec == Spec /\ WF_vars(Handler) /\ WF_vars(Follow)
-----------------------------------------------------------------------------
(* The answer was decided by looking at the tree. *)
Walked == pc = "answered" /\ Served(req) /\ req.form = "plain" /\ answer.status # 301

TriedPlaces(i) ==
  LET p == Trim(Tries(cfg, Path)[i].url)
  IN  {p, IndexOf(p)} \union {q \in Places : Front(q) = p}

(* STABLE ANSWER.  If nothing changed at the places a request may look at, *)
(* however much changed elsewhere, its answer is the one the documented    *)
(* order of candidates gives on the tree as it is: the walk of the handler *)
(* over rewrite, cleanUrls and original path loses no candidate, tries     *)
(* none twice over and keeps no outcome of an earlier one.  The lone file  *)
(* renderSingle serves from outside the root is not among the right        *)
(* answers; that it is served is what NothingFromOutside finds.            *)
ServedFromOutside ==
  cfg.single /\ \E i \in DOMAIN Tries(cfg, Path) : \E q \in Places :
    /\ Children(tree, Trim(Tries(cfg, Path)[i].url)) = {q}
    /\ tree[q] = "out"
    /\ answer = FileAt(q)

StableAnswer ==
  Walked /\ (\A i \in DOMAIN Tries(cfg, Path) : \A p \in TriedPlaces(i) \intersect Places :
               seen[p] = {tree[p]})
    => answer = Atomic(cfg, Path, tree) \/ ServedFromOutside

(* ADDITIONS NEVER HIDE.  A request that had a file to serve when it was   *)
(* asked is not answered 404 as long as files are only added meanwhile:    *)
(* publishing new pages makes no old page blink.  Without listings a new   *)
(* directory does, when it is an earlier candidate.                        *)
DirectoryAdded == \E p \in Places : {"none", "dir"} \subseteq seen[p]

AdditionsNeverHide ==
  Walked /\ promised /\ ~shrunk /\ (cfg.listing \/ ~DirectoryAdded) => answer.status # 404

(* PRIORITY RESPECTED.  A file that was there all the time is never passed *)
(* over for the file of a later candidate, whatever changed around it:     *)
(* each look at the tree is of its own moment, and the answers of two      *)
(* moments are not mixed up.                                               *)
PriorityRespected ==
  Walked /\ answer.body = "file" =>
    \A i \in DOMAIN Tries(cfg, Path) :
      LET u == Tries(cfg, Path)[i].url
      IN  Trim(u) \in Places /\ Last(u) # Empty /\ seen[Trim(u)] = {"file"}
            => \E j \in 1..i : answer.place \in TriedPlaces(j)

(* NO CIRCLES.  A redirect leads to a URL the navigation has not asked for *)
(* before: what cleanUrls takes off trailingSlash does not put on again,   *)
(* however the slashes of the URL are doubled and its suffixes piled up.   *)
(* Only the redirects of serve.json may lead in a circle.                  *)
Destinations == {cfg.redirects[i].destination : i \in DOMAIN cfg.redirects}

NoCircles ==
  pc = "answered" /\ answer.status = 301 /\ answer.location \in trail
    => Destinations \intersect trail # {}

(* LANDS.  A navigation ends: the redirects for cleanUrls, trailingSlash   *)
(* and the configured ones never send a client in circles.                 *)
Lands == pc = "asked" ~> pc = "answered" /\ answer.status # 301

(* NOTHING FROM OUTSIDE.  What the security specification says of every    *)
(* answer: no file outside the served root is served, by a link or         *)
(* otherwise, by whatever way of candidates and directories it was found.  *)
NothingFromOutside ==
  pc = "answered" /\ answer.body = "file" => tree[answer.place] # "out"
=============================================================================
