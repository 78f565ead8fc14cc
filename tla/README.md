# Verification of irServe

irServe is a static file server in Rust, a port of `vercel/serve`: it answers
each request from the file tree below a root, after a fixed sequence of URL
redirects, rewrites and candidate files, with conditional requests, ranges,
compression, custom headers and directory listings, all configured by a
`serve.json`. This directory holds TLA+ models of it, the TLC runs that check
them and the proofs TLAPS checks. Paths below are relative to the repository,
`core/` stands for `crates/irserve-core/src/`.

There are no locks and no shared mutable state in the server: what makes it
hard is the file tree. It belongs to other programs, every request looks at it
several times, in separate awaits, and clients keep what they were told and come
back with it. The same holds for the ports and configuration files at start.

## Inventory

| Component | Keeps | Does | Interacts with | Hard part | Correct when |
|---|---|---|---|---|---|
| conditional file answers, `core/dispatch.rs` 334-513, 675-877, `etag.rs`, `last_modified.rs` | nothing between requests; the client keeps bodies and validators | stat, read, 200/206/304/416 | resolve, header rules, range; client caches | writes between stat and read, whole-second dates, restarts, lost and reordered answers | no stale copy is confirmed, no download is spliced |
| request dispatch, `core/dispatch.rs` 80-332 | the phase of the request | gate, redirects, rewrites, candidates | resolve, clean_urls, redirects, rewrites, listing | candidates are looked at in different moments | the answer is one the documented order explains |
| path resolution, `core/resolve.rs`, `clean_urls.rs` | nothing | metadata, index.html, canonicalize, containment | file system | kind recorded before canonicalize | as above, and no candidate outside the root is served |
| URL normalisation and redirects, `core/normalize.rs`, `trailing_slash.rs`, `redirects.rs`, `clean_urls.rs` | compiled rules | pure functions on the path | dispatch, the client that follows | decided on different forms of the path | following redirects ends |
| rewrites, `core/rewrites.rs` | compiled rules | chain of passes | dispatch | circular rules, depth cap | each rule at most once, last destination wins |
| path patterns, `core/path_pattern.rs` | compiled matchers | literal, glob, regex match and destination | rules of all kinds | `**`, dotfiles, fallbacks | agrees with minimatch and path-to-regexp |
| response pipeline, `core/server.rs` 202-270, `custom_headers.rs`, `cors.rs`, `compression.rs`, `range.rs`, `error.rs` | nothing | header rules, range, CORS, compression | dispatch | order of the passes | headers describe the body |
| directory listing, `core/listing.rs` | compiled filters | read_dir, sort, filter, render, renderSingle | dispatch | entries vanish while read, or cannot be read; the lone file of renderSingle is not checked against the root | all and only listed entries |
| configuration search, `core/config.rs` | nothing | explicit file, or serve.json, now.json, package.json | other programs | exists() and read are apart | priority respected |
| command line and start, `irserve/src/main.rs`, `listen_spec.rs` | nothing | resolve addresses, load, canonicalize root | config, server | order of failures | fails before it listens, or not at all |
| listeners, `core/server.rs` 39-200 | the listeners | bind, fall back to a free port, accept | ports, other processes | partial binding, stolen ports | all or nothing |
| probe harness, `tools/probe/run.mjs` | child process, port | find a port, spawn, wait, request, kill, compare | irserve, reference server | port races, readiness | observes the child it started |

`core/mime.rs` is a table and `core/lib.rs` a facade; both are left out.

## Modules

| Module | Models | Composed from |
|---|---|---|
| `FreshRead` | abstract: an answer is one atomic read of the file between request and answer | |
| `FileServe` | the file answers of one URL, the client's cache and the file's owner | instantiates `FreshRead` |
| `Urls` | what is computed from the path alone, as operators | |
| `Dispatch` | one navigation through dispatch on a changing tree | `Urls` |
| `Startup` | processes from the command line to the accept loops | |
| `Patterns` | sources of rules: compilation, the matchers, destinations, as operators | |
| `Rules` | a rule table from the start of the server to the lookups of requests | `Patterns` |
| `Pipeline` | header rules, range, CORS and compression, as operators on answers | |
| `Listing` | the reading of one directory while it changes | |
| `Responses` | a request from the outcome of its resolution to the wire | `Pipeline`, `Listing` |
| `FoldLaws` | lemmas on folds and recursions over sequences, for any step; no code | |
| `FileServeProofs`, `FreshReadProofs`, `DispatchProofs`, `StartupProofs`, `RulesProofs`, `ResponsesProofs`, `ListingProofs` | theorems | the module they are named after; `DispatchProofs`, `RulesProofs` and `ResponsesProofs` instantiate `FoldLaws` |
| `MCFileServe`, `MCDispatch`, `MCStartup`, `MCRules`, `MCResponses` | constants for TLC | |

### FileServe

`pc[r]` is where the handler of connection `r` stands; one action per await.
`Resolve` is `resolve()` (and the directory read of renderSingle);
`StatThenRead`/`ReadAfterStat` are the two awaits of the File/Index arm,
`ReadThenStat`/`StatAfterRead` those of renderSingle, where `listing::render`
reads and dispatch stats afterwards. `build_file_or_304` runs with the last
await, as in the code; it merges the header rules before it compares
validators. A body is a model value, its ETag the value itself, which is what a
digest is worth; `Size` gives its length, so that empty and one-byte files meet
the edges of a Range. `Restart` stops the process and starts it with another
configuration; answers already on a socket may still arrive.

The client is external: a browser cache that revalidates or reloads on several
connections, stores a 200, shows its copy on a 304, drops it on a 404, and
resumes an interrupted download, gluing a 206 to its part only under one strong
ETag. `Modify` replaces the file as a whole and leaves any mtime on it.

Left out: a file rewritten in place (a read could see half of it), HEAD, which
takes the same path with the body cut by hyper, and compression.

### Urls and Dispatch

A URL is the sequence of the parts between its slashes, a part a stem and its
extensions. `Tries`, `Outcome` and `Atomic` in `Dispatch` say declaratively what
a request is answered on a tree that stands still: a list of candidates, each
with the outcomes for which it is passed over. The handler is modelled apart
from that, one action per await: `Probe` (metadata), `ProbeIndex`
(index.html), `Canonicalize`, `Read`, `List`, and `Miss`, which says where the
walk goes when a candidate is not there. `Create` and `Delete` change the tree
between any two of them. A node `"out"` is a link to a file outside of the root.
`Canonicalize` refuses it as a candidate; `List` serves it as the lone file of
renderSingle, as the code does (see the violated runs).

Left out: `.` and `..` parts (a request has a form that says whether it escapes
or is malformed; `Rules` has them), pages of error answers (`Responses`), rules
with parameters (here a rule is the set of paths it matches and one destination;
`Rules` has the matchers), links that change, the metadata await of the File
arm, which only `FileServe` needs. Every file and directory can be read here;
what happens to those that cannot, dangling links among them, is in
`Responses`. The status 301 stands for all redirects: a configured one may have
another type.

### Startup

`Resolve`, `Lookup`, `Read`, `Canonicalize`, `Bind`, `Fallback` and `Serve`
follow `main`, `load_serve_json` and `serve`; `Lookup` is `path.exists()` and
`Read` the read after it. `Listen` makes a port the process's, from which moment
the kernel completes connections to it (`Connect`), long before `Accept`.
`Exit` closes the listeners and resets what is queued. A privileged port stands
for every error of bind that is not AddrInUse. Other programs write the
configuration files and take and leave ports; processes are killed and started
again at any time. All addresses are of one host, and a TIME_WAIT socket does
not block a bind (tokio sets SO_REUSEADDR).

### Patterns and Rules

A path is the sequence of the names between its slashes. Of a name the matchers
see its letters, case, a leading dot and a backslash before or behind it; a
source is a sequence of segments, each a name, `:id`, `*`, `**` or a glob given
by its alternatives. `compile`, `compile_header` and `compile_scoped_pattern`
choose the matcher a source gets in `path_pattern.rs`, `custom_headers.rs` and
for `cleanUrls`/`directoryListing`: a literal, the segments of a glob or the
pattern that stands for the expression of path-to-regexp. `match_segments` is
the recursion of the code as a function on the segments of the pattern, from the
last to the first: `m[i]` are the places of the path from which the pattern
matches from segment `i` on, and `SegmentMatches` is one call. `globset_matches`
is built the same way (`GlobMatches`). `Rules` compiles
a table rule by rule (`CompileRule`, with the rules that are warned of and left
out) and then looks requests up: the first redirect, the passes of
`apply_rewrites` with its used rules and its cap, all header rules in order,
the scopes. `lexical_path_escapes_root` comes first, as in dispatch.

Left out: tokens that are a part of a segment (`a-:id`), modifiers (`:id?`),
parameters whose names begin with a digit (they do not compile), Unicode case
folding, of which one bit per name is kept, and what encoding a name twice
makes of it: a name is encoded or not, as one bit.

### Pipeline, Listing and Responses

`Responses` takes over where `Dispatch` ends: a request leads to a file, a
directory, a redirect, nothing, or is refused. `ResolveFile`/`ReadFile` and the
actions of `Listing` are the awaits of the File and directory arms; another
program changes the file, the error pages and the entries between them
(`Change`). `ErrorJson`, `ErrorPage` and `ErrorFallback` are `error_response`,
which reads the custom page when it answers; `Finish` is the rest of `handler`
(`server.rs`), the CORS headers, `maybe_apply` of `compression.rs`, and the
length hyper adds. The order of the steps on one answer is the code's: rules,
range, CORS, compression.

A body is a run of bytes of some version of some content, in a coding. Headers
are a record; header rules set, replace and remove its fields, or are refused
for their value. A Range header is its pieces between commas and hyphens,
each a number or not, and saturates at `MaxInt`, as `parse_int_js` does.

`Listing` is `read_dir` with its awaits for each name, type and size. What the
system promises of an open directory is external: a name there all the time is
returned once, any other at most once, with a kind it had at some time. A type
that does not come with the name is asked for, and fails when the entry is gone;
a size that cannot be had is left out. An entry `"unreadable"` is one that is no
directory by its type and fails to be read as a file: a dangling link, a link to
a directory (the type is that of the link), a file without permission, a name
that is not UTF-8. It is listed like a file, and as the only entry it makes
renderSingle fail with 404 (`ReadLone`). The directory and the file of the File
arm may be unreadable too, with the same 404. Two comments in `listing.rs` say
something else than the code: 341 has broken links without a size, but
`DirEntry::metadata` gives that of the link; and 252 has Accept compared without
regard to case, where the comparison regards it.

Left out: FIFOs, sockets, errors in the middle of a read, the text of a listing
and of the built-in error page, weights of Accept-Encoding other than zero, 304
and torn reads (`FileServe`), and the resolution of the path (`Dispatch`).

## Runs

| Run | Asks | Instance | Result |
|---|---|---|---|
| `FileServe_safety` | `FreshAnswer`, `NoSplice` | 1 connection, contents of 1 and 2 bytes, 3 dates, 2 faults, 5 configurations | 2.4 M states, holds |
| `FileServe_fresh` | refinement `FreshReads` | 2 connections, ETags on, either arm | 1.8 M states, holds |
| `FileServe_live` | `Converges` | contents of 0, 1 and 2 bytes, 2 dates, `--no-etag` beside ETags | 180 k states, holds |
| `FileServe_single` | `FreshAnswer` for `--no-etag` with renderSingle | 1 connection | violated |
| `Dispatch_walk` | `StableAnswer`, `AdditionsNeverHide`, `PriorityRespected` | 7 places, 13 requests, 5 configurations, 2 changes per request | 687 k states, holds |
| `Dispatch_redirects` | `NoCircles`, `Lands` | all URLs of up to three out of 6 parts, 5 configurations | 8 k states, holds |
| `Dispatch_outside` | `NothingFromOutside` | renderSingle, with listings and without, no change | violated |
| `Startup_config` | `ConfigPriority` | 1 process, 4 files, 3 changes | 250 k states, holds |
| `Startup_ports` | `AllOrNothing`, `SwitchedForCause`, `Settles`, `Handled` | 2 processes, 3 ports, one privileged, 1 connection | 410 k states, holds |
| `Startup_race` | `MissingFilesSkipped` | 1 process, 1 change | violated |
| `Rules` | `SegmentsAsMinimatch`, `HeadersWithinRoutes`, `ScopesAsHeaders`, `NeverAboveRoot`, `SkippingCostsNothing`, `ChainsComplete`, `DestinationsFilled` | 30 sources, each with and without `!`, alone in all five tables; pairs and triples of 6 rules; paths of up to 5 names | 128 k states, holds |
| `Responses` | `ListingFaithful`, `SingleWasAlone`, `RulesPerBranch`, `CorsAlways`, `SelfDescribed`, `CacheSafe`, `RangeHonoured`, `AnswersForCause` | 15 configurations, a file of 3, 1 and 0 bytes, a directory of 2 entries, one of them readable or not, and a hidden one, 2 changes per request | 1.5 M states, holds |

Each run with a type invariant checks it too. `Size`, `PartLen`, `MaxFaults`,
`MaxChanges`, `DepthCap` and the sets in the MC modules are all the bounds.
They are enough for the cases that matter: two contents and three dates make a
copy older than, as old as and newer than the file; two faults an interrupted
download followed by a restart; two changes per request publish one page and
remove another between any two looks; two processes and one other program make
every collision of listeners. `DepthCap` is the code's 64 in `Dispatch`, where no
configuration reaches it, and 2 in `Rules`, where chains of three do. In
`Responses` the file is above, at and below `Threshold` (2 for the code's 1024),
`MaxInt` is 6, so that a Range meets it on both sides, and two changes remove an
entry and bring another while the directory is read. In `FileServe_fresh` two
connections are what it takes to reorder answers, and it is the one run that
does. The others have one, `FileServe_live` too: `Converges` is about what is
lost and asked again, not about what overtakes what.

`FreshAnswer` excuses two things: a copy whose ETag the user pinned by a header
rule, and a copy with a date when dates have not been honest, that is, when a
write did not move mtime to a later second or a rule pinned Last-Modified. A
dropped connection excuses nothing.

`StableAnswer` holds the handler to `Atomic`, which refuses a directory whose
lone entry is a link out of the root. That the code serves it (`listing.rs` 276)
is excused by name, `ServedFromOutside`, and is what `Dispatch_outside` finds.
Both sides compute the target of a rewrite by the same operators: that a chain
of rewrites goes on as it should is `ChainsComplete` of `Rules`.

`openspec/specs/routing/spec.md` 180 keeps the original path for requests no
rewrite matched; `dispatch.rs` 283 tries it also when the target of the rewrite
is missing or outside of the root, and D-013 in
`docs/reference/serve/decisions.md` goes with the code. `Tries` has the stage
(`fallback`) as the code has it.

`AnswersForCause` lets a directory be answered 404 for five causes: it was not
there, could not be read, was not to be listed, changed under the reading, or
was to be answered by renderSingle with a lone entry that cannot be read. The
last is one where the listing would have succeeded, as `listing.rs` 278 has it.

`AdditionsNeverHide` does not promise anything to a configuration without
listings while directories are added: where an earlier candidate becomes a
directory without an index, the handler stops with 404 and does not look at the
later ones.

`NoCircles` is an invariant of the same navigation: no redirect leads back to a
URL already asked for, unless one of `serve.json` had a part in it. `Lands` is of
the built-in redirects and of configured redirects that lead to a
page; a `serve.json` whose own redirects form a circle does send clients in one.

### Fairness

`FileServe`: handlers (tokio polls every ready task, file operations return),
the delivery of a written answer, and the user's asking again are weakly fair.
Writers, restarts and losses are not; their number is bounded. `Dispatch`:
handler and client following a redirect. `Startup`: a process that can go on
does, and each listener has an accept loop of its own. Nothing else is assumed.
`Rules` and `Responses` have safety properties only: their handlers are
sequences that end, and what they wait for is in the other modules.

### What the properties of Rules and Responses say of the code

The properties are as strong as the code lets them be; what they excuse are the
places where it departs from its comments or from the original:

- `HeadersWithinRoutes`: `path_pattern.rs` 225 and 806 say that a source with a
  trailing backslash never matches through minimatch; header rules, which have
  no other matcher, do match such a glob. A literal of a header rule is also
  compared without reading `\X` as `X`.
- `ScopesAsHeaders`: `cleanUrls` and `directoryListing` ask globset, the other
  tables minimatch; they part on names with a leading dot, and on paths that are
  not normalized.
- `DestinationsFilled`: a parameter that no part of the path fills is rendered
  empty. That happens where minimatch takes a path and the expression does not:
  a second `*`, a glob, and a backslash before a name, which the expression
  takes literally. The last of these came up in the proof, which could not be
  finished without it; `MCRules` has such a source since.
- `CorsAlways`: a header rule with `null` cannot remove a CORS header, because
  `apply_cors` fills in what is missing afterwards.
- `SelfDescribed`: a Content-Length, -Range or -Encoding that a rule sets stays
  only on a body that is neither cut nor encoded. The strong ETag stays the one
  of the identity body on every coding (`compression.rs` 376): what a client
  makes of parts in two codings under it is the design's, and no property is
  about it.
- `CacheSafe` is about Accept-Encoding only: error answers and listings choose
  JSON or HTML by Accept and do not say so in Vary. The two also look at Accept
  differently: errors at the beginning of each type in any case, listings for
  the text anywhere, in lower case.
- `RangeHonoured`: a suffix range longer than the file is a 416, as in the
  original, and not the whole file.

### What the violated runs show

`FileServe_single`: bytes before date, see `dispatch.rs` 456 and the comments
at 343 and 448. A write in between gives the old bytes the new date; the client
asks with that date and is answered 304 until the file changes again. The
proof below needs exactly the absence of this combination.

`Dispatch_outside`: `openspec/specs/security/spec.md` 14 has no file outside the
served root served, and the comments at `listing.rs` 55, `dispatch.rs` 529 and
`resolve.rs` 10 say that the check of the directory contains what is found in
it. It does not contain the lone entry that renderSingle serves, when that is a
link: `listing.rs` 276 joins its name to the directory and reads. The same link
asked for by its own name is refused. `Atomic` in `Dispatch` is what the
specification says, so `StableAnswer` names the case as its exception.

`Startup_race`: `config.rs` 158. A configuration file removed between exists()
and read ends the process, where the doc comment (129) has missing files
skipped.

## Proofs

`FileServeProofs` proves, for every set of connections, contents, sizes, dates
and configurations, from the assumptions named in `FileServe`:

- `TypeCorrect`: `Spec => []TypeOK`. Inductive with `ReadHasBytes`, which
  says that the renderSingle handler holds the bytes of a file when it stats
  (otherwise `build_file_or_304` would run without a body).
- `NeverSpliced`: `Spec => []NoSplice`. The invariant `TagInv` adds to types
  that whatever carries a digest, in the copy, the part, a request or an answer,
  is the content of that digest (`TagsOK`): that is why equal tags make a
  resumed download whole even though If-Range is ignored.
- `FreshAnswers`: `Spec => []FreshAnswer`, if no configuration combines
  renderSingle with `etag: false` (`DatesFromFileArm`). `FreshInv` adds that
  dates, while honest, tell contents apart (`DatesOK`), that a stat before the
  read cannot be later than it (`StatOK`), and that what a handler holds was in
  the file since the request (`WindowOK`).

The other modules of proofs, each for all values of the constants of its module:

- `FreshReadProofs`, `Implements`: `FileServe` implements `FreshRead`
  (`FreshReads`), if every configuration has ETags and pins none. `AtomicInv`
  adds to `TagInv` that what a handler or an answer holds was the content of the
  file since the request; under it every step maps to a read or a stutter.
- `DispatchProofs`: the three invariants of `Dispatch_walk`, for every tree,
  configuration, request and number of changes. `Order` is the list of stages a
  walk goes through, `TriesInOrder` shows that it is `Tries`, and `MissDecides`
  that `Miss` goes to the next stage or ends the walk. `PriorityKept`
  (`PriorityRespected`): every stage behind the walk was, at some moment, no
  file (`Reached`). `AdditionsPublish` (`AdditionsNeverHide`): while nothing is
  removed, the tree the request was asked on can be told from what was seen
  since (`Before`), and on it a file lies ahead (`OnTime`). `AnswersStandStill`
  (`StableAnswer`): while the candidates are `Calm`, what was found at each is
  there and the stages behind are passed over on the tree as it is, so the walk
  ends where `Atomic` does, or, with renderSingle, at a lone link that `Atomic`
  refuses (`OutsideServed`).
- `StartupProofs`: `TypeCorrect`, `StartsWhole` (`AllOrNothing`),
  `SwitchesForCause` (`SwitchedForCause`) and `PriorityKept` (`ConfigPriority`).
  `PortsInv` says for each stage of a start which listeners a process has, that
  it owns exactly these, and who had the ports it was refused; `SearchInv` what
  the search has seen of the files it passed. Other processes disturb neither,
  because a port changes hands only when it is free.
- `RulesProofs`: every invariant of `Rules`; see below.
- `ResponsesProofs`: `RangesHonoured` (`RangeHonoured`): the lemma `RangeParsed`
  shows that a range the parser accepts is exactly the bytes asked for, up to
  and including sizes of `MaxInt`; the rules, CORS and compression keep status
  and bytes (`RulesKeep`, `CorsKeeps`, `CompressionKeeps`). The other four are
  about header rules; see below.
- `ListingProofs`: `SinglesWereAlone` (`SingleWasAlone`), `AnswersHaveCauses`
  (`AnswersForCause`), `ListingsFaithful` (`ListingFaithful`) and
  `ResponsesTyped`. `ScanInv` says of every entry read that it was there with
  its kind since the directory was opened, once, and of every end of the reading
  what caused it, a lone entry that cannot be read among the causes; it survives
  other changes because what was there still was (`Grown`). `AnswerInv` carries
  the causes from an error to its answer. For `ListingsFaithful` the order of
  the entries has to exist: it is found by their ranks, the number of entries
  that come before each.

With these, every invariant that a passing run checks is a theorem, for all
values of the constants.

### Folds and recursions

Header rules, their items, the normalization of a path and the trimming of a URL
are folds, and the matchers are recursive functions. The induction theorems of
the library take the statement as an operator, which the provers cannot
instantiate. `FoldLaws` does induction on sets of numbers instead: a set that has
0 and the successor of each of its members is all of `Nat`, because what it lacks
would have a least element (`Least`, `NatByMembers`, `UpToByMembers`). From that
follow, for any step `Op`, that a fold is the last of a sequence of values
(`FoldTrace`), stays in every set each step keeps (`FoldIn`), keeps any relation
`Rel` with another fold (`FoldsRelated`), ends with the step of the last element
(`FoldAppend`), and that a recursion from the last place to the first has a
solution (`BackwardSolvable`). `Op` and `Rel` are constants: each proof
instantiates the module with its own.

Some definitions are written for this: folds where `SelectSeq` would do, an
order chosen (`Shown` in `Listing`) where `SortSeq` would, and functions of one
argument where a matcher recurs on two. They have the same values.

- `SearchAsPromised` (`SegmentsAsMinimatch`): the search of `match_segments`
  finds exactly the ways to share the path out to the segments. From a way to
  share (`cut`) the places of `m` follow backwards; from a place in `m` the cuts
  follow forwards, one segment after the other.
- `ScopesReadAlike` (`ScopesAsHeaders`): without leading dots, `GlobMatches` and
  `SegmentMatches` are the same step, so the same solution.
- `RoutesTakeHeaders` (`HeadersWithinRoutes`): redirects fall back to the same
  search, and a path that has the very names of a plain source fits its
  expression too (`Literally`).
- `RedirectsFillIn` (`DestinationsFilled`): for a source with one `*` or `**` at
  most, no glob and no backslash before a name, what minimatch takes the
  expression takes too, the flexible segment taking as many names as are left
  (`FallbackFits`); so every parameter is captured.
- `RequestsStayBelow` (`NeverAboveRoot`): while no prefix of the path goes above
  the root (`DeepEnough`), the two walks of `path_posix_normalize`, of the path
  and of the root with the path behind it, stay apart by the root (`StepBelow`).
- `SkippingIsFree` (`SkippingCostsNothing`), `RewritesComplete`
  (`ChainsComplete`) and `TablesTyped`: the invariant is that compiled and
  skipped rules are the rules of the file up to here, in order, each compiled to
  the matcher of its source; so the first compiled rule that matches is the first
  of the file, and the fold over the compiled header rules collects all of them.
  `RedirectsByFirst` is the part about redirects.
- `AnswersAsRuled` (`RulesPerBranch`), `CorsOnEveryAnswer` (`CorsAlways`),
  `AnswersSelfDescribed` (`SelfDescribed`) and `CachesSafe` (`CacheSafe`): what
  the rules do to one header depends on that header only (two folds related by
  agreeing on it), so a header that the later steps leave alone is as the rules
  left it, and `HeadersInv` says of each stage which those are.
- `DispatchTyped` (`TypeOK` of `Dispatch`): `TypeInv` adds to the order of stages
  that a redirect leads to a URL again, built-in or not.
- `NeverInCircles` (`NoCircles`) and `RedirectsDescend`: `Rank` is three times
  the number of names and suffixes of a URL, and more while its slashes are
  doubled or the last one is not as `trailingSlash` wants it. cleanUrls takes off
  a name or a suffix, collapsing keeps all of them, and the last slash is put
  right at most once; so every built-in redirect lowers it. `DescentInv` says
  that the URL at hand ranks below all that were asked before it. This is the
  safety in `Lands`: what is left to TLC is that handler and client go on, and
  that the configured redirects of its instance lead to a page.

Each step of `Next` has its own proof step; what several steps share is a lemma
about the operators (`BuildCopy`, `MergedTag`, `GlueOK`, ...).

### Assumptions

Those on constants are named in the module that declares them, and TLC evaluates
them on its instances. They are what the code gets from elsewhere: tables are
sequences whose sources are made of segments (`Rules`), redirects lead to URLs,
every request is for one, and every place has its parent (`Dispatch`), requested
paths and the root are names, the root without `.` and `..` (`Rules`), header
rules are sequences and no place they name is empty (`Responses`), sizes fit
into `MaxInt`. `TextsAssumption` (`Patterns`, `Urls`) says that some string
literals are strings, which the provers do not know.

### Only model-checked

`Converges`, `Lands`, `Settles` and `Handled`: they say that something happens
under fairness, which the prover cannot express. The assumptions of
`FreshAnswers` and `Implements` are conditions on the configurations, stated in
the theorems; the violated runs show why they are there.

## Not modelled

- The percent-decoder, the parsing of the command line and of JSON, the merge of
  flags into the configuration: conversions of strings without state. Their
  outcomes (malformed, refused, good and bad files) are inputs of the models.
- `core/mime.rs`: a lookup by extension; a type is a value in `Responses`.
- `core/lib.rs`: a facade.
- The text of listings and of the built-in error page: layout.
- The encoders: a coding is its name and a length that depends on it.
- `tools/probe`: a development tool that compares recorded answers. Its windows
  (a free port closed before the child binds it, polling until it answers) are
  wall-clock waits outside of the program.
- A file rewritten in place, which a read could see half of: the models have
  files replaced as a whole. Nothing in the code could notice the other.

## What is left

- The safety in the other liveness properties, as `RedirectsDescend` is that of
  `Lands`: for `Settles` that a start can take each port at most once, for
  `Converges` which request ends the client's ignorance.
- `Responses` with copies in several codings on the side of the client: whether
  a resumed download of an encoded body stays whole.
