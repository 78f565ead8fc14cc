------------------------------ MODULE Responses ------------------------------
(***************************************************************************)
(* The answer to a request, from the outcome of the path resolution to the *)
(* wire.  The file, the error pages and the directory are read while other *)
(* programs change them; what was read goes through the header rules of    *)
(* its branch, the range, the CORS headers and the compression (Pipeline). *)
(* Handlers share nothing that changes but the disk, so one is enough.     *)
(* Conditional requests (304) and reads torn by a write are in FileServe;  *)
(* how a path is resolved is in Dispatch.                                  *)
(***************************************************************************)
EXTENDS Pipeline, Listing

CONSTANTS
  Configs,      \* header rules, flags and options of the servers
  Requests,     \* where a request leads, and its headers
  Disks,        \* the states of the disk: the file and if it may be read, the
                \* error pages that can be read, the directory
  Sizes,        \* the length of each version of the file (version 0: gone)
  PageSize,     \* the length of a custom error page
  MaxChanges    \* how often the disk changes during one request

ASSUME SizesAssumption == Sizes \in Seq(0..MaxInt) /\ Sizes # <<>>
IsSequence(s) == s \in Seq(Range(s))

\* "" stands for no place: every path begins with a slash
ASSUME ConfigsAssumption ==
  \A c \in Configs :
    /\ IsSequence(c.rules)
    /\ \A i \in DOMAIN c.rules : IsSequence(c.rules[i].items) /\ "" \notin c.rules[i].places
ASSUME RequestsAssumption == \A r \in Requests : r.range \in Seq(RangeHeaders)
ASSUME DisksAssumption ==
  \A d \in Disks : /\ d.asset \in 0..Len(Sizes)
                  /\ d.readable \in BOOLEAN
                  /\ d.dir \in Directory
ASSUME PageSizeAssumption == PageSize \in Nat
ASSUME MaxChangesAssumption == MaxChanges \in Nat

VARIABLES
  cfg,          \* the configuration of this process
  pc,           \* where the handler is
  req,          \* the request
  error,        \* the error to be answered, and if the fallback skips the rules
  resp          \* the answer as far as it is built

vars == <<cfg, disks, scan, pc, req, error, resp>>

NoError  == [status |-> 0, skip |-> FALSE]
Blank    == Response(0, Missing, NoBody)
NoRequest == [raw |-> "", path |-> "", finds |-> "nothing", at |-> "", method |-> "GET",
              encodings |-> <<>>, range |-> <<>>, accept |-> "html"]

Versions == 0..Len(Sizes)
Size(v)  == IF v = 0 THEN 0 ELSE Sizes[v]
IsHead   == req.method = "HEAD"
SmallText == Threshold - 1

(* Accept: the errors look at the beginning of each type and at no case,   *)
(* the listings for the text anywhere, in lower case.                      *)
error_accepts_json(accept)   == accept \in {"json", "JSON"}
listing_accepts_json(accept) == accept \in {"json", "inner json"}

Page(status) == CASE status = 400 -> "/400.html" [] status = 404 -> "/404.html"

Typed(type) == [Missing EXCEPT !.type = type]
-----------------------------------------------------------------------------
(* The directory is read only by the handler of a directory, an answer has *)
(* a status the program knows exactly when it is built, and an error is    *)
(* answered with a status that has a page of its own.                      *)
TypeOK ==
  /\ cfg \in Configs
  /\ Len(disks) \in 1..MaxChanges + 1 /\ \A i \in DOMAIN disks : disks[i] \in Disks
  /\ scan.stage \in Stages /\ Returned \subseteq Names
  /\ ~Scanned /\ scan.stage # "idle" => pc = "listing"
  /\ pc = "listing" => scan.stage # "idle"
  /\ pc \in {"idle", "asked", "found", "listing", "error", "built", "sent"}
  /\ req \in Requests \union {NoRequest}
  /\ error.status \in {0, 400, 404} /\ (pc = "error" => error.status # 0)
  /\ DOMAIN resp.headers = DOMAIN Missing
  /\ resp.status \in {0, 200, 206, 301, 400, 404, 405, 416}
  /\ pc \in {"built", "sent"} <=> resp.status # 0

Init ==
  /\ cfg \in Configs
  /\ disks \in {<<d>> : d \in Disks}
  /\ scan = NoScan
  /\ pc = "idle"
  /\ req = NoRequest
  /\ error = NoError
  /\ resp = Blank

(* Another program changes the file, a page, or an entry of the directory, *)
(* between two reads.  Before the first read it would be another start,    *)
(* and after the last it is not seen.                                      *)
OneChange(d, e) ==
  \/ \E v \in Versions \ {d.asset} : e = [d EXCEPT !.asset = v]
  \/ \E status \in {400, 404} : e = [d EXCEPT !.pages = SymDiff(@, {status})]
  \/ \E n \in Names : \E k \in Kinds \ {d.dir.kind[n]} : e = [d EXCEPT !.dir.kind[n] = k]
  \/ e = [d EXCEPT !.dir.there = ~@]
  \/ e = [d EXCEPT !.readable = ~@]
  \/ e = [d EXCEPT !.dir.readable = ~@]

Change ==
  /\ pc \in {"found", "listing", "error"}
  /\ Len(disks) <= MaxChanges
  /\ \E d \in Disks : OneChange(Disk, d) /\ disks' = Append(disks, d)
  /\ UNCHANGED <<cfg, scan, pc, req, error, resp>>

Ask(r) ==
  /\ pc = "idle"
  /\ pc' = "asked"
  /\ req' = r
  /\ UNCHANGED <<cfg, disks, scan, error, resp>>

(* The ways on: an answer that needs no more, or an error to be answered.  *)
Build(answer) ==
  /\ pc' = "built"
  /\ resp' = answer
  /\ UNCHANGED <<cfg, disks, req, error>>

Err(status, skip) ==
  /\ pc' = "error"
  /\ error' = [status |-> status, skip |-> skip]
  /\ UNCHANGED <<cfg, disks, req, resp>>

Go(stage) == pc' = stage /\ UNCHANGED <<cfg, disks, req, error, resp>>

AskedFor(finds) ==
  /\ pc = "asked"
  /\ req.method # "POST"
  /\ req.finds = finds
  /\ UNCHANGED scan

(* The rules are asked about the path as it was sent. *)
MethodNotAllowed ==
  /\ pc = "asked" /\ req.method = "POST"
  /\ Build(apply_custom_headers(Response(405, Missing, NoBody), req.raw, cfg.rules))
  /\ UNCHANGED scan

\* malformed, or above the root
BadRequest == AskedFor("refused") /\ Err(400, TRUE)

Redirected == AskedFor("redirect") /\ Build(Response(301, Missing, NoBody))

NotFound == AskedFor("nothing") /\ Err(404, FALSE)

ResolveFile ==
  /\ AskedFor("file")
  /\ IF Disk.asset = 0 THEN Err(404, FALSE) ELSE Go("found")

ResolveDirectory_both ==
  /\ pc = "asked" /\ req.method # "POST" /\ req.finds = "dir"
  /\ IF Disk.dir.there /\ cfg.listing /\ cfg.single
     THEN Go("listing") /\ scan' = [NoScan EXCEPT !.stage = "open"]
     ELSE Err(404, FALSE) /\ UNCHANGED scan

(* With neither option on the directory is not read. *)
ResolveDirectory ==
  /\ pc = "asked" /\ req.method # "POST" /\ req.finds = "dir"
  /\ IF Disk.dir.there /\ (cfg.listing \/ cfg.single)
     THEN Go("listing") /\ scan' = [NoScan EXCEPT !.stage = "open"]
     ELSE Err(404, FALSE) /\ UNCHANGED scan
-----------------------------------------------------------------------------
(* build_file_or_304 for an unconditional request. *)
file_response(what, version, type, n) ==
  Response(200, [Typed(type) EXCEPT !.etag = IF cfg.etag THEN version ELSE 0],
           Body(what, version, 0, n))

Ranged(answer, n) ==
  IF req.range = <<>> \/ n = 0 THEN answer ELSE apply_range(answer, req.range[1], n)

build_file(what, version, type, n, at) ==
  Ranged(apply_custom_headers(file_response(what, version, type, n), at, cfg.rules), n)

(* Any failure of the read is a file not found. *)
ReadFile ==
  /\ pc = "found"
  /\ IF Disk.asset = 0 \/ ~Disk.readable THEN Err(404, FALSE)
     ELSE Build(build_file("file", Disk.asset, cfg.type, Size(Disk.asset), req.at))
  /\ UNCHANGED scan

ReadDirectory ==
  /\ pc = "listing"
  /\ Scan(cfg.single)
  /\ UNCHANGED <<cfg, pc, req, error, resp>>

Read(stage) == pc = "listing" /\ scan.stage = stage /\ UNCHANGED scan

(* A listing is answered without the rules. *)
Listed ==
  /\ Read("listed") /\ cfg.listing
  /\ Build(Response(200, Typed(IF listing_accepts_json(req.accept) THEN Json ELSE Html),
                    Body("listing", 0, 0, SmallText + Len(scan.shown))))

\* the directory was read only to see if it has one file
NotListed == Read("listed") /\ ~cfg.listing /\ Err(404, FALSE)

SingleFile ==
  /\ Read("single")
  /\ Build(build_file("lone", 0, cfg.type, Size(1), req.at))

ListingFailed_500 == Read("failed") /\ Err(500, FALSE)

ListingFailed == Read("failed") /\ Err(404, FALSE)
-----------------------------------------------------------------------------
(* error_response.  The page is read now. *)
ErrorJson ==
  /\ pc = "error"
  /\ error_accepts_json(req.accept)
  /\ Build(Response(error.status, Typed(Json), Body("json", 0, 0, SmallText)))
  /\ UNCHANGED scan

ErrorPage_skip ==
  /\ pc = "error"
  /\ ~error_accepts_json(req.accept)
  /\ error.status \in Disk.pages
  /\ Build(apply_custom_headers(
             Response(error.status, Typed(Html), Body("page", error.status, 0, PageSize)),
             Page(error.status), IF error.skip THEN <<>> ELSE cfg.rules))
  /\ UNCHANGED scan

ErrorPage ==
  /\ pc = "error"
  /\ ~error_accepts_json(req.accept)
  /\ error.status \in Disk.pages
  /\ Build(apply_custom_headers(
             Response(error.status, Typed(Html), Body("page", error.status, 0, PageSize)),
             Page(error.status), cfg.rules))
  /\ UNCHANGED scan

FallbackBare == Response(error.status, Typed(Html), Body("fallback", 0, 0, SmallText))

FallbackRuled ==
  IF error.skip THEN FallbackBare ELSE apply_custom_headers(FallbackBare, req.path, cfg.rules)

ErrorFallback ==
  /\ pc = "error"
  /\ ~error_accepts_json(req.accept)
  /\ error.status \notin Disk.pages
  /\ Build([FallbackRuled EXCEPT !.headers.type = Html])
  /\ UNCHANGED scan
-----------------------------------------------------------------------------
(* server::handler, after dispatch; then hyper adds a missing length. *)
WithCors(answer) == IF cfg.cors THEN apply_cors(answer) ELSE answer

Finished == maybe_apply(WithCors(resp), IsHead, req.encodings, cfg.compression)

Framed(answer) ==
  [answer EXCEPT !.headers = Filled(@, "length", LengthOf(answer.body))]

Finish ==
  /\ pc = "built"
  /\ pc' = "sent"
  /\ resp' = Framed(Finished)
  /\ UNCHANGED <<cfg, disks, scan, req, error>>

Done ==
  /\ pc = "sent"
  /\ pc' = "idle"
  /\ disks' = <<Disk>>
  /\ scan' = NoScan
  /\ req' = NoRequest
  /\ error' = NoError
  /\ resp' = Blank
  /\ UNCHANGED cfg

Handler ==
  \/ MethodNotAllowed \/ BadRequest \/ Redirected \/ NotFound
  \/ ResolveFile \/ ReadFile
  \/ ResolveDirectory \/ ReadDirectory \/ Listed \/ NotListed \/ SingleFile \/ ListingFailed
  \/ ErrorJson \/ ErrorPage \/ ErrorFallback
  \/ Finish

Next ==
  \/ \E r \in Requests : Ask(r)
  \/ Handler
  \/ Change
  \/ Done

Spec == Init /\ [][Next]_vars
-----------------------------------------------------------------------------
Sent == pc = "sent"
Held == resp.body.what

(* The place the rules are asked about, by what the answer holds.  A       *)
(* redirect, a listing and a JSON error take no rules, and neither does    *)
(* the fallback of a request that was refused.                             *)
RulePlace ==
  CASE Held \in {"file", "lone"} -> req.at
    [] Held = "page"             -> Page(resp.status)
    [] Held = "fallback"         -> IF req.finds = "refused" THEN "" ELSE req.path
    [] resp.status = 405          -> req.raw
    [] OTHER                      -> ""

OwnType ==
  CASE Held \in {"file", "lone"}     -> cfg.type
    [] Held \in {"page", "fallback"} -> Html
    [] Held = "json"                 -> Json
    [] Held = "listing"              -> IF listing_accepts_json(req.accept) THEN Json ELSE Html
    [] OTHER                          -> Missing.type

Said(headers) == FoldLeft(LAMBDA h, rule : ApplyRule(h, rule, RulePlace), headers, cfg.rules)

(* What the rules say of a header, from nothing: what they leave out or    *)
(* remove is Missing.                                                      *)
Ruled(key) == Said(Missing)[key]

(* Every answer has the headers of the rules for what it turned out to     *)
(* hold, whichever of the file, the pages and the entries came or went     *)
(* while it was made, and a fallback is HTML whatever the rules say.       *)
RulesPerBranch ==
  Sent => /\ resp.headers.mark = Ruled("mark")
          /\ resp.headers.type = IF Held = "fallback" THEN Html ELSE Said(Typed(OwnType)).type
          /\ resp.headers.transform = Ruled("transform")

(* With --cors every answer, redirects and errors too, has the CORS        *)
(* headers, and a value that a rule gave is kept; a rule that removes one  *)
(* does not.  Without --cors there are only those of the rules.            *)
CorsAlways ==
  Sent => \A key \in {"origin", "credentials"} :
            resp.headers[key] = IF cfg.cors /\ Ruled(key) = Missing[key]
                                THEN (IF key = "origin" THEN "*" ELSE "true")
                                ELSE Ruled(key)

(* What the headers say of the body is so: it is encoded once, in the      *)
(* coding they name, and has the length and the place in the file they     *)
(* give.  What a rule says stays only where nothing replaced it: its       *)
(* coding on a body that is not encoded, its length on one that is neither *)
(* encoded nor cut, and its range on one that is not cut.                  *)
SelfDescribed ==
  Sent =>
    /\ resp.headers.encoding = IF resp.body.coding # "" THEN resp.body.coding ELSE Ruled("encoding")
    /\ resp.body.coding # "" => Ruled("encoding") \in {"", "identity"}
    /\ resp.headers.length # LengthOf(resp.body) =>
         /\ resp.body.coding = "" /\ resp.status # 206
         /\ resp.headers.length = Ruled("length")
    /\ resp.status = 206 =>
         resp.headers.range = Span(resp.body.first, resp.body.first + resp.body.count - 1,
                                   IF Held = "lone" THEN Size(1) ELSE Size(resp.body.version))
    /\ resp.status \notin {206, 416} => resp.headers.range = Ruled("range")

(* A shared cache that obeys Vary never gives a client an encoded body     *)
(* that this client does not take, whoever asked first.                    *)
Takes(r, coding) == coding = "" \/ Ok(r.encodings, coding)

Reusable(r) ==
  /\ "*" \notin resp.headers.vary
  /\ <<r.path, r.at, r.method, r.range>> = <<req.path, req.at, req.method, req.range>>
  /\ "Accept-Encoding" \in resp.headers.vary => r.encodings = req.encodings

CacheSafe == Sent => Takes(req, resp.body.coding)
                     /\ \A r \in Requests : Reusable(r) => Takes(r, resp.body.coding)

(* Of the bytes of the file, numbered from 0, a range asks for some; the   *)
(* 206 holds those of them that exist, and the answer is a 416 only if     *)
(* there are none, if it cannot be read, or if it asks for more last bytes *)
(* than there are.  The 416 and the answer to an empty file are whole.     *)
Positions(range, n) ==
  LET first == FirstPiece(range.ranges[1]) last == LastPiece(range.ranges[1])
  IN  {p \in 0..n - 1 :
         CASE first.number  -> p >= first.value /\ (last.number => p <= last.value)
           [] ~first.number -> last.number /\ p >= n - last.value}

RangeHonoured ==
  Sent /\ Held \in {"file", "lone"} /\ req.range # <<>> =>
    LET n     == IF Held = "lone" THEN Size(1) ELSE Size(resp.body.version)
        range == req.range[1]
        asked == IF range.unit = "bytes" /\ range.ranges # <<>> THEN Positions(range, n) ELSE {}
        last  == LastPiece(range.ranges[1])
        held  == resp.body.first..resp.body.first + resp.body.count - 1
    IN  /\ resp.status = 206 => held = asked /\ held # {}
        /\ resp.status = 416 => \/ asked = {}
                                \/ ~FirstPiece(range.ranges[1]).number /\ last.value > n
        /\ resp.status # 206 => held = 0..n - 1
        /\ resp.status = 200 <=> n = 0

(* An answer has its cause in the disk while it was made: the file in a    *)
(* version it had, a page that was there, the fallback only if the page    *)
(* was not there, and a 404 only if the file or the directory was not      *)
(* there or might not be read, or the directory could not be answered: it  *)
(* was not to be listed, an entry came, went or changed, or renderSingle   *)
(* was to answer a lone entry that could not be read.                      *)
Was(P(_)) == \E i \in DOMAIN disks : P(disks[i])

Unsteady == \E n \in Names : \E i, j \in DOMAIN disks :
              disks[i].dir.kind[n] # disks[j].dir.kind[n]
Alone(d, kind) == \E n \in Names : d.dir.kind = [m \in Names |-> IF m = n THEN kind ELSE "none"]
Unlistable == ~cfg.listing /\ (~cfg.single \/ Was(LAMBDA d : ~Alone(d, "file")))
Unreadable == cfg.single /\ Was(LAMBDA d : Alone(d, "unreadable"))

AnswersForCause ==
  Sent =>
    /\ Held = "file"     => Was(LAMBDA d : d.asset = resp.body.version)
    /\ Held = "page"     => /\ resp.body.version = resp.status
                             /\ Was(LAMBDA d : resp.status \in d.pages)
    /\ Held = "fallback" => Was(LAMBDA d : resp.status \notin d.pages)
    /\ resp.status = 404 /\ req.finds = "file" => Was(LAMBDA d : d.asset = 0 \/ ~d.readable)
    /\ resp.status = 404 /\ req.finds = "dir"  =>
         \/ Was(LAMBDA d : ~d.dir.there \/ ~d.dir.readable)
         \/ Unlistable \/ Unreadable \/ Unsteady
=============================================================================
