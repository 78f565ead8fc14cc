----------------------------- MODULE FileServe -----------------------------
(***************************************************************************)
(* One URL of an irserve process, from the request to the answer: the      *)
(* file is resolved, stat'ed and read in separate awaits while other       *)
(* programs replace or remove it; build_file_or_304 then decides between   *)
(* 200, 206, 304 and 416 from the validators of the stored copy the client *)
(* is asking about.  The File/Index arm of dispatch stats BEFORE it reads, *)
(* the renderSingle arm stats AFTER.                                       *)
(*                                                                         *)
(* The client (a browser cache with several connections) is external: it   *)
(* stores what a 200 says, keeps its copy on a 304 and completes an        *)
(* interrupted download with a Range request.                              *)
(***************************************************************************)
EXTENDS Integers

CONSTANTS
  Conns,       \* connections of the client, each carries one request
  Contents,    \* the byte strings the file can hold
  Size,        \* Size[c]: how many bytes c has
  Absent,      \* "no file" / "no copy"
  Spliced,     \* a body glued together from two different contents
  Times,       \* modification times, in the whole seconds a header shows
  PinnedDate,  \* the Last-Modified value a serve.json header rule may set
  Configs,     \* the configurations the process is (re)started with
  MaxFaults    \* bound on lost connections and restarts

PartLen == 1   \* the bytes a client has of an interrupted download

Config == [etag     : BOOLEAN,              \* serve_config.etag # Some(false)
           route    : {"file", "single"},   \* the arm of dispatch that serves
           tagRule  : {"keep", "pin", "drop"},  \* header rules on ETag
           dateRule : {"keep", "pin", "drop"}]  \* and on Last-Modified

ASSUME ContentsAssumption ==
  /\ Size \in [Contents -> Nat]
  /\ Absent \notin Contents
  /\ Spliced \notin Contents
  /\ Absent # Spliced
ASSUME TimesAssumption == Times \subseteq Nat /\ PinnedDate \in Times
ASSUME ConfigsAssumption == Configs \subseteq Config
ASSUME FaultsAssumption == MaxFaults \in Nat

VARIABLES
  content,     \* the file: what it holds, Absent when it does not exist
  mtime,       \* and its modification time
  cfg,         \* the configuration of the running process
  pc,          \* pc[r]: where the handler of connection r stands
  req,         \* req[r]: the request it carries
  io,          \* io[r]: the results of its awaits: bytes read, mtime stat'ed
  resp,        \* resp[r]: the answer on its way to the client
  cache,       \* the client's stored copy
  part,        \* the client's interrupted download
  shown,       \* shown[r]: the body the last answer on r gave the user
  faults,      \* restarts and lost connections so far
  window,      \* history: the contents the file held since r was asked
  datesHonest  \* history: every write moved mtime forward, none was pinned

vars == <<content, mtime, cfg, pc, req, io, resp, cache, part, shown, faults,
          window, datesHonest>>

file    == <<content, mtime>>
client  == <<cache, part, shown>>
history == <<window, datesHonest>>
-----------------------------------------------------------------------------
(* Validators.  An ETag is the digest of the bytes: equal tags, equal      *)
(* bytes.  A header absent from a message is NoTag or NoDate.              *)
compute_etag_blind(bytes) == [by |-> "sha1", of |-> Absent]
compute_etag(bytes) == [by |-> "sha1", of |-> bytes]
PinnedTag == [by |-> "rule", of |-> Absent]
NoTag     == [by |-> "none", of |-> Absent]
NoDate    == -1

Bodies == Contents \union {Absent, Spliced}
Tags   == {NoTag, PinnedTag} \union {compute_etag(c) : c \in Contents}
Dates  == Times \union {NoDate}
Copies == [body : Bodies, etag : Tags, lm : Dates]
NoCopy == [body |-> Absent, etag |-> NoTag, lm |-> NoDate]
NoIo   == [bytes |-> Absent, meta |-> NoDate]
NoRequest == [kind |-> "get", base |-> NoCopy]

Requests  == [kind : {"get", "resume"}, base : Copies]
Responses == [status : {200, 206, 304, 404, 416}, copy : Copies]

etag_value(k, bytes) == IF k.etag THEN compute_etag(bytes) ELSE NoTag

last_modified_value_rounded_up(k, meta) == IF k.etag THEN NoDate ELSE meta + 1

last_modified_value(k, meta) == IF k.etag THEN NoDate ELSE meta

(* The header rules of serve.json, applied before the 304 decision.  *)
Overlay(rule, own, pinned, none) ==
  CASE rule = "pin"  -> pinned
    [] rule = "drop" -> none
    [] rule = "keep" -> own

(* file_response overlaid with the user's header rules: the merged 200. *)
Merged(k, bytes, meta) ==
  [body |-> bytes,
   etag |-> Overlay(k.tagRule, etag_value(k, bytes), PinnedTag, NoTag),
   lm   |-> Overlay(k.dateRule, last_modified_value(k, meta), PinnedDate, NoDate)]

InmMatches_any(inm, merged) == inm # NoTag /\ merged.etag # NoTag

InmMatches(inm, merged) == inm # NoTag /\ inm = merged.etag

ImsMatches_reversed(k, ims, merged) ==
  ~k.etag /\ ims # NoDate /\ merged.lm # NoDate /\ ims <= merged.lm

ImsMatches_any(k, ims, merged) == ~k.etag /\ ims # NoDate /\ merged.lm # NoDate

ImsMatches(k, ims, merged) ==
  /\ ~k.etag
  /\ ims # NoDate
  /\ merged.lm # NoDate
  /\ ims >= merged.lm

(* "Range: bytes=1-" against a body of total bytes. *)
RangeStatus(total) ==
  IF total = 0 THEN 200 ELSE IF PartLen < total THEN 206 ELSE 416

build_file_or_304(k, rq, bytes, meta) ==
  LET merged == Merged(k, bytes, meta)
  IN  IF rq.kind = "resume"
      THEN [status |-> RangeStatus(Size[bytes]), copy |-> merged]
      ELSE IF \/ InmMatches(rq.base.etag, merged)
              \/ ImsMatches(k, rq.base.lm, merged)
           THEN [status |-> 304, copy |-> NoCopy]
           ELSE [status |-> 200, copy |-> merged]

NotFound == [status |-> 404, copy |-> NoCopy]
-----------------------------------------------------------------------------
TypeOK ==
  /\ content \in Contents \union {Absent}
  /\ mtime \in Times
  /\ cfg \in Configs
  /\ pc \in [Conns -> {"idle", "sent", "resolved", "statted", "read", "answered"}]
  /\ req \in [Conns -> Requests]
  /\ io \in [Conns -> [bytes : Contents \union {Absent}, meta : Dates]]
  /\ resp \in [Conns -> Responses]
  /\ cache \in Copies
  /\ part \in Copies
  /\ shown \in [Conns -> Bodies]
  /\ faults \in 0..MaxFaults
  /\ window \in [Conns -> SUBSET (Contents \union {Absent})]
  /\ datesHonest \in BOOLEAN

Init ==
  /\ content \in Contents \union {Absent}
  /\ mtime \in Times
  /\ cfg \in Configs
  /\ pc = [r \in Conns |-> "idle"]
  /\ req = [r \in Conns |-> NoRequest]
  /\ io = [r \in Conns |-> NoIo]
  /\ resp = [r \in Conns |-> NotFound]
  /\ cache = NoCopy
  /\ part = NoCopy
  /\ shown = [r \in Conns |-> Absent]
  /\ faults = 0
  /\ window = [r \in Conns |-> {}]
  /\ datesHonest = (cfg.dateRule # "pin")
-----------------------------------------------------------------------------
(* The programs that own the served files.  A file is replaced as a whole  *)
(* (write and rename); its mtime is whatever the writer leaves on it.      *)
Witness(v) ==
  window' = [r \in Conns |->
               IF pc[r] = "idle" THEN window[r] ELSE window[r] \union {v}]

Modify(v, m) ==
  /\ content' = v
  /\ mtime' = m
  /\ datesHonest' = (datesHonest /\ m > mtime)
  /\ Witness(v)
  /\ UNCHANGED <<cfg, pc, req, io, resp, client, faults>>

Remove ==
  /\ content # Absent
  /\ content' = Absent
  /\ Witness(Absent)
  /\ UNCHANGED <<mtime, cfg, pc, req, io, resp, client, faults, datesHonest>>
-----------------------------------------------------------------------------
(* The exchanges on the connections in S are over. *)
Close(S) ==
  /\ pc' = [r \in Conns |-> IF r \in S THEN "idle" ELSE pc[r]]
  /\ req' = [r \in Conns |-> IF r \in S THEN NoRequest ELSE req[r]]
  /\ io' = [r \in Conns |-> IF r \in S THEN NoIo ELSE io[r]]
  /\ resp' = [r \in Conns |-> IF r \in S THEN NotFound ELSE resp[r]]
  /\ window' = [r \in Conns |-> IF r \in S THEN {} ELSE window[r]]

(* The client. *)
Send(r, rq) ==
  /\ pc[r] = "idle"
  /\ pc' = [pc EXCEPT ![r] = "sent"]
  /\ req' = [req EXCEPT ![r] = rq]
  /\ window' = [window EXCEPT ![r] = {content}]
  /\ UNCHANGED <<file, cfg, io, resp, client, faults, datesHonest>>

(* A GET that revalidates the stored copy, or a reload without validators. *)
Get(r) == \E base \in {cache, NoCopy} : Send(r, [kind |-> "get", base |-> base])

(* A GET with a Range header for the rest of an interrupted download. *)
Resume(r) == part # NoCopy /\ Send(r, [kind |-> "resume", base |-> part])

(* The connection is lost; the server drops the handler's future. *)
Lose(r) ==
  /\ pc[r] # "idle"
  /\ faults < MaxFaults
  /\ faults' = faults + 1
  /\ Close({r})
  /\ UNCHANGED <<file, cfg, client, datesHonest>>

(* The connection is lost in the middle of a 200. *)
Interrupt(r) ==
  /\ pc[r] = "answered"
  /\ resp[r].status = 200
  /\ Size[resp[r].copy.body] > PartLen
  /\ faults < MaxFaults
  /\ faults' = faults + 1
  /\ part' = resp[r].copy
  /\ Close({r})
  /\ UNCHANGED <<file, cfg, cache, shown, datesHonest>>

(* The two parts of a download, glued together. *)
Glue(first, rest) == IF first = rest THEN rest ELSE Spliced

(* The first part and a 206 belong together only under one strong ETag. *)
Completes(base, copy) == copy.etag # NoTag /\ copy.etag = base.etag

Deliver(r) ==
  LET status == resp[r].status
      copy   == resp[r].copy
      base   == req[r].base
      whole  == [copy EXCEPT !.body = Glue(base.body, copy.body)]
  IN
  /\ pc[r] = "answered"
  /\ Close({r})
  /\ \/ /\ status \in {200, 404}
        /\ cache' = copy
        /\ part' = NoCopy
        /\ shown' = [shown EXCEPT ![r] = copy.body]
     \/ /\ status = 304
        /\ shown' = [shown EXCEPT ![r] = base.body]
        /\ UNCHANGED <<cache, part>>
     \/ /\ status = 206 /\ Completes(base, copy)
        /\ cache' = whole
        /\ part' = NoCopy
        /\ shown' = [shown EXCEPT ![r] = whole.body]
     \/ /\ status = 416 \/ (status = 206 /\ ~Completes(base, copy))
        /\ part' = NoCopy
        /\ UNCHANGED <<cache, shown>>
  /\ UNCHANGED <<file, cfg, faults, datesHonest>>
-----------------------------------------------------------------------------
(* The server: one action per await of the handler. *)
Answer(r, response) ==
  /\ pc' = [pc EXCEPT ![r] = "answered"]
  /\ resp' = [resp EXCEPT ![r] = response]

(* resolve(), and in the renderSingle arm the directory read: is there a   *)
(* file to serve?                                                          *)
Resolve(r) ==
  /\ pc[r] = "sent"
  /\ \/ /\ content = Absent
        /\ io' = [io EXCEPT ![r].bytes = Absent]
        /\ Answer(r, NotFound)
     \/ /\ content # Absent
        /\ pc' = [pc EXCEPT ![r] = "resolved"]
        /\ UNCHANGED <<io, resp>>
  /\ UNCHANGED <<file, cfg, req, client, faults, history>>

metadata == IF content = Absent THEN NoDate ELSE mtime

(* File/Index arm: metadata first ...  A failed stat is no error. *)
StatThenRead(r) ==
  /\ pc[r] = "resolved"
  /\ cfg.route = "file"
  /\ pc' = [pc EXCEPT ![r] = "statted"]
  /\ io' = [io EXCEPT ![r].meta = metadata]
  /\ UNCHANGED <<file, cfg, req, resp, client, faults, history>>

(* ... then the bytes, and the answer with no await in between. *)
ReadAfterStat(r) ==
  /\ pc[r] = "statted"
  /\ io' = [io EXCEPT ![r].bytes = content]
  /\ \/ content = Absent /\ Answer(r, NotFound)
     \/ /\ content # Absent
        /\ Answer(r, build_file_or_304(cfg, req[r], content, io[r].meta))
  /\ UNCHANGED <<file, cfg, req, client, faults, history>>

(* renderSingle arm: listing::render reads the lone file ... *)
ReadThenStat(r) ==
  /\ pc[r] = "resolved"
  /\ cfg.route = "single"
  /\ io' = [io EXCEPT ![r].bytes = content]
  /\ \/ content = Absent /\ Answer(r, NotFound)
     \/ /\ content # Absent
        /\ pc' = [pc EXCEPT ![r] = "read"]
        /\ UNCHANGED resp
  /\ UNCHANGED <<file, cfg, req, client, faults, history>>

(* ... and dispatch stats it afterwards. *)
StatAfterRead(r) ==
  /\ pc[r] = "read"
  /\ io' = [io EXCEPT ![r].meta = metadata]
  /\ Answer(r, build_file_or_304(cfg, req[r], io[r].bytes, metadata))
  /\ UNCHANGED <<file, cfg, req, client, faults, history>>

(* The process is stopped and started again, maybe with another serve.json *)
(* or --no-etag.  Answers already written to a socket may still arrive.    *)
Restart(k) ==
  /\ faults < MaxFaults
  /\ faults' = faults + 1
  /\ cfg' = k
  /\ Close({r \in Conns : pc[r] # "answered"})
  /\ datesHonest' = (datesHonest /\ k.dateRule # "pin")
  /\ UNCHANGED <<file, client>>
-----------------------------------------------------------------------------
Handler(r) ==
  \/ Resolve(r)
  \/ StatThenRead(r)
  \/ ReadAfterStat(r)
  \/ ReadThenStat(r)
  \/ StatAfterRead(r)

Next ==
  \/ \E v \in Contents, m \in Times : Modify(v, m)
  \/ Remove
  \/ \E r \in Conns : Get(r) \/ Resume(r) \/ Deliver(r) \/ Lose(r) \/ Interrupt(r)
  \/ \E r \in Conns : Handler(r)
  \/ \E k \in Configs : Restart(k)

Spec == Init /\ [][Next]_vars

(* tokio polls every ready task and file operations return; an answer that *)
(* was written arrives; the user keeps asking.  Nothing makes the owner of *)
(* the files, a connection loss or a restart happen.                       *)
Fairness ==
  \A r \in Conns : /\ WF_vars(Handler(r))
                   /\ WF_vars(Deliver(r))
                   /\ WF_vars(Get(r))

FairSpec == Spec /\ Fairness
-----------------------------------------------------------------------------
(* The body a client shows after answer a to request rq. *)
View(rq, a) ==
  CASE a.status = 304 -> rq.base.body
    [] a.status = 206 -> Glue(rq.base.body, a.copy.body)
    [] OTHER          -> a.copy.body

(* It shows one at all, unless the Range was refused or does not fit. *)
Showable(rq, a) ==
  \/ a.status \in {200, 304, 404}
  \/ a.status = 206 /\ Completes(rq.base, a.copy)

(* The two excuses the code leaves itself: an ETag the user pinned, and    *)
(* file dates (or a pinned Last-Modified) that do not tell versions apart. *)
Excused(rq) ==
  \/ rq.base.etag = PinnedTag
  \/ rq.base.lm # NoDate /\ ~datesHonest

(* FRESH ANSWERS.  Whatever a client shows after a 200, a 304, a 404 or a  *)
(* completed download is a content the file held while the request was in  *)
(* flight: build_file_or_304 never confirms a stored copy that was already *)
(* out of date when the client asked (dispatch.rs, build_file_or_304).     *)
FreshAnswer ==
  \A r \in Conns :
    pc[r] = "answered" /\ Showable(req[r], resp[r]) /\ ~Excused(req[r])
      => View(req[r], resp[r]) \in window[r]

(* NO SPLICE.  A stored copy is never glued together from two versions of  *)
(* the file, although the server ignores If-Range, unless a header rule    *)
(* pins the ETag that a 206 carries.                                       *)
NoSplice == cache.body = Spliced => cache.etag = PinnedTag

(* With ETags the answer is as good as an atomic read of the file between  *)
(* request and answer; the read of the bytes is that moment.               *)
Fresh == INSTANCE FreshRead WITH
  Values <- Bodies,
  Nothing <- Absent,
  phase  <- [r \in Conns |->
               CASE pc[r] = "idle" -> "idle"
                 [] pc[r] \in {"sent", "resolved", "statted"} -> "asked"
                 [] pc[r] \in {"read", "answered"} -> "taken"],
  taken  <- [r \in Conns |-> io[r].bytes]

(* REFINEMENT.  FileServe implements FreshRead: neither the 304 short      *)
(* circuit nor 206 completion is visible to what the client shows.         *)
FreshReads == Fresh!Spec

(* CONVERGENCE.  When the files stop changing every connection ends up     *)
(* showing the final content and keeps showing it, whatever was lost,      *)
(* interrupted or restarted before: no stored copy is confirmed for ever.  *)
Converges ==
  \A v \in Contents \union {Absent}, r \in Conns :
    <>[](content = v) /\ [](cfg.etag \/ datesHonest) => <>[](shown[r] = v)
=============================================================================
