-------------------------- MODULE FileServeProofs --------------------------
(***************************************************************************)
(* Theorems about FileServe, for every set of connections, contents,       *)
(* dates and configurations.                                               *)
(***************************************************************************)
EXTENDS FileServe, TLAPS

(* A handler that has read the lone file of a directory holds its bytes.   *)
ReadHasBytes == \A r \in Conns : pc[r] = "read" => io[r].bytes # Absent

TypeInv == TypeOK /\ ReadHasBytes

LEMMA CopyTypes == NoCopy \in Copies /\ NoRequest \in Requests /\ NotFound \in Responses
BY ContentsAssumption, TimesAssumption
   DEF NoCopy, NoRequest, NotFound, Copies, Bodies, Tags, Dates, NoDate, Requests, Responses

(* What build_file_or_304 returns for a file that was read. *)
LEMMA BuildType ==
  ASSUME NEW k \in Configs, NEW rq \in Requests,
         NEW bytes \in Contents, NEW meta \in Dates
  PROVE  /\ Merged(k, bytes, meta) \in Copies
         /\ build_file_or_304(k, rq, bytes, meta) \in Responses
<1>1. k \in Config
  BY ConfigsAssumption
<1>2. etag_value(k, bytes) \in Tags /\ last_modified_value(k, meta) \in Dates
  BY <1>1 DEF etag_value, last_modified_value, Tags, Dates, Config
<1>3. Overlay(k.tagRule, etag_value(k, bytes), PinnedTag, NoTag) \in Tags
  BY <1>1, <1>2 DEF Overlay, Tags, Config
<1>4. Overlay(k.dateRule, last_modified_value(k, meta), PinnedDate, NoDate) \in Dates
  BY <1>1, <1>2, TimesAssumption DEF Overlay, Dates, Config
<1>5. Merged(k, bytes, meta) \in Copies
  BY <1>3, <1>4 DEF Merged, Copies, Bodies
<1>6. RangeStatus(Size[bytes]) \in {200, 206, 304, 404, 416}
  BY DEF RangeStatus
<1>. QED
  BY <1>5, <1>6, CopyTypes DEF build_file_or_304, Responses

LEMMA CloseType ==
  ASSUME TypeInv, NEW S, Close(S)
  PROVE  /\ pc' \in [Conns -> {"idle", "sent", "resolved", "statted", "read", "answered"}]
         /\ req' \in [Conns -> Requests]
         /\ io' \in [Conns -> [bytes : Contents \union {Absent}, meta : Dates]]
         /\ resp' \in [Conns -> Responses]
         /\ window' \in [Conns -> SUBSET (Contents \union {Absent})]
         /\ ReadHasBytes'
<1>1. NoIo \in [bytes : Contents \union {Absent}, meta : Dates]
  BY DEF NoIo, Dates
<1>. QED
  BY <1>1, CopyTypes DEF TypeInv, TypeOK, Close, ReadHasBytes

LEMMA TypeInit == Init => TypeInv
<1>. SUFFICES ASSUME Init PROVE TypeInv
  OBVIOUS
<1>1. NoIo \in [bytes : Contents \union {Absent}, meta : Dates]
  BY DEF NoIo, Dates
<1>2. faults \in 0..MaxFaults
  BY FaultsAssumption DEF Init
<1>. QED
  BY <1>1, <1>2, CopyTypes DEF Init, TypeInv, TypeOK, ReadHasBytes, Bodies

LEMMA SendType ==
  ASSUME TypeInv, NEW r \in Conns, NEW rq \in Requests, Send(r, rq)
  PROVE  TypeInv'
BY DEF TypeInv, TypeOK, ReadHasBytes, Send, file, client

LEMMA DeliverType ==
  ASSUME TypeInv, NEW r \in Conns, Deliver(r)
  PROVE  TypeInv'
<1>. DEFINE copy  == resp[r].copy
            base  == req[r].base
            whole == [copy EXCEPT !.body = Glue(base.body, copy.body)]
<1>1. copy \in Copies /\ base \in Copies
  BY DEF TypeInv, TypeOK, Responses, Requests
<1>2. Glue(base.body, copy.body) \in Bodies
  BY <1>1 DEF Glue, Copies, Bodies
<1>3. whole \in Copies /\ whole.body \in Bodies
  BY <1>1, <1>2 DEF Copies
<1>4. base.body \in Bodies /\ copy.body \in Bodies
  BY <1>1 DEF Copies
<1>5. cache' \in Copies /\ part' \in Copies /\ shown' \in [Conns -> Bodies]
  <2>. HIDE DEF copy, base, whole
  <2>1. cache \in Copies /\ part \in Copies /\ shown \in [Conns -> Bodies]
    BY DEF TypeInv, TypeOK
  <2>2. /\ cache' \in {cache, copy, whole}
        /\ part' \in {part, NoCopy}
        /\ \E b \in {base.body, copy.body, whole.body} :
             shown' \in {shown, [shown EXCEPT ![r] = b]}
    BY DEF Deliver, copy, base, whole
  <2>. QED
    BY <1>1, <1>3, <1>4, <2>1, <2>2, CopyTypes
<1>6. Close({r})
  BY DEF Deliver
<1>. QED
  BY <1>5, <1>6, CloseType DEF Deliver, TypeInv, TypeOK, file

(* A handler that finishes with a well-formed answer. *)
LEMMA AnswerType ==
  ASSUME TypeInv, NEW r \in Conns, NEW response \in Responses,
         Answer(r, response),
         io' \in [Conns -> [bytes : Contents \union {Absent}, meta : Dates]],
         \A q \in Conns : q # r => io'[q] = io[q],
         UNCHANGED <<file, cfg, req, client, faults, history>>
  PROVE  TypeInv'
<1>1. TypeOK'
  BY DEF TypeInv, TypeOK, Answer, file, client, history
<1>2. ReadHasBytes'
  BY DEF TypeInv, TypeOK, Answer, ReadHasBytes
<1>. QED
  BY <1>1, <1>2 DEF TypeInv

LEMMA HandlerType ==
  ASSUME TypeInv, NEW r \in Conns, Handler(r)
  PROVE  TypeInv'
<1>. DEFINE Ios == [bytes : Contents \union {Absent}, meta : Dates]
<1>1. /\ cfg \in Configs /\ req[r] \in Requests
      /\ content \in Contents \union {Absent}
      /\ io \in [Conns -> Ios]
      /\ pc[r] = "read" => io[r].bytes \in Contents
  BY DEF TypeInv, TypeOK, ReadHasBytes
<1>2. metadata \in Dates
  BY DEF metadata, Dates, TypeInv, TypeOK
<1>3. CASE Resolve(r)
  <2>1. CASE content = Absent
    <3>1. io' \in [Conns -> Ios] /\ (\A q \in Conns : q # r => io'[q] = io[q])
      BY <1>1, <1>3, <2>1 DEF Resolve
    <3>. QED
      BY <1>3, <2>1, <3>1, AnswerType, CopyTypes DEF Resolve
  <2>2. CASE content # Absent
    BY <1>3, <2>2 DEF Resolve, TypeInv, TypeOK, ReadHasBytes, file, client, history
  <2>. QED
    BY <2>1, <2>2
<1>4. CASE StatThenRead(r)
  BY <1>4, <1>2 DEF StatThenRead, TypeInv, TypeOK, ReadHasBytes, file, client, history
<1>5. CASE ReadAfterStat(r)
  <2>1. io' \in [Conns -> Ios] /\ (\A q \in Conns : q # r => io'[q] = io[q])
    BY <1>1, <1>5 DEF ReadAfterStat
  <2>2. content # Absent => build_file_or_304(cfg, req[r], content, io[r].meta) \in Responses
    BY <1>1, BuildType
  <2>3. PICK response \in Responses : Answer(r, response)
    BY <1>5, <2>2, CopyTypes DEF ReadAfterStat
  <2>. QED
    BY <1>5, <2>1, <2>3, AnswerType DEF ReadAfterStat
<1>6. CASE ReadThenStat(r)
  <2>1. io' \in [Conns -> Ios] /\ (\A q \in Conns : q # r => io'[q] = io[q])
    BY <1>1, <1>6 DEF ReadThenStat
  <2>2. CASE content = Absent
    BY <1>6, <2>1, <2>2, AnswerType, CopyTypes DEF ReadThenStat
  <2>3. CASE content # Absent
    <3>1. io'[r].bytes # Absent
      BY <1>1, <1>6, <2>3 DEF ReadThenStat
    <3>. QED
      BY <1>6, <2>1, <2>3, <3>1
         DEF ReadThenStat, TypeInv, TypeOK, ReadHasBytes, file, client, history
  <2>. QED
    BY <2>2, <2>3
<1>7. CASE StatAfterRead(r)
  <2>1. io' \in [Conns -> Ios] /\ (\A q \in Conns : q # r => io'[q] = io[q])
    BY <1>1, <1>2, <1>7 DEF StatAfterRead
  <2>2. build_file_or_304(cfg, req[r], io[r].bytes, metadata) \in Responses
    BY <1>1, <1>2, <1>7, BuildType DEF StatAfterRead
  <2>. QED
    BY <1>7, <2>1, <2>2, AnswerType DEF StatAfterRead
<1>. QED
  BY <1>3, <1>4, <1>5, <1>6, <1>7 DEF Handler

LEMMA TypeStep == TypeInv /\ [Next]_vars => TypeInv'
<1>. SUFFICES ASSUME TypeInv, [Next]_vars PROVE TypeInv'
  OBVIOUS
<1>1. ASSUME NEW v \in Contents, NEW m \in Times, Modify(v, m) PROVE TypeInv'
  BY <1>1 DEF Modify, Witness, TypeInv, TypeOK, ReadHasBytes, client
<1>2. CASE Remove
  BY <1>2 DEF Remove, Witness, TypeInv, TypeOK, ReadHasBytes, client
<1>3. ASSUME NEW r \in Conns, Get(r) PROVE TypeInv'
  <2>. PICK base \in {cache, NoCopy} : Send(r, [kind |-> "get", base |-> base])
    BY <1>3 DEF Get
  <2>1. [kind |-> "get", base |-> base] \in Requests
    BY CopyTypes DEF Requests, TypeInv, TypeOK
  <2>. QED
    BY <2>1, SendType
<1>4. ASSUME NEW r \in Conns, Resume(r) PROVE TypeInv'
  <2>1. [kind |-> "resume", base |-> part] \in Requests
    BY DEF Requests, TypeInv, TypeOK
  <2>. QED
    BY <1>4, <2>1, SendType DEF Resume
<1>5. ASSUME NEW r \in Conns, Deliver(r) PROVE TypeInv'
  BY <1>5, DeliverType
<1>6. ASSUME NEW r \in Conns, Lose(r) PROVE TypeInv'
  <2>1. faults' \in 0..MaxFaults
    BY <1>6, FaultsAssumption DEF Lose, TypeInv, TypeOK
  <2>. QED
    BY <1>6, <2>1, CloseType DEF Lose, TypeInv, TypeOK, file, client
<1>7. ASSUME NEW r \in Conns, Interrupt(r) PROVE TypeInv'
  <2>1. faults' \in 0..MaxFaults
    BY <1>7, FaultsAssumption DEF Interrupt, TypeInv, TypeOK
  <2>2. part' \in Copies
    BY <1>7 DEF Interrupt, TypeInv, TypeOK, Responses
  <2>. QED
    BY <1>7, <2>1, <2>2, CloseType DEF Interrupt, TypeInv, TypeOK, file
<1>8. ASSUME NEW r \in Conns, Handler(r) PROVE TypeInv'
  BY <1>8, HandlerType
<1>9. ASSUME NEW k \in Configs, Restart(k) PROVE TypeInv'
  <2>1. faults' \in 0..MaxFaults
    BY <1>9, FaultsAssumption DEF Restart, TypeInv, TypeOK
  <2>. QED
    BY <1>9, <2>1, CloseType DEF Restart, TypeInv, TypeOK, file, client
<1>10. CASE UNCHANGED vars
  BY <1>10 DEF vars, TypeInv, TypeOK, ReadHasBytes
<1>. QED
  BY <1>1, <1>2, <1>3, <1>4, <1>5, <1>6, <1>7, <1>8, <1>9, <1>10 DEF Next

(* TYPE CORRECTNESS.  The state of the handlers, of the client and of the  *)
(* file stays well-formed; in particular build_file_or_304 is only ever    *)
(* given bytes that were read.                                             *)
THEOREM TypeCorrect == Spec => []TypeOK
<1>1. Init => TypeInv
  BY TypeInit
<1>2. TypeInv /\ [Next]_vars => TypeInv'
  BY TypeStep
<1>3. TypeInv => TypeOK
  BY DEF TypeInv
<1>. QED
  BY <1>1, <1>2, <1>3, PTL DEF Spec
-----------------------------------------------------------------------------
(***************************************************************************)
(* FreshAnswer is not inductive.  What makes it hold is a relation between *)
(* every copy in the system -- stored, being asked about, or on its way -- *)
(* and the file: a digest names the body it came with, and a date names    *)
(* the body unless the file has moved on to a later date.                  *)
(***************************************************************************)
TagOK(e) == e.etag.by = "sha1" => e.body = e.etag.of

DateOK(e) ==
  datesHonest /\ e.lm # NoDate /\ e.etag # PinnedTag =>
    /\ e.lm <= mtime
    /\ e.lm = mtime /\ content # Absent => e.body = content

TagsOK ==
  /\ TagOK(cache) /\ TagOK(part)
  /\ \A r \in Conns : TagOK(req[r].base) /\ TagOK(resp[r].copy)

DatesOK ==
  /\ DateOK(cache) /\ DateOK(part)
  /\ \A r \in Conns : DateOK(req[r].base) /\ DateOK(resp[r].copy)

(* Between its stat and its read a File-arm handler will confirm the copy  *)
(* it was asked about only if that copy was current when it stat'ed.       *)
StatOK ==
  \A r \in Conns :
    pc[r] = "statted" /\ datesHonest /\ io[r].meta # NoDate =>
      /\ io[r].meta <= mtime
      /\ LET e == req[r].base
         IN  e.lm # NoDate /\ e.lm >= io[r].meta /\ e.etag # PinnedTag
               => e.body \in window[r]

WindowOK ==
  \A r \in Conns :
    /\ pc[r] # "idle" => content \in window[r]
    /\ pc[r] = "read" => io[r].bytes \in window[r] /\ cfg.route = "single"

PinsOK == cfg.dateRule = "pin" => ~datesHonest

(* No stored or travelling copy is glued from two versions under a digest. *)
SpliceOK ==
  /\ NoSplice
  /\ part.body # Spliced
  /\ \A r \in Conns : resp[r].copy.body # Spliced

TagInv == TypeInv /\ TagsOK /\ SpliceOK

FreshInv == TagInv /\ DatesOK /\ StatOK /\ WindowOK /\ PinsOK /\ FreshAnswer

(* --no-etag is never combined with renderSingle. *)
DatesFromFileArm == \A k \in Configs : k.route = "single" => k.etag
-----------------------------------------------------------------------------
LEMMA NoCopyOK == TagOK(NoCopy) /\ NoCopy.body # Spliced /\ NoCopy.lm = NoDate
BY ContentsAssumption DEF TagOK, NoCopy, NoTag

(* The merged 200 carries the digest of its own body, or none. *)
LEMMA MergedTag ==
  ASSUME NEW k \in Configs, NEW bytes, NEW meta
  PROVE  LET m == Merged(k, bytes, meta)
         IN  /\ m.body = bytes
             /\ m.etag \in {compute_etag(bytes), PinnedTag, NoTag}
             /\ TagOK(m)
<1>1. k \in Config
  BY ConfigsAssumption
<1>2. Overlay(k.tagRule, etag_value(k, bytes), PinnedTag, NoTag)
        \in {compute_etag(bytes), PinnedTag, NoTag}
  BY <1>1 DEF Config, Overlay, etag_value
<1>. QED
  BY <1>2 DEF Merged, TagOK, compute_etag, PinnedTag, NoTag

(* Every answer of build_file_or_304 carries the merged 200 or nothing. *)
LEMMA BuildCopy ==
  ASSUME NEW k \in Configs, NEW rq, NEW bytes, NEW meta
  PROVE  build_file_or_304(k, rq, bytes, meta).copy \in {NoCopy, Merged(k, bytes, meta)}
BY DEF build_file_or_304

(* A completed download is under the digest of both its parts. *)
LEMMA GlueOK ==
  ASSUME NEW base \in Copies, NEW copy \in Copies,
         TagOK(base), TagOK(copy), Completes(base, copy), copy.etag # PinnedTag
  PROVE  base.body = copy.body /\ Glue(base.body, copy.body) = copy.body
<1>1. PICK c \in Contents : copy.etag = compute_etag(c) /\ base.etag = compute_etag(c)
  BY DEF Copies, Tags, Completes
<1>. QED
  BY <1>1 DEF TagOK, compute_etag, Glue

LEMMA CloseTag ==
  ASSUME TagsOK, SpliceOK, NEW S, Close(S)
  PROVE  /\ \A r \in Conns : TagOK(req'[r].base) /\ TagOK(resp'[r].copy)
         /\ \A r \in Conns : resp'[r].copy.body # Spliced
<1>1. TagOK(NoRequest.base) /\ TagOK(NotFound.copy) /\ NotFound.copy.body # Spliced
  BY NoCopyOK DEF NoRequest, NotFound
<1>. QED
  BY <1>1 DEF Close, TagsOK, SpliceOK

LEMMA SendTag ==
  ASSUME TagInv, NEW r \in Conns, NEW rq \in Requests, TagOK(rq.base), Send(r, rq)
  PROVE  TagsOK' /\ SpliceOK'
<1>1. \A q \in Conns : TagOK(req'[q].base)
  BY DEF TagInv, TypeInv, TypeOK, TagsOK, Send
<1>. QED
  BY <1>1 DEF TagInv, TagsOK, SpliceOK, NoSplice, TagOK, Send, client

LEMMA DeliverTag ==
  ASSUME TagInv, NEW r \in Conns, Deliver(r)
  PROVE  TagsOK' /\ SpliceOK'
<1>. DEFINE copy  == resp[r].copy
            base  == req[r].base
            whole == [copy EXCEPT !.body = Glue(base.body, copy.body)]
<1>1. /\ copy \in Copies /\ base \in Copies
      /\ TagOK(copy) /\ TagOK(base)
      /\ copy.body # Spliced
      /\ TagOK(cache) /\ TagOK(part)
      /\ part.body # Spliced
      /\ cache.body = Spliced => cache.etag = PinnedTag
  BY DEF TagInv, TypeInv, TypeOK, Responses, Requests, TagsOK, SpliceOK, NoSplice
<1>2. whole.etag = copy.etag /\ whole.body = Glue(base.body, copy.body)
  BY <1>1 DEF Copies
<1>3. Completes(base, copy) => TagOK(whole) /\ (whole.body = Spliced => whole.etag = PinnedTag)
  <2>1. CASE copy.etag = PinnedTag
    BY <1>2, <2>1 DEF TagOK, PinnedTag
  <2>2. CASE copy.etag # PinnedTag
    BY <1>1, <1>2, <2>2, GlueOK DEF TagOK
  <2>. QED
    BY <2>1, <2>2
<1>4. /\ cache' \in {cache, copy} \/ (cache' = whole /\ Completes(base, copy))
      /\ part' \in {part, NoCopy}
  BY DEF Deliver
<1>5. TagOK(cache)' /\ TagOK(part)' /\ NoSplice' /\ part'.body # Spliced
  <2>. HIDE DEF copy, base, whole
  <2>. QED
    BY <1>1, <1>3, <1>4, NoCopyOK DEF TagOK, NoSplice
<1>6. Close({r})
  BY DEF Deliver
<1>. QED
  BY <1>5, <1>6, CloseTag DEF TagInv, TagsOK, SpliceOK, TagOK

LEMMA HandlerTag ==
  ASSUME TagInv, NEW r \in Conns, Handler(r)
  PROVE  TagsOK' /\ SpliceOK'
<1>1. \/ UNCHANGED resp
      \/ \E a : Answer(r, a) /\ TagOK(a.copy) /\ a.copy.body # Spliced
  <2>1. TagOK(NotFound.copy) /\ NotFound.copy.body # Spliced
    BY NoCopyOK DEF NotFound
  <2>2. ASSUME NEW bytes \in Contents, NEW meta
        PROVE  LET a == build_file_or_304(cfg, req[r], bytes, meta)
               IN  TagOK(a.copy) /\ a.copy.body # Spliced
    BY <2>2, BuildCopy, MergedTag, NoCopyOK, ContentsAssumption DEF TagInv, TypeInv, TypeOK
  <2>3. content # Absent => content \in Contents
    BY DEF TagInv, TypeInv, TypeOK
  <2>4. pc[r] = "read" => io[r].bytes \in Contents
    BY DEF TagInv, TypeInv, TypeOK, ReadHasBytes
  <2>5. CASE Resolve(r)
    BY <2>1, <2>5 DEF Resolve
  <2>6. CASE StatThenRead(r)
    BY <2>6 DEF StatThenRead
  <2>7. CASE ReadAfterStat(r)
    BY <2>1, <2>2, <2>3, <2>7 DEF ReadAfterStat
  <2>8. CASE ReadThenStat(r)
    BY <2>1, <2>8 DEF ReadThenStat
  <2>9. CASE StatAfterRead(r)
    BY <2>2, <2>4, <2>9 DEF StatAfterRead
  <2>. QED
    BY <2>5, <2>6, <2>7, <2>8, <2>9 DEF Handler
<1>2. \A q \in Conns : TagOK(resp'[q].copy) /\ resp'[q].copy.body # Spliced
  BY <1>1 DEF TagInv, TypeInv, TypeOK, TagsOK, SpliceOK, Answer
<1>3. UNCHANGED <<req, client>>
  BY DEF Handler, Resolve, StatThenRead, ReadAfterStat, ReadThenStat, StatAfterRead
<1>. QED
  BY <1>2, <1>3 DEF TagInv, TagsOK, SpliceOK, NoSplice, TagOK, client

LEMMA TagStep == TagInv /\ [Next]_vars => TagInv'
<1>. SUFFICES ASSUME TagInv, [Next]_vars PROVE TagsOK' /\ SpliceOK'
  BY TypeStep DEF TagInv
<1>. USE DEF TagInv
<1>1. ASSUME UNCHANGED <<req, resp, client>> PROVE TagsOK' /\ SpliceOK'
  BY <1>1 DEF TagsOK, SpliceOK, NoSplice, TagOK, client
<1>2. ASSUME NEW v \in Contents, NEW m \in Times, Modify(v, m) PROVE TagsOK' /\ SpliceOK'
  BY <1>1, <1>2 DEF Modify
<1>3. CASE Remove
  BY <1>1, <1>3 DEF Remove
<1>4. ASSUME NEW r \in Conns, Get(r) PROVE TagsOK' /\ SpliceOK'
  <2>. PICK base \in {cache, NoCopy} : Send(r, [kind |-> "get", base |-> base])
    BY <1>4 DEF Get
  <2>1. [kind |-> "get", base |-> base] \in Requests /\ TagOK(base)
    BY CopyTypes, NoCopyOK DEF Requests, TypeInv, TypeOK, TagsOK
  <2>. QED
    BY <2>1, SendTag
<1>5. ASSUME NEW r \in Conns, Resume(r) PROVE TagsOK' /\ SpliceOK'
  <2>1. [kind |-> "resume", base |-> part] \in Requests /\ TagOK(part)
    BY DEF Requests, TypeInv, TypeOK, TagsOK
  <2>. QED
    BY <1>5, <2>1, SendTag DEF Resume
<1>6. ASSUME NEW r \in Conns, Deliver(r) PROVE TagsOK' /\ SpliceOK'
  BY <1>6, DeliverTag
<1>7. ASSUME NEW r \in Conns, Lose(r) PROVE TagsOK' /\ SpliceOK'
  BY <1>7, CloseTag DEF Lose, TagsOK, SpliceOK, NoSplice, TagOK, client
<1>8. ASSUME NEW r \in Conns, Interrupt(r) PROVE TagsOK' /\ SpliceOK'
  BY <1>8, CloseTag DEF Interrupt, TagsOK, SpliceOK, NoSplice, TagOK
<1>9. ASSUME NEW r \in Conns, Handler(r) PROVE TagsOK' /\ SpliceOK'
  BY <1>9, HandlerTag
<1>10. ASSUME NEW k \in Configs, Restart(k) PROVE TagsOK' /\ SpliceOK'
  BY <1>10, CloseTag DEF Restart, TagsOK, SpliceOK, NoSplice, TagOK, client
<1>11. CASE UNCHANGED vars
  BY <1>1, <1>11 DEF vars, client
<1>. QED
  BY <1>2, <1>3, <1>4, <1>5, <1>6, <1>7, <1>8, <1>9, <1>10, <1>11 DEF Next

LEMMA TagInit == Init => TagInv
BY TypeInit, NoCopyOK DEF Init, TagInv, TagsOK, SpliceOK, NoSplice, NoRequest, NotFound

(* NO SPLICE, for every configuration: completing an interrupted download  *)
(* under one ETag never mixes two versions of the file, because the ETag   *)
(* is the digest of the whole body even on a 206 (etag.rs, range.rs).      *)
THEOREM NeverSpliced == Spec => []NoSplice
<1>1. TagInv => NoSplice
  BY DEF TagInv, SpliceOK
<1>. QED
  BY <1>1, TagInit, TagStep, PTL DEF Spec
-----------------------------------------------------------------------------
(* Dates.  A write that moves mtime forward moves the file past every date *)
(* a copy can carry.                                                       *)
LEMMA DateMoved ==
  ASSUME TypeInv, NEW e \in Copies, DateOK(e),
         NEW v \in Contents, NEW m \in Times, Modify(v, m)
  PROVE  DateOK(e)'
<1>1. /\ mtime \in Nat /\ m \in Nat
      /\ e.lm # NoDate => e.lm \in Nat
  BY TimesAssumption DEF TypeInv, TypeOK, Copies, Dates
<1>2. mtime' = m /\ (datesHonest' => datesHonest /\ m > mtime)
  BY DEF Modify
<1>. QED
  BY <1>1, <1>2 DEF DateOK

LEMMA NoCopyDate == DateOK(NoCopy) /\ DateOK(NoCopy)'
BY DEF DateOK, NoCopy

(* The answer built from a file that was read is acceptable to the client  *)
(* if its dates are: w stands for the contents seen since it asked.        *)
LEMMA BuildFresh ==
  ASSUME NEW k \in Configs, NEW rq \in Requests, NEW bytes \in Contents,
         NEW meta \in Dates, NEW w, bytes \in w,
         TagOK(rq.base), rq.base.etag # PinnedTag,
         ImsMatches(k, rq.base.lm, Merged(k, bytes, meta)) => rq.base.body \in w,
         Showable(rq, build_file_or_304(k, rq, bytes, meta))
  PROVE  View(rq, build_file_or_304(k, rq, bytes, meta)) \in w
<1>. DEFINE merged == Merged(k, bytes, meta)
            a      == build_file_or_304(k, rq, bytes, meta)
<1>1. /\ merged \in Copies /\ merged.body = bytes /\ TagOK(merged)
      /\ merged.etag \in {compute_etag(bytes), PinnedTag, NoTag}
      /\ rq.base \in Copies
  BY BuildType, MergedTag DEF Requests
<1>2. CASE rq.kind = "resume"
  <2>1. a = [status |-> RangeStatus(Size[bytes]), copy |-> merged]
    BY <1>2 DEF build_file_or_304
  <2>2. CASE a.status = 206
    <3>1. Completes(rq.base, merged)
      BY <2>1, <2>2 DEF Showable
    <3>2. Glue(rq.base.body, merged.body) = bytes
      BY <1>1, <3>1, GlueOK DEF Completes
    <3>. QED
      BY <2>1, <2>2, <3>2 DEF View
  <2>3. CASE a.status # 206
    BY <1>1, <2>1, <2>3 DEF View, RangeStatus
  <2>. QED
    BY <2>2, <2>3
<1>3. CASE rq.kind # "resume" /\ InmMatches(rq.base.etag, merged)
  <2>1. rq.base.etag = compute_etag(bytes)
    BY <1>1, <1>3 DEF InmMatches
  <2>2. rq.base.body = bytes
    BY <2>1 DEF TagOK, compute_etag
  <2>3. a.status = 304
    BY <1>3 DEF build_file_or_304
  <2>. QED
    BY <2>2, <2>3 DEF View
<1>4. CASE rq.kind # "resume" /\ ImsMatches(k, rq.base.lm, merged)
  <2>1. a.status = 304
    BY <1>4 DEF build_file_or_304
  <2>. QED
    BY <1>4, <2>1 DEF View
<1>5. CASE /\ rq.kind # "resume"
           /\ ~InmMatches(rq.base.etag, merged)
           /\ ~ImsMatches(k, rq.base.lm, merged)
  <2>1. a = [status |-> 200, copy |-> merged]
    BY <1>5 DEF build_file_or_304
  <2>. QED
    BY <1>1, <2>1 DEF View
<1>. QED
  BY <1>2, <1>3, <1>4, <1>5

(* A 404 is acceptable when the file was missing at some moment. *)
LEMMA NotFoundFresh == ASSUME NEW rq PROVE View(rq, NotFound) = Absent
BY DEF View, NotFound, NoCopy

(* A connection whose exchange ends makes no claim any more. *)
LEMMA CloseFresh ==
  ASSUME FreshInv, NEW S, Close(S), UNCHANGED file, datesHonest' => datesHonest,
         \A r \in Conns : pc[r] = "read" /\ r \notin S => UNCHANGED cfg
  PROVE  /\ \A r \in Conns : (DateOK(req[r].base) /\ DateOK(resp[r].copy))'
         /\ StatOK' /\ WindowOK' /\ FreshAnswer'
<1>1. \A r \in Conns :
        \/ /\ r \in S /\ pc'[r] = "idle"
           /\ req'[r].base = NoCopy /\ resp'[r].copy = NoCopy
        \/ /\ r \notin S
           /\ pc'[r] = pc[r] /\ req'[r] = req[r] /\ io'[r] = io[r]
           /\ resp'[r] = resp[r] /\ window'[r] = window[r]
  BY DEF Close, NoRequest, NotFound
<1>2. \A r \in Conns : (DateOK(req[r].base) /\ DateOK(resp[r].copy))'
  BY <1>1, NoCopyDate DEF FreshInv, DatesOK, DateOK, file
<1>3. StatOK'
  BY <1>1 DEF FreshInv, StatOK, file
<1>4. WindowOK'
  BY <1>1 DEF FreshInv, WindowOK, file
<1>5. FreshAnswer'
  BY <1>1 DEF FreshInv, FreshAnswer, Excused
<1>. QED
  BY <1>2, <1>3, <1>4, <1>5

LEMMA ModifyFresh ==
  ASSUME FreshInv, NEW v \in Contents, NEW m \in Times, Modify(v, m)
  PROVE  DatesOK' /\ StatOK' /\ WindowOK' /\ PinsOK' /\ FreshAnswer'
<1>1. /\ mtime' = m /\ content' = v
      /\ datesHonest' => datesHonest /\ m > mtime
      /\ UNCHANGED <<cfg, pc, req, io, resp, cache, part>>
      /\ \A r \in Conns : pc[r] # "idle" => window'[r] = window[r] \union {v}
  BY DEF Modify, Witness, client
<1>2. TypeInv /\ mtime \in Nat /\ m \in Nat
  BY TimesAssumption DEF FreshInv, TagInv, TypeInv, TypeOK
<1>3. /\ cache \in Copies /\ part \in Copies
      /\ \A r \in Conns : req[r].base \in Copies /\ resp[r].copy \in Copies
  BY <1>2 DEF TypeInv, TypeOK, Requests, Responses
<1>4. \A e \in Copies : DateOK(e) => DateOK(e)'
  BY <1>2, DateMoved
<1>5. DatesOK'
  BY <1>1, <1>3, <1>4 DEF FreshInv, DatesOK, DateOK
<1>6. StatOK'
  <2>. SUFFICES ASSUME NEW r \in Conns, pc[r] = "statted", datesHonest', io[r].meta # NoDate
                PROVE  /\ io[r].meta <= m
                       /\ LET e == req[r].base
                          IN  e.lm # NoDate /\ e.lm >= io[r].meta /\ e.etag # PinnedTag
                                => e.body \in window'[r]
    BY <1>1 DEF StatOK
  <2>1. io[r].meta \in Nat /\ io[r].meta <= mtime
    BY <1>1, <1>2, TimesAssumption DEF FreshInv, StatOK, TypeInv, TypeOK, Dates
  <2>. QED
    BY <1>1, <1>2, <2>1 DEF FreshInv, StatOK
<1>7. WindowOK'
  BY <1>1 DEF FreshInv, WindowOK
<1>8. PinsOK' /\ FreshAnswer'
  BY <1>1 DEF FreshInv, PinsOK, FreshAnswer, Excused
<1>. QED
  BY <1>5, <1>6, <1>7, <1>8

LEMMA RemoveFresh ==
  ASSUME FreshInv, Remove
  PROVE  DatesOK' /\ StatOK' /\ WindowOK' /\ PinsOK' /\ FreshAnswer'
<1>1. /\ mtime' = mtime /\ content' = Absent
      /\ UNCHANGED <<datesHonest, cfg, pc, req, io, resp, cache, part>>
      /\ \A r \in Conns : pc[r] # "idle" => window'[r] = window[r] \union {Absent}
  BY DEF Remove, Witness, client
<1>2. DatesOK'
  BY <1>1 DEF FreshInv, DatesOK, DateOK
<1>. QED
  BY <1>1, <1>2 DEF FreshInv, StatOK, WindowOK, PinsOK, FreshAnswer, Excused

LEMMA SendFresh ==
  ASSUME FreshInv, NEW r \in Conns, NEW rq \in Requests, DateOK(rq.base), Send(r, rq)
  PROVE  DatesOK' /\ StatOK' /\ WindowOK' /\ PinsOK' /\ FreshAnswer'
<1>1. /\ UNCHANGED <<content, mtime, datesHonest, cfg, io, resp, cache, part>>
      /\ pc'[r] = "sent" /\ req'[r] = rq /\ window'[r] = {content}
      /\ \A q \in Conns : q # r =>
           pc'[q] = pc[q] /\ req'[q] = req[q] /\ window'[q] = window[q]
  BY DEF Send, file, client, FreshInv, TagInv, TypeInv, TypeOK
<1>2. DatesOK'
  BY <1>1 DEF FreshInv, DatesOK, DateOK
<1>3. StatOK' /\ WindowOK'
  BY <1>1 DEF FreshInv, StatOK, WindowOK
<1>. QED
  BY <1>1, <1>2, <1>3 DEF FreshInv, PinsOK, FreshAnswer, Excused

LEMMA DeliverFresh ==
  ASSUME FreshInv, NEW r \in Conns, Deliver(r)
  PROVE  DatesOK' /\ StatOK' /\ WindowOK' /\ PinsOK' /\ FreshAnswer'
<1>. DEFINE copy  == resp[r].copy
            base  == req[r].base
            whole == [copy EXCEPT !.body = Glue(base.body, copy.body)]
<1>1. /\ copy \in Copies /\ base \in Copies
      /\ TagOK(copy) /\ TagOK(base)
      /\ DateOK(copy) /\ DateOK(cache) /\ DateOK(part)
  BY DEF FreshInv, TagInv, TypeInv, TypeOK, Responses, Requests, TagsOK, DatesOK
<1>2. /\ whole.etag = copy.etag /\ whole.lm = copy.lm
      /\ whole.body = Glue(base.body, copy.body)
  BY <1>1 DEF Copies
<1>3. Completes(base, copy) => DateOK(whole)
  <2>1. CASE copy.etag = PinnedTag
    BY <1>2, <2>1 DEF DateOK
  <2>2. CASE copy.etag # PinnedTag
    BY <1>1, <1>2, <2>2, GlueOK DEF DateOK
  <2>. QED
    BY <2>1, <2>2
<1>4. /\ cache' \in {cache, copy} \/ (cache' = whole /\ Completes(base, copy))
      /\ part' \in {part, NoCopy}
      /\ Close({r}) /\ UNCHANGED <<file, cfg, datesHonest>>
  BY DEF Deliver
<1>5. DateOK(cache)' /\ DateOK(part)'
  <2>. HIDE DEF copy, base, whole
  <2>. QED
    BY <1>1, <1>3, <1>4, NoCopyDate DEF DateOK, file
<1>. QED
  BY <1>4, <1>5, CloseFresh DEF FreshInv, DatesOK, PinsOK

(* Answering with a merged copy whose dates are in order keeps everything. *)
LEMMA AnswerFresh ==
  ASSUME FreshInv, NEW r \in Conns, NEW a \in Responses, Answer(r, a),
         DateOK(a.copy),
         Showable(req[r], a) /\ ~Excused(req[r]) => View(req[r], a) \in window[r],
         pc[r] # "idle",
         \A q \in Conns : q # r => io'[q] = io[q],
         UNCHANGED <<file, cfg, req, client, faults, history>>
  PROVE  DatesOK' /\ StatOK' /\ WindowOK' /\ PinsOK' /\ FreshAnswer'
<1>1. /\ UNCHANGED <<content, mtime, cfg, req, cache, part, window, datesHonest>>
      /\ pc'[r] = "answered" /\ resp'[r] = a
      /\ \A q \in Conns : q # r => pc'[q] = pc[q] /\ resp'[q] = resp[q]
  BY DEF Answer, file, client, history, FreshInv, TagInv, TypeInv, TypeOK
<1>2. DatesOK'
  BY <1>1 DEF FreshInv, DatesOK, DateOK
<1>3. StatOK' /\ WindowOK'
  BY <1>1 DEF FreshInv, StatOK, WindowOK
<1>. QED
  BY <1>1, <1>2, <1>3 DEF FreshInv, PinsOK, FreshAnswer, Excused
LEMMA HandlerFresh ==
  ASSUME DatesFromFileArm, FreshInv, NEW r \in Conns, Handler(r)
  PROVE  DatesOK' /\ StatOK' /\ WindowOK' /\ PinsOK' /\ FreshAnswer'
<1>. DEFINE base == req[r].base
<1>0. /\ cfg \in Configs /\ cfg \in Config
      /\ req[r] \in Requests /\ base \in Copies /\ io[r].meta \in Dates
      /\ TagOK(base) /\ DateOK(base)
      /\ content # Absent => content \in Contents
      /\ pc[r] = "read" => io[r].bytes \in Contents
      /\ mtime \in Nat /\ mtime # NoDate
      /\ metadata \in Dates
  BY ConfigsAssumption, TimesAssumption
     DEF FreshInv, TagInv, TypeInv, TypeOK, ReadHasBytes, TagsOK, DatesOK, Requests,
         NoDate, metadata, Dates
<1>1. \A b, d : Merged(cfg, b, d).lm # NoDate /\ datesHonest =>
                 ~cfg.etag /\ Merged(cfg, b, d).lm = d
  BY <1>0 DEF FreshInv, PinsOK, Merged, Overlay, last_modified_value, Config
<1>2. \A b \in Contents, d \in Dates :
        build_file_or_304(cfg, req[r], b, d) \in Responses
  BY <1>0, BuildType
<1>3. DateOK(NotFound.copy) /\ NotFound \in Responses
  BY NoCopyDate, CopyTypes DEF NotFound
<1>4. CASE Resolve(r)
  <2>1. CASE content = Absent
    <3>1. View(req[r], NotFound) \in window[r]
      BY <1>4, <2>1, NotFoundFresh DEF Resolve, FreshInv, WindowOK
    <3>2. /\ Answer(r, NotFound) /\ pc[r] # "idle"
          /\ \A q \in Conns : q # r => io'[q] = io[q]
          /\ UNCHANGED <<file, cfg, req, client, faults, history>>
      BY <1>4, <2>1 DEF Resolve, FreshInv, TagInv, TypeInv, TypeOK
    <3>. QED
      BY <1>3, <3>1, <3>2, AnswerFresh
  <2>2. CASE content # Absent
    <3>1. /\ UNCHANGED <<content, mtime, cfg, req, io, resp, cache, part, window, datesHonest>>
          /\ pc[r] = "sent" /\ pc'[r] = "resolved"
          /\ \A q \in Conns : q # r => pc'[q] = pc[q]
      BY <1>4, <2>2 DEF Resolve, file, client, history, FreshInv, TagInv, TypeInv, TypeOK
    <3>. QED
      BY <3>1 DEF FreshInv, DatesOK, DateOK, StatOK, WindowOK, PinsOK, FreshAnswer, Excused
  <2>. QED
    BY <2>1, <2>2
<1>5. CASE StatThenRead(r)
  <2>1. /\ UNCHANGED <<content, mtime, cfg, req, resp, cache, part, window, datesHonest>>
        /\ pc[r] = "resolved" /\ pc'[r] = "statted" /\ io'[r].meta = metadata
        /\ \A q \in Conns : q # r => pc'[q] = pc[q] /\ io'[q] = io[q]
    BY <1>5 DEF StatThenRead, file, client, history, FreshInv, TagInv, TypeInv, TypeOK
  <2>2. datesHonest /\ metadata # NoDate =>
          /\ metadata <= mtime
          /\ base.lm # NoDate /\ base.lm >= metadata /\ base.etag # PinnedTag
               => base.body \in window[r]
    <3>. SUFFICES ASSUME datesHonest, metadata # NoDate
                  PROVE  /\ metadata <= mtime
                         /\ base.lm # NoDate /\ base.lm >= metadata /\ base.etag # PinnedTag
                              => base.body \in window[r]
      OBVIOUS
    <3>1. content # Absent /\ metadata = mtime
      BY DEF metadata
    <3>2. content \in window[r]
      BY <2>1 DEF FreshInv, WindowOK
    <3>3. base.lm # NoDate => base.lm \in Nat
      BY <1>0, TimesAssumption DEF Copies, Dates
    <3>. QED
      BY <1>0, <3>1, <3>2, <3>3 DEF DateOK
  <2>3. StatOK'
    BY <2>1, <2>2 DEF FreshInv, StatOK
  <2>. QED
    BY <2>1, <2>3 DEF FreshInv, DatesOK, DateOK, WindowOK, PinsOK, FreshAnswer, Excused
<1>6. CASE ReadAfterStat(r)
  <2>. DEFINE a == build_file_or_304(cfg, req[r], content, io[r].meta)
              m == Merged(cfg, content, io[r].meta)
  <2>1. /\ pc[r] = "statted"
        /\ \A q \in Conns : q # r => io'[q] = io[q]
        /\ UNCHANGED <<file, cfg, req, client, faults, history>>
        /\ content \in window[r]
    BY <1>6 DEF ReadAfterStat, FreshInv, WindowOK, TagInv, TypeInv, TypeOK
  <2>2. CASE content = Absent
    <3>1. Answer(r, NotFound)
      BY <1>6, <2>2 DEF ReadAfterStat
    <3>2. View(req[r], NotFound) \in window[r]
      BY <2>1, <2>2, NotFoundFresh
    <3>. QED
      BY <1>3, <2>1, <3>1, <3>2, AnswerFresh
  <2>3. CASE content # Absent
    <3>1. Answer(r, a) /\ a \in Responses
      BY <1>0, <1>2, <1>6, <2>3 DEF ReadAfterStat
    <3>2. DateOK(m)
      <4>. SUFFICES ASSUME datesHonest, m.lm # NoDate
                    PROVE  m.lm <= mtime /\ m.body = content
        BY DEF DateOK
      <4>1. m.lm = io[r].meta
        BY <1>1
      <4>. QED
        BY <2>1, <4>1 DEF FreshInv, StatOK, Merged
    <3>3. DateOK(a.copy)
      BY <1>0, <3>2, BuildCopy, NoCopyDate
    <3>4. ~Excused(req[r]) /\ ImsMatches(cfg, base.lm, m) => base.body \in window[r]
      BY <1>1, <2>1 DEF ImsMatches, Excused, FreshInv, StatOK
    <3>5. Showable(req[r], a) /\ ~Excused(req[r]) => View(req[r], a) \in window[r]
      BY <1>0, <2>1, <2>3, <3>4, BuildFresh DEF Excused
    <3>. QED
      BY <2>1, <3>1, <3>3, <3>5, AnswerFresh
  <2>. QED
    BY <2>2, <2>3
<1>7. CASE ReadThenStat(r)
  <2>1. /\ pc[r] = "resolved" /\ cfg.route = "single"
        /\ io'[r].bytes = content
        /\ \A q \in Conns : q # r => io'[q] = io[q]
        /\ UNCHANGED <<file, cfg, req, client, faults, history>>
        /\ content \in window[r]
    BY <1>7 DEF ReadThenStat, FreshInv, WindowOK, TagInv, TypeInv, TypeOK
  <2>2. CASE content = Absent
    <3>1. Answer(r, NotFound)
      BY <1>7, <2>2 DEF ReadThenStat
    <3>2. View(req[r], NotFound) \in window[r]
      BY <2>1, <2>2, NotFoundFresh
    <3>. QED
      BY <1>3, <2>1, <3>1, <3>2, AnswerFresh
  <2>3. CASE content # Absent
    <3>1. /\ UNCHANGED <<content, mtime, cfg, req, resp, cache, part, window, datesHonest>>
          /\ pc'[r] = "read"
          /\ \A q \in Conns : q # r => pc'[q] = pc[q]
      BY <1>7, <2>1, <2>3
         DEF ReadThenStat, file, client, history, FreshInv, TagInv, TypeInv, TypeOK
    <3>. QED
      BY <2>1, <3>1 DEF FreshInv, DatesOK, DateOK, StatOK, WindowOK, PinsOK, FreshAnswer, Excused
  <2>. QED
    BY <2>2, <2>3
<1>8. CASE StatAfterRead(r)
  <2>. DEFINE a == build_file_or_304(cfg, req[r], io[r].bytes, metadata)
              m == Merged(cfg, io[r].bytes, metadata)
  <2>1. /\ pc[r] = "read" /\ Answer(r, a)
        /\ \A q \in Conns : q # r => io'[q] = io[q]
        /\ UNCHANGED <<file, cfg, req, client, faults, history>>
        /\ io[r].bytes \in window[r]
        /\ cfg.etag
    BY <1>0, <1>8 DEF StatAfterRead, DatesFromFileArm, FreshInv, WindowOK, TagInv, TypeInv, TypeOK
  <2>2. DateOK(m)
    BY <1>1, <2>1 DEF DateOK
  <2>3. DateOK(a.copy) /\ a \in Responses
    BY <1>0, <1>2, <2>1, <2>2, BuildCopy, NoCopyDate
  <2>4. Showable(req[r], a) /\ ~Excused(req[r]) => View(req[r], a) \in window[r]
    BY <1>0, <2>1, BuildFresh DEF Excused, ImsMatches
  <2>. QED
    BY <2>1, <2>3, <2>4, AnswerFresh
<1>. QED
  BY <1>4, <1>5, <1>6, <1>7, <1>8 DEF Handler

LEMMA FreshInit == Init => FreshInv
<1>. SUFFICES ASSUME Init PROVE FreshInv
  OBVIOUS
<1>1. DatesOK
  BY NoCopyDate DEF Init, DatesOK, NoRequest, NotFound
<1>. QED
  BY <1>1, TagInit DEF Init, FreshInv, StatOK, WindowOK, PinsOK, FreshAnswer

LEMMA FreshStep == DatesFromFileArm /\ FreshInv /\ [Next]_vars => FreshInv'
<1>. DEFINE Good == DatesOK /\ StatOK /\ WindowOK /\ PinsOK /\ FreshAnswer
<1>. SUFFICES ASSUME DatesFromFileArm, FreshInv, [Next]_vars PROVE Good'
  BY TagStep DEF FreshInv
<1>1. ASSUME NEW v \in Contents, NEW m \in Times, Modify(v, m) PROVE Good'
  BY <1>1, ModifyFresh
<1>2. CASE Remove
  BY <1>2, RemoveFresh
<1>3. ASSUME NEW r \in Conns, Get(r) PROVE Good'
  <2>. PICK base \in {cache, NoCopy} : Send(r, [kind |-> "get", base |-> base])
    BY <1>3 DEF Get
  <2>1. [kind |-> "get", base |-> base] \in Requests /\ DateOK(base)
    BY CopyTypes, NoCopyDate DEF Requests, FreshInv, TagInv, TypeInv, TypeOK, DatesOK
  <2>. QED
    BY <2>1, SendFresh
<1>4. ASSUME NEW r \in Conns, Resume(r) PROVE Good'
  <2>1. [kind |-> "resume", base |-> part] \in Requests /\ DateOK(part)
    BY DEF Requests, FreshInv, TagInv, TypeInv, TypeOK, DatesOK
  <2>. QED
    BY <1>4, <2>1, SendFresh DEF Resume
<1>5. ASSUME NEW r \in Conns, Deliver(r) PROVE Good'
  BY <1>5, DeliverFresh
<1>6. ASSUME NEW r \in Conns, Lose(r) PROVE Good'
  <2>1. Close({r}) /\ UNCHANGED <<file, cfg, datesHonest, cache, part>>
    BY <1>6 DEF Lose, client
  <2>. QED
    BY <2>1, CloseFresh DEF FreshInv, DatesOK, DateOK, PinsOK, file
<1>7. ASSUME NEW r \in Conns, Interrupt(r) PROVE Good'
  <2>1. Close({r}) /\ part' = resp[r].copy /\ UNCHANGED <<file, cfg, datesHonest, cache>>
    BY <1>7 DEF Interrupt
  <2>. QED
    BY <2>1, CloseFresh DEF FreshInv, DatesOK, DateOK, PinsOK, file
<1>8. ASSUME NEW r \in Conns, Handler(r) PROVE Good'
  BY <1>8, HandlerFresh
<1>9. ASSUME NEW k \in Configs, Restart(k) PROVE Good'
  <2>. DEFINE S == {r \in Conns : pc[r] # "answered"}
  <2>1. /\ Close(S) /\ cfg' = k /\ UNCHANGED <<file, cache, part>>
        /\ datesHonest' => datesHonest /\ k.dateRule # "pin"
        /\ \A r \in Conns : pc[r] = "read" => r \in S
    BY <1>9 DEF Restart, client
  <2>2. PinsOK'
    BY <2>1 DEF PinsOK
  <2>3. DateOK(cache)' /\ DateOK(part)'
    BY <2>1 DEF FreshInv, DatesOK, DateOK, file
  <2>. QED
    BY <2>1, <2>2, <2>3, CloseFresh DEF DatesOK
<1>10. CASE UNCHANGED vars
  BY <1>10 DEF vars, FreshInv, DatesOK, DateOK, StatOK, WindowOK, PinsOK, FreshAnswer, Excused
<1>. QED
  BY <1>1, <1>2, <1>3, <1>4, <1>5, <1>6, <1>7, <1>8, <1>9, <1>10 DEF Next

(* FRESH ANSWERS.  Unless --no-etag is combined with renderSingle, no      *)
(* answer makes a client show a content the file did not hold while the    *)
(* request was in flight: for any number of connections and versions, any  *)
(* header rules, restarts and lost connections (dispatch.rs,               *)
(* build_file_or_304 and the File/Index arm).                              *)
THEOREM FreshAnswers ==
  ASSUME DatesFromFileArm
  PROVE  Spec => []FreshAnswer
<1>1. FreshInv => FreshAnswer
  BY DEF FreshInv
<1>2. FreshInv /\ [Next]_vars => FreshInv'
  BY FreshStep
<1>. QED
  BY <1>1, <1>2, FreshInit, PTL DEF Spec
=============================================================================
