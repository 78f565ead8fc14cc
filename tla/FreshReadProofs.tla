-------------------------- MODULE FreshReadProofs --------------------------
(***************************************************************************)
(* FileServe with ETags implements FreshRead, for every set of             *)
(* connections, contents, sizes and dates: an answer shows the client what *)
(* one atomic read of the file between request and answer would.           *)
(***************************************************************************)
EXTENDS FileServeProofs

(* ETags are on and no header rule pins them.                              *)
TagsTrusted == \A k \in Configs : k.etag /\ k.tagRule # "pin"

(* The refinement mapping of Fresh.                                        *)
PhaseAt(place) == CASE place = "idle" -> "idle"
                    [] place \in {"sent", "resolved", "statted"} -> "asked"
                    [] place \in {"read", "answered"} -> "taken"
Phase == [r \in Conns |-> PhaseAt(pc[r])]
Taken == [r \in Conns |-> io[r].bytes]

NoPins ==
  /\ cache.etag # PinnedTag /\ part.etag # PinnedTag
  /\ \A r \in Conns : req[r].base.etag # PinnedTag /\ resp[r].copy.etag # PinnedTag

(* An answer shows the bytes its handler read, be it a 200, a 304 or the   *)
(* rest of a download.                                                     *)
Shows(rq, a, bytes) == Showable(rq, a) => View(rq, a) = bytes

ShowsRead == \A r \in Conns : pc[r] = "answered" => Shows(req[r], resp[r], io[r].bytes)

AtomicInv == TagInv /\ NoPins /\ ShowsRead
-----------------------------------------------------------------------------
LEMMA NoCopyPin == NoCopy.etag # PinnedTag /\ NoRequest.base = NoCopy /\ NotFound.copy = NoCopy
BY DEF NoCopy, NoTag, PinnedTag, NoRequest, NotFound

LEMMA NotFoundShows == ASSUME NEW rq PROVE Shows(rq, NotFound, Absent)
BY DEF Shows, View, NotFound, NoCopy

(* build_file_or_304 confirms a copy, or cuts a range, only under the      *)
(* digest of what was read.                                                *)
LEMMA BuildShows ==
  ASSUME TagsTrusted, NEW k \in Configs, NEW rq \in Requests, NEW bytes \in Contents,
         NEW meta \in Dates, TagOK(rq.base), rq.base.etag # PinnedTag
  PROVE  LET a == build_file_or_304(k, rq, bytes, meta)
         IN  a.copy.etag # PinnedTag /\ Shows(rq, a, bytes)
<1>. DEFINE m == Merged(k, bytes, meta)
            a == build_file_or_304(k, rq, bytes, meta)
<1>1. k \in Config /\ k.etag /\ k.tagRule \in {"keep", "drop"}
  BY ConfigsAssumption DEF TagsTrusted, Config
<1>2. m.body = bytes /\ m.etag \in {compute_etag(bytes), NoTag}
  BY <1>1 DEF Merged, Overlay, etag_value
<1>3. m \in Copies /\ rq.base \in Copies
  BY BuildType DEF Requests
<1>4. m.etag # PinnedTag
  BY <1>2 DEF compute_etag, PinnedTag, NoTag
<1>5. rq.base.etag = m.etag /\ m.etag # NoTag => rq.base.body = bytes
  BY <1>2 DEF TagOK, compute_etag
<1>6. CASE rq.kind = "resume"
  <2>1. a.copy = m /\ a.status \in {200, 206, 416}
    BY <1>6 DEF build_file_or_304, RangeStatus
  <2>2. a.status = 206 /\ Completes(rq.base, m) => View(rq, a) = bytes
    BY <1>2, <1>5, <2>1 DEF Completes, View, Glue
  <2>. QED
    BY <1>2, <1>4, <2>1, <2>2 DEF Shows, Showable, View
<1>7. CASE rq.kind # "resume"
  <2>1. CASE InmMatches(rq.base.etag, m)
    <3>1. a.status = 304 /\ a.copy = NoCopy
      BY <1>7, <2>1 DEF build_file_or_304
    <3>. QED
      BY <1>5, <2>1, <3>1, NoCopyPin DEF Shows, View, InmMatches
  <2>2. CASE ~InmMatches(rq.base.etag, m)
    <3>1. a.status = 200 /\ a.copy = m
      BY <1>1, <1>7, <2>2 DEF build_file_or_304, ImsMatches
    <3>. QED
      BY <1>2, <1>4, <3>1 DEF Shows, View
  <2>. QED
    BY <2>1, <2>2
<1>. QED
  BY <1>6, <1>7

LEMMA CloseAtomic ==
  ASSUME AtomicInv, NEW S, Close(S)
  PROVE  /\ \A r \in Conns : req'[r].base.etag # PinnedTag /\ resp'[r].copy.etag # PinnedTag
         /\ ShowsRead'
<1>1. \A r \in Conns : req'[r].base.etag # PinnedTag /\ resp'[r].copy.etag # PinnedTag
  BY NoCopyPin DEF Close, AtomicInv, NoPins
<1>2. ASSUME NEW r \in Conns, pc'[r] = "answered"
      PROVE  Shows(req'[r], resp'[r], io'[r].bytes)
  <2>1. r \notin S /\ pc[r] = "answered"
    BY <1>2 DEF Close
  <2>2. req'[r] = req[r] /\ resp'[r] = resp[r] /\ io'[r] = io[r]
    BY <2>1 DEF Close
  <2>. QED
    BY <2>1, <2>2 DEF AtomicInv, ShowsRead
<1>. QED
  BY <1>1, <1>2 DEF ShowsRead

LEMMA SendAtomic ==
  ASSUME AtomicInv, NEW r \in Conns, NEW rq \in Requests, rq.base.etag # PinnedTag, Send(r, rq)
  PROVE  NoPins' /\ ShowsRead'
<1>1. NoPins'
  BY DEF AtomicInv, NoPins, TagInv, TypeInv, TypeOK, Send, client
<1>2. ASSUME NEW q \in Conns, pc'[q] = "answered"
      PROVE  Shows(req'[q], resp'[q], io'[q].bytes)
  <2>1. q # r /\ pc[q] = "answered" /\ req'[q] = req[q]
    BY <1>2 DEF AtomicInv, TagInv, TypeInv, TypeOK, Send
  <2>. QED
    BY <2>1 DEF AtomicInv, ShowsRead, Send
<1>. QED
  BY <1>1, <1>2 DEF ShowsRead

LEMMA DeliverAtomic ==
  ASSUME AtomicInv, NEW r \in Conns, Deliver(r)
  PROVE  NoPins' /\ ShowsRead'
<1>. DEFINE copy  == resp[r].copy
            base  == req[r].base
            whole == [copy EXCEPT !.body = Glue(base.body, copy.body)]
<1>1. /\ copy \in Copies /\ copy.etag # PinnedTag
      /\ cache.etag # PinnedTag /\ part.etag # PinnedTag
  BY DEF AtomicInv, NoPins, TagInv, TypeInv, TypeOK, Responses
<1>2. whole.etag = copy.etag
  BY <1>1 DEF Copies
<1>3. cache' \in {cache, copy, whole} /\ part' \in {part, NoCopy}
  BY DEF Deliver
<1>4. Close({r})
  BY DEF Deliver
<1>5. cache'.etag # PinnedTag /\ part'.etag # PinnedTag
  <2>. HIDE DEF copy, base, whole
  <2>. QED
    BY <1>1, <1>2, <1>3, NoCopyPin
<1>. QED
  BY <1>4, <1>5, CloseAtomic DEF NoPins

(* A handler that does not answer, or answers with what it read. *)
LEMMA AnswerAtomic ==
  ASSUME AtomicInv, NEW r \in Conns, NEW a \in Responses, Answer(r, a),
         a.copy.etag # PinnedTag, Shows(req[r], a, io'[r].bytes),
         \A q \in Conns : q # r => io'[q] = io[q], UNCHANGED <<req, client>>
  PROVE  NoPins' /\ ShowsRead'
<1>1. /\ resp'[r] = a
      /\ \A q \in Conns : q # r => resp'[q] = resp[q] /\ pc'[q] = pc[q]
  BY DEF AtomicInv, TagInv, TypeInv, TypeOK, Answer
<1>2. NoPins'
  BY <1>1 DEF AtomicInv, NoPins, client
<1>3. ShowsRead'
  BY <1>1 DEF AtomicInv, ShowsRead
<1>. QED
  BY <1>2, <1>3

LEMMA HandlerAtomic ==
  ASSUME TagsTrusted, AtomicInv, NEW r \in Conns, Handler(r)
  PROVE  NoPins' /\ ShowsRead'
<1>1. /\ cfg \in Configs /\ req[r] \in Requests /\ content \in Contents \union {Absent}
      /\ io \in [Conns -> [bytes : Contents \union {Absent}, meta : Dates]]
      /\ pc \in [Conns -> {"idle", "sent", "resolved", "statted", "read", "answered"}]
      /\ pc[r] = "read" => io[r].bytes \in Contents
  BY DEF AtomicInv, TagInv, TypeInv, TypeOK, ReadHasBytes
<1>2. TagOK(req[r].base) /\ req[r].base.etag # PinnedTag
  BY DEF AtomicInv, TagInv, TagsOK, NoPins
<1>3. metadata \in Dates /\ io[r].meta \in Dates
  BY <1>1 DEF metadata, Dates, AtomicInv, TagInv, TypeInv, TypeOK
<1>4. NotFound \in Responses /\ NotFound.copy.etag # PinnedTag /\ Shows(req[r], NotFound, Absent)
  BY CopyTypes, NoCopyPin, NotFoundShows
<1>5. ASSUME NEW bytes \in Contents, NEW meta \in Dates
      PROVE  LET a == build_file_or_304(cfg, req[r], bytes, meta)
             IN  a \in Responses /\ a.copy.etag # PinnedTag /\ Shows(req[r], a, bytes)
  BY <1>1, <1>2, BuildShows, BuildType
<1>6. CASE Resolve(r) /\ content = Absent
  <2>1. io'[r].bytes = Absent /\ \A q \in Conns : q # r => io'[q] = io[q]
    BY <1>1, <1>6 DEF Resolve
  <2>. QED
    BY <1>4, <1>6, <2>1, AnswerAtomic DEF Resolve
<1>7. CASE (Resolve(r) /\ content # Absent) \/ StatThenRead(r)
  <2>1. /\ UNCHANGED <<req, resp, client>>
        /\ \A q \in Conns : pc'[q] = "answered" => pc[q] = "answered" /\ io'[q].bytes = io[q].bytes
    BY <1>1, <1>7 DEF Resolve, StatThenRead
  <2>. QED
    BY <2>1 DEF AtomicInv, NoPins, ShowsRead, client
<1>8. CASE ReadAfterStat(r)
  <2>1. io'[r].bytes = content /\ \A q \in Conns : q # r => io'[q] = io[q]
    BY <1>1, <1>8 DEF ReadAfterStat
  <2>2. CASE content = Absent
    BY <1>4, <1>8, <2>1, <2>2, AnswerAtomic DEF ReadAfterStat
  <2>3. CASE content # Absent
    BY <1>1, <1>3, <1>5, <1>8, <2>1, <2>3, AnswerAtomic DEF ReadAfterStat
  <2>. QED
    BY <2>2, <2>3
<1>9. CASE ReadThenStat(r)
  <2>1. io'[r].bytes = content /\ \A q \in Conns : q # r => io'[q] = io[q]
    BY <1>1, <1>9 DEF ReadThenStat
  <2>2. CASE content = Absent
    BY <1>4, <1>9, <2>1, <2>2, AnswerAtomic DEF ReadThenStat
  <2>3. CASE content # Absent
    <3>1. /\ UNCHANGED <<req, resp, client>>
          /\ \A q \in Conns : pc'[q] = "answered" => pc[q] = "answered" /\ io'[q] = io[q]
      BY <1>1, <1>9, <2>1, <2>3 DEF ReadThenStat
    <3>. QED
      BY <3>1 DEF AtomicInv, NoPins, ShowsRead, client
  <2>. QED
    BY <2>2, <2>3
<1>10. CASE StatAfterRead(r)
  <2>1. io'[r].bytes = io[r].bytes /\ \A q \in Conns : q # r => io'[q] = io[q]
    BY <1>1, <1>10 DEF StatAfterRead
  <2>. QED
    BY <1>1, <1>3, <1>5, <1>10, <2>1, AnswerAtomic DEF StatAfterRead
<1>. QED
  BY <1>6, <1>7, <1>8, <1>9, <1>10 DEF Handler

LEMMA AtomicStep == TagsTrusted /\ AtomicInv /\ [Next]_vars => AtomicInv'
<1>. SUFFICES ASSUME TagsTrusted, AtomicInv, [Next]_vars PROVE NoPins' /\ ShowsRead'
  BY TagStep DEF AtomicInv
<1>. USE DEF AtomicInv
<1>1. ASSUME UNCHANGED <<pc, req, resp, io, client>> PROVE NoPins' /\ ShowsRead'
  BY <1>1 DEF NoPins, ShowsRead, client
<1>2. ASSUME NEW v \in Contents, NEW m \in Times, Modify(v, m) PROVE NoPins' /\ ShowsRead'
  BY <1>1, <1>2 DEF Modify
<1>3. CASE Remove
  BY <1>1, <1>3 DEF Remove
<1>4. ASSUME NEW r \in Conns, Get(r) PROVE NoPins' /\ ShowsRead'
  <2>. PICK base \in {cache, NoCopy} : Send(r, [kind |-> "get", base |-> base])
    BY <1>4 DEF Get
  <2>1. [kind |-> "get", base |-> base] \in Requests /\ base.etag # PinnedTag
    BY CopyTypes, NoCopyPin DEF Requests, TagInv, TypeInv, TypeOK, NoPins
  <2>. QED
    BY <2>1, SendAtomic
<1>5. ASSUME NEW r \in Conns, Resume(r) PROVE NoPins' /\ ShowsRead'
  <2>1. [kind |-> "resume", base |-> part] \in Requests /\ part.etag # PinnedTag
    BY DEF Requests, TagInv, TypeInv, TypeOK, NoPins
  <2>. QED
    BY <1>5, <2>1, SendAtomic DEF Resume
<1>6. ASSUME NEW r \in Conns, Deliver(r) PROVE NoPins' /\ ShowsRead'
  BY <1>6, DeliverAtomic
<1>7. ASSUME NEW r \in Conns, Lose(r) \/ Interrupt(r) PROVE NoPins' /\ ShowsRead'
  <2>1. cache'.etag # PinnedTag /\ part'.etag # PinnedTag /\ Close({r})
    BY <1>7 DEF Lose, Interrupt, NoPins, client
  <2>. QED
    BY <2>1, CloseAtomic DEF NoPins
<1>8. ASSUME NEW r \in Conns, Handler(r) PROVE NoPins' /\ ShowsRead'
  BY <1>8, HandlerAtomic
<1>9. ASSUME NEW k \in Configs, Restart(k) PROVE NoPins' /\ ShowsRead'
  BY <1>9, CloseAtomic DEF Restart, NoPins, client
<1>10. CASE UNCHANGED vars
  BY <1>1, <1>10 DEF vars, client
<1>. QED
  BY <1>2, <1>3, <1>4, <1>5, <1>6, <1>7, <1>8, <1>9, <1>10 DEF Next

LEMMA AtomicInit == Init => AtomicInv
BY TagInit, NoCopyPin DEF Init, AtomicInv, NoPins, ShowsRead
-----------------------------------------------------------------------------
(* Every step is one of FreshRead, or none.                                *)
LEMMA MapInit == Init => Fresh!Init
<1>. SUFFICES ASSUME Init PROVE Fresh!Init
  OBVIOUS
<1>1. content \in Bodies
  BY DEF Init, Bodies
<1>2. Phase = [r \in Conns |-> "idle"] /\ Taken = [r \in Conns |-> Absent]
  BY DEF Init, Phase, PhaseAt, Taken, NoIo
<1>. QED
  BY <1>1, <1>2 DEF Init, Fresh!Init, Phase, PhaseAt, Taken

LEMMA MapClose ==
  ASSUME AtomicInv, NEW S \in SUBSET Conns, Close(S), UNCHANGED <<content, shown>>
  PROVE  Fresh!Abandon(S)
<1>1. Phase' = [r \in Conns |-> IF r \in S THEN "idle" ELSE Phase[r]]
  <2>1. PhaseAt("idle") = "idle"
    BY DEF PhaseAt
  <2>. QED
    BY <2>1 DEF Close, Phase
<1>2. Taken' = [r \in Conns |-> IF r \in S THEN Absent ELSE Taken[r]]
  BY DEF Close, Taken, NoIo
<1>. QED
  BY <1>1, <1>2 DEF Fresh!Abandon, Phase, PhaseAt, Taken

LEMMA MapSend ==
  ASSUME AtomicInv, NEW r \in Conns, NEW rq, Send(r, rq)
  PROVE  Fresh!Ask(r)
<1>1. Phase[r] = "idle" /\ Phase' = [Phase EXCEPT ![r] = "asked"]
  BY DEF Send, Phase, PhaseAt, AtomicInv, TagInv, TypeInv, TypeOK
<1>2. Taken' = Taken /\ content' = content /\ shown' = shown
  BY DEF Send, Taken, file, client
<1>. QED
  BY <1>1, <1>2 DEF Fresh!Ask, Phase, PhaseAt, Taken

LEMMA MapDeliver ==
  ASSUME AtomicInv, NEW r \in Conns, Deliver(r)
  PROVE  Fresh!Show(r) \/ Fresh!Abandon({r})
<1>. DEFINE copy  == resp[r].copy
            base  == req[r].base
            whole == [copy EXCEPT !.body = Glue(base.body, copy.body)]
<1>0. /\ pc[r] = "answered" /\ Close({r}) /\ content' = content
      /\ pc \in [Conns -> {"idle", "sent", "resolved", "statted", "read", "answered"}]
      /\ copy \in Copies
  BY DEF Deliver, file, AtomicInv, TagInv, TypeInv, TypeOK, Responses
<1>1. CASE shown' = shown
  BY <1>0, <1>1, MapClose
<1>2. CASE shown' # shown
  <2>1. whole.body = Glue(base.body, copy.body)
    BY <1>0 DEF Copies
  <2>2. shown' = [shown EXCEPT ![r] = View(req[r], resp[r])] /\ Showable(req[r], resp[r])
    BY <1>2, <2>1 DEF Deliver, View, Showable
  <2>3. View(req[r], resp[r]) = io[r].bytes
    BY <1>0, <2>2 DEF AtomicInv, ShowsRead, Shows
  <2>4. Phase[r] = "taken" /\ Phase' = [Phase EXCEPT ![r] = "idle"]
    BY <1>0 DEF Close, Phase, PhaseAt
  <2>5. Taken' = [Taken EXCEPT ![r] = Absent] /\ Taken[r] = io[r].bytes
    BY <1>0 DEF Close, Taken, NoIo
  <2>. QED
    BY <1>0, <2>2, <2>3, <2>4, <2>5 DEF Fresh!Show, Phase, PhaseAt, Taken
<1>. QED
  BY <1>1, <1>2

LEMMA MapHandler ==
  ASSUME AtomicInv, NEW r \in Conns, Handler(r)
  PROVE  Fresh!Take(r) \/ UNCHANGED Fresh!vars
<1>0. /\ pc \in [Conns -> {"idle", "sent", "resolved", "statted", "read", "answered"}]
      /\ io \in [Conns -> [bytes : Contents \union {Absent}, meta : Dates]]
  BY DEF AtomicInv, TagInv, TypeInv, TypeOK
<1>1. content' = content /\ shown' = shown
  BY DEF Handler, Resolve, StatThenRead, ReadAfterStat, ReadThenStat, StatAfterRead, file, client
(* The read of the bytes, or the look that finds no file. *)
<1>2. ASSUME pc[r] \in {"sent", "resolved", "statted"}, NEW now \in {"read", "answered"},
             pc' = [pc EXCEPT ![r] = now], io' = [io EXCEPT ![r].bytes = content]
      PROVE  Fresh!Take(r)
  <2>1. Phase[r] = "asked" /\ Phase' = [Phase EXCEPT ![r] = "taken"]
    BY <1>0, <1>2 DEF Phase, PhaseAt
  <2>2. Taken' = [Taken EXCEPT ![r] = content]
    BY <1>0, <1>2 DEF Taken
  <2>. QED
    BY <1>1, <2>1, <2>2 DEF Fresh!Take, Phase, PhaseAt, Taken
<1>3. ASSUME Phase' = Phase, Taken' = Taken PROVE UNCHANGED Fresh!vars
  BY <1>1, <1>3 DEF Fresh!vars, Phase, PhaseAt, Taken
<1>4. CASE Resolve(r) /\ content = Absent
  BY <1>2, <1>4 DEF Resolve, Answer
<1>5. CASE (Resolve(r) /\ content # Absent) \/ StatThenRead(r)
  <2>1. Phase' = Phase
    BY <1>0, <1>5 DEF Resolve, StatThenRead, Phase, PhaseAt
  <2>2. Taken' = Taken
    BY <1>0, <1>5 DEF Resolve, StatThenRead, Taken
  <2>. QED
    BY <1>3, <2>1, <2>2
<1>6. CASE ReadAfterStat(r)
  BY <1>2, <1>6 DEF ReadAfterStat, Answer
<1>7. CASE ReadThenStat(r)
  BY <1>2, <1>7 DEF ReadThenStat, Answer
<1>8. CASE StatAfterRead(r)
  <2>1. Phase' = Phase
    BY <1>0, <1>8 DEF StatAfterRead, Answer, Phase, PhaseAt
  <2>2. Taken' = Taken
    BY <1>0, <1>8 DEF StatAfterRead, Taken
  <2>. QED
    BY <1>3, <2>1, <2>2
<1>. QED
  BY <1>4, <1>5, <1>6, <1>7, <1>8 DEF Handler

LEMMA MapStep == AtomicInv /\ [Next]_vars => [Fresh!Next]_(Fresh!vars)
<1>. SUFFICES ASSUME AtomicInv, [Next]_vars PROVE [Fresh!Next]_(Fresh!vars)
  OBVIOUS
<1>. USE DEF Fresh!Next
<1>1. ASSUME content' \in Bodies, UNCHANGED <<pc, io, shown>> PROVE Fresh!Change
  BY <1>1 DEF Fresh!Change
<1>2. ASSUME NEW v \in Contents, NEW m \in Times, Modify(v, m) PROVE Fresh!Change
  BY <1>1, <1>2 DEF Modify, Bodies, client
<1>3. ASSUME Remove PROVE Fresh!Change
  BY <1>1, <1>3 DEF Remove, Bodies, client
<1>4. ASSUME NEW r \in Conns, Get(r) \/ Resume(r) PROVE Fresh!Ask(r)
  BY <1>4, MapSend DEF Get, Resume
<1>5. ASSUME NEW r \in Conns, Deliver(r) PROVE Fresh!Show(r) \/ Fresh!Abandon({r})
  BY <1>5, MapDeliver
<1>6. ASSUME NEW r \in Conns, Lose(r) \/ Interrupt(r) PROVE Fresh!Abandon({r})
  BY <1>6, MapClose DEF Lose, Interrupt, file, client
<1>7. ASSUME NEW r \in Conns, Handler(r) PROVE Fresh!Take(r) \/ UNCHANGED Fresh!vars
  BY <1>7, MapHandler
<1>8. ASSUME NEW k \in Configs, Restart(k)
      PROVE  \E S \in SUBSET Conns : Fresh!Abandon(S)
  <2>1. PICK S \in SUBSET Conns : S = {r \in Conns : pc[r] # "answered"}
    OBVIOUS
  <2>2. Close(S) /\ UNCHANGED <<content, shown>>
    BY <1>8, <2>1 DEF Restart, file, client
  <2>3. Fresh!Abandon(S)
    BY <2>2, MapClose
  <2>. QED
    BY <2>3
<1>9. ASSUME UNCHANGED vars PROVE UNCHANGED Fresh!vars
  BY <1>9 DEF vars, client, Fresh!vars
<1>. QED
  BY <1>2, <1>3, <1>4, <1>5, <1>6, <1>7, <1>8, <1>9 DEF Next

(* REFINEMENT, for every instance with ETags: neither the 304 short        *)
(* circuit nor the completion of a download is visible in what the client  *)
(* shows (dispatch.rs, build_file_or_304; see FreshReads).                 *)
THEOREM Implements ==
  ASSUME TagsTrusted
  PROVE  Spec => FreshReads
<1>1. AtomicInv /\ [Next]_vars => AtomicInv'
  BY AtomicStep
<1>. QED
  BY <1>1, AtomicInit, MapInit, MapStep, PTL DEF Spec, FreshReads, Fresh!Spec
=============================================================================
