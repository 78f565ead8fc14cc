-------------------------- MODULE ResponsesProofs --------------------------
(***************************************************************************)
(* Theorems about Responses, for every configuration, request, disk and    *)
(* size of a file.                                                         *)
(***************************************************************************)
EXTENDS Responses, SequenceTheorems, TLAPS

(* The provers cannot read an empty string; it is kept behind a name.      *)
Nothing == ""

(* Answers are records with these fields; the headers do not matter here.  *)
Shaped(r) ==
  /\ r = [status |-> r.status, headers |-> r.headers, body |-> r.body]
  /\ r.body = [what |-> r.body.what, version |-> r.body.version, first |-> r.body.first,
               count |-> r.body.count, coding |-> r.body.coding]

(* The same bytes under the same status.                                   *)
Alike(r, s) ==
  /\ r.status = s.status /\ r.body.what = s.body.what /\ r.body.version = s.body.version
  /\ r.body.first = s.body.first /\ r.body.count = s.body.count

LEMMA ShapeOfResponse ==
  ASSUME NEW s, NEW h, NEW what, NEW version, NEW first, NEW count
  PROVE  Shaped(Response(s, h, Body(what, version, first, count)))
BY DEF Shaped, Response, Body

LEMMA HeadersApart ==
  ASSUME NEW r, Shaped(r), NEW h
  PROVE  Shaped([r EXCEPT !.headers = h]) /\ Alike([r EXCEPT !.headers = h], r)
<1>1. [r EXCEPT !.headers = h] = [status |-> r.status, headers |-> h, body |-> r.body]
  BY DEF Shaped
<1>. QED
  BY <1>1 DEF Shaped, Alike

LEMMA RulesKeep ==
  ASSUME NEW r, Shaped(r), NEW place, NEW rules
  PROVE  LET t == apply_custom_headers(r, place, rules) IN Shaped(t) /\ Alike(t, r)
<1>. DEFINE h == FoldLeft(LAMBDA g, rule : ApplyRule(g, rule, place), r.headers, rules)
<1>1. apply_custom_headers(r, place, rules) = IF Redirection(r) THEN r ELSE [r EXCEPT !.headers = h]
  BY DEF apply_custom_headers
<1>. HIDE DEF h
<1>. QED
  BY <1>1, HeadersApart DEF Alike

LEMMA CorsKeeps ==
  ASSUME NEW r, Shaped(r)
  PROVE  Shaped(apply_cors(r)) /\ Alike(apply_cors(r), r)
<1>. DEFINE h == Filled(Filled(r.headers, "origin", "*"), "credentials", "true")
<1>1. apply_cors(r) = [r EXCEPT !.headers = h]
  BY DEF apply_cors
<1>. HIDE DEF h
<1>. QED
  BY <1>1, HeadersApart

LEMMA CompressionKeeps ==
  ASSUME NEW r, Shaped(r), NEW head, NEW tokens, NEW on
  PROVE  LET t == maybe_apply(r, head, tokens, on) IN Shaped(t) /\ Alike(t, r)
<1>1. ASSUME NEW q, Shaped(q), NEW coding
      PROVE  Shaped(encode(q, coding)) /\ Alike(encode(q, coding), q)
  <2>. DEFINE h == encode(q, coding).headers
  <2>0. q = [status |-> q.status, headers |-> q.headers, body |-> q.body]
    BY <1>1 DEF Shaped
  <2>1. encode(q, coding) = [status |-> q.status, headers |-> h, body |-> [q.body EXCEPT !.coding = coding]]
    <3>. DEFINE g == [[q.headers EXCEPT !.encoding = coding] EXCEPT !.length = Length(q.body.count, coding)]
                p == [q EXCEPT !.headers = [q.headers EXCEPT !.encoding = coding]]
                o == [p EXCEPT !.headers = [p.headers EXCEPT !.length = Length(q.body.count, coding)]]
    <3>1. encode(q, coding) = [o EXCEPT !.body = [o.body EXCEPT !.coding = coding]]
      BY DEF encode
    <3>2. p = [status |-> q.status, headers |-> [q.headers EXCEPT !.encoding = coding], body |-> q.body]
      BY <2>0
    <3>. HIDE DEF p
    <3>3. o = [status |-> q.status, headers |-> g, body |-> q.body]
      BY <3>2
    <3>. HIDE DEF o, g
    <3>4. encode(q, coding) = [status |-> q.status, headers |-> g, body |-> [q.body EXCEPT !.coding = coding]]
      BY <3>1, <3>3
    <3>. QED
      BY <3>4
  <2>. HIDE DEF h
  <2>2. [q.body EXCEPT !.coding = coding] =
          [what |-> q.body.what, version |-> q.body.version, first |-> q.body.first,
           count |-> q.body.count, coding |-> coding]
    BY <1>1 DEF Shaped
  <2>. QED
    BY <2>1, <2>2 DEF Shaped, Alike
<1>. DEFINE h == append_vary_accept_encoding(r.headers)
            v == [r EXCEPT !.headers = h]
            c == negotiate(tokens)
<1>2. \/ maybe_apply(r, head, tokens, on) \in {r, v}
      \/ maybe_apply(r, head, tokens, on) = encode(v, c)
  BY DEF maybe_apply
<1>. HIDE DEF h, c
<1>3. Shaped(v) /\ Alike(v, r)
  BY HeadersApart
<1>. HIDE DEF v
<1>4. Shaped(encode(v, c)) /\ Alike(encode(v, c), v)
  BY <1>1, <1>3
<1>. QED
  BY <1>2, <1>3, <1>4 DEF Alike

(* EXCEPT, one field at a time.                                            *)
LEMMA FieldsApart ==
  ASSUME NEW r, r = [status |-> r.status, headers |-> r.headers, body |-> r.body], NEW x
  PROVE  /\ [r EXCEPT !.status = x] = [status |-> x, headers |-> r.headers, body |-> r.body]
         /\ [r EXCEPT !.headers = x] = [status |-> r.status, headers |-> x, body |-> r.body]
         /\ [r EXCEPT !.body = x] = [status |-> r.status, headers |-> r.headers, body |-> x]
OBVIOUS

PartialHeaders(h, r, n) ==
  [[h EXCEPT !.range = Span(r.start, r.end, n)] EXCEPT !.length = Length(r.end - r.start + 1, Nothing)]

RefusedHeaders(h, n) ==
  [h EXCEPT !.range = IF Has(h, "range") THEN h.range ELSE Span(-1, -1, n)]

LEMMA PartialShape ==
  ASSUME NEW u, Shaped(u), NEW r, NEW n
  PROVE  LET t == build_206(u, r, n)
         IN  /\ Shaped(t) /\ t.status = 206
             /\ t.body.what = u.body.what /\ t.body.version = u.body.version
             /\ t.body.first = r.start /\ t.body.count = r.end - r.start + 1
             /\ t.body.coding = u.body.coding
             /\ t.headers = PartialHeaders(u.headers, r, n)
<1>. DEFINE first == r.start
            count == r.end - r.start + 1
            p == [u EXCEPT !.status = 206]
            g == [p.headers EXCEPT !.range = Span(r.start, r.end, n)]
            q == [p EXCEPT !.headers = g]
            h == [q.headers EXCEPT !.length = Length(count, "")]
            o == [q EXCEPT !.headers = h]
            b == [o.body EXCEPT !.first = first]
            m == [o EXCEPT !.body = b]
            c == [m.body EXCEPT !.count = count]
            t == build_206(u, r, n)
<1>1. t = [m EXCEPT !.body = c]
  BY DEF build_206
<1>. HIDE DEF t
<1>2. p = [status |-> 206, headers |-> u.headers, body |-> u.body]
  BY FieldsApart DEF Shaped
<1>. HIDE DEF p
<1>9. g = [u.headers EXCEPT !.range = Span(r.start, r.end, n)]
  BY <1>2
<1>. HIDE DEF g
<1>3. q = [status |-> 206, headers |-> g, body |-> u.body]
  BY <1>2, FieldsApart
<1>. HIDE DEF q
<1>10. h = [g EXCEPT !.length = Length(r.end - r.start + 1, Nothing)]
  BY <1>3 DEF Nothing
<1>. HIDE DEF h
<1>4. o = [status |-> 206, headers |-> h, body |-> u.body]
  BY <1>3, FieldsApart
<1>. HIDE DEF o
<1>5. b = [what |-> u.body.what, version |-> u.body.version, first |-> first,
           count |-> u.body.count, coding |-> u.body.coding]
  <2>1. o.body = u.body
    BY <1>4
  <2>. HIDE DEF first
  <2>. QED
    BY <2>1 DEF Shaped
<1>. HIDE DEF b
<1>6. m = [status |-> 206, headers |-> h, body |-> b]
  BY <1>4, FieldsApart
<1>. HIDE DEF m
<1>7. c = [what |-> u.body.what, version |-> u.body.version, first |-> first,
           count |-> count, coding |-> u.body.coding]
  <2>1. m.body = b
    BY <1>6
  <2>. HIDE DEF first, count
  <2>. QED
    BY <1>5, <2>1
<1>. HIDE DEF c
<1>8. t = [status |-> 206, headers |-> h, body |-> c]
  BY <1>1, <1>6, FieldsApart
<1>. QED
  BY <1>7, <1>8, <1>9, <1>10 DEF Shaped, PartialHeaders, t

LEMMA RefusedShape ==
  ASSUME NEW u, Shaped(u), NEW n
  PROVE  LET t == build_416(u, n)
         IN  /\ Shaped(t) /\ t.status = 416 /\ t.body = u.body
             /\ t.headers = RefusedHeaders(u.headers, n)
<1>. DEFINE p == [u EXCEPT !.status = 416]
            g == [p.headers EXCEPT !.range = IF Has(u.headers, "range") THEN @ ELSE Span(-1, -1, n)]
            t == build_416(u, n)
<1>1. t = [p EXCEPT !.headers = g]
  BY DEF build_416
<1>. HIDE DEF t
<1>2. p = [status |-> 416, headers |-> u.headers, body |-> u.body]
  BY FieldsApart DEF Shaped
<1>. HIDE DEF p
<1>4. g = [u.headers EXCEPT !.range = IF Has(u.headers, "range") THEN u.headers.range ELSE Span(-1, -1, n)]
  BY <1>2
<1>. HIDE DEF g
<1>3. t = [status |-> 416, headers |-> g, body |-> u.body]
  BY <1>1, <1>2, FieldsApart
<1>. QED
  BY <1>3, <1>4 DEF Shaped, RefusedHeaders, t

LEMMA FinishKeeps ==
  ASSUME Shaped(resp)
  PROVE  Shaped(Framed(Finished)) /\ Alike(Framed(Finished), resp)
<1>1. Shaped(WithCors(resp)) /\ Alike(WithCors(resp), resp)
  BY CorsKeeps DEF WithCors, Alike
<1>2. Shaped(Finished) /\ Alike(Finished, resp)
  BY <1>1, CompressionKeeps DEF Finished, Alike
<1>. DEFINE h == Filled(Finished.headers, "length", LengthOf(Finished.body))
<1>3. Framed(Finished) = [Finished EXCEPT !.headers = h]
  BY DEF Framed
<1>. HIDE DEF h
<1>4. Shaped([Finished EXCEPT !.headers = h]) /\ Alike([Finished EXCEPT !.headers = h], Finished)
  BY <1>2, HeadersApart
<1>. QED
  BY <1>2, <1>3, <1>4 DEF Alike
-----------------------------------------------------------------------------
(* parse_range.                                                            *)
Asked(range, n) ==
  IF range.unit = "bytes" /\ range.ranges # <<>> THEN Positions(range, n) ELSE {}

LEMMA PieceTypes ==
  ASSUME NEW header \in RangeHeaders, header.ranges # <<>>
  PROVE  /\ FirstPiece(header.ranges[1]) \in Pieces
         /\ LastPiece(header.ranges[1]) \in Pieces
<1>1. header.ranges[1] \in Seq(Pieces)
  BY DEF RangeHeaders
<1>2. NoNumber \in Pieces
  BY DEF NoNumber, Pieces
<1>. QED
  BY <1>1, <1>2 DEF FirstPiece, LastPiece

(* A satisfiable range is exactly the bytes asked for, and one that is not *)
(* asks for none, or for more last bytes than there are.                   *)
LEMMA RangeParsed ==
  ASSUME NEW header \in RangeHeaders, NEW total \in 1..MaxInt
  PROVE  LET r == parse_range(header, total)
         IN  /\ r.ok => /\ r.start \in Nat /\ r.end \in Nat /\ r.start <= r.end
                        /\ r.start..r.end = Asked(header, total)
             /\ ~r.ok => \/ Asked(header, total) = {}
                         \/ /\ ~FirstPiece(header.ranges[1]).number
                            /\ LastPiece(header.ranges[1]).value > total
<1>0. total \in Nat /\ total > 0 /\ total <= MaxInt /\ MaxInt \in Nat
  BY MaxIntAssumption
<1>1. CASE header.unit # "bytes" \/ header.ranges = <<>>
  BY <1>1 DEF parse_range, Unsatisfiable, Asked
<1>2. CASE header.unit = "bytes" /\ header.ranges # <<>>
  <2>. DEFINE first == FirstPiece(header.ranges[1])
              last  == LastPiece(header.ranges[1])
              P     == {p \in 0..total - 1 :
                          CASE first.number  -> p >= first.value /\ (last.number => p <= last.value)
                            [] ~first.number -> last.number /\ p >= total - last.value}
  <2>1. /\ first.number \in BOOLEAN /\ first.value \in Nat
        /\ last.number \in BOOLEAN /\ last.value \in Nat
    BY <1>2, PieceTypes DEF Pieces
  <2>2. parse_range(header, total) = ParsePieces(first, last, total) /\ Asked(header, total) = P
    BY <1>2 DEF parse_range, Asked, Positions
  <2>. SUFFICES LET r == parse_range(header, total)
                IN  /\ r.ok => /\ r.start \in Nat /\ r.end \in Nat /\ r.start <= r.end
                               /\ r.start..r.end = P
                    /\ ~r.ok => P = {} \/ (~first.number /\ last.value > total)
    BY <2>2
  <2>. HIDE DEF first, last, P
  <2>3. CASE first.number /\ last.number
    <3>1. P = {p \in 0..total - 1 : p >= first.value /\ p <= last.value}
      BY <2>3 DEF P
    <3>. QED
      BY <1>0, <2>1, <2>2, <2>3, <3>1
         DEF ParsePieces, Clipped, Clip, parse_int_js, InRange, Unsatisfiable
  <2>4. CASE first.number /\ ~last.number
    <3>1. P = {p \in 0..total - 1 : p >= first.value}
      BY <2>4 DEF P
    <3>. QED
      BY <1>0, <2>1, <2>2, <2>4, <3>1
         DEF ParsePieces, Clipped, Clip, parse_int_js, InRange, Unsatisfiable
  <2>5. CASE ~first.number /\ last.number
    <3>1. P = {p \in 0..total - 1 : p >= total - last.value}
      BY <2>5 DEF P
    <3>2. ParsePieces(first, last, total) = Clipped(total, total - parse_int_js(last), total - 1)
      BY <2>5 DEF ParsePieces
    <3>. DEFINE start == total - parse_int_js(last)
    <3>3. start >= 0 => P = start..total - 1
      BY <1>0, <2>1, <3>1 DEF parse_int_js
    <3>4. start \in Int /\ (start < 0 => last.value > total)
      BY <1>0, <2>1 DEF parse_int_js
    <3>. HIDE DEF start
    <3>5. parse_range(header, total) = IF start > total - 1 \/ start < 0 THEN Unsatisfiable
                                       ELSE InRange(start, total - 1)
      BY <1>0, <2>2, <3>2, <3>4 DEF Clipped, Clip, start
    <3>. QED
      BY <1>0, <2>5, <3>3, <3>4, <3>5 DEF InRange, Unsatisfiable
  <2>6. CASE ~first.number /\ ~last.number
    <3>1. P = {}
      BY <2>6 DEF P
    <3>2. ParsePieces(first, last, total) = Unsatisfiable
      BY <2>6 DEF ParsePieces
    <3>. QED
      BY <2>2, <3>1, <3>2 DEF Unsatisfiable
  <2>. QED
    BY <2>1, <2>3, <2>4, <2>5, <2>6
<1>. QED
  BY <1>1, <1>2
-----------------------------------------------------------------------------
(* What RangeHonoured says of an answer r to a request q, before it is     *)
(* sent as well.                                                           *)
Whole(r) == IF r.body.what = "lone" THEN Size(1) ELSE Size(r.body.version)
Bytes(r) == r.body.first..r.body.first + r.body.count - 1

Cut(r, q) ==
  r.body.what \in {"file", "lone"} /\ q.range # <<>> =>
    LET range == q.range[1]
    IN  /\ r.status = 206 => Bytes(r) = Asked(range, Whole(r)) /\ Bytes(r) # {}
        /\ r.status = 416 => \/ Asked(range, Whole(r)) = {}
                             \/ /\ ~FirstPiece(range.ranges[1]).number
                                /\ LastPiece(range.ranges[1]).value > Whole(r)
        /\ r.status # 206 => Bytes(r) = 0..Whole(r) - 1
        /\ r.status = 200 <=> Whole(r) = 0

TypesOK ==
  /\ disks \in Seq(Disks) /\ disks # <<>>
  /\ req \in Requests \union {NoRequest}
  /\ Shaped(resp)

RangeInv == TypesOK /\ (pc \in {"built", "sent"} => Cut(resp, req))

LEMMA CutAlike ==
  ASSUME NEW r, NEW s, Alike(s, r), NEW q, Cut(r, q)
  PROVE  Cut(s, q)
<1>1. Bytes(s) = Bytes(r) /\ Whole(s) = Whole(r) /\ s.status = r.status /\ s.body.what = r.body.what
  BY DEF Alike, Bytes, Whole
<1>. QED
  BY <1>1 DEF Cut

LEMMA SizesOK ==
  ASSUME NEW v \in Versions
  PROVE  Size(v) \in 0..MaxInt /\ Size(1) \in 0..MaxInt
<1>1. Len(Sizes) \in Nat /\ 1 \in 1..Len(Sizes) /\ MaxInt \in Nat
  BY SizesAssumption, MaxIntAssumption
<1>2. \A i \in 1..Len(Sizes) : Sizes[i] \in 0..MaxInt
  BY SizesAssumption, ElementOfSeq
<1>. QED
  BY <1>1, <1>2 DEF Versions, Size

LEMMA RangeTyped ==
  ASSUME TypesOK
  PROVE  req.range \in Seq(RangeHeaders)
<1>1. NoRequest.range = <<>>
  BY DEF NoRequest
<1>. QED
  BY <1>1, RequestsAssumption, EmptySeq DEF TypesOK

LEMMA DiskTyped ==
  ASSUME TypesOK
  PROVE  Disk \in Disks /\ Disk.asset \in Versions
<1>1. Disk \in Disks
  BY DEF TypesOK, Disk, Last
<1>. QED
  BY <1>1, DisksAssumption DEF Versions

(* The file that is answered, whole or cut.                                *)
LEMMA FileCut ==
  ASSUME TypesOK, NEW what \in {"file", "lone"}, NEW version \in Versions, NEW type, NEW at,
         NEW n, n = IF what = "lone" THEN Size(1) ELSE Size(version)
  PROVE  LET t == build_file(what, version, type, n, at) IN Shaped(t) /\ Cut(t, req)
<1>. DEFINE t    == build_file(what, version, type, n, at)
            bare == file_response(what, version, type, n)
            u    == apply_custom_headers(bare, at, cfg.rules)
            header == req.range[1]
            r    == parse_range(header, n)
<1>1. n \in 0..MaxInt /\ MaxInt \in Nat
  BY SizesOK, MaxIntAssumption
<1>2. /\ Shaped(bare) /\ bare.status = 200 /\ bare.body.what = what
      /\ bare.body.version = version /\ bare.body.first = 0 /\ bare.body.count = n
  <2>. DEFINE h == [Typed(type) EXCEPT !.etag = IF cfg.etag THEN version ELSE 0]
  <2>1. bare = Response(200, h, Body(what, version, 0, n))
    BY DEF file_response
  <2>. HIDE DEF bare, h
  <2>2. Shaped(bare)
    BY <2>1, ShapeOfResponse
  <2>3. bare.body = Body(what, version, 0, n)
    BY <2>1 DEF Response
  <2>4. Body(what, version, 0, n).what = what /\ Body(what, version, 0, n).version = version
    BY DEF Body
  <2>5. Body(what, version, 0, n).first = 0 /\ Body(what, version, 0, n).count = n
    BY DEF Body
  <2>. QED
    BY <2>1, <2>2, <2>3, <2>4, <2>5 DEF Response
<1>. HIDE DEF bare
<1>3. Shaped(u) /\ Alike(u, bare)
  BY <1>2, RulesKeep
<1>4. t = Ranged(u, n)
  BY DEF build_file, bare
<1>. HIDE DEF u, t
<1>5. /\ u.status = 200 /\ u.body.what = what /\ u.body.version = version
      /\ u.body.first = 0 /\ u.body.count = n
  BY <1>2, <1>3 DEF Alike
<1>6. Whole(u) = n /\ Bytes(u) = 0..n - 1
  BY <1>1, <1>5 DEF Whole, Bytes
<1>7. CASE req.range = <<>> \/ n = 0
  <2>1. t = u
    BY <1>4, <1>7 DEF Ranged
  <2>. QED
    BY <1>3, <1>5, <1>6, <1>7, <2>1 DEF Cut, t
<1>8. CASE req.range # <<>> /\ n # 0
  <2>1. header \in RangeHeaders
    BY <1>8, RangeTyped
  <2>2. n \in 1..MaxInt
    BY <1>1, <1>8
  <2>3. t = IF r.ok THEN build_206(u, r, n) ELSE build_416(u, n)
    BY <1>4, <1>8 DEF Ranged, apply_range
  <2>4. /\ r.ok => /\ r.start \in Nat /\ r.end \in Nat /\ r.start <= r.end
                   /\ r.start..r.end = Asked(header, n)
        /\ ~r.ok => \/ Asked(header, n) = {}
                    \/ /\ ~FirstPiece(header.ranges[1]).number
                       /\ LastPiece(header.ranges[1]).value > n
    BY <2>1, <2>2, RangeParsed
  <2>. HIDE DEF header, r
  <2>5. CASE r.ok
    <3>1. t = build_206(u, r, n)
      BY <2>3, <2>5
    <3>2. /\ Shaped(t) /\ t.status = 206 /\ t.body.what = what /\ t.body.version = version
          /\ t.body.first = r.start /\ t.body.count = r.end - r.start + 1
      BY <1>3, <1>5, <3>1, PartialShape
    <3>3. Whole(t) = n /\ Bytes(t) = r.start..r.end /\ Bytes(t) # {}
      BY <1>5, <1>6, <2>4, <2>5, <3>2 DEF Whole, Bytes
    <3>. QED
      BY <2>2, <2>4, <2>5, <3>2, <3>3 DEF Cut, header, t
  <2>6. CASE ~r.ok
    <3>1. t = build_416(u, n)
      BY <2>3, <2>6
    <3>2. /\ Shaped(t) /\ t.status = 416 /\ t.body = u.body
      BY <1>3, <3>1, RefusedShape
    <3>3. Whole(t) = n /\ Bytes(t) = 0..n - 1
      BY <1>6, <3>2 DEF Whole, Bytes
    <3>. QED
      BY <2>2, <2>4, <2>6, <3>2, <3>3 DEF Cut, header, t
  <2>. QED
    BY <2>5, <2>6
<1>. QED
  BY <1>7, <1>8 DEF t
-----------------------------------------------------------------------------
(* The other answers hold nothing of a file.                               *)
LEMMA BareCut ==
  ASSUME NEW s, NEW h, NEW what, what \notin {"file", "lone"}, NEW version, NEW first, NEW count,
         NEW q
  PROVE  LET t == Response(s, h, Body(what, version, first, count)) IN Shaped(t) /\ Cut(t, q)
<1>. DEFINE t == Response(s, h, Body(what, version, first, count))
<1>1. Shaped(t) /\ t.body.what = what
  BY ShapeOfResponse DEF Response, Body
<1>. QED
  BY <1>1 DEF Cut

LEMMA EmptyCut ==
  ASSUME NEW s, NEW h, NEW q
  PROVE  LET t == Response(s, h, NoBody) IN Shaped(t) /\ Cut(t, q)
BY BareCut DEF NoBody

(* Nor do they once the rules were applied.                               *)
LEMMA OtherCut ==
  ASSUME NEW s, NEW h, NEW what, what \notin {"file", "lone"}, NEW version, NEW first, NEW count,
         NEW place, NEW rules, NEW q
  PROVE  LET t == Response(s, h, Body(what, version, first, count))
             u == apply_custom_headers(t, place, rules)
         IN  /\ Shaped(t) /\ Cut(t, q)
             /\ Shaped(u) /\ Cut(u, q)
<1>. DEFINE t == Response(s, h, Body(what, version, first, count))
            u == apply_custom_headers(t, place, rules)
<1>1. Shaped(t) /\ t.body.what = what
  BY ShapeOfResponse DEF Response, Body
<1>. HIDE DEF t
<1>2. Shaped(u) /\ Alike(u, t)
  BY <1>1, RulesKeep
<1>. HIDE DEF u
<1>3. u.body.what = what
  BY <1>1, <1>2 DEF Alike
<1>4. Cut(t, q) /\ Cut(u, q)
  BY <1>1, <1>3 DEF Cut
<1>. QED
  BY <1>1, <1>2, <1>4 DEF t, u

LEMMA RangeInit == Init => RangeInv
<1>. SUFFICES ASSUME Init PROVE RangeInv
  OBVIOUS
<1>1. PICK d \in Disks : disks = <<d>>
  BY DEF Init
<1>2. disks \in Seq(Disks) /\ disks # <<>>
  BY <1>1
<1>3. Shaped(Blank)
  BY ShapeOfResponse DEF Blank, NoBody
<1>. QED
  BY <1>2, <1>3 DEF Init, RangeInv, TypesOK

LEMMA RangeStep == RangeInv /\ [Next]_vars => RangeInv'
<1>. SUFFICES ASSUME RangeInv, [Next]_vars PROVE RangeInv'
  OBVIOUS
<1>. USE DEF RangeInv, TypesOK
<1>1. ASSUME NEW t, Build(t), Shaped(t), Cut(t, req) PROVE RangeInv'
  BY <1>1 DEF Build
<1>2. ASSUME NEW s, NEW skip, Err(s, skip) PROVE RangeInv'
  BY <1>2 DEF Err
<1>3. ASSUME NEW stage \in {"found", "listing"}, Go(stage) PROVE RangeInv'
  BY <1>3 DEF Go
<1>4. CASE \E r \in Requests : Ask(r)
  BY <1>4 DEF Ask
<1>5. CASE MethodNotAllowed
  <2>. DEFINE t == apply_custom_headers(Response(405, Missing, NoBody), req.raw, cfg.rules)
  <2>1. Shaped(t) /\ Cut(t, req)
    BY OtherCut DEF NoBody
  <2>2. Build(t)
    BY <1>5 DEF MethodNotAllowed
  <2>. HIDE DEF t
  <2>. QED
    BY <1>1, <2>1, <2>2
<1>6. CASE BadRequest
  BY <1>2, <1>6 DEF BadRequest
<1>7. CASE Redirected
  <2>. DEFINE t == Response(301, Missing, NoBody)
  <2>1. Shaped(t) /\ Cut(t, req)
    BY EmptyCut
  <2>2. Build(t)
    BY <1>7 DEF Redirected
  <2>. HIDE DEF t
  <2>. QED
    BY <1>1, <2>1, <2>2
<1>8. CASE NotFound
  BY <1>2, <1>8 DEF NotFound
<1>9. CASE ResolveFile
  BY <1>2, <1>3, <1>9 DEF ResolveFile
<1>10. CASE ResolveDirectory
  BY <1>2, <1>3, <1>10 DEF ResolveDirectory
<1>11. CASE ReadFile
  <2>1. CASE Disk.asset = 0 \/ ~Disk.readable
    BY <1>2, <1>11, <2>1 DEF ReadFile
  <2>2. CASE ~(Disk.asset = 0 \/ ~Disk.readable)
    <3>1. Disk.asset \in Versions
      BY DiskTyped
    <3>. DEFINE t == build_file("file", Disk.asset, cfg.type, Size(Disk.asset), req.at)
    <3>2. Shaped(t) /\ Cut(t, req)
      BY <3>1, FileCut
    <3>3. Build(t)
      BY <1>11, <2>2 DEF ReadFile
    <3>. HIDE DEF t
    <3>. QED
      BY <1>1, <3>2, <3>3
  <2>. QED
    BY <2>1, <2>2
<1>12. CASE ReadDirectory
  BY <1>12 DEF ReadDirectory, Scan, OpenDir, NextEntry, FileType, Metadata, EndOfEntries,
               ReadLone, Scanning
<1>13. CASE Listed
  <2>. DEFINE t == Response(200, Typed(IF listing_accepts_json(req.accept) THEN Json ELSE Html),
                            Body("listing", 0, 0, SmallText + Len(scan.shown)))
  <2>1. Shaped(t) /\ Cut(t, req)
    BY BareCut
  <2>2. Build(t)
    BY <1>13 DEF Listed
  <2>. HIDE DEF t
  <2>. QED
    BY <1>1, <2>1, <2>2
<1>14. CASE NotListed
  BY <1>2, <1>14 DEF NotListed
<1>15. CASE SingleFile
  <2>1. 0 \in Versions
    BY SizesAssumption DEF Versions
  <2>. DEFINE t == build_file("lone", 0, cfg.type, Size(1), req.at)
  <2>2. Shaped(t) /\ Cut(t, req)
    BY <2>1, FileCut
  <2>3. Build(t)
    BY <1>15 DEF SingleFile
  <2>. HIDE DEF t
  <2>. QED
    BY <1>1, <2>2, <2>3
<1>16. CASE ListingFailed
  BY <1>2, <1>16 DEF ListingFailed
<1>17. CASE ErrorJson
  BY <1>1, <1>17, OtherCut DEF ErrorJson
<1>18. CASE ErrorPage
  BY <1>1, <1>18, OtherCut DEF ErrorPage
<1>19. CASE ErrorFallback
  <2>. DEFINE h == [FallbackRuled.headers EXCEPT !.type = Html]
              t == [FallbackRuled EXCEPT !.headers = h]
  <2>1. Shaped(FallbackRuled) /\ FallbackRuled.body.what \notin {"file", "lone"}
    <3>1. Shaped(FallbackBare) /\ FallbackBare.body.what = "fallback"
      BY ShapeOfResponse DEF FallbackBare, Response, Body
    <3>2. LET u == apply_custom_headers(FallbackBare, req.path, cfg.rules)
          IN  Shaped(u) /\ Alike(u, FallbackBare)
      BY <3>1, RulesKeep
    <3>. QED
      BY <3>1, <3>2 DEF FallbackRuled, Alike
  <2>2. Build(t)
    BY <1>19 DEF ErrorFallback
  <2>. HIDE DEF h
  <2>3. Shaped(t) /\ Alike(t, FallbackRuled)
    BY <2>1, HeadersApart
  <2>. HIDE DEF t
  <2>4. Cut(t, req)
    BY <2>1, <2>3 DEF Cut, Alike
  <2>. QED
    BY <1>1, <2>2, <2>3, <2>4
<1>20. CASE Finish
  <2>1. Shaped(resp') /\ Alike(resp', resp) /\ Cut(resp, req)
    BY <1>20, FinishKeeps DEF Finish
  <2>2. Cut(resp', req)
    BY <2>1, CutAlike
  <2>. QED
    BY <1>20, <2>1, <2>2 DEF Finish
<1>21. CASE Change
  <2>1. PICK d \in Disks : disks' = Append(disks, d)
    BY <1>21 DEF Change
  <2>2. disks' \in Seq(Disks) /\ disks' # <<>>
    BY <2>1, AppendProperties
  <2>. QED
    BY <1>21, <2>2 DEF Change
<1>22. CASE Done
  <2>1. Disk \in Disks
    BY DiskTyped
  <2>2. disks' \in Seq(Disks) /\ disks' # <<>>
    BY <1>22, <2>1 DEF Done
  <2>3. Shaped(Blank)
    BY ShapeOfResponse DEF Blank, NoBody
  <2>. QED
    BY <1>22, <2>2, <2>3 DEF Done
<1>23. CASE UNCHANGED vars
  BY <1>23 DEF vars
<1>. QED
  BY <1>4, <1>5, <1>6, <1>7, <1>8, <1>9, <1>10, <1>11, <1>12, <1>13, <1>14, <1>15, <1>16,
     <1>17, <1>18, <1>19, <1>20, <1>21, <1>22, <1>23 DEF Next, Handler

(* The range of a request is honoured, whatever the disk does meanwhile: a *)
(* 206 holds exactly the bytes of the file that were asked for, and there  *)
(* are some; a 416 has its reason (range.rs, parse_range and apply): see   *)
(* RangeHonoured.                                                          *)
THEOREM RangesHonoured == Spec => []RangeHonoured
<1>1. RangeInv => RangeHonoured
  BY DEF RangeInv, Cut, RangeHonoured, Sent, Held, Asked, Whole, Bytes
<1>. QED
  BY <1>1, RangeInit, RangeStep, PTL DEF Spec
-----------------------------------------------------------------------------
(* Headers under the rules.  A rule changes no other field than that of    *)
(* its items, so what it says of a field depends on that field alone.      *)
Headers(h) == h = [key \in DOMAIN Missing |-> h[key]]

ItemStep(h, item, p) == ApplyItem(h, item)
Agree(h, g, key) == Headers(h) /\ Headers(g) /\ h[key] = g[key]
Stays(h, g, q)   == h = q

OnItems  == INSTANCE FoldLaws WITH Op <- ItemStep, Rel <- Agree
OnRules  == INSTANCE FoldLaws WITH Op <- ApplyRule, Rel <- Agree
Nowhere  == INSTANCE FoldLaws WITH Op <- ApplyRule, Rel <- Stays

Says(rules, headers, place) == FoldLeft(LAMBDA h, rule : ApplyRule(h, rule, place), headers, rules)

(* g is h with another field.                                             *)
Changed(g, h, key, x) ==
  /\ Headers(g)
  /\ key \in DOMAIN Missing => g[key] = x
  /\ \A k \in DOMAIN Missing : k # key => g[k] = h[k]

LEMMA HeaderSet ==
  ASSUME NEW h, Headers(h), NEW key, NEW x, NEW g, g = [h EXCEPT ![key] = x]
  PROVE  Changed(g, h, key, x)
BY DEF Headers, Changed

LEMMA HeadersOfMissing ==
  /\ Headers(Missing)
  /\ \A type : Headers(Typed(type))
  /\ \A type : \A key \in DOMAIN Missing \ {"type"} : Typed(type)[key] = Missing[key]
  /\ \A type : Typed(type).type = type
BY DEF Headers, Missing, Typed

LEMMA SequenceOf ==
  ASSUME NEW s, IsSequence(s)
  PROVE  \E n \in Nat : DOMAIN s = 1..n
BY DEF IsSequence

LEMMA ItemsAgree ==
  ASSUME NEW items, IsSequence(items), NEW key \in DOMAIN Missing,
         NEW h, NEW g, Agree(h, g, key)
  PROVE  Agree(FoldLeft(ApplyItem, h, items), FoldLeft(ApplyItem, g, items), key)
<1>1. PICK n \in Nat : DOMAIN items = 1..n
  BY SequenceOf
<1>2. ASSUME NEW i \in 1..n, NEW a, NEW b, Agree(a, b, key)
      PROVE  Agree(ItemStep(a, items[i], 0), ItemStep(b, items[i], 0), key)
  <2>. DEFINE k == items[i].key
              x == items[i].value
              aa == [a EXCEPT ![k] = x]
              bb == [b EXCEPT ![k] = x]
  <2>. HIDE DEF k, x
  <2>0. Headers(a) /\ Headers(b)
    BY <1>2 DEF Agree
  <2>1. Changed(aa, a, k, x) /\ Changed(bb, b, k, x)
    BY <2>0, HeaderSet
  <2>3. ItemStep(a, items[i], 0) = (IF items[i].ok THEN aa ELSE a)
    BY Zenon DEF ItemStep, ApplyItem, k, x
  <2>4. ItemStep(b, items[i], 0) = (IF items[i].ok THEN bb ELSE b)
    BY Zenon DEF ItemStep, ApplyItem, k, x
  <2>. HIDE DEF aa, bb
  <2>5. Agree(aa, bb, key)
    BY <1>2, <2>1 DEF Agree, Changed
  <2>. QED
    BY <1>2, <2>3, <2>4, <2>5
<1>3. Agree(OnItems!Fold(h, items, 0), OnItems!Fold(g, items, 0), key)
  BY <1>1, <1>2, OnItems!FoldsRelated
<1>4. \A base : OnItems!Fold(base, items, 0) = FoldLeft(ApplyItem, base, items)
  BY Zenon DEF OnItems!Fold, OnItems!FoldLeft, FoldLeft, OnItems!MapThenFoldSet, MapThenFoldSet,
               OnItems!Max, Max, ItemStep
<1>. QED
  BY <1>3, <1>4

LEMMA RulesAgree ==
  ASSUME NEW c \in Configs, NEW place, NEW key \in DOMAIN Missing,
         NEW h, NEW g, Agree(h, g, key)
  PROVE  Agree(Says(c.rules, h, place), Says(c.rules, g, place), key)
<1>1. PICK n \in Nat : DOMAIN c.rules = 1..n
  BY ConfigsAssumption, SequenceOf
<1>2. ASSUME NEW i \in 1..n, NEW a, NEW b, Agree(a, b, key)
      PROVE  Agree(ApplyRule(a, c.rules[i], place), ApplyRule(b, c.rules[i], place), key)
  <2>1. IsSequence(c.rules[i].items)
    BY <1>1, ConfigsAssumption
  <2>2. Agree(FoldLeft(ApplyItem, a, c.rules[i].items), FoldLeft(ApplyItem, b, c.rules[i].items), key)
    BY <1>2, <2>1, ItemsAgree
  <2>. QED
    BY <1>2, <2>2, Zenon DEF ApplyRule
<1>3. Agree(OnRules!Fold(h, c.rules, place), OnRules!Fold(g, c.rules, place), key)
  BY <1>1, <1>2, OnRules!FoldsRelated
<1>4. \A base : OnRules!Fold(base, c.rules, place) = Says(c.rules, base, place)
  BY Zenon DEF OnRules!Fold, OnRules!FoldLeft, FoldLeft, OnRules!MapThenFoldSet, MapThenFoldSet,
               OnRules!Max, Max, Says
<1>. QED
  BY <1>3, <1>4

LEMMA NothingSaid ==
  ASSUME NEW c \in Configs, NEW h
  PROVE  Says(c.rules, h, Nothing) = h
<1>1. PICK n \in Nat : DOMAIN c.rules = 1..n
  BY ConfigsAssumption, SequenceOf
<1>2. ASSUME NEW i \in 1..n, NEW a, NEW b, Stays(a, b, h)
      PROVE  Stays(ApplyRule(a, c.rules[i], Nothing), ApplyRule(b, c.rules[i], Nothing), h)
  <2>1. Nothing \notin c.rules[i].places
    BY <1>1, ConfigsAssumption DEF Nothing
  <2>. QED
    BY <1>2, <2>1, Zenon DEF ApplyRule, Stays
<1>3. Stays(h, h, h)
  BY DEF Stays
<1>4. Stays(Nowhere!Fold(h, c.rules, Nothing), Nowhere!Fold(h, c.rules, Nothing), h)
  BY <1>1, <1>2, <1>3, Nowhere!FoldsRelated
<1>5. Nowhere!Fold(h, c.rules, Nothing) = Says(c.rules, h, Nothing)
  BY Zenon DEF Nowhere!Fold, Nowhere!FoldLeft, FoldLeft, Nowhere!MapThenFoldSet, MapThenFoldSet,
               Nowhere!Max, Max, Says
<1>. QED
  BY <1>4, <1>5 DEF Stays
-----------------------------------------------------------------------------
(* An answer as it is built, with the headers of its branch: see           *)
(* RulesPerBranch and SelfDescribed.  A 206 says itself what it holds.     *)
PlaceOf(t, r) ==
  CASE t.body.what \in {"file", "lone"} -> r.at
    [] t.body.what = "page"             -> Page(t.status)
    [] t.body.what = "fallback"         -> IF r.finds = "refused" THEN Nothing ELSE r.path
    [] t.status = 405                   -> r.raw
    [] OTHER                            -> Nothing

OwnTypeOf(t, r, c) ==
  CASE t.body.what \in {"file", "lone"}     -> c.type
    [] t.body.what \in {"page", "fallback"} -> Html
    [] t.body.what = "json"                 -> Json
    [] t.body.what = "listing"              -> IF listing_accepts_json(r.accept) THEN Json ELSE Html
    [] OTHER                                -> Missing.type

SaidOf(t, r, c) == Says(c.rules, Missing, PlaceOf(t, r))

TypeSaid(t, r, c) ==
  IF t.body.what = "fallback" THEN Html
  ELSE Says(c.rules, Typed(OwnTypeOf(t, r, c)), PlaceOf(t, r)).type

Apart == {"type", "etag", "length", "range"}

AsRuled(t, r, c) ==
  /\ Shaped(t) /\ Headers(t.headers) /\ t.body.coding = Nothing
  /\ t.headers.type = TypeSaid(t, r, c)
  /\ \A key \in DOMAIN Missing \ Apart : t.headers[key] = SaidOf(t, r, c)[key]
  /\ t.status # 206 => t.headers.length = SaidOf(t, r, c).length
  /\ t.status \notin {206, 416} => t.headers.range = SaidOf(t, r, c).range
  /\ t.status = 206 => /\ t.headers.length = Length(t.body.count, Nothing)
                       /\ t.headers.range = Span(t.body.first, t.body.first + t.body.count - 1, Whole(t))

LEMMA FieldNames ==
  DOMAIN Missing = {"type", "length", "range", "encoding", "vary", "etag", "transform",
                    "origin", "credentials", "mark"}
BY DEF Missing

(* Headers with nothing but a type and perhaps an ETag.                    *)
Plain(h, type) ==
  /\ Headers(h) /\ h.type = type
  /\ \A key \in DOMAIN Missing \ {"type", "etag"} : h[key] = Missing[key]

RuledLike(g, t, r, c) ==
  /\ Headers(g)
  /\ \A key \in DOMAIN Missing \ {"type", "etag"} : g[key] = SaidOf(t, r, c)[key]
  /\ t.body.what # "fallback" => g.type = TypeSaid(t, r, c)

(* An answer that has the headers of the rules, over a type of its own and *)
(* perhaps an ETag.                                                        *)
LEMMA WhatRulesSay ==
  ASSUME NEW c \in Configs, NEW t, NEW r, NEW h, Plain(h, OwnTypeOf(t, r, c)),
         NEW g, g = Says(c.rules, h, PlaceOf(t, r))
  PROVE  RuledLike(g, t, r, c)
<1>. DEFINE o == Typed(OwnTypeOf(t, r, c))
<1>1. Headers(o) /\ o.type = h.type /\ Headers(Missing)
  BY HeadersOfMissing DEF Plain
<1>2. Agree(g, Says(c.rules, o, PlaceOf(t, r)), "type")
  <2>1. Agree(h, o, "type") /\ "type" \in DOMAIN Missing
    BY <1>1, FieldNames DEF Agree, Plain
  <2>. HIDE DEF o
  <2>. QED
    BY <2>1, RulesAgree
<1>3. ASSUME NEW key \in DOMAIN Missing \ {"type", "etag"} PROVE Agree(g, SaidOf(t, r, c), key)
  <2>1. Agree(h, Missing, key)
    BY <1>1 DEF Agree, Plain
  <2>. QED
    BY <2>1, RulesAgree DEF SaidOf
<1>4. t.body.what # "fallback" => g.type = TypeSaid(t, r, c)
  BY <1>2 DEF Agree, TypeSaid, o
<1>5. Headers(g)
  BY <1>2 DEF Agree
<1>6. \A key \in DOMAIN Missing \ {"type", "etag"} : g[key] = SaidOf(t, r, c)[key]
  BY <1>3 DEF Agree
<1>. QED
  BY <1>4, <1>5, <1>6 DEF RuledLike

LEMMA WholeAsRuled ==
  ASSUME NEW c \in Configs, NEW t, NEW r, NEW h, Plain(h, OwnTypeOf(t, r, c)),
         Shaped(t), t.body.coding = Nothing, t.status # 206, t.body.what # "fallback",
         t.headers = Says(c.rules, h, PlaceOf(t, r))
  PROVE  AsRuled(t, r, c)
<1>1. /\ Headers(t.headers)
      /\ \A key \in DOMAIN Missing \ {"type", "etag"} : t.headers[key] = SaidOf(t, r, c)[key]
      /\ t.headers.type = TypeSaid(t, r, c)
  <2>1. RuledLike(t.headers, t, r, c)
    BY WhatRulesSay
  <2>. QED
    BY <2>1 DEF RuledLike
<1>2. /\ t.headers["length"] = SaidOf(t, r, c)["length"]
      /\ t.headers["range"] = SaidOf(t, r, c)["range"]
      /\ \A key \in DOMAIN Missing \ Apart : t.headers[key] = SaidOf(t, r, c)[key]
  BY <1>1, FieldNames DEF Apart
<1>. QED
  BY <1>1, <1>2 DEF AsRuled

(* The rules applied to an answer that is no redirect.                     *)
LEMMA RuledResponse ==
  ASSUME NEW t, Shaped(t), t.status \notin 300..399, NEW place, NEW rules
  PROVE  LET u == apply_custom_headers(t, place, rules)
         IN  /\ Shaped(u) /\ u.status = t.status /\ u.body = t.body
             /\ u.headers = Says(rules, t.headers, place)
<1>. DEFINE h == Says(rules, t.headers, place)
            u == apply_custom_headers(t, place, rules)
<1>1. u = [t EXCEPT !.headers = h]
  BY DEF apply_custom_headers, Redirection, Says
<1>. HIDE DEF h, u
<1>2. u = [status |-> t.status, headers |-> h, body |-> t.body]
  BY <1>1, FieldsApart DEF Shaped
<1>. QED
  BY <1>2 DEF Shaped, u, h

LEMMA BodyFields ==
  ASSUME NEW s, NEW h, NEW what, NEW version, NEW first, NEW count
  PROVE  LET t == Response(s, h, Body(what, version, first, count))
         IN  /\ Shaped(t) /\ t.status = s /\ t.headers = h
             /\ t.body.what = what /\ t.body.version = version /\ t.body.first = first
             /\ t.body.count = count /\ t.body.coding = Nothing
BY DEF Shaped, Response, Body, Nothing

(* The headers of a file without its range.                                *)
LEMMA FileHeaders ==
  ASSUME NEW type, NEW etag
  PROVE  Plain([Typed(type) EXCEPT !.etag = etag], type)
<1>. DEFINE o == Typed(type)
            h == [o EXCEPT !.etag = etag]
<1>1. Headers(o) /\ o.type = type /\ \A key \in DOMAIN Missing \ {"type"} : o[key] = Missing[key]
  BY HeadersOfMissing
<1>. HIDE DEF o
<1>2. Changed(h, o, "etag", etag)
  BY <1>1, HeaderSet
<1>. HIDE DEF h
<1>3. h["type"] = o["type"] /\ \A key \in DOMAIN Missing \ {"type", "etag"} : h[key] = Missing[key]
  BY <1>1, <1>2, FieldNames DEF Changed
<1>4. Plain(h, type)
  BY <1>1, <1>2, <1>3 DEF Plain, Changed
<1>. QED
  BY <1>4 DEF h, o

(* Cut or not, an answer of a file is asked about in the same place.       *)
LEMMA FilePlace ==
  ASSUME NEW t, t.body.what \in {"file", "lone"}, t.status # 405, NEW r, NEW c
  PROVE  /\ PlaceOf(t, r) = r.at /\ OwnTypeOf(t, r, c) = c.type
         /\ SaidOf(t, r, c) = Says(c.rules, Missing, r.at)
         /\ TypeSaid(t, r, c) = Says(c.rules, Typed(c.type), r.at).type
<1>1. PlaceOf(t, r) = r.at
  BY Zenon DEF PlaceOf
<1>2. OwnTypeOf(t, r, c) = c.type
  BY Zenon DEF OwnTypeOf
<1>3. t.body.what # "fallback"
  OBVIOUS
<1>. QED
  BY <1>1, <1>2, <1>3 DEF SaidOf, TypeSaid

(* A range changes two of the headers.                                     *)
LEMMA PartialChanges ==
  ASSUME NEW h, Headers(h), NEW r, NEW n
  PROVE  LET g == PartialHeaders(h, r, n)
         IN  /\ Headers(g) /\ g.type = h.type
             /\ g.range = Span(r.start, r.end, n)
             /\ g.length = Length(r.end - r.start + 1, Nothing)
             /\ \A key \in DOMAIN Missing \ Apart : g[key] = h[key]
<1>. DEFINE gap == Span(r.start, r.end, n)
            len == Length(r.end - r.start + 1, Nothing)
            f   == [h EXCEPT !.range = gap]
            g   == [f EXCEPT !.length = len]
<1>. HIDE DEF gap, len
<1>1. Changed(f, h, "range", gap)
  BY HeaderSet
<1>. HIDE DEF f
<1>0. Headers(f)
  BY <1>1 DEF Changed
<1>2. Changed(g, f, "length", len)
  BY <1>0, HeaderSet
<1>. HIDE DEF g
<1>3. /\ Headers(g) /\ g["type"] = h["type"] /\ g["range"] = gap /\ g["length"] = len
      /\ \A key \in DOMAIN Missing \ Apart : g[key] = h[key]
  BY <1>1, <1>2, FieldNames DEF Changed, Apart
<1>4. PartialHeaders(h, r, n) = g
  BY DEF PartialHeaders, g, f, gap, len
<1>. QED
  BY <1>3, <1>4 DEF gap, len

LEMMA RefusedChanges ==
  ASSUME NEW h, Headers(h), NEW n
  PROVE  LET g == RefusedHeaders(h, n)
         IN  /\ Headers(g) /\ g.type = h.type /\ g.length = h.length
             /\ \A key \in DOMAIN Missing \ Apart : g[key] = h[key]
<1>. DEFINE gap == IF Has(h, "range") THEN h.range ELSE Span(-1, -1, n)
            g   == [h EXCEPT !.range = gap]
<1>. HIDE DEF gap
<1>1. Changed(g, h, "range", gap)
  BY HeaderSet
<1>. HIDE DEF g
<1>2. /\ Headers(g) /\ g["type"] = h["type"] /\ g["length"] = h["length"]
      /\ \A key \in DOMAIN Missing \ Apart : g[key] = h[key]
  BY <1>1, FieldNames DEF Changed, Apart
<1>3. RefusedHeaders(h, n) = g
  BY DEF RefusedHeaders, g, gap
<1>. QED
  BY <1>2, <1>3

(* The answers of a file, whole or cut.                                    *)
LEMMA FileAsRuled ==
  ASSUME TypesOK, cfg \in Configs, NEW what \in {"file", "lone"}, NEW version \in Versions,
         NEW n, n = IF what = "lone" THEN Size(1) ELSE Size(version)
  PROVE  AsRuled(build_file(what, version, cfg.type, n, req.at), req, cfg)
<1>. DEFINE t    == build_file(what, version, cfg.type, n, req.at)
            h    == [Typed(cfg.type) EXCEPT !.etag = IF cfg.etag THEN version ELSE 0]
            bare == file_response(what, version, cfg.type, n)
            u    == apply_custom_headers(bare, req.at, cfg.rules)
            r    == parse_range(req.range[1], n)
<1>1. Plain(h, cfg.type)
  BY FileHeaders
<1>2. bare = Response(200, h, Body(what, version, 0, n))
  BY DEF file_response
<1>. HIDE DEF h
<1>3. /\ Shaped(bare) /\ bare.status = 200 /\ bare.headers = h /\ bare.body.what = what
      /\ bare.body.version = version /\ bare.body.first = 0
      /\ bare.body.count = n /\ bare.body.coding = Nothing
  BY <1>2, BodyFields
<1>. HIDE DEF bare
<1>4. Shaped(u) /\ u.status = 200 /\ u.body = bare.body /\ u.headers = Says(cfg.rules, h, req.at)
  BY <1>3, RuledResponse
<1>5. t = Ranged(u, n)
  BY DEF build_file, bare
<1>. HIDE DEF u, t
<1>6. AsRuled(u, req, cfg)
  <2>1. PlaceOf(u, req) = req.at /\ OwnTypeOf(u, req, cfg) = cfg.type
    BY <1>3, <1>4, FilePlace
  <2>2. u.headers = Says(cfg.rules, h, PlaceOf(u, req)) /\ Plain(h, OwnTypeOf(u, req, cfg))
    BY <1>1, <1>4, <2>1
  <2>3. u.body.coding = Nothing /\ u.status # 206 /\ u.body.what # "fallback"
    BY <1>3, <1>4
  <2>. QED
    BY <1>4, <2>2, <2>3, WholeAsRuled
<1>7. ASSUME NEW s, s.body.what = what, s.status # 405
      PROVE  SaidOf(s, req, cfg) = SaidOf(u, req, cfg) /\ TypeSaid(s, req, cfg) = TypeSaid(u, req, cfg)
  BY <1>3, <1>4, <1>7, FilePlace
<1>8. Headers(u.headers)
  BY <1>6 DEF AsRuled
<1>9. CASE req.range = <<>> \/ n = 0
  BY <1>5, <1>6, <1>9 DEF Ranged, t
<1>10. CASE req.range # <<>> /\ n # 0
  <2>1. t = IF r.ok THEN build_206(u, r, n) ELSE build_416(u, n)
    BY <1>5, <1>10 DEF Ranged, apply_range
  <2>0. n \in 0..MaxInt /\ req.range[1] \in RangeHeaders
    BY <1>10, SizesOK, RangeTyped
  <2>2. CASE r.ok
    <3>1. r.start \in Nat /\ r.end \in Nat
      BY <1>10, <2>0, <2>2, MaxIntAssumption, RangeParsed
    <3>. HIDE DEF r
    <3>2. t = build_206(u, r, n)
      BY <2>1, <2>2
    <3>3. /\ Shaped(t) /\ t.status = 206 /\ t.body.what = what /\ t.body.version = version
          /\ t.body.first = r.start /\ t.body.count = r.end - r.start + 1
          /\ t.body.coding = Nothing /\ t.headers = PartialHeaders(u.headers, r, n)
      BY <1>3, <1>4, <3>2, PartialShape
    <3>4. /\ Headers(t.headers) /\ t.headers.type = u.headers.type
          /\ t.headers.range = Span(r.start, r.end, n)
          /\ t.headers.length = Length(r.end - r.start + 1, Nothing)
          /\ \A key \in DOMAIN Missing \ Apart : t.headers[key] = u.headers[key]
      BY <1>8, <3>3, PartialChanges
    <3>5. t.body.first + t.body.count - 1 = r.end /\ Whole(t) = n
      BY <3>1, <3>3 DEF Whole
    <3>6. t.headers.range = Span(t.body.first, t.body.first + t.body.count - 1, Whole(t))
           /\ t.headers.length = Length(t.body.count, Nothing)
      BY <3>3, <3>4, <3>5
    <3>7. t.headers.type = TypeSaid(t, req, cfg)
           /\ \A key \in DOMAIN Missing \ Apart : t.headers[key] = SaidOf(t, req, cfg)[key]
      BY <1>6, <1>7, <3>3, <3>4 DEF AsRuled
    <3>. QED
      BY <3>3, <3>4, <3>6, <3>7 DEF AsRuled, t
  <2>3. CASE ~r.ok
    <3>. HIDE DEF r
    <3>1. t = build_416(u, n)
      BY <2>1, <2>3
    <3>2. Shaped(t) /\ t.status = 416 /\ t.body = u.body /\ t.headers = RefusedHeaders(u.headers, n)
      BY <1>4, <3>1, RefusedShape
    <3>3. /\ Headers(t.headers) /\ t.headers.type = u.headers.type /\ t.headers.length = u.headers.length
          /\ \A key \in DOMAIN Missing \ Apart : t.headers[key] = u.headers[key]
      BY <1>8, <3>2, RefusedChanges
    <3>4. SaidOf(t, req, cfg) = SaidOf(u, req, cfg) /\ TypeSaid(t, req, cfg) = TypeSaid(u, req, cfg)
      BY <1>3, <1>4, <1>7, <3>2
    <3>5. t.headers.type = TypeSaid(t, req, cfg) /\ t.headers.length = SaidOf(t, req, cfg).length
          /\ \A key \in DOMAIN Missing \ Apart : t.headers[key] = SaidOf(t, req, cfg)[key]
      BY <1>4, <1>6, <3>3, <3>4 DEF AsRuled
    <3>6. t.body.coding = Nothing
      BY <1>3, <1>4, <3>2
    <3>. QED
      BY <3>2, <3>3, <3>5, <3>6 DEF AsRuled, t
  <2>. QED
    BY <2>2, <2>3
<1>. QED
  BY <1>9, <1>10
-----------------------------------------------------------------------------
(* The branches that answer with no file.                                  *)
LEMMA SamePlace ==
  ASSUME NEW t, NEW u, u.status = t.status, u.body.what = t.body.what, NEW r, NEW c
  PROVE  /\ PlaceOf(u, r) = PlaceOf(t, r) /\ OwnTypeOf(u, r, c) = OwnTypeOf(t, r, c)
         /\ SaidOf(u, r, c) = SaidOf(t, r, c) /\ TypeSaid(u, r, c) = TypeSaid(t, r, c)
<1>1. PlaceOf(u, r) = PlaceOf(t, r)
  BY Zenon DEF PlaceOf
<1>2. OwnTypeOf(u, r, c) = OwnTypeOf(t, r, c)
  BY Zenon DEF OwnTypeOf
<1>. QED
  BY <1>1, <1>2, Zenon DEF SaidOf, TypeSaid

LEMMA BareAsRuled ==
  ASSUME NEW c \in Configs, NEW r, NEW s, s # 206, NEW h, NEW what, what # "fallback",
         NEW version, NEW first, NEW count,
         NEW t, t = Response(s, h, Body(what, version, first, count)),
         PlaceOf(t, r) = Nothing, Plain(h, OwnTypeOf(t, r, c))
  PROVE  AsRuled(t, r, c)
<1>1. /\ Shaped(t) /\ t.status = s /\ t.headers = h /\ t.body.what = what /\ t.body.coding = Nothing
  BY BodyFields
<1>2. t.headers = Says(c.rules, h, PlaceOf(t, r))
  BY <1>1, NothingSaid
<1>. QED
  BY <1>1, <1>2, WholeAsRuled

LEMMA RuledAsRuled ==
  ASSUME NEW c \in Configs, NEW r, NEW s, s # 206, s \notin 300..399, NEW h,
         NEW what, what # "fallback", NEW version, NEW first, NEW count,
         NEW t, t = Response(s, h, Body(what, version, first, count)),
         Plain(h, OwnTypeOf(t, r, c))
  PROVE  AsRuled(apply_custom_headers(t, PlaceOf(t, r), c.rules), r, c)
<1>. DEFINE u == apply_custom_headers(t, PlaceOf(t, r), c.rules)
<1>1. /\ Shaped(t) /\ t.status = s /\ t.headers = h /\ t.body.what = what /\ t.body.coding = Nothing
  BY BodyFields
<1>2. /\ Shaped(u) /\ u.status = t.status /\ u.body = t.body
      /\ u.headers = Says(c.rules, t.headers, PlaceOf(t, r))
  BY <1>1, RuledResponse
<1>. HIDE DEF u
<1>3. PlaceOf(u, r) = PlaceOf(t, r) /\ OwnTypeOf(u, r, c) = OwnTypeOf(t, r, c)
  BY <1>2, SamePlace
<1>4. u.body.coding = Nothing /\ u.body.what # "fallback" /\ u.status # 206
  BY <1>1, <1>2
<1>5. u.headers = Says(c.rules, h, PlaceOf(u, r)) /\ Plain(h, OwnTypeOf(u, r, c))
  BY <1>1, <1>2, <1>3
<1>6. AsRuled(u, r, c)
  BY <1>2, <1>4, <1>5, WholeAsRuled
<1>. QED
  BY <1>6 DEF u

LEMMA PlainTyped == \A type : Plain(Typed(type), type)
BY HeadersOfMissing DEF Plain

(* The fallback is HTML after its rules as well.                           *)
LEMMA FallbackAsRuled ==
  ASSUME cfg \in Configs, error.status \in {400, 404}, error.skip = (req.finds = "refused")
  PROVE  AsRuled([FallbackRuled EXCEPT !.headers.type = Html], req, cfg)
<1>. DEFINE b == FallbackBare
            u == FallbackRuled
            h == [u.headers EXCEPT !.type = Html]
            t == [u EXCEPT !.headers.type = Html]
<1>1. /\ Shaped(b) /\ b.status = error.status /\ b.headers = Typed(Html)
      /\ b.body.what = "fallback" /\ b.body.coding = Nothing
  BY BodyFields DEF FallbackBare
<1>. HIDE DEF b
<1>2. PlaceOf(b, req) = IF error.skip THEN Nothing ELSE req.path
  <2>1. b.status # 405
    BY <1>1
  <2>2. PlaceOf(b, req) = IF req.finds = "refused" THEN Nothing ELSE req.path
    BY <1>1, <2>1, Zenon DEF PlaceOf
  <2>. QED
    BY <2>2
<1>3. /\ Shaped(u) /\ u.status = b.status /\ u.body = b.body
      /\ u.headers = Says(cfg.rules, b.headers, PlaceOf(b, req))
  <2>1. CASE error.skip
    <3>1. u = b
      BY <2>1 DEF FallbackRuled, b
    <3>2. u.headers = Says(cfg.rules, b.headers, Nothing)
      BY <3>1, NothingSaid
    <3>. QED
      BY <1>1, <1>2, <2>1, <3>1, <3>2
  <2>2. CASE ~error.skip
    <3>1. u = apply_custom_headers(b, req.path, cfg.rules)
      BY <2>2 DEF FallbackRuled, b
    <3>2. b.status \notin 300..399
      BY <1>1
    <3>. HIDE DEF u
    <3>. QED
      BY <1>1, <1>2, <2>2, <3>1, <3>2, RuledResponse
  <2>. QED
    BY <2>1, <2>2
<1>. HIDE DEF u
<1>4. OwnTypeOf(b, req, cfg) = Html
  BY <1>1, Zenon DEF OwnTypeOf
<1>5. RuledLike(u.headers, b, req, cfg)
  <2>1. Plain(b.headers, OwnTypeOf(b, req, cfg))
    BY <1>1, <1>4, PlainTyped
  <2>. QED
    BY <1>3, <2>1, WhatRulesSay
<1>6. Changed(h, u.headers, "type", Html)
  BY <1>5, HeaderSet DEF RuledLike
<1>. HIDE DEF h
<1>7. /\ Headers(h) /\ h["type"] = Html
      /\ h["length"] = SaidOf(b, req, cfg)["length"] /\ h["range"] = SaidOf(b, req, cfg)["range"]
      /\ \A key \in DOMAIN Missing \ Apart : h[key] = SaidOf(b, req, cfg)[key]
  BY <1>5, <1>6, FieldNames DEF Changed, RuledLike, Apart
<1>8. t = [status |-> u.status, headers |-> h, body |-> u.body]
  <2>1. t = [u EXCEPT !.headers = h]
    BY DEF h
  <2>. HIDE DEF t
  <2>. QED
    BY <1>3, <2>1, FieldsApart DEF Shaped
<1>. HIDE DEF t
<1>9. /\ Shaped(t) /\ t.status = b.status /\ t.body = b.body /\ t.headers = h
  BY <1>3, <1>8 DEF Shaped
<1>10. SaidOf(t, req, cfg) = SaidOf(b, req, cfg) /\ TypeSaid(t, req, cfg) = Html
  BY <1>1, <1>9, SamePlace DEF TypeSaid
<1>11. t.status # 206 /\ t.body.coding = Nothing
  BY <1>1, <1>9
<1>12. AsRuled(t, req, cfg)
  BY <1>7, <1>9, <1>10, <1>11 DEF AsRuled
<1>. QED
  BY <1>12 DEF t, u
-----------------------------------------------------------------------------
(* CORS, compression and framing: the last of the way, for the headers.    *)
LEMMA FilledHeaders ==
  ASSUME NEW h, Headers(h), NEW key \in DOMAIN Missing, NEW x
  PROVE  Changed(Filled(h, key, x), h, key, IF h[key] = Missing[key] THEN x ELSE h[key])
<1>1. Changed([h EXCEPT ![key] = x], h, key, x) /\ Changed(h, h, key, h[key])
  BY HeaderSet DEF Changed
<1>. QED
  BY <1>1, Zenon DEF Filled, Has

Others(g, h, keys) == \A key \in DOMAIN Missing \ keys : g[key] = h[key]

LEMMA CorsHeaders ==
  ASSUME NEW r, Shaped(r), Headers(r.headers), NEW t, t = apply_cors(r)
  PROVE  /\ Shaped(t) /\ t.status = r.status /\ t.body = r.body
         /\ Headers(t.headers) /\ Others(t.headers, r.headers, {"origin", "credentials"})
         /\ t.headers.origin = IF r.headers.origin = Missing.origin THEN "*" ELSE r.headers.origin
         /\ t.headers.credentials = IF r.headers.credentials = Missing.credentials THEN "true"
                                    ELSE r.headers.credentials
<1>. DEFINE o == r.headers
            f == Filled(o, "origin", "*")
            g == Filled(f, "credentials", "true")
<1>1. t = [r EXCEPT !.headers = g]
  BY DEF apply_cors
<1>. HIDE DEF g
<1>2. t = [status |-> r.status, headers |-> g, body |-> r.body]
  BY <1>1, FieldsApart DEF Shaped
<1>3. Changed(f, o, "origin", IF o["origin"] = Missing["origin"] THEN "*" ELSE o["origin"])
  BY FieldNames, FilledHeaders
<1>. HIDE DEF f
<1>4. Changed(g, f, "credentials", IF f["credentials"] = Missing["credentials"] THEN "true" ELSE f["credentials"])
  <2>1. Headers(f) /\ "credentials" \in DOMAIN Missing
    BY <1>3, FieldNames DEF Changed
  <2>. QED
    BY <2>1, FilledHeaders DEF g
<1>. HIDE DEF o
<1>5. /\ g["origin"] = IF o["origin"] = Missing["origin"] THEN "*" ELSE o["origin"]
      /\ g["credentials"] = IF o["credentials"] = Missing["credentials"] THEN "true" ELSE o["credentials"]
  BY <1>3, <1>4, FieldNames DEF Changed
<1>6. Headers(g) /\ Others(g, o, {"origin", "credentials"})
  BY <1>3, <1>4 DEF Changed, Others
<1>7. Shaped(t) /\ t.status = r.status /\ t.body = r.body /\ t.headers = g
  BY <1>2 DEF Shaped
<1>8. r.headers = o
  BY DEF o
<1>. QED
  BY <1>5, <1>6, <1>7, <1>8

(* An encoded answer.                                                      *)
LEMMA EncodedShape ==
  ASSUME NEW q, Shaped(q), Headers(q.headers), NEW coding, NEW t, t = encode(q, coding)
  PROVE  /\ Shaped(t) /\ t.status = q.status /\ t.body.coding = coding
         /\ t.body.what = q.body.what /\ t.body.version = q.body.version
         /\ t.body.first = q.body.first /\ t.body.count = q.body.count
         /\ Headers(t.headers) /\ Others(t.headers, q.headers, {"encoding", "length"})
         /\ t.headers.encoding = coding /\ t.headers.length = Length(q.body.count, coding)
<1>. DEFINE o == q.headers
            f == [o EXCEPT !.encoding = coding]
            g == [f EXCEPT !.length = Length(q.body.count, coding)]
            p == [q EXCEPT !.headers = f]
            m == [p EXCEPT !.headers = [p.headers EXCEPT !.length = Length(q.body.count, coding)]]
            b == [m.body EXCEPT !.coding = coding]
<1>0. q = [status |-> q.status, headers |-> q.headers, body |-> q.body]
  BY DEF Shaped
<1>1. t = [m EXCEPT !.body = b]
  BY DEF encode
<1>2. p = [status |-> q.status, headers |-> f, body |-> q.body]
  BY <1>0
<1>. HIDE DEF p
<1>3. m = [status |-> q.status, headers |-> g, body |-> q.body]
  BY <1>2
<1>. HIDE DEF m
<1>4. b = [what |-> q.body.what, version |-> q.body.version, first |-> q.body.first,
           count |-> q.body.count, coding |-> coding]
  BY <1>3 DEF Shaped
<1>. HIDE DEF b, g, o
<1>5. t = [status |-> q.status, headers |-> g, body |-> b]
  BY <1>1, <1>3
<1>6. Changed(f, o, "encoding", coding)
  BY HeaderSet DEF o
<1>. HIDE DEF f
<1>7. Headers(f)
  BY <1>6 DEF Changed
<1>8. Changed(g, f, "length", Length(q.body.count, coding))
  BY <1>7, HeaderSet DEF g
<1>9. /\ Headers(g) /\ Others(g, o, {"encoding", "length"})
      /\ g["encoding"] = coding /\ g["length"] = Length(q.body.count, coding)
  BY <1>6, <1>8, FieldNames DEF Changed, Others
<1>10. Shaped(t) /\ t.status = q.status /\ t.headers = g /\ t.body = b
  BY <1>4, <1>5 DEF Shaped
<1>11. /\ b.what = q.body.what /\ b.version = q.body.version /\ b.first = q.body.first
       /\ b.count = q.body.count /\ b.coding = coding
  BY <1>4
<1>. QED
  BY <1>9, <1>10, <1>11 DEF o

Varies(h) == "*" \in h.vary \/ "Accept-Encoding" \in h.vary

LEMMA VaryHeaders ==
  ASSUME NEW h, Headers(h), NEW g, g = append_vary_accept_encoding(h)
  PROVE  Headers(g) /\ Others(g, h, {"vary"}) /\ Varies(g)
<1>1. CASE "*" \in h.vary
  BY <1>1 DEF append_vary_accept_encoding, Varies, Others
<1>2. CASE "*" \notin h.vary
  <2>. DEFINE v == h.vary \union {"Accept-Encoding"}
  <2>1. g = [h EXCEPT !.vary = v]
    BY <1>2 DEF append_vary_accept_encoding
  <2>2. "Accept-Encoding" \in v
    OBVIOUS
  <2>. HIDE DEF v
  <2>3. Changed(g, h, "vary", v)
    BY <2>1, HeaderSet
  <2>4. g["vary"] = v /\ Others(g, h, {"vary"}) /\ Headers(g)
    BY <2>3, FieldNames DEF Changed, Others
  <2>. QED
    BY <2>2, <2>4 DEF Varies
<1>. QED
  BY <1>1, <1>2

(* negotiate returns a coding that is taken, or none.                      *)
LEMMA Negotiated ==
  ASSUME NEW tokens, negotiate(tokens) # Nothing
  PROVE  Ok(tokens, negotiate(tokens))
BY Zenon DEF negotiate, Nothing

(* The answer before the compression, and after it.                        *)
LEMMA CompressionHeaders ==
  ASSUME NEW r, Shaped(r), Headers(r.headers), r.body.coding = Nothing,
         NEW head, NEW tokens, NEW on, NEW t, t = maybe_apply(r, head, tokens, on)
  PROVE  /\ Shaped(t) /\ t.status = r.status
         /\ t.body.what = r.body.what /\ t.body.version = r.body.version
         /\ t.body.first = r.body.first /\ t.body.count = r.body.count
         /\ Headers(t.headers) /\ Others(t.headers, r.headers, {"vary", "encoding", "length"})
         /\ \/ /\ t.body.coding = Nothing
               /\ t.headers.encoding = r.headers.encoding /\ t.headers.length = r.headers.length
            \/ /\ t.body.coding # Nothing /\ Ok(tokens, t.body.coding) /\ Varies(t.headers)
               /\ r.headers.encoding \in {Nothing, "identity"}
               /\ t.headers.encoding = t.body.coding /\ t.headers.length = LengthOf(t.body)
<1>. DEFINE c == negotiate(tokens)
            h == append_vary_accept_encoding(r.headers)
            v == [r EXCEPT !.headers = h]
<1>1. \/ t = r
      \/ t = v
      \/ t = encode(v, c) /\ c # Nothing /\ v.headers.encoding \in {Nothing, "identity"}
  BY Zenon DEF maybe_apply, Encodes, Nothing
<1>2. Headers(h) /\ Others(h, r.headers, {"vary"}) /\ Varies(h)
  BY VaryHeaders
<1>. HIDE DEF h
<1>3. v = [status |-> r.status, headers |-> h, body |-> r.body]
  BY FieldsApart DEF Shaped
<1>. HIDE DEF v
<1>4. Shaped(v) /\ v.status = r.status /\ v.headers = h /\ v.body = r.body
  BY <1>3 DEF Shaped
<1>5. h["encoding"] = r.headers["encoding"] /\ h["length"] = r.headers["length"]
  BY <1>2, FieldNames DEF Others
<1>6. CASE t = r
  BY <1>6 DEF Others
<1>7. CASE t = v
  <2>1. Others(t.headers, r.headers, {"vary", "encoding", "length"})
    BY <1>2, <1>4, <1>7 DEF Others
  <2>. QED
    BY <1>2, <1>4, <1>5, <1>7, <2>1
<1>8. CASE t = encode(v, c) /\ c # Nothing /\ v.headers.encoding \in {Nothing, "identity"}
  <2>1. Ok(tokens, c)
    BY <1>8, Negotiated
  <2>. HIDE DEF c
  <2>2. /\ Shaped(t) /\ t.status = v.status /\ t.body.coding = c
        /\ t.body.what = v.body.what /\ t.body.version = v.body.version
        /\ t.body.first = v.body.first /\ t.body.count = v.body.count
        /\ Headers(t.headers) /\ Others(t.headers, v.headers, {"encoding", "length"})
        /\ t.headers.encoding = c /\ t.headers.length = Length(v.body.count, c)
    BY <1>2, <1>4, <1>8, EncodedShape
  <2>3. Others(t.headers, r.headers, {"vary", "encoding", "length"})
    BY <1>2, <1>4, <2>2 DEF Others
  <2>4. t.headers["vary"] = h["vary"]
    BY <1>4, <2>2, FieldNames DEF Others
  <2>5. Varies(t.headers)
    BY <1>2, <2>4 DEF Varies
  <2>6. t.headers.length = LengthOf(t.body)
    BY <2>2 DEF LengthOf
  <2>7. r.headers.encoding \in {Nothing, "identity"}
    BY <1>4, <1>5, <1>8
  <2>8. /\ t.status = r.status /\ t.body.what = r.body.what /\ t.body.version = r.body.version
        /\ t.body.first = r.body.first /\ t.body.count = r.body.count
    BY <1>4, <2>2
  <2>. QED
    BY <1>8, <2>1, <2>2, <2>3, <2>5, <2>6, <2>7, <2>8
<1>. QED
  BY <1>1, <1>6, <1>7, <1>8

(* What a sent answer says of itself: see RulesPerBranch, CorsAlways,      *)
(* SelfDescribed and CacheSafe.                                            *)
CorsOf(said, c, key, x) == IF c.cors /\ said = Missing[key] THEN x ELSE said

SentAsRuled(t, r, c) ==
  /\ t.headers["type"] = TypeSaid(t, r, c)
  /\ \A key \in {"mark", "transform"} : t.headers[key] = SaidOf(t, r, c)[key]
  /\ t.headers["origin"] = CorsOf(SaidOf(t, r, c)["origin"], c, "origin", "*")
  /\ t.headers["credentials"] = CorsOf(SaidOf(t, r, c)["credentials"], c, "credentials", "true")
  /\ t.headers["encoding"] = IF t.body.coding # Nothing THEN t.body.coding
                             ELSE SaidOf(t, r, c)["encoding"]
  /\ t.body.coding # Nothing => /\ SaidOf(t, r, c)["encoding"] \in {Nothing, "identity"}
                                /\ Ok(r.encodings, t.body.coding) /\ Varies(t.headers)
  /\ t.headers["length"] # LengthOf(t.body) =>
       /\ t.body.coding = Nothing /\ t.status # 206
       /\ t.headers["length"] = SaidOf(t, r, c)["length"]
  /\ t.status = 206 =>
       t.headers["range"] = Span(t.body.first, t.body.first + t.body.count - 1, Whole(t))
  /\ t.status \notin {206, 416} => t.headers["range"] = SaidOf(t, r, c)["range"]

LEMMA WithCorsHeaders ==
  ASSUME Shaped(resp), Headers(resp.headers), NEW t, t = WithCors(resp)
  PROVE  /\ Shaped(t) /\ t.status = resp.status /\ t.body = resp.body
         /\ Headers(t.headers) /\ Others(t.headers, resp.headers, {"origin", "credentials"})
         /\ t.headers["origin"] = CorsOf(resp.headers["origin"], cfg, "origin", "*")
         /\ t.headers["credentials"] = CorsOf(resp.headers["credentials"], cfg, "credentials", "true")
<1>1. CASE ~cfg.cors
  <2>1. t = resp
    BY <1>1 DEF WithCors
  <2>. QED
    BY <1>1, <2>1 DEF Others, CorsOf
<1>2. CASE cfg.cors
  <2>1. t = apply_cors(resp)
    BY <1>2 DEF WithCors
  <2>. QED
    BY <1>2, <2>1, CorsHeaders DEF CorsOf
<1>. QED
  BY <1>1, <1>2

LEMMA FramedHeaders ==
  ASSUME NEW m, Shaped(m), Headers(m.headers), NEW t, t = Framed(m)
  PROVE  /\ Shaped(t) /\ t.status = m.status /\ t.body = m.body
         /\ Headers(t.headers) /\ Others(t.headers, m.headers, {"length"})
         /\ t.headers["length"] \in {m.headers["length"], LengthOf(m.body)}
<1>. DEFINE h == Filled(m.headers, "length", LengthOf(m.body))
<1>1. t = [m EXCEPT !.headers = h]
  BY DEF Framed
<1>2. "length" \in DOMAIN Missing
  BY FieldNames
<1>3. Changed(h, m.headers, "length",
              IF m.headers["length"] = Missing["length"] THEN LengthOf(m.body) ELSE m.headers["length"])
  BY <1>2, FilledHeaders
<1>. HIDE DEF h
<1>4. t = [status |-> m.status, headers |-> h, body |-> m.body]
  BY <1>1, FieldsApart DEF Shaped
<1>5. Shaped(t) /\ t.status = m.status /\ t.headers = h /\ t.body = m.body
  BY <1>4 DEF Shaped
<1>. QED
  BY <1>2, <1>3, <1>5 DEF Changed, Others

(* The last of the way keeps what the rules said, but for what it says     *)
(* itself.                                                                 *)
LEMMA FinishAsRuled ==
  ASSUME AsRuled(resp, req, cfg)
  PROVE  LET t == Framed(Finished) IN Shaped(t) /\ Headers(t.headers) /\ SentAsRuled(t, req, cfg)
<1>. DEFINE q == WithCors(resp)
            m == Finished
            t == Framed(m)
<1>1. /\ Shaped(resp) /\ Headers(resp.headers) /\ resp.body.coding = Nothing
      /\ resp.headers["type"] = TypeSaid(resp, req, cfg)
      /\ \A key \in DOMAIN Missing \ Apart : resp.headers[key] = SaidOf(resp, req, cfg)[key]
      /\ resp.status # 206 => resp.headers["length"] = SaidOf(resp, req, cfg)["length"]
      /\ resp.status \notin {206, 416} => resp.headers["range"] = SaidOf(resp, req, cfg)["range"]
      /\ resp.status = 206 =>
           /\ resp.headers["length"] = Length(resp.body.count, Nothing)
           /\ resp.headers["range"] =
                Span(resp.body.first, resp.body.first + resp.body.count - 1, Whole(resp))
  BY DEF AsRuled
<1>2. /\ Shaped(q) /\ q.status = resp.status /\ q.body = resp.body
      /\ Headers(q.headers) /\ Others(q.headers, resp.headers, {"origin", "credentials"})
      /\ q.headers["origin"] = CorsOf(resp.headers["origin"], cfg, "origin", "*")
      /\ q.headers["credentials"] = CorsOf(resp.headers["credentials"], cfg, "credentials", "true")
  BY <1>1, WithCorsHeaders
<1>3. m = maybe_apply(q, IsHead, req.encodings, cfg.compression)
  BY DEF Finished
<1>. HIDE DEF q, m
<1>4. q.body.coding = Nothing
  BY <1>1, <1>2
<1>5. /\ Shaped(m) /\ m.status = q.status
      /\ m.body.what = q.body.what /\ m.body.version = q.body.version
      /\ m.body.first = q.body.first /\ m.body.count = q.body.count
      /\ Headers(m.headers) /\ Others(m.headers, q.headers, {"vary", "encoding", "length"})
      /\ \/ /\ m.body.coding = Nothing
            /\ m.headers["encoding"] = q.headers["encoding"]
            /\ m.headers["length"] = q.headers["length"]
         \/ /\ m.body.coding # Nothing /\ Ok(req.encodings, m.body.coding) /\ Varies(m.headers)
            /\ q.headers["encoding"] \in {Nothing, "identity"}
            /\ m.headers["encoding"] = m.body.coding /\ m.headers["length"] = LengthOf(m.body)
  BY <1>2, <1>3, <1>4, CompressionHeaders
<1>6. /\ Shaped(t) /\ t.status = m.status /\ t.body = m.body
      /\ Headers(t.headers) /\ Others(t.headers, m.headers, {"length"})
      /\ t.headers["length"] \in {m.headers["length"], LengthOf(m.body)}
  BY <1>5, FramedHeaders
<1>. HIDE DEF t
<1>7. t.status = resp.status /\ t.body.what = resp.body.what
  BY <1>2, <1>5, <1>6
<1>8. SaidOf(t, req, cfg) = SaidOf(resp, req, cfg) /\ TypeSaid(t, req, cfg) = TypeSaid(resp, req, cfg)
  BY <1>7, SamePlace
<1>9. /\ t.headers["type"] = resp.headers["type"] /\ t.headers["mark"] = resp.headers["mark"]
      /\ t.headers["transform"] = resp.headers["transform"]
      /\ t.headers["range"] = resp.headers["range"]
      /\ t.headers["origin"] = q.headers["origin"]
      /\ t.headers["credentials"] = q.headers["credentials"]
      /\ t.headers["encoding"] = m.headers["encoding"] /\ t.headers["vary"] = m.headers["vary"]
      /\ q.headers["encoding"] = resp.headers["encoding"]
      /\ q.headers["length"] = resp.headers["length"]
  BY <1>2, <1>5, <1>6, FieldNames DEF Others
<1>. DEFINE said == SaidOf(resp, req, cfg)
<1>10. /\ resp.headers["mark"] = said["mark"] /\ resp.headers["transform"] = said["transform"]
       /\ resp.headers["origin"] = said["origin"] /\ resp.headers["credentials"] = said["credentials"]
       /\ resp.headers["encoding"] = said["encoding"]
  BY <1>1, FieldNames DEF Apart
<1>. HIDE DEF said
<1>11. t.headers["type"] = TypeSaid(t, req, cfg)
  BY <1>1, <1>8, <1>9
<1>12. \A key \in {"mark", "transform"} : t.headers[key] = said[key]
  BY <1>9, <1>10
<1>13. /\ t.headers["origin"] = CorsOf(said["origin"], cfg, "origin", "*")
       /\ t.headers["credentials"] = CorsOf(said["credentials"], cfg, "credentials", "true")
  BY <1>2, <1>9, <1>10
<1>14. /\ t.headers["encoding"] = IF t.body.coding # Nothing THEN t.body.coding ELSE said["encoding"]
       /\ t.body.coding # Nothing => /\ said["encoding"] \in {Nothing, "identity"}
                                     /\ Ok(req.encodings, t.body.coding) /\ Varies(t.headers)
  BY <1>5, <1>6, <1>9, <1>10 DEF Varies
<1>15. t.status = 206 =>
         t.headers["range"] = Span(t.body.first, t.body.first + t.body.count - 1, Whole(t))
  <2>1. t.body.first = resp.body.first /\ t.body.count = resp.body.count /\ Whole(t) = Whole(resp)
    BY <1>2, <1>5, <1>6 DEF Whole
  <2>. QED
    BY <1>1, <1>7, <1>9, <2>1
<1>16. t.status \notin {206, 416} => t.headers["range"] = said["range"]
  BY <1>1, <1>7, <1>9 DEF said
<1>17. t.headers["length"] # LengthOf(t.body) =>
         /\ t.body.coding = Nothing /\ t.status # 206
         /\ t.headers["length"] = said["length"]
  <2>. SUFFICES ASSUME t.headers["length"] # LengthOf(t.body)
                PROVE  /\ t.body.coding = Nothing /\ t.status # 206
                       /\ t.headers["length"] = said["length"]
    OBVIOUS
  <2>1. m.body.coding = Nothing /\ t.headers["length"] = resp.headers["length"]
    BY <1>5, <1>6, <1>9
  <2>2. LengthOf(t.body) = Length(resp.body.count, Nothing)
    BY <1>2, <1>5, <1>6, <2>1 DEF LengthOf
  <2>3. t.status # 206
    BY <1>1, <1>7, <2>1, <2>2
  <2>. QED
    BY <1>1, <1>6, <1>7, <2>1, <2>3 DEF said
<1>18. SentAsRuled(t, req, cfg)
  BY <1>8, <1>11, <1>12, <1>13, <1>14, <1>15, <1>16, <1>17 DEF SentAsRuled, said
<1>. QED
  BY <1>6, <1>18 DEF t, m
-----------------------------------------------------------------------------
(* The invariant: an answer has the headers of its branch from the step    *)
(* that builds it.  Only a request that was refused skips the rules.       *)
HeadersInv ==
  /\ cfg \in Configs
  /\ pc = "error" => error.status \in {400, 404} /\ error.skip = (req.finds = "refused")
  /\ pc \in {"found", "listing"} => req.finds # "refused"
  /\ pc = "built" => AsRuled(resp, req, cfg)
  /\ pc = "sent" => SentAsRuled(resp, req, cfg)

LEMMA HeadersInit == Init => HeadersInv
BY DEF Init, HeadersInv

LEMMA HeadersStep == RangeInv /\ HeadersInv /\ [Next]_vars => HeadersInv'
<1>. SUFFICES ASSUME RangeInv, HeadersInv, [Next]_vars PROVE HeadersInv'
  OBVIOUS
<1>0. TypesOK /\ cfg \in Configs
  BY DEF RangeInv, HeadersInv
<1>1. ASSUME NEW t, Build(t), AsRuled(t, req, cfg) PROVE HeadersInv'
  BY <1>1 DEF Build, HeadersInv
<1>2. ASSUME NEW s \in {400, 404}, Err(s, FALSE), req.finds # "refused" PROVE HeadersInv'
  <2>1. error'.skip = FALSE /\ req' = req /\ cfg' = cfg /\ error'.status = s /\ pc' = "error"
    BY <1>2 DEF Err
  <2>2. error'.skip = (req'.finds = "refused")
    BY <1>2, <2>1, Zenon
  <2>. QED
    BY <2>1, <2>2 DEF HeadersInv
<1>3. ASSUME NEW stage \in {"found", "listing"}, Go(stage), req.finds # "refused" PROVE HeadersInv'
  BY <1>3 DEF Go, HeadersInv
<1>4. CASE \E r \in Requests : Ask(r)
  BY <1>4 DEF Ask, HeadersInv
<1>5. CASE MethodNotAllowed
  <2>. DEFINE b == Response(405, Missing, NoBody)
              t == apply_custom_headers(b, PlaceOf(b, req), cfg.rules)
  <2>1. b.status = 405 /\ b.body.what = "none"
    BY BodyFields DEF NoBody
  <2>2. PlaceOf(b, req) = req.raw /\ OwnTypeOf(b, req, cfg) = Missing.type
    <3>. HIDE DEF b
    <3>. QED
      BY <2>1, Zenon DEF PlaceOf, OwnTypeOf
  <2>3. Plain(Missing, OwnTypeOf(b, req, cfg))
    BY <2>2, HeadersOfMissing DEF Plain
  <2>4. AsRuled(t, req, cfg)
    BY <1>0, <2>3, RuledAsRuled DEF NoBody
  <2>5. Build(t)
    BY <1>5, <2>2 DEF MethodNotAllowed
  <2>. HIDE DEF t
  <2>. QED
    BY <1>1, <2>4, <2>5
<1>6. CASE BadRequest
  <2>1. /\ error'.skip = TRUE /\ req'.finds = "refused" /\ cfg' = cfg
        /\ error'.status = 400 /\ pc' = "error"
    BY <1>6 DEF BadRequest, AskedFor, Err
  <2>2. error'.skip = (req'.finds = "refused")
    BY <2>1, Zenon
  <2>. QED
    BY <2>1, <2>2 DEF HeadersInv
<1>7. CASE Redirected
  <2>. DEFINE t == Response(301, Missing, NoBody)
  <2>1. t.status = 301 /\ t.body.what = "none"
    BY BodyFields DEF NoBody
  <2>2. PlaceOf(t, req) = Nothing /\ OwnTypeOf(t, req, cfg) = Missing.type
    <3>1. t.status # 405
      BY <2>1
    <3>. HIDE DEF t
    <3>. QED
      BY <2>1, <3>1, Zenon DEF PlaceOf, OwnTypeOf
  <2>3. Plain(Missing, OwnTypeOf(t, req, cfg))
    BY <2>2, HeadersOfMissing DEF Plain
  <2>4. AsRuled(t, req, cfg)
    BY <1>0, <2>2, <2>3, BareAsRuled DEF NoBody
  <2>5. Build(t)
    BY <1>7 DEF Redirected
  <2>. HIDE DEF t
  <2>. QED
    BY <1>1, <2>4, <2>5
<1>8. CASE NotFound
  <2>1. Err(404, FALSE) /\ req.finds # "refused"
    BY <1>8 DEF NotFound, AskedFor
  <2>. QED
    BY <1>2, <2>1
<1>9. CASE ResolveFile
  <2>1. (Err(404, FALSE) \/ Go("found")) /\ req.finds # "refused"
    BY <1>9 DEF ResolveFile, AskedFor
  <2>. QED
    BY <1>2, <1>3, <2>1
<1>10. CASE ResolveDirectory
  <2>1. (Err(404, FALSE) \/ Go("listing")) /\ req.finds # "refused"
    BY <1>10 DEF ResolveDirectory
  <2>. QED
    BY <1>2, <1>3, <2>1
<1>11. CASE ReadFile
  <2>1. CASE Disk.asset = 0 \/ ~Disk.readable
    <3>1. Err(404, FALSE) /\ req.finds # "refused"
      BY <1>11, <2>1 DEF ReadFile, HeadersInv
    <3>. QED
      BY <1>2, <3>1
  <2>2. CASE ~(Disk.asset = 0 \/ ~Disk.readable)
    <3>1. Disk.asset \in Versions
      BY <1>0, DiskTyped
    <3>. DEFINE t == build_file("file", Disk.asset, cfg.type, Size(Disk.asset), req.at)
    <3>2. AsRuled(t, req, cfg)
      BY <1>0, <3>1, FileAsRuled
    <3>3. Build(t)
      BY <1>11, <2>2 DEF ReadFile
    <3>. HIDE DEF t
    <3>. QED
      BY <1>1, <3>2, <3>3
  <2>. QED
    BY <2>1, <2>2
<1>12. CASE ReadDirectory
  BY <1>12 DEF ReadDirectory, HeadersInv
<1>13. CASE Listed
  <2>. DEFINE type == IF listing_accepts_json(req.accept) THEN Json ELSE Html
              t == Response(200, Typed(type), Body("listing", 0, 0, SmallText + Len(scan.shown)))
  <2>1. t.status = 200 /\ t.body.what = "listing"
    BY BodyFields
  <2>2. PlaceOf(t, req) = Nothing /\ OwnTypeOf(t, req, cfg) = type
    <3>1. t.status # 405
      BY <2>1
    <3>. HIDE DEF t
    <3>. QED
      BY <2>1, <3>1, Zenon DEF PlaceOf, OwnTypeOf
  <2>3. AsRuled(t, req, cfg)
    BY <1>0, <2>2, PlainTyped, BareAsRuled
  <2>4. Build(t)
    BY <1>13 DEF Listed
  <2>. HIDE DEF t
  <2>. QED
    BY <1>1, <2>3, <2>4
<1>14. CASE NotListed
  <2>1. Err(404, FALSE) /\ req.finds # "refused"
    BY <1>14 DEF NotListed, Read, HeadersInv
  <2>. QED
    BY <1>2, <2>1
<1>15. CASE SingleFile
  <2>1. 0 \in Versions
    BY SizesAssumption DEF Versions
  <2>. DEFINE t == build_file("lone", 0, cfg.type, Size(1), req.at)
  <2>2. AsRuled(t, req, cfg)
    BY <1>0, <2>1, FileAsRuled
  <2>3. Build(t)
    BY <1>15 DEF SingleFile
  <2>. HIDE DEF t
  <2>. QED
    BY <1>1, <2>2, <2>3
<1>16. CASE ListingFailed
  <2>1. Err(404, FALSE) /\ req.finds # "refused"
    BY <1>16 DEF ListingFailed, Read, HeadersInv
  <2>. QED
    BY <1>2, <2>1
<1>17. CASE ErrorJson
  <2>. DEFINE t == Response(error.status, Typed(Json), Body("json", 0, 0, SmallText))
  <2>1. t.status = error.status /\ t.body.what = "json" /\ error.status \in {400, 404}
    BY <1>17, BodyFields DEF ErrorJson, HeadersInv
  <2>2. PlaceOf(t, req) = Nothing /\ OwnTypeOf(t, req, cfg) = Json
    <3>1. t.status # 405
      BY <2>1
    <3>. HIDE DEF t
    <3>. QED
      BY <2>1, <3>1, Zenon DEF PlaceOf, OwnTypeOf
  <2>3. AsRuled(t, req, cfg)
    BY <1>0, <2>1, <2>2, PlainTyped, BareAsRuled
  <2>4. Build(t)
    BY <1>17 DEF ErrorJson
  <2>. HIDE DEF t
  <2>. QED
    BY <1>1, <2>3, <2>4
<1>18. CASE ErrorPage
  <2>. DEFINE b == Response(error.status, Typed(Html), Body("page", error.status, 0, PageSize))
              t == apply_custom_headers(b, PlaceOf(b, req), cfg.rules)
  <2>1. b.status = error.status /\ b.body.what = "page" /\ error.status \in {400, 404}
    BY <1>18, BodyFields DEF ErrorPage, HeadersInv
  <2>2. PlaceOf(b, req) = Page(error.status) /\ OwnTypeOf(b, req, cfg) = Html
    <3>1. b.status # 405
      BY <2>1
    <3>. HIDE DEF b
    <3>. QED
      BY <2>1, <3>1, Zenon DEF PlaceOf, OwnTypeOf
  <2>3. AsRuled(t, req, cfg)
    BY <1>0, <2>1, <2>2, PlainTyped, RuledAsRuled
  <2>4. Build(t)
    BY <1>18, <2>2 DEF ErrorPage
  <2>. HIDE DEF t
  <2>. QED
    BY <1>1, <2>3, <2>4
<1>19. CASE ErrorFallback
  <2>. DEFINE t == [FallbackRuled EXCEPT !.headers.type = Html]
  <2>1. AsRuled(t, req, cfg)
    BY <1>19, FallbackAsRuled DEF ErrorFallback, HeadersInv
  <2>2. Build(t)
    BY <1>19 DEF ErrorFallback
  <2>. HIDE DEF t
  <2>. QED
    BY <1>1, <2>1, <2>2
<1>20. CASE Finish
  <2>1. AsRuled(resp, req, cfg) /\ cfg \in Configs
    BY <1>20 DEF Finish, HeadersInv
  <2>2. SentAsRuled(Framed(Finished), req, cfg)
    BY <2>1, FinishAsRuled
  <2>3. pc' = "sent" /\ resp' = Framed(Finished) /\ req' = req /\ cfg' = cfg
    BY <1>20 DEF Finish
  <2>. QED
    BY <2>1, <2>2, <2>3 DEF HeadersInv
<1>21. CASE Change
  BY <1>21 DEF Change, HeadersInv
<1>22. CASE Done
  BY <1>22 DEF Done, HeadersInv
<1>23. CASE UNCHANGED vars
  BY <1>23 DEF vars, HeadersInv
<1>. QED
  BY <1>4, <1>5, <1>6, <1>7, <1>8, <1>9, <1>10, <1>11, <1>12, <1>13, <1>14, <1>15, <1>16,
     <1>17, <1>18, <1>19, <1>20, <1>21, <1>22, <1>23 DEF Next, Handler

LEMMA HeadersAlways == Spec => []HeadersInv
BY RangeInit, RangeStep, HeadersInit, HeadersStep, PTL DEF Spec

LEMMA SaidHere ==
  /\ \A h : Said(h) = Says(cfg.rules, h, PlaceOf(resp, req))
  /\ OwnType = OwnTypeOf(resp, req, cfg)
<1>1. \A h : Said(h) = Says(cfg.rules, h, PlaceOf(resp, req))
  BY Zenon DEF Said, Says, RulePlace, PlaceOf, Held, Nothing
<1>2. OwnType = OwnTypeOf(resp, req, cfg)
  BY Zenon DEF OwnType, OwnTypeOf, Held
<1>. QED
  BY <1>1, <1>2

LEMMA RuledHere == \A key : Ruled(key) = SaidOf(resp, req, cfg)[key]
BY SaidHere, Zenon DEF Ruled, SaidOf

(* Whichever branch answers, the headers are those of the rules for what   *)
(* the answer holds, and a fallback is HTML (handler.rs and dispatch.rs,   *)
(* the calls of apply_custom_headers): see RulesPerBranch.                 *)
THEOREM AnswersAsRuled == Spec => []RulesPerBranch
<1>1. HeadersInv => RulesPerBranch
  <2>. SUFFICES ASSUME HeadersInv, Sent PROVE
         /\ resp.headers["mark"] = Ruled("mark")
         /\ resp.headers["type"] = IF Held = "fallback" THEN Html ELSE Said(Typed(OwnType)).type
         /\ resp.headers["transform"] = Ruled("transform")
    BY DEF RulesPerBranch
  <2>1. SentAsRuled(resp, req, cfg)
    BY DEF HeadersInv, Sent
  <2>2. TypeSaid(resp, req, cfg) = IF Held = "fallback" THEN Html ELSE Said(Typed(OwnType)).type
    BY SaidHere DEF TypeSaid, Held
  <2>. QED
    BY <2>1, <2>2, RuledHere DEF SentAsRuled
<1>. QED
  BY <1>1, HeadersAlways, PTL

(* With --cors every answer has the CORS headers, and a rule's value is    *)
(* kept; without it they are those of the rules (server.rs, apply_cors):   *)
(* see CorsAlways.                                                         *)
THEOREM CorsOnEveryAnswer == Spec => []CorsAlways
<1>1. HeadersInv => CorsAlways
  <2>. SUFFICES ASSUME HeadersInv, Sent, NEW key \in {"origin", "credentials"}
                PROVE  resp.headers[key] = IF cfg.cors /\ Ruled(key) = Missing[key]
                                           THEN (IF key = "origin" THEN "*" ELSE "true")
                                           ELSE Ruled(key)
    BY DEF CorsAlways
  <2>1. SentAsRuled(resp, req, cfg)
    BY DEF HeadersInv, Sent
  <2>2. CASE key = "origin"
    BY <2>1, <2>2, RuledHere DEF SentAsRuled, CorsOf
  <2>3. CASE key = "credentials"
    BY <2>1, <2>3, RuledHere DEF SentAsRuled, CorsOf
  <2>. QED
    BY <2>2, <2>3
<1>. QED
  BY <1>1, HeadersAlways, PTL

(* The coding, the length and the range an answer names are those of its   *)
(* body, unless nothing replaced what a rule said (compression.rs          *)
(* maybe_apply, range.rs build_206): see SelfDescribed.                    *)
THEOREM AnswersSelfDescribed == Spec => []SelfDescribed
<1>1. HeadersInv => SelfDescribed
  <2>. SUFFICES ASSUME HeadersInv, Sent PROVE
    /\ resp.headers["encoding"] = IF resp.body.coding # Nothing THEN resp.body.coding
                                  ELSE Ruled("encoding")
    /\ resp.body.coding # Nothing => Ruled("encoding") \in {Nothing, "identity"}
    /\ resp.headers["length"] # LengthOf(resp.body) =>
         /\ resp.body.coding = Nothing /\ resp.status # 206
         /\ resp.headers["length"] = Ruled("length")
    /\ resp.status = 206 =>
         resp.headers["range"] = Span(resp.body.first, resp.body.first + resp.body.count - 1,
                                      IF Held = "lone" THEN Size(1) ELSE Size(resp.body.version))
    /\ resp.status \notin {206, 416} => resp.headers["range"] = Ruled("range")
    BY Zenon DEF SelfDescribed, Nothing
  <2>1. SentAsRuled(resp, req, cfg)
    BY DEF HeadersInv, Sent
  <2>. QED
    BY <2>1, RuledHere DEF SentAsRuled, Whole, Held
<1>. QED
  BY <1>1, HeadersAlways, PTL

(* A body is encoded only for a client that takes it, and then the answer  *)
(* varies with Accept-Encoding: no cache gives it to another client        *)
(* (compression.rs, negotiate and append_vary_accept_encoding): see        *)
(* CacheSafe.                                                              *)
THEOREM CachesSafe == Spec => []CacheSafe
<1>1. HeadersInv => CacheSafe
  <2>. SUFFICES ASSUME HeadersInv, Sent
                PROVE  /\ Takes(req, resp.body.coding)
                       /\ \A r \in Requests : Reusable(r) => Takes(r, resp.body.coding)
    BY DEF CacheSafe
  <2>1. resp.body.coding # Nothing => Ok(req.encodings, resp.body.coding) /\ Varies(resp.headers)
    BY DEF HeadersInv, Sent, SentAsRuled
  <2>2. \A r : Takes(r, resp.body.coding) <=>
                 resp.body.coding = Nothing \/ Ok(r.encodings, resp.body.coding)
    BY Zenon DEF Takes, Nothing
  <2>. QED
    BY <2>1, <2>2 DEF Reusable, Varies
<1>. QED
  BY <1>1, HeadersAlways, PTL
=============================================================================
