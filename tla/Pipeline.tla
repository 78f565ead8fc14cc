------------------------------ MODULE Pipeline ------------------------------
(***************************************************************************)
(* What an answer goes through between its file and the wire: the header   *)
(* rules, the byte range, the CORS headers and the compression.  Each step *)
(* is an operator from answers to answers; Responses puts them in order.   *)
(*                                                                         *)
(* Headers are a record with a field for each name in use; Missing says    *)
(* how the absence of each is written.  A body is a run of the bytes of    *)
(* some content, as it is or encoded.  A length is that of a run of n      *)
(* bytes in a coding ("" when it is not encoded).                          *)
(***************************************************************************)
EXTENDS Integers, Sequences, SequencesExt, FiniteSets

CONSTANTS
  MaxInt,       \* i64::MAX
  Threshold     \* DEFAULT_THRESHOLD

ASSUME MaxIntAssumption == MaxInt \in Nat \ {0}
ASSUME ThresholdAssumption == Threshold \in Nat \ {0}
-----------------------------------------------------------------------------
(* parse_range.  A Range header is its unit and its ranges between commas; *)
(* a range is what stands between its hyphens, and each piece begins with  *)
(* a number (of any size, with or without a plus sign) or does not.  There *)
(* are no signed pieces: "0--3" is a 0, nothing, and a 3.                  *)
NoNumber     == [number |-> FALSE, value |-> 0]
Number(n)    == [number |-> TRUE, value |-> n]
Pieces       == [number : BOOLEAN, value : Nat]
RangeHeaders == [unit : {"bytes", "other"}, ranges : Seq(Seq(Pieces))]

parse_int_js(piece) == IF piece.value > MaxInt THEN MaxInt ELSE piece.value

Unsatisfiable       == [ok |-> FALSE, start |-> 0, end |-> 0]
InRange(start, end) == [ok |-> TRUE, start |-> start, end |-> end]

(* The clipped range, if there is one. *)
Clip_late(total, end) == IF end > total THEN total - 1 ELSE end
Clip(total, end) == IF end > total - 1 THEN total - 1 ELSE end

Clipped(total, start, end) ==
  IF start > Clip(total, end) \/ start < 0 \/ Clip(total, end) < 0
  THEN Unsatisfiable
  ELSE InRange(start, Clip(total, end))

ParsePieces(first, last, total) ==
  CASE first.number /\ last.number   -> Clipped(total, parse_int_js(first), parse_int_js(last))
    [] first.number /\ ~last.number  -> Clipped(total, parse_int_js(first), total - 1)
    [] ~first.number /\ last.number  -> Clipped(total, total - parse_int_js(last), total - 1)
    [] ~first.number /\ ~last.number -> Unsatisfiable

FirstPiece(pieces) == IF Len(pieces) > 0 THEN pieces[1] ELSE NoNumber
LastPiece(pieces)  == IF Len(pieces) > 1 THEN pieces[2] ELSE NoNumber

(* Only the first range is looked at. *)
parse_range(header, total) ==
  IF header.unit # "bytes" \/ header.ranges = <<>>
  THEN Unsatisfiable
  ELSE ParsePieces(FirstPiece(header.ranges[1]), LastPiece(header.ranges[1]), total)
-----------------------------------------------------------------------------
(* negotiate.  An Accept-Encoding header is the sequence of its tokens:    *)
(* the coding, and whether it is refused (q=0).  Other weights and         *)
(* malformed ones count as acceptance.                                     *)
Codings == {"br", "gzip", "deflate"}
Token(name, zero) == [name |-> name, zero |-> zero]

Allowed(tokens) == {tokens[i].name : i \in {j \in DOMAIN tokens : ~tokens[j].zero}}
Refused(tokens) == {tokens[i].name : i \in {j \in DOMAIN tokens : tokens[j].zero}}

Ok(tokens, coding) ==
  (coding \in Allowed(tokens) \/ "*" \in Allowed(tokens)) /\ coding \notin Refused(tokens)

negotiate(tokens) ==
  IF "*" \in Refused(tokens) /\ Allowed(tokens) \intersect Codings = {} THEN ""
  ELSE CASE Ok(tokens, "br")                            -> "br"
         [] ~Ok(tokens, "br") /\ Ok(tokens, "gzip")     -> "gzip"
         [] ~Ok(tokens, "br") /\ ~Ok(tokens, "gzip") /\ Ok(tokens, "deflate") -> "deflate"
         [] OTHER                                       -> ""
-----------------------------------------------------------------------------
(* Headers and bodies.                                                     *)
MediaType(top, sub, suffix) == [top |-> top, sub |-> sub, suffix |-> suffix]
Html == MediaType("text", "html", "")
Json == MediaType("application", "json", "")

Length(n, coding) == [n |-> n, coding |-> coding]
Span(start, end, total) == [start |-> start, end |-> end, total |-> total]

Missing ==
  [type |-> MediaType("", "", ""), length |-> Length(-1, ""), range |-> Span(-1, -1, -1),
   encoding |-> "", vary |-> {}, etag |-> 0, transform |-> TRUE,
   origin |-> "", credentials |-> "", mark |-> ""]

Has(headers, key) == headers[key] # Missing[key]

Body(what, version, first, count) ==
  [what |-> what, version |-> version, first |-> first, count |-> count, coding |-> ""]
NoBody == Body("none", 0, 0, 0)

LengthOf(body) == Length(body.count, body.coding)

Response(status, headers, body) == [status |-> status, headers |-> headers, body |-> body]
-----------------------------------------------------------------------------
(* apply_custom_headers.  Rules are those that compiled: the places they   *)
(* match and their items.  An item sets a header or, with null, removes    *)
(* it; one with a name or a value that no header can have is passed over.  *)
Item(key, value) == [key |-> key, value |-> value, ok |-> TRUE]
Null(key)        == Item(key, Missing[key])

ApplyItem(headers, item) ==
  IF item.ok THEN [headers EXCEPT ![item.key] = item.value] ELSE headers

ApplyRule(headers, rule, place) ==
  IF place \in rule.places THEN FoldLeft(ApplyItem, headers, rule.items) ELSE headers

Redirection(resp) == resp.status \in 300..399

apply_custom_headers(resp, place, rules) ==
  IF Redirection(resp) THEN resp
  ELSE [resp EXCEPT !.headers = FoldLeft(LAMBDA h, rule : ApplyRule(h, rule, place), @, rules)]
-----------------------------------------------------------------------------
(* range::apply, on a 200 that already has its rules.  A 206 says what it  *)
(* holds whatever the rules said; a 416 keeps a Content-Range of theirs    *)
(* and the whole body.                                                     *)
build_206(resp, r, total) ==
  [resp EXCEPT !.status = 206,
               !.headers.range  = Span(r.start, r.end, total),
               !.headers.length = Length(r.end - r.start + 1, ""),
               !.body.first = r.start,
               !.body.count = r.end - r.start + 1]

build_416(resp, total) ==
  [resp EXCEPT !.status = 416,
               !.headers.range = IF Has(resp.headers, "range") THEN @ ELSE Span(-1, -1, total)]

apply_range(resp, header, total) ==
  LET r == parse_range(header, total)
  IN  IF r.ok THEN build_206(resp, r, total) ELSE build_416(resp, total)
-----------------------------------------------------------------------------
(* apply_cors: two of the four headers stand for all. *)
Filled_over(headers, key, value) == [headers EXCEPT ![key] = value]

Filled(headers, key, value) ==
  IF Has(headers, key) THEN headers ELSE [headers EXCEPT ![key] = value]

apply_cors(resp) ==
  [resp EXCEPT !.headers = Filled(Filled(@, "origin", "*"), "credentials", "true")]
-----------------------------------------------------------------------------
(* compression::maybe_apply.                                               *)
Allowlist == {<<"application", "json">>, <<"application", "javascript">>,
              <<"application", "wasm">>, <<"image", "svg+xml">>}

is_compressible(type) ==
  \/ <<type.top, type.sub>> \in Allowlist
  \/ type.top = "text"
  \/ type.suffix \in {"json", "text", "xml"}

append_vary_accept_encoding_once(headers) ==
  IF headers.vary # {} THEN headers ELSE [headers EXCEPT !.vary = {"Accept-Encoding"}]

append_vary_accept_encoding(headers) ==
  IF "*" \in headers.vary THEN headers
  ELSE [headers EXCEPT !.vary = @ \union {"Accept-Encoding"}]

Encodes_again(resp, head, tokens) ==
  ~head /\ resp.body.count >= Threshold /\ negotiate(tokens) # ""

Encodes(resp, head, tokens) ==
  /\ ~head
  /\ resp.headers.encoding \in {"", "identity"}
  /\ resp.body.count >= Threshold
  /\ negotiate(tokens) # ""

encode(resp, coding) ==
  [resp EXCEPT !.headers.encoding = coding,
               !.headers.length   = Length(resp.body.count, coding),
               !.body.coding      = coding]

maybe_apply(resp, head, tokens, on) ==
  IF ~on \/ ~is_compressible(resp.headers.type) \/ ~resp.headers.transform
  THEN resp
  ELSE LET varied == [resp EXCEPT !.headers = append_vary_accept_encoding(@)]
       IN  IF Encodes(varied, head, tokens) THEN encode(varied, negotiate(tokens)) ELSE varied
=============================================================================
