---------------------------- MODULE MCResponses ----------------------------
(* A file with versions above, at and below the threshold and an empty one; *)
(* a directory of two entries and a hidden one; every kind of header rule.  *)
EXTENDS Responses

f     == "/file"
older == "/old"
Sub   == "/dir"
Lone  == "/dir/1"

Text == MediaType("text", "plain", "")
Png  == MediaType("image", "png", "")
Svg  == MediaType("image", "svg+xml", "xml")

Everywhere == {f, older, Sub, Lone, "/%66ile", "/404.html", "/400.html"}

HeaderRule(places, items) == [places |-> places, items |-> items]
Bad(key, value) == [key |-> key, value |-> value, ok |-> FALSE]

OfPlaces ==
  <<HeaderRule({f}, <<Item("mark", "file")>>), HeaderRule({older}, <<Item("mark", "old")>>),
    HeaderRule({"/404.html", "/400.html"}, <<Item("mark", "page"), Item("type", Text)>>),
    HeaderRule({Lone}, <<Item("mark", "lone")>>)>>

Encoded == <<HeaderRule(Everywhere, <<Item("encoding", "gzip"), Item("range", Span(0, 0, 9))>>)>>

RuleLists ==
  {<<>>, OfPlaces, Encoded,
   <<HeaderRule(Everywhere, <<Item("mark", "all"), Item("type", Png)>>),
     HeaderRule({f, "/%66ile"}, <<Null("mark"), Bad("mark", "bad")>>)>>,
   <<HeaderRule(Everywhere, <<Item("origin", "example")>>), HeaderRule({f}, <<Null("origin")>>)>>,
   <<HeaderRule(Everywhere, <<Item("vary", {"Cookie"}), Item("encoding", "identity")>>)>>,
   <<HeaderRule(Everywhere, <<Item("vary", {"*"}), Item("length", Length(9, ""))>>)>>,
   <<HeaderRule({f}, <<Item("transform", FALSE), Item("etag", 9)>>)>>}

Config(rules, type, flags) ==
  [rules |-> rules, type |-> type, etag |-> TRUE, cors |-> "cors" \in flags,
   compression |-> "compression" \in flags, listing |-> "listing" \in flags,
   single |-> "single" \in flags]

MCConfigs ==
  {Config(r, Text, {"cors", "compression"}) : r \in RuleLists}
  \union {Config(r, Svg, {"compression"}) : r \in {OfPlaces, Encoded}}
  \union {Config(<<>>, Png, {"cors"}), Config(OfPlaces, Text, {"compression", "single"}),
          Config(OfPlaces, Text, {"cors", "listing", "single"}),
          Config(Encoded, Text, {"compression", "listing"})}

To(path, finds, at) ==
  [raw |-> path, path |-> path, finds |-> finds, at |-> at, method |-> "GET",
   encodings |-> <<>>, range |-> <<>>, accept |-> "html"]

ToFile == To(f, "file", f)
ToDir  == [To(Sub, "dir", Lone) EXCEPT !.accept = "inner json"]

Accepting == {<<Token("gzip", FALSE), Token("br", FALSE)>>, <<Token("*", FALSE), Token("br", TRUE)>>,
              <<Token("*", TRUE), Token("deflate", FALSE)>>, <<Token("*", TRUE)>>}

Bytes(ranges) == <<[unit |-> "bytes", ranges |-> ranges]>>
Pair(a, b)    == <<Number(a), Number(b)>>

Rangeful == {Bytes(<<Pair(a, b)>>) : a \in {0, 2}, b \in {1, 2, 7}}
         \union {Bytes(<<<<NoNumber, Number(b)>>>>) : b \in {0, 1, 3, 4, 7}}
         \union {Bytes(<<<<Number(a), NoNumber>>>>) : a \in {2, 7}}
         \union {Bytes(<<>>), Bytes(<<<<NoNumber, NoNumber>>>>), Bytes(<<<<Number(1)>>>>),
                 Bytes(<<Pair(1, 1), Pair(0, 0)>>), Bytes(<<<<Number(0), NoNumber, Number(1)>>>>),
                 <<[unit |-> "other", ranges |-> <<Pair(0, 1)>>]>>}

MCRequests ==
  {[ToFile EXCEPT !.encodings = e, !.method = m] : e \in Accepting, m \in {"GET", "HEAD"}}
  \union {[ToFile EXCEPT !.range = g] : g \in {<<>>} \union Rangeful}
  \union {[ToFile EXCEPT !.range = Bytes(<<Pair(0, 1)>>), !.encodings = <<Token("br", FALSE)>>]}
  \union {[ToFile EXCEPT !.method = "POST", !.raw = "/%66ile"],
          [To(older, "file", f) EXCEPT !.encodings = <<Token("br", FALSE)>>]}
  \union {[To(f, "refused", "") EXCEPT !.accept = a, !.encodings = <<Token("br", FALSE)>>] : a \in {"html", "JSON", "inner json"}}
  \union {To(f, "redirect", ""), To(f, "nothing", ""), [To(f, "nothing", "") EXCEPT !.accept = "json"]}
  \union {ToDir, [ToDir EXCEPT !.accept = "html", !.encodings = <<Token("br", FALSE)>>],
          [ToDir EXCEPT !.range = Bytes(<<Pair(0, 0)>>)]}

NoDir   == [there |-> FALSE, readable |-> TRUE, kind |-> [n \in Names |-> "none"]]
WithAsset(v, pages) == [asset |-> v, readable |-> TRUE, pages |-> pages, dir |-> NoDir]
WithDir(k) == [asset |-> 1, readable |-> TRUE, pages |-> {},
               dir |-> [there |-> TRUE, readable |-> TRUE, kind |-> k]]

(* The hidden entry 3 is a file, beside none but files; entry 1 may be     *)
(* unreadable, alone or beside a file.                                     *)
Entries ==
  {k \in [Names -> Kinds] :
     /\ k[2] # "unreadable" /\ (k[1] = "unreadable" => k[2] # "dir")
     /\ k[3] = "none" \/ (k[3] = "file" /\ {k[1], k[2]} \subseteq {"none", "file"})}

MCDisks == {WithAsset(v, p) : v \in Versions, p \in {{}, {400}, {404}}}
           \union {WithDir(k) : k \in Entries}
           \union {[WithAsset(1, {}) EXCEPT !.readable = FALSE],
                   [WithDir([n \in Names |-> "file"]) EXCEPT !.dir.readable = FALSE]}

MCSizes == <<3, 1, 0>>
=============================================================================
