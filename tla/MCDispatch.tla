----------------------------- MODULE MCDispatch -----------------------------
(* Small trees, URLs and serve.json files for Dispatch. *)
EXTENDS Dispatch, TLC

A    == Part("a", <<>>)
Ahtm == Part("a", <<"html">>)
B    == Part("b", <<"txt">>)
Bhtm == Part("b", <<"txt", "html">>)
Old  == Part("old", <<>>)
Out  == Part("out", <<"html">>)
OutP == Part("out", <<>>)

MCNodes ==
  (<<A>> :> {"none", "file", "dir"}) @@ (<<A, IndexHtml>> :> {"none", "file"})
    @@ (<<Ahtm>> :> {"none", "file"}) @@ (<<IndexHtml>> :> {"none", "file"})
    @@ (<<B>> :> {"none", "file"}) @@ (<<Bhtm>> :> {"none", "file"})
    @@ (<<Out>> :> {"out"})
MCPlaces == DOMAIN MCNodes

Plain == [clean |-> [mode |-> "on"], slash |-> "unset", redirects |-> <<>>,
          rewrites |-> <<>>, listing |-> TRUE, single |-> FALSE]

Rule(path, to) == [all |-> FALSE, source |-> {path}, destination |-> to]
Spa == [all |-> TRUE, source |-> {}, destination |-> <<IndexHtml>>]

(* serve.json files: none; --single with trailing slashes; a renderSingle  *)
(* tree with clean URLs below /a only; rewrites in a circle without clean  *)
(* URLs; a redirect to a page and a rewrite out of the root.               *)
MCConfigs ==
  {Plain,
   [Plain EXCEPT !.slash = "add", !.rewrites = <<Spa>>],
   [Plain EXCEPT !.clean = [mode |-> "under", dir |-> A], !.slash = "strip",
                 !.single = TRUE, !.listing = FALSE],
   [Plain EXCEPT !.clean = [mode |-> "off"],
                 !.rewrites = <<Rule(<<A>>, <<B>>), Rule(<<B>>, <<A, Empty>>)>>],
   [Plain EXCEPT !.slash = "add", !.redirects = <<Rule(<<Old>>, <<Ahtm>>)>>,
                 !.rewrites = <<Rule(<<A>>, <<Out>>), Rule(<<B>>, <<Out>>)>>]}

MCStarts ==
  {Get(u) : u \in {<<A>>, <<A, Empty>>, <<Ahtm>>, <<A, Empty, IndexPart>>, Root,
                   <<A, IndexHtml>>, <<Empty, B>>, <<B, Empty>>, <<Old>>, <<OutP>>, <<Out>>}}
    \union {[Get(<<A>>) EXCEPT !.method = "POST"], [Get(<<A>>) EXCEPT !.form = "escapes"]}

(* Every URL of up to three parts, on an empty tree: redirects alone.      *)
NoPlaces == {}
NoNodes  == <<>>
AllStarts ==
  LET parts == {Empty, A, Ahtm, IndexPart, IndexHtml, Old}
  IN  {Get(u) : u \in UNION {[1..n -> parts] : n \in 1..3}}

(* renderSingle, with listings and without.                                *)
SingleConfigs == {[Plain EXCEPT !.single = TRUE, !.listing = listing] : listing \in BOOLEAN}
=============================================================================
