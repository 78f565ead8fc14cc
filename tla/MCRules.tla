------------------------------ MODULE MCRules ------------------------------
(* Sources of every kind, alone and in pairs, against paths up to length 3. *)
EXTENDS Rules

a     == Name("a")
b     == Name("b")
BigA  == [a EXCEPT !.upper = TRUE]
DotA  == [a EXCEPT !.dot = TRUE]
EscA  == [a EXCEPT !.slash = "inner"]
AEsc  == [a EXCEPT !.slash = "end"]
EscDot == [DotA EXCEPT !.slash = "inner"]
IdText == [Name(":id") EXCEPT !.special = TRUE]
Square == [Name("[") EXCEPT !.special = TRUE]

AllNames == {a, b, BigA, DotA, EscA, AEsc, IdText, Square, Empty}

Lit(n)  == Segment("lit", n, {})
Id      == Segment("param", IdText, {})
Star    == Segment("star", Name("*"), {Alternative(AllNames, FALSE)})
Stars   == Segment("stars", Name("**"), {Alternative(AllNames, FALSE)})
\* "[.a]a", "{.a,b}", "{.a,*}" and an unclosed "["
Bracket == Segment("glob", Name("[.A]a"), {Alternative({DotA}, FALSE)})
Either  == Segment("glob", Name("{.a,b}"), {Alternative({DotA}, TRUE), Alternative({b}, FALSE)})
OrAny   == Segment("starglob", Name("{.a,*}"),
                   {Alternative({DotA}, TRUE), Alternative(AllNames, FALSE)})
Broken  == Segment("broken", Square, {})
StarEsc == [Star EXCEPT !.name.slash = "end"]

Src(parts) == [negate |-> FALSE, parts |-> parts]
Not(parts) == [negate |-> TRUE, parts |-> parts]
To(parts)  == [abroad |-> FALSE, parts |-> parts]

Bodies == {<<Lit(a)>>, <<Lit(a), Lit(Empty)>>, <<Lit(EscA)>>, <<Lit(AEsc)>>, <<Lit(EscDot)>>,
           <<Lit(BigA), Lit(b)>>, <<Lit(Up), Lit(b)>>, <<Lit(a), Lit(Up), Lit(b)>>,
           <<Id>>, <<Lit(a), Id>>, <<Lit(EscA), Id>>, <<Id, Id>>, <<Star>>, <<Lit(a), Star>>, <<Star, Id>>,
           <<Lit(a), Stars>>, <<Stars>>, <<Stars, Lit(b)>>, <<Lit(a), Stars, Lit(b)>>,
           <<Star, Star>>, <<Id, Star, Star>>, <<Stars, Star>>, <<Stars, Stars>>,
           <<Bracket>>, <<Either, Lit(b)>>, <<Id, Either>>, <<OrAny>>, <<Stars, Either>>, <<Broken>>,
           <<Lit(a), StarEsc>>}

AllSources == {Src(p) : p \in Bodies} \union {Not(p) : p \in Bodies}

Dests == {To(<<Lit(b)>>), To(<<Id>>), To(<<Lit(a), Id, Lit(b)>>), To(<<Lit(Up), Lit(a)>>),
          To(<<Id, Lit(Empty)>>),
          [abroad |-> TRUE, parts |-> <<Lit([Name("x:") EXCEPT !.special = TRUE]), Id>>]}

RuleTo(s, d) == [source |-> s, dest |-> d]

Alone == {[table |-> t, rules |-> <<RuleTo(s, d)>>] : t \in {"redirects"}, s \in AllSources, d \in Dests}
         \union {[table |-> t, rules |-> <<RuleTo(s, To(<<Lit(b)>>))>>] :
                   t \in Tables \ {"redirects"}, s \in AllSources}

\* pairs with an invalid rule first, and circular rewrites
Circle == {RuleTo(Src(<<Lit(a)>>), To(<<Lit(b)>>)), RuleTo(Src(<<Lit(b)>>), To(<<Lit(a)>>)),
           RuleTo(Src(<<Id>>), To(<<Lit(a), Id>>)), RuleTo(Src(<<Lit(a), Id>>), To(<<Id>>)),
           RuleTo(Src(<<Id, Id>>), To(<<Lit(a)>>)), RuleTo(Src(<<Stars>>), To(<<Lit(BigA)>>))}

Pairs == {[table |-> t, rules |-> <<r1, r2>>] :
            t \in {"redirects", "rewrites", "headers"}, r1 \in Circle, r2 \in Circle}

Chains == {[table |-> "rewrites", rules |-> <<r1, r2, r3>>] :
             r1 \in Circle, r2 \in Circle, r3 \in Circle}

MCConfigs == Alone \union Pairs \union Chains

Names == {a, b, BigA, DotA, EscA, AEsc, IdText, Square, Empty, Up, Here}
Few   == {a, b, DotA, Empty, Up}
MCRequests == {<<n>> : n \in Names} \union {<<m, n>> : m \in (Few \ {Empty}) \union {IdText}, n \in {a, b, DotA, IdText, AEsc, Empty, Up}}
              \union {<<a, n, b>> : n \in {a, Up, DotA, Here}} \union {<<Up, Here, a>>, <<Here, Up, a>>, <<a, Here, Up, Up, a>>, <<a, b, Up, Empty>>}

MCRoots == {<<b>>, <<a, b>>}
=============================================================================
