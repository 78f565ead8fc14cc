----------------------------- MODULE MCStartup -----------------------------
(* Small command lines and disks for Startup.                              *)
EXTENDS Startup, TLC

CONSTANTS p1, p2, low, a, b

Line(listens, switching) ==
  [listens |-> listens, explicit |-> FALSE, switching |-> switching]

(* One process and a port nobody contends for: the search for the          *)
(* configuration, with and without --config.                               *)
OnePort   == {a}
OneLine   == [p \in {p1} |-> {Line(<<a>>, TRUE), Line(<<a, BadHost>>, TRUE),
                               [Line(<<a>>, TRUE) EXCEPT !.explicit = TRUE]}]
NonePriv  == {}
MCDisks   ==
  [Names -> {"absent"}]
    \union {[n \in Names |-> h] : h \in {"other", "moved"}}
    \union {[n \in Names |-> IF n = "package.json" THEN "plain" ELSE "absent"]}
Anything  == Names \union {"public"}

(* Two processes and three ports, one of them privileged.                  *)
TwoPorts  == {low, a, b}
BothFree  == {a, b}
LowPriv   == {low}
TwoLines  ==
  (p1 :> {Line(<<a, b>>, TRUE), Line(<<b, b>>, TRUE), Line(<<AnyPort, a>>, FALSE),
          Line(<<a, low>>, TRUE)})
    @@ (p2 :> {Line(<<a>>, TRUE)})
NoDisk    == [Names -> {"absent"}]
Nothing   == {}
=============================================================================
