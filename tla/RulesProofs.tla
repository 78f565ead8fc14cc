---------------------------- MODULE RulesProofs ----------------------------
(***************************************************************************)
(* Theorems about Rules, for every serve.json, every request and every cap *)
(* on rewrites.                                                            *)
(***************************************************************************)
EXTENDS Rules, SequenceTheorems, FiniteSetTheorems, TLAPS

MatcherIn(c, i) == MatcherOf(c.table, c.rules[i].source)
Compiled        == [rule : 1..Count, matcher : {MatcherIn(config, i) : i \in 1..Count}]

(* What is compiled and what was warned of are the rules looked at so far, *)
(* each once and in the order of the file.                                 *)
TablesOK ==
  /\ \A k \in 1..Len(compiled) : /\ compiled[k].matcher = MatcherIn(config, compiled[k].rule)
                                 /\ compiled[k].matcher # InvalidMatcher
                                 /\ compiled[k].rule < NextRule
  /\ \A k, l \in 1..Len(compiled) : k < l => compiled[k].rule < compiled[l].rule
  /\ \A i \in 1..Count : \/ i >= NextRule
                         \/ \E k \in 1..Len(compiled) : compiled[k].rule = i
                         \/ MatcherIn(config, i) = InvalidMatcher
  /\ pc # "compiling" => NextRule > Count

TypesOK ==
  /\ config \in Configs
  /\ compiled \in Seq(Compiled)
  /\ skipped \in Seq(1..Count)
  /\ pc \in {"compiling", "serving", "asked", "rewriting", "answered"}
  /\ request \in Requests \union {RootUrl}
  /\ used \in Seq(1..Count)
  /\ pc = "rewriting" => config.table = "rewrites"

TablesInv == TypesOK /\ TablesOK

(* A redirect is by the earliest rule of the file that matches.            *)
RedirectedByFirst ==
  pc = "answered" /\ config.table = "redirects" /\ ~lexical_path_escapes_root(request) =>
    IF used = <<>> THEN RulesThatMatch = {}
    ELSE used = <<used[1]>> /\ First(used[1], RulesThatMatch)

RedirectInv == TablesInv /\ (pc # "answered" /\ pc # "rewriting" => used = <<>>) /\ RedirectedByFirst

FillInv == RedirectInv /\ DestinationsFilled

(* The header rules that apply are all that match, in the order of the     *)
(* file.                                                                   *)
HeadersInOrder ==
  pc = "answered" /\ config.table = "headers" /\ ~lexical_path_escapes_root(request) =>
    /\ Range(used) = RulesThatMatch
    /\ \A i, j \in DOMAIN used : i < j => used[i] < used[j]

HeaderInv == TablesInv /\ HeadersInOrder

ChainInv == TablesInv /\ (pc \in {"compiling", "serving", "asked"} => used = <<>>) /\ ChainsComplete
-----------------------------------------------------------------------------
LEMMA CountType ==
  ASSUME config \in Configs
  PROVE  Count \in Nat /\ config.table \in Tables
BY ConfigsAssumption DEF Count

LEMMA Appended ==
  ASSUME NEW T, NEW s \in Seq(T), NEW x \in T
  PROVE  /\ Append(s, x) \in Seq(T)
         /\ Len(Append(s, x)) = Len(s) + 1
         /\ Append(s, x)[Len(s) + 1] = x
         /\ \A i \in 1..Len(s) : Append(s, x)[i] = s[i]
OBVIOUS

LEMMA Sequenced ==
  ASSUME NEW T, NEW s \in Seq(T)
  PROVE  Range(s) \subseteq T
BY DEF Range

LEMMA FunctionsAreSequences ==
  ASSUME NEW T, NEW n \in Nat, NEW f \in [1..n -> T]
  PROVE  f \in Seq(T)
OBVIOUS

(* Every way to compile a source gives a matcher of a kind that Applies    *)
(* knows, or none.                                                         *)
LEMMA MatcherForms ==
  ASSUME NEW table \in Tables, NEW source
  PROVE  LET m == MatcherOf(table, source)
         IN  /\ m.form \in {"literal", "glob", "pattern", "scope", "invalid"}
             /\ m.form = "invalid" <=> m = InvalidMatcher
<1>1. compile(source).form \in {"literal", "glob", "pattern"} \/ compile(source) = InvalidMatcher
  BY DEF compile
<1>2. compile_header(source).form \in {"literal", "glob"}
  BY DEF compile_header
<1>3. compile_scoped_pattern(source).form = "scope" \/ compile_scoped_pattern(source) = InvalidMatcher
  BY DEF compile_scoped_pattern
<1>4. InvalidMatcher.form = "invalid"
  BY DEF InvalidMatcher
<1>. QED
  BY <1>1, <1>2, <1>3, <1>4 DEF MatcherOf, Tables, Scopes
-----------------------------------------------------------------------------
LEMMA TablesInit == Init => TablesInv
<1>. SUFFICES ASSUME Init PROVE TablesInv
  OBVIOUS
<1>1. Count \in Nat
  BY CountType DEF Init
<1>. QED
  BY <1>1 DEF Init, TablesInv, TypesOK, TablesOK, NextRule

LEMMA CompileTables ==
  ASSUME TablesInv, CompileRule
  PROVE  TablesInv'
<1>. DEFINE i == NextRule
<1>0. /\ Count \in Nat /\ Count' = Count /\ i \in 1..Count
      /\ compiled \in Seq(Compiled) /\ skipped \in Seq(1..Count)
      /\ config.table \in Tables
  BY CountType DEF CompileRule, TablesInv, TypesOK, NextRule, Count
<1>1. /\ Count' = Count /\ config' = config
      /\ Compiled' = Compiled
  BY DEF CompileRule, Compiled, Count
<1>2. UNCHANGED <<config, pc, request, used>> /\ pc = "compiling"
  BY DEF CompileRule
<1>3. CASE MatcherIn(config, i).form = "invalid"
  <2>1. skipped' = Append(skipped, i) /\ compiled' = compiled
    BY <1>3 DEF CompileRule, MatcherIn, Rule
  <2>2. skipped' \in Seq(1..Count) /\ Len(skipped') = Len(skipped) + 1
    BY <1>0, <2>1, Appended
  <2>3. NextRule' = i + 1
    BY <1>0, <2>1, <2>2 DEF NextRule
  <2>4. MatcherIn(config, i) = InvalidMatcher
    BY <1>0, <1>3, MatcherForms DEF MatcherIn
  <2>5. TypesOK'
    BY <1>0, <1>1, <1>2, <2>1, <2>2 DEF TablesInv, TypesOK
  <2>. HIDE DEF i
  <2>6. /\ \A k \in 1..Len(compiled) : compiled[k].rule < i + 1
        /\ \A j \in 1..Count : \/ j >= i + 1
                               \/ \E k \in 1..Len(compiled) : compiled[k].rule = j
                               \/ MatcherIn(config, j) = InvalidMatcher
    <3>1. \A k \in 1..Len(compiled) : compiled[k] \in Compiled
      BY <1>0
    <3>2. \A k \in 1..Len(compiled) : compiled[k].rule \in 1..Count /\ compiled[k].rule < i
      BY <3>1 DEF TablesInv, TablesOK, Compiled, i
    <3>3. \A j \in 1..Count : j >= i => j = i \/ j >= i + 1
      BY <1>0
    <3>4. \A k \in 1..Len(compiled) : compiled[k].rule < i + 1
      BY <1>0, <3>2
    <3>5. \A j \in 1..Count : \/ j >= i
                              \/ \E k \in 1..Len(compiled) : compiled[k].rule = j
                              \/ MatcherIn(config, j) = InvalidMatcher
      BY DEF TablesInv, TablesOK, i
    <3>. QED
      BY <2>4, <3>3, <3>4, <3>5
  <2>7. TablesOK'
    BY <1>1, <1>2, <2>1, <2>3, <2>6 DEF TablesInv, TablesOK
  <2>. QED
    BY <2>5, <2>7 DEF TablesInv
<1>4. CASE MatcherIn(config, i).form # "invalid"
  <2>. DEFINE c == [rule |-> i, matcher |-> MatcherIn(config, i)]
              n == Len(compiled)
  <2>1. compiled' = Append(compiled, c) /\ skipped' = skipped
    BY <1>4 DEF CompileRule, MatcherIn, Rule
  <2>2. c \in Compiled /\ c.rule = i /\ c.matcher = MatcherIn(config, i)
    BY <1>0 DEF Compiled
  <2>3. /\ compiled' \in Seq(Compiled) /\ Len(compiled') = n + 1 /\ compiled'[n + 1] = c
        /\ \A k \in 1..n : compiled'[k] = compiled[k]
    <3>. HIDE DEF c
    <3>. QED
      BY <1>0, <2>1, <2>2, Appended
  <2>4. NextRule' = i + 1 /\ n \in Nat
    BY <1>0, <2>1, <2>3 DEF NextRule
  <2>5. MatcherIn(config, i) # InvalidMatcher
    BY <1>0, <1>4, MatcherForms DEF MatcherIn
  <2>6. TypesOK'
    BY <1>0, <1>1, <1>2, <2>1, <2>3 DEF TablesInv, TypesOK
  <2>. HIDE DEF c, n, i
  <2>7. \A k \in 1..(n + 1) : k \in 1..n \/ k = n + 1
    BY <2>4
  <2>8. \A k \in 1..n : /\ compiled[k].matcher = MatcherIn(config, compiled[k].rule)
                        /\ compiled[k].matcher # InvalidMatcher
                        /\ compiled[k].rule \in 1..Count /\ compiled[k].rule < i
    <3>1. \A k \in 1..n : compiled[k] \in Compiled
      BY <1>0 DEF n
    <3>. QED
      BY <3>1 DEF TablesInv, TablesOK, Compiled, n, i
  <2>9. ASSUME NEW k \in 1..(n + 1)
        PROVE                 /\ compiled'[k].matcher = MatcherIn(config, compiled'[k].rule)
                              /\ compiled'[k].matcher # InvalidMatcher
                              /\ compiled'[k].rule < i + 1
    <3>1. CASE k \in 1..n
      BY <1>0, <2>3, <2>8, <3>1
    <3>2. CASE k = n + 1
      BY <1>0, <2>2, <2>3, <2>5, <3>2
    <3>. QED
      BY <2>7, <3>1, <3>2
  <2>10. \A k, l \in 1..(n + 1) : k < l => compiled'[k].rule < compiled'[l].rule
    <3>1. \A k, l \in 1..n : k < l => compiled[k].rule < compiled[l].rule
      BY DEF TablesInv, TablesOK, n
    <3>2. \A k \in 1..n : compiled'[k].rule < compiled'[n + 1].rule
      BY <2>2, <2>3, <2>8
    <3>3. \A k, l \in 1..(n + 1) : k < l => k \in 1..n
      BY <2>4
    <3>. QED
      BY <2>3, <2>7, <3>1, <3>2, <3>3
  <2>11. \A j \in 1..Count : \/ j >= i + 1
                             \/ \E k \in 1..(n + 1) : compiled'[k].rule = j
                             \/ MatcherIn(config, j) = InvalidMatcher
    <3>1. \A j \in 1..Count : \/ j >= i
                              \/ \E k \in 1..n : compiled[k].rule = j
                              \/ MatcherIn(config, j) = InvalidMatcher
      BY DEF TablesInv, TablesOK, n, i
    <3>2. n + 1 \in 1..(n + 1) /\ 1..n \subseteq 1..(n + 1)
      BY <2>4
    <3>3. ASSUME NEW j \in 1..Count, j = i PROVE \E k \in 1..(n + 1) : compiled'[k].rule = j
      BY <2>2, <2>3, <3>2, <3>3
    <3>4. ASSUME NEW j \in 1..Count, NEW k \in 1..n, compiled[k].rule = j
          PROVE  \E l \in 1..(n + 1) : compiled'[l].rule = j
      BY <2>3, <3>2, <3>4
    <3>. QED
      BY <1>0, <3>1, <3>3, <3>4
  <2>12. TablesOK'
    BY <1>0, <1>1, <1>2, <2>3, <2>4, <2>9, <2>10, <2>11 DEF TablesOK
  <2>. QED
    BY <2>6, <2>12 DEF TablesInv
<1>. QED
  BY <1>3, <1>4

(* The answer names rules that were compiled.                              *)
LEMMA AnswerTables ==
  ASSUME TablesInv, pc # "compiling", NEW rules, NEW leads, Answer(rules, leads),
         rules \in Seq(1..Count)
  PROVE  TablesInv'
<1>1. Compiled' = Compiled /\ Count' = Count /\ NextRule' = NextRule /\ config' = config
  BY DEF Answer, Compiled, Count, NextRule
<1>2. compiled' = compiled /\ skipped' = skipped /\ request' = request /\ pc' = "answered" /\ used' = rules
  BY DEF Answer
<1>. QED
  BY <1>1, <1>2 DEF TablesInv, TypesOK, TablesOK

(* Only the place of the handler and the request change.                   *)
LEMMA MoveTables ==
  ASSUME TablesInv, UNCHANGED <<config, compiled, skipped>>,
         pc' \in {"compiling", "serving", "asked", "rewriting", "answered"},
         pc' # "compiling" => NextRule > Count,
         request' \in Requests \union {RootUrl},
         used' \in Seq(1..Count),
         pc' = "rewriting" => config.table = "rewrites"
  PROVE  TablesInv'
<1>1. Compiled' = Compiled /\ Count' = Count /\ NextRule' = NextRule
  BY DEF Compiled, Count, NextRule
<1>. QED
  BY <1>1 DEF TablesInv, TypesOK, TablesOK

LEMMA ChosenRule ==
  ASSUME TablesInv, NEW k \in 1..Len(compiled)
  PROVE  compiled[k].rule \in 1..Count
<1>1. compiled[k] \in Compiled
  BY DEF TablesInv, TypesOK
<1>. QED
  BY <1>1 DEF Compiled

(* The header rules that apply are those of a fold over the compiled ones. *)
HeaderStep(rules, c, path) ==
  IF Applies("headers", c.matcher, path) THEN Append(rules, c.rule) ELSE rules

Same(v, w, q) == v = w

Over == INSTANCE FoldLaws WITH Op <- HeaderStep, Rel <- Same

LEMMA HeadersFolded == ApplyHeaders => Answer(Over!Fold(<<>>, compiled, request), request)
BY Zenon DEF ApplyHeaders, HeaderStep, Over!Fold, Over!FoldLeft, FoldLeft,
              Over!MapThenFoldSet, MapThenFoldSet, Over!Max, Max

LEMMA HeaderRules ==
  ASSUME TablesInv, NEW path
  PROVE  Over!Fold(<<>>, compiled, path) \in Seq(1..Count)
<1>. DEFINE n == Len(compiled)
<1>1. n \in Nat /\ DOMAIN compiled = 1..n
  BY DEF TablesInv, TypesOK
<1>2. ASSUME NEW i \in 1..n, NEW h \in Seq(1..Count)
      PROVE  HeaderStep(h, compiled[i], path) \in Seq(1..Count)
  <2>1. compiled[i].rule \in 1..Count
    BY ChosenRule
  <2>2. Append(h, compiled[i].rule) \in Seq(1..Count)
    BY <2>1, Appended
  <2>. QED
    BY <2>2 DEF HeaderStep
<1>3. <<>> \in Seq(1..Count)
  OBVIOUS
<1>. HIDE DEF n
<1>. QED
  BY <1>1, <1>2, <1>3, Over!FoldIn

LEMMA NextTables == TablesInv /\ [Next]_vars => TablesInv'
<1>. SUFFICES ASSUME TablesInv, [Next]_vars PROVE TablesInv'
  OBVIOUS
<1>0. /\ DOMAIN compiled = 1..Len(compiled)
      /\ used \in Seq(1..Count)
      /\ pc = "rewriting" => config.table = "rewrites"
      /\ request \in Requests \union {RootUrl}
      /\ pc # "compiling" => NextRule > Count
      /\ pc \in {"compiling", "serving", "asked", "rewriting", "answered"}
  BY DEF TablesInv, TypesOK, TablesOK
<1>1. CASE UNCHANGED vars
  BY <1>0, <1>1, MoveTables DEF vars
<1>2. CASE CompileRule
  BY <1>2, CompileTables
<1>3. CASE Serve
  BY <1>0, <1>3, MoveTables DEF Serve
<1>4. ASSUME NEW path \in Requests, Ask(path) PROVE TablesInv'
  BY <1>0, <1>4, MoveTables DEF Ask
<1>5. CASE Refuse \/ Unaffected
  <2>1. <<>> \in Seq(1..Count) /\ Answer(<<>>, request) /\ pc = "asked"
    BY <1>5 DEF Refuse, Unaffected, Asked
  <2>. QED
    BY <2>1, AnswerTables
<1>6. CASE Redirect \/ InScope
  <2>1. PICK k \in 1..Len(compiled) : pc = "asked" /\ \E leads : Answer(<<compiled[k].rule>>, leads)
    BY <1>0, <1>6 DEF Redirect, InScope, Asked
  <2>2. <<compiled[k].rule>> \in Seq(1..Count)
    BY ChosenRule
  <2>. QED
    BY <2>1, <2>2, AnswerTables
<1>7. CASE ApplyHeaders
  <2>1. Answer(Over!Fold(<<>>, compiled, request), request) /\ pc = "asked"
    BY <1>7, HeadersFolded DEF ApplyHeaders, Asked
  <2>2. Over!Fold(<<>>, compiled, request) \in Seq(1..Count)
    BY HeaderRules
  <2>. QED
    BY <2>1, <2>2, AnswerTables
<1>8. CASE BeginRewrites
  BY <1>0, <1>8, MoveTables DEF BeginRewrites, Asked
<1>9. CASE RewritePass
  <2>1. PICK k \in 1..Len(compiled) : used' = Append(used, compiled[k].rule)
    BY <1>0, <1>9 DEF RewritePass
  <2>2. used' \in Seq(1..Count)
    BY <1>0, <1>9, <2>1, ChosenRule, Appended DEF RewritePass
  <2>. QED
    BY <1>0, <1>9, <2>2, MoveTables DEF RewritePass
<1>10. CASE EndRewrites
  BY <1>0, <1>10, AnswerTables DEF EndRewrites
<1>11. CASE Done
  BY <1>0, <1>11, MoveTables DEF Done
<1>. QED
  BY <1>1, <1>2, <1>3, <1>4, <1>5, <1>6, <1>7, <1>8, <1>9, <1>10, <1>11 DEF Next
-----------------------------------------------------------------------------
(* The rules that match are those of the compiled ones that apply.         *)
LEMMA ApplyingRules ==
  ASSUME TablesInv, pc # "compiling"
  PROVE  /\ \A k \in Applying(request) : compiled[k].rule \in RulesThatMatch
         /\ \A i \in RulesThatMatch :
              \E k \in Applying(request) : compiled[k].rule = i
<1>1. /\ DOMAIN compiled = 1..Len(compiled) /\ Count \in Nat
      /\ NextRule > Count /\ NextRule \in Nat
  BY CountType DEF TablesInv, TypesOK, TablesOK, NextRule
<1>2. ASSUME NEW k \in Applying(request) PROVE compiled[k].rule \in RulesThatMatch
  <2>1. k \in 1..Len(compiled) /\ Applies(config.table, compiled[k].matcher, request)
    BY <1>1 DEF Applying
  <2>. QED
    BY <2>1, ChosenRule DEF RulesThatMatch, TablesInv, TablesOK, MatcherIn, Rule
<1>3. ASSUME NEW i \in RulesThatMatch
      PROVE  \E k \in Applying(request) : compiled[k].rule = i
  <2>1. /\ i \in 1..Count /\ MatcherIn(config, i) # InvalidMatcher
        /\ Applies(config.table, MatcherIn(config, i), request)
    BY DEF RulesThatMatch, MatcherIn, Rule
  <2>2. PICK k \in 1..Len(compiled) : compiled[k].rule = i
    BY <1>1, <2>1 DEF TablesInv, TablesOK
  <2>. QED
    BY <1>1, <2>1, <2>2 DEF TablesInv, TablesOK, Applying
<1>. QED
  BY <1>2, <1>3

LEMMA FirstIsFirst ==
  ASSUME TablesInv, pc # "compiling",
         NEW k \in DOMAIN compiled, First(k, Applying(request))
  PROVE  First(compiled[k].rule, RulesThatMatch)
<1>1. DOMAIN compiled = 1..Len(compiled) /\ Len(compiled) \in Nat
  BY DEF TablesInv, TypesOK
<1>2. ASSUME NEW i \in RulesThatMatch PROVE compiled[k].rule <= i
  <2>1. PICK l \in Applying(request) : compiled[l].rule = i
    BY ApplyingRules
  <2>2. l \in 1..Len(compiled) /\ k <= l
    BY <1>1 DEF Applying, First
  <2>3. k = l \/ compiled[k].rule < compiled[l].rule
    BY <1>1, <2>2 DEF TablesInv, TablesOK
  <2>. QED
    BY <1>1, <2>1, <2>2, <2>3, ChosenRule
<1>. QED
  BY <1>2, ApplyingRules DEF First

LEMMA RedirectInit == Init => RedirectInv
BY TablesInit DEF Init, RedirectInv, RedirectedByFirst

LEMMA NextRedirect == RedirectInv /\ [Next]_vars => RedirectInv'
<1>. SUFFICES ASSUME RedirectInv, [Next]_vars
              PROVE  /\ pc' # "answered" /\ pc' # "rewriting" => used' = <<>>
                     /\ RedirectedByFirst'
  BY NextTables DEF RedirectInv
<1>. USE DEF RedirectInv
<1>1. CASE UNCHANGED vars
  BY <1>1 DEF vars, RedirectedByFirst, RulesThatMatch, Count, Rule, First
<1>2. CASE CompileRule \/ Serve
  BY <1>2 DEF CompileRule, Serve, RedirectedByFirst
<1>3. ASSUME NEW path \in Requests, Ask(path) PROVE pc' = "asked" /\ used' = <<>>
  BY <1>3 DEF Ask
<1>4. CASE Refuse
  BY <1>4 DEF Refuse, Answer, RedirectedByFirst
<1>5. CASE Unaffected
  <2>1. config.table = "redirects" => RulesThatMatch = {}
    BY <1>5, ApplyingRules DEF Unaffected, Asked
  <2>2. RulesThatMatch' = RulesThatMatch
    BY <1>5 DEF Unaffected, Answer, RulesThatMatch, Count, Rule
  <2>. QED
    BY <1>5, <2>1, <2>2 DEF Unaffected, Answer, RedirectedByFirst
<1>6. CASE Redirect
  <2>1. PICK k \in DOMAIN compiled : /\ First(k, Applying(request))
                                    /\ Answer(<<compiled[k].rule>>, Target(k, request))
    BY <1>6 DEF Redirect
  <2>2. First(compiled[k].rule, RulesThatMatch)
    BY <1>6, <2>1, FirstIsFirst DEF Redirect, Asked
  <2>3. RulesThatMatch' = RulesThatMatch /\ used' = <<compiled[k].rule>> /\ pc' = "answered"
    BY <2>1 DEF Answer, RulesThatMatch, Count, Rule
  <2>4. First(used'[1], RulesThatMatch)
    BY <2>2, <2>3
  <2>. QED
    BY <2>3, <2>4 DEF RedirectedByFirst, First
<1>7. CASE ApplyHeaders \/ InScope \/ BeginRewrites \/ RewritePass \/ EndRewrites
  <2>1. config.table # "redirects" /\ config' = config /\ pc' \in {"rewriting", "answered"}
    BY <1>7 DEF ApplyHeaders, InScope, BeginRewrites, RewritePass, EndRewrites, Answer, Scopes,
                TablesInv, TypesOK
  <2>. QED
    BY <2>1 DEF RedirectedByFirst
<1>8. CASE Done
  BY <1>8 DEF Done, RedirectedByFirst
<1>. QED
  BY <1>1, <1>2, <1>3, <1>4, <1>5, <1>6, <1>7, <1>8 DEF Next, RedirectedByFirst
-----------------------------------------------------------------------------
LEMMA EmptyChain ==
  ASSUME used' = <<>>, pc' # "answered" \/ lexical_path_escapes_root(request)'
  PROVE  ChainsComplete'
BY DepthCapAssumption DEF ChainsComplete

LEMMA ChainInit == Init => ChainInv
<1>. SUFFICES ASSUME Init PROVE ChainInv
  OBVIOUS
<1>1. ChainsComplete
  BY DepthCapAssumption DEF Init, ChainsComplete
<1>. QED
  BY <1>1, TablesInit DEF Init, ChainInv

LEMMA NextChain == ChainInv /\ [Next]_vars => ChainInv'
<1>. SUFFICES ASSUME ChainInv, [Next]_vars
              PROVE  /\ pc' \in {"compiling", "serving", "asked"} => used' = <<>>
                     /\ ChainsComplete'
  BY NextTables DEF ChainInv
<1>. USE DEF ChainInv
<1>1. CASE UNCHANGED vars
  BY <1>1 DEF vars, ChainsComplete
<1>2. CASE CompileRule \/ Serve
  BY <1>2, EmptyChain DEF CompileRule, Serve
<1>3. ASSUME NEW path \in Requests, Ask(path)
      PROVE  used' = <<>> /\ ChainsComplete'
  BY <1>3, EmptyChain DEF Ask
<1>4. CASE Refuse
  BY <1>4, EmptyChain DEF Refuse, Answer
<1>5. CASE Unaffected \/ Redirect \/ ApplyHeaders \/ InScope
  BY <1>5 DEF Unaffected, Redirect, ApplyHeaders, InScope, Answer, Scopes, ChainsComplete
<1>6. CASE BeginRewrites
  BY <1>6, EmptyChain DEF BeginRewrites, Asked
<1>7. CASE RewritePass
  <2>. DEFINE n == Len(used)
  <2>1. config.table = "rewrites" /\ used \in Seq(1..Count) /\ n \in Nat /\ n < DepthCap
    BY <1>7 DEF RewritePass, TablesInv, TypesOK
  <2>2. PICK k \in DOMAIN compiled : k \in Active(current) /\ used' = Append(used, compiled[k].rule)
    BY <1>7 DEF RewritePass, First
  <2>3. compiled[k].rule \in 1..Count
    BY <2>2, ChosenRule DEF TablesInv, TypesOK
  <2>4. \A i \in 1..n : used[i] # compiled[k].rule
    BY <2>1, <2>2 DEF Active, Range
  <2>5. /\ used' \in Seq(1..Count) /\ Len(used') = n + 1 /\ used'[n + 1] = compiled[k].rule
        /\ \A i \in 1..n : used'[i] = used[i]
    BY <2>1, <2>2, <2>3, Appended
  <2>6. \A i, j \in 1..n : used[i] = used[j] => i = j
    BY <2>1 DEF ChainsComplete
  <2>. HIDE DEF n
  <2>7. \A i \in 1..(n + 1) : i \in 1..n \/ i = n + 1
    BY <2>1
  <2>8. \A i, j \in 1..(n + 1) : used'[i] = used'[j] => i = j
    BY <2>4, <2>5, <2>6, <2>7
  <2>9. DOMAIN used' = 1..(n + 1) /\ n + 1 <= DepthCap
    BY <2>1, <2>5, DepthCapAssumption
  <2>. QED
    BY <1>7, <2>5, <2>8, <2>9 DEF RewritePass, ChainsComplete
<1>8. CASE EndRewrites
  <2>1. UNCHANGED <<config, compiled, request, used, current>> /\ config.table = "rewrites"
    BY <1>8 DEF EndRewrites, Answer, TablesInv, TypesOK
  <2>2. Len(used) < DepthCap => Active(current) = {}
    BY <1>8, <2>1, DepthCapAssumption DEF EndRewrites, TablesInv, TypesOK
  <2>3. ASSUME Len(used) < DepthCap, NEW k \in DOMAIN compiled, compiled[k].rule \notin Range(used)
        PROVE  ~try_match(compiled[k].matcher, current)
    BY <2>1, <2>2, <2>3 DEF Active, Applying, Applies
  <2>. QED
    BY <1>8, <2>1, <2>3 DEF EndRewrites, Answer, ChainsComplete
<1>9. CASE Done
  BY <1>9, EmptyChain DEF Done
<1>. QED
  BY <1>1, <1>2, <1>3, <1>4, <1>5, <1>6, <1>7, <1>8, <1>9 DEF Next
-----------------------------------------------------------------------------
(* The header rules that apply to a path, of the first k compiled ones.    *)
Heads(k, path) == Applies("headers", compiled[k].matcher, path)

HeadersSoFar(rules, k, path) ==
  /\ rules \in Seq(1..Count)
  /\ \A i \in 1..Len(rules) : \E l \in 1..k : Heads(l, path) /\ rules[i] = compiled[l].rule
  /\ \A l \in 1..k : Heads(l, path) => \E i \in 1..Len(rules) : rules[i] = compiled[l].rule
  /\ \A i, j \in 1..Len(rules) : i < j => rules[i] < rules[j]

LEMMA HeaderGoesOn ==
  ASSUME TablesInv, NEW path, NEW k \in 0..Len(compiled) - 1, NEW rules, HeadersSoFar(rules, k, path)
  PROVE  HeadersSoFar(HeaderStep(rules, compiled[k + 1], path), k + 1, path)
<1>. DEFINE n == Len(compiled)
            m == Len(rules)
            c == compiled[k + 1].rule
            more == Append(rules, c)
<1>0. /\ n \in Nat /\ k \in 0..n - 1 /\ k + 1 \in 1..n /\ m \in Nat
      /\ rules \in Seq(1..Count) /\ c \in 1..Count /\ Count \in Nat
  <2>1. n \in Nat /\ k + 1 \in 1..n
    BY DEF TablesInv, TypesOK
  <2>2. c \in 1..Count
    BY <2>1, ChosenRule
  <2>3. Count \in Nat
    BY CountType DEF TablesInv, TypesOK
  <2>. QED
    BY <2>1, <2>2, <2>3 DEF HeadersSoFar
<1>1. /\ \A i \in 1..m : \E l \in 1..k : Heads(l, path) /\ rules[i] = compiled[l].rule
      /\ \A l \in 1..k : Heads(l, path) => \E i \in 1..m : rules[i] = compiled[l].rule
      /\ \A i, j \in 1..m : i < j => rules[i] < rules[j]
  BY DEF HeadersSoFar
<1>2. \A l \in 1..k : compiled[l].rule \in 1..Count /\ compiled[l].rule < c
  <2>1. \A l \in 1..k : l \in 1..n /\ l < k + 1
    BY <1>0
  <2>2. \A l \in 1..n : compiled[l].rule \in 1..Count
    BY ChosenRule
  <2>. QED
    BY <1>0, <2>1, <2>2 DEF TablesInv, TablesOK
<1>3. 1..k \subseteq 1..k + 1 /\ k + 1 \in 1..k + 1 /\ \A l \in 1..k + 1 : l \in 1..k \/ l = k + 1
  BY <1>0
<1>4. CASE ~Heads(k + 1, path)
  <2>1. HeaderStep(rules, compiled[k + 1], path) = rules
    BY <1>4 DEF HeaderStep, Heads
  <2>. HIDE DEF c, m
  <2>2. HeadersSoFar(rules, k + 1, path)
    BY <1>0, <1>1, <1>3, <1>4 DEF HeadersSoFar, m
  <2>. QED
    BY <2>1, <2>2
<1>5. CASE Heads(k + 1, path)
  <2>1. HeaderStep(rules, compiled[k + 1], path) = more
    BY <1>5 DEF HeaderStep, Heads
  <2>. HIDE DEF c, m
  <2>2. /\ more \in Seq(1..Count) /\ Len(more) = m + 1 /\ more[m + 1] = c
        /\ \A i \in 1..m : more[i] = rules[i]
    BY <1>0, Appended DEF m
  <2>. HIDE DEF more
  <2>3. 1..m \subseteq 1..m + 1 /\ m + 1 \in 1..m + 1 /\ \A i \in 1..m + 1 : i \in 1..m \/ i = m + 1
    BY <1>0
  <2>4. ASSUME NEW i \in 1..m + 1
        PROVE  \E l \in 1..k + 1 : Heads(l, path) /\ more[i] = compiled[l].rule
    <3>1. CASE i = m + 1
      BY <1>3, <1>5, <2>2, <3>1 DEF c
    <3>2. CASE i \in 1..m
      BY <1>1, <1>3, <2>2, <3>2
    <3>. QED
      BY <2>3, <3>1, <3>2
  <2>5. ASSUME NEW l \in 1..k + 1, Heads(l, path)
        PROVE  \E i \in 1..m + 1 : more[i] = compiled[l].rule
    <3>1. CASE l = k + 1
      BY <2>2, <2>3, <3>1 DEF c
    <3>2. CASE l \in 1..k
      BY <1>1, <2>2, <2>3, <2>5, <3>2
    <3>. QED
      BY <1>3, <3>1, <3>2
  <2>6. ASSUME NEW i \in 1..m + 1, NEW j \in 1..m + 1, i < j PROVE more[i] < more[j]
    <3>1. i \in 1..m /\ more[i] = rules[i]
      BY <1>0, <2>2, <2>6
    <3>2. CASE j = m + 1
      BY <1>1, <1>2, <2>2, <3>1, <3>2
    <3>3. CASE j \in 1..m
      BY <1>1, <2>2, <2>6, <3>1, <3>3
    <3>. QED
      BY <2>3, <3>2, <3>3
  <2>. QED
    BY <2>1, <2>2, <2>4, <2>5, <2>6 DEF HeadersSoFar
<1>. QED
  BY <1>4, <1>5

LEMMA HeadersByRules ==
  ASSUME TablesInv, NEW path
  PROVE  HeadersSoFar(Over!Fold(<<>>, compiled, path), Len(compiled), path)
<1>. DEFINE n == Len(compiled)
<1>1. n \in Nat /\ DOMAIN compiled = 1..n
  BY DEF TablesInv, TypesOK
<1>2. PICK v : /\ Over!Trace(<<>>, compiled, path, n, v)
               /\ v[n] = Over!Fold(<<>>, compiled, path)
  BY <1>1, Over!FoldTrace
<1>. DEFINE T == {k \in 0..n : HeadersSoFar(v[k], k, path)}
<1>3. 0 \in T
  <2>1. v[0] = <<>>
    BY <1>2 DEF Over!Trace
  <2>2. HeadersSoFar(<<>>, 0, path)
    BY DEF HeadersSoFar
  <2>. QED
    BY <1>1, <2>1, <2>2
<1>4. ASSUME NEW k \in 0..n - 1, k \in T PROVE k + 1 \in T
  <2>1. k + 1 \in 1..n /\ k + 1 \in 0..n /\ (k + 1) - 1 = k
    BY <1>1
  <2>2. v[k + 1] = HeaderStep(v[k], compiled[k + 1], path)
    BY <1>2, <2>1 DEF Over!Trace
  <2>3. HeadersSoFar(v[k + 1], k + 1, path)
    BY <1>4, <2>2, HeaderGoesOn
  <2>. QED
    BY <2>1, <2>3
<1>. HIDE DEF T
<1>5. n \in T
  <2>1. \A k \in 0..n - 1 : k \in T => k + 1 \in T
    BY <1>4
  <2>. HIDE DEF n
  <2>2. 0..n \subseteq T
    BY <1>1, <1>3, <2>1, Over!UpToByMembers, Zenon
  <2>3. n \in 0..n
    BY <1>1
  <2>. QED
    BY <2>2, <2>3
<1>. QED
  BY <1>2, <1>5 DEF T

LEMMA HeadersAnswered ==
  ASSUME TablesInv, ApplyHeaders
  PROVE  HeadersInOrder'
<1>. DEFINE all == Over!Fold(<<>>, compiled, request)
            m   == Len(all)
<1>1. HeadersSoFar(all, Len(compiled), request)
  BY HeadersByRules
<1>2. all \in Seq(1..Count) /\ DOMAIN all = 1..m
  BY <1>1 DEF HeadersSoFar
<1>3. used' = all /\ UNCHANGED <<config, compiled, request>> /\ config.table = "headers"
  BY HeadersFolded DEF Answer, ApplyHeaders
<1>4. RulesThatMatch' = RulesThatMatch
  BY <1>3 DEF RulesThatMatch, Count, Rule
<1>5. DOMAIN compiled = 1..Len(compiled) /\ pc # "compiling"
  <2>1. pc # "compiling"
    BY DEF ApplyHeaders, Asked
  <2>. QED
    BY <2>1 DEF TablesInv, TypesOK
<1>6. \A k : k \in Applying(request) <=> k \in 1..Len(compiled) /\ Heads(k, request)
  BY <1>3, <1>5 DEF Applying, Heads
<1>. HIDE DEF all
<1>7. Range(all) = {all[i] : i \in 1..m}
  BY <1>2 DEF Range
<1>8. ASSUME NEW i \in 1..m PROVE all[i] \in RulesThatMatch
  <2>1. PICK l \in 1..Len(compiled) : Heads(l, request) /\ all[i] = compiled[l].rule
    BY <1>1 DEF HeadersSoFar
  <2>. QED
    BY <1>5, <1>6, <2>1, ApplyingRules
<1>9. ASSUME NEW r \in RulesThatMatch PROVE r \in Range(all)
  <2>1. PICK k \in Applying(request) : compiled[k].rule = r
    BY <1>5, ApplyingRules
  <2>2. PICK i \in 1..m : all[i] = compiled[k].rule
    BY <1>1, <1>6, <2>1 DEF HeadersSoFar
  <2>. QED
    BY <1>7, <2>1, <2>2
<1>10. Range(all) = RulesThatMatch
  BY <1>7, <1>8, <1>9
<1>11. \A i, j \in DOMAIN all : i < j => all[i] < all[j]
  BY <1>1, <1>2 DEF HeadersSoFar
<1>. QED
  BY <1>3, <1>4, <1>10, <1>11 DEF HeadersInOrder

LEMMA HeaderInit == Init => HeaderInv
BY TablesInit DEF Init, HeaderInv, HeadersInOrder

LEMMA NextHeader == HeaderInv /\ [Next]_vars => HeaderInv'
<1>. SUFFICES ASSUME HeaderInv, [Next]_vars PROVE HeadersInOrder'
  BY NextTables DEF HeaderInv
<1>0. TablesInv /\ HeadersInOrder
  BY DEF HeaderInv
<1>1. CASE UNCHANGED vars
  BY <1>0, <1>1 DEF vars, HeadersInOrder, RulesThatMatch, Count, Rule
<1>2. CASE CompileRule \/ Serve \/ (\E path \in Requests : Ask(path)) \/ BeginRewrites \/ RewritePass \/ Done
  <2>1. pc' # "answered"
    BY <1>2 DEF CompileRule, Serve, Ask, BeginRewrites, RewritePass, Done
  <2>. QED
    BY <2>1 DEF HeadersInOrder
<1>3. CASE Refuse
  BY <1>3 DEF Refuse, Answer, HeadersInOrder
<1>4. CASE Unaffected
  <2>1. Applying(request) = {} /\ pc # "compiling" /\ UNCHANGED <<config, request>> /\ used' = <<>>
    BY <1>4 DEF Unaffected, Asked, Answer
  <2>2. RulesThatMatch = {}
    BY <1>0, <2>1, ApplyingRules
  <2>3. RulesThatMatch' = {}
    BY <2>1, <2>2 DEF RulesThatMatch, Count, Rule
  <2>4. Range(<<>>) = {} /\ DOMAIN <<>> = {}
    BY DEF Range
  <2>. QED
    BY <2>1, <2>3, <2>4 DEF HeadersInOrder
<1>5. CASE ApplyHeaders
  BY <1>0, <1>5, HeadersAnswered
<1>6. CASE Redirect \/ InScope \/ EndRewrites
  <2>1. config.table # "headers" /\ config' = config
    BY <1>0, <1>6 DEF Redirect, InScope, EndRewrites, Answer, Scopes, TablesInv, TypesOK
  <2>. QED
    BY <2>1 DEF HeadersInOrder
<1>. QED
  BY <1>1, <1>2, <1>3, <1>4, <1>5, <1>6 DEF Next
-----------------------------------------------------------------------------
(* Names, sequences of them and the place a path leads to.                 *)
Plain == AnyName \ {Empty, Here, Up}

LEMMA NamesDiffer ==
  /\ Empty # Here /\ Empty # Up /\ Here # Up
  /\ Empty \in AnyName /\ Here \in AnyName /\ Up \in AnyName
<1>1. Empty.stem # Here.stem /\ Empty.stem # Up.stem /\ Here.stem # Up.stem
  BY Zenon DEF Empty, Here, Up, Name
<1>2. \A stem \in STRING : Name(stem) \in AnyName
  BY DEF Name, AnyName
<1>3. "" \in STRING /\ "." \in STRING /\ ".." \in STRING
  BY TextsAssumption, Zenon
<1>. QED
  BY <1>1, <1>2, <1>3, Zenon DEF Empty, Here, Up

LEMMA Fronted ==
  ASSUME NEW T, NEW s \in Seq(T), s # <<>>
  PROVE  /\ Len(s) \in Nat \ {0} /\ Front(s) \in Seq(T) /\ Len(Front(s)) = Len(s) - 1
         /\ \A i \in 1..Len(s) - 1 : Front(s)[i] = s[i]
         /\ Last(s) = s[Len(s)] /\ Last(s) \in T
<1>1. Len(s) \in Nat \ {0} /\ \A i \in 1..Len(s) : s[i] \in T
  BY EmptySeq
<1>. DEFINE n == Len(s) - 1
<1>2. n \in Nat /\ 1 \in Int /\ \A i \in 1..n : s[i] \in T
  BY <1>1
<1>3. /\ SubSeq(s, 1, n) \in Seq(T)
      /\ Len(SubSeq(s, 1, n)) = IF 1 <= n THEN n - 1 + 1 ELSE 0
      /\ \A i \in 1..n - 1 + 1 : SubSeq(s, 1, n)[i] = s[1 + i - 1]
  BY <1>2, SubSeqProperties
<1>. HIDE DEF n
<1>4. Len(SubSeq(s, 1, n)) = n /\ \A i \in 1..n : SubSeq(s, 1, n)[i] = s[i]
  BY <1>2, <1>3
<1>. QED
  BY <1>1, <1>3, <1>4 DEF Front, Last, n

LEMMA WalkedCases ==
  ASSUME NEW stack, NEW part
  PROVE  /\ part \in {Empty, Here} => Walked(stack, part) = stack
         /\ part = Up /\ stack = <<>> => Walked(stack, part) = <<>>
         /\ part = Up /\ stack # <<>> => Walked(stack, part) = Front(stack)
         /\ part \notin {Empty, Here, Up} => Walked(stack, part) = Append(stack, part)
BY NamesDiffer, Zenon DEF Walked

WalkStep(stack, part, q) == Walked(stack, part)

Walks == INSTANCE FoldLaws WITH Op <- WalkStep, Rel <- Same

LEMMA NormalizedFolds ==
  ASSUME NEW path
  PROVE  Normalized(path) = Walks!Fold(<<>>, path, 0)
BY Zenon DEF Normalized, WalkStep, Walks!Fold, Walks!FoldLeft, FoldLeft,
             Walks!MapThenFoldSet, MapThenFoldSet, Walks!Max, Max

LEMMA WalkedIn ==
  ASSUME NEW part \in AnyName, NEW stack \in Seq(Plain)
  PROVE  Walked(stack, part) \in Seq(Plain)
<1>1. CASE part \in {Empty, Here} \/ (part = Up /\ stack = <<>>)
  BY <1>1, WalkedCases
<1>2. CASE part = Up /\ stack # <<>>
  BY <1>2, WalkedCases, Fronted
<1>3. CASE part \notin {Empty, Here, Up}
  <2>1. part \in Plain
    BY <1>3 DEF Plain
  <2>. QED
    BY <1>3, <2>1, WalkedCases, Appended
<1>. QED
  BY <1>1, <1>2, <1>3

LEMMA NormalizedIn ==
  ASSUME NEW path \in Seq(AnyName)
  PROVE  Normalized(path) \in Seq(Plain)
<1>1. Len(path) \in Nat /\ DOMAIN path = 1..Len(path) /\ \A i \in 1..Len(path) : path[i] \in AnyName
  OBVIOUS
<1>2. \A i \in 1..Len(path) : \A h \in Seq(Plain) : WalkStep(h, path[i], 0) \in Seq(Plain)
  BY <1>1, WalkedIn DEF WalkStep
<1>3. <<>> \in Seq(Plain)
  OBVIOUS
<1>4. Walks!Fold(<<>>, path, 0) \in Seq(Plain)
  BY <1>1, <1>2, <1>3, Walks!FoldIn
<1>. QED
  BY <1>4, NormalizedFolds

(* How deep the first k names of a path lead below the root.               *)
Plains(path, k) == {i \in 1..k : path[i] \notin {Empty, Here, Up}}
Ups(path, k)    == {i \in 1..k : path[i] = Up}
DepthAt(path, k) == Cardinality(Plains(path, k)) - Cardinality(Ups(path, k))

LEMMA DepthOfPrefix ==
  ASSUME NEW path \in Seq(AnyName), NEW k \in 0..Len(path)
  PROVE  Depth(SubSeq(path, 1, k)) = DepthAt(path, k)
<1>. DEFINE s == SubSeq(path, 1, k)
<1>1. k \in Nat /\ k \in Int /\ 1 \in Int /\ \A i \in 1..k : path[i] \in AnyName
  OBVIOUS
<1>2. /\ s \in Seq(AnyName) /\ Len(s) = IF 1 <= k THEN k - 1 + 1 ELSE 0
      /\ \A i \in 1..k - 1 + 1 : s[i] = path[1 + i - 1]
  BY <1>1, SubSeqProperties
<1>. HIDE DEF s
<1>3. DOMAIN s = 1..k /\ \A i \in 1..k : s[i] = path[i]
  BY <1>1, <1>2
<1>4. /\ {i \in DOMAIN s : s[i] \notin {Empty, Here, Up}} = Plains(path, k)
      /\ {i \in DOMAIN s : s[i] = Up} = Ups(path, k)
  BY <1>3 DEF Plains, Ups
<1>. QED
  BY <1>4, Zenon DEF Depth, DepthAt, s

LEMMA DepthGoesOn ==
  ASSUME NEW path, NEW k \in Nat
  PROVE  /\ DepthAt(path, k) \in Int /\ DepthAt(path, 0) = 0
         /\ path[k + 1] \in {Empty, Here} => DepthAt(path, k + 1) = DepthAt(path, k)
         /\ path[k + 1] = Up => DepthAt(path, k + 1) = DepthAt(path, k) - 1
         /\ path[k + 1] \notin {Empty, Here, Up} => DepthAt(path, k + 1) = DepthAt(path, k) + 1
<1>1. IsFiniteSet(1..k)
  BY FS_Interval
<1>2. /\ IsFiniteSet(Plains(path, k)) /\ IsFiniteSet(Ups(path, k))
      /\ Plains(path, k) \subseteq 1..k /\ Ups(path, k) \subseteq 1..k
  BY <1>1, FS_Subset DEF Plains, Ups
<1>3. Cardinality(Plains(path, k)) \in Nat /\ Cardinality(Ups(path, k)) \in Nat
  BY <1>2, FS_CardinalityType
<1>4. k + 1 \notin Plains(path, k) /\ k + 1 \notin Ups(path, k)
  BY <1>2
<1>5. /\ Cardinality(Plains(path, k) \union {k + 1}) = Cardinality(Plains(path, k)) + 1
      /\ Cardinality(Ups(path, k) \union {k + 1}) = Cardinality(Ups(path, k)) + 1
  BY <1>2, <1>4, FS_AddElement
<1>6. /\ \A i : i \in 1..k + 1 <=> i \in 1..k \/ i = k + 1
      /\ 1..0 = {}
  OBVIOUS
<1>7. /\ path[k + 1] \notin {Empty, Here, Up} => Plains(path, k + 1) = Plains(path, k) \union {k + 1}
      /\ path[k + 1] \in {Empty, Here, Up} => Plains(path, k + 1) = Plains(path, k)
  BY <1>6 DEF Plains
<1>8. /\ path[k + 1] = Up => Ups(path, k + 1) = Ups(path, k) \union {k + 1}
      /\ path[k + 1] # Up => Ups(path, k + 1) = Ups(path, k)
  BY <1>6 DEF Ups
<1>9. DepthAt(path, 0) = 0
  <2>1. Plains(path, 0) = {} /\ Ups(path, 0) = {}
    BY <1>6 DEF Plains, Ups
  <2>2. Cardinality({}) = 0
    BY FS_EmptySet
  <2>. QED
    BY <2>1, <2>2 DEF DepthAt
<1>. DEFINE a == Cardinality(Plains(path, k))
            b == Cardinality(Ups(path, k))
            c == Cardinality(Plains(path, k + 1))
            d == Cardinality(Ups(path, k + 1))
            x == path[k + 1]
<1>10. /\ x \notin {Empty, Here, Up} => c = a + 1
       /\ x \in {Empty, Here, Up} => c = a
       /\ x = Up => d = b + 1
       /\ x # Up => d = b
  BY <1>5, <1>7, <1>8
<1>11. DepthAt(path, k) = a - b /\ DepthAt(path, k + 1) = c - d /\ a \in Nat /\ b \in Nat
  BY <1>3 DEF DepthAt
<1>. HIDE DEF a, b, c, d
<1>12. x \in {Empty, Here} => x # Up
  BY NamesDiffer
<1>. HIDE DEF x
<1>. QED
  BY <1>9, <1>10, <1>11, <1>12 DEF x

LEMMA Below ==
  ASSUME NEW T, NEW root \in Seq(T), NEW s \in Seq(T), NEW x \in T
  PROVE  /\ root \o Append(s, x) = Append(root \o s, x)
         /\ s # <<>> => root \o s # <<>> /\ Front(root \o s) = root \o Front(s)
<1>. DEFINE r == Len(root)
            n == Len(s)
            j == root \o s
<1>1. /\ r \in Nat /\ n \in Nat
      /\ j \in Seq(T) /\ Len(j) = r + n
      /\ \A i \in 1..r + n : j[i] = IF i <= r THEN root[i] ELSE s[i - r]
  BY ConcatProperties
<1>2. root \o Append(s, x) = Append(j, x)
  <2>. DEFINE t == Append(s, x)
              u == Append(j, x)
              k == root \o t
  <2>1. t \in Seq(T) /\ Len(t) = n + 1 /\ t[n + 1] = x /\ \A i \in 1..n : t[i] = s[i]
    BY Appended
  <2>2. /\ u \in Seq(T) /\ Len(u) = r + n + 1 /\ u[r + n + 1] = x
        /\ \A i \in 1..r + n : u[i] = j[i]
    <3>. HIDE DEF j
    <3>1. u \in Seq(T) /\ Len(u) = Len(j) + 1 /\ u[Len(j) + 1] = x /\ \A i \in 1..Len(j) : u[i] = j[i]
      <4>1. j \in Seq(T)
        BY <1>1
      <4>. HIDE DEF r, n, t, k
      <4>. QED
        BY <4>1, Appended
    <3>. QED
      BY <1>1, <3>1
  <2>. HIDE DEF t
  <2>3. /\ k \in Seq(T) /\ Len(k) = r + Len(t)
        /\ \A i \in 1..r + Len(t) : k[i] = IF i <= r THEN root[i] ELSE t[i - r]
    BY <2>1, ConcatProperties
  <2>. HIDE DEF k, u, j, r, n
  <2>4. ASSUME NEW i \in 1..r + n + 1 PROVE k[i] = u[i]
    <3>1. CASE i <= r
      BY <1>1, <2>1, <2>2, <2>3, <3>1
    <3>2. CASE i > r /\ i <= r + n
      <4>1. i - r \in 1..n /\ i \in 1..r + n /\ i \in 1..r + Len(t) /\ ~(i <= r)
        BY <1>1, <2>1, <3>2
      <4>. QED
        BY <1>1, <2>1, <2>2, <2>3, <4>1
    <3>3. CASE i = r + n + 1
      <4>1. i - r = n + 1 /\ ~(i <= r) /\ i \in 1..r + Len(t)
        BY <1>1, <2>1, <3>3
      <4>. QED
        BY <2>1, <2>2, <2>3, <3>3, <4>1
    <3>. QED
      BY <1>1, <3>1, <3>2, <3>3
  <2>5. Len(k) = Len(u) /\ \A i \in 1..Len(k) : k[i] = u[i]
    BY <1>1, <2>1, <2>2, <2>3, <2>4
  <2>6. k = u
    BY <2>2, <2>3, <2>5, SeqEqual
  <2>. QED
    BY <2>6 DEF k, u, t, j
<1>3. ASSUME s # <<>> PROVE j # <<>> /\ Front(j) = root \o Front(s)
  <2>. DEFINE f == Front(s)
              g == Front(j)
              k == root \o f
  <2>1. n \in Nat \ {0} /\ f \in Seq(T) /\ Len(f) = n - 1 /\ \A i \in 1..n - 1 : f[i] = s[i]
    BY <1>3, Fronted
  <2>. HIDE DEF j, f
  <2>2. j # <<>>
    BY <1>1, <2>1
  <2>3. /\ g \in Seq(T) /\ Len(g) = r + n - 1 /\ \A i \in 1..r + n - 1 : g[i] = j[i]
    <3>1. g \in Seq(T) /\ Len(g) = Len(j) - 1 /\ \A i \in 1..Len(j) - 1 : g[i] = j[i]
      BY <1>1, <2>2, Fronted
    <3>. HIDE DEF g, r, n
    <3>. QED
      BY <1>1, <3>1
  <2>4. /\ k \in Seq(T) /\ Len(k) = r + Len(f)
        /\ \A i \in 1..r + Len(f) : k[i] = IF i <= r THEN root[i] ELSE f[i - r]
    BY <2>1, ConcatProperties
  <2>. HIDE DEF k, g, r, n
  <2>5. ASSUME NEW i \in 1..r + n - 1 PROVE k[i] = g[i]
    <3>1. CASE i <= r
      <4>1. i \in 1..r + n /\ i \in 1..r + Len(f)
        BY <1>1, <2>1, <3>1
      <4>. QED
        BY <1>1, <2>3, <2>4, <3>1, <4>1
    <3>2. CASE i > r
      <4>1. i - r \in 1..n - 1 /\ i \in 1..r + n /\ i \in 1..r + Len(f) /\ ~(i <= r)
        BY <1>1, <2>1, <3>2
      <4>. QED
        BY <1>1, <2>1, <2>3, <2>4, <4>1
    <3>. QED
      BY <1>1, <3>1, <3>2
  <2>6. Len(k) = Len(g) /\ \A i \in 1..Len(k) : k[i] = g[i]
    BY <1>1, <2>1, <2>3, <2>4, <2>5
  <2>7. k = g
    BY <2>3, <2>4, <2>6, SeqEqual
  <2>. QED
    BY <2>2, <2>7 DEF k, g, f
<1>. QED
  BY <1>2, <1>3 DEF j

(* The walk over a path below a root keeps step with that over the path,   *)
(* as long as no name climbs above.                                        *)
LEMMA StepBelow ==
  ASSUME NEW root \in Seq(Plain), NEW stack \in Seq(Plain), NEW part \in AnyName,
         part = Up => stack # <<>>
  PROVE  Walked(root \o stack, part) = root \o Walked(stack, part)
<1>1. CASE part \in {Empty, Here}
  BY <1>1, WalkedCases
<1>2. CASE part = Up
  <2>1. Empty \notin Plain /\ stack # <<>>
    BY <1>2 DEF Plain
  <2>2. PICK x : x \in Plain
    <3>1. Len(stack) \in Nat \ {0}
      BY <2>1, EmptySeq
    <3>2. stack[1] \in Plain
      BY <3>1
    <3>. QED
      BY <3>2
  <2>3. root \o stack # <<>> /\ Front(root \o stack) = root \o Front(stack)
    BY <2>1, <2>2, Below
  <2>. QED
    BY <1>2, <2>1, <2>3, WalkedCases
<1>3. CASE part \notin {Empty, Here, Up}
  <2>1. part \in Plain
    BY <1>3 DEF Plain
  <2>2. root \o Append(stack, part) = Append(root \o stack, part)
    BY <2>1, Below
  <2>. QED
    BY <1>3, <2>2, WalkedCases
<1>. QED
  BY <1>1, <1>2, <1>3

(* The walk over a path that does not climb above its root: as many names  *)
(* as it is deep.                                                          *)
Walking(path, v) == Walks!Trace(<<>>, path, 0, Len(path), v)

LEMMA DeepEnough ==
  ASSUME NEW path \in Seq(AnyName), ~lexical_path_escapes_root(path), NEW v, Walking(path, v)
  PROVE  \A k \in 0..Len(path) : v[k] \in Seq(Plain) /\ Len(v[k]) = DepthAt(path, k)
<1>. DEFINE n == Len(path)
            T == {k \in 0..n : v[k] \in Seq(Plain) /\ Len(v[k]) = DepthAt(path, k)}
<1>1. n \in Nat /\ DOMAIN path = 1..n /\ \A i \in 1..n : path[i] \in AnyName
  OBVIOUS
<1>2. 0 \in T
  <2>1. v[0] = <<>>
    BY DEF Walking, Walks!Trace
  <2>2. DepthAt(path, 0) = 0
    BY DepthGoesOn
  <2>3. <<>> \in Seq(Plain) /\ Len(<<>>) = 0 /\ 0 \in 0..n
    BY <1>1
  <2>. HIDE DEF n
  <2>. QED
    BY <2>1, <2>2, <2>3
<1>3. ASSUME NEW k \in 0..n - 1, k \in T PROVE k + 1 \in T
  <2>. DEFINE x == path[k + 1]
  <2>1. k \in Nat /\ k + 1 \in 1..n /\ k + 1 \in 0..n /\ (k + 1) - 1 = k
    BY <1>1
  <2>2. x \in AnyName
    BY <1>1, <2>1
  <2>3. v[k + 1] = Walked(v[k], x)
    BY <1>1, <2>1 DEF Walking, Walks!Trace, WalkStep
  <2>4. v[k] \in Seq(Plain) /\ Len(v[k]) = DepthAt(path, k)
    BY <1>3
  <2>5. v[k + 1] \in Seq(Plain)
    BY <2>2, <2>3, <2>4, WalkedIn
  <2>. HIDE DEF n
  <2>6. Len(v[k + 1]) = DepthAt(path, k + 1)
    <3>1. CASE x \in {Empty, Here}
      BY <2>1, <2>3, <2>4, <3>1, WalkedCases, DepthGoesOn
    <3>2. CASE x = Up
      <4>1. DepthAt(path, k + 1) >= 0
        <5>1. Depth(SubSeq(path, 1, k + 1)) = DepthAt(path, k + 1)
          BY <2>1, DepthOfPrefix DEF n
        <5>2. ~(Depth(SubSeq(path, 1, k + 1)) < 0)
          BY <1>1, <2>1, <3>2 DEF lexical_path_escapes_root
        <5>3. DepthAt(path, k + 1) \in Int
          BY <2>1, DepthGoesOn
        <5>. QED
          BY <5>1, <5>2, <5>3
      <4>2. DepthAt(path, k + 1) = DepthAt(path, k) - 1 /\ DepthAt(path, k) \in Int
        BY <2>1, <3>2, DepthGoesOn
      <4>3. v[k] # <<>>
        BY <2>4, <4>1, <4>2
      <4>4. v[k + 1] = Front(v[k]) /\ Len(v[k + 1]) = Len(v[k]) - 1
        BY <2>3, <2>4, <3>2, <4>3, WalkedCases, Fronted
      <4>. QED
        BY <2>4, <4>2, <4>4
    <3>3. CASE x \notin {Empty, Here, Up}
      <4>1. x \in Plain
        BY <2>2, <3>3 DEF Plain
      <4>2. v[k + 1] = Append(v[k], x)
        BY <2>3, <3>3, WalkedCases
      <4>3. Len(v[k + 1]) = Len(v[k]) + 1
        BY <2>4, <4>1, <4>2, Appended
      <4>. QED
        BY <2>1, <2>4, <3>3, <4>3, DepthGoesOn
    <3>. QED
      BY <3>1, <3>2, <3>3
  <2>. QED
    BY <2>1, <2>5, <2>6
<1>. HIDE DEF T
<1>4. \A k \in 0..n - 1 : k \in T => k + 1 \in T
  BY <1>3
<1>. HIDE DEF n
<1>5. 0..n \subseteq T
  BY <1>1, <1>2, <1>4, Walks!UpToByMembers, Zenon
<1>. QED
  BY <1>5 DEF T, n

(* No name climbs above the root, so the walk has one to go back from.     *)
LEMMA NeverEmptied ==
  ASSUME NEW path \in Seq(AnyName), ~lexical_path_escapes_root(path), NEW v, Walking(path, v),
         NEW k \in 0..Len(path) - 1, path[k + 1] = Up
  PROVE  v[k] # <<>>
<1>1. k \in Nat /\ k + 1 \in 1..Len(path) /\ k \in 0..Len(path) /\ k + 1 \in 0..Len(path)
      /\ DOMAIN path = 1..Len(path)
  OBVIOUS
<1>2. Depth(SubSeq(path, 1, k + 1)) = DepthAt(path, k + 1)
  BY <1>1, DepthOfPrefix
<1>3. ~(DepthAt(path, k + 1) < 0)
  BY <1>1, <1>2 DEF lexical_path_escapes_root
<1>4. /\ DepthAt(path, k + 1) = DepthAt(path, k) - 1 /\ DepthAt(path, k) \in Int
      /\ Len(v[k]) = DepthAt(path, k)
  BY <1>1, DepthGoesOn, DeepEnough
<1>5. Len(v[k]) # 0
  BY <1>3, <1>4
<1>. QED
  BY <1>5, EmptySeq

(* The walk over a root that is normalized leaves it as it is.             *)
LEMMA RootWalked ==
  ASSUME NEW root \in Seq(Plain), NEW path \in Seq(AnyName), NEW w, Walking(root \o path, w)
  PROVE  /\ root \o path \in Seq(AnyName) /\ Len(root \o path) = Len(root) + Len(path)
         /\ \A k \in 1..Len(path) : (root \o path)[Len(root) + k] = path[k]
         /\ w[Len(root)] = root
<1>. DEFINE r == Len(root)
            n == Len(path)
            whole == root \o path
            T == {k \in 0..r : w[k] \in Seq(Plain) /\ Len(w[k]) = k /\ \A i \in 1..k : w[k][i] = root[i]}
<1>1. r \in Nat /\ n \in Nat /\ \A i \in 1..r : root[i] \in Plain
  OBVIOUS
<1>2. /\ whole \in Seq(AnyName) /\ Len(whole) = r + n
      /\ \A i \in 1..r + n : whole[i] = IF i <= r THEN root[i] ELSE path[i - r]
  <2>1. root \in Seq(AnyName)
    BY SeqMonotonic DEF Plain
  <2>. QED
    BY <2>1, ConcatProperties
<1>. HIDE DEF whole
<1>3. \A k \in 1..n : whole[r + k] = path[k]
  <2>. TAKE k \in 1..n
  <2>1. r + k \in 1..r + n /\ ~(r + k <= r) /\ (r + k) - r = k
    BY <1>1
  <2>. QED
    BY <1>2, <2>1
<1>4. 0 \in T
  <2>1. w[0] = <<>>
    BY DEF Walking, Walks!Trace
  <2>2. <<>> \in Seq(Plain) /\ Len(<<>>) = 0 /\ 0 \in 0..r /\ 1..0 = {}
    BY <1>1
  <2>. HIDE DEF r
  <2>. QED
    BY <2>1, <2>2
<1>5. ASSUME NEW k \in 0..r - 1, k \in T PROVE k + 1 \in T
  <2>1. k + 1 \in 1..r /\ k + 1 \in 1..r + n /\ k + 1 \in 0..r /\ (k + 1) - 1 = k /\ k + 1 <= r /\ k \in Nat
    BY <1>1
  <2>2. whole[k + 1] = root[k + 1] /\ root[k + 1] \in Plain
    BY <1>1, <1>2, <2>1
  <2>3. w[k + 1] = Walked(w[k], root[k + 1])
    BY <1>2, <2>1, <2>2 DEF Walking, Walks!Trace, WalkStep, whole
  <2>4. root[k + 1] \notin {Empty, Here, Up}
    BY <2>2 DEF Plain
  <2>5. w[k + 1] = Append(w[k], root[k + 1])
    BY <2>3, <2>4, WalkedCases
  <2>6. w[k] \in Seq(Plain) /\ Len(w[k]) = k /\ \A i \in 1..k : w[k][i] = root[i]
    BY <1>5
  <2>7. /\ w[k + 1] \in Seq(Plain) /\ Len(w[k + 1]) = k + 1 /\ w[k + 1][k + 1] = root[k + 1]
        /\ \A i \in 1..k : w[k + 1][i] = w[k][i]
    BY <2>2, <2>5, <2>6, Appended
  <2>8. \A i \in 1..k + 1 : w[k + 1][i] = root[i]
    <3>. TAKE i \in 1..k + 1
    <3>1. i \in 1..k \/ i = k + 1
      BY <2>1
    <3>. QED
      BY <2>6, <2>7, <3>1
  <2>. QED
    BY <2>1, <2>7, <2>8
<1>. HIDE DEF T
<1>6. \A k \in 0..r - 1 : k \in T => k + 1 \in T
  BY <1>5
<1>. HIDE DEF r
<1>7. r \in T
  <2>1. 0..r \subseteq T
    BY <1>1, <1>4, <1>6, Walks!UpToByMembers, Zenon
  <2>. QED
    BY <1>1, <2>1
<1>8. w[r] = root
  BY <1>7, SeqEqual DEF T, r
<1>. QED
  BY <1>2, <1>3, <1>8 DEF r, whole

LEMMA StaysBelow ==
  ASSUME NEW root \in Seq(Plain), NEW path \in Seq(AnyName), ~lexical_path_escapes_root(path)
  PROVE  Normalized(root \o path) = root \o Normalized(path)
<1>. DEFINE r == Len(root)
            n == Len(path)
            whole == root \o path
<1>1. r \in Nat /\ n \in Nat /\ DOMAIN path = 1..n /\ \A i \in 1..n : path[i] \in AnyName
  OBVIOUS
<1>2. whole \in Seq(AnyName)
  <2>1. root \in Seq(AnyName)
    BY SeqMonotonic DEF Plain
  <2>. QED
    BY <2>1, ConcatProperties
<1>3. PICK v : Walking(path, v) /\ v[n] = Normalized(path)
  BY <1>1, Walks!FoldTrace, NormalizedFolds DEF Walking
<1>4. PICK w : Walking(whole, w) /\ w[Len(whole)] = Normalized(whole)
  <2>. HIDE DEF whole
  <2>1. Len(whole) \in Nat /\ DOMAIN whole = 1..Len(whole)
    BY <1>2
  <2>. QED
    BY <2>1, Walks!FoldTrace, NormalizedFolds DEF Walking
<1>5. Len(whole) = r + n /\ (\A k \in 1..n : whole[r + k] = path[k]) /\ w[r] = root
  BY <1>4, RootWalked
<1>6. \A k \in 0..n : v[k] \in Seq(Plain)
  BY <1>3, DeepEnough
<1>. HIDE DEF whole, r
<1>. DEFINE T == {k \in 0..n : w[r + k] = root \o v[k]}
<1>7. 0 \in T
  <2>1. v[0] = <<>> /\ r + 0 = r
    BY <1>1, <1>3 DEF Walking, Walks!Trace
  <2>2. root \o <<>> = root
    BY ConcatEmptySeq
  <2>. QED
    BY <1>1, <1>5, <2>1, <2>2
<1>8. ASSUME NEW k \in 0..n - 1, k \in T PROVE k + 1 \in T
  <2>. DEFINE x == path[k + 1]
  <2>1. /\ k + 1 \in 1..n /\ k + 1 \in 0..n /\ k \in 0..n /\ (k + 1) - 1 = k
        /\ r + (k + 1) \in 1..r + n /\ r + (k + 1) - 1 = r + k
    BY <1>1
  <2>2. v[k + 1] = Walked(v[k], x)
    BY <1>3, <2>1 DEF Walking, Walks!Trace, WalkStep
  <2>3. w[r + (k + 1)] = Walked(w[r + k], x)
    <3>1. whole[r + (k + 1)] = x
      BY <1>5, <2>1
    <3>2. \A j \in 1..r + n : w[j] = Walked(w[j - 1], whole[j])
      BY <1>4, <1>5 DEF Walking, Walks!Trace, WalkStep
    <3>3. PICK j \in 1..r + n : j = r + (k + 1)
      BY <2>1
    <3>4. j - 1 = r + k
      BY <1>1, <3>3
    <3>5. w[j] = Walked(w[j - 1], whole[j])
      BY <3>2
    <3>. QED
      BY <3>1, <3>3, <3>4, <3>5
  <2>4. x = Up => v[k] # <<>>
    BY <1>3, NeverEmptied
  <2>5. Walked(root \o v[k], x) = root \o Walked(v[k], x)
    BY <1>1, <1>6, <2>1, <2>4, StepBelow
  <2>6. w[r + k] = root \o v[k]
    BY <1>8
  <2>7. w[r + (k + 1)] = root \o v[k + 1]
    BY <2>2, <2>3, <2>5, <2>6
  <2>. QED
    BY <2>1, <2>7
<1>. HIDE DEF T
<1>9. \A k \in 0..n - 1 : k \in T => k + 1 \in T
  BY <1>8
<1>. HIDE DEF n
<1>10. n \in T
  <2>1. 0..n \subseteq T
    BY <1>1, <1>7, <1>9, Walks!UpToByMembers, Zenon
  <2>. QED
    BY <1>1, <2>1
<1>11. w[r + n] = root \o v[n]
  BY <1>10 DEF T
<1>12. Normalized(whole) = root \o Normalized(path)
  BY <1>3, <1>4, <1>5, <1>11 DEF n
<1>. QED
  BY <1>12 DEF whole

LEMMA RequestTyped ==
  ASSUME TablesInv
  PROVE  request \in Seq(AnyName)
<1>1. <<Empty>> \in Seq(AnyName)
  BY NamesDiffer
<1>. QED
  BY <1>1, RequestsAssumption DEF TablesInv, TypesOK, RootUrl
-----------------------------------------------------------------------------
(* The body of a source: segments with a name to them, and a backslash at  *)
(* an end only at the very end.                                            *)
BodySegment == {seg \in AnySegment : seg.name \notin {Empty, Here, Up}}

BodyStep(stack, seg, q) ==
  CASE seg.name \in {Empty, Here} -> stack
    [] seg.name = Up -> IF stack = <<>> THEN <<>> ELSE Front(stack)
    [] OTHER -> Append(stack, seg)

Bodies == INSTANCE FoldLaws WITH Op <- BodyStep, Rel <- Same

LEMMA BodyFolds ==
  ASSUME NEW source
  PROVE  SourceBody(source) = Bodies!Fold(<<>>, source.parts, 0)
BY Zenon DEF SourceBody, BodyStep, Bodies!Fold, Bodies!FoldLeft, FoldLeft,
             Bodies!MapThenFoldSet, MapThenFoldSet, Bodies!Max, Max

LEMMA BodyCases ==
  ASSUME NEW stack, NEW seg
  PROVE  /\ seg.name \in {Empty, Here} => BodyStep(stack, seg, 0) = stack
         /\ seg.name = Up /\ stack = <<>> => BodyStep(stack, seg, 0) = <<>>
         /\ seg.name = Up /\ stack # <<>> => BodyStep(stack, seg, 0) = Front(stack)
         /\ seg.name \notin {Empty, Here, Up} => BodyStep(stack, seg, 0) = Append(stack, seg)
BY NamesDiffer, Zenon DEF BodyStep

(* Segments of a set, of which the last may also be of a larger one.       *)
LEMMA BodyStepIn ==
  ASSUME NEW T, NEW seg \in AnySegment, seg.name \notin {Empty, Here, Up} => seg \in T,
         NEW stack \in Seq(T)
  PROVE  BodyStep(stack, seg, 0) \in Seq(T)
<1>1. CASE seg.name \in {Empty, Here} \/ (seg.name = Up /\ stack = <<>>)
  BY <1>1, BodyCases
<1>2. CASE seg.name = Up /\ stack # <<>>
  BY <1>2, BodyCases, Fronted
<1>3. CASE seg.name \notin {Empty, Here, Up}
  BY <1>3, BodyCases, Appended
<1>. QED
  BY <1>1, <1>2, <1>3

LEMMA BodyIn ==
  ASSUME NEW source, IsSource(source)
  PROVE  SourceBody(source) \in Seq(BodySegment)
<1>. DEFINE s == source.parts
            n == Len(s)
<1>1. n \in Nat /\ DOMAIN s = 1..n /\ \A i \in 1..n : s[i] \in AnySegment
  BY DEF IsSource
<1>2. ASSUME NEW i \in 1..n, NEW h \in Seq(BodySegment)
      PROVE  BodyStep(h, s[i], 0) \in Seq(BodySegment)
  <2>1. s[i] \in AnySegment /\ (s[i].name \notin {Empty, Here, Up} => s[i] \in BodySegment)
    BY <1>1 DEF BodySegment
  <2>. QED
    BY <2>1, BodyStepIn
<1>3. <<>> \in Seq(BodySegment)
  OBVIOUS
<1>. HIDE DEF s, n
<1>4. Bodies!Fold(<<>>, s, 0) \in Seq(BodySegment)
  BY <1>1, <1>2, <1>3, Bodies!FoldIn
<1>. QED
  BY <1>4, BodyFolds DEF s

LEMMA BodyEnds ==
  ASSUME NEW source, IsSource(source)
  PROVE  LET body == SourceBody(source)
         IN  \A i \in 1..Len(body) : body[i].name.slash = "end" => i = Len(body)
<1>. DEFINE s == source.parts
            n == Len(s)
            body == SourceBody(source)
            T == {seg \in BodySegment : seg.name.slash # "end"}
<1>1. /\ n \in Nat /\ DOMAIN s = 1..n /\ \A i \in 1..n : s[i] \in AnySegment
      /\ \A i \in 1..n : s[i].name.slash = "end" => i = n
  BY DEF IsSource
<1>2. PICK v : Bodies!Trace(<<>>, s, 0, n, v) /\ v[n] = body
  <2>. HIDE DEF s, n
  <2>. QED
    BY <1>1, Bodies!FoldTrace, BodyFolds DEF s
<1>3. CASE n = 0
  BY <1>2, <1>3 DEF Bodies!Trace
<1>4. CASE n # 0
  <2>1. n - 1 \in 0..n /\ n \in 1..n
    BY <1>1, <1>4
  <2>2. ASSUME NEW i \in 1..n - 1, NEW h \in Seq(T) PROVE BodyStep(h, s[i], 0) \in Seq(T)
    <3>1. i \in 1..n /\ i # n
      BY <1>1
    <3>2. s[i] \in AnySegment /\ (s[i].name \notin {Empty, Here, Up} => s[i] \in T)
      BY <1>1, <3>1 DEF BodySegment
    <3>. HIDE DEF T, s
    <3>. QED
      BY <3>2, BodyStepIn
  <2>3. <<>> \in Seq(T)
    OBVIOUS
  <2>. HIDE DEF T, s, n
  <2>4. \A k \in 0..n - 1 : v[k] \in Seq(T)
    <3>1. \A i \in 1..n - 1 : \A h \in Seq(T) : BodyStep(h, s[i], 0) \in Seq(T)
      BY <2>2
    <3>2. n \in Nat /\ n - 1 \in 0..n
      BY <1>1, <2>1
    <3>3. Bodies!Trace(<<>>, s, 0, n, v)
      BY <1>2
    <3>. QED
      BY <2>3, <3>1, <3>2, <3>3, Bodies!TraceIn
  <2>5. v[n - 1] \in Seq(T)
    BY <1>1, <2>1, <2>4
  <2>6. body = BodyStep(v[n - 1], s[n], 0)
    BY <1>2, <2>1 DEF Bodies!Trace
  <2>. HIDE DEF body
  <2>. DEFINE w == v[n - 1]
  <2>7. CASE s[n].name \in {Empty, Here} \/ (s[n].name = Up /\ w = <<>>)
    <3>1. body \in Seq(T)
      BY <2>5, <2>6, <2>7, BodyCases
    <3>. QED
      BY <3>1 DEF T, body
  <2>8. CASE s[n].name = Up /\ w # <<>>
    <3>1. body \in Seq(T)
      BY <2>5, <2>6, <2>8, BodyCases, Fronted
    <3>. QED
      BY <3>1 DEF T, body
  <2>9. CASE s[n].name \notin {Empty, Here, Up}
    <3>1. s[n] \in BodySegment /\ w \in Seq(BodySegment)
      <4>1. T \subseteq BodySegment
        BY DEF T
      <4>2. w \in Seq(BodySegment)
        BY <2>5, <4>1, SeqMonotonic
      <4>. QED
        BY <1>1, <2>1, <2>9, <4>2 DEF BodySegment
    <3>2. body = Append(w, s[n])
      BY <2>6, <2>9, BodyCases
    <3>. HIDE DEF w
    <3>3. Len(body) = Len(w) + 1 /\ \A i \in 1..Len(w) : body[i] = w[i]
      BY <3>1, <3>2, Appended
    <3>4. Len(w) \in Nat /\ \A i \in 1..Len(w) : w[i].name.slash # "end"
      BY <2>5 DEF T, w
    <3>5. \A i \in 1..Len(body) : i = Len(body) \/ i \in 1..Len(w)
      BY <3>3, <3>4
    <3>6. \A i \in 1..Len(body) : body[i].name.slash = "end" => i = Len(body)
      BY <3>3, <3>4, <3>5
    <3>. QED
      BY <3>6 DEF body
  <2>. QED
    BY <2>7, <2>8, <2>9
<1>. QED
  BY <1>3, <1>4
-----------------------------------------------------------------------------
(* What the header rules take, the redirects and rewrites take.            *)
LEMMA Literally ==
  ASSUME NEW body \in Seq(BodySegment), ~HasKind(body, GlobKinds)
  PROVE  RegexMatches(body, source_raw(body))
<1>. DEFINE n == Len(body)
            path == source_raw(body)
<1>1. n \in Nat /\ DOMAIN body = 1..n
  OBVIOUS
<1>2. path = [i \in 1..n |-> body[i].name]
  BY <1>1 DEF source_raw
<1>3. path \in Seq({body[i].name : i \in 1..n}) /\ Len(path) = n /\ \A i \in 1..n : path[i] = body[i].name
  <2>. HIDE DEF path, n
  <2>1. \A i \in 1..n : body[i].name \in {body[j].name : j \in 1..n}
    OBVIOUS
  <2>2. path \in [1..n -> {body[j].name : j \in 1..n}]
    BY <1>2
  <2>3. \A i \in 1..n : path[i] = body[i].name
    BY <1>2
  <2>4. path \in Seq({body[i].name : i \in 1..n})
    <3>1. n \in Nat
      BY <1>1
    <3>. QED
      BY <2>2, <3>1, FunctionsAreSequences, Zenon
  <2>5. Len(path) = n
    <3>1. DOMAIN path = 1..n
      BY <1>2
    <3>. QED
      BY <1>1, <2>4, <3>1
  <2>. QED
    BY <2>3, <2>4, <2>5, Zenon
<1>4. \A i \in 1..n : body[i].kind \notin Flexible
  BY <1>1 DEF HasKind, GlobKinds
<1>. HIDE DEF path
<1>5. FlexAt(body) = 0
  <2>1. {i \in 1..Len(body) : body[i].kind \in Flexible} = {}
    BY <1>4
  <2>. QED
    BY <2>1 DEF FlexAt, SelectInSeq
<1>6. \A i \in DOMAIN body : FitsOne(body[i], path[i])
  BY <1>1, <1>3 DEF FitsOne
<1>. QED
  BY <1>3, <1>5, <1>6 DEF RegexMatches, path

LEMMA HeaderTaken ==
  ASSUME NEW s, IsSource(s), NEW asked,
         compile(s) # InvalidMatcher,
         ~ends_with_unescaped_backslash(SourceBody(s)),
         header_matches(compile_header(s), asked)
  PROVE  try_match(compile(s), asked)
<1>. DEFINE body == SourceBody(s)
            path == path_posix_resolve(asked)
            found == match_segments(Classified(body), path)
<1>1. s.negate \in BOOLEAN /\ body \in Seq(BodySegment)
  BY BodyIn DEF IsSource
<1>2. found \in BOOLEAN
  BY DEF match_segments
<1>. HIDE DEF body, path, found
<1>3. CASE s.negate \/ HasKind(body, GlobKinds)
  <2>1. compile_header(s) = [form |-> "glob", segments |-> Classified(body), negate |-> s.negate]
    BY <1>3 DEF compile_header, body
  <2>2. found # s.negate
    BY <2>1 DEF header_matches, found, path
  <2>3. CASE NeedsPattern(s)
    <3>1. /\ ~s.negate
          /\ compile(s) = [form |-> "pattern", body |-> body, fallback |-> TRUE]
      <4>1. ~s.negate
        BY <2>3 DEF NeedsPattern
      <4>2. ~RepeatsParam(body)
        BY <2>3 DEF compile, body
      <4>3. compile(s) = [form |-> "pattern", body |-> body, fallback |-> ~ends_with_unescaped_backslash(body)]
        BY <2>3, <4>2, Zenon DEF compile, body
      <4>4. ~ends_with_unescaped_backslash(body) = TRUE
        BY DEF body
      <4>. QED
        BY <4>1, <4>3, <4>4
    <3>2. found
      BY <1>1, <1>2, <2>2, <3>1
    <3>3. FallbackMatches(compile(s), path)
      BY <3>1, <3>2 DEF FallbackMatches, found
    <3>. QED
      BY <3>1, <3>3 DEF try_match, path
  <2>4. CASE ~NeedsPattern(s)
    <3>1. compile(s) = [form |-> "glob", segments |-> Classified(body), negate |-> s.negate]
      BY <1>3, <2>4, Zenon DEF compile, body
    <3>. QED
      BY <2>2, <3>1 DEF try_match, found, path
  <2>. QED
    BY <2>3, <2>4
<1>4. CASE ~s.negate /\ ~HasKind(body, GlobKinds)
  <2>1. compile_header(s) = [form |-> "literal", source |-> source_raw(body), slash |-> SourceEndsWithSlash(s)]
    BY <1>4 DEF compile_header, body
  <2>2. source_raw(body) = path
    BY <2>1 DEF header_matches, path
  <2>3. CASE NeedsPattern(s)
    <3>1. compile(s).form = "pattern" /\ compile(s).body = body
      <4>1. ~RepeatsParam(body)
        BY <2>3 DEF compile, body
      <4>2. compile(s) = [form |-> "pattern", body |-> body, fallback |-> ~ends_with_unescaped_backslash(body)]
        BY <2>3, <4>1, Zenon DEF compile, body
      <4>. QED
        BY <4>2
    <3>2. RegexMatches(body, path)
      BY <1>1, <1>4, <2>2, Literally
    <3>. QED
      BY <3>1, <3>2 DEF try_match, path
  <2>4. CASE ~NeedsPattern(s)
    <3>. DEFINE mm == {raw \in {source_raw(body)} :
                         raw # source_ptr(body) /\ ~ends_with_unescaped_backslash(body)}
    <3>1. compile(s) = [form |-> "literal", ptr |-> source_ptr(body), mm |-> mm]
      BY <1>4, <2>4, Zenon DEF compile, body
    <3>2. CASE source_raw(body) = source_ptr(body)
      BY <2>2, <3>1, <3>2 DEF try_match, literal_matches, path
    <3>3. CASE source_raw(body) # source_ptr(body)
      <4>1. source_raw(body) \in mm
        BY <3>3 DEF body
      <4>. HIDE DEF mm
      <4>. QED
        BY <2>2, <3>1, <4>1 DEF try_match, literal_matches, path
    <3>. QED
      BY <3>2, <3>3
  <2>. QED
    BY <2>3, <2>4
<1>. QED
  BY <1>3, <1>4

(* The sources of the table are sources.                                   *)
LEMMA SourcesTyped ==
  ASSUME TablesInv, NEW s \in Sources
  PROVE  IsSource(s)
<1>1. config \in Configs
  BY DEF TablesInv, TypesOK
<1>2. PICK i \in 1..Count : s = config.rules[i].source
  BY DEF Sources
<1>3. DOMAIN config.rules = 1..Count
  BY <1>1, ConfigsAssumption DEF Count
<1>4. config.rules[i] \in Range(config.rules)
  BY <1>3 DEF Range
<1>. QED
  BY <1>1, <1>2, <1>4, ConfigsAssumption
-----------------------------------------------------------------------------
(* The search of minimatch, from the last segment back to the first: what  *)
(* it finds is a way to share the path out among the segments.             *)
MatchStep(rest, i, asked) == SegmentMatches(asked.pat, asked.path, i, rest)

Matches == INSTANCE FoldLaws WITH Op <- MatchStep, Rel <- Same

SearchedBy(pat, path, m) ==
  m = [i \in 1..Len(pat) + 1 |->
         IF i > Len(pat) THEN {Len(path) + 1} ELSE SegmentMatches(pat, path, i, m[i + 1])]

LEMMA Searched ==
  ASSUME NEW pat, NEW path, Len(pat) \in Nat
  PROVE  \E m : SearchedBy(pat, path, m) /\ (match_segments(pat, path) <=> 1 \in m[1])
<1>. DEFINE Eq(m) == m = [i \in 1..Len(pat) + 1 |->
                            IF i > Len(pat) THEN {Len(path) + 1} ELSE SegmentMatches(pat, path, i, m[i + 1])]
            found == CHOOSE m : Eq(m)
            asked == [pat |-> pat, path |-> path]
<1>1. match_segments(pat, path) <=> 1 \in found[1]
  BY DEF match_segments
<1>2. \A m : Eq(m) <=> SearchedBy(pat, path, m)
  BY Zenon DEF SearchedBy
<1>3. \E m : Matches!Backward({Len(path) + 1}, asked, Len(pat), m)
  <2>. HIDE DEF asked
  <2>. QED
    BY Matches!BackwardSolvable
<1>4. \A m : Matches!Backward({Len(path) + 1}, asked, Len(pat), m) <=> Eq(m)
  <2>1. asked.pat = pat /\ asked.path = path
    OBVIOUS
  <2>. HIDE DEF asked
  <2>. QED
    BY <2>1, Zenon DEF Matches!Backward, MatchStep
<1>. HIDE DEF Eq, asked
<1>5. Eq(found)
  BY <1>3, <1>4, Zenon
<1>. QED
  BY <1>1, <1>2, <1>5

Form == {"lit", "wild", "stars"}

(* The q-th segment takes the path from behind its b-th name to its c-th.  *)
Link(pat, path, q, b, c) ==
  /\ b <= c
  /\ TakenBy(pat[q], SubSeq(path, b + 1, c))
  /\ q = Len(pat) /\ pat[q].form = "stars" => b < c

LEMMA PartOf ==
  ASSUME NEW T, NEW path \in Seq(T), NEW b \in 0..Len(path), NEW c \in b..Len(path)
  PROVE  /\ SubSeq(path, b + 1, c) \in Seq(T) /\ Len(SubSeq(path, b + 1, c)) = c - b
         /\ \A i \in 1..c - b : SubSeq(path, b + 1, c)[i] = path[b + i]
<1>. DEFINE lo == b + 1
<1>1. /\ lo \in Int /\ c \in Int /\ (lo <= c => c - lo + 1 = c - b) /\ (~(lo <= c) => c - b = 0)
      /\ \A i \in lo..c : i \in 1..Len(path)
      /\ \A i \in 1..c - b : lo + i - 1 = b + i /\ i \in 1..c - lo + 1
  OBVIOUS
<1>2. \A i \in lo..c : path[i] \in T
  BY <1>1
<1>. HIDE DEF lo
<1>3. /\ SubSeq(path, lo, c) \in Seq(T)
      /\ Len(SubSeq(path, lo, c)) = IF lo <= c THEN c - lo + 1 ELSE 0
      /\ \A i \in 1..c - lo + 1 : SubSeq(path, lo, c)[i] = path[lo + i - 1]
  BY <1>1, <1>2, SubSeqProperties
<1>4. Len(SubSeq(path, lo, c)) = c - b
  BY <1>1, <1>3
<1>5. \A i \in 1..c - b : SubSeq(path, lo, c)[i] = path[b + i]
  BY <1>1, <1>3
<1>. QED
  BY <1>3, <1>4, <1>5 DEF lo

LEMMA Taken ==
  ASSUME NEW T, NEW path \in Seq(T), NEW b \in 0..Len(path), NEW c \in b..Len(path),
         NEW seg, seg.form \in Form
  PROVE  LET names == SubSeq(path, b + 1, c)
         IN  /\ seg.form = "lit" => (TakenBy(seg, names) <=> c = b + 1 /\ path[b + 1] = seg.name)
             /\ seg.form = "wild" =>
                  (TakenBy(seg, names) <=> c = b + 1 /\ WildMatches(seg.alts, path[b + 1]))
             /\ seg.form = "stars" =>
                  (TakenBy(seg, names) <=> \A i \in b + 1..c : ~StartsWithDot(path[i]))
<1>. DEFINE names == SubSeq(path, b + 1, c)
<1>1. /\ names \in Seq(T) /\ Len(names) = c - b /\ DOMAIN names = 1..c - b
      /\ \A i \in 1..c - b : names[i] = path[b + i]
  BY PartOf
<1>. HIDE DEF names
<1>2. CASE seg.form = "lit"
  <2>1. TakenBy(seg, names) <=> names = <<seg.name>>
    BY <1>2, Zenon DEF TakenBy
  <2>2. names = <<seg.name>> <=> Len(names) = 1 /\ names[1] = seg.name
    <3>1. ASSUME Len(names) = 1, names[1] = seg.name PROVE names = <<seg.name>>
      <4>1. <<seg.name>> \in Seq({seg.name} \union T) /\ names \in Seq({seg.name} \union T)
        <5>1. T \subseteq {seg.name} \union T
          OBVIOUS
        <5>. QED
          BY <1>1, <5>1, SeqMonotonic
      <4>2. Len(<<seg.name>>) = 1 /\ \A i \in 1..1 : names[i] = <<seg.name>>[i]
        BY <3>1
      <4>. QED
        BY <3>1, <4>1, <4>2, SeqEqual
    <3>. QED
      BY <3>1
  <2>3. Len(names) = 1 <=> c = b + 1
    BY <1>1
  <2>4. c = b + 1 => names[1] = path[b + 1]
    BY <1>1
  <2>. QED
    BY <1>2, <2>1, <2>2, <2>3, <2>4 DEF names
<1>3. CASE seg.form = "wild"
  <2>1. TakenBy(seg, names) <=> /\ Len(names) = 1
                                /\ \E a \in seg.alts : /\ names[1] \in a.names
                                                       /\ StartsWithDot(names[1]) => a.dotted
    BY <1>3, Zenon DEF TakenBy
  <2>2. Len(names) = 1 <=> c = b + 1
    BY <1>1
  <2>3. c = b + 1 => names[1] = path[b + 1]
    BY <1>1
  <2>4. \A n : WildMatches(seg.alts, n)
                <=> \E a \in seg.alts : n \in a.names /\ (StartsWithDot(n) => a.dotted)
    <3>. TAKE n
    <3>1. CASE StartsWithDot(n)
      BY <3>1 DEF WildMatches, build_dot_only_matcher
    <3>2. CASE ~StartsWithDot(n)
      BY <3>2 DEF WildMatches, build_dot_only_matcher
    <3>. QED
      BY <3>1, <3>2
  <2>5. TakenBy(seg, names) <=> c = b + 1 /\ WildMatches(seg.alts, path[b + 1])
    <3>1. CASE c = b + 1
      BY <2>1, <2>2, <2>3, <2>4, <3>1
    <3>2. CASE c # b + 1
      BY <2>1, <2>2, <3>2
    <3>. QED
      BY <3>1, <3>2
  <2>. QED
    BY <1>3, <2>5, Zenon DEF names
<1>4. CASE seg.form = "stars"
  <2>1. TakenBy(seg, names) <=> \A i \in 1..c - b : ~StartsWithDot(names[i])
    BY <1>1, <1>4, Zenon DEF TakenBy
  <2>2. TakenBy(seg, names) <=> \A i \in 1..c - b : ~StartsWithDot(path[b + i])
    BY <1>1, <2>1
  <2>3. ASSUME \A i \in 1..c - b : ~StartsWithDot(path[b + i]), NEW i \in b + 1..c
        PROVE  ~StartsWithDot(path[i])
    <3>1. PICK j \in 1..c - b : b + j = i
      <4>1. i - b \in 1..c - b /\ b + (i - b) = i
        OBVIOUS
      <4>. QED
        BY <4>1
    <3>. QED
      BY <2>3, <3>1
  <2>4. ASSUME \A i \in b + 1..c : ~StartsWithDot(path[i]), NEW i \in 1..c - b
        PROVE  ~StartsWithDot(path[b + i])
    <3>1. b + i \in b + 1..c
      OBVIOUS
    <3>. QED
      BY <2>4, <3>1
  <2>. QED
    BY <1>4, <2>2, <2>3, <2>4 DEF names
<1>. QED
  BY <1>2, <1>3, <1>4 DEF names, Form

LEMMA OneLink ==
  ASSUME NEW T, NEW path \in Seq(T), NEW pat, Len(pat) \in Nat, NEW q \in 1..Len(pat),
         pat[q].form \in Form, NEW b \in 0..Len(path), NEW rest
  PROVE  b + 1 \in SegmentMatches(pat, path, q, rest)
         <=> \E c \in 0..Len(path) : Link(pat, path, q, b, c) /\ c + 1 \in rest
<1>. DEFINE k == Len(path)
            j == b + 1
            seg == pat[q]
<1>1. /\ k \in Nat /\ b \in 0..k /\ j \in 1..k + 1
  OBVIOUS
<1>2. \A c \in b..k : c \in 0..k
  BY <1>1
<1>3. CASE seg.form = "stars"
  <2>1. j \in SegmentMatches(pat, path, q, rest)
        <=> \E skip \in Skips(pat, q, k + 1 - j) :
              /\ \A i \in j..(j + skip - 1) : ~StartsWithDot(path[i])
              /\ j + skip \in rest
    <3>. HIDE DEF j
    <3>. QED
      BY <1>1, <1>3 DEF SegmentMatches, k, seg
  <2>2. \A c \in b..k : TakenBy(seg, SubSeq(path, b + 1, c)) <=> \A i \in b + 1..c : ~StartsWithDot(path[i])
    BY <1>3, Taken
  <2>3. ASSUME NEW skip \in Skips(pat, q, k + 1 - j),
               \A i \in j..(j + skip - 1) : ~StartsWithDot(path[i]), j + skip \in rest
        PROVE  \E c \in 0..k : Link(pat, path, q, b, c) /\ c + 1 \in rest
    <3>. DEFINE c == b + skip
    <3>1. /\ skip \in 0..k - b /\ (q = Len(pat) => skip > 0)
      BY <1>1 DEF Skips
    <3>2. /\ c \in b..k /\ c \in 0..k /\ b <= c /\ j + skip = c + 1 /\ j + skip - 1 = c
          /\ (q = Len(pat) => b < c)
      BY <1>1, <3>1
    <3>. HIDE DEF c, j
    <3>3. \A i \in b + 1..c : ~StartsWithDot(path[i])
      BY <2>3, <3>2 DEF j
    <3>4. Link(pat, path, q, b, c)
      BY <2>2, <3>2, <3>3 DEF Link, seg
    <3>. QED
      BY <2>3, <3>2, <3>4
  <2>4. ASSUME NEW c \in 0..k, Link(pat, path, q, b, c), c + 1 \in rest
        PROVE  \E skip \in Skips(pat, q, k + 1 - j) :
                 /\ \A i \in j..(j + skip - 1) : ~StartsWithDot(path[i])
                 /\ j + skip \in rest
    <3>. DEFINE skip == c - b
    <3>1. b <= c /\ TakenBy(seg, SubSeq(path, b + 1, c)) /\ (q = Len(pat) => b < c)
      BY <1>3, <2>4 DEF Link
    <3>2. c \in b..k
      BY <1>1, <3>1
    <3>3. \A i \in b + 1..c : ~StartsWithDot(path[i])
      BY <2>2, <3>1, <3>2
    <3>4. skip \in Skips(pat, q, k + 1 - j) /\ j + skip = c + 1 /\ j + skip - 1 = c
      BY <1>1, <3>1, <3>2 DEF Skips
    <3>. HIDE DEF skip, j
    <3>5. \A i \in j..(j + skip - 1) : ~StartsWithDot(path[i])
      BY <3>3, <3>4 DEF j
    <3>. QED
      BY <2>4, <3>4, <3>5
  <2>. HIDE DEF j, k
  <2>. QED
    BY <2>1, <2>3, <2>4 DEF j, k
<1>4. CASE seg.form # "stars"
  <2>. DEFINE Fits == IF seg.form = "lit" THEN path[j] = seg.name ELSE WildMatches(seg.alts, path[j])
  <2>1. j \in SegmentMatches(pat, path, q, rest) <=> j <= k /\ Fits /\ j + 1 \in rest
    <3>. HIDE DEF j
    <3>. QED
      BY <1>1, <1>4 DEF SegmentMatches, k, seg
  <2>2. \A c \in b..k : TakenBy(seg, SubSeq(path, b + 1, c)) <=> c = j /\ Fits
    BY <1>4, Taken DEF Form
  <2>3. \A c \in 0..k : Link(pat, path, q, b, c) <=> b <= c /\ TakenBy(seg, SubSeq(path, b + 1, c))
    BY <1>4 DEF Link
  <2>. HIDE DEF Fits
  <2>4. \A c \in 0..k : Link(pat, path, q, b, c) <=> c = j /\ Fits
    <3>. TAKE c \in 0..k
    <3>1. b <= c <=> c \in b..k
      BY <1>1
    <3>2. c = j => c \in b..k
      BY <1>1
    <3>. HIDE DEF j
    <3>. QED
      BY <2>2, <2>3, <3>1, <3>2
  <2>5. j <= k <=> j \in 0..k
    BY <1>1
  <2>. HIDE DEF j, k
  <2>. QED
    BY <2>1, <2>4, <2>5 DEF j, k
<1>. QED
  BY <1>3, <1>4

(* A way to share the path out from segment q on, from behind name b.      *)
Shares(pat, path, q, b, cut) ==
  /\ cut \in [q - 1..Len(pat) -> 0..Len(path)]
  /\ cut[q - 1] = b
  /\ cut[Len(pat)] = Len(path)
  /\ \A i \in q..Len(pat) : Link(pat, path, i, cut[i - 1], cut[i])

LEMMA SharesOn ==
  ASSUME NEW pat, Len(pat) \in Nat, NEW path, Len(path) \in Nat, NEW q \in 1..Len(pat),
         NEW b \in 0..Len(path), NEW c \in 0..Len(path), NEW cut,
         Shares(pat, path, q + 1, c, cut), Link(pat, path, q, b, c)
  PROVE  \E new : Shares(pat, path, q, b, new)
<1>. DEFINE n == Len(pat)
            k == Len(path)
            new == [i \in q - 1..n |-> IF i = q - 1 THEN b ELSE cut[i]]
<1>1. /\ n \in Nat /\ k \in Nat /\ q + 1 - 1 = q /\ q - 1 \in q - 1..n /\ n \in q..n
      /\ \A i \in q - 1..n : i = q - 1 \/ (i # q - 1 /\ i \in q..n)
      /\ \A i \in q..n : i \in q - 1..n /\ i # q - 1
      /\ \A i \in q..n : i = q \/ (i \in q + 1..n /\ i - 1 \in q..n)
  OBVIOUS
<1>2. /\ cut \in [q..n -> 0..k] /\ cut[q] = c /\ cut[n] = k
      /\ \A i \in q + 1..n : Link(pat, path, i, cut[i - 1], cut[i])
  BY <1>1 DEF Shares
<1>3. new[q - 1] = b /\ \A i \in q..n : new[i] = cut[i]
  BY <1>1
<1>4. new \in [q - 1..n -> 0..k]
  BY <1>1, <1>2
<1>. HIDE DEF new, n, k
<1>5. new[n] = k
  BY <1>1, <1>2, <1>3
<1>6. ASSUME NEW i \in q..n PROVE Link(pat, path, i, new[i - 1], new[i])
  <2>1. CASE i = q
    BY <1>2, <1>3, <2>1
  <2>2. CASE i \in q + 1..n /\ i - 1 \in q..n
    BY <1>2, <1>3, <2>2
  <2>. QED
    BY <1>1, <2>1, <2>2
<1>7. Shares(pat, path, q, b, new)
  BY <1>3, <1>4, <1>5, <1>6 DEF Shares, n, k
<1>. QED
  BY <1>7

LEMMA Shared ==
  ASSUME NEW T, NEW path \in Seq(T), NEW pat, Len(pat) \in Nat,
         \A i \in 1..Len(pat) : pat[i].form \in Form,
         NEW m, SearchedBy(pat, path, m)
  PROVE  \A b \in 0..Len(path) : b + 1 \in m[1] <=> \E cut : Shares(pat, path, 1, b, cut)
<1>. DEFINE n == Len(pat)
            k == Len(path)
            S == {d \in 0..n : \A b \in 0..k :
                    b + 1 \in m[n + 1 - d] <=> \E cut : Shares(pat, path, n + 1 - d, b, cut)}
<1>1. n \in Nat /\ k \in Nat
  OBVIOUS
<1>2. 0 \in S
  <2>1. /\ n + 1 - 0 = n + 1 /\ n + 1 \in 1..n + 1 /\ n + 1 > n /\ (n + 1) - 1 = n
        /\ 0 \in 0..n /\ n + 1..n = {} /\ n..n = {n}
    BY <1>1
  <2>2. m[n + 1] = {k + 1}
    BY <2>1 DEF SearchedBy
  <2>3. ASSUME NEW b \in 0..k PROVE b + 1 \in m[n + 1] <=> \E cut : Shares(pat, path, n + 1, b, cut)
    <3>1. b + 1 \in m[n + 1] <=> b = k
      BY <1>1, <2>2
    <3>2. \A cut : Shares(pat, path, n + 1, b, cut) <=> cut \in [{n} -> 0..k] /\ cut[n] = b /\ cut[n] = k
      BY <2>1, Zenon DEF Shares, n, k
    <3>3. ASSUME b = k PROVE \E cut : cut \in [{n} -> 0..k] /\ cut[n] = b /\ cut[n] = k
      <4>1. [i \in {n} |-> k] \in [{n} -> 0..k] /\ [i \in {n} |-> k][n] = k
        BY <1>1
      <4>. QED
        BY <3>3, <4>1
    <3>4. ASSUME NEW cut, Shares(pat, path, n + 1, b, cut) PROVE b = k
      BY <3>2, <3>4
    <3>5. ASSUME b = k PROVE \E cut : Shares(pat, path, n + 1, b, cut)
      BY <3>2, <3>3, <3>5, Zenon
    <3>. QED
      BY <3>1, <3>4, <3>5
  <2>. QED
    BY <2>1, <2>3
<1>3. ASSUME NEW d \in 0..n - 1, d \in S PROVE d + 1 \in S
  <2>. DEFINE q == n - d
  <2>1. /\ q \in 1..n /\ n + 1 - d = q + 1 /\ n + 1 - (d + 1) = q /\ d + 1 \in 0..n
        /\ q \in 1..n + 1 /\ ~(q > n)
    BY <1>1
  <2>2. \A b \in 0..k : b + 1 \in m[q + 1] <=> \E cut : Shares(pat, path, q + 1, b, cut)
    BY <1>3, <2>1
  <2>. HIDE DEF q
  <2>3. m[q] = SegmentMatches(pat, path, q, m[q + 1])
    BY <2>1 DEF SearchedBy, n
  <2>4. ASSUME NEW b \in 0..k PROVE b + 1 \in m[q] <=> \E cut : Shares(pat, path, q, b, cut)
    <3>1. b + 1 \in m[q] <=> \E c \in 0..k : Link(pat, path, q, b, c) /\ c + 1 \in m[q + 1]
      BY <2>1, <2>3, OneLink DEF n, k
    <3>2. ASSUME NEW c \in 0..k, Link(pat, path, q, b, c), c + 1 \in m[q + 1]
          PROVE  \E cut : Shares(pat, path, q, b, cut)
      <4>1. PICK cut : Shares(pat, path, q + 1, c, cut)
        BY <2>2, <3>2
      <4>. QED
        BY <1>1, <2>1, <3>2, <4>1, SharesOn DEF n, k
    <3>3. ASSUME NEW cut, Shares(pat, path, q, b, cut)
          PROVE  \E c \in 0..k : Link(pat, path, q, b, c) /\ c + 1 \in m[q + 1]
      <4>. DEFINE c == cut[q]
                  rest == [i \in q..n |-> cut[i]]
      <4>1. /\ q + 1 - 1 = q /\ q \in q - 1..n /\ q \in q..n /\ n \in q..n
            /\ \A i \in q..n : i \in q - 1..n
            /\ \A i \in q + 1..n : i \in q..n /\ i - 1 \in q..n
        BY <1>1, <2>1
      <4>2. /\ cut \in [q - 1..n -> 0..k] /\ cut[q - 1] = b /\ cut[n] = k
            /\ \A i \in q..n : Link(pat, path, i, cut[i - 1], cut[i])
        BY <3>3 DEF Shares
      <4>3. c \in 0..k /\ Link(pat, path, q, b, c)
        BY <4>1, <4>2
      <4>4. Shares(pat, path, q + 1, c, rest)
        <5>1. rest \in [q..n -> 0..k] /\ \A i \in q..n : rest[i] = cut[i]
          BY <4>1, <4>2
        <5>. HIDE DEF rest
        <5>2. rest[q] = c /\ rest[n] = k
          BY <4>1, <4>2, <5>1
        <5>3. \A i \in q + 1..n : Link(pat, path, i, rest[i - 1], rest[i])
          BY <4>1, <4>2, <5>1
        <5>. HIDE DEF c
        <5>. QED
          BY <4>1, <5>1, <5>2, <5>3 DEF Shares, n, k
      <4>. HIDE DEF c, rest
      <4>. QED
        BY <2>2, <4>3, <4>4
    <3>. QED
      BY <3>1, <3>2, <3>3
  <2>. QED
    BY <2>1, <2>4
<1>. HIDE DEF S
<1>4. n \in S
  <2>1. \A d \in 0..n - 1 : d \in S => d + 1 \in S
    BY <1>3
  <2>. HIDE DEF n
  <2>2. 0..n \subseteq S
    BY <1>1, <1>2, <2>1, Matches!UpToByMembers, Zenon
  <2>3. n \in 0..n
    BY <1>1
  <2>. QED
    BY <2>2, <2>3
<1>5. n + 1 - n = 1
  BY <1>1
<1>. QED
  BY <1>4, <1>5 DEF S

(* The search finds what minimatch promises.                               *)
LEMMA SearchIsMinimatch ==
  ASSUME NEW T, NEW path \in Seq(T), NEW pat, Len(pat) \in Nat, DOMAIN pat = 1..Len(pat),
         \A i \in 1..Len(pat) : pat[i].form \in Form
  PROVE  match_segments(pat, path) <=> Minimatch(pat, path)
<1>. DEFINE n == Len(pat)
            k == Len(path)
<1>1. PICK m : SearchedBy(pat, path, m) /\ (match_segments(pat, path) <=> 1 \in m[1])
  BY Searched
<1>2. k \in Nat /\ 0 \in 0..k /\ 0 + 1 = 1 /\ 1 - 1 = 0 /\ n \in Nat
  OBVIOUS
<1>3. match_segments(pat, path) <=> \E cut : Shares(pat, path, 1, 0, cut)
  BY <1>1, <1>2, Shared
<1>4. ASSUME NEW cut \in [0..n -> 0..k], cut[n] = k
      PROVE  (\A i \in 1..n : Link(pat, path, i, cut[i - 1], cut[i]))
             <=> /\ \A i \in 1..n : /\ cut[i - 1] <= cut[i]
                                    /\ TakenBy(pat[i], SubSeq(path, cut[i - 1] + 1, cut[i]))
                 /\ pat # <<>> /\ Last(pat).form = "stars" => cut[n - 1] < k
  <2>1. pat # <<>> <=> n # 0
    <3>1. pat = <<>> => n = 0
      OBVIOUS
    <3>2. ASSUME n = 0 PROVE pat = <<>>
      BY <3>2
    <3>. QED
      BY <3>1, <3>2
  <2>2. Last(pat) = pat[n]
    BY DEF Last
  <2>3. n # 0 => n \in 1..n
    BY <1>2
  <2>4. (\A i \in 1..n : i = n /\ pat[i].form = "stars" => cut[i - 1] < cut[i])
        <=> (pat # <<>> /\ Last(pat).form = "stars" => cut[n - 1] < k)
    <3>1. CASE n = 0
      BY <1>2, <2>1, <3>1
    <3>2. CASE n # 0
      <4>1. \A i \in 1..n : i = n => i - 1 = n - 1 /\ cut[i] = k
        BY <1>4
      <4>. HIDE DEF n, k
      <4>. QED
        BY <2>1, <2>2, <2>3, <3>2, <4>1
    <3>. QED
      BY <3>1, <3>2
  <2>. QED
    BY <2>4 DEF Link
<1>5. Minimatch(pat, path) <=> \E cut \in [0..n -> 0..k] :
                                 /\ cut[0] = 0 /\ cut[n] = k
                                 /\ \A i \in 1..n : Link(pat, path, i, cut[i - 1], cut[i])
  BY <1>4 DEF Minimatch
<1>6. (\E cut : Shares(pat, path, 1, 0, cut))
      <=> \E cut \in [0..n -> 0..k] : /\ cut[0] = 0 /\ cut[n] = k
                                      /\ \A i \in 1..n : Link(pat, path, i, cut[i - 1], cut[i])
  BY <1>2, Zenon DEF Shares
<1>. QED
  BY <1>3, <1>5, <1>6
-----------------------------------------------------------------------------
LEMMA ClassifiedTyped ==
  ASSUME NEW body \in Seq(AnySegment)
  PROVE  LET pat == Classified(body)
         IN  /\ Len(pat) = Len(body) /\ Len(pat) \in Nat /\ DOMAIN pat = 1..Len(body)
             /\ \A i \in 1..Len(body) : /\ pat[i] = classify_pattern_segment(body[i])
                                        /\ pat[i].form \in Form
<1>. DEFINE n == Len(body)
            pat == Classified(body)
            S == {classify_pattern_segment(body[i]) : i \in 1..n}
<1>1. n \in Nat /\ DOMAIN body = 1..n /\ \A i \in 1..n : body[i] \in AnySegment
  OBVIOUS
<1>2. pat = [i \in 1..n |-> classify_pattern_segment(body[i])]
  BY <1>1 DEF Classified
<1>3. \A seg : classify_pattern_segment(seg).form \in Form
  BY DEF classify_pattern_segment, Form
<1>4. pat \in [1..n -> S]
  <2>1. \A i \in 1..n : classify_pattern_segment(body[i]) \in S
    OBVIOUS
  <2>. HIDE DEF pat, S
  <2>. QED
    BY <1>2, <2>1
<1>. HIDE DEF pat, S, n
<1>5. pat \in Seq(S) /\ Len(pat) = n /\ DOMAIN pat = 1..n
  BY <1>1, <1>4
<1>6. \A i \in 1..n : pat[i] = classify_pattern_segment(body[i])
  BY <1>2
<1>. QED
  BY <1>1, <1>3, <1>5, <1>6 DEF pat, n

(* What globset asks of a segment, on a path without names that begin with *)
(* a dot, is what minimatch asks of it.                                    *)
LEMMA GlobSteps ==
  ASSUME NEW body \in Seq(AnySegment), ~HasKind(body, {"broken"}),
         NEW T, NEW path \in Seq(T), \A i \in 1..Len(path) : ~StartsWithDot(path[i]),
         NEW i \in 1..Len(body), NEW rest
  PROVE  GlobMatches(body, path, i, rest) = SegmentMatches(Classified(body), path, i, rest)
<1>. DEFINE k == Len(path)
            pat == Classified(body)
            seg == body[i]
<1>1. /\ Len(pat) = Len(body) /\ pat[i] = classify_pattern_segment(seg)
      /\ k \in Nat /\ DOMAIN body = 1..Len(body) /\ seg \in AnySegment
      /\ seg.kind \in {"lit", "param", "star", "stars", "starglob", "glob"}
  <2>1. Len(pat) = Len(body) /\ pat[i] = classify_pattern_segment(seg)
    BY ClassifiedTyped
  <2>2. k \in Nat /\ DOMAIN body = 1..Len(body) /\ seg \in AnySegment
    OBVIOUS
  <2>3. seg.kind # "broken"
    BY <2>2 DEF HasKind
  <2>4. seg.kind \in {"lit", "param", "star", "stars", "starglob", "glob", "broken"}
    BY <2>2, Zenon DEF AnySegment, GlobKinds, Flexible
  <2>. QED
    BY <2>1, <2>2, <2>3, <2>4
<1>. HIDE DEF pat, seg, k
<1>2. CASE seg.kind = "stars"
  <2>1. pat[i].form = "stars"
    BY <1>1, <1>2 DEF classify_pattern_segment
  <2>2. ASSUME NEW j \in 1..k + 1, NEW skip \in Skips(pat, i, k + 1 - j)
        PROVE  \A l \in j..(j + skip - 1) : ~StartsWithDot(path[l])
    <3>1. skip \in 0..k + 1 - j
      BY <1>1 DEF Skips
    <3>2. \A l \in j..(j + skip - 1) : l \in 1..k
      BY <1>1, <3>1
    <3>. QED
      BY <3>2 DEF k
  <2>3. \A left : Skips(pat, i, left) = Skips(body, i, left)
    BY <1>1 DEF Skips
  <2>4. SegmentMatches(pat, path, i, rest)
        = {j \in 1..k + 1 : \E skip \in Skips(pat, i, k + 1 - j) :
                               /\ \A l \in j..(j + skip - 1) : ~StartsWithDot(path[l])
                               /\ j + skip \in rest}
    BY <2>1 DEF SegmentMatches, k
  <2>5. GlobMatches(body, path, i, rest)
        = {j \in 1..k + 1 : \E skip \in Skips(body, i, k + 1 - j) : j + skip \in rest}
    BY <1>2 DEF GlobMatches, k, seg
  <2>6. \A j \in 1..k + 1 :
          (\E skip \in Skips(pat, i, k + 1 - j) : /\ \A l \in j..(j + skip - 1) : ~StartsWithDot(path[l])
                                                 /\ j + skip \in rest)
          <=> \E skip \in Skips(body, i, k + 1 - j) : j + skip \in rest
    BY <2>2, <2>3
  <2>. QED
    BY <2>4, <2>5, <2>6 DEF pat
<1>3. CASE seg.kind \in {"star", "starglob", "glob"}
  <2>1. pat[i].form = "wild" /\ pat[i].alts = seg.alts
    BY <1>1, <1>3 DEF classify_pattern_segment
  <2>2. \A j \in 1..k : WildMatches(seg.alts, path[j]) <=> \E a \in seg.alts : path[j] \in a.names
    BY DEF WildMatches, k
  <2>3. SegmentMatches(pat, path, i, rest)
        = {j \in 1..k + 1 : j <= k /\ WildMatches(seg.alts, path[j]) /\ j + 1 \in rest}
    BY <2>1 DEF SegmentMatches, k
  <2>4. GlobMatches(body, path, i, rest)
        = {j \in 1..k + 1 : j <= k /\ (\E a \in seg.alts : path[j] \in a.names) /\ j + 1 \in rest}
    BY <1>3 DEF GlobMatches, k, seg, GlobKinds, Flexible
  <2>5. \A j \in 1..k + 1 : j <= k => j \in 1..k
    BY <1>1
  <2>. QED
    BY <2>2, <2>3, <2>4, <2>5 DEF pat
<1>4. CASE seg.kind \in {"lit", "param"}
  <2>1. pat[i].form = "lit" /\ pat[i].name = de_escape(seg.name)
    BY <1>1, <1>4 DEF classify_pattern_segment
  <2>2. SegmentMatches(pat, path, i, rest)
        = {j \in 1..k + 1 : j <= k /\ path[j] = de_escape(seg.name) /\ j + 1 \in rest}
    BY <2>1 DEF SegmentMatches, k
  <2>3. GlobMatches(body, path, i, rest)
        = {j \in 1..k + 1 : j <= k /\ path[j] = de_escape(seg.name) /\ j + 1 \in rest}
    BY <1>4 DEF GlobMatches, k, seg, GlobKinds, Flexible
  <2>. QED
    BY <2>2, <2>3 DEF pat
<1>. QED
  BY <1>1, <1>2, <1>3, <1>4

GlobStep(rest, i, asked) == GlobMatches(asked.pat, asked.path, i, rest)

Globs == INSTANCE FoldLaws WITH Op <- GlobStep, Rel <- Same

LEMMA GlobIsSearch ==
  ASSUME NEW body \in Seq(AnySegment), ~HasKind(body, {"broken"}),
         NEW T, NEW path \in Seq(T), \A i \in 1..Len(path) : ~StartsWithDot(path[i])
  PROVE  globset_matches(body, path) <=> match_segments(Classified(body), path)
<1>. DEFINE Eq(m) == m = [i \in 1..Len(body) + 1 |->
                            IF i > Len(body) THEN {Len(path) + 1} ELSE GlobMatches(body, path, i, m[i + 1])]
            found == CHOOSE m : Eq(m)
            asked == [pat |-> body, path |-> path]
            pat == Classified(body)
<1>1. globset_matches(body, path) <=> 1 \in found[1]
  BY DEF globset_matches
<1>2. \E m : Globs!Backward({Len(path) + 1}, asked, Len(body), m)
  <2>1. Len(body) \in Nat
    OBVIOUS
  <2>. HIDE DEF asked
  <2>. QED
    BY <2>1, Globs!BackwardSolvable
<1>3. \A m : Globs!Backward({Len(path) + 1}, asked, Len(body), m) <=> Eq(m)
  <2>1. asked.pat = body /\ asked.path = path
    OBVIOUS
  <2>. HIDE DEF asked
  <2>. QED
    BY <2>1, Zenon DEF Globs!Backward, GlobStep
<1>. HIDE DEF Eq, asked
<1>4. Eq(found)
  BY <1>2, <1>3, Zenon
<1>. HIDE DEF found
<1>5. /\ Len(pat) = Len(body) /\ Len(pat) \in Nat /\ DOMAIN pat = 1..Len(pat)
      /\ \A i \in 1..Len(pat) : pat[i].form \in Form
  BY ClassifiedTyped
<1>6. SearchedBy(pat, path, found)
  <2>1. \A i \in 1..Len(pat) + 1 : i > Len(pat) \/ i \in 1..Len(body)
    BY <1>5
  <2>2. \A i \in 1..Len(body) :
          GlobMatches(body, path, i, found[i + 1]) = SegmentMatches(pat, path, i, found[i + 1])
    BY GlobSteps
  <2>. HIDE DEF pat
  <2>. QED
    BY <1>4, <1>5, <2>1, <2>2 DEF Eq, SearchedBy
<1>. HIDE DEF pat
<1>7. 1 \in found[1] <=> \E cut : Shares(pat, path, 1, 0, cut)
  <2>1. 0 \in 0..Len(path) /\ 0 + 1 = 1
    OBVIOUS
  <2>. QED
    BY <1>5, <1>6, <2>1, Shared
<1>8. PICK m : SearchedBy(pat, path, m) /\ (match_segments(pat, path) <=> 1 \in m[1])
  BY <1>5, Searched
<1>9. 1 \in m[1] <=> \E cut : Shares(pat, path, 1, 0, cut)
  <2>1. 0 \in 0..Len(path) /\ 0 + 1 = 1
    OBVIOUS
  <2>. QED
    BY <1>5, <1>8, <2>1, Shared
<1>. QED
  BY <1>1, <1>7, <1>8, <1>9 DEF pat

(* Without a wildcard in it a pattern takes the one path that it names.    *)
LEMMA PlainSearch ==
  ASSUME NEW body \in Seq(AnySegment), ~HasKind(body, Flexible \union {"glob"}),
         NEW T, NEW path \in Seq(T)
  PROVE  match_segments(Classified(body), path)
         <=> Len(path) = Len(body) /\ \A i \in 1..Len(body) : path[i] = de_escape(body[i].name)
<1>. DEFINE n == Len(body)
            k == Len(path)
            pat == Classified(body)
            Named(i) == de_escape(body[i].name)
<1>1. /\ Len(pat) = n /\ n \in Nat /\ k \in Nat /\ DOMAIN pat = 1..Len(pat)
      /\ \A i \in 1..Len(pat) : pat[i].form \in Form
  BY ClassifiedTyped
<1>2. \A i \in 1..n : pat[i].form = "lit" /\ pat[i].name = Named(i)
  <2>1. DOMAIN body = 1..n /\ \A i \in 1..n : body[i] \in AnySegment
    OBVIOUS
  <2>2. \A i \in 1..n : body[i].kind \notin Flexible \union {"glob"}
    BY <2>1 DEF HasKind
  <2>3. \A seg : seg.kind \notin Flexible \union {"glob"} =>
          classify_pattern_segment(seg).form = "lit" /\ classify_pattern_segment(seg).name = de_escape(seg.name)
    BY DEF classify_pattern_segment, Flexible
  <2>4. \A i \in 1..n : pat[i] = classify_pattern_segment(body[i])
    BY ClassifiedTyped
  <2>. HIDE DEF pat
  <2>. QED
    BY <2>2, <2>3, <2>4
<1>. HIDE DEF Named, pat, n, k
<1>3. PICK m : SearchedBy(pat, path, m) /\ (match_segments(pat, path) <=> 1 \in m[1])
  BY <1>1, Searched
<1>4. match_segments(pat, path) <=> \E cut : Shares(pat, path, 1, 0, cut)
  <2>1. 0 \in 0..k /\ 0 + 1 = 1
    BY <1>1
  <2>. QED
    BY <1>1, <1>3, <2>1, Shared DEF k
<1>5. \A i \in 1..n, b \in 0..k, c \in 0..k :
        Link(pat, path, i, b, c) <=> c = b + 1 /\ path[b + 1] = Named(i)
  <2>. TAKE i \in 1..n, b \in 0..k, c \in 0..k
  <2>1. CASE b <= c
    <3>1. b \in 0..Len(path) /\ c \in b..Len(path)
      BY <1>1, <2>1 DEF k
    <3>2. pat[i].form = "lit" /\ pat[i].form \in Form /\ pat[i].name = Named(i)
      BY <1>2 DEF Form
    <3>3. TakenBy(pat[i], SubSeq(path, b + 1, c)) <=> c = b + 1 /\ path[b + 1] = pat[i].name
      BY <3>1, <3>2, Taken
    <3>. QED
      BY <2>1, <3>2, <3>3 DEF Link
  <2>2. CASE ~(b <= c)
    BY <1>1, <2>2 DEF Link
  <2>. QED
    BY <2>1, <2>2
<1>6. ASSUME NEW cut, Shares(pat, path, 1, 0, cut)
      PROVE  k = n /\ \A i \in 1..n : path[i] = Named(i)
  <2>1. /\ cut \in [0..n -> 0..k] /\ cut[0] = 0 /\ cut[n] = k
        /\ \A i \in 1..n : Link(pat, path, i, cut[i - 1], cut[i])
    BY <1>1, <1>6 DEF Shares, k
  <2>2. \A i \in 1..n : i - 1 \in 0..n /\ i \in 0..n
    BY <1>1
  <2>3. \A i \in 1..n : cut[i] = cut[i - 1] + 1 /\ path[cut[i - 1] + 1] = Named(i)
    BY <1>5, <2>1, <2>2
  <2>. DEFINE S == {i \in 0..n : cut[i] = i}
  <2>4. 0 \in S
    BY <1>1, <2>1
  <2>5. \A i \in 0..n - 1 : i \in S => i + 1 \in S
    <3>. TAKE i \in 0..n - 1
    <3>1. PICK j \in 1..n : j = i + 1
      BY <1>1
    <3>. QED
      BY <1>1, <2>3, <3>1
  <2>. HIDE DEF S
  <2>6. 0..n \subseteq S
    BY <1>1, <2>4, <2>5, Matches!UpToByMembers, Zenon
  <2>7. \A i \in 0..n : cut[i] = i
    BY <2>6 DEF S
  <2>8. k = n
    BY <1>1, <2>1, <2>7
  <2>9. ASSUME NEW i \in 1..n PROVE path[i] = Named(i)
    <3>1. cut[i - 1] + 1 = i
      BY <2>2, <2>7
    <3>. QED
      BY <2>3, <3>1
  <2>. QED
    BY <2>8, <2>9
<1>7. ASSUME k = n, \A i \in 1..n : path[i] = Named(i)
      PROVE  \E cut : Shares(pat, path, 1, 0, cut)
  <2>. DEFINE cut == [i \in 0..n |-> i]
  <2>1. /\ cut \in [0..n -> 0..k] /\ \A i \in 0..n : cut[i] = i /\ i \in 0..k
        /\ \A i \in 1..n : i \in 0..n /\ i - 1 \in 0..n /\ i = i - 1 + 1
        /\ 0 \in 0..n /\ n \in 0..n
    BY <1>1, <1>7
  <2>. HIDE DEF cut
  <2>2. ASSUME NEW i \in 1..n PROVE Link(pat, path, i, cut[i - 1], cut[i])
    <3>1. cut[i] = i /\ cut[i - 1] = i - 1 /\ i \in 0..k /\ i - 1 \in 0..k
      BY <2>1
    <3>2. i = i - 1 + 1 /\ path[i - 1 + 1] = Named(i)
      BY <1>7, <2>1
    <3>. QED
      BY <1>5, <3>1, <3>2
  <2>3. 1 - 1 = 0 /\ cut[0] = 0 /\ cut[n] = k
    BY <1>7, <2>1
  <2>4. Shares(pat, path, 1, 0, cut)
    BY <1>1, <2>1, <2>2, <2>3 DEF Shares, k
  <2>. QED
    BY <2>4
<1>. QED
  BY <1>1, <1>4, <1>6, <1>7 DEF pat, n, k, Named

(* A name in which nothing is escaped stands for itself.                   *)
LEMMA Unescaped ==
  ASSUME NEW n \in AnyName, n.slash = "none"
  PROVE  de_escape(n) = n
<1>1. n = [n EXCEPT !.slash = n.slash]
  BY DEF AnyName
<1>2. de_escape(n) = [n EXCEPT !.slash = "none"]
  BY DEF de_escape
<1>. QED
  BY <1>1, <1>2

LEMMA ScopeAsHeader ==
  ASSUME NEW s, IsSource(s), SourceBody(s) \in Seq(BodySegment),
         NEW path \in Seq(AnyName), path = path_posix_resolve(path),
         \A i \in DOMAIN path : ~StartsWithDot(path[i]),
         compile_scoped_pattern(s) # InvalidMatcher, SourceBody(s) = s.parts,
         \A i \in DOMAIN s.parts : s.parts[i].name.slash = "none"
  PROVE  scope_matches(compile_scoped_pattern(s), path) <=> header_matches(compile_header(s), path)
<1>. DEFINE body == s.parts
            n == Len(body)
<1>1. /\ s.negate \in BOOLEAN /\ body \in Seq(BodySegment) /\ body \in Seq(AnySegment)
      /\ n \in Nat /\ DOMAIN body = 1..n /\ DOMAIN path = 1..Len(path)
      /\ \A i \in 1..n : body[i] \in BodySegment /\ body[i].name \in AnyName
  <2>1. s.negate \in BOOLEAN /\ body \in Seq(AnySegment) /\ body \in Seq(BodySegment)
    BY DEF IsSource
  <2>. QED
    BY <2>1 DEF BodySegment, AnySegment
<1>2. ~HasKind(body, {"broken"}) /\ ~ends_with_unescaped_backslash(body)
  BY DEF compile_scoped_pattern
<1>3. compile_scoped_pattern(s) = [form |-> "scope", parts |-> body, negate |-> s.negate]
  BY <1>2 DEF compile_scoped_pattern
<1>4. scope_matches(compile_scoped_pattern(s), path) <=> globset_matches(body, path) # s.negate
  BY <1>3 DEF scope_matches
<1>5. globset_matches(body, path) <=> match_segments(Classified(body), path)
  BY <1>1, <1>2, GlobIsSearch
<1>6. globset_matches(body, path) \in BOOLEAN /\ match_segments(Classified(body), path) \in BOOLEAN
  BY DEF globset_matches, match_segments
<1>7. CASE s.negate \/ HasKind(body, GlobKinds)
  <2>1. compile_header(s) = [form |-> "glob", segments |-> Classified(body), negate |-> s.negate]
    BY <1>7 DEF compile_header
  <2>2. header_matches(compile_header(s), path) <=> match_segments(Classified(body), path) # s.negate
    BY <2>1 DEF header_matches
  <2>. QED
    BY <1>1, <1>4, <1>5, <1>6, <2>2
<1>8. CASE ~s.negate /\ ~HasKind(body, GlobKinds)
  <2>1. compile_header(s) = [form |-> "literal", source |-> source_raw(body), slash |-> SourceEndsWithSlash(s)]
    BY <1>8 DEF compile_header
  <2>2. ~SourceEndsWithSlash(s)
    <3>1. ASSUME body # <<>> PROVE Last(body).name # Empty
      <4>1. n # 0
        BY <1>1, <3>1, EmptySeq
      <4>2. n \in 1..n
        BY <1>1, <4>1
      <4>. QED
        BY <1>1, <4>2 DEF Last, BodySegment
    <3>. QED
      BY <3>1 DEF SourceEndsWithSlash
  <2>3. header_matches(compile_header(s), path) <=> source_raw(body) = path
    BY <2>1, <2>2 DEF header_matches
  <2>4. match_segments(Classified(body), path) <=> Len(path) = n /\ \A i \in 1..n : path[i] = body[i].name
    <3>1. \A i \in 1..n : de_escape(body[i].name) = body[i].name
      BY <1>1, Unescaped
    <3>2. match_segments(Classified(body), path)
          <=> Len(path) = Len(body) /\ \A i \in 1..Len(body) : path[i] = de_escape(body[i].name)
      <4>1. ~HasKind(body, Flexible \union {"glob"})
        BY <1>8 DEF HasKind, GlobKinds
      <4>. HIDE DEF body, n
      <4>. QED
        BY <1>1, <4>1, PlainSearch
    <3>. HIDE DEF body
    <3>. QED
      BY <3>1, <3>2
  <2>5. source_raw(body) = path <=> Len(path) = n /\ \A i \in 1..n : path[i] = body[i].name
    <3>1. source_raw(body) = [i \in 1..n |-> body[i].name]
      BY <1>1 DEF source_raw
    <3>2. [i \in 1..n |-> body[i].name] \in Seq(AnyName) /\ Len([i \in 1..n |-> body[i].name]) = n
      <4>. DEFINE raw == [i \in 1..n |-> body[i].name]
      <4>1. raw \in [1..n -> AnyName]
        BY <1>1
      <4>. HIDE DEF raw, n
      <4>. QED
        BY <1>1, <4>1 DEF raw
    <3>3. \A i \in 1..n : [j \in 1..n |-> body[j].name][i] = body[i].name
      OBVIOUS
    <3>. DEFINE raw == [i \in 1..n |-> body[i].name]
    <3>. HIDE DEF raw
    <3>4. raw = path => Len(path) = n /\ \A i \in 1..n : path[i] = body[i].name
      BY <3>2, <3>3 DEF raw
    <3>5. Len(path) = n /\ (\A i \in 1..n : path[i] = body[i].name) => raw = path
      BY <3>2, <3>3, SeqEqual DEF raw
    <3>. QED
      BY <3>1, <3>4, <3>5 DEF raw
  <2>6. s.negate = FALSE
    BY <1>1, <1>8
  <2>7. scope_matches(compile_scoped_pattern(s), path) <=> globset_matches(body, path)
    BY <1>4, <1>6, <2>6
  <2>. QED
    BY <1>5, <2>3, <2>4, <2>5, <2>7
<1>. QED
  BY <1>7, <1>8
-----------------------------------------------------------------------------
(* A redirect fills in what it promises.  The first flexible segment.      *)
LEMMA FlexFirst ==
  ASSUME NEW body \in Seq(AnySegment)
  PROVE  LET f == FlexAt(body)
         IN  \/ f = 0 /\ \A i \in 1..Len(body) : body[i].kind \notin Flexible
             \/ f \in 1..Len(body) /\ body[f].kind \in Flexible
<1>. DEFINE Places == {i \in 1..Len(body) : body[i].kind \in Flexible}
            f == FlexAt(body)
<1>1. f = IF Places # {} THEN Min(Places) ELSE 0
  BY DEF FlexAt, SelectInSeq
<1>2. CASE Places = {}
  BY <1>1, <1>2
<1>3. CASE Places # {}
  <2>1. Places \in SUBSET Nat
    OBVIOUS
  <2>. HIDE DEF Places
  <2>2. \E i \in Places : \A j \in Places : i <= j
    BY <1>3, <2>1, Matches!Least
  <2>3. Min(Places) \in Places
    BY <2>2, Zenon DEF Min
  <2>. QED
    BY <1>1, <1>3, <2>3 DEF Places
<1>. QED
  BY <1>2, <1>3

LEMMA OneStarred ==
  ASSUME NEW body \in Seq(AnySegment), ~(Cardinality(Starred(body)) > 1),
         NEW i \in Starred(body), NEW j \in Starred(body)
  PROVE  i = j
<1>. DEFINE n == Len(body)
<1>1. n \in Nat /\ DOMAIN body = 1..n
  OBVIOUS
<1>2. IsFiniteSet(1..n) /\ Starred(body) \in SUBSET (1..n)
  BY <1>1, FS_Interval DEF Starred
<1>3. IsFiniteSet(Starred(body))
  BY <1>2, FS_Subset
<1>4. SUFFICES ASSUME i # j PROVE FALSE
  OBVIOUS
<1>5. IsFiniteSet({i}) /\ Cardinality({i}) = 1
  BY FS_Singleton
<1>6. PICK U : U = {i} \union {j}
  OBVIOUS
<1>7. Cardinality(U) = 2
  <2>1. Cardinality(U) = IF j \in {i} THEN Cardinality({i}) ELSE Cardinality({i}) + 1
    BY <1>5, <1>6, FS_AddElement, Zenon
  <2>2. j \notin {i}
    BY <1>4
  <2>3. Cardinality(U) = Cardinality({i}) + 1
    BY <2>1, <2>2, Zenon
  <2>. QED
    BY <1>5, <2>3
<1>8. U \in SUBSET Starred(body)
  BY <1>6
<1>9. Cardinality(U) <= Cardinality(Starred(body)) /\ Cardinality(Starred(body)) \in Nat
  BY <1>3, <1>8, FS_Subset, FS_CardinalityType
<1>. QED
  BY <1>7, <1>9

(* Where minimatch takes a path of which the expression would not, there is *)
(* a second "*", a glob or a backslash in the source.                      *)
LEMMA FallbackFits ==
  ASSUME NEW body \in Seq(AnySegment), NEW T, NEW path \in Seq(T),
         \A i \in 1..Len(body) : body[i].name.slash = "none",
         ~HasKind(body, {"glob", "starglob"}),
         ~(Cardinality(Starred(body)) > 1),
         match_segments(Classified(body), path)
  PROVE  RegexMatches(body, path)
<1>. DEFINE n == Len(body)
            k == Len(path)
            f == FlexAt(body)
            pat == Classified(body)
<1>1. /\ n \in Nat /\ k \in Nat /\ DOMAIN body = 1..n
      /\ \A i \in 1..n : /\ body[i] \in AnySegment /\ body[i].name \in AnyName
                         /\ body[i].kind \notin {"glob", "starglob"}
  <2>1. n \in Nat /\ k \in Nat /\ DOMAIN body = 1..n /\ \A i \in 1..n : body[i] \in AnySegment
    OBVIOUS
  <2>. QED
    BY <2>1 DEF HasKind, AnySegment
<1>2. \A i \in 1..n : de_escape(body[i].name) = body[i].name
  BY <1>1, Unescaped
<1>3. \A i \in 1..n : \A name : name = body[i].name => FitsOne(body[i], name)
  BY DEF FitsOne
<1>4. CASE f = 0 /\ \A i \in 1..n : body[i].kind \notin Flexible
  <2>1. ~HasKind(body, Flexible \union {"glob"})
    BY <1>1, <1>4 DEF HasKind
  <2>2. k = n /\ \A i \in 1..n : path[i] = de_escape(body[i].name)
    BY <2>1, PlainSearch
  <2>. HIDE DEF f
  <2>3. \A i \in 1..n : FitsOne(body[i], path[i])
    BY <1>2, <1>3, <2>2
  <2>. QED
    BY <1>1, <1>4, <2>2, <2>3 DEF RegexMatches, f
<1>5. CASE f \in 1..n /\ body[f].kind \in Flexible
  <2>. HIDE DEF f
  <2>1. body[f].kind \in {"star", "stars"} /\ f \in Starred(body)
    BY <1>1, <1>5 DEF Flexible, Starred
  <2>2. ASSUME NEW i \in 1..n, i # f PROVE body[i].kind \notin Flexible \union {"glob"}
    <3>1. i \notin Starred(body)
      BY <2>1, <2>2, OneStarred
    <3>. QED
      BY <1>1, <3>1 DEF Flexible, Starred
  <2>3. /\ Len(pat) = n /\ DOMAIN pat = 1..n
        /\ \A i \in 1..n : pat[i] = classify_pattern_segment(body[i]) /\ pat[i].form \in Form
    BY ClassifiedTyped
  <2>4. ASSUME NEW i \in 1..n, i # f PROVE pat[i].form = "lit" /\ pat[i].name = body[i].name
    <3>1. \A seg : seg.kind \notin Flexible \union {"glob"} =>
            classify_pattern_segment(seg).form = "lit"
            /\ classify_pattern_segment(seg).name = de_escape(seg.name)
      BY DEF classify_pattern_segment, Flexible
    <3>2. body[i].kind \notin Flexible \union {"glob"}
      BY <2>2, <2>4
    <3>. HIDE DEF pat
    <3>. QED
      BY <1>2, <2>3, <3>1, <3>2
  <2>5. pat[f].form = IF body[f].kind = "stars" THEN "stars" ELSE "wild"
    BY <1>5, <2>1, <2>3 DEF classify_pattern_segment
  <2>. HIDE DEF pat, n, k
  <2>6. PICK m : SearchedBy(pat, path, m) /\ (match_segments(pat, path) <=> 1 \in m[1])
    BY <1>1, <2>3, Searched
  <2>7. PICK cut : Shares(pat, path, 1, 0, cut)
    <3>1. 0 \in 0..Len(path) /\ 0 + 1 = 1
      BY <1>1 DEF k
    <3>2. match_segments(pat, path)
      BY DEF pat
    <3>. QED
      BY <1>1, <2>3, <2>6, <3>1, <3>2, Shared
  <2>8. /\ cut \in [0..n -> 0..k] /\ cut[0] = 0 /\ cut[n] = k
        /\ \A i \in 1..n : Link(pat, path, i, cut[i - 1], cut[i])
    BY <1>1, <2>3, <2>7 DEF Shares, k
  <2>9. \A i \in 1..n : i - 1 \in 0..n /\ i \in 0..n /\ cut[i - 1] \in 0..k /\ cut[i] \in 0..k
    BY <1>1, <2>8
  <2>10. ASSUME NEW i \in 1..n
         PROVE  /\ cut[i - 1] <= cut[i] /\ cut[i - 1] \in 0..Len(path) /\ cut[i] \in cut[i - 1]..Len(path)
                /\ TakenBy(pat[i], SubSeq(path, cut[i - 1] + 1, cut[i]))
    <3>1. cut[i - 1] <= cut[i] /\ TakenBy(pat[i], SubSeq(path, cut[i - 1] + 1, cut[i]))
      BY <2>8, Zenon DEF Link
    <3>2. \A b, c \in 0..k : b <= c => c \in b..k
      BY <1>1
    <3>. QED
      BY <2>9, <3>1, <3>2 DEF k
  <2>11. ASSUME NEW i \in 1..n, i # f PROVE cut[i] = cut[i - 1] + 1 /\ path[cut[i - 1] + 1] = body[i].name
    <3>1. pat[i].form = "lit" /\ pat[i].name = body[i].name /\ pat[i].form \in Form
      BY <2>3, <2>4, <2>11
    <3>2. DEFINE t == pat[i]
                 b == cut[i - 1]
                 c == cut[i]
    <3>3. /\ t.form \in Form /\ t.form = "lit" /\ b \in 0..Len(path) /\ c \in b..Len(path)
          /\ TakenBy(t, SubSeq(path, b + 1, c))
      BY <2>10, <3>1
    <3>. HIDE DEF t, b, c
    <3>4. c = b + 1 /\ path[b + 1] = t.name
      BY <3>3, Taken
    <3>. QED
      BY <3>1, <3>4 DEF t, b, c
  <2>12. body[f].kind = "star" => cut[f] = cut[f - 1] + 1
    <3>1. SUFFICES ASSUME body[f].kind = "star" PROVE cut[f] = cut[f - 1] + 1
      OBVIOUS
    <3>2. pat[f].form = "wild" /\ pat[f].form \in Form
      BY <1>5, <2>3, <2>5, <3>1
    <3>. QED
      BY <1>5, <2>10, <3>2, Taken
  <2>13. \A i \in 0..f - 1 : cut[i] = i
    <3>. DEFINE S == {i \in 0..f - 1 : cut[i] = i}
    <3>1. f - 1 \in Nat /\ 0 \in S
      BY <1>1, <1>5, <2>8
    <3>2. \A i \in 0..(f - 1) - 1 : i \in S => i + 1 \in S
      <4>. TAKE i \in 0..(f - 1) - 1
      <4>1. PICK j \in 1..n : j = i + 1 /\ j # f /\ j \in 0..f - 1 /\ j - 1 = i
        BY <1>1, <1>5
      <4>. QED
        BY <1>1, <1>5, <2>11, <4>1
    <3>. HIDE DEF S
    <3>3. 0..(f - 1) \subseteq S
      BY <3>1, <3>2, Matches!UpToByMembers, Zenon
    <3>. QED
      BY <3>3 DEF S
  <2>14. \A i \in 0..n - f : cut[f + i] = cut[f] + i
    <3>. DEFINE S == {i \in 0..n - f : cut[f + i] = cut[f] + i}
    <3>1. n - f \in Nat /\ 0 \in S
      <4>1. f + 0 = f /\ f \in 1..n
        BY <1>1, <1>5
      <4>2. cut[f] + 0 = cut[f]
        BY <1>1, <2>9, <4>1
      <4>. QED
        BY <1>1, <1>5, <4>1, <4>2
    <3>2. \A i \in 0..(n - f) - 1 : i \in S => i + 1 \in S
      <4>. TAKE i \in 0..(n - f) - 1
      <4>1. f + (i + 1) \in 1..n
        BY <1>1, <1>5
      <4>2. PICK j \in 1..n : j = f + (i + 1)
        BY <4>1
      <4>3. j # f /\ j - 1 = f + i /\ i + 1 \in 0..n - f /\ i \in 0..n - f
        BY <1>1, <1>5, <4>2
      <4>4. cut[j] = cut[j - 1] + 1 /\ cut[f] \in 0..k
        BY <1>5, <2>9, <2>11, <4>3
      <4>5. ASSUME cut[f + i] = cut[f] + i PROVE cut[f + (i + 1)] = cut[f] + (i + 1)
        <5>1. cut[f + (i + 1)] = (cut[f] + i) + 1
          BY <4>2, <4>3, <4>4, <4>5
        <5>2. (cut[f] + i) + 1 = cut[f] + (i + 1)
          <6>1. i \in Int /\ \A c \in 0..k : (c + i) + 1 = c + (i + 1)
            BY <1>1, <1>5
          <6>. QED
            BY <4>4, <6>1, Zenon
        <5>. QED
          BY <5>1, <5>2, Zenon
      <4>. QED
        BY <4>3, <4>5
    <3>. HIDE DEF S
    <3>3. 0..(n - f) \subseteq S
      BY <3>1, <3>2, Matches!UpToByMembers, Zenon
    <3>. QED
      BY <3>3 DEF S
  <2>. DEFINE c == cut[f]
  <2>15. c \in 0..k /\ f - 1 <= c /\ cut[f - 1] = f - 1 /\ f \in 1..n
    <3>1. f - 1 \in 0..f - 1
      BY <1>1, <1>5
    <3>. QED
      BY <1>1, <1>5, <2>9, <2>10, <2>13, <3>1
  <2>16. c + (n - f) = k
    <3>1. n - f \in 0..n - f /\ f + (n - f) = n
      BY <1>1, <1>5
    <3>2. cut[f + (n - f)] = c + (n - f)
      BY <2>14, <3>1
    <3>. QED
      BY <2>8, <3>1, <3>2
  <2>17. k + 1 - n = c - f + 1
    BY <1>1, <2>15, <2>16
  <2>18. Run(body, path) = c - f + 1
    BY <2>17 DEF Run, n, k
  <2>19. k + 1 >= n /\ (body[f].kind = "star" => c - f + 1 > 0)
    BY <1>1, <2>12, <2>15, <2>17
  <2>20. ASSUME NEW i \in 1..f - 1 PROVE FitsOne(body[i], path[i])
    <3>1. i \in 1..n /\ i # f /\ i - 1 \in 0..f - 1
      BY <1>1, <1>5
    <3>2. cut[i - 1] + 1 = i
      BY <1>1, <1>5, <2>13, <3>1
    <3>. QED
      BY <1>3, <2>11, <3>1, <3>2
  <2>21. ASSUME NEW i \in f + 1..n PROVE FitsOne(body[i], path[i + Run(body, path) - 1])
    <3>1. i \in 1..n /\ i # f /\ i - 1 - f \in 0..n - f /\ f + (i - 1 - f) = i - 1
      BY <1>1, <1>5
    <3>2. cut[i - 1] = c + (i - 1 - f)
      <4>1. cut[f + (i - 1 - f)] = c + (i - 1 - f)
        BY <2>14, <3>1
      <4>. QED
        BY <3>1, <4>1
    <3>3. cut[i - 1] + 1 = i + (c - f + 1) - 1
      BY <1>1, <2>15, <3>1, <3>2
    <3>. QED
      BY <1>3, <2>11, <2>18, <3>1, <3>3
  <2>22. f # 0 /\ body[f].kind # "starglob" /\ body[f].name.slash # "end"
    <3>1. body[f].name.slash = "none"
      BY <1>5 DEF n
    <3>. QED
      BY <1>1, <1>5, <2>1, <3>1
  <2>. HIDE DEF c
  <2>23. body[f].kind = "star" => Run(body, path) > 0
    BY <2>18, <2>19
  <2>. QED
    BY <2>19, <2>20, <2>21, <2>22, <2>23 DEF RegexMatches, f, n, k
<1>. QED
  BY <1>4, <1>5, FlexFirst

(* What was captured is a name of the path.                                *)
LEMMA CapturedName ==
  ASSUME NEW body \in Seq(AnySegment), NEW path \in Seq(Plain), RegexMatches(body, path),
         NEW name \in ParamNames(body)
  PROVE  Captured(body, path, name) \in Plain
<1>. DEFINE n == Len(body)
            k == Len(path)
            f == FlexAt(body)
            i == CHOOSE j \in DOMAIN body : body[j].kind = "param" /\ body[j].name = name
<1>1. n \in Nat /\ k \in Nat /\ DOMAIN body = 1..n /\ \A j \in 1..k : path[j] \in Plain
  OBVIOUS
<1>2. i \in 1..n /\ body[i].kind = "param"
  <2>1. \E j \in DOMAIN body : body[j].kind = "param" /\ body[j].name = name
    BY DEF ParamNames
  <2>2. i \in DOMAIN body /\ body[i].kind = "param"
    BY <2>1, Zenon
  <2>. QED
    BY <1>1, <2>2
<1>3. Captured(body, path, name) = IF f = 0 \/ i < f THEN path[i] ELSE path[i + Run(body, path) - 1]
  BY Zenon DEF Captured
<1>4. \/ f = 0 /\ k = n
      \/ f \in 1..n /\ k + 1 >= n /\ body[f].kind \in Flexible
  <2>1. f = 0 \/ (f \in 1..n /\ body[f].kind \in Flexible)
    BY FlexFirst
  <2>2. f = 0 => k = n
    BY DEF RegexMatches
  <2>3. f # 0 => k + 1 >= n
    BY DEF RegexMatches
  <2>. QED
    BY <2>1, <2>2, <2>3
<1>. HIDE DEF i, f, n, k
<1>5. i # f
  BY <1>1, <1>2, <1>4 DEF Flexible
<1>6. Run(body, path) = k + 1 - n
  BY DEF Run, n, k
<1>. QED
  BY <1>1, <1>2, <1>3, <1>4, <1>5, <1>6

LEMMA EncodedName ==
  ASSUME NEW name \in Plain
  PROVE  Encoded(name) # Empty
<1>1. name \in AnyName /\ name # Empty
  BY DEF Plain
<1>2. CASE name.slash = "none" /\ ~name.special
  BY <1>1, <1>2 DEF Encoded
<1>3. CASE ~(name.slash = "none" /\ ~name.special)
  <2>1. Encoded(name) = [name EXCEPT !.coded = TRUE]
    BY <1>3 DEF Encoded
  <2>2. Encoded(name).coded = TRUE
    BY <1>1, <2>1 DEF AnyName
  <2>3. Empty.coded = FALSE
    BY Zenon DEF Empty, Name
  <2>. QED
    BY <2>2, <2>3
<1>. QED
  BY <1>2, <1>3

(* What a redirect leads to, when one leads anywhere.                      *)
LEMMA Filled ==
  ASSUME NEW source, IsSource(source), NEW dest, NEW asked \in Seq(AnyName),
         compile(source) # InvalidMatcher, try_match(compile(source), asked),
         NEW i \in DOMAIN render(compile(source), dest, asked),
         render(compile(source), dest, asked)[i] = Empty,
         ~(Cardinality(Starred(SourceBody(source))) > 1),
         ~HasKind(SourceBody(source), {"glob", "starglob"}),
         ~\E j \in DOMAIN SourceBody(source) : SourceBody(source)[j].name.slash = "inner"
  PROVE  normalize_destination(dest).parts[i].name \notin ParamNames(SourceBody(source))
<1>. DEFINE body == SourceBody(source)
            path == path_posix_resolve(asked)
            parts == normalize_destination(dest).parts
            part == parts[i]
            matcher == compile(source)
<1>1. body \in Seq(BodySegment) /\ body \in Seq(AnySegment) /\ path \in Seq(Plain)
  <2>1. BodySegment \subseteq AnySegment
    BY DEF BodySegment
  <2>. QED
    BY <2>1, BodyIn, NormalizedIn, SeqMonotonic DEF path_posix_resolve
<1>2. \A name \in ParamNames(body) : name # Empty
  <2>1. \A j \in DOMAIN body : body[j] \in BodySegment
    BY <1>1
  <2>. QED
    BY <2>1 DEF ParamNames, BodySegment
<1>3. i \in DOMAIN parts /\ Empty = IF matcher.form = "pattern" THEN FilledIn(matcher, path, part) ELSE part.name
  BY DEF render
<1>. HIDE DEF body, path, parts
<1>4. CASE matcher.form # "pattern"
  BY <1>2, <1>3, <1>4 DEF body, parts
<1>5. CASE matcher.form = "pattern" /\ part.kind # "param"
  <2>1. FilledIn(matcher, path, part) = part.name
    BY <1>5, Zenon DEF FilledIn
  <2>. QED
    BY <1>2, <1>3, <1>5, <2>1 DEF body, parts
<1>6. CASE matcher.form = "pattern" /\ part.kind = "param"
  <2>1. SUFFICES ASSUME part.name \in ParamNames(body) PROVE FALSE
    BY DEF body, parts
  <2>2. NeedsPattern(source) /\ ~RepeatsParam(body)
    BY <1>6, Zenon DEF compile, body, InvalidMatcher
  <2>3. matcher = [form |-> "pattern", body |-> body, fallback |-> ~ends_with_unescaped_backslash(body)]
    BY <2>2, Zenon DEF compile, body
  <2>4. RegexMatches(body, path)
    <3>1. SUFFICES ASSUME FallbackMatches(matcher, path) PROVE RegexMatches(body, path)
      <4>1. RegexMatches(matcher.body, path) \/ FallbackMatches(matcher, path)
        BY <1>6 DEF try_match, path
      <4>2. matcher.body = body
        BY <2>3
      <4>. QED
        BY <3>1, <4>1, <4>2
    <3>2. ~ends_with_unescaped_backslash(body) /\ match_segments(Classified(body), path)
      <4>1. matcher.fallback = ~ends_with_unescaped_backslash(body) /\ matcher.body = body
        BY <2>3
      <4>2. matcher.fallback /\ match_segments(Classified(matcher.body), path)
        BY <3>1, Zenon DEF FallbackMatches
      <4>. QED
        BY <4>1, <4>2, Zenon
    <3>3. DOMAIN body = 1..Len(body) /\ Len(body) \in Nat /\ \A j \in 1..Len(body) : body[j] \in BodySegment
      BY <1>1
    <3>4. ASSUME NEW j \in 1..Len(body) PROVE body[j].name.slash = "none"
      <4>1. body[j].name.slash \in {"none", "inner", "end"}
        BY <3>3 DEF BodySegment, AnySegment, AnyName
      <4>2. body[j].name.slash # "inner"
        BY <3>3 DEF body
      <4>3. body[j].name.slash # "end"
        <5>1. SUFFICES ASSUME body[j].name.slash = "end" PROVE FALSE
          OBVIOUS
        <5>2. j = Len(body)
          BY <5>1, BodyEnds DEF body
        <5>3. body # <<>>
          BY <3>3, EmptySeq
        <5>. QED
          BY <3>2, <5>1, <5>2, <5>3 DEF ends_with_unescaped_backslash, Last
      <4>. QED
        BY <4>1, <4>2, <4>3
    <3>5. ~(Cardinality(Starred(body)) > 1) /\ ~HasKind(body, {"glob", "starglob"})
      BY DEF body
    <3>. QED
      BY <1>1, <3>2, <3>4, <3>5, FallbackFits
  <2>5. FilledIn(matcher, path, part) = Encoded(Captured(body, path, part.name))
    <3>1. matcher.body = body
      BY <2>3
    <3>. QED
      BY <1>6, <2>1, <2>4, <3>1, Zenon DEF FilledIn
  <2>6. Captured(body, path, part.name) \in Plain
    BY <1>1, <2>1, <2>4, CapturedName
  <2>. QED
    BY <1>3, <1>6, <2>5, <2>6, EncodedName
<1>. QED
  BY <1>4, <1>5, <1>6

LEMMA FillInit == Init => FillInv
BY RedirectInit DEF Init, FillInv, DestinationsFilled

LEMMA NextFill == FillInv /\ [Next]_vars => FillInv'
<1>. SUFFICES ASSUME FillInv, [Next]_vars PROVE DestinationsFilled'
  BY NextRedirect DEF FillInv
<1>1. TablesInv /\ RedirectInv /\ DestinationsFilled /\ (pc = "asked" => used = <<>>)
  BY DEF FillInv, RedirectInv
<1>2. CASE UNCHANGED vars
  BY <1>1, <1>2 DEF vars, DestinationsFilled, Rule
<1>3. CASE CompileRule \/ Serve \/ Done \/ \E path \in Requests : Ask(path)
  <2>1. pc' # "answered"
    BY <1>1, <1>3 DEF CompileRule, Serve, Done, Ask
  <2>. QED
    BY <2>1 DEF DestinationsFilled
<1>4. CASE Refuse \/ Unaffected
  BY <1>4 DEF Refuse, Unaffected, Answer, DestinationsFilled
<1>5. CASE ApplyHeaders \/ InScope \/ BeginRewrites \/ RewritePass \/ EndRewrites
  <2>1. config.table # "redirects" /\ config' = config
    BY <1>1, <1>5 DEF ApplyHeaders, InScope, BeginRewrites, RewritePass, EndRewrites, Answer, Scopes,
                      TablesInv, TypesOK
  <2>. QED
    BY <2>1 DEF DestinationsFilled
<1>6. CASE Redirect
  <2>1. PICK k \in DOMAIN compiled : /\ First(k, Applying(request))
                                    /\ Answer(<<compiled[k].rule>>, Target(k, request))
    BY <1>6 DEF Redirect
  <2>. DEFINE r == compiled[k].rule
              source == config.rules[r].source
              dest == config.rules[r].dest
  <2>2. k \in 1..Len(compiled) /\ r \in 1..Count
    BY <1>1, ChosenRule DEF TablesInv, TypesOK
  <2>3. config.table = "redirects" /\ compiled[k].matcher = compile(source) /\ compile(source) # InvalidMatcher
    <3>1. config.table = "redirects"
      BY <1>6 DEF Redirect
    <3>2. compiled[k].matcher = MatcherIn(config, r) /\ compiled[k].matcher # InvalidMatcher
      BY <1>1, <2>2 DEF TablesInv, TablesOK
    <3>3. \A c : c.table = "redirects" => MatcherIn(c, r) = compile(c.rules[r].source)
      BY DEF MatcherIn, MatcherOf, Scopes
    <3>. QED
      BY <3>1, <3>2, <3>3
  <2>4. try_match(compile(source), request)
    <3>1. Applies("redirects", compiled[k].matcher, request)
      BY <2>1, <2>3 DEF First, Applying
    <3>. QED
      BY <2>3, <3>1 DEF Applies
  <2>5. IsSource(source)
    <3>1. source \in Sources
      BY <2>2 DEF Sources
    <3>. QED
      BY <1>1, <3>1, SourcesTyped
  <2>6. request \in Seq(AnyName)
    BY <1>1, RequestTyped
  <2>7. /\ current' = render(compile(source), dest, request)
        /\ used' = <<r>> /\ config' = config
    <3>1. current' = render(compiled[k].matcher, dest, request)
      BY <2>1 DEF Answer, Target, Rule
    <3>. QED
      BY <2>1, <2>3, <3>1 DEF Answer
  <2>. HIDE DEF r, source, dest
  <2>8. config'.rules[used'[1]] = config.rules[r]
    BY <2>7
  <2>9. \A i \in DOMAIN current' :
          current'[i] = Empty =>
            \/ normalize_destination(dest).parts[i].name \notin ParamNames(SourceBody(source))
            \/ Cardinality(Starred(SourceBody(source))) > 1
            \/ HasKind(SourceBody(source), {"glob", "starglob"})
            \/ \E j \in DOMAIN SourceBody(source) : SourceBody(source)[j].name.slash = "inner"
    BY <2>3, <2>4, <2>5, <2>6, <2>7, Filled
  <2>. QED
    BY <2>8, <2>9 DEF DestinationsFilled, Rule, source, dest
<1>. QED
  BY <1>2, <1>3, <1>4, <1>5, <1>6 DEF Next
-----------------------------------------------------------------------------
(* A redirect is by the earliest rule of the file whose source compiles    *)
(* and matches, however many rules were warned of and left out, and a      *)
(* request is let through only if there is none (redirects.rs, find): the  *)
(* first part of SkippingCostsNothing.                                     *)
THEOREM RedirectsByFirst == Spec => []RedirectedByFirst
<1>1. RedirectInv => RedirectedByFirst
  BY DEF RedirectInv
<1>. QED
  BY <1>1, RedirectInit, NextRedirect, PTL DEF Spec

(* A rule that does not compile costs nothing but itself: the redirect is  *)
(* by the first rule of the file that matches, and the header rules that   *)
(* apply are all that match, in the order of the file (compile_rules, and  *)
(* apply_custom_headers).                                                  *)
THEOREM SkippingIsFree == Spec => []SkippingCostsNothing
<1>1. RedirectInv /\ HeaderInv => SkippingCostsNothing
  BY DEF RedirectInv, HeaderInv, RedirectedByFirst, HeadersInOrder, SkippingCostsNothing
<1>. QED
  BY <1>1, RedirectInit, NextRedirect, HeaderInit, NextHeader, PTL DEF Spec

(* Everything in the tables is of its type: the compiled rules and those   *)
(* that were warned of are rules of the file, nothing is compiled to a     *)
(* matcher that matches nothing, and a request uses no other rules.        *)
THEOREM TablesTyped == Spec => []TypeOK
<1>1. TablesInv => TypeOK
  <2>. SUFFICES ASSUME TablesInv PROVE TypeOK
    OBVIOUS
  <2>1. /\ DOMAIN compiled = 1..Len(compiled)
        /\ config \in Configs /\ config.table \in Tables
    BY CountType DEF TablesInv, TypesOK
  <2>2. ASSUME NEW k \in 1..Len(compiled)
        PROVE  compiled[k].matcher.form \in {"literal", "glob", "pattern", "scope"}
    <3>1. /\ compiled[k].matcher = MatcherOf(config.table, config.rules[compiled[k].rule].source)
          /\ compiled[k].matcher # InvalidMatcher
      BY DEF TablesInv, TablesOK, MatcherIn
    <3>. QED
      BY <2>1, <3>1, MatcherForms
  <2>3. Range(skipped) \subseteq 1..Count /\ Range(used) \subseteq 1..Count
    BY Sequenced DEF TablesInv, TypesOK
  <2>. QED
    BY <2>1, <2>2, <2>3, ChosenRule DEF TypeOK, TablesInv, TypesOK
<1>. QED
  BY <1>1, TablesInit, NextTables, PTL DEF Spec

(* A path that passes the check on ".." (lexical_path_escapes_root) leads, *)
(* below any root, to the place under that root which the matchers are     *)
(* asked about (path_posix_resolve): the two walks over the path, one that *)
(* counts and one that keeps the names, never part.                        *)
THEOREM RequestsStayBelow == Spec => []NeverAboveRoot
<1>1. TablesInv => NeverAboveRoot
  <2>. SUFFICES ASSUME TablesInv, ~lexical_path_escapes_root(request), NEW root \in Roots
                PROVE  Normalized(root \o request) = root \o path_posix_resolve(request)
    BY DEF NeverAboveRoot
  <2>1. root \in Seq(Plain)
    <3>1. root \in Seq(AnyName) /\ \A i \in 1..Len(root) : root[i] \notin {Empty, Here, Up}
      BY RootsAssumption
    <3>2. \A i \in 1..Len(root) : root[i] \in Plain
      BY <3>1 DEF Plain
    <3>3. Len(root) \in Nat /\ root = [i \in 1..Len(root) |-> root[i]]
      BY <3>1
    <3>4. [i \in 1..Len(root) |-> root[i]] \in Seq(Plain)
      BY <3>2, <3>3, IsASeq
    <3>. QED
      BY <3>3, <3>4
  <2>. QED
    BY <2>1, RequestTyped, StaysBelow DEF path_posix_resolve
<1>. QED
  BY <1>1, TablesInit, NextTables, PTL DEF Spec

(* A path a header rule applies to is one that a redirect or a rewrite     *)
(* with the same source takes (HeaderMatcher and Matcher): the regular     *)
(* expression of a pattern takes a path that is its text, and every other  *)
(* matcher ends in the minimatch that header rules have.                   *)
THEOREM RoutesTakeHeaders == Spec => []HeadersWithinRoutes
<1>1. TablesInv => HeadersWithinRoutes
  BY SourcesTyped, HeaderTaken DEF HeadersWithinRoutes
<1>. QED
  BY <1>1, TablesInit, NextTables, PTL DEF Spec

(* The matcher shared by redirects, rewrites and headers (match_segments)  *)
(* takes a path exactly if the names of the path can be shared out among   *)
(* the segments of the source as minimatch promises.                       *)
THEOREM SearchAsPromised == Spec => []SegmentsAsMinimatch
<1>1. TablesInv => SegmentsAsMinimatch
  <2>. SUFFICES ASSUME TablesInv, NEW s \in Sources
                PROVE  LET pat == Classified(SourceBody(s)) path == path_posix_resolve(request)
                       IN  match_segments(pat, path) <=> Minimatch(pat, path)
    BY DEF SegmentsAsMinimatch
  <2>1. SourceBody(s) \in Seq(AnySegment)
    <3>1. BodySegment \subseteq AnySegment
      BY DEF BodySegment
    <3>. QED
      BY <3>1, SourcesTyped, BodyIn, SeqMonotonic
  <2>2. path_posix_resolve(request) \in Seq(Plain)
    BY RequestTyped, NormalizedIn DEF path_posix_resolve
  <2>. QED
    BY <2>1, <2>2, ClassifiedTyped, SearchIsMinimatch
<1>. QED
  BY <1>1, TablesInit, NextTables, PTL DEF Spec

(* The two ways to read a source, globset for scopes and minimatch for     *)
(* headers (compile_scoped_pattern, HeaderMatcher), give one answer where  *)
(* ScopesAsHeaders says they do.                                           *)
THEOREM ScopesReadAlike == Spec => []ScopesAsHeaders
<1>1. TablesInv => ScopesAsHeaders
  <2>. SUFFICES ASSUME TablesInv, NEW s \in Sources,
                       compile_scoped_pattern(s) # InvalidMatcher,
                       SourceBody(s) = s.parts,
                       \A i \in DOMAIN s.parts : s.parts[i].name.slash = "none",
                       request = path_posix_resolve(request), request # <<>>,
                       \A i \in DOMAIN request : ~StartsWithDot(request[i])
                PROVE  scope_matches(compile_scoped_pattern(s), request)
                       <=> header_matches(compile_header(s), request)
    BY DEF ScopesAsHeaders
  <2>1. IsSource(s) /\ SourceBody(s) \in Seq(BodySegment)
    BY SourcesTyped, BodyIn
  <2>2. request \in Seq(AnyName)
    BY RequestTyped
  <2>. QED
    BY <2>1, <2>2, ScopeAsHeader
<1>. QED
  BY <1>1, TablesInit, NextTables, PTL DEF Spec

(* A redirect leaves no part of its destination out (Matcher::render),     *)
(* but for the sources DestinationsFilled names: for every other source    *)
(* the expression takes what minimatch takes, and has every parameter.     *)
THEOREM RedirectsFillIn == Spec => []DestinationsFilled
<1>1. FillInv => DestinationsFilled
  BY DEF FillInv
<1>. QED
  BY <1>1, FillInit, NextFill, PTL DEF Spec

(* A chain of rewrites uses each rule once at the most, stops at the cap,  *)
(* and before the cap only when no rule left matches (apply_rewrites): see *)
(* ChainsComplete.                                                         *)
THEOREM RewritesComplete == Spec => []ChainsComplete
<1>1. ChainInv => ChainsComplete
  BY DEF ChainInv
<1>. QED
  BY <1>1, ChainInit, NextChain, PTL DEF Spec
=============================================================================
