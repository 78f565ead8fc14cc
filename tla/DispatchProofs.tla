--------------------------- MODULE DispatchProofs ---------------------------
(***************************************************************************)
(* Theorems about Dispatch, for every file tree, configuration, request    *)
(* and number of changes.                                                  *)
(***************************************************************************)
EXTENDS Dispatch, SequenceTheorems, TLAPS

(* The stages of the walk in their order, and the candidate of each.       *)
AtTop == Trim(Path) = <<>>

Order ==
  IF Extension
  THEN IF Rewritten THEN <<"original", "target">>
       ELSE IF ~CleanChosen THEN <<"original">>
       ELSE IF AtTop THEN <<"original", "cleanIndex">>
       ELSE <<"original", "cleanIndex", "cleanFlat">>
  ELSE IF Rewritten THEN <<"target", "fallback">>
       ELSE IF ~CleanChosen THEN <<"original">>
       ELSE IF AtTop THEN <<"cleanIndex", "original">>
       ELSE <<"cleanIndex", "cleanFlat", "original">>

CleanStages == {"cleanIndex", "cleanFlat"}
WalkStages  == {"original", "target", "fallback"} \union CleanStages

UrlOf(stage) ==
  IF stage \in {"original", "fallback"} THEN Path
  ELSE IF stage = "target" THEN compute_configured_rewrites(cfg.rewrites, Path, DepthCap)
  ELSE IF stage = "cleanIndex" THEN IndexOf(Trim(Path))
  ELSE FlatOf(Trim(Path))

PassedOver(stage) ==
  IF stage \in CleanStages THEN {"missing", "escaped", "dir", "index"}
  ELSE IF stage = "original" /\ Extension THEN {"missing"}
  ELSE IF stage = "target" /\ ~Extension THEN {"missing", "escaped"}
  ELSE {}

Tried(i) == Try(UrlOf(Order[i]), PassedOver(Order[i]))

LEMMA Tuples ==
  ASSUME NEW a, NEW b, NEW c
  PROVE  /\ Len(<<a>>) = 1 /\ DOMAIN <<a>> = 1..1 /\ <<a>>[1] = a
         /\ Len(<<a, b>>) = 2 /\ DOMAIN <<a, b>> = 1..2 /\ <<a, b>>[1] = a /\ <<a, b>>[2] = b
         /\ Len(<<a, b, c>>) = 3 /\ DOMAIN <<a, b, c>> = 1..3
         /\ <<a, b, c>>[1] = a /\ <<a, b, c>>[2] = b /\ <<a, b, c>>[3] = c
OBVIOUS

LEMMA Joined ==
  ASSUME NEW a, NEW b, NEW c
  PROVE  /\ <<a>> \o <<>> = <<a>>
         /\ <<a>> \o <<b>> = <<a, b>>
         /\ <<a>> \o <<b, c>> = <<a, b, c>>
         /\ Append(<<>>, a) = <<a>>
         /\ Append(<<a>>, b) = <<a, b>>
         /\ Append(<<a, b>>, c) = <<a, b, c>>
<1>. DEFINE S  == {a, b, c}
            s1 == <<a>>
            s2 == <<a, b>>
            s3 == <<a, b, c>>
            t1 == <<b>>
            t2 == <<b, c>>
<1>0. /\ s1 \in Seq(S) /\ s2 \in Seq(S) /\ s3 \in Seq(S) /\ t1 \in Seq(S) /\ t2 \in Seq(S)
      /\ a \in S /\ b \in S /\ c \in S
  OBVIOUS
<1>1. s1 \o <<>> = s1 /\ Append(<<>>, a) = s1
  OBVIOUS
<1>2. /\ Len(s1) = 1 /\ s1[1] = a /\ Len(s2) = 2 /\ s2[1] = a /\ s2[2] = b
      /\ Len(s3) = 3 /\ s3[1] = a /\ s3[2] = b /\ s3[3] = c
      /\ Len(t1) = 1 /\ t1[1] = b /\ Len(t2) = 2 /\ t2[1] = b /\ t2[2] = c
  OBVIOUS
<1>. HIDE DEF S, s1, s2, s3, t1, t2
<1>3. s1 \o t1 = s2
  <2>. DEFINE j == s1 \o t1
  <2>1. /\ j \in Seq(S) /\ Len(j) = Len(s1) + Len(t1)
        /\ \A i \in 1..(Len(s1) + Len(t1)) : j[i] = IF i <= Len(s1) THEN s1[i] ELSE t1[i - Len(s1)]
    BY <1>0, ConcatProperties
  <2>. HIDE DEF j
  <2>2. Len(j) = 2 /\ \A i \in 1..2 : j[i] = IF i <= 1 THEN s1[i] ELSE t1[i - 1]
    BY <1>2, <2>1
  <2>3. j[1] = a /\ j[2] = b
    BY <1>2, <2>2
  <2>4. Len(j) = Len(s2) /\ \A i \in 1..Len(j) : j[i] = s2[i]
    BY <1>2, <2>2, <2>3
  <2>5. j = s2
    BY <1>0, <2>1, <2>4, SeqEqual
  <2>. QED
    BY <2>5 DEF j
<1>4. s1 \o t2 = s3
  <2>. DEFINE j == s1 \o t2
  <2>1. /\ j \in Seq(S) /\ Len(j) = Len(s1) + Len(t2)
        /\ \A i \in 1..(Len(s1) + Len(t2)) : j[i] = IF i <= Len(s1) THEN s1[i] ELSE t2[i - Len(s1)]
    BY <1>0, ConcatProperties
  <2>. HIDE DEF j
  <2>2. Len(j) = 3 /\ \A i \in 1..3 : j[i] = IF i <= 1 THEN s1[i] ELSE t2[i - 1]
    BY <1>2, <2>1
  <2>3. j[1] = a /\ j[2] = b /\ j[3] = c
    BY <1>2, <2>2
  <2>4. Len(j) = Len(s3) /\ \A i \in 1..Len(j) : j[i] = s3[i]
    BY <1>2, <2>2, <2>3
  <2>5. j = s3
    BY <1>0, <2>1, <2>4, SeqEqual
  <2>. QED
    BY <2>5 DEF j
<1>5. Append(s1, b) = s2
  BY <1>0, <1>3, AppendIsConcat DEF t1
<1>6. Append(s2, c) = s3
  <2>. DEFINE j == Append(s2, c)
  <2>1. /\ j \in Seq(S) /\ Len(j) = Len(s2) + 1
        /\ \A i \in 1..Len(s2) : j[i] = s2[i]
        /\ j[Len(s2) + 1] = c
    BY <1>0, AppendProperties
  <2>. HIDE DEF j
  <2>2. Len(j) = 3 /\ j[1] = a /\ j[2] = b /\ j[3] = c
    BY <1>2, <2>1
  <2>3. Len(j) = Len(s3) /\ \A i \in 1..Len(j) : j[i] = s3[i]
    BY <1>2, <2>2
  <2>4. j = s3
    BY <1>0, <2>1, <2>3, SeqEqual
  <2>. QED
    BY <2>4 DEF j
<1>. QED
  BY <1>1, <1>3, <1>4, <1>5, <1>6 DEF s1, s2, s3, t1, t2

(* What StableAnswer and the others call the tries of a request is the     *)
(* order of the stages.                                                    *)
LEMMA TriesInOrder ==
  /\ Len(Order) \in 1..3 /\ DOMAIN Order = 1..Len(Order)
  /\ \A i \in 1..Len(Order) : Order[i] \in WalkStages
  /\ DOMAIN Tries(cfg, Path) = 1..Len(Order)
  /\ \A i \in 1..Len(Order) : Tries(cfg, Path)[i] = Tried(i)
<1>. DEFINE tries  == Tries(cfg, Path)
            goal(s) == /\ Len(s) \in 1..3 /\ DOMAIN s = 1..Len(s)
                       /\ \A i \in 1..Len(s) : s[i] \in WalkStages
                       /\ DOMAIN tries = 1..Len(s)
                       /\ \A i \in 1..Len(s) : tries[i] = Try(UrlOf(s[i]), PassedOver(s[i]))
            target == compute_configured_rewrites(cfg.rewrites, Path, DepthCap)
            miss   == {"missing", "escaped", "dir", "index"}
            index  == Try(IndexOf(Trim(Path)), miss)
            flat   == Try(FlatOf(Trim(Path)), miss)
            plain(over) == Try(Path, over)
            clean  == IF ~CleanChosen THEN <<>> ELSE <<index>> \o IF AtTop THEN <<>> ELSE <<flat>>
            rest   == IF Rewritten THEN <<Try(target, {})>> ELSE clean
<1>1. /\ Extension /\ Rewritten  => tries = <<plain({"missing"})>> \o <<Try(target, {})>>
      /\ Extension /\ ~Rewritten => tries = <<plain({"missing"})>> \o clean
      /\ ~Extension /\ Rewritten =>
           tries = <<[Try(target, {}) EXCEPT !.passedOver = {"missing", "escaped"}], plain({})>>
      /\ ~Extension /\ ~Rewritten => tries = Append(clean, plain({}))
  BY Zenon DEF Tries, Extension, Rewritten, CleanChosen, AtTop
<1>2. [Try(target, {}) EXCEPT !.passedOver = {"missing", "escaped"}] = Try(target, {"missing", "escaped"})
  BY DEF Try
<1>3. /\ ~CleanChosen => clean = <<>>
      /\ CleanChosen /\ AtTop  => clean = <<index>> \o <<>>
      /\ CleanChosen /\ ~AtTop => clean = <<index>> \o <<flat>>
  OBVIOUS
<1>4. /\ Try(UrlOf("cleanIndex"), PassedOver("cleanIndex")) = index
      /\ Try(UrlOf("cleanFlat"), PassedOver("cleanFlat")) = flat
      /\ Extension  => Try(UrlOf("original"), PassedOver("original")) = plain({"missing"})
      /\ ~Extension => Try(UrlOf("original"), PassedOver("original")) = plain({})
      /\ Extension  => Try(UrlOf("target"), PassedOver("target")) = Try(target, {})
      /\ ~Extension => Try(UrlOf("target"), PassedOver("target")) = Try(target, {"missing", "escaped"})
      /\ Try(UrlOf("fallback"), PassedOver("fallback")) = plain({})
  BY DEF UrlOf, PassedOver, CleanStages
<1>. HIDE DEF index, flat, target, plain, tries, clean
<1>5. CASE Extension /\ Rewritten
  <2>1. Order = <<"original", "target">>
    BY <1>5 DEF Order
  <2>2. tries = <<plain({"missing"}), Try(target, {})>>
    BY <1>1, <1>5, Joined
  <2>. QED
    BY <1>4, <1>5, <2>1, <2>2 DEF WalkStages, Tried, tries
<1>6. CASE Extension /\ ~Rewritten /\ ~CleanChosen
  <2>1. Order = <<"original">>
    BY <1>6 DEF Order
  <2>2. tries = <<plain({"missing"})>>
    BY <1>1, <1>3, <1>6, Joined
  <2>. QED
    BY <1>4, <1>6, <2>1, <2>2 DEF WalkStages, Tried, tries
<1>7. CASE Extension /\ ~Rewritten /\ CleanChosen /\ AtTop
  <2>1. Order = <<"original", "cleanIndex">>
    BY <1>7 DEF Order
  <2>a. clean = <<index>>
    BY <1>3, <1>7, Joined
  <2>2. tries = <<plain({"missing"}), index>>
    BY <1>1, <1>7, <2>a, Joined
  <2>. QED
    BY <1>4, <1>7, <2>1, <2>2 DEF WalkStages, CleanStages, Tried, tries
<1>8. CASE Extension /\ ~Rewritten /\ CleanChosen /\ ~AtTop
  <2>1. Order = <<"original", "cleanIndex", "cleanFlat">>
    BY <1>8 DEF Order
  <2>a. clean = <<index, flat>>
    BY <1>3, <1>8, Joined
  <2>2. tries = <<plain({"missing"}), index, flat>>
    BY <1>1, <1>8, <2>a, Joined
  <2>. QED
    BY <1>4, <1>8, <2>1, <2>2 DEF WalkStages, CleanStages, Tried, tries
<1>9. CASE ~Extension /\ Rewritten
  <2>1. Order = <<"target", "fallback">>
    BY <1>9 DEF Order
  <2>2. tries = <<Try(target, {"missing", "escaped"}), plain({})>>
    BY <1>1, <1>2, <1>9
  <2>. QED
    BY <1>4, <1>9, <2>1, <2>2 DEF WalkStages, Tried, tries
<1>10. CASE ~Extension /\ ~Rewritten /\ ~CleanChosen
  <2>1. Order = <<"original">>
    BY <1>10 DEF Order
  <2>2. tries = <<plain({})>>
    BY <1>1, <1>3, <1>10, Joined
  <2>. QED
    BY <1>4, <1>10, <2>1, <2>2 DEF WalkStages, Tried, tries
<1>11. CASE ~Extension /\ ~Rewritten /\ CleanChosen /\ AtTop
  <2>1. Order = <<"cleanIndex", "original">>
    BY <1>11 DEF Order
  <2>a. clean = <<index>>
    BY <1>3, <1>11, Joined
  <2>2. tries = <<index, plain({})>>
    BY <1>1, <1>11, <2>a, Joined
  <2>. QED
    BY <1>4, <1>11, <2>1, <2>2 DEF WalkStages, CleanStages, Tried, tries
<1>12. CASE ~Extension /\ ~Rewritten /\ CleanChosen /\ ~AtTop
  <2>1. Order = <<"cleanIndex", "cleanFlat", "original">>
    BY <1>12 DEF Order
  <2>a. clean = <<index, flat>>
    BY <1>3, <1>12, Joined
  <2>2. tries = <<index, flat, plain({})>>
    BY <1>1, <1>12, <2>a, Joined
  <2>. QED
    BY <1>4, <1>12, <2>1, <2>2 DEF WalkStages, CleanStages, Tried, tries
<1>. QED
  BY <1>5, <1>6, <1>7, <1>8, <1>9, <1>10, <1>11, <1>12
-----------------------------------------------------------------------------
(* The walk goes through the order of the stages.                          *)
LEMMA CandidateAtHand ==
  \A stage \in WalkStages : CandidateOf(stage) = Candidate(stage, UrlOf(stage))
BY Zenon DEF CandidateOf, UrlOf, WalkStages, CleanStages

LEMMA RouteStarts ==
  ASSUME Route
  PROVE  \/ \E code \in {400, 405} : Settle(Failed(code))
         \/ \E u : Settle(Redirect(u))
         \/ Goto(Order[1])
<1>1. Order[1] = IF Extension THEN "original" ELSE IF Rewritten THEN "target"
                 ELSE IF CleanChosen THEN "cleanIndex" ELSE "original"
  BY DEF Order
<1>. QED
  BY <1>1, ZenonT(60) DEF Route

LEMMA MissDecides ==
  ASSUME NEW i \in 1..Len(Order), walk.stage = Order[i],
         NEW code \in {400, 404}, Miss(code)
  PROVE  \/ /\ i < Len(Order) /\ Goto(Order[i + 1])
            /\ \/ Order[i] \in CleanStages
               \/ /\ "missing" \in PassedOver(Order[i])
                  /\ code = 400 => "escaped" \in PassedOver(Order[i])
         \/ i = Len(Order) /\ Order[i] \in CleanStages /\ Settle(Failed(404))
         \/ /\ Order[i] \notin CleanStages /\ Settle(Failed(code))
            /\ i = Len(Order) \/ code = 400
            /\ code = 400 => "escaped" \notin PassedOver(Order[i])
<1>0. /\ walk.stage = "original" =>
           \/ (~Extension \/ code = 400) /\ Settle(Failed(code))
           \/ code = 404 /\ Extension /\ Rewritten /\ Goto("target")
           \/ code = 404 /\ Extension /\ ~Rewritten /\ CleanChosen /\ Goto("cleanIndex")
           \/ code = 404 /\ Extension /\ ~Rewritten /\ ~CleanChosen /\ Settle(Failed(code))
      /\ walk.stage = "target" =>
           \/ Extension /\ Settle(Failed(code))
           \/ ~Extension /\ Goto("fallback")
      /\ walk.stage = "fallback" => Settle(Failed(code))
      /\ walk.stage = "cleanIndex" /\ ~AtTop => Goto("cleanFlat")
      /\ (walk.stage = "cleanIndex" /\ AtTop) \/ walk.stage = "cleanFlat" =>
           \/ Extension /\ Settle(Failed(404))
           \/ ~Extension /\ Goto("original")
  BY ZenonT(60) DEF Miss, CleanMiss, AtTop
<1>. DEFINE over == PassedOver(walk.stage)
<1>a. /\ walk.stage = "original" => walk.stage \notin CleanStages /\ over = IF Extension THEN {"missing"} ELSE {}
      /\ walk.stage = "target" => /\ walk.stage \notin CleanStages
                                 /\ over = IF Extension THEN {} ELSE {"missing", "escaped"}
      /\ walk.stage = "fallback" => walk.stage \notin CleanStages /\ over = {}
      /\ walk.stage \in {"cleanIndex", "cleanFlat"} => walk.stage \in CleanStages
  BY DEF PassedOver, CleanStages
<1>. HIDE DEF over
<1>b. over = PassedOver(Order[i])
  BY DEF over
<1>1. CASE Extension /\ Rewritten
  <2>1. Order = <<"original", "target">>
    BY <1>1 DEF Order
  <2>2. Len(Order) = 2 /\ Order[1] = "original" /\ Order[2] = "target"
    BY <2>1
  <2>3. (i = 1 /\ walk.stage = "original") \/ (i = 2 /\ walk.stage = "target")
    BY <2>2
  <2>. QED
    BY <1>0, <1>a, <1>b, <1>1, <2>2, <2>3
<1>2. CASE Extension /\ ~Rewritten /\ ~CleanChosen
  <2>1. Order = <<"original">>
    BY <1>2 DEF Order
  <2>2. Len(Order) = 1 /\ Order[1] = "original"
    BY <2>1
  <2>3. (i = 1 /\ walk.stage = "original")
    BY <2>2
  <2>. QED
    BY <1>0, <1>a, <1>b, <1>2, <2>2, <2>3
<1>3. CASE Extension /\ ~Rewritten /\ CleanChosen /\ AtTop
  <2>1. Order = <<"original", "cleanIndex">>
    BY <1>3 DEF Order
  <2>2. Len(Order) = 2 /\ Order[1] = "original" /\ Order[2] = "cleanIndex"
    BY <2>1
  <2>3. (i = 1 /\ walk.stage = "original") \/ (i = 2 /\ walk.stage = "cleanIndex")
    BY <2>2
  <2>. QED
    BY <1>0, <1>a, <1>b, <1>3, <2>2, <2>3
<1>4. CASE Extension /\ ~Rewritten /\ CleanChosen /\ ~AtTop
  <2>1. Order = <<"original", "cleanIndex", "cleanFlat">>
    BY <1>4 DEF Order
  <2>2. Len(Order) = 3 /\ Order[1] = "original" /\ Order[2] = "cleanIndex" /\ Order[3] = "cleanFlat"
    BY <2>1
  <2>3. (i = 1 /\ walk.stage = "original") \/ (i = 2 /\ walk.stage = "cleanIndex") \/ (i = 3 /\ walk.stage = "cleanFlat")
    BY <2>2
  <2>. QED
    BY <1>0, <1>a, <1>b, <1>4, <2>2, <2>3
<1>5. CASE ~Extension /\ Rewritten
  <2>1. Order = <<"target", "fallback">>
    BY <1>5 DEF Order
  <2>2. Len(Order) = 2 /\ Order[1] = "target" /\ Order[2] = "fallback"
    BY <2>1
  <2>3. (i = 1 /\ walk.stage = "target") \/ (i = 2 /\ walk.stage = "fallback")
    BY <2>2
  <2>. QED
    BY <1>0, <1>a, <1>b, <1>5, <2>2, <2>3
<1>6. CASE ~Extension /\ ~Rewritten /\ ~CleanChosen
  <2>1. Order = <<"original">>
    BY <1>6 DEF Order
  <2>2. Len(Order) = 1 /\ Order[1] = "original"
    BY <2>1
  <2>3. (i = 1 /\ walk.stage = "original")
    BY <2>2
  <2>. QED
    BY <1>0, <1>a, <1>b, <1>6, <2>2, <2>3
<1>7. CASE ~Extension /\ ~Rewritten /\ CleanChosen /\ AtTop
  <2>1. Order = <<"cleanIndex", "original">>
    BY <1>7 DEF Order
  <2>2. Len(Order) = 2 /\ Order[1] = "cleanIndex" /\ Order[2] = "original"
    BY <2>1
  <2>3. (i = 1 /\ walk.stage = "cleanIndex") \/ (i = 2 /\ walk.stage = "original")
    BY <2>2
  <2>. QED
    BY <1>0, <1>a, <1>b, <1>7, <2>2, <2>3
<1>8. CASE ~Extension /\ ~Rewritten /\ CleanChosen /\ ~AtTop
  <2>1. Order = <<"cleanIndex", "cleanFlat", "original">>
    BY <1>8 DEF Order
  <2>2. Len(Order) = 3 /\ Order[1] = "cleanIndex" /\ Order[2] = "cleanFlat" /\ Order[3] = "original"
    BY <2>1
  <2>3. (i = 1 /\ walk.stage = "cleanIndex") \/ (i = 2 /\ walk.stage = "cleanFlat") \/ (i = 3 /\ walk.stage = "original")
    BY <2>2
  <2>. QED
    BY <1>0, <1>a, <1>b, <1>8, <2>2, <2>3
<1>. QED
  BY <1>1, <1>2, <1>3, <1>4, <1>5, <1>6, <1>7, <1>8

LEMMA MissAdvances ==
  ASSUME NEW i \in 1..Len(Order), walk.stage = Order[i],
         NEW code \in {400, 404}, Miss(code)
  PROVE  \/ i < Len(Order) /\ Goto(Order[i + 1])
         \/ i = Len(Order) /\ (Settle(Failed(404)) \/ Settle(Failed(code)))
         \/ code = 400 /\ Settle(Failed(400))
BY MissDecides
-----------------------------------------------------------------------------
(* The walk passes a candidate over for cause: it was no file, at some     *)
(* moment of this request.                                                 *)
Lasting(u) == Trim(u) \in Places /\ Last(u) # Empty /\ seen[Trim(u)] = {"file"}

Reached(i) == i \in 1..Len(Order) /\ \A j \in 1..(i - 1) : ~Lasting(UrlOf(Order[j]))

Walking == {"probe", "index", "canon", "read", "list", "lone"}

TreeInv ==
  /\ tree \in [Places -> Kinds]
  /\ seen \in [Places -> SUBSET Kinds]
  /\ \A p \in Places : tree[p] \in seen[p]

Handles(p, slash) ==
  /\ walk = [stage |-> walk.stage, place |-> walk.place, slash |-> walk.slash, found |-> walk.found]
  /\ pc \in {"probe", "index"} => walk.place = p
  /\ pc = "index" => (p \in Places => seen[p] # {"file"})
  /\ pc \in {"probe", "index", "canon"} => walk.slash = slash
  /\ pc \in {"canon", "read"} =>
       \/ walk.place = p
       \/ walk.place = IndexOf(p) /\ (p \in Places => seen[p] # {"file"})
  /\ pc = "canon" => walk.found \in {"file", "dir"} /\ (walk.found = "dir" => walk.place = p)
  /\ pc = "list" => walk.place = p
  /\ pc = "lone" => walk.place \in Places /\ Front(walk.place) = p

WalkInv ==
  pc \in Walking =>
    \E i \in 1..Len(Order) :
      /\ Reached(i)
      /\ walk.stage = Order[i]
      /\ Handles(Trim(UrlOf(Order[i])), Last(UrlOf(Order[i])) = Empty)

FileInv ==
  pc = "answered" /\ answer.body = "file" =>
    \E i \in 1..Len(Order) : Reached(i) /\ answer.place \in TriedPlaces(i)

OrderInv == TreeInv /\ WalkInv /\ FileInv

LEMMA PlacesNonEmpty == <<>> \notin Places
BY PlacesAssumption DEF IsUrl

LEMMA OrderInvImplies == OrderInv => PriorityRespected
<1>. SUFFICES ASSUME OrderInv, Walked, answer.body = "file",
                     NEW i \in DOMAIN Tries(cfg, Path),
                     Lasting(Tries(cfg, Path)[i].url)
              PROVE  \E j \in 1..i : answer.place \in TriedPlaces(j)
  BY DEF PriorityRespected, Lasting
<1>1. PICK j \in 1..Len(Order) : Reached(j) /\ answer.place \in TriedPlaces(j)
  BY DEF OrderInv, FileInv, Walked
<1>2. i \in 1..Len(Order) /\ Tries(cfg, Path)[i].url = UrlOf(Order[i]) /\ Len(Order) \in 1..3
  BY TriesInOrder DEF Tried, Try
<1>3. ~(i < j)
  BY <1>1, <1>2 DEF Reached
<1>. QED
  BY <1>1, <1>2, <1>3

LEMMA OrderInvInit == Init => OrderInv
<1>. SUFFICES ASSUME Init PROVE OrderInv
  OBVIOUS
<1>1. tree \in [Places -> Kinds]
  BY DEF Init, Trees
<1>2. TreeInv
  BY <1>1 DEF TreeInv, Init
<1>. QED
  BY <1>2 DEF OrderInv, WalkInv, FileInv, Walking, Init

(* The other programs add to what was seen, and take nothing away.         *)
LEMMA OrderInvChange ==
  ASSUME OrderInv, NEW p \in Places, NEW node \in Kinds, Change(p, node)
  PROVE  OrderInv'
<1>1. TreeInv'
  BY DEF OrderInv, TreeInv, Change
<1>2. Order' = Order /\ \A stage : UrlOf(stage)' = UrlOf(stage)
  BY DEF Change, Order, UrlOf, AtTop, Path, Extension, Rewritten, CleanChosen
<1>3. \A q \in Places : seen[q] \subseteq seen'[q] /\ seen[q] # {}
  BY DEF OrderInv, TreeInv, Change
<1>4. \A q \in Places : seen[q] # {"file"} => seen'[q] # {"file"}
  BY <1>3
<1>5. \A u : Lasting(u)' => Lasting(u)
  BY <1>4 DEF Lasting
<1>6. \A i : Reached(i) => Reached(i)'
  BY <1>2, <1>5 DEF Reached
<1>7. \A q, slash : Handles(q, slash) => Handles(q, slash)'
  BY <1>4 DEF Handles, Change
<1>8. \A i : TriedPlaces(i)' = TriedPlaces(i)
  BY DEF TriedPlaces, Path, Change
<1>. QED
  BY <1>1, <1>2, <1>6, <1>7, <1>8 DEF OrderInv, WalkInv, FileInv, Change

LEMMA HandlerKeeps ==
  ASSUME Untouched, TreeInv
  PROVE  /\ TreeInv'
         /\ Order' = Order
         /\ \A stage : UrlOf(stage)' = UrlOf(stage)
         /\ \A i : Reached(i)' = Reached(i)
         /\ \A i : TriedPlaces(i)' = TriedPlaces(i)
<1>1. TreeInv'
  BY DEF TreeInv, Untouched, history
<1>2. Order' = Order /\ \A stage : UrlOf(stage)' = UrlOf(stage)
  BY DEF Untouched, Order, UrlOf, AtTop, Path, Extension, Rewritten, CleanChosen
<1>3. \A u : Lasting(u)' = Lasting(u)
  BY DEF Lasting, Untouched, history
<1>4. \A i : Reached(i)' = Reached(i)
  BY <1>2, <1>3 DEF Reached
<1>5. \A i : TriedPlaces(i)' = TriedPlaces(i)
  BY DEF TriedPlaces, Path, Untouched
<1>. QED
  BY <1>1, <1>2, <1>4, <1>5

LEMMA SettleKeeps ==
  ASSUME OrderInv, Untouched, NEW a, Settle(a),
         a.body = "file" => \E i \in 1..Len(Order) : Reached(i) /\ a.place \in TriedPlaces(i)
  PROVE  OrderInv'
<1>1. TreeInv'
  BY HandlerKeeps DEF OrderInv
<1>2. WalkInv'
  BY DEF WalkInv, Walking, Settle
<1>3. FileInv'
  BY HandlerKeeps DEF OrderInv, FileInv, Settle
<1>. QED
  BY <1>1, <1>2, <1>3 DEF OrderInv

LEMMA FailKeeps ==
  ASSUME OrderInv, Untouched, NEW code, Settle(Failed(code))
  PROVE  OrderInv'
<1>1. Failed(code).body = "none"
  BY DEF Failed, NoAnswer
<1>. QED
  BY <1>1, SettleKeeps

LEMMA GotoKeeps ==
  ASSUME OrderInv, Untouched, NEW i \in 1..Len(Order), Reached(i), Goto(Order[i])
  PROVE  OrderInv'
<1>. DEFINE u == UrlOf(Order[i])
<1>1. TreeInv'
  BY HandlerKeeps DEF OrderInv
<1>2. pc' = "probe" /\ walk' = Candidate(Order[i], u)
  BY CandidateAtHand, TriesInOrder DEF Goto
<1>3. Handles(Trim(u), Last(u) = Empty)'
  BY <1>2, HandlerKeeps DEF Handles, Candidate, OrderInv
<1>4. walk'.stage = Order[i]
  BY <1>2 DEF Candidate
<1>5. WalkInv'
  BY <1>3, <1>4, HandlerKeeps DEF OrderInv, WalkInv
<1>6. FileInv'
  BY <1>2 DEF FileInv
<1>. QED
  BY <1>1, <1>5, <1>6 DEF OrderInv

LEMMA MissKeeps ==
  ASSUME OrderInv, Untouched, NEW i \in 1..Len(Order), Reached(i), walk.stage = Order[i],
         ~Lasting(UrlOf(Order[i])), NEW code \in {400, 404}, Miss(code)
  PROVE  OrderInv'
<1>1. CASE i < Len(Order) /\ Goto(Order[i + 1])
  <2>1. i + 1 \in 1..Len(Order) /\ Reached(i + 1)
    BY <1>1, TriesInOrder DEF Reached
  <2>. QED
    BY <1>1, <2>1, GotoKeeps
<1>2. CASE Settle(Failed(404)) \/ Settle(Failed(code)) \/ Settle(Failed(400))
  BY <1>2, FailKeeps
<1>. QED
  BY <1>1, <1>2, MissAdvances

LEMMA RouteKeeps == OrderInv /\ Route => OrderInv'
<1>. SUFFICES ASSUME OrderInv, Route PROVE OrderInv'
  OBVIOUS
<1>1. Untouched
  BY DEF Route
<1>2. CASE \E code \in {400, 405} : Settle(Failed(code))
  BY <1>1, <1>2, FailKeeps
<1>3. ASSUME NEW u, Settle(Redirect(u)) PROVE OrderInv'
  <2>1. Redirect(u).body = "none"
    BY DEF Redirect, NoAnswer
  <2>. QED
    BY <1>1, <1>3, <2>1, SettleKeeps
<1>4. CASE Goto(Order[1])
  <2>1. 1 \in 1..Len(Order) /\ Reached(1)
    BY TriesInOrder DEF Reached
  <2>. QED
    BY <1>1, <1>4, <2>1, GotoKeeps
<1>. QED
  BY <1>2, <1>3, <1>4, RouteStarts

(* What a step of the walk has to show when it goes on with the candidate. *)
LEMMA StepKeeps ==
  ASSUME OrderInv, Untouched, NEW i \in 1..Len(Order), Reached(i), walk'.stage = Order[i],
         pc' \in Walking,
         Handles(Trim(UrlOf(Order[i])), Last(UrlOf(Order[i])) = Empty)'
  PROVE  OrderInv'
<1>1. TreeInv'
  BY HandlerKeeps DEF OrderInv
<1>2. WalkInv'
  BY HandlerKeeps DEF OrderInv, WalkInv
<1>3. FileInv'
  BY DEF FileInv, Walking
<1>. QED
  BY <1>1, <1>2, <1>3 DEF OrderInv

LEMMA SeenNow ==
  ASSUME TreeInv, NEW p, p \in Places => At(tree, p) # "file"
  PROVE  p \in Places => seen[p] # {"file"}
<1>1. p \in Places => At(tree, p) = tree[p]
  BY PlacesNonEmpty DEF At
<1>. QED
  BY <1>1 DEF TreeInv

LEMMA ProbeKeeps == OrderInv /\ Probe => OrderInv'
<1>. SUFFICES ASSUME OrderInv, Probe PROVE OrderInv'
  OBVIOUS
<1>. DEFINE node == At(tree, walk.place)
<1>1. Untouched /\ pc = "probe" /\ pc \in Walking
  BY DEF Probe, Walking
<1>2. PICK i \in 1..Len(Order) :
        /\ Reached(i)
        /\ walk.stage = Order[i]
        /\ Handles(Trim(UrlOf(Order[i])), Last(UrlOf(Order[i])) = Empty)
  BY <1>1 DEF OrderInv, WalkInv
<1>. DEFINE u == UrlOf(Order[i])
<1>3. walk.place = Trim(u) /\ walk.slash = (Last(u) = Empty)
  BY <1>1, <1>2 DEF Handles
<1>4. CASE IsFile(node) /\ ~walk.slash /\ Found(walk.place, "file")
  <2>0. pc' = "canon" /\ walk' = [walk EXCEPT !.place = walk.place, !.found = "file"]
    BY <1>4 DEF Found
  <2>2. walk'.slash = walk.slash
    BY <1>2, <2>0 DEF Handles
  <2>3. Trim(u)' = Trim(u) /\ (Last(u) = Empty)' = (Last(u) = Empty)
    BY <1>1, HandlerKeeps DEF OrderInv
  <2>4. walk'.slash = (Last(u) = Empty)'
    BY <1>3, <2>2, <2>3, Zenon
  <2>5. walk' = [stage |-> walk'.stage, place |-> walk'.place, slash |-> walk'.slash,
                  found |-> walk'.found] /\ walk'.stage = Order[i] /\ walk'.place = Trim(u)
        /\ walk'.found = "file"
    BY <1>2, <1>3, <2>0 DEF Handles
  <2>1. pc' = "canon" /\ walk'.stage = Order[i]
        /\ Handles(Trim(u), Last(u) = Empty)'
    BY <2>0, <2>3, <2>4, <2>5 DEF Handles
  <2>. QED
    BY <1>1, <1>2, <2>1, StepKeeps DEF Walking
<1>5. CASE node = "dir" /\ pc' = "index" /\ UNCHANGED <<walk, answer>>
  <2>0. Trim(u) \in Places => seen[Trim(u)] # {"file"}
    BY <1>3, <1>5, SeenNow DEF OrderInv
  <2>1. walk'.stage = Order[i] /\ Handles(Trim(u), Last(u) = Empty)'
    BY <1>1, <1>2, <1>3, <1>5, <2>0, HandlerKeeps DEF Handles, OrderInv, Untouched, history
  <2>. QED
    BY <1>1, <1>2, <1>5, <2>1, StepKeeps DEF Walking
<1>6. CASE /\ node = "none" \/ (IsFile(node) /\ walk.slash) \/ (node = "dir" /\ CleanStage)
           /\ Miss(404)
  <2>1. ~Lasting(u)
    BY <1>3, <1>6, SeenNow DEF OrderInv, Lasting
  <2>. QED
    BY <1>1, <1>2, <1>6, <2>1, MissKeeps
<1>. QED
  BY <1>4, <1>5, <1>6 DEF Probe

LEMMA ProbeIndexKeeps == OrderInv /\ ProbeIndex => OrderInv'
<1>. SUFFICES ASSUME OrderInv, ProbeIndex PROVE OrderInv'
  OBVIOUS
<1>1. Untouched /\ pc = "index" /\ pc \in Walking
  BY DEF ProbeIndex, Walking
<1>2. PICK i \in 1..Len(Order) :
        /\ Reached(i)
        /\ walk.stage = Order[i]
        /\ Handles(Trim(UrlOf(Order[i])), Last(UrlOf(Order[i])) = Empty)
  BY <1>1 DEF OrderInv, WalkInv
<1>. DEFINE u == UrlOf(Order[i])
<1>3. walk.place = Trim(u) /\ walk.slash = (Last(u) = Empty)
      /\ (Trim(u) \in Places => seen[Trim(u)] # {"file"})
  BY <1>1, <1>2 DEF Handles
<1>4. Trim(u)' = Trim(u) /\ (Last(u) = Empty)' = (Last(u) = Empty) /\ seen' = seen
  BY <1>1, HandlerKeeps DEF OrderInv, Untouched, history
<1>5. \/ Found(IndexOf(Trim(u)), "file")
      \/ Found(Trim(u), "dir")
  BY <1>3 DEF ProbeIndex
<1>6. /\ pc' = "canon" /\ walk'.stage = Order[i]
      /\ \/ walk'.place = IndexOf(Trim(u)) /\ walk'.found = "file"
         \/ walk'.place = Trim(u) /\ walk'.found = "dir"
      /\ walk' = [stage |-> walk'.stage, place |-> walk'.place, slash |-> walk'.slash,
                  found |-> walk'.found]
      /\ walk'.slash = walk.slash
  BY <1>2, <1>5 DEF Found, Handles
<1>7. Handles(Trim(u), Last(u) = Empty)'
  <2>1. walk'.slash = (Last(u) = Empty)'
    BY <1>3, <1>4, <1>6, Zenon
  <2>. QED
    BY <1>3, <1>4, <1>6, <2>1 DEF Handles
<1>. QED
  BY <1>1, <1>2, <1>6, <1>7, StepKeeps DEF Walking

LEMMA CanonicalizeKeeps == OrderInv /\ Canonicalize => OrderInv'
<1>. SUFFICES ASSUME OrderInv, Canonicalize PROVE OrderInv'
  OBVIOUS
<1>. DEFINE node == At(tree, walk.place)
<1>1. Untouched /\ pc = "canon" /\ pc \in Walking
  BY DEF Canonicalize, Walking
<1>2. PICK i \in 1..Len(Order) :
        /\ Reached(i)
        /\ walk.stage = Order[i]
        /\ Handles(Trim(UrlOf(Order[i])), Last(UrlOf(Order[i])) = Empty)
  BY <1>1 DEF OrderInv, WalkInv
<1>. DEFINE u == UrlOf(Order[i])
<1>3. CASE /\ node \in {"none", "out"} \/ (walk.found = "dir" /\ walk.slash /\ IsFile(node))
           /\ Miss(404) \/ Miss(400)
  <2>1. ~Lasting(u)
    BY <1>1, <1>2, <1>3, SeenNow DEF OrderInv, Lasting, Handles
  <2>. QED
    BY <1>1, <1>2, <1>3, <2>1, MissKeeps
<1>4. CASE Settle(Failed(404))
  BY <1>1, <1>4, FailKeeps
<1>5. CASE walk.found = "file" /\ pc' = "read" /\ UNCHANGED <<walk, answer>>
  <2>1. walk'.stage = Order[i] /\ Handles(Trim(u), Last(u) = Empty)'
    BY <1>1, <1>2, <1>5, HandlerKeeps DEF Handles, OrderInv, Untouched, history
  <2>. QED
    BY <1>1, <1>2, <1>5, <2>1, StepKeeps DEF Walking
<1>6. CASE walk.found # "file" /\ pc' = "list" /\ UNCHANGED <<walk, answer>>
  <2>1. walk'.stage = Order[i] /\ Handles(Trim(u), Last(u) = Empty)'
    BY <1>1, <1>2, <1>6, HandlerKeeps DEF Handles, OrderInv, Untouched, history
  <2>. QED
    BY <1>1, <1>2, <1>6, <2>1, StepKeeps DEF Walking
<1>. QED
  BY <1>3, <1>4, <1>5, <1>6 DEF Canonicalize

LEMMA ReadKeeps == OrderInv /\ Read => OrderInv'
<1>. SUFFICES ASSUME OrderInv, Read PROVE OrderInv'
  OBVIOUS
<1>1. Untouched /\ pc \in {"read", "lone"} /\ pc \in Walking
  BY DEF Read, Walking
<1>2. PICK i \in 1..Len(Order) :
        /\ Reached(i)
        /\ walk.stage = Order[i]
        /\ Handles(Trim(UrlOf(Order[i])), Last(UrlOf(Order[i])) = Empty)
  BY <1>1 DEF OrderInv, WalkInv
<1>3. Tries(cfg, Path)[i].url = UrlOf(Order[i])
  BY TriesInOrder DEF Tried, Try
<1>4. walk.place \in TriedPlaces(i)
  BY <1>1, <1>2, <1>3 DEF Handles, TriedPlaces
<1>5. FileAt(walk.place).place = walk.place
  BY DEF FileAt, NoAnswer
<1>6. CASE Settle(FileAt(walk.place))
  BY <1>1, <1>2, <1>4, <1>5, <1>6, SettleKeeps
<1>7. CASE Settle(Failed(404))
  BY <1>1, <1>7, FailKeeps
<1>. QED
  BY <1>6, <1>7 DEF Read

LEMMA ListKeeps == OrderInv /\ List => OrderInv'
<1>. SUFFICES ASSUME OrderInv, List PROVE OrderInv'
  OBVIOUS
<1>1. Untouched /\ pc = "list" /\ pc \in Walking
  BY DEF List, Walking
<1>2. PICK i \in 1..Len(Order) :
        /\ Reached(i)
        /\ walk.stage = Order[i]
        /\ Handles(Trim(UrlOf(Order[i])), Last(UrlOf(Order[i])) = Empty)
  BY <1>1 DEF OrderInv, WalkInv
<1>. DEFINE u == UrlOf(Order[i])
<1>3. walk.place = Trim(u)
  BY <1>1, <1>2 DEF Handles
<1>4. CASE Settle(Failed(404))
  BY <1>1, <1>4, FailKeeps
<1>5. CASE Settle(ListingOf(walk.place))
  <2>1. ListingOf(walk.place).body = "listing"
    BY DEF ListingOf, NoAnswer
  <2>. QED
    BY <1>1, <1>5, <2>1, SettleKeeps
<1>6. ASSUME NEW q \in Children(tree, walk.place),
             pc' = "lone", walk' = [walk EXCEPT !.place = q]
      PROVE  OrderInv'
  <2>1. q \in Places /\ Front(q) = Trim(u)
    BY <1>3, <1>6 DEF Children
  <2>2. walk'.stage = Order[i] /\ Handles(Trim(u), Last(u) = Empty)'
    BY <1>1, <1>2, <1>6, <2>1, HandlerKeeps DEF Handles, OrderInv
  <2>. QED
    BY <1>1, <1>2, <1>6, <2>2, StepKeeps DEF Walking
<1>. QED
  BY <1>4, <1>5, <1>6 DEF List

LEMMA AskKeeps ==
  ASSUME OrderInv, NEW rq, NEW visited, Ask(rq, visited)
  PROVE  OrderInv'
<1>1. TreeInv'
  BY DEF OrderInv, TreeInv, Ask, Forget
<1>. QED
  BY <1>1 DEF OrderInv, WalkInv, FileInv, Walking, Ask

LEMMA OrderInvNext == OrderInv /\ [Next]_vars => OrderInv'
<1>. SUFFICES ASSUME OrderInv, [Next]_vars PROVE OrderInv'
  OBVIOUS
<1>1. ASSUME NEW p \in Places, Delete(p) PROVE OrderInv'
  BY <1>1, OrderInvChange DEF Delete, Kinds
<1>2. ASSUME NEW p \in Places, NEW node \in Kinds, Create(p, node) PROVE OrderInv'
  BY <1>2, OrderInvChange DEF Create
<1>3. ASSUME NEW rq \in Starts, Open(rq) PROVE OrderInv'
  BY <1>3, AskKeeps DEF Open
<1>4. CASE Follow
  BY <1>4, AskKeeps DEF Follow
<1>5. CASE Close
  <2>1. TreeInv'
    BY <1>5 DEF OrderInv, TreeInv, Close, Forget
  <2>. QED
    BY <1>5, <2>1 DEF OrderInv, WalkInv, FileInv, Walking, Close
<1>6. CASE Handler
  BY <1>6, RouteKeeps, ProbeKeeps, ProbeIndexKeeps, CanonicalizeKeeps, ReadKeeps, ListKeeps DEF Handler
<1>7. CASE UNCHANGED vars
  <2>1. Untouched /\ UNCHANGED <<pc, walk, answer>>
    BY <1>7 DEF vars, Untouched, history
  <2>2. \A p, slash : Handles(p, slash)' = Handles(p, slash)
    BY <2>1 DEF Handles, Untouched, history
  <2>. QED
    BY <2>1, <2>2, HandlerKeeps DEF OrderInv, WalkInv, FileInv
<1>. QED
  BY <1>1, <1>2, <1>3, <1>4, <1>5, <1>6, <1>7 DEF Next

(* PRIORITY KEPT.  Whatever other programs do to the tree between two      *)
(* looks of the handler, a file that was there all the time is not passed  *)
(* over for the file of a later candidate.                                 *)
THEOREM PriorityKept == Spec => []PriorityRespected
<1>1. Init => OrderInv
  BY OrderInvInit
<1>2. OrderInv /\ [Next]_vars => OrderInv'
  BY OrderInvNext
<1>3. OrderInv => PriorityRespected
  BY OrderInvImplies
<1>. QED
  BY <1>1, <1>2, <1>3, PTL DEF Spec
-----------------------------------------------------------------------------
(* A request that had a file to serve has one still, as long as nothing is *)
(* removed: Before is the tree it was asked on.                            *)
Before == [p \in Places |-> IF "none" \in seen[p] THEN "none" ELSE tree[p]]

OutcomeBefore(i) == Outcome(Before, UrlOf(Order[i]))

Ready(i) == OutcomeBefore(i) \in {"file", "index"} \ PassedOver(Order[i])

OnTime(k) ==
  \E i \in k..Len(Order) :
    Ready(i) /\ \A j \in k..(i - 1) : OutcomeBefore(j) \in PassedOver(Order[j])

Quiet == promised /\ ~shrunk /\ (cfg.listing \/ ~DirectoryAdded)

There == At(tree, walk.place)

Sound(i) ==
  /\ pc = "index" => There = "dir" /\ Order[i] \notin CleanStages
  /\ pc = "canon" => \/ walk.found = "dir" /\ There = "dir" /\ cfg.listing
                     \/ walk.found = "file" /\ IsFile(There) /\ (Ready(i) => There = "file")
  /\ pc \in {"read", "lone"} => IsFile(There)
  /\ pc = "list" => There = "dir" /\ cfg.listing

GrownInv == ~shrunk => \A p \in Places : seen[p] \subseteq {"none", tree[p]}

PromiseInv ==
  /\ pc # "idle" /\ ~shrunk /\ promised => PromisesFile(cfg, Path, Before)
  /\ pc \in Walking /\ Quiet =>
       \A i \in 1..Len(Order) : walk.stage = Order[i] => OnTime(i) /\ Sound(i)
  /\ pc = "answered" /\ Quiet => answer.status # 404

AdditionInv == OrderInv /\ GrownInv /\ PromiseInv

LEMMA AdditionInvImplies == AdditionInv => AdditionsNeverHide
BY DEF AdditionInv, PromiseInv, AdditionsNeverHide, Walked, Quiet

LEMMA AdditionInvInit == Init => AdditionInv
<1>. SUFFICES ASSUME Init PROVE AdditionInv
  OBVIOUS
<1>1. GrownInv
  BY DEF Init, GrownInv
<1>2. PromiseInv
  BY DEF Init, PromiseInv, Walking
<1>. QED
  BY <1>1, <1>2, OrderInvInit DEF AdditionInv

LEMMA OrderDistinct ==
  \A i, j \in 1..Len(Order) : Order[i] = Order[j] => i = j
BY DEF Order

(* What the outcomes of one moment say of the tree.                        *)
LEMMA Outcomes ==
  ASSUME NEW t \in [Places -> Kinds], NEW u
  PROVE  /\ Outcome(t, u) = "file" => At(t, Trim(u)) = "file" /\ Last(u) # Empty
         /\ Outcome(t, u) = "index" => At(t, Trim(u)) = "dir" /\ At(t, IndexOf(Trim(u))) = "file"
         /\ At(t, Trim(u)) = "dir" /\ ~IsFile(At(t, IndexOf(Trim(u)))) => Outcome(t, u) = "dir"
<1>. DEFINE node == At(t, Trim(u))
            deep == At(t, IndexOf(Trim(u)))
<1>1. node \in Kinds /\ deep \in Kinds
  BY DEF At, Kinds
<1>2. Outcome(t, u) = CASE node = "none" \/ (IsFile(node) /\ Last(u) = Empty) -> "missing"
                        [] node = "out"  /\ Last(u) # Empty -> "escaped"
                        [] node = "file" /\ Last(u) # Empty -> "file"
                        [] node = "dir" /\ deep = "file" -> "index"
                        [] node = "dir" /\ deep = "out"  -> "escaped"
                        [] node = "dir" /\ ~IsFile(deep) -> "dir"
  BY Zenon DEF Outcome
<1>. HIDE DEF node, deep
<1>3. /\ Outcome(t, u) = "file" => node = "file" /\ Last(u) # Empty
      /\ Outcome(t, u) = "index" => node = "dir" /\ deep = "file"
      /\ node = "dir" /\ ~IsFile(deep) => Outcome(t, u) = "dir"
  BY <1>1, <1>2 DEF IsFile, Kinds
<1>. QED
  BY <1>3 DEF node, deep

(* What was there before is there still.                                   *)
LEMMA Remains ==
  ASSUME TreeInv, GrownInv, ~shrunk, NEW p
  PROVE  /\ Before \in [Places -> Kinds]
         /\ At(Before, p) # "none" => At(tree, p) = At(Before, p)
         /\ At(tree, p) = "dir" /\ ~DirectoryAdded => At(Before, p) = "dir"
<1>1. Before \in [Places -> Kinds]
  BY DEF Before, TreeInv, Kinds
<1>2. CASE p \in Places
  <2>1. At(tree, p) = tree[p] /\ At(Before, p) = Before[p]
    BY <1>2, PlacesNonEmpty DEF At
  <2>2. Before[p] = IF "none" \in seen[p] THEN "none" ELSE tree[p]
    BY <1>2 DEF Before
  <2>3. tree[p] \in seen[p]
    BY <1>2 DEF TreeInv
  <2>. QED
    BY <1>1, <1>2, <2>1, <2>2, <2>3 DEF DirectoryAdded
<1>3. CASE p \notin Places
  BY <1>1, <1>3 DEF At
<1>. QED
  BY <1>2, <1>3

(* The promise of a request is the order of its tries, on time at the first. *)
LEMMA PromiseOnTime == PromisesFile(cfg, Path, Before) => OnTime(1)
<1>. SUFFICES ASSUME PromisesFile(cfg, Path, Before) PROVE OnTime(1)
  OBVIOUS
<1>. DEFINE tries == Tries(cfg, Path)
<1>1. PICK i \in DOMAIN tries :
        /\ Outcome(Before, tries[i].url) \in {"file", "index"} \ tries[i].passedOver
        /\ \A j \in 1..(i - 1) : Outcome(Before, tries[j].url) \in tries[j].passedOver
  BY DEF PromisesFile
<1>2. i \in 1..Len(Order) /\ Len(Order) \in 1..3
  BY <1>1, TriesInOrder
<1>3. \A j \in 1..Len(Order) : /\ tries[j].url = UrlOf(Order[j])
                               /\ tries[j].passedOver = PassedOver(Order[j])
  BY TriesInOrder DEF Tried, Try
<1>4. Ready(i)
  BY <1>1, <1>2, <1>3 DEF Ready, OutcomeBefore
<1>5. \A j \in 1..(i - 1) : OutcomeBefore(j) \in PassedOver(Order[j])
  BY <1>1, <1>2, <1>3 DEF OutcomeBefore
<1>. QED
  BY <1>2, <1>4, <1>5 DEF OnTime

LEMMA OnTimeAfter ==
  ASSUME NEW k \in 1..Len(Order), OnTime(k), ~Ready(k)
  PROVE  k < Len(Order) /\ OnTime(k + 1) /\ OutcomeBefore(k) \in PassedOver(Order[k])
<1>0. Len(Order) \in 1..3
  BY TriesInOrder
<1>1. PICK i \in k..Len(Order) :
        Ready(i) /\ \A j \in k..(i - 1) : OutcomeBefore(j) \in PassedOver(Order[j])
  BY DEF OnTime
<1>2. i \in (k + 1)..Len(Order) /\ k \in k..(i - 1)
  BY <1>0, <1>1
<1>3. \A j \in (k + 1)..(i - 1) : OutcomeBefore(j) \in PassedOver(Order[j])
  BY <1>0, <1>1, <1>2
<1>. QED
  BY <1>0, <1>1, <1>2, <1>3 DEF OnTime

(* A step of the handler disturbs none of it.                              *)
LEMMA HandlerIsQuiet ==
  ASSUME Untouched, TreeInv
  PROVE  /\ Before' = Before
         /\ Quiet' = Quiet
         /\ \A k : Ready(k)' = Ready(k)
         /\ \A k : OnTime(k)' = OnTime(k)
         /\ \A p : At(tree, p)' = At(tree, p)
         /\ GrownInv => GrownInv'
         /\ PromisesFile(cfg, Path, Before)' = PromisesFile(cfg, Path, Before)
<1>1. Before' = Before
  BY DEF Before, Untouched, history
<1>2. Quiet' = Quiet
  BY DEF Quiet, DirectoryAdded, Untouched, history
<1>4. \A stage : PassedOver(stage)' = PassedOver(stage)
  BY DEF PassedOver, Extension, Path, Untouched
<1>5. \A k : OutcomeBefore(k)' = OutcomeBefore(k)
  BY <1>1, HandlerKeeps DEF OutcomeBefore, Outcome, At
<1>6. \A k : Ready(k)' = Ready(k)
  BY <1>4, <1>5, HandlerKeeps DEF Ready
<1>7. \A k : OnTime(k)' = OnTime(k)
  BY <1>4, <1>5, <1>6, HandlerKeeps DEF OnTime
<1>8. \A p : At(tree, p)' = At(tree, p)
  BY DEF At, Untouched
<1>9. GrownInv => GrownInv'
  BY DEF GrownInv, Untouched, history
<1>10. PromisesFile(cfg, Path, Before)' = PromisesFile(cfg, Path, Before)
  <2>1. cfg' = cfg /\ Path' = Path
    BY DEF Untouched, Path
  <2>. QED
    BY <1>1, <2>1
<1>. QED
  BY <1>1, <1>2, <1>6, <1>7, <1>8, <1>9, <1>10

LEMMA SettleIsPunctual ==
  ASSUME AdditionInv, Untouched, pc # "idle", NEW a, Settle(a), Quiet => a.status # 404
  PROVE  PromiseInv'
<1>1. (pc # "idle" /\ ~shrunk /\ promised => PromisesFile(cfg, Path, Before))'
  BY HandlerIsQuiet DEF AdditionInv, OrderInv, PromiseInv, Untouched, history
<1>2. pc' = "answered" /\ answer' = a /\ Quiet' = Quiet
  BY HandlerIsQuiet DEF AdditionInv, OrderInv, Settle
<1>. QED
  BY <1>1, <1>2 DEF PromiseInv, Walking

LEMMA StepIsPunctual ==
  ASSUME AdditionInv, Untouched, pc # "idle", NEW i \in 1..Len(Order), walk'.stage = Order[i],
         pc' \in Walking, Quiet => OnTime(i) /\ Sound(i)'
  PROVE  PromiseInv'
<1>1. (pc # "idle" /\ ~shrunk /\ promised => PromisesFile(cfg, Path, Before))'
  BY HandlerIsQuiet DEF AdditionInv, OrderInv, PromiseInv, Untouched, history
<1>2. Order' = Order /\ Quiet' = Quiet /\ \A k : OnTime(k)' = OnTime(k)
  BY HandlerIsQuiet, HandlerKeeps DEF AdditionInv, OrderInv
<1>3. \A k \in 1..Len(Order) : walk'.stage = Order[k] => k = i
  BY OrderDistinct
<1>4. (pc \in Walking /\ Quiet =>
         \A k \in 1..Len(Order) : walk.stage = Order[k] => OnTime(k) /\ Sound(k))'
  BY <1>2, <1>3
<1>5. pc' # "answered"
  BY DEF Walking
<1>. QED
  BY <1>1, <1>4, <1>5 DEF PromiseInv

LEMMA GotoIsPunctual ==
  ASSUME AdditionInv, Untouched, pc # "idle", NEW i \in 1..Len(Order), Goto(Order[i]),
         Quiet => OnTime(i)
  PROVE  PromiseInv'
<1>1. pc' = "probe" /\ walk'.stage = Order[i]
  BY CandidateAtHand, TriesInOrder DEF Goto, Candidate
<1>2. Sound(i)'
  BY <1>1 DEF Sound
<1>. QED
  BY <1>1, <1>2, StepIsPunctual DEF Walking

LEMMA MissIsPunctual ==
  ASSUME AdditionInv, Untouched, pc # "idle", NEW i \in 1..Len(Order), walk.stage = Order[i],
         Quiet => OnTime(i) /\ ~Ready(i), NEW code \in {400, 404}, Miss(code)
  PROVE  PromiseInv'
<1>0. /\ Failed(400).status = 400
      /\ Len(Order) \in 1..3
  BY TriesInOrder DEF Failed, NoAnswer
<1>1. CASE i < Len(Order) /\ Goto(Order[i + 1])
  <2>1. i + 1 \in 1..Len(Order) /\ (Quiet => OnTime(i + 1))
    BY <1>0, <1>1, OnTimeAfter
  <2>. QED
    BY <1>1, <2>1, GotoIsPunctual
<1>2. CASE i = Len(Order) /\ (Settle(Failed(404)) \/ Settle(Failed(code)))
  <2>1. ~Quiet
    BY <1>0, <1>2, OnTimeAfter
  <2>. QED
    BY <1>2, <2>1, SettleIsPunctual
<1>3. CASE Settle(Failed(400))
  BY <1>0, <1>3, SettleIsPunctual
<1>. QED
  BY <1>1, <1>2, <1>3, MissAdvances

(* Where the handler stands, and what that is worth.                       *)
LEMMA AtHand ==
  ASSUME AdditionInv, pc \in Walking
  PROVE  \E i \in 1..Len(Order) :
           /\ walk.stage = Order[i]
           /\ Handles(Trim(UrlOf(Order[i])), Last(UrlOf(Order[i])) = Empty)
           /\ Quiet => OnTime(i) /\ Sound(i)
BY DEF AdditionInv, OrderInv, WalkInv, PromiseInv

LEMMA ReadyMeans ==
  ASSUME AdditionInv, Quiet, NEW i \in 1..Len(Order), Ready(i)
  PROVE  LET u == UrlOf(Order[i])
         IN  \/ At(tree, Trim(u)) = "file" /\ Last(u) # Empty
             \/ /\ At(tree, Trim(u)) = "dir" /\ At(tree, IndexOf(Trim(u))) = "file"
                /\ Order[i] \notin CleanStages
<1>. DEFINE u == UrlOf(Order[i])
<1>1. OutcomeBefore(i) = "file" \/ (OutcomeBefore(i) = "index" /\ Order[i] \notin CleanStages)
  BY DEF Ready, PassedOver
<1>2. Before \in [Places -> Kinds] /\ \A p : At(Before, p) # "none" => At(tree, p) = At(Before, p)
  BY Remains DEF AdditionInv, OrderInv, Quiet
<1>. QED
  BY <1>1, <1>2, Outcomes DEF OutcomeBefore

LEMMA RouteIsPunctual == AdditionInv /\ Route => PromiseInv'
<1>. SUFFICES ASSUME AdditionInv, Route PROVE PromiseInv'
  OBVIOUS
<1>1. Untouched /\ pc = "asked" /\ pc # "idle"
  BY DEF Route
<1>2. ASSUME NEW code \in {400, 405}, Settle(Failed(code)) PROVE PromiseInv'
  <2>1. Failed(code).status # 404
    BY <1>2 DEF Failed, NoAnswer
  <2>. QED
    BY <1>1, <1>2, <2>1, SettleIsPunctual
<1>3. ASSUME NEW u, Settle(Redirect(u)) PROVE PromiseInv'
  <2>1. Redirect(u).status # 404
    BY DEF Redirect, NoAnswer
  <2>. QED
    BY <1>1, <1>3, <2>1, SettleIsPunctual
<1>4. CASE Goto(Order[1])
  <2>1. Quiet => OnTime(1)
    BY <1>1, PromiseOnTime DEF AdditionInv, PromiseInv, Quiet
  <2>2. 1 \in 1..Len(Order)
    BY TriesInOrder
  <2>. QED
    BY <1>1, <1>4, <2>1, <2>2, GotoIsPunctual
<1>. QED
  BY <1>2, <1>3, <1>4, RouteStarts

LEMMA ProbeIsPunctual == AdditionInv /\ Probe => PromiseInv'
<1>. SUFFICES ASSUME AdditionInv, Probe PROVE PromiseInv'
  OBVIOUS
<1>. DEFINE node == At(tree, walk.place)
<1>1. Untouched /\ pc = "probe" /\ pc \in Walking /\ pc # "idle"
  BY DEF Probe, Walking
<1>2. PICK i \in 1..Len(Order) :
        /\ walk.stage = Order[i]
        /\ Handles(Trim(UrlOf(Order[i])), Last(UrlOf(Order[i])) = Empty)
        /\ Quiet => OnTime(i) /\ Sound(i)
  BY <1>1, AtHand
<1>. DEFINE u == UrlOf(Order[i])
<1>3. walk.place = Trim(u) /\ walk.slash = (Last(u) = Empty)
  BY <1>1, <1>2 DEF Handles
<1>4. CleanStage <=> Order[i] \in CleanStages
  BY <1>2 DEF CleanStage, CleanStages
<1>5. CASE IsFile(node) /\ ~walk.slash /\ Found(walk.place, "file")
  <2>1. pc' = "canon" /\ walk'.stage = Order[i] /\ walk'.found = "file" /\ walk'.place = walk.place
    BY <1>2, <1>5 DEF Found, Handles
  <2>2. There' = node /\ (Quiet => (Ready(i)' = Ready(i)))
    BY <1>1, <2>1, HandlerIsQuiet DEF There, AdditionInv, OrderInv, At, Untouched
  <2>3. Quiet /\ Ready(i) => node = "file"
    BY <1>3, <1>5, ReadyMeans DEF IsFile
  <2>4. Quiet => Sound(i)'
    BY <1>5, <2>1, <2>2, <2>3 DEF Sound
  <2>. QED
    BY <1>1, <1>2, <2>1, <2>4, StepIsPunctual DEF Walking
<1>6. CASE node = "dir" /\ ~CleanStage /\ pc' = "index" /\ UNCHANGED <<walk, answer>>
  <2>1. walk'.stage = Order[i] /\ There' = "dir" /\ Order' = Order
    BY <1>1, <1>2, <1>6, HandlerKeeps DEF There, AdditionInv, OrderInv, At, Untouched
  <2>2. Sound(i)'
    BY <1>4, <1>6, <2>1 DEF Sound, CleanStages
  <2>. QED
    BY <1>1, <1>2, <1>6, <2>1, <2>2, StepIsPunctual DEF Walking
<1>7. CASE /\ node = "none" \/ (IsFile(node) /\ walk.slash) \/ (node = "dir" /\ CleanStage)
           /\ Miss(404)
  <2>1. Quiet => ~Ready(i)
    BY <1>3, <1>4, <1>7, ReadyMeans DEF IsFile
  <2>. QED
    BY <1>1, <1>2, <1>7, <2>1, MissIsPunctual
<1>. QED
  BY <1>5, <1>6, <1>7 DEF Probe

LEMMA ProbeIndexIsPunctual == AdditionInv /\ ProbeIndex => PromiseInv'
<1>. SUFFICES ASSUME AdditionInv, ProbeIndex PROVE PromiseInv'
  OBVIOUS
<1>1. Untouched /\ pc = "index" /\ pc \in Walking /\ pc # "idle"
  BY DEF ProbeIndex, Walking
<1>2. PICK i \in 1..Len(Order) :
        /\ walk.stage = Order[i]
        /\ Handles(Trim(UrlOf(Order[i])), Last(UrlOf(Order[i])) = Empty)
        /\ Quiet => OnTime(i) /\ Sound(i)
  BY <1>1, AtHand
<1>. DEFINE u == UrlOf(Order[i])
<1>. DEFINE deep == At(tree, IndexOf(Trim(u)))
<1>3. walk.place = Trim(u) /\ (Quiet => At(tree, Trim(u)) = "dir" /\ Order[i] \notin CleanStages)
  BY <1>1, <1>2 DEF Handles, Sound, There
<1>4. CASE IsFile(deep) /\ Found(IndexOf(Trim(u)), "file")
  <2>1. /\ pc' = "canon" /\ walk'.stage = Order[i] /\ walk'.found = "file"
        /\ walk'.place = IndexOf(Trim(u))
    BY <1>2, <1>4 DEF Found, Handles
  <2>2. There' = deep /\ Ready(i)' = Ready(i)
    BY <1>1, <2>1, HandlerIsQuiet DEF There, AdditionInv, OrderInv, At, Untouched
  <2>3. Quiet /\ Ready(i) => deep = "file"
    BY <1>3, ReadyMeans
  <2>4. Quiet => Sound(i)'
    BY <1>4, <2>1, <2>2, <2>3 DEF Sound
  <2>. QED
    BY <1>1, <1>2, <2>1, <2>4, StepIsPunctual DEF Walking
<1>5. CASE ~IsFile(deep) /\ Found(Trim(u), "dir")
  <2>1. /\ pc' = "canon" /\ walk'.stage = Order[i] /\ walk'.found = "dir"
        /\ walk'.place = Trim(u) /\ cfg' = cfg
    BY <1>1, <1>2, <1>5 DEF Found, Handles, Untouched
  <2>2. Quiet => There' = "dir"
    BY <1>1, <1>3, <2>1 DEF There, At, Untouched
  <2>3. ASSUME Quiet PROVE cfg.listing
    <3>. SUFFICES ASSUME ~DirectoryAdded PROVE FALSE
      BY <2>3 DEF Quiet
    <3>1. /\ Before \in [Places -> Kinds] /\ At(Before, Trim(u)) = "dir"
          /\ At(Before, IndexOf(Trim(u))) # "none" => deep = At(Before, IndexOf(Trim(u)))
      BY <1>3, <2>3, Remains DEF AdditionInv, OrderInv, Quiet
    <3>2. ~IsFile(At(Before, IndexOf(Trim(u))))
      BY <1>5, <3>1 DEF IsFile
    <3>3. OutcomeBefore(i) = "dir"
      BY <3>1, <3>2, Outcomes DEF OutcomeBefore
    <3>4. ~Ready(i) /\ "dir" \notin PassedOver(Order[i])
      BY <1>3, <2>3, <3>3 DEF Ready, PassedOver
    <3>. QED
      BY <1>2, <2>3, <3>3, <3>4, OnTimeAfter
  <2>4. Quiet => Sound(i)'
    BY <2>1, <2>2, <2>3 DEF Sound
  <2>. QED
    BY <1>1, <1>2, <2>1, <2>4, StepIsPunctual DEF Walking
<1>. QED
  BY <1>3, <1>4, <1>5 DEF ProbeIndex

LEMMA CanonicalizeIsPunctual == AdditionInv /\ Canonicalize => PromiseInv'
<1>. SUFFICES ASSUME AdditionInv, Canonicalize PROVE PromiseInv'
  OBVIOUS
<1>. DEFINE node == At(tree, walk.place)
<1>1. Untouched /\ pc = "canon" /\ pc \in Walking /\ pc # "idle"
  BY DEF Canonicalize, Walking
<1>2. PICK i \in 1..Len(Order) :
        /\ walk.stage = Order[i]
        /\ Handles(Trim(UrlOf(Order[i])), Last(UrlOf(Order[i])) = Empty)
        /\ Quiet => OnTime(i) /\ Sound(i)
  BY <1>1, AtHand
<1>. DEFINE u == UrlOf(Order[i])
<1>3. Quiet => \/ walk.found = "dir" /\ node = "dir" /\ cfg.listing
               \/ walk.found = "file" /\ IsFile(node) /\ (Ready(i) => node = "file")
  BY <1>1, <1>2 DEF Sound, There
<1>4. CASE /\ node \in {"none", "out"} \/ (walk.found = "dir" /\ walk.slash /\ IsFile(node))
           /\ Miss(404) \/ Miss(400)
  <2>1. Quiet => ~Ready(i)
    BY <1>3, <1>4 DEF IsFile
  <2>. QED
    BY <1>1, <1>2, <1>4, <2>1, MissIsPunctual
<1>5. CASE walk.found = "file" /\ pc' = "read" /\ UNCHANGED <<walk, answer>>
  <2>1. walk'.stage = Order[i] /\ There' = node
    BY <1>1, <1>2, <1>5 DEF There, At, Untouched
  <2>2. Quiet => Sound(i)'
    BY <1>3, <1>5, <2>1 DEF Sound
  <2>. QED
    BY <1>1, <1>2, <1>5, <2>1, <2>2, StepIsPunctual DEF Walking
<1>6. CASE walk.found # "file" /\ pc' = "list" /\ UNCHANGED <<walk, answer>>
  <2>1. walk'.stage = Order[i] /\ There' = node /\ cfg' = cfg
    BY <1>1, <1>2, <1>6 DEF There, At, Untouched
  <2>2. Quiet => Sound(i)'
    BY <1>3, <1>6, <2>1 DEF Sound
  <2>. QED
    BY <1>1, <1>2, <1>6, <2>1, <2>2, StepIsPunctual DEF Walking
<1>7. CASE walk.found # "file" /\ ~(cfg.listing \/ cfg.single) /\ Settle(Failed(404))
  <2>1. ~Quiet
    BY <1>3, <1>7
  <2>. QED
    BY <1>1, <1>7, <2>1, SettleIsPunctual
<1>. QED
  BY <1>4, <1>5, <1>6, <1>7 DEF Canonicalize

LEMMA ReadIsPunctual == AdditionInv /\ Read => PromiseInv'
<1>. SUFFICES ASSUME AdditionInv, Read PROVE PromiseInv'
  OBVIOUS
<1>1. Untouched /\ pc \in {"read", "lone"} /\ pc \in Walking /\ pc # "idle"
  BY DEF Read, Walking
<1>2. Quiet => IsFile(At(tree, walk.place))
  BY <1>1, AtHand DEF Sound, There
<1>3. CASE Settle(FileAt(walk.place))
  <2>1. FileAt(walk.place).status # 404
    BY DEF FileAt, NoAnswer
  <2>. QED
    BY <1>1, <1>3, <2>1, SettleIsPunctual
<1>4. CASE ~IsFile(At(tree, walk.place)) /\ Settle(Failed(404))
  BY <1>1, <1>2, <1>4, SettleIsPunctual
<1>. QED
  BY <1>3, <1>4 DEF Read

LEMMA ListIsPunctual == AdditionInv /\ List => PromiseInv'
<1>. SUFFICES ASSUME AdditionInv, List PROVE PromiseInv'
  OBVIOUS
<1>1. Untouched /\ pc = "list" /\ pc \in Walking /\ pc # "idle"
  BY DEF List, Walking
<1>2. PICK i \in 1..Len(Order) :
        /\ walk.stage = Order[i]
        /\ Handles(Trim(UrlOf(Order[i])), Last(UrlOf(Order[i])) = Empty)
        /\ Quiet => OnTime(i) /\ Sound(i)
  BY <1>1, AtHand
<1>3. Quiet => At(tree, walk.place) = "dir" /\ cfg.listing
  BY <1>1, <1>2 DEF Sound, There
<1>4. CASE Settle(Failed(404)) /\ (At(tree, walk.place) # "dir" \/ ~cfg.listing)
  BY <1>1, <1>3, <1>4, SettleIsPunctual
<1>5. CASE Settle(ListingOf(walk.place))
  <2>1. ListingOf(walk.place).status # 404
    BY DEF ListingOf, NoAnswer
  <2>. QED
    BY <1>1, <1>5, <2>1, SettleIsPunctual
<1>6. ASSUME NEW q \in Children(tree, walk.place), tree[q] # "dir",
             pc' = "lone", walk' = [walk EXCEPT !.place = q]
      PROVE  PromiseInv'
  <2>1. walk'.stage = Order[i] /\ walk'.place = q
    BY <1>2, <1>6 DEF Handles
  <2>2. q \in Places /\ tree[q] \in Kinds \ {"none", "dir"}
    BY <1>6 DEF Children, AdditionInv, OrderInv, TreeInv
  <2>3. IsFile(There)'
    BY <1>1, <2>1, <2>2, PlacesNonEmpty DEF There, At, IsFile, Kinds, Untouched
  <2>4. Sound(i)'
    BY <1>6, <2>3 DEF Sound
  <2>. QED
    BY <1>1, <1>2, <1>6, <2>1, <2>4, StepIsPunctual DEF Walking
<1>. QED
  BY <1>4, <1>5, <1>6 DEF List

LEMMA AskPromises ==
  ASSUME AdditionInv, NEW rq, NEW visited, Ask(rq, visited)
  PROVE  GrownInv' /\ PromiseInv'
<1>1. tree \in [Places -> Kinds] /\ tree' = tree /\ cfg' = cfg /\ seen' = [p \in Places |-> {tree[p]}]
  BY DEF AdditionInv, OrderInv, TreeInv, Ask, Forget
<1>2. GrownInv'
  BY <1>1 DEF GrownInv
<1>3. Before' = tree
  BY <1>1 DEF Before
<1>4. Path' = collapse_slashes(rq.url)
  BY DEF Path, Ask
<1>5. promised' = PromisesFile(cfg, collapse_slashes(rq.url), tree)
  BY DEF Ask, Forget
<1>6. PromisesFile(cfg, Path, Before)' = PromisesFile(cfg, collapse_slashes(rq.url), tree)
  BY <1>1, <1>3, <1>4
<1>7. pc' = "asked"
  BY DEF Ask
<1>. QED
  BY <1>2, <1>5, <1>6, <1>7 DEF PromiseInv, Walking

(* Additions keep the tree of before.                                      *)
LEMMA CreateKeeps ==
  ASSUME AdditionInv, NEW p \in Places, NEW node \in Kinds, Create(p, node)
  PROVE  GrownInv' /\ PromiseInv'
<1>1. /\ tree[p] = "none" /\ tree' = [tree EXCEPT ![p] = node]
      /\ seen' = [seen EXCEPT ![p] = @ \union {node}]
      /\ UNCHANGED <<cfg, pc, req, walk, answer, trail, promised, shrunk>>
  BY DEF Create, Change
<1>2. TreeInv
  BY DEF AdditionInv, OrderInv
<1>3. GrownInv'
  BY <1>1, <1>2 DEF GrownInv, TreeInv, AdditionInv
<1>4. Before' = Before
  <2>1. \A q \in Places : (IF "none" \in seen'[q] THEN "none" ELSE tree'[q])
                        = (IF "none" \in seen[q] THEN "none" ELSE tree[q])
    BY <1>1, <1>2 DEF TreeInv
  <2>. QED
    BY <2>1 DEF Before
<1>5. /\ Order' = Order /\ Path' = Path
      /\ \A stage : UrlOf(stage)' = UrlOf(stage) /\ PassedOver(stage)' = PassedOver(stage)
  BY <1>1 DEF Order, UrlOf, PassedOver, AtTop, Path, Extension, Rewritten, CleanChosen
<1>6. \A k : OutcomeBefore(k)' = OutcomeBefore(k)
  BY <1>4, <1>5 DEF OutcomeBefore, Outcome, At
<1>7. \A k : Ready(k)' = Ready(k) /\ OnTime(k)' = OnTime(k)
  BY <1>5, <1>6 DEF Ready, OnTime
<1>8. Quiet' => Quiet
  BY <1>1, <1>2 DEF Quiet, DirectoryAdded, TreeInv
<1>9. There # "none" => There' = There
  BY <1>1, <1>2 DEF There, At, TreeInv
<1>10. \A i : Sound(i) => Sound(i)'
  BY <1>1, <1>5, <1>7, <1>9 DEF Sound, IsFile
<1>11. PromisesFile(cfg, Path, Before)' = PromisesFile(cfg, Path, Before)
  BY <1>1, <1>4, <1>5
<1>. QED
  BY <1>1, <1>3, <1>5, <1>7, <1>8, <1>10, <1>11 DEF PromiseInv, AdditionInv

LEMMA AdditionInvNext == AdditionInv /\ [Next]_vars => AdditionInv'
<1>. SUFFICES ASSUME AdditionInv, [Next]_vars PROVE AdditionInv'
  OBVIOUS
<1>0. OrderInv'
  BY OrderInvNext DEF AdditionInv
<1>. SUFFICES GrownInv' /\ PromiseInv'
  BY <1>0 DEF AdditionInv
<1>1. ASSUME NEW p \in Places, Delete(p) PROVE GrownInv' /\ PromiseInv'
  <2>1. shrunk' /\ UNCHANGED <<pc, answer>>
    BY <1>1 DEF Delete, Change
  <2>. QED
    BY <2>1 DEF GrownInv, PromiseInv, Quiet
<1>2. ASSUME NEW p \in Places, NEW node \in Kinds, Create(p, node) PROVE GrownInv' /\ PromiseInv'
  BY <1>2, CreateKeeps
<1>3. ASSUME NEW rq \in Starts, Open(rq) PROVE GrownInv' /\ PromiseInv'
  BY <1>3, AskPromises DEF Open
<1>4. CASE Follow
  BY <1>4, AskPromises DEF Follow
<1>5. CASE Close
  BY <1>5 DEF Close, Forget, GrownInv, PromiseInv, Walking
<1>6. CASE Handler
  <2>1. Untouched
    BY <1>6 DEF Handler, Route, Probe, ProbeIndex, Canonicalize, Read, List
  <2>2. GrownInv'
    BY <2>1, HandlerIsQuiet DEF AdditionInv, OrderInv
  <2>. QED
    BY <1>6, <2>2, RouteIsPunctual, ProbeIsPunctual, ProbeIndexIsPunctual, CanonicalizeIsPunctual,
       ReadIsPunctual, ListIsPunctual DEF Handler
<1>7. CASE UNCHANGED vars
  <2>1. Untouched /\ UNCHANGED <<pc, walk, answer>> /\ UNCHANGED <<promised, shrunk>>
    BY <1>7 DEF vars, Untouched, history
  <2>2. /\ GrownInv' /\ Quiet' = Quiet /\ Order' = Order
        /\ \A k : OnTime(k)' = OnTime(k) /\ Ready(k)' = Ready(k)
        /\ PromisesFile(cfg, Path, Before)' = PromisesFile(cfg, Path, Before)
    BY <2>1, HandlerIsQuiet, HandlerKeeps DEF AdditionInv, OrderInv
  <2>3. There' = There /\ cfg' = cfg
    BY <2>1 DEF There, At, Untouched
  <2>4. \A k : Sound(k)' = Sound(k)
    BY <2>1, <2>2, <2>3 DEF Sound
  <2>. QED
    BY <2>1, <2>2, <2>4 DEF PromiseInv, AdditionInv
<1>. QED
  BY <1>1, <1>2, <1>3, <1>4, <1>5, <1>6, <1>7 DEF Next

(* ADDITIONS PUBLISH.  A request that had a file to serve when it was      *)
(* asked finds one, however its looks at the tree are spread over the      *)
(* additions of other programs.                                            *)
THEOREM AdditionsPublish == Spec => []AdditionsNeverHide
<1>1. Init => AdditionInv
  BY AdditionInvInit
<1>2. AdditionInv /\ [Next]_vars => AdditionInv'
  BY AdditionInvNext
<1>3. AdditionInv => AdditionsNeverHide
  BY AdditionInvImplies
<1>. QED
  BY <1>1, <1>2, <1>3, PTL DEF Spec
-----------------------------------------------------------------------------
(* Where the places of its tries stay what they are, a request is answered *)
(* as if it were handled in one moment.                                    *)
OutcomeOn(t, i) == Outcome(t, UrlOf(Order[i]))

PassedOn(t, i) == OutcomeOn(t, i) \in PassedOver(Order[i])

AnswerOn(t, i) ==
  LET p == Trim(UrlOf(Order[i]))
  IN  CASE OutcomeOn(t, i) = "file"    -> FileAt(p)
        [] OutcomeOn(t, i) = "index"   -> FileAt(IndexOf(p))
        [] OutcomeOn(t, i) = "dir"     -> DirectoryAnswer(cfg, t, p)
        [] OutcomeOn(t, i) = "escaped" -> Failed(400)
        [] OutcomeOn(t, i) = "missing" -> Failed(404)

LEMMA AtomicFirst ==
  ASSUME NEW t, NEW k \in 1..Len(Order), ~PassedOn(t, k), \A j \in 1..(k - 1) : PassedOn(t, j)
  PROVE  Atomic(cfg, Path, t) = AnswerOn(t, k)
<1>. DEFINE tries == Tries(cfg, Path)
            taken == {i \in DOMAIN tries : Outcome(t, tries[i].url) \notin tries[i].passedOver}
            first == CHOOSE i \in taken : \A j \in taken : i <= j
<1>1. DOMAIN tries = 1..Len(Order) /\ Len(Order) \in 1..3
  BY TriesInOrder
<1>2. \A i \in 1..Len(Order) : /\ tries[i].url = UrlOf(Order[i])
                               /\ tries[i].passedOver = PassedOver(Order[i])
  BY TriesInOrder DEF Tried, Try
<1>3. taken = {i \in 1..Len(Order) : ~PassedOn(t, i)}
  BY <1>1, <1>2 DEF PassedOn, OutcomeOn
<1>4. k \in taken /\ \A j \in taken : k <= j
  BY <1>1, <1>3
<1>5. first = k
  <2>1. first \in taken /\ \A j \in taken : first <= j
    BY <1>4
  <2>. QED
    BY <1>1, <1>3, <1>4, <2>1
<1>6. Outcome(t, tries[first].url) = OutcomeOn(t, k) /\ Trim(tries[first].url) = Trim(UrlOf(Order[k]))
  BY <1>2, <1>5 DEF OutcomeOn
<1>7. taken # {}
  BY <1>4
<1>8. Atomic(cfg, Path, t) =
        IF taken = {} THEN Failed(404)
        ELSE CASE Outcome(t, tries[first].url) = "file"    -> FileAt(Trim(tries[first].url))
               [] Outcome(t, tries[first].url) = "index"   -> FileAt(IndexOf(Trim(tries[first].url)))
               [] Outcome(t, tries[first].url) = "dir"     -> DirectoryAnswer(cfg, t, Trim(tries[first].url))
               [] Outcome(t, tries[first].url) = "escaped" -> Failed(400)
               [] Outcome(t, tries[first].url) = "missing" -> Failed(404)
  BY Zenon DEF Atomic
<1>. HIDE DEF taken, first, tries
<1>. QED
  BY <1>6, <1>7, <1>8, Zenon DEF AnswerOn

LEMMA AtomicNone ==
  ASSUME NEW t, \A j \in 1..Len(Order) : PassedOn(t, j)
  PROVE  Atomic(cfg, Path, t) = Failed(404)
<1>. DEFINE tries == Tries(cfg, Path)
<1>1. {i \in DOMAIN tries : Outcome(t, tries[i].url) \notin tries[i].passedOver} = {}
  BY TriesInOrder DEF PassedOn, OutcomeOn, Tried, Try
<1>. QED
  BY <1>1, Zenon DEF Atomic

LEMMA FirstOrNone ==
  ASSUME NEW t
  PROVE  \/ \A j \in 1..Len(Order) : PassedOn(t, j)
         \/ \E k \in 1..Len(Order) : ~PassedOn(t, k) /\ \A j \in 1..(k - 1) : PassedOn(t, j)
<1>1. Len(Order) \in 1..3
  BY TriesInOrder
<1>. DEFINE n == Len(Order)
            least(k) == k \in 1..n /\ ~PassedOn(t, k) /\ \A j \in 1..(k - 1) : PassedOn(t, j)
<1>2. ~PassedOn(t, 1) => least(1)
  BY <1>1
<1>3. n >= 2 /\ PassedOn(t, 1) /\ ~PassedOn(t, 2) => least(2)
  BY <1>1
<1>4. n = 3 /\ PassedOn(t, 1) /\ PassedOn(t, 2) /\ ~PassedOn(t, 3) => least(3)
  BY <1>1
<1>5. PassedOn(t, 1) /\ (n >= 2 => PassedOn(t, 2)) /\ (n = 3 => PassedOn(t, 3)) =>
        \A j \in 1..n : PassedOn(t, j)
  <2>. HIDE DEF n
  <2>1. \A j \in 1..n : j = 1 \/ (n >= 2 /\ j = 2) \/ (n = 3 /\ j = 3)
    <3>1. CASE n = 1
      BY <3>1
    <3>2. CASE n = 2
      BY <3>2
    <3>3. CASE n = 3
      BY <3>3
    <3>. QED
      BY <1>1, <3>1, <3>2, <3>3 DEF n
  <2>. QED
    BY <2>1
<1>6. (\E k : least(k)) \/ \A j \in 1..n : PassedOn(t, j)
  <2>1. n = 3 => n >= 2
    OBVIOUS
  <2>. HIDE DEF least, n
  <2>. QED
    BY <1>2, <1>3, <1>4, <1>5, <2>1
<1>. QED
  BY <1>6

Calm ==
  \A i \in DOMAIN Tries(cfg, Path) : \A p \in TriedPlaces(i) \intersect Places : seen[p] = {tree[p]}

Deep(i) == At(tree, IndexOf(Trim(UrlOf(Order[i]))))

(* What was found at candidate i is there.                                 *)
True(i) ==
  LET u == UrlOf(Order[i])
      p == Trim(u)
      dir == At(tree, p) = "dir" /\ Order[i] \notin CleanStages
  IN
  /\ pc = "index" => dir
  /\ pc = "canon" =>
       \/ /\ walk.found = "file" /\ walk.place = p
          /\ IsFile(At(tree, p)) /\ Last(u) # Empty
       \/ walk.found = "file" /\ walk.place = IndexOf(p) /\ dir /\ IsFile(Deep(i))
       \/ walk.found = "dir" /\ walk.place = p /\ dir /\ ~IsFile(Deep(i))
  /\ pc = "read" =>
       \/ walk.place = p /\ OutcomeOn(tree, i) = "file"
       \/ walk.place = IndexOf(p) /\ OutcomeOn(tree, i) = "index" /\ Order[i] \notin CleanStages
  /\ pc = "list" => OutcomeOn(tree, i) = "dir" /\ dir
  /\ pc = "lone" =>
       /\ OutcomeOn(tree, i) = "dir" /\ dir /\ cfg.single
       /\ Children(tree, p) = {walk.place} /\ tree[walk.place] # "dir"

CalmInv ==
  /\ pc \in Walking /\ Calm =>
       \A i \in 1..Len(Order) :
         walk.stage = Order[i] => True(i) /\ \A j \in 1..(i - 1) : PassedOn(tree, j)
  /\ Walked /\ Calm => answer = Atomic(cfg, Path, tree) \/ ServedFromOutside

StableInv == OrderInv /\ CalmInv

LEMMA StableInvImplies == StableInv => StableAnswer
BY DEF StableInv, CalmInv, StableAnswer, Calm

LEMMA StableInvInit == Init => StableInv
<1>. SUFFICES ASSUME Init PROVE StableInv
  OBVIOUS
<1>1. CalmInv
  BY DEF Init, CalmInv, Walking, Walked
<1>. QED
  BY <1>1, OrderInvInit DEF StableInv

(* The outcomes of resolve() one by one.                                   *)
LEMMA OutcomeCases ==
  ASSUME TreeInv, NEW i
  PROVE  LET u    == UrlOf(Order[i])
             node == At(tree, Trim(u))
             was  == OutcomeOn(tree, i)
         IN  /\ node \in Kinds
             /\ node = "none" => was = "missing"
             /\ IsFile(node) /\ Last(u) = Empty => was = "missing"
             /\ node = "out" /\ Last(u) # Empty => was = "escaped"
             /\ node = "file" /\ Last(u) # Empty => was = "file"
             /\ node = "dir" /\ Deep(i) = "file" => was = "index"
             /\ node = "dir" /\ Deep(i) = "out" => was = "escaped"
             /\ node = "dir" /\ ~IsFile(Deep(i)) => was = "dir"
<1>. DEFINE u    == UrlOf(Order[i])
            node == At(tree, Trim(u))
            deep == At(tree, IndexOf(Trim(u)))
            was  == OutcomeOn(tree, i)
            slash == Last(u) = Empty
<1>1. node \in Kinds /\ deep \in Kinds
  BY DEF At, Kinds, TreeInv
<1>2. was = CASE node = "none" \/ (IsFile(node) /\ slash) -> "missing"
              [] node = "out"  /\ ~slash -> "escaped"
              [] node = "file" /\ ~slash -> "file"
              [] node = "dir" /\ deep = "file" -> "index"
              [] node = "dir" /\ deep = "out"  -> "escaped"
              [] node = "dir" /\ ~IsFile(deep) -> "dir"
  BY Zenon DEF OutcomeOn, Outcome
<1>. HIDE DEF node, deep, was, slash
<1>3. /\ node = "none" => was = "missing"
      /\ IsFile(node) /\ slash => was = "missing"
      /\ node = "out" /\ ~slash => was = "escaped"
      /\ node = "file" /\ ~slash => was = "file"
      /\ node = "dir" /\ deep = "file" => was = "index"
      /\ node = "dir" /\ deep = "out" => was = "escaped"
      /\ node = "dir" /\ ~IsFile(deep) => was = "dir"
  BY <1>1, <1>2 DEF IsFile, Kinds
<1>. QED
  BY <1>1, <1>3 DEF node, deep, was, slash, Deep

LEMMA HandlerIsCalm ==
  ASSUME Untouched, TreeInv
  PROVE  /\ Calm' = Calm
         /\ \A j : PassedOn(tree, j)' = PassedOn(tree, j)
         /\ \A j : OutcomeOn(tree, j)' = OutcomeOn(tree, j)
         /\ \A p : At(tree, p)' = At(tree, p)
         /\ \A j : Deep(j)' = Deep(j)
         /\ Atomic(cfg, Path, tree)' = Atomic(cfg, Path, tree)
<1>1. tree' = tree /\ cfg' = cfg /\ Path' = Path /\ seen' = seen
  BY DEF Untouched, Path, history
<1>2. Calm' = Calm
  BY <1>1, HandlerKeeps DEF Calm
<1>3. \A stage : PassedOver(stage)' = PassedOver(stage)
  BY DEF PassedOver, Extension, Path, Untouched
<1>4. \A p : At(tree, p)' = At(tree, p)
  BY <1>1 DEF At
<1>5. \A j : OutcomeOn(tree, j)' = OutcomeOn(tree, j)
  BY <1>1, HandlerKeeps DEF OutcomeOn, Outcome, At
<1>6. \A j : PassedOn(tree, j)' = PassedOn(tree, j)
  BY <1>3, <1>5, HandlerKeeps DEF PassedOn
<1>7. \A j : Deep(j)' = Deep(j)
  BY <1>1, HandlerKeeps DEF Deep, At
<1>8. Atomic(cfg, Path, tree)' = Atomic(cfg, Path, tree)
  BY <1>1
<1>. QED
  BY <1>2, <1>4, <1>5, <1>6, <1>7, <1>8

(* A lone link out of the root that a is, among the tries of the request.  *)
Outside(a) ==
  cfg.single /\ \E i \in 1..Len(Order) : \E q \in Places :
    Children(tree, Trim(UrlOf(Order[i]))) = {q} /\ tree[q] = "out" /\ a = FileAt(q)

LEMMA OutsideServed == ServedFromOutside <=> Outside(answer)
<1>1. DOMAIN Tries(cfg, Path) = 1..Len(Order)
  BY TriesInOrder
<1>2. \A i \in 1..Len(Order) : Tries(cfg, Path)[i].url = UrlOf(Order[i])
  BY TriesInOrder DEF Tried, Try
<1>. QED
  BY <1>1, <1>2 DEF ServedFromOutside, Outside

LEMMA SettleIsStable ==
  ASSUME StableInv, Untouched, NEW a, Settle(a),
         Calm /\ Served(req) /\ req.form = "plain" /\ a.status # 301 =>
           a = Atomic(cfg, Path, tree) \/ Outside(a)
  PROVE  CalmInv'
<1>1. pc' = "answered" /\ answer' = a
  BY DEF Settle
<1>2. Calm' = Calm /\ Atomic(cfg, Path, tree)' = Atomic(cfg, Path, tree) /\ req' = req
  BY HandlerIsCalm DEF StableInv, OrderInv, Untouched
<1>3. Outside(a) => ServedFromOutside'
  <2>1. /\ cfg' = cfg /\ tree' = tree /\ Tries(cfg, Path)' = Tries(cfg, Path)
        /\ \A p : Children(tree, p)' = Children(tree, p)
    BY DEF Untouched, Path, Children
  <2>2. DOMAIN Tries(cfg, Path) = 1..Len(Order)
    BY TriesInOrder
  <2>3. \A i \in 1..Len(Order) : Tries(cfg, Path)[i].url = UrlOf(Order[i])
    BY TriesInOrder DEF Tried, Try
  <2>. QED
    BY <1>1, <2>1, <2>2, <2>3 DEF ServedFromOutside, Outside
<1>. QED
  BY <1>1, <1>2, <1>3 DEF CalmInv, Walking, Walked, Served

LEMMA StepIsStable ==
  ASSUME StableInv, Untouched, NEW i \in 1..Len(Order), walk'.stage = Order[i],
         pc' \in Walking, Calm => True(i)' /\ \A j \in 1..(i - 1) : PassedOn(tree, j)
  PROVE  CalmInv'
<1>1. Order' = Order /\ Calm' = Calm /\ \A j : PassedOn(tree, j)' = PassedOn(tree, j)
  BY HandlerIsCalm, HandlerKeeps DEF StableInv, OrderInv
<1>2. \A k \in 1..Len(Order) : walk'.stage = Order[k] => k = i
  BY OrderDistinct
<1>3. pc' # "answered"
  BY DEF Walking
<1>4. (pc \in Walking /\ Calm =>
         \A k \in 1..Len(Order) :
           walk.stage = Order[k] => True(k) /\ \A j \in 1..(k - 1) : PassedOn(tree, j))'
  BY <1>1, <1>2
<1>. QED
  BY <1>3, <1>4 DEF CalmInv, Walked

LEMMA GotoIsStable ==
  ASSUME StableInv, Untouched, NEW i \in 1..Len(Order), Goto(Order[i]),
         Calm => \A j \in 1..(i - 1) : PassedOn(tree, j)
  PROVE  CalmInv'
<1>1. pc' = "probe" /\ walk'.stage = Order[i]
  BY CandidateAtHand, TriesInOrder DEF Goto, Candidate
<1>2. True(i)'
  BY <1>1 DEF True
<1>. QED
  BY <1>1, <1>2, StepIsStable DEF Walking

LEMMA MissIsStable ==
  ASSUME StableInv, Untouched, NEW i \in 1..Len(Order), walk.stage = Order[i],
         NEW code \in {400, 404}, Miss(code),
         Calm => \A j \in 1..(i - 1) : PassedOn(tree, j),
         Calm => \/ Order[i] \in CleanStages /\ PassedOn(tree, i)
                 \/ /\ Order[i] \notin CleanStages
                    /\ OutcomeOn(tree, i) = IF code = 400 THEN "escaped" ELSE "missing"
  PROVE  CalmInv'
<1>0. Len(Order) \in 1..3
  BY TriesInOrder
<1>1. CASE /\ i < Len(Order) /\ Goto(Order[i + 1])
           /\ \/ Order[i] \in CleanStages
              \/ /\ "missing" \in PassedOver(Order[i])
                 /\ code = 400 => "escaped" \in PassedOver(Order[i])
  <2>1. Calm => PassedOn(tree, i)
    BY <1>1 DEF PassedOn
  <2>2. i + 1 \in 1..Len(Order) /\ (Calm => \A j \in 1..((i + 1) - 1) : PassedOn(tree, j))
    BY <1>0, <1>1, <2>1
  <2>. QED
    BY <1>1, <2>2, GotoIsStable
<1>2. ASSUME Calm, i = Len(Order), PassedOn(tree, i)
      PROVE  Atomic(cfg, Path, tree) = Failed(404)
  <2>1. \A j \in 1..Len(Order) : j = i \/ j \in 1..(i - 1)
    BY <1>0, <1>2
  <2>2. \A j \in 1..Len(Order) : PassedOn(tree, j)
    BY <1>2, <2>1
  <2>. QED
    BY <2>2, AtomicNone
<1>3. CASE i = Len(Order) /\ Order[i] \in CleanStages /\ Settle(Failed(404))
  BY <1>2, <1>3, SettleIsStable
<1>4. CASE /\ Order[i] \notin CleanStages /\ Settle(Failed(code))
           /\ i = Len(Order) \/ code = 400
           /\ code = 400 => "escaped" \notin PassedOver(Order[i])
  <2>1. ASSUME Calm, ~PassedOn(tree, i) PROVE Atomic(cfg, Path, tree) = Failed(code)
    <3>1. Atomic(cfg, Path, tree) = AnswerOn(tree, i)
      BY <2>1, AtomicFirst
    <3>2. OutcomeOn(tree, i) = IF code = 400 THEN "escaped" ELSE "missing"
      BY <1>4, <2>1
    <3>3. AnswerOn(tree, i) = Failed(code)
      BY <3>2 DEF AnswerOn
    <3>. QED
      BY <3>1, <3>3
  <2>2. ASSUME Calm, PassedOn(tree, i) PROVE Atomic(cfg, Path, tree) = Failed(code)
    <3>1. code = 404 /\ i = Len(Order)
      BY <1>4, <2>2 DEF PassedOn
    <3>. QED
      BY <1>2, <2>2, <3>1
  <2>. QED
    BY <1>4, <2>1, <2>2, SettleIsStable
<1>. QED
  BY <1>1, <1>3, <1>4, MissDecides

LEMMA AtHandStable ==
  ASSUME StableInv, pc \in Walking
  PROVE  \E i \in 1..Len(Order) :
           /\ walk.stage = Order[i]
           /\ Handles(Trim(UrlOf(Order[i])), Last(UrlOf(Order[i])) = Empty)
           /\ Calm => True(i) /\ \A j \in 1..(i - 1) : PassedOn(tree, j)
BY DEF StableInv, OrderInv, WalkInv, CalmInv

(* A candidate that cleanUrls does not look at as a file is passed over.   *)
LEMMA CleanPasses ==
  ASSUME NEW i, Order[i] \in CleanStages, OutcomeOn(tree, i) \in {"missing", "escaped", "dir", "index"}
  PROVE  PassedOn(tree, i)
BY DEF PassedOn, PassedOver

LEMMA RouteIsStable == StableInv /\ Route => CalmInv'
<1>. SUFFICES ASSUME StableInv, Route PROVE CalmInv'
  OBVIOUS
<1>1. Untouched /\ pc = "asked"
  BY DEF Route
<1>2. CASE ~(Served(req) /\ req.form = "plain")
  <2>1. Settle(Failed(405)) \/ Settle(Failed(400))
    BY <1>2 DEF Route
  <2>2. pc' = "answered" /\ req' = req
    BY <1>1, <2>1 DEF Settle, Untouched
  <2>3. ~Walked' /\ pc' \notin Walking
    BY <1>2, <2>2 DEF Walked, Served, Walking
  <2>. QED
    BY <2>3 DEF CalmInv
<1>3. CASE Served(req) /\ req.form = "plain"
  <2>1. (\E u : Settle(Redirect(u))) \/ Goto(Order[1])
    <3>1. Order[1] = IF Extension THEN "original" ELSE IF Rewritten THEN "target"
                     ELSE IF CleanChosen THEN "cleanIndex" ELSE "original"
      BY DEF Order
    <3>. QED
      BY <1>3, <3>1 DEF Route
  <2>2. ASSUME NEW u, Settle(Redirect(u)) PROVE CalmInv'
    <3>1. Redirect(u).status = 301
      BY DEF Redirect, NoAnswer
    <3>. QED
      BY <1>1, <2>2, <3>1, SettleIsStable
  <2>3. CASE Goto(Order[1])
    <3>1. 1 \in 1..Len(Order) /\ 1..(1 - 1) = {}
      BY TriesInOrder
    <3>. QED
      BY <1>1, <2>3, <3>1, GotoIsStable
  <2>. QED
    BY <2>1, <2>2, <2>3
<1>. QED
  BY <1>2, <1>3

LEMMA ProbeIsStable == StableInv /\ Probe => CalmInv'
<1>. SUFFICES ASSUME StableInv, Probe PROVE CalmInv'
  OBVIOUS
<1>1. Untouched /\ pc = "probe" /\ pc \in Walking
  BY DEF Probe, Walking
<1>2. PICK i \in 1..Len(Order) :
        /\ walk.stage = Order[i]
        /\ Handles(Trim(UrlOf(Order[i])), Last(UrlOf(Order[i])) = Empty)
        /\ Calm => True(i) /\ \A j \in 1..(i - 1) : PassedOn(tree, j)
  BY <1>1, AtHandStable
<1>. DEFINE u == UrlOf(Order[i])
            node == At(tree, Trim(u))
<1>3. walk.place = Trim(u) /\ walk.slash = (Last(u) = Empty)
  BY <1>1, <1>2 DEF Handles
<1>4. CleanStage <=> Order[i] \in CleanStages
  BY <1>2 DEF CleanStage, CleanStages
<1>5. TreeInv
  BY DEF StableInv, OrderInv
<1>6. CASE IsFile(node) /\ ~walk.slash /\ Found(walk.place, "file")
  <2>1. /\ pc' = "canon" /\ walk'.stage = Order[i] /\ walk'.found = "file"
        /\ walk'.place = Trim(u)
    BY <1>2, <1>3, <1>6 DEF Found, Handles
  <2>2. At(tree, Trim(u))' = node /\ UrlOf(Order[i])' = u
    BY <1>1, HandlerKeeps, <1>5 DEF At, Untouched
  <2>3. True(i)'
    BY <1>3, <1>6, <2>1, <2>2 DEF True
  <2>. QED
    BY <1>1, <1>2, <2>1, <2>3, StepIsStable DEF Walking
<1>7. CASE node = "dir" /\ ~CleanStage /\ pc' = "index" /\ UNCHANGED <<walk, answer>>
  <2>1. walk'.stage = Order[i] /\ At(tree, Trim(u))' = node /\ UrlOf(Order[i])' = u /\ Order' = Order
    BY <1>1, <1>2, <1>7, HandlerKeeps, <1>5 DEF At, Untouched
  <2>2. True(i)'
    BY <1>4, <1>7, <2>1 DEF True, CleanStages
  <2>. QED
    BY <1>1, <1>2, <1>7, <2>1, <2>2, StepIsStable DEF Walking
<1>8. CASE /\ node = "none" \/ (IsFile(node) /\ walk.slash) \/ (node = "dir" /\ CleanStage)
           /\ Miss(404)
  <2>1. /\ node = "none" \/ (IsFile(node) /\ walk.slash) => OutcomeOn(tree, i) = "missing"
        /\ node = "dir" => OutcomeOn(tree, i) \in {"index", "escaped", "dir"}
    BY <1>3, <1>5, OutcomeCases DEF IsFile
  <2>2. \/ Order[i] \in CleanStages /\ PassedOn(tree, i)
        \/ Order[i] \notin CleanStages /\ OutcomeOn(tree, i) = "missing"
    BY <1>4, <1>8, <2>1, CleanPasses
  <2>. QED
    BY <1>1, <1>2, <1>8, <2>2, MissIsStable
<1>. QED
  BY <1>3, <1>6, <1>7, <1>8 DEF Probe

LEMMA ProbeIndexIsStable == StableInv /\ ProbeIndex => CalmInv'
<1>. SUFFICES ASSUME StableInv, ProbeIndex PROVE CalmInv'
  OBVIOUS
<1>1. Untouched /\ pc = "index" /\ pc \in Walking
  BY DEF ProbeIndex, Walking
<1>2. PICK i \in 1..Len(Order) :
        /\ walk.stage = Order[i]
        /\ Handles(Trim(UrlOf(Order[i])), Last(UrlOf(Order[i])) = Empty)
        /\ Calm => True(i) /\ \A j \in 1..(i - 1) : PassedOn(tree, j)
  BY <1>1, AtHandStable
<1>. DEFINE u == UrlOf(Order[i])
            node == At(tree, Trim(u))
<1>3. walk.place = Trim(u) /\ (Calm => node = "dir" /\ Order[i] \notin CleanStages)
  BY <1>1, <1>2 DEF Handles, True
<1>4. /\ At(tree, Trim(u))' = node /\ UrlOf(Order[i])' = u /\ Order' = Order
      /\ Deep(i)' = Deep(i) /\ Deep(i) = At(tree, IndexOf(Trim(u)))
  BY <1>1, HandlerKeeps, HandlerIsCalm DEF At, Untouched, StableInv, OrderInv, Deep
<1>5. CASE IsFile(Deep(i)) /\ Found(IndexOf(Trim(u)), "file")
  <2>1. /\ pc' = "canon" /\ walk'.stage = Order[i] /\ walk'.found = "file"
        /\ walk'.place = IndexOf(Trim(u))
    BY <1>2, <1>5 DEF Found, Handles
  <2>2. Calm => True(i)'
    BY <1>3, <1>4, <1>5, <2>1 DEF True, CleanStages
  <2>. QED
    BY <1>1, <1>2, <2>1, <2>2, StepIsStable DEF Walking
<1>6. CASE ~IsFile(Deep(i)) /\ Found(Trim(u), "dir")
  <2>1. /\ pc' = "canon" /\ walk'.stage = Order[i] /\ walk'.found = "dir"
        /\ walk'.place = Trim(u)
    BY <1>2, <1>6 DEF Found, Handles
  <2>2. Calm => True(i)'
    BY <1>3, <1>4, <1>6, <2>1 DEF True, CleanStages
  <2>. QED
    BY <1>1, <1>2, <2>1, <2>2, StepIsStable DEF Walking
<1>. QED
  BY <1>3, <1>4, <1>5, <1>6 DEF ProbeIndex

(* The answers for a directory one by one.                                 *)
LEMMA DirectoryAnswers ==
  ASSUME NEW t, NEW p
  PROVE  LET lonely == cfg.single /\ \E q \in Children(t, p) : Children(t, p) = {q} /\ t[q] # "dir"
         IN  /\ \A q : cfg.single /\ Children(t, p) = {q} /\ t[q] = "file" =>
                      DirectoryAnswer(cfg, t, p) = FileAt(q)
             /\ \A q : cfg.single /\ Children(t, p) = {q} /\ t[q] = "out" =>
                      DirectoryAnswer(cfg, t, p) = Failed(400)
             /\ ~lonely /\ cfg.listing  => DirectoryAnswer(cfg, t, p) = ListingOf(p)
             /\ ~lonely /\ ~cfg.listing => DirectoryAnswer(cfg, t, p) = Failed(404)
<1>. DEFINE lone(kind) == {q \in Children(t, p) : Children(t, p) = {q} /\ t[q] = kind}
            files == lone("file")
            links == lone("out")
            one   == cfg.single /\ files # {}
            link  == cfg.single /\ links # {}
            file  == FileAt(CHOOSE q \in files : TRUE)
<1>1. DirectoryAnswer(cfg, t, p) =
        IF one THEN file
        ELSE IF link THEN Failed(400)
        ELSE IF cfg.listing THEN ListingOf(p) ELSE Failed(404)
  BY Zenon DEF DirectoryAnswer
<1>2. one \/ link => cfg.single /\ \E q \in Children(t, p) : Children(t, p) = {q} /\ t[q] # "dir"
  OBVIOUS
<1>3. ASSUME NEW q, cfg.single, Children(t, p) = {q}, t[q] = "file"
      PROVE  one /\ file = FileAt(q)
  <2>1. files = {q}
    BY <1>3
  <2>. QED
    BY <1>3, <2>1
<1>4. ASSUME NEW q, cfg.single, Children(t, p) = {q}, t[q] = "out"
      PROVE  ~one /\ link
  <2>1. links = {q} /\ files = {}
    BY <1>4
  <2>. QED
    BY <1>4, <2>1
<1>. HIDE DEF lone, files, links, one, link, file
<1>. QED
  BY <1>1, <1>2, <1>3, <1>4

(* The candidate at hand ends the walk with the answer for its outcome.    *)
LEMMA EndIsAtomic ==
  ASSUME StableInv, Calm, NEW i \in 1..Len(Order), \A j \in 1..(i - 1) : PassedOn(tree, j),
         \/ OutcomeOn(tree, i) = "file"
         \/ OutcomeOn(tree, i) \in {"file", "index", "dir"} /\ Order[i] \notin CleanStages
  PROVE  LET p == Trim(UrlOf(Order[i]))
             answerNow == Atomic(cfg, Path, tree)
         IN  /\ OutcomeOn(tree, i) = "file"  => answerNow = FileAt(p)
             /\ OutcomeOn(tree, i) = "index" => answerNow = FileAt(IndexOf(p))
             /\ OutcomeOn(tree, i) = "dir"   => answerNow = DirectoryAnswer(cfg, tree, p)
<1>1. ~PassedOn(tree, i)
  BY DEF PassedOn, PassedOver
<1>2. Atomic(cfg, Path, tree) = AnswerOn(tree, i)
  BY <1>1, AtomicFirst
<1>. QED
  BY <1>2 DEF AnswerOn

LEMMA CanonicalizeIsStable == StableInv /\ Canonicalize => CalmInv'
<1>. SUFFICES ASSUME StableInv, Canonicalize PROVE CalmInv'
  OBVIOUS
<1>. DEFINE found == At(tree, walk.place)
<1>1. Untouched /\ pc = "canon" /\ pc \in Walking
  BY DEF Canonicalize, Walking
<1>2. PICK i \in 1..Len(Order) :
        /\ walk.stage = Order[i]
        /\ Handles(Trim(UrlOf(Order[i])), Last(UrlOf(Order[i])) = Empty)
        /\ Calm => True(i) /\ \A j \in 1..(i - 1) : PassedOn(tree, j)
  BY <1>1, AtHandStable
<1>. DEFINE u == UrlOf(Order[i])
            node == At(tree, Trim(u))
<1>3. CleanStage <=> Order[i] \in CleanStages
  BY <1>2 DEF CleanStage, CleanStages
<1>4. TreeInv
  BY DEF StableInv, OrderInv
<1>5. Calm =>
        \/ walk.found = "file" /\ walk.place = Trim(u) /\ IsFile(node) /\ Last(u) # Empty /\ found = node
        \/ /\ walk.found = "file" /\ walk.place = IndexOf(Trim(u)) /\ node = "dir"
           /\ Order[i] \notin CleanStages /\ IsFile(Deep(i)) /\ found = Deep(i)
        \/ /\ walk.found = "dir" /\ walk.place = Trim(u) /\ node = "dir"
           /\ Order[i] \notin CleanStages /\ ~IsFile(Deep(i)) /\ found = node
  BY <1>1, <1>2 DEF True, Deep
<1>6. /\ At(tree, Trim(u))' = node /\ UrlOf(Order[i])' = u /\ Order' = Order /\ Deep(i)' = Deep(i)
      /\ OutcomeOn(tree, i)' = OutcomeOn(tree, i) /\ cfg' = cfg
  BY <1>1, <1>4, HandlerKeeps, HandlerIsCalm DEF At, Untouched
<1>. DEFINE turned == walk.found = "dir" /\ walk.slash /\ IsFile(found)
<1>12. CASE turned /\ Miss(404)
  <2>1. ~Calm
    BY <1>5, <1>12 DEF IsFile
  <2>2. Miss(404) /\ 404 \in {400, 404}
    BY <1>12
  <2>. QED
    BY <1>1, <1>2, <2>1, <2>2, MissIsStable
<1>7. CASE found \in {"none", "out"} /\ Miss(IF found = "none" \/ CleanStage THEN 404 ELSE 400)
  <2>1. Calm => found = "out" /\ OutcomeOn(tree, i) = "escaped"
    BY <1>4, <1>5, <1>7, OutcomeCases DEF IsFile
  <2>2. Calm => \/ Order[i] \in CleanStages /\ PassedOn(tree, i)
                \/ Order[i] \notin CleanStages /\ OutcomeOn(tree, i) = "escaped" /\ ~CleanStage
    BY <1>3, <2>1, CleanPasses
  <2>. DEFINE code == IF found = "none" \/ CleanStage THEN 404 ELSE 400
  <2>3. /\ code \in {400, 404}
        /\ Calm => \/ Order[i] \in CleanStages /\ PassedOn(tree, i)
                   \/ /\ Order[i] \notin CleanStages
                      /\ OutcomeOn(tree, i) = IF code = 400 THEN "escaped" ELSE "missing"
    BY <2>1, <2>2
  <2>. HIDE DEF code
  <2>4. Miss(code)
    BY <1>7 DEF code
  <2>. QED
    BY <1>1, <1>2, <2>3, <2>4, MissIsStable
<1>8. CASE found \in {"file", "dir"} /\ walk.found = "file" /\ pc' = "read" /\ UNCHANGED <<walk, answer>>
  <2>1. Calm => found = "file"
    BY <1>5, <1>8 DEF IsFile
  <2>2. Calm => True(i)'
    BY <1>4, <1>5, <1>6, <1>8, <2>1, OutcomeCases DEF True, CleanStages
  <2>. QED
    BY <1>1, <1>2, <1>8, <2>2, StepIsStable DEF Walking
<1>9. CASE found \in {"file", "dir"} /\ walk.found # "file" /\ pc' = "list" /\ UNCHANGED <<walk, answer>>
  <2>1. Calm => True(i)'
    BY <1>4, <1>5, <1>6, <1>9, OutcomeCases DEF True, CleanStages
  <2>. QED
    BY <1>1, <1>2, <1>9, <2>1, StepIsStable DEF Walking
<1>10. CASE /\ found \in {"file", "dir"} /\ walk.found # "file"
            /\ ~(cfg.listing \/ cfg.single) /\ Settle(Failed(404))
  <2>1. ASSUME Calm PROVE Atomic(cfg, Path, tree) = Failed(404)
    <3>1. OutcomeOn(tree, i) = "dir" /\ Order[i] \notin CleanStages
      BY <1>4, <1>5, <1>10, <2>1, OutcomeCases
    <3>2. Atomic(cfg, Path, tree) = DirectoryAnswer(cfg, tree, Trim(u))
      BY <1>2, <2>1, <3>1, EndIsAtomic
    <3>. QED
      BY <1>10, <3>2, DirectoryAnswers
  <2>. QED
    BY <1>1, <1>10, <2>1, SettleIsStable
<1>11. found = "none" \/ found = "out" \/ found \in {"file", "dir"}
  BY DEF Canonicalize, IsFile
<1>. QED
  BY <1>7, <1>8, <1>9, <1>10, <1>11, <1>12 DEF Canonicalize

LEMMA ReadIsStable == StableInv /\ Read => CalmInv'
<1>. SUFFICES ASSUME StableInv, Read PROVE CalmInv'
  OBVIOUS
<1>1. Untouched /\ pc \in {"read", "lone"} /\ pc \in Walking
  BY DEF Read, Walking
<1>2. PICK i \in 1..Len(Order) :
        /\ walk.stage = Order[i]
        /\ Handles(Trim(UrlOf(Order[i])), Last(UrlOf(Order[i])) = Empty)
        /\ Calm => True(i) /\ \A j \in 1..(i - 1) : PassedOn(tree, j)
  BY <1>1, AtHandStable
<1>. DEFINE u == UrlOf(Order[i])
            node == At(tree, Trim(u))
<1>3. TreeInv
  BY DEF StableInv, OrderInv
<1>4. ASSUME Calm
      PROVE  /\ IsFile(At(tree, walk.place))
             /\ Atomic(cfg, Path, tree) = FileAt(walk.place) \/ Outside(FileAt(walk.place))
  <2>1. CASE pc = "read" /\ walk.place = Trim(u) /\ OutcomeOn(tree, i) = "file"
    <3>1. At(tree, walk.place) = "file"
      BY <1>3, <2>1, Outcomes DEF OutcomeOn, TreeInv
    <3>. QED
      BY <1>2, <1>4, <2>1, <3>1, EndIsAtomic DEF IsFile
  <2>2. CASE /\ pc = "read" /\ walk.place = IndexOf(Trim(u)) /\ OutcomeOn(tree, i) = "index"
             /\ Order[i] \notin CleanStages
    <3>1. At(tree, walk.place) = "file"
      BY <1>3, <2>2, Outcomes DEF OutcomeOn, TreeInv
    <3>. QED
      BY <1>2, <1>4, <2>2, <3>1, EndIsAtomic DEF IsFile
  <2>3. CASE pc = "lone"
    <3>1. /\ OutcomeOn(tree, i) = "dir" /\ Order[i] \notin CleanStages /\ cfg.single
          /\ Children(tree, Trim(u)) = {walk.place} /\ tree[walk.place] # "dir"
      BY <1>2, <1>4, <2>3 DEF True
    <3>2. walk.place \in Places /\ tree[walk.place] # "none" /\ tree[walk.place] \in Kinds
      BY <1>3, <3>1 DEF Children, TreeInv
    <3>3. IsFile(At(tree, walk.place))
      BY <3>1, <3>2, PlacesNonEmpty DEF At, IsFile, Kinds
    <3>4. Atomic(cfg, Path, tree) = DirectoryAnswer(cfg, tree, Trim(u))
      BY <1>2, <1>4, <3>1, EndIsAtomic
    <3>5. CASE tree[walk.place] = "file"
      BY <3>1, <3>3, <3>4, <3>5, DirectoryAnswers
    <3>6. CASE tree[walk.place] = "out"
      BY <1>2, <3>1, <3>2, <3>3, <3>6 DEF Outside
    <3>. QED
      BY <3>1, <3>2, <3>5, <3>6 DEF Kinds
  <2>. QED
    BY <1>1, <1>2, <1>4, <2>1, <2>2, <2>3 DEF True
<1>5. CASE IsFile(At(tree, walk.place)) /\ Settle(FileAt(walk.place))
  BY <1>1, <1>4, <1>5, SettleIsStable
<1>6. CASE ~IsFile(At(tree, walk.place)) /\ Settle(Failed(404))
  BY <1>1, <1>4, <1>6, SettleIsStable
<1>. QED
  BY <1>5, <1>6 DEF Read

LEMMA ListIsStable == StableInv /\ List => CalmInv'
<1>. SUFFICES ASSUME StableInv, List PROVE CalmInv'
  OBVIOUS
<1>. DEFINE entries == Children(tree, walk.place)
            lonely  == cfg.single /\ \E q \in entries : entries = {q} /\ tree[q] # "dir"
<1>1. Untouched /\ pc = "list" /\ pc \in Walking
  BY DEF List, Walking
<1>2. PICK i \in 1..Len(Order) :
        /\ walk.stage = Order[i]
        /\ Handles(Trim(UrlOf(Order[i])), Last(UrlOf(Order[i])) = Empty)
        /\ Calm => True(i) /\ \A j \in 1..(i - 1) : PassedOn(tree, j)
  BY <1>1, AtHandStable
<1>. DEFINE u == UrlOf(Order[i])
            node == At(tree, Trim(u))
<1>3. walk.place = Trim(u)
  BY <1>1, <1>2 DEF Handles
<1>4. Calm => OutcomeOn(tree, i) = "dir" /\ node = "dir" /\ Order[i] \notin CleanStages
  BY <1>1, <1>2 DEF True
<1>5. Calm => Atomic(cfg, Path, tree) = DirectoryAnswer(cfg, tree, Trim(u))
  BY <1>2, <1>4, EndIsAtomic
<1>6. CASE node # "dir" /\ Settle(Failed(404))
  BY <1>1, <1>4, <1>6, SettleIsStable
<1>7. CASE ~lonely /\ cfg.listing /\ Settle(ListingOf(Trim(u)))
  <2>1. DirectoryAnswer(cfg, tree, Trim(u)) = ListingOf(Trim(u))
    BY <1>3, <1>7, DirectoryAnswers
  <2>. QED
    BY <1>1, <1>5, <1>7, <2>1, SettleIsStable
<1>8. CASE ~lonely /\ ~cfg.listing /\ Settle(Failed(404))
  <2>1. DirectoryAnswer(cfg, tree, Trim(u)) = Failed(404)
    BY <1>3, <1>8, DirectoryAnswers
  <2>. QED
    BY <1>1, <1>5, <1>8, <2>1, SettleIsStable
<1>9. ASSUME NEW q \in entries, cfg.single, entries = {q}, tree[q] # "dir",
             pc' = "lone", walk' = [walk EXCEPT !.place = q]
      PROVE  CalmInv'
  <2>1. walk'.stage = Order[i] /\ walk'.place = q
    BY <1>2, <1>9 DEF Handles
  <2>2. /\ At(tree, Trim(u))' = node /\ UrlOf(Order[i])' = u /\ Order' = Order /\ cfg' = cfg
        /\ OutcomeOn(tree, i)' = OutcomeOn(tree, i) /\ tree' = tree
    BY <1>1, HandlerKeeps, HandlerIsCalm DEF At, Untouched, StableInv, OrderInv
  <2>3. Children(tree, Trim(u))' = {q}
    BY <1>3, <1>9, <2>2 DEF Children
  <2>4. Calm => True(i)'
    BY <1>4, <1>9, <2>1, <2>2, <2>3 DEF True, CleanStages
  <2>. QED
    BY <1>1, <1>2, <1>9, <2>1, <2>4, StepIsStable DEF Walking
<1>. QED
  BY <1>3, <1>6, <1>7, <1>8, <1>9 DEF List

(* A change where no candidate is leaves all of it as it is.               *)
LEMMA ChangeElsewhere ==
  ASSUME StableInv, NEW p \in Places, NEW node \in Kinds, Change(p, node), tree[p] # node, Calm'
  PROVE  CalmInv' /\ Calm
<1>1. /\ tree' = [tree EXCEPT ![p] = node] /\ seen' = [seen EXCEPT ![p] = @ \union {node}]
      /\ UNCHANGED <<cfg, pc, req, walk, answer, trail, promised>>
  BY DEF Change
<1>2. tree \in [Places -> Kinds] /\ seen \in [Places -> SUBSET Kinds] /\ \A q \in Places : tree[q] \in seen[q]
  BY DEF StableInv, OrderInv, TreeInv
<1>3. /\ Order' = Order /\ Path' = Path
      /\ \A stage : UrlOf(stage)' = UrlOf(stage) /\ PassedOver(stage)' = PassedOver(stage)
      /\ \A i : TriedPlaces(i)' = TriedPlaces(i)
  BY <1>1 DEF Order, UrlOf, PassedOver, AtTop, Path, Extension, Rewritten, CleanChosen, TriedPlaces
<1>4. Tries(cfg, Path)' = Tries(cfg, Path)
  BY <1>1, <1>3
<1>5. DOMAIN Tries(cfg, Path) = 1..Len(Order)
  BY TriesInOrder
<1>6. \A i \in 1..Len(Order) : \A q \in TriedPlaces(i) \intersect Places : seen'[q] = {tree'[q]}
  BY <1>3, <1>4, <1>5 DEF Calm
<1>7. \A i \in 1..Len(Order) : p \notin TriedPlaces(i)
  <2>1. seen'[p] # {tree'[p]}
    BY <1>1, <1>2
  <2>. QED
    BY <1>6, <2>1
<1>8. \A q \in Places \ {p} : seen'[q] = seen[q] /\ tree'[q] = tree[q]
  BY <1>1, <1>2
<1>9. Calm
  BY <1>5, <1>6, <1>7, <1>8 DEF Calm
<1>10. \A q : q # p => At(tree, q)' = At(tree, q) /\ At(tree', q) = At(tree, q)
  BY <1>8 DEF At
<1>11. ASSUME NEW i \in 1..Len(Order)
       PROVE  LET q == Trim(UrlOf(Order[i]))
              IN  /\ q # p /\ IndexOf(q) # p
                  /\ Children(tree', q) = Children(tree, q) /\ Children(tree, q)' = Children(tree, q)
                  /\ \A r \in Children(tree, q) : tree'[r] = tree[r]
  <2>. DEFINE q == Trim(UrlOf(Order[i]))
  <2>1. TriedPlaces(i) = {q, IndexOf(q)} \union {r \in Places : Front(r) = q}
    BY TriesInOrder DEF TriedPlaces, Tried, Try
  <2>2. q # p /\ IndexOf(q) # p /\ Front(p) # q
    BY <1>7, <2>1
  <2>. HIDE DEF q
  <2>3. Children(tree', q) = Children(tree, q)
    BY <1>8, <2>2 DEF Children
  <2>4. \A r \in Children(tree, q) : r \in Places /\ r # p
    BY <2>2 DEF Children
  <2>5. Children(tree, Trim(UrlOf(Order[i])))' = Children(tree', Trim(UrlOf(Order[i])))
    BY <1>3 DEF Children
  <2>. QED
    BY <1>8, <2>2, <2>3, <2>4, <2>5 DEF q
<1>12. \A i \in 1..Len(Order) :
         /\ OutcomeOn(tree', i) = OutcomeOn(tree, i) /\ OutcomeOn(tree, i)' = OutcomeOn(tree, i)
         /\ PassedOn(tree', i) = PassedOn(tree, i) /\ PassedOn(tree, i)' = PassedOn(tree, i)
         /\ Deep(i)' = Deep(i)
  <2>1. \A i \in 1..Len(Order) : OutcomeOn(tree', i) = OutcomeOn(tree, i)
    BY <1>10, <1>11 DEF OutcomeOn, Outcome
  <2>2. \A i : OutcomeOn(tree, i)' = OutcomeOn(tree', i)
    BY <1>3 DEF OutcomeOn, Outcome, At
  <2>3. \A i \in 1..Len(Order) : Deep(i)' = Deep(i)
    BY <1>3, <1>10, <1>11 DEF Deep
  <2>. QED
    BY <1>3, <2>1, <2>2, <2>3 DEF PassedOn
<1>13. \A i \in 1..Len(Order) : True(i) => True(i)'
  <2>. SUFFICES ASSUME NEW i \in 1..Len(Order), True(i) PROVE True(i)'
    OBVIOUS
  <2>1. /\ At(tree, Trim(UrlOf(Order[i])))' = At(tree, Trim(UrlOf(Order[i])))
        /\ Children(tree, Trim(UrlOf(Order[i])))' = Children(tree, Trim(UrlOf(Order[i])))
    BY <1>3, <1>10, <1>11
  <2>2. pc = "lone" => tree'[walk.place] = tree[walk.place]
    BY <1>11 DEF True
  <2>. QED
    BY <1>1, <1>3, <1>12, <2>1, <2>2 DEF True, CleanStages
<1>14. \A i \in 1..Len(Order) : AnswerOn(tree', i) = AnswerOn(tree, i)
  <2>1. \A i \in 1..Len(Order) :
          LET q == Trim(UrlOf(Order[i])) IN DirectoryAnswer(cfg, tree', q) = DirectoryAnswer(cfg, tree, q)
    <3>. SUFFICES ASSUME NEW i \in 1..Len(Order)
                  PROVE  DirectoryAnswer(cfg, tree', Trim(UrlOf(Order[i])))
                           = DirectoryAnswer(cfg, tree, Trim(UrlOf(Order[i])))
      OBVIOUS
    <3>. DEFINE q == Trim(UrlOf(Order[i]))
                lonely(t) == cfg.single /\ \E r \in Children(t, q) : Children(t, q) = {r} /\ t[r] # "dir"
    <3>1. Children(tree', q) = Children(tree, q) /\ \A r \in Children(tree, q) : tree'[r] = tree[r]
      BY <1>11
    <3>. HIDE DEF q
    <3>2. lonely(tree') = lonely(tree)
      BY <3>1
    <3>3. CASE lonely(tree)
      <4>1. PICK r \in Children(tree, q) : cfg.single /\ Children(tree, q) = {r} /\ tree[r] # "dir"
        BY <3>3
      <4>2. tree[r] \in Kinds /\ tree[r] # "none" /\ tree'[r] = tree[r]
        BY <1>2, <3>1, <4>1 DEF Children
      <4>3. CASE tree[r] = "file"
        BY <3>1, <4>1, <4>2, <4>3, DirectoryAnswers DEF q
      <4>4. CASE tree[r] = "out"
        BY <3>1, <4>1, <4>2, <4>4, DirectoryAnswers DEF q
      <4>. QED
        BY <4>1, <4>2, <4>3, <4>4 DEF Kinds
    <3>4. CASE ~lonely(tree) /\ cfg.listing
      BY <3>2, <3>4, DirectoryAnswers DEF q
    <3>5. CASE ~lonely(tree) /\ ~cfg.listing
      BY <3>2, <3>5, DirectoryAnswers DEF q
    <3>. QED
      BY <3>3, <3>4, <3>5 DEF q
  <2>. QED
    BY <1>12, <2>1 DEF AnswerOn
<1>15. Atomic(cfg, Path, tree') = Atomic(cfg, Path, tree)
  <2>1. CASE \A j \in 1..Len(Order) : PassedOn(tree, j)
    BY <1>12, <2>1, AtomicNone
  <2>2. ASSUME NEW k \in 1..Len(Order), ~PassedOn(tree, k), \A j \in 1..(k - 1) : PassedOn(tree, j)
        PROVE  Atomic(cfg, Path, tree') = Atomic(cfg, Path, tree)
    <3>1. Len(Order) \in 1..3
      BY TriesInOrder
    <3>2. ~PassedOn(tree', k) /\ \A j \in 1..(k - 1) : PassedOn(tree', j)
      BY <1>12, <2>2, <3>1
    <3>3. Atomic(cfg, Path, tree') = AnswerOn(tree', k) /\ Atomic(cfg, Path, tree) = AnswerOn(tree, k)
      BY <2>2, <3>2, AtomicFirst
    <3>. QED
      BY <1>14, <3>3
  <2>. QED
    BY <2>1, <2>2, FirstOrNone
<1>16. Atomic(cfg, Path, tree)' = Atomic(cfg, Path, tree)
  BY <1>1, <1>3, <1>15
<1>17. Walked' => Walked
  BY <1>1 DEF Walked, Served
<1>18. \A i \in 1..Len(Order) : (\A j \in 1..(i - 1) : PassedOn(tree, j)) => (\A j \in 1..(i - 1) : PassedOn(tree, j))'
  <2>1. Len(Order) \in 1..3
    BY TriesInOrder
  <2>. QED
    BY <1>12, <2>1
<1>19. ServedFromOutside => ServedFromOutside'
  <2>1. ASSUME NEW i \in 1..Len(Order), NEW q \in Places, cfg.single,
               Children(tree, Trim(UrlOf(Order[i]))) = {q}, tree[q] = "out", answer = FileAt(q)
        PROVE  Outside(answer)'
    <3>1. Children(tree, Trim(UrlOf(Order[i])))' = {q} /\ tree'[q] = "out"
      BY <1>11, <2>1
    <3>2. Order' = Order /\ cfg' = cfg /\ answer' = answer /\ FileAt(q)' = FileAt(q)
      BY <1>1, <1>3 DEF FileAt
    <3>. QED
      BY <2>1, <3>1, <3>2 DEF Outside
  <2>2. Outside(answer) => Outside(answer)'
    BY <2>1 DEF Outside
  <2>3. ServedFromOutside' <=> Outside(answer)'
    BY OutsideServed, PTL
  <2>. QED
    BY <2>2, <2>3, OutsideServed
<1>. QED
  BY <1>1, <1>3, <1>9, <1>13, <1>16, <1>17, <1>18, <1>19 DEF CalmInv, StableInv

LEMMA StableInvNext == StableInv /\ [Next]_vars => StableInv'
<1>. SUFFICES ASSUME StableInv, [Next]_vars PROVE StableInv'
  OBVIOUS
<1>0. OrderInv'
  BY OrderInvNext DEF StableInv
<1>. SUFFICES CalmInv'
  BY <1>0 DEF StableInv
<1>1. ASSUME NEW p \in Places, NEW node \in Kinds, Change(p, node), tree[p] # node PROVE CalmInv'
  BY <1>1, ChangeElsewhere DEF CalmInv
<1>2. ASSUME NEW p \in Places, Delete(p) PROVE CalmInv'
  BY <1>1, <1>2 DEF Delete, Kinds
<1>3. ASSUME NEW p \in Places, NEW node \in Kinds, Create(p, node) PROVE CalmInv'
  BY <1>1, <1>3 DEF Create
<1>4. ASSUME NEW rq, NEW visited, Ask(rq, visited) PROVE CalmInv'
  BY <1>4 DEF Ask, CalmInv, Walking, Walked
<1>5. CASE Close
  BY <1>5 DEF Close, CalmInv, Walking, Walked
<1>6. CASE Handler
  BY <1>6, RouteIsStable, ProbeIsStable, ProbeIndexIsStable, CanonicalizeIsStable, ReadIsStable,
     ListIsStable DEF Handler
<1>7. CASE UNCHANGED vars
  <2>1. Untouched /\ UNCHANGED <<pc, walk, answer, tree, cfg, req>> /\ TreeInv
    BY <1>7 DEF vars, Untouched, history, StableInv, OrderInv
  <2>2. /\ Calm' = Calm /\ Order' = Order /\ Atomic(cfg, Path, tree)' = Atomic(cfg, Path, tree)
        /\ \A i : UrlOf(Order[i])' = UrlOf(Order[i]) /\ OutcomeOn(tree, i)' = OutcomeOn(tree, i)
        /\ \A i : PassedOn(tree, i)' = PassedOn(tree, i) /\ Deep(i)' = Deep(i)
        /\ \A q : At(tree, q)' = At(tree, q)
    BY <2>1, HandlerIsCalm, HandlerKeeps
  <2>3. \A q : Children(tree, q)' = Children(tree, q)
    BY <2>1 DEF Children
  <2>4. \A i : True(i)' = True(i)
    BY <2>1, <2>2, <2>3 DEF True, CleanStages
  <2>5. Walked' = Walked /\ ServedFromOutside' = ServedFromOutside
    BY <2>1, <2>3 DEF Walked, Served, ServedFromOutside, Path
  <2>. QED
    BY <2>1, <2>2, <2>4, <2>5 DEF CalmInv, StableInv
<1>. QED
  BY <1>2, <1>3, <1>4, <1>5, <1>6, <1>7 DEF Next, Open, Follow

(* ANSWERS STAND STILL.  A request whose candidates do not change while it *)
(* is handled gets the answer of the documented order of candidates on the *)
(* tree as it is, with any number of awaits and of changes elsewhere.      *)
THEOREM AnswersStandStill == Spec => []StableAnswer
<1>1. Init => StableInv
  BY StableInvInit
<1>2. StableInv /\ [Next]_vars => StableInv'
  BY StableInvNext
<1>3. StableInv => StableAnswer
  BY StableInvImplies
<1>. QED
  BY <1>1, <1>2, <1>3, PTL DEF Spec
-----------------------------------------------------------------------------
(* Everything stays what it is: a tree a tree, a URL a URL.                *)
TypeInv == OrderInv /\ TypeOK /\ (answer.status = 301 => IsUrl(answer.location))

LEMMA RootUrl == IsUrl(Root) /\ Empty \in Parts
<1>1. "" \in STRING
  BY TextsAssumption, Zenon
<1>2. \A stem \in STRING : Part(stem, <<>>) \in Parts
  BY DEF Part, Parts
<1>3. Empty \in Parts
  BY <1>1, <1>2, Zenon DEF Empty
<1>4. \A part \in Parts : <<part>> \in Seq(Parts) /\ <<part>> # <<>>
  OBVIOUS
<1>. QED
  BY <1>3, <1>4, Zenon DEF Root, IsUrl

LEMMA Fronted ==
  ASSUME NEW T, NEW s \in Seq(T), s # <<>>
  PROVE  /\ Len(s) \in Nat \ {0} /\ Front(s) \in Seq(T) /\ Len(Front(s)) = Len(s) - 1
         /\ Last(s) = s[Len(s)] /\ Last(s) \in T
<1>1. Len(s) \in Nat \ {0} /\ \A i \in 1..Len(s) : s[i] \in T
  BY EmptySeq
<1>. DEFINE n == Len(s) - 1
<1>2. n \in Nat /\ 1 \in Int /\ \A i \in 1..n : s[i] \in T
  BY <1>1
<1>3. SubSeq(s, 1, n) \in Seq(T) /\ Len(SubSeq(s, 1, n)) = IF 1 <= n THEN n - 1 + 1 ELSE 0
  BY <1>2, SubSeqProperties
<1>. HIDE DEF n
<1>4. Len(SubSeq(s, 1, n)) = n
  BY <1>2, <1>3
<1>. QED
  BY <1>1, <1>3, <1>4 DEF Front, Last, n

LEMMA Appended ==
  ASSUME NEW T, NEW s \in Seq(T), NEW x \in T
  PROVE  Append(s, x) \in Seq(T) /\ Append(s, x) # <<>>
<1>1. Append(s, x) \in Seq(T) /\ Len(Append(s, x)) = Len(s) + 1 /\ Len(s) \in Nat
  OBVIOUS
<1>2. Len(<<>>) = 0
  OBVIOUS
<1>. QED
  BY <1>1, <1>2

TrimStep(p, part, q) == IF NonEmpty(part) THEN Append(p, part) ELSE p

Same(v, w, q) == v = w

Trims == INSTANCE FoldLaws WITH Op <- TrimStep, Rel <- Same

LEMMA TrimFolds ==
  ASSUME NEW u
  PROVE  Trim(u) = Trims!Fold(<<>>, u, 0)
BY Zenon DEF Trim, TrimStep, Trims!Fold, Trims!FoldLeft, FoldLeft,
             Trims!MapThenFoldSet, MapThenFoldSet, Trims!Max, Max

LEMMA TrimIn ==
  ASSUME NEW u \in Seq(Parts)
  PROVE  Trim(u) \in Seq(Parts)
<1>1. Len(u) \in Nat /\ DOMAIN u = 1..Len(u)
  OBVIOUS
<1>2. \A i \in 1..Len(u) : \A h \in Seq(Parts) : TrimStep(h, u[i], 0) \in Seq(Parts)
  <2>1. \A i \in 1..Len(u) : u[i] \in Parts
    OBVIOUS
  <2>. QED
    BY <2>1, Appended DEF TrimStep
<1>3. <<>> \in Seq(Parts)
  OBVIOUS
<1>4. Trims!Fold(<<>>, u, 0) \in Seq(Parts)
  BY <1>1, <1>2, <1>3, Trims!FoldIn
<1>. QED
  BY <1>4, TrimFolds

LEMMA Collapsed ==
  ASSUME NEW u, IsUrl(u)
  PROVE  IsUrl(collapse_slashes(u))
<1>1. Front(u) \in Seq(Parts) /\ Last(u) \in Parts
  BY Fronted DEF IsUrl
<1>2. Trim(Front(u)) \in Seq(Parts)
  BY <1>1, TrimIn
<1>. QED
  BY <1>1, <1>2, Appended DEF collapse_slashes, IsUrl

LEMMA CleanUrl ==
  ASSUME NEW u, IsUrl(u), NEW clean, CleanUrlsRedirects(clean, u)
  PROVE  IsUrl(compute_clean_urls_redirect(u))
<1>1. u \in Seq(Parts) /\ Len(u) \in Nat \ {0} /\ Last(u) = u[Len(u)] /\ Last(u) \in Parts
  BY Fronted DEF IsUrl
<1>2. CASE HtmlPath(u)
  <2>. DEFINE n == Len(u)
              exts == u[n].exts
              part == [u[n] EXCEPT !.exts = Front(@)]
  <2>1. exts \in Seq(STRING) /\ exts # <<>>
    BY <1>1, <1>2 DEF HtmlPath, Parts
  <2>2. Front(exts) \in Seq(STRING)
    <3>. HIDE DEF exts
    <3>. QED
      BY <2>1, Fronted
  <2>3. part \in Parts
    BY <1>1, <2>2 DEF Parts
  <2>4. Stripped(u) = [u EXCEPT ![n] = part]
    BY <1>1, <1>2 DEF Stripped
  <2>. HIDE DEF part
  <2>5. Stripped(u) \in Seq(Parts) /\ Len(Stripped(u)) = Len(u)
    BY <1>1, <2>3, <2>4, ExceptSeq
  <2>6. Stripped(u) # <<>>
    BY <1>1, <2>5
  <2>. QED
    BY <2>5, <2>6, Collapsed DEF compute_clean_urls_redirect, IsUrl
<1>3. CASE ~HtmlPath(u) /\ Len(u) = 1
  BY <1>3, RootUrl, Collapsed DEF Stripped, compute_clean_urls_redirect
<1>4. CASE ~HtmlPath(u) /\ Len(u) # 1
  <2>1. Front(u) \in Seq(Parts) /\ Len(Front(u)) = Len(u) - 1
    BY Fronted DEF IsUrl
  <2>2. Front(u) # <<>>
    BY <1>1, <1>4, <2>1
  <2>. QED
    BY <1>4, <2>1, <2>2, Collapsed DEF Stripped, compute_clean_urls_redirect, IsUrl
<1>. QED
  BY <1>2, <1>3, <1>4

LEMMA SlashUrl ==
  ASSUME NEW u, IsUrl(u), NEW slash, TrailingSlashRedirects(slash, u)
  PROVE  IsUrl(compute_trailing_slash_redirect(slash, u))
<1>1. CASE HasDoubleSlash(u)
  <2>1. compute_trailing_slash_redirect(slash, u) = collapse_slashes(u)
    BY <1>1, Zenon DEF compute_trailing_slash_redirect
  <2>. QED
    BY <2>1, Collapsed
<1>2. CASE ~HasDoubleSlash(u) /\ slash = "add"
  <2>1. compute_trailing_slash_redirect(slash, u) = Append(u, Empty)
    <3>1. \A x, y, z : (CASE FALSE -> x [] "add" = "add" -> y [] "add" = "strip" -> z) = y
      OBVIOUS
    <3>. QED
      BY <1>2, <3>1 DEF compute_trailing_slash_redirect
  <2>2. u \in Seq(Parts)
    BY DEF IsUrl
  <2>. QED
    BY <2>1, <2>2, RootUrl, Appended DEF IsUrl
<1>3. CASE ~HasDoubleSlash(u) /\ slash = "strip"
  <2>1. compute_trailing_slash_redirect(slash, u) = Front(u)
    BY <1>3 DEF compute_trailing_slash_redirect
  <2>2. Len(u) > 1
    BY <1>3 DEF TrailingSlashRedirects, SlashExtra
  <2>3. Front(u) \in Seq(Parts) /\ Len(Front(u)) = Len(u) - 1 /\ Len(u) \in Nat
    BY Fronted DEF IsUrl
  <2>4. Front(u) # <<>>
    BY <2>2, <2>3
  <2>. QED
    BY <2>1, <2>3, <2>4 DEF IsUrl
<1>. QED
  BY <1>1, <1>2, <1>3 DEF TrailingSlashRedirects

LEMMA ConfiguredUrl ==
  ASSUME cfg \in Configs, NEW u, ConfiguredRedirects(cfg.redirects, u)
  PROVE  /\ IsUrl(compute_configured_redirects(cfg.redirects, u))
         /\ compute_configured_redirects(cfg.redirects, u) \in Destinations
<1>. DEFINE rules == cfg.redirects
            M == MatchingRules(rules, u)
            i == FirstMatch(rules, u)
<1>1. rules \in Seq(Range(rules)) /\ \A rule \in Range(rules) : IsUrl(rule.destination)
  BY ConfigsAssumption
<1>2. M \in SUBSET Nat /\ M \subseteq DOMAIN rules
  BY <1>1 DEF MatchingRules
<1>3. M # {}
  BY DEF ConfiguredRedirects
<1>. HIDE DEF M
<1>4. \E j \in M : \A l \in M : j <= l
  BY <1>2, <1>3, Trims!Least
<1>5. i \in M
  BY <1>4, Zenon DEF FirstMatch, M
<1>6. rules[i] \in Range(rules)
  BY <1>2, <1>5 DEF Range
<1>7. rules[i].destination \in Destinations
  BY <1>2, <1>5 DEF Destinations
<1>. QED
  BY <1>1, <1>6, <1>7 DEF compute_configured_redirects

-----------------------------------------------------------------------------
(* The redirects end.  What a redirect leads to is lighter than where it   *)
(* came from, but for the ones of serve.json: cleanUrls takes a suffix or  *)
(* a name off, which trailingSlash does not put on, collapsing the slashes *)
(* changes neither, and a slash is added or taken at most once.            *)
WeightStep(n, part, q) == n + 1 + Len(part.exts)

Weights == INSTANCE FoldLaws WITH Op <- WeightStep, Rel <- Same

Weight(p) == Weights!Fold(0, p, 0)

Unsettled(slash, u) ==
  \/ slash = "add"   /\ SlashMissing(u)
  \/ slash = "strip" /\ SlashExtra(u)

Rank(slash, u) ==
  3 * Weight(Trim(u)) + (IF HasDoubleSlash(u) THEN 2 ELSE 0) + (IF Unsettled(slash, u) THEN 1 ELSE 0)

LEMMA Weighed ==
  ASSUME NEW p \in Seq(Parts)
  PROVE  Weight(p) \in Nat
<1>1. Len(p) \in Nat /\ DOMAIN p = 1..Len(p) /\ \A i \in 1..Len(p) : p[i] \in Parts
  OBVIOUS
<1>2. ASSUME NEW i \in 1..Len(p), NEW n \in Nat PROVE WeightStep(n, p[i], 0) \in Nat
  <2>1. p[i].exts \in Seq(STRING)
    BY <1>1 DEF Parts
  <2>2. Len(p[i].exts) \in Nat
    BY <2>1
  <2>. DEFINE l == Len(p[i].exts)
  <2>3. WeightStep(n, p[i], 0) = n + 1 + l
    BY DEF WeightStep
  <2>4. l \in Nat
    BY <2>2, Zenon
  <2>. HIDE DEF l
  <2>5. n + 1 + l \in Nat
    BY <2>4
  <2>. QED
    BY <2>3, <2>5, Zenon
<1>3. Weights!Fold(0, p, 0) \in Nat
  <2>1. 0 \in Nat
    OBVIOUS
  <2>2. \A i \in 1..Len(p) : \A n \in Nat : WeightStep(n, p[i], 0) \in Nat
    BY <1>2
  <2>. QED
    BY <1>1, <2>1, <2>2, Weights!FoldIn, Zenon
<1>. QED
  BY <1>3 DEF Weight

LEMMA WeightAppend ==
  ASSUME NEW p \in Seq(Parts), NEW part \in Parts
  PROVE  /\ Weight(Append(p, part)) = Weight(p) + 1 + Len(part.exts)
         /\ Len(part.exts) \in Nat
<1>1. Weight(Append(p, part)) = WeightStep(Weight(p), part, 0)
  BY Weights!FoldAppend, Zenon DEF Weight
<1>2. Len(part.exts) \in Nat
  BY DEF Parts
<1>. QED
  BY <1>1, <1>2 DEF WeightStep

LEMMA TrimAppend ==
  ASSUME NEW u \in Seq(Parts), NEW part \in Parts
  PROVE  Trim(Append(u, part)) = IF part # Empty THEN Append(Trim(u), part) ELSE Trim(u)
<1>1. Trim(Append(u, part)) = TrimStep(Trim(u), part, 0)
  <2>1. Trim(Append(u, part)) = Trims!Fold(<<>>, Append(u, part), 0) /\ Trim(u) = Trims!Fold(<<>>, u, 0)
    BY TrimFolds, Zenon
  <2>2. Trims!Fold(<<>>, Append(u, part), 0) = TrimStep(Trims!Fold(<<>>, u, 0), part, 0)
    BY Trims!FoldAppend, Zenon
  <2>. QED
    BY <2>1, <2>2, Zenon
<1>. QED
  BY <1>1, Zenon DEF TrimStep, NonEmpty

LEMMA TrimOfNothing == Trim(<<>>) = <<>>
<1>1. <<>> \in Seq({0}) /\ 0 \in {0}
  OBVIOUS
<1>. QED
  BY <1>1, TrimFolds, Trims!FoldAppend, Zenon

LEMMA FrontAndLast ==
  ASSUME NEW T, NEW s \in Seq(T), s # <<>>
  PROVE  s = Append(Front(s), Last(s))
<1>. DEFINE f == Front(s)
            x == Last(s)
            n == Len(s)
<1>1. n \in Nat \ {0} /\ f \in Seq(T) /\ Len(f) = n - 1 /\ x = s[n] /\ x \in T
  BY Fronted
<1>2. \A i \in 1..n - 1 : f[i] = s[i]
  BY <1>1 DEF Front
<1>. HIDE DEF f, x
<1>3. /\ Append(f, x) \in Seq(T) /\ Len(Append(f, x)) = Len(f) + 1
      /\ Append(f, x)[Len(f) + 1] = x /\ \A i \in 1..Len(f) : Append(f, x)[i] = f[i]
  BY <1>1
<1>4. \A i \in 1..n : i \in 1..n - 1 \/ i = n
  BY <1>1
<1>5. Len(Append(f, x)) = n /\ \A i \in 1..n : Append(f, x)[i] = s[i]
  BY <1>1, <1>2, <1>3, <1>4
<1>. QED
  BY <1>3, <1>5 DEF f, x

(* A trimmed URL is trimmed. *)
LEMMA TrimTwice ==
  ASSUME NEW u \in Seq(Parts)
  PROVE  /\ Trim(u) \in Seq(Parts) /\ Trim(Trim(u)) = Trim(u)
         /\ \A i \in 1..Len(Trim(u)) : Trim(u)[i] # Empty
<1>. DEFINE S == {p \in Seq(Parts) : Trim(p) = p /\ \A i \in 1..Len(p) : p[i] # Empty}
<1>1. <<>> \in S
  BY TrimOfNothing
<1>2. ASSUME NEW part \in Parts, NEW p \in S PROVE TrimStep(p, part, 0) \in S
  <2>1. CASE part = Empty
    BY <2>1 DEF TrimStep, NonEmpty
  <2>2. CASE part # Empty
    <3>1. TrimStep(p, part, 0) = Append(p, part)
      BY <2>2 DEF TrimStep, NonEmpty
    <3>2. p \in Seq(Parts) /\ Trim(p) = p /\ \A i \in 1..Len(p) : p[i] # Empty
      OBVIOUS
    <3>3. Trim(Append(p, part)) = Append(p, part)
      BY <2>2, <3>2, TrimAppend
    <3>4. /\ Append(p, part) \in Seq(Parts) /\ Len(Append(p, part)) = Len(p) + 1 /\ Len(p) \in Nat
          /\ Append(p, part)[Len(p) + 1] = part /\ \A i \in 1..Len(p) : Append(p, part)[i] = p[i]
      BY <3>2
    <3>5. \A i \in 1..Len(p) + 1 : i \in 1..Len(p) \/ i = Len(p) + 1
      BY <3>4
    <3>6. \A i \in 1..Len(Append(p, part)) : Append(p, part)[i] # Empty
      BY <2>2, <3>2, <3>4, <3>5
    <3>. QED
      BY <3>1, <3>3, <3>4, <3>6
  <2>. QED
    BY <2>1, <2>2
<1>3. Len(u) \in Nat /\ DOMAIN u = 1..Len(u) /\ \A i \in 1..Len(u) : u[i] \in Parts
  OBVIOUS
<1>. HIDE DEF S
<1>4. \A i \in 1..Len(u) : \A p \in S : TrimStep(p, u[i], 0) \in S
  BY <1>2, <1>3
<1>5. Trims!Fold(<<>>, u, 0) \in S
  BY <1>1, <1>3, <1>4, Trims!FoldIn
<1>. QED
  BY <1>5, TrimFolds DEF S

LEMMA CollapseKeeps ==
  ASSUME NEW u, IsUrl(u)
  PROVE  Trim(collapse_slashes(u)) = Trim(u) /\ ~HasDoubleSlash(collapse_slashes(u))
<1>. DEFINE f == Front(u)
            x == Last(u)
            t == Trim(f)
            c == Append(t, x)
<1>1. f \in Seq(Parts) /\ x \in Parts /\ u = Append(f, x)
  BY Fronted, FrontAndLast DEF IsUrl
<1>2. collapse_slashes(u) = c
  BY DEF collapse_slashes
<1>. HIDE DEF f, x
<1>3. t \in Seq(Parts) /\ Trim(t) = t /\ \A i \in 1..Len(t) : t[i] # Empty
  BY <1>1, TrimTwice
<1>4. Trim(u) = (IF x # Empty THEN Append(t, x) ELSE t)
  BY <1>1, TrimAppend
<1>. HIDE DEF t
<1>5. Trim(c) = (IF x # Empty THEN Append(t, x) ELSE t)
  BY <1>1, <1>3, TrimAppend
<1>6. Len(c) = Len(t) + 1 /\ Len(t) \in Nat /\ \A i \in 1..Len(t) : c[i] = t[i]
  BY <1>1, <1>3
<1>. HIDE DEF c
<1>7. \A i \in 1..(Len(c) - 1) : c[i] # Empty
  BY <1>3, <1>6
<1>. QED
  BY <1>2, <1>4, <1>5, <1>7 DEF HasDoubleSlash

(* What cleanUrls takes off. *)
LEMMA StrippedIsLighter ==
  ASSUME NEW u, IsUrl(u), HtmlPath(u) \/ IndexPath(u)
  PROVE  IsUrl(Stripped(u)) /\ Weight(Trim(Stripped(u))) < Weight(Trim(u))
<1>. DEFINE f == Front(u)
            x == Last(u)
            t == Trim(f)
<1>1. f \in Seq(Parts) /\ x \in Parts /\ u = Append(f, x) /\ Len(u) \in Nat \ {0} /\ Len(f) = Len(u) - 1
      /\ x = u[Len(u)] /\ u \in Seq(Parts)
  BY Fronted, FrontAndLast DEF IsUrl
<1>2. t \in Seq(Parts) /\ Weight(t) \in Nat
  BY <1>1, TrimTwice, Weighed
<1>3. x # Empty => Weight(Trim(u)) = Weight(t) + 1 + Len(x.exts) /\ Len(x.exts) \in Nat
  BY <1>1, <1>2, TrimAppend, WeightAppend
<1>4. CASE HtmlPath(u)
  <2>. DEFINE y == [x EXCEPT !.exts = Front(@)]
  <2>1. x.exts \in Seq(STRING) /\ x.exts # <<>>
    BY <1>1, <1>4 DEF HtmlPath, Parts
  <2>2. Front(x.exts) \in Seq(STRING) /\ Len(Front(x.exts)) = Len(x.exts) - 1 /\ Len(x.exts) \in Nat \ {0}
    <3>. HIDE DEF x
    <3>. QED
      BY <2>1, Fronted
  <2>3. y \in Parts /\ Len(y.exts) = Len(x.exts) - 1 /\ x # Empty
    <3>. HIDE DEF x
    <3>1. y \in Parts /\ y.exts = Front(x.exts)
      BY <1>1, <2>2 DEF Parts
    <3>2. Empty.exts = <<>>
      BY Zenon DEF Empty, Part
    <3>. QED
      BY <2>1, <2>2, <3>1, <3>2
  <2>4. Stripped(u) = [u EXCEPT ![Len(u)] = y]
    BY <1>1, <1>4 DEF Stripped
  <2>. HIDE DEF y
  <2>5. Stripped(u) = Append(f, y)
    <3>1. /\ [u EXCEPT ![Len(u)] = y] \in Seq(Parts) /\ Len([u EXCEPT ![Len(u)] = y]) = Len(u)
          /\ \A i \in 1..Len(u) : [u EXCEPT ![Len(u)] = y][i] = IF i = Len(u) THEN y ELSE u[i]
      BY <1>1, <2>3, ExceptSeq
    <3>2. /\ Append(f, y) \in Seq(Parts) /\ Len(Append(f, y)) = Len(u)
          /\ \A i \in 1..Len(u) : Append(f, y)[i] = IF i = Len(u) THEN y ELSE f[i]
      BY <1>1, <2>3
    <3>3. \A i \in 1..Len(f) : u[i] = f[i]
      BY <1>1
    <3>4. \A i \in 1..Len(u) : i = Len(u) \/ i \in 1..Len(f)
      BY <1>1
    <3>. DEFINE a == [u EXCEPT ![Len(u)] = y]
                b == Append(f, y)
    <3>. HIDE DEF f, x, a, b
    <3>5. \A i \in 1..Len(u) : a[i] = b[i]
      BY <3>1, <3>2, <3>3, <3>4 DEF a, b
    <3>6. a \in Seq(Parts) /\ b \in Seq(Parts) /\ Len(a) = Len(u) /\ Len(b) = Len(u)
      BY <3>1, <3>2 DEF a, b
    <3>7. a = b
      BY <3>5, <3>6
    <3>. QED
      BY <2>4, <3>7, Zenon DEF a, b
  <2>6. IsUrl(Stripped(u))
    <3>. HIDE DEF f
    <3>. QED
      BY <1>1, <2>3, <2>5, Appended DEF IsUrl
  <2>7. CASE y # Empty
    <3>1. Weight(Trim(Stripped(u))) = Weight(t) + 1 + Len(y.exts)
      <4>. HIDE DEF f, x
      <4>1. Trim(Stripped(u)) = Append(t, y)
        BY <1>1, <2>3, <2>5, <2>7, TrimAppend, Zenon
      <4>. HIDE DEF t
      <4>2. Weight(Append(t, y)) = Weight(t) + 1 + Len(y.exts)
        BY <1>2, <2>3, WeightAppend, Zenon
      <4>. QED
        BY <4>1, <4>2, Zenon
    <3>. QED
      BY <1>2, <1>3, <2>2, <2>3, <2>6, <3>1
  <2>8. CASE y = Empty
    <3>1. Weight(Trim(Stripped(u))) = Weight(t)
      BY <1>1, <2>3, <2>5, <2>8, TrimAppend
    <3>. QED
      BY <1>2, <1>3, <2>3, <2>6, <3>1
  <2>. QED
    BY <2>7, <2>8
<1>5. CASE ~HtmlPath(u) /\ IndexPath(u)
  <2>1. x # Empty
    <3>1. IndexPart.stem = "index" /\ Empty.stem = ""
      BY Zenon DEF IndexPart, Empty, Part
    <3>2. x = IndexPart
      BY <1>5 DEF IndexPath
    <3>3. "index" # ""
      BY Zenon
    <3>. QED
      BY <3>1, <3>2, <3>3, Zenon
  <2>2. CASE Len(u) = 1
    <3>1. Stripped(u) = Root
      BY <1>5, <2>2, Zenon DEF Stripped
    <3>2. Root = Append(<<>>, Empty)
      BY DEF Root
    <3>3. Trim(Root) = <<>>
      <4>1. Trim(Append(<<>>, Empty)) = Trim(<<>>)
        <5>1. <<>> \in Seq(Parts)
          OBVIOUS
        <5>. QED
          BY <5>1, RootUrl, TrimAppend, Zenon
      <4>. QED
        BY <3>2, <4>1, TrimOfNothing
    <3>4. f = <<>>
      BY <1>1, <2>2
    <3>5. t = <<>>
      BY <3>4, TrimOfNothing
    <3>. QED
      BY <1>2, <1>3, <2>1, <3>1, <3>3, <3>5, RootUrl
  <2>3. CASE Len(u) # 1
    <3>1. Stripped(u) = f
      BY <1>5, <2>3, Zenon DEF Stripped
    <3>2. f # <<>>
      BY <1>1, <2>3
    <3>. QED
      BY <1>1, <1>2, <1>3, <2>1, <3>1, <3>2 DEF IsUrl
  <2>. QED
    BY <2>2, <2>3
<1>. QED
  BY <1>4, <1>5

LEMMA Ranked ==
  ASSUME NEW u, IsUrl(u), NEW slash
  PROVE  Rank(slash, u) \in Nat /\ Weight(Trim(u)) \in Nat
<1>1. Weight(Trim(u)) \in Nat
  BY TrimTwice, Weighed DEF IsUrl
<1>. QED
  BY <1>1 DEF Rank

(* A collapsed URL has a rank by its weight, but for one slash.            *)
LEMMA CollapsedRank ==
  ASSUME NEW u, IsUrl(u), NEW slash
  PROVE  Rank(slash, collapse_slashes(u)) \in 3 * Weight(Trim(u))..3 * Weight(Trim(u)) + 1
<1>. DEFINE w == Weight(Trim(u))
<1>1. w \in Nat
  BY Ranked
<1>2. Rank(slash, collapse_slashes(u)) = 3 * w + 0 + (IF Unsettled(slash, collapse_slashes(u)) THEN 1 ELSE 0)
  BY CollapseKeeps, Zenon DEF Rank
<1>. HIDE DEF w
<1>3. 3 * w + 0 + (IF Unsettled(slash, collapse_slashes(u)) THEN 1 ELSE 0) \in 3 * w..3 * w + 1
  BY <1>1
<1>. QED
  BY <1>2, <1>3 DEF w

LEMMA CleanDescends ==
  ASSUME NEW u, IsUrl(u), NEW slash, NEW clean, CleanUrlsRedirects(clean, u)
  PROVE  Rank(slash, compute_clean_urls_redirect(u)) < Rank(slash, u)
<1>. DEFINE v == Stripped(u)
            w == Weight(Trim(u))
            l == Weight(Trim(v))
            r == Rank(slash, collapse_slashes(v))
<1>1. IsUrl(v) /\ l < w
  BY StrippedIsLighter, Zenon DEF CleanUrlsRedirects
<1>2. w \in Nat /\ l \in Nat
  BY <1>1, Ranked
<1>3. r \in 3 * l..3 * l + 1
  BY <1>1, CollapsedRank
<1>4. compute_clean_urls_redirect(u) = collapse_slashes(v)
  BY DEF compute_clean_urls_redirect
<1>5. Rank(slash, u) = 3 * w + (IF HasDoubleSlash(u) THEN 2 ELSE 0) + (IF Unsettled(slash, u) THEN 1 ELSE 0)
  BY Zenon DEF Rank
<1>. HIDE DEF v, w, l, r
<1>. QED
  BY <1>1, <1>2, <1>3, <1>4, <1>5 DEF r

LEMMA SlashDescends ==
  ASSUME NEW u, IsUrl(u), NEW slash, TrailingSlashRedirects(slash, u)
  PROVE  Rank(slash, compute_trailing_slash_redirect(slash, u)) < Rank(slash, u)
<1>. DEFINE w == Weight(Trim(u))
            v == compute_trailing_slash_redirect(slash, u)
<1>1. w \in Nat
  BY Ranked
<1>2. Rank(slash, u) = 3 * w + (IF HasDoubleSlash(u) THEN 2 ELSE 0) + (IF Unsettled(slash, u) THEN 1 ELSE 0)
  BY Zenon DEF Rank
<1>. HIDE DEF w
<1>3. CASE HasDoubleSlash(u)
  <2>1. v = collapse_slashes(u)
    BY <1>3, Zenon DEF compute_trailing_slash_redirect
  <2>2. Rank(slash, v) \in 3 * w..3 * w + 1
    BY <2>1, CollapsedRank DEF w
  <2>3. Rank(slash, u) = 3 * w + 2 + (IF Unsettled(slash, u) THEN 1 ELSE 0)
    BY <1>2, <1>3, Zenon
  <2>4. Rank(slash, u) \in 3 * w + 2..3 * w + 3
    BY <1>1, <2>3
  <2>. HIDE DEF v
  <2>5. Rank(slash, v) < Rank(slash, u)
    BY <1>1, <2>2, <2>4
  <2>. QED
    BY <2>5 DEF v
<1>4. ASSUME ~HasDoubleSlash(u), Trim(v) = Trim(u), ~HasDoubleSlash(v), ~Unsettled(slash, v), Unsettled(slash, u)
      PROVE  Rank(slash, v) < Rank(slash, u)
  <2>1. Rank(slash, v) = 3 * w
    <3>1. Rank(slash, v) = 3 * w + 0 + 0
      BY <1>4, Zenon DEF Rank, w
    <3>. QED
      BY <1>1, <3>1
  <2>2. Rank(slash, u) = 3 * w + 0 + 1
    BY <1>2, <1>4, Zenon
  <2>. QED
    BY <1>1, <2>1, <2>2
<1>5. u \in Seq(Parts) /\ u # <<>> /\ Len(u) \in Nat \ {0} /\ \A i \in 1..Len(u) : u[i] \in Parts
  BY EmptySeq DEF IsUrl
<1>6. CASE ~HasDoubleSlash(u) /\ slash = "add" /\ SlashMissing(u)
  <2>1. v = Append(u, Empty)
    <3>1. \A x, y, z : (CASE FALSE -> x [] "add" = "add" -> y [] "add" = "strip" -> z) = y
      OBVIOUS
    <3>. QED
      BY <1>6, <3>1 DEF compute_trailing_slash_redirect
  <2>2. Trim(v) = Trim(u)
    BY <1>5, <2>1, RootUrl, TrimAppend
  <2>3. /\ Len(v) = Len(u) + 1 /\ v[Len(u) + 1] = Empty /\ Last(v) = Empty
        /\ \A i \in 1..Len(u) : v[i] = u[i]
    <3>1. /\ Append(u, Empty) \in Seq(Parts) /\ Len(Append(u, Empty)) = Len(u) + 1
          /\ Append(u, Empty)[Len(u) + 1] = Empty /\ \A i \in 1..Len(u) : Append(u, Empty)[i] = u[i]
      BY <1>5, RootUrl
    <3>. HIDE DEF v
    <3>. QED
      BY <2>1, <3>1 DEF Last
  <2>4. u[Len(u)].stem # "" /\ Empty.stem = ""
    BY <1>6, Zenon DEF SlashMissing, Last, Empty, Part
  <2>5. u[Len(u)] # Empty
    BY <2>4, Zenon
  <2>. HIDE DEF v
  <2>6. ~HasDoubleSlash(v)
    <3>1. \A i \in 1..Len(u) : i \in 1..Len(u) - 1 \/ i = Len(u)
      BY <1>5
    <3>2. Len(v) - 1 = Len(u)
      BY <1>5, <2>3
    <3>. QED
      BY <1>6, <2>3, <2>5, <3>1, <3>2 DEF HasDoubleSlash
  <2>7. ~Unsettled(slash, v) /\ Unsettled(slash, u)
    <3>1. ~SlashMissing(v)
      BY <2>3, <2>4, Zenon DEF SlashMissing
    <3>2. slash # "strip"
      BY <1>6
    <3>. QED
      BY <1>6, <3>1, <3>2, Zenon DEF Unsettled
  <2>. QED
    BY <1>4, <1>6, <2>2, <2>6, <2>7 DEF v
<1>7. CASE ~HasDoubleSlash(u) /\ slash = "strip" /\ SlashExtra(u)
  <2>1. v = Front(u)
    BY <1>7 DEF compute_trailing_slash_redirect
  <2>2. Last(u) = Empty /\ Len(u) > 1
    BY <1>7 DEF SlashExtra
  <2>3. v \in Seq(Parts) /\ Len(v) = Len(u) - 1 /\ u = Append(v, Empty) /\ Last(v) = v[Len(v)]
    <3>1. Front(u) # <<>>
      BY <1>5, <2>2, Fronted
    <3>. QED
      BY <1>5, <2>1, <2>2, <3>1, Fronted, FrontAndLast
  <2>4. Trim(v) = Trim(u)
    <3>1. Trim(Append(v, Empty)) = Trim(v)
      BY <2>3, RootUrl, TrimAppend
    <3>. QED
      BY <2>3, <3>1, Zenon
  <2>5. \A i \in 1..Len(v) : v[i] = u[i]
    BY <2>1, <2>3, <1>5 DEF Front
  <2>. HIDE DEF v
  <2>6. \A i \in 1..Len(v) : v[i] # Empty
    BY <1>5, <1>7, <2>3, <2>5 DEF HasDoubleSlash
  <2>7. ~HasDoubleSlash(v)
    BY <1>5, <2>3, <2>6 DEF HasDoubleSlash
  <2>8. ~Unsettled(slash, v) /\ Unsettled(slash, u)
    <3>1. Last(v) # Empty
      BY <1>5, <2>2, <2>3, <2>6
    <3>2. ~SlashExtra(v)
      BY <3>1, Zenon DEF SlashExtra
    <3>3. slash # "add"
      BY <1>7
    <3>. QED
      BY <1>7, <3>2, <3>3, Zenon DEF Unsettled
  <2>. QED
    BY <1>4, <1>7, <2>4, <2>7, <2>8 DEF v
<1>. QED
  BY <1>3, <1>6, <1>7, Zenon DEF TrailingSlashRedirects

(* Where a redirect may lead. *)
Onward(u) == u \in Destinations \/ Rank(cfg.slash, u) < Rank(cfg.slash, req.url)

LEMMA RouteTo ==
  ASSUME TypeInv, Route
  PROVE  \/ \E code \in {400, 405} : Settle(Failed(code))
         \/ \E u : IsUrl(u) /\ Onward(u) /\ Settle(Redirect(u))
         \/ \E stage \in WalkStages : Goto(stage)
<1>1. IsUrl(req.url) /\ cfg \in Configs
  BY DEF TypeInv, TypeOK, Requests, IsUrl
<1>2. \/ \E code \in {400, 405} : Settle(Failed(code))
      \/ \E stage \in {"original", "target", "cleanIndex"} : Goto(stage)
      \/ /\ CleanUrlsRedirects(cfg.clean, req.url)
         /\ Settle(Redirect(compute_clean_urls_redirect(req.url)))
      \/ /\ TrailingSlashRedirects(cfg.slash, req.url)
         /\ Settle(Redirect(compute_trailing_slash_redirect(cfg.slash, req.url)))
      \/ /\ ConfiguredRedirects(cfg.redirects, Path)
         /\ Settle(Redirect(compute_configured_redirects(cfg.redirects, Path)))
  <2>1. CASE ~Served(req)
    BY <2>1, Zenon DEF Route
  <2>2. CASE Served(req) /\ req.form # "plain"
    BY <2>2, Zenon DEF Route
  <2>3. CASE Served(req) /\ req.form = "plain"
    <3>1. IF CleanUrlsRedirects(cfg.clean, req.url)
          THEN Settle(Redirect(compute_clean_urls_redirect(req.url)))
          ELSE IF TrailingSlashRedirects(cfg.slash, req.url)
          THEN Settle(Redirect(compute_trailing_slash_redirect(cfg.slash, req.url)))
          ELSE IF ConfiguredRedirects(cfg.redirects, Path)
          THEN Settle(Redirect(compute_configured_redirects(cfg.redirects, Path)))
          ELSE \E stage \in {"original", "target", "cleanIndex"} : Goto(stage)
      BY <2>3, Zenon DEF Route
    <3>2. CASE CleanUrlsRedirects(cfg.clean, req.url)
      BY <3>1, <3>2, Zenon
    <3>3. CASE ~CleanUrlsRedirects(cfg.clean, req.url)
      BY <3>1, <3>3, Zenon
    <3>. QED
      BY <3>2, <3>3, Zenon
  <2>. QED
    BY <2>1, <2>2, <2>3, Zenon
<1>3. CASE CleanUrlsRedirects(cfg.clean, req.url) /\ Settle(Redirect(compute_clean_urls_redirect(req.url)))
  <2>1. IsUrl(compute_clean_urls_redirect(req.url)) /\ Onward(compute_clean_urls_redirect(req.url))
    BY <1>1, <1>3, CleanUrl, CleanDescends, Zenon DEF Onward
  <2>. QED
    BY <1>3, <2>1
<1>4. CASE /\ TrailingSlashRedirects(cfg.slash, req.url)
           /\ Settle(Redirect(compute_trailing_slash_redirect(cfg.slash, req.url)))
  <2>1. /\ IsUrl(compute_trailing_slash_redirect(cfg.slash, req.url))
        /\ Onward(compute_trailing_slash_redirect(cfg.slash, req.url))
    BY <1>1, <1>4, SlashUrl, SlashDescends, Zenon DEF Onward
  <2>. QED
    BY <1>4, <2>1
<1>5. CASE /\ ConfiguredRedirects(cfg.redirects, Path)
           /\ Settle(Redirect(compute_configured_redirects(cfg.redirects, Path)))
  <2>1. /\ IsUrl(compute_configured_redirects(cfg.redirects, Path))
        /\ Onward(compute_configured_redirects(cfg.redirects, Path))
    BY <1>1, <1>5, ConfiguredUrl, Zenon DEF Onward
  <2>. QED
    BY <1>5, <2>1
<1>6. {"original", "target", "cleanIndex"} \subseteq WalkStages
  BY DEF WalkStages, CleanStages
<1>. QED
  BY <1>2, <1>3, <1>4, <1>5, <1>6, Zenon

(* The tree.                                                               *)
LEMMA FrontDiffers ==
  ASSUME NEW p \in Places
  PROVE  Front(p) # p /\ p # <<>>
BY PlacesAssumption, Fronted DEF IsUrl

LEMMA TreeCreate ==
  ASSUME tree \in Trees, NEW p \in Places, NEW node \in Kinds, Create(p, node)
  PROVE  tree' \in Trees
<1>1. /\ tree \in [Places -> Kinds] /\ WellFormed(tree) /\ \A q \in Places : tree[q] \in Nodes[q]
      /\ tree[p] = "none" /\ node \in Nodes[p] /\ At(tree, Front(p)) = "dir"
      /\ tree' = [tree EXCEPT ![p] = node]
  BY DEF Trees, Create, Change
<1>2. tree' \in [Places -> Kinds] /\ \A q \in Places : tree'[q] \in Nodes[q]
  BY <1>1
<1>3. \A x : x # p => At(tree', x) = At(tree, x)
  BY <1>1 DEF At
<1>4. At(tree, p) # "dir"
  BY <1>1, FrontDiffers DEF At
<1>5. ASSUME NEW q \in Places, tree'[q] # "none" PROVE At(tree', Front(q)) = "dir"
  <2>1. CASE q = p
    BY <1>1, <1>3, <2>1, FrontDiffers
  <2>2. CASE q # p
    <3>1. At(tree, Front(q)) = "dir"
      BY <1>1, <1>5, <2>2 DEF WellFormed
    <3>. QED
      BY <1>3, <1>4, <3>1
  <2>. QED
    BY <2>1, <2>2
<1>6. WellFormed(tree')
  BY <1>5 DEF WellFormed
<1>. QED
  BY <1>2, <1>6 DEF Trees

LEMMA TreeDelete ==
  ASSUME tree \in Trees, NEW p \in Places, Delete(p)
  PROVE  tree' \in Trees
<1>1. /\ tree \in [Places -> Kinds] /\ WellFormed(tree) /\ \A q \in Places : tree[q] \in Nodes[q]
      /\ "none" \in Nodes[p] /\ Children(tree, p) = {}
      /\ tree' = [tree EXCEPT ![p] = "none"]
  BY DEF Trees, Delete, Change
<1>2. tree' \in [Places -> Kinds] /\ \A q \in Places : tree'[q] \in Nodes[q]
  BY <1>1 DEF Kinds
<1>3. \A x : x # p => At(tree', x) = At(tree, x)
  BY <1>1 DEF At
<1>4. ASSUME NEW q \in Places, tree'[q] # "none" PROVE At(tree', Front(q)) = "dir"
  <2>1. q # p /\ tree[q] # "none"
    BY <1>1, <1>4
  <2>2. Front(q) # p
    BY <1>1, <2>1 DEF Children
  <2>3. At(tree, Front(q)) = "dir"
    BY <1>1, <2>1 DEF WellFormed
  <2>. QED
    BY <1>3, <2>2, <2>3
<1>5. WellFormed(tree')
  BY <1>4 DEF WellFormed
<1>. QED
  BY <1>2, <1>5 DEF Trees

(* The handler's steps.                                                    *)
Statuses == {200, 301, 400, 404, 405}

LEMMA HandlerTypes ==
  ASSUME TypeInv, Untouched,
         pc' \in {"probe", "index", "canon", "read", "list", "lone", "answered"},
         walk'.stage \in {"none"} \union WalkStages, walk'.found \in {"none", "file", "dir"},
         answer'.status \in {0} \union Statuses, answer'.body \in {"none", "file", "listing"},
         answer'.status = 301 => IsUrl(answer'.location)
  PROVE  TypeOK' /\ (answer'.status = 301 => IsUrl(answer'.location))
BY DEF TypeInv, TypeOK, Untouched, history, WalkStages, CleanStages, Statuses

LEMMA SettleTypes ==
  ASSUME TypeInv, Untouched, NEW a, Settle(a), a.status \in Statuses,
         a.body \in {"none", "file", "listing"}, a.status = 301 => IsUrl(a.location)
  PROVE  TypeOK' /\ (answer'.status = 301 => IsUrl(answer'.location))
<1>1. pc' = "answered" /\ answer' = a /\ walk' = NoWalk
  BY DEF Settle
<1>2. NoWalk.stage = "none" /\ NoWalk.found = "none"
  BY DEF NoWalk
<1>. QED
  BY <1>1, <1>2, HandlerTypes

LEMMA FailTypes ==
  ASSUME TypeInv, Untouched, NEW code \in {400, 404, 405}, Settle(Failed(code))
  PROVE  TypeOK' /\ (answer'.status = 301 => IsUrl(answer'.location))
<1>1. Failed(code).status = code /\ Failed(code).body = "none"
  BY DEF Failed, NoAnswer
<1>. QED
  BY <1>1, SettleTypes DEF Statuses

LEMMA StepTypes ==
  ASSUME TypeInv, Untouched, UNCHANGED answer,
         pc' \in {"probe", "index", "canon", "read", "list", "lone"},
         walk'.stage \in {"none"} \union WalkStages, walk'.found \in {"none", "file", "dir"}
  PROVE  TypeOK' /\ (answer'.status = 301 => IsUrl(answer'.location))
<1>1. /\ answer.status \in {0} \union Statuses /\ answer.body \in {"none", "file", "listing"}
      /\ answer.status = 301 => IsUrl(answer.location)
  BY DEF TypeInv, TypeOK, Statuses
<1>. QED
  BY <1>1, HandlerTypes

LEMMA GotoTypes ==
  ASSUME TypeInv, Untouched, NEW stage \in WalkStages, Goto(stage)
  PROVE  TypeOK' /\ (answer'.status = 301 => IsUrl(answer'.location))
<1>1. walk' = Candidate(stage, UrlOf(stage)) /\ pc' = "probe" /\ UNCHANGED answer
  BY CandidateAtHand DEF Goto
<1>2. walk'.stage = stage /\ walk'.found = "none"
  BY <1>1 DEF Candidate
<1>. QED
  BY <1>1, <1>2, StepTypes

LEMMA MissTypes ==
  ASSUME TypeInv, Untouched, pc \in Walking, NEW code \in {400, 404}, Miss(code)
  PROVE  TypeOK' /\ (answer'.status = 301 => IsUrl(answer'.location))
<1>1. PICK i \in 1..Len(Order) : walk.stage = Order[i]
  BY DEF TypeInv, OrderInv, WalkInv
<1>2. \A j \in 1..Len(Order) : Order[j] \in WalkStages
  BY TriesInOrder
<1>3. CASE i < Len(Order) /\ Goto(Order[i + 1])
  <2>1. i + 1 \in 1..Len(Order)
    BY <1>3, TriesInOrder
  <2>. QED
    BY <1>2, <1>3, <2>1, GotoTypes
<1>4. CASE Settle(Failed(404)) \/ Settle(Failed(code))
  BY <1>4, FailTypes
<1>5. CASE Settle(Failed(400))
  BY <1>5, FailTypes
<1>. QED
  BY <1>1, <1>3, <1>4, <1>5, MissAdvances

LEMMA WalkTyped ==
  ASSUME TypeInv, pc \in Walking
  PROVE  /\ walk.stage \in WalkStages /\ walk.found \in {"none", "file", "dir"}
         /\ walk = [stage |-> walk.stage, place |-> walk.place, slash |-> walk.slash, found |-> walk.found]
<1>1. PICK i \in 1..Len(Order) : /\ walk.stage = Order[i]
                                 /\ Handles(Trim(UrlOf(Order[i])), Last(UrlOf(Order[i])) = Empty)
  BY DEF TypeInv, OrderInv, WalkInv
<1>2. Order[i] \in WalkStages
  BY TriesInOrder
<1>. QED
  BY <1>1, <1>2 DEF Handles, TypeInv, TypeOK

LEMMA FoundTypes ==
  ASSUME TypeInv, Untouched, pc \in Walking, NEW place, NEW kind \in {"file", "dir"}, Found(place, kind)
  PROVE  TypeOK' /\ (answer'.status = 301 => IsUrl(answer'.location))
<1>1. walk' = [walk EXCEPT !.place = place, !.found = kind] /\ pc' = "canon" /\ UNCHANGED answer
  BY DEF Found
<1>2. walk' = [stage |-> walk.stage, place |-> place, slash |-> walk.slash, found |-> kind]
  BY <1>1, WalkTyped
<1>3. walk'.stage \in WalkStages /\ walk'.found = kind
  BY <1>2, WalkTyped
<1>. QED
  BY <1>1, <1>3, StepTypes

LEMMA HandlerTyped ==
  ASSUME TypeInv, Handler
  PROVE  TypeOK' /\ (answer'.status = 301 => IsUrl(answer'.location))
<1>. DEFINE Goal == TypeOK' /\ (answer'.status = 301 => IsUrl(answer'.location))
<1>1. Untouched
  BY DEF Handler, Route, Probe, ProbeIndex, Canonicalize, Read, List
<1>2. pc \in Walking => walk.stage \in WalkStages /\ walk.found \in {"none", "file", "dir"}
  BY WalkTyped
<1>3. CASE Route
  <2>1. ASSUME NEW u, IsUrl(u), Settle(Redirect(u)) PROVE Goal
    <3>1. Redirect(u).status = 301 /\ Redirect(u).body = "none" /\ Redirect(u).location = u
      BY DEF Redirect, NoAnswer
    <3>. QED
      BY <1>1, <2>1, <3>1, SettleTypes DEF Statuses
  <2>2. ASSUME NEW code \in {400, 405}, Settle(Failed(code)) PROVE Goal
    BY <1>1, <2>2, FailTypes
  <2>3. ASSUME NEW stage \in WalkStages, Goto(stage) PROVE Goal
    BY <1>1, <2>3, GotoTypes
  <2>. HIDE DEF Goal
  <2>4. Goal
    BY <1>3, <2>1, <2>2, <2>3, RouteTo
  <2>. QED
    BY <2>4 DEF Goal
<1>4. CASE Probe
  <2>1. pc \in Walking
    BY <1>4 DEF Probe, Walking
  <2>2. CASE Found(walk.place, "file")
    BY <1>1, <2>1, <2>2, FoundTypes
  <2>3. CASE pc' = "index" /\ UNCHANGED <<walk, answer>>
    BY <1>1, <1>2, <2>1, <2>3, StepTypes
  <2>4. CASE Miss(404)
    BY <1>1, <2>1, <2>4, MissTypes
  <2>. QED
    BY <1>4, <2>2, <2>3, <2>4 DEF Probe
<1>5. CASE ProbeIndex
  <2>1. pc \in Walking
    BY <1>5 DEF ProbeIndex, Walking
  <2>2. \E place : Found(place, "file") \/ Found(place, "dir")
    BY <1>5 DEF ProbeIndex
  <2>. QED
    BY <1>1, <2>1, <2>2, FoundTypes
<1>6. CASE Canonicalize
  <2>1. pc \in Walking
    BY <1>6 DEF Canonicalize, Walking
  <2>2. CASE Miss(404) \/ Miss(400)
    BY <1>1, <2>1, <2>2, MissTypes
  <2>3. CASE pc' \in {"read", "list"} /\ UNCHANGED <<walk, answer>>
    BY <1>1, <1>2, <2>1, <2>3, StepTypes
  <2>4. CASE Settle(Failed(404))
    BY <1>1, <2>4, FailTypes
  <2>. QED
    BY <1>6, <2>2, <2>3, <2>4 DEF Canonicalize
<1>7. CASE Read
  <2>1. FileAt(walk.place).status = 200 /\ FileAt(walk.place).body = "file"
    BY DEF FileAt, NoAnswer
  <2>2. CASE Settle(FileAt(walk.place))
    BY <1>1, <2>1, <2>2, SettleTypes DEF Statuses
  <2>3. CASE Settle(Failed(404))
    BY <1>1, <2>3, FailTypes
  <2>. QED
    BY <1>7, <2>2, <2>3 DEF Read
<1>8. CASE List
  <2>1. pc \in Walking
    BY <1>8 DEF List, Walking
  <2>2. ListingOf(walk.place).status = 200 /\ ListingOf(walk.place).body = "listing"
    BY DEF ListingOf, NoAnswer
  <2>3. CASE Settle(ListingOf(walk.place))
    BY <1>1, <2>2, <2>3, SettleTypes DEF Statuses
  <2>4. CASE Settle(Failed(404))
    BY <1>1, <2>4, FailTypes
  <2>5. ASSUME NEW q, pc' = "lone", walk' = [walk EXCEPT !.place = q], UNCHANGED answer PROVE Goal
    <3>1. walk' = [stage |-> walk.stage, place |-> q, slash |-> walk.slash, found |-> walk.found]
      BY <2>1, <2>5, WalkTyped
    <3>2. walk'.stage = walk.stage /\ walk'.found = walk.found
      BY <3>1
    <3>. QED
      BY <1>1, <1>2, <2>1, <2>5, <3>2, StepTypes
  <2>. HIDE DEF Goal
  <2>6. Goal
    BY <1>8, <2>3, <2>4, <2>5 DEF List, Goal
  <2>. QED
    BY <2>6 DEF Goal
<1>. QED
  BY <1>3, <1>4, <1>5, <1>6, <1>7, <1>8 DEF Handler

LEMMA AskTypes ==
  ASSUME TypeInv, NEW rq \in Requests, NEW visited, Ask(rq, visited)
  PROVE  TypeOK' /\ answer'.status # 301
<1>1. /\ pc' = "asked" /\ req' = rq /\ answer' = NoAnswer /\ UNCHANGED <<tree, cfg, walk>>
      /\ seen' = [p \in Places |-> {tree[p]}] /\ shrunk' = FALSE /\ changes' = 0
      /\ promised' = PromisesFile(cfg, collapse_slashes(rq.url), tree)
  BY DEF Ask, Forget
<1>2. PromisesFile(cfg, collapse_slashes(rq.url), tree) \in BOOLEAN
  BY DEF PromisesFile
<1>3. NoAnswer.status = 0 /\ NoAnswer.body = "none"
  BY DEF NoAnswer
<1>4. seen' \in [Places -> SUBSET Kinds]
  BY <1>1 DEF TypeInv, TypeOK, Trees
<1>5. 0 \in 0..MaxChanges
  BY BoundsAssumption
<1>6. promised' \in BOOLEAN /\ shrunk' \in BOOLEAN
  BY <1>1, <1>2, Zenon
<1>7. /\ tree' \in Trees /\ cfg' \in Configs /\ req' \in Requests /\ changes' \in 0..MaxChanges
      /\ walk'.stage \in {"none", "original", "target", "fallback", "cleanIndex", "cleanFlat"}
      /\ walk'.found \in {"none", "file", "dir"}
  BY <1>1, <1>5 DEF TypeInv, TypeOK
<1>8. pc' = "asked" /\ answer'.status = 0 /\ answer'.body = "none"
  BY <1>1, <1>3
<1>. QED
  BY <1>4, <1>6, <1>7, <1>8 DEF TypeOK

LEMMA TypeInvInit == Init => TypeInv
<1>. SUFFICES ASSUME Init PROVE TypeOK /\ answer.status # 301
  BY OrderInvInit DEF TypeInv
<1>1. Get(Root) \in Requests
  BY RootUrl DEF Get, Requests, IsUrl
<1>2. NoAnswer.status = 0 /\ NoAnswer.body = "none" /\ NoWalk.stage = "none" /\ NoWalk.found = "none"
  BY DEF NoAnswer, NoWalk
<1>3. seen \in [Places -> SUBSET Kinds] /\ 0 \in 0..MaxChanges
  BY BoundsAssumption DEF Init, Trees
<1>4. promised \in BOOLEAN /\ shrunk \in BOOLEAN
  BY Zenon DEF Init
<1>5. /\ tree \in Trees /\ cfg \in Configs /\ req \in Requests /\ changes \in 0..MaxChanges
      /\ pc = "idle" /\ walk.stage = "none" /\ walk.found = "none"
      /\ answer.status = 0 /\ answer.body = "none"
  BY <1>1, <1>2, <1>3 DEF Init
<1>. QED
  BY <1>3, <1>4, <1>5 DEF TypeOK

LEMMA TypeInvNext == TypeInv /\ [Next]_vars => TypeInv'
<1>. SUFFICES ASSUME TypeInv, [Next]_vars
              PROVE  TypeOK' /\ (answer'.status = 301 => IsUrl(answer'.location))
  BY OrderInvNext DEF TypeInv
<1>. DEFINE Goal == TypeOK' /\ (answer'.status = 301 => IsUrl(answer'.location))
<1>1. ASSUME NEW p \in Places, NEW node \in Kinds, Change(p, node), tree' \in Trees, shrunk' \in BOOLEAN
      PROVE  Goal
  <2>1. /\ seen' = [seen EXCEPT ![p] = @ \union {node}] /\ changes' = changes + 1 /\ changes < MaxChanges
        /\ UNCHANGED <<cfg, pc, req, walk, answer, promised>>
    BY <1>1 DEF Change
  <2>2. seen' \in [Places -> SUBSET Kinds] /\ changes' \in 0..MaxChanges
    BY <2>1, BoundsAssumption DEF TypeInv, TypeOK
  <2>. QED
    BY <1>1, <2>1, <2>2 DEF TypeInv, TypeOK
<1>2. ASSUME NEW p \in Places, Delete(p) PROVE Goal
  <2>1. tree' \in Trees
    BY <1>2, TreeDelete DEF TypeInv, TypeOK
  <2>2. Change(p, "none") /\ shrunk' \in BOOLEAN /\ "none" \in Kinds
    BY <1>2 DEF Delete, Kinds
  <2>. HIDE DEF Goal
  <2>. QED
    BY <1>1, <2>1, <2>2
<1>3. ASSUME NEW p \in Places, NEW node \in Kinds, Create(p, node) PROVE Goal
  <2>1. tree' \in Trees
    BY <1>3, TreeCreate DEF TypeInv, TypeOK
  <2>2. Change(p, node) /\ shrunk' \in BOOLEAN
    BY <1>3 DEF Create, TypeInv, TypeOK
  <2>. HIDE DEF Goal
  <2>. QED
    BY <1>1, <2>1, <2>2
<1>4. ASSUME NEW rq \in Starts, Open(rq) PROVE Goal
  BY <1>4, StartsAssumption, AskTypes DEF Open
<1>5. CASE Follow
  <2>1. Get(answer.location) \in Requests
    <3>1. IsUrl(answer.location)
      BY <1>5 DEF Follow, TypeInv
    <3>. QED
      BY <3>1 DEF Get, Requests, IsUrl
  <2>. QED
    BY <1>5, <2>1, AskTypes DEF Follow
<1>6. CASE Close
  <2>1. Get(Root) \in Requests
    BY RootUrl DEF Get, Requests, IsUrl
  <2>2. NoAnswer.status = 0 /\ NoAnswer.body = "none" /\ 0 \in 0..MaxChanges
    BY BoundsAssumption DEF NoAnswer
  <2>3. seen' \in [Places -> SUBSET Kinds]
    BY <1>6 DEF Close, Forget, TypeInv, TypeOK, Trees
  <2>4. promised' \in BOOLEAN /\ shrunk' \in BOOLEAN
    BY <1>6, Zenon DEF Close, Forget
  <2>5. /\ tree' \in Trees /\ cfg' \in Configs /\ req' \in Requests /\ changes' \in 0..MaxChanges
        /\ walk'.stage \in {"none", "original", "target", "fallback", "cleanIndex", "cleanFlat"}
        /\ walk'.found \in {"none", "file", "dir"}
        /\ pc' = "idle" /\ answer'.status = 0 /\ answer'.body = "none"
    BY <1>6, <2>1, <2>2 DEF Close, Forget, TypeInv, TypeOK
  <2>. QED
    BY <2>3, <2>4, <2>5 DEF TypeOK
<1>7. CASE Handler
  BY <1>7, HandlerTyped
<1>8. CASE UNCHANGED vars
  BY <1>8 DEF vars, history, TypeInv, TypeOK
<1>. QED
  BY <1>2, <1>3, <1>4, <1>5, <1>6, <1>7, <1>8 DEF Next

(* Whatever clients ask and other programs do to the files, the tree stays *)
(* one (what is there is in a directory), every request is for a URL, also *)
(* the one a redirect sends the client to, and the walk is at a candidate  *)
(* of its order.                                                           *)
THEOREM DispatchTyped == Spec => []TypeOK
<1>1. TypeInv => TypeOK
  BY DEF TypeInv
<1>. QED
  BY <1>1, TypeInvInit, TypeInvNext, PTL DEF Spec
-----------------------------------------------------------------------------
(* The redirects go down.  As long as no redirect of serve.json had a part *)
(* in it, the URL at hand ranks below all that were asked before.          *)
DescentInv ==
  /\ TypeInv
  /\ \A u \in trail : IsUrl(u)
  /\ Destinations \intersect trail = {} =>
       \A u \in trail : u = req.url \/ Rank(cfg.slash, req.url) < Rank(cfg.slash, u)
  /\ pc = "answered" /\ answer.status = 301 => Onward(answer.location)

LEMMA MissSettles ==
  ASSUME TypeInv, pc \in Walking, NEW code \in {400, 404}, Miss(code)
  PROVE  pc' # "answered" \/ answer'.status # 301
<1>1. PICK i \in 1..Len(Order) : walk.stage = Order[i]
  BY DEF TypeInv, OrderInv, WalkInv
<1>2. \A c : Failed(c).status = c
  BY DEF Failed, NoAnswer
<1>3. ASSUME NEW stage, Goto(stage) PROVE pc' # "answered"
  BY <1>3 DEF Goto
<1>4. ASSUME NEW c \in {400, 404}, Settle(Failed(c)) PROVE answer'.status # 301
  BY <1>2, <1>4 DEF Settle
<1>. QED
  BY <1>1, <1>3, <1>4, MissAdvances

(* Only Route redirects. *)
LEMMA RedirectsKnown ==
  ASSUME TypeInv, Handler, pc' = "answered", answer'.status = 301
  PROVE  Onward(answer'.location)
<1>1. \A c : Failed(c).status = c
  BY DEF Failed, NoAnswer
<1>2. ASSUME NEW c \in {400, 404, 405} PROVE ~Settle(Failed(c))
  BY <1>1, <1>2 DEF Settle
<1>3. ASSUME NEW stage PROVE ~Goto(stage)
  BY DEF Goto
<1>4. CASE Route
  <2>1. PICK u : Onward(u) /\ Settle(Redirect(u))
    BY <1>2, <1>3, <1>4, RouteTo
  <2>2. Redirect(u).location = u
    BY DEF Redirect, NoAnswer
  <2>. QED
    BY <2>1, <2>2 DEF Settle
<1>5. ASSUME pc \in Walking, NEW code \in {400, 404} PROVE ~Miss(code)
  BY <1>5, MissSettles
<1>6. CASE Probe
  BY <1>5, <1>6 DEF Probe, Found, Walking
<1>7. CASE ProbeIndex
  BY <1>7 DEF ProbeIndex, Found
<1>8. CASE Canonicalize
  <2>1. pc \in Walking
    BY <1>8 DEF Canonicalize, Walking
  <2>. QED
    BY <1>2, <1>5, <1>8, <2>1 DEF Canonicalize
<1>9. CASE Read
  <2>1. FileAt(walk.place).status = 200
    BY DEF FileAt, NoAnswer
  <2>. QED
    BY <1>2, <1>9, <2>1 DEF Read, Settle
<1>10. CASE List
  <2>1. ListingOf(walk.place).status = 200
    BY DEF ListingOf, NoAnswer
  <2>2. Settle(Failed(404)) \/ Settle(ListingOf(walk.place)) \/ pc' = "lone"
    BY <1>10, Zenon DEF List
  <2>. QED
    BY <1>2, <2>1, <2>2 DEF Settle
<1>. QED
  BY <1>4, <1>6, <1>7, <1>8, <1>9, <1>10 DEF Handler

LEMMA DescentInit == Init => DescentInv
BY TypeInvInit DEF Init, DescentInv

LEMMA DescentNext == DescentInv /\ [Next]_vars => DescentInv'
<1>. SUFFICES ASSUME DescentInv, [Next]_vars PROVE DescentInv'
  OBVIOUS
<1>. DEFINE Falls == \A u \in trail : u = req.url \/ Rank(cfg.slash, req.url) < Rank(cfg.slash, u)
<1>1. TypeInv /\ TypeInv' /\ IsUrl(req.url)
  BY TypeInvNext DEF DescentInv, TypeInv, TypeOK, Requests, IsUrl
<1>2. ASSUME UNCHANGED <<cfg, req, trail>>, pc' = "answered" /\ answer'.status = 301 => Onward(answer'.location)
      PROVE  DescentInv'
  <2>1. Destinations' = Destinations
    BY <1>2 DEF Destinations
  <2>2. \A u : Onward(u)' = Onward(u)
    BY <1>2, <2>1 DEF Onward
  <2>. QED
    BY <1>1, <1>2, <2>1 DEF DescentInv, Onward
<1>3. ASSUME NEW p \in Places, NEW node \in Kinds, Change(p, node) PROVE DescentInv'
  BY <1>2, <1>3 DEF Change, DescentInv
<1>4. ASSUME NEW p \in Places, Delete(p) PROVE DescentInv'
  BY <1>3, <1>4 DEF Delete, Kinds
<1>5. ASSUME NEW p \in Places, NEW node \in Kinds, Create(p, node) PROVE DescentInv'
  BY <1>3, <1>5 DEF Create
<1>6. ASSUME NEW rq, NEW visited, Ask(rq, visited),
             \A u \in visited : IsUrl(u),
             Destinations \intersect visited = {} =>
               \A u \in visited : u = rq.url \/ Rank(cfg.slash, rq.url) < Rank(cfg.slash, u)
      PROVE  DescentInv'
  <2>1. pc' = "asked" /\ req' = rq /\ trail' = visited /\ cfg' = cfg
    BY <1>6 DEF Ask
  <2>2. Destinations' = Destinations
    BY <2>1 DEF Destinations
  <2>. QED
    BY <1>1, <1>6, <2>1, <2>2 DEF DescentInv
<1>7. ASSUME NEW rq \in Starts, Open(rq) PROVE DescentInv'
  <2>1. IsUrl(rq.url)
    BY StartsAssumption DEF Requests, IsUrl
  <2>. QED
    BY <1>6, <1>7, <2>1 DEF Open
<1>8. CASE Follow
  <2>. DEFINE u == answer.location
              visited == trail \union {u}
  <2>1. pc = "answered" /\ answer.status = 301 /\ Ask(Get(u), visited)
    BY <1>8 DEF Follow
  <2>2. Onward(u) /\ IsUrl(u) /\ Get(u).url = u
    BY <1>1, <2>1 DEF DescentInv, TypeInv, Get
  <2>3. \A v \in visited : IsUrl(v)
    BY <2>2 DEF DescentInv
  <2>4. ASSUME Destinations \intersect visited = {}, NEW v \in visited
        PROVE  v = u \/ Rank(cfg.slash, u) < Rank(cfg.slash, v)
    <3>1. Rank(cfg.slash, u) < Rank(cfg.slash, req.url)
      BY <2>2, <2>4 DEF Onward
    <3>2. CASE v \in trail
      <4>1. v = req.url \/ Rank(cfg.slash, req.url) < Rank(cfg.slash, v)
        BY <2>4, <3>2 DEF DescentInv
      <4>2. /\ Rank(cfg.slash, u) \in Nat /\ Rank(cfg.slash, v) \in Nat
            /\ Rank(cfg.slash, req.url) \in Nat
        BY <1>1, <2>2, <2>3, Ranked
      <4>. HIDE DEF u
      <4>. QED
        BY <3>1, <4>1, <4>2
    <3>. QED
      BY <3>2
  <2>. HIDE DEF u, visited
  <2>. QED
    BY <1>6, <2>1, <2>2, <2>3, <2>4
<1>9. CASE Close
  <2>1. pc' = "idle" /\ trail' = {}
    BY <1>9 DEF Close
  <2>. QED
    BY <1>1, <2>1 DEF DescentInv
<1>10. CASE Handler
  <2>1. Untouched
    BY <1>10 DEF Handler, Route, Probe, ProbeIndex, Canonicalize, Read, List
  <2>2. UNCHANGED <<cfg, req, trail>>
    BY <2>1 DEF Untouched
  <2>. QED
    BY <1>1, <1>2, <1>10, <2>2, RedirectsKnown
<1>11. CASE UNCHANGED vars
  BY <1>2, <1>11 DEF vars, DescentInv
<1>. QED
  BY <1>4, <1>5, <1>7, <1>8, <1>9, <1>10, <1>11 DEF Next

(* Every redirect is one of serve.json or lowers the rank, a natural       *)
(* number: a client that follows the others arrives after at most as many  *)
(* as the rank of the URL it began with.                                   *)
RedirectsGoDown == pc = "answered" /\ answer.status = 301 =>
  \/ answer.location \in Destinations
  \/ /\ Rank(cfg.slash, answer.location) < Rank(cfg.slash, req.url)
     /\ {Rank(cfg.slash, answer.location), Rank(cfg.slash, req.url)} \subseteq Nat

THEOREM RedirectsDescend == Spec => []RedirectsGoDown
<1>1. DescentInv => RedirectsGoDown
  <2>. SUFFICES ASSUME DescentInv, pc = "answered", answer.status = 301, answer.location \notin Destinations
                PROVE  RedirectsGoDown
    BY DEF RedirectsGoDown
  <2>1. IsUrl(answer.location) /\ IsUrl(req.url) /\ Onward(answer.location)
    BY DEF DescentInv, TypeInv, TypeOK, Requests, IsUrl
  <2>. QED
    BY <2>1, Ranked DEF Onward, RedirectsGoDown
<1>. QED
  BY <1>1, DescentInit, DescentNext, PTL DEF Spec

(* The redirects for cleanUrls and trailingSlash never send a client back  *)
(* to a URL it has asked for, however the slashes of the URL are doubled   *)
(* and its suffixes piled up.                                              *)
THEOREM NeverInCircles == Spec => []NoCircles
<1>1. DescentInv => NoCircles
  <2>. SUFFICES ASSUME DescentInv, pc = "answered", answer.status = 301, answer.location \in trail,
                       Destinations \intersect trail = {}
                PROVE  FALSE
    BY DEF NoCircles
  <2>. DEFINE u == answer.location
  <2>1. IsUrl(u) /\ IsUrl(req.url) /\ Onward(u) /\ u \notin Destinations
    BY DEF DescentInv, TypeInv, TypeOK, Requests, IsUrl
  <2>2. u = req.url \/ Rank(cfg.slash, req.url) < Rank(cfg.slash, u)
    BY DEF DescentInv
  <2>3. Rank(cfg.slash, u) < Rank(cfg.slash, req.url)
    BY <2>1 DEF Onward
  <2>4. Rank(cfg.slash, u) \in Nat /\ Rank(cfg.slash, req.url) \in Nat
    BY <2>1, Ranked
  <2>. HIDE DEF u
  <2>. QED
    BY <2>2, <2>3, <2>4
<1>. QED
  BY <1>1, DescentInit, DescentNext, PTL DEF Spec
=============================================================================
