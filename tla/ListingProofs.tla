---------------------------- MODULE ListingProofs ----------------------------
(***************************************************************************)
(* Theorems about the reading of a directory and about the causes of the   *)
(* answers, for every directory, configuration and number of changes.      *)
(***************************************************************************)
EXTENDS ResponsesProofs, FiniteSetTheorems

(* The states of the disk since the directory was opened, by their number. *)
Opened      == scan.from..Len(disks)
Seen(n, k)  == \E i \in Opened : disks[i].dir.kind[n] = k
Steadily(n) == \A i \in Opened : disks[i].dir.kind[n] # "none"

SeenAs(n, is_dir) == \E k \in ShownAs(is_dir) : Seen(n, k)

DirGone == \E i \in DOMAIN disks : ~disks[i].dir.there \/ ~disks[i].dir.readable

Reading == {"next", "type", "size", "lone", "listed", "single"}

(* What has been read was there, under one entry each; and where the       *)
(* reading ends it has its cause.                                          *)
ScanTyped ==
  /\ scan = [stage |-> scan.stage, from |-> scan.from, at |-> scan.at, out |-> scan.out,
             shown |-> scan.shown]
  /\ scan.stage \in Stages
  /\ IsFiniteSet(scan.out)
  /\ scan.stage \in {"idle", "open"} => scan.out = {}

EntriesSeen ==
  scan.stage \in Reading =>
    /\ scan.from \in 1..Len(disks)
    /\ \A e \in scan.out : e.name \in Names /\ e.is_dir \in BOOLEAN /\ SeenAs(e.name, e.is_dir)
    /\ \A e, f \in scan.out : e.name = f.name => e = f

EntryRead ==
  /\ scan.stage \in {"type", "size"} => scan.at.name \in Names \ Returned
  /\ scan.stage = "type" => scan.at.kind # "none" /\ Seen(scan.at.name, scan.at.kind)
  /\ scan.stage = "size" => SeenAs(scan.at.name, FALSE)

LoneRead ==
  scan.stage = "lone" => cfg.single /\
    \E e : scan.out = {e} /\ ~e.is_dir /\ \A n \in Names : Steadily(n) => n = e.name

SingleRead ==
  scan.stage = "single" =>
    \E e : /\ scan.shown = <<e>> /\ Seen(e.name, "file")
           /\ \A n \in Names : Steadily(n) => n = e.name

ReadForCause ==
  /\ scan.stage = "failed" => DirGone \/ Unsteady \/ Unreadable
  /\ scan.stage = "listed" /\ ~cfg.listing => Unlistable \/ Unsteady

DisksTyped == disks \in Seq(Disks) /\ disks # <<>>

ScanInv ==
  /\ DisksTyped /\ ScanTyped /\ EntriesSeen /\ EntryRead
  /\ LoneRead /\ SingleRead /\ ReadForCause

LEMMA KindsTyped ==
  ASSUME DisksTyped, NEW i \in DOMAIN disks
  PROVE  disks[i] \in Disks /\ disks[i].dir.kind \in [Names -> Kinds]
<1>1. disks[i] \in Disks
  BY ElementOfSeq DEF DisksTyped
<1>. QED
  BY <1>1, DisksAssumption DEF Directory

LEMMA DiskIsLast ==
  ASSUME DisksTyped
  PROVE  /\ Len(disks) \in Nat \ {0} /\ DOMAIN disks = 1..Len(disks)
         /\ Disk = disks[Len(disks)]
BY EmptySeq DEF DisksTyped, Disk, Last

LEMMA SinceOpened ==
  /\ \A d : d \in Since <=> \E i \in Opened : d = disks[i]
  /\ \A n : n \in Throughout <=> n \in Names /\ Steadily(n)
BY DEF Since, Throughout, Opened, Steadily

LEMMA ScanInit == Init => ScanInv
<1>. SUFFICES ASSUME Init PROVE ScanInv
  OBVIOUS
<1>1. PICK d \in Disks : disks = <<d>>
  BY DEF Init
<1>2. disks \in Seq(Disks) /\ disks # <<>>
  BY <1>1
<1>3. scan = NoScan /\ NoScan.stage = "idle" /\ NoScan.out = {}
  BY DEF Init, NoScan
<1>4. ScanTyped
  BY <1>3, FS_EmptySet DEF ScanTyped, Stages, NoScan
<1>. QED
  BY <1>2, <1>3, <1>4 DEF ScanInv, DisksTyped, EntriesSeen, EntryRead, LoneRead, SingleRead,
     ReadForCause, Reading
-----------------------------------------------------------------------------
(* Another change of the disk: what was, still was.                        *)
LEMMA Grown ==
  ASSUME DisksTyped, NEW d \in Disks, disks' = Append(disks, d)
  PROVE  /\ DisksTyped'
         /\ \A i \in DOMAIN disks : i \in DOMAIN disks' /\ disks'[i] = disks[i]
         /\ Len(disks') = Len(disks) + 1
<1>1. disks' \in Seq(Disks) /\ disks' # <<>> /\ Len(disks') = Len(disks) + 1
  BY AppendProperties DEF DisksTyped
<1>2. \A i \in 1..Len(disks) : disks'[i] = disks[i]
  BY AppendProperties DEF DisksTyped
<1>3. DOMAIN disks = 1..Len(disks) /\ DOMAIN disks' = 1..Len(disks') /\ Len(disks) \in Nat
  BY <1>1, LenProperties DEF DisksTyped
<1>. QED
  BY <1>1, <1>2, <1>3 DEF DisksTyped

LEMMA GrownCauses ==
  ASSUME DisksTyped, NEW d \in Disks, disks' = Append(disks, d), cfg' = cfg
  PROVE  /\ DirGone => DirGone'
         /\ Unsteady => Unsteady'
         /\ Unlistable => Unlistable'
         /\ Unreadable => Unreadable'
<1>1. \A i \in DOMAIN disks : i \in DOMAIN disks' /\ disks'[i] = disks[i]
  BY Grown
<1>2. DirGone => DirGone'
  BY <1>1 DEF DirGone
<1>3. ASSUME Unsteady PROVE Unsteady'
  <2>1. PICK n \in Names, i, j \in DOMAIN disks : disks[i].dir.kind[n] # disks[j].dir.kind[n]
    BY <1>3 DEF Unsteady
  <2>2. i \in DOMAIN disks' /\ j \in DOMAIN disks' /\ disks'[i].dir.kind[n] # disks'[j].dir.kind[n]
    BY <1>1, <2>1
  <2>. QED
    BY <2>2 DEF Unsteady
<1>4. ASSUME NEW i \in DOMAIN disks, ~Alone(disks[i], "file")
      PROVE  i \in DOMAIN disks' /\ ~Alone(disks'[i], "file")
  BY <1>1, <1>4
<1>5. Unlistable => Unlistable'
  BY <1>4 DEF Unlistable, Was, Alone
<1>6. ASSUME NEW i \in DOMAIN disks, Alone(disks[i], "unreadable")
      PROVE  i \in DOMAIN disks' /\ Alone(disks'[i], "unreadable")
  BY <1>1, <1>6
<1>7. Unreadable => Unreadable'
  BY <1>6 DEF Unreadable, Was, Alone
<1>. QED
  BY <1>2, <1>3, <1>5, <1>7

LEMMA GrownSeen ==
  ASSUME DisksTyped, NEW d \in Disks, disks' = Append(disks, d), scan' = scan,
         scan.from \in 1..Len(disks)
  PROVE  /\ scan.from \in 1..Len(disks')
         /\ \A n, k : Seen(n, k) => Seen(n, k)'
         /\ \A n : Steadily(n)' => Steadily(n)
<1>1. /\ Len(disks) \in Nat /\ Len(disks') = Len(disks) + 1
      /\ \A i \in 1..Len(disks) : disks'[i] = disks[i]
  BY Grown, DiskIsLast
<1>2. \A i \in Opened : i \in Opened' /\ disks'[i] = disks[i]
  BY <1>1 DEF Opened
<1>3. scan.from \in 1..Len(disks')
  BY <1>1
<1>4. ASSUME NEW n, NEW k, Seen(n, k) PROVE Seen(n, k)'
  BY <1>2, <1>4 DEF Seen
<1>5. ASSUME NEW n, Steadily(n)' PROVE Steadily(n)
  BY <1>2, <1>5 DEF Steadily
<1>. QED
  BY <1>3, <1>4, <1>5

LEMMA GrowStep ==
  ASSUME ScanInv, NEW d \in Disks, disks' = Append(disks, d), scan' = scan, cfg' = cfg
  PROVE  ScanInv'
<1>. USE DEF ScanInv
<1>1. DisksTyped' /\ ScanTyped'
  BY Grown DEF ScanTyped
<1>2. ReadForCause'
  BY GrownCauses DEF ReadForCause
<1>3. CASE scan.stage \in Reading
  <2>1. scan.from \in 1..Len(disks)
    BY <1>3 DEF EntriesSeen
  <2>2. /\ scan'.from \in 1..Len(disks')
        /\ \A n, k : Seen(n, k) => Seen(n, k)'
        /\ \A n : Steadily(n)' => Steadily(n)
    BY <2>1, GrownSeen
  <2>3. EntriesSeen'
    BY <2>2 DEF EntriesSeen, SeenAs, ShownAs
  <2>4. EntryRead'
    BY <2>2 DEF EntryRead, Returned, SeenAs, ShownAs
  <2>5. LoneRead' /\ SingleRead'
    BY <2>2 DEF LoneRead, SingleRead
  <2>. QED
    BY <1>1, <1>2, <2>3, <2>4, <2>5
<1>4. CASE scan.stage \notin Reading
  BY <1>1, <1>2, <1>4 DEF Reading, EntriesSeen, EntryRead, LoneRead, SingleRead
<1>. QED
  BY <1>3, <1>4
-----------------------------------------------------------------------------
(* The steps of the reading, on a disk that stands still.                  *)
Still == disks' = disks /\ cfg' = cfg

(* A directory with one file all the time is read as one file, so it is    *)
(* listed without --directory-listing only if it was something else.       *)
LEMMA ListedForCause ==
  ASSUME ScanInv, scan.stage = "next", Throughout \subseteq Returned, ~LoneFile(cfg.single),
         ~cfg.listing
  PROVE  Unlistable \/ Unsteady
<1>. SUFFICES ASSUME ~Unlistable, ~Unsteady PROVE FALSE
  OBVIOUS
<1>. USE DEF ScanInv
<1>1. cfg.single /\ \A i \in DOMAIN disks : Alone(disks[i], "file")
  BY DEF Unlistable, Was
<1>2. /\ scan.from \in 1..Len(disks)
      /\ \A e \in scan.out : e.name \in Names /\ e.is_dir \in BOOLEAN /\ SeenAs(e.name, e.is_dir)
      /\ \A e, f \in scan.out : e.name = f.name => e = f
  BY DEF EntriesSeen, Reading
<1>3. DOMAIN disks = 1..Len(disks) /\ Len(disks) \in Nat \ {0}
  BY DiskIsLast
<1>. DEFINE a == scan.from
<1>4. PICK n \in Names : disks[a].dir.kind = [m \in Names |-> IF m = n THEN "file" ELSE "none"]
  BY <1>1, <1>2, <1>3 DEF Alone
<1>5. \A i \in DOMAIN disks, m \in Names : disks[i].dir.kind[m] = IF m = n THEN "file" ELSE "none"
  <2>. TAKE i \in DOMAIN disks, m \in Names
  <2>1. disks[i].dir.kind[m] = disks[a].dir.kind[m]
    BY <1>2, <1>3 DEF Unsteady
  <2>. QED
    BY <1>4, <2>1
<1>6. Opened \subseteq DOMAIN disks
  BY <1>2, <1>3 DEF Opened
<1>7. n \in Throughout
  BY <1>5, <1>6, SinceOpened DEF Steadily
<1>8. PICK e \in scan.out : e.name = n
  BY <1>7 DEF Returned
<1>9. ASSUME NEW f \in scan.out PROVE f.name = n /\ ~f.is_dir
  <2>1. PICK i \in Opened : disks[i].dir.kind[f.name] \in ShownAs(f.is_dir)
    BY <1>2 DEF Seen, SeenAs
  <2>2. disks[i].dir.kind[f.name] = IF f.name = n THEN "file" ELSE "none"
    BY <1>2, <1>5, <1>6, <2>1
  <2>. QED
    BY <2>1, <2>2 DEF ShownAs
<1>10. scan.out = {e}
  BY <1>2, <1>8, <1>9
<1>11. Cardinality(scan.out) = 1
  BY <1>10, FS_Singleton
<1>. QED
  BY <1>1, <1>9, <1>11 DEF LoneFile

LEMMA KeepStep ==
  ASSUME ScanInv, Still, scan.stage \in {"type", "size"},
         NEW is_dir \in BOOLEAN, NEW sized,
         SeenAs(scan.at.name, is_dir),
         Keep(Entry(scan.at.name, is_dir, sized))
  PROVE  ScanInv'
<1>. USE DEF ScanInv
<1>0. PICK e : e = Entry(scan.at.name, is_dir, sized)
  OBVIOUS
<1>1. e.name = scan.at.name /\ e.is_dir = is_dir
  BY <1>0 DEF Entry
<1>2. scan.at.name \in Names \ Returned
  BY DEF EntryRead
<1>3. scan' = [stage |-> "next", from |-> scan.from, at |-> NoEntry, out |-> scan.out \union {e},
               shown |-> scan.shown]
  BY <1>0 DEF Keep, ScanTyped
<1>4. /\ scan'.stage = "next" /\ scan'.from = scan.from /\ scan'.out = scan.out \union {e}
      /\ disks' = disks
  BY <1>3 DEF Still
<1>5. \A n, k : Seen(n, k) => Seen(n, k)'
  BY <1>4 DEF Seen, Opened
<1>6. IsFiniteSet(scan.out \union {e})
  BY FS_AddElement DEF ScanTyped
<1>7. ScanTyped'
  BY <1>3, <1>4, <1>6 DEF ScanTyped, Stages
<1>8. \A n, d : SeenAs(n, d) => SeenAs(n, d)'
  BY <1>5 DEF SeenAs, ShownAs
<1>9. EntriesSeen'
  <2>1. /\ scan.from \in 1..Len(disks)
        /\ \A f \in scan.out : f.name \in Names /\ f.is_dir \in BOOLEAN /\ SeenAs(f.name, f.is_dir)
        /\ \A f, g \in scan.out : f.name = g.name => f = g
    BY DEF EntriesSeen, Reading
  <2>2. \A f \in scan.out : f.name # e.name
    BY <1>1, <1>2 DEF Returned
  <2>3. SeenAs(e.name, e.is_dir)'
    BY <1>1, <1>8
  <2>4. \A f \in scan'.out : f.name \in Names /\ f.is_dir \in BOOLEAN /\ SeenAs(f.name, f.is_dir)'
    BY <1>1, <1>2, <1>4, <1>8, <2>1, <2>3
  <2>5. \A f, g \in scan'.out : f.name = g.name => f = g
    BY <1>4, <2>1, <2>2
  <2>. QED
    BY <1>4, <2>1, <2>4, <2>5 DEF EntriesSeen
<1>. QED
  BY <1>4, <1>7, <1>9 DEF Still, DisksTyped, EntryRead, LoneRead, SingleRead, ReadForCause

LEMMA FailStep ==
  ASSUME ScanInv, Still, Fail, DirGone \/ Unsteady \/ Unreadable
  PROVE  ScanInv'
<1>. USE DEF ScanInv
<1>1. scan' = [stage |-> "failed", from |-> scan.from, at |-> NoEntry, out |-> scan.out,
               shown |-> scan.shown]
  BY DEF Fail, ScanTyped
<1>2. scan'.stage = "failed" /\ scan'.out = scan.out /\ disks' = disks
  BY <1>1 DEF Still
<1>3. ScanTyped'
  BY <1>1, <1>2 DEF ScanTyped, Stages
<1>4. (DirGone \/ Unsteady \/ Unreadable)'
  BY <1>2 DEF DirGone, Unsteady, Unreadable, Was, Alone, Still
<1>. QED
  BY <1>2, <1>3, <1>4 DEF DisksTyped, EntriesSeen, EntryRead, LoneRead, SingleRead,
     ReadForCause, Reading
LEMMA ScanStep ==
  ASSUME ScanInv, Still, Scan(cfg.single)
  PROVE  ScanInv'
<1>. USE DEF ScanInv
<1>1. /\ Len(disks) \in Nat \ {0} /\ DOMAIN disks = 1..Len(disks)
      /\ Disk = disks[Len(disks)] /\ Len(disks) \in DOMAIN disks
  BY DiskIsLast
<1>2. scan.stage \in Reading => /\ scan.from \in 1..Len(disks) /\ Opened \subseteq DOMAIN disks
                               /\ Len(disks) \in Opened
  BY <1>1 DEF EntriesSeen, Opened
<1>3. \A i \in DOMAIN disks, n \in Names : disks[i].dir.kind[n] \in Kinds
  BY KindsTyped
<1>4. CASE OpenDir
  <2>1. CASE ~(Disk.dir.there /\ Disk.dir.readable)
    BY <1>1, <1>4, <2>1, FailStep DEF OpenDir, DirGone
  <2>2. CASE Disk.dir.there /\ Disk.dir.readable
    <3>1. scan' = [stage |-> "next", from |-> Len(disks), at |-> scan.at, out |-> scan.out,
                   shown |-> scan.shown]
      BY <1>4, <2>2 DEF OpenDir, ScanTyped
    <3>2. scan'.stage = "next" /\ scan'.from = Len(disks) /\ scan'.out = {} /\ disks' = disks
      BY <1>4, <3>1 DEF OpenDir, Scanning, ScanTyped, Still
    <3>3. ScanTyped'
      BY <3>1, <3>2, FS_EmptySet DEF ScanTyped, Stages
    <3>. QED
      BY <1>1, <3>2, <3>3 DEF DisksTyped, EntriesSeen, EntryRead, LoneRead, SingleRead, ReadForCause
  <2>. QED
    BY <2>1, <2>2
<1>5. CASE NextEntry
  <2>1. scan.stage = "next"
    BY <1>5 DEF NextEntry, Scanning
  <2>2. PICK n \in Names \ Returned, d \in Since :
          /\ d.dir.kind[n] # "none"
          /\ scan' = [scan EXCEPT !.stage = "type", !.at = [name |-> n, kind |-> d.dir.kind[n]]]
    BY <1>5 DEF NextEntry
  <2>3. PICK k : k = d.dir.kind[n]
    OBVIOUS
  <2>4. scan' = [stage |-> "type", from |-> scan.from, at |-> [name |-> n, kind |-> k],
                 out |-> scan.out, shown |-> scan.shown]
    BY <2>2, <2>3 DEF ScanTyped
  <2>5. /\ scan'.stage = "type" /\ scan'.from = scan.from /\ scan'.out = scan.out
        /\ scan'.at.name = n /\ scan'.at.kind = k /\ disks' = disks
    BY <2>4 DEF Still
  <2>6. ScanTyped'
    BY <2>4, <2>5 DEF ScanTyped, Stages
  <2>7. \A m, l : Seen(m, l) => Seen(m, l)'
    BY <2>5 DEF Seen, Opened
  <2>8. Seen(n, k)
    BY <2>3, SinceOpened DEF Seen
  <2>9. EntriesSeen'
    BY <2>1, <2>5, <2>7 DEF EntriesSeen, Reading, SeenAs, ShownAs
  <2>10. EntryRead'
    BY <2>2, <2>3, <2>5, <2>7, <2>8 DEF EntryRead, Returned
  <2>. QED
    BY <2>5, <2>6, <2>9, <2>10 DEF DisksTyped, LoneRead, SingleRead, ReadForCause, Still
<1>6. CASE FileType
  <2>1. scan.stage = "type" /\ scan.at.name \in Names \ Returned
        /\ scan.at.kind # "none" /\ Seen(scan.at.name, scan.at.kind)
    BY <1>6 DEF FileType, Scanning, EntryRead
  <2>2. PICK kind \in {scan.at.kind, Disk.dir.kind[scan.at.name]} :
          \/ kind = "dir"  /\ Keep(Entry(scan.at.name, TRUE, FALSE))
          \/ kind \in {"file", "unreadable"} /\ scan' = [scan EXCEPT !.stage = "size"]
          \/ kind = "none" /\ Fail
    BY <1>6 DEF FileType
  <2>3. Seen(scan.at.name, kind)
    BY <1>1, <1>2, <2>1, <2>2 DEF Seen, Reading
  <2>4. CASE kind = "dir" /\ Keep(Entry(scan.at.name, TRUE, FALSE))
    BY <2>1, <2>3, <2>4, KeepStep DEF SeenAs, ShownAs
  <2>5. CASE kind \in {"file", "unreadable"} /\ scan' = [scan EXCEPT !.stage = "size"]
    <3>1. scan' = [stage |-> "size", from |-> scan.from, at |-> scan.at, out |-> scan.out,
                   shown |-> scan.shown]
      BY <2>5 DEF ScanTyped
    <3>2. /\ scan'.stage = "size" /\ scan'.from = scan.from /\ scan'.out = scan.out
          /\ scan'.at = scan.at /\ disks' = disks
      BY <3>1 DEF Still
    <3>3. \A m, l : Seen(m, l) => Seen(m, l)'
      BY <3>2 DEF Seen, Opened
    <3>4. ScanTyped'
      BY <3>1, <3>2 DEF ScanTyped, Stages
    <3>5. EntriesSeen'
      BY <2>1, <3>2, <3>3 DEF EntriesSeen, Reading, SeenAs, ShownAs
    <3>6. EntryRead'
      BY <2>1, <2>3, <2>5, <3>2, <3>3 DEF EntryRead, Returned, SeenAs, ShownAs
    <3>. QED
      BY <3>2, <3>4, <3>5, <3>6 DEF DisksTyped, LoneRead, SingleRead, ReadForCause
  <2>6. CASE kind = "none" /\ Fail
    <3>1. PICK i \in Opened : disks[i].dir.kind[scan.at.name] = scan.at.kind
      BY <2>1 DEF Seen
    <3>2. Disk.dir.kind[scan.at.name] = "none"
      BY <2>1, <2>2, <2>6
    <3>3. Unsteady
      BY <1>1, <1>2, <2>1, <3>1, <3>2 DEF Unsteady, Reading
    <3>. QED
      BY <2>6, <3>3, FailStep
  <2>. QED
    BY <2>2, <2>4, <2>5, <2>6
<1>7. CASE Metadata
  <2>1. scan.stage = "size" /\ SeenAs(scan.at.name, FALSE)
    BY <1>7 DEF Metadata, Scanning, EntryRead
  <2>2. PICK sized : sized = (Disk.dir.kind[scan.at.name] # "none")
    OBVIOUS
  <2>3. Keep(Entry(scan.at.name, FALSE, sized))
    BY <1>7, <2>2 DEF Metadata
  <2>. QED
    BY <2>1, <2>3, KeepStep
<1>8. CASE EndOfEntries(cfg.single)
  <2>1. scan.stage = "next" /\ Throughout \subseteq Returned
    BY <1>8 DEF EndOfEntries, Scanning
  <2>2. CASE LoneFile(cfg.single)
    <3>1. scan' = [stage |-> "lone", from |-> scan.from, at |-> scan.at, out |-> scan.out,
                   shown |-> scan.shown]
      BY <1>8, <2>2 DEF EndOfEntries, ScanTyped
    <3>2. /\ scan'.stage = "lone" /\ scan'.from = scan.from /\ scan'.out = scan.out
          /\ disks' = disks
      BY <3>1 DEF Still
    <3>3. /\ \A m, l : Seen(m, l) => Seen(m, l)'
          /\ \A n : Steadily(n)' => Steadily(n)
      BY <3>2 DEF Seen, Steadily, Opened
    <3>4. ScanTyped'
      BY <3>1, <3>2 DEF ScanTyped, Stages
    <3>5. EntriesSeen'
      BY <2>1, <3>2, <3>3 DEF EntriesSeen, Reading, SeenAs, ShownAs
    <3>6. PICK e : scan.out = {e}
      BY <2>2, FS_Singleton DEF LoneFile, ScanTyped
    <3>7. ~e.is_dir /\ \A n \in Names : Steadily(n) => n = e.name
      BY <2>1, <2>2, <3>6, SinceOpened DEF LoneFile, Returned
    <3>8. LoneRead'
      BY <2>2, <3>2, <3>3, <3>6, <3>7 DEF LoneRead, LoneFile, Still
    <3>. QED
      BY <3>2, <3>4, <3>5, <3>8 DEF DisksTyped, EntryRead, SingleRead, ReadForCause
  <2>3. CASE ~LoneFile(cfg.single)
    <3>. DEFINE shown == Shown(scan.out)
    <3>1. scan' = [scan EXCEPT !.stage = "listed", !.shown = shown]
      BY <1>8, <2>3 DEF EndOfEntries
    <3>. HIDE DEF shown
    <3>2. scan' = [stage |-> "listed", from |-> scan.from, at |-> scan.at, out |-> scan.out,
                   shown |-> shown]
      BY <3>1 DEF ScanTyped
    <3>3. /\ scan'.stage = "listed" /\ scan'.from = scan.from /\ scan'.out = scan.out
          /\ disks' = disks /\ cfg' = cfg
      BY <3>2 DEF Still
    <3>4. \A m, l : Seen(m, l) => Seen(m, l)'
      BY <3>3 DEF Seen, Opened
    <3>5. ScanTyped'
      BY <3>2, <3>3 DEF ScanTyped, Stages
    <3>6. EntriesSeen'
      BY <2>1, <3>3, <3>4 DEF EntriesSeen, Reading, SeenAs, ShownAs
    <3>7. ~cfg.listing => Unlistable \/ Unsteady
      BY <2>1, <2>3, ListedForCause
    <3>8. ReadForCause'
      BY <3>3, <3>7 DEF ReadForCause, Unlistable, Unreadable, Was, Alone, Unsteady
    <3>. QED
      BY <3>3, <3>5, <3>6, <3>8 DEF DisksTyped, EntryRead, LoneRead, SingleRead
  <2>. QED
    BY <2>2, <2>3
<1>9. CASE ReadLone
  <2>1. scan.stage = "lone"
    BY <1>9 DEF ReadLone, Scanning
  <2>2. PICK e : scan.out = {e} /\ ~e.is_dir /\ \A n \in Names : Steadily(n) => n = e.name
    BY <2>1 DEF LoneRead
  <2>3. e.name \in Names /\ SeenAs(e.name, FALSE)
    BY <2>1, <2>2 DEF EntriesSeen, Reading
  <2>4. CASE Disk.dir.kind[e.name] = "file"
    <3>1. scan' = [stage |-> "single", from |-> scan.from, at |-> scan.at, out |-> scan.out,
                   shown |-> <<e>>]
      BY <1>9, <2>2, <2>4 DEF ReadLone, ScanTyped
    <3>2. /\ scan'.stage = "single" /\ scan'.from = scan.from /\ scan'.out = scan.out
          /\ scan'.shown = <<e>> /\ disks' = disks
      BY <3>1 DEF Still
    <3>3. /\ \A m, l : Seen(m, l) => Seen(m, l)'
          /\ \A n : Steadily(n)' => Steadily(n)
      BY <3>2 DEF Seen, Steadily, Opened
    <3>4. ScanTyped'
      BY <3>1, <3>2 DEF ScanTyped, Stages
    <3>5. EntriesSeen'
      BY <2>1, <3>2, <3>3 DEF EntriesSeen, Reading, SeenAs, ShownAs
    <3>6. Seen(e.name, "file")
      BY <1>1, <1>2, <2>1, <2>4 DEF Seen, Reading
    <3>7. SingleRead'
      BY <2>2, <3>2, <3>3, <3>6 DEF SingleRead
    <3>. QED
      BY <3>2, <3>4, <3>5, <3>7 DEF DisksTyped, EntryRead, LoneRead, ReadForCause
  <2>5. CASE Disk.dir.kind[e.name] # "file"
    <3>1. Fail
      BY <1>9, <2>2, <2>5 DEF ReadLone
    <3>2. PICK i \in Opened : disks[i].dir.kind[e.name] \in {"file", "unreadable"}
      BY <2>3 DEF Seen, SeenAs, ShownAs
    <3>3. ASSUME ~Unsteady PROVE Unreadable
      <4>1. \A j \in Opened, n \in Names : disks[j].dir.kind[n] = Disk.dir.kind[n]
        BY <1>1, <1>2, <2>1, <3>3 DEF Unsteady, Reading
      <4>2. Disk.dir.kind[e.name] = "unreadable"
        BY <2>3, <2>5, <3>2, <4>1
      <4>3. \A n \in Names : n # e.name => Disk.dir.kind[n] = "none"
        BY <2>2, <4>1 DEF Steadily
      <4>4. Disk.dir.kind \in [Names -> Kinds]
        BY <1>1, KindsTyped
      <4>5. Disk.dir.kind = [n \in Names |-> IF n = e.name THEN "unreadable" ELSE "none"]
        BY <4>2, <4>3, <4>4
      <4>6. Alone(Disk, "unreadable")
        BY <2>3, <4>5 DEF Alone
      <4>7. cfg.single
        BY <2>1 DEF LoneRead
      <4>. QED
        BY <1>1, <4>6, <4>7 DEF Unreadable, Was
    <3>. QED
      BY <3>1, <3>3, FailStep
  <2>. QED
    BY <2>4, <2>5
<1>. QED
  BY <1>4, <1>5, <1>6, <1>7, <1>8, <1>9 DEF Scan
-----------------------------------------------------------------------------
(* The causes of an answer, and of an error before it is answered.         *)
HadAsset(v)   == \E i \in DOMAIN disks : disks[i].asset = v
HadPage(s)    == \E i \in DOMAIN disks : s \in disks[i].pages
LackedPage(s) == \E i \in DOMAIN disks : s \notin disks[i].pages
LostAsset     == \E i \in DOMAIN disks : disks[i].asset = 0 \/ ~disks[i].readable
DirCause      == DirGone \/ Unlistable \/ Unreadable \/ Unsteady

NotFoundForCause(status) ==
  status = 404 => /\ req.finds = "file" => LostAsset
                  /\ req.finds = "dir"  => DirCause

Caused(r) ==
  /\ r.body.what = "file"     => HadAsset(r.body.version)
  /\ r.body.what = "page"     => r.body.version = r.status /\ HadPage(r.status)
  /\ r.body.what = "fallback" => LackedPage(r.status)
  /\ NotFoundForCause(r.status)

AnswerInv ==
  /\ pc = "found" => req.finds = "file"
  /\ pc = "listing" => req.finds = "dir"
  /\ pc = "error" => NotFoundForCause(error.status)
  /\ pc \in {"built", "sent"} => Caused(resp)

CauseInv == TypesOK /\ ScanInv /\ AnswerInv

LEMMA CausedAlike ==
  ASSUME NEW r, Caused(r), NEW s, Alike(s, r)
  PROVE  Caused(s)
<1>1. s.status = r.status /\ s.body.what = r.body.what /\ s.body.version = r.body.version
  BY DEF Alike
<1>. QED
  BY <1>1 DEF Caused

(* Causes are about the disk, the configuration and the request only.      *)
LEMMA CausesSame ==
  ASSUME UNCHANGED <<cfg, disks, req>>
  PROVE  /\ \A s : NotFoundForCause(s) => NotFoundForCause(s)'
         /\ \A r : Caused(r) => Caused(r)'
<1>1. (DirCause <=> DirCause') /\ (LostAsset <=> LostAsset')
  BY DEF DirCause, DirGone, Unlistable, Unreadable, Unsteady, Was, Alone, LostAsset
<1>2. \A s : NotFoundForCause(s) => NotFoundForCause(s)'
  BY <1>1 DEF NotFoundForCause
<1>3. \A x : /\ HadAsset(x) => HadAsset(x)'
             /\ HadPage(x) => HadPage(x)'
             /\ LackedPage(x) => LackedPage(x)'
  BY DEF HadAsset, HadPage, LackedPage
<1>4. ASSUME NEW r, Caused(r) PROVE Caused(r)'
  BY <1>2, <1>3, <1>4 DEF Caused
<1>. QED
  BY <1>2, <1>4

LEMMA CausesGrow ==
  ASSUME DisksTyped, NEW d \in Disks, disks' = Append(disks, d), UNCHANGED <<cfg, req>>
  PROVE  /\ \A s : NotFoundForCause(s) => NotFoundForCause(s)'
<1>1. DirCause => DirCause'
  BY GrownCauses DEF DirCause
<1>2. LostAsset => LostAsset'
  BY Grown DEF LostAsset
<1>. QED
  BY <1>1, <1>2 DEF NotFoundForCause

LEMMA ScanSame ==
  ASSUME ScanInv, UNCHANGED <<cfg, disks, scan>>
  PROVE  ScanInv'
<1>. USE DEF ScanInv
<1>1. DisksTyped' /\ ScanTyped'
  BY DEF DisksTyped, ScanTyped
<1>2. /\ \A n, k : Seen(n, k) <=> Seen(n, k)'
      /\ \A n : Steadily(n) <=> Steadily(n)'
  BY DEF Seen, Steadily, Opened
<1>3. EntriesSeen' /\ EntryRead'
  BY <1>2 DEF EntriesSeen, EntryRead, SeenAs, ShownAs, Returned
<1>4. LoneRead' /\ SingleRead'
  BY <1>2 DEF LoneRead, SingleRead
<1>5. ReadForCause'
  BY DEF ReadForCause, DirGone, Unlistable, Unreadable, Unsteady, Was, Alone
<1>. QED
  BY <1>1, <1>3, <1>4, <1>5

LEMMA ScanAnew ==
  ASSUME DisksTyped',
         scan' = NoScan \/ scan' = [NoScan EXCEPT !.stage = "open"]
  PROVE  ScanInv'
<1>1. PICK stage \in {"idle", "open"} :
        scan' = [stage |-> stage, from |-> 0, at |-> NoEntry, out |-> {}, shown |-> <<>>]
  BY DEF NoScan
<1>2. ScanTyped'
  BY <1>1, FS_EmptySet DEF ScanTyped, Stages
<1>3. scan'.stage = stage
  BY <1>1
<1>. QED
  BY <1>2, <1>3 DEF ScanInv, EntriesSeen, EntryRead, LoneRead, SingleRead, ReadForCause, Reading

(* A file that is answered keeps its version and a status of its own.      *)
LEMMA FileKept ==
  ASSUME NEW what, NEW version, NEW type, NEW n, NEW at
  PROVE  LET t == build_file(what, version, type, n, at)
         IN  t.status \in {200, 206, 416} /\ t.body.what = what /\ t.body.version = version
<1>. DEFINE t    == build_file(what, version, type, n, at)
            h    == [Typed(type) EXCEPT !.etag = IF cfg.etag THEN version ELSE 0]
            b    == Body(what, version, 0, n)
            bare == Response(200, h, b)
            u    == apply_custom_headers(bare, at, cfg.rules)
            r    == parse_range(req.range[1], n)
<1>1. t \in {u, build_206(u, r, n), build_416(u, n)}
  BY DEF build_file, file_response, Ranged, apply_range
<1>2. Shaped(bare)
  BY ShapeOfResponse
<1>. HIDE DEF t, r, u
<1>3. bare.status = 200 /\ bare.body.what = what /\ bare.body.version = version
  BY DEF Response, Body
<1>. HIDE DEF bare
<1>4. Shaped(u) /\ Alike(u, bare)
  BY <1>2, RulesKeep DEF u
<1>5. u.status = 200 /\ u.body.what = what /\ u.body.version = version
  BY <1>3, <1>4 DEF Alike
<1>6. LET p == build_206(u, r, n)
      IN  p.status = 206 /\ p.body.what = what /\ p.body.version = version
  BY <1>4, <1>5, PartialShape
<1>7. LET p == build_416(u, n)
      IN  p.status = 416 /\ p.body.what = what /\ p.body.version = version
  BY <1>4, <1>5, RefusedShape
<1>8. t.status \in {200, 206, 416} /\ t.body.what = what /\ t.body.version = version
  BY <1>1, <1>5, <1>6, <1>7
<1>. QED
  BY <1>8 DEF t

LEMMA OtherKept ==
  ASSUME NEW s, NEW h, NEW what, NEW version, NEW first, NEW count, NEW place, NEW rules
  PROVE  LET t == Response(s, h, Body(what, version, first, count))
             u == apply_custom_headers(t, place, rules)
         IN  /\ t.status = s /\ t.body.what = what /\ t.body.version = version
             /\ u.status = s /\ u.body.what = what /\ u.body.version = version
<1>. DEFINE t == Response(s, h, Body(what, version, first, count))
            u == apply_custom_headers(t, place, rules)
<1>1. Shaped(t)
  BY ShapeOfResponse
<1>2. t.status = s /\ t.body.what = what /\ t.body.version = version
  BY DEF Response, Body
<1>. HIDE DEF t
<1>3. Alike(u, t)
  BY <1>1, RulesKeep
<1>. HIDE DEF u
<1>4. u.status = s /\ u.body.what = what /\ u.body.version = version
  BY <1>2, <1>3 DEF Alike
<1>. QED
  BY <1>2, <1>4 DEF t, u

LEMMA CauseInit == Init => CauseInv
<1>. SUFFICES ASSUME Init PROVE CauseInv
  OBVIOUS
<1>1. ScanInv /\ TypesOK
  BY ScanInit, RangeInit DEF RangeInv
<1>. QED
  BY <1>1 DEF Init, CauseInv, AnswerInv
LEMMA CauseStep == CauseInv /\ RangeInv /\ [Next]_vars => CauseInv'
<1>. SUFFICES ASSUME CauseInv, RangeInv, [Next]_vars PROVE CauseInv'
  OBVIOUS
<1>1. TypesOK'
  BY RangeStep DEF RangeInv
<1>2. DisksTyped /\ DisksTyped'
  BY <1>1 DEF CauseInv, TypesOK, DisksTyped
<1>. USE DEF CauseInv
<1>3. /\ Len(disks) \in DOMAIN disks /\ Disk = disks[Len(disks)]
  BY <1>2, DiskIsLast
<1>4. ASSUME NEW t, Build(t), Caused(t), UNCHANGED scan PROVE CauseInv'
  <2>1. UNCHANGED <<cfg, disks, req, scan>> /\ pc' = "built" /\ resp' = t
    BY <1>4 DEF Build
  <2>2. ScanInv'
    BY <2>1, ScanSame
  <2>3. Caused(t)'
    BY <1>4, <2>1, CausesSame
  <2>4. Caused(resp)'
    BY <2>1, <2>3 DEF Caused
  <2>. QED
    BY <1>1, <2>1, <2>2, <2>4 DEF AnswerInv
<1>5. ASSUME NEW status, NEW skip, Err(status, skip), NotFoundForCause(status), UNCHANGED scan
      PROVE  CauseInv'
  <2>1. UNCHANGED <<cfg, disks, req, scan>> /\ pc' = "error" /\ error'.status = status
    BY <1>5 DEF Err
  <2>2. ScanInv'
    BY <2>1, ScanSame
  <2>3. NotFoundForCause(status)'
    BY <1>5, <2>1, CausesSame
  <2>4. NotFoundForCause(error.status)'
    BY <2>1, <2>3 DEF NotFoundForCause
  <2>. QED
    BY <1>1, <2>1, <2>2, <2>4 DEF AnswerInv
<1>6. CASE \E r \in Requests : Ask(r)
  <2>1. UNCHANGED <<cfg, disks, scan>> /\ pc' = "asked"
    BY <1>6 DEF Ask
  <2>. QED
    BY <1>1, <2>1, ScanSame DEF AnswerInv
<1>7. CASE MethodNotAllowed
  <2>. DEFINE t == apply_custom_headers(Response(405, Missing, NoBody), req.raw, cfg.rules)
  <2>1. Build(t) /\ UNCHANGED scan
    BY <1>7 DEF MethodNotAllowed
  <2>2. t.status = 405 /\ t.body.what = "none"
    BY OtherKept DEF NoBody
  <2>. HIDE DEF t
  <2>3. Caused(t)
    BY <2>2 DEF Caused, NotFoundForCause
  <2>. QED
    BY <1>4, <2>1, <2>3
<1>8. CASE BadRequest
  <2>1. Err(400, TRUE) /\ UNCHANGED scan /\ NotFoundForCause(400)
    BY <1>8 DEF BadRequest, AskedFor, NotFoundForCause
  <2>. QED
    BY <1>5, <2>1
<1>9. CASE Redirected
  <2>. DEFINE t == Response(301, Missing, NoBody)
  <2>1. Build(t) /\ UNCHANGED scan
    BY <1>9 DEF Redirected, AskedFor
  <2>2. t.status = 301 /\ t.body.what = "none"
    BY DEF Response, NoBody, Body
  <2>. HIDE DEF t
  <2>3. Caused(t)
    BY <2>2 DEF Caused, NotFoundForCause
  <2>. QED
    BY <1>4, <2>1, <2>3
<1>10. CASE NotFound
  <2>1. Err(404, FALSE) /\ UNCHANGED scan /\ req.finds = "nothing"
    BY <1>10 DEF NotFound, AskedFor
  <2>2. NotFoundForCause(404)
    BY <2>1 DEF NotFoundForCause
  <2>. QED
    BY <1>5, <2>1, <2>2
<1>11. CASE ResolveFile
  <2>1. UNCHANGED scan /\ req.finds = "file"
    BY <1>11 DEF ResolveFile, AskedFor
  <2>2. CASE Disk.asset = 0
    <3>1. Err(404, FALSE)
      BY <1>11, <2>2 DEF ResolveFile
    <3>2. NotFoundForCause(404)
      BY <1>3, <2>1, <2>2 DEF NotFoundForCause, LostAsset
    <3>. QED
      BY <1>5, <2>1, <3>1, <3>2
  <2>3. CASE Disk.asset # 0
    <3>1. UNCHANGED <<cfg, disks, req, scan>> /\ pc' = "found"
      BY <1>11, <2>1, <2>3 DEF ResolveFile, Go
    <3>. QED
      BY <1>1, <2>1, <3>1, ScanSame DEF AnswerInv
  <2>. QED
    BY <2>2, <2>3
<1>12. CASE ResolveDirectory
  <2>1. req.finds = "dir"
    BY <1>12 DEF ResolveDirectory
  <2>2. CASE Disk.dir.there /\ (cfg.listing \/ cfg.single)
    <3>1. UNCHANGED <<cfg, disks, req>> /\ pc' = "listing"
      BY <1>12, <2>2 DEF ResolveDirectory, Go
    <3>2. ScanInv'
      BY <1>2, <1>12, <2>2, ScanAnew DEF ResolveDirectory
    <3>. QED
      BY <1>1, <2>1, <3>1, <3>2 DEF AnswerInv
  <2>3. CASE ~(Disk.dir.there /\ (cfg.listing \/ cfg.single))
    <3>1. Err(404, FALSE) /\ UNCHANGED scan
      BY <1>12, <2>3 DEF ResolveDirectory
    <3>2. DirCause
      BY <1>3, <2>3 DEF DirCause, DirGone, Unlistable
    <3>3. NotFoundForCause(404)
      BY <2>1, <3>2 DEF NotFoundForCause
    <3>. QED
      BY <1>5, <3>1, <3>3
  <2>. QED
    BY <2>2, <2>3
<1>13. CASE ReadFile
  <2>1. UNCHANGED scan /\ req.finds = "file"
    BY <1>13 DEF ReadFile, AnswerInv
  <2>2. CASE Disk.asset = 0 \/ ~Disk.readable
    <3>1. Err(404, FALSE)
      BY <1>13, <2>2 DEF ReadFile
    <3>2. NotFoundForCause(404)
      BY <1>3, <2>1, <2>2 DEF NotFoundForCause, LostAsset
    <3>. QED
      BY <1>5, <2>1, <3>1, <3>2
  <2>3. CASE ~(Disk.asset = 0 \/ ~Disk.readable)
    <3>. DEFINE t == build_file("file", Disk.asset, cfg.type, Size(Disk.asset), req.at)
    <3>1. Build(t)
      BY <1>13, <2>3 DEF ReadFile
    <3>2. t.status \in {200, 206, 416} /\ t.body.what = "file" /\ t.body.version = Disk.asset
      BY FileKept
    <3>. HIDE DEF t
    <3>3. Caused(t)
      BY <1>3, <3>2 DEF Caused, NotFoundForCause, HadAsset
    <3>. QED
      BY <1>4, <2>1, <3>1, <3>3
  <2>. QED
    BY <2>2, <2>3
<1>14. CASE ReadDirectory
  <2>1. Scan(cfg.single) /\ UNCHANGED <<cfg, pc, req, error, resp>> /\ pc = "listing"
    BY <1>14 DEF ReadDirectory
  <2>2. Still
    BY <2>1 DEF Still, Scan, OpenDir, NextEntry, FileType, Metadata, EndOfEntries, ReadLone, Scanning
  <2>3. ScanInv'
    BY <2>1, <2>2, ScanStep
  <2>. QED
    BY <1>1, <2>1, <2>3 DEF AnswerInv
<1>15. CASE Listed
  <2>. DEFINE h == Typed(IF listing_accepts_json(req.accept) THEN Json ELSE Html)
              n == SmallText + Len(scan.shown)
              t == Response(200, h, Body("listing", 0, 0, n))
  <2>1. Build(t) /\ UNCHANGED scan
    BY <1>15 DEF Listed, Read
  <2>. HIDE DEF h, n
  <2>2. t.status = 200 /\ t.body.what = "listing"
    BY DEF Response, Body
  <2>. HIDE DEF t
  <2>3. Caused(t)
    BY <2>2 DEF Caused, NotFoundForCause
  <2>. QED
    BY <1>4, <2>1, <2>3
<1>16. CASE NotListed
  <2>1. /\ Err(404, FALSE) /\ UNCHANGED scan /\ pc = "listing"
        /\ scan.stage = "listed" /\ ~cfg.listing
    BY <1>16 DEF NotListed, Read
  <2>2. DirCause /\ req.finds = "dir"
    BY <2>1 DEF ScanInv, ReadForCause, DirCause, AnswerInv
  <2>3. NotFoundForCause(404)
    BY <2>2 DEF NotFoundForCause
  <2>. QED
    BY <1>5, <2>1, <2>3
<1>17. CASE SingleFile
  <2>. DEFINE t == build_file("lone", 0, cfg.type, Size(1), req.at)
  <2>1. Build(t) /\ UNCHANGED scan
    BY <1>17 DEF SingleFile, Read
  <2>2. t.status \in {200, 206, 416} /\ t.body.what = "lone"
    BY FileKept
  <2>. HIDE DEF t
  <2>3. Caused(t)
    BY <2>2 DEF Caused, NotFoundForCause
  <2>. QED
    BY <1>4, <2>1, <2>3
<1>18. CASE ListingFailed
  <2>1. Err(404, FALSE) /\ UNCHANGED scan /\ pc = "listing" /\ scan.stage = "failed"
    BY <1>18 DEF ListingFailed, Read
  <2>2. DirCause /\ req.finds = "dir"
    BY <2>1 DEF ScanInv, ReadForCause, DirCause, AnswerInv
  <2>3. NotFoundForCause(404)
    BY <2>2 DEF NotFoundForCause
  <2>. QED
    BY <1>5, <2>1, <2>3
<1>19. CASE ErrorJson
  <2>. DEFINE t == Response(error.status, Typed(Json), Body("json", 0, 0, SmallText))
  <2>1. Build(t) /\ UNCHANGED scan /\ NotFoundForCause(error.status)
    BY <1>19 DEF ErrorJson, AnswerInv
  <2>2. t.status = error.status /\ t.body.what = "json"
    BY DEF Response, Body
  <2>. HIDE DEF t
  <2>3. Caused(t)
    BY <2>1, <2>2 DEF Caused
  <2>. QED
    BY <1>4, <2>1, <2>3
<1>20. CASE ErrorPage
  <2>. DEFINE t == apply_custom_headers(
                     Response(error.status, Typed(Html), Body("page", error.status, 0, PageSize)),
                     Page(error.status), cfg.rules)
  <2>1. /\ Build(t) /\ UNCHANGED scan /\ NotFoundForCause(error.status)
        /\ HadPage(error.status)
    BY <1>3, <1>20 DEF ErrorPage, AnswerInv, HadPage
  <2>2. t.status = error.status /\ t.body.what = "page" /\ t.body.version = error.status
    BY OtherKept
  <2>. HIDE DEF t
  <2>3. Caused(t)
    BY <2>1, <2>2 DEF Caused
  <2>. QED
    BY <1>4, <2>1, <2>3
<1>21. CASE ErrorFallback
  <2>. DEFINE h == [FallbackRuled.headers EXCEPT !.type = Html]
              t == [FallbackRuled EXCEPT !.headers = h]
  <2>1. /\ Build(t) /\ UNCHANGED scan /\ NotFoundForCause(error.status)
        /\ LackedPage(error.status)
    BY <1>3, <1>21 DEF ErrorFallback, AnswerInv, LackedPage
  <2>2. /\ Shaped(FallbackRuled) /\ FallbackRuled.body.what = "fallback"
        /\ FallbackRuled.status = error.status
    <3>1. Shaped(FallbackBare)
      BY ShapeOfResponse DEF FallbackBare
    <3>2. FallbackBare.body.what = "fallback" /\ FallbackBare.status = error.status
      BY DEF FallbackBare, Response, Body
    <3>3. LET u == apply_custom_headers(FallbackBare, req.path, cfg.rules)
          IN  Shaped(u) /\ Alike(u, FallbackBare)
      BY <3>1, RulesKeep
    <3>. QED
      BY <3>1, <3>2, <3>3 DEF FallbackRuled, Alike
  <2>. HIDE DEF h
  <2>3. Alike(t, FallbackRuled)
    BY <2>2, HeadersApart
  <2>. HIDE DEF t
  <2>4. t.status = error.status /\ t.body.what = "fallback"
    BY <2>2, <2>3 DEF Alike
  <2>5. Caused(t)
    BY <2>1, <2>4 DEF Caused
  <2>. QED
    BY <1>4, <2>1, <2>5
<1>22. CASE Finish
  <2>1. UNCHANGED <<cfg, disks, scan, req, error>> /\ pc' = "sent" /\ Caused(resp)
    BY <1>22 DEF Finish, AnswerInv
  <2>2. PICK t : t = Framed(Finished)
    OBVIOUS
  <2>3. resp' = t /\ Alike(t, resp)
    BY <1>22, <2>2, FinishKeeps DEF Finish, TypesOK
  <2>4. Caused(t)
    BY <2>1, <2>3, CausedAlike
  <2>5. Caused(t)'
    BY <2>1, <2>4, CausesSame
  <2>6. Caused(resp)'
    BY <2>3, <2>5 DEF Caused
  <2>. QED
    BY <1>1, <2>1, <2>6, ScanSame DEF AnswerInv
<1>23. CASE Change
  <2>1. PICK d \in Disks : disks' = Append(disks, d)
    BY <1>23 DEF Change
  <2>2. UNCHANGED <<cfg, scan, pc, req, error, resp>> /\ pc \in {"found", "listing", "error"}
    BY <1>23 DEF Change
  <2>3. ScanInv'
    BY <2>1, <2>2, GrowStep
  <2>4. pc = "error" => NotFoundForCause(error.status)'
    <3>1. PICK s : s = error.status
      OBVIOUS
    <3>2. NotFoundForCause(s) => NotFoundForCause(s)'
      BY <1>2, <2>1, <2>2, CausesGrow
    <3>. QED
      BY <2>2, <3>1, <3>2 DEF AnswerInv
  <2>. QED
    BY <1>1, <2>2, <2>3, <2>4 DEF AnswerInv
<1>24. CASE Done
  <2>1. scan' = NoScan /\ pc' = "idle"
    BY <1>24 DEF Done
  <2>2. ScanInv'
    BY <1>2, <2>1, ScanAnew
  <2>. QED
    BY <1>1, <2>1, <2>2 DEF AnswerInv
<1>25. CASE UNCHANGED vars
  <2>1. UNCHANGED <<cfg, disks, scan, pc, req, error, resp>>
    BY <1>25 DEF vars
  <2>2. pc \in {"built", "sent"} => Caused(resp)'
    BY <2>1, CausesSame DEF AnswerInv, Caused
  <2>3. pc = "error" => NotFoundForCause(error.status)'
    BY <2>1, CausesSame DEF AnswerInv, NotFoundForCause
  <2>. QED
    BY <1>1, <2>1, <2>2, <2>3, ScanSame DEF AnswerInv
<1>. QED
  BY <1>6, <1>7, <1>8, <1>9, <1>10, <1>11, <1>12, <1>13, <1>14, <1>15, <1>16, <1>17, <1>18,
     <1>19, <1>20, <1>21, <1>22, <1>23, <1>24, <1>25 DEF Next, Handler

LEMMA Causes == Spec => []CauseInv
<1>1. Init => CauseInv /\ RangeInv
  BY CauseInit, RangeInit
<1>2. CauseInv /\ RangeInv /\ [Next]_vars => (CauseInv /\ RangeInv)'
  BY CauseStep, RangeStep
<1>. QED
  BY <1>1, <1>2, PTL DEF Spec

(* A file is answered in place of its directory only if it was a file then *)
(* and no other entry, hidden or not, was there all the time, whatever     *)
(* came and went while the directory was read (listing.rs, render): see    *)
(* SingleWasAlone.                                                         *)
THEOREM SinglesWereAlone == Spec => []SingleWasAlone
<1>1. ASSUME CauseInv, scan.stage = "single" PROVE SingleWasAlone
  <2>1. PICK e : /\ scan.shown = <<e>> /\ Seen(e.name, "file")
                 /\ \A n \in Names : Steadily(n) => n = e.name
    BY <1>1 DEF CauseInv, ScanInv, SingleRead
  <2>2. Len(scan.shown) = 1 /\ scan.shown[1] = e
    BY <2>1
  <2>3. Throughout \subseteq {e.name}
    BY <2>1, SinceOpened
  <2>4. \E d \in Since : d.dir.kind[e.name] = "file"
    BY <2>1, SinceOpened DEF Seen
  <2>. QED
    BY <2>2, <2>3, <2>4 DEF SingleWasAlone
<1>2. CauseInv => SingleWasAlone
  BY <1>1 DEF SingleWasAlone
<1>. QED
  BY <1>2, Causes, PTL

(* Every answer had its cause on the disk while it was made: the version   *)
(* of the file, the page or its absence, and what a 404 says is not there  *)
(* (dispatch.rs, listing.rs and error.rs): see AnswersForCause.            *)
THEOREM AnswersHaveCauses == Spec => []AnswersForCause
<1>1. CauseInv => AnswersForCause
  BY DEF CauseInv, AnswerInv, Caused, NotFoundForCause, HadAsset, LostAsset, HadPage, LackedPage, DirCause,
         DirGone, AnswersForCause, Sent, Held, Was
<1>. QED
  BY <1>1, Causes, PTL
-----------------------------------------------------------------------------
(* Types.  Between two answers nothing is left of the last one.            *)
Statuses == {200, 206, 301, 400, 404, 405, 416}

StageOK ==
  /\ ~Scanned /\ scan.stage # "idle" => pc = "listing"
  /\ pc = "listing" => scan.stage # "idle"
  /\ Returned \subseteq Names

AnswerOK ==
  /\ pc \in {"idle", "asked", "found", "listing", "error", "built", "sent"}
  /\ error.status \in {0, 400, 404}
  /\ pc \in {"built", "sent"} => resp.status \in Statuses
  /\ pc \notin {"built", "sent"} => resp = Blank
  /\ pc = "sent" => Headers(resp.headers)

TypeInv == Len(disks) <= MaxChanges + 1 /\ StageOK /\ AnswerOK

LEMMA TypeInit == Init => TypeInv
<1>. SUFFICES ASSUME Init PROVE TypeInv
  OBVIOUS
<1>1. Len(disks) = 1 /\ MaxChanges \in Nat
  BY MaxChangesAssumption DEF Init
<1>2. scan.stage = "idle" /\ Returned = {}
  BY DEF Init, NoScan, Returned
<1>. QED
  BY <1>1, <1>2 DEF Init, TypeInv, StageOK, AnswerOK, NoError

(* Where the reading of a directory goes on from.                          *)
LEMMA StageStep ==
  ASSUME ScanInv, Returned \subseteq Names, Scan(cfg.single)
  PROVE  /\ scan'.stage # "idle" /\ Returned' \subseteq Names
         /\ UNCHANGED disks
<1>. USE DEF ScanInv
<1>1. ASSUME NEW e, scan.at.name \in Names, e.name = scan.at.name, Keep(e)
      PROVE  scan'.stage # "idle" /\ Returned' \subseteq Names
  <2>1. scan' = [stage |-> "next", from |-> scan.from, at |-> NoEntry,
                 out |-> scan.out \union {e}, shown |-> scan.shown]
    BY <1>1 DEF Keep, ScanTyped
  <2>2. scan'.stage = "next" /\ scan'.out = scan.out \union {e}
    BY <2>1
  <2>. QED
    BY <1>1, <2>2 DEF Returned
<1>2. ASSUME scan'.stage \in {"next", "type", "size", "lone", "listed", "single", "failed"},
             scan'.out = scan.out
      PROVE  scan'.stage # "idle" /\ Returned' \subseteq Names
  BY <1>2 DEF Returned
<1>3. ASSUME Fail PROVE scan'.stage # "idle" /\ Returned' \subseteq Names
  <2>1. scan'.stage = "failed" /\ scan'.out = scan.out
    BY <1>3 DEF Fail, ScanTyped
  <2>. QED
    BY <1>2, <2>1
<1>4. CASE OpenDir
  <2>1. CASE Disk.dir.there /\ Disk.dir.readable
    <3>1. scan'.stage = "next" /\ scan'.out = scan.out
      BY <1>4, <2>1 DEF OpenDir, ScanTyped
    <3>. QED
      BY <1>2, <1>4, <3>1 DEF OpenDir, Scanning
  <2>2. CASE ~(Disk.dir.there /\ Disk.dir.readable)
    BY <1>3, <1>4, <2>2 DEF OpenDir, Scanning
  <2>. QED
    BY <2>1, <2>2
<1>5. CASE NextEntry
  <2>1. scan'.stage = "type" /\ scan'.out = scan.out
    BY <1>5 DEF NextEntry, ScanTyped
  <2>. QED
    BY <1>2, <1>5, <2>1 DEF NextEntry, Scanning
<1>6. CASE FileType
  <2>. DEFINE e == Entry(scan.at.name, TRUE, FALSE)
  <2>1. scan.at.name \in Names /\ e.name = scan.at.name
    BY <1>6 DEF FileType, Scanning, EntryRead, Entry
  <2>2. \/ Keep(e) \/ Fail
        \/ scan' = [scan EXCEPT !.stage = "size"]
    BY <1>6 DEF FileType
  <2>. HIDE DEF e
  <2>3. CASE scan' = [scan EXCEPT !.stage = "size"]
    <3>1. scan'.stage = "size" /\ scan'.out = scan.out
      BY <2>3 DEF ScanTyped
    <3>. QED
      BY <1>2, <3>1, <1>6 DEF FileType, Scanning
  <2>. QED
    BY <1>1, <1>3, <1>6, <2>1, <2>2, <2>3 DEF FileType, Scanning
<1>7. CASE Metadata
  <2>1. PICK e : e = Entry(scan.at.name, FALSE, Disk.dir.kind[scan.at.name] # "none")
    OBVIOUS
  <2>2. scan.at.name \in Names /\ e.name = scan.at.name /\ Keep(e)
    BY <1>7, <2>1 DEF Metadata, Scanning, EntryRead, Entry
  <2>. QED
    BY <1>1, <1>7, <2>2 DEF Metadata, Scanning
<1>8. CASE EndOfEntries(cfg.single)
  <2>. DEFINE shown == Shown(scan.out)
  <2>1. scan' = [scan EXCEPT !.stage = "lone"] \/ scan' = [scan EXCEPT !.stage = "listed", !.shown = shown]
    BY <1>8 DEF EndOfEntries
  <2>. HIDE DEF shown
  <2>2. scan'.stage \in {"lone", "listed"} /\ scan'.out = scan.out
    BY <2>1 DEF ScanTyped
  <2>. QED
    BY <1>2, <1>8, <2>2 DEF EndOfEntries, Scanning
<1>9. CASE ReadLone
  <2>1. PICK e \in scan.out : scan' = [scan EXCEPT !.stage = "single", !.shown = <<e>>] \/ Fail
    BY <1>9 DEF ReadLone
  <2>2. CASE scan' = [scan EXCEPT !.stage = "single", !.shown = <<e>>]
    <3>1. scan'.stage = "single" /\ scan'.out = scan.out
      BY <2>2 DEF ScanTyped
    <3>. QED
      BY <1>2, <1>9, <3>1 DEF ReadLone, Scanning
  <2>. QED
    BY <1>3, <1>9, <2>1, <2>2 DEF ReadLone, Scanning
<1>. QED
  BY <1>4, <1>5, <1>6, <1>7, <1>8, <1>9 DEF Scan

LEMMA TypeStep ==
  CauseInv /\ RangeInv /\ HeadersInv /\ TypeInv /\ [Next]_vars => TypeInv'
<1>. SUFFICES ASSUME CauseInv, RangeInv, HeadersInv, TypeInv, [Next]_vars PROVE TypeInv'
  OBVIOUS
<1>0. Len(disks) <= MaxChanges + 1 /\ StageOK /\ AnswerOK /\ MaxChanges \in Nat /\ TypesOK
  BY MaxChangesAssumption DEF TypeInv, RangeInv
<1>1. ASSUME NEW t, Build(t), UNCHANGED scan, t.status \in Statuses, Scanned \/ pc # "listing"
      PROVE  TypeInv'
  <2>1. pc' = "built" /\ resp' = t /\ UNCHANGED <<cfg, disks, req, error, scan>>
    BY <1>1 DEF Build
  <2>2. StageOK'
    BY <1>0, <1>1, <2>1 DEF StageOK, Scanned, Returned
  <2>. QED
    BY <1>0, <1>1, <2>1, <2>2 DEF TypeInv, AnswerOK
<1>2. ASSUME NEW s \in {400, 404}, NEW skip \in BOOLEAN, Err(s, skip), UNCHANGED scan,
             Scanned \/ pc # "listing", pc \notin {"built", "sent"}
      PROVE  TypeInv'
  <2>1. pc' = "error" /\ error'.status = s /\ UNCHANGED <<cfg, disks, req, resp, scan>>
    BY <1>2 DEF Err
  <2>2. StageOK'
    BY <1>0, <1>2, <2>1 DEF StageOK, Scanned, Returned
  <2>. QED
    BY <1>0, <1>2, <2>1, <2>2 DEF TypeInv, AnswerOK
<1>3. CASE \E r \in Requests : Ask(r)
  <2>1. pc = "idle" /\ pc' = "asked" /\ UNCHANGED <<cfg, disks, scan, error, resp>>
    BY <1>3 DEF Ask
  <2>. QED
    BY <1>0, <2>1 DEF TypeInv, AnswerOK, StageOK, Scanned, Returned
<1>4. CASE MethodNotAllowed
  <2>. DEFINE t == apply_custom_headers(Response(405, Missing, NoBody), req.raw, cfg.rules)
  <2>1. Build(t) /\ UNCHANGED scan /\ pc # "listing"
    BY <1>4 DEF MethodNotAllowed
  <2>2. t.status = 405
    BY OtherKept DEF NoBody
  <2>. HIDE DEF t
  <2>. QED
    BY <1>1, <2>1, <2>2 DEF Statuses
<1>5. CASE BadRequest
  <2>1. Err(400, TRUE) /\ UNCHANGED scan /\ pc = "asked"
    BY <1>5 DEF BadRequest, AskedFor
  <2>. QED
    BY <1>2, <2>1
<1>6. CASE Redirected
  <2>. DEFINE t == Response(301, Missing, NoBody)
  <2>1. Build(t) /\ UNCHANGED scan /\ pc # "listing"
    BY <1>6 DEF Redirected, AskedFor
  <2>2. t.status = 301
    BY DEF Response
  <2>. HIDE DEF t
  <2>. QED
    BY <1>1, <2>1, <2>2 DEF Statuses
<1>7. CASE NotFound
  <2>1. Err(404, FALSE) /\ UNCHANGED scan /\ pc = "asked"
    BY <1>7 DEF NotFound, AskedFor
  <2>. QED
    BY <1>2, <2>1
<1>8. CASE ResolveFile
  <2>1. pc = "asked" /\ UNCHANGED scan /\ (Err(404, FALSE) \/ Go("found"))
    BY <1>8 DEF ResolveFile, AskedFor
  <2>2. CASE Go("found")
    <3>1. pc' = "found" /\ UNCHANGED <<cfg, disks, req, error, resp, scan>>
      BY <2>1, <2>2 DEF Go
    <3>. QED
      BY <1>0, <2>1, <3>1 DEF TypeInv, AnswerOK, StageOK, Scanned, Returned
  <2>. QED
    BY <1>2, <2>1, <2>2
<1>9. CASE ResolveDirectory
  <2>1. pc = "asked"
    BY <1>9 DEF ResolveDirectory
  <2>2. CASE Go("listing") /\ scan' = [NoScan EXCEPT !.stage = "open"]
    <3>1. pc' = "listing" /\ UNCHANGED <<cfg, disks, req, error, resp>>
      BY <2>2 DEF Go
    <3>2. scan'.stage = "open" /\ scan'.out = {}
      BY <2>2 DEF NoScan
    <3>3. StageOK'
      BY <3>1, <3>2 DEF StageOK, Returned
    <3>. QED
      BY <1>0, <2>1, <3>1, <3>3 DEF TypeInv, AnswerOK
  <2>3. CASE Err(404, FALSE) /\ UNCHANGED scan
    BY <1>2, <2>1, <2>3
  <2>. QED
    BY <1>9, <2>2, <2>3 DEF ResolveDirectory
<1>10. CASE ReadFile
  <2>1. pc = "found" /\ UNCHANGED scan
    BY <1>10 DEF ReadFile
  <2>2. CASE Disk.asset = 0 \/ ~Disk.readable
    <3>1. Err(404, FALSE) /\ UNCHANGED scan
      BY <1>10, <2>2, Zenon DEF ReadFile
    <3>. QED
      BY <1>2, <2>1, <3>1
  <2>3. CASE ~(Disk.asset = 0 \/ ~Disk.readable)
    <3>. DEFINE t == build_file("file", Disk.asset, cfg.type, Size(Disk.asset), req.at)
    <3>1. Build(t)
      BY <1>10, <2>3 DEF ReadFile
    <3>2. t.status \in {200, 206, 416}
      BY FileKept
    <3>. HIDE DEF t
    <3>. QED
      BY <1>1, <2>1, <3>1, <3>2 DEF Statuses
  <2>. QED
    BY <2>2, <2>3
<1>11. CASE ReadDirectory
  <2>1. pc = "listing" /\ Scan(cfg.single) /\ UNCHANGED <<cfg, pc, req, error, resp>>
    BY <1>11 DEF ReadDirectory
  <2>2. scan'.stage # "idle" /\ Returned' \subseteq Names /\ UNCHANGED disks
    BY <1>0, <2>1, StageStep DEF CauseInv, StageOK
  <2>. QED
    BY <1>0, <2>1, <2>2 DEF TypeInv, AnswerOK, StageOK
<1>12. CASE Listed
  <2>. DEFINE t == Response(200, Typed(IF listing_accepts_json(req.accept) THEN Json ELSE Html),
                            Body("listing", 0, 0, SmallText + Len(scan.shown)))
  <2>1. Build(t) /\ UNCHANGED scan /\ Scanned
    BY <1>12 DEF Listed, Read, Scanned
  <2>2. t.status = 200
    BY DEF Response
  <2>. HIDE DEF t
  <2>. QED
    BY <1>1, <2>1, <2>2 DEF Statuses
<1>13. CASE NotListed
  <2>1. Err(404, FALSE) /\ UNCHANGED scan /\ pc = "listing" /\ Scanned
    BY <1>13 DEF NotListed, Read, Scanned
  <2>. QED
    BY <1>2, <2>1
<1>14. CASE SingleFile
  <2>. DEFINE t == build_file("lone", 0, cfg.type, Size(1), req.at)
  <2>1. Build(t) /\ UNCHANGED scan /\ Scanned
    BY <1>14 DEF SingleFile, Read, Scanned
  <2>2. t.status \in {200, 206, 416}
    BY FileKept
  <2>. HIDE DEF t
  <2>. QED
    BY <1>1, <2>1, <2>2 DEF Statuses
<1>15. CASE ListingFailed
  <2>1. Err(404, FALSE) /\ UNCHANGED scan /\ pc = "listing" /\ Scanned
    BY <1>15 DEF ListingFailed, Read, Scanned
  <2>. QED
    BY <1>2, <2>1
<1>16. CASE ErrorJson
  <2>. DEFINE t == Response(error.status, Typed(Json), Body("json", 0, 0, SmallText))
  <2>1. Build(t) /\ UNCHANGED scan /\ pc # "listing" /\ error.status \in {400, 404}
    BY <1>16 DEF ErrorJson, HeadersInv
  <2>2. t.status = error.status
    BY DEF Response
  <2>. HIDE DEF t
  <2>. QED
    BY <1>1, <2>1, <2>2 DEF Statuses
<1>17. CASE ErrorPage
  <2>. DEFINE t == apply_custom_headers(
                     Response(error.status, Typed(Html), Body("page", error.status, 0, PageSize)),
                     Page(error.status), cfg.rules)
  <2>1. Build(t) /\ UNCHANGED scan /\ pc # "listing" /\ error.status \in {400, 404}
    BY <1>17 DEF ErrorPage, HeadersInv
  <2>2. t.status = error.status
    BY OtherKept
  <2>. HIDE DEF t
  <2>. QED
    BY <1>1, <2>1, <2>2 DEF Statuses
<1>18. CASE ErrorFallback
  <2>. DEFINE t == [FallbackRuled EXCEPT !.headers.type = Html]
  <2>1. Build(t) /\ UNCHANGED scan /\ pc # "listing" /\ error.status \in {400, 404}
    BY <1>18 DEF ErrorFallback, HeadersInv
  <2>2. t.status = error.status
    <3>. DEFINE h == [FallbackRuled.headers EXCEPT !.type = Html]
    <3>1. Shaped(FallbackBare)
      BY ShapeOfResponse DEF FallbackBare
    <3>2. FallbackBare.status = error.status
      BY DEF FallbackBare, Response
    <3>3. LET u == apply_custom_headers(FallbackBare, req.path, cfg.rules)
          IN  Shaped(u) /\ Alike(u, FallbackBare)
      BY <3>1, RulesKeep
    <3>4. Shaped(FallbackRuled) /\ FallbackRuled.status = error.status
      BY <3>1, <3>2, <3>3 DEF FallbackRuled, Alike
    <3>5. t = [FallbackRuled EXCEPT !.headers = h]
      OBVIOUS
    <3>. HIDE DEF h, t
    <3>6. Alike(t, FallbackRuled)
      BY <3>4, <3>5, HeadersApart
    <3>. QED
      BY <3>4, <3>6 DEF Alike
  <2>. HIDE DEF t
  <2>. QED
    BY <1>1, <2>1, <2>2 DEF Statuses
<1>19. CASE Finish
  <2>1. pc = "built" /\ pc' = "sent" /\ UNCHANGED <<cfg, disks, scan, req, error>>
    BY <1>19 DEF Finish
  <2>2. PICK t : t = Framed(Finished)
    OBVIOUS
  <2>3. resp' = t /\ Alike(t, resp)
    BY <1>0, <1>19, <2>2, FinishKeeps DEF Finish, TypesOK
  <2>4. Headers(t.headers)
    BY <2>1, <2>2, FinishAsRuled DEF HeadersInv
  <2>5. resp'.status \in Statuses
    BY <1>0, <2>1, <2>3 DEF Alike, AnswerOK
  <2>. QED
    BY <1>0, <2>1, <2>3, <2>4, <2>5 DEF TypeInv, AnswerOK, StageOK, Scanned, Returned
<1>20. CASE Change
  <2>1. PICK d \in Disks : disks' = Append(disks, d)
    BY <1>20 DEF Change
  <2>2. Len(disks') = Len(disks) + 1 /\ Len(disks) \in Nat
    BY <1>0, <2>1, AppendProperties, LenProperties DEF TypesOK
  <2>3. Len(disks) <= MaxChanges /\ UNCHANGED <<cfg, scan, pc, req, error, resp>>
    BY <1>20 DEF Change
  <2>. QED
    BY <1>0, <2>2, <2>3 DEF TypeInv, AnswerOK, StageOK, Scanned, Returned
<1>21. CASE Done
  <2>1. /\ disks' = <<Disk>> /\ scan' = NoScan /\ pc' = "idle"
        /\ error' = NoError /\ resp' = Blank
    BY <1>21 DEF Done
  <2>2. Len(disks') = 1 /\ scan'.stage = "idle" /\ scan'.out = {} /\ error'.status = 0
    BY <2>1 DEF NoScan, NoError
  <2>. QED
    BY <1>0, <2>1, <2>2 DEF TypeInv, AnswerOK, StageOK, Returned
<1>22. CASE UNCHANGED vars
  BY <1>0, <1>22 DEF vars, TypeInv, AnswerOK, StageOK, Scanned, Returned
<1>. QED
  BY <1>3, <1>4, <1>5, <1>6, <1>7, <1>8, <1>9, <1>10, <1>11, <1>12, <1>13, <1>14, <1>15, <1>16,
     <1>17, <1>18, <1>19, <1>20, <1>21, <1>22 DEF Next, Handler

(* Whatever the disk does, the directory is read only by the handler of a  *)
(* directory, and an answer has a status exactly when it is built          *)
(* (handler.rs, dispatch.rs): see TypeOK.                                  *)
THEOREM ResponsesTyped == Spec => []TypeOK
<1>1. Init => CauseInv /\ RangeInv /\ HeadersInv /\ TypeInv
  BY CauseInit, RangeInit, HeadersInit, TypeInit
<1>2. CauseInv /\ RangeInv /\ HeadersInv /\ TypeInv /\ [Next]_vars
      => (CauseInv /\ RangeInv /\ HeadersInv /\ TypeInv)'
  BY CauseStep, RangeStep, HeadersStep, TypeStep
<1>3. ASSUME CauseInv, RangeInv, HeadersInv, TypeInv PROVE TypeOK
  <2>1. /\ Len(disks) \in Nat \ {0} /\ MaxChanges \in Nat
        /\ \A i \in DOMAIN disks : disks[i] \in Disks
    BY <1>3, DiskIsLast, KindsTyped, MaxChangesAssumption DEF CauseInv, ScanInv
  <2>2. DOMAIN resp.headers = DOMAIN Missing
    <3>1. Headers(resp.headers)
      <4>1. CASE pc = "built"
        BY <1>3, <4>1 DEF HeadersInv, AsRuled
      <4>2. CASE pc = "sent"
        BY <1>3, <4>2 DEF TypeInv, AnswerOK
      <4>3. CASE pc \notin {"built", "sent"}
        <5>1. resp.headers = Missing
          BY <1>3, <4>3 DEF TypeInv, AnswerOK, Blank, Response
        <5>. QED
          BY <5>1, HeadersOfMissing
      <4>. QED
        BY <4>1, <4>2, <4>3
    <3>. QED
      BY <3>1, Zenon DEF Headers
  <2>3. /\ resp.status \in Statuses \union {0}
        /\ pc \in {"built", "sent"} <=> resp.status # 0
    <3>1. Blank.status = 0
      BY DEF Blank, Response
    <3>. QED
      BY <1>3, <3>1 DEF TypeInv, AnswerOK, Statuses
  <2>4. pc = "error" => error.status # 0
    BY <1>3 DEF HeadersInv
  <2>5. scan.stage \in Stages /\ req \in Requests \union {NoRequest} /\ cfg \in Configs
    BY <1>3 DEF CauseInv, ScanInv, ScanTyped, TypesOK, HeadersInv
  <2>6. Len(disks) \in 1..MaxChanges + 1
    BY <1>3, <2>1 DEF TypeInv
  <2>7. StageOK /\ AnswerOK
    BY <1>3 DEF TypeInv
  <2>. QED
    BY <2>1, <2>2, <2>3, <2>4, <2>5, <2>6, <2>7 DEF TypeOK, StageOK, AnswerOK, Statuses
<1>. QED
  BY <1>1, <1>2, <1>3, PTL DEF Spec
-----------------------------------------------------------------------------
(* The order of a listing is total on entries of different names, so       *)
(* there is one sequence of them in that order, with each of them once.    *)
Distinct(S) ==
  /\ \A e \in S : e.name \in Nat /\ e.is_dir \in BOOLEAN
  /\ \A e, f \in S : e.name = f.name => e = f

InOrder(f) == \A i, j \in DOMAIN f : i < j => Before(f[i], f[j])

LEMMA BeforeIsOrder ==
  ASSUME NEW S, Distinct(S)
  PROVE  /\ \A e \in S : ~Before(e, e)
         /\ \A e, f \in S : e # f => Before(e, f) \/ Before(f, e)
         /\ \A e, f, g \in S : Before(e, f) /\ Before(f, g) => Before(e, g)
<1>. USE DEF Distinct
<1>1. \A e, f \in S :
        Before(e, f) <=> \/ e.is_dir = TRUE /\ f.is_dir = FALSE
                         \/ e.is_dir = f.is_dir /\ e.name < f.name
  BY DEF Before
<1>2. \A e \in S : ~Before(e, e)
  BY <1>1
<1>3. \A e, f \in S : e # f => Before(e, f) \/ Before(f, e)
  <2>. SUFFICES ASSUME NEW e \in S, NEW f \in S, e # f PROVE Before(e, f) \/ Before(f, e)
    OBVIOUS
  <2>1. e.name < f.name \/ f.name < e.name
    OBVIOUS
  <2>2. \/ e.is_dir = f.is_dir
        \/ e.is_dir = TRUE /\ f.is_dir = FALSE
        \/ e.is_dir = FALSE /\ f.is_dir = TRUE
    OBVIOUS
  <2>. QED
    BY <1>1, <2>1, <2>2
<1>4. \A e, f, g \in S : Before(e, f) /\ Before(f, g) => Before(e, g)
  <2>. SUFFICES ASSUME NEW e \in S, NEW f \in S, NEW g \in S, Before(e, f), Before(f, g)
                PROVE  Before(e, g)
    OBVIOUS
  <2>1. e.name < f.name /\ f.name < g.name => e.name < g.name
    OBVIOUS
  <2>. QED
    BY <1>1, <2>1
<1>. QED
  BY <1>2, <1>3, <1>4

(* How many come before an entry gives its place.                          *)
Place(S, e) == Cardinality({f \in S : Before(f, e)}) + 1

LEMMA PlacesGrow ==
  ASSUME NEW S, IsFiniteSet(S), Distinct(S), NEW e \in S
  PROVE  /\ Place(S, e) \in 1..Cardinality(S)
         /\ \A f \in S : Before(e, f) => Place(S, e) < Place(S, f)
<1>. DEFINE below(f) == {g \in S : Before(g, f)}
<1>1. ASSUME NEW f \in S PROVE IsFiniteSet(below(f)) /\ Cardinality(below(f)) \in Nat
  <2>1. below(f) \in SUBSET S
    OBVIOUS
  <2>2. IsFiniteSet(below(f))
    BY <2>1, FS_Subset
  <2>. HIDE DEF below
  <2>. QED
    BY <2>2, FS_Subset, FS_CardinalityType
<1>2. Place(S, e) \in 1..Cardinality(S)
  <2>1. below(e) \in SUBSET (S \ {e})
    BY BeforeIsOrder
  <2>2. IsFiniteSet(S \ {e}) /\ Cardinality(S \ {e}) = Cardinality(S) - 1
    BY FS_RemoveElement
  <2>3. Cardinality(below(e)) <= Cardinality(S) - 1
    BY <2>1, <2>2, FS_Subset
  <2>4. Cardinality(below(e)) \in Nat /\ Cardinality(S) \in Nat
    BY <1>1, FS_CardinalityType
  <2>5. Place(S, e) = Cardinality(below(e)) + 1
    BY DEF Place
  <2>. HIDE DEF below
  <2>. QED
    BY <2>3, <2>4, <2>5
<1>3. ASSUME NEW f \in S, Before(e, f) PROVE Place(S, e) < Place(S, f)
  <2>1. below(e) \in SUBSET (below(f) \ {e})
    BY <1>3, BeforeIsOrder
  <2>2. IsFiniteSet(below(f)) /\ Cardinality(below(f)) \in Nat /\ Cardinality(below(e)) \in Nat
    BY <1>1
  <2>3. e \in below(f)
    BY <1>3
  <2>4. Place(S, e) = Cardinality(below(e)) + 1 /\ Place(S, f) = Cardinality(below(f)) + 1
    BY DEF Place
  <2>. HIDE DEF below
  <2>5. IsFiniteSet(below(f) \ {e}) /\ Cardinality(below(f) \ {e}) = Cardinality(below(f)) - 1
    BY <2>2, <2>3, FS_RemoveElement
  <2>6. Cardinality(below(e)) <= Cardinality(below(f)) - 1
    BY <2>1, <2>5, FS_Subset
  <2>. QED
    BY <2>2, <2>4, <2>6
<1>. QED
  BY <1>2, <1>3

LEMMA CanBeSorted ==
  ASSUME NEW S, IsFiniteSet(S), Distinct(S)
  PROVE  \E f \in [1..Cardinality(S) -> S] : InOrder(f)
<1>. DEFINE n == Cardinality(S)
            r == [e \in S |-> Place(S, e)]
<1>1. n \in Nat /\ IsFiniteSet(1..n) /\ Cardinality(1..n) = n
  BY FS_CardinalityType, FS_Interval
<1>2. r \in [S -> 1..n]
  BY PlacesGrow
<1>3. \A e, f \in S : e # f => r[e] # r[f]
  <2>. SUFFICES ASSUME NEW e \in S, NEW f \in S, e # f PROVE r[e] # r[f]
    OBVIOUS
  <2>1. Place(S, e) < Place(S, f) \/ Place(S, f) < Place(S, e)
    BY BeforeIsOrder, PlacesGrow
  <2>2. Place(S, e) \in 1..n /\ Place(S, f) \in 1..n
    BY PlacesGrow
  <2>. HIDE DEF n
  <2>. QED
    BY <2>1, <2>2
<1>4. r \in Surjection(S, 1..n)
  <2>1. r \in Injection(S, 1..n)
    BY <1>2, <1>3 DEF Injection, IsInjective
  <2>. HIDE DEF r
  <2>. QED
    BY <1>1, <2>1, FS_Injection
<1>. DEFINE g == [i \in 1..n |-> CHOOSE e \in S : r[e] = i]
<1>5. ASSUME NEW i \in 1..n PROVE g[i] \in S /\ r[g[i]] = i
  <2>1. \E e \in S : r[e] = i
    BY <1>4 DEF Surjection
  <2>. HIDE DEF r, n
  <2>. QED
    BY <2>1
<1>6. g \in [1..n -> S]
  BY <1>5
<1>7. ASSUME NEW i \in 1..n, NEW j \in 1..n, i < j PROVE Before(g[i], g[j])
  <2>1. g[i] \in S /\ g[j] \in S /\ r[g[i]] = i /\ r[g[j]] = j
    BY <1>5
  <2>2. Place(S, g[i]) = i /\ Place(S, g[j]) = j
    BY <2>1
  <2>. HIDE DEF g, n
  <2>3. g[i] # g[j]
    BY <1>1, <1>7, <2>2
  <2>4. ~ (j < i)
    BY <1>1, <1>7
  <2>. QED
    BY <2>1, <2>2, <2>3, <2>4, BeforeIsOrder, PlacesGrow
<1>8. DOMAIN g = 1..n
  OBVIOUS
<1>. HIDE DEF g, n
<1>9. InOrder(g)
  BY <1>7, <1>8 DEF InOrder
<1>. QED
  BY <1>6, <1>9 DEF n

LEMMA ShownOnce ==
  ASSUME NEW S, IsFiniteSet(S), Distinct(S), NEW f, f = Shown(S)
  PROVE  /\ \A i \in DOMAIN f : f[i] \in S /\ f[i].name \notin Unlisted
         /\ \A e \in S : e.name \notin Unlisted => \E i \in DOMAIN f : f[i] = e
         /\ \A i, j \in DOMAIN f : f[i] = f[j] => i = j
<1>. DEFINE T == apply_unlisted_filter(S)
            n == Cardinality(T)
<1>1. T \in SUBSET S /\ \A e : e \in T <=> e \in S /\ e.name \notin Unlisted
  BY DEF apply_unlisted_filter, is_excluded
<1>2. f = CHOOSE g \in [1..n -> T] : InOrder(g)
  BY Zenon DEF Shown, InOrder
<1>. HIDE DEF T
<1>3. IsFiniteSet(T) /\ Distinct(T)
  BY <1>1, FS_Subset DEF Distinct
<1>4. f \in [1..n -> T] /\ InOrder(f)
  <2>1. \E g \in [1..n -> T] : InOrder(g)
    BY <1>3, CanBeSorted
  <2>. HIDE DEF n
  <2>. QED
    BY <1>2, <2>1
<1>5. n \in Nat /\ IsFiniteSet(1..n) /\ Cardinality(1..n) = n
  BY <1>3, FS_CardinalityType, FS_Interval
<1>6. \A i, j \in 1..n : f[i] = f[j] => i = j
  <2>. SUFFICES ASSUME NEW i \in 1..n, NEW j \in 1..n, f[i] = f[j], i < j \/ j < i PROVE FALSE
    BY <1>5
  <2>1. Before(f[i], f[j]) \/ Before(f[j], f[i])
    BY <1>4 DEF InOrder
  <2>2. f[i] \in T
    BY <1>4
  <2>. QED
    BY <1>3, <2>1, <2>2, BeforeIsOrder
<1>7. f \in Surjection(1..n, T)
  <2>1. f \in Injection(1..n, T)
    BY <1>4, <1>6 DEF Injection, IsInjective
  <2>. QED
    BY <1>3, <1>5, <2>1, FS_Injection DEF n
<1>. HIDE DEF n
<1>8. DOMAIN f = 1..n /\ \A i \in 1..n : f[i] \in T
  BY <1>4
<1>9. \A e \in T : \E i \in 1..n : f[i] = e
  BY <1>7 DEF Surjection
<1>. QED
  BY <1>1, <1>6, <1>8, <1>9

(* What is shown is what was read, and nothing that was there all the time *)
(* was left out; a file without a size was gone when it was asked for.     *)
Unsized == \A e \in scan.out : ~e.is_dir /\ ~e.sized => Seen(e.name, "none")

ShowsAll ==
  /\ scan.shown = Shown(scan.out)
  /\ \A n \in Names : Steadily(n) => n \in Returned

FaithInv ==
  /\ scan.stage \in Reading => Unsized
  /\ scan.stage = "listed" => ShowsAll

LEMMA FaithScan ==
  ASSUME ScanInv, FaithInv, Scan(cfg.single)
  PROVE  FaithInv'
<1>. USE DEF ScanInv
<1>0. disks' = disks
  BY DEF Scan, OpenDir, NextEntry, FileType, Metadata, EndOfEntries, ReadLone, Scanning
<1>1. ASSUME scan'.from = scan.from, scan'.out = scan.out, scan.stage \in Reading,
             scan'.stage # "listed"
      PROVE  FaithInv'
  BY <1>0, <1>1 DEF FaithInv, Unsized, Seen, Opened
<1>2. ASSUME NEW e, Keep(e), scan.stage \in {"type", "size"},
             ~e.is_dir /\ ~e.sized => Seen(e.name, "none")
      PROVE  FaithInv'
  <2>1. scan' = [stage |-> "next", from |-> scan.from, at |-> NoEntry,
                 out |-> scan.out \union {e}, shown |-> scan.shown]
    BY <1>2 DEF Keep, ScanTyped
  <2>2. scan'.stage = "next" /\ scan'.from = scan.from /\ scan'.out = scan.out \union {e}
    BY <2>1
  <2>3. Unsized
    BY <1>2 DEF FaithInv, Reading
  <2>. QED
    BY <1>0, <1>2, <2>2, <2>3 DEF FaithInv, Unsized, Seen, Opened
<1>3. ASSUME Fail PROVE FaithInv'
  <2>1. scan'.stage = "failed"
    BY <1>3 DEF Fail, ScanTyped
  <2>. QED
    BY <2>1 DEF FaithInv, Reading
<1>4. CASE OpenDir
  <2>1. CASE Disk.dir.there /\ Disk.dir.readable
    <3>1. scan.out = {} /\ scan'.stage = "next" /\ scan'.out = scan.out
      BY <1>4, <2>1 DEF OpenDir, Scanning, ScanTyped
    <3>. QED
      BY <3>1 DEF FaithInv, Unsized
  <2>2. CASE ~(Disk.dir.there /\ Disk.dir.readable)
    BY <1>3, <1>4, <2>2 DEF OpenDir
  <2>. QED
    BY <2>1, <2>2
<1>5. CASE NextEntry
  <2>1. /\ scan.stage = "next" /\ scan'.stage = "type"
        /\ scan'.from = scan.from /\ scan'.out = scan.out
    BY <1>5 DEF NextEntry, Scanning, ScanTyped
  <2>. QED
    BY <1>1, <2>1 DEF Reading
<1>6. CASE FileType
  <2>. DEFINE e == Entry(scan.at.name, TRUE, FALSE)
  <2>1. scan.stage = "type" /\ e.is_dir
    BY <1>6 DEF FileType, Scanning, Entry
  <2>2. \/ Keep(e) \/ Fail
        \/ scan' = [scan EXCEPT !.stage = "size"]
    BY <1>6 DEF FileType
  <2>. HIDE DEF e
  <2>3. CASE scan' = [scan EXCEPT !.stage = "size"]
    <3>1. scan'.stage = "size" /\ scan'.from = scan.from /\ scan'.out = scan.out
      BY <2>3 DEF ScanTyped
    <3>. QED
      BY <1>1, <2>1, <3>1 DEF Reading
  <2>. QED
    BY <1>2, <1>3, <2>1, <2>2, <2>3
<1>7. CASE Metadata
  <2>1. PICK gone : gone = (Disk.dir.kind[scan.at.name] = "none")
    OBVIOUS
  <2>2. PICK e : e = Entry(scan.at.name, FALSE, Disk.dir.kind[scan.at.name] # "none")
    OBVIOUS
  <2>3. Keep(e) /\ scan.stage = "size"
    BY <1>7, <2>2 DEF Metadata, Scanning
  <2>4. e.name = scan.at.name /\ e.sized = (Disk.dir.kind[scan.at.name] # "none")
    BY <2>2 DEF Entry
  <2>5. ~e.sized => Disk.dir.kind[e.name] = "none"
    BY <2>4, Zenon
  <2>6. Len(disks) \in Opened /\ Disk = disks[Len(disks)]
    BY <2>3, DiskIsLast DEF EntriesSeen, Reading, Opened
  <2>7. ~e.sized => Seen(e.name, "none")
    BY <2>5, <2>6 DEF Seen
  <2>. QED
    BY <1>2, <2>3, <2>7
<1>8. CASE EndOfEntries(cfg.single)
  <2>1. scan.stage = "next" /\ Throughout \subseteq Returned
    BY <1>8 DEF EndOfEntries, Scanning
  <2>2. CASE LoneFile(cfg.single)
    <3>1. scan'.stage = "lone" /\ scan'.from = scan.from /\ scan'.out = scan.out
      BY <1>8, <2>2 DEF EndOfEntries, ScanTyped
    <3>. QED
      BY <1>1, <2>1, <3>1 DEF Reading
  <2>3. CASE ~LoneFile(cfg.single)
    <3>. DEFINE shown == Shown(scan.out)
    <3>1. scan' = [scan EXCEPT !.stage = "listed", !.shown = shown]
      BY <1>8, <2>3 DEF EndOfEntries
    <3>. HIDE DEF shown
    <3>2. scan'.stage = "listed" /\ scan'.from = scan.from /\ scan'.out = scan.out /\ scan'.shown = shown
      BY <3>1 DEF ScanTyped
    <3>3. \A n \in Names : Steadily(n) => n \in Returned
      BY <2>1, SinceOpened
    <3>4. /\ \A n, k : Seen(n, k) => Seen(n, k)'
          /\ \A n : Steadily(n)' => Steadily(n)
          /\ Returned' = Returned
      BY <1>0, <3>2 DEF Seen, Steadily, Opened, Returned
    <3>5. Unsized'
      BY <2>1, <3>2, <3>4 DEF FaithInv, Unsized, Reading
    <3>6. scan'.shown = Shown(scan'.out)
      BY <3>2 DEF shown
    <3>7. ShowsAll'
      BY <3>3, <3>4, <3>6 DEF ShowsAll
    <3>. QED
      BY <3>5, <3>7 DEF FaithInv
  <2>. QED
    BY <2>2, <2>3
<1>9. CASE ReadLone
  <2>1. PICK e \in scan.out : scan' = [scan EXCEPT !.stage = "single", !.shown = <<e>>] \/ Fail
    BY <1>9 DEF ReadLone
  <2>2. CASE scan' = [scan EXCEPT !.stage = "single", !.shown = <<e>>]
    <3>1. /\ scan.stage = "lone" /\ scan'.stage = "single"
          /\ scan'.from = scan.from /\ scan'.out = scan.out
      BY <1>9, <2>2 DEF ReadLone, Scanning, ScanTyped
    <3>. QED
      BY <1>1, <3>1 DEF Reading
  <2>. QED
    BY <1>3, <2>1, <2>2
<1>. QED
  BY <1>4, <1>5, <1>6, <1>7, <1>8, <1>9 DEF Scan

LEMMA FaithStep == CauseInv /\ FaithInv /\ [Next]_vars => FaithInv'
<1>. SUFFICES ASSUME CauseInv, FaithInv, [Next]_vars PROVE FaithInv'
  OBVIOUS
<1>1. CASE UNCHANGED <<disks, scan>>
  BY <1>1 DEF FaithInv, Unsized, ShowsAll, Seen, Steadily, Opened, Returned
<1>2. CASE scan' = NoScan \/ scan' = [NoScan EXCEPT !.stage = "open"]
  <2>1. scan'.stage \in {"idle", "open"}
    BY <1>2 DEF NoScan
  <2>. QED
    BY <2>1 DEF FaithInv, Reading
<1>3. CASE ReadDirectory
  BY <1>3, FaithScan DEF ReadDirectory, CauseInv
<1>4. CASE Change
  <2>1. PICK d \in Disks : disks' = Append(disks, d)
    BY <1>4 DEF Change
  <2>2. scan' = scan /\ DisksTyped
    BY <1>4 DEF Change, CauseInv, ScanInv
  <2>3. CASE scan.stage \in Reading
    <3>1. scan.from \in 1..Len(disks)
      BY <2>3 DEF CauseInv, ScanInv, EntriesSeen
    <3>2. /\ \A n, k : Seen(n, k) => Seen(n, k)'
          /\ \A n : Steadily(n)' => Steadily(n)
      BY <2>1, <2>2, <3>1, GrownSeen
    <3>3. Returned' = Returned
      BY <2>2 DEF Returned
    <3>. QED
      BY <2>2, <2>3, <3>2, <3>3 DEF FaithInv, Unsized, ShowsAll
  <2>4. CASE scan.stage \notin Reading
    BY <2>2, <2>4 DEF FaithInv, Reading
  <2>. QED
    BY <2>3, <2>4
<1>5. \/ UNCHANGED <<disks, scan>>
      \/ scan' = NoScan \/ scan' = [NoScan EXCEPT !.stage = "open"]
      \/ ReadDirectory \/ Change
  <2>1. CASE UNCHANGED vars
    BY <2>1 DEF vars
  <2>2. CASE \E r \in Requests : Ask(r)
    BY <2>2 DEF Ask
  <2>3. CASE Handler
    BY <2>3 DEF Handler, MethodNotAllowed, BadRequest, Redirected, NotFound, ResolveFile, ReadFile,
       ResolveDirectory, Listed, NotListed, SingleFile, ListingFailed, ErrorJson, ErrorPage,
       ErrorFallback, Finish, AskedFor, Read, Build, Err, Go
  <2>4. CASE Done
    BY <2>4 DEF Done
  <2>. QED
    BY <2>1, <2>2, <2>3, <2>4 DEF Next
<1>. QED
  BY <1>1, <1>2, <1>3, <1>4, <1>5

(* However the directory changes while it is read, a listing shows what    *)
(* was there, as what it was, and leaves out nothing that was there all    *)
(* the time (listing.rs, render and read_sorted_entries): see              *)
(* ListingFaithful.                                                        *)
THEOREM ListingsFaithful == Spec => []ListingFaithful
<1>1. Init => CauseInv /\ RangeInv /\ FaithInv
  BY CauseInit, RangeInit DEF Init, FaithInv, NoScan, Reading
<1>2. CauseInv /\ RangeInv /\ FaithInv /\ [Next]_vars => (CauseInv /\ RangeInv /\ FaithInv)'
  BY CauseStep, RangeStep, FaithStep
<1>3. ASSUME CauseInv, FaithInv, scan.stage = "listed" PROVE ListingFaithful
  <2>. DEFINE shown == scan.shown
  <2>1. /\ IsFiniteSet(scan.out) /\ shown = Shown(scan.out)
        /\ \A n \in Names : Steadily(n) => n \in Returned
    BY <1>3 DEF CauseInv, ScanInv, ScanTyped, FaithInv, ShowsAll
  <2>2. /\ \A e \in scan.out : e.name \in Names /\ e.is_dir \in BOOLEAN /\ SeenAs(e.name, e.is_dir)
        /\ \A e, f \in scan.out : e.name = f.name => e = f
        /\ Unsized
    BY <1>3 DEF CauseInv, ScanInv, EntriesSeen, FaithInv, Reading
  <2>3. Distinct(scan.out)
    BY <2>2, NamesAssumption DEF Distinct
  <2>4. /\ \A i \in DOMAIN shown : shown[i] \in scan.out /\ shown[i].name \notin Unlisted
        /\ \A e \in scan.out : e.name \notin Unlisted => \E i \in DOMAIN shown : shown[i] = e
        /\ \A i, j \in DOMAIN shown : shown[i] = shown[j] => i = j
    BY <2>1, <2>3, ShownOnce
  <2>. HIDE DEF shown
  <2>5. ASSUME NEW i \in DOMAIN shown
        PROVE  LET e == shown[i]
               IN  /\ e.name \notin Unlisted
                   /\ \E d \in Since : d.dir.kind[e.name] \in ShownAs(e.is_dir)
                   /\ ~e.is_dir /\ ~e.sized => \E d \in Since : d.dir.kind[e.name] = "none"
    <3>. DEFINE e == shown[i]
    <3>1. e \in scan.out /\ e.name \notin Unlisted
      BY <2>4
    <3>. HIDE DEF e
    <3>2. SeenAs(e.name, e.is_dir) /\ (~e.is_dir /\ ~e.sized => Seen(e.name, "none"))
      BY <2>2, <3>1 DEF Unsized
    <3>3. \A k : Seen(e.name, k) => \E d \in Since : d.dir.kind[e.name] = k
      BY SinceOpened DEF Seen
    <3>4. \E d \in Since : d.dir.kind[e.name] \in ShownAs(e.is_dir)
      BY <3>2, <3>3 DEF SeenAs
    <3>5. ~e.is_dir /\ ~e.sized => \E d \in Since : d.dir.kind[e.name] = "none"
      BY <3>2, <3>3
    <3>. QED
      BY <3>1, <3>4, <3>5 DEF e
  <2>6. ASSUME NEW n \in Throughout \ Unlisted PROVE \E i \in DOMAIN shown : shown[i].name = n
    <3>1. n \in Returned
      BY <2>1, SinceOpened
    <3>2. PICK e \in scan.out : e.name = n
      BY <3>1 DEF Returned
    <3>. QED
      BY <2>4, <3>2
  <2>7. ASSUME NEW i \in DOMAIN shown, NEW j \in DOMAIN shown, shown[i].name = shown[j].name
        PROVE  i = j
    <3>1. shown[i] \in scan.out /\ shown[j] \in scan.out
      BY <2>4
    <3>2. shown[i] = shown[j]
      BY <2>2, <2>7, <3>1
    <3>. QED
      BY <2>4, <3>2
  <2>. QED
    BY <2>5, <2>6, <2>7 DEF ListingFaithful, shown
<1>4. CauseInv /\ FaithInv => ListingFaithful
  BY <1>3 DEF ListingFaithful
<1>. QED
  BY <1>1, <1>2, <1>4, PTL DEF Spec
=============================================================================
