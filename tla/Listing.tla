------------------------------- MODULE Listing -------------------------------
(***************************************************************************)
(* The reading of one directory for a listing.  The entries are read one   *)
(* at a time, each with an await for its name, its type and its size,      *)
(* while other programs may change the directory; the first failure fails  *)
(* the whole listing.  A directory with one file may be answered with that *)
(* file (renderSingle).                                                    *)
(*                                                                         *)
(* What the system promises of an open directory is modelled from POSIX: a *)
(* name that is there all the time is returned exactly once, one that is   *)
(* there for a part of it may or may not be, at most once, with the kind   *)
(* it had at some time.  Some file systems return no kind; it is then      *)
(* asked for, and that fails if the entry is gone.                         *)
(***************************************************************************)
EXTENDS Integers, Sequences, SequencesExt, FiniteSets

CONSTANTS
  Names,        \* names of entries, as numbers in the order of the alphabet
  Unlisted      \* those the filter hides: .DS_Store, .git and the configured

ASSUME NamesAssumption == IsFiniteSet(Names) /\ Names \subseteq Nat
ASSUME UnlistedAssumption == Unlisted \subseteq Names

VARIABLES
  disks,        \* the states of the disk since the request began; the last is now
  scan          \* the reading of the directory

(* "unreadable" is an entry that is no directory and whose read as a file  *)
(* fails: a link that leads nowhere or to a directory (the type is that of *)
(* the link itself), a file without permission, a name that is not UTF-8.  *)
Kinds == {"none", "file", "unreadable", "dir"}

(* There may be no directory, or one that may not be read; a directory     *)
(* maps every name to a kind.                                              *)
Directory == [there : BOOLEAN, readable : BOOLEAN, kind : [Names -> Kinds]]

Disk == Last(disks)

Entry(n, is_dir, sized) == [name |-> n, is_dir |-> is_dir, sized |-> sized]
NoEntry == [name |-> -1, kind |-> "none"]

NoScan == [stage |-> "idle", from |-> 0, at |-> NoEntry, out |-> {}, shown |-> <<>>]

Stages == {"idle", "open", "next", "type", "size", "lone", "listed", "single", "failed"}

(* The states the disk has been in since the directory was opened. *)
Since       == {disks[i] : i \in scan.from..Len(disks)}
Throughout  == {n \in Names : \A d \in Since : d.dir.kind[n] # "none"}
Returned    == {e.name : e \in scan.out}

Scanning(stage) == scan.stage = stage /\ UNCHANGED disks

Before(e, f) == (e.is_dir /\ ~f.is_dir) \/ (e.is_dir = f.is_dir /\ e.name < f.name)

is_excluded(e) == e.name \in Unlisted

apply_unlisted_filter(entries) == {e \in entries : ~is_excluded(e)}

Shown(entries) ==
  LET shown == apply_unlisted_filter(entries)
  IN  CHOOSE f \in [1..Cardinality(shown) -> shown] :
        \A i, j \in DOMAIN f : i < j => Before(f[i], f[j])
-----------------------------------------------------------------------------
Fail == scan' = [scan EXCEPT !.stage = "failed", !.at = NoEntry]

Keep(e) == scan' = [scan EXCEPT !.stage = "next", !.at = NoEntry, !.out = @ \union {e}]

OpenDir ==
  /\ Scanning("open")
  /\ IF Disk.dir.there /\ Disk.dir.readable
     THEN scan' = [scan EXCEPT !.stage = "next", !.from = Len(disks)]
     ELSE Fail

NextEntry ==
  /\ Scanning("next")
  /\ \E n \in Names \ Returned : \E d \in Since :
       /\ d.dir.kind[n] # "none"
       /\ scan' = [scan EXCEPT !.stage = "type", !.at = [name |-> n, kind |-> d.dir.kind[n]]]

FileType_skip ==
  /\ Scanning("type")
  /\ \E kind \in {scan.at.kind, Disk.dir.kind[scan.at.name]} :
       \/ kind = "dir"  /\ Keep(Entry(scan.at.name, TRUE, FALSE))
       \/ kind \in {"file", "unreadable"} /\ scan' = [scan EXCEPT !.stage = "size"]
       \/ kind = "none" /\ Keep(Entry(scan.at.name, TRUE, FALSE))

(* The type is the one that came with the name, or is asked for now. *)
FileType ==
  /\ Scanning("type")
  /\ \E kind \in {scan.at.kind, Disk.dir.kind[scan.at.name]} :
       \/ kind = "dir"  /\ Keep(Entry(scan.at.name, TRUE, FALSE))
       \/ kind \in {"file", "unreadable"} /\ scan' = [scan EXCEPT !.stage = "size"]
       \/ kind = "none" /\ Fail

(* A size that cannot be had is left out; a link has one, of its own. *)
Metadata ==
  /\ Scanning("size")
  /\ Keep(Entry(scan.at.name, FALSE, Disk.dir.kind[scan.at.name] # "none"))

(* All entries are counted for renderSingle, those that are not listed too. *)
LoneFile_listed(render_single) ==
  /\ render_single
  /\ Cardinality(apply_unlisted_filter(scan.out)) = 1
  /\ \A e \in scan.out : ~e.is_dir

LoneFile(render_single) ==
  /\ render_single
  /\ Cardinality(scan.out) = 1
  /\ \A e \in scan.out : ~e.is_dir

EndOfEntries(render_single) ==
  /\ Scanning("next")
  /\ Throughout \subseteq Returned
  /\ scan' = IF LoneFile(render_single)
             THEN [scan EXCEPT !.stage = "lone"]
             ELSE [scan EXCEPT !.stage = "listed", !.shown = Shown(scan.out)]

(* No type, no kind of link and no permission was asked for before. *)
ReadLone ==
  /\ Scanning("lone")
  /\ \E e \in scan.out :
       IF Disk.dir.kind[e.name] = "file"
       THEN scan' = [scan EXCEPT !.stage = "single", !.shown = <<e>>]
       ELSE Fail

Scan(render_single) ==
  OpenDir \/ NextEntry \/ FileType \/ Metadata \/ EndOfEntries(render_single) \/ ReadLone

Scanned == scan.stage \in {"listed", "single", "failed"}
-----------------------------------------------------------------------------
(* What a listing shows was there, as a directory or as something else,    *)
(* while the directory was read; what was there all the time and is not    *)
(* hidden is shown, once; and only what went away is shown without a size. *)
ShownAs(is_dir) == IF is_dir THEN {"dir"} ELSE {"file", "unreadable"}

ListingFaithful ==
  scan.stage = "listed" =>
    /\ \A i \in DOMAIN scan.shown :
         LET e == scan.shown[i]
         IN  /\ e.name \notin Unlisted
             /\ \E d \in Since : d.dir.kind[e.name] \in ShownAs(e.is_dir)
             /\ ~e.is_dir /\ ~e.sized => \E d \in Since : d.dir.kind[e.name] = "none"
    /\ \A n \in Throughout \ Unlisted : \E i \in DOMAIN scan.shown : scan.shown[i].name = n
    /\ \A i, j \in DOMAIN scan.shown : scan.shown[i].name = scan.shown[j].name => i = j

(* A file that is answered in place of its directory is the only entry     *)
(* that was there all the time, hidden ones included, and was a file.      *)
SingleWasAlone ==
  scan.stage = "single" =>
    /\ Len(scan.shown) = 1
    /\ Throughout \subseteq {scan.shown[1].name}
    /\ \E d \in Since : d.dir.kind[scan.shown[1].name] = "file"
=============================================================================
