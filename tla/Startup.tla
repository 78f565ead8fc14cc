------------------------------ MODULE Startup ------------------------------
(***************************************************************************)
(* irserve processes from the command line to the accept loops: the        *)
(* resolution of the -l addresses, the search for a configuration file,    *)
(* the root, the binding of one listener after the other with the fallback *)
(* to a free port, and the service of the connections the kernel has       *)
(* queued.  Several processes share the served directory and the ports     *)
(* with each other and with other programs.  All addresses are of one      *)
(* host.  Parsing of the command line and of the JSON is left out.         *)
(***************************************************************************)
EXTENDS Naturals, Sequences, FiniteSets, SequencesExt

CONSTANTS
  Procs,        \* irserve processes
  Conns,        \* client connections
  Ports,        \* the ports of the host
  Ephemeral,    \* those the system gives to a request for port 0
  Privileged,   \* those the process may not bind (EACCES)
  AnyPort,      \* port 0
  BadHost,      \* a listen address whose host does not resolve
  Nobody, Other,\* owners of a port: none, a program that is not irserve
  Cli,          \* Cli[p]: command lines of p, [listens, explicit, switching]
  Disks,        \* what the configuration files can hold at the start
  Editable,     \* what other programs change of: the files, "public"
  MaxChanges    \* bound on what the surroundings do

Names == {"explicit", "serve.json", "now.json", "package.json"}

(* What a file holds: "other" is JSON without the section looked for in    *)
(* now.json and package.json, "bad" fails to parse as JSON or as a         *)
(* configuration, "moved" has a public directory, which may be missing.    *)
Holds == {"absent", "other", "bad", "plain", "moved"}

ASSUME PortsAssumption ==
  /\ Ephemeral \subseteq Ports /\ Privileged \subseteq Ports
  /\ Ephemeral \cap Privileged = {}
  /\ {AnyPort, BadHost} \cap Ports = {} /\ AnyPort # BadHost
  /\ {Nobody, Other} \cap Procs = {} /\ Nobody # Other
ASSUME CliAssumption ==
  \A p \in Procs : \A c \in Cli[p] :
    /\ c \in [listens : Seq(Ports \union {AnyPort, BadHost}),
              explicit : BOOLEAN, switching : BOOLEAN]
    /\ c.listens # <<>>
ASSUME DiskAssumption ==
  Disks \subseteq [Names -> Holds] /\ Editable \subseteq Names \union {"public"}
  /\ MaxChanges \in Nat

VARIABLES
  files,     \* files[n]: what configuration file n holds
  public,    \* the public directory of a "moved" configuration exists
  owner,     \* owner[q]: who has port q
  cli,       \* the command line of each process
  pc,        \* where each process stands
  at,        \* the position in Chain, while a configuration is looked for
  config,    \* the configuration found: its file and what that held
  listeners, \* the ports bound so far, in the order of -l
  conn,      \* each connection: its state, process and port
  lacked,    \* history: files that had no configuration at some time of the search
  taken,     \* history: ports somebody else had since the launch
  changes    \* what the surroundings have done so far

world   == <<files, public, changes>>
history == <<lacked, taken>>
vars    == <<world, owner, cli, pc, at, config, listeners, conn, history>>

Failures == {"Host", "ExplicitMissing", "Read", "Config", "Root", "PortInUse", "Io", "killed"}
Starting == {"listens", "lookup", "read", "root", "bind", "fallback"}
Stages   == Starting \union {"idle", "serving"} \union Failures

NoConfig == [from |-> "none", holds |-> "plain"]
Fresh    == [state |-> "new", by |-> Nobody, port |-> AnyPort]

Chain(p) == IF cli[p].explicit THEN <<"explicit">>
                               ELSE <<"serve.json", "now.json", "package.json">>

(* What the search makes of a file: a whole-file configuration always has  *)
(* a section.                                                              *)
Section(name, holds) ==
  IF holds = "other" /\ name \in {"explicit", "serve.json"} THEN "plain" ELSE holds

Lacks(fs) == {n \in Names : Section(n, fs[n]) \in {"absent", "other"}}
-----------------------------------------------------------------------------
TypeOK ==
  /\ files \in [Names -> Holds] /\ public \in BOOLEAN
  /\ owner \in [Ports -> Procs \union {Nobody, Other}]
  /\ \A p \in Procs : cli[p] \in Cli[p]
  /\ pc \in [Procs -> Stages]
  /\ \A p \in Procs : at[p] \in 1..Len(Chain(p))
  /\ config \in [Procs -> [from : Names \union {"none"}, holds : {"plain", "moved"}]]
  /\ \A p \in Procs : /\ listeners[p] \in Seq(Ports)
                      /\ Len(listeners[p]) <= Len(cli[p].listens)
  /\ conn \in [Conns -> [state : {"new", "queued", "answered", "refused", "reset"},
                         by : Procs \union {Nobody}, port : Ports \union {AnyPort}]]
  /\ lacked \in [Procs -> SUBSET Names] /\ taken \in [Procs -> SUBSET Ports]
  /\ changes \in 0..MaxChanges

Init ==
  /\ files \in Disks
  /\ public = TRUE
  /\ owner \in [Ports -> {Nobody, Other}]
  /\ cli \in [Procs -> UNION {Cli[p] : p \in Procs}] /\ \A p \in Procs : cli[p] \in Cli[p]
  /\ pc = [p \in Procs |-> "idle"]
  /\ at = [p \in Procs |-> 1]
  /\ config = [p \in Procs |-> NoConfig]
  /\ listeners = [p \in Procs |-> <<>>]
  /\ conn = [c \in Conns |-> Fresh]
  /\ lacked = [p \in Procs |-> {}]
  /\ taken = [p \in Procs |-> {}]
  /\ changes = 0
-----------------------------------------------------------------------------
(* The end of a process, which forgets everything: the system closes its   *)
(* listeners and resets the connections on them that nobody has accepted.  *)
Exit(p, why) ==
  /\ pc' = [pc EXCEPT ![p] = why]
  /\ owner' = [q \in Ports |-> IF owner[q] = p THEN Nobody ELSE owner[q]]
  /\ conn' = [c \in Conns |-> IF conn[c].by = p /\ conn[c].state = "queued"
                              THEN [conn[c] EXCEPT !.state = "reset"] ELSE conn[c]]
  /\ listeners' = [listeners EXCEPT ![p] = <<>>]
  /\ at' = [at EXCEPT ![p] = 1]
  /\ config' = [config EXCEPT ![p] = NoConfig]
  /\ taken' = [taken EXCEPT ![p] = IF why = "PortInUse" THEN @ ELSE {}]
  /\ lacked' = [lacked EXCEPT ![p] = {}]
  /\ UNCHANGED <<world, cli>>

Goto(p, stage) == pc' = [pc EXCEPT ![p] = stage]

(* A process is started, or started again after it ended.                  *)
Launch(p) ==
  /\ pc[p] \in Failures \union {"idle"}
  /\ Goto(p, "listens")
  /\ lacked' = [lacked EXCEPT ![p] = Lacks(files)]
  /\ taken' = [taken EXCEPT ![p] = {q \in Ports : owner[q] # Nobody}]
  /\ UNCHANGED <<world, owner, cli, at, config, listeners, conn>>

(* resolve_listens: every address is resolved before anything else.        *)
Resolve(p) ==
  /\ pc[p] = "listens"
  /\ IF \E i \in DOMAIN cli[p].listens : cli[p].listens[i] = BadHost
     THEN Exit(p, "Host")
     ELSE /\ Goto(p, "lookup")
          /\ UNCHANGED <<world, owner, cli, at, config, listeners, conn, history>>

(* Mutants: the search ends at the first file without a section; the end   *)
(* of the chain is noticed one file late.                                  *)
Continue_gives_up(p) ==
  Goto(p, "root") /\ UNCHANGED <<world, owner, cli, at, config, listeners, conn, history>>

Continue_late(p) ==
  /\ IF at[p] <= Len(Chain(p))
     THEN at' = [at EXCEPT ![p] = @ + 1] /\ Goto(p, "lookup")
     ELSE UNCHANGED at /\ Goto(p, "root")
  /\ UNCHANGED <<world, owner, cli, config, listeners, conn, history>>

(* The next file of the chain, or, after the last, the default             *)
(* configuration.                                                          *)
Continue(p) ==
  /\ IF at[p] < Len(Chain(p))
     THEN at' = [at EXCEPT ![p] = @ + 1] /\ Goto(p, "lookup")
     ELSE UNCHANGED at /\ Goto(p, "root")
  /\ UNCHANGED <<world, owner, cli, config, listeners, conn, history>>

(* path.exists(), and std::fs::read afterwards.                            *)
Lookup(p) ==
  /\ pc[p] = "lookup"
  /\ LET name == Chain(p)[at[p]]
     IN  \/ /\ files[name] # "absent"
            /\ Goto(p, "read")
            /\ UNCHANGED <<world, owner, cli, at, config, listeners, conn, history>>
         \/ files[name] = "absent" /\ cli[p].explicit /\ Exit(p, "ExplicitMissing")
         \/ files[name] = "absent" /\ ~cli[p].explicit /\ Continue(p)

Read(p) ==
  /\ pc[p] = "read"
  /\ LET name  == Chain(p)[at[p]]
         holds == Section(name, files[name])
     IN  \/ holds = "absent" /\ Exit(p, "Read")
         \/ holds = "bad" /\ Exit(p, "Config")
         \/ holds = "other" /\ Continue(p)
         \/ /\ holds \in {"plain", "moved"}
            /\ config' = [config EXCEPT ![p] = [from |-> name, holds |-> holds]]
            /\ Goto(p, "root")
            /\ UNCHANGED <<world, owner, cli, at, listeners, conn, history>>

(* The root is made canonical, which fails when it does not exist.         *)
Canonicalize(p) ==
  /\ pc[p] = "root"
  /\ IF config[p].holds = "moved" /\ ~public
     THEN Exit(p, "Root")
     ELSE /\ Goto(p, "bind")
          /\ UNCHANGED <<world, owner, cli, at, config, listeners, conn, history>>
-----------------------------------------------------------------------------
(* The listeners.                                                          *)
Wanted(p) == cli[p].listens[Len(listeners[p]) + 1]

Free(qs) == {q \in qs : owner[q] = Nobody}

Listen(p, q) ==
  /\ owner' = [owner EXCEPT ![q] = p]
  /\ listeners' = [listeners EXCEPT ![p] = Append(@, q)]
  /\ taken' = [r \in Procs |-> IF r # p /\ pc[r] \in Starting THEN taken[r] \union {q}
                                                     ELSE taken[r]]
  /\ Goto(p, "bind")
  /\ UNCHANGED <<world, cli, at, config, conn, lacked>>

(* TcpListener::bind of port 0: whatever ephemeral port is free.           *)
BindAny(p) ==
  \/ \E q \in Free(Ephemeral) : Listen(p, q)
  \/ Free(Ephemeral) = {} /\ Exit(p, "Io")

(* Mutant: any failure to bind is taken for an address in use.             *)
Switches_always(p) == owner[Wanted(p)] # Nobody \/ Wanted(p) \in Privileged

(* bind_with_fallback, up to its second bind.  Only an address in use is   *)
(* replaced by another.                                                    *)
Switches(p) == owner[Wanted(p)] # Nobody /\ Wanted(p) \notin Privileged

Bind(p) ==
  /\ pc[p] = "bind" /\ Len(listeners[p]) < Len(cli[p].listens)
  /\ \/ Wanted(p) = AnyPort /\ BindAny(p)
     \/ /\ Wanted(p) \in Ports
        /\ \/ Switches(p) /\ ~cli[p].switching /\ Exit(p, "PortInUse")
           \/ /\ Switches(p) /\ cli[p].switching
              /\ Goto(p, "fallback")
              /\ UNCHANGED <<world, owner, cli, at, config, listeners, conn, history>>
           \/ ~Switches(p) /\ Wanted(p) \in Privileged /\ Exit(p, "Io")
           \/ ~Switches(p) /\ Wanted(p) \notin Privileged /\ Listen(p, Wanted(p))

(* Mutant: the fallback tries the wanted address again.                    *)
Fallback_again(p) ==
  /\ pc[p] = "fallback"
  /\ Goto(p, "bind")
  /\ UNCHANGED <<world, owner, cli, at, config, listeners, conn, history>>

Fallback(p) == pc[p] = "fallback" /\ BindAny(p)

(* Mutant: each listener is served as soon as it is bound.                 *)
AllBound_early(p) == listeners[p] # <<>>

(* The accept loops start when all listeners are there.                    *)
AllBound(p) == Len(listeners[p]) = Len(cli[p].listens)

Serve(p) ==
  /\ pc[p] = "bind" /\ AllBound(p)
  /\ Goto(p, "serving")
  /\ UNCHANGED <<world, owner, cli, at, config, listeners, conn, history>>
-----------------------------------------------------------------------------
(* Connections.  The kernel completes a connection to a bound port whether *)
(* or not the process has come to its accept loops.                        *)
Connect(c) ==
  /\ conn[c].state = "new"
  /\ \E q \in Ports :
       conn' = [conn EXCEPT ![c] = 
                  CASE owner[q] \in Procs -> [state |-> "queued", by |-> owner[q], port |-> q]
                    [] owner[q] = Nobody  -> [state |-> "refused", by |-> Nobody, port |-> q]
                    [] OTHER -> [state |-> "answered", by |-> Nobody, port |-> q]]
  /\ UNCHANGED <<world, owner, cli, pc, at, config, listeners, history>>

(* Mutant: the listeners are served one after the other.                   *)
Accepting_first(p) == {Head(listeners[p])}

(* The listeners with an accept loop: one task each.                       *)
Accepting(p) == ToSet(listeners[p])

Accept(p, c) ==
  /\ pc[p] = "serving"
  /\ conn[c].state = "queued" /\ conn[c].by = p /\ conn[c].port \in Accepting(p)
  /\ conn' = [conn EXCEPT ![c].state = "answered"]
  /\ UNCHANGED <<world, owner, cli, pc, at, config, listeners, history>>
-----------------------------------------------------------------------------
(* The surroundings: other programs write and remove files and directories *)
(* and take and leave ports, and a process is killed.                      *)
Disturb == changes < MaxChanges /\ changes' = changes + 1

Write(n) ==
  /\ n \in Names /\ Disturb
  /\ \E h \in Holds \ {files[n]} : files' = [files EXCEPT ![n] = h]
  /\ lacked' = [p \in Procs |-> IF pc[p] \in {"listens", "lookup", "read"}
                                THEN lacked[p] \union Lacks(files') ELSE lacked[p]]
  /\ UNCHANGED <<public, owner, cli, pc, at, config, listeners, conn, taken>>

MovePublic ==
  /\ "public" \in Editable /\ Disturb
  /\ public' = ~public
  /\ UNCHANGED <<files, owner, cli, pc, at, config, listeners, conn, history>>

Occupy(q) ==
  /\ Disturb
  /\ owner[q] = Nobody
  /\ owner' = [owner EXCEPT ![q] = Other]
  /\ taken' = [p \in Procs |-> IF pc[p] \in Starting THEN taken[p] \union {q} ELSE taken[p]]
  /\ UNCHANGED <<files, public, cli, pc, at, config, listeners, conn, lacked>>

Vacate(q) ==
  /\ Disturb
  /\ owner[q] = Other
  /\ owner' = [owner EXCEPT ![q] = Nobody]
  /\ UNCHANGED <<files, public, cli, pc, at, config, listeners, conn, history>>

Kill(p) == pc[p] \in Starting \union {"serving"} /\ Exit(p, "killed")
-----------------------------------------------------------------------------
Step(p) == Resolve(p) \/ Lookup(p) \/ Read(p) \/ Canonicalize(p)
             \/ Bind(p) \/ Fallback(p) \/ Serve(p)

Next ==
  \/ \E p \in Procs : Launch(p) \/ Step(p) \/ Kill(p)
  \/ \E p \in Procs, c \in Conns : Accept(p, c)
  \/ \E c \in Conns : Connect(c)
  \/ \E n \in Editable : Write(n)
  \/ MovePublic
  \/ \E q \in Ports : Occupy(q) \/ Vacate(q)

Spec == Init /\ [][Next]_vars

(* A process that can go on does, and each accept loop runs by itself; the *)
(* surroundings owe nothing.                                               *)
Fairness == /\ \A p \in Procs : WF_vars(Step(p))
            /\ \A p \in Procs, c \in Conns : WF_vars(Accept(p, c))
FairSpec == Spec /\ Fairness
-----------------------------------------------------------------------------
(* SRV-CFG-001: a configuration file is passed over only if, at some time  *)
(* of the search, it was missing or had no section, and --config allows no *)
(* other file.                                                             *)
Preceding(from) ==
  CASE from \in {"explicit", "serve.json"} -> {}
    [] from = "now.json" -> {"serve.json"}
    [] from = "package.json" -> {"serve.json", "now.json"}
    [] from = "none" -> {"serve.json", "now.json", "package.json"}

ConfigPriority ==
  \A p \in Procs : pc[p] \in {"root", "bind", "fallback", "serving"} =>
    /\ Preceding(config[p].from) \subseteq lacked[p]
    /\ cli[p].explicit <=> config[p].from = "explicit"

(* Several -l are additive and a start is all or nothing: a process serves *)
(* only with a listener of its own for every address, and without port     *)
(* switching at the very ports asked for; a start that failed holds none.  *)
AllOrNothing ==
  /\ \A p \in Procs : pc[p] = "serving" =>
       /\ Len(listeners[p]) = Len(cli[p].listens)
       /\ IsInjective(listeners[p])
       /\ ToSet(listeners[p]) = {q \in Ports : owner[q] = p}
       /\ ~cli[p].switching => \A i \in DOMAIN listeners[p] :
                                cli[p].listens[i] \in {AnyPort, listeners[p][i]}
  /\ \A p \in Procs : pc[p] \in Failures => \A q \in Ports : owner[q] # p

(* SRV-CLI-016: another port than the one asked for is used, or the start  *)
(* refused as "already in use", only if somebody else had that port since  *)
(* the launch, or an earlier -l of the process itself.                     *)
SwitchedForCause ==
  \A p \in Procs :
    LET asked == cli[p].listens
    IN  /\ \A i \in DOMAIN listeners[p] :
             asked[i] \notin {AnyPort, listeners[p][i]} =>
               /\ cli[p].switching
               /\ \/ asked[i] \in taken[p]
                  \/ \E j \in 1..(i - 1) : listeners[p][j] = asked[i]
        /\ pc[p] = "PortInUse" =>
             /\ ~cli[p].switching
             /\ \E i \in DOMAIN asked :
                  \/ asked[i] \in taken[p]
                  \/ \E j \in 1..(i - 1) : asked[j] \in {AnyPort, asked[i]}

(* Every launch comes to an end: the process serves or has exited.         *)
Settles == \A p \in Procs : pc[p] \in Starting ~> pc[p] \notin Starting

(* A connection the kernel took in is not left waiting: it is answered, or *)
(* reset by the end of the process - also one that came to the first       *)
(* listener while the process went on to bind the others.                  *)
Handled == \A c \in Conns : conn[c].state = "queued" ~> conn[c].state # "queued"

(* load_serve_json: "Missing implicit files are silently skipped".         *)
MissingFilesSkipped ==
  \A p \in Procs : pc[p] = "Read" => cli[p].explicit
=============================================================================
