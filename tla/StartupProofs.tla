--------------------------- MODULE StartupProofs ---------------------------
(***************************************************************************)
(* Theorems about Startup, for every number of processes and ports, every  *)
(* command line and every disk.                                            *)
(***************************************************************************)
EXTENDS Startup, TLAPS

ConfigType == [from : Names \union {"none"}, holds : {"plain", "moved"}]
ConnType   == [state : {"new", "queued", "answered", "refused", "reset"},
               by : Procs \union {Nobody}, port : Ports \union {AnyPort}]

TypeInv ==
  /\ TypeOK
  /\ at \in [Procs -> Nat]
  /\ listeners \in [Procs -> Seq(Ports)]

LEMMA ChainType ==
  ASSUME NEW p \in Procs
  PROVE  /\ Len(Chain(p)) \in Nat \ {0}
         /\ \A i \in 1..Len(Chain(p)) : Chain(p)[i] \in Names
BY DEF Chain, Names

LEMMA FreshType == Fresh \in ConnType /\ NoConfig \in ConfigType
BY DEF Fresh, ConnType, NoConfig, ConfigType

LEMMA TypeInit == Init => TypeInv
<1>. SUFFICES ASSUME Init PROVE TypeInv
  OBVIOUS
<1>1. at \in [Procs -> Nat] /\ \A p \in Procs : at[p] \in 1..Len(Chain(p))
  BY ChainType DEF Init
<1>2. listeners \in [Procs -> Seq(Ports)] /\ \A p \in Procs : Len(listeners[p]) <= Len(cli[p].listens)
  BY CliAssumption DEF Init
<1>3. changes \in 0..MaxChanges /\ files \in [Names -> Holds]
  BY DiskAssumption DEF Init
<1>4. config \in [Procs -> ConfigType] /\ conn \in [Conns -> ConnType]
  BY FreshType DEF Init
<1>5. pc \in [Procs -> Stages]
  BY DEF Init, Stages
<1>. QED
  BY <1>1, <1>2, <1>3, <1>4, <1>5 DEF Init, TypeInv, TypeOK, ConfigType, ConnType

LEMMA ExitType ==
  ASSUME TypeInv, NEW p \in Procs, NEW why \in Failures, Exit(p, why)
  PROVE  TypeInv'
<1>1. pc' \in [Procs -> Stages] /\ owner' \in [Ports -> Procs \union {Nobody, Other}]
  BY DEF TypeInv, TypeOK, Exit, Stages
<1>2. conn' \in [Conns -> ConnType]
  BY ZenonT(40) DEF TypeInv, TypeOK, Exit, ConnType
<1>3. /\ listeners' \in [Procs -> Seq(Ports)]
      /\ \A r \in Procs : Len(listeners'[r]) <= Len(cli'[r].listens)
  BY CliAssumption DEF TypeInv, TypeOK, Exit
<1>4. at' \in [Procs -> Nat] /\ \A r \in Procs : at'[r] \in 1..Len(Chain(r))'
  BY ChainType DEF TypeInv, TypeOK, Exit, Chain
<1>5. config' \in [Procs -> ConfigType]
  BY FreshType DEF TypeInv, TypeOK, Exit, ConfigType
<1>6. lacked' \in [Procs -> SUBSET Names] /\ taken' \in [Procs -> SUBSET Ports]
  BY DEF TypeInv, TypeOK, Exit
<1>. QED
  BY <1>1, <1>2, <1>3, <1>4, <1>5, <1>6
     DEF TypeInv, TypeOK, Exit, world, ConfigType, ConnType

LEMMA ListenType ==
  ASSUME TypeInv, NEW p \in Procs, NEW q \in Ports, Listen(p, q),
         Len(listeners[p]) < Len(cli[p].listens)
  PROVE  TypeInv'
<1>1. pc' \in [Procs -> Stages] /\ owner' \in [Ports -> Procs \union {Nobody, Other}]
  BY DEF TypeInv, TypeOK, Listen, Goto, Stages, Starting
<1>2. /\ listeners' \in [Procs -> Seq(Ports)]
      /\ \A r \in Procs : Len(listeners'[r]) <= Len(cli'[r].listens)
  BY CliAssumption DEF TypeInv, TypeOK, Listen
<1>3. taken' \in [Procs -> SUBSET Ports]
  BY DEF TypeInv, TypeOK, Listen
<1>. QED
  BY <1>1, <1>2, <1>3 DEF TypeInv, TypeOK, Listen, world, Chain

LEMMA BindAnyType ==
  ASSUME TypeInv, NEW p \in Procs, BindAny(p), Len(listeners[p]) < Len(cli[p].listens)
  PROVE  TypeInv'
BY ExitType, ListenType, PortsAssumption DEF BindAny, Free, Failures

(* A process goes on to another stage, and nothing else changes. *)
LEMMA GotoType ==
  ASSUME TypeInv, NEW p \in Procs, NEW stage \in Stages, Goto(p, stage),
         UNCHANGED <<world, owner, cli, at, config, listeners, conn, history>>
  PROVE  TypeInv'
BY DEF TypeInv, TypeOK, Goto, world, history, Chain

LEMMA ContinueType ==
  ASSUME TypeInv, NEW p \in Procs, Continue(p)
  PROVE  TypeInv'
<1>1. at[p] \in 1..Len(Chain(p)) /\ Len(Chain(p)) \in Nat
  BY ChainType DEF TypeInv, TypeOK
<1>2. \A r \in Procs : Chain(r)' = Chain(r)
  BY DEF Continue, Chain
<1>4. at' \in [Procs -> Nat] /\ \A r \in Procs : at'[r] \in 1..Len(Chain(r))
  <2>1. at \in [Procs -> Nat] /\ \A r \in Procs : at[r] \in 1..Len(Chain(r))
    BY DEF TypeInv, TypeOK
  <2>2. at' = at \/ (at[p] < Len(Chain(p)) /\ at' = [at EXCEPT ![p] = at[p] + 1])
    BY DEF Continue
  <2>. QED
    BY <1>1, <2>1, <2>2
<1>3. pc' \in [Procs -> Stages]
  BY DEF Continue, Goto, TypeInv, TypeOK, Stages, Starting
<1>5. at' \in [Procs -> Nat] /\ \A r \in Procs : at'[r] \in 1..Len(Chain(r)')
  BY <1>2, <1>4
<1>. QED
  BY <1>3, <1>5 DEF Continue, TypeInv, TypeOK, world, history

(* Listeners are bound only while addresses are left. *)
LEMMA StepType ==
  ASSUME TypeInv, NEW p \in Procs, Step(p),
         pc[p] = "fallback" => Len(listeners[p]) < Len(cli[p].listens)
  PROVE  TypeInv'
<1>0. {"lookup", "read", "root", "bind", "fallback", "serving"} \subseteq Stages
  BY DEF Stages, Starting
<1>1. CASE Resolve(p)
  BY <1>0, <1>1, ExitType, GotoType DEF Resolve, Failures
<1>2. CASE Lookup(p)
  BY <1>0, <1>2, ExitType, GotoType, ContinueType DEF Lookup, Failures
<1>3. CASE Read(p)
  <2>. DEFINE name  == Chain(p)[at[p]]
              holds == Section(name, files[name])
  <2>1. CASE holds \in {"absent", "bad", "other"}
    BY <1>3, <2>1, ExitType, ContinueType DEF Read, Failures
  <2>2. CASE /\ holds \in {"plain", "moved"}
             /\ config' = [config EXCEPT ![p] = [from |-> name, holds |-> holds]]
             /\ Goto(p, "root")
             /\ UNCHANGED <<world, owner, cli, at, listeners, conn, history>>
    <3>1. name \in Names
      BY ChainType DEF TypeInv, TypeOK
    <3>2. config' \in [Procs -> ConfigType]
      BY <2>2, <3>1 DEF TypeInv, TypeOK, ConfigType
    <3>. QED
      BY <2>2, <3>2, <1>0 DEF TypeInv, TypeOK, Goto, world, history, Chain, ConfigType
  <2>. QED
    BY <1>3, <2>1, <2>2 DEF Read
<1>4. CASE Canonicalize(p)
  BY <1>0, <1>4, ExitType, GotoType DEF Canonicalize, Failures
<1>5. CASE Bind(p)
  <2>1. CASE BindAny(p)
    BY <1>5, <2>1, BindAnyType DEF Bind
  <2>2. CASE Wanted(p) \in Ports /\ Listen(p, Wanted(p))
    BY <1>5, <2>2, ListenType DEF Bind
  <2>3. CASE Exit(p, "PortInUse") \/ Exit(p, "Io")
    BY <2>3, ExitType DEF Failures
  <2>4. CASE /\ Goto(p, "fallback")
             /\ UNCHANGED <<world, owner, cli, at, config, listeners, conn, history>>
    BY <1>0, <2>4, GotoType
  <2>. QED
    BY <1>5, <2>1, <2>2, <2>3, <2>4 DEF Bind
<1>6. CASE Fallback(p)
  BY <1>6, BindAnyType DEF Fallback
<1>7. CASE Serve(p)
  BY <1>0, <1>7, GotoType DEF Serve
<1>. QED
  BY <1>1, <1>2, <1>3, <1>4, <1>5, <1>6, <1>7 DEF Step

LEMMA NextType ==
  ASSUME TypeInv, [Next]_vars,
         \A p \in Procs : pc[p] = "fallback" => Len(listeners[p]) < Len(cli[p].listens)
  PROVE  TypeInv'
<1>1. CASE UNCHANGED vars
  BY <1>1 DEF TypeInv, TypeOK, vars, world, history, Chain
<1>2. ASSUME NEW p \in Procs, Launch(p) PROVE TypeInv'
  <2>1. pc' \in [Procs -> Stages]
    BY <1>2 DEF TypeInv, TypeOK, Launch, Goto, Stages, Starting
  <2>2. lacked' \in [Procs -> SUBSET Names] /\ taken' \in [Procs -> SUBSET Ports]
    BY <1>2 DEF TypeInv, TypeOK, Launch, Lacks
  <2>. QED
    BY <1>2, <2>1, <2>2 DEF TypeInv, TypeOK, Launch, world, Chain
<1>3. ASSUME NEW p \in Procs, Step(p) PROVE TypeInv'
  BY <1>3, StepType
<1>4. ASSUME NEW p \in Procs, Kill(p) PROVE TypeInv'
  BY <1>4, ExitType DEF Kill, Failures
<1>5. ASSUME NEW p \in Procs, NEW c \in Conns, Accept(p, c) PROVE TypeInv'
  <2>1. conn' \in [Conns -> ConnType]
    <3>1. conn \in [Conns -> ConnType] /\ conn' = [conn EXCEPT ![c].state = "answered"]
      BY <1>5 DEF TypeInv, TypeOK, Accept, ConnType
    <3>. QED
      BY <3>1 DEF ConnType
  <2>. QED
    BY <1>5, <2>1 DEF TypeInv, TypeOK, Accept, world, history, Chain, ConnType
<1>6. ASSUME NEW c \in Conns, Connect(c) PROVE TypeInv'
  <2>1. conn' \in [Conns -> ConnType]
    BY <1>6 DEF TypeInv, TypeOK, Connect, ConnType
  <2>. QED
    BY <1>6, <2>1 DEF TypeInv, TypeOK, Connect, world, history, Chain, ConnType
<1>7. ASSUME NEW n \in Editable, Write(n) PROVE TypeInv'
  <2>1. files' \in [Names -> Holds]
    BY <1>7 DEF TypeInv, TypeOK, Write
  <2>2. lacked' \in [Procs -> SUBSET Names]
    BY <1>7 DEF TypeInv, TypeOK, Write, Lacks
  <2>3. changes' \in 0..MaxChanges
    BY <1>7, DiskAssumption DEF TypeInv, TypeOK, Write, Disturb
  <2>. QED
    BY <1>7, <2>1, <2>2, <2>3 DEF TypeInv, TypeOK, Write, Chain
<1>8. CASE MovePublic
  BY <1>8, DiskAssumption DEF TypeInv, TypeOK, MovePublic, Disturb, history, Chain
<1>9. ASSUME NEW q \in Ports, Occupy(q) \/ Vacate(q) PROVE TypeInv'
  <2>1. owner' \in [Ports -> Procs \union {Nobody, Other}] /\ taken' \in [Procs -> SUBSET Ports]
    <3>1. CASE Occupy(q)
      BY <3>1 DEF TypeInv, TypeOK, Occupy
    <3>2. CASE Vacate(q)
      BY <3>2 DEF TypeInv, TypeOK, Vacate, history
    <3>. QED
      BY <1>9, <3>1, <3>2
  <2>2. changes' \in 0..MaxChanges
    BY <1>9, DiskAssumption DEF TypeInv, TypeOK, Occupy, Vacate, Disturb
  <2>. QED
    BY <1>9, <2>1, <2>2 DEF TypeInv, TypeOK, Occupy, Vacate, history, Chain
<1>. QED
  BY <1>1, <1>2, <1>3, <1>4, <1>5, <1>6, <1>7, <1>8, <1>9 DEF Next
-----------------------------------------------------------------------------
(* What is known of the listeners of one process at every moment.          *)
Searching == {"listens", "lookup", "read", "root"}

PortsOK(p) ==
  LET asked == cli[p].listens
      bound == listeners[p]
  IN  /\ \A i, j \in 1..Len(bound) : bound[i] = bound[j] => i = j
      /\ \A q \in Ports : owner[q] = p <=> \E i \in 1..Len(bound) : bound[i] = q
      /\ pc[p] \in Failures \union {"idle"} \union Searching => bound = <<>>
      /\ pc[p] = "serving" => Len(bound) = Len(asked)
      /\ ~cli[p].switching => \A i \in 1..Len(bound) : asked[i] \in {AnyPort, bound[i]}
      /\ pc[p] \in Starting => \A q \in Ports : owner[q] \in {Nobody, p} \/ q \in taken[p]

(* The address wanted is somebody else's, or was, or an earlier listener.  *)
Contended(p) == \/ Wanted(p) \in taken[p]
                \/ \E j \in 1..Len(listeners[p]) : listeners[p][j] = Wanted(p)

FallbackOK(p) ==
  pc[p] = "fallback" =>
    cli[p].switching /\ Len(listeners[p]) < Len(cli[p].listens) /\ Contended(p)

(* The two parts of SwitchedForCause for one process.                      *)
BoundForCause(p) ==
  \A i \in 1..Len(listeners[p]) :
    cli[p].listens[i] \notin {AnyPort, listeners[p][i]} =>
      /\ cli[p].switching
      /\ \/ cli[p].listens[i] \in taken[p]
         \/ \E j \in 1..(i - 1) : listeners[p][j] = cli[p].listens[i]

RefusedForCause(p) ==
  pc[p] = "PortInUse" =>
    /\ ~cli[p].switching
    /\ \E i \in 1..Len(cli[p].listens) :
         \/ cli[p].listens[i] \in taken[p]
         \/ \E j \in 1..(i - 1) : cli[p].listens[j] \in {AnyPort, cli[p].listens[i]}

ProcessOK(p) == PortsOK(p) /\ FallbackOK(p) /\ BoundForCause(p) /\ RefusedForCause(p)

PortsInv == TypeInv /\ \A p \in Procs : ProcessOK(p)
-----------------------------------------------------------------------------
(* What is known of the search for a configuration.                        *)
SearchOK(p) ==
  /\ pc[p] \in {"lookup", "read"} => \A i \in 1..(at[p] - 1) : Chain(p)[i] \in lacked[p]
  /\ pc[p] \in {"listens", "lookup", "read"} => Lacks(files) \subseteq lacked[p]
  /\ pc[p] \in Failures \union {"idle", "listens"} => at[p] = 1
  /\ pc[p] \in Failures \union {"idle", "listens", "lookup", "read"} => config[p] = NoConfig
  /\ pc[p] \in {"root", "bind", "fallback", "serving"} =>
       /\ Preceding(config[p].from) \subseteq lacked[p]
       /\ cli[p].explicit <=> config[p].from = "explicit"

SearchInv == TypeInv /\ \A p \in Procs : SearchOK(p)

LEMMA PortsInit == Init => PortsInv
<1>. SUFFICES ASSUME Init PROVE PortsInv
  OBVIOUS
<1>1. TypeInv
  BY TypeInit
<1>2. ASSUME NEW p \in Procs PROVE ProcessOK(p)
  <2>1. listeners[p] = <<>> /\ pc[p] = "idle" /\ \A q \in Ports : owner[q] # p
    BY PortsAssumption DEF Init
  <2>. QED
    BY <2>1 DEF ProcessOK, PortsOK, FallbackOK, BoundForCause, RefusedForCause,
                Starting, Failures
<1>. QED
  BY <1>1, <1>2 DEF PortsInv

(* What the others do leaves a process alone, but for what it sees of their *)
(* ports.                                                                   *)
LEMMA FramePorts ==
  ASSUME NEW p \in Procs, ProcessOK(p), pc'[p] = pc[p], listeners'[p] = listeners[p],
         cli'[p] = cli[p], taken[p] \subseteq taken'[p],
         \A q \in Ports : owner'[q] = p <=> owner[q] = p,
         pc[p] \in Starting =>
           \A q \in Ports : owner'[q] \in {Nobody, p, owner[q]} \/ q \in taken'[p]
  PROVE  ProcessOK(p)'
<1>1. PortsOK(p)'
  BY DEF ProcessOK, PortsOK
<1>2. FallbackOK(p)'
  BY DEF ProcessOK, FallbackOK, Contended, Wanted
<1>3. BoundForCause(p)'
  BY DEF ProcessOK, BoundForCause
<1>4. RefusedForCause(p)'
  BY DEF ProcessOK, RefusedForCause
<1>. QED
  BY <1>1, <1>2, <1>3, <1>4 DEF ProcessOK

(* Nothing but the place of a process changes, to one that promises no     *)
(* more.                                                                   *)
LEMMA GotoPorts ==
  ASSUME PortsInv, NEW p \in Procs, NEW stage \in Searching \union {"bind"}, Goto(p, stage),
         pc[p] \in Searching, NEW r \in Procs,
         UNCHANGED <<owner, cli, listeners, history>>
  PROVE  ProcessOK(r)'
<1>. USE DEF PortsInv
<1>1. CASE r # p
  BY <1>1, FramePorts DEF Goto, history, TypeInv, TypeOK
<1>2. CASE r = p
  <2>1. pc'[p] = stage /\ pc[p] \in Starting /\ listeners[p] = <<>>
    BY <1>2 DEF Goto, TypeInv, TypeOK, Searching, Starting, ProcessOK, PortsOK
  <2>2. PortsOK(p)'
    BY <1>2, <2>1 DEF history, ProcessOK, PortsOK, Searching, Failures, Starting
  <2>. QED
    BY <1>2, <2>1, <2>2 DEF ProcessOK, FallbackOK, BoundForCause, RefusedForCause, Searching
<1>. QED
  BY <1>1, <1>2

LEMMA ExitPorts ==
  ASSUME PortsInv, NEW p \in Procs, NEW why \in Failures, Exit(p, why), NEW r \in Procs,
         why = "PortInUse" =>
           /\ ~cli[p].switching
           /\ \E i \in 1..Len(cli[p].listens) :
                \/ cli[p].listens[i] \in taken[p]
                \/ \E j \in 1..(i - 1) : cli[p].listens[j] \in {AnyPort, cli[p].listens[i]}
  PROVE  ProcessOK(r)'
<1>. USE DEF PortsInv
<1>1. CASE r # p
  <2>1. \A q \in Ports : owner'[q] \in {Nobody, owner[q]} /\ (owner'[q] = r <=> owner[q] = r)
    BY <1>1, PortsAssumption DEF Exit
  <2>2. pc'[r] = pc[r] /\ listeners'[r] = listeners[r] /\ cli'[r] = cli[r] /\ taken'[r] = taken[r]
    BY <1>1 DEF Exit, TypeInv, TypeOK
  <2>. QED
    BY <1>1, <2>1, <2>2, FramePorts
<1>2. CASE r = p
  <2>1. /\ pc'[p] = why /\ listeners'[p] = <<>> /\ cli' = cli
        /\ why = "PortInUse" => taken'[p] = taken[p]
    BY DEF Exit, TypeInv, TypeOK
  <2>2. \A q \in Ports : owner'[q] # p
    BY PortsAssumption DEF Exit
  <2>3. PortsOK(p)'
    BY <2>1, <2>2 DEF PortsOK, Failures, Starting
  <2>4. FallbackOK(p)' /\ BoundForCause(p)'
    BY <2>1 DEF FallbackOK, BoundForCause, Failures
  <2>5. RefusedForCause(p)'
    BY <2>1 DEF RefusedForCause
  <2>. QED
    BY <1>2, <2>3, <2>4, <2>5 DEF ProcessOK
<1>. QED
  BY <1>1, <1>2

(* A listener more: at a free port, for a reason if it is not the one      *)
(* asked for.                                                              *)
LEMMA ListenPorts ==
  ASSUME PortsInv, NEW p \in Procs, NEW q \in Ports, Listen(p, q), NEW r \in Procs,
         owner[q] = Nobody, pc[p] \in {"bind", "fallback"},
         Len(listeners[p]) < Len(cli[p].listens),
         Wanted(p) \notin {AnyPort, q} => cli[p].switching /\ Contended(p)
  PROVE  ProcessOK(r)'
<1>. USE DEF PortsInv
<1>0. Nobody \notin Procs
  BY PortsAssumption
<1>1. CASE r # p
  <2>1. /\ pc'[r] = pc[r] /\ listeners'[r] = listeners[r] /\ cli'[r] = cli[r]
        /\ taken[r] \subseteq taken'[r] /\ (pc[r] \in Starting => q \in taken'[r])
    BY <1>1 DEF Listen, Goto, TypeInv, TypeOK
  <2>2. \A s \in Ports : (s # q => owner'[s] = owner[s]) /\ (owner'[s] = r <=> owner[s] = r)
    BY <1>0, <1>1 DEF Listen, TypeInv, TypeOK
  <2>. QED
    BY <2>1, <2>2, FramePorts
<1>2. CASE r = p
  <2>. DEFINE n == Len(listeners[p])
  <2>1. /\ pc'[p] = "bind" /\ cli' = cli /\ taken'[p] = taken[p]
        /\ listeners'[p] = Append(listeners[p], q)
    BY DEF Listen, Goto, TypeInv, TypeOK
  <2>2. /\ n \in Nat /\ Len(listeners'[p]) = n + 1 /\ listeners'[p][n + 1] = q
        /\ \A i \in 1..n : listeners'[p][i] = listeners[p][i] /\ listeners[p][i] \in Ports
    BY <2>1 DEF TypeInv
  <2>3. owner'[q] = p /\ \A s \in Ports \ {q} : owner'[s] = owner[s]
    BY DEF Listen, TypeInv, TypeOK
  <2>4. \A i \in 1..n : listeners[p][i] # q
    BY <1>0, <2>2 DEF ProcessOK, PortsOK
  <2>5. Wanted(p) = cli[p].listens[n + 1]
    BY DEF Wanted
  <2>6. PortsOK(p)'
    <3>1. \A i, j \in 1..(n + 1) : listeners'[p][i] = listeners'[p][j] => i = j
      <4>1. \A i, j \in 1..n : listeners[p][i] = listeners[p][j] => i = j
        BY DEF ProcessOK, PortsOK
      <4>2. \A i \in 1..(n + 1) : i \in 1..n \/ i = n + 1
        BY <2>2
      <4>. HIDE DEF n
      <4>. QED
        BY <2>2, <2>4, <4>1, <4>2
    <3>2. \A s \in Ports : owner'[s] = p <=> \E i \in 1..(n + 1) : listeners'[p][i] = s
      <4>1. ASSUME NEW s \in Ports PROVE owner'[s] = p <=> \E i \in 1..(n + 1) : listeners'[p][i] = s
        <5>1. CASE s = q
          BY <2>2, <2>3, <5>1
        <5>2. CASE s # q
          BY <2>2, <2>3, <5>2, SMTT(20) DEF ProcessOK, PortsOK
        <5>. QED
          BY <5>1, <5>2
      <4>. QED
        BY <4>1
    <3>3. ~cli[p].switching => \A i \in 1..(n + 1) : cli[p].listens[i] \in {AnyPort, listeners'[p][i]}
      <4>1. ASSUME ~cli[p].switching, NEW i \in 1..(n + 1)
            PROVE  cli[p].listens[i] \in {AnyPort, listeners'[p][i]}
        <5>1. CASE i = n + 1
          BY <2>2, <2>5, <4>1, <5>1
        <5>2. CASE i \in 1..n
          BY <2>2, <4>1, <5>2 DEF ProcessOK, PortsOK
        <5>. QED
          BY <2>2, <5>1, <5>2
      <4>. QED
        BY <4>1
    <3>4. \A s \in Ports : owner'[s] \in {Nobody, p} \/ s \in taken'[p]
      BY <2>1, <2>3 DEF ProcessOK, PortsOK, Starting
    <3>. QED
      BY <2>1, <2>2, <3>1, <3>2, <3>3, <3>4 DEF PortsOK, Failures, Searching
  <2>7. BoundForCause(p)'
    <3>1. ASSUME NEW i \in 1..(n + 1), cli[p].listens[i] \notin {AnyPort, listeners'[p][i]}
          PROVE  /\ cli[p].switching
                 /\ \/ cli[p].listens[i] \in taken[p]
                    \/ \E j \in 1..(i - 1) : listeners'[p][j] = cli[p].listens[i]
      <4>1. CASE i = n + 1
        BY <2>2, <2>5, <3>1, <4>1 DEF Contended
      <4>2. CASE i \in 1..n
        BY <2>2, <3>1, <4>2 DEF ProcessOK, BoundForCause
      <4>. QED
        BY <2>2, <4>1, <4>2
    <3>. QED
      BY <2>1, <2>2, <3>1 DEF BoundForCause
  <2>. QED
    BY <1>2, <2>1, <2>6, <2>7 DEF ProcessOK, FallbackOK, RefusedForCause
<1>. QED
  BY <1>1, <1>2

LEMMA BindAnyPorts ==
  ASSUME PortsInv, NEW p \in Procs, BindAny(p), NEW r \in Procs,
         pc[p] \in {"bind", "fallback"}, Len(listeners[p]) < Len(cli[p].listens),
         Wanted(p) # AnyPort => cli[p].switching /\ Contended(p)
  PROVE  ProcessOK(r)'
<1>1. CASE Exit(p, "Io")
  BY <1>1, ExitPorts DEF Failures
<1>2. ASSUME NEW q \in Free(Ephemeral), Listen(p, q) PROVE ProcessOK(r)'
  BY <1>2, ListenPorts, PortsAssumption DEF Free
<1>. QED
  BY <1>1, <1>2 DEF BindAny

LEMMA BindPorts ==
  ASSUME PortsInv, NEW p \in Procs, Bind(p), NEW r \in Procs
  PROVE  ProcessOK(r)'
<1>. USE DEF PortsInv
<1>1. pc[p] = "bind" /\ Len(listeners[p]) < Len(cli[p].listens)
  BY DEF Bind
<1>2. CASE Wanted(p) = AnyPort /\ BindAny(p)
  BY <1>1, <1>2, BindAnyPorts
<1>3. CASE Wanted(p) \in Ports /\ Switches(p)
  <2>1. Contended(p)
    BY <1>1, <1>3 DEF Contended, Switches, ProcessOK, PortsOK, Starting
  <2>2. CASE ~cli[p].switching /\ Exit(p, "PortInUse")
    <3>. DEFINE n == Len(listeners[p])
    <3>1. /\ n \in Nat /\ Len(cli[p].listens) \in Nat
          /\ Wanted(p) = cli[p].listens[n + 1]
      BY CliAssumption DEF TypeInv, TypeOK, Wanted
    <3>2. ASSUME NEW j \in 1..n, listeners[p][j] = Wanted(p)
          PROVE  cli[p].listens[j] \in {AnyPort, Wanted(p)}
      BY <2>2, <3>2 DEF ProcessOK, PortsOK
    <3>3. n + 1 \in 1..Len(cli[p].listens) /\ (n + 1) - 1 = n
      BY <1>1, <3>1
    <3>4. \E i \in 1..Len(cli[p].listens) :
            \/ cli[p].listens[i] \in taken[p]
            \/ \E j \in 1..(i - 1) : cli[p].listens[j] \in {AnyPort, cli[p].listens[i]}
      BY <2>1, <3>1, <3>2, <3>3 DEF Contended
    <3>. QED
      BY <2>2, <3>4, ExitPorts DEF Failures
  <2>3. CASE /\ cli[p].switching
             /\ Goto(p, "fallback")
             /\ UNCHANGED <<world, owner, cli, at, config, listeners, conn, history>>
    <3>1. CASE r # p
      BY <2>3, <3>1, FramePorts DEF Goto, history, TypeInv, TypeOK
    <3>2. CASE r = p
      <4>1. pc'[p] = "fallback"
        BY <2>3 DEF Goto, TypeInv, TypeOK
      <4>2. PortsOK(p)'
        BY <1>1, <2>3, <4>1 DEF history, ProcessOK, PortsOK, Searching, Failures, Starting
      <4>3. FallbackOK(p)'
        BY <1>1, <2>1, <2>3, <4>1 DEF history, FallbackOK, Contended, Wanted
      <4>4. BoundForCause(p)' /\ RefusedForCause(p)'
        BY <2>3, <4>1 DEF history, ProcessOK, BoundForCause, RefusedForCause
      <4>. QED
        BY <3>2, <4>2, <4>3, <4>4 DEF ProcessOK
    <3>. QED
      BY <3>1, <3>2
  <2>. QED
    BY <1>3, <2>2, <2>3, PortsAssumption DEF Bind
<1>4. CASE Wanted(p) \in Ports /\ ~Switches(p) /\ Wanted(p) \in Privileged /\ Exit(p, "Io")
  BY <1>4, ExitPorts DEF Failures
<1>5. CASE Wanted(p) \in Ports /\ ~Switches(p) /\ Wanted(p) \notin Privileged /\ Listen(p, Wanted(p))
  BY <1>1, <1>5, ListenPorts DEF Switches
<1>. QED
  BY <1>2, <1>3, <1>4, <1>5 DEF Bind

LEMMA StepPorts ==
  ASSUME PortsInv, NEW p \in Procs, Step(p), NEW r \in Procs
  PROVE  ProcessOK(r)'
<1>. USE DEF PortsInv
<1>1. CASE Resolve(p)
  BY <1>1, ExitPorts, GotoPorts DEF Resolve, Failures, Searching
<1>2. ASSUME Continue(p), pc[p] \in Searching PROVE ProcessOK(r)'
  BY <1>2, GotoPorts DEF Continue, Searching
<1>3. CASE Lookup(p)
  BY <1>2, <1>3, ExitPorts, GotoPorts DEF Lookup, Failures, Searching
<1>4. CASE Read(p)
  BY <1>2, <1>4, ExitPorts, GotoPorts DEF Read, Failures, Searching
<1>5. CASE Canonicalize(p)
  BY <1>5, ExitPorts, GotoPorts DEF Canonicalize, Failures, Searching
<1>6. CASE Bind(p)
  BY <1>6, BindPorts
<1>7. CASE Fallback(p)
  BY <1>7, BindAnyPorts DEF Fallback, ProcessOK, FallbackOK
<1>8. CASE Serve(p)
  <2>1. CASE r # p
    BY <1>8, <2>1, FramePorts DEF Serve, Goto, history, TypeInv, TypeOK
  <2>2. CASE r = p
    <3>1. pc'[p] = "serving"
      BY <1>8 DEF Serve, Goto, TypeInv, TypeOK
    <3>2. PortsOK(p)'
      BY <1>8, <3>1 DEF Serve, AllBound, ProcessOK, PortsOK, Searching, Failures, Starting, history
    <3>3. FallbackOK(p)' /\ BoundForCause(p)' /\ RefusedForCause(p)'
      BY <1>8, <3>1 DEF Serve, history, ProcessOK, FallbackOK, BoundForCause, RefusedForCause
    <3>. QED
      BY <2>2, <3>2, <3>3 DEF ProcessOK
  <2>. QED
    BY <2>1, <2>2
<1>. QED
  BY <1>1, <1>3, <1>4, <1>5, <1>6, <1>7, <1>8 DEF Step

LEMMA NextPorts == PortsInv /\ [Next]_vars => PortsInv'
<1>. SUFFICES ASSUME PortsInv, [Next]_vars PROVE PortsInv'
  OBVIOUS
<1>. USE DEF PortsInv
<1>1. TypeInv'
  BY NextType DEF ProcessOK, FallbackOK
<1>2. ASSUME NEW r \in Procs PROVE ProcessOK(r)'
  <2>1. CASE UNCHANGED vars
    BY <2>1, FramePorts DEF vars, world, history
  <2>2. ASSUME NEW p \in Procs, Launch(p) PROVE ProcessOK(r)'
    <3>1. CASE r # p
      BY <2>2, <3>1, FramePorts DEF Launch, Goto, TypeInv, TypeOK
    <3>2. CASE r = p
      <4>1. pc'[p] = "listens" /\ listeners'[p] = <<>>
        BY <2>2 DEF Launch, Goto, TypeInv, TypeOK, ProcessOK, PortsOK
      <4>2. PortsOK(p)'
        BY <2>2, <4>1 DEF Launch, TypeInv, TypeOK, ProcessOK, PortsOK, Failures
      <4>. QED
        BY <3>2, <4>1, <4>2 DEF ProcessOK, FallbackOK, BoundForCause, RefusedForCause
    <3>. QED
      BY <3>1, <3>2
  <2>3. ASSUME NEW p \in Procs, Step(p) PROVE ProcessOK(r)'
    BY <2>3, StepPorts
  <2>4. ASSUME NEW p \in Procs, Kill(p) PROVE ProcessOK(r)'
    BY <2>4, ExitPorts DEF Kill, Failures
  <2>5. ASSUME NEW p \in Procs, NEW c \in Conns, Accept(p, c) PROVE ProcessOK(r)'
    BY <2>5, FramePorts DEF Accept, history
  <2>6. ASSUME NEW c \in Conns, Connect(c) PROVE ProcessOK(r)'
    BY <2>6, FramePorts DEF Connect, history
  <2>7. ASSUME NEW n \in Editable, Write(n) PROVE ProcessOK(r)'
    BY <2>7, FramePorts DEF Write
  <2>8. CASE MovePublic
    BY <2>8, FramePorts DEF MovePublic, history
  <2>9. ASSUME NEW q \in Ports, Occupy(q) PROVE ProcessOK(r)'
    <3>1. \A s \in Ports : (s # q => owner'[s] = owner[s]) /\ (owner'[s] = r <=> owner[s] = r)
      BY <2>9, PortsAssumption DEF Occupy, TypeInv, TypeOK
    <3>2. taken[r] \subseteq taken'[r] /\ (pc[r] \in Starting => q \in taken'[r])
      BY <2>9 DEF Occupy, TypeInv, TypeOK
    <3>. QED
      BY <2>9, <3>1, <3>2, FramePorts DEF Occupy
  <2>10. ASSUME NEW q \in Ports, Vacate(q) PROVE ProcessOK(r)'
    <3>1. \A s \in Ports : owner'[s] \in {Nobody, owner[s]} /\ (owner'[s] = r <=> owner[s] = r)
      BY <2>10, PortsAssumption DEF Vacate, TypeInv, TypeOK
    <3>. QED
      BY <2>10, <3>1, FramePorts DEF Vacate, history
  <2>. QED
    BY <2>1, <2>2, <2>3, <2>4, <2>5, <2>6, <2>7, <2>8, <2>9, <2>10 DEF Next
<1>. QED
  BY <1>1, <1>2
-----------------------------------------------------------------------------
LEMMA SearchInit == Init => SearchInv
<1>. SUFFICES ASSUME Init PROVE SearchInv
  OBVIOUS
<1>1. TypeInv
  BY TypeInit
<1>2. ASSUME NEW p \in Procs PROVE SearchOK(p)
  BY DEF Init, SearchOK
<1>. QED
  BY <1>1, <1>2 DEF SearchInv

(* What others do leaves a search alone, but for the files they write. *)
LEMMA FrameSearch ==
  ASSUME NEW r \in Procs, SearchOK(r), pc'[r] = pc[r], at'[r] = at[r], cli'[r] = cli[r],
         config'[r] = config[r], lacked[r] \subseteq lacked'[r],
         pc[r] \in {"listens", "lookup", "read"} =>
           files' = files \/ Lacks(files') \subseteq lacked'[r]
  PROVE  SearchOK(r)'
<1>1. Chain(r)' = Chain(r)
  BY DEF Chain
<1>. QED
  BY <1>1 DEF SearchOK, Lacks

LEMMA ExitSearch ==
  ASSUME SearchInv, NEW p \in Procs, NEW why \in Failures, Exit(p, why), NEW r \in Procs
  PROVE  SearchOK(r)'
<1>1. CASE r # p
  BY <1>1, FrameSearch DEF Exit, world, SearchInv, TypeInv, TypeOK
<1>2. CASE r = p
  <2>1. pc'[p] = why /\ at'[p] = 1 /\ config'[p] = NoConfig
    BY DEF Exit, SearchInv, TypeInv, TypeOK
  <2>. QED
    BY <1>2, <2>1 DEF SearchOK, Failures
<1>. QED
  BY <1>1, <1>2

(* The file in question has no configuration, and another is allowed. *)
LEMMA ContinueSearch ==
  ASSUME SearchInv, NEW p \in Procs, Continue(p), NEW r \in Procs,
         pc[p] \in {"lookup", "read"}, Chain(p)[at[p]] \in lacked[p], ~cli[p].explicit
  PROVE  SearchOK(r)'
<1>. USE DEF SearchInv
<1>1. CASE r # p
  <2>1. pc'[r] = pc[r] /\ at'[r] = at[r]
    BY <1>1 DEF Continue, Goto, TypeInv, TypeOK
  <2>. QED
    BY <1>1, <2>1, FrameSearch DEF Continue, world, history
<1>2. CASE r = p
  <2>1. Chain(p) = <<"serve.json", "now.json", "package.json">> /\ Chain(p)' = Chain(p)
    BY DEF Chain, Continue
  <2>2. at[p] \in 1..3
    BY <2>1 DEF TypeInv, TypeOK
  <2>3. \A i \in 1..at[p] : Chain(p)[i] \in lacked[p]
    BY <2>2 DEF SearchOK
  <2>4. config[p] = NoConfig /\ Lacks(files) \subseteq lacked[p]
    BY DEF SearchOK
  <2>5. CASE at[p] < 3
    <3>1. pc'[p] = "lookup" /\ at'[p] = at[p] + 1 /\ config'[p] = NoConfig
      BY <2>1, <2>4, <2>5 DEF Continue, Goto, TypeInv, TypeOK
    <3>2. \A i \in 1..(at'[p] - 1) : Chain(p)'[i] \in lacked'[p]
      BY <2>1, <2>2, <2>3, <3>1 DEF Continue, history
    <3>3. Lacks(files)' \subseteq lacked'[p]
      BY <2>4 DEF Continue, history, world, Lacks
    <3>. QED
      BY <1>2, <3>1, <3>2, <3>3 DEF SearchOK, Failures
  <2>6. CASE at[p] = 3
    <3>1. pc'[p] = "root" /\ config'[p] = NoConfig /\ cli' = cli /\ lacked' = lacked
      BY <2>1, <2>4, <2>6 DEF Continue, Goto, TypeInv, TypeOK, history
    <3>2. {"serve.json", "now.json", "package.json"} \subseteq lacked[p]
      BY <2>1, <2>3, <2>6
    <3>. QED
      BY <1>2, <3>1, <3>2 DEF SearchOK, Failures, Preceding, NoConfig
  <2>. QED
    BY <2>2, <2>5, <2>6
<1>. QED
  BY <1>1, <1>2

LEMMA StepSearch ==
  ASSUME SearchInv, NEW p \in Procs, Step(p), NEW r \in Procs
  PROVE  SearchOK(r)'
<1>. USE DEF SearchInv
<1>. DEFINE same == UNCHANGED <<world, cli, at, config, conn, lacked>>
<1>0. SearchOK(p)
  OBVIOUS
(* Between two stages of which the second promises nothing more. *)
<1>1. ASSUME same, NEW stage, Goto(p, stage),
             \/ pc[p] = "listens" /\ stage = "lookup"
             \/ pc[p] = "lookup" /\ stage = "read"
             \/ pc[p] \in {"root", "bind", "fallback"} /\ stage \in {"bind", "fallback", "serving"}
      PROVE  SearchOK(r)'
  <2>1. CASE r # p
    BY <1>1, <2>1, FrameSearch DEF Goto, TypeInv, TypeOK, world
  <2>2. CASE r = p
    <3>1. pc'[p] = stage /\ at[p] \in Nat
      BY <1>1 DEF Goto, TypeInv, TypeOK
    <3>2. Chain(p)' = Chain(p) /\ Lacks(files)' = Lacks(files)
      BY <1>1 DEF Chain, Lacks, world
    <3>3. CASE pc[p] \in {"listens", "lookup"}
      BY <1>1, <2>2, <3>1, <3>2, <3>3 DEF SearchOK, Failures
    <3>4. CASE pc[p] \in {"root", "bind", "fallback"}
      BY <1>1, <2>2, <3>1, <3>4 DEF SearchOK, Failures
    <3>. QED
      BY <1>1, <3>3, <3>4
  <2>. QED
    BY <2>1, <2>2
<1>. DEFINE name == Chain(p)[at[p]]
<1>2. name \in Names
  BY ChainType DEF TypeInv, TypeOK
<1>3. CASE Resolve(p)
  BY <1>1, <1>3, ExitSearch DEF Resolve, Failures, history
<1>4. CASE Lookup(p)
  <2>1. ASSUME files[name] = "absent" PROVE name \in lacked[p]
    BY <1>0, <1>2, <1>4, <2>1 DEF Lookup, SearchOK, Lacks, Section
  <2>. QED
    BY <1>1, <1>4, <2>1, ExitSearch, ContinueSearch DEF Lookup, Failures, history
<1>5. CASE Read(p)
  <2>. DEFINE holds == Section(name, files[name])
  <2>0. pc[p] = "read" /\ config[p] = NoConfig
    BY <1>5 DEF Read, SearchOK
  <2>1. CASE Exit(p, "Read") \/ Exit(p, "Config")
    BY <2>1, ExitSearch DEF Failures
  <2>2. CASE holds = "other" /\ Continue(p)
    <3>1. name \in lacked[p]
      BY <1>0, <1>2, <2>0, <2>2 DEF SearchOK, Lacks
    <3>2. ~cli[p].explicit
      BY <2>2 DEF Section, Chain, TypeInv, TypeOK
    <3>. QED
      BY <2>0, <2>2, <3>1, <3>2, ContinueSearch
  <2>3. CASE /\ config' = [config EXCEPT ![p] = [from |-> name, holds |-> holds]]
             /\ Goto(p, "root")
             /\ UNCHANGED <<world, owner, cli, at, listeners, conn, history>>
    <3>1. CASE r # p
      <4>1. pc'[r] = pc[r] /\ config'[r] = config[r]
        BY <2>3, <3>1 DEF Goto, TypeInv, TypeOK
      <4>. QED
        BY <2>3, <3>1, <4>1, FrameSearch DEF world, history
    <3>2. CASE r = p
      <4>1. pc'[p] = "root" /\ config'[p].from = name
        BY <2>3 DEF Goto, TypeInv, TypeOK
      <4>2. cli[p].explicit <=> name = "explicit"
        BY DEF Chain, TypeInv, TypeOK
      <4>3. Preceding(name) \subseteq lacked[p]
        <5>1. CASE cli[p].explicit
          BY <4>2, <5>1 DEF Preceding
        <5>2. CASE ~cli[p].explicit
          <6>1. Chain(p) = <<"serve.json", "now.json", "package.json">> /\ at[p] \in 1..3
            BY <5>2 DEF Chain, TypeInv, TypeOK
          <6>2. \A i \in 1..(at[p] - 1) : Chain(p)[i] \in lacked[p]
            BY <2>0 DEF SearchOK
          <6>3. CASE at[p] = 1
            BY <6>1, <6>3 DEF Preceding
          <6>4. CASE at[p] = 2
            BY <6>1, <6>2, <6>4 DEF Preceding
          <6>5. CASE at[p] = 3
            BY <6>1, <6>2, <6>5 DEF Preceding
          <6>. QED
            BY <6>1, <6>3, <6>4, <6>5
        <5>. QED
          BY <5>1, <5>2
      <4>. QED
        BY <2>3, <3>2, <4>1, <4>2, <4>3 DEF SearchOK, Failures, history
    <3>. QED
      BY <3>1, <3>2
  <2>. QED
    BY <1>5, <2>1, <2>2, <2>3 DEF Read
<1>6. CASE Canonicalize(p)
  BY <1>1, <1>6, ExitSearch DEF Canonicalize, Failures, history
<1>7. ASSUME BindAny(p), pc[p] \in {"bind", "fallback"} PROVE SearchOK(r)'
  BY <1>1, <1>7, ExitSearch DEF BindAny, Listen, Failures
<1>8. CASE Bind(p)
  BY <1>1, <1>7, <1>8, ExitSearch DEF Bind, Listen, Failures, history
<1>9. CASE Fallback(p)
  BY <1>7, <1>9 DEF Fallback
<1>10. CASE Serve(p)
  BY <1>1, <1>10 DEF Serve, history
<1>. QED
  BY <1>3, <1>4, <1>5, <1>6, <1>8, <1>9, <1>10 DEF Step

LEMMA NextSearch == PortsInv /\ SearchInv /\ [Next]_vars => SearchInv'
<1>. SUFFICES ASSUME PortsInv, SearchInv, [Next]_vars PROVE SearchInv'
  OBVIOUS
<1>. USE DEF SearchInv
<1>1. TypeInv'
  BY NextType DEF PortsInv, ProcessOK, FallbackOK
<1>2. ASSUME NEW r \in Procs PROVE SearchOK(r)'
  <2>1. CASE UNCHANGED vars
    BY <2>1, FrameSearch DEF vars, world, history
  <2>2. ASSUME NEW p \in Procs, Launch(p) PROVE SearchOK(r)'
    <3>1. CASE r # p
      BY <2>2, <3>1, FrameSearch DEF Launch, Goto, TypeInv, TypeOK, world
    <3>2. CASE r = p
      <4>1. /\ pc'[p] = "listens" /\ lacked'[p] = Lacks(files)
            /\ at'[p] = 1 /\ config'[p] = NoConfig /\ files' = files
        BY <2>2 DEF Launch, Goto, TypeInv, TypeOK, SearchOK, world
      <4>. QED
        BY <3>2, <4>1 DEF SearchOK, Failures, Lacks
    <3>. QED
      BY <3>1, <3>2
  <2>3. ASSUME NEW p \in Procs, Step(p) PROVE SearchOK(r)'
    BY <2>3, StepSearch
  <2>4. ASSUME NEW p \in Procs, Kill(p) PROVE SearchOK(r)'
    BY <2>4, ExitSearch DEF Kill, Failures
  <2>5. ASSUME NEW p \in Procs, NEW c \in Conns, Accept(p, c) PROVE SearchOK(r)'
    BY <2>5, FrameSearch DEF Accept, world, history
  <2>6. ASSUME NEW c \in Conns, Connect(c) PROVE SearchOK(r)'
    BY <2>6, FrameSearch DEF Connect, world, history
  <2>7. ASSUME NEW n \in Editable, Write(n) PROVE SearchOK(r)'
    <3>1. /\ lacked[r] \subseteq lacked'[r]
          /\ pc[r] \in {"listens", "lookup", "read"} => Lacks(files') \subseteq lacked'[r]
      BY <2>7 DEF Write
    <3>. QED
      BY <2>7, <3>1, FrameSearch DEF Write
  <2>8. CASE MovePublic
    BY <2>8, FrameSearch DEF MovePublic, history
  <2>9. ASSUME NEW q \in Ports, Occupy(q) \/ Vacate(q) PROVE SearchOK(r)'
    <3>1. lacked' = lacked /\ files' = files /\ UNCHANGED <<pc, at, cli, config>>
      BY <2>9 DEF Occupy, Vacate, history
    <3>. QED
      BY <3>1, FrameSearch
  <2>. QED
    BY <2>1, <2>2, <2>3, <2>4, <2>5, <2>6, <2>7, <2>8, <2>9 DEF Next
<1>. QED
  BY <1>1, <1>2
-----------------------------------------------------------------------------
(* The launch of any number of processes, killed and started again at any  *)
(* time, keeps all variables in their types (main and serve).              *)
THEOREM TypeCorrect == Spec => []TypeOK
<1>1. PortsInv => TypeOK
  BY DEF PortsInv, TypeInv
<1>. QED
  BY <1>1, PortsInit, NextPorts, PTL DEF Spec

(* A start is all or nothing, whatever the command lines, the ports and    *)
(* the other programs: see AllOrNothing, about bind_with_fallback and      *)
(* serve.                                                                  *)
THEOREM StartsWhole == Spec => []AllOrNothing
<1>1. PortsInv => AllOrNothing
  <2>. SUFFICES ASSUME PortsInv PROVE AllOrNothing
    OBVIOUS
  <2>1. ASSUME NEW p \in Procs
        PROVE  /\ DOMAIN listeners[p] = 1..Len(listeners[p])
               /\ listeners[p] \in Seq(Ports) /\ PortsOK(p)
    BY DEF PortsInv, TypeInv, ProcessOK
  <2>2. ASSUME NEW p \in Procs, pc[p] = "serving"
        PROVE  /\ IsInjective(listeners[p])
               /\ ToSet(listeners[p]) = {q \in Ports : owner[q] = p}
    <3>1. IsInjective(listeners[p])
      BY <2>1 DEF PortsOK, IsInjective
    <3>2. ToSet(listeners[p]) \subseteq Ports
      BY <2>1 DEF ToSet
    <3>. QED
      BY <2>1, <3>1, <3>2 DEF PortsOK, ToSet
  <2>3. ASSUME NEW p \in Procs, pc[p] \in Failures PROVE \A q \in Ports : owner[q] # p
    BY <2>1, <2>3 DEF PortsOK
  <2>. QED
    BY <2>1, <2>2, <2>3 DEF AllOrNothing, PortsOK
<1>. QED
  BY <1>1, PortsInit, NextPorts, PTL DEF Spec

(* A port is switched, or a start refused, only for a reason: see          *)
(* SwitchedForCause, about bind_with_fallback.                             *)
THEOREM SwitchesForCause == Spec => []SwitchedForCause
<1>1. PortsInv => SwitchedForCause
  <2>. SUFFICES ASSUME PortsInv, NEW p \in Procs
                PROVE  /\ \A i \in DOMAIN listeners[p] :
                            cli[p].listens[i] \notin {AnyPort, listeners[p][i]} =>
                              /\ cli[p].switching
                              /\ \/ cli[p].listens[i] \in taken[p]
                                 \/ \E j \in 1..(i - 1) : listeners[p][j] = cli[p].listens[i]
                       /\ pc[p] = "PortInUse" =>
                            /\ ~cli[p].switching
                            /\ \E i \in DOMAIN cli[p].listens :
                                 \/ cli[p].listens[i] \in taken[p]
                                 \/ \E j \in 1..(i - 1) :
                                      cli[p].listens[j] \in {AnyPort, cli[p].listens[i]}
    BY DEF SwitchedForCause
  <2>1. DOMAIN listeners[p] = 1..Len(listeners[p])
    BY DEF PortsInv, TypeInv
  <2>2. cli[p].listens \in Seq(Ports \union {AnyPort, BadHost})
    BY CliAssumption DEF PortsInv, TypeInv, TypeOK
  <2>3. DOMAIN cli[p].listens = 1..Len(cli[p].listens)
    BY <2>2
  <2>. QED
    BY <2>1, <2>3 DEF PortsInv, ProcessOK, BoundForCause, RefusedForCause
<1>. QED
  BY <1>1, PortsInit, NextPorts, PTL DEF Spec

(* The configuration is that of the first file of the chain that has one,  *)
(* at some time of the search: see ConfigPriority, about load_serve_json.  *)
THEOREM PriorityKept == Spec => []ConfigPriority
<1>1. SearchInv => ConfigPriority
  BY DEF SearchInv, SearchOK, ConfigPriority
<1>2. Init => PortsInv /\ SearchInv
  BY PortsInit, SearchInit
<1>3. PortsInv /\ SearchInv /\ [Next]_vars => (PortsInv /\ SearchInv)'
  BY NextPorts, NextSearch
<1>. QED
  BY <1>1, <1>2, <1>3, PTL DEF Spec
=============================================================================
