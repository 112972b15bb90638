---------------------------- MODULE DeviceProofs ----------------------------
(***************************************************************************)
(* Proofs about the life of the TUN interface (Tun) and about the          *)
(* goroutines that use it (Device), for any number of runs, packets and    *)
(* ticks.                                                                  *)
(***************************************************************************)
EXTENDS Device, TLAPS, FiniteSetTheorems, SequenceTheorems

-----------------------------------------------------------------------------
(* The interface                                                           *)

LinuxSteps == {"open", "TUNSETIFF", "setmtu", "addr", "up"}
DarwinSteps == {"socket", "CTLIOCGINFO", "connect", "ifname", "nonblock", "setmtu",
                "ifconfig", "route"}
WindowsSteps == {"OpenAdapter", "Delete", "CreateAdapter", "Name", "StartSession", "netsh"}

StepType ==
    /\ os \in {"linux", "darwin", "windows"}
    /\ \/ step \in {"down", "serve", "close", "exit"}
       \/ os = "linux" /\ step \in LinuxSteps
       \/ os = "darwin" /\ step \in DarwinSteps
       \/ os = "windows" /\ step \in WindowsSteps \cup {"End", "remove"}

IfacesType ==
    /\ ifaces = [i \in DOMAIN ifaces |-> ifaces[i]]
    /\ \A i \in DOMAIN ifaces : ifaces[i] \in Interface
    /\ run \in Nat
    /\ step # "down" => run # 0

\* The steps at which this run has its interface, and has it configured.
Made == {"Name", "StartSession", "netsh", "setmtu", "addr", "up", "ifname", "nonblock",
         "ifconfig", "route", "serve", "close", "End", "remove"}
Configured == {"up", "route", "serve"}

DevInv ==
    /\ step \in Made => dev = run /\ run \in DOMAIN ifaces
    /\ step \in Configured => ifaces[run].set = run
    /\ step = "Delete" => dev \in DOMAIN ifaces /\ dev # Foreign
    /\ os = "windows" /\ step \in {"netsh", "serve", "close", "End"} => session = run

\* What keeps adapters from piling up: without a foreign interface there is at
\* most one, it has the name OpenAdapter looks for, and there is none when the
\* next one is made.
Single ==
    Foreign \notin DOMAIN ifaces =>
        /\ \A i, j \in DOMAIN ifaces : i = j
        /\ os = "windows" => \A i \in DOMAIN ifaces : ifaces[i].name = "zetamesh"
        /\ step = "CreateAdapter" => DOMAIN ifaces = {}

Clean == os # "windows" /\ step \notin Made => DOMAIN ifaces \subseteq {Foreign}

TunInv == StepType /\ IfacesType /\ DevInv /\ Single /\ Clean

Kept ==
    Foreign \in DOMAIN ifaces =>
        Foreign \in DOMAIN ifaces' /\ ifaces'[Foreign] = ifaces[Foreign]

\* The order of NewTUN's steps, as facts about strings.
LEMMA Orders ==
    /\ os = "linux" =>
         /\ DOMAIN NewTUN = LinuxSteps
         /\ NewTUN["open"] = "TUNSETIFF" /\ NewTUN["TUNSETIFF"] = "setmtu"
         /\ NewTUN["setmtu"] = "addr" /\ NewTUN["addr"] = "up" /\ NewTUN["up"] = "serve"
         /\ First = "open"
    /\ os = "darwin" =>
         /\ DOMAIN NewTUN = DarwinSteps
         /\ NewTUN["socket"] = "CTLIOCGINFO" /\ NewTUN["CTLIOCGINFO"] = "connect"
         /\ NewTUN["connect"] = "ifname" /\ NewTUN["ifname"] = "nonblock"
         /\ NewTUN["nonblock"] = "setmtu" /\ NewTUN["setmtu"] = "ifconfig"
         /\ NewTUN["ifconfig"] = "route" /\ NewTUN["route"] = "serve"
         /\ First = "socket"
    /\ os = "windows" =>
         /\ DOMAIN NewTUN = WindowsSteps
         /\ NewTUN["OpenAdapter"] = "Delete" /\ NewTUN["Delete"] = "CreateAdapter"
         /\ NewTUN["CreateAdapter"] = "Name" /\ NewTUN["Name"] = "StartSession"
         /\ NewTUN["StartSession"] = "netsh" /\ NewTUN["netsh"] = "serve"
         /\ First = "OpenAdapter"
<1>1. ASSUME os = "linux" PROVE NewTUN = Linux /\ First = "open"
  BY <1>1 DEF NewTUN, First
<1>2. ASSUME os = "darwin" PROVE NewTUN = Darwin /\ First = "socket"
  BY <1>2 DEF NewTUN, First
<1>3. ASSUME os = "windows" PROVE NewTUN = Windows /\ First = "OpenAdapter"
  BY <1>3 DEF NewTUN, First
<1> QED
  BY <1>1, <1>2, <1>3 DEF Linux, Darwin, Windows, LinuxSteps, DarwinSteps, WindowsSteps

LEMMA TunInitial == TunInit => TunInv
<1> SUFFICES ASSUME TunInit PROVE TunInv
  OBVIOUS
<1>1. PICK I \in SUBSET {Foreign} :
        ifaces = [i \in I |-> [name |-> "zetamesh", set |-> 0]]
  BY DEF TunInit
<1>2. DOMAIN ifaces \subseteq {Foreign} /\ IfacesType
  BY <1>1 DEF IfacesType, Interface, TunInit, Down
<1>3. StepType
  BY TunAssumption DEF TunInit, StepType, Down
<1> QED
  BY <1>2, <1>3 DEF TunInit, TunInv, DevInv, Single, Clean, Made, Configured, Down

\* The end of a process leaves foreign interfaces and, on Windows, adapters.
LEMMA ExitKeeps == TunInv /\ Exit => TunInv' /\ Kept
<1> SUFFICES ASSUME TunInv, Exit PROVE TunInv' /\ Kept
  OBVIOUS
<1> USE DEF TunInv, Exit, Down
<1>1. CASE os = "windows"
  <2>1. ifaces' = ifaces /\ os' = os /\ run' = run /\ step' = "down"
    BY <1>1 DEF Ended
  <2> QED
    BY <2>1, <1>1 DEF StepType, IfacesType, DevInv, Single, Clean, Kept, Made, Configured
<1>2. CASE os # "windows"
  <2>1. /\ ifaces' = [j \in DOMAIN ifaces \cap {Foreign} |-> ifaces[j]]
        /\ os' = os /\ run' = run /\ step' = "down"
    BY <1>2 DEF Ended
  <2>2. IfacesType' /\ DOMAIN ifaces' \subseteq {Foreign} /\ Kept
    BY <2>1 DEF IfacesType, Kept
  <2> QED
    BY <2>1, <2>2, <1>2 DEF StepType, DevInv, Single, Clean, Made, Configured
<1> QED
  BY <1>1, <1>2

\* Taking away an interface of this program.
LEMMA RemoveKeeps ==
    ASSUME TunInv, os' = os, run' = run, dev # Foreign,
           ifaces' \in {Remove(dev), ifaces}
    PROVE  /\ Kept
           /\ ifaces' = [i \in DOMAIN ifaces' |-> ifaces'[i]]
           /\ DOMAIN ifaces' \subseteq DOMAIN ifaces
           /\ \A i \in DOMAIN ifaces' : ifaces'[i] = ifaces[i]
           /\ ifaces' # ifaces => DOMAIN ifaces' = DOMAIN ifaces \ {dev}
<1>1. CASE ifaces' = ifaces
  BY <1>1 DEF Kept, TunInv, IfacesType
<1>2. CASE ifaces' = Remove(dev)
  BY <1>2 DEF Kept, Remove
<1> QED
  BY <1>1, <1>2

\* Making an interface of this run.
LEMMA MakeKeeps ==
    ASSUME TunInv, os' = os, run' = run, run # 0, ifaces' = Make
    PROVE  /\ Kept
           /\ ifaces' = [i \in DOMAIN ifaces' |-> ifaces'[i]]
           /\ \A i \in DOMAIN ifaces' : ifaces'[i] \in Interface
           /\ DOMAIN ifaces' = DOMAIN ifaces \cup {run}
           /\ os = "windows" /\ DOMAIN ifaces = {} => ifaces'[run].name = "zetamesh"
<1>1. DOMAIN ifaces' = DOMAIN ifaces \cup {run} /\ Kept
  BY DEF Make, Kept, Foreign
<1>2. \A i \in DOMAIN ifaces' : ifaces'[i] \in Interface
  BY DEF Make, Interface, TunInv, IfacesType
<1>3. os = "windows" /\ DOMAIN ifaces = {} => ifaces'[run].name = "zetamesh"
  BY DEF Make, Taken
<1> QED
  BY <1>1, <1>2, <1>3 DEF Make

\* Giving the interface of this run its address.
LEMMA ConfigureKeeps ==
    ASSUME TunInv, os' = os, run' = run, run # 0, dev = run, run \in DOMAIN ifaces,
           ifaces' = Configure(dev)
    PROVE  /\ Kept
           /\ ifaces' = [i \in DOMAIN ifaces' |-> ifaces'[i]]
           /\ \A i \in DOMAIN ifaces' : ifaces'[i] \in Interface /\ ifaces'[i].name = ifaces[i].name
           /\ DOMAIN ifaces' = DOMAIN ifaces
           /\ ifaces'[run].set = run
<1>1. ifaces' = [ifaces EXCEPT ![run] = [ifaces[run] EXCEPT !.set = run]]
  BY DEF Configure
<1>2. DOMAIN ifaces' = DOMAIN ifaces /\ Kept
  BY <1>1 DEF Kept, Foreign
<1>3. ifaces[run] \in Interface /\ run \in Nat
  BY DEF TunInv, IfacesType
<1>4. ifaces'[run] = [ifaces[run] EXCEPT !.set = run]
  BY <1>1
<1>5. ifaces'[run] \in Interface /\ ifaces'[run].name = ifaces[run].name /\ ifaces'[run].set = run
  BY <1>3, <1>4 DEF Interface
<1>6. \A i \in DOMAIN ifaces' \ {run} : ifaces'[i] = ifaces[i]
  BY <1>1
<1> QED
  BY <1>1, <1>2, <1>5, <1>6 DEF TunInv, IfacesType

LEMMA TunStep == TunInv /\ [TunNext]_tunVars => TunInv' /\ Kept
<1> SUFFICES ASSUME TunInv, [TunNext]_tunVars PROVE TunInv' /\ Kept
  OBVIOUS
<1> USE DEF Down
<1>1. CASE Start
  BY <1>1, Orders DEF Start, TunInv, StepType, IfacesType, DevInv, Single, Clean, Kept, Made,
     Configured, LinuxSteps, DarwinSteps, WindowsSteps
<1>2. CASE Fail
  BY <1>2, ExitKeeps DEF Fail
<1>3. CASE FailSession
  <2>1. dev = run /\ run # 0 /\ os = "windows"
    BY <1>3 DEF FailSession, TunInv, DevInv, IfacesType, StepType, Made, LinuxSteps, DarwinSteps
  <2>2. dev # Foreign
    BY <2>1 DEF Foreign
  <2>3. os' = os /\ run' = run /\ step' = "down" /\ ifaces' \in {Remove(dev), ifaces}
    BY <1>3 DEF FailSession
  <2> QED
    BY <2>1, <2>2, <2>3, RemoveKeeps
       DEF TunInv, StepType, IfacesType, DevInv, Single, Clean, Made, Configured
<1>4. CASE UnixStep
  <2>1. os # "windows" /\ os' = os /\ run' = run /\ run # 0 /\ step' = NewTUN[step]
        /\ step \in DOMAIN NewTUN /\ session' = session
    BY <1>4, Orders DEF UnixStep, TunInv, IfacesType, LinuxSteps, DarwinSteps, StepType
  <2>2. StepType'
    BY <2>1, Orders DEF StepType, TunInv, LinuxSteps, DarwinSteps, WindowsSteps
  <2>3. CASE step \in {"TUNSETIFF", "connect"}
    <3>1. ifaces' = Make /\ dev' = run /\ step' \in {"setmtu", "ifname"}
      BY <1>4, <2>1, <2>3, Orders DEF UnixStep, StepType, TunInv, LinuxSteps, DarwinSteps
    <3>2. DOMAIN ifaces \subseteq {Foreign}
      BY <2>1, <2>3 DEF TunInv, Clean, Made
    <3> QED
      BY <2>1, <2>2, <3>1, <3>2, MakeKeeps
         DEF TunInv, IfacesType, DevInv, Single, Clean, Made, Configured
  <2>4. CASE step \in {"addr", "ifconfig"}
    <3>1. ifaces' = Configure(dev) /\ dev' = dev /\ step' \in {"up", "route"}
      BY <1>4, <2>1, <2>4, Orders DEF UnixStep, StepType, TunInv, LinuxSteps, DarwinSteps
    <3>2. dev = run /\ run \in DOMAIN ifaces
      BY <2>4 DEF TunInv, DevInv, Made
    <3> QED
      BY <2>1, <2>2, <3>1, <3>2, ConfigureKeeps
         DEF TunInv, IfacesType, DevInv, Single, Clean, Made, Configured
  <2>5. CASE step \notin {"TUNSETIFF", "connect", "addr", "ifconfig"}
    <3>1. ifaces' = ifaces /\ dev' = dev
      BY <1>4, <2>5 DEF UnixStep
    <3>2. /\ step' \in Made <=> step \in Made
          /\ step' \in Configured => step \in Configured
          /\ step' # "down" /\ step # "down"
          /\ step' \notin {"Delete", "CreateAdapter"}
      BY <2>1, <2>5, Orders DEF StepType, TunInv, LinuxSteps, DarwinSteps, Made, Configured
    <3> QED
      BY <2>1, <2>2, <3>1, <3>2 DEF TunInv, IfacesType, DevInv, Single, Clean, Kept
  <2> QED
    BY <2>3, <2>4, <2>5
<1>5. CASE OpenAdapter
  <2>1. os = "windows" /\ ifaces' = ifaces /\ os' = os /\ run' = run /\ session' = session
        /\ step = "OpenAdapter"
    BY <1>5 DEF OpenAdapter, TunInv, StepType, LinuxSteps, DarwinSteps
  <2>2. CASE \E i \in Ours : ifaces[i].name = "zetamesh" /\ dev' = i /\ step' = "Delete"
    BY <2>1, <2>2 DEF TunInv, StepType, IfacesType, DevInv, Single, Clean, Kept, Made,
       Configured, WindowsSteps, Ours
  <2>3. CASE /\ \A i \in Ours : ifaces[i].name # "zetamesh"
             /\ step' = "CreateAdapter" /\ UNCHANGED dev
    BY <2>1, <2>3 DEF TunInv, StepType, IfacesType, DevInv, Single, Clean, Kept, Made,
       Configured, WindowsSteps, Ours
  <2> QED
    BY <1>5, <2>2, <2>3 DEF OpenAdapter
<1>6. CASE DeleteExisting
  <2>1. os = "windows" /\ ifaces' = Remove(dev) /\ os' = os /\ run' = run
        /\ step = "Delete" /\ step' = "CreateAdapter" /\ run # 0
    BY <1>6, Orders DEF DeleteExisting, TunInv, StepType, IfacesType, LinuxSteps, DarwinSteps
  <2>2. dev \in DOMAIN ifaces /\ dev # Foreign
    BY <2>1 DEF TunInv, DevInv
  <2>3. DOMAIN ifaces' = DOMAIN ifaces \ {dev}
    BY <2>1 DEF Remove
  <2> QED
    BY <2>1, <2>2, <2>3, RemoveKeeps
       DEF TunInv, StepType, IfacesType, DevInv, Single, Clean, Made, Configured, WindowsSteps
<1>7. CASE CreateAdapter
  <2>1. os = "windows" /\ ifaces' = Make /\ dev' = run /\ os' = os /\ run' = run
        /\ step = "CreateAdapter" /\ step' = "Name" /\ run # 0
    BY <1>7, Orders DEF CreateAdapter, TunInv, StepType, IfacesType, LinuxSteps, DarwinSteps
  <2> QED
    BY <2>1, MakeKeeps
       DEF TunInv, StepType, IfacesType, DevInv, Single, Clean, Made, Configured, WindowsSteps
<1>8. CASE Name \/ StartSession
  <2>1. /\ os = "windows" /\ ifaces' = ifaces /\ dev' = dev /\ os' = os /\ run' = run
        /\ \/ step = "Name" /\ step' = "StartSession"
           \/ step = "StartSession" /\ step' = "netsh" /\ session' = dev
    BY <1>8, Orders DEF Name, StartSession, TunInv, StepType, LinuxSteps, DarwinSteps
  <2> QED
    BY <2>1 DEF TunInv, StepType, IfacesType, DevInv, Single, Clean, Kept, Made, Configured,
       WindowsSteps
<1>9. CASE Netsh
  <2>1. os = "windows" /\ ifaces' = Configure(dev) /\ dev' = dev /\ os' = os /\ run' = run
        /\ step = "netsh" /\ step' = "serve" /\ session' = session /\ run # 0
    BY <1>9, Orders DEF Netsh, TunInv, StepType, IfacesType, LinuxSteps, DarwinSteps
  <2>2. dev = run /\ run \in DOMAIN ifaces
    BY <2>1 DEF TunInv, DevInv, Made
  <2> QED
    BY <2>1, <2>2, ConfigureKeeps
       DEF TunInv, StepType, IfacesType, DevInv, Single, Clean, Made, Configured, WindowsSteps
<1>10. CASE Panic
  BY <1>10 DEF Panic, TunInv, StepType, IfacesType, DevInv, Single, Clean, Kept, Made, Configured
<1>11. CASE Close
  <2>1. CASE os = "windows"
    BY <1>11, <2>1 DEF Close, TunInv, StepType, IfacesType, DevInv, Single, Clean, Kept, Made,
       Configured
  <2>2. CASE os # "windows"
    <3>1. ifaces' = [j \in DOMAIN ifaces \cap {Foreign} |-> ifaces[j]] /\ step' = "exit"
          /\ os' = os /\ run' = run /\ step = "close"
      BY <1>11, <2>2 DEF Close, Ended
    <3>2. IfacesType' /\ DOMAIN ifaces' \subseteq {Foreign} /\ Kept
      BY <3>1 DEF IfacesType, Kept, TunInv
    <3> QED
      BY <2>2, <3>1, <3>2 DEF TunInv, StepType, DevInv, Single, Clean, Made, Configured
  <2> QED
    BY <2>1, <2>2
<1>12. CASE End
  BY <1>12 DEF End, TunInv, StepType, IfacesType, DevInv, Single, Clean, Kept, Made, Configured,
     LinuxSteps, DarwinSteps, WindowsSteps
<1>13. CASE RemoveAdapter
  <2>1. dev = run /\ run # 0 /\ os = "windows"
    BY <1>13 DEF RemoveAdapter, TunInv, DevInv, IfacesType, StepType, Made, LinuxSteps, DarwinSteps
  <2>2. dev # Foreign
    BY <2>1 DEF Foreign
  <2>3. os' = os /\ run' = run /\ step' = "exit" /\ ifaces' \in {Remove(dev), ifaces}
    BY <1>13 DEF RemoveAdapter
  <2> QED
    BY <2>1, <2>2, <2>3, RemoveKeeps
       DEF TunInv, StepType, IfacesType, DevInv, Single, Clean, Made, Configured
<1>14. CASE Kill
  BY <1>14, ExitKeeps DEF Kill
<1>15. CASE UNCHANGED tunVars
  BY <1>15 DEF tunVars, TunInv, StepType, IfacesType, DevInv, Single, Clean, Kept
<1> QED
  BY <1>1, <1>2, <1>3, <1>4, <1>5, <1>6, <1>7, <1>8, <1>9, <1>10, <1>11, <1>12, <1>13, <1>14,
     <1>15 DEF TunNext, Setup, Stop

-----------------------------------------------------------------------------
(* The device's steps are steps of the interface, or leave it alone        *)

LEMMA DeviceStep == [Next]_vars => [TunNext]_tunVars
<1> SUFFICES ASSUME [Next]_vars PROVE [TunNext]_tunVars
  OBVIOUS
<1>1. CASE (Setup \/ Stop) /\ UNCHANGED deviceVars
  BY <1>1 DEF TunNext
<1>2. CASE Die
  BY <1>2 DEF Die, TunNext
<1>3. CASE Arrive \/ Break \/ Tick
  BY <1>3 DEF Arrive, Break, Tick
<1>4. ASSUME NEW g \in Goroutines, Update(g) PROVE UNCHANGED tunVars
  BY <1>4 DEF Update, Add, Load, Swap, StoreStart, StoreCurrent, StoreCount, StoreChanging, rest
<1>5. CASE Reader
  BY <1>4, <1>5 DEF Reader, Goroutines, ReadTop, ReadTest, Receive, ReceiveNone, ReceiveFails,
     Wait, Release
<1>6. CASE Writer
  BY <1>4, <1>6 DEF Writer, Goroutines, WriteTop, Allocate, Send
<1>7. CASE \E p \in Packets : ReadUtun(p) \/ WriteUtun(p)
  BY <1>7 DEF ReadUtun, WriteUtun, utunRest
<1>8. CASE UNCHANGED vars
  BY <1>8 DEF vars
<1> QED
  BY <1>1, <1>2, <1>3, <1>5, <1>6, <1>7, <1>8 DEF Next

LEMMA TunInvariant == Spec => []TunInv
<1>1. Init => TunInv
  BY TunInitial DEF Init
<1>2. TunInv /\ [Next]_vars => TunInv'
  BY DeviceStep, TunStep
<1> QED
  BY <1>1, <1>2, PTL DEF Spec

\* Whatever failed or was killed before, a node serves on an interface its own
\* run made and configured (NewTUN).
THEOREM InterfaceOwned == Spec => []OwnInterface
<1>1. TunInv => OwnInterface
  BY DEF TunInv, DevInv, OwnInterface, Made, Configured
<1> QED
  BY <1>1, TunInvariant, PTL

\* No step of NewTUN, Close or the end of the process touches an interface of
\* another program (OpenAdapter, Delete, netsh by wt.Name()).
THEOREM ForeignKept == Spec => OthersKept
<1>1. TunInv /\ [Next]_vars => [Kept]_tunVars
  BY DeviceStep, TunStep
<1>2. Spec => [][Kept]_tunVars
  BY <1>1, TunInvariant, PTL DEF Spec
<1>3. [Kept]_tunVars =>
        [(Foreign \in DOMAIN ifaces) =>
           Foreign \in DOMAIN ifaces' /\ ifaces'[Foreign] = ifaces[Foreign]]_tunVars
  BY DEF Kept
<1> QED
  BY <1>2, <1>3, PTL DEF OthersKept

\* Without an interface of another program there is never more than one adapter,
\* after any number of crashes, failed starts and restarts (NewTUN's Delete).
THEOREM AdapterSingle == Spec => []OneAdapter
<1>1. TunInv => OneAdapter
  <2> SUFFICES ASSUME TunInv, Foreign \notin DOMAIN ifaces
               PROVE  Cardinality(DOMAIN ifaces) <= 1
    BY DEF OneAdapter
  <2>1. CASE DOMAIN ifaces = {}
    BY <2>1, FS_EmptySet
  <2>2. CASE DOMAIN ifaces # {}
    <3>1. PICK i \in DOMAIN ifaces : TRUE
      BY <2>2
    <3>2. DOMAIN ifaces = {i}
      BY <3>1 DEF TunInv, Single
    <3>3. Cardinality({i}) = 1
      BY FS_Singleton, Zenon
    <3> QED
      BY <3>2, <3>3
  <2> QED
    BY <2>1, <2>2
<1> QED
  BY <1>1, TunInvariant, PTL

-----------------------------------------------------------------------------
(* The goroutines                                                          *)

PCs == {"idle", "retry", "test", "receive", "wait", "release", "add", "load", "swap", "start",
        "current", "count", "changed", "allocate", "send"}

Goroutine == [pc: PCs, spin: BOOLEAN, now: Nat, total: Nat, period: Nat]

GoType ==
    /\ go \in [Goroutines -> Goroutine]
    /\ rate \in [current: Nat, nextByteCount: Nat, nextStartTime: Nat, changing: BOOLEAN]
    /\ ring \in Nat /\ count \in Nat /\ clock \in Nat
    /\ late \in [Goroutines -> Nat]
    /\ \A g \in Goroutines :
         go[g].pc \in {"swap", "start", "current"} => go[g].period >= Granularity

\* The flag is set between the first step of Close and the end of the process.
CloseFlag ==
    /\ close \in BOOLEAN
    /\ close => step \in {"End", "remove", "exit"}
    /\ os = "windows" /\ step \in {"End", "remove", "exit"} => close

\* A goroutine that has yet to make its calls on the session has made none
\* after its end, because it tested the flag before it was set.
LateInv ==
    /\ ~close => \A g \in Goroutines : late[g] = 0
    /\ \A g \in Goroutines : late[g] <= 2
    /\ go["read"].pc = "receive" => late["read"] = 0
    /\ go["read"].pc = "release" => late["read"] <= 1
    /\ go["write"].pc \notin {"idle", "send"} => late["write"] = 0
    /\ go["write"].pc = "send" => late["write"] <= 1

ChangeInv ==
    /\ rate.changing => \E g \in Goroutines : go[g].pc \in Changing
    /\ \A g \in Goroutines : go[g].pc \in Changing => rate.changing
    /\ \A g, h \in Goroutines : go[g].pc \in Changing /\ go[h].pc \in Changing => g = h

\* The packets that update has not counted yet.
Uncounted == ring + (IF go["read"].pc \in {"release", "add"} THEN 1 ELSE 0)
                  + (IF go["write"].pc = "add" THEN 1 ELSE 0)

RateInv ==
    ~close => /\ rate.nextByteCount + Uncounted <= count
              /\ \A g \in Goroutines : go[g].total <= count
              /\ rate.current <= 2 * count

GoInv == GoType /\ LateInv /\ ChangeInv /\ RateInv

\* The estimate over a period that is at least the granularity.
LEMMA Estimate ==
    ASSUME NEW t \in Nat, NEW p \in Nat, p >= Granularity
    PROVE  /\ (t * 2 * Granularity) \div p \in Nat
           /\ (t * 2 * Granularity) \div p <= 2 * t
<1> DEFINE n == t * 2 * Granularity
           q == n \div p
<1>1. Granularity \in Nat /\ Granularity > 0 /\ p > 0
  BY DeviceAssumption
<1>2. n \in Nat
  BY <1>1
<1>3. n <= (2 * t) * p
  BY <1>1
<1> HIDE DEF n
<1>4. q \in Nat /\ p * q <= n
  BY <1>1, <1>2
<1> HIDE DEF q
<1>5. p * q <= p * (2 * t)
  BY <1>1, <1>2, <1>3, <1>4
<1>6. q <= 2 * t
  BY <1>1, <1>4, <1>5
<1> QED
  BY <1>4, <1>6 DEF q, n

\* The memory of a process that has just begun.
Fresh ==
    /\ ring = 0 /\ count = 0
    /\ rate = NoRate
    /\ go = [g \in Goroutines |-> Idle]
    /\ late = [g \in Goroutines |-> 0]

LEMMA FreshInv == Fresh /\ clock \in Nat => GoInv
<1> SUFFICES ASSUME Fresh, clock \in Nat PROVE GoInv
  OBVIOUS
<1>1. \A g \in Goroutines : go[g].pc = "idle" /\ go[g].total = 0 /\ late[g] = 0
  BY DEF Fresh, Idle
<1>2. GoType
  BY <1>1 DEF GoType, Goroutine, Fresh, Idle, NoRate, PCs
<1>3. LateInv
  BY <1>1 DEF LateInv, Goroutines
<1>4. ChangeInv
  BY <1>1 DEF ChangeInv, Fresh, NoRate, Changing
<1>5. RateInv
  BY <1>1 DEF RateInv, Uncounted, Fresh, NoRate, Goroutines
<1> QED
  BY <1>2, <1>3, <1>4, <1>5 DEF GoInv

LEMMA GoInitial == Init => GoInv /\ CloseFlag
<1> SUFFICES ASSUME Init PROVE GoInv /\ CloseFlag
  OBVIOUS
<1>1. Fresh /\ clock = 0
  BY DEF Init, Fresh
<1>2. CloseFlag
  BY DEF Init, TunInit, CloseFlag, Down
<1> QED
  BY <1>1, <1>2, FreshInv

LEMMA CloseFlagStep == TunInv /\ CloseFlag /\ [TunNext]_tunVars => CloseFlag'
<1> SUFFICES ASSUME TunInv, CloseFlag, [TunNext]_tunVars PROVE CloseFlag'
  OBVIOUS
<1> USE DEF CloseFlag, Down
<1>1. CASE Exit
  BY <1>1 DEF Exit
<1>2. CASE Start \/ FailSession
  BY <1>2, Orders DEF Start, FailSession, TunInv, StepType
<1>3. CASE UnixStep
  BY <1>3, Orders DEF UnixStep, TunInv, StepType, LinuxSteps, DarwinSteps
<1>4. CASE OpenAdapter \/ DeleteExisting \/ CreateAdapter \/ Name \/ StartSession \/ Netsh
  BY <1>4, Orders DEF OpenAdapter, DeleteExisting, CreateAdapter, Name, StartSession, Netsh,
     TunInv, StepType, LinuxSteps, DarwinSteps
<1>5. CASE Panic \/ End \/ RemoveAdapter
  BY <1>5 DEF Panic, End, RemoveAdapter
<1>6. CASE Close
  <2>1. CASE os = "windows"
    BY <1>6, <2>1 DEF Close
  <2>2. CASE os # "windows"
    BY <1>6, <2>2 DEF Close
  <2> QED
    BY <2>1, <2>2
<1>7. CASE UNCHANGED tunVars
  BY <1>7 DEF tunVars
<1> QED
  BY <1>1, <1>2, <1>3, <1>4, <1>5, <1>6, <1>7 DEF TunNext, Setup, Stop, Fail, Kill

\* While goroutines run, the session has ended only if the flag is set.
LEMMA EndsClosed == TunInv /\ CloseFlag /\ Serving /\ Ends => close
  BY TunAssumption DEF TunInv, DevInv, IfacesType, CloseFlag, Serving, Ends, Closing

\* The goroutine g goes on to pc with this total and period; the other one waits.
Moves(g, pc, total, period) ==
    /\ go' \in [Goroutines -> Goroutine]
    /\ go'[g].pc = pc /\ go'[g].total = total /\ go'[g].period = period
    /\ \A h \in Goroutines \ {g} : go'[h] = go[h]

LEMMA GoMoves ==
    ASSUME GoType, NEW g \in Goroutines, NEW pc \in PCs, Go(g, pc)
    PROVE  Moves(g, pc, go[g].total, go[g].period)
  BY DEF GoType, Goroutine, Go, Moves

LEMMA NowMoves ==
    ASSUME GoType, NEW g \in Goroutines, NEW pc \in PCs,
           go' = [go EXCEPT ![g].pc = pc, ![g].now = clock]
    PROVE  Moves(g, pc, go[g].total, go[g].period)
  BY DEF GoType, Goroutine, Moves

LEMMA SpinMoves ==
    ASSUME GoType, NEW g \in Goroutines, NEW pc \in PCs, NEW b \in BOOLEAN,
           go' = [go EXCEPT ![g].pc = pc, ![g].spin = b]
    PROVE  Moves(g, pc, go[g].total, go[g].period)
  BY DEF GoType, Goroutine, Moves

LEMMA TotalMoves ==
    ASSUME GoType, NEW g \in Goroutines, NEW pc \in PCs, NEW n \in Nat,
           go' = [go EXCEPT ![g].pc = pc, ![g].total = n]
    PROVE  Moves(g, pc, n, go[g].period)
  BY DEF GoType, Goroutine, Moves

LEMMA PeriodMoves ==
    ASSUME GoType, NEW g \in Goroutines, NEW pc \in PCs, NEW n \in Nat,
           go' = [go EXCEPT ![g].pc = pc, ![g].period = n]
    PROVE  Moves(g, pc, go[g].total, n)
  BY DEF GoType, Goroutine, Moves

LEMMA ReturnMoves ==
    ASSUME GoType, NEW g \in Goroutines, Return(g)
    PROVE  Moves(g, "idle", 0, 0)
  BY DEF GoType, Goroutine, Return, Idle, Moves, PCs

LEMMA UpdatedMoves ==
    ASSUME GoType, NEW g \in Goroutines, Updated(g)
    PROVE  Moves(g, IF g = "read" THEN "idle" ELSE "allocate", 0, 0)
<1>1. CASE g = "read"
  <2>1. Return(g)
    BY <1>1 DEF Updated
  <2> QED
    BY <1>1, <2>1, ReturnMoves
<1>2. CASE g # "read"
  <2> DEFINE r == [pc |-> "allocate", spin |-> FALSE, now |-> 0, total |-> 0, period |-> 0]
  <2>1. r \in Goroutine
    BY DEF Goroutine, PCs
  <2>2. go' = [go EXCEPT ![g] = r]
    BY <1>2 DEF Updated, Idle
  <2> QED
    BY <1>2, <2>1, <2>2 DEF GoType, Moves
<1> QED
  BY <1>1, <1>2

LEMMA TypeStep ==
    ASSUME GoType, NEW g \in Goroutines, NEW pc, NEW t, NEW p, Moves(g, pc, t, p),
           pc \in {"swap", "start", "current"} => p >= Granularity,
           rate' \in [current: Nat, nextByteCount: Nat, nextStartTime: Nat, changing: BOOLEAN],
           ring' \in Nat, count' \in Nat, clock' \in Nat, late' \in [Goroutines -> Nat]
    PROVE  GoType'
  BY DEF GoType, Moves

\* Nothing but update touches the flag of the measurement.
LEMMA ChangeStep ==
    ASSUME ChangeInv, NEW g \in Goroutines, NEW pc, NEW t, NEW p, Moves(g, pc, t, p),
           pc \in Changing <=> go[g].pc \in Changing,
           rate'.changing = rate.changing
    PROVE  ChangeInv'
<1>1. \A h \in Goroutines : go'[h].pc \in Changing <=> go[h].pc \in Changing
  BY DEF Moves
<1> QED
  BY <1>1 DEF ChangeInv

\* A call on the session is late only when the flag is set.
LEMMA CallStep ==
    ASSUME TunInv, CloseFlag, GoType, Serving, NEW g \in Goroutines, Call(g)
    PROVE  /\ late' \in [Goroutines -> Nat]
           /\ late'[g] <= late[g] + 1
           /\ \A h \in Goroutines \ {g} : late'[h] = late[h]
           /\ ~close => late' = late
<1>1. ~close => ~Ends
  BY EndsClosed
<1> QED
  BY <1>1 DEF GoType, Call

LEMMA UncountedType == (GoType => Uncounted \in Nat) /\ (ring' \in Nat => Uncounted' \in Nat)
  BY DEF GoType, Uncounted

\* Where a goroutine is outside update, or about to begin it.
Elsewhere == {"idle", "retry", "test", "receive", "wait", "release", "add", "allocate", "send"}

\* What every step outside update keeps: a packet is counted when it comes.
Quiet ==
    /\ rate' = rate /\ clock' = clock /\ close' = close
    /\ ring' \in Nat /\ late' \in [Goroutines -> Nat]
    /\ count' = count \/ count' = count + 1
    /\ ~close => Uncounted' + count = Uncounted + count'

LEMMA Account ==
    ASSUME NEW n \in Nat, NEW r \in Nat, NEW u \in Nat, NEW u1 \in Nat, NEW c \in Nat, NEW c1,
           c1 = c \/ c1 = c + 1, u1 + c = u + c1, n + u <= c, r <= 2 * c
    PROVE  n + u1 <= c1 /\ r <= 2 * c1
  OBVIOUS

\* A step that is not one of update's.
LEMMA QuietStep ==
    ASSUME GoInv, NEW g \in Goroutines, NEW pc \in Elsewhere, NEW t, NEW p,
           Moves(g, pc, t, p), go[g].pc \in Elsewhere, t \in {0, go[g].total}, Quiet, LateInv'
    PROVE  GoInv'
<1>1. GoType /\ ChangeInv /\ RateInv
  BY DEF GoInv
<1>2. /\ rate \in [current: Nat, nextByteCount: Nat, nextStartTime: Nat, changing: BOOLEAN]
      /\ rate.nextByteCount \in Nat /\ rate.current \in Nat
      /\ count \in Nat /\ count' \in Nat /\ clock \in Nat
  BY <1>1 DEF GoType, Quiet
<1>3. GoType'
  BY <1>1, <1>2, TypeStep DEF Quiet, Elsewhere
<1>4. ChangeInv'
  BY <1>1, ChangeStep DEF Quiet, Elsewhere, Changing
<1>5. Uncounted \in Nat /\ Uncounted' \in Nat
  BY <1>1, UncountedType DEF Quiet
<1>6. ASSUME NEW h \in Goroutines, ~close PROVE go'[h].total <= count'
  <2>1. go[h].total \in Nat /\ go[h].total <= count
    BY <1>1, <1>6 DEF RateInv, GoType, Goroutine
  <2>2. go'[h].total = go[h].total \/ go'[h].total = 0
    BY DEF Moves
  <2>3. count' >= count
    BY <1>2 DEF Quiet
  <2> QED
    BY <1>2, <2>1, <2>2, <2>3
<1>7. ASSUME ~close
      PROVE  rate'.nextByteCount + Uncounted' <= count' /\ rate'.current <= 2 * count'
  <2>1. rate.nextByteCount + Uncounted <= count /\ rate.current <= 2 * count
    BY <1>1, <1>7 DEF RateInv
  <2>2. /\ Uncounted' + count = Uncounted + count' /\ rate' = rate
        /\ count' = count \/ count' = count + 1
    BY <1>7 DEF Quiet
  <2> QED
    BY <1>2, <1>5, <2>1, <2>2, Account
<1>8. RateInv'
  BY <1>6, <1>7 DEF RateInv, Quiet
<1> QED
  BY <1>3, <1>4, <1>8 DEF GoInv

LEMMA ReadStep ==
    ASSUME TunInv, CloseFlag, GoInv, ReadTop \/ ReadTest \/ Receive \/ ReceiveNone
             \/ ReceiveFails \/ Wait \/ Release
    PROVE  GoInv'
<1> USE DEF GoInv
<1>0. "read" \in Goroutines /\ "write" \in Goroutines /\ Goroutines = {"read", "write"}
  BY DEF Goroutines
<1>1. CASE ReadTop
  <2> DEFINE b == /\ rate.current >= Threshold
                  /\ Wrap(clock - rate.nextStartTime) <= 2 * Granularity
  <2>1. b \in BOOLEAN
    OBVIOUS
  <2>2. go' = [go EXCEPT !["read"].pc = "test", !["read"].spin = b]
    BY <1>1 DEF ReadTop
  <2> HIDE DEF b
  <2>3. Moves("read", "test", go["read"].total, go["read"].period)
    BY <1>0, <2>1, <2>2, SpinMoves DEF PCs
  <2>4. /\ go["read"].pc \in {"idle", "retry"}
        /\ UNCHANGED <<tunVars, ring, rate, count, clock, late>>
    BY <1>1 DEF ReadTop, At
  <2>5. LateInv'
    BY <1>0, <2>3, <2>4 DEF LateInv, Moves, tunVars
  <2>6. Uncounted' = Uncounted
    BY <1>0, <2>3, <2>4 DEF Uncounted, Moves
  <2>7. Quiet
    BY <2>3, <2>4, <2>5, <2>6 DEF Quiet, GoType, tunVars
  <2>8. "test" \in Elsewhere /\ go["read"].pc \in Elsewhere
    BY <2>4, <2>3 DEF Elsewhere
  <2> QED
    BY <1>0, <2>3, <2>5, <2>7, <2>8, QuietStep
<1>2. CASE ReadTest
  <2>1. go["read"].pc = "test" /\ UNCHANGED <<tunVars, ring, rate, count, clock, late>>
    BY <1>2 DEF ReadTest, At
  <2>2. PICK pc \in {"idle", "receive"}, t \in {0, go["read"].total},
             p \in {0, go["read"].period} :
          /\ Moves("read", pc, t, p)
          /\ pc = "receive" => ~close
    <3>1. CASE close
      BY <1>0, <1>2, <3>1, ReturnMoves DEF ReadTest
    <3>2. CASE ~close
      BY <1>0, <1>2, <3>2, GoMoves DEF ReadTest, PCs
    <3> QED
      BY <3>1, <3>2
  <2>3. LateInv'
    BY <1>0, <2>1, <2>2 DEF LateInv, Moves, tunVars
  <2>4. Uncounted' = Uncounted
    BY <1>0, <2>1, <2>2 DEF Uncounted, Moves
  <2>5. Quiet
    BY <2>1, <2>2, <2>3, <2>4 DEF Quiet, GoType, tunVars
  <2>6. pc \in Elsewhere /\ go["read"].pc \in Elsewhere
    BY <2>1, <2>2 DEF Elsewhere
  <2> QED
    BY <1>0, <2>2, <2>3, <2>5, <2>6, QuietStep
<1>3. CASE Wait
  <2>1. go["read"].pc = "wait" /\ UNCHANGED <<tunVars, ring, rate, count, clock, late>>
    BY <1>3 DEF Wait, At
  <2>2. Moves("read", "retry", go["read"].total, go["read"].period)
    BY <1>0, <1>3, GoMoves DEF Wait, PCs
  <2>3. LateInv'
    BY <1>0, <2>1, <2>2 DEF LateInv, Moves, tunVars
  <2>4. Uncounted' = Uncounted
    BY <1>0, <2>1, <2>2 DEF Uncounted, Moves
  <2>5. Quiet
    BY <2>1, <2>2, <2>3, <2>4 DEF Quiet, GoType, tunVars
  <2>6. "retry" \in Elsewhere /\ go["read"].pc \in Elsewhere
    BY <2>1, <2>2 DEF Elsewhere
  <2> QED
    BY <1>0, <2>2, <2>3, <2>5, <2>6, QuietStep
<1>4. CASE Receive
  <2>1. /\ go["read"].pc = "receive" /\ Serving /\ Call("read")
        /\ UNCHANGED <<tunVars, rate, count, clock>>
        /\ Ends \/ ring > 0
        /\ ring' = IF Ends THEN ring ELSE ring - 1
    BY <1>4 DEF Receive, At
  <2>2. Moves("read", "release", go["read"].total, go["read"].period)
    BY <1>0, <1>4, GoMoves DEF Receive, PCs
  <2>3. /\ late' \in [Goroutines -> Nat] /\ late'["read"] <= late["read"] + 1
        /\ late'["write"] = late["write"]
        /\ ~close => late' = late
    BY <1>0, <2>1, CallStep
  <2>4. LateInv'
    BY <1>0, <2>1, <2>2, <2>3 DEF LateInv, Moves, tunVars, GoType
  <2>5. ring' \in Nat
    BY <2>1 DEF GoType
  <2>6. ASSUME ~close PROVE Uncounted' = Uncounted
    <3>1. ring' = ring - 1 /\ ring \in Nat
      BY <2>1, <2>6, EndsClosed DEF GoType
    <3> QED
      BY <1>0, <2>1, <2>2, <3>1 DEF Uncounted, Moves
  <2>7. Uncounted \in Nat
    BY UncountedType
  <2>8. Quiet
    BY <2>1, <2>2, <2>3, <2>4, <2>5, <2>6, <2>7 DEF Quiet, GoType, tunVars
  <2>9. "release" \in Elsewhere /\ go["read"].pc \in Elsewhere
    BY <2>1, <2>2 DEF Elsewhere
  <2> QED
    BY <1>0, <2>2, <2>4, <2>8, <2>9, QuietStep
<1>5. CASE ReceiveNone \/ ReceiveFails
  <2>1. /\ go["read"].pc = "receive" /\ Serving /\ Call("read")
        /\ UNCHANGED <<tunVars, ring, rate, count, clock>>
    BY <1>5 DEF ReceiveNone, ReceiveFails, At
  <2>2. PICK pc \in {"wait", "test", "idle"}, t \in {0, go["read"].total},
             p \in {0, go["read"].period} :
          Moves("read", pc, t, p)
    BY <1>0, <1>5, GoMoves, ReturnMoves DEF ReceiveNone, ReceiveFails, PCs
  <2>3. /\ late' \in [Goroutines -> Nat] /\ late'["read"] <= late["read"] + 1
        /\ late'["write"] = late["write"]
        /\ ~close => late' = late
    BY <1>0, <2>1, CallStep
  <2>4. LateInv'
    BY <1>0, <2>1, <2>2, <2>3 DEF LateInv, Moves, tunVars, GoType
  <2>5. Uncounted' = Uncounted
    BY <1>0, <2>1, <2>2 DEF Uncounted, Moves
  <2>6. Quiet
    BY <2>1, <2>2, <2>3, <2>4, <2>5 DEF Quiet, GoType, tunVars
  <2>7. pc \in Elsewhere /\ go["read"].pc \in Elsewhere
    BY <2>1, <2>2 DEF Elsewhere
  <2> QED
    BY <1>0, <2>2, <2>4, <2>6, <2>7, QuietStep
<1>6. CASE Release
  <2>1. /\ go["read"].pc = "release" /\ Serving /\ Call("read")
        /\ UNCHANGED <<tunVars, ring, rate, count, clock>>
    BY <1>6 DEF Release, At
  <2>2. Moves("read", "add", go["read"].total, go["read"].period)
    BY <1>0, <1>6, NowMoves DEF Release, PCs
  <2>3. /\ late' \in [Goroutines -> Nat] /\ late'["read"] <= late["read"] + 1
        /\ late'["write"] = late["write"]
        /\ ~close => late' = late
    BY <1>0, <2>1, CallStep
  <2>4. LateInv'
    BY <1>0, <2>1, <2>2, <2>3 DEF LateInv, Moves, tunVars, GoType
  <2>5. Uncounted' = Uncounted
    BY <1>0, <2>1, <2>2 DEF Uncounted, Moves
  <2>6. Quiet
    BY <2>1, <2>2, <2>3, <2>4, <2>5 DEF Quiet, GoType, tunVars
  <2>7. "add" \in Elsewhere /\ go["read"].pc \in Elsewhere
    BY <2>1, <2>2 DEF Elsewhere
  <2> QED
    BY <1>0, <2>2, <2>4, <2>6, <2>7, QuietStep
<1> QED
  BY <1>1, <1>2, <1>3, <1>4, <1>5, <1>6

LEMMA WriteStep ==
    ASSUME TunInv, CloseFlag, GoInv, WriteTop \/ Allocate \/ Send
    PROVE  GoInv'
<1> USE DEF GoInv
<1>0. "read" \in Goroutines /\ "write" \in Goroutines /\ Goroutines = {"read", "write"}
  BY DEF Goroutines
<1>1. CASE WriteTop
  <2>1. /\ go["write"].pc = "idle" /\ ~close /\ count' = count + 1
        /\ UNCHANGED <<tunVars, ring, rate, clock, late>>
    BY <1>1 DEF WriteTop, At
  <2>2. Moves("write", "add", go["write"].total, go["write"].period)
    BY <1>0, <1>1, NowMoves DEF WriteTop, PCs
  <2>3. LateInv'
    BY <1>0, <2>1, <2>2 DEF LateInv, Moves, tunVars
  <2>4. Uncounted' = Uncounted + 1
    <3>1. ring \in Nat /\ ring' = ring
      BY <2>1 DEF GoType
    <3>2. go'["read"] = go["read"] /\ go'["write"].pc = "add" /\ go["write"].pc = "idle"
      BY <1>0, <2>1, <2>2 DEF Moves
    <3> QED
      BY <3>1, <3>2 DEF Uncounted
  <2>5. Uncounted' + count = Uncounted + count'
    <3>1. Uncounted \in Nat /\ count \in Nat
      BY UncountedType DEF GoType
    <3> QED
      BY <2>1, <2>4, <3>1
  <2>6. Quiet
    BY <2>1, <2>5 DEF Quiet, GoType, tunVars
  <2>7. "add" \in Elsewhere /\ go["write"].pc \in Elsewhere
    BY <2>1, <2>2 DEF Elsewhere
  <2> QED
    BY <1>0, <2>2, <2>3, <2>6, <2>7, QuietStep
<1>2. CASE Allocate \/ Send
  <2>1. /\ go["write"].pc \in {"allocate", "send"} /\ Serving /\ Call("write")
        /\ UNCHANGED <<tunVars, ring, rate, count, clock>>
    BY <1>2 DEF Allocate, Send, At
  <2>2. PICK pc \in {"idle", "send"}, t \in {0, go["write"].total},
             p \in {0, go["write"].period} :
          /\ Moves("write", pc, t, p)
          /\ pc = "send" => go["write"].pc = "allocate"
    BY <1>0, <1>2, GoMoves, ReturnMoves DEF Allocate, Send, At, PCs
  <2>3. /\ late' \in [Goroutines -> Nat] /\ late'["write"] <= late["write"] + 1
        /\ late'["read"] = late["read"]
        /\ ~close => late' = late
    BY <1>0, <2>1, CallStep
  <2>4. LateInv'
    BY <1>0, <2>1, <2>2, <2>3 DEF LateInv, Moves, tunVars, GoType
  <2>5. Uncounted' = Uncounted
    BY <1>0, <2>1, <2>2 DEF Uncounted, Moves
  <2>6. Quiet
    BY <2>1, <2>2, <2>3, <2>4, <2>5 DEF Quiet, GoType, tunVars
  <2>7. pc \in Elsewhere /\ go["write"].pc \in Elsewhere
    BY <2>1, <2>2 DEF Elsewhere
  <2> QED
    BY <1>0, <2>2, <2>4, <2>6, <2>7, QuietStep
<1> QED
  BY <1>1, <1>2

Updating == {"add", "load", "swap", "start", "current", "count", "changed"}
After(g) == IF g = "read" THEN "idle" ELSE "allocate"

LEMMA UpdateStep ==
    ASSUME GoInv, NEW g \in Goroutines, Update(g)
    PROVE  GoInv'
<1> USE DEF GoInv
<1>0. "read" \in Goroutines /\ "write" \in Goroutines /\ Goroutines = {"read", "write"}
  BY DEF Goroutines
<1>1. /\ go[g].pc \in Updating
      /\ UNCHANGED <<tunVars, ring, clock, count, late>>
  BY DEF Update, Add, Load, Swap, StoreStart, StoreCurrent, StoreCount, StoreChanging, rest, At,
     Updating
<1>2. /\ ring' = ring /\ clock' = clock /\ count' = count /\ late' = late /\ close' = close
      /\ ring \in Nat /\ clock \in Nat /\ count \in Nat /\ late \in [Goroutines -> Nat]
  BY <1>1 DEF tunVars, GoType
<1>3. /\ go[g] \in Goroutine /\ rate.current \in Nat /\ rate.nextByteCount \in Nat
      /\ rate.nextStartTime \in Nat /\ rate.changing \in BOOLEAN
      /\ go[g].now \in Nat /\ go[g].total \in Nat /\ go[g].period \in Nat
  BY DEF GoType, Goroutine
<1>4. ASSUME NEW pc \in (Updating \ {"add"}) \cup {After(g)}, NEW t, NEW p, Moves(g, pc, t, p)
      PROVE  /\ LateInv'
             /\ Uncounted' = IF go[g].pc = "add" THEN Uncounted - 1 ELSE Uncounted
  <2>1. LateInv'
    BY <1>0, <1>1, <1>2, <1>4 DEF LateInv, Moves, Updating, After
  <2>2. ASSUME go[g].pc = "add" PROVE Uncounted' = Uncounted - 1
    BY <1>0, <1>2, <1>4, <2>2 DEF Uncounted, Moves, Updating, After
  <2>3. ASSUME go[g].pc # "add" PROVE Uncounted' = Uncounted
    BY <1>0, <1>1, <1>2, <1>4, <2>3 DEF Uncounted, Moves, Updating, After
  <2> QED
    BY <2>1, <2>2, <2>3
<1>5. Uncounted \in Nat /\ Uncounted' \in Nat
  BY <1>2, UncountedType
<1>6. ASSUME NEW pc \in {"load", "swap", After(g)}, NEW t, NEW p, Moves(g, pc, t, p),
             go[g].pc \notin Changing, pc = "swap" => p >= Granularity,
             t \in Nat, ~close => t <= count,
             rate' = rate \/ (go[g].pc = "add" /\ rate' = [rate EXCEPT !.nextByteCount = @ + 1])
      PROVE  GoInv'
  <2>1. /\ rate' \in [current: Nat, nextByteCount: Nat, nextStartTime: Nat, changing: BOOLEAN]
        /\ rate'.changing = rate.changing /\ rate'.current = rate.current
        /\ \/ rate'.nextByteCount = rate.nextByteCount
           \/ go[g].pc = "add" /\ rate'.nextByteCount = rate.nextByteCount + 1
    BY <1>6 DEF GoType
  <2>2. GoType'
    BY <1>2, <1>6, <2>1, TypeStep DEF After
  <2>3. ChangeInv'
    BY <1>6, <2>1, ChangeStep DEF Changing, After
  <2>4. /\ LateInv'
        /\ Uncounted' = IF go[g].pc = "add" THEN Uncounted - 1 ELSE Uncounted
    BY <1>4, <1>6 DEF Updating
  <2>5. RateInv'
    BY <1>2, <1>3, <1>5, <1>6, <2>1, <2>4 DEF RateInv, Moves
  <2> QED
    BY <2>2, <2>3, <2>4, <2>5
<1>7. CASE Add(g)
  <2>1. Uncounted >= 1
    BY <1>0, <1>2, <1>7 DEF Add, At, Uncounted
  <2>2. ~close => rate.nextByteCount + 1 <= count
    BY <1>2, <1>3, <1>5, <2>1 DEF RateInv
  <2>3. Moves(g, "load", rate.nextByteCount + 1, go[g].period)
    <3>1. "load" \in PCs /\ rate.nextByteCount + 1 \in Nat
      BY <1>3 DEF PCs
    <3>2. go' = [go EXCEPT ![g].pc = "load", ![g].total = rate.nextByteCount + 1]
      BY <1>7 DEF Add
    <3> QED
      BY <3>1, <3>2, TotalMoves
  <2> QED
    BY <1>3, <1>6, <1>7, <2>2, <2>3 DEF Add, At, Changing
<1>8. CASE Load(g)
  <2> DEFINE period == Wrap(go[g].now - rate.nextStartTime)
  <2>1. period \in Nat
    <3>1. Word \in Nat /\ Word > 0
      BY DeviceAssumption
    <3> QED
      BY <1>3, <3>1 DEF Wrap
  <2>2. /\ go[g].pc = "load" /\ rate' = rate
        /\ IF period >= Granularity
           THEN go' = [go EXCEPT ![g].pc = "swap", ![g].period = period]
           ELSE Updated(g)
    BY <1>8 DEF Load, At
  <2> HIDE DEF period
  <2>3. ~close => go[g].total <= count /\ 0 <= count
    BY <1>2 DEF RateInv
  <2>4. CASE period >= Granularity
    <3>1. Moves(g, "swap", go[g].total, period)
      BY <2>1, <2>2, <2>4, PeriodMoves DEF PCs
    <3> QED
      BY <1>3, <1>6, <2>2, <2>3, <2>4, <3>1 DEF Changing
  <2>5. CASE ~(period >= Granularity)
    <3>1. Moves(g, After(g), 0, 0)
      BY <2>2, <2>5, UpdatedMoves DEF After
    <3> QED
      BY <1>6, <2>2, <2>3, <3>1 DEF Changing, After
  <2> QED
    BY <2>4, <2>5
<1>9. CASE Swap(g)
  <2>1. go[g].pc = "swap" /\ go[g].period >= Granularity
    BY <1>9 DEF Swap, At, GoType
  <2>2. CASE rate.changing
    <3>1. Moves(g, After(g), 0, 0) /\ rate' = rate
      BY <1>9, <2>2, UpdatedMoves DEF Swap, After
    <3> QED
      BY <1>2, <1>6, <2>1, <3>1 DEF Changing, After
  <2>3. CASE ~rate.changing
    <3>1. Moves(g, "start", go[g].total, go[g].period)
      BY <1>9, <2>3, GoMoves DEF Swap, PCs
    <3>2. rate' = [rate EXCEPT !.changing = TRUE]
      BY <1>9, <2>3 DEF Swap
    <3>3. /\ rate' \in [current: Nat, nextByteCount: Nat, nextStartTime: Nat, changing: BOOLEAN]
          /\ rate'.changing = TRUE /\ rate'.current = rate.current
          /\ rate'.nextByteCount = rate.nextByteCount
      BY <3>2 DEF GoType
    <3>4. GoType'
      BY <1>2, <2>1, <3>1, <3>3, TypeStep
    <3>5. ChangeInv'
      <4>1. \A h \in Goroutines : go[h].pc \notin Changing
        BY <2>3 DEF ChangeInv
      <4>2. \A h \in Goroutines : go'[h].pc \in Changing <=> h = g
        BY <3>1, <4>1 DEF Moves, Changing
      <4> QED
        BY <3>3, <4>2 DEF ChangeInv
    <3>6. LateInv' /\ Uncounted' = Uncounted
      BY <1>4, <2>1, <3>1 DEF Updating
    <3>7. RateInv'
      BY <1>2, <3>1, <3>3, <3>6 DEF RateInv, Moves
    <3> QED
      BY <3>4, <3>5, <3>6, <3>7
  <2> QED
    BY <2>2, <2>3
<1>10. ASSUME NEW pc \in {"current", "count", "changed"},
              Moves(g, pc, go[g].total, go[g].period),
              go[g].pc \in Changing, pc = "current" => go[g].period >= Granularity,
              rate' \in [current: Nat, nextByteCount: Nat, nextStartTime: Nat, changing: BOOLEAN],
              rate'.changing = rate.changing,
              rate'.nextByteCount <= rate.nextByteCount,
              ~close => rate'.current <= 2 * count
       PROVE  GoInv'
  <2>1. GoType'
    BY <1>2, <1>10, TypeStep
  <2>2. ChangeInv'
    BY <1>10, ChangeStep DEF Changing
  <2>3. LateInv' /\ Uncounted' = Uncounted
    BY <1>4, <1>10 DEF Updating, Changing
  <2>4. rate'.nextByteCount \in Nat
    BY <1>10
  <2>5. \A h \in Goroutines : go'[h].total = go[h].total
    BY <1>10 DEF Moves
  <2>6. ASSUME ~close PROVE rate'.nextByteCount + Uncounted' <= count'
    <3>1. rate.nextByteCount + Uncounted <= count
      BY <2>6 DEF RateInv
    <3> QED
      BY <1>2, <1>3, <1>5, <1>10, <2>3, <2>4, <3>1
  <2>7. RateInv'
    BY <1>2, <1>10, <2>5, <2>6 DEF RateInv
  <2> QED
    BY <2>1, <2>2, <2>3, <2>7
<1>11. CASE StoreStart(g)
  <2>1. /\ go[g].pc = "start" /\ go[g].period >= Granularity
        /\ rate' = [rate EXCEPT !.nextStartTime = go[g].now]
    BY <1>11 DEF StoreStart, At, GoType
  <2>2. Moves(g, "current", go[g].total, go[g].period)
    BY <1>11, GoMoves DEF StoreStart, PCs
  <2>3. /\ rate' \in [current: Nat, nextByteCount: Nat, nextStartTime: Nat, changing: BOOLEAN]
        /\ rate'.changing = rate.changing /\ rate'.current = rate.current
        /\ rate'.nextByteCount = rate.nextByteCount
    BY <1>3, <2>1 DEF GoType
  <2>4. rate'.nextByteCount <= rate.nextByteCount /\ (~close => rate'.current <= 2 * count)
    BY <1>3, <2>3 DEF RateInv
  <2> QED
    BY <1>10, <2>1, <2>2, <2>3, <2>4 DEF Changing
<1>12. CASE StoreCurrent(g)
  <2> DEFINE estimate == (go[g].total * 2 * Granularity) \div go[g].period
  <2>1. go[g].pc = "current" /\ go[g].period >= Granularity
    BY <1>12 DEF StoreCurrent, At, GoType
  <2>2. Moves(g, "count", go[g].total, go[g].period)
    BY <1>12, GoMoves DEF StoreCurrent, PCs
  <2>3. estimate \in Nat /\ estimate <= 2 * go[g].total
    BY <1>3, <2>1, Estimate
  <2>4. rate' = [rate EXCEPT !.current = estimate]
    BY <1>12 DEF StoreCurrent
  <2> HIDE DEF estimate
  <2>5. /\ rate' \in [current: Nat, nextByteCount: Nat, nextStartTime: Nat, changing: BOOLEAN]
        /\ rate'.changing = rate.changing /\ rate'.current = estimate
        /\ rate'.nextByteCount = rate.nextByteCount
    BY <2>3, <2>4 DEF GoType
  <2>6. ~close => go[g].total <= count
    BY DEF RateInv
  <2>7. rate'.nextByteCount <= rate.nextByteCount /\ (~close => rate'.current <= 2 * count)
    BY <1>2, <1>3, <2>3, <2>5, <2>6
  <2> QED
    BY <1>10, <2>1, <2>2, <2>5, <2>7 DEF Changing
<1>13. CASE StoreCount(g)
  <2>1. go[g].pc = "count" /\ rate' = [rate EXCEPT !.nextByteCount = 0]
    BY <1>13 DEF StoreCount, At
  <2>2. Moves(g, "changed", go[g].total, go[g].period)
    BY <1>13, GoMoves DEF StoreCount, PCs
  <2>3. /\ rate' \in [current: Nat, nextByteCount: Nat, nextStartTime: Nat, changing: BOOLEAN]
        /\ rate'.changing = rate.changing /\ rate'.current = rate.current
        /\ rate'.nextByteCount = 0
    BY <2>1 DEF GoType
  <2>4. rate'.nextByteCount <= rate.nextByteCount /\ (~close => rate'.current <= 2 * count)
    BY <1>3, <2>3 DEF RateInv
  <2> QED
    BY <1>10, <2>1, <2>2, <2>3, <2>4 DEF Changing
<1>14. CASE StoreChanging(g)
  <2>1. go[g].pc = "changed" /\ rate' = [rate EXCEPT !.changing = FALSE] /\ Updated(g)
    BY <1>14 DEF StoreChanging, At
  <2>2. Moves(g, After(g), 0, 0)
    BY <2>1, UpdatedMoves DEF After
  <2>3. /\ rate' \in [current: Nat, nextByteCount: Nat, nextStartTime: Nat, changing: BOOLEAN]
        /\ rate'.changing = FALSE /\ rate'.current = rate.current
        /\ rate'.nextByteCount = rate.nextByteCount
    BY <2>1 DEF GoType
  <2>4. GoType'
    BY <1>2, <2>2, <2>3, TypeStep DEF After
  <2>5. ChangeInv'
    <3>1. \A h \in Goroutines \ {g} : go[h].pc \notin Changing
      BY <2>1 DEF ChangeInv, Changing
    <3>2. \A h \in Goroutines : go'[h].pc \notin Changing
      BY <2>2, <3>1 DEF Moves, Changing, After
    <3> QED
      BY <2>3, <3>2 DEF ChangeInv
  <2>6. LateInv' /\ Uncounted' = Uncounted
    BY <1>4, <2>1, <2>2
  <2>7. \A h \in Goroutines : go'[h].total = go[h].total \/ go'[h].total = 0
    BY <2>2 DEF Moves
  <2>8. RateInv'
    BY <1>2, <2>3, <2>6, <2>7 DEF RateInv
  <2> QED
    BY <2>4, <2>5, <2>6, <2>8
<1> QED
  BY <1>7, <1>8, <1>9, <1>11, <1>12, <1>13, <1>14 DEF Update

\* The driver and the clock, the macOS device and the steps of the process.
LEMMA OtherStep ==
    ASSUME TunInv, CloseFlag, GoInv,
           \/ Arrive \/ Break \/ Tick
           \/ (Setup \/ Stop) /\ UNCHANGED deviceVars
           \/ \E p \in Packets : ReadUtun(p) \/ WriteUtun(p)
           \/ UNCHANGED vars
    PROVE  GoInv'
<1> USE DEF GoInv
<1>1. /\ go' = go /\ rate' = rate /\ late' = late /\ clock' \in Nat
      /\ \/ ring' = ring /\ count' = count
         \/ ring' = ring + 1 /\ count' = count + 1
  <2>1. clock \in Nat
    BY DEF GoType
  <2>2. CASE Arrive
    BY <2>1, <2>2 DEF Arrive
  <2>3. CASE Break
    BY <2>1, <2>3 DEF Break
  <2>4. CASE Tick
    BY <2>1, <2>4 DEF Tick, memory
  <2>5. CASE \E p \in Packets : ReadUtun(p) \/ WriteUtun(p)
    BY <2>1, <2>5 DEF ReadUtun, WriteUtun, utunRest
  <2>6. CASE UNCHANGED deviceVars
    BY <2>1, <2>6 DEF deviceVars, memory
  <2> QED
    BY <2>2, <2>3, <2>4, <2>5, <2>6 DEF vars
<1>2. ~close' => ~close
  <2>1. ASSUME Setup PROVE ~close
    BY <2>1, Orders DEF CloseFlag, TunInv, StepType, Setup, Start, Fail, FailSession, UnixStep,
       OpenAdapter, DeleteExisting, CreateAdapter, Name, StartSession, Netsh, Down, LinuxSteps,
       DarwinSteps, WindowsSteps
  <2>2. ASSUME Stop PROVE close' = close \/ close' = TRUE
    BY <2>2 DEF Stop, Panic, Close, End, RemoveAdapter
  <2>3. ASSUME UNCHANGED tunVars PROVE close' = close
    BY <2>3 DEF tunVars
  <2>4. Setup \/ Stop \/ UNCHANGED tunVars
    BY DEF Arrive, Break, Tick, vars, ReadUtun, WriteUtun, utunRest
  <2> QED
    BY <2>1, <2>2, <2>3, <2>4
<1>3. GoType'
  BY <1>1 DEF GoType
<1>4. LateInv' /\ ChangeInv'
  BY <1>1, <1>2 DEF LateInv, ChangeInv
<1>5. RateInv'
  <2>1. Uncounted \in Nat
    BY UncountedType
  <2>2. \/ Uncounted' = Uncounted /\ count' = count
        \/ Uncounted' = Uncounted + 1 /\ count' = count + 1
    BY <1>1 DEF Uncounted, GoType
  <2>3. /\ count \in Nat /\ rate.current \in Nat /\ rate.nextByteCount \in Nat
        /\ \A g \in Goroutines : go[g].total \in Nat
    BY DEF GoType, Goroutine
  <2> QED
    BY <1>1, <1>2, <2>1, <2>2, <2>3 DEF RateInv
<1> QED
  BY <1>3, <1>4, <1>5

LEMMA DieStep == GoInv /\ Die => GoInv'
<1>1. GoInv /\ Die => Fresh' /\ (clock \in Nat)'
  BY DEF Die, Fresh, GoInv, GoType, NoRate, Idle, Goroutines
<1> QED
  BY <1>1, FreshInv, PTL

LEMMA GoStep == TunInv /\ CloseFlag /\ GoInv /\ [Next]_vars => GoInv'
<1> SUFFICES ASSUME TunInv, CloseFlag, GoInv, [Next]_vars PROVE GoInv'
  OBVIOUS
<1>1. CASE Die
  BY <1>1, DieStep
<1>2. CASE Reader
  BY <1>2, ReadStep, UpdateStep DEF Reader, Goroutines
<1>3. CASE Writer
  BY <1>3, WriteStep, UpdateStep DEF Writer, Goroutines
<1> QED
  BY <1>1, <1>2, <1>3, OtherStep DEF Next

LEMMA GoInvariant == Spec => [](TunInv /\ CloseFlag /\ GoInv)
<1>1. Init => TunInv /\ CloseFlag /\ GoInv
  BY TunInitial, GoInitial DEF Init
<1>2. TunInv /\ CloseFlag /\ GoInv /\ [Next]_vars => TunInv' /\ CloseFlag' /\ GoInv'
  BY TunStep, DeviceStep, CloseFlagStep, GoStep
<1> QED
  BY <1>1, <1>2, PTL DEF Spec

\* Reader and writer never change the measurement at the same time, and the
\* flag tells whether one of them does (rate.changing), however long they run.
THEOREM ChangersExclude == Spec => []OneChanger
<1>1. GoInv => OneChanger
  <2> SUFFICES ASSUME GoInv PROVE OneChanger
    OBVIOUS
  <2> DEFINE C == {g \in Goroutines : go[g].pc \in Changing}
  <2>1. CASE rate.changing
    <3>1. PICK g \in Goroutines : go[g].pc \in Changing
      BY <2>1 DEF GoInv, ChangeInv
    <3>2. C = {g}
      BY <3>1 DEF GoInv, ChangeInv
    <3>3. Cardinality({g}) = 1
      BY FS_Singleton, Zenon
    <3> QED
      BY <2>1, <3>2, <3>3 DEF OneChanger
  <2>2. CASE ~rate.changing
    <3>1. C = {}
      BY <2>2 DEF GoInv, ChangeInv
    <3>2. Cardinality({}) = 0
      BY FS_EmptySet
    <3> QED
      BY <2>2, <3>1, <3>2 DEF OneChanger
  <2> QED
    BY <2>1, <2>2
<1> QED
  BY <1>1, GoInvariant, PTL

\* A Read or Write that Close overtakes makes at most two more calls on the
\* ended session, whatever the session's calls then return.
THEOREM LateCallsFew == Spec => []FewLateCalls
<1>1. GoInv => FewLateCalls
  BY DEF GoInv, LateInv, FewLateCalls
<1> QED
  BY <1>1, GoInvariant, PTL

\* The measured rate is bounded by the packets so far, although the goroutines
\* read and store the parts of the measurement without a lock.
THEOREM RateIsBounded == Spec => []RateBounded
<1>1. GoInv => RateBounded
  BY DEF GoInv, RateInv, RateBounded
<1> QED
  BY <1>1, GoInvariant, PTL

-----------------------------------------------------------------------------
(* The frames of the macOS device.  The buffers hold any leftovers; what   *)
(* matters is that they are long enough.                                   *)

Bytes == Parts \cup {"0", "AF_INET", "AF_INET6"}

FrameInv == buf \in [r: Seq(Bytes), w: Seq(Bytes)] /\ Framed

LEMMA Filled ==
    ASSUME NEW S, NEW z \in S, NEW n \in Nat
    PROVE  [i \in 1..n |-> z] \in Seq(S) /\ Len([i \in 1..n |-> z]) = n
  OBVIOUS

LEMMA ResizeFits ==
    ASSUME NEW S, "0" \in S, NEW b \in Seq(S), NEW n \in Nat
    PROVE  Resize(b, n) \in Seq(S) /\ Len(Resize(b, n)) >= n
<1>1. CASE Len(b) < n
  <2>1. Resize(b, n) = [i \in 1..n |-> "0"]
    BY <1>1 DEF Resize
  <2> QED
    BY <2>1, Filled
<1>2. CASE ~(Len(b) < n)
  BY <1>2 DEF Resize
<1> QED
  BY <1>1, <1>2

\* A header and a packet copied over a buffer.
LEMMA FillValues ==
    ASSUME NEW S, NEW b \in Seq(S), NEW head \in S, NEW p \in Seq(S),
           Len(b) >= Len(p) + 1
    PROVE  /\ Fill(b, head, p) \in Seq(S)
           /\ Fill(b, head, p)[1] = head
           /\ \A i \in 2..(Len(p) + 1) : Fill(b, head, p)[i] = p[i - 1]
           /\ \A i \in 1..(Len(p) + 1) : Fill(b, head, p)[i] \in S
<1> DEFINE f == Fill(b, head, p)
           n == Len(p)
<1>1. n \in Nat /\ Len(b) \in Nat /\ DOMAIN b = 1..Len(b) /\ DOMAIN p = 1..n
  OBVIOUS
<1>2. /\ f = [i \in 1..Len(b) |-> f[i]]
      /\ f[1] = head
      /\ \A i \in 2..(n + 1) : f[i] = p[i - 1]
      /\ \A i \in 1..Len(b) : f[i] \in S
  <2>1. f = [i \in 1..Len(b) |-> IF i = 1 THEN head
                                ELSE IF i <= n + 1 THEN p[i - 1] ELSE b[i]]
    BY <1>1 DEF Fill
  <2>2. \A i \in 2..(n + 1) : i - 1 \in 1..n /\ i \in 1..Len(b) /\ i # 1 /\ i <= n + 1
    BY <1>1
  <2>3. \A i \in 1..n : p[i] \in S
    BY <1>1
  <2>4. \A i \in 1..Len(b) : b[i] \in S
    BY <1>1
  <2> HIDE DEF f
  <2>5. \A i \in 2..(n + 1) : f[i] = p[i - 1]
    BY <2>1, <2>2
  <2>6. f[1] = head
    BY <1>1, <2>1
  <2>7. \A i \in 1..Len(b) : i = 1 \/ i \in 2..(n + 1) \/ f[i] = b[i]
    BY <1>1, <2>1
  <2>8. \A i \in 1..Len(b) : f[i] \in S
    BY <2>2, <2>3, <2>4, <2>5, <2>6, <2>7
  <2> QED
    BY <2>1, <2>5, <2>6, <2>8
<1> HIDE DEF f
<1>4. f \in Seq(S)
  BY <1>1, <1>2, IsASeq
<1>5. (\A i \in 2..(n + 1) : f[i] \in S) /\ (\A i \in 1..(n + 1) : f[i] \in S)
  BY <1>1, <1>2
<1> QED
  BY <1>2, <1>4, <1>5 DEF f, n

\* The packet is read back from behind the header, with its length.
LEMMA FillReads ==
    ASSUME NEW S, NEW b \in Seq(S), NEW head \in S, NEW p \in Seq(S),
           Len(b) >= Len(p) + 1
    PROVE  SubSeq(Fill(b, head, p), 2, Len(p) + 1) = p
<1> DEFINE f == Fill(b, head, p)
           n == Len(p)
<1>1. n \in Nat /\ Len(b) \in Nat
  OBVIOUS
<1>2. /\ f \in Seq(S)
      /\ f[1] = head
      /\ \A i \in 2..(n + 1) : f[i] = p[i - 1]
      /\ \A i \in 1..(n + 1) : f[i] \in S
  BY FillValues
<1> HIDE DEF f
<1>5. (\A i \in 2..(n + 1) : f[i] \in S) /\ (\A i \in 1..(n + 1) : f[i] \in S)
  BY <1>1, <1>2
<1>6. SubSeq(f, 2, n + 1) = p
  <2> DEFINE s == SubSeq(f, 2, n + 1)
  <2>1. s \in Seq(S) /\ Len(s) = n /\ \A i \in 1..n : s[i] = f[i + 1]
    BY <1>1, <1>5, SubSeqProperties
  <2> HIDE DEF s
  <2>2. \A i \in 1..n : s[i] = p[i]
    <3>1. \A i \in 1..n : i + 1 \in 2..(n + 1) /\ (i + 1) - 1 = i
      BY <1>1
    <3> QED
      BY <1>2, <2>1, <3>1
  <2>3. s = p
    BY <2>1, <2>2, SeqEqual
  <2> QED
    BY <2>3 DEF s
<1> QED
  BY <1>6 DEF f, n

\* The header and the packet, and nothing more, are written.
LEMMA FillWrites ==
    ASSUME NEW S, NEW b \in Seq(S), NEW head \in S, NEW p \in Seq(S),
           Len(b) >= Len(p) + 1
    PROVE  SubSeq(Fill(b, head, p), 1, Len(p) + 1) = <<head>> \o p
<1> DEFINE f == Fill(b, head, p)
           n == Len(p)
<1>1. n \in Nat /\ Len(b) \in Nat
  OBVIOUS
<1>2. /\ f \in Seq(S)
      /\ f[1] = head
      /\ \A i \in 2..(n + 1) : f[i] = p[i - 1]
      /\ \A i \in 1..(n + 1) : f[i] \in S
  BY FillValues
<1> HIDE DEF f
<1>5. (\A i \in 2..(n + 1) : f[i] \in S) /\ (\A i \in 1..(n + 1) : f[i] \in S)
  BY <1>1, <1>2
<1>7. SubSeq(f, 1, n + 1) = <<head>> \o p
  <2> DEFINE s == SubSeq(f, 1, n + 1)
             t == <<head>> \o p
  <2>1. s \in Seq(S) /\ Len(s) = n + 1 /\ \A i \in 1..(n + 1) : s[i] = f[i]
    BY <1>1, <1>5, SubSeqProperties
  <2>2. <<head>> \in Seq(S) /\ Len(<<head>>) = 1 /\ <<head>>[1] = head
    OBVIOUS
  <2>3. /\ t \in Seq(S) /\ Len(t) = 1 + n
        /\ \A i \in 1..(1 + n) : t[i] = IF i <= 1 THEN <<head>>[i] ELSE p[i - 1]
    BY <1>1, <2>2, ConcatProperties
  <2> HIDE DEF s, t, n
  <2>4. \A i \in 1..(n + 1) : s[i] = t[i]
    <3>1. ASSUME NEW i \in 2..(n + 1)
          PROVE  s[i] = t[i]
      <4>1. i \in 1..(n + 1) /\ i \in 1..(1 + n) /\ ~(i <= 1)
        BY <1>1
      <4> QED
        BY <1>2, <2>1, <2>3, <4>1
    <3>2. 1 \in 1..(n + 1) /\ 1 \in 1..(1 + n)
      BY <1>1
    <3>3. s[1] = f[1]
      BY <2>1, <3>2
    <3>4. t[1] = <<head>>[1]
      BY <2>3, <3>2
    <3>5. s[1] = t[1]
      BY <1>2, <2>2, <3>3, <3>4
    <3>6. \A i \in 1..(n + 1) : i = 1 \/ i \in 2..(n + 1)
      BY <1>1
    <3> QED
      BY <3>1, <3>5, <3>6
  <2>5. 1 + n = n + 1
    BY <1>1
  <2>6. s = t
    BY <2>1, <2>3, <2>4, <2>5, SeqEqual
  <2> QED
    BY <2>6 DEF s, t
<1> QED
  BY <1>7 DEF f, n

LEMMA UtunFrames ==
    ASSUME FrameInv, NEW p \in Packets, ReadUtun(p) \/ WriteUtun(p)
    PROVE  FrameInv'
<1>1. p \in Seq(Bytes) /\ Len(p) \in Nat /\ BufferSize \in Nat /\ Len(p) <= BufferSize
  BY DeviceAssumption DEF Bytes
<1>0. "0" \in Bytes
  BY DEF Bytes
<1>2. \A v \in Versions : Family[v] \in Bytes
  <2>1. Versions = {"v4", "v6"} /\ Family["v4"] = "AF_INET" /\ Family["v6"] = "AF_INET6"
    BY DEF Versions, Family
  <2> QED
    BY <2>1 DEF Bytes
<1>3. buf \in [r: Seq(Bytes), w: Seq(Bytes)]
  BY DEF FrameInv
<1>4. CASE ReadUtun(p)
  <2>1. PICK b : b = Resize(buf.r, BufferSize + 1)
    OBVIOUS
  <2>2. PICK head : head = Family[p[1]]
    OBVIOUS
  <2>3. b \in Seq(Bytes) /\ Len(b) >= Len(p) + 1
    BY <1>0, <1>1, <1>3, <2>1, ResizeFits
  <2>4. /\ head \in Bytes
        /\ buf' = [buf EXCEPT !.r = Fill(b, head, p)]
        /\ frame' = [want |-> p, got |-> SubSeq(Fill(b, head, p), 2, Len(p) + 1)]
    BY <1>2, <1>4, <2>1, <2>2 DEF ReadUtun
  <2>5. Fill(b, head, p) \in Seq(Bytes) /\ SubSeq(Fill(b, head, p), 2, Len(p) + 1) = p
    <3>1. p \in Seq(Bytes) /\ b \in Seq(Bytes) /\ head \in Bytes /\ Len(b) >= Len(p) + 1
      BY <1>1, <2>3, <2>4
    <3> QED
      BY <3>1, FillValues, FillReads
  <2> QED
    BY <1>3, <2>4, <2>5 DEF FrameInv, Framed
<1>5. CASE WriteUtun(p)
  <2>1. PICK b : b = Resize(buf.w, Len(p) + 1)
    OBVIOUS
  <2>2. PICK head : head = Family[p[1]]
    OBVIOUS
  <2>3. b \in Seq(Bytes) /\ Len(b) >= Len(p) + 1
    BY <1>0, <1>1, <1>3, <2>1, ResizeFits
  <2>4. CASE p[1] \in Versions
    <3>1. /\ head \in Bytes
          /\ buf' = [buf EXCEPT !.w = Fill(b, head, p)]
          /\ frame' = [want |-> <<head>> \o p,
                       got |-> SubSeq(Fill(b, head, p), 1, Len(p) + 1)]
      BY <1>2, <1>5, <2>1, <2>2, <2>4 DEF WriteUtun
    <3>2. /\ Fill(b, head, p) \in Seq(Bytes)
          /\ SubSeq(Fill(b, head, p), 1, Len(p) + 1) = <<head>> \o p
      <4>1. p \in Seq(Bytes) /\ b \in Seq(Bytes) /\ head \in Bytes /\ Len(b) >= Len(p) + 1
        BY <1>1, <2>3, <3>1
      <4> QED
        BY <4>1, FillValues, FillWrites
    <3> QED
      BY <1>3, <3>1, <3>2 DEF FrameInv, Framed
  <2>5. CASE p[1] \notin Versions
    <3>1. buf' = [buf EXCEPT !.w = b] /\ frame' = frame
      BY <1>5, <2>1, <2>5 DEF WriteUtun
    <3> QED
      BY <1>3, <2>3, <3>1 DEF FrameInv, Framed
  <2> QED
    BY <2>4, <2>5
<1> QED
  BY <1>4, <1>5

LEMMA FrameStep == FrameInv /\ [Next]_vars => FrameInv'
<1> SUFFICES ASSUME FrameInv, [Next]_vars PROVE FrameInv'
  OBVIOUS
<1>1. CASE Die
  <2>1. buf' = [r |-> <<>>, w |-> <<>>] /\ frame' = NoFrame
    BY <1>1 DEF Die
  <2> QED
    BY <2>1 DEF FrameInv, Framed, NoFrame
<1>2. CASE \E p \in Packets : ReadUtun(p) \/ WriteUtun(p)
  BY <1>2, UtunFrames
<1>3. CASE UNCHANGED <<buf, frame>>
  BY <1>3 DEF FrameInv, Framed
<1>4. (Setup \/ Stop) /\ UNCHANGED deviceVars => UNCHANGED <<buf, frame>>
  BY DEF deviceVars, memory
<1>5. Arrive \/ Break \/ Tick => UNCHANGED <<buf, frame>>
  BY DEF Arrive, Break, Tick, memory
<1>6. ASSUME NEW g \in Goroutines, Update(g) PROVE UNCHANGED <<buf, frame>>
  BY <1>6 DEF Update, Add, Load, Swap, StoreStart, StoreCurrent, StoreCount, StoreChanging, rest
<1>7. Reader \/ Writer => UNCHANGED <<buf, frame>>
  BY <1>6 DEF Reader, Writer, ReadTop, ReadTest, Receive, ReceiveNone, ReceiveFails, Wait,
      Release, WriteTop, Allocate, Send, Goroutines
<1>8. UNCHANGED vars => UNCHANGED <<buf, frame>>
  BY DEF vars, deviceVars, memory
<1> QED
  BY <1>1, <1>2, <1>3, <1>4, <1>5, <1>7, <1>8 DEF Next

\* Whatever was in the buffers before, a frame on the macOS descriptor is the
\* header and the packet of its own call, of any length up to the buffer's
\* (tunReadCloser.Read and Write).
THEOREM FramesWhole == Spec => []Framed
<1>1. Init => FrameInv
  BY DEF Init, FrameInv, Framed, NoFrame
<1>2. FrameInv => Framed
  BY DEF FrameInv
<1> QED
  BY <1>1, <1>2, FrameStep, PTL DEF Spec
=============================================================================
