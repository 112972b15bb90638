-------------------------------- MODULE Tun ---------------------------------
(***************************************************************************)
(* The life of the TUN interface (NewTUN in node/tun/tun_linux.go,         *)
(* tun_darwin.go and tun_windows.go, and Serve in node/node.go): a node    *)
(* starts, makes and configures an interface, any system call of which may *)
(* fail, serves, and is killed at any moment or closes the interface after *)
(* a panic, perhaps to be started again on the same machine.               *)
(*                                                                         *)
(* On Linux and macOS the interface belongs to a file descriptor, and none *)
(* outlives the process.  A Wintun adapter does outlive it: whatever one   *)
(* run leaves behind is found by the next.  There may also be an interface *)
(* of another program that has the name this one wants.                    *)
(*                                                                         *)
(* Serve's schedule never returns (its context is only cancelled when Serve *)
(* does), so dev.Close, which Serve defers, runs only when schedule panics, *)
(* and the process dies when the deferred calls are done.                  *)
(***************************************************************************)
EXTENDS Naturals, FiniteSets

CONSTANTS
    Systems,  \* the operating systems of this instance
    None,     \* no interface
    MaxRuns   \* bound of the model on the starts of the node

ASSUME TunAssumption ==
    /\ Systems \subseteq {"linux", "darwin", "windows"}
    /\ None \notin Nat
    /\ MaxRuns \in Nat

VARIABLES
    os,       \* the operating system
    ifaces,   \* the interfaces of the machine, by the run that made each
    run,      \* number of the current or the latest run of the node
    step,     \* what the node does: see Down, NewTUN and Closing
    dev,      \* the interface NewTUN has made or opened
    session,  \* the adapter of the open Wintun session
    close     \* windowsDevice.close

tunVars == <<os, ifaces, run, step, dev, session, close>>

\* An interface: its name and the run that gave it its address.  A run makes
\* at most one, and 0 stands for one of another program.
Interface == [name: {"zetamesh", "other"}, set: Nat]
Foreign == 0

\* The system calls and commands of NewTUN, each with the one after it.
Linux == [open |-> "TUNSETIFF", TUNSETIFF |-> "setmtu", setmtu |-> "addr",
          addr |-> "up", up |-> "serve"]
Darwin == [socket |-> "CTLIOCGINFO", CTLIOCGINFO |-> "connect", connect |-> "ifname",
           ifname |-> "nonblock", nonblock |-> "setmtu", setmtu |-> "ifconfig",
           ifconfig |-> "route", route |-> "serve"]
Windows == [OpenAdapter |-> "Delete", Delete |-> "CreateAdapter",
            CreateAdapter |-> "Name", Name |-> "StartSession",
            StartSession |-> "netsh", netsh |-> "serve"]

NewTUN == CASE os = "linux" -> Linux [] os = "darwin" -> Darwin [] os = "windows" -> Windows
First == CASE os = "linux" -> "open" [] os = "darwin" -> "socket" [] os = "windows" -> "OpenAdapter"

Down == "down"
Closing == {"close", "End", "remove", "exit"}

TunInit ==
    /\ os \in Systems
    /\ \E I \in SUBSET {Foreign} : ifaces = [i \in I |-> [name |-> "zetamesh", set |-> 0]]
    /\ run = 0
    /\ step = Down
    /\ dev = None
    /\ session = None
    /\ close = FALSE

-----------------------------------------------------------------------------
(* What the system calls do to the interfaces                              *)

Ours == DOMAIN ifaces \ {Foreign}
Taken == \E i \in DOMAIN ifaces : ifaces[i].name = "zetamesh"
Remove(i) == [j \in DOMAIN ifaces \ {i} |-> ifaces[j]]

\* A Wintun adapter gets the name it asks for if that is free; on Linux and
\* macOS the kernel picks a free name.
Make ==
    [j \in DOMAIN ifaces \cup {run} |->
       IF j = run
       THEN [name |-> IF os # "windows" \/ Taken THEN "other" ELSE "zetamesh", set |-> 0]
       ELSE ifaces[j]]

\* Mutant: the address is set on the interface called "zetamesh".
ConfigureByName(i) ==
    [j \in DOMAIN ifaces |->
       IF ifaces[j].name = "zetamesh" THEN [ifaces[j] EXCEPT !.set = run] ELSE ifaces[j]]

\* The command names the interface by the name read from it.
Configure(i) == [ifaces EXCEPT ![i].set = run]

\* What is left when the process ends: its descriptors and sessions are closed.
Ended ==
    IF os = "windows" THEN ifaces
    ELSE [j \in DOMAIN ifaces \cap {Foreign} |-> ifaces[j]]

Exit ==
    /\ ifaces' = Ended
    /\ step' = Down
    /\ dev' = None
    /\ session' = None
    /\ close' = FALSE
    /\ UNCHANGED <<os, run>>

-----------------------------------------------------------------------------
(* The node                                                                *)

\* Serve finds a port, dials the gateway and calls NewTUN.
Start ==
    /\ step = Down
    /\ run < MaxRuns
    /\ run' = run + 1
    /\ step' = First
    /\ UNCHANGED <<os, ifaces, dev, session, close>>

\* A step of NewTUN fails: NewTUN and Serve return the error and the process
\* ends.  Without an adapter of that name OpenAdapter's error is no failure.
Fail ==
    /\ step \in DOMAIN NewTUN \ {"OpenAdapter", "StartSession"}
    /\ Exit

\* The session cannot be started: the adapter is deleted, unless that fails too.
FailSession ==
    /\ step = "StartSession"
    /\ ifaces' \in {Remove(dev), ifaces}
    /\ step' = Down
    /\ dev' = None
    /\ UNCHANGED <<os, run, session, close>>

\* The interface appears when the descriptor is bound to one.
UnixStep ==
    /\ os # "windows"
    /\ step \in DOMAIN NewTUN
    /\ IF step \in {"TUNSETIFF", "connect"}
       THEN ifaces' = Make /\ dev' = run
       ELSE /\ ifaces' = IF step \in {"addr", "ifconfig"} THEN Configure(dev) ELSE ifaces
            /\ UNCHANGED dev
    /\ step' = NewTUN[step]
    /\ UNCHANGED <<os, run, session, close>>

\* Mutant: an adapter that exists is used again.
OpenAdapterReuses ==
    /\ step = "OpenAdapter"
    /\ \/ \E i \in Ours : ifaces[i].name = "zetamesh" /\ dev' = i /\ step' = "Name"
       \/ /\ \A i \in Ours : ifaces[i].name # "zetamesh"
          /\ step' = "CreateAdapter" /\ UNCHANGED dev
    /\ UNCHANGED <<os, ifaces, run, session, close>>

\* OpenAdapter finds an adapter of this name and of this program, or fails.
OpenAdapter ==
    /\ step = "OpenAdapter"
    /\ \/ \E i \in Ours : ifaces[i].name = "zetamesh" /\ dev' = i /\ step' = "Delete"
       \/ /\ \A i \in Ours : ifaces[i].name # "zetamesh"
          /\ step' = "CreateAdapter" /\ UNCHANGED dev
    /\ UNCHANGED <<os, ifaces, run, session, close>>

\* Mutant: a failure to delete the adapter is ignored.
DeleteExistingMaybe ==
    /\ step = "Delete"
    /\ ifaces' \in {Remove(dev), ifaces}
    /\ dev' = None
    /\ step' = NewTUN[step]
    /\ UNCHANGED <<os, run, session, close>>

\* "If so, we delete it, in case it has weird residual configuration."
DeleteExisting ==
    /\ step = "Delete"
    /\ ifaces' = Remove(dev)
    /\ dev' = None
    /\ step' = NewTUN[step]
    /\ UNCHANGED <<os, run, session, close>>

CreateAdapter ==
    /\ step = "CreateAdapter"
    /\ ifaces' = Make
    /\ dev' = run
    /\ step' = NewTUN[step]
    /\ UNCHANGED <<os, run, session, close>>

Name ==
    /\ step = "Name"
    /\ step' = NewTUN[step]
    /\ UNCHANGED <<os, ifaces, run, dev, session, close>>

StartSession ==
    /\ step = "StartSession"
    /\ session' = dev
    /\ step' = NewTUN[step]
    /\ UNCHANGED <<os, ifaces, run, dev, close>>

Netsh ==
    /\ step = "netsh"
    /\ ifaces' = Configure(dev)
    /\ step' = NewTUN[step]
    /\ UNCHANGED <<os, run, dev, session, close>>

\* schedule panics, and the deferred dev.Close is called.
Panic ==
    /\ step = "serve"
    /\ step' = "close"
    /\ UNCHANGED <<os, ifaces, run, dev, session, close>>

\* Close of an os.File takes the interface away; windowsDevice.Close sets its
\* flag, ends the session and deletes the adapter, with no regard to a Read or
\* a Write in progress.
Close ==
    /\ step = "close"
    /\ IF os = "windows"
       THEN close' = TRUE /\ step' = "End" /\ UNCHANGED ifaces
       ELSE ifaces' = Ended /\ step' = "exit" /\ UNCHANGED close
    /\ UNCHANGED <<os, run, dev, session>>

End ==
    /\ step = "End"
    /\ session' = None
    /\ step' = "remove"
    /\ UNCHANGED <<os, ifaces, run, dev, close>>

RemoveAdapter ==
    /\ step = "remove"
    /\ ifaces' \in {Remove(dev), ifaces}
    /\ step' = "exit"
    /\ UNCHANGED <<os, run, dev, session, close>>

Setup ==
    \/ Start
    \/ Fail
    \/ FailSession
    \/ UnixStep
    \/ OpenAdapter
    \/ DeleteExisting
    \/ CreateAdapter
    \/ Name
    \/ StartSession
    \/ Netsh

Stop ==
    \/ Panic
    \/ Close
    \/ End
    \/ RemoveAdapter

\* The process is killed, at any moment, or dies of the panic.
Kill == step # Down /\ Exit

TunNext == Setup \/ Stop \/ Kill

TunSpec == TunInit /\ [][TunNext]_tunVars

-----------------------------------------------------------------------------
(* Properties                                                              *)

\* A node serves on an interface that this very run made and configured, never
\* on one an earlier run left behind half configured (NewTUN's Delete(true)
\* before CreateAdapter), whatever failed or was killed before.
OwnInterface ==
    step = "serve" =>
        /\ dev = run
        /\ run \in DOMAIN ifaces /\ ifaces[run].set = run
        /\ os = "windows" => session = dev

\* An interface of another program is never deleted or given an address, even
\* if it has the name this program wants (OpenAdapter's error, wt.Name()).
OthersKept ==
    [][(Foreign \in DOMAIN ifaces) =>
         Foreign \in DOMAIN ifaces' /\ ifaces'[Foreign] = ifaces[Foreign]]_tunVars

\* Adapters do not pile up over crashes, failed starts and restarts: if no
\* other program has the name, there is at most one of this program.
OneAdapter == Foreign \notin DOMAIN ifaces => Cardinality(DOMAIN ifaces) <= 1
=============================================================================
