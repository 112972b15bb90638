------------------------------ MODULE LazyDLL ------------------------------
(***************************************************************************)
(* The lazily loaded wintun.dll (src/node/tun/wintun/dll_windows.go, with  *)
(* Load from dll_fromfile_windows.go; dll_fromrsrc_windows.go differs only *)
(* in where the library comes from).  Every call into the driver resolves  *)
(* its procedure with lazyProc.Addr, from any goroutine; the first one     *)
(* loads the library, and the onLoad callback (setupLogger) resolves one   *)
(* more procedure of the same library while the library's mutex is held.   *)
(*                                                                         *)
(* A frame is one activation of lazyProc.Addr: the thread's own call, or   *)
(* the call of setupLogger nested in it.  A failure of Find makes Addr     *)
(* panic; nothing recovers, so the process ends.                           *)
(***************************************************************************)
EXTENDS Naturals, FiniteSets

CONSTANTS
  Threads,   \* the goroutines that call into the driver
  Procs,     \* the procedures of the driver they resolve
  Logger,    \* WintunSetLogger, resolved by setupLogger alone
  None       \* no owner

ASSUME LazyDLLAssumption ==
  /\ Logger \notin Procs
  /\ None \notin Threads \X {"call", "onLoad"}
  /\ IsFiniteSet(Threads)

VARIABLES
  module,    \* lazyDLL.module is not nil
  dllMu,     \* owner of lazyDLL.mu
  procMu,    \* owner of lazyProc.mu, per procedure
  addr,      \* lazyProc.addr is not nil, per procedure
  pc,        \* where each frame is
  proc,      \* the procedure each frame resolves
  loads,     \* how many times the library was loaded
  panicked   \* the process has ended with a panic

vars == <<module, dllMu, procMu, addr, pc, proc, loads, panicked>>

Frames == Threads \X {"call", "onLoad"}

AllProcs == Procs \cup {Logger}

Steps == {"idle", "find", "findLock", "load", "loadLock", "loading", "store",
          "onLoad", "inOnLoad", "resolve", "unlock"}

TypeOK ==
  /\ module \in BOOLEAN
  /\ dllMu \in Frames \cup {None}
  /\ procMu \in [AllProcs -> Frames \cup {None}]
  /\ addr \in [AllProcs -> BOOLEAN]
  /\ pc \in [Frames -> Steps]
  /\ proc \in [Frames -> AllProcs]
  /\ loads \in Nat
  /\ panicked \in BOOLEAN

Init ==
  /\ module = FALSE
  /\ dllMu = None
  /\ procMu = [p \in AllProcs |-> None]
  /\ addr = [p \in AllProcs |-> FALSE]
  /\ pc = [f \in Frames |-> "idle"]
  /\ proc = [f \in Frames |-> Logger]
  /\ loads = 0
  /\ panicked = FALSE

Goto(f, step) == pc' = [pc EXCEPT ![f] = step]

At(f, step) == pc[f] = step /\ ~panicked

----------------------------------------------------------------------------
(* lazyProc.Find *)

\* A goroutine calls Addr, hence Find, of one of the procedures.
Call(t, p) ==
  /\ At(<<t, "call">>, "idle")
  /\ Goto(<<t, "call">>, "find")
  /\ proc' = [proc EXCEPT ![<<t, "call">>] = p]
  /\ UNCHANGED <<module, dllMu, procMu, addr, loads, panicked>>

\* The atomic load of p.addr: a resolved procedure needs no lock.
FindFast(f) ==
  /\ At(f, "find")
  /\ Goto(f, IF addr[proc[f]] THEN "idle" ELSE "findLock")
  /\ UNCHANGED <<module, dllMu, procMu, addr, proc, loads, panicked>>

\* p.mu.Lock() and the second test of p.addr, which releases it again when
\* the procedure was resolved meanwhile.
FindLock(f) ==
  /\ At(f, "findLock")
  /\ procMu[proc[f]] = None
  /\ IF addr[proc[f]]
       THEN Goto(f, "idle") /\ UNCHANGED procMu
       ELSE Goto(f, "load") /\ procMu' = [procMu EXCEPT ![proc[f]] = f]
  /\ UNCHANGED <<module, dllMu, addr, proc, loads, panicked>>

\* nameToAddr finds the procedure, which takes a library to look in, and the
\* atomic store publishes it.
Resolve(f) ==
  /\ At(f, "resolve")
  /\ module
  /\ addr' = [addr EXCEPT ![proc[f]] = TRUE]
  /\ Goto(f, "unlock")
  /\ UNCHANGED <<module, dllMu, procMu, proc, loads, panicked>>

\* The deferred p.mu.Unlock() and the return from Addr.
FindUnlock(f) ==
  /\ At(f, "unlock")
  /\ procMu' = [procMu EXCEPT ![proc[f]] = None]
  /\ Goto(f, "idle")
  /\ UNCHANGED <<module, dllMu, addr, proc, loads, panicked>>

----------------------------------------------------------------------------
(* lazyDLL.Load *)

\* The atomic load of d.module: a loaded library needs no lock.
LoadFast(f) ==
  /\ At(f, "load")
  /\ Goto(f, IF module THEN "resolve" ELSE "loadLock")
  /\ UNCHANGED <<module, dllMu, procMu, addr, proc, loads, panicked>>

\* MUTANT of LoadLock: d.module is not tested again under the mutex.
LoadLockUntested(f) ==
  /\ At(f, "loadLock")
  /\ dllMu = None
  /\ Goto(f, "loading")
  /\ dllMu' = f
  /\ UNCHANGED <<module, procMu, addr, proc, loads, panicked>>

\* d.mu.Lock() and the second test of d.module.
LoadLock(f) ==
  /\ At(f, "loadLock")
  /\ dllMu = None
  /\ IF module
       THEN Goto(f, "resolve") /\ UNCHANGED dllMu
       ELSE Goto(f, "loading") /\ dllMu' = f
  /\ UNCHANGED <<module, procMu, addr, proc, loads, panicked>>

\* The library is loaded: LoadLibraryEx, or the resource and memmod.
LoadLibrary(f) ==
  /\ At(f, "loading")
  /\ loads' = loads + 1
  /\ Goto(f, "store")
  /\ UNCHANGED <<module, dllMu, procMu, addr, proc, panicked>>

\* MUTANT of StoreModule: the module is stored after onLoad, not before.
StoreModuleLater(f) ==
  /\ At(f, "store")
  /\ Goto(f, "onLoad")
  /\ UNCHANGED <<module, dllMu, procMu, addr, proc, loads, panicked>>

\* The atomic store of d.module.
StoreModule(f) ==
  /\ At(f, "store")
  /\ module' = TRUE
  /\ Goto(f, "onLoad")
  /\ UNCHANGED <<dllMu, procMu, addr, proc, loads, panicked>>

\* d.onLoad is setupLogger: it calls Addr of a new lazyProc, in this thread.
OnLoad(t) ==
  /\ At(<<t, "call">>, "onLoad")
  /\ pc' = [pc EXCEPT ![<<t, "call">>] = "inOnLoad", ![<<t, "onLoad">>] = "find"]
  /\ UNCHANGED <<module, dllMu, procMu, addr, proc, loads, panicked>>

\* MUTANT of LoadDone: Load returns without releasing the mutex.
LoadDoneLocked(t) ==
  /\ At(<<t, "call">>, "inOnLoad")
  /\ pc[<<t, "onLoad">>] = "idle"
  /\ Goto(<<t, "call">>, "resolve")
  /\ UNCHANGED <<module, dllMu, procMu, addr, proc, loads, panicked>>

\* setupLogger returns, and with it Load, whose deferred d.mu.Unlock() runs.
LoadDone(t) ==
  /\ At(<<t, "call">>, "inOnLoad")
  /\ pc[<<t, "onLoad">>] = "idle"
  /\ dllMu' = None
  /\ Goto(<<t, "call">>, "resolve")
  /\ UNCHANGED <<module, procMu, addr, proc, loads, panicked>>

\* MUTANT of Fail: Addr ignores the error of Find.
FailIgnored(f) ==
  /\ At(f, "resolve")
  /\ procMu' = [procMu EXCEPT ![proc[f]] = None]
  /\ Goto(f, "idle")
  /\ UNCHANGED <<module, dllMu, addr, proc, loads, panicked>>

\* The library or one of its procedures is missing: Find returns the error
\* and Addr panics with it.
Fail(f) ==
  /\ At(f, "loading") \/ At(f, "resolve")
  /\ panicked' = TRUE
  /\ UNCHANGED <<module, dllMu, procMu, addr, pc, proc, loads>>

\* The process has ended.
Ended ==
  /\ panicked
  /\ UNCHANGED vars

----------------------------------------------------------------------------
(* The steps of a frame after its first one, those the scheduler owes it. *)
Step(f) ==
  \/ FindFast(f)
  \/ FindLock(f)
  \/ Resolve(f)
  \/ FindUnlock(f)
  \/ LoadFast(f)
  \/ LoadLock(f)
  \/ LoadLibrary(f)
  \/ StoreModule(f)

Next ==
  \/ \E t \in Threads, p \in Procs : Call(t, p)
  \/ \E f \in Frames : Step(f) \/ Fail(f)
  \/ \E t \in Threads : OnLoad(t) \/ LoadDone(t)
  \/ Ended

Fairness ==
  /\ \A f \in Frames : WF_vars(Step(f))
  /\ \A t \in Threads : WF_vars(OnLoad(t)) /\ WF_vars(LoadDone(t))

Spec == Init /\ [][Next]_vars /\ Fairness

----------------------------------------------------------------------------
(* Properties *)

\* The two tests of d.module around the mutex load the library at most once,
\* whatever goroutines make the first call together (lazyDLL.Load).
LoadedOnce == loads <= 1

\* The steps at which a frame holds d.mu, and p.mu of its procedure.
Loading == {"loading", "store", "onLoad", "inOnLoad"}

Finding == Loading \cup {"load", "loadLock", "resolve", "unlock"}

\* Every mutex is held by the frame inside its critical section and by nobody
\* else, no return path leaks one, and the frame that loads the library is
\* alone; the call of setupLogger runs only inside its own thread's Load, with
\* the library stored, so that it never comes to wait for d.mu.  (Load, Find.)
LoadInv ==
  /\ TypeOK
  /\ \A f \in Frames : dllMu = f <=> pc[f] \in Loading
  /\ \A f \in Frames, p \in AllProcs :
       procMu[p] = f <=> pc[f] \in Finding /\ proc[f] = p
  /\ \A f \in Frames :
       /\ pc[f] \in {"loading", "store"} => ~module
       /\ pc[f] \in {"onLoad", "inOnLoad", "resolve"} => module
       /\ pc[f] = "unlock" => addr[proc[f]]
  /\ \A t \in Threads :
       pc[<<t, "onLoad">>] # "idle" => /\ pc[<<t, "call">>] = "inOnLoad"
                                       /\ pc[<<t, "onLoad">>] # "loadLock"
  /\ loads = IF module \/ \E f \in Frames : pc[f] = "store" THEN 1 ELSE 0

\* Addr returns only when the procedure has its address: the use of p.addr
\* after Find, outside every lock, never reads the zero value.
ReturnsAddr ==
  [][\A f \in Frames :
       pc[f] # "idle" /\ pc'[f] = "idle" => addr'[proc[f]]]_vars

\* Every call into the driver gets its procedure or ends the process; in
\* particular the call nested in onLoad does not wait for the mutex its own
\* thread holds.
CallReturns ==
  \A f \in Frames : pc[f] # "idle" ~> pc[f] = "idle" \/ panicked
=============================================================================
