--------------------------- MODULE LazyDLLProofs ---------------------------
(***************************************************************************)
(* Proofs about LazyDLL, for any number of goroutines and procedures:      *)
(* LoadInv is inductive as it stands, the library is loaded once and no    *)
(* call returns without an address.                                        *)
(***************************************************************************)
EXTENDS LazyDLL, TLAPS

(* The frames of two threads, and the two frames of one, are different. *)
LEMMA FrameFacts ==
  /\ \A t \in Threads : <<t, "call">> \in Frames /\ <<t, "onLoad">> \in Frames
  /\ \A f \in Frames : f # None
  /\ \A f \in Frames : \E t \in Threads : f = <<t, "call">> \/ f = <<t, "onLoad">>
  /\ \A t, u \in Threads : <<t, "call">> # <<u, "onLoad">>
  /\ \A t, u \in Threads : <<t, "call">> = <<u, "call">> => t = u
  /\ \A t, u \in Threads : <<t, "onLoad">> = <<u, "onLoad">> => t = u
  BY LazyDLLAssumption DEF Frames

(* The initial state satisfies the invariant: nobody is in any section. *)
LEMMA InitLoadInv == Init => LoadInv
<1> SUFFICES ASSUME Init PROVE LoadInv
  OBVIOUS
<1> USE FrameFacts DEF Init
<1>1. TypeOK
  BY DEF TypeOK, AllProcs, Steps
<1>2. \A f \in Frames : pc[f] = "idle"
  OBVIOUS
<1>3. \A f \in Frames, p \in AllProcs : procMu[p] # f
  OBVIOUS
<1> QED
  BY <1>1, <1>2, <1>3 DEF LoadInv, Loading, Finding

(* Every step preserves LoadInv: a lock is taken only when free and given   *)
(* back only by its owner, and module is stored only by the owner of d.mu.  *)
LEMMA NextLoadInv == LoadInv /\ [Next]_vars => LoadInv'
<1> SUFFICES ASSUME LoadInv, [Next]_vars PROVE LoadInv'
  OBVIOUS
<1> USE FrameFacts DEF LoadInv, TypeOK, Steps, Loading, Finding, At, Goto
<1>1. ASSUME NEW t \in Threads, NEW p \in Procs, Call(t, p) PROVE LoadInv'
  <2> DEFINE c == <<t, "call">>
  <2>1. c \in Frames /\ c # None /\ pc[c] = "idle"
    BY <1>1 DEF Call
  <2>2. pc[<<t, "onLoad">>] = "idle"
    BY <2>1
  <2>3. /\ pc' = [pc EXCEPT ![c] = "find"]
        /\ proc' = [proc EXCEPT ![c] = p]
        /\ UNCHANGED <<module, dllMu, procMu, addr, loads, panicked>>
    BY <1>1 DEF Call
  <2>4. p \in AllProcs
    BY DEF AllProcs
  <2> HIDE DEF c
  <2>5. TypeOK'
    BY <2>1, <2>3, <2>4
  <2>6. \A u \in Threads :
          pc'[<<u, "onLoad">>] # "idle" => /\ pc'[<<u, "call">>] = "inOnLoad"
                                          /\ pc'[<<u, "onLoad">>] # "loadLock"
    BY <2>1, <2>2, <2>3 DEF c
  <2> QED
    BY <2>1, <2>3, <2>5, <2>6
<1>2. ASSUME NEW f \in Frames, FindFast(f) PROVE LoadInv'
  BY <1>2 DEF FindFast
<1>3. ASSUME NEW f \in Frames, FindLock(f) PROVE LoadInv'
  BY <1>3 DEF FindLock
<1>4. ASSUME NEW f \in Frames, Resolve(f) PROVE LoadInv'
  BY <1>4 DEF Resolve
<1>5. ASSUME NEW f \in Frames, FindUnlock(f) PROVE LoadInv'
  BY <1>5 DEF FindUnlock
<1>6. ASSUME NEW f \in Frames, LoadFast(f) PROVE LoadInv'
  BY <1>6 DEF LoadFast
<1>7. ASSUME NEW f \in Frames, LoadLock(f) PROVE LoadInv'
  BY <1>7 DEF LoadLock
<1>8. ASSUME NEW f \in Frames, LoadLibrary(f) PROVE LoadInv'
  BY <1>8 DEF LoadLibrary
<1>9. ASSUME NEW f \in Frames, StoreModule(f) PROVE LoadInv'
  BY <1>9 DEF StoreModule
<1>10. ASSUME NEW t \in Threads, OnLoad(t) PROVE LoadInv'
  <2> DEFINE c == <<t, "call">>
             l == <<t, "onLoad">>
  <2>1. c \in Frames /\ l \in Frames /\ c # l /\ c # None /\ l # None
    OBVIOUS
  <2>2. pc[c] = "onLoad" /\ pc[l] = "idle" /\ pc'[c] = "inOnLoad" /\ pc'[l] = "find"
    BY <1>10, <2>1 DEF OnLoad
  <2>3. \A u \in Threads \ {t} :
          /\ <<u, "call">> \in Frames \ {c, l}
          /\ <<u, "onLoad">> \in Frames \ {c, l}
    OBVIOUS
  <2>4. \A g \in Frames \ {c, l} : pc'[g] = pc[g]
    BY <1>10 DEF OnLoad
  <2> HIDE DEF c, l
  <2>5. \A u \in Threads :
          pc'[<<u, "onLoad">>] # "idle" => /\ pc'[<<u, "call">>] = "inOnLoad"
                                          /\ pc'[<<u, "onLoad">>] # "loadLock"
    BY <2>1, <2>2, <2>3, <2>4 DEF c, l
  <2>6. TypeOK'
    BY <1>10, <2>1 DEF OnLoad, c, l
  <2>7. UNCHANGED <<module, dllMu, procMu, addr, proc, loads, panicked>>
    BY <1>10 DEF OnLoad
  <2>8. (\E g \in Frames : pc'[g] = "store") <=> \E g \in Frames : pc[g] = "store"
    BY <2>1, <2>2, <2>4
  <2>9. \A g \in Frames, p \in AllProcs :
          procMu'[p] = g <=> pc'[g] \in Finding /\ proc'[g] = p
    BY <2>1, <2>2, <2>4, <2>7
  <2> QED
    BY <2>1, <2>2, <2>4, <2>5, <2>6, <2>7, <2>8, <2>9
<1>11. ASSUME NEW t \in Threads, LoadDone(t) PROVE LoadInv'
  <2> DEFINE c == <<t, "call">>
             l == <<t, "onLoad">>
  <2>1. c \in Frames /\ l \in Frames /\ c # l /\ c # None /\ l # None
    OBVIOUS
  <2>2. pc[c] = "inOnLoad" /\ pc[l] = "idle" /\ pc'[c] = "resolve" /\ pc'[l] = "idle"
    BY <1>11, <2>1 DEF LoadDone
  <2>3. \A u \in Threads \ {t} :
          /\ <<u, "call">> \in Frames \ {c, l}
          /\ <<u, "onLoad">> \in Frames \ {c, l}
    OBVIOUS
  <2>4. \A g \in Frames \ {c, l} : pc'[g] = pc[g]
    BY <1>11 DEF LoadDone
  <2> HIDE DEF c, l
  <2>5. \A u \in Threads :
          pc'[<<u, "onLoad">>] # "idle" => /\ pc'[<<u, "call">>] = "inOnLoad"
                                          /\ pc'[<<u, "onLoad">>] # "loadLock"
    BY <2>1, <2>2, <2>3, <2>4 DEF c, l
  <2>6. TypeOK'
    BY <1>11, <2>1 DEF LoadDone, c, l
  <2> QED
    BY <1>11, <2>1, <2>2, <2>4, <2>5, <2>6 DEF LoadDone
<1>12. ASSUME NEW f \in Frames, Fail(f) PROVE LoadInv'
  BY <1>12 DEF Fail
<1>13. CASE UNCHANGED vars
  BY <1>13 DEF vars
<1> QED
  BY <1>1, <1>2, <1>3, <1>4, <1>5, <1>6, <1>7, <1>8, <1>9, <1>10, <1>11,
     <1>12, <1>13
  DEF Next, Step, Ended

(* Each mutex belongs to the frame in its section, and the call nested in   *)
(* onLoad never waits for the mutex its own thread holds (lazyDLL.Load).    *)
THEOREM LoadSafe == Spec => []LoadInv
  BY InitLoadInv, NextLoadInv, PTL DEF Spec

(* The library is loaded at most once, however many goroutines make their   *)
(* first call together (lazyDLL.Load).                                      *)
THEOREM LoadOnce == Spec => []LoadedOnce
<1>1. LoadInv => LoadedOnce
  BY DEF LoadInv, LoadedOnce
<1> QED
  BY <1>1, LoadSafe, PTL

(* Addr never returns a zero address (lazyProc.Addr).                       *)
THEOREM AddrReturned == Spec => ReturnsAddr
<1>1. ASSUME LoadInv, [Next]_vars, NEW f \in Frames,
             pc[f] # "idle", pc'[f] = "idle"
      PROVE  addr'[proc[f]]
  <2> USE FrameFacts DEF LoadInv, TypeOK, Steps, At, Goto
  <2>1. ASSUME NEW g \in Frames, Step(g) PROVE addr'[proc[f]]
    BY <1>1, <2>1 DEF Step, FindFast, FindLock, Resolve, FindUnlock, LoadFast,
       LoadLock, LoadLibrary, StoreModule
  <2>2. ASSUME NEW t \in Threads, OnLoad(t) \/ LoadDone(t)
        PROVE  addr'[proc[f]]
    BY <1>1, <2>2 DEF OnLoad, LoadDone
  <2>3. ASSUME NEW t \in Threads, NEW p \in Procs, Call(t, p)
        PROVE  addr'[proc[f]]
    BY <1>1, <2>3 DEF Call
  <2>4. CASE (\E g \in Frames : Fail(g)) \/ UNCHANGED vars
    BY <1>1, <2>4 DEF Fail, vars
  <2> QED
    BY <1>1, <2>1, <2>2, <2>3, <2>4 DEF Next, Ended
<1>2. LoadInv /\ [Next]_vars =>
        [\A f \in Frames :
           pc[f] # "idle" /\ pc'[f] = "idle" => addr'[proc[f]]]_vars
  BY <1>1
<1> QED
  BY <1>2, LoadSafe, PTL DEF Spec, ReturnsAddr
=============================================================================
