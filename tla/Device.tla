------------------------------- MODULE Device -------------------------------
(***************************************************************************)
(* Reading and writing the TUN interface: windowsDevice.Read, Write and    *)
(* rateJuggler.update (node/tun/tun_windows.go) over a Wintun session, and *)
(* tunReadCloser.Read and Write (node/tun/tun_darwin.go).  serveDev calls  *)
(* Read from one goroutine and Write from another, and Close runs in a     *)
(* third (Tun.tla), with no lock between them on Windows.                  *)
(*                                                                         *)
(* A session's calls are external.  The driver puts packets into a ring    *)
(* and sets an event that a wait resets.  A call on a session that has     *)
(* ended may do anything.                                                  *)
(***************************************************************************)
EXTENDS Tun, Integers, Sequences

CONSTANTS
    Granularity,  \* rateMeasurementGranularity, in ticks; a second is two
    Threshold,    \* spinloopRateThreshold, in packets (the unit of size) per second
    Word,         \* 2^64
    Parts,        \* what packets are made of: IP versions, which come first, and data
    Packets,      \* packets of the macOS device, sequences of their parts
    BufferSize,   \* constant.MaxBufferSize, in parts
    MaxPackets,   \* bound of the model on packets through the Windows device
    MaxClock      \* bound of the model on the clock

ASSUME DeviceAssumption ==
    /\ Granularity \in Nat \ {0}
    /\ Threshold \in Nat
    /\ Word \in Nat /\ Word > Granularity + MaxClock
    /\ BufferSize \in Nat
    /\ \A p \in Packets : p \in Seq(Parts) /\ Len(p) <= BufferSize
    /\ MaxPackets \in Nat
    /\ MaxClock \in Nat

VARIABLES
    ring,    \* packets in the receive ring
    event,   \* the event d.readWait is set
    broken,  \* the driver has given the session up (ERROR_HANDLE_EOF)
    clock,   \* nanotime()
    rate,    \* d.rate
    go,      \* the reading and the writing goroutine
    count,   \* packets the driver or the writer has brought so far
    late,    \* calls each goroutine made on the session after its end
    buf,     \* tunReadCloser: rBuf and wBuf
    frame    \* the latest transfer of the macOS device

memory == <<ring, event, broken, rate, go, count, late, buf, frame>>
deviceVars == <<memory, clock>>
vars == <<tunVars, deviceVars>>

Goroutines == {"read", "write"}
Idle == [pc |-> "idle", spin |-> FALSE, now |-> 0, total |-> 0, period |-> 0]

NoRate == [current |-> 0, nextByteCount |-> 0, nextStartTime |-> 0, changing |-> FALSE]
NoFrame == [want |-> <<>>, got |-> <<>>]

Init ==
    /\ TunInit
    /\ clock = 0
    /\ ring = 0 /\ event = FALSE /\ broken = FALSE
    /\ rate = NoRate
    /\ go = [g \in Goroutines |-> Idle]
    /\ count = 0
    /\ late = [g \in Goroutines |-> 0]
    /\ buf = [r |-> <<>>, w |-> <<>>]
    /\ frame = NoFrame

\* Goroutines run until the process dies.
Serving == os = "windows" /\ step \in {"serve"} \cup Closing
At(g, pc) == Serving /\ go[g].pc = pc
Go(g, pc) == go' = [go EXCEPT ![g].pc = pc]
Return(g) == go' = [go EXCEPT ![g] = Idle]

\* A call on the session: one made after its end is counted.
Ends == session = None
Call(g) == late' = IF Ends THEN [late EXCEPT ![g] = @ + 1] ELSE late

-----------------------------------------------------------------------------
(* The driver and the clock                                                *)

Arrive ==
    /\ Serving /\ ~Ends /\ ~broken
    /\ count < MaxPackets
    /\ count' = count + 1
    /\ ring' = ring + 1
    /\ event' = TRUE
    /\ UNCHANGED <<tunVars, broken, clock, rate, go, late, buf, frame>>

\* The adapter is taken away: readers are woken up and told so.
Break ==
    /\ Serving /\ ~Ends /\ ~broken
    /\ broken' = TRUE
    /\ event' = TRUE
    /\ UNCHANGED <<tunVars, ring, clock, rate, go, count, late, buf, frame>>

Tick ==
    /\ Serving
    /\ clock < MaxClock
    /\ clock' = clock + 1
    /\ UNCHANGED <<tunVars, memory>>

-----------------------------------------------------------------------------
(* windowsDevice.Read                                                      *)

\* uint64(a - b)
Wrap(n) == n % Word

\* Mutant: Read waits for the event before it looks into the ring.
ReadTopWaits ==
    /\ At("read", "idle") \/ At("read", "retry")
    /\ Go("read", IF At("read", "idle") THEN "wait" ELSE "test")
    /\ UNCHANGED <<tunVars, ring, event, broken, clock, rate, count, late, buf, frame>>

\* Nothing ever sends to d.errors, so the select takes its default.  The two
\* loads are one step: whether Read spins or waits, it polls the ring first.
\* Before serveDev calls Read again it may wait for room in the node's pipeline;
\* that it comes back is SendersReturn of module Node.
ReadTop ==
    /\ At("read", "idle") \/ At("read", "retry")
    /\ go' = [go EXCEPT !["read"].pc = "test",
                        !["read"].spin =
                            /\ rate.current >= Threshold
                            /\ Wrap(clock - rate.nextStartTime) <= 2 * Granularity]
    /\ UNCHANGED <<tunVars, ring, event, broken, clock, rate, count, late, buf, frame>>

\* Mutant: the flag is not tested again after a wait or a spin.
ReadTestNever ==
    /\ At("read", "test")
    /\ Go("read", "receive")
    /\ UNCHANGED <<tunVars, ring, event, broken, clock, rate, count, late, buf, frame>>

ReadTest ==
    /\ At("read", "test")
    /\ IF close THEN Return("read") ELSE Go("read", "receive")
    /\ UNCHANGED <<tunVars, ring, event, broken, clock, rate, count, late, buf, frame>>

\* ReceivePacket returns a packet.
Receive ==
    /\ At("read", "receive")
    /\ Ends \/ ring > 0
    /\ Call("read")
    /\ ring' = IF Ends THEN ring ELSE ring - 1
    /\ Go("read", "release")
    /\ UNCHANGED <<tunVars, event, broken, clock, rate, count, buf, frame>>

\* ERROR_NO_MORE_ITEMS: spin, or wait if the time to spin is over.
ReceiveNone ==
    /\ At("read", "receive")
    /\ Ends \/ (ring = 0 /\ ~broken)
    /\ Call("read")
    /\ Go("read", "wait") \/ (go["read"].spin /\ Go("read", "test"))
    /\ UNCHANGED <<tunVars, ring, event, broken, clock, rate, count, buf, frame>>

\* ERROR_HANDLE_EOF and the other errors: Read returns, and is called again.
ReceiveFails ==
    /\ At("read", "receive")
    /\ Ends \/ (ring = 0 /\ broken)
    /\ Call("read")
    /\ Return("read")
    /\ UNCHANGED <<tunVars, ring, event, broken, clock, rate, count, buf, frame>>

\* WaitForSingleObject.  The handle of an ended session lets the wait return.
Wait ==
    /\ At("read", "wait")
    /\ event \/ Ends
    /\ event' = FALSE
    /\ Go("read", "retry")
    /\ UNCHANGED <<tunVars, ring, broken, clock, rate, count, late, buf, frame>>

\* The packet is copied and released, and update reads the time.
Release ==
    /\ At("read", "release")
    /\ Call("read")
    /\ go' = [go EXCEPT !["read"].pc = "add", !["read"].now = clock]
    /\ UNCHANGED <<tunVars, ring, event, broken, clock, rate, count, buf, frame>>

-----------------------------------------------------------------------------
(* windowsDevice.Write                                                     *)

WriteTop ==
    /\ At("write", "idle")
    /\ count < MaxPackets
    /\ ~close
    /\ count' = count + 1
    /\ go' = [go EXCEPT !["write"].pc = "add", !["write"].now = clock]
    /\ UNCHANGED <<tunVars, ring, event, broken, clock, rate, late, buf, frame>>

\* The packet is dropped when the ring is full or the session is broken.
Allocate ==
    /\ At("write", "allocate")
    /\ Call("write")
    /\ Return("write") \/ ((Ends \/ ~broken) /\ Go("write", "send"))
    /\ UNCHANGED <<tunVars, ring, event, broken, clock, rate, count, buf, frame>>

Send ==
    /\ At("write", "send")
    /\ Call("write")
    /\ Return("write")
    /\ UNCHANGED <<tunVars, ring, event, broken, clock, rate, count, buf, frame>>

-----------------------------------------------------------------------------
(* rateJuggler.update, run by both goroutines                              *)

rest == <<tunVars, ring, event, broken, clock, count, late, buf, frame>>

\* Read returns after update; Write goes on to allocate a packet.
Updated(g) == IF g = "read" THEN Return(g)
              ELSE go' = [go EXCEPT ![g] = [Idle EXCEPT !.pc = "allocate"]]

Add(g) ==
    /\ At(g, "add")
    /\ rate' = [rate EXCEPT !.nextByteCount = @ + 1]
    /\ go' = [go EXCEPT ![g].pc = "load", ![g].total = rate.nextByteCount + 1]
    /\ UNCHANGED rest

\* Mutant: the period need only be positive.
LoadAny(g) ==
    /\ At(g, "load")
    /\ \E period \in {Wrap(go[g].now - rate.nextStartTime)} :
         IF period > 0
         THEN go' = [go EXCEPT ![g].pc = "swap", ![g].period = period]
         ELSE Updated(g)
    /\ UNCHANGED <<rest, rate>>

Load(g) ==
    /\ At(g, "load")
    /\ \E period \in {Wrap(go[g].now - rate.nextStartTime)} :
         IF period >= Granularity
         THEN go' = [go EXCEPT ![g].pc = "swap", ![g].period = period]
         ELSE Updated(g)
    /\ UNCHANGED <<rest, rate>>

\* Mutant: the flag is set and not tested.
SwapAlways(g) ==
    /\ At(g, "swap")
    /\ rate' = [rate EXCEPT !.changing = TRUE]
    /\ Go(g, "start")
    /\ UNCHANGED rest

Swap(g) ==
    /\ At(g, "swap")
    /\ IF rate.changing
       THEN Updated(g) /\ UNCHANGED rate
       ELSE rate' = [rate EXCEPT !.changing = TRUE] /\ Go(g, "start")
    /\ UNCHANGED rest

StoreStart(g) ==
    /\ At(g, "start")
    /\ rate' = [rate EXCEPT !.nextStartTime = go[g].now]
    /\ Go(g, "current")
    /\ UNCHANGED rest

StoreCurrent(g) ==
    /\ At(g, "current")
    /\ rate' = [rate EXCEPT !.current = (go[g].total * 2 * Granularity) \div go[g].period]
    /\ Go(g, "count")
    /\ UNCHANGED rest

StoreCount(g) ==
    /\ At(g, "count")
    /\ rate' = [rate EXCEPT !.nextByteCount = 0]
    /\ Go(g, "changed")
    /\ UNCHANGED rest

StoreChanging(g) ==
    /\ At(g, "changed")
    /\ rate' = [rate EXCEPT !.changing = FALSE]
    /\ Updated(g)
    /\ UNCHANGED rest

Update(g) ==
    Add(g) \/ Load(g) \/ Swap(g) \/ StoreStart(g) \/ StoreCurrent(g) \/ StoreCount(g)
        \/ StoreChanging(g)

-----------------------------------------------------------------------------
(* tunReadCloser: a packet on the descriptor has a header, which is the    *)
(* address family; the buffers are kept from call to call                  *)

Family == [v4 |-> "AF_INET", v6 |-> "AF_INET6"]
Versions == DOMAIN Family

\* A slice of length n of a buffer: a new one if its capacity is too small.
Resize(b, n) == IF Len(b) < n THEN [i \in 1..n |-> "0"] ELSE b

\* copy(b[1:], p) into a buffer at least as long.
Fill(b, head, p) == [i \in DOMAIN b |-> IF i = 1 THEN head
                                        ELSE IF i <= Len(p) + 1 THEN p[i - 1] ELSE b[i]]

Utun == os = "darwin" /\ step \in {"serve", "close"}
utunRest == <<tunVars, ring, event, broken, clock, rate, go, count, late>>

\* The descriptor returns a header and a packet p.
ReadUtun(p) ==
    /\ Utun
    /\ p # <<>> /\ p[1] \in Versions
    /\ \E r \in {Fill(Resize(buf.r, BufferSize + 1), Family[p[1]], p)} :
         /\ buf' = [buf EXCEPT !.r = r]
         /\ frame' = [want |-> p, got |-> SubSeq(r, 2, Len(p) + 1)]
    /\ UNCHANGED utunRest

\* Mutant: the buffer is written whole.
WriteUtunWhole(from) ==
    /\ Utun
    /\ from # <<>>
    /\ \E b \in {Resize(buf.w, Len(from) + 1)} :
         IF from[1] \in Versions
         THEN \E w \in {Fill(b, Family[from[1]], from)} :
                 /\ buf' = [buf EXCEPT !.w = w]
                 /\ frame' = [want |-> <<Family[from[1]]>> \o from, got |-> w]
         ELSE buf' = [buf EXCEPT !.w = b] /\ UNCHANGED frame
    /\ UNCHANGED utunRest

\* An empty packet and one of no known version are refused.
WriteUtun(from) ==
    /\ Utun
    /\ from # <<>>
    /\ \E b \in {Resize(buf.w, Len(from) + 1)} :
         IF from[1] \in Versions
         THEN \E w \in {Fill(b, Family[from[1]], from)} :
                 /\ buf' = [buf EXCEPT !.w = w]
                 /\ frame' = [want |-> <<Family[from[1]]>> \o from,
                              got |-> SubSeq(w, 1, Len(from) + 1)]
         ELSE buf' = [buf EXCEPT !.w = b] /\ UNCHANGED frame
    /\ UNCHANGED utunRest

-----------------------------------------------------------------------------

Reader == ReadTop \/ ReadTest \/ Receive \/ ReceiveNone \/ ReceiveFails \/ Wait \/ Release
            \/ Update("read")
Writer == WriteTop \/ Allocate \/ Send \/ Update("write")

\* The process dies, and its memory with it.
Die ==
    /\ Kill
    /\ ring' = 0 /\ event' = FALSE /\ broken' = FALSE
    /\ rate' = NoRate
    /\ go' = [g \in Goroutines |-> Idle]
    /\ count' = 0
    /\ late' = [g \in Goroutines |-> 0]
    /\ buf' = [r |-> <<>>, w |-> <<>>]
    /\ frame' = NoFrame
    /\ UNCHANGED clock

Next ==
    \/ (Setup \/ Stop) /\ UNCHANGED deviceVars
    \/ Die
    \/ Arrive \/ Break \/ Tick
    \/ Reader
    \/ Writer
    \/ \E p \in Packets : ReadUtun(p) \/ WriteUtun(p)

\* The Go scheduler runs a goroutine that can go on.
Fairness == WF_vars(Reader)

Spec == Init /\ [][Next]_vars /\ Fairness

-----------------------------------------------------------------------------
(* Properties                                                              *)

Changing == {"start", "current", "count", "changed"}

\* Reader and writer never change the measurement at the same time, and the
\* flag that keeps the other out is given back (rate.changing).
OneChanger ==
    Cardinality({g \in Goroutines : go[g].pc \in Changing}) = IF rate.changing THEN 1 ELSE 0

\* Whatever the two goroutines do to each other's measurement (a time read
\* before the other stored a later one wraps around, a counter is reset under a
\* count), the rate that makes Read spin is never above what every packet so far
\* would give in the shortest period that is measured, until the device is closed.
RateBounded == ~close => rate.current <= 2 * count

\* A goroutine that was inside Read or Write when Close ended the session makes
\* at most two more calls on it; every later Read or Write sees the flag.
FewLateCalls == \A g \in Goroutines : late[g] <= 2

\* A packet on the macOS descriptor is the header and the packet of this call,
\* with nothing left over from a longer packet before it in the same buffer.
Framed == frame.got = frame.want

\* No packet is left in the ring while the reader sleeps: what arrives before,
\* during or after the wait for d.readWait is read.
PacketsRead == ring > 0 ~> (ring = 0 \/ step # "serve")
=============================================================================
