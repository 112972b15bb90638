--------------------------- MODULE MCNodeService ----------------------------
(* A node whose peer moves from one address to another while nothing is    *)
(* sent or received, or whose peer stays while there is traffic of every   *)
(* kind.  Moves and traffic together are too many states for a fair run.   *)
EXTENDS MCNode

\* No packet has come, for this node or for its device, and none is forwarded.
Quiet ==
    /\ \A c \in Conns : reader[c].pc \in {"off", "idle", "exit"}
    /\ \A c \in Conns : conn[c].pipeline = <<>>
    /\ protos = [t \in {"Ping", "Pong"} |-> Blank]
    /\ schedule # AtSend
    /\ forward = AtRead
    /\ requests = [v \in Peers |-> 0]
    /\ device = 0
    /\ heard = {}

\* The peer has one address, and one connection to it is ever made.
Settled ==
    LET only == CHOOSE c \in Conns : TRUE
    IN  /\ \A c \in Conns \ {only} : conn[c].loop = "unborn"
        /\ schedule.pc \in {"close", "dial"} =>
              schedule.udp = a1 /\ conn[only].loop = "unborn"

\* The bound of the run.  What fairness asks for can be done inside it: to leave
\* it takes the arrival of a packet or of a notification.
QuietOrSettled == Quiet \/ Settled
=============================================================================
