---------------------------- MODULE StaleSocket ----------------------------
(***************************************************************************)
(* One socket path and one of the two programs that take over a stale      *)
(* socket without a lock: Runtime::ipc_listen and the Listen of the marker *)
(* detector.  Several processes of the program use the path, one after the *)
(* other or at the same time.                                              *)
(***************************************************************************)
EXTENDS UnixSocket

CONSTANT Programs  \* the programs to look at

ASSUME ProgramsAssumption == Programs \subseteq {"runtime", "detector"}

VARIABLES
    pc,           \* where each process is
    server,       \* the program the processes run
    overlap       \* whether two processes may use the path at the same time

vars == <<socketVars, pc, server, overlap>>

Runtime == INSTANCE IpcListen
Detector == INSTANCE DetectorListen

Init ==
    /\ Runtime!Init
    /\ server \in Programs
    /\ overlap \in BOOLEAN

\* A process starts while another one is still there only if they overlap.
MayTake(p) == overlap \/ pc[p] # "start" \/ Runtime!Alive = {}

Next ==
    /\ \E p \in Procs :
        /\ MayTake(p)
        /\ \/ server = "runtime" /\ Runtime!Step(p)
           \/ server = "detector" /\ Detector!Step(p)
    /\ UNCHANGED <<server, overlap>>

Spec == Init /\ [][Next]_vars

-----------------------------------------------------------------------------
\* A process that is alone gets the socket: once ipc_listen or Listen has
\* returned the path leads to it, and they fail only for a file that is not a
\* socket, whatever earlier processes left behind when they were killed between
\* two calls.
LoneGetsSocket ==
    ~overlap => \A p \in Procs : /\ pc[p] = "serving" => file = p /\ p \in listening
                                 /\ pc[p] = "refused" => file = Foreign

====
