----------------------------- MODULE UnixSocket -----------------------------
(***************************************************************************)
(* A socket path in the file system and the sockets that processes bind to *)
(* it, as far as the servers of the platform use them.  A process binds at *)
(* most once, so a socket file is named by the process that bound it.      *)
(***************************************************************************)
CONSTANTS
    Procs,        \* server processes, each with one life
    NoFile,       \* nothing at the path
    Leftover,     \* the socket of a process that is gone
    Foreign       \* a file that is not a socket, or not the user's

ASSUME UnixSocketAssumption ==
    /\ NoFile \notin Procs /\ Leftover \notin Procs /\ Foreign \notin Procs
    /\ NoFile # Leftover /\ NoFile # Foreign /\ Leftover # Foreign

VARIABLES
    file,         \* what the path names
    listening     \* the processes whose socket listens

socketVars == <<file, listening>>

SocketTypeOK ==
    /\ file \in Procs \cup {NoFile, Leftover, Foreign}
    /\ listening \in SUBSET Procs

SocketInit ==
    /\ file \in {NoFile, Leftover, Foreign}
    /\ listening = {}

\* connect(2) at the path fails with ECONNREFUSED: nobody listens, or the file
\* is not a socket at all.
Refuses == file \notin listening \cup {NoFile}

Unlink == file' = NoFile /\ UNCHANGED listening

Bind(p) == file = NoFile /\ file' = p /\ UNCHANGED listening

ListenOn(p) == listening' = listening \cup {p} /\ UNCHANGED file

CloseSocket(p) == listening' = listening \ {p} /\ UNCHANGED file

====
