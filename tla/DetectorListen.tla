-------------------------- MODULE DetectorListen ---------------------------
(***************************************************************************)
(* Listen and removeStale of prototypes/marker-detect/ipc/listen_unix.go   *)
(* in several marker detectors that are given the same socket path, and    *)
(* the end of a detector.  A Go listener unlinks its path by name when it  *)
(* is closed, before it closes the socket.                                 *)
(***************************************************************************)
EXTENDS UnixSocket

VARIABLE pc        \* where each process is

Init ==
    /\ SocketInit
    /\ pc = [p \in Procs |-> "start"]

Goes(p, from, to) == pc[p] = from /\ pc' = [pc EXCEPT ![p] = to]

Alive == {p \in Procs : pc[p] \notin {"start", "refused", "end"}}

Start(p) ==
    /\ Goes(p, "start", "lstat")
    /\ UNCHANGED socketVars

\* os.Lstat: no file, a socket, or something that is not a socket.
Lstat(p) ==
    /\ Goes(p, "lstat", IF file = NoFile THEN "bind"
                        ELSE IF file = Foreign THEN "refused" ELSE "dial")
    /\ UNCHANGED socketVars

\* net.DialTimeout: anything but ECONNREFUSED leaves the file alone.
Dial(p) ==
    /\ Goes(p, "dial", IF Refuses THEN "remove" ELSE "refused")
    /\ UNCHANGED socketVars

\* A refused connection is taken for a socket in use.
RemoveRefuses(p) ==
    /\ Goes(p, "remove", "refused")
    /\ UNCHANGED socketVars

\* os.Remove; it fails when the file is gone.
Remove(p) ==
    \/ /\ file # NoFile
       /\ Goes(p, "remove", "bind")
       /\ Unlink
    \/ /\ file = NoFile
       /\ Goes(p, "remove", "refused")
       /\ UNCHANGED socketVars

\* net.Listen binds, then listens.
BindPath(p) ==
    \/ /\ Goes(p, "bind", "listen")
       /\ Bind(p)
    \/ /\ file # NoFile
       /\ Goes(p, "bind", "refused")
       /\ UNCHANGED socketVars

ListenPath(p) ==
    /\ Goes(p, "listen", "chmod")
    /\ ListenOn(p)

\* os.Chmod works on the path: it fails when another detector removed the file.
Chmod(p) ==
    /\ file # NoFile
    /\ Goes(p, "chmod", "serving")
    /\ UNCHANGED socketVars

\* Closing the listener of a detector that serves, or whose Chmod failed:
\* unlink first, then close.
CloseUnlinks(p) ==
    /\ pc[p] \in {"chmod", "serving"}
    /\ pc' = [pc EXCEPT ![p] = "unlinked"]
    /\ Unlink

CloseCloses(p) ==
    /\ Goes(p, "unlinked", "end")
    /\ CloseSocket(p)

Die(p) ==
    /\ p \in Alive
    /\ pc' = [pc EXCEPT ![p] = "end"]
    /\ CloseSocket(p)

\* Listen, step by step.
Listen(p) ==
    \/ Start(p) \/ Lstat(p) \/ Dial(p) \/ Remove(p) \/ BindPath(p)
    \/ ListenPath(p) \/ Chmod(p)

Step(p) == Listen(p) \/ CloseUnlinks(p) \/ CloseCloses(p) \/ Die(p)

====
