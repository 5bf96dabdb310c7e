----------------------------- MODULE IpcListen -----------------------------
(***************************************************************************)
(* Runtime::ipc_listen and Runtime::~Runtime of runtime/src/runtime.cpp in *)
(* several Runtime processes that are given the same IPC socket path.      *)
(* Every system call is a step of its own: nothing locks the path.         *)
(***************************************************************************)
EXTENDS UnixSocket

VARIABLE pc        \* where each process is

Init ==
    /\ SocketInit
    /\ pc = [p \in Procs |-> "start"]

Goes(p, from, to) == pc[p] = from /\ pc' = [pc EXCEPT ![p] = to]

Alive == {p \in Procs : pc[p] \notin {"start", "refused", "end"}}

Start(p) ==
    /\ Goes(p, "start", "lstat")
    /\ UNCHANGED socketVars

\* lstat: no file, a socket, or something that is not a socket.
Lstat(p) ==
    /\ Goes(p, "lstat", IF file = NoFile THEN "bind"
                        ELSE IF file = Foreign THEN "refused" ELSE "probe")
    /\ UNCHANGED socketVars

\* connect: anything but ECONNREFUSED is "already in use".
Probe(p) ==
    /\ Goes(p, "probe", IF Refuses THEN "unlink" ELSE "refused")
    /\ UNCHANGED socketVars

\* The stale file is not removed.
UnlinkKeeps(p) ==
    /\ Goes(p, "unlink", "bind")
    /\ UNCHANGED socketVars

\* unlink of the stale file; it fails when the file is gone.
UnlinkStale(p) ==
    \/ /\ file # NoFile
       /\ Goes(p, "unlink", "bind")
       /\ Unlink
    \/ /\ file = NoFile
       /\ Goes(p, "unlink", "refused")
       /\ UNCHANGED socketVars

BindPath(p) ==
    \/ /\ Goes(p, "bind", "listen")
       /\ Bind(p)
    \/ /\ file # NoFile
       /\ Goes(p, "bind", "refused")
       /\ UNCHANGED socketVars

\* socket, the probe's socket or bind fails for lack of a resource.
CallFails(p) ==
    /\ pc[p] \in {"probe", "bind"}
    /\ pc' = [pc EXCEPT ![p] = "end"]
    /\ UNCHANGED socketVars

ListenPath(p) ==
    /\ Goes(p, "listen", "serving")
    /\ ListenOn(p)

\* listen fails: the socket is closed, then the path is unlinked.
ListenFails(p) ==
    /\ Goes(p, "listen", "undo")
    /\ CloseSocket(p)

ListenUndone(p) ==
    /\ Goes(p, "undo", "end")
    /\ Unlink

\* ~Runtime: close the listening socket, then unlink the path, whatever it
\* names by then.
CloseListen(p) ==
    /\ Goes(p, "serving", "closed")
    /\ CloseSocket(p)

UnlinkPath(p) ==
    /\ Goes(p, "closed", "end")
    /\ Unlink

\* The process is killed; the file stays.
Die(p) ==
    /\ p \in Alive
    /\ pc' = [pc EXCEPT ![p] = "end"]
    /\ CloseSocket(p)

\* ipc_listen, step by step.
IpcListen(p) ==
    \/ Start(p) \/ Lstat(p) \/ Probe(p) \/ UnlinkStale(p) \/ BindPath(p)
    \/ CallFails(p) \/ ListenPath(p) \/ ListenFails(p) \/ ListenUndone(p)

Step(p) == IpcListen(p) \/ CloseListen(p) \/ UnlinkPath(p) \/ Die(p)

====
