------------------------------ MODULE DbListen ------------------------------
(***************************************************************************)
(* The life of DBMS server processes that share one socket path: Listen    *)
(* and Close of server/dbms/internal/server/server.go, and the end of a    *)
(* process at any point.  Listen takes an exclusive flock on path.lock     *)
(* before it looks at the path and keeps it until Close has removed the    *)
(* socket file.                                                            *)
(***************************************************************************)
EXTENDS UnixSocket

CONSTANT Unlocked  \* nobody holds the flock

ASSUME DbListenAssumption == Unlocked \notin Procs

VARIABLES
    pc,           \* where each process is
    flock         \* which process holds the lock file

vars == <<socketVars, pc, flock>>

\* The steps of Listen after the lock, of a running server and of Close.
Holding == {"lstat", "probe", "remove", "bind", "listen", "stat", "chmod", "undo",
            "serving", "closed", "unlink", "left", "unlock"}

TypeOK ==
    /\ SocketTypeOK
    /\ pc \in [Procs -> Holding \cup {"start", "dying", "end"}]
    /\ flock \in Procs \cup {Unlocked}

Init ==
    /\ SocketInit
    /\ pc = [p \in Procs |-> "start"]
    /\ flock = Unlocked

Goes(p, from, to) == pc[p] = from /\ pc' = [pc EXCEPT ![p] = to]

\* Returning from Listen with an error closes the lock file.
Fails(p, from) == Goes(p, from, "end") /\ flock' = Unlocked

\* Flock(LOCK_EX | LOCK_NB) on the lock file.
Flock(p) ==
    /\ flock = Unlocked
    /\ Goes(p, "start", "lstat")
    /\ flock' = p
    /\ UNCHANGED socketVars

\* Another server has the lock, or the lock file cannot be opened or is unsafe.
FlockFails(p) ==
    /\ Goes(p, "start", "end")
    /\ UNCHANGED <<socketVars, flock>>

\* os.Lstat(path): nothing there, a socket of this user, or anything else.
LstatNone(p) ==
    /\ file = NoFile
    /\ Goes(p, "lstat", "bind")
    /\ UNCHANGED <<socketVars, flock>>

LstatSocket(p) ==
    /\ file \notin {NoFile, Foreign}
    /\ Goes(p, "lstat", "probe")
    /\ UNCHANGED <<socketVars, flock>>

LstatForeign(p) ==
    /\ file = Foreign
    /\ Fails(p, "lstat")
    /\ UNCHANGED socketVars

LstatFails(p) ==
    /\ Fails(p, "lstat")
    /\ UNCHANGED socketVars

\* net.DialTimeout: only ECONNREFUSED counts as stale.
ProbeRefused(p) ==
    /\ Refuses
    /\ Goes(p, "probe", "remove")
    /\ UNCHANGED <<socketVars, flock>>

ProbeOther(p) ==
    /\ ~Refuses
    /\ Fails(p, "probe")
    /\ UNCHANGED socketVars

RemoveStale(p) ==
    /\ Goes(p, "remove", "bind")
    /\ Unlink
    /\ UNCHANGED flock

RemoveStaleFails(p) ==
    /\ Fails(p, "remove")
    /\ UNCHANGED socketVars

\* net.ListenUnix binds, then listens.
ListenBind(p) ==
    /\ Goes(p, "bind", "listen")
    /\ Bind(p)
    /\ UNCHANGED flock

ListenBindFails(p) ==
    /\ Fails(p, "bind")
    /\ UNCHANGED socketVars

ListenListens(p) ==
    /\ Goes(p, "listen", "stat")
    /\ ListenOn(p)
    /\ UNCHANGED flock

\* os.Lstat of the new socket; a failure closes the listener, which leaves
\* the file behind.
Stat(p) ==
    /\ Goes(p, "stat", "chmod")
    /\ UNCHANGED <<socketVars, flock>>

StatFails(p) ==
    /\ Fails(p, "stat")
    /\ CloseSocket(p)

Chmod(p) ==
    /\ Goes(p, "chmod", "serving")
    /\ UNCHANGED <<socketVars, flock>>

\* A failed Chmod closes the listener and Listen goes on.
ChmodFailsServes(p) ==
    /\ Goes(p, "chmod", "serving")
    /\ CloseSocket(p)
    /\ UNCHANGED flock

\* os.Chmod; a failure closes the listener and removes the file if it can.
ChmodFails(p) ==
    /\ Goes(p, "chmod", "undo")
    /\ CloseSocket(p)
    /\ UNCHANGED flock

ChmodUndone(p) ==
    /\ Fails(p, "undo")
    /\ Unlink \/ UNCHANGED socketVars

\* Close: the listener first, under s.mu.
CloseListener(p) ==
    /\ Goes(p, "serving", "closed")
    /\ CloseSocket(p)
    /\ UNCHANGED flock

\* Close gives the lock back before it looks at the socket file.
CloseStatUnlocked(p) ==
    /\ Goes(p, "closed", IF file = p THEN "unlink" ELSE "unlock")
    /\ flock' = Unlocked
    /\ UNCHANGED socketVars

\* os.Lstat and os.SameFile: is the file still the one this server made?
CloseStat(p) ==
    /\ Goes(p, "closed", IF file = p THEN "unlink" ELSE "unlock")
    /\ UNCHANGED <<socketVars, flock>>

CloseRemoves(p) ==
    /\ Goes(p, "unlink", "unlock")
    /\ Unlink
    /\ UNCHANGED flock

\* An error of Lstat or of Remove is ignored and the file may stay.
CloseLeaves(p) ==
    /\ Goes(p, "closed", "left") \/ Goes(p, "unlink", "left")
    /\ UNCHANGED <<socketVars, flock>>

CloseUnlocks(p) ==
    /\ Fails(p, "left") \/ Fails(p, "unlock")
    /\ UNCHANGED socketVars

\* The process dies: the kernel closes the lock file, which was opened first,
\* and then the socket.
Die(p) ==
    /\ pc[p] \in Holding
    /\ pc' = [pc EXCEPT ![p] = "dying"]
    /\ flock' = IF flock = p THEN Unlocked ELSE flock
    /\ UNCHANGED socketVars

Dead(p) ==
    /\ Goes(p, "dying", "end")
    /\ CloseSocket(p)
    /\ UNCHANGED flock

Listen(p) ==
    \/ Flock(p) \/ FlockFails(p)
    \/ LstatNone(p) \/ LstatSocket(p) \/ LstatForeign(p) \/ LstatFails(p)
    \/ ProbeRefused(p) \/ ProbeOther(p) \/ RemoveStale(p) \/ RemoveStaleFails(p)
    \/ ListenBind(p) \/ ListenBindFails(p) \/ ListenListens(p)
    \/ Stat(p) \/ StatFails(p) \/ Chmod(p) \/ ChmodFails(p) \/ ChmodUndone(p)

Close(p) ==
    \/ CloseListener(p) \/ CloseStat(p) \/ CloseRemoves(p) \/ CloseLeaves(p) \/ CloseUnlocks(p)

Next == \E p \in Procs : Listen(p) \/ Close(p) \/ Die(p) \/ Dead(p)

Spec == Init /\ [][Next]_vars

-----------------------------------------------------------------------------
\* A server that serves can be reached at the path: its socket listens and no
\* other server, starting, closing or dying, has taken the path away from it.
ServingIsReachable ==
    \A p \in Procs : pc[p] = "serving" => file = p /\ p \in listening

\* A step removes or replaces only a stale socket: what is not the user's
\* socket stays, and so does a socket that goes on listening.
RemovesOnlyStale ==
    [][file = Foreign \/ file \in listening \cap listening' => file' = file]_vars

\* A server whose Close could look at the path and remove the file leaves no
\* socket file of its own.
CloseLeavesNothing ==
    \A p \in Procs : pc[p] = "unlock" => file # p

====
