---------------------------- MODULE ControlSocket ----------------------------
(***************************************************************************)
(* The life of the control socket: apply_with, teardown and shutdown of    *)
(* control.rs, create_socket_at and the liveness lock of socket.rs.        *)
(* Several instances of the program configured with one path start, stop,  *)
(* crash and come back; what they share is the node at the path and the    *)
(* lock beside it, which the kernel releases when its owner dies.          *)
(***************************************************************************)
EXTENDS Naturals

CONSTANTS INSTANCES, \* processes that use the path
          MAX_BINDS, \* bound: sockets made
          MAX_APPLIES \* bound: configurations applied, over all the instances

VARIABLES
  node,    \* the socket at the path, by its number; 0 when there is none
  lock,    \* the instance that holds the liveness lock
  binds,   \* sockets made so far
  applies, \* configurations applied so far
  proc,    \* per instance: where its apply is, its handle, what it was asked for
  left     \* history: sockets that a crash, or an error after the bind, left at the path

vars == <<node, lock, binds, applies, proc, left>>

Nobody == "nobody"
Down == [at |-> "down", want |-> FALSE, handle |-> 0, dead |-> FALSE, stale |-> FALSE,
         failed |-> FALSE]
Steps == {"down", "rest", "stopping", "unlinked", "start", "checked", "locked", "cleared",
          "bound", "refused"}

Process == [at : Steps, want : BOOLEAN, handle : 0..MAX_BINDS, dead : BOOLEAN, stale : BOOLEAN,
            failed : BOOLEAN]

TypeOK ==
  /\ binds \in 0..MAX_BINDS /\ node \in 0..MAX_BINDS /\ applies \in 0..MAX_APPLIES
  /\ lock \in INSTANCES \cup {Nobody}
  /\ proc \in [INSTANCES -> Process]
  /\ left \subseteq 1..MAX_BINDS

Init ==
  /\ node = 0 /\ lock = Nobody /\ binds = 0 /\ applies = 0 /\ left = {}
  /\ proc = [i \in INSTANCES |-> Down]

\* Instance i goes on: to step at, with the changes of f.
Goes(i, p) == proc' = [proc EXCEPT ![i] = p]
At(i, step) == proc[i].at = step

-----------------------------------------------------------------------------
(* apply_with: the mutex of the listener makes it one at a time.           *)

\* The next step for the wanted state, a handle and whether its acceptor died.
Reconcile(want, p) ==
  IF p.handle = 0 THEN (IF want THEN "start" ELSE "rest")
                  ELSE (IF want /\ ~p.dead THEN "rest" ELSE "stopping")

\* At the launch, and on every change of the file.
Apply(i, want) ==
  /\ (At(i, "down") \/ At(i, "rest")) /\ applies < MAX_APPLIES
  /\ applies' = applies + 1
  /\ Goes(i, [proc[i] EXCEPT !.want = want, !.at = Reconcile(want, proc[i])])
  /\ UNCHANGED <<node, lock, binds, left>>

\* shutdown: the process ends after it.
Quit(i) ==
  /\ At(i, "rest")
  /\ Goes(i, [proc[i] EXCEPT !.want = FALSE, !.at = Reconcile(FALSE, proc[i])])
  /\ UNCHANGED <<node, lock, binds, applies, left>>

\* teardown: the acceptor has been joined, the node is removed, whatever it is.
Unlink(i) ==
  /\ At(i, "stopping") /\ node' = 0
  /\ Goes(i, [proc[i] EXCEPT !.at = "unlinked"])
  /\ UNCHANGED <<lock, binds, applies, left>>

\* The handle is dropped, and with it the lock; a restart goes on.
Release(i) ==
  /\ At(i, "unlinked") /\ lock' = Nobody
  /\ Goes(i, [proc[i] EXCEPT !.handle = 0, !.dead = FALSE,
                             !.at = IF proc[i].want THEN "start" ELSE "rest"])
  /\ UNCHANGED <<node, binds, applies, left>>

\* (mutation) the lock is the acceptor's
AcceptorDropsLock(i) ==
  /\ proc[i].handle # 0 /\ ~proc[i].dead
  /\ Goes(i, [proc[i] EXCEPT !.dead = TRUE])
  /\ lock' = Nobody /\ UNCHANGED <<node, binds, applies, left>>

\* An accept error that is not transient: the acceptor ends, the handle stays.
AcceptorDies(i) ==
  /\ proc[i].handle # 0 /\ ~proc[i].dead
  /\ Goes(i, [proc[i] EXCEPT !.dead = TRUE])
  /\ UNCHANGED <<node, lock, binds, applies, left>>

-----------------------------------------------------------------------------
(* create_socket_at, step by step.                                         *)

\* Whether a socket is at the path is looked up before the lock is taken.
Stat(i) ==
  /\ At(i, "start")
  /\ Goes(i, [proc[i] EXCEPT !.stale = node # 0, !.at = "checked"])
  /\ UNCHANGED <<node, lock, binds, applies, left>>

\* Not started; the next apply tries again.
Fails(i, p) == Goes(i, [p EXCEPT !.at = "rest", !.failed = TRUE, !.stale = FALSE])

\* The directory is not private, or what is at the path is no socket.
Refuse(i) ==
  /\ At(i, "start") /\ Fails(i, proc[i])
  /\ UNCHANGED <<node, lock, binds, applies, left>>

\* (mutation) a socket that nobody serves any more is removed without the lock
TakeLockLate(i) ==
  /\ At(i, "checked") /\ UNCHANGED lock
  /\ Goes(i, [proc[i] EXCEPT !.at = "locked"])
  /\ UNCHANGED <<node, binds, applies, left>>

\* A live owner is left alone.
TakeLock(i) ==
  /\ At(i, "checked")
  /\ IF lock = Nobody
     THEN lock' = i /\ Goes(i, [proc[i] EXCEPT !.at = "locked"])
     ELSE UNCHANGED lock /\ Fails(i, proc[i])
  /\ UNCHANGED <<node, binds, applies, left>>

\* What was found is stale: its owner is gone.
RemoveStale(i) ==
  /\ At(i, "locked")
  /\ node' = IF proc[i].stale THEN 0 ELSE node
  /\ Goes(i, [proc[i] EXCEPT !.at = "cleared", !.stale = FALSE])
  /\ UNCHANGED <<lock, binds, applies, left>>

\* The mode of the bound socket cannot be set: the listener and the lock are dropped.
ChmodFails(i) ==
  /\ At(i, "cleared") /\ node = 0 /\ binds < MAX_BINDS
  /\ binds' = binds + 1 /\ node' = binds + 1 /\ left' = left \cup {binds + 1}
  /\ lock' = Nobody /\ Fails(i, proc[i])
  /\ UNCHANGED applies

\* Binding is tried once; a node that came since is an error, and the lock is dropped.
Bind(i) ==
  /\ At(i, "cleared")
  /\ IF node = 0
     THEN /\ binds < MAX_BINDS /\ binds' = binds + 1 /\ node' = binds + 1
          /\ Goes(i, [proc[i] EXCEPT !.at = "bound"]) /\ UNCHANGED lock
     ELSE UNCHANGED <<binds, node>> /\ lock' = Nobody /\ Fails(i, proc[i])
  /\ UNCHANGED <<applies, left>>

\* The acceptor's thread starts and the handle is installed.
Spawned(i) ==
  /\ At(i, "bound")
  /\ Goes(i, [proc[i] EXCEPT !.at = "rest", !.handle = node, !.failed = FALSE])
  /\ UNCHANGED <<node, lock, binds, applies, left>>

\* (mutation) the bound socket is left where it is
SpawnFailsLeaving(i) ==
  /\ At(i, "bound") /\ UNCHANGED node
  /\ Goes(i, [proc[i] EXCEPT !.at = "refused"])
  /\ UNCHANGED <<lock, binds, applies, left>>

\* No acceptor: nobody owns the socket, which is removed; then the lock is dropped.
SpawnFails(i) ==
  /\ At(i, "bound") /\ node' = 0
  /\ Goes(i, [proc[i] EXCEPT !.at = "refused"])
  /\ UNCHANGED <<lock, binds, applies, left>>

Refused(i) ==
  /\ At(i, "refused") /\ lock' = Nobody /\ Fails(i, proc[i])
  /\ UNCHANGED <<node, binds, applies, left>>

-----------------------------------------------------------------------------
(* The process dies: the kernel drops its lock, the node stays.            *)

Crash(i) ==
  /\ ~At(i, "down")
  /\ Goes(i, Down)
  /\ lock' = IF lock = i THEN Nobody ELSE lock
  /\ left' = IF lock = i /\ node # 0 THEN left \cup {node} ELSE left
  /\ UNCHANGED <<node, binds, applies>>

Next ==
  \E i \in INSTANCES :
    \/ \E want \in BOOLEAN : Apply(i, want)
    \/ Quit(i) \/ Unlink(i) \/ Release(i) \/ AcceptorDies(i)
    \/ Stat(i) \/ TakeLock(i) \/ RemoveStale(i) \/ Refuse(i) \/ Bind(i)
    \/ ChmodFails(i) \/ Spawned(i) \/ SpawnFails(i) \/ Refused(i) \/ Crash(i)

Spec == Init /\ [][Next]_vars

-----------------------------------------------------------------------------
(* Properties.                                                             *)

Holds(i) == proc[i].at \in {"stopping", "unlinked", "locked", "cleared", "bound", "refused"}
Serves(i) == proc[i].handle # 0 /\ proc[i].at = "rest"

(* The socket at the path is the one of the instance that serves, and of   *)
(* no other: whoever has a handle has the lock, and what it bound stays at *)
(* the path until it removes it itself ("a LIVE instance is never          *)
(* clobbered").                                                            *)
SocketOwned ==
  \A i \in INSTANCES :
    /\ Holds(i) \/ proc[i].handle # 0 => lock = i
    /\ Serves(i) \/ At(i, "stopping") => node = proc[i].handle
    /\ At(i, "bound") => node # 0

(* A socket that nobody serves is there because its process died or could  *)
(* not set its mode: every other end removes it, that of a listener whose  *)
(* acceptor could not be started included.                                 *)
OnlyCrashesLeave ==
  node # 0 => \/ node \in left
              \/ \E i \in INSTANCES : node = proc[i].handle \/ (At(i, "bound") /\ lock = i)

(* An instance at rest serves exactly if it was asked to, unless its last  *)
(* start failed, with an acceptor alive unless it died since.              *)
WantFollowed ==
  \A i \in INSTANCES :
    At(i, "rest") => /\ proc[i].handle # 0 => proc[i].want
                     /\ proc[i].want /\ proc[i].handle = 0 => proc[i].failed

=============================================================================
