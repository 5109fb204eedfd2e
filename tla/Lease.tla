------------------------------- MODULE Lease -------------------------------
(***************************************************************************)
(* The single-instance lease of an agent (agents/runtime/lease.ts): a lock *)
(* file that is created exclusively, rewritten at every heartbeat and      *)
(* taken over when it is stale.  Every await of acquire, heartbeat and     *)
(* release is a place where another process may step in, or this one die.  *)
(* A process acquires once, so it stands for its own token; a reused PID   *)
(* (startedAt before the last boot) is a process that is gone.             *)
(***************************************************************************)
EXTENDS Integers, FiniteSets

CONSTANTS
    Processes,
    Elsewhere,      \* the processes on another host than the rest
    TTL,            \* ttlMs
    MaxTime         \* bound: the clock

VARIABLES
    file,           \* the lock file: absent, torn, or a LeaseRecord
    now,
    at,             \* where each process is
    judged,         \* the record acquire() found in the way, per process
    stamp,          \* heartbeatAt of the record each process would write
    held,           \* processes with this.record set
    beating         \* processes whose heartbeat is before its rename

leaseVars == <<file, now, at, judged, stamp, held, beating>>

Absent == [token |-> "absent", heartbeatAt |-> 0]
Torn(p) == [token |-> "torn", heartbeatAt |-> 0, by |-> p]
Record(p) == [token |-> p, heartbeatAt |-> stamp[p]]

Alive(p) == at[p] \notin {"new", "dead"}
Goto(p, place) == at' = [at EXCEPT ![p] = place]

(* Whether p may take the record over: old, and from another host or of a  *)
(* process that is gone.  A torn record counts as old and from elsewhere.  *)
Stale(p, r) ==
    \/ r.token = "torn"
    \/ /\ r.token \in Processes
       /\ now - r.heartbeatAt > TTL
       /\ \/ (r.token \in Elsewhere) # (p \in Elsewhere)
          \/ ~Alive(r.token)

-----------------------------------------------------------------------------
(* acquire().                                                              *)

(* fresh(), then open(path, "wx"), which creates an empty file or finds one. *)
Open(p) ==
    /\ at[p] = "new"
    /\ IF file = Absent
       THEN file' = Torn(p) /\ Goto(p, "write")
       ELSE UNCHANGED file /\ Goto(p, "read")
    /\ stamp' = [stamp EXCEPT ![p] = now]
    /\ UNCHANGED <<now, judged, held, beating>>

(* The write goes to the file that was opened, which a rename may have     *)
(* replaced by another since.                                              *)
Write(p) ==
    /\ at[p] = "write"
    /\ file' = IF file = Torn(p) THEN Record(p) ELSE file
    /\ held' = held \cup {p}
    /\ Goto(p, "run")
    /\ UNCHANGED <<now, judged, stamp, beating>>

(* The record in the way is judged: LeaseHeldError unless it is stale or   *)
(* has gone.                                                               *)
Judge(p) ==
    /\ at[p] = "read"
    /\ judged' = [judged EXCEPT ![p] = file]
    /\ Goto(p, IF file = Absent \/ Stale(p, file) THEN "replace" ELSE "dead")
    /\ UNCHANGED <<file, now, held, stamp, beating>>

(* replace(): the rename of a file written aside.                          *)
Replace(p) ==
    /\ at[p] = "replace"
    /\ file' = Record(p)
    /\ Goto(p, "check")
    /\ UNCHANGED <<now, judged, held, stamp, beating>>

ReadBack(p) ==
    /\ at[p] = "check"
    /\ IF file.token = p THEN held' = held \cup {p} /\ Goto(p, "run")
                         ELSE UNCHANGED held /\ Goto(p, "dead")
    /\ UNCHANGED <<file, now, judged, stamp, beating>>

-----------------------------------------------------------------------------
(* heartbeat(): the read, which reports a loss, then the rename.  The      *)
(* rename of a process that is releasing, or has released, still comes.    *)
Beat(p) ==
    /\ at[p] = "run" /\ p \in held \ beating
    /\ IF file.token = p
       THEN beating' = beating \cup {p} /\ UNCHANGED <<held, at>>
       ELSE held' = held \ {p} /\ Goto(p, "dead") /\ UNCHANGED beating
    /\ stamp' = [stamp EXCEPT ![p] = now]
    /\ UNCHANGED <<file, now, judged>>

Rewrite(p) ==
    /\ p \in beating
    /\ file' = Record(p)
    /\ beating' = beating \ {p}
    /\ UNCHANGED <<now, at, judged, held, stamp>>

(* release(): the read, then the unlink of whatever is there by then.      *)
Release(p) ==
    /\ at[p] = "run" /\ p \in held
    /\ Goto(p, IF file.token = p THEN "unlink" ELSE "released")
    /\ held' = IF file.token = p THEN held ELSE held \ {p}
    /\ UNCHANGED <<file, now, judged, stamp, beating>>

Unlink(p) ==
    /\ at[p] = "unlink"
    /\ file' = Absent
    /\ held' = held \ {p}
    /\ Goto(p, "released")
    /\ UNCHANGED <<now, judged, stamp, beating>>

(* The process dies, or exits once it has released the lease, and leaves   *)
(* the file as it is.                                                      *)
Crash(p) ==
    /\ Alive(p)
    /\ held' = held \ {p}
    /\ beating' = beating \ {p}
    /\ Goto(p, "dead")
    /\ UNCHANGED <<file, now, judged, stamp>>

Tick ==
    /\ now < MaxTime /\ now' = now + 1
    /\ UNCHANGED <<file, at, judged, stamp, held, beating>>

-----------------------------------------------------------------------------
LeaseInit ==
    /\ file = Absent /\ now = 0
    /\ at = [p \in Processes |-> "new"]
    /\ judged = [p \in Processes |-> Absent]
    /\ stamp = [p \in Processes |-> 0]
    /\ held = {} /\ beating = {}

LeaseNext ==
    \/ \E p \in Processes :
          \/ Open(p) \/ Write(p) \/ Judge(p) \/ Replace(p) \/ ReadBack(p)
          \/ Beat(p) \/ Rewrite(p) \/ Release(p) \/ Unlink(p) \/ Crash(p)
    \/ Tick

LeaseSpec == LeaseInit /\ [][LeaseNext]_leaseVars

-----------------------------------------------------------------------------
(* Of the processes that found the same complete record stale and took it  *)
(* over, at most one comes away with the lease: "of two racing takers      *)
(* exactly one wins" (lease.ts:11-12).                                     *)
OneTakerWins ==
    \A p, q \in held :
        judged[p] = judged[q] /\ judged[p].token \in Processes => p = q
=============================================================================
