------------------------------- MODULE LogRing -------------------------------
(***************************************************************************)
(* The buffer of recent log entries (core, logging.rs).                    *)
(*                                                                         *)
(* A thread that logs takes a number, hands the line over to the thread of *)
(* the log file (DaemonLog), which drops it when its queue is full, and    *)
(* pushes the entry into the ring, each under a lock of its own.  So the   *)
(* ring, the file and the numbers need not agree in order.                 *)
(*                                                                         *)
(* An entry is its number; what was pushed is kept as a whole (history).   *)
(***************************************************************************)
EXTENDS Naturals, Sequences

CONSTANTS
    Emitters,  \* threads that log
    Capacity,  \* entries of the ring, 2000
    Backlog    \* lines the queue of the file's thread holds

VARIABLES
    stage,   \* where an emitter is
    number,  \* the number it has taken
    next_id,
    queue,   \* lines handed over
    ring,    \* the entries that are kept
    pushed   \* all entries, as they were pushed (history)

ringVars == <<stage, number, next_id, queue, ring, pushed>>

RingType ==
    /\ stage \in [Emitters -> {"idle", "numbered", "handed"}]
    /\ number \in [Emitters -> Nat] /\ next_id \in Nat
    /\ queue \in Seq(Nat) /\ ring \in Seq(Nat) /\ pushed \in Seq(Nat)

RingInit ==
    /\ stage = [e \in Emitters |-> "idle"] /\ number = [e \in Emitters |-> 0]
    /\ next_id = 1 /\ queue = <<>> /\ ring = <<>> /\ pushed = <<>>

\* on_event: next_id.
Number(e) ==
    /\ stage[e] = "idle"
    /\ stage' = [stage EXCEPT ![e] = "numbered"]
    /\ number' = [number EXCEPT ![e] = next_id]
    /\ next_id' = next_id + 1
    /\ UNCHANGED <<queue, ring, pushed>>

\* The line is for the thread of the file, which has no room, or takes it in time.
HandOver(e) ==
    /\ stage[e] = "numbered"
    /\ stage' = [stage EXCEPT ![e] = "handed"]
    /\ queue' = IF Len(queue) < Backlog THEN Append(queue, number[e]) ELSE queue
    /\ UNCHANGED <<number, next_id, ring, pushed>>

WriteLine ==
    /\ queue # <<>>
    /\ queue' = Tail(queue)
    /\ UNCHANGED <<stage, number, next_id, ring, pushed>>

\* push: the oldest goes when the ring is full.
Push(e) ==
    /\ stage[e] = "handed"
    /\ stage' = [stage EXCEPT ![e] = "idle"]
    /\ ring' = Append(IF Len(ring) >= Capacity THEN Tail(ring) ELSE ring, number[e])
    /\ pushed' = Append(pushed, number[e])
    /\ UNCHANGED <<number, next_id, queue>>

\* The process is started again: the ring is empty, and numbers begin anew.
StartAgain ==
    /\ stage' = [e \in Emitters |-> "idle"] /\ number' = [e \in Emitters |-> 0]
    /\ next_id' = 1 /\ queue' = <<>> /\ ring' = <<>> /\ pushed' = <<>>

RingNext ==
    \/ \E e \in Emitters : Number(e) \/ HandOver(e) \/ Push(e)
    \/ WriteLine \/ StartAgain

RingSpec == RingInit /\ [][RingNext]_ringVars

-----------------------------------------------------------------------------
(* A reader of the ring sees the last entries pushed, up to its capacity.  *)
RingIsRecent ==
    /\ Len(ring) = IF Len(pushed) < Capacity THEN Len(pushed) ELSE Capacity
    /\ \A k \in 1..Len(ring) : ring[k] = pushed[Len(pushed) - Len(ring) + k]

(* Every number is of one entry, and is in the ring's past or still with   *)
(* the thread that took it: no reader misses one that can never come.      *)
NumbersAccounted ==
    /\ \A k, m \in 1..Len(pushed) : pushed[k] = pushed[m] => k = m
    /\ \A n \in 1..next_id - 1 :
         \/ \E k \in 1..Len(pushed) : pushed[k] = n
         \/ \E e \in Emitters : stage[e] # "idle" /\ number[e] = n
=============================================================================
