------------------------------ MODULE RunContract ------------------------------
(***************************************************************************)
(* What the plugin crate promises of each run of a plugin (invoke.rs,      *)
(* registry.rs): one process, which lives only while the run does; one     *)
(* answer, "cancelled" only when somebody asked for it and "dropped" only  *)
(* when the daemon stops; and an answer in the end, whatever the process   *)
(* does.  PluginRuns implements it.                                        *)
(***************************************************************************)
EXTENDS Naturals

CONSTANT Runs

VARIABLES
    stage,     \* each run: none, running, over, seen by its caller
    answer,    \* what its caller is going to see
    live,      \* runs whose process lives
    asked,     \* runs under way that somebody has cancelled
    stopped,   \* the daemon stops
    gone       \* its process has ended: nobody is answered any more

vars == <<stage, answer, live, asked, stopped, gone>>

Answers == {"none", "result", "failed", "cancelled", "dropped"}

Init ==
    /\ stage = [r \in Runs |-> "none"] /\ answer = [r \in Runs |-> "none"]
    /\ live = {} /\ asked = {} /\ stopped = FALSE /\ gone = FALSE

Begin(r) ==
    /\ ~gone /\ stage[r] = "none"
    /\ stage' = [stage EXCEPT ![r] = "running"]
    /\ live' = live \cup {r}
    /\ UNCHANGED <<answer, asked, stopped, gone>>

\* No process could be started.
Refuse(r) ==
    /\ ~gone /\ stage[r] = "none"
    /\ stage' = [stage EXCEPT ![r] = "over"]
    /\ answer' = [answer EXCEPT ![r] = "failed"]
    /\ UNCHANGED <<live, asked, stopped, gone>>

Die(r) ==
    /\ live' = live \ {r}
    /\ UNCHANGED <<stage, answer, asked, stopped, gone>>

Cancel(some) ==
    /\ ~gone
    /\ asked' = asked \cup some
    /\ UNCHANGED <<stage, answer, live, stopped, gone>>

End(r, result) ==
    /\ ~gone /\ stage[r] = "running"
    /\ result = "cancelled" => r \in asked
    /\ r \notin live
    /\ stage' = [stage EXCEPT ![r] = "over"]
    /\ answer' = [answer EXCEPT ![r] = result]
    /\ asked' = asked \ {r}
    /\ UNCHANGED <<live, stopped, gone>>

Deliver(r) ==
    /\ ~gone /\ stage[r] = "over"
    /\ stage' = [stage EXCEPT ![r] = "seen"]
    /\ answer' = [answer EXCEPT ![r] = "none"]
    /\ UNCHANGED <<live, asked, stopped, gone>>

\* The runtime goes, and with it the runs that nobody waits for.
Drop(some) ==
    /\ ~gone /\ stopped
    /\ \A r \in some : stage[r] \in {"none", "running"}
    /\ stage' = [r \in Runs |-> IF r \in some THEN "over" ELSE stage[r]]
    /\ answer' = [r \in Runs |-> IF r \in some THEN "dropped" ELSE answer[r]]
    /\ live' = live \ some /\ asked' = asked \ some
    /\ UNCHANGED <<stopped, gone>>

Stop ==
    /\ ~stopped
    /\ stopped' = TRUE
    /\ asked' \in SUBSET Runs /\ asked \subseteq asked'
    /\ UNCHANGED <<stage, answer, live, gone>>

Exit ==
    /\ stopped /\ ~gone
    /\ gone' = TRUE
    /\ UNCHANGED <<stage, answer, live, asked, stopped>>

Next ==
    \/ \E r \in Runs : \/ Begin(r) \/ Refuse(r) \/ Die(r) \/ Deliver(r)
                       \/ \E result \in Answers \ {"none", "dropped"} : End(r, result)
    \/ \E some \in SUBSET Runs : Cancel(some) \/ Drop(some)
    \/ Stop \/ Exit

\* There are finitely many runs: again and again, none is under way.
Answered == []<>(gone \/ \A r \in Runs : stage[r] # "running")

Safety == Init /\ [][Next]_vars

Spec == Safety /\ Answered
=============================================================================
