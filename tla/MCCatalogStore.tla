---------------------------- MODULE MCCatalogStore ----------------------------
(***************************************************************************)
(* Two clients, and both compact.  Two commits are made: both by one, so   *)
(* that a batch can grow between tries and segments overlap, or one by     *)
(* each.                                                                   *)
(***************************************************************************)
EXTENDS CatalogStore, TLC

CONSTANTS c1, c2

\* CatalogIntact and ScansComplete except what follows a disturbance.
Undisturbed == ~ disturbed

ClientsAreAlike == Permutations(Clients)

\* No put meets a generation that an unfinished compaction left: what readers miss then
\* they miss by the order of requests alone.
OwnContents ==
    \A c \in Clients :
        pc[c] = "publish snapshot" => snapshots[plan[c].gen] = plan[c].snapshot

===============================================================================
