------------------------------- MODULE MCBans -------------------------------
(* An instance of Bans for TLC. *)
EXTENDS Bans

CONSTANTS h1, h2, e1

\* When two updates overlap, nothing is claimed of the cache and of who is let in until an
\* undisturbed one is answered: lookups, failing or not, and changes of the rooms are
\* looked at beside one update, and an overlap of two by itself.
Apart == Busy = Handlers => faults = {"update"} /\ \A e \in Events : lookup[e] = None
=============================================================================
