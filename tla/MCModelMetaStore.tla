-------------------------- MODULE MCModelMetaStore ---------------------------
(* Instances of ModelMetaStore for TLC. *)
EXTENDS ModelMetaStore, TLC

CONSTANTS m1

MCModelOf == [d \in Deployment |-> m1]

(* Bound: limits and usage share no table, so a behaviour explores either  *)
(* the catalogue, with at most one failed request of the first day, or the *)
(* requests without it.                                                    *)
CatalogueOrTraffic ==
    \/ known = {} /\ learned = {} /\ sync = NotSyncing /\ ~status.error
    \/ /\ begun <= 1 /\ today = 1
       /\ lifetime.requests = lifetime.errors /\ \A c \in Caller : call[c] = Idle \/ ~call[c].ok

Symmetry == Permutations(Caller)

=============================================================================
