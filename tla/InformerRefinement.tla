------------------------- MODULE InformerRefinement -------------------------
(***************************************************************************)
(* InformerRegistry as an implementation of SharedStores.  The mapping     *)
(* forgets the locks, the services, discovery and the informers that came  *)
(* to nothing.  A registered informer counts as the store of its target    *)
(* from the end of the sync its worker waits for: until then it may still  *)
(* be dropped, even if the reflector has listed.                           *)
(***************************************************************************)
EXTENDS InformerRegistry

Awaited(k) == \E w \in Workers : pc[w] = "sync" /\ key[w] = k

Opened == [k \in Keys |-> IF Awaited(k) THEN 0 ELSE registry[k]]

Stores == INSTANCE SharedStores WITH opened <- Opened, target <- key, read <- lister

\* Whether it comes from the cached service, the map of informers, a sync of its own or the
\* fallback path, and however many syncs have failed before, every evaluation of a target
\* reads one and the same store (getOrCreateEvaluationService, getOrCreateResourceInformer,
\* evaluatePolicy).
StoresShared == Stores!Spec
=============================================================================
