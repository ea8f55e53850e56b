------------------------------- MODULE MCCache -------------------------------
(***************************************************************************)
(* hokieday/cache.py on a small instance: the read-through cache with its  *)
(* lock table, and the publication of a bundle.  They share no state, so a *)
(* behaviour is one of the two.                                            *)
(***************************************************************************)
EXTENDS CacheFetch, BundlePublish

VARIABLE part

allVars == <<part, vars, bundleVars>>

CacheStep(A) == part = "cache" /\ A /\ UNCHANGED <<part, bundleVars>>
BundleStep(A) == part = "bundle" /\ A /\ UNCHANGED <<part, vars>>

BothInit ==
    /\ part \in {"cache", "bundle"} /\ Init /\ BundleInit
    /\ part = "cache" => \A f \in Files : final[f] = Absent
    /\ part = "bundle" => mode = "live" /\ \A k \in Keys : kind[k] = "json" /\ maxAge[k] = NoLimit /\ body[k] = None

BothNext == CacheStep(Next) \/ BundleStep(BundleNext)

CacheSpec ==
    /\ BothInit /\ [][BothNext]_allVars
    /\ \A t \in Threads : WF_allVars(CacheStep(Step(t)))
    /\ WF_allVars(BundleStep(Progress))
=============================================================================
