---------------------------- MODULE ArtifactStore ----------------------------
(***************************************************************************)
(* Bundles of code in a content-addressed store: a publisher puts the      *)
(* blobs of a bundle and then leases it, and gc() deletes what no lease    *)
(* reaches.  A blob is named by its digest, so that equal sources of two   *)
(* bundles are one blob.  What a worker does with a bundle is the module   *)
(* WorkerRegistry.                                                         *)
(***************************************************************************)
EXTENDS Naturals, SequencesExt, FiniteSetsExt

CONSTANTS
  Bundles,
  SourcesOf,           \* the sources of each bundle
  MaxSweeps, MaxByHand  \* bounds

VARIABLES
  store, leases,       \* the blobs, and the leased bundles
  unsigned,            \* the leases that name no signature
  publish,             \* of each bundle: how many of its blobs are put
  sweep,               \* gc(): pc, reachable, collectable; the sweeps so far
  byHand,              \* history: leases released or taken by hand
  whole                \* history: leased bundles that no sweep may touch

published == <<store, leases, unsigned, publish>>
artifactVars == <<published, sweep, byHand, whole>>

Sources(b) == {<<s, "source">> : s \in SourcesOf[b]}
Flow(b) == <<b, "flow">>
Manifest(b) == <<b, "manifest">>
Signature(b) == <<b, "signature">>

(* What a lease holds: the signature if it names it (FIXME P5-2, gc.py:39) *)
(* and what the manifest names.                                            *)
Content(b, signed) ==
  Sources(b) \union {Flow(b), Manifest(b)} \union (IF signed THEN {Signature(b)} ELSE {})
Kept(b) == Content(b, b \notin unsigned)

(* publish_bundle puts the manifest behind what it names, then signs it.   *)
(* Flow stands for the artifact components as well.                        *)
PutOrder(b) == SetToSeq(Sources(b)) \o <<Flow(b), Manifest(b), Signature(b)>>

-----------------------------------------------------------------------------
(* put() writes nothing that is there; a publisher may stop at any point,  *)
(* and a published bundle may be published again.                          *)
PutBlob(b) ==
  /\ publish[b] < Len(PutOrder(b))
  /\ store' = store \union {PutOrder(b)[publish[b] + 1]}
  /\ publish' = [publish EXCEPT ![b] = @ + 1]
  /\ UNCHANGED <<leases, unsigned, sweep, byHand, whole>>

(* One file for each bundle: a lease replaces the one before it.           *)
Lease(b, signed) ==
  /\ leases' = leases \union {b}
  /\ unsigned' = IF signed THEN unsigned \ {b} ELSE unsigned \union {b}
  /\ whole' = CASE sweep.pc = "idle" /\ Content(b, signed) \subseteq store -> whole \union {b}
                 [] signed /\ b \in unsigned -> whole \ {b}
                 [] OTHER -> whole

(* Deployment.publish leases what publish_bundle put, with its signature.  *)
AcquireLease(b) ==
  /\ publish[b] = Len(PutOrder(b)) /\ publish' = [publish EXCEPT ![b] = 0]
  /\ Lease(b, TRUE)
  /\ UNCHANGED <<store, sweep, byHand>>

(* acquire_lease is public: others may lease at any time, in either form.  *)
LeaseByHand(b) ==
  /\ byHand < MaxByHand /\ byHand' = byHand + 1
  /\ \E signed \in BOOLEAN : Lease(b, signed)
  /\ UNCHANGED <<store, publish, sweep>>

ReleaseLease(b) ==
  /\ b \in leases /\ byHand < MaxByHand
  /\ leases' = leases \ {b} /\ unsigned' = unsigned \ {b} /\ whole' = whole \ {b}
  /\ byHand' = byHand + 1
  /\ UNCHANGED <<store, publish, sweep>>

-----------------------------------------------------------------------------
(* Mutant: the detached signature is never part of the closure.            *)
ClosureUnsigned(b) == Content(b, FALSE)

reachable_closure(b) == Kept(b)

(* gc(), not a dry run, reads the leases and their manifests.  It refuses  *)
(* to start without a lease, and gives up if one cannot be followed.       *)
Mark ==
  /\ sweep.pc = "idle" /\ sweep.done < MaxSweeps
  /\ leases # {} /\ \A b \in leases : Manifest(b) \in store
  /\ sweep' = [sweep EXCEPT !.pc = "list",
                 !.reachable = UNION {reachable_closure(b) : b \in leases}]
  /\ whole' = {b \in leases : Kept(b) \subseteq store}
  /\ UNCHANGED <<published, byHand>>

Enumerate ==
  /\ sweep.pc = "list"
  /\ sweep' = [sweep EXCEPT !.pc = "delete", !.collectable = store \ sweep.reachable]
  /\ UNCHANGED <<published, byHand, whole>>

(* One object after another.                                               *)
DeleteObject ==
  /\ sweep.pc = "delete"
  /\ IF sweep.collectable = {}
     THEN /\ sweep' = [pc |-> "idle", reachable |-> {}, collectable |-> {},
                       done |-> sweep.done + 1]
          /\ UNCHANGED store
     ELSE \E d \in sweep.collectable :
            /\ store' = store \ {d}
            /\ sweep' = [sweep EXCEPT !.collectable = @ \ {d}]
  /\ UNCHANGED <<leases, unsigned, publish, byHand, whole>>

ArtifactInit ==
  /\ store = {} /\ leases = {} /\ unsigned = {} /\ publish = [b \in Bundles |-> 0]
  /\ sweep = [pc |-> "idle", reachable |-> {}, collectable |-> {}, done |-> 0]
  /\ byHand = 0 /\ whole = {}

ArtifactNext ==
  \/ \E b \in Bundles : PutBlob(b) \/ AcquireLease(b) \/ LeaseByHand(b) \/ ReleaseLease(b)
  \/ Mark \/ Enumerate \/ DeleteObject

ArtifactSpec == ArtifactInit /\ [][ArtifactNext]_artifactVars

-----------------------------------------------------------------------------
(* What a lease holds stays: a bundle whose content was all there when a   *)
(* sweep looked at its lease, or when it was leased and none ran, keeps it *)
(* until it is released, whatever is published, leased, released and swept *)
(* beside it, and also where it shares its blobs.  (A bundle that is       *)
(* leased, or leased anew with its signature, while a sweep runs may be    *)
(* left incomplete: gc.py:159.  A lease without signature does not hold    *)
(* the signature, which its bundle cannot be resolved without: gc.py:39.)  *)
LeasedStays == \A b \in whole : Kept(b) \subseteq store
=============================================================================
