-------------------------- MODULE MCDurabilityCuts --------------------------
(* Instances of DurabilityCuts: the crash cuts with two domains, every
   rotation of the plan and two iterations; the storage faults with one domain
   and a whole cycle of the plan; and a faulty broker under every crash cut. *)
EXTENDS DurabilityCuts

CONSTANTS queue, kv

CrashCutCampaigns ==
    [scenario : {"crash-cuts"}, domains : {{queue, kv}}, iterations : {2}, seed : 0..5,
     misbehaviours : {{}}, harnessMayFail : {TRUE}]
StorageFaultCampaigns ==
    [scenario : {"storage-faults"}, domains : {{queue}}, iterations : {5}, seed : {0},
     misbehaviours : {{}}, harnessMayFail : {TRUE}]
FaultyBrokerCampaigns ==
    [scenario : {"crash-cuts"}, domains : {{queue, kv}}, iterations : {1}, seed : 0..5,
     misbehaviours : {{"early-ack", "lose", "duplicate"}}, harnessMayFail : {FALSE}]

AllCampaigns == CrashCutCampaigns \cup StorageFaultCampaigns \cup FaultyBrokerCampaigns
=============================================================================
