------------------------- MODULE MCWebhookDelivery -------------------------
(* Instances of WebhookDelivery for TLC: how often each fault may occur.   *)
EXTENDS WebhookDelivery, TLC

CONSTANTS Notifies, Crashes, Drops, Redis

MCBudget == [f \in Faults |->
    CASE f = "notify" -> Notifies
      [] f = "crash"  -> Crashes
      [] f = "drop"   -> Drops
      [] f = "redis"  -> Redis]

Symmetry == Permutations(Slots) \cup Permutations(Events)
============================================================================
