---------------------------- MODULE MCHeartbeat -----------------------------
(* Small instances of Heartbeat. *)
EXTENDS Heartbeat

(* One alert, raised by two heartbeats of the same tenant. *)
OneAlert == <<[tenant |-> "t1", type |-> "daily_business_check", alert |-> "cash_runway_low"],
              [tenant |-> "t1", type |-> "cash_runway_check", alert |-> "cash_runway_low"]>>

(* Two tenants, one heartbeat each. *)
TwoTenants == <<[tenant |-> "t1", type |-> "tax_reserve_check", alert |-> "tax_reserve_gap"],
                [tenant |-> "t2", type |-> "tax_reserve_check", alert |-> "tax_reserve_gap"]>>
=============================================================================
