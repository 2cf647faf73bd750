------------------------------ MODULE MCAgents ------------------------------
(***************************************************************************)
(* Agents with a planner and a worker, one file and one test.              *)
(***************************************************************************)
EXTENDS Agents, TLC

CONSTANTS planner, worker

MCAssigned == {"a"}

Cast(n, p, w, edits, claims, grants, hooks) ==
    [sessions |-> (planner :> 1) @@ (worker :> n), does |-> (planner :> p) @@ (worker :> w),
     edits |-> edits, claims |-> claims, grants |-> grants, hooks |-> hooks]

MayPlan == [verbs |-> {"plan"}, delegable |-> TRUE, scope |-> Paths]
OnlyTests == [verbs |-> {}, delegable |-> FALSE, scope |-> {"t"}]

(* A plan and the work it hands out; an agent that strays; the checkout;
   what a session says. *)
Delegation == Cast(2, {"plan"}, {"create", "edit", "snapshot", "propose"}, {"a"}, {}, {MayPlan}, {})
Straying == Cast(1, {}, {"create", "edit", "snapshot", "propose", "claim"}, Paths, {"a"}, {OnlyTests},
                 {[on |-> "anomaly", act |-> "agent", agent |-> planner]})
Checkout == Cast(1, {"adopt", "release", "edit", "snapshot", "propose"}, {"adopt", "edit"}, {"a"}, {}, {},
                 {[on |-> "proposed", act |-> "land", agent |-> worker],
                  [on |-> "proposed", act |-> "agent", agent |-> worker]})
Sayings == Cast(2, {"remember"}, {"create", "drop", "claim", "unclaim", "remember"}, {}, Paths, {}, {})

MCCasts == {Delegation, Straying, Checkout, Sayings}
=============================================================================
