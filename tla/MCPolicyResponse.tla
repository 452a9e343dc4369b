--------------------------- MODULE MCPolicyResponse ---------------------------
(* Instances of PolicyResponse for TLC. *)
EXTENDS PolicyResponse

OnePort  == {22}
TheApps  == {"sshd", "nginx"}

(* Harmless traffic, and a risk. *)
TheSnapshots ==
    {[risk |-> 0, rate |-> 1, app |-> "nginx"], [risk |-> 1, rate |-> 1, app |-> "sshd"]}

(* Two of the policies have the same id. *)
Watch == [id |-> "watch", enabled |-> TRUE, minRisk |-> 0, minRate |-> 1,
          target |-> AnyApp, exclude |-> {}, action |-> "notify"]
Sanction == [id |-> "sanction", enabled |-> TRUE, minRisk |-> 1, minRate |-> 0,
             target |-> "sshd", exclude |-> {}, action |-> "block"]
Review == [id |-> "sanction", enabled |-> TRUE, minRisk |-> 1, minRate |-> 0,
           target |-> AnyApp, exclude |-> {"nginx"}, action |-> "request_approval"]

ThreeRules == {Watch, Sanction, Review}
=============================================================================
