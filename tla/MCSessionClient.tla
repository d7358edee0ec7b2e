--------------------------- MODULE MCSessionClient ---------------------------
(* The client side of one session on small instances. *)
EXTENDS SessionClient

Budget(chances) == [c \in Chances |-> IF c \in chances THEN 1 ELSE 0]

\* Each behaviour has a few of the chances, one of each.
SafetyBudgets == {Budget({"prompt", "break"}), Budget({"prompt", "restart"}),
                  Budget({"run", "steer", "break"}), Budget({"run", "abort", "break"}),
                  Budget({"run", "load", "reload"}), Budget({"run", "load", "break"}),
                  Budget({"run", "restart", "load"})}

LivenessBudgets == {Budget({"prompt", "break"}), Budget({"run", "abort"}),
                    Budget({"run", "load"}), Budget({"run", "steer"})}

PromptBudgets == {Budget({"prompt"}), Budget({"run", "steer"})}

===============================================================================
