----------------------------- MODULE MCTranscript -----------------------------
(* The transcript of one session on small instances. *)
EXTENDS Transcript

CONSTANTS t1, t2, t3

MCOverlaps == {<<t1, t2>>}

\* Each behaviour has a few of the chances, once each; two steers, two prompts,
\* two replies where a late one meets the next turn.
Budget(chances) == [c \in Chances |-> IF c \in chances THEN 1 ELSE 0]
Twice(budget, chance) == [budget EXCEPT ![chance] = 2]

MCBudgets == {Budget({"prompt", "steer", "reply", "retry"}),
              Budget({"prompt", "follow_up", "steer", "reply"}),
              Budget({"prompt", "follow_up", "promote", "reply"}),
              Budget({"prompt", "follow_up", "abort", "reply"}),
              Budget({"prompt", "steer", "abort", "reply"}),
              Budget({"prompt", "steer", "break", "reply"}),
              Budget({"prompt", "follow_up", "break", "reply"}),
              Twice(Twice(Budget({"prompt"}), "steer"), "reply"),
              Twice(Budget({"prompt", "retry"}), "steer"),
              Twice(Budget({"steer", "reply"}), "prompt"),
              Twice(Twice(Budget({}), "prompt"), "reply"),
              Twice(Budget({"follow_up", "reply"}), "prompt")}

SteerBudgets == {Twice(Budget({"prompt"}), "steer")}

===============================================================================
