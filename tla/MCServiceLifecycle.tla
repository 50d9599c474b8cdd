-------------------------- MODULE MCServiceLifecycle --------------------------
EXTENDS ServiceLifecycle

CONSTANTS a1, m1

\* One connection of each pool.
TwoPools == [c \in {a1, m1} |-> IF c = a1 THEN "auth" ELSE "message"]

\* Everything, sessions without messages, and nothing but the health route.
ThreeConfigs == {{"auth", "message", "webhook"}, {"auth"}, {}}
==============================================================================
