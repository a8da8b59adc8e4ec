---------------------------- MODULE MCTaskEngine ----------------------------
(* A task and a rule of one exclusive group, a recurring task of another    *)
(* group that excludes the first, and a rule at top level.                  *)
EXTENDS TaskEngine

CONSTANTS sell, buy, boss, alarm, g1, g2

MCTasks == {sell, buy}
MCRules == {boss, alarm}
MCGroups == {g1, g2}
MCGroupOf == [x \in MCTasks \cup MCRules |->
                 IF x \in {sell, boss} THEN g1 ELSE IF x = buy THEN g2 ELSE NoGroup]
=============================================================================
