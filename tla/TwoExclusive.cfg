\* The same groups, tasks and rules: a file may switch both groups on.
SPECIFICATION Spec
CONSTANTS
    sell = sell
    buy = buy
    boss = boss
    alarm = alarm
    g1 = g1
    g2 = g2
    NoGroup = NoGroup
    Tasks <- MCTasks
    Rules <- MCRules
    Groups <- MCGroups
    GroupOf <- MCGroupOf
    Exclusive <- MCGroups
    Recurring = {buy}
    MaxSteps = 1
    MaxStack = 2
INVARIANT OneExclusiveRuns
CHECK_DEADLOCK FALSE
