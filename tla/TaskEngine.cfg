\* Every configuration of two groups, two tasks and two rules.
SPECIFICATION Spec
CONSTANTS
    sell = sell
    buy = buy
    boss = boss
    alarm = alarm
    g1 = g1
    g2 = g2
    NoGroup = NoGroup
    Tasks <- MCTasks
    Rules <- MCRules
    Groups <- MCGroups
    GroupOf <- MCGroupOf
    Exclusive <- MCGroups
    Recurring = {buy}
    MaxSteps = 1
    MaxStack = 2
INVARIANTS TypeOK StackInOrder
PROPERTIES HuntHandedBack
CHECK_DEADLOCK FALSE
