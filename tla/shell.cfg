SPECIFICATION FairSpec
CONSTANTS
    Sessions = {s1, s2}
    Conns = {c1, c2, c3}
    Others = {c3}
    Tabs = {t1, t2}
    MaxTabs = 2
    MaxTries = 1
    MaxEvents = 2
    None = None
INVARIANT NobodyForgotten
INVARIANT SinkIsServed
INVARIANT TabsDistinct
INVARIANT ServesActiveTab
INVARIANT RetryAhead
INVARIANT PageInv
PROPERTY NewestKeepsSession
PROPERTY KillsWhatItDrops
PROPERTY IdleEnds
PROPERTY SocketAnswered

CHECK_DEADLOCK FALSE
