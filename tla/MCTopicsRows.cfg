SPECIFICATION TopicsSpec
CONSTANTS
  TagNames = {"A", "B"}
  MaxTags = 1
  EtTopics = {"motion", "plate"}
  EtRefreshes = {"r1", "r2"}
INVARIANTS TopicsHaveRows
CHECK_DEADLOCK FALSE
