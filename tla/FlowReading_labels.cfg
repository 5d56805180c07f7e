SPECIFICATION Spec
CONSTANT Names = {"a", "b", "c", "d", "start"}
CONSTANT Walks = {}
CONSTANT Arrivals = {}
CONSTANT Drawings <- MCLabelled
INVARIANT LegacyKeepsMeaning
CHECK_DEADLOCK FALSE
