SPECIFICATION Spec
CONSTANT Names = {"a", "b", "c", "gone", "start"}
CONSTANT Walks <- MCWalks
CONSTANT Arrivals <- MCArrivals
CONSTANT Drawings <- MCDrawings
INVARIANTS LookupsAreTheLoops ValidFlowsLeadSomewhere CanvasKeepsMeaning ClientValidateAgrees
CHECK_DEADLOCK FALSE
