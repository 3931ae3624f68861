SPECIFICATION Spec
CONSTANT worldSize = 6
INVARIANTS EdgesFit FirstHopsAreShortest RepairCanFinish
