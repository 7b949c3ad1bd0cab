CONSTANTS
  Callers = {gm, tesseract}
SPECIFICATION FairSpec
INVARIANTS NothingOutlivesCall RunnerInv
PROPERTIES ContractSpec EveryCallReturns
