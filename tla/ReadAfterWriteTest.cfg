CONSTANTS
  Uninit = Uninit
  TestDescs <- MCTestDescs
  WLMStart <- MCWLMStart
SPECIFICATION Spec
INVARIANT TypeOK
INVARIANT EveryReadSeesItsData
INVARIANT NoRaceOnCMX
PROPERTY TestContract
CHECK_DEADLOCK FALSE
