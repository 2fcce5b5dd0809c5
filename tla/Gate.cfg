CONSTANTS
  a = a  b = b  c = c  gemini = gemini  instagram = instagram
  Calls <- ThreeCalls
  Providers <- TwoProviders
  globalLimit = 2
  providerLimits <- Limits
SPECIFICATION LiveSpec
INVARIANTS GateIsExact NoIdleCapacity
PROPERTIES EveryCallSettles
