SPECIFICATION FairSpec
CONSTANTS
  Confs <- MCConfs
  MaxFails = 2
  MaxLines = 5
INVARIANTS  ChldIsOver GuessesLimited
PROPERTIES CallEnds EndTogether ImplementsBroker
