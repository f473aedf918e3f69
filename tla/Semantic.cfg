CONSTANTS
  Configs <- MCConfigs
  Queries <- MCQueries
  Tables <- MCTables
  Late <- MCLate
  RollupKeys <- MCRollupKeys
  NameOrder <- MCNameOrder
SPECIFICATION Spec
INVARIANTS AnswersExact LoadedCompiles
PROPERTY RollupCatchesUp
