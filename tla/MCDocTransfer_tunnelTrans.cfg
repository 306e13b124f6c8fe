SPECIFICATION FairSpec
CONSTANTS
  Docs <- MCDocs
  Keys <- MCKeys
  KeyOf <- MCKeyOf
  DbOf <- MCDbOf
  Mentions <- MCMentions
  Lists <- MCLists
  Script <- tunnelTransProcess
  MaxAttempts = 3
INVARIANTS NoSilentLoss CopiesAccounted DoneMeansEmptied NoSouthRefInGd
PROPERTIES AttemptEnds ImplementsMigration
CHECK_DEADLOCK FALSE
