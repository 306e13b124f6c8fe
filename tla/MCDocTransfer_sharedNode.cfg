SPECIFICATION Spec
CONSTANTS
  Docs <- MCDocs
  Keys <- MCKeys
  KeyOf <- MCKeyOf
  DbOf <- MCDbOf
  Mentions <- MCMentions
  Lists <- MCSharedNode
  Script <- phyNodeProcess
  MaxAttempts = 1
INVARIANT OneDocPerNode
CHECK_DEADLOCK FALSE
