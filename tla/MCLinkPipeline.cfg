SPECIFICATION PipelineFairSpec
CONSTANTS
  Docs <- MCDocs
  Keys <- MCKeys
  KeyOf <- MCKeyOf
  DbOf <- MCDbOf
  Mentions <- MCMentions
  Lists <- MCLists
  Script <- phyLinkProcess
  MaxAttempts = 2
  OchDocs <- MCOchDocs
  OchKeys <- MCOchKeys
  OchKeyOf <- MCOchKeyOf
  OchDbOf <- MCOchDbOf
  OchMentions <- MCOchMentions
  OchOf <- MCOchOf
  NoOch = NoOch
PROPERTIES ChannelsFollowLinks OchRunEnds
CHECK_DEADLOCK FALSE
