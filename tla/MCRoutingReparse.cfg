SPECIFICATION Spec
CONSTANTS
  NoFile = NoFile
  FilterNames <- MCFilterNames
  Tokens <- MCTokens
  Files <- MCFiles
  Msgs <- MCMsgs
PROPERTY
  ValidFileLoads
