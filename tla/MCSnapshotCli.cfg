CONSTANTS
  Entries <- MCEntries
  Replies <- MCReplies
  Configs <- MCConfigs
  Answers = {"y", "Y", "n"}
  ReadError = ReadError
  BarWidth = 40
  None = None

SPECIFICATION Spec

INVARIANT ProgressSound
