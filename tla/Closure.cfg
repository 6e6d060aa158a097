CONSTANTS
  MaxFiles = 2
  MaxChain = 6
  Parts <- MCParts
  Queries = {"q", "r"}
  Script <- MCScript
  Files <- MCFiles
  Trees <- MCTrees
  Bodies <- MCBodies
  ScriptBodies <- MCScriptBodies
  Entries <- MCEntries
SPECIFICATION MergeSpec
INVARIANTS
  ChangeIsSeen
CHECK_DEADLOCK FALSE
