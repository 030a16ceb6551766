CONSTANTS
  Process = {p, q}
  Line <- MCLine
  Directory <- MCDirectory
  MaxEdits = 1
  Topic <- MCTopic
  Filter <- MCFilter
  MaxDepth = 3
SPECIFICATION Spec
CHECK_DEADLOCK FALSE
INVARIANT WorksWithAccepted
INVARIANT VerifyPredicts
INVARIANT SourcesGetTheirs
INVARIANT DiscoverLeadsBack
PROPERTY ExporterUndisturbed
