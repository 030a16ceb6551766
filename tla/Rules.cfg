CONSTANTS
  BadJSON = BadJSON
  NotNumeric = NotNumeric
  NoMatch = NoMatch
  Nothing = Nothing
  r1 = r1
  Text <- MCText
  Document <- MCDocument
  Decode <- MCDecode
  Parse <- MCParse
  Format <- MCFormat
  Times <- MCTimes
  Group <- MCGroup
  Expand <- MCExpand
  NameOrder <- MCNameOrder
  Source <- MCSource
SPECIFICATION Spec
INVARIANT TypeOK
INVARIANT OrderDoesNotMatter
INVARIANT OutcomesAreRight
