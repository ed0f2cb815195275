SPECIFICATION FairSpec
CONSTANTS
  MaxCol = 1
  MaxFlow = 1
  Far = 2
  Text <- MCText
  Names <- MCNames
  Reader <- MCReader
  Nothing <- MCNothing
INVARIANTS
  KeysAhead
  StreamEndsBalanced
PROPERTIES
  ImplementsYamlEvents
  ReadsOn
