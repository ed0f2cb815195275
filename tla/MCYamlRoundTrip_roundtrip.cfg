SPECIFICATION RTSpec
CONSTANTS
  MaxCol = 0
  MaxFlow = 9
  Far = 4
  Text = {}
  Names = {"YAML", "h"}
  Reader <- MCReader
  Nothing <- MCNothing
  MaxDepth = 2
  Width = 6
  Chars <- MCChars
  Looks <- MCLooks
  KeyLimit = 10
  NameWidth <- MCNameWidth
  Shorthand <- MCShorthand
  Directives <- MCDirectives
  SentScalars <- MCScalars
  Anchors = {"none", "x"}
  Tags = {"default", "t"}
  EmptyRoots = FALSE
  OpenPlainRoots = FALSE
  MaxSpecial = 1
INVARIANTS
  RoundTrip
