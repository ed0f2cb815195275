SPECIFICATION Spec
CONSTANTS
  Schema <- MCSchema
  Root = "App"
  Keys = {"name", "items", "url", "sub"}
  Texts = {"t", "null"}
  MaxEvents = 9
INVARIANTS
  BuiltAsWritten
  RefusedOnlyIfWrong
