--------------------------- MODULE MCYamlObjects ---------------------------
EXTENDS YamlObjects, TLC

\* An application with a name, a list of handlers and a nested handler; a handler
\* has a word and a list of words.
Rule(type, optional, of) == [type |-> type, optional |-> optional, of |-> of]
MCSchema ==
  "App" :> ("name" :> Rule("str", FALSE, "") @@ "items" :> Rule("repeated", TRUE, "Handler")
            @@ "sub" :> Rule("object", TRUE, "Handler"))
  @@ "Handler" :> ("url" :> Rule("word", FALSE, "") @@ "items" :> Rule("repeated", TRUE, "word"))
=============================================================================
