-------------------------- MODULE MCYamlRoundTrip --------------------------
EXTENDS YamlRoundTrip

\* A word, the empty text, a number, texts that are not plain everywhere or
\* anywhere, one of two lines, one too long for a simple key; those with a space
\* may be folded.
MCChars ==
  "word" :> <<"a">> @@ "" :> <<>> @@ "12" :> <<"1">>
  @@ "a, b" :> <<"a", ",", " ", "a">> @@ "a: b" :> <<"a", ":", " ", "a">>
  @@ "lines" :> <<"a", "nl", "a">> @@ "long" :> <<"a", " ", "a", "a", "a">>
MCLooks == [t \in DOMAIN MCChars |-> CASE t = "" -> "null" [] t = "12" -> "int" [] OTHER -> "str"]

Scalar(text, tag, style) == [text |-> text, tag |-> tag, style |-> style]
MCScalars ==
  {Scalar("word", "str", "none"), Scalar("", "null", "none"), Scalar("12", "str", "none"),
   Scalar("a, b", "str", "none"), Scalar("a: b", "str", "none"),
   Scalar("lines", "str", "none"), Scalar("lines", "str", "block"),
   Scalar("long", "str", "none"), Scalar("word", "t", "none")}

\* id001 and so on; !!str, !!int, !!null; !!seq or !!map; !t, or !<tag> and what
\* a handle makes of it.
MCNameWidth == "x" :> 5 @@ "str" :> 5 @@ "int" :> 5 @@ "null" :> 6 @@ "default" :> 5
               @@ "t" :> 4 @@ "h" :> 2
MCShorthand == "t" :> "h"
\* None; %YAML and %TAG.
MCDirectives == {<<FALSE, {}>>, <<TRUE, {"h"}>>}

MCReader(read, got) == ReadBack(read, got)
MCNothing == [sent |-> <<Wanted(Opening)>>, anchors |-> {}]
=============================================================================
