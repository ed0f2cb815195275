---------------------------- MODULE MCYamlParser ----------------------------
EXTENDS YamlParser

\* Everything fetch_more_tokens dispatches on.
MCText == {"eof", "%", "---", "...", "[", "]", "{", "}", ",", "-", "?", ":", "&", "*", "!",
           "plain", "quoted", "block", "bad"}
MCNames == {"h"}
MCReader(read, event) == read
MCNothing == 0
=============================================================================
