--------------------------- MODULE MCConversation ---------------------------
EXTENDS StreamedConversation

MCStart == <<"<", "<", "s">>
MCEnd == <<"<", "<", "e">>

\* One or two characters, of one or two bytes.
MCLines == {<<"a">>, <<"b1", "b2">>, <<"a", "a">>, <<"a", "b1", "b2">>}
=============================================================================
