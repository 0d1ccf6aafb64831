----------------------------- MODULE MCLogTail -----------------------------
(* LogTail with a page as a model value and the characters by name.      *)
EXTENDS LogTail

CONSTANT v1

AllCharacters == CharacterKinds
PlainCharacters == {<<"a">>, <<"nl">>}
=============================================================================
