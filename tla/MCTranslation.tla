--------------------------- MODULE MCTranslation ----------------------------
(* Files of up to three lines, then two sentences, with five words at most. *)
EXTENDS Translation

MCWords == {"a", "b", "x"}

MCSourcePhrases == {<<>>, <<"a">>, <<"b">>, <<"a", "b">>, <<"b", "a", "x">>}

MCTargetPhrases == {<<>>, <<"x">>, <<"a", "x">>}

MCSentences == {<<"x", "b">>, <<"b", "a", "x">>, <<"a", "a", "b">>}

=============================================================================
