---------------------------- MODULE MCSqlEditor ----------------------------
(***************************************************************************)
(* A text of a few bytes, with characters of one and of two.               *)
(***************************************************************************)
EXTENDS SqlEditor

MCLetters == {"e"}
MCWide    == {"e"}
MCQuotes  == {Quote}
MCPastes  == {<<" ", "nl">>, <<"e", "nl", " ">>}
MCBatches ==
    {<<>>, <<[text |-> <<"e">>, kind |-> "Table", score |-> 0],
             [text |-> <<"e", "e">>, kind |-> "Keyword", score |-> 1]>>}
MCPlaceholder  == <<"e">>
MCPreview      == <<"e">>
MCSelectTopSql == <<" ">>
MCDragStarts == {Pos(0, 0)}
=============================================================================
