------------------------------- MODULE MCTexts -------------------------------
(* Small instances of Texts for TLC.                                       *)
EXTENDS Texts

MCCapital == ("a" :> "A") @@ ("g" :> "G") @@ ("o" :> "O")
                @@ ("k" :> "K") @@ ("v" :> "V") @@ ("p" :> "P")

MCCode == ("+" :> 43) @@ ("," :> 44) @@ ("=" :> 61) @@ ("k" :> 107) @@ ("p" :> 112)
             @@ ("v" :> 118)

MCKeywords == {<<"g", "o">>}

\* For Reset and the like.
MCProtected == {<<"A", "a">>}

MCAlphabet == ("comment" :> {" ", "w"})
              @@ ("name" :> {"a", "A", "1", "_", "."})
              @@ ("params" :> {"k", "v", "p", "=", ",", "+"})
              @@ ("package" :> {"g", "o", "1", "-", ".", "/", ";"})
              @@ ("message" :> {"p", "q", "m", "r", "a", "1", "2"})

MCMaxLen == ("comment" :> 13) @@ ("name" :> 7) @@ ("params" :> 6) @@ ("package" :> 6)
            @@ ("message" :> 5)
MCWidths == -1..5
=============================================================================
