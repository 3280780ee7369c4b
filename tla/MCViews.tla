------------------------------ MODULE MCViews ------------------------------
(* A small instance of Views for TLC.                                      *)
EXTENDS Views, TLC

\* A secret that is masked as a whole and one that keeps its ends, which ends
\* as it begins.
Short == <<"p", "w">>
Long  == <<"A", "K", "I", "x", "y", "A", "K">>

MCChars == {"p", "w", "-", "A", "K", "I", "x", "y", "p64", "w64", "u64", "uw"}

MCRules == {[id |-> "pw", secret |-> Short], [id |-> "key", secret |-> Long]}

\* Results in each of the fields, an empty one, and a detector that fails.
MCDetectors ==
  {[type |-> "T1", secret |-> Short, field |-> "Raw",      fails |-> FALSE],
   [type |-> "T2", secret |-> Short, field |-> "Redacted", fails |-> FALSE],
   [type |-> "T3", secret |-> Long,  field |-> "RawV2",    fails |-> FALSE],
   [type |-> "T4", secret |-> Short, field |-> "none",     fails |-> FALSE],
   [type |-> "T5", secret |-> Short, field |-> "Raw",      fails |-> TRUE]}

\* Two encodings of the short secret, and one encoded twice.
MCDecoders == {("p64" :> "p") @@ ("w64" :> "w"), ("u64" :> "p64") @@ ("uw" :> "w")}

MCTexts == {<<>>, <<"p">>, <<"w", "p", "w">>, <<"p", "w", "p", "w">>,
            <<"A", "K", "I", "x">>, <<"y", "A", "K">>,
            Long \o <<"I", "x", "y", "A", "K">>,
            <<"p64">>, <<"w64", "-">>, <<"u64", "uw">>}
=============================================================================
