----------------------------- MODULE MCCopyMode -----------------------------
EXTENDS CopyMode
MCRows == {<<"w", "_", "(", "w">>, <<"(", ")", "(", ")">>, <<"(", "(", ")", ")">>,
           <<"_", "w", "w", "_">>, <<"_", "_", "_", "_">>, <<"w", ")", "_", "w">>}
MCScreens == {<<r, s>> : r, s \in MCRows}
=============================================================================
