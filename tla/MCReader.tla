------------------------------ MODULE MCReader ------------------------------
EXTENDS Reader

SE == INSTANCE SequencesExt

Q == "\""

\* Every short text of numbers, and every short text of structure.
Short == SE!SeqOf({"0", "1", "-", ".", "e"}, 4) \cup SE!SeqOf({"[", "]", ",", Q, "\\", "1"}, 3)

\* One longer text per hazard: adjacent and unfinished numbers, values that only the
\* next byte ends, escapes and runes at a cut, malformed and cut-off values.
Long == {
    <<>>, <<" ">>,
    <<"1", "2">>, <<"1", " ", "2">>, <<"0", "0", "1">>, <<"-", "0", "0">>, <<"-", "1", "-", "1">>,
    <<"1", ".", "0", ".", "0">>, <<"1", "e", "1", "e">>, <<"1", "e", "+", "1", "+">>,
    <<"1", ".">>, <<"1", "e", "-">>, <<"-">>, <<"-", "x">>, <<"x", "1">>,
    <<"[", "]", "[", "]">>, <<" ", "[", "1", "]", " ">>, <<"[", "[", "]">>, <<"[", "1", "}", "2">>,
    <<"1", "[", "]", Q, Q>>, <<Q, "]", Q, "1">>, <<Q, "\\", Q, Q, "1">>, <<"[", Q, "\\", Q, "]", Q, "]">>,
    <<Q, "C2", "80", Q>>, <<Q, "C2">>, <<Q, "80", Q>>, <<Q, "\\">>, <<Q, "\\", "u", "0">>,
    <<"n", "u", "l", "l", "1">>, <<"n", "u", "l">>, <<"n", "u", "x", "1">>,
    <<"{", Q, Q, ":", "1", "}">>, <<"{", Q, Q, ":">>, <<"[", "1", ",">>, <<"1", "1", "1", "1", " ", "1">> }

MCInputs == Short \cup Long

\* Enough texts to reach every kind of return.
MCLiveInputs == { <<" ">>, <<"1", " ">>, <<"1", ".">>, <<Q, Q>>, <<"[", "]">>, <<"[", "[">>, <<"x">> }
=============================================================================
