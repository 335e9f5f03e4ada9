------------------------- MODULE MCValueConversions -------------------------
(***************************************************************************)
(* TLC instance of ValueConversions, to a scale on which every limit is in *)
(* reach: days of six seconds of three ticks, ten milliseconds and a       *)
(* hundred microseconds, minutes of two seconds, DATETIMEs from six days   *)
(* before 1970 to twelve after it, 58 for 2^32 (the seconds of 9 2/3 days) *)
(* and integers from -512 to 511.                                          *)
(***************************************************************************)
EXTENDS ValueConversions

MCMinSecs == -36                   \* a .cfg has no negative numbers
MCIntMaxText == <<5, 1, 1>>

\* Around the limits, of fewer and of more digits, with and without digits
\* behind the point.
MCNumbers == [neg : BOOLEAN,
              int : {<<7>>, <<4, 9, 9>>, <<5, 1, 0>>, <<5, 1, 1>>, <<5, 1, 2>>, <<5, 1, 3>>,
                     <<6, 0, 0>>, <<1, 0, 0, 0>>},
              frac : {<<>>, <<0, 0>>, <<5, 0>>, <<0, 5>>}]

MCTexts == {<<>>, <<"w">>, <<"w", " ">>, <<" ", "w">>, <<"w", " ", "w", " ", " ">>}

\* The limits, the days around 1970, and a second on either side of each; a part
\* of a second between two ticks, and one that is nearly the next second.
MCDates == [secs : {-37, -36, 57, 58, 71, 72} \cup {-7, -6, -5, -1, 0, 1, 5, 6, 7},
            us : {0, 51, 99}]
=============================================================================
