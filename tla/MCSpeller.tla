------------------------------- MODULE MCSpeller -------------------------------
(***************************************************************************)
(* Small keyboards for Speller: layouts of four, three and two buttons,    *)
(* with space bars, fill buttons and an unused button, and the letter      *)
(* functions that tell them apart.                                         *)
(***************************************************************************)
EXTENDS Speller

\* The types QWERTY, ABC, ABC_EXT, NUMBLOCK and ABC_47BTN, cut down.
MCNumButtons == <<5, 4, 3, 2, 6>>

MCLayouts == << <<1, Fill, 2, Space>>, <<3, Empty, Fill>>, <<Space, 6>> >>

Letters1 == {<<>>, <<2>>, <<3, 1>>, <<4, 4, 5, 6>>, <<Space, 1, 2>>}
MCProps == [letters : Letters1, invert : {FALSE}, enabled : BOOLEAN]
           \cup [letters : {<<>>, <<1, 2>>}, invert : {TRUE}, enabled : {TRUE}]
===============================================================================
