------------------------------ MODULE MCSetups ------------------------------
(* Instances of Setups for TLC: a level, and an average in two bins; a day's end and a long day. *)
EXTENDS Setups

LevelAndAverage ==
    {<<"breakout_acceptance", "p">>, <<"trend_pullback", "p">>, <<"trend_pullback", "q">>}

Days == <<1, 2, 2, 2, 2, 2, 2>>
=============================================================================
