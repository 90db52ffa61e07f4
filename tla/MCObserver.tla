----------------------------- MODULE MCObserver -----------------------------
(* Instances of Observer for TLC: candles and detections are numbers. *)
EXTENDS Observer

\* Two detections on one candle and one, the opposite of the first, on a later one.
Two == {1, 2}
Three == {1, 2, 3}
TwoOnFirst == <<1, 1, 2>>
ThirdEndsFirst == {<<1, 3>>}
=============================================================================
