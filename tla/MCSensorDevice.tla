--------------------------- MODULE MCSensorDevice ---------------------------
(* Clocks that run into the upper half of their range and over its end;    *)
(* nothing, a little and much is lost; reports with one sample and with    *)
(* more than fit.                                                          *)
EXTENDS SensorDevice

Clocks == {32765, 65530}
Lost == {0, 3, 300}
OneOrMany == {1, 5}
=============================================================================
