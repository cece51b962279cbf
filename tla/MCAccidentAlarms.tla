--------------------------- MODULE MCAccidentAlarms ---------------------------
EXTENDS AccidentAlarms, TLC

TwoAlerts == 1 .. 2
Weather == {{"db"}, {"crash"}, {"operator"}, {"redis"}, {"stall"}, {"stall", "replay"}}
===============================================================================
