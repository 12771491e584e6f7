--------------------------- MODULE MCBoardControl ---------------------------
(* Small instances of BoardControl for TLC.  A time unit is 250 ms (500 ms *)
(* in MCSnapshot, 1 s in MCTimer): STOPPED_AFTER_MS is two seconds in each,  *)
(* and a DMA read of 32 bytes delays a frame by less than two units of 250 ms.*)
EXTENDS BoardControl

Cmd(op) == [op |-> op, min |-> 0, sec |-> 0]
Cmds(ops) == {Cmd(op) : op \in ops}
SetTo(min, sec) == [op |-> "SetTimer", min |-> min, sec |-> sec]

StartAndScores == Cmds({"Start", "HomeInc", "HomeDec", "AwayInc", "AwayDec", "ScoresZero", "LedOn", "LedOff"})
TimerCommands  == Cmds({"Stop", "StartStop", "Reset", "Aux"}) \cup {SetTo(0, MaxSec + 1)}
OnlyStop       == Cmds({"Stop"})
OnlySetTimer   == {SetTo(0, MaxSec)}

\* A scoreboard at some time, with its clock stopped or counting.
At(min, sec, run) == [min |-> min, sec |-> sec, run |-> run, phase |-> 0, home |-> 0, away |-> 0]
StoppedAtPeriod == {At(PeriodMin, PeriodSec, "stop")}
ScoreLeftOrNone == {[b EXCEPT !.home = n] : b \in StoppedAtPeriod, n \in 0..1}
Counting        == {At(MaxMin, MaxSec, "run")}
=============================================================================
