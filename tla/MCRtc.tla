------------------------------- MODULE MCRtc -------------------------------
(***************************************************************************)
(* Small instances of Rtc: minutes of two seconds, hours of two minutes,   *)
(* days of two hours, and behaviours that begin before the end of every    *)
(* month that a timestamp can name.                                        *)
(***************************************************************************)
EXTENDS Rtc

EndsOfMonths ==
  {[sec |-> 0, min |-> MINUTES - 1, hour |-> HOURS - 1,
    day |-> d, month |-> m, year |-> y] : d \in 28..31, m \in 1..12, y \in Years}

Evenings == {c \in EndsOfMonths : c.day <= LengthOf(c.month, c.year)
                                  /\ (c.month # 2 => c.day = LengthOf(c.month, c.year))}
=============================================================================
