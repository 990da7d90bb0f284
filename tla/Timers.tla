------------------------------- MODULE Timers -------------------------------
(***************************************************************************)
(* common/libs/timer: the prescaler and the compare value that timer1_init *)
(* and timer2_init choose for a frequency, and so how often the handler    *)
(* really runs.  For whole frequencies the float arithmetic of the code    *)
(* cuts to the same integers as this one: no quotient lies within a float  *)
(* rounding of the next integer without being that integer.                *)
(***************************************************************************)
EXTENDS Integers

F_CPU       == 16000000
TIMER1_SIZE == 65535
TIMER2_SIZE == 255

\* F_CPU / ((SIZE + 1) * frequency), the prescaler that would just do.
Needed(frequency, size) == F_CPU \div ((size + 1) * frequency)

Prescaler1(needed) ==
  IF needed > 256 THEN 1024
  ELSE IF needed > 64 THEN 256
  ELSE IF needed > 8 THEN 64
  ELSE IF needed > 1 THEN 8
  ELSE 1

Prescaler2(needed) ==
  IF needed > 256 THEN 1024
  ELSE IF needed > 128 THEN 256
  ELSE IF needed > 64 THEN 128
  ELSE IF needed > 32 THEN 64
  ELSE IF needed > 8 THEN 32
  ELSE IF needed > 1 THEN 8
  ELSE 1

\* compare_match_value; the counter restarts after it.
CompareMatch(frequency, prescaler, size) ==
  LET value == F_CPU \div (frequency * prescaler) - 1
  IN  IF value > size THEN size ELSE IF value < 1 THEN 1 ELSE value

\* Clock cycles from one interrupt to the next.
Period1(frequency) ==
  LET p == Prescaler1(Needed(frequency, TIMER1_SIZE))
  IN  p * (CompareMatch(frequency, p, TIMER1_SIZE) + 1)

Period2(frequency) ==
  LET p == Prescaler2(Needed(frequency, TIMER2_SIZE))
  IN  p * (CompareMatch(frequency, p, TIMER2_SIZE) + 1)

\* The frequencies asked for: timer 1 publishes the reports of the spoofing
\* modules, refreshes the display and checks the petrol brake's sensors;
\* timer 2 publishes the petrol brake's reports.
PublishFrequency == 50
DisplayFrequency == 4
FaultCheckFrequency == 1

--------------------------------------------------------------------------
(* What a caller relies on. *)

\* The handler runs exactly as often as was asked.
Exact(frequency, period) == period * frequency = F_CPU

\* The handler never runs less often than was asked, up to the frequency at
\* which the compare value would have to be 0.
NeverSlower(frequency, period) == period * frequency <= F_CPU

\* It runs less than twice as often as was asked.
NotTwiceAsOften(frequency, period) == 2 * period * frequency > F_CPU
=============================================================================
