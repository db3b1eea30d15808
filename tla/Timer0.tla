------------------------------- MODULE Timer0 -------------------------------
(* wiring.c: the clock that the timeouts, the settling times and the LED are  *)
(* timed with.  Timer 0 counts in hardware; its overflow interrupt keeps the  *)
(* time in milliseconds.  The program reads both with interrupts disabled,    *)
(* and the timer counts on while it does.                                     *)
EXTENDS Integers

CONSTANTS
    TimerMod,       \* the values of TCNT0: 256
    UsPerTick,      \* 64 cycles at 16 MHz: 4 microseconds
    UsPerMs,        \* 1000
    FractUnit,      \* the fraction is kept shifted right by 3: 8
    WordMod,        \* the values of an unsigned long: 2^32
    LowMod,         \* the part of an unsigned long that is read at a time
    MaxDelay,       \* bound on the time a delay is asked for
    MaxLag          \* bound on the ticks between two steps of the program

MicrosPerOverflow == TimerMod * UsPerTick
MILLIS_INC == MicrosPerOverflow \div UsPerMs
FRACT_INC  == (MicrosPerOverflow % UsPerMs) \div FractUnit
FRACT_MAX  == UsPerMs \div FractUnit

ASSUME Timer0Assumption ==
    /\ TimerMod \in Nat \ {0, 1} /\ UsPerTick \in Nat \ {0}
    /\ UsPerMs \in Nat \ {0} /\ FractUnit \in Nat \ {0}
    /\ WordMod \in Nat \ {0} /\ LowMod \in Nat \ {0} /\ WordMod % LowMod = 0
    /\ MaxDelay \in Nat /\ MaxLag \in Nat \ {0}
    /\ (MicrosPerOverflow % UsPerMs) % FractUnit = 0 /\ UsPerMs % FractUnit = 0

VARIABLES
    TCNT0, TOV0,      \* the counter and its overflow flag
    timer0_overflow_count, timer0_millis, timer0_fract,
    interrupts,       \* SREG_I
    pc,               \* the place in a call, "idle" outside
    caller,           \* the call that micros() returns to
    m, t,             \* locals of millis() and micros()
    result,           \* what the last call returned
    ms, start,        \* locals of delay()
    now,              \* ticks since the start, modulo Cycle
    sampled,          \* now, when TCNT0 was last read
    lag,              \* ticks since the program's last step
    asked, since      \* what delay() was asked for, ticks since its start was read

clock   == <<TCNT0, TOV0, now>>
time    == <<timer0_overflow_count, timer0_millis, timer0_fract>>
locals  == <<caller, m, t, result, ms, start, sampled, asked>>
vars    == <<clock, time, interrupts, pc, locals, lag, since>>

\* The clock's registers and variables repeat after as many ticks.
Cycle == TimerMod * WordMod * FRACT_MAX
MaxSince == MaxDelay * UsPerMs

Low(x)  == x % LowMod
High(x) == x - Low(x)

Init ==
    /\ TCNT0 = 0 /\ TOV0 = FALSE /\ now = 0
    /\ timer0_overflow_count = 0 /\ timer0_millis = 0 /\ timer0_fract = 0
    /\ interrupts = TRUE
    /\ pc = "idle" /\ caller = "program" /\ m = 0 /\ t = 0 /\ result = 0
    /\ ms = 0 /\ start = 0 /\ sampled = 0 /\ lag = 0 /\ asked = 0 /\ since = 0

-----------------------------------------------------------------------------
(* The hardware.  Interrupts are never off, and no handler runs, for as long  *)
(* as the timer takes to go around, so that no overflow is lost; with         *)
(* interrupts off the program takes a step within a tick.                     *)

MayTick ==
    /\ ~(TOV0 /\ TCNT0 = TimerMod - 1)
    /\ \/ pc = "idle"
       \/ lag < IF interrupts THEN MaxLag ELSE 1

Tick ==
    /\ MayTick
    /\ TCNT0' = (TCNT0 + 1) % TimerMod
    /\ TOV0' = (TOV0 \/ TCNT0 = TimerMod - 1)
    /\ now' = (now + 1) % Cycle
    /\ lag' = IF pc = "idle" THEN 0 ELSE lag + 1
    /\ since' = IF caller # "program" /\ since < MaxSince THEN since + 1 ELSE since
    /\ UNCHANGED <<time, interrupts, pc, locals>>

-----------------------------------------------------------------------------
(* ISR(TIMER0_OVF_vect) *)

\* Mutant: the fraction is compared one too late.
Mut_FractLate(f) == f > FRACT_MAX

IsWholeMs(f) == f >= FRACT_MAX

TIMER0_OVF ==
    /\ interrupts /\ TOV0
    /\ TOV0' = FALSE
    /\ LET f == timer0_fract + FRACT_INC IN
          /\ timer0_fract' = IF IsWholeMs(f) THEN f - FRACT_MAX ELSE f
          /\ timer0_millis' =
                (timer0_millis + MILLIS_INC + IF IsWholeMs(f) THEN 1 ELSE 0) % WordMod
    /\ timer0_overflow_count' = (timer0_overflow_count + 1) % WordMod
    /\ UNCHANGED <<TCNT0, now, interrupts, pc, locals, lag, since>>

-----------------------------------------------------------------------------
(* Calls of the program, which goes on after a pending interrupt is served *)

Runs(place) ==
    /\ pc = place
    /\ ~(interrupts /\ TOV0)
    /\ lag' = 0
    /\ UNCHANGED <<clock, time>>

cli == interrupts' = FALSE

millis ==
    /\ Runs("idle")
    /\ cli
    /\ m' = Low(timer0_millis) /\ result' = 0
    /\ pc' = "millis"
    /\ UNCHANGED <<caller, t, ms, start, sampled, asked, since>>

\* A local that is dead is 0.
MillisReturns ==
    /\ Runs("millis")
    /\ result' = High(timer0_millis) + m
    /\ interrupts' = TRUE
    /\ pc' = "idle" /\ m' = 0
    /\ UNCHANGED <<caller, t, ms, start, sampled, asked, since>>

micros ==
    /\ Runs("micros")
    /\ cli
    /\ m' = timer0_overflow_count
    /\ pc' = "count"
    /\ UNCHANGED <<caller, t, result, ms, start, sampled, asked, since>>

ReadTCNT0 ==
    /\ Runs("count")
    /\ t' = TCNT0
    /\ sampled' = now
    /\ since' = IF caller = "start" THEN 0 ELSE since
    /\ pc' = "flag"
    /\ UNCHANGED <<interrupts, caller, m, result, ms, start, asked>>

\* Mutant: an overflow after TCNT0 was read is counted as well.
Mut_AnyOverflow == TOV0

\* The timer has overflowed before TCNT0 was read, and m does not have it yet.
OverflowMissed == TOV0 /\ t < TimerMod - 1

MicrosReturns ==
    /\ Runs("flag")
    /\ LET m1 == (m + IF OverflowMissed THEN 1 ELSE 0) % WordMod IN
          result' = (((m1 * TimerMod + t) % WordMod) * UsPerTick) % WordMod
    /\ interrupts' = TRUE
    /\ pc' = IF caller = "program" THEN "idle" ELSE caller
    /\ m' = 0 /\ t' = 0 /\ sampled' = 0
    /\ UNCHANGED <<caller, ms, start, asked, since>>

CallMicros(from) ==
    pc' = "micros" /\ caller' = from /\ result' = 0 /\ UNCHANGED <<m, t, sampled>>

ProgramMicros ==
    /\ Runs("idle")
    /\ CallMicros("program")
    /\ UNCHANGED <<interrupts, ms, start, asked, since>>

delay(time_ms) ==
    /\ Runs("idle")
    /\ ms' = time_ms /\ asked' = time_ms
    /\ CallMicros("start")
    /\ UNCHANGED <<interrupts, start, since>>

\* The outer loop, and yield(), which does nothing.
Wait(remaining, from) ==
    \/ /\ remaining > 0
       /\ CallMicros("wait")
       /\ ms' = remaining /\ start' = from
       /\ UNCHANGED <<interrupts, asked, since>>
    \/ /\ remaining = 0
       /\ pc' = "idle" /\ caller' = "program"
       /\ result' = 0 /\ ms' = 0 /\ start' = 0 /\ asked' = 0 /\ since' = 0
       /\ UNCHANGED <<interrupts, m, t, sampled>>

DelayStarts ==
    /\ Runs("start")
    /\ Wait(ms, result)

\* Mutant: the end of a millisecond is computed, and may wrap around.
Mut_WrapsAround == result >= (start + UsPerMs) % WordMod

Elapsed == (result - start) % WordMod >= UsPerMs

DelayWaits ==
    /\ Runs("wait")
    /\ IF Elapsed THEN Wait(ms - 1, (start + UsPerMs) % WordMod) ELSE Wait(ms, start)

Return == MillisReturns \/ micros \/ ReadTCNT0 \/ MicrosReturns \/ DelayStarts \/ DelayWaits

Next ==
    \/ Tick
    \/ TIMER0_OVF
    \/ millis
    \/ ProgramMicros
    \/ \E time_ms \in 0 .. MaxDelay : delay(time_ms)
    \/ Return

Spec == Init /\ [][Next]_vars

\* The timer runs, a pending interrupt is served, and a call goes on.
FairSpec == Spec /\ WF_vars(Tick) /\ WF_vars(TIMER0_OVF) /\ WF_vars(Return)

-----------------------------------------------------------------------------
(* What the clock promises *)

\* The overflows that the interrupt has counted.
Served == ((now \div TimerMod) - IF TOV0 THEN 1 ELSE 0) % (Cycle \div TimerMod)

\* The milliseconds and the fraction that TIMER0_OVF adds up by increments are
\* the time of all overflows together: nothing is lost to rounding, nor when
\* the words wrap around.
MillisIsTime ==
    timer0_millis * UsPerMs + timer0_fract * FractUnit =
        (Served * MicrosPerOverflow) % (WordMod * UsPerMs)

\* micros() returns the time at which it read TCNT0, whenever the timer
\* overflows in the call; millis() returns the time that the interrupt keeps,
\* never the halves of two times.
ReadingsAreExact ==
    [][/\ (pc = "flag" /\ pc' # "flag") => result' = (sampled * UsPerTick) % WordMod
       /\ (pc = "millis" /\ pc' = "idle") =>
             result' = ((Served * MicrosPerOverflow) \div UsPerMs) % WordMod]_vars

\* delay() does not return before the time has passed, also when micros() wraps
\* around while it waits.
DelayIsNotShort ==
    [][(pc \in {"start", "wait"} /\ pc' = "idle") => since * UsPerTick >= asked * UsPerMs]_vars

\* delay() returns, and not too early.
DelayIsKept ==
    /\ DelayIsNotShort
    /\ (pc \in {"start", "wait"}) ~> (pc = "idle")
=============================================================================
