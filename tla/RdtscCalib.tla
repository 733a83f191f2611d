----------------------------- MODULE RdtscCalib -----------------------------
(***************************************************************************)
(* How the benchmarks find out how fast the time stamp counter runs: they  *)
(* busy-wait on the wall clock and count the cycles.  rdtsc.h waits for a  *)
(* tenth of a second looking at tv_nsec alone, to which it adds a second   *)
(* when it has rolled over; rtdsc.h and ip_fast_checksum.c wait for one    *)
(* second looking at seconds and microseconds.                             *)
(*                                                                         *)
(* A cycle is one unit of time.  The wall clock is not set while a program *)
(* waits, and the thread is never off the CPU for longer than Gap: tv_nsec *)
(* alone cannot tell how often it has rolled over.                         *)
(***************************************************************************)
EXTENDS Integers

CONSTANTS
    Second,   \* units of time in a second
    Tenth,    \* ... in 100 ms
    Gap,      \* the longest time between two steps of the thread
    MaxTime   \* bound on the time that passes

ASSUME ClockAssumption ==
    /\ Tenth \in Nat \ {0} /\ Second = 10 * Tenth
    /\ Gap \in Nat /\ 2 * Gap < Second /\ Tenth + Gap <= Second
    /\ MaxTime \in Nat

VARIABLES
    calPc,      \* "off", "clock", "tsc", "look", "stop" or "done"
    short,      \* is it the wait of rdtsc.h?
    clock,      \* the wall clock: sec and nsec (microseconds in rtdsc.h)
    cycles,     \* the time stamp counter, from the start of the program
    gap,        \* time since the thread's last step
    startClock, startCycles,
    rate,       \* cpu_cycles_per_sec, 0 before it is known
    seen        \* history: how long the wait had lasted at the last look

calVars == <<calPc, short, clock, cycles, gap, startClock, startCycles, rate, seen>>
Zero == [sec |-> 0, nsec |-> 0]

CalInit ==
    /\ calPc = "off" /\ short = FALSE /\ clock = Zero /\ cycles = 0 /\ gap = 0
    /\ startClock = Zero /\ startCycles = 0 /\ rate = 0 /\ seen = 0

(* The program starts at any moment of a second. *)
CalStart ==
    /\ calPc = "off"
    /\ short' \in BOOLEAN
    /\ \E n \in 0..(Second - 1) : clock' = [sec |-> 0, nsec |-> n]
    /\ calPc' = IF short' THEN "clock" ELSE "tsc"
    /\ UNCHANGED <<cycles, gap, startClock, startCycles, rate, seen>>

Running == calPc \notin {"off", "done"}

Tick ==
    /\ Running /\ gap < Gap /\ cycles < MaxTime
    /\ cycles' = cycles + 1 /\ gap' = gap + 1
    /\ clock' = IF clock.nsec + 1 < Second THEN [clock EXCEPT !.nsec = @ + 1]
                ELSE [sec |-> clock.sec + 1, nsec |-> 0]
    /\ UNCHANGED <<calPc, short, startClock, startCycles, rate, seen>>

(* clock_gettime or gettimeofday before the wait *)
ReadClock ==
    /\ calPc = "clock"
    /\ startClock' = clock
    /\ calPc' = IF short THEN "tsc" ELSE "look"
    /\ gap' = 0 /\ seen' = 0
    /\ UNCHANGED <<short, clock, cycles, startCycles, rate>>

(* start = rdtsc(), after the clock in rdtsc.h and before it in rtdsc.h *)
ReadTsc ==
    /\ calPc = "tsc"
    /\ startCycles' = cycles
    /\ calPc' = IF short THEN "look" ELSE "clock"
    /\ gap' = 0
    /\ UNCHANGED <<short, clock, cycles, startClock, rate, seen>>

(* Faulty variant: the roll-over is not corrected. *)
WaitOverNoRollover ==
    IF short THEN clock.nsec >= startClock.nsec + Tenth
    ELSE clock.sec * Second + clock.nsec >= startClock.sec * Second + startClock.nsec + Second

(* Faulty variant: it is corrected before it has rolled over, too. *)
WaitOverAtOnce ==
    IF short
    THEN LET nsec == IF startClock.nsec >= clock.nsec THEN clock.nsec + Second ELSE clock.nsec
         IN  nsec >= startClock.nsec + Tenth
    ELSE clock.sec * Second + clock.nsec >= startClock.sec * Second + startClock.nsec + Second

(* The loop's condition fails: in rdtsc.h after tv_nsec was corrected *)
WaitOver ==
    IF short
    THEN LET nsec == IF startClock.nsec > clock.nsec THEN clock.nsec + Second ELSE clock.nsec
         IN  nsec >= startClock.nsec + Tenth
    ELSE clock.sec * Second + clock.nsec >= startClock.sec * Second + startClock.nsec + Second

Elapsed == (clock.sec - startClock.sec) * Second + (clock.nsec - startClock.nsec)

Look ==
    /\ calPc = "look"
    /\ calPc' = IF WaitOver THEN "stop" ELSE "look"
    /\ gap' = 0 /\ seen' = Elapsed
    /\ UNCHANGED <<short, clock, cycles, startClock, startCycles, rate>>

(* now = rdtsc(); diff * 10, or diff *)
Stop ==
    /\ calPc = "stop"
    /\ rate' = (cycles - startCycles) * (IF short THEN 10 ELSE 1)
    /\ calPc' = "done"
    /\ gap' = 0
    /\ UNCHANGED <<short, clock, cycles, startClock, startCycles, seen>>

ThreadStep == CalStart \/ ReadClock \/ ReadTsc \/ Look \/ Stop

CalNext == Tick \/ ThreadStep

(* Time passes, and the thread runs between two ticks again and again. *)
CalFairness == WF_calVars(Tick) /\ WF_calVars(ReadClock \/ ReadTsc \/ Look \/ Stop)

CalSpec == CalInit /\ [][CalNext]_calVars /\ CalFairness

-----------------------------------------------------------------------------
CalTypeOK ==
    /\ calPc \in {"off", "clock", "tsc", "look", "stop", "done"} /\ short \in BOOLEAN
    /\ clock \in [sec: Nat, nsec: 0..(Second - 1)]
    /\ startClock \in [sec: Nat, nsec: 0..(Second - 1)]
    /\ cycles \in Nat /\ gap \in 0..Gap /\ startCycles \in Nat /\ rate \in Nat
    /\ seen \in Nat

Due == IF short THEN Tenth ELSE Second

(* The wait ends at the first look at the clock after its time has come,   *)
(* wherever in a second it began: never before, and not a roll-over later. *)
WaitIsExact ==
    /\ calPc = "look" => seen < Due
    /\ calPc \in {"stop", "done"} => seen \in Due..(Second + Gap)

(* The busy wait ends. *)
CalibrationEnds == calPc = "clock" ~> calPc = "done"
=============================================================================
