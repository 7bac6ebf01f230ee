----------------------------- MODULE ShortTime -----------------------------
(***************************************************************************)
(* The arithmetic of time in the SHORT scheduler: user requests are in     *)
(* milliseconds, time slices in jiffies, and every conversion truncates.   *)
(* Source: OS/kernel/sched.c (setscheduler, scheduler_tick, sched_exit)    *)
(* and OS/kernel/fork.c (do_fork).                                         *)
(***************************************************************************)
EXTENDS Integers

CONSTANTS
    HZ,             \* timer interrupts per second (asm/param.h, not in the tree)
    WORD,           \* number of values of an unsigned int, 2^32 in the code
    MAX_REQUEST,    \* largest requested_time that setscheduler accepts, 3000 ms
    MIN_TIMESLICE,
    MAX_TIMESLICE

ASSUME HZAssumption == HZ \in Nat \ {0}
ASSUME WordAssumption == WORD \in Nat \ {0, 1}
ASSUME MaxRequestAssumption == MAX_REQUEST \in Nat
ASSUME TimesliceAssumption ==
    /\ MIN_TIMESLICE \in Nat \ {0}
    /\ MAX_TIMESLICE \in Nat \ {0}
    /\ MIN_TIMESLICE <= MAX_TIMESLICE

\* ms * HZ / 1000: whole jiffies in a number of milliseconds.
Jiffies(ms) == (ms * HZ) \div 1000

\* jiffies * 1000 / HZ: what sys_short_remaining_time reports of a slice.
Millis(jiffies) == (jiffies * 1000) \div HZ

\* Variant with a defect: a request below one jiffy leaves an empty slice.
AtLeastOneForgotten(n) == n

AtLeastOne(n) == IF n = 0 THEN 1 ELSE n

\* The slice of a task that setscheduler turns into a SHORT task.
ShortSlice(request) == AtLeastOne(Jiffies(request))

\* Variant with a defect: the time already used is not looked at.
ResizeUnchecked(request, requested_time, time_slice) == TRUE

\* A SHORT task that has used R - Millis(slice) of its R milliseconds may only
\* ask for more than that.  The subtraction is unsigned: a slice longer than
\* the request wraps to a huge number and every new request is refused.
ResizeAccepted(request, requested_time, time_slice) ==
    /\ Millis(time_slice) <= requested_time
    /\ request > requested_time - Millis(time_slice)

\* The new slice keeps the jiffies already used: new total - (old total - left).
ResizedSlice(request, requested_time, time_slice) ==
    AtLeastOne(Jiffies(request) - (Jiffies(requested_time) - time_slice))

RequestInRange(request) == request >= 1 /\ request <= MAX_REQUEST

\* The slice of the overdue period: 2 * requested_time * HZ / 1000.
OverdueSlice(requested_time) == Jiffies(2 * requested_time)

\* do_fork shares the parent's slice: the child gets the larger half.
ForkChildSlice(time_slice) == (time_slice + 1) \div 2
ForkParentSlice(time_slice) == time_slice \div 2

\* sched_exit: the parent takes the slice of a child that never used up its own.
ReturnedSlice(parent_slice, child_slice) ==
    IF parent_slice + child_slice > MAX_TIMESLICE
    THEN MAX_TIMESLICE
    ELSE parent_slice + child_slice

\* --p->time_slice on an unsigned int.
Decremented(time_slice) == (time_slice + WORD - 1) % WORD
=============================================================================
