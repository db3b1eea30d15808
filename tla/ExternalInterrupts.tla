------------------------- MODULE ExternalInterrupts -------------------------
(* WInterrupts.c: the functions that the program attaches to INT0 and INT1.   *)
(* A pointer is stored in two halves, and an edge is remembered by the        *)
(* hardware until its interrupt is enabled.                                   *)
EXTENDS Pins

CONSTANTS
    Lines,          \* numbers of interrupts
    UserFuncs       \* what the program attaches

nothing == "nothing"

ASSUME ExternalAssumption ==
    /\ Lines \subseteq {0, 1} /\ UserFuncs \subseteq STRING /\ nothing \notin UserFuncs

VARIABLES
    intFunc,        \* the two halves of the pointer of each line
    EIMSK,          \* the lines that are enabled
    EIFR,           \* the lines that have an edge waiting
    attached,       \* the function last attached to each line, or nothing (history)
    called          \* what the last interrupt has called

externalVars == <<intFunc, EIMSK, EIFR, attached, called>>

Pointer(f) == <<f, f>>

ExternalInit ==
    /\ intFunc = [n \in Lines |-> Pointer(nothing)]
    /\ EIMSK = {} /\ EIFR = {}
    /\ attached = [n \in Lines |-> nothing] /\ called = <<>>

-----------------------------------------------------------------------------
Half(n, i, f) == Other("pointer", [line |-> n, half |-> i, func |-> f])

\* The program detaches a function before it attaches the next.
CallAttachInterrupt(n, f) ==
    /\ attached[n] = nothing
    /\ Calls(n + 2, <<Half(n, 1, f), Half(n, 2, f), Other("enable", n)>>)
    /\ attached' = [attached EXCEPT ![n] = f]
    /\ UNCHANGED <<asked, intFunc, EIMSK, EIFR, called>>

Mut_PointerFirst(n) ==
    /\ Calls(n + 2, <<Half(n, 1, nothing), Half(n, 2, nothing), Other("disable", n)>>)
    /\ attached' = [attached EXCEPT ![n] = nothing]
    /\ UNCHANGED <<asked, intFunc, EIMSK, EIFR, called>>

CallDetachInterrupt(n) ==
    /\ Calls(n + 2, <<Other("disable", n), Half(n, 1, nothing), Half(n, 2, nothing)>>)
    /\ attached' = [attached EXCEPT ![n] = nothing]
    /\ UNCHANGED <<asked, intFunc, EIMSK, EIFR, called>>

StorePointer ==
    /\ Does("pointer")
    /\ LET a == Head(script).arg IN intFunc' = [intFunc EXCEPT ![a.line][a.half] = a.func]
    /\ UNCHANGED EIMSK

SetMask ==
    /\ \/ Does("enable")  /\ EIMSK' = EIMSK \cup {Head(script).arg}
       \/ Does("disable") /\ EIMSK' = EIMSK \ {Head(script).arg}
    /\ UNCHANGED intFunc

ExternalStep ==
    /\ StorePointer \/ SetMask
    /\ UNCHANGED <<hardware, copy, pin, answer, analog_reference, asked, EIFR, attached, called>>

\* An edge on the pin, whether its interrupt is enabled or not.
Edge ==
    /\ \E n \in Lines : EIFR' = EIFR \cup {n}
    /\ UNCHANGED <<pinVars, intFunc, EIMSK, attached, called>>

ExternalInterrupt ==
    /\ interrupts
    /\ \E n \in EIFR \cap EIMSK :
           EIFR' = EIFR \ {n} /\ called' = <<intFunc[n], attached[n]>>
    /\ UNCHANGED <<pinVars, intFunc, EIMSK, attached>>

-----------------------------------------------------------------------------
(* Every edge that interrupts is handled by the whole pointer of a function   *)
(* that the program has attached to its line, and by the one attached last    *)
(* unless the program is just detaching it: none is swallowed by nothing, and *)
(* no half-written pointer is called (the order of the writes in              *)
(* attachInterrupt and detachInterrupt).                                      *)
EventsAreHandled ==
    called # <<>> => /\ called[1] \in {Pointer(f) : f \in UserFuncs}
                     /\ called[2] # nothing => called[1] = Pointer(called[2])
=============================================================================
