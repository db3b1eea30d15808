--------------------------- MODULE SpiTransactions ---------------------------
(* SPI.h and SPI.cpp: the transactions of the SPI library, which keep away    *)
(* the interrupts whose handlers use the bus as well.                         *)
EXTENDS ExternalInterrupts

CONSTANT MaxBegins      \* bound on calls of SPI.begin() without SPI.end()

\* What usingInterrupt is told of interrupts other than INT0 and INT1.
AnyInterrupt == 255

VARIABLES
    initialized,        \* the calls of SPI.begin() without SPI.end()
    interruptMode,      \* "none", "mask" or "global"
    interruptMask,      \* the lines to mask
    interruptSave,      \* EIMSK, or the interrupt bit of SREG, before a transaction
    open,               \* a transaction is open (history)
    usesBus             \* the interrupts that the program has named (history)

spiVars == <<initialized, interruptMode, interruptMask, interruptSave, open, usesBus>>

SpiInit ==
    /\ initialized = 0 /\ interruptMode = "none"
    /\ interruptMask = {} /\ interruptSave = {}
    /\ open = FALSE /\ usesBus = {}

-----------------------------------------------------------------------------
(* The calls.  SPI.h:117 forbids all but endTransaction in a transaction.     *)

SpiCall(accesses) == Calls(0, accesses) /\ UNCHANGED <<asked, externalVars>>

CallSpiBegin ==
    /\ ~open /\ initialized < MaxBegins
    /\ SpiCall(Protected(<<Other("spi_begin", 0)>>))
    /\ UNCHANGED spiVars

CallSpiEnd ==
    /\ ~open
    /\ SpiCall(Protected(<<Other("spi_end", 0)>>))
    /\ UNCHANGED spiVars

CallUsingInterrupt(n) ==
    /\ ~open
    /\ SpiCall(Protected(<<Other("using", n)>>))
    /\ UNCHANGED spiVars

\* It returns at once in mode "global", which no interrupt leaves.
CallNotUsingInterrupt(n) ==
    /\ ~open
    /\ interruptMode # "global"
    /\ SpiCall(Protected(<<Other("not_using", n)>>))
    /\ UNCHANGED spiVars

beginTransaction ==
    CASE interruptMode = "none"   -> <<>>
      [] interruptMode = "mask"   -> Protected(<<Other("save_mask", 0)>>)
      [] interruptMode = "global" -> <<Other("cli", 0), Other("save_sreg", 0)>>

endTransaction ==
    CASE interruptMode = "none"   -> <<>>
      [] interruptMode = "mask"   -> Protected(<<Other("restore_mask", 0)>>)
      [] interruptMode = "global" -> <<Other("cli", 0), Other("restore_sreg", 0)>>

CallBeginTransaction ==
    /\ ~open /\ initialized > 0
    /\ SpiCall(beginTransaction)
    /\ open' = TRUE
    /\ UNCHANGED <<initialized, interruptMode, interruptMask, interruptSave, usesBus>>

CallEndTransaction ==
    /\ open
    /\ SpiCall(endTransaction)
    /\ open' = FALSE
    /\ UNCHANGED <<initialized, interruptMode, interruptMask, interruptSave, usesBus>>

SpiCalls ==
    \/ CallSpiBegin \/ CallSpiEnd
    \/ \E n \in Lines \cup {AnyInterrupt} : CallUsingInterrupt(n) \/ CallNotUsingInterrupt(n)
    \/ CallBeginTransaction \/ CallEndTransaction

-----------------------------------------------------------------------------
(* Their steps *)

CountBegins ==
    /\ Does("spi_begin")
    /\ initialized' = initialized + 1
    /\ UNCHANGED <<interrupts, EIMSK, interruptMode, interruptMask, interruptSave, usesBus>>

\* The last end() forgets the mode, but not the mask.
CountEnds ==
    /\ Does("spi_end")
    /\ initialized' = IF initialized > 0 THEN initialized - 1 ELSE 0
    /\ IF initialized' = 0
       THEN interruptMode' = "none" /\ usesBus' = {}
       ELSE UNCHANGED <<interruptMode, usesBus>>
    /\ UNCHANGED <<interrupts, EIMSK, interruptMask, interruptSave>>

usingInterrupt ==
    /\ Does("using")
    /\ LET n == Head(script).arg IN
       /\ usesBus' = usesBus \cup {n}
       /\ interruptMask' = IF n \in Lines THEN interruptMask \cup {n} ELSE interruptMask
       /\ interruptMode' = CASE n \notin Lines -> "global"
                             [] n \in Lines /\ interruptMode = "none" -> "mask"
                             [] OTHER -> interruptMode
    /\ UNCHANGED <<interrupts, EIMSK, initialized, interruptSave>>

notUsingInterrupt ==
    /\ Does("not_using")
    /\ usesBus' = usesBus \ {Head(script).arg}
    /\ interruptMask' = interruptMask \ {Head(script).arg}
    /\ interruptMode' = IF interruptMask' = {} THEN "none" ELSE interruptMode
    /\ UNCHANGED <<interrupts, EIMSK, initialized, interruptSave>>

\* Mutant: what was disabled before is enabled after the transaction.
Mut_MaskedEnabled ==
    /\ Does("restore_mask")
    /\ EIMSK' = EIMSK \cup interruptMask
    /\ UNCHANGED <<interrupts, initialized, interruptMode, interruptMask, interruptSave, usesBus>>

MaskInterrupts ==
    /\ Does("save_mask")
    /\ interruptSave' = EIMSK /\ EIMSK' = EIMSK \ interruptMask
    /\ UNCHANGED <<interrupts, initialized, interruptMode, interruptMask, usesBus>>

UnmaskInterrupts ==
    /\ Does("restore_mask")
    /\ EIMSK' = interruptSave
    /\ UNCHANGED <<interrupts, initialized, interruptMode, interruptMask, interruptSave, usesBus>>

\* Interrupts stay off for the whole transaction.
KeepInterruptsOff ==
    /\ Does("save_sreg")
    /\ interruptSave' = IF sreg THEN {AnyInterrupt} ELSE {}
    /\ UNCHANGED <<interrupts, EIMSK, initialized, interruptMode, interruptMask, usesBus>>

LetInterruptsOn ==
    /\ Does("restore_sreg")
    /\ interrupts' = (AnyInterrupt \in interruptSave)
    /\ UNCHANGED <<EIMSK, initialized, interruptMode, interruptMask, interruptSave, usesBus>>

SpiStep ==
    /\ \/ CountBegins \/ CountEnds \/ usingInterrupt \/ notUsingInterrupt
       \/ MaskInterrupts \/ UnmaskInterrupts \/ KeepInterruptsOff \/ LetInterruptsOn
    /\ UNCHANGED <<reg, ocr, adc, sreg, copy, pin, answer, analog_reference, asked,
                   intFunc, EIFR, attached, called, open>>

-----------------------------------------------------------------------------
(* No handler that the program has named to the library can run while a       *)
(* transaction is open, and none is kept away once it is closed: a line that  *)
(* has a function is enabled, and interrupts are on (beginTransaction,        *)
(* endTransaction, usingInterrupt, notUsingInterrupt and end of SPIClass).    *)
(* The program attaches and detaches outside of transactions, as              *)
(* endTransaction puts back the whole of EIMSK.                               *)
TransactionsAreExclusive ==
    Idle => IF open
            THEN interrupts => AnyInterrupt \notin usesBus /\ usesBus \cap EIMSK = {}
            ELSE interrupts /\ EIMSK = {n \in Lines : attached[n] # nothing}
=============================================================================
