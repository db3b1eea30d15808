-------------------------------- MODULE TC77 --------------------------------
(* TC77.cpp: the temperature sensor's word is read when the time of a         *)
(* conversion has passed since the last read.  The word is the temperature in *)
(* sixteenths of a degree, 13 bits of two's complement, then a bit that tells *)
(* that it is valid, and two more.                                            *)
EXTENDS SpiBus

CONSTANT Temperatures      \* in sixteenths of a degree

ASSUME TC77Assumption == Temperatures \subseteq -880 .. 2400

MSB_OVERTEMP == 62

VARIABLES
    errorCondition,
    previousReading,
    due,                   \* the time of a conversion has passed since the last
    sensor                 \* the word that the sensor holds

TempWord(temperature, valid) == (temperature % 8192) * 8 + IF valid THEN 4 ELSE 0

TempWords == {TempWord(t, valid) : t \in Temperatures, valid \in BOOLEAN}

TC77_IsReady(word)    == (word \div 4) % 2 = 1
TC77_IsOverTemp(word) == word \div 256 >= MSB_OVERTEMP

TC77_ReadRawData == <<Read16Bit("temp")>>

TC77_Init ==
    /\ InitChipSelectPin("temp")
    /\ errorCondition' = FALSE /\ previousReading' = 0 /\ due' = TRUE

\* Mutant: a word that is not ready is stored as well.
Mut_StoresAny(word) ==
    /\ due' = FALSE
    /\ errorCondition' = (errorCondition \/ TC77_IsOverTemp(word))
    /\ previousReading' = word

\* The rest of TC77_Update, when the word has been read.
TC77_Store(word) ==
    /\ due' = FALSE
    /\ errorCondition' = (errorCondition \/ TC77_IsOverTemp(word))
    /\ previousReading' =
          IF TC77_IsOverTemp(word) \/ TC77_IsReady(word) THEN word ELSE previousReading

\* In sixteenths of a degree; the sign is lost.
TC77_ConvertToTemp(word) == word \div 8
=============================================================================
